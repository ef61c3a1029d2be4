------------------------------ MODULE ReportChain ------------------------------
(***************************************************************************)
(* The reports of one day, from reporting_services.py: daily site reports, *)
(* the summaries of the zones, the assistant's summary and the management  *)
(* report.  Every operation loads a row, decides on it and saves all of its *)
(* columns; drafts are filled from the level below.                        *)
(***************************************************************************)
EXTENDS Integers, FiniteSets

CONSTANTS
    Sites, Zones,
    ZoneOf,      \* the zone of each site
    Data,        \* what the modules hold about a site on the day
    Alarming,    \* the data with urgent or escalated issues
    Notes,       \* lists of challenges
    Assistant, General,  \* the two reports that exist once a day
    Handled,     \* bound: the sets of reports that one behaviour works on
    Workers      \* threads that serve requests

ASSUME ReportAssumption ==
    /\ ZoneOf \in [Sites -> Zones]
    /\ Alarming \subseteq Data
    /\ Sites \cap Zones = {}
    /\ {Assistant, General} \cap (Sites \cup Zones) = {}
    /\ Assistant # General
    /\ Handled \subseteq SUBSET (Sites \cup Zones \cup {Assistant, General})

VARIABLES
    handled,     \* the reports this behaviour works on
    report,      \* the committed rows of all four levels
    pc, call,    \* each worker's stage and the call it serves
    stale,       \* workers that will write a row written since they loaded it
    raced,       \* whether a stale worker has written notes
    sent         \* the alarms a report held when it was submitted

vars == <<handled, report, pc, call, stale, raced, sent>>

------------------------------------------------------------------------------
Targets == Sites \cup Zones \cup {Assistant, General}

None == "none"

\* A draft as get_or_create inserts it: of a site, the aggregates and the
\* challenges; of the levels above, the sites with extracted issues.
Empty(t) == IF t \in Sites THEN [data |-> None, notes |-> None] ELSE {}

NewRow(t) == [status |-> "draft", body |-> Empty(t), snapshot |-> Empty(t)]

Absent(t) == [NewRow(t) EXCEPT !.status = "absent"]

NoCall == [op |-> "none", on |-> Assistant, row |-> NewRow(Assistant),
           found |-> None, notes |-> None, new |-> FALSE]

\* The alarms of a row of t.
Alarms(t, row) ==
    IF t \notin Sites THEN row.body
    ELSE IF row.body.data \in Alarming THEN {t} ELSE {}

\* A site report that has been submitted before.
Submitted(d) ==
    [status |-> "submitted", body |-> [data |-> d, notes |-> None],
     snapshot |-> [data |-> d, notes |-> None]]

Init ==
    /\ handled \in Handled
    /\ \E old \in SUBSET (Sites \ handled), d \in Data :
           report = [t \in Targets |-> IF t \in old THEN Submitted(d)
                                      ELSE Absent(t)]
    /\ pc = [w \in Workers |-> "idle"]
    /\ call = [w \in Workers |-> NoCall]
    /\ stale = {}
    /\ raced = FALSE
    /\ sent = [t \in Targets |-> Alarms(t, report[t])]

------------------------------------------------------------------------------
\* w loads the row it is going to save.
Loads(w, c) ==
    /\ pc[w] = "idle"
    /\ c.on \in handled
    /\ pc' = [pc EXCEPT ![w] = "loaded"]
    /\ call' = [call EXCEPT ![w] = c]
    /\ stale' = stale \ {w}
    /\ UNCHANGED <<handled, report, raced, sent>>

\* The row being inserted by another transaction: get_or_create waits for it.
BeingCreated(t) ==
    \E v \in Workers : pc[v] # "idle" /\ call[v].new /\ call[v].on = t

\* get_or_create of a report that must be a draft.
LoadsDraft(w, op, t, notes) ==
    LET absent == report[t].status = "absent"
        row == IF absent THEN NewRow(t) ELSE report[t]
    IN  /\ absent => ~BeingCreated(t)
        /\ row.status = "draft"
        /\ Loads(w, [NoCall EXCEPT !.op = op, !.on = t, !.row = row,
                                   !.notes = notes, !.new = absent])

\* A report that is there and in one of the states.
LoadsExisting(w, op, t, states) ==
    /\ report[t].status \in states
    /\ Loads(w, [NoCall EXCEPT !.op = op, !.on = t, !.row = report[t]])

GenerateSite(w) == \E s \in Sites : LoadsDraft(w, "generate", s, None)

\* The challenges are saved on a report that has just been generated.
SaveChallenges(w) ==
    \E s \in Sites, n \in Notes : LoadsDraft(w, "challenges", s, n)

\* recalculate_report_snapshots, for one of the drafts it has loaded.
Recalculate(w) ==
    \E s \in Sites : LoadsExisting(w, "recalculate", s, {"draft"})

SubmitSite(w) ==
    \E s \in Sites : LoadsExisting(w, "submit", s, {"draft", "returned"})

ReturnSite(w) ==
    \E s \in Sites :
        LoadsExisting(w, "return", s, {"submitted", "zone_reviewed"})

ReviewSite(w) ==
    \E s \in Sites : LoadsExisting(w, "review", s, {"submitted"})

GenerateZone(w) == \E z \in Zones : LoadsDraft(w, "generate", z, None)

\* Mutant: a returned summary may be submitted again.
SubmitZone_Returned(w) ==
    \E z \in Zones : LoadsExisting(w, "submit", z, {"draft", "returned"})

SubmitZone(w) == \E z \in Zones : LoadsExisting(w, "submit", z, {"draft"})

ReturnZone(w) == \E z \in Zones : LoadsExisting(w, "return", z, {"submitted"})

GenerateAssistant(w) == LoadsDraft(w, "generate", Assistant, None)

SubmitAssistant(w) == LoadsExisting(w, "submit", Assistant, {"draft"})

ReturnAssistant(w) == LoadsExisting(w, "return", Assistant, {"submitted"})

GenerateGeneral(w) == LoadsDraft(w, "generate", General, None)

SubmitGeneral(w) == LoadsExisting(w, "submit", General, {"draft"})

------------------------------------------------------------------------------
(* What a report is filled with.                                            *)

\* Mutant: the summary takes whatever report the site has.
ZoneIssues_AnyStatus(z) ==
    {s \in Sites : ZoneOf[s] = z /\ report[s].body.data \in Alarming}

\* The sites of z whose submitted reports carry urgent or escalated issues.
ZoneIssues(z) ==
    {s \in Sites : /\ ZoneOf[s] = z
                   /\ report[s].status \in {"submitted", "zone_reviewed"}
                   /\ report[s].body.data \in Alarming}

\* The issues of the submitted summaries of the zones asked for.
AssistantProblems(zones) ==
    UNION {report[z].body : z \in {y \in zones : report[y].status = "submitted"}}

KeyIssues ==
    IF report[Assistant].status = "submitted" THEN report[Assistant].body ELSE {}

\* The results the queries can give now: whatever the modules hold about a
\* site, and what the level below has submitted.
Findings(t) ==
    CASE t \in Sites -> Data
      [] t \in Zones -> {ZoneIssues(t)}
      [] t = Assistant -> {AssistantProblems(zones) : zones \in SUBSET Zones}
      [] t = General -> {KeyIssues}

\* Whether the call aggregates before it saves.
Gathers(c) ==
    \/ c.op \in {"generate", "recalculate", "challenges"}
    \/ c.op = "submit" /\ c.on \in Sites

Gather(w) ==
    LET c == call[w] IN
    /\ pc[w] = "loaded"
    /\ Gathers(c)
    /\ pc' = [pc EXCEPT ![w] = "gathered"]
    /\ \E f \in Findings(c.on) : call' = [call EXCEPT ![w].found = f]
    /\ UNCHANGED <<handled, report, stale, raced, sent>>

------------------------------------------------------------------------------
(* Saving.                                                                  *)

\* The body with what has been found.
Filled(c) ==
    IF c.on \in Sites THEN [c.row.body EXCEPT !.data = c.found] ELSE c.found

\* Mutant: submission keeps the snapshot of the last generation.
Saved_NoSnapshot(c) ==
    CASE c.op \in {"generate", "recalculate", "challenges"} ->
           [c.row EXCEPT !.body = Filled(c)]
      [] c.op = "submit" /\ c.on \in Sites ->
           [c.row EXCEPT !.status = "submitted", !.body = Filled(c)]
      [] c.op = "submit" /\ c.on \notin Sites ->
           [c.row EXCEPT !.status = "submitted"]
      [] c.op = "return" -> [c.row EXCEPT !.status = "returned"]
      [] c.op = "review" -> [c.row EXCEPT !.status = "zone_reviewed"]

\* The row that is saved, made from the row that was loaded.
Saved(c) ==
    CASE c.op \in {"generate", "challenges"} ->
           [c.row EXCEPT !.body = Filled(c), !.snapshot = Empty(c.on)]
      [] c.op = "recalculate" -> [c.row EXCEPT !.body = Filled(c)]
      [] c.op = "submit" /\ c.on \in Sites ->
           [c.row EXCEPT !.status = "submitted", !.body = Filled(c),
                         !.snapshot = Filled(c)]
      [] c.op = "submit" /\ c.on \notin Sites ->
           [c.row EXCEPT !.status = "submitted"]
      [] c.op = "return" -> [c.row EXCEPT !.status = "returned"]
      [] c.op = "review" -> [c.row EXCEPT !.status = "zone_reviewed"]

\* Workers other than w that have loaded t.
Others(w, t) ==
    {v \in Workers \ {w} : pc[v] # "idle" /\ call[v].on = t}

\* The transaction commits all the columns of the row.
Save(w) ==
    LET c == call[w] IN
    /\ pc[w] = IF Gathers(c) THEN "gathered" ELSE "loaded"
    /\ report' = [report EXCEPT ![c.on] = Saved(c)]
    /\ sent' = [sent EXCEPT ![c.on] =
                  IF c.op = "submit" THEN @ \cup Alarms(c.on, Saved(c)) ELSE @]
    /\ pc' = [pc EXCEPT ![w] = IF c.op = "challenges" THEN "noting" ELSE "idle"]
    /\ call' = [call EXCEPT ![w] = IF c.op = "challenges"
                                   THEN [NoCall EXCEPT !.op = c.op, !.on = c.on,
                                                       !.notes = c.notes]
                                   ELSE NoCall]
    /\ stale' = (stale \cup Others(w, c.on)) \ {w}
    /\ UNCHANGED <<handled, raced>>

\* The endpoint then saves the challenges, one column, in a statement of its
\* own and without looking at the report again.
Note(w) ==
    LET c == call[w] IN
    /\ pc[w] = "noting"
    /\ report' = [report EXCEPT ![c.on].body.notes = c.notes]
    /\ pc' = [pc EXCEPT ![w] = "idle"]
    /\ call' = [call EXCEPT ![w] = NoCall]
    /\ stale' = (stale \cup Others(w, c.on)) \ {w}
    /\ raced' = (raced \/ w \in stale)
    /\ UNCHANGED <<handled, sent>>

\* A refusal after the load, an error, or the worker dies: the transaction
\* that is open is rolled back.
Abort(w) ==
    /\ pc[w] # "idle"
    /\ pc' = [pc EXCEPT ![w] = "idle"]
    /\ call' = [call EXCEPT ![w] = NoCall]
    /\ stale' = stale \ {w}
    /\ UNCHANGED <<handled, report, raced, sent>>

Step(w) ==
    \/ GenerateSite(w) \/ SaveChallenges(w) \/ Recalculate(w)
    \/ SubmitSite(w) \/ ReturnSite(w) \/ ReviewSite(w)
    \/ GenerateZone(w) \/ SubmitZone(w) \/ ReturnZone(w)
    \/ GenerateAssistant(w) \/ SubmitAssistant(w) \/ ReturnAssistant(w)
    \/ GenerateGeneral(w) \/ SubmitGeneral(w)
    \/ Gather(w) \/ Save(w) \/ Note(w) \/ Abort(w)

Next == \E w \in Workers : Step(w)

Spec == Init /\ [][Next]_vars

------------------------------------------------------------------------------
SiteBody == [data : Data \cup {None}, notes : Notes \cup {None}]

Row(t) ==
    IF t \in Sites
    THEN [status : {"absent", "draft", "submitted", "returned", "zone_reviewed"},
          body : SiteBody, snapshot : SiteBody]
    ELSE [status : {"absent", "draft", "submitted", "returned"},
          body : SUBSET Sites, snapshot : {{}}]

TypeOK ==
    /\ handled \in Handled
    /\ DOMAIN report = Targets /\ \A t \in Targets : report[t] \in Row(t)
    /\ pc \in [Workers -> {"idle", "loaded", "gathered", "noting"}]
    /\ DOMAIN call = Workers
    /\ \A w \in Workers :
         /\ call[w].on \in Targets
         /\ pc[w] \in {"loaded", "gathered"} => call[w].row \in Row(call[w].on)
    /\ stale \subseteq Workers
    /\ raced \in BOOLEAN
    /\ sent \in [Targets -> SUBSET Sites]

Standing == {"submitted", "zone_reviewed"}

\* "every submission stores an immutable snapshot": the snapshot of a report
\* that stands submitted is what its columns say, however the calls interleave,
\* as long as no challenges were entered in a report somebody had changed.
SnapshotIsReported ==
    ~raced => \A s \in Sites : report[s].status \in Standing =>
                  report[s].snapshot = report[s].body

\* Types and snapshots.
RowsOK == TypeOK /\ SnapshotIsReported

\* What reaches a report comes from reports of the level below that were
\* submitted when they said it: nobody's draft is ever passed upwards.
OnlySubmissionsRise ==
    /\ \A z \in Zones : report[z].body \subseteq
                          UNION {sent[s] : s \in {x \in Sites : ZoneOf[x] = z}}
    /\ report[Assistant].body \subseteq UNION {sent[z] : z \in Zones}
    /\ report[General].body \subseteq sent[Assistant]

Open(t, r) == r.status \in {"absent", "draft"} \cup
                 IF t \in Sites THEN {"returned"} ELSE {}

\* The states a submitted report may go to.
Onward(t, r) ==
    {r.status} \cup
    CASE r.status = "submitted" /\ t \in Sites -> {"returned", "zone_reviewed"}
      [] r.status = "zone_reviewed" -> {"returned"}
      [] r.status = "submitted" /\ t \in Zones \cup {Assistant} -> {"returned"}
      [] OTHER -> {}

\* A report that has been submitted keeps what it says and moves only onward,
\* and a returned summary stays returned, unless a call writes that loaded the
\* row before somebody else wrote it.
SubmittedStands ==
    [][\A t \in Targets : ~Open(t, report[t]) =>
         \/ /\ report'[t].body = report[t].body
            /\ report'[t].snapshot = report[t].snapshot
            /\ report'[t].status \in Onward(t, report[t])
         \/ \E w \in stale : pc'[w] # pc[w] /\ call[w].on = t]_vars
==============================================================================
