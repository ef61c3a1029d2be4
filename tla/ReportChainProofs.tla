--------------------------- MODULE ReportChainProofs ---------------------------
(***************************************************************************)
(* What ReportChain promises for any sites, zones, data and workers.  Rows *)
(* that were loaded are as good as rows that are there: what was submitted *)
(* once was submitted (sent never shrinks), and a row nobody has written   *)
(* since is the row itself (CallHolds).                                    *)
(***************************************************************************)
EXTENDS ReportChain, TLAPS

\* Everything the level below t has ever submitted.
Below(t) ==
    CASE t \in Zones -> UNION {sent[s] : s \in {x \in Sites : ZoneOf[x] = t}}
      [] t = Assistant -> UNION {sent[z] : z \in Zones}
      [] t = General -> sent[Assistant]

\* r, a row of t, says what was submitted below, and when it stands it has said so.
RowHolds(t, r) ==
    /\ t \in Zones \cup {Assistant, General} => r.body \subseteq Below(t)
    /\ r.status \in Standing => Alarms(t, r) \subseteq sent[t]

\* The snapshot of a standing site report is what it says.
Snapped(t, r) == t \in Sites /\ r.status \in Standing => r.snapshot = r.body

IsCall(c) == c = [op |-> c.op, on |-> c.on, row |-> c.row, found |-> c.found,
                  notes |-> c.notes, new |-> c.new]

\* The states of the row that each operation has checked.
OpFits(c) ==
    /\ c.op \in {"generate", "challenges", "recalculate", "submit", "return", "review"}
    /\ c.op \in {"challenges", "recalculate", "review"} => c.on \in Sites
    /\ c.op = "challenges" => c.notes \in Notes
    /\ c.op \in {"generate", "challenges", "recalculate"} => c.row.status = "draft"
    /\ c.op = "submit" =>
         c.row.status = "draft" \/ (c.on \in Sites /\ c.row.status = "returned")
    /\ c.op = "return" => /\ c.on # General
                          /\ \/ c.row.status = "submitted"
                             \/ c.on \in Sites /\ c.row.status = "zone_reviewed"
    /\ c.op = "review" => c.row.status = "submitted"

\* What was gathered for t can fill a row of t.
FindingFits(t, f) ==
    IF t \in Sites THEN f \in Data ELSE f \subseteq Below(t) /\ f \subseteq Sites

\* Nobody has written the row since it was loaded.
Current(c) == IF c.new THEN report[c.on].status = "absent" ELSE report[c.on] = c.row

LoadedHolds(w) ==
    /\ OpFits(call[w])
    /\ RowHolds(call[w].on, call[w].row)
    /\ ~raced => Snapped(call[w].on, call[w].row)
    /\ w \notin stale => Current(call[w])

CallHolds(w) ==
    /\ IsCall(call[w])
    /\ pc[w] \in {"loaded", "gathered"} => LoadedHolds(w)
    /\ pc[w] = "gathered" => FindingFits(call[w].on, call[w].found)
    /\ pc[w] = "noting" =>
         /\ call[w].on \in Sites /\ call[w].notes \in Notes
         /\ w \notin stale => report[call[w].on].status = "draft"

IInv ==
    /\ TypeOK
    /\ \A t \in Targets : RowHolds(t, report[t])
    /\ ~raced => \A t \in Targets : Snapped(t, report[t])
    /\ \A w \in Workers : CallHolds(w)

------------------------------------------------------------------------------
\* A row that has just been inserted, or is not there, says nothing.
LEMMA NewRowHolds ==
    ASSUME NEW t \in Targets
    PROVE  /\ NewRow(t) \in Row(t) /\ RowHolds(t, NewRow(t)) /\ Snapped(t, NewRow(t))
           /\ Absent(t) \in Row(t) /\ RowHolds(t, Absent(t)) /\ Snapped(t, Absent(t))
<1> USE ReportAssumption
<1>1. /\ NewRow(t).status = "draft" /\ Absent(t).status = "absent"
      /\ NewRow(t).body = Empty(t) /\ Absent(t).body = Empty(t)
  BY DEF NewRow, Absent
<1>2. t \in Zones \cup {Assistant, General} => Empty(t) = {}
  BY DEF Empty
<1>3. NewRow(t) \in Row(t) /\ Absent(t) \in Row(t)
  BY DEF NewRow, Absent, Empty, Row, SiteBody, Targets
<1> QED
  BY <1>1, <1>2, <1>3 DEF RowHolds, Snapped, Standing

LEMMA InitInv == Init => IInv
<1> USE ReportAssumption
<1> SUFFICES ASSUME Init PROVE IInv
  OBVIOUS
<1>1. PICK old \in SUBSET (Sites \ handled), d \in Data :
          report = [t \in Targets |-> IF t \in old THEN Submitted(d) ELSE Absent(t)]
  BY DEF Init
<1>2. ASSUME NEW t \in Targets
      PROVE  /\ report[t] \in Row(t) /\ Alarms(t, report[t]) \subseteq Sites
             /\ RowHolds(t, report[t]) /\ Snapped(t, report[t])
  <2>1. CASE t \in old
    <3>1. report[t] = Submitted(d) /\ t \in Sites
      BY <1>1, <2>1
    <3>2. report[t] \in Row(t) /\ Alarms(t, report[t]) \subseteq Sites
      BY <3>1 DEF Submitted, Row, SiteBody, Alarms
    <3>3. RowHolds(t, report[t])
      BY <3>1 DEF Init, RowHolds, Targets
    <3>4. Snapped(t, report[t])
      BY <3>1 DEF Submitted, Snapped
    <3> QED
      BY <3>2, <3>3, <3>4
  <2>2. CASE t \notin old
    <3>1. report[t] = Absent(t)
      BY <1>1, <2>2
    <3>2. Alarms(t, Absent(t)) \subseteq Sites
      BY DEF Absent, NewRow, Empty, Alarms
    <3> QED
      BY <3>1, <3>2, NewRowHolds
  <2> QED
    BY <2>1, <2>2
<1>3. ASSUME NEW w \in Workers
      PROVE  CallHolds(w) /\ pc[w] = "idle" /\ call[w].on \in Targets
  BY DEF Init, CallHolds, IsCall, NoCall, Targets
<1>4. sent \in [Targets -> SUBSET Sites]
  BY <1>2 DEF Init
<1>5. TypeOK
  BY <1>1, <1>2, <1>3, <1>4 DEF Init, TypeOK
<1> QED
  BY <1>2, <1>3, <1>5 DEF IInv

\* Loading keeps the invariant when what was checked holds of the loaded row.
LEMMA LoadsStep ==
    ASSUME IInv, NEW w \in Workers, NEW c, Loads(w, c), IsCall(c),
           c.on \in Targets, c.row \in Row(c.on), OpFits(c), RowHolds(c.on, c.row),
           ~raced => Snapped(c.on, c.row), Current(c)
    PROVE  IInv'
<1>1. /\ pc' = [pc EXCEPT ![w] = "loaded"] /\ call' = [call EXCEPT ![w] = c]
      /\ stale' = stale \ {w} /\ UNCHANGED <<handled, report, raced, sent>>
  BY DEF Loads
<1>2. /\ pc \in [Workers -> {"idle", "loaded", "gathered", "noting"}]
      /\ DOMAIN call = Workers
  BY DEF IInv, TypeOK
<1>3. /\ call'[w] = c /\ pc'[w] = "loaded"
      /\ \A v \in Workers \ {w} : call'[v] = call[v] /\ pc'[v] = pc[v]
                                  /\ (v \in stale' <=> v \in stale)
  BY <1>1, <1>2
<1>4. TypeOK'
  BY <1>1, <1>2, <1>3 DEF IInv, TypeOK
<1>5. \A t, r : (RowHolds(t, r)' <=> RowHolds(t, r)) /\ (Snapped(t, r)' <=> Snapped(t, r))
  BY <1>1 DEF RowHolds, Below, Snapped
<1>6. /\ \A t \in Targets : RowHolds(t, report[t])'
      /\ ~raced' => \A t \in Targets : Snapped(t, report[t])'
  BY <1>1, <1>5 DEF IInv, RowHolds, Below, Snapped
<1>7. CallHolds(w)'
  <2>1. LoadedHolds(w)'
    BY <1>1, <1>3 DEF LoadedHolds, RowHolds, Below, Snapped, Current, OpFits
  <2> QED
    BY <1>3, <2>1 DEF CallHolds, IsCall
<1>8. ASSUME NEW v \in Workers \ {w} PROVE CallHolds(v)'
  <2>1. CallHolds(v)
    BY DEF IInv
  <2>2. LoadedHolds(v) => LoadedHolds(v)'
    BY <1>1, <1>3 DEF LoadedHolds, RowHolds, Below, Snapped, Current, OpFits
  <2>3. \A t, f : FindingFits(t, f)' <=> FindingFits(t, f)
    <3>1. \A t : Below(t)' = Below(t)
      BY <1>1 DEF Below
    <3> QED
      BY <3>1 DEF FindingFits
  <2> QED
    BY <1>1, <1>3, <2>1, <2>2, <2>3 DEF CallHolds, IsCall
<1> QED
  BY <1>4, <1>6, <1>7, <1>8 DEF IInv

\* A draft is there, or is inserted with what an empty report says.
LEMMA DraftStep ==
    ASSUME IInv, NEW w \in Workers, NEW op, NEW t \in Targets, NEW notes,
           LoadsDraft(w, op, t, notes),
           \/ op = "generate"
           \/ op = "challenges" /\ t \in Sites /\ notes \in Notes
    PROVE  IInv'
<1>1. PICK row : row = IF report[t].status = "absent" THEN NewRow(t) ELSE report[t]
  OBVIOUS
<1>2. PICK c : c = [NoCall EXCEPT !.op = op, !.on = t, !.row = row, !.notes = notes,
                                  !.new = (report[t].status = "absent")]
  OBVIOUS
<1>3. Loads(w, c) /\ row.status = "draft"
  BY <1>1, <1>2 DEF LoadsDraft
<1>4. /\ IsCall(c) /\ c.op = op /\ c.on = t /\ c.row = row /\ c.notes = notes
      /\ c.new = (report[t].status = "absent")
  BY <1>2 DEF IsCall, NoCall
<1>5. row \in Row(t) /\ RowHolds(t, row) /\ (~raced => Snapped(t, row))
  BY <1>1, NewRowHolds DEF IInv, TypeOK
<1>6. OpFits(c)
  BY <1>3, <1>4 DEF OpFits
<1>7. Current(c)
  BY <1>1, <1>4 DEF Current
<1> QED
  BY <1>3, <1>4, <1>5, <1>6, <1>7, LoadsStep

\* A report is there, in a state that the operation accepts.
LEMMA ExistingStep ==
    ASSUME IInv, NEW w \in Workers, NEW op, NEW t \in Targets, NEW states,
           LoadsExisting(w, op, t, states), "absent" \notin states,
           OpFits([NoCall EXCEPT !.op = op, !.on = t, !.row = report[t]])
    PROVE  IInv'
<1>1. PICK c : c = [NoCall EXCEPT !.op = op, !.on = t, !.row = report[t]]
  OBVIOUS
<1>2. Loads(w, c) /\ OpFits(c)
  BY <1>1 DEF LoadsExisting
<1>3. IsCall(c) /\ c.on = t /\ c.row = report[t] /\ c.new = FALSE
  BY <1>1 DEF IsCall, NoCall
<1>4. /\ report[t] \in Row(t) /\ RowHolds(t, report[t])
      /\ ~raced => Snapped(t, report[t])
  BY DEF IInv, TypeOK
<1>5. Current(c)
  BY <1>3 DEF Current
<1> QED
  BY <1>2, <1>3, <1>4, <1>5, LoadsStep

\* Every endpoint loads the report it is about.
LEMMA LoadStep ==
    ASSUME IInv, NEW w \in Workers,
           \/ GenerateSite(w) \/ SaveChallenges(w) \/ Recalculate(w)
           \/ SubmitSite(w) \/ ReturnSite(w) \/ ReviewSite(w)
           \/ GenerateZone(w) \/ SubmitZone(w) \/ ReturnZone(w)
           \/ GenerateAssistant(w) \/ SubmitAssistant(w) \/ ReturnAssistant(w)
           \/ GenerateGeneral(w) \/ SubmitGeneral(w)
    PROVE  IInv'
<1> USE ReportAssumption
<1>1. CASE GenerateSite(w) \/ GenerateZone(w) \/ GenerateAssistant(w) \/ GenerateGeneral(w)
  BY <1>1, DraftStep
     DEF GenerateSite, GenerateZone, GenerateAssistant, GenerateGeneral, Targets
<1>2. CASE SaveChallenges(w)
  BY <1>2, DraftStep DEF SaveChallenges, Targets
<1>3. ASSUME NEW op, NEW t \in Targets, NEW states, LoadsExisting(w, op, t, states),
             \/ op = "recalculate" /\ t \in Sites /\ states = {"draft"}
             \/ op = "submit" /\ t \in Sites /\ states = {"draft", "returned"}
             \/ op = "submit" /\ states = {"draft"}
             \/ op = "return" /\ t \in Sites /\ states = {"submitted", "zone_reviewed"}
             \/ op = "return" /\ t # General /\ states = {"submitted"}
             \/ op = "review" /\ t \in Sites /\ states = {"submitted"}
      PROVE  IInv'
  <2>1. report[t].status \in states /\ "absent" \notin states
    BY <1>3 DEF LoadsExisting
  <2>2. PICK c : c = [NoCall EXCEPT !.op = op, !.on = t, !.row = report[t]]
    OBVIOUS
  <2>3. c.op = op /\ c.on = t /\ c.row = report[t]
    BY <2>2 DEF NoCall
  <2>4. OpFits(c)
    BY <1>3, <2>1, <2>3 DEF OpFits, Targets
  <2> QED
    BY <1>3, <2>1, <2>2, <2>4, ExistingStep
<1>4. CASE Recalculate(w) \/ SubmitSite(w) \/ ReturnSite(w) \/ ReviewSite(w)
  BY <1>3, <1>4 DEF Recalculate, SubmitSite, ReturnSite, ReviewSite, Targets
<1>5. CASE SubmitZone(w) \/ SubmitAssistant(w) \/ SubmitGeneral(w)
  BY <1>3, <1>5 DEF SubmitZone, SubmitAssistant, SubmitGeneral, Targets
<1>6. CASE ReturnZone(w) \/ ReturnAssistant(w)
  BY <1>3, <1>6 DEF ReturnZone, ReturnAssistant, Targets
<1> QED
  BY <1>1, <1>2, <1>4, <1>5, <1>6

------------------------------------------------------------------------------
\* Once said, it stays said: what a row may say only grows.
LEMMA SaidStays ==
    ASSUME \A y \in Targets : sent[y] \subseteq sent'[y],
           NEW t \in Targets
    PROVE  /\ t \in Zones \cup {Assistant, General} => Below(t) \subseteq Below(t)'
           /\ \A r : RowHolds(t, r) => RowHolds(t, r)'
           /\ \A f : FindingFits(t, f) => FindingFits(t, f)'
<1> USE ReportAssumption
<1>1. t \in Zones => Below(t) \subseteq Below(t)'
  BY DEF Below, Targets
<1>2. t = Assistant => Below(t) \subseteq Below(t)'
  BY DEF Below, Targets
<1>3. t = General => Below(t) \subseteq Below(t)'
  BY DEF Below, Targets
<1>4. t \notin Sites => t \in Zones \cup {Assistant, General}
  BY DEF Targets
<1>5. \A r : Alarms(t, r)' = Alarms(t, r)
  BY DEF Alarms
<1>6. ASSUME NEW r, RowHolds(t, r) PROVE RowHolds(t, r)'
  BY <1>1, <1>2, <1>3, <1>5, <1>6 DEF RowHolds
<1>7. ASSUME NEW f, FindingFits(t, f) PROVE FindingFits(t, f)'
  BY <1>1, <1>2, <1>3, <1>4, <1>7 DEF FindingFits
<1> QED
  BY <1>1, <1>2, <1>3, <1>6, <1>7

\* A call keeps what it has when another one writes t: it is stale from then on
\* if it holds t.
LEMMA OtherCalls ==
    ASSUME IInv, NEW w \in Workers, NEW v \in Workers \ {w}, NEW t \in Targets,
           call'[v] = call[v], pc'[v] = pc[v],
           \A y \in Targets \ {t} : report'[y] = report[y],
           report'[t] = report[t] \/ (v \in Others(w, t) => v \in stale'),
           v \in stale => v \in stale',
           \A y \in Targets : sent[y] \subseteq sent'[y],
           raced => raced'
    PROVE  CallHolds(v)'
<1>1. CallHolds(v) /\ call[v].on \in Targets
  BY DEF IInv, TypeOK
<1>2. ASSUME pc[v] # "idle", v \notin stale'
      PROVE  report'[call[v].on] = report[call[v].on]
  BY <1>1, <1>2 DEF Others
<1>3. ASSUME pc[v] \in {"loaded", "gathered"} PROVE LoadedHolds(v)'
  <2>1. LoadedHolds(v) /\ pc[v] # "idle"
    BY <1>1, <1>3 DEF CallHolds
  <2>2. OpFits(call[v])'
    BY <2>1 DEF LoadedHolds, OpFits
  <2>3. RowHolds(call[v].on, call[v].row)'
    <3>1. PICK y, r : y \in Targets /\ y = call[v].on /\ r = call[v].row
      BY <1>1
    <3>2. RowHolds(y, r)
      BY <2>1, <3>1 DEF LoadedHolds
    <3>3. RowHolds(y, r)'
      BY <3>1, <3>2, SaidStays
    <3> QED
      BY <3>1, <3>3
  <2>4. ~raced' => Snapped(call[v].on, call[v].row)'
    BY <2>1 DEF LoadedHolds, Snapped
  <2>5. v \notin stale' => Current(call[v])'
    BY <1>2, <2>1 DEF LoadedHolds, Current
  <2> QED
    BY <2>2, <2>3, <2>4, <2>5 DEF LoadedHolds
<1>4. ASSUME pc[v] = "gathered" PROVE FindingFits(call[v].on, call[v].found)'
  <2>1. PICK y, f : y \in Targets /\ y = call[v].on /\ f = call[v].found
    BY <1>1
  <2>2. FindingFits(y, f)
    BY <1>1, <1>4, <2>1 DEF CallHolds
  <2>3. FindingFits(y, f)'
    BY <2>1, <2>2, SaidStays
  <2> QED
    BY <2>1, <2>3
<1>5. ASSUME pc[v] = "noting", v \notin stale'
      PROVE  report'[call[v].on].status = "draft"
  BY <1>1, <1>2, <1>5 DEF CallHolds
<1> QED
  BY <1>1, <1>3, <1>4, <1>5 DEF CallHolds, IsCall

\* What the queries can find now has been submitted by the level below.
LEMMA FindingsFit ==
    ASSUME IInv, NEW t \in Targets, NEW f \in Findings(t)
    PROVE  FindingFits(t, f)
<1> USE ReportAssumption
<1>1. \A y \in Targets : RowHolds(y, report[y]) /\ report[y] \in Row(y)
  BY DEF IInv, TypeOK
<1>2. \A y \in Zones \cup {Assistant} : report[y].status = "submitted" =>
          report[y].body \subseteq sent[y] /\ report[y].body \subseteq Sites
  <2> SUFFICES ASSUME NEW y \in Zones \cup {Assistant}, report[y].status = "submitted"
               PROVE  report[y].body \subseteq sent[y] /\ report[y].body \subseteq Sites
    OBVIOUS
  <2>1. y \in Targets /\ y \notin Sites
    BY DEF Targets
  <2> QED
    BY <1>1, <2>1 DEF RowHolds, Row, Standing, Alarms
<1>3. CASE t \in Sites
  BY <1>3 DEF Findings, FindingFits
<1>4. CASE t \in Zones
  <2>1. f = ZoneIssues(t) /\ t \notin Sites
    BY <1>4 DEF Findings
  <2>2. ASSUME NEW s \in ZoneIssues(t)
        PROVE  s \in Sites /\ ZoneOf[s] = t /\ s \in sent[s]
    BY <1>1 DEF ZoneIssues, RowHolds, Standing, Alarms, Targets
  <2>3. ZoneIssues(t) \subseteq Below(t)
    BY <1>4, <2>2 DEF Below
  <2> QED
    BY <2>1, <2>2, <2>3 DEF FindingFits
<1>5. CASE t = Assistant
  <2>1. t \notin Sites /\ t \notin Zones
    BY <1>5
  <2>2. PICK zones \in SUBSET Zones : f = AssistantProblems(zones)
    BY <1>5, <2>1 DEF Findings
  <2>3. f \subseteq UNION {sent[z] : z \in Zones} /\ f \subseteq Sites
    BY <1>2, <2>2 DEF AssistantProblems
  <2> QED
    BY <1>5, <2>1, <2>3 DEF FindingFits, Below
<1>6. CASE t = General
  <2>1. t \notin Sites /\ t \notin Zones /\ t # Assistant
    BY <1>6
  <2>2. f = KeyIssues
    BY <1>6, <2>1 DEF Findings
  <2>3. f \subseteq sent[Assistant] /\ f \subseteq Sites
    BY <1>2, <2>2 DEF KeyIssues
  <2> QED
    BY <1>6, <2>1, <2>3 DEF FindingFits, Below
<1> QED
  BY <1>3, <1>4, <1>5, <1>6 DEF Targets

LEMMA GatherStep ==
    ASSUME IInv, NEW w \in Workers, Gather(w)
    PROVE  IInv'
<1>1. PICK f \in Findings(call[w].on) : call' = [call EXCEPT ![w].found = f]
  BY DEF Gather
<1>2. /\ pc[w] = "loaded" /\ pc' = [pc EXCEPT ![w] = "gathered"]
      /\ UNCHANGED <<handled, report, stale, raced, sent>>
  BY DEF Gather
<1>3. /\ pc \in [Workers -> {"idle", "loaded", "gathered", "noting"}]
      /\ DOMAIN call = Workers
  BY DEF IInv, TypeOK
<1>4. /\ call'[w] = [call[w] EXCEPT !.found = f] /\ pc'[w] = "gathered"
      /\ \A v \in Workers \ {w} : call'[v] = call[v] /\ pc'[v] = pc[v]
  BY <1>1, <1>2, <1>3
<1>5. /\ IsCall(call[w]) /\ LoadedHolds(w) /\ call[w].on \in Targets
      /\ call[w].row \in Row(call[w].on)
  BY <1>2 DEF IInv, CallHolds, TypeOK
<1>6. /\ IsCall(call'[w]) /\ call'[w].found = f /\ call'[w].op = call[w].op
      /\ call'[w].on = call[w].on /\ call'[w].row = call[w].row
      /\ call'[w].notes = call[w].notes /\ call'[w].new = call[w].new
  BY <1>4, <1>5 DEF IsCall
<1>7. TypeOK'
  BY <1>1, <1>2, <1>3, <1>4, <1>5, <1>6 DEF IInv, TypeOK
<1>8. /\ \A t \in Targets : RowHolds(t, report[t])'
      /\ ~raced' => \A t \in Targets : Snapped(t, report[t])'
  BY <1>2 DEF IInv, RowHolds, Below, Snapped
<1>9. LoadedHolds(w)'
  BY <1>2, <1>5, <1>6 DEF LoadedHolds, RowHolds, Below, Snapped, Current, OpFits
<1>10. FindingFits(call[w].on, call[w].found)'
  <2>1. PICK t \in Targets : t = call[w].on
    BY <1>5
  <2>2. FindingFits(t, f)
    BY <2>1, FindingsFit
  <2>3. FindingFits(t, f)'
    BY <1>2, <2>2, SaidStays
  <2> QED
    BY <1>6, <2>1, <2>3
<1>11. CallHolds(w)'
  BY <1>4, <1>6, <1>9, <1>10 DEF CallHolds
<1>12. ASSUME NEW v \in Workers \ {w} PROVE CallHolds(v)'
  BY <1>2, <1>4, <1>5, OtherCalls
<1> QED
  BY <1>7, <1>8, <1>11, <1>12 DEF IInv

\* What is saved is a row of the report, says what was submitted below, and has
\* its snapshot if it stands.
LEMMA SavedRow ==
    ASSUME IInv, NEW w \in Workers,
           pc[w] = IF Gathers(call[w]) THEN "gathered" ELSE "loaded",
           NEW c, c = call[w]
    PROVE  /\ Saved(c) \in Row(c.on)
           /\ c.on \in Zones \cup {Assistant, General} => Saved(c).body \subseteq Below(c.on)
           /\ Saved(c).status \in Standing /\ c.op # "submit" =>
                  Alarms(c.on, Saved(c)) \subseteq sent[c.on]
           /\ ~raced => Snapped(c.on, Saved(c))
           /\ c.op = "challenges" => Saved(c).status = "draft"
<1> USE ReportAssumption
<1>1. /\ LoadedHolds(w) /\ c.on \in Targets /\ c.row \in Row(c.on)
      /\ Gathers(c) => FindingFits(c.on, c.found)
  BY DEF IInv, CallHolds, TypeOK
<1>2. /\ OpFits(c) /\ RowHolds(c.on, c.row) /\ (~raced => Snapped(c.on, c.row))
  BY <1>1 DEF LoadedHolds
<1>3. c.on \notin Sites <=> c.on \in Zones \cup {Assistant, General}
  BY <1>1 DEF Targets
<1>4. CASE c.on \in Sites
  <2>1. /\ c.row = [status |-> c.row.status, body |-> c.row.body, snapshot |-> c.row.snapshot]
        /\ c.row.body \in SiteBody /\ c.row.snapshot \in SiteBody
        /\ c.row.status \in {"absent", "draft", "submitted", "returned", "zone_reviewed"}
    BY <1>1, <1>4 DEF Row
  <2>2. CASE Gathers(c)
    <3>1. Filled(c) \in SiteBody
      BY <1>1, <1>4, <2>1, <2>2 DEF FindingFits, Filled, SiteBody
    <3>2. Empty(c.on) \in SiteBody
      BY <1>4 DEF Empty, SiteBody
    <3>3. CASE c.op = "submit"
      <4>1. Saved(c) = [status |-> "submitted", body |-> Filled(c), snapshot |-> Filled(c)]
        BY <1>4, <2>1, <3>3 DEF Saved
      <4> QED
        BY <1>3, <1>4, <3>1, <3>3, <4>1 DEF Row, Snapped
    <3>4. CASE c.op # "submit"
      <4>1. c.op \in {"generate", "challenges", "recalculate"} /\ c.row.status = "draft"
        BY <1>2, <2>2, <3>4 DEF Gathers, OpFits
      <4>2. /\ Saved(c).status = "draft" /\ Saved(c) \in Row(c.on)
        BY <1>4, <2>1, <3>1, <3>2, <4>1 DEF Saved, Row
      <4> QED
        BY <1>3, <1>4, <4>2 DEF Snapped, Standing
    <3> QED
      BY <3>3, <3>4
  <2>3. CASE ~Gathers(c)
    <3>1. c.op \in {"return", "review"}
      BY <1>2, <1>4, <2>3 DEF Gathers, OpFits
    <3>2. /\ Saved(c).body = c.row.body /\ Saved(c).snapshot = c.row.snapshot
          /\ Saved(c) \in Row(c.on)
          /\ Saved(c).status = IF c.op = "return" THEN "returned" ELSE "zone_reviewed"
      BY <1>4, <2>1, <3>1 DEF Saved, Row
    <3>3. c.row.status \in Standing
      BY <1>2, <3>1 DEF OpFits, Standing
    <3>4. Alarms(c.on, Saved(c)) = Alarms(c.on, c.row)
      BY <3>2 DEF Alarms
    <3> QED
      BY <1>2, <1>3, <1>4, <3>1, <3>2, <3>3, <3>4 DEF RowHolds, Snapped
  <2> QED
    BY <2>2, <2>3
<1>5. CASE c.on \notin Sites
  <2>1. /\ c.row = [status |-> c.row.status, body |-> c.row.body, snapshot |-> c.row.snapshot]
        /\ c.row.body \in SUBSET Sites /\ c.row.snapshot = {}
        /\ c.row.body \subseteq Below(c.on)
        /\ c.row.status \in {"absent", "draft", "submitted", "returned"}
    BY <1>1, <1>2, <1>3, <1>5 DEF Row, RowHolds
  <2>2. ~Snapped(c.on, Saved(c)) => FALSE
    BY <1>5 DEF Snapped
  <2>3. CASE c.op = "generate"
    <3>1. c.found \in SUBSET Sites /\ c.found \subseteq Below(c.on) /\ c.row.status = "draft"
      BY <1>1, <1>2, <1>5, <2>3 DEF Gathers, FindingFits, OpFits
    <3>2. /\ Saved(c) = [status |-> "draft", body |-> c.found, snapshot |-> {}]
      BY <1>5, <2>1, <2>3, <3>1 DEF Saved, Filled, Empty
    <3> QED
      BY <1>5, <2>2, <2>3, <3>1, <3>2 DEF Row, Standing
  <2>4. CASE c.op \in {"submit", "return"}
    <3>1. Saved(c) = [status |-> IF c.op = "submit" THEN "submitted" ELSE "returned",
                      body |-> c.row.body, snapshot |-> {}]
      BY <1>5, <2>1, <2>4 DEF Saved
    <3> QED
      BY <1>5, <2>1, <2>2, <2>4, <3>1 DEF Row, Standing
  <2> QED
    BY <1>2, <1>5, <2>3, <2>4 DEF OpFits
<1> QED
  BY <1>4, <1>5

\* A commit: the row holds, and whoever else has loaded it is stale.
LEMMA SaveStep ==
    ASSUME IInv, NEW w \in Workers, Save(w)
    PROVE  IInv'
<1> USE ReportAssumption
<1>1. PICK c : c = call[w]
  OBVIOUS
<1>2. PICK new : new = Saved(c)
  OBVIOUS
<1>3. /\ c.on \in Targets /\ IsCall(c) /\ LoadedHolds(w) /\ OpFits(c)
      /\ pc \in [Workers -> {"idle", "loaded", "gathered", "noting"}]
      /\ DOMAIN call = Workers /\ DOMAIN report = Targets
      /\ sent \in [Targets -> SUBSET Sites]
  BY <1>1 DEF Save, IInv, TypeOK, CallHolds, LoadedHolds
<1>4. /\ new \in Row(c.on)
      /\ c.on \in Zones \cup {Assistant, General} => new.body \subseteq Below(c.on)
      /\ new.status \in Standing /\ c.op # "submit" => Alarms(c.on, new) \subseteq sent[c.on]
      /\ ~raced => Snapped(c.on, new)
      /\ c.op = "challenges" => new.status = "draft"
  BY <1>1, <1>2, SavedRow DEF Save
<1>5. Alarms(c.on, new) \subseteq Sites
  BY <1>3, <1>4 DEF Row, Alarms
<1>6. /\ report' = [report EXCEPT ![c.on] = new]
      /\ sent' = [sent EXCEPT ![c.on] =
                    IF c.op = "submit" THEN @ \cup Alarms(c.on, new) ELSE @]
      /\ pc' = [pc EXCEPT ![w] = IF c.op = "challenges" THEN "noting" ELSE "idle"]
      /\ call' = [call EXCEPT ![w] = IF c.op = "challenges"
                                     THEN [NoCall EXCEPT !.op = c.op, !.on = c.on,
                                                         !.notes = c.notes]
                                     ELSE NoCall]
      /\ stale' = (stale \cup Others(w, c.on)) \ {w}
      /\ UNCHANGED <<handled, raced>>
  BY <1>1, <1>2 DEF Save
<1>7. /\ report'[c.on] = new
      /\ \A y \in Targets \ {c.on} : report'[y] = report[y] /\ sent'[y] = sent[y]
      /\ sent'[c.on] = IF c.op = "submit" THEN sent[c.on] \cup Alarms(c.on, new)
                       ELSE sent[c.on]
      /\ \A v \in Workers \ {w} : call'[v] = call[v] /\ pc'[v] = pc[v]
                                  /\ (v \in Others(w, c.on) \cup stale => v \in stale')
  BY <1>3, <1>6
<1>8. \A y \in Targets : sent[y] \subseteq sent'[y]
  BY <1>7
<1>9. CallHolds(w)' /\ call'[w].on \in Targets /\ pc'[w] \in {"idle", "noting"}
  <2>1. CASE c.op = "challenges"
    <3>1. /\ pc'[w] = "noting" /\ IsCall(call'[w])
          /\ call'[w].on = c.on /\ call'[w].notes = c.notes
      BY <1>3, <1>6, <2>1 DEF NoCall, IsCall
    <3> QED
      BY <1>3, <1>4, <1>7, <2>1, <3>1 DEF CallHolds, IsCall, OpFits
  <2>2. CASE c.op # "challenges"
    <3>1. pc'[w] = "idle" /\ call'[w] = NoCall
      BY <1>3, <1>6, <2>2
    <3> QED
      BY <3>1 DEF CallHolds, IsCall, NoCall, Targets
  <2> QED
    BY <2>1, <2>2
<1>10. ASSUME NEW v \in Workers \ {w} PROVE CallHolds(v)'
  BY <1>3, <1>6, <1>7, <1>8, OtherCalls
<1>11. ASSUME NEW t \in Targets
       PROVE  RowHolds(t, report[t])' /\ (~raced' => Snapped(t, report[t])')
  <2>1. CASE t = c.on
    <3>1. t \in Zones \cup {Assistant, General} => new.body \subseteq Below(t)'
      BY <1>4, <1>8, <2>1, SaidStays
    <3>2. new.status \in Standing => Alarms(t, new) \subseteq sent'[t]
      BY <1>4, <1>7, <2>1
    <3>3. report'[t] = new /\ Alarms(t, new)' = Alarms(t, new)
      BY <1>7, <2>1 DEF Alarms
    <3> QED
      BY <1>4, <1>6, <2>1, <3>1, <3>2, <3>3 DEF RowHolds, Snapped, Alarms
  <2>2. CASE t # c.on
    <3>1. PICK r : r = report[t]
      OBVIOUS
    <3>2. RowHolds(t, r) /\ (~raced => Snapped(t, r))
      BY <3>1 DEF IInv
    <3>3. RowHolds(t, r)'
      BY <1>8, <3>2, SaidStays
    <3>4. report'[t] = r
      BY <1>7, <2>2, <3>1
    <3> QED
      BY <1>6, <3>2, <3>3, <3>4 DEF Snapped
  <2> QED
    BY <2>1, <2>2
<1>12. TypeOK'
  <2>1. /\ DOMAIN report' = Targets /\ \A t \in Targets : report'[t] \in Row(t)
    BY <1>3, <1>4, <1>6, <1>7 DEF IInv, TypeOK
  <2>2. sent' \in [Targets -> SUBSET Sites]
    BY <1>3, <1>5, <1>6
  <2>3. pc' \in [Workers -> {"idle", "loaded", "gathered", "noting"}] /\ DOMAIN call' = Workers
    BY <1>3, <1>6
  <2>4. \A v \in Workers : /\ call'[v].on \in Targets
                           /\ pc'[v] \in {"loaded", "gathered"} =>
                                  call'[v].row \in Row(call'[v].on)
    BY <1>7, <1>9 DEF IInv, TypeOK
  <2>5. handled' \in Handled /\ stale' \subseteq Workers /\ raced' \in BOOLEAN
    BY <1>6 DEF IInv, TypeOK, Others
  <2> QED
    BY <2>1, <2>2, <2>3, <2>4, <2>5 DEF TypeOK, Row, SiteBody
<1> QED
  BY <1>9, <1>10, <1>11, <1>12 DEF IInv

\* The challenges: on the draft that was generated, or by a worker that somebody
\* has overtaken.
LEMMA NoteStep ==
    ASSUME IInv, NEW w \in Workers, Note(w)
    PROVE  IInv'
<1> USE ReportAssumption
<1>1. PICK s \in Sites, n \in Notes : s = call[w].on /\ n = call[w].notes
  BY DEF Note, IInv, CallHolds
<1>2. /\ pc[w] = "noting" /\ report' = [report EXCEPT ![s].body.notes = n]
      /\ pc' = [pc EXCEPT ![w] = "idle"] /\ call' = [call EXCEPT ![w] = NoCall]
      /\ stale' = (stale \cup Others(w, s)) \ {w}
      /\ raced' = (raced \/ w \in stale) /\ UNCHANGED <<handled, sent>>
  BY <1>1 DEF Note
<1>3. /\ pc \in [Workers -> {"idle", "loaded", "gathered", "noting"}]
      /\ DOMAIN call = Workers /\ DOMAIN report = Targets /\ s \in Targets
      /\ report[s] \in Row(s) /\ raced \in BOOLEAN
  BY DEF IInv, TypeOK, Targets
<1>4. /\ call'[w] = NoCall /\ pc'[w] = "idle"
      /\ \A v \in Workers \ {w} : call'[v] = call[v] /\ pc'[v] = pc[v]
                                  /\ (v \in Others(w, s) \cup stale => v \in stale')
      /\ \A y \in Targets \ {s} : report'[y] = report[y]
  BY <1>2, <1>3
<1>5. /\ report'[s] \in Row(s) /\ report'[s].status = report[s].status
      /\ report'[s].body.data = report[s].body.data
  <2>1. report'[s] = [report[s] EXCEPT !.body = [report[s].body EXCEPT !.notes = n]]
    BY <1>2, <1>3
  <2>2. report[s].body \in SiteBody
    BY <1>3 DEF Row
  <2>3. /\ [report[s].body EXCEPT !.notes = n] \in SiteBody
        /\ [report[s].body EXCEPT !.notes = n].data = report[s].body.data
    BY <2>2 DEF SiteBody
  <2> QED
    BY <1>3, <2>1, <2>3 DEF Row
<1>6. CallHolds(w)' /\ call'[w].on \in Targets
  BY <1>4 DEF CallHolds, IsCall, NoCall, Targets
<1>7. ASSUME NEW v \in Workers \ {w} PROVE CallHolds(v)'
  BY <1>2, <1>3, <1>4, OtherCalls
<1>8. ASSUME NEW t \in Targets
      PROVE  RowHolds(t, report[t])' /\ (~raced' => Snapped(t, report[t])')
  <2>1. CASE t = s
    <3>1. Alarms(t, report[t])' = Alarms(t, report[t]) /\ t \notin Zones \cup {Assistant, General}
      BY <1>5, <2>1 DEF Alarms
    <3>2. RowHolds(t, report[t])'
      BY <1>2, <1>5, <2>1, <3>1 DEF IInv, RowHolds
    <3>3. ASSUME ~raced' PROVE report'[t].status = "draft"
      <4>1. w \notin stale
        BY <1>2, <3>3
      <4>2. report[s].status = "draft"
        BY <1>1, <1>2, <4>1 DEF IInv, CallHolds
      <4> QED
        BY <1>5, <2>1, <4>2
    <3> QED
      BY <3>2, <3>3 DEF Snapped, Standing
  <2>2. CASE t # s
    <3>1. report'[t] = report[t] /\ sent' = sent /\ (raced => raced')
      BY <1>2, <1>3, <1>4, <2>2
    <3>2. RowHolds(t, report[t])'
      BY <3>1 DEF IInv, RowHolds, Below, Alarms
    <3> QED
      BY <3>1, <3>2 DEF IInv, Snapped
  <2> QED
    BY <2>1, <2>2
<1>9. TypeOK'
  <2>1. /\ DOMAIN report' = Targets /\ \A t \in Targets : report'[t] \in Row(t)
    BY <1>2, <1>3, <1>4, <1>5 DEF IInv, TypeOK
  <2>2. pc' \in [Workers -> {"idle", "loaded", "gathered", "noting"}] /\ DOMAIN call' = Workers
    BY <1>2, <1>3
  <2>3. \A v \in Workers : /\ call'[v].on \in Targets
                           /\ pc'[v] \in {"loaded", "gathered"} =>
                                  call'[v].row \in Row(call'[v].on)
    BY <1>4, <1>6 DEF IInv, TypeOK
  <2>4. /\ handled' \in Handled /\ stale' \subseteq Workers /\ raced' \in BOOLEAN
        /\ sent' \in [Targets -> SUBSET Sites]
    BY <1>2 DEF IInv, TypeOK, Others
  <2> QED
    BY <2>1, <2>2, <2>3, <2>4 DEF TypeOK, Row, SiteBody
<1> QED
  BY <1>6, <1>7, <1>8, <1>9 DEF IInv

LEMMA AbortStep ==
    ASSUME IInv, NEW w \in Workers, Abort(w)
    PROVE  IInv'
<1> USE ReportAssumption
<1>1. /\ pc' = [pc EXCEPT ![w] = "idle"] /\ call' = [call EXCEPT ![w] = NoCall]
      /\ stale' = stale \ {w} /\ UNCHANGED <<handled, report, raced, sent>>
  BY DEF Abort
<1>2. /\ pc \in [Workers -> {"idle", "loaded", "gathered", "noting"}]
      /\ DOMAIN call = Workers
  BY DEF IInv, TypeOK
<1>3. /\ call'[w] = NoCall /\ pc'[w] = "idle"
      /\ \A v \in Workers \ {w} : call'[v] = call[v] /\ pc'[v] = pc[v]
                                  /\ (v \in stale => v \in stale')
  BY <1>1, <1>2
<1>4. CallHolds(w)' /\ NoCall.on \in Targets
  BY <1>3 DEF CallHolds, IsCall, NoCall, Targets
<1>5. ASSUME NEW v \in Workers \ {w} PROVE CallHolds(v)'
  BY <1>1, <1>3, <1>4, OtherCalls
<1>6. TypeOK'
  BY <1>1, <1>2, <1>3, <1>4 DEF IInv, TypeOK
<1>7. /\ \A t \in Targets : RowHolds(t, report[t])'
      /\ ~raced' => \A t \in Targets : Snapped(t, report[t])'
  BY <1>1 DEF IInv, RowHolds, Below, Snapped
<1> QED
  BY <1>4, <1>5, <1>6, <1>7 DEF IInv

LEMMA NextInv == IInv /\ [Next]_vars => IInv'
<1> SUFFICES ASSUME IInv, [Next]_vars PROVE IInv'
  OBVIOUS
<1>1. CASE Next
  BY <1>1, LoadStep, GatherStep, SaveStep, NoteStep, AbortStep DEF Next, Step
<1>2. CASE UNCHANGED vars
  <2>1. TypeOK'
    BY <1>2 DEF vars, IInv, TypeOK
  <2>2. /\ \A t \in Targets : RowHolds(t, report[t])'
        /\ ~raced' => \A t \in Targets : Snapped(t, report[t])'
    BY <1>2 DEF vars, IInv, RowHolds, Below, Snapped
  <2>3. ASSUME NEW w \in Workers PROVE CallHolds(w)'
    <3>1. LoadedHolds(w) => LoadedHolds(w)'
      BY <1>2 DEF vars, LoadedHolds, RowHolds, Below, Snapped, Current, OpFits
    <3>2. FindingFits(call[w].on, call[w].found) =>
              FindingFits(call[w].on, call[w].found)'
      <4>1. \A t : Below(t)' = Below(t)
        BY <1>2 DEF vars, Below
      <4> QED
        BY <1>2, <4>1 DEF vars, FindingFits
    <3> QED
      BY <1>2, <3>1, <3>2 DEF vars, IInv, CallHolds, IsCall
  <2> QED
    BY <2>1, <2>2, <2>3 DEF IInv
<1> QED
  BY <1>1, <1>2

------------------------------------------------------------------------------
\* The invariant holds of every behaviour.
THEOREM Invariant == Spec => []IInv
<1>1. Init => IInv
  BY InitInv
<1>2. IInv /\ [Next]_vars => IInv'
  BY NextInv
<1> QED
  BY <1>1, <1>2, PTL DEF Spec

\* The snapshot of a report that stands submitted is what its columns say, as
\* long as no challenges were entered in a report somebody had changed.
THEOREM SnapshotsAreReported == Spec => []RowsOK
<1>1. IInv => RowsOK
  BY DEF IInv, RowsOK, SnapshotIsReported, Snapped, Targets
<1> QED
  BY <1>1, Invariant, PTL

\* No report passes upwards what the level below has not submitted.
THEOREM OnlyWhatWasSubmitted == Spec => []OnlySubmissionsRise
<1>1. ASSUME IInv PROVE OnlySubmissionsRise
  <2> USE ReportAssumption
  <2>1. \A t \in Zones \cup {Assistant, General} : report[t].body \subseteq Below(t)
    BY <1>1 DEF IInv, RowHolds, Targets
  <2>2. \A z \in Zones : Below(z) = UNION {sent[s] : s \in {x \in Sites : ZoneOf[x] = z}}
    BY DEF Below
  <2>3. /\ Below(Assistant) = UNION {sent[z] : z \in Zones}
        /\ Below(General) = sent[Assistant]
    BY DEF Below
  <2> QED
    BY <2>1, <2>2, <2>3 DEF OnlySubmissionsRise
<1> QED
  BY <1>1, Invariant, PTL

\* A report that has been submitted keeps what it says and moves only onward,
\* unless a call writes that loaded the row before somebody else wrote it.
THEOREM SubmittedReportsStand == Spec => SubmittedStands
<1> USE ReportAssumption
<1> DEFINE Stands(t) ==
             ~Open(t, report[t]) =>
               \/ /\ report'[t].body = report[t].body
                  /\ report'[t].snapshot = report[t].snapshot
                  /\ report'[t].status \in Onward(t, report[t])
               \/ \E w \in stale : pc'[w] # pc[w] /\ call[w].on = t
<1>1. ASSUME NEW t \in Targets, report'[t] = report[t] PROVE Stands(t)
  BY <1>1 DEF Onward
<1>2. ASSUME IInv, NEW w \in Workers, Save(w), NEW t \in Targets PROVE Stands(t)
  <2>1. /\ pc[w] \in {"loaded", "gathered"} /\ LoadedHolds(w) /\ OpFits(call[w])
        /\ pc \in [Workers -> {"idle", "loaded", "gathered", "noting"}]
        /\ DOMAIN report = Targets
    BY <1>2 DEF Save, IInv, TypeOK, CallHolds, LoadedHolds
  <2>2. CASE t # call[w].on
    BY <1>1, <1>2, <2>1, <2>2 DEF Save
  <2>3. CASE t = call[w].on /\ w \in stale
    <3>1. pc'[w] \in {"idle", "noting"}
      BY <1>2, <2>1 DEF Save
    <3> QED
      BY <2>1, <2>3, <3>1
  <2>4. CASE t = call[w].on /\ w \notin stale
    <3> SUFFICES ASSUME ~Open(t, report[t]) PROVE Stands(t)
      OBVIOUS
    <3>1. PICK c : c = call[w]
      OBVIOUS
    <3>2. Current(c) /\ OpFits(c) /\ c.on = t
      BY <2>1, <2>4, <3>1 DEF LoadedHolds
    <3>3. report[t] = c.row
      BY <3>2 DEF Current, Open
    <3>4. c.row \in Row(t) /\ report'[t] = Saved(c)
      BY <1>2, <2>1, <2>4, <3>1, <3>3 DEF Save, IInv, TypeOK
    <3>5. c.op \in {"return", "review"}
      BY <3>2, <3>3 DEF OpFits, Open
    <3>6. /\ Saved(c).body = c.row.body /\ Saved(c).snapshot = c.row.snapshot
          /\ Saved(c).status = IF c.op = "return" THEN "returned" ELSE "zone_reviewed"
      BY <3>4, <3>5 DEF Saved, Row
    <3>7. Saved(c).status \in Onward(t, report[t])
      BY <3>2, <3>3, <3>5, <3>6 DEF OpFits, Onward, Targets
    <3> QED
      BY <3>3, <3>4, <3>6, <3>7
  <2> QED
    BY <2>2, <2>3, <2>4
<1>3. ASSUME IInv, NEW w \in Workers, Note(w), NEW t \in Targets PROVE Stands(t)
  <2>1. /\ pc[w] = "noting" /\ pc'[w] = "idle" /\ DOMAIN report = Targets
        /\ report' = [report EXCEPT ![call[w].on].body.notes = call[w].notes]
        /\ w \notin stale => report[call[w].on].status = "draft"
    BY <1>3 DEF Note, IInv, TypeOK, CallHolds
  <2>2. CASE t # call[w].on
    BY <1>1, <2>1, <2>2
  <2>3. CASE t = call[w].on /\ w \in stale
    BY <2>1, <2>3
  <2>4. CASE t = call[w].on /\ w \notin stale
    BY <2>1, <2>4 DEF Open
  <2> QED
    BY <2>2, <2>3, <2>4
<1>4. ASSUME IInv, [Next]_vars, NEW t \in Targets PROVE Stands(t)
  <2>1. CASE UNCHANGED vars
    BY <1>1, <2>1 DEF vars
  <2>2. ASSUME NEW w \in Workers, Step(w), ~Save(w), ~Note(w) PROVE report' = report
    BY <2>2 DEF Step, GenerateSite, SaveChallenges, Recalculate, SubmitSite, ReturnSite,
          ReviewSite, GenerateZone, SubmitZone, ReturnZone, GenerateAssistant,
          SubmitAssistant, ReturnAssistant, GenerateGeneral, SubmitGeneral,
          LoadsDraft, LoadsExisting, Loads, Gather, Abort
  <2> QED
    BY <1>1, <1>2, <1>3, <1>4, <2>1, <2>2 DEF Next
<1>5. IInv /\ [Next]_vars => [\A t \in Targets : Stands(t)]_vars
  BY <1>4
<1> QED
  BY <1>5, Invariant, PTL DEF Spec, SubmittedStands
==============================================================================
