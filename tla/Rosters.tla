-------------------------------- MODULE Rosters --------------------------------
(***************************************************************************)
(* A supervisor's timetable entries and the checklists written under them, *)
(* one per entry, kind and day (supervisor_roster_services.py).            *)
(* Entries are edited, deactivated and deleted by administrators while the *)
(* supervisor saves and submits the checklist and a senior reviews it.     *)
(***************************************************************************)
EXTENDS Naturals

CONSTANTS
    Entries, Kinds,
    Tables,   \* contents of a checklist; "" is the empty table
    Workers   \* threads that serve requests

VARIABLES
    entry,     \* each timetable entry's state
    list,      \* the checklist of each entry and kind, on the day
    pc, call,  \* each worker's stage and what it loaded
    raced      \* a call wrote over a checklist that had changed

vars == <<entry, list, pc, call, raced>>

------------------------------------------------------------------------------
Absent == [status |-> "none", table |-> "", snapshot |-> ""]
NoCall == [op |-> "none", entry |-> "none", kind |-> "none", state |-> "none",
           list |-> Absent, table |-> ""]

\* Mutant: what was reviewed may be edited.
IsEditable_Reviewed(l) == l.status # "submitted"

IsEditable(l) == l.status \in {"draft", "returned"}

Evidence(e) == {k \in Kinds : list[e][k] # Absent}

Init ==
    /\ entry = [e \in Entries |-> "none"]
    /\ list = [e \in Entries |-> [k \in Kinds |-> Absent]]
    /\ pc = [w \in Workers |-> "idle"]
    /\ call = [w \in Workers |-> NoCall]
    /\ raced = FALSE

\* create_timetable_entry
Create ==
    \E e \in Entries :
        /\ entry[e] = "none"
        /\ entry' = [entry EXCEPT ![e] = "active"]
        /\ UNCHANGED <<list, pc, call, raced>>

------------------------------------------------------------------------------
Begin(w, c, stage) ==
    /\ pc[w] = "idle"
    /\ pc' = [pc EXCEPT ![w] = stage]
    /\ call' = [call EXCEPT ![w] = c]
    /\ UNCHANGED <<entry, list, raced>>

\* The endpoints of the entry, and the one that saves a checklist and checks
\* that the entry is scheduled, load the entry ...
LoadEntry(w) ==
    \E e \in {x \in Entries : entry[x] \in {"active", "inactive"}} :
        \/ \E op \in {"deactivate", "delete"} :
             Begin(w, [NoCall EXCEPT !.op = op, !.entry = e, !.state = entry[e]],
                   "loaded")
        \/ \E state \in {"active", "inactive"} :  \* as it is or as requested
             Begin(w, [NoCall EXCEPT !.op = "update", !.entry = e, !.state = state],
                   "loaded")
        \/ /\ entry[e] = "active"
           /\ \E k \in Kinds, t \in Tables :
                Begin(w, [NoCall EXCEPT !.op = "save", !.entry = e, !.kind = k,
                                        !.table = t], "loaded")

\* ... and those that submit and review a checklist load the checklist.
LoadList(w) ==
    \E op \in {"submit", "reviewed", "returned"}, e \in Entries, k \in Kinds :
        LET l == list[e][k]
        IN
        /\ IF op = "submit" THEN IsEditable(l) /\ l.table # ""
                            ELSE l.status = "submitted"
        /\ Begin(w, [NoCall EXCEPT !.op = op, !.entry = e, !.kind = k,
                                   !.list = l], "ready")

\* delete_timetable_entry looks for evidence; with some it deactivates.
LookForEvidence(w) ==
    LET c == call[w]
    IN
    /\ pc[w] = "loaded" /\ c.op = "delete"
    /\ pc' = [pc EXCEPT ![w] = "ready"]
    /\ call' = [call EXCEPT ![w].op = IF Evidence(c.entry) # {}
                                      THEN "deactivate" ELSE "delete"]
    /\ UNCHANGED <<entry, list, raced>>

\* save_supervisor_checklist finds a checklist it may change.
OpenList(w) ==
    LET l == list[call[w].entry][call[w].kind]
    IN
    /\ pc[w] = "loaded" /\ call[w].op = "save"
    /\ l # Absent /\ IsEditable(l)
    /\ pc' = [pc EXCEPT ![w] = "ready"]
    /\ call' = [call EXCEPT ![w].list = l]
    /\ UNCHANGED <<entry, list, raced>>

\* What the call writes to the entry. A save of all columns inserts the row
\* again when it has been deleted; one of named columns fails then.
EntryWritten(c) ==
    IF c.op = "update" THEN c.state
    ELSE IF c.op = "delete" THEN "deleted"
    ELSE IF c.state = "inactive" THEN entry[c.entry] ELSE "inactive"

WriteEntry(w) ==
    LET c == call[w]
    IN
    /\ \/ pc[w] = "loaded" /\ c.op \in {"update", "deactivate"}
       \/ pc[w] = "ready" /\ c.op \in {"deactivate", "delete"}
    /\ c.op = "deactivate" /\ c.state = "active" => entry[c.entry] # "deleted"
    /\ c.op = "delete" => Evidence(c.entry) = {}
    /\ entry' = [entry EXCEPT ![c.entry] = EntryWritten(c)]
    /\ pc' = [pc EXCEPT ![w] = "idle"]
    /\ call' = [call EXCEPT ![w] = NoCall]
    /\ UNCHANGED <<list, raced>>

\* The first save inserts the checklist; the entry must still be there.
InsertList(w) ==
    LET c == call[w]
    IN
    /\ pc[w] = "loaded" /\ c.op = "save"
    /\ list[c.entry][c.kind] = Absent
    /\ entry[c.entry] # "deleted"
    /\ list' = [list EXCEPT ![c.entry][c.kind] =
                  [status |-> "draft", table |-> c.table, snapshot |-> ""]]
    /\ pc' = [pc EXCEPT ![w] = "idle"]
    /\ call' = [call EXCEPT ![w] = NoCall]
    /\ UNCHANGED <<entry, raced>>

\* A later save writes the table only; submissions and reviews write all
\* columns of the checklist they loaded.
ListWritten(c, current) ==
    IF c.op = "save" THEN [current EXCEPT !.table = c.table]
    ELSE IF c.op = "submit"
         THEN [c.list EXCEPT !.status = "submitted", !.snapshot = c.list.table]
         ELSE [c.list EXCEPT !.status = c.op]

WriteList(w) ==
    LET c == call[w]
    IN
    /\ pc[w] = "ready" /\ c.op \in {"save", "submit", "reviewed", "returned"}
    /\ list' = [list EXCEPT ![c.entry][c.kind] = ListWritten(c, @)]
    /\ raced' = (raced \/ c.list # list[c.entry][c.kind])
    /\ pc' = [pc EXCEPT ![w] = "idle"]
    /\ call' = [call EXCEPT ![w] = NoCall]
    /\ UNCHANGED entry

Abort(w) ==
    /\ pc[w] # "idle"
    /\ pc' = [pc EXCEPT ![w] = "idle"]
    /\ call' = [call EXCEPT ![w] = NoCall]
    /\ UNCHANGED <<entry, list, raced>>

Step(w) ==
    \/ LoadEntry(w) \/ LoadList(w) \/ LookForEvidence(w) \/ OpenList(w)
    \/ WriteEntry(w) \/ InsertList(w) \/ WriteList(w) \/ Abort(w)

Next == Create \/ \E w \in Workers : Step(w)

Spec == Init /\ [][Next]_vars

------------------------------------------------------------------------------
Lists ==
    [status : {"none", "draft", "submitted", "reviewed", "returned"},
     table : Tables, snapshot : Tables]

EntryCalls == {"update", "deactivate", "delete", "save"}
ListCalls == {"save", "submit", "reviewed", "returned"}

Calls ==
    [op : {"none"} \cup EntryCalls \cup ListCalls,
     entry : Entries \cup {"none"}, kind : Kinds \cup {"none"},
     state : {"none", "active", "inactive"}, list : Lists, table : Tables]

TypeOK ==
    /\ entry \in [Entries -> {"none", "active", "inactive", "deleted"}]
    /\ list \in [Entries -> [Kinds -> Lists]]
    /\ pc \in [Workers -> {"idle", "loaded", "ready"}]
    /\ call \in [Workers -> Calls]
    /\ raced \in BOOLEAN

\* "Immutable-on-submit source record": a submitted or reviewed checklist has
\* entries, and they are those of its snapshot, unless a call wrote over a
\* checklist that had changed. "Preserving the checklist-to-roster
\* relationship": the entry of a checklist is never deleted, whatever the order.
ChecklistsStand ==
    /\ ~raced => \A e \in Entries, k \in Kinds :
         list[e][k].status \in {"submitted", "reviewed"} =>
             /\ list[e][k].table # ""
             /\ list[e][k].snapshot = list[e][k].table
    /\ \A e \in Entries : Evidence(e) # {} => entry[e] \in {"active", "inactive"}

\* What a call loaded, and what it knows of it.
Loaded(c) ==
    /\ c.op \in EntryCalls
    /\ c.entry \in Entries /\ entry[c.entry] # "none"
    /\ c.op = "save" => c.kind \in Kinds
    /\ c.op = "update" => c.state \in {"active", "inactive"}

Ready(c) ==
    /\ c.entry \in Entries
    /\ \/ c.op \in {"deactivate", "delete"} /\ entry[c.entry] # "none"
       \/ /\ c.op \in ListCalls /\ c.kind \in Kinds
          /\ list[c.entry][c.kind].status # "none"
          /\ c.op \in {"save", "submit"} => IsEditable(c.list)
          /\ c.op = "submit" => c.list.table # ""
          /\ c.op \in {"reviewed", "returned"} => c.list.status = "submitted"

CallsFit ==
    \A w \in Workers : /\ pc[w] = "loaded" => Loaded(call[w])
                       /\ pc[w] = "ready" => Ready(call[w])

IInv == TypeOK /\ ChecklistsStand /\ CallsFit
==============================================================================
