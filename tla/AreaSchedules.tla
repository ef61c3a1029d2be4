----------------------------- MODULE AreaSchedules -----------------------------
(***************************************************************************)
(* The dated area schedules of one cleaner, who may hold assignments at     *)
(* several sites: the second half of assignment_services.py.                *)
(* A schedule is compared with the active ones of its date and saved, in    *)
(* one transaction that sees what others have committed by then.            *)
(***************************************************************************)
EXTENDS Integers

CONSTANTS
    Assignments,  \* of the cleaner
    Days, Spans,  \* dates, and pairs of a start and an end in minutes
    MaxSchedules, \* bound: the schedules there can be
    Workers       \* threads that serve requests

VARIABLES
    schedule,  \* the committed schedules
    pc, call,  \* each worker's stage and what it is about to save
    missed,    \* workers whose comparison is out of date
    raced      \* slots saved on such a comparison

vars == <<schedule, pc, call, missed, raced>>

------------------------------------------------------------------------------
Slots == 1 .. MaxSchedules

Absent == [assignment |-> "none", day |-> 0, start |-> 0, end |-> 0,
           active |-> FALSE]

DayLength == 1440  \* minutes

\* Mutant: an overnight span does not wrap.
Contains_NoWrap(s, e, point) == s <= point /\ point < e

\* The span from s to e, past midnight unless s < e, contains the minute.
Contains(s, e, point) ==
    LET duration == IF e > s THEN e - s ELSE e - s + DayLength
    IN  (point - s) % DayLength < duration

SpansOverlap(a, b) ==
    Contains(a.start, a.end, b.start) \/ Contains(b.start, b.end, a.start)

\* _validate_no_schedule_overlap, for `row` in slot i.
Clashes(i, row) ==
    \E j \in Slots \ {i} : /\ schedule[j].active
                           /\ schedule[j].day = row.day
                           /\ SpansOverlap(row, schedule[j])

NoCall == [op |-> "none", rows |-> <<>>]

Init ==
    /\ schedule = [i \in Slots |-> Absent]
    /\ pc = [w \in Workers |-> "idle"]
    /\ call = [w \in Workers |-> NoCall]
    /\ missed = {}
    /\ raced = {}

Stored == {i \in Slots : schedule[i] # Absent}

\* Slots that no schedule has and no request has taken for a new one.
Free == {i \in Slots : /\ schedule[i] = Absent
                       /\ \A w \in Workers : i \notin DOMAIN call[w].rows}

\* New schedules take the first ones.
FirstFree == {s \in SUBSET Free : s # {} /\ \A i \in s, j \in Free \ s : i < j}

\* w has compared `rows`, by slot, with what is committed.
Compared(w, op, rows) ==
    /\ pc[w] = "loaded" \/ (pc[w] = "idle" /\ op # "update")
    /\ pc' = [pc EXCEPT ![w] = "compared"]
    /\ call' = [call EXCEPT ![w] = [op |-> op, rows |-> rows]]
    /\ missed' = missed \ {w}
    /\ UNCHANGED <<schedule, raced>>

\* assign_cleaner_area_schedule
Schedule(w) ==
    \E i \in Free, a \in Assignments, d \in Days, t \in Spans :
        LET row == [assignment |-> a, day |-> d, start |-> t[1], end |-> t[2],
                    active |-> TRUE]
        IN  /\ {i} \in FirstFree
            /\ ~Clashes(0, row)
            /\ Compared(w, "schedule", [j \in {i} |-> row])

\* update_area_schedule loads a schedule, a removed one too ...
Load(w) ==
    \E i \in Stored :
        /\ pc[w] = "idle"
        /\ pc' = [pc EXCEPT ![w] = "loaded"]
        /\ call' = [call EXCEPT ![w] =
               [op |-> "update", rows |-> [j \in {i} |-> schedule[j]]]]
        /\ UNCHANGED <<schedule, missed, raced>>

\* ... and compares it with the times of the request.
Update(w) ==
    /\ pc[w] = "loaded"
    /\ \E i \in DOMAIN call[w].rows, t \in Spans :
         LET row == [call[w].rows[i] EXCEPT !.start = t[1], !.end = t[2]]
         IN  ~Clashes(i, row) /\ Compared(w, "update", [j \in {i} |-> row])

\* The schedules of one date and assignment, at another date.
Copies(a, from, to) ==
    {[schedule[i] EXCEPT !.day = to] :
        i \in {j \in Slots : /\ schedule[j].active /\ schedule[j].day = from
                             /\ schedule[j].assignment = a}}

\* copy_schedule_from_date leaves out what would overlap existing work, its own
\* copies included.
Copy(w) ==
    \E a \in Assignments, from, to \in Days :
    \E slots \in FirstFree :
    \E rows \in [slots -> {r \in Copies(a, from, to) : ~Clashes(0, r)}] :
        /\ \A i, j \in slots : i # j => ~SpansOverlap(rows[i], rows[j])
        /\ \A r \in Copies(a, from, to) :
             \/ Clashes(0, r)
             \/ \E i \in slots : SpansOverlap(r, rows[i])
        /\ Compared(w, "copy", rows)

\* The workers who compared with a date that gets another schedule.
Misses(w, days) ==
    {v \in Workers \ {w} :
        /\ pc[v] = "compared"
        /\ \E i \in DOMAIN call[v].rows : call[v].rows[i].day \in days}

\* New rows take slots of their own; a saved one is written whole.
Save(w) ==
    LET rows == call[w].rows
        days == {rows[i].day : i \in DOMAIN rows}
    IN
    /\ pc[w] = "compared"
    /\ schedule' = [i \in Slots |->
                      IF i \in DOMAIN rows THEN rows[i] ELSE schedule[i]]
    /\ raced' = IF w \in missed THEN raced \cup DOMAIN rows
                ELSE raced \ DOMAIN rows
    /\ missed' = (missed \cup Misses(w, days)) \ {w}
    /\ pc' = [pc EXCEPT ![w] = "idle"]
    /\ call' = [call EXCEPT ![w] = NoCall]

\* deactivate_area_schedule saves the one column.
Remove ==
    \E i \in Stored :
        /\ schedule' = [schedule EXCEPT ![i].active = FALSE]
        /\ UNCHANGED <<pc, call, missed, raced>>

Abort(w) ==
    /\ pc[w] # "idle"
    /\ pc' = [pc EXCEPT ![w] = "idle"]
    /\ call' = [call EXCEPT ![w] = NoCall]
    /\ missed' = missed \ {w}
    /\ UNCHANGED <<schedule, raced>>

Step(w) ==
    \/ Schedule(w) \/ Load(w) \/ Update(w) \/ Copy(w) \/ Save(w) \/ Abort(w)

Next ==
    \/ Remove
    \/ \E w \in Workers : Step(w)

Spec == Init /\ [][Next]_vars

------------------------------------------------------------------------------
Times == 0 .. DayLength - 1

Rows == [assignment : Assignments, day : Days, start : {t[1] : t \in Spans},
         end : {t[2] : t \in Spans}, active : BOOLEAN]

CallRows ==
    [op : {"none", "schedule", "update", "copy"},
     rows : UNION {[S -> Rows] : S \in SUBSET Slots}]

TypeOK ==
    /\ schedule \in [Slots -> Rows \cup {Absent}]
    /\ pc \in [Workers -> {"idle", "loaded", "compared"}]
    /\ call \in [Workers -> CallRows]
    /\ missed \subseteq Workers /\ raced \subseteq Slots

\* The minutes a schedule lasts, counted from its date's midnight: an end that
\* is not after the start is on the next day.
Minutes(row) ==
    row.start ..
      (IF row.end > row.start THEN row.end ELSE row.end + DayLength) - 1

\* "As long as time ranges do not overlap": no two active schedules of one date
\* have a minute in common, overnight ones included, unless one was saved after
\* another request had added to the date it had compared.
NobodyIsInTwoPlaces ==
    \A i, j \in Slots \ raced :
        /\ i # j /\ schedule[i].active /\ schedule[j].active
        /\ schedule[i].day = schedule[j].day
        => Minutes(schedule[i]) \cap Minutes(schedule[j]) = {}

\* The same as the service compares them.
NoneOverlap ==
    \A i, j \in Slots \ raced :
        /\ i # j /\ schedule[i].active /\ schedule[j].active
        /\ schedule[i].day = schedule[j].day
        => ~SpansOverlap(schedule[i], schedule[j])

\* `rows` overlap no active schedule of their dates but those they replace,
\* and not one another.
Fit(rows) ==
    \A i \in DOMAIN rows :
        /\ \A j \in Slots \ DOMAIN rows :
              schedule[j].active /\ schedule[j].day = rows[i].day
              => ~SpansOverlap(rows[i], schedule[j])
        /\ \A j \in DOMAIN rows \ {i} : ~SpansOverlap(rows[i], rows[j])

\* What a request compared holds until another adds to its dates.
ComparedFit ==
    \A w \in Workers \ missed : pc[w] = "compared" => Fit(call[w].rows)

IInv == TypeOK /\ NoneOverlap /\ ComparedFit
==============================================================================
