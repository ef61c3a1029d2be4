------------------------------ MODULE Attendance ------------------------------
(***************************************************************************)
(* The attendance records of one day at one site, from                     *)
(* attendance_services.py.  Calls on single records, on entry lists and on *)
(* whole groups read what they work on, decide, and then write: some of    *)
(* them a column, some all of a row, some rows that did not exist.         *)
(***************************************************************************)
EXTENDS Integers, FiniteSets

CONSTANTS
    Slots,    \* scheduled pairs of cleaner and shift: one record each
    Groups,   \* the slots of the day, and those of each shift
    Marks,    \* values of status other than scheduled
    Workers   \* threads that serve requests

ASSUME AttendanceAssumption ==
    /\ Groups \subseteq SUBSET Slots
    /\ "scheduled" \notin Marks

VARIABLES
    present,     \* slots that have a record
    row,         \* the committed AttendanceRecord rows
    due,         \* whether the lock window of the day has elapsed
    pc, call,    \* each worker's stage and the call it serves
    overtaken,   \* workers that will write a record changed since they read it
    raced        \* whether such a worker has committed

vars == <<present, row, due, pc, call, overtaken, raced>>

------------------------------------------------------------------------------
Statuses == Marks \cup {"scheduled"}
ReviewStatuses == {"draft", "submitted", "reviewed", "returned", "locked"}

\* stamped: whether submitted_at is set.
Record == [status : Statuses, review : ReviewStatuses, stamped : BOOLEAN]

Placeholder == [status |-> "scheduled", review |-> "draft", stamped |-> FALSE]

NoCall == [op |-> "none", on |-> {}, new |-> {}, mark |-> "scheduled",
           old |-> Placeholder, group |-> {}]

Init ==
    /\ present = {}
    /\ row = [s \in Slots |-> Placeholder]
    /\ due \in BOOLEAN
    /\ pc = [w \in Workers |-> "idle"]
    /\ call = [w \in Workers |-> NoCall]
    /\ overtaken = {}
    /\ raced = FALSE

\* Mutant: a reviewed record may still be corrected.
IsEditable_Reviewed(r) == r.review \in {"draft", "returned", "reviewed"}

IsEditable(r) == r.review \in {"draft", "returned"}

------------------------------------------------------------------------------
\* w's call has read what it needs: it will write the records on and insert
\* new.
Reads(w, c) ==
    /\ pc[w] = "idle"
    /\ pc' = [pc EXCEPT ![w] = "read"]
    /\ call' = [call EXCEPT ![w] = c]
    /\ overtaken' = overtaken \ {w}
    /\ UNCHANGED <<present, row, due, raced>>

\* generate_daily_attendance_sheet: placeholders for what has no record.
Generate(w) ==
    \E g \in Groups :
        /\ g \ present # {}
        /\ Reads(w, [NoCall EXCEPT !.op = "generate", !.new = g \ present])

\* bulk_upsert_attendance: every record of the list is editable or new.
BulkEntry(w) ==
    \E entries \in SUBSET Slots \ {{}}, mark \in Statuses :
        /\ \A s \in entries \cap present : IsEditable(row[s])
        /\ Reads(w, [NoCall EXCEPT !.op = "bulk", !.mark = mark,
                       !.on = entries \cap present, !.new = entries \ present])

\* record_single_attendance keeps the whole record it has read.
SingleEntry(w) ==
    \E s \in present, mark \in Statuses :
        /\ IsEditable(row[s])
        /\ Reads(w, [NoCall EXCEPT !.op = "single", !.on = {s}, !.mark = mark,
                       !.old = row[s]])

\* Mutant: submission does not wait for everybody to be marked.
Complete_Any(records) == records # {}

\* Every record of the day is marked.
Complete(records) ==
    /\ records # {}
    /\ \A s \in records : row[s].status # "scheduled"

\* submit_daily_attendance takes the records of the day in whatever state.
Submit(w) ==
    \E g \in Groups :
        /\ Complete(g \cap present)
        /\ Reads(w, [NoCall EXCEPT !.op = "submit", !.on = g \cap present])

\* return_attendance_record on a record that was not locked when it was read.
ReturnRecord(w) ==
    \E s \in present :
        /\ row[s].review # "locked"
        /\ Reads(w, [NoCall EXCEPT !.op = "return", !.on = {s}])

\* Mutant: the group is returned with its locked records.
Returnable_All(records) == records

Returnable(records) == {s \in records : row[s].review # "locked"}

ReturnGroup(w) ==
    \E g \in Groups :
        LET records == Returnable(g \cap present) IN
        /\ records # {}
        /\ Reads(w, [NoCall EXCEPT !.op = "return", !.on = records])

Reviewable(records) == {s \in records : row[s].review = "submitted"}

ReviewGroup(w) ==
    \E g \in Groups :
        LET records == Reviewable(g \cap present) IN
        /\ records # {}
        /\ Reads(w, [NoCall EXCEPT !.op = "review", !.on = records,
                       !.group = g])

\* Reviewing another day of the site ends in the same lock.
ReviewAnotherDay(w) ==
    /\ pc[w] = "idle"
    /\ pc' = [pc EXCEPT ![w] = "locking"]
    /\ \E g \in Groups : call' = [call EXCEPT ![w] = [NoCall EXCEPT
                                     !.op = "review", !.group = g]]
    /\ UNCHANGED <<present, row, due, overtaken, raced>>

------------------------------------------------------------------------------
\* The workers that have read one of the records and will write it.
Readers(records) ==
    {v \in Workers : pc[v] = "read" /\ call[v].on \cap records # {}}

\* The record of slot s after the call c has written it.
Written(c, s) ==
    CASE c.op = "bulk" -> [row[s] EXCEPT !.status = c.mark]
      [] c.op = "single" -> [c.old EXCEPT !.status = c.mark]
      [] c.op = "submit" -> [row[s] EXCEPT !.review = "submitted",
                                           !.stamped = TRUE]
      [] c.op = "return" -> [row[s] EXCEPT !.review = "returned"]
      [] c.op = "review" -> [row[s] EXCEPT !.review = "reviewed"]

\* The transaction commits, unless a record it inserts has appeared since.
\* A review goes on to lock_attendance_if_required.
Commit(w) ==
    LET c == call[w] IN
    /\ pc[w] = "read"
    /\ c.new \cap present = {}
    /\ present' = present \cup c.new
    /\ row' = [s \in Slots |->
                 IF s \in c.new THEN [Placeholder EXCEPT !.status = c.mark]
                 ELSE IF s \in c.on THEN Written(c, s) ELSE row[s]]
    /\ pc' = [pc EXCEPT ![w] = IF c.op = "review" THEN "locking" ELSE "idle"]
    /\ call' = [call EXCEPT ![w] = IF c.op = "review" THEN c ELSE NoCall]
    /\ overtaken' = (overtaken \cup Readers(c.on)) \ {w}
    /\ raced' = (raced \/ w \in overtaken)
    /\ UNCHANGED due

Lockable(r) == r.review = "reviewed"

\* One UPDATE, in a transaction of its own, of the reviewed records.
Lock(w) ==
    LET records == {s \in call[w].group \cap present : Lockable(row[s])} IN
    /\ pc[w] = "locking"
    /\ due
    /\ row' = [s \in Slots |-> IF s \in records
                               THEN [row[s] EXCEPT !.review = "locked"]
                               ELSE row[s]]
    /\ pc' = [pc EXCEPT ![w] = "idle"]
    /\ call' = [call EXCEPT ![w] = NoCall]
    /\ overtaken' = overtaken \cup Readers(records)
    /\ UNCHANGED <<present, due, raced>>

\* A refusal, an IntegrityError, a lock that is not due yet, or the worker
\* dies; what is committed stays.
Abort(w) ==
    /\ pc[w] # "idle"
    /\ pc' = [pc EXCEPT ![w] = "idle"]
    /\ call' = [call EXCEPT ![w] = NoCall]
    /\ overtaken' = overtaken \ {w}
    /\ UNCHANGED <<present, row, due, raced>>

\* ATTENDANCE_LOCK_AFTER_DAYS have passed.
WindowElapses ==
    /\ ~due
    /\ due' = TRUE
    /\ UNCHANGED <<present, row, pc, call, overtaken, raced>>

Step(w) == \/ Generate(w) \/ BulkEntry(w) \/ SingleEntry(w) \/ Submit(w)
           \/ ReturnRecord(w) \/ ReturnGroup(w) \/ ReviewGroup(w)
           \/ ReviewAnotherDay(w) \/ Commit(w) \/ Lock(w) \/ Abort(w)

Next == WindowElapses \/ \E w \in Workers : Step(w)

Spec == Init /\ [][Next]_vars

------------------------------------------------------------------------------
CallRecord ==
    [op : {"none", "generate", "bulk", "single", "submit", "return", "review"},
     on : SUBSET Slots, new : SUBSET Slots, mark : Statuses, old : Record,
     group : Groups \cup {{}}]

TypeOK ==
    /\ present \subseteq Slots
    /\ row \in [Slots -> Record]
    /\ due \in BOOLEAN
    /\ pc \in [Workers -> {"idle", "read", "locking"}]
    /\ call \in [Workers -> CallRecord]
    /\ overtaken \subseteq Workers
    /\ raced \in BOOLEAN

Open(r) == r.review \in {"draft", "returned"}

\* What has been submitted is marked and dated, through any number of rounds of
\* correction, as long as no call commits over a change it has not seen.
SubmittedIsMarked ==
    ~raced => \A s \in present : ~Open(row[s]) =>
                  row[s].status \in Marks /\ row[s].stamped

\* Types, and what has been submitted is marked and dated.
SheetOK == TypeOK /\ SubmittedIsMarked

\* The call of w commits, and writes the record of s.
Writes(w, s) == pc[w] = "read" /\ pc'[w] # "read" /\ s \in call[w].on

\* "Only DRAFT/RETURNED records are editable": the status of another record
\* changes only by a call that read it before it left those states.
FrozenOnceSubmitted ==
    [][\A s \in present :
         ~Open(row[s]) /\ row'[s].status # row[s].status =>
             \E w \in overtaken : Writes(w, s)]_vars

\* A locked record is touched only when the day is submitted again, or by a
\* call that read it before it was locked.
LockHolds ==
    [][\A s \in present :
         row[s].review = "locked" /\ row'[s] # row[s] =>
             \E w \in Workers : /\ Writes(w, s)
                                /\ (call[w].op = "submit" \/ w \in overtaken)]_vars

\* A record is reviewed only from submitted, and locked only from reviewed and
\* once the window has elapsed, unless the review read it before a change.
ReviewedInOrder ==
    [][\A s \in present : row'[s].review # row[s].review =>
         /\ row'[s].review = "reviewed" =>
                \/ row[s].review = "submitted"
                \/ \E w \in overtaken : Writes(w, s)
         /\ row'[s].review = "locked" => row[s].review = "reviewed" /\ due]_vars

\* The review workflow of a record goes forward, whichever calls overlap: from
\* submitted to reviewed to locked, and out of locked only by a new submission.
ReviewHolds == LockHolds /\ ReviewedInOrder
==============================================================================
