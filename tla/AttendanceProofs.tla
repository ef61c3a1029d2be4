--------------------------- MODULE AttendanceProofs ---------------------------
(***************************************************************************)
(* What Attendance promises for every set of slots, groups, marks and      *)
(* workers.  The key is SnapshotsHold: what a call has read and decided    *)
(* still stands, as long as nobody else has written its records since.     *)
(***************************************************************************)
EXTENDS Attendance, TLAPS

\* What the call of w was decided on is still true of the committed records.
StillTrue(w) ==
    LET c == call[w] IN
    /\ c.op = "bulk" => \A s \in c.on : Open(row[s])
    /\ c.op = "single" => \A s \in c.on : row[s] = c.old /\ Open(c.old)
    /\ c.op = "submit" => \A s \in c.on : row[s].status # "scheduled"
    /\ c.op = "return" => \A s \in c.on : row[s].review # "locked"
    /\ c.op = "review" => \A s \in c.on : row[s].review = "submitted"

SnapshotsHold ==
    \A w \in Workers : pc[w] = "read" /\ w \notin overtaken => StillTrue(w)

\* The records a call will write exist, and a call that has read does something,
\* never with a record that was not open then.
CallsInOrder ==
    \A w \in Workers : /\ call[w].on \subseteq present
                       /\ pc[w] = "read" => call[w].op # "none"
                       /\ pc[w] = "read" /\ call[w].op = "generate" =>
                              call[w].on = {}
                       /\ pc[w] = "read" /\ call[w].op = "single" =>
                              Open(call[w].old)

IInv == TypeOK /\ CallsInOrder /\ SnapshotsHold /\ SubmittedIsMarked

------------------------------------------------------------------------------
LEMMA InitInv == Init => IInv
<1> SUFFICES ASSUME Init PROVE IInv
  OBVIOUS
<1>1. Placeholder \in Record /\ NoCall \in CallRecord
  BY DEF NoCall, Placeholder, Record, ReviewStatuses, Statuses, CallRecord
<1>2. TypeOK
  BY <1>1 DEF Init, TypeOK
<1>3. CallsInOrder /\ SnapshotsHold /\ SubmittedIsMarked
  BY DEF Init, CallsInOrder, SnapshotsHold, SubmittedIsMarked, NoCall
<1> QED
  BY <1>2, <1>3 DEF IInv

\* Reading keeps the invariant when the call is decided on what is committed.
LEMMA ReadsStep ==
    ASSUME IInv, NEW w \in Workers, NEW c \in CallRecord, Reads(w, c),
           c.on \subseteq present, c.op # "none",
           c.op = "generate" => c.on = {},
           c.op = "bulk" => \A s \in c.on : Open(row[s]),
           c.op = "single" => Open(c.old) /\ \A s \in c.on : row[s] = c.old,
           c.op = "submit" => \A s \in c.on : row[s].status # "scheduled",
           c.op = "return" => \A s \in c.on : row[s].review # "locked",
           c.op = "review" => \A s \in c.on : row[s].review = "submitted"
    PROVE  IInv'
<1>1. TypeOK'
  BY DEF Reads, IInv, TypeOK
<1>2. CallsInOrder'
  BY DEF Reads, IInv, TypeOK, CallsInOrder
<1>3. SnapshotsHold'
  BY DEF Reads, IInv, TypeOK, SnapshotsHold, StillTrue
<1>4. SubmittedIsMarked'
  BY DEF Reads, IInv, SubmittedIsMarked
<1> QED
  BY <1>1, <1>2, <1>3, <1>4 DEF IInv

\* Each operation reads what it is going to rely on.
LEMMA ReadStep ==
    ASSUME IInv, NEW w \in Workers,
           \/ Generate(w) \/ BulkEntry(w) \/ SingleEntry(w) \/ Submit(w)
           \/ ReturnRecord(w) \/ ReturnGroup(w) \/ ReviewGroup(w)
    PROVE  IInv'
<1> USE AttendanceAssumption
<1>1. CASE Generate(w)
  <2>1. PICK g \in Groups : Reads(w, [NoCall EXCEPT !.op = "generate",
                                                  !.new = g \ present])
    BY <1>1 DEF Generate
  <2> DEFINE c == [NoCall EXCEPT !.op = "generate", !.new = g \ present]
  <2>2. c \in CallRecord /\ c.on = {} /\ c.op = "generate"
    BY DEF NoCall, Placeholder, CallRecord, Record, ReviewStatuses, Statuses
  <2> QED
    BY <2>1, <2>2, ReadsStep
<1>2. CASE BulkEntry(w)
  <2>1. PICK entries \in SUBSET Slots \ {{}}, mark \in Statuses :
          /\ \A s \in entries \cap present : IsEditable(row[s])
          /\ Reads(w, [NoCall EXCEPT !.op = "bulk", !.mark = mark,
                         !.on = entries \cap present,
                         !.new = entries \ present])
    BY <1>2 DEF BulkEntry
  <2> DEFINE c == [NoCall EXCEPT !.op = "bulk", !.mark = mark,
                     !.on = entries \cap present, !.new = entries \ present]
  <2>2. c \in CallRecord /\ c.on = entries \cap present /\ c.op = "bulk"
    BY DEF NoCall, Placeholder, CallRecord, Record, ReviewStatuses, Statuses
  <2> QED
    BY <2>1, <2>2, ReadsStep DEF IsEditable, Open
<1>3. CASE SingleEntry(w)
  <2>1. PICK s \in present, mark \in Statuses :
          /\ IsEditable(row[s])
          /\ Reads(w, [NoCall EXCEPT !.op = "single", !.on = {s},
                                     !.mark = mark, !.old = row[s]])
    BY <1>3 DEF SingleEntry
  <2> DEFINE c == [NoCall EXCEPT !.op = "single", !.on = {s}, !.mark = mark,
                                 !.old = row[s]]
  <2>2. row[s] \in Record /\ {s} \in SUBSET Slots
    BY DEF IInv, TypeOK
  <2>3. [NoCall EXCEPT !.op = "single", !.on = {s}, !.mark = mark]
           \in CallRecord
    BY <2>2 DEF NoCall, Placeholder, CallRecord, Record, ReviewStatuses,
           Statuses
  <2>4. c \in CallRecord
    BY <2>2, <2>3 DEF CallRecord
  <2>5. c.on = {s} /\ c.op = "single" /\ c.old = row[s]
    BY DEF NoCall
  <2> QED
    BY <2>1, <2>4, <2>5, ReadsStep DEF IsEditable, Open
<1>4. CASE Submit(w)
  <2>1. PICK g \in Groups :
          /\ Complete(g \cap present)
          /\ Reads(w, [NoCall EXCEPT !.op = "submit", !.on = g \cap present])
    BY <1>4 DEF Submit
  <2> DEFINE c == [NoCall EXCEPT !.op = "submit", !.on = g \cap present]
  <2>2. c \in CallRecord /\ c.on = g \cap present /\ c.op = "submit"
    BY DEF NoCall, Placeholder, CallRecord, Record, ReviewStatuses, Statuses
  <2> QED
    BY <2>1, <2>2, ReadsStep DEF Complete
<1>5. CASE ReturnRecord(w)
  <2>1. PICK s \in present :
          /\ row[s].review # "locked"
          /\ Reads(w, [NoCall EXCEPT !.op = "return", !.on = {s}])
    BY <1>5 DEF ReturnRecord
  <2> DEFINE c == [NoCall EXCEPT !.op = "return", !.on = {s}]
  <2>2. c \in CallRecord /\ c.on = {s} /\ c.op = "return"
    BY DEF NoCall, Placeholder, CallRecord, Record, ReviewStatuses, Statuses,
           IInv, TypeOK
  <2> QED
    BY <2>1, <2>2, ReadsStep
<1>6. CASE ReturnGroup(w)
  <2>1. PICK g \in Groups :
          Reads(w, [NoCall EXCEPT !.op = "return",
                                  !.on = Returnable(g \cap present)])
    BY <1>6 DEF ReturnGroup
  <2> DEFINE c == [NoCall EXCEPT !.op = "return",
                                 !.on = Returnable(g \cap present)]
  <2>2. /\ c \in CallRecord /\ c.on = Returnable(g \cap present)
        /\ c.op = "return"
    BY DEF NoCall, Placeholder, CallRecord, Record, ReviewStatuses, Statuses,
           Returnable
  <2> QED
    BY <2>1, <2>2, ReadsStep DEF Returnable
<1>7. CASE ReviewGroup(w)
  <2>1. PICK g \in Groups :
          Reads(w, [NoCall EXCEPT !.op = "review",
                      !.on = Reviewable(g \cap present), !.group = g])
    BY <1>7 DEF ReviewGroup
  <2> DEFINE c == [NoCall EXCEPT !.op = "review",
                     !.on = Reviewable(g \cap present), !.group = g]
  <2>2. /\ c \in CallRecord /\ c.on = Reviewable(g \cap present)
        /\ c.op = "review"
    BY DEF NoCall, Placeholder, CallRecord, Record, ReviewStatuses, Statuses,
           Reviewable
  <2> QED
    BY <2>1, <2>2, ReadsStep DEF Reviewable
<1> QED
  BY <1>1, <1>2, <1>3, <1>4, <1>5, <1>6, <1>7

\* Nothing changes for a call that neither reads nor writes.
LEMMA OtherStep ==
    ASSUME IInv, NEW w \in Workers,
           ReviewAnotherDay(w) \/ Abort(w) \/ WindowElapses
    PROVE  IInv'
<1> USE AttendanceAssumption
<1>1. NoCall \in CallRecord /\ NoCall.on = {} /\ NoCall.op = "none"
  BY DEF NoCall, Placeholder, Record, ReviewStatuses, Statuses, CallRecord
<1>2. CASE ReviewAnotherDay(w)
  <2>1. PICK g \in Groups :
          call' = [call EXCEPT ![w] = [NoCall EXCEPT !.op = "review",
                                                     !.group = g]]
    BY <1>2 DEF ReviewAnotherDay
  <2>2. [NoCall EXCEPT !.op = "review", !.group = g] \in CallRecord
    BY DEF NoCall, Placeholder, Record, ReviewStatuses, Statuses, CallRecord
  <2>3. TypeOK'
    BY <1>2, <2>1, <2>2 DEF ReviewAnotherDay, IInv, TypeOK
  <2>4. /\ pc' = [pc EXCEPT ![w] = "locking"]
        /\ UNCHANGED <<present, row, due, overtaken, raced>>
    BY <1>2 DEF ReviewAnotherDay
  <2>5. /\ pc'[w] = "locking"
        /\ call'[w].on = {} /\ call'[w].op = "review"
        /\ \A v \in Workers \ {w} : pc'[v] = pc[v] /\ call'[v] = call[v]
    BY <2>1, <2>4 DEF IInv, TypeOK, NoCall
  <2>6. CallsInOrder'
    BY <2>4, <2>5 DEF IInv, CallsInOrder
  <2>7. SnapshotsHold'
    <3> SUFFICES ASSUME NEW v \in Workers, pc'[v] = "read",
                        v \notin overtaken'
                 PROVE  StillTrue(v)'
      BY DEF SnapshotsHold
    <3>1. v # w /\ pc[v] = "read" /\ v \notin overtaken /\ call'[v] = call[v]
      BY <2>4, <2>5
    <3>2. StillTrue(v)
      BY <3>1 DEF IInv, SnapshotsHold
    <3> QED
      BY <2>4, <3>1, <3>2 DEF StillTrue
  <2>8. SubmittedIsMarked'
    BY <2>4 DEF IInv, SubmittedIsMarked
  <2> QED
    BY <2>3, <2>6, <2>7, <2>8 DEF IInv
<1>3. CASE Abort(w)
  <2>1. TypeOK'
    BY <1>1, <1>3 DEF Abort, IInv, TypeOK
  <2>2. CallsInOrder'
    BY <1>1, <1>3 DEF Abort, IInv, TypeOK, CallsInOrder
  <2>3. SnapshotsHold'
    BY <1>3 DEF Abort, IInv, TypeOK, SnapshotsHold, StillTrue
  <2>4. SubmittedIsMarked'
    BY <1>3 DEF Abort, IInv, SubmittedIsMarked
  <2> QED
    BY <2>1, <2>2, <2>3, <2>4 DEF IInv
<1>4. CASE WindowElapses
  BY <1>4 DEF WindowElapses, IInv, TypeOK, CallsInOrder, SnapshotsHold,
              StillTrue, SubmittedIsMarked
<1> QED
  BY <1>2, <1>3, <1>4

\* What a call writes is a record, and one that is marked and dated unless it
\* is open, if what the call was decided on still stands.
LEMMA WrittenRecord ==
    ASSUME IInv, NEW w \in Workers, pc[w] = "read", NEW s \in call[w].on
    PROVE  /\ Written(call[w], s) \in Record
           /\ ~raced /\ w \notin overtaken /\ ~Open(Written(call[w], s)) =>
                  /\ Written(call[w], s).status \in Marks
                  /\ Written(call[w], s).stamped
<1> DEFINE c == call[w]
<1>1. /\ c.op \in {"bulk", "single", "submit", "return", "review"}
      /\ c.mark \in Statuses /\ c.old \in Record
      /\ s \in present /\ row[s] \in Record
  BY DEF IInv, TypeOK, CallsInOrder, CallRecord
<1>2. Written(c, s) \in Record
  BY <1>1 DEF Written, Record, ReviewStatuses
<1>3. ASSUME ~raced, w \notin overtaken, ~Open(Written(c, s))
      PROVE  Written(c, s).status \in Marks /\ Written(c, s).stamped
  <2>1. StillTrue(w) /\ (~Open(row[s]) => row[s].status \in Marks
                                          /\ row[s].stamped)
    BY <1>1, <1>3 DEF IInv, SnapshotsHold, SubmittedIsMarked
  <2>2. CASE c.op = "bulk"
    BY <1>1, <1>3, <2>1, <2>2 DEF Written, StillTrue, Open, Record
  <2>3. CASE c.op = "single"
    BY <1>1, <1>3, <2>1, <2>3 DEF Written, StillTrue, Open, Record
  <2>4. CASE c.op = "submit"
    BY <1>1, <1>3, <2>1, <2>4 DEF Written, StillTrue, Record, Statuses
  <2>5. CASE c.op = "return"
    BY <1>1, <1>3, <2>5 DEF Written, Open, Record
  <2>6. CASE c.op = "review"
    BY <1>1, <1>3, <2>1, <2>6 DEF Written, StillTrue, Open, Record
  <2> QED
    BY <1>1, <2>2, <2>3, <2>4, <2>5, <2>6
<1> QED
  BY <1>2, <1>3

\* The rows after a commit.
LEMMA RowsAfterCommit ==
    ASSUME IInv, NEW w \in Workers, Commit(w), NEW s \in Slots
    PROVE  /\ s \in call[w].new =>
                  row'[s] = [Placeholder EXCEPT !.status = call[w].mark]
           /\ s \in call[w].on /\ s \notin call[w].new =>
                  row'[s] = Written(call[w], s)
           /\ s \notin call[w].new /\ s \notin call[w].on => row'[s] = row[s]
           /\ s \in call[w].on => s \notin call[w].new
BY DEF Commit, IInv, CallsInOrder

LEMMA CommitStep ==
    ASSUME IInv, NEW w \in Workers, Commit(w)
    PROVE  IInv'
<1> DEFINE c == call[w]
<1>1. /\ c \in CallRecord /\ c.on \subseteq present /\ pc[w] = "read"
      /\ c.new \subseteq Slots /\ c.mark \in Statuses
      /\ present \subseteq Slots /\ present' = present \cup c.new
      /\ c.new \cap present = {}
  BY DEF Commit, IInv, TypeOK, CallsInOrder, CallRecord
<1>2. NoCall \in CallRecord /\ NoCall.on = {} /\ NoCall.op = "none"
  BY DEF NoCall, Placeholder, Record, ReviewStatuses, Statuses, CallRecord
<1>3. \A s \in Slots : row'[s] \in Record
  <2> TAKE s \in Slots
  <2>1. [Placeholder EXCEPT !.status = c.mark] \in Record
    BY <1>1 DEF Placeholder, Record, ReviewStatuses
  <2> QED
    BY <1>1, <2>1, RowsAfterCommit, WrittenRecord DEF IInv, TypeOK
<1>4. TypeOK'
  <2>1. DOMAIN row' = Slots /\ row' = [s \in Slots |-> row'[s]]
    BY DEF Commit
  <2>2. row' \in [Slots -> Record]
    BY <1>3, <2>1
  <2> QED
    BY <1>1, <1>2, <2>2 DEF Commit, IInv, TypeOK, Readers
<1>5. CallsInOrder'
  BY <1>1, <1>2 DEF Commit, IInv, TypeOK, CallsInOrder
<1>6. SnapshotsHold'
  <2> SUFFICES ASSUME NEW v \in Workers, pc'[v] = "read", v \notin overtaken'
               PROVE  StillTrue(v)'
    BY DEF SnapshotsHold
  <2>1. v # w /\ pc[v] = "read" /\ call'[v] = call[v] /\ v \notin overtaken
        /\ call[v].on \cap c.on = {}
    BY DEF Commit, IInv, TypeOK, Readers
  <2>2. \A s \in call[v].on : row'[s] = row[s]
    BY <1>1, <2>1, RowsAfterCommit DEF IInv, CallsInOrder
  <2>3. StillTrue(v)
    BY <2>1 DEF IInv, SnapshotsHold
  <2> QED
    BY <2>1, <2>2, <2>3 DEF StillTrue
<1>7. SubmittedIsMarked'
  <2> SUFFICES ASSUME ~raced', NEW s \in present', ~Open(row'[s])
               PROVE  row'[s].status \in Marks /\ row'[s].stamped
    BY DEF SubmittedIsMarked
  <2>1. ~raced /\ w \notin overtaken
    BY DEF Commit
  <2>2. CASE s \in c.new
    BY <1>1, <2>2, RowsAfterCommit DEF Placeholder, Open
  <2>3. CASE s \in c.on
    <3>1. s \in Slots
      BY <1>1, <2>3
    <3>2. row'[s] = Written(c, s)
      BY <2>3, <3>1, RowsAfterCommit
    <3> QED
      BY <1>1, <2>1, <2>3, <3>2, WrittenRecord
  <2>4. CASE s \notin c.new /\ s \notin c.on
    BY <1>1, <2>1, <2>4, RowsAfterCommit DEF IInv, SubmittedIsMarked
  <2> QED
    BY <2>2, <2>3, <2>4
<1> QED
  BY <1>4, <1>5, <1>6, <1>7 DEF IInv

\* The lock touches reviewed records only.
LEMMA LockStep ==
    ASSUME IInv, NEW w \in Workers, Lock(w)
    PROVE  IInv'
<1> DEFINE records == {s \in call[w].group \cap present : Lockable(row[s])}
<1>1. NoCall \in CallRecord /\ NoCall.on = {} /\ NoCall.op = "none"
  BY DEF NoCall, Placeholder, Record, ReviewStatuses, Statuses, CallRecord
<1>2. /\ \A s \in Slots : s \in records =>
            row'[s] = [row[s] EXCEPT !.review = "locked"]
      /\ \A s \in Slots : s \notin records => row'[s] = row[s]
      /\ \A s \in records : row[s].review = "reviewed"
      /\ records \subseteq present
  BY DEF Lock, Lockable
<1>3. TypeOK'
  <2>1. ASSUME NEW s \in Slots PROVE row'[s] \in Record
    <3>1. row[s] \in Record
      BY DEF IInv, TypeOK
    <3>2. [row[s] EXCEPT !.review = "locked"] \in Record
      BY <3>1 DEF Record, ReviewStatuses
    <3> QED
      BY <1>2, <3>1, <3>2
  <2>2. row' \in [Slots -> Record]
    BY <2>1 DEF Lock
  <2> QED
    BY <1>1, <2>2 DEF Lock, IInv, TypeOK, Readers
<1>4. CallsInOrder'
  BY <1>1 DEF Lock, IInv, TypeOK, CallsInOrder
<1>5. SnapshotsHold'
  <2> SUFFICES ASSUME NEW v \in Workers, pc'[v] = "read", v \notin overtaken'
               PROVE  StillTrue(v)'
    BY DEF SnapshotsHold
  <2>1. /\ pc[v] = "read" /\ call'[v] = call[v] /\ v \notin overtaken
        /\ call[v].on \cap records = {}
    BY DEF Lock, IInv, TypeOK, Readers
  <2>2. \A s \in call[v].on : row'[s] = row[s]
    BY <1>2, <2>1 DEF IInv, TypeOK, CallsInOrder
  <2>3. StillTrue(v)
    BY <2>1 DEF IInv, SnapshotsHold
  <2> QED
    BY <2>1, <2>2, <2>3 DEF StillTrue
<1>6. SubmittedIsMarked'
  <2> SUFFICES ASSUME ~raced, NEW s \in present, ~Open(row'[s])
               PROVE  row'[s].status \in Marks /\ row'[s].stamped
    BY DEF Lock, SubmittedIsMarked
  <2>1. row[s] \in Record /\ s \in Slots
    BY DEF IInv, TypeOK
  <2>2. ~Open(row[s]) => row[s].status \in Marks /\ row[s].stamped
    BY DEF IInv, SubmittedIsMarked
  <2>3. CASE s \in records
    BY <1>2, <2>1, <2>2, <2>3 DEF Open, Record
  <2>4. CASE s \notin records
    BY <1>2, <2>1, <2>2, <2>4
  <2> QED
    BY <2>3, <2>4
<1> QED
  BY <1>3, <1>4, <1>5, <1>6 DEF IInv

LEMMA NextStep == IInv /\ [Next]_vars => IInv'
<1> SUFFICES ASSUME IInv, [Next]_vars PROVE IInv'
  OBVIOUS
<1>1. CASE UNCHANGED vars
  BY <1>1 DEF vars, IInv, TypeOK, CallsInOrder, SnapshotsHold, StillTrue,
              SubmittedIsMarked
<1>2. CASE WindowElapses
  BY <1>2 DEF WindowElapses, IInv, TypeOK, CallsInOrder, SnapshotsHold,
              StillTrue, SubmittedIsMarked
<1>3. ASSUME NEW w \in Workers, Step(w) PROVE IInv'
  BY <1>3, ReadStep, OtherStep, CommitStep, LockStep DEF Step
<1> QED
  BY <1>1, <1>2, <1>3 DEF Next

------------------------------------------------------------------------------
\* The inductive invariant holds in every reachable state.
THEOREM Invariant == Spec => []IInv
<1>1. Init => IInv
  BY InitInv
<1>2. IInv /\ [Next]_vars => IInv'
  BY NextStep
<1> QED
  BY <1>1, <1>2, PTL DEF Spec

\* Variables keep their types.
THEOREM TypeCorrect == Spec => []TypeOK
<1>1. IInv => TypeOK
  BY DEF IInv
<1> QED
  BY <1>1, Invariant, PTL

\* Submitted, reviewed and locked records are marked and dated, as long as no
\* call commits over a change it has not seen.
THEOREM MarkedBeforeSubmission == Spec => []SubmittedIsMarked
<1>1. IInv => SubmittedIsMarked
  BY DEF IInv
<1> QED
  BY <1>1, Invariant, PTL

\* A record changes only by the commit of a call that writes it, or by a lock,
\* which takes reviewed records and leaves everything else in them alone.
LEMMA ChangesOfRows ==
    ASSUME IInv, Next, NEW s \in present, row'[s] # row[s]
    PROVE  \/ \E w \in Workers : /\ Writes(w, s) /\ pc[w] = "read"
                                   /\ row'[s] = Written(call[w], s)
           \/ /\ row[s].review = "reviewed" /\ due
              /\ row'[s] = [row[s] EXCEPT !.review = "locked"]
<1>1. s \in Slots
  BY DEF IInv, TypeOK
<1>2. PICK w \in Workers : Commit(w) \/ Lock(w)
  BY DEF Next, Step, Generate, BulkEntry, SingleEntry, Submit, ReturnRecord,
         ReturnGroup, ReviewGroup, Reads, ReviewAnotherDay, Abort, WindowElapses
<1>3. CASE Commit(w)
  <2>1. s \in call[w].on /\ row'[s] = Written(call[w], s)
    BY <1>1, <1>3, RowsAfterCommit DEF Commit
  <2>2. pc[w] = "read" /\ pc'[w] # "read"
    BY <1>3 DEF Commit, IInv, TypeOK
  <2> QED
    BY <2>1, <2>2 DEF Writes
<1>4. CASE Lock(w)
  BY <1>1, <1>4 DEF Lock, Lockable
<1> QED
  BY <1>2, <1>3, <1>4

\* What the writer of a record did to it.
LEMMA WhatIsWritten ==
    ASSUME IInv, NEW w \in Workers, pc[w] = "read", NEW s \in call[w].on
    PROVE  /\ Written(call[w], s).status # row[s].status /\ ~Open(row[s]) =>
                  w \in overtaken
           /\ row[s].review = "locked" => call[w].op = "submit" \/ w \in overtaken
           /\ Written(call[w], s).review = "reviewed" =>
                  \/ row[s].review \in {"submitted", "reviewed"}
                  \/ w \in overtaken
           /\ Written(call[w], s).review = "locked" => row[s].review = "locked"
<1> DEFINE c == call[w]
<1>1. /\ c.op \in {"bulk", "single", "submit", "return", "review"}
      /\ c.mark \in Statuses /\ c.old \in Record
      /\ row[s] \in Record
      /\ w \notin overtaken => StillTrue(w)
      /\ c.op = "single" => Open(c.old)
  BY DEF IInv, TypeOK, CallsInOrder, CallRecord, SnapshotsHold
<1>2. CASE c.op = "bulk"
  BY <1>1, <1>2 DEF Written, StillTrue, Open, Record
<1>3. CASE c.op = "single"
  BY <1>1, <1>3 DEF Written, StillTrue, Open, Record
<1>4. CASE c.op = "submit"
  BY <1>1, <1>4 DEF Written, StillTrue, Open, Record
<1>5. CASE c.op = "return"
  BY <1>1, <1>5 DEF Written, StillTrue, Open, Record
<1>6. CASE c.op = "review"
  BY <1>1, <1>6 DEF Written, StillTrue, Open, Record
<1> QED
  BY <1>1, <1>2, <1>3, <1>4, <1>5, <1>6

\* All that is claimed of the records of a day.
THEOREM SheetIsOK == Spec => []SheetOK
<1>1. IInv => SheetOK
  BY DEF IInv, SheetOK
<1> QED
  BY <1>1, Invariant, PTL

\* The status of a record that is not open changes only by a call that read it
\* before.
THEOREM FrozenRecords == Spec => FrozenOnceSubmitted
<1> DEFINE A == \A s \in present :
                  ~Open(row[s]) /\ row'[s].status # row[s].status =>
                      \E w \in overtaken : Writes(w, s)
<1>1. IInv /\ [Next]_vars => [A]_vars
  <2> SUFFICES ASSUME IInv, Next, NEW s \in present, ~Open(row[s]),
                      row'[s].status # row[s].status
               PROVE  \E w \in overtaken : Writes(w, s)
    BY DEF vars
  <2>1. row[s] \in Record
    BY DEF IInv, TypeOK
  <2>2. [row[s] EXCEPT !.review = "locked"].status = row[s].status
    BY <2>1 DEF Record
  <2>3. PICK w \in Workers : /\ Writes(w, s) /\ pc[w] = "read"
                             /\ row'[s] = Written(call[w], s)
    BY <2>2, ChangesOfRows
  <2> QED
    BY <2>3, WhatIsWritten DEF Writes
<1> QED
  BY <1>1, Invariant, PTL DEF Spec, FrozenOnceSubmitted

\* A locked record is touched only when the day is submitted again, or by a
\* call that read it before it was locked.
THEOREM LocksHold == Spec => LockHolds
<1> DEFINE A == \A s \in present :
                  row[s].review = "locked" /\ row'[s] # row[s] =>
                      \E w \in Workers :
                        /\ Writes(w, s)
                        /\ (call[w].op = "submit" \/ w \in overtaken)
<1>1. IInv /\ [Next]_vars => [A]_vars
  <2> SUFFICES ASSUME IInv, Next, NEW s \in present,
                      row[s].review = "locked", row'[s] # row[s]
               PROVE  \E w \in Workers :
                        /\ Writes(w, s)
                        /\ (call[w].op = "submit" \/ w \in overtaken)
    BY DEF vars
  <2>1. PICK w \in Workers : Writes(w, s) /\ pc[w] = "read"
    BY ChangesOfRows
  <2> QED
    BY <2>1, WhatIsWritten DEF Writes
<1> QED
  BY <1>1, Invariant, PTL DEF Spec, LockHolds

\* Records are reviewed from submitted and locked from reviewed, in time.
THEOREM ReviewsInOrder == Spec => ReviewedInOrder
<1> DEFINE A == \A s \in present : row'[s].review # row[s].review =>
                  /\ row'[s].review = "reviewed" =>
                         \/ row[s].review = "submitted"
                         \/ \E w \in overtaken : Writes(w, s)
                  /\ row'[s].review = "locked" =>
                         row[s].review = "reviewed" /\ due
<1>1. IInv /\ [Next]_vars => [A]_vars
  <2> SUFFICES ASSUME IInv, Next, NEW s \in present,
                      row'[s].review # row[s].review
               PROVE  /\ row'[s].review = "reviewed" =>
                             \/ row[s].review = "submitted"
                             \/ \E w \in overtaken : Writes(w, s)
                      /\ row'[s].review = "locked" =>
                             row[s].review = "reviewed" /\ due
    BY DEF vars
  <2>1. CASE /\ row[s].review = "reviewed" /\ due
             /\ row'[s] = [row[s] EXCEPT !.review = "locked"]
    <3>1. row'[s].review = "locked"
      BY <2>1 DEF IInv, TypeOK, Record
    <3> QED
      BY <2>1, <3>1
  <2>2. CASE \E w \in Workers : /\ Writes(w, s) /\ pc[w] = "read"
                                 /\ row'[s] = Written(call[w], s)
    <3>1. PICK w \in Workers : /\ Writes(w, s) /\ pc[w] = "read"
                               /\ row'[s] = Written(call[w], s)
      BY <2>2
    <3> QED
      BY <3>1, WhatIsWritten DEF Writes
  <2> QED
    BY <2>1, <2>2, ChangesOfRows
<1> QED
  BY <1>1, Invariant, PTL DEF Spec, ReviewedInOrder

\* The review workflow goes forward, for any number of records and workers.
THEOREM ReviewsHold == Spec => ReviewHolds
  BY LocksHold, ReviewsInOrder, PTL DEF ReviewHolds
==============================================================================
