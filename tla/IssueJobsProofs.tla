---------------------------- MODULE IssueJobsProofs ----------------------------
(***************************************************************************)
(* What IssueJobs promises for any number of jobs and workers.             *)
(***************************************************************************)
EXTENDS IssueJobs, TLAPS

\* A job operation starts from a row in a status it accepts, whose stamps are
\* right; a new job has no stamps.
LoadedInOrder ==
    \A w \in Workers : pc[w] # "idle" =>
        LET c == call[w] IN
        /\ Stamped(c.old)
        /\ c.issue.level <= escalations
        /\ c.op \in JobOperations => /\ c.job \in present
                                     /\ c.old.status \in From(c.op)
        /\ c.op = "spawn" => c.job \in Jobs /\ c.old.status # "closed"
        /\ c.op \in IssueOperations \ {"spawn"} =>
               c.job = NoJob /\ c.issue.status \in FromIssue(c.op)
        /\ c.op # "none"
        /\ c.op = "close" <=> pc[w] \in {"loaded", "saved"}

\* A call that nobody has overtaken has the committed rows in its hands.
UpToDate ==
    \A w \in Workers : pc[w] # "idle" /\ w \notin overtaken =>
        LET c == call[w] IN
        /\ c.issue = issue
        /\ c.op \in JobOperations => c.old = row[c.job]
        /\ c.op = "spawn" => c.job \notin present
        /\ pc[w] = "saved" => (c.closes <=> /\ issue.status # "closed"
                                            /\ SiblingsClosed(w))

IInv == /\ TypeOK /\ LoadedInOrder /\ UpToDate
        /\ StampsMatchStatus /\ EscalationsCounted /\ IssueFollowsJobs

------------------------------------------------------------------------------
\* What an operation makes of a job it accepts.
LEMMA SavedJob ==
    ASSUME NEW op \in JobOperations, NEW old \in JobRow,
           Stamped(old), old.status \in From(op)
    PROVE  LET new == Saved(op, old) IN
           /\ new \in JobRow
           /\ Stamped(new)
           /\ new.status = "closed" <=> op = "close"
           /\ new.status # old.status =>
                  /\ new.status = "closed" => old.status = "verified"
                  /\ old.status = "closed" => new.status = "reopened"
                  /\ old.status = "reopened" => new.status = "assigned"
<1> USE DEF JobRow, JobStatuses, Stamped
<1>1. CASE op = "edit"
  BY <1>1 DEF Saved, From
<1>2. CASE op = "assign"
  BY <1>2 DEF Saved, From
<1>3. CASE op = "start"
  BY <1>3 DEF Saved, From
<1>4. CASE op = "complete"
  BY <1>4 DEF Saved, From
<1>5. CASE op = "verify"
  BY <1>5 DEF Saved, From
<1>6. CASE op = "close"
  BY <1>6 DEF Saved, From
<1>7. CASE op = "reopen"
  BY <1>7 DEF Saved, From, NewJob
<1> QED
  BY <1>1, <1>2, <1>3, <1>4, <1>5, <1>6, <1>7 DEF JobOperations

LEMMA NoCallRecord ==
    /\ NoCall \in CallRecord /\ NewJob \in JobRow /\ Stamped(NewJob)
    /\ NewJob.status = "open" /\ NewIssue \in IssueRow
BY DEF NoCall, NewJob, NewIssue, CallRecord, JobRow, JobStatuses, IssueRow,
       IssueStatuses, Stamped

LEMMA InitInv == Init => IInv
<1> SUFFICES ASSUME Init PROVE IInv
  OBVIOUS
<1>1. TypeOK
  BY NoCallRecord DEF Init, TypeOK
<1>2. LoadedInOrder /\ UpToDate /\ StampsMatchStatus
  BY DEF Init, LoadedInOrder, UpToDate, StampsMatchStatus
<1>3. EscalationsCounted /\ IssueFollowsJobs
  BY DEF Init, NewIssue, EscalationsCounted, IssueFollowsJobs, AllJobsClosed
<1> QED
  BY <1>1, <1>2, <1>3 DEF IInv

------------------------------------------------------------------------------
\* A call that loads what is committed keeps the invariant.
LEMMA LoadsStep ==
    ASSUME IInv, NEW w \in Workers, pc[w] = "idle",
           NEW op \in JobOperations \cup IssueOperations,
           NEW j \in Jobs \cup {NoJob}, NEW old \in JobRow,
           Loads(w, op, j, old), Stamped(old),
           op \in JobOperations =>
               j \in present /\ old = row[j] /\ old.status \in From(op),
           op = "spawn" => j \in Jobs \ present /\ old.status # "closed",
           op \in IssueOperations \ {"spawn"} =>
               j = NoJob /\ issue.status \in FromIssue(op)
    PROVE  IInv'
<1> DEFINE c == [op |-> op, job |-> j, old |-> old, issue |-> issue,
                 closes |-> FALSE]
<1>1. c \in CallRecord
  BY DEF IInv, TypeOK, CallRecord
<1>2. /\ call' = [call EXCEPT ![w] = c]
      /\ pc' = [pc EXCEPT ![w] = IF op = "close" THEN "loaded" ELSE "ready"]
      /\ overtaken' = overtaken \ {w}
      /\ UNCHANGED <<present, row, issue, escalations, raced>>
  BY DEF Loads, GoTo
<1>3. TypeOK'
  BY <1>1, <1>2 DEF IInv, TypeOK
<1>4. LoadedInOrder'
  <2> SUFFICES ASSUME NEW v \in Workers, pc'[v] # "idle"
               PROVE  LET d == call'[v] IN
                      /\ Stamped(d.old)
                      /\ d.issue.level <= escalations
                      /\ d.op \in JobOperations =>
                             d.job \in present /\ d.old.status \in From(d.op)
                      /\ d.op = "spawn" =>
                             d.job \in Jobs /\ d.old.status # "closed"
                      /\ d.op \in IssueOperations \ {"spawn"} =>
                             /\ d.job = NoJob
                             /\ d.issue.status \in FromIssue(d.op)
                      /\ d.op # "none"
                      /\ d.op = "close" <=> pc'[v] \in {"loaded", "saved"}
    BY <1>2 DEF LoadedInOrder
  <2>1. CASE v = w
    <3>1. call'[v] = c
      BY <1>2, <2>1 DEF IInv, TypeOK
    <3>2. pc'[v] = IF op = "close" THEN "loaded" ELSE "ready"
      BY <1>2, <2>1 DEF IInv, TypeOK
    <3>3. op # "none"
      BY DEF JobOperations, IssueOperations
    <3> QED
      BY <3>1, <3>2, <3>3 DEF IInv, EscalationsCounted
  <2>2. CASE v # w
    <3>1. call'[v] = call[v] /\ pc'[v] = pc[v]
      BY <1>2, <2>2 DEF IInv, TypeOK
    <3> QED
      BY <3>1 DEF IInv, LoadedInOrder
  <2> QED
    BY <2>1, <2>2
<1>5. UpToDate'
  <2> SUFFICES ASSUME NEW v \in Workers, pc'[v] # "idle", v \notin overtaken'
               PROVE  LET d == call'[v] IN
                      /\ d.issue = issue
                      /\ d.op \in JobOperations => d.old = row[d.job]
                      /\ d.op = "spawn" => d.job \notin present
                      /\ pc'[v] = "saved" =>
                            (d.closes <=> issue.status # "closed"
                                          /\ SiblingsClosed(v)')
    BY <1>2 DEF UpToDate
  <2>1. CASE v = w
    <3>1. call'[v] = c /\ pc'[v] # "saved"
      BY <1>2, <2>1 DEF IInv, TypeOK
    <3> QED
      BY <3>1 DEF JobOperations
  <2>2. CASE v # w
    <3>1. call'[v] = call[v] /\ pc'[v] = pc[v] /\ v \notin overtaken
      BY <1>2, <2>2 DEF IInv, TypeOK
    <3> QED
      BY <1>2, <3>1 DEF IInv, UpToDate, SiblingsClosed
  <2> QED
    BY <2>1, <2>2
<1>6. (StampsMatchStatus /\ EscalationsCounted /\ IssueFollowsJobs)'
  BY <1>2 DEF IInv, StampsMatchStatus, EscalationsCounted, IssueFollowsJobs,
              AllJobsClosed
<1> QED
  BY <1>3, <1>4, <1>5, <1>6 DEF IInv

LEMMA LoadStep ==
    ASSUME IInv, NEW w \in Workers, LoadJob(w) \/ LoadIssue(w) \/ LoadSpawn(w)
    PROVE  IInv'
<1> USE IssueAssumption
<1>1. CASE LoadJob(w)
  <2>1. PICK op \in JobOperations, j \in present :
          row[j].status \in From(op) /\ Loads(w, op, j, row[j])
    BY <1>1 DEF LoadJob
  <2>2. j \in Jobs /\ row[j] \in JobRow /\ Stamped(row[j])
    BY DEF IInv, TypeOK, StampsMatchStatus
  <2>3. op \notin IssueOperations
    BY DEF JobOperations, IssueOperations
  <2> QED
    BY <1>1, <2>1, <2>2, <2>3, LoadsStep DEF LoadJob, IssueOperations
<1>2. CASE LoadIssue(w)
  <2>1. PICK op \in IssueOperations \ {"spawn"} :
          issue.status \in FromIssue(op) /\ Loads(w, op, NoJob, NewJob)
    BY <1>2 DEF LoadIssue
  <2>2. op \notin JobOperations
    BY DEF JobOperations, IssueOperations
  <2> QED
    BY <1>2, <2>1, <2>2, LoadsStep, NoCallRecord DEF LoadIssue
<1>3. CASE LoadSpawn(w)
  <2>1. PICK j \in Jobs \ present, status \in {"open", "assigned"} :
          Loads(w, "spawn", j, [NewJob EXCEPT !.status = status])
    BY <1>3 DEF LoadSpawn
  <2>2. LET old == [NewJob EXCEPT !.status = status] IN
        old \in JobRow /\ Stamped(old) /\ old.status # "closed"
    BY DEF NewJob, JobRow, JobStatuses, Stamped
  <2>3. "spawn" \in IssueOperations /\ "spawn" \notin JobOperations
    BY DEF JobOperations, IssueOperations
  <2> QED
    BY <1>3, <2>1, <2>2, <2>3, LoadsStep DEF LoadSpawn
<1> QED
  BY <1>1, <1>2, <1>3

------------------------------------------------------------------------------
LEMMA ReadSiblingsStep ==
    ASSUME IInv, NEW w \in Workers, ReadSiblings(w)
    PROVE  IInv'
<1> DEFINE c == call[w]
           closes == c.issue.status # "closed" /\ SiblingsClosed(w)
<1>1. /\ pc[w] = "loaded" /\ pc' = [pc EXCEPT ![w] = "saved"]
      /\ call' = [call EXCEPT ![w].closes = closes]
      /\ UNCHANGED <<present, row, issue, escalations, overtaken, raced>>
  BY DEF ReadSiblings, GoTo
<1>2. c \in CallRecord /\ closes \in BOOLEAN
  BY DEF IInv, TypeOK
<1>3. /\ call'[w] \in CallRecord /\ call'[w].closes = closes
      /\ call'[w].op = c.op /\ call'[w].job = c.job
      /\ call'[w].old = c.old /\ call'[w].issue = c.issue
      /\ \A v \in Workers \ {w} : call'[v] = call[v] /\ pc'[v] = pc[v]
      /\ pc'[w] = "saved"
  BY <1>1, <1>2 DEF IInv, TypeOK, CallRecord
<1>4. TypeOK'
  BY <1>1, <1>2 DEF IInv, TypeOK, CallRecord
<1>5. LoadedInOrder'
  BY <1>1, <1>3 DEF IInv, LoadedInOrder
<1>6. UpToDate'
  <2> SUFFICES ASSUME NEW v \in Workers, pc'[v] # "idle", v \notin overtaken
               PROVE  LET d == call'[v] IN
                      /\ d.issue = issue
                      /\ d.op \in JobOperations => d.old = row[d.job]
                      /\ d.op = "spawn" => d.job \notin present
                      /\ pc'[v] = "saved" =>
                            (d.closes <=> issue.status # "closed"
                                          /\ SiblingsClosed(v)')
    BY <1>1 DEF UpToDate
  <2>1. SiblingsClosed(v)' <=> SiblingsClosed(v)
    BY <1>1, <1>3 DEF SiblingsClosed
  <2>2. pc[v] # "idle"
    BY <1>1, <1>3
  <2>3. CASE v = w
    <3>1. /\ c.issue = issue
          /\ c.op \in JobOperations => c.old = row[c.job]
          /\ c.op = "spawn" => c.job \notin present
      BY <2>2, <2>3 DEF IInv, UpToDate
    <3>2. call'[v].closes <=> issue.status # "closed" /\ SiblingsClosed(v)'
      BY <1>3, <2>1, <2>3, <3>1
    <3> QED
      BY <1>3, <2>3, <3>1, <3>2
  <2>4. CASE v # w
    BY <1>1, <1>3, <2>1, <2>2, <2>4 DEF IInv, UpToDate
  <2> QED
    BY <2>3, <2>4
<1>7. (StampsMatchStatus /\ EscalationsCounted /\ IssueFollowsJobs)'
  BY <1>1 DEF IInv, StampsMatchStatus, EscalationsCounted, IssueFollowsJobs,
              AllJobsClosed
<1> QED
  BY <1>4, <1>5, <1>6, <1>7 DEF IInv

LEMMA AbortStep ==
    ASSUME IInv, NEW w \in Workers, Abort(w)
    PROVE  IInv'
<1>1. /\ pc' = [pc EXCEPT ![w] = "idle"]
      /\ call' = [call EXCEPT ![w] = NoCall]
      /\ overtaken' = overtaken \ {w}
      /\ UNCHANGED <<present, row, issue, escalations, raced>>
  BY DEF Abort, GoTo
<1>2. TypeOK'
  BY <1>1, NoCallRecord DEF IInv, TypeOK
<1>3. \A v \in Workers : pc'[v] # "idle" =>
          v # w /\ pc'[v] = pc[v] /\ call'[v] = call[v]
  BY <1>1 DEF IInv, TypeOK
<1>4. LoadedInOrder'
  BY <1>1, <1>3 DEF IInv, LoadedInOrder
<1>5. UpToDate'
  BY <1>1, <1>3 DEF IInv, UpToDate, SiblingsClosed
<1>6. (StampsMatchStatus /\ EscalationsCounted /\ IssueFollowsJobs)'
  BY <1>1 DEF IInv, StampsMatchStatus, EscalationsCounted, IssueFollowsJobs,
              AllJobsClosed
<1> QED
  BY <1>2, <1>4, <1>5, <1>6 DEF IInv

------------------------------------------------------------------------------
\* The one job a commit may write, and what it writes.
LEMMA JobsAfterCommit ==
    ASSUME IInv, NEW w \in Workers, Commit(w)
    PROVE  LET c == call[w] IN
           /\ present' = present \cup ({c.job} \ {NoJob})
           /\ c.op \in JobOperations \cup IssueOperations
           /\ c.op \in JobOperations \cup {"spawn"} => c.job \in Jobs
           /\ c.op \in IssueOperations \ {"spawn"} =>
                  c.job = NoJob /\ row' = row /\ present' = present
           /\ c.op \in JobOperations =>
                  /\ c.job \in present
                  /\ row'[c.job] = Saved(c.op, c.old)
           /\ c.op = "spawn" => row'[c.job] = c.old
           /\ \A j \in Jobs \ {c.job} : row'[j] = row[j]
           /\ row' \in [Jobs -> JobRow]
<1> USE IssueAssumption
<1> DEFINE c == call[w]
<1>1. /\ c \in CallRecord /\ pc[w] # "idle" /\ c.op # "none"
      /\ present \subseteq Jobs /\ row \in [Jobs -> JobRow]
      /\ present' = present \cup ({c.job} \ {NoJob}) /\ row' = JobsAfter(w)
  BY DEF Commit, IInv, TypeOK, LoadedInOrder
<1>2. c.op \in JobOperations \cup IssueOperations /\ c.old \in JobRow
  BY <1>1 DEF CallRecord
<1>3. CASE c.op \in JobOperations
  <2>1. /\ c.job \in present /\ c.job # NoJob /\ c.op # "spawn"
        /\ Stamped(c.old) /\ c.old.status \in From(c.op)
        /\ c.op \notin IssueOperations
    BY <1>1, <1>3 DEF IInv, LoadedInOrder, JobOperations, IssueOperations
  <2>2. Saved(c.op, c.old) \in JobRow
    BY <1>2, <1>3, <2>1, SavedJob
  <2>3. row' = [row EXCEPT ![c.job] = Saved(c.op, c.old)]
    BY <1>1, <2>1 DEF JobsAfter
  <2> QED
    BY <1>1, <1>2, <2>1, <2>2, <2>3
<1>4. CASE c.op = "spawn"
  <2>1. /\ c.job \in Jobs /\ c.job # NoJob /\ c.op \notin JobOperations
        /\ c.op \in IssueOperations
    BY <1>1, <1>4 DEF IInv, LoadedInOrder, JobOperations, IssueOperations
  <2>2. row' = [row EXCEPT ![c.job] = c.old]
    BY <1>1, <1>4, <2>1 DEF JobsAfter
  <2> QED
    BY <1>1, <1>2, <1>4, <2>1, <2>2
<1>5. CASE c.op \in IssueOperations \ {"spawn"}
  <2>1. c.job = NoJob /\ c.op \notin JobOperations
    BY <1>1, <1>5 DEF IInv, LoadedInOrder, JobOperations, IssueOperations
  <2>2. row' = row /\ present' = present
    BY <1>1, <2>1 DEF JobsAfter
  <2> QED
    BY <1>1, <1>2, <1>5, <2>1, <2>2
<1> QED
  BY <1>2, <1>3, <1>4, <1>5

\* The issue a commit writes.
LEMMA IssueAfterCommit ==
    ASSUME IInv, NEW w \in Workers, Commit(w)
    PROVE  LET c == call[w] IN
           /\ issue' \in IssueRow
           /\ c.op = "editIssue" => issue' = c.issue
           /\ c.op = "review" =>
                  issue' = [c.issue EXCEPT !.status = "under_review"]
           /\ c.op = "escalate" =>
                  issue' = [c.issue EXCEPT !.level = c.issue.level + 1]
           /\ c.op \in {"spawn", "assign", "start"} =>
                  \/ /\ c.issue.status \in {"open", "under_review"}
                     /\ issue' = [issue EXCEPT !.status = "assigned"]
                  \/ /\ c.issue.status \notin {"open", "under_review"}
                     /\ issue' = issue
           /\ c.op = "close" =>
                  IF c.closes
                  THEN issue' = [issue EXCEPT !.status = "closed",
                                              !.closed = TRUE]
                  ELSE issue' = issue
           /\ c.op \in {"edit", "complete", "verify", "reopen"} =>
                  issue' = issue
<1> DEFINE c == call[w]
<1>1. /\ c \in CallRecord /\ issue' = IssueAfter(w) /\ issue \in IssueRow
      /\ c.op # "none"
  BY DEF Commit, IInv, TypeOK, LoadedInOrder
<1>2. c.op \in JobOperations \cup IssueOperations /\ c.issue \in IssueRow
  BY <1>1 DEF CallRecord
<1>3. /\ [c.issue EXCEPT !.status = "under_review"] \in IssueRow
      /\ [c.issue EXCEPT !.level = c.issue.level + 1] \in IssueRow
      /\ [issue EXCEPT !.status = "assigned"] \in IssueRow
      /\ [issue EXCEPT !.status = "closed", !.closed = TRUE] \in IssueRow
  <2>1. \A i \in IssueRow : [i EXCEPT !.status = "under_review"] \in IssueRow
    BY DEF IssueRow, IssueStatuses
  <2>2. \A i \in IssueRow : [i EXCEPT !.level = i.level + 1] \in IssueRow
    BY DEF IssueRow
  <2>3. \A i \in IssueRow : [i EXCEPT !.status = "assigned"] \in IssueRow
    BY DEF IssueRow, IssueStatuses
  <2>4. \A i \in IssueRow :
          [i EXCEPT !.status = "closed", !.closed = TRUE] \in IssueRow
    BY DEF IssueRow, IssueStatuses
  <2> QED
    BY <1>1, <1>2, <2>1, <2>2, <2>3, <2>4
<1>4. CASE c.op = "editIssue"
  BY <1>1, <1>2, <1>4 DEF IssueAfter
<1>5. CASE c.op = "review"
  BY <1>1, <1>3, <1>5 DEF IssueAfter
<1>6. CASE c.op = "escalate"
  BY <1>1, <1>3, <1>6 DEF IssueAfter
<1>7. CASE c.op \in {"spawn", "assign", "start"}
  <2>1. issue' = IF c.issue.status \in {"open", "under_review"}
                 THEN [issue EXCEPT !.status = "assigned"] ELSE issue
    BY <1>1, <1>7 DEF IssueAfter
  <2> QED
    BY <1>1, <1>3, <1>7, <2>1
<1>8. CASE c.op = "close"
  <2>1. issue' = IF c.closes
                 THEN [issue EXCEPT !.status = "closed", !.closed = TRUE]
                 ELSE issue
    BY <1>1, <1>8 DEF IssueAfter
  <2> QED
    BY <1>1, <1>3, <1>8, <2>1
<1>9. CASE c.op \in {"edit", "complete", "verify", "reopen"}
  BY <1>1, <1>9 DEF IssueAfter
<1> QED
  BY <1>2, <1>4, <1>5, <1>6, <1>7, <1>8, <1>9
     DEF JobOperations, IssueOperations

\* After a commit everybody else under way is overtaken, and the committer idle.
LEMMA CommitOvertakes ==
    ASSUME IInv, NEW w \in Workers, Commit(w)
    PROVE  /\ \A v \in Workers : pc'[v] # "idle" =>
                  /\ v # w /\ pc[v] = pc'[v] /\ call'[v] = call[v]
                  /\ v \in overtaken'
           /\ call' \in [Workers -> CallRecord]
           /\ pc' \in [Workers -> {"idle", "loaded", "ready", "saved"}]
           /\ overtaken' \subseteq Workers /\ raced' \in BOOLEAN
BY NoCallRecord DEF Commit, GoTo, IInv, TypeOK

\* A commit whose worker nobody has overtaken.
LEMMA FreshCommit ==
    ASSUME IInv, NEW w \in Workers, Commit(w), ~raced'
    PROVE  LET c == call[w] IN
           /\ ~raced /\ c.issue = issue
           /\ c.op \in JobOperations => c.old = row[c.job]
           /\ c.op = "spawn" => c.job \notin present
           /\ c.op = "close" => (c.closes <=> issue.status # "closed"
                                              /\ SiblingsClosed(w))
<1>1. ~raced /\ w \notin overtaken /\ pc[w] \in {"ready", "saved"}
  BY DEF Commit
<1>2. call[w].op = "close" => pc[w] = "saved"
  BY <1>1 DEF IInv, LoadedInOrder
<1> QED
  BY <1>1, <1>2 DEF IInv, UpToDate

LEMMA CommitStep ==
    ASSUME IInv, NEW w \in Workers, Commit(w)
    PROVE  IInv'
<1> USE IssueAssumption
<1> DEFINE c == call[w]
<1>1. /\ c \in CallRecord /\ pc[w] # "idle" /\ present \subseteq Jobs
      /\ c.op \in JobOperations =>
             Stamped(c.old) /\ c.old \in JobRow /\ c.old.status \in From(c.op)
      /\ Stamped(c.old) /\ c.issue.level <= escalations
      /\ c.op = "spawn" => c.old.status # "closed"
      /\ issue \in IssueRow /\ c.issue \in IssueRow /\ escalations \in Nat
  BY DEF Commit, IInv, TypeOK, LoadedInOrder, CallRecord
<1>2. /\ escalations' = IF c.op = "escalate" THEN escalations + 1
                        ELSE escalations
      /\ escalations' \in Nat /\ escalations' >= escalations
  BY <1>1 DEF Commit
<1>3. TypeOK'
  <2>1. present' \subseteq Jobs
    BY <1>1, JobsAfterCommit DEF CallRecord
  <2> QED
    BY <1>2, <2>1, JobsAfterCommit, IssueAfterCommit, CommitOvertakes DEF TypeOK
<1>4. LoadedInOrder'
  <2> SUFFICES ASSUME NEW v \in Workers, pc'[v] # "idle"
               PROVE  LET d == call'[v] IN
                      /\ Stamped(d.old)
                      /\ d.issue.level <= escalations'
                      /\ d.op \in JobOperations =>
                             d.job \in present' /\ d.old.status \in From(d.op)
                      /\ d.op = "spawn" =>
                             d.job \in Jobs /\ d.old.status # "closed"
                      /\ d.op \in IssueOperations \ {"spawn"} =>
                             /\ d.job = NoJob
                             /\ d.issue.status \in FromIssue(d.op)
                      /\ d.op # "none"
                      /\ d.op = "close" <=> pc'[v] \in {"loaded", "saved"}
    BY DEF LoadedInOrder
  <2>1. pc[v] # "idle" /\ pc'[v] = pc[v] /\ call'[v] = call[v]
    BY CommitOvertakes
  <2>2. present \subseteq present'
    BY JobsAfterCommit
  <2>3. call[v].issue.level \in Nat
    BY DEF IInv, TypeOK, CallRecord, IssueRow
  <2>4. call[v].issue.level <= escalations'
    BY <1>1, <1>2, <2>1, <2>3 DEF IInv, LoadedInOrder
  <2> QED
    BY <2>1, <2>2, <2>4 DEF IInv, LoadedInOrder
<1>5. UpToDate'
  BY CommitOvertakes DEF UpToDate
<1>6. StampsMatchStatus'
  <2> SUFFICES ASSUME NEW j \in present' PROVE Stamped(row'[j])
    BY DEF StampsMatchStatus
  <2>1. CASE j = c.job /\ c.op \in JobOperations
    BY <1>1, <2>1, JobsAfterCommit, SavedJob
  <2>2. CASE j = c.job /\ c.op = "spawn"
    BY <1>1, <2>2, JobsAfterCommit
  <2>3. CASE c.op \in IssueOperations \ {"spawn"}
    BY <2>3, JobsAfterCommit DEF IInv, StampsMatchStatus
  <2>4. CASE j # c.job
    BY <1>1, <2>4, JobsAfterCommit DEF IInv, StampsMatchStatus
  <2> QED
    BY <2>1, <2>2, <2>3, <2>4, JobsAfterCommit
<1>7. EscalationsCounted'
  <2>0. issue.level \in Nat /\ c.issue.level \in Nat
    BY <1>1 DEF IssueRow
  <2>1. /\ issue.level <= escalations
        /\ ~raced' => /\ issue.level = escalations
                      /\ c.issue.level = escalations
    BY FreshCommit DEF IInv, EscalationsCounted
  <2>2. CASE c.op = "escalate"
    <3>1. issue'.level = c.issue.level + 1
      BY <1>1, <2>2, IssueAfterCommit DEF IssueRow
    <3> QED
      BY <1>1, <1>2, <2>0, <2>1, <2>2, <3>1 DEF EscalationsCounted
  <2>3. CASE c.op # "escalate"
    <3>1. issue'.level \in {issue.level, c.issue.level}
      <4>1. \A i \in IssueRow :
              /\ [i EXCEPT !.status = "under_review"].level = i.level
              /\ [i EXCEPT !.status = "assigned"].level = i.level
              /\ [i EXCEPT !.status = "closed", !.closed = TRUE].level = i.level
        BY DEF IssueRow
      <4>2. c.op \in {"editIssue", "review", "spawn", "edit", "assign", "start",
                      "complete", "verify", "close", "reopen"}
        BY <2>3, JobsAfterCommit DEF JobOperations, IssueOperations
      <4>3. CASE c.op \in {"editIssue", "review"}
        BY <1>1, <4>1, <4>3, IssueAfterCommit
      <4>4. CASE c.op \in {"spawn", "assign", "start"}
        BY <1>1, <4>1, <4>4, IssueAfterCommit
      <4>5. CASE c.op = "close"
        BY <1>1, <4>1, <4>5, IssueAfterCommit
      <4>6. CASE c.op \in {"edit", "complete", "verify", "reopen"}
        BY <4>6, IssueAfterCommit
      <4> QED
        BY <4>2, <4>3, <4>4, <4>5, <4>6
    <3> QED
      BY <1>1, <1>2, <2>0, <2>1, <2>3, <3>1 DEF EscalationsCounted
  <2> QED
    BY <2>2, <2>3
<1>8. IssueFollowsJobs'
  <2> SUFFICES ASSUME ~raced'
               PROVE  /\ AllJobsClosed' => issue'.status = "closed"
                      /\ issue'.closed <=> issue'.status = "closed"
    BY DEF IssueFollowsJobs
  <2>1. /\ AllJobsClosed => issue.status = "closed"
        /\ issue.closed <=> issue.status = "closed"
        /\ c.issue = issue
    BY FreshCommit DEF IInv, IssueFollowsJobs
  <2>2. CASE c.op \in IssueOperations \ {"spawn"}
    <3>1. row' = row /\ present' = present /\ issue.status # "closed"
      BY <1>1, <2>1, <2>2, JobsAfterCommit
         DEF IInv, LoadedInOrder, FromIssue, IssueOperations
    <3>2. ~AllJobsClosed'
      BY <2>1, <3>1 DEF AllJobsClosed
    <3>3. ~issue'.closed /\ issue'.status # "closed"
      BY <1>1, <2>1, <2>2, <3>1, IssueAfterCommit DEF IssueOperations, IssueRow
    <3> QED
      BY <3>2, <3>3
  <2>3. CASE c.op = "close"
    <3>1. /\ c.op \in JobOperations /\ c.job \in present
          /\ present' = present /\ \A j \in present \ {c.job} : row'[j] = row[j]
      BY <1>1, <2>3, JobsAfterCommit DEF JobOperations
    <3>2. c.closes <=> issue.status # "closed" /\ SiblingsClosed(w)
      BY <2>3, FreshCommit
    <3>3. AllJobsClosed' => SiblingsClosed(w)
      BY <3>1 DEF AllJobsClosed, SiblingsClosed
    <3>4. CASE c.closes
      <4>1. issue' = [issue EXCEPT !.status = "closed", !.closed = TRUE]
        BY <2>3, <3>4, IssueAfterCommit
      <4>2. issue'.status = "closed" /\ issue'.closed
        BY <1>1, <4>1 DEF IssueRow
      <4> QED
        BY <4>2
    <3>5. CASE ~c.closes
      <4>1. issue' = issue
        BY <2>3, <3>5, IssueAfterCommit
      <4> QED
        BY <2>1, <3>2, <3>3, <3>5, <4>1
    <3> QED
      BY <3>4, <3>5
  <2>4. CASE c.op \in (JobOperations \ {"close"}) \cup {"spawn"}
    <3>1. row'[c.job].status # "closed" /\ c.job \in present'
      <4>1. CASE c.op = "spawn"
        BY <1>1, <4>1, JobsAfterCommit
      <4>2. CASE c.op \in JobOperations \ {"close"}
        BY <1>1, <4>2, SavedJob, JobsAfterCommit
      <4> QED
        BY <2>4, <4>1, <4>2
    <3>2. ~AllJobsClosed'
      BY <3>1 DEF AllJobsClosed
    <3>3. issue'.closed <=> issue'.status = "closed"
      BY <1>1, <2>1, <2>4, IssueAfterCommit DEF JobOperations, IssueRow
    <3> QED
      BY <3>2, <3>3
  <2> QED
    BY <2>2, <2>3, <2>4, JobsAfterCommit
<1> QED
  BY <1>3, <1>4, <1>5, <1>6, <1>7, <1>8 DEF IInv

LEMMA NextStep == IInv /\ [Next]_vars => IInv'
<1> SUFFICES ASSUME IInv, [Next]_vars PROVE IInv'
  OBVIOUS
<1>1. CASE UNCHANGED vars
  BY <1>1 DEF vars, IInv, TypeOK, LoadedInOrder, UpToDate, SiblingsClosed,
              StampsMatchStatus, EscalationsCounted, IssueFollowsJobs,
              AllJobsClosed
<1>2. ASSUME NEW w \in Workers, Step(w) PROVE IInv'
  BY <1>2, LoadStep, ReadSiblingsStep, CommitStep, AbortStep DEF Step
<1> QED
  BY <1>1, <1>2 DEF Next

------------------------------------------------------------------------------
\* The inductive invariant holds in every reachable state.
THEOREM Invariant == Spec => []IInv
<1>1. Init => IInv
  BY InitInv
<1>2. IInv /\ [Next]_vars => IInv'
  BY NextStep
<1> QED
  BY <1>1, <1>2, PTL DEF Spec

\* Variables keep their types.
THEOREM TypeCorrect == Spec => []TypeOK
<1>1. IInv => TypeOK
  BY DEF IInv
<1> QED
  BY <1>1, Invariant, PTL

\* A job's stamps are those of its status, whatever calls race.
THEOREM StampsFollowStatus == Spec => []StampsMatchStatus
<1>1. IInv => StampsMatchStatus
  BY DEF IInv
<1> QED
  BY <1>1, Invariant, PTL

\* The level counts the escalations on record unless one was overwritten.
THEOREM EscalationsOnRecord == Spec => []EscalationsCounted
<1>1. IInv => EscalationsCounted
  BY DEF IInv
<1> QED
  BY <1>1, Invariant, PTL

\* All that is claimed of the stamps of jobs and of the escalation level.
THEOREM JobsAreOK == Spec => []JobsOK
<1>1. IInv => JobsOK
  BY DEF IInv, JobsOK
<1> QED
  BY <1>1, Invariant, PTL

\* An issue whose jobs are all closed is closed, as long as calls do not race.
THEOREM IssueIsClosedWithItsJobs == Spec => []IssueFollowsJobs
<1>1. IInv => IssueFollowsJobs
  BY DEF IInv
<1> QED
  BY <1>1, Invariant, PTL

\* Only commits change rows.
LEMMA OnlyCommitsWrite ==
    ASSUME Next, NEW w \in Workers, Step(w), ~Commit(w)
    PROVE  UNCHANGED <<present, row, issue>>
BY DEF Step, LoadJob, LoadIssue, LoadSpawn, Loads, ReadSiblings, Abort

\* A job is closed only when it was verified, and reopened jobs start over, as
\* long as calls do not race.
THEOREM ClosedJobsWereVerified == Spec => VerifiedBeforeClosed
<1> DEFINE A == ~raced' => \A j \in present : row'[j].status # row[j].status =>
                  /\ row'[j].status = "closed" => row[j].status = "verified"
                  /\ row[j].status = "closed" => row'[j].status = "reopened"
                  /\ row[j].status = "reopened" => row'[j].status = "assigned"
<1>1. IInv /\ [Next]_vars => [A]_vars
  <2> SUFFICES ASSUME IInv, Next, ~raced', NEW j \in present,
                      row'[j].status # row[j].status
               PROVE  /\ row'[j].status = "closed" => row[j].status = "verified"
                      /\ row[j].status = "closed" => row'[j].status = "reopened"
                      /\ row[j].status = "reopened" =>
                             row'[j].status = "assigned"
    BY DEF vars
  <2>1. PICK w \in Workers : Commit(w)
    BY OnlyCommitsWrite DEF Next
  <2> DEFINE c == call[w]
  <2>2. j \in Jobs
    BY DEF IInv, TypeOK
  <2>3. c.op \in JobOperations /\ j = c.job /\ c.old = row[j]
    BY <2>1, <2>2, JobsAfterCommit, FreshCommit
  <2>4. c.old \in JobRow /\ Stamped(c.old) /\ c.old.status \in From(c.op)
    BY <2>1, <2>2, <2>3 DEF Commit, IInv, TypeOK, LoadedInOrder
  <2> QED
    BY <2>1, <2>3, <2>4, JobsAfterCommit, SavedJob
<1> QED
  BY <1>1, Invariant, PTL DEF Spec, VerifiedBeforeClosed

\* An issue is closed by the last of its jobs, and stays closed, as long as
\* calls do not race.
THEOREM LastJobClosesIssue == Spec => ClosesWithLastJob
<1> DEFINE A == ~raced' =>
                  /\ issue'.status = "closed" /\ issue.status # "closed" =>
                         \A j \in present' : row'[j].status = "closed"
                  /\ issue.status = "closed" => issue' = issue
<1>1. IInv /\ [Next]_vars => [A]_vars
  <2> SUFFICES ASSUME IInv, Next, ~raced', issue' # issue
               PROVE  /\ issue.status # "closed"
                      /\ issue'.status = "closed" =>
                             \A j \in present' : row'[j].status = "closed"
    BY DEF vars
  <2>1. PICK w \in Workers : Commit(w)
    BY OnlyCommitsWrite DEF Next
  <2> DEFINE c == call[w]
  <2>2. /\ c.issue = issue /\ issue \in IssueRow /\ c \in CallRecord
        /\ c.op = "close" => (c.closes <=> issue.status # "closed"
                                           /\ SiblingsClosed(w))
    BY <2>1, FreshCommit DEF IInv, TypeOK
  <2>3. CASE c.op = "close"
    <3>1. c.closes /\ c.op \in JobOperations
      BY <2>1, <2>3, IssueAfterCommit DEF JobOperations
    <3>2. /\ c.job \in present /\ present \subseteq Jobs /\ present' = present
          /\ Stamped(c.old) /\ c.old \in JobRow /\ c.old.status \in From(c.op)
      BY <2>1, <2>2, <3>1, JobsAfterCommit
         DEF Commit, IInv, TypeOK, LoadedInOrder, CallRecord
    <3>3. row'[c.job].status = "closed"
      BY <2>1, <2>3, <3>1, <3>2, JobsAfterCommit, SavedJob
    <3>4. \A j \in present \ {c.job} : row'[j].status = "closed"
      BY <2>1, <2>2, <2>3, <3>1, <3>2, JobsAfterCommit DEF SiblingsClosed
    <3> QED
      BY <2>2, <2>3, <3>1, <3>2, <3>3, <3>4
  <2>4. CASE c.op \in IssueOperations \ {"spawn"}
    <3>1. issue.status # "closed"
      BY <2>1, <2>2, <2>4
         DEF Commit, IInv, LoadedInOrder, FromIssue, IssueOperations
    <3>2. issue'.status # "closed"
      BY <2>1, <2>2, <2>4, <3>1, IssueAfterCommit DEF IssueOperations, IssueRow
    <3> QED
      BY <3>1, <3>2
  <2>5. CASE c.op \in {"spawn", "assign", "start"}
    <3>1. /\ issue.status \in {"open", "under_review"}
          /\ issue' = [issue EXCEPT !.status = "assigned"]
      BY <2>1, <2>2, <2>5, IssueAfterCommit
    <3>2. issue'.status = "assigned"
      BY <2>2, <3>1 DEF IssueRow
    <3> QED
      BY <3>1, <3>2
  <2>6. CASE c.op \in {"edit", "complete", "verify", "reopen"}
    BY <2>1, <2>6, IssueAfterCommit
  <2> QED
    BY <2>1, <2>3, <2>4, <2>5, <2>6, JobsAfterCommit
       DEF JobOperations, IssueOperations
<1> QED
  BY <1>1, Invariant, PTL DEF Spec, ClosesWithLastJob
==============================================================================
