------------------------------- MODULE IssueJobs -------------------------------
(***************************************************************************)
(* An issue and its jobs, from issues_services.py: the jobs go through     *)
(* their lifecycle and the status of the issue follows them.               *)
(*                                                                         *)
(* A call loads its job, with the issue, or its issue, without a lock; the *)
(* service checks the status of the loaded object and saves it with all    *)
(* its columns.  Workers take any number of calls and run concurrently.    *)
(***************************************************************************)
EXTENDS Integers

CONSTANTS
    Jobs,           \* ids of jobs that may be created from the issue
    Workers,        \* threads that serve requests
    NoJob,          \* the job of a call on the issue itself
    MaxEscalations  \* bound: escalations that are recorded

ASSUME IssueAssumption ==
    /\ NoJob \notin Jobs
    /\ MaxEscalations \in Nat

VARIABLES
    present,        \* jobs that have a row
    row,            \* the committed Job rows
    issue,          \* the committed Issue row
    escalations,    \* audit rows of escalations
    pc, call,       \* each worker's stage and the call it serves
    overtaken,      \* workers whose loaded objects are older than a commit
    raced           \* whether such a worker has committed

vars == <<present, row, issue, escalations, pc, call, overtaken, raced>>

------------------------------------------------------------------------------
JobOperations == {"edit", "assign", "start", "complete", "verify", "close",
                  "reopen"}
IssueOperations == {"editIssue", "review", "escalate", "spawn"}

JobStatuses == {"open", "assigned", "in_progress", "completed", "verified",
                "closed", "reopened"}
IssueStatuses == {"open", "under_review", "assigned", "closed"}

\* completed, verified, closed: whether completed_at, verified_at with
\* verified_by, and closed_at are set.
JobRow == [status : JobStatuses, completed : BOOLEAN, verified : BOOLEAN,
           closed : BOOLEAN]
IssueRow == [status : IssueStatuses, level : Nat, closed : BOOLEAN]

NewJob == [status |-> "open", completed |-> FALSE, verified |-> FALSE,
           closed |-> FALSE]
NewIssue == [status |-> "open", level |-> 0, closed |-> FALSE]

NoCall == [op |-> "none", job |-> NoJob, old |-> NewJob, issue |-> NewIssue,
           closes |-> FALSE]

Init ==
    /\ present = {}
    /\ row = [j \in Jobs |-> NewJob]
    /\ issue = NewIssue
    /\ escalations = 0
    /\ pc = [w \in Workers |-> "idle"]
    /\ call = [w \in Workers |-> NoCall]
    /\ overtaken = {}
    /\ raced = FALSE

------------------------------------------------------------------------------
\* Mutant: a reopened job need not be assigned again.
From_StartReopened(op) ==
    CASE op = "edit" -> JobStatuses \ {"closed"}
      [] op = "assign" -> {"open", "reopened"}
      [] op = "start" -> {"assigned", "reopened"}
      [] op = "complete" -> {"assigned", "in_progress"}
      [] op = "verify" -> {"completed"}
      [] op = "close" -> {"verified"}
      [] op = "reopen" -> {"completed", "verified", "closed"}

\* The statuses each operation requires of the job it was given ...
From(op) ==
    CASE op = "edit" -> JobStatuses \ {"closed"}
      [] op = "assign" -> {"open", "reopened"}
      [] op = "start" -> {"assigned"}
      [] op = "complete" -> {"assigned", "in_progress"}
      [] op = "verify" -> {"completed"}
      [] op = "close" -> {"verified"}
      [] op = "reopen" -> {"completed", "verified", "closed"}

\* ... and of the issue.
FromIssue(op) ==
    CASE op \in {"editIssue", "escalate"} -> IssueStatuses \ {"closed"}
      [] op = "review" -> {"open"}
      [] op = "spawn" -> IssueStatuses

\* Mutant: reopening leaves the verification on the job.
Saved_KeepsVerification(op, old) ==
    CASE op = "edit" -> old
      [] op = "assign" -> [old EXCEPT !.status = "assigned"]
      [] op = "start" -> [old EXCEPT !.status = "in_progress"]
      [] op = "complete" -> [old EXCEPT !.status = "completed",
                                        !.completed = TRUE]
      [] op = "verify" -> [old EXCEPT !.status = "verified", !.verified = TRUE]
      [] op = "close" -> [old EXCEPT !.status = "closed", !.closed = TRUE]
      [] op = "reopen" -> [old EXCEPT !.status = "reopened", !.closed = FALSE]

\* The row a job operation writes: the loaded one, changed.
Saved(op, old) ==
    CASE op = "edit" -> old
      [] op = "assign" -> [old EXCEPT !.status = "assigned"]
      [] op = "start" -> [old EXCEPT !.status = "in_progress"]
      [] op = "complete" -> [old EXCEPT !.status = "completed",
                                        !.completed = TRUE]
      [] op = "verify" -> [old EXCEPT !.status = "verified", !.verified = TRUE]
      [] op = "close" -> [old EXCEPT !.status = "closed", !.closed = TRUE]
      [] op = "reopen" -> [NewJob EXCEPT !.status = "reopened"]

------------------------------------------------------------------------------
GoTo(w, stage) == pc' = [pc EXCEPT ![w] = stage]

Loads(w, op, j, old) ==
    /\ GoTo(w, IF op = "close" THEN "loaded" ELSE "ready")
    /\ call' = [call EXCEPT ![w] = [op |-> op, job |-> j, old |-> old,
                                    issue |-> issue, closes |-> FALSE]]
    /\ overtaken' = overtaken \ {w}
    /\ UNCHANGED <<present, row, issue, escalations, raced>>

\* The endpoint loads the job with its issue.  The status the service checks
\* is the one loaded here: a call that finds another one changes nothing.
LoadJob(w) ==
    /\ pc[w] = "idle"
    /\ \E op \in JobOperations, j \in present :
         /\ row[j].status \in From(op)
         /\ Loads(w, op, j, row[j])

\* The endpoint loads the issue; spawn will insert a job with a fresh id, open
\* or, given somebody to do it, assigned.
LoadIssue(w) ==
    /\ pc[w] = "idle"
    /\ \E op \in IssueOperations \ {"spawn"} :
         /\ issue.status \in FromIssue(op)
         /\ Loads(w, op, NoJob, NewJob)

LoadSpawn(w) ==
    /\ pc[w] = "idle"
    /\ \E j \in Jobs \ present, status \in {"open", "assigned"} :
         /\ \A v \in Workers : call[v].job # j
         /\ Loads(w, "spawn", j, [NewJob EXCEPT !.status = status])

\* Mutant: the jobs are read before the closing job is saved.
SiblingsClosed_BeforeSave(w) == \A j \in present : row[j].status = "closed"

\* Mutant: one closed job is enough.
SiblingsClosed_Any(w) == TRUE

\* All jobs, as close_job's transaction sees them after saving its own.
SiblingsClosed(w) ==
    \A j \in present \ {call[w].job} : row[j].status = "closed"

\* The row is locked by a transaction that has saved it.
Locked(w) ==
    \E v \in Workers \ {w} : pc[v] = "saved" /\ call[v].job = call[w].job

\* close_job saves its job and asks for the issue's jobs: does it close the
\* issue, unless that was closed when it was loaded?  (complete_job asks too,
\* but its own job is then only completed.)
ReadSiblings(w) ==
    /\ pc[w] = "loaded"
    /\ ~Locked(w)
    /\ call' = [call EXCEPT ![w].closes = /\ call[w].issue.status # "closed"
                                          /\ SiblingsClosed(w)]
    /\ GoTo(w, "saved")
    /\ UNCHANGED <<present, row, issue, escalations, overtaken, raced>>

\* The job rows once w's transaction is committed.
JobsAfter(w) ==
    IF call[w].job = NoJob THEN row
    ELSE [row EXCEPT ![call[w].job] =
            IF call[w].op = "spawn" THEN call[w].old
            ELSE Saved(call[w].op, call[w].old)]

\* editIssue, review and escalate save the loaded issue with all its columns;
\* work on a job saves the status only, decided on the loaded issue.
IssueAfter(w) ==
    CASE call[w].op = "editIssue" -> call[w].issue
      [] call[w].op = "review" ->
           [call[w].issue EXCEPT !.status = "under_review"]
      [] call[w].op = "escalate" -> [call[w].issue EXCEPT !.level = @ + 1]
      [] call[w].op \in {"spawn", "assign", "start"} ->
           IF call[w].issue.status \in {"open", "under_review"}
           THEN [issue EXCEPT !.status = "assigned"] ELSE issue
      [] call[w].op = "close" ->
           IF call[w].closes
           THEN [issue EXCEPT !.status = "closed", !.closed = TRUE] ELSE issue
      [] OTHER -> issue

\* The transaction's writes are committed.
Commit(w) ==
    /\ pc[w] \in {"ready", "saved"}
    /\ pc[w] = "ready" => ~Locked(w)
    /\ call[w].op = "escalate" => escalations < MaxEscalations
    /\ present' = present \cup ({call[w].job} \ {NoJob})
    /\ row' = JobsAfter(w)
    /\ issue' = IssueAfter(w)
    /\ escalations' = escalations + (IF call[w].op = "escalate" THEN 1 ELSE 0)
    /\ GoTo(w, "idle")
    /\ call' = [call EXCEPT ![w] = NoCall]
    /\ overtaken' = {v \in Workers \ {w} : pc[v] # "idle"}
    /\ raced' = (raced \/ w \in overtaken)

\* A check fails, the user may not do this, or the worker dies.
Abort(w) ==
    /\ pc[w] # "idle"
    /\ GoTo(w, "idle")
    /\ call' = [call EXCEPT ![w] = NoCall]
    /\ overtaken' = overtaken \ {w}
    /\ UNCHANGED <<present, row, issue, escalations, raced>>

Step(w) == \/ LoadJob(w) \/ LoadIssue(w) \/ LoadSpawn(w)
           \/ ReadSiblings(w) \/ Commit(w) \/ Abort(w)

Next == \E w \in Workers : Step(w)

Spec == Init /\ [][Next]_vars

------------------------------------------------------------------------------
CallRecord == [op : JobOperations \cup IssueOperations \cup {"none"},
               job : Jobs \cup {NoJob}, old : JobRow, issue : IssueRow,
               closes : BOOLEAN]

TypeOK ==
    /\ present \subseteq Jobs
    /\ row \in [Jobs -> JobRow]
    /\ issue \in IssueRow
    /\ escalations \in Nat
    /\ pc \in [Workers -> {"idle", "loaded", "ready", "saved"}]
    /\ call \in [Workers -> CallRecord]
    /\ overtaken \subseteq Workers
    /\ raced \in BOOLEAN

Stamped(r) ==
    /\ r.completed <=> r.status \in {"completed", "verified", "closed"}
    /\ r.verified <=> r.status \in {"verified", "closed"}
    /\ r.closed <=> r.status = "closed"

\* Whatever stale objects are saved over each other, a job's completion,
\* verification and closure stamps are those of its status: no closed or
\* verified job is without its verifier, no reopened one keeps it.
StampsMatchStatus == \A j \in present : Stamped(row[j])

\* The level never exceeds the escalations on record, and is their number
\* unless a call has overwritten what it had not seen.
EscalationsCounted ==
    /\ issue.level <= escalations
    /\ ~raced => issue.level = escalations

\* Types; no closed or verified job is without its verifier, whatever is saved
\* over what; and no escalation is lost but to a call that had not seen it.
JobsOK == TypeOK /\ StampsMatchStatus /\ EscalationsCounted

AllJobsClosed == present # {} /\ \A j \in present : row[j].status = "closed"

\* "when every linked job is CLOSED the issue becomes CLOSED", with its
\* closing time, as long as no call commits over a change it has not seen.
IssueFollowsJobs ==
    ~raced => /\ AllJobsClosed => issue.status = "closed"
              /\ issue.closed <=> issue.status = "closed"

\* An issue is closed by closing the last of its jobs and in no other way, and
\* it stays closed, as long as calls do not race.
ClosesWithLastJob ==
    [][~raced' => /\ issue'.status = "closed" /\ issue.status # "closed" =>
                        \A j \in present' : row'[j].status = "closed"
                  /\ issue.status = "closed" => issue' = issue]_vars

\* "A job cannot close without verification", and a reopened job is assigned
\* again before anything else happens to it, as long as calls do not race.
VerifiedBeforeClosed ==
    [][~raced' => \A j \in present : row'[j].status # row[j].status =>
         /\ row'[j].status = "closed" => row[j].status = "verified"
         /\ row[j].status = "closed" => row'[j].status = "reopened"
         /\ row[j].status = "reopened" => row'[j].status = "assigned"]_vars

==============================================================================
