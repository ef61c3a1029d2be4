---------------------------- MODULE ReportDelivery ----------------------------
(***************************************************************************)
(* The scheduled reports of report_delivery.py and tasks.py.  Celery Beat  *)
(* queues a task a day or a week; a worker mails the report of the last    *)
(* completed period and records the outcome in the period's ReportDelivery *)
(* row; a failed task is queued again.  A worker may die at any point, and *)
(* the mail service may accept a mail whose answer is never read.          *)
(*                                                                         *)
(* A period is known by its first day; days are numbered from a Monday.    *)
(***************************************************************************)
EXTENDS Integers, FiniteSets

CONSTANTS
    Tasks,        \* tasks that Beat may queue, numbered in that order
    Reports,      \* report types: "daily", "weekly"
    WeekLength,   \* days in a week
    MaxDay,       \* bound: the last day
    MaxRetries,   \* max_retries of the tasks
    Concurrency,  \* tasks the worker executes at once
    NoPeriod      \* the period of a task that has not run

ASSUME DeliveryAssumption ==
    /\ Tasks \subseteq Nat
    /\ Reports \subseteq {"daily", "weekly"}
    /\ WeekLength \in Nat \ {0}
    /\ MaxDay \in Nat
    /\ WeekLength <= MaxDay
    /\ MaxRetries \in Nat
    /\ Concurrency \in Nat \ {0}
    /\ NoPeriod \notin Reports \X Int

VARIABLES
    today,
    queuedOn,   \* the day Beat last queued each report
    task,       \* each task's stage, attempts and period
    delivery,   \* status of each period's ReportDelivery row
    accepted,   \* mails the service has accepted for each period
    doubts,     \* accepted mails that went unrecorded, and attempts that
                \* began during another one, for each period
    abandoned   \* periods that a task has given up

vars == <<today, queuedOn, task, delivery, accepted, doubts, abandoned>>

------------------------------------------------------------------------------
\* The last completed day, and the last completed week.
Window(report, day) ==
    IF report = "daily" THEN <<report, day - 1>>
    ELSE LET end == day - ((day % WeekLength) + 1)
         IN  <<report, end - (WeekLength - 1)>>

Periods == {Window(r, day) : r \in Reports, day \in WeekLength .. MaxDay}

NewTask == [report |-> "none", stage |-> "new", tries |-> 0,
            period |-> NoPeriod]

Init ==
    /\ today = WeekLength
    /\ queuedOn = [r \in Reports |-> 0]
    /\ task = [t \in Tasks |-> NewTask]
    /\ delivery = [p \in Periods |-> "none"]
    /\ accepted = [p \in Periods |-> 0]
    /\ doubts = [p \in Periods |-> 0]
    /\ abandoned = {}

Underway == {t \in Tasks : task[t].stage \in {"sending", "accepted", "failing"}}

Became(t, stage) == task' = [task EXCEPT ![t].stage = stage]

\* Mutant: a failed report is not sent again.
Retried_Never(t) == [task[t] EXCEPT !.stage = "done"]

\* self.retry queues the task again, or gives up.
Retried(t) == IF task[t].tries < MaxRetries
              THEN [task[t] EXCEPT !.stage = "queued", !.tries = @ + 1]
              ELSE [task[t] EXCEPT !.stage = "done"]

\* Mutant: Begin without the check of the row's status.
AlreadySent_Unchecked(p) == FALSE

\* Mutant: a row that exists but is not failed belongs to somebody.
AlreadySent_Claimed(p) == delivery[p] \in {"pending", "sent"}

AlreadySent(p) == delivery[p] = "sent"

------------------------------------------------------------------------------
NextDay ==
    /\ today < MaxDay
    /\ today' = today + 1
    /\ UNCHANGED <<queuedOn, task, delivery, accepted, doubts, abandoned>>

\* Beat queues a report at most once a day, the weekly one on some Mondays.
Queue(t) ==
    /\ task[t].stage = "new"
    /\ \A u \in Tasks : u < t => task[u].stage # "new"
    /\ \E r \in Reports :
         /\ queuedOn[r] < today
         /\ r = "weekly" => today % WeekLength = 0
         /\ queuedOn' = [queuedOn EXCEPT ![r] = today]
         /\ task' = [task EXCEPT ![t].report = r, ![t].stage = "queued"]
    /\ UNCHANGED <<today, delivery, accepted, doubts, abandoned>>

\* A worker takes the task, which works out its period from the day it runs
\* on, gets or creates the row and reads its status.
Begin(t) ==
    LET p == Window(task[t].report, today) IN
    /\ task[t].stage = "queued"
    /\ Cardinality(Underway) < Concurrency
    /\ task' = [task EXCEPT ![t].period = p,
                  ![t].stage = IF AlreadySent(p) THEN "done" ELSE "sending"]
    /\ delivery' = [delivery EXCEPT ![p] = IF @ = "none" THEN "pending" ELSE @]
    /\ doubts' = [doubts EXCEPT ![p] =
                    IF ~AlreadySent(p) /\ \E u \in Underway : task[u].period = p
                    THEN @ + 1 ELSE @]
    /\ abandoned' = abandoned \cup ({task[t].period} \ {p, NoPeriod})
    /\ UNCHANGED <<today, queuedOn, accepted>>

\* The service accepts the mail and the worker reads its answer ...
SendAccepted(t) ==
    /\ task[t].stage = "sending"
    /\ accepted' = [accepted EXCEPT ![task[t].period] = @ + 1]
    /\ Became(t, "accepted")
    /\ UNCHANGED <<today, queuedOn, delivery, doubts, abandoned>>

\* ... or does not, or not in time ...
AnswerLost(t) ==
    LET p == task[t].period IN
    /\ task[t].stage = "sending"
    /\ accepted' = [accepted EXCEPT ![p] = @ + 1]
    /\ doubts' = [doubts EXCEPT ![p] = @ + 1]
    /\ Became(t, "failing")
    /\ UNCHANGED <<today, queuedOn, delivery, abandoned>>

\* ... or there is no mail: rendering failed, or the service refused it.
SendFails(t) ==
    /\ task[t].stage = "sending"
    /\ Became(t, "failing")
    /\ UNCHANGED <<today, queuedOn, delivery, accepted, doubts, abandoned>>

Recorded(status) == status

\* The row is saved, its status last.
SaveSent(t) ==
    /\ task[t].stage = "accepted"
    /\ delivery' = [delivery EXCEPT ![task[t].period] = Recorded("sent")]
    /\ Became(t, "done")
    /\ UNCHANGED <<today, queuedOn, accepted, doubts, abandoned>>

\* The database refuses: the same handler takes it for a failed delivery.
SaveSentFails(t) ==
    /\ task[t].stage = "accepted"
    /\ doubts' = [doubts EXCEPT ![task[t].period] = @ + 1]
    /\ Became(t, "failing")
    /\ UNCHANGED <<today, queuedOn, delivery, accepted, abandoned>>

\* The failure is recorded, unless the database refuses that too, and the
\* task is queued again or gives up.
Fail(t) ==
    LET p == task[t].period IN
    /\ task[t].stage = "failing"
    /\ \E status \in {Recorded("failed"), delivery[p]} :
         delivery' = [delivery EXCEPT ![p] = status]
    /\ task' = [task EXCEPT ![t] = Retried(t)]
    /\ abandoned' = IF task[t].tries < MaxRetries THEN abandoned
                    ELSE abandoned \cup {p}
    /\ UNCHANGED <<today, queuedOn, accepted, doubts>>

\* The worker process dies or the task hits its time limit.  Celery has
\* acknowledged the message before the task ran, so nobody runs it again.
Die(t) ==
    LET p == task[t].period IN
    /\ t \in Underway
    /\ Became(t, "done")
    /\ doubts' = [doubts EXCEPT ![p] = IF task[t].stage = "accepted"
                                       THEN @ + 1 ELSE @]
    /\ abandoned' = abandoned \cup {p}
    /\ UNCHANGED <<today, queuedOn, delivery, accepted>>

Send(t) == SendAccepted(t) \/ AnswerLost(t) \/ SendFails(t)
Save(t) == SaveSent(t) \/ SaveSentFails(t) \/ Fail(t)

Next == NextDay \/ \E t \in Tasks : Queue(t) \/ Begin(t) \/ Send(t) \/ Save(t)
                                    \/ Die(t)

Spec == Init /\ [][Next]_vars

\* A worker is running: it takes what is queued and finishes what it took.
FairSpec ==
    /\ Spec
    /\ \A t \in Tasks : WF_vars(Begin(t)) /\ WF_vars(Send(t) \/ Save(t))

------------------------------------------------------------------------------
TypeOK ==
    /\ today \in 0 .. MaxDay
    /\ queuedOn \in [Reports -> 0 .. MaxDay]
    /\ task \in [Tasks ->
         [report : Reports \cup {"none"},
          stage : {"new", "queued", "sending", "accepted", "failing", "done"},
          tries : 0 .. MaxRetries, period : Periods \cup {NoPeriod}]]
    /\ delivery \in [Periods -> {"none", "pending", "sent", "failed"}]
    /\ accepted \in [Periods -> Nat]
    /\ doubts \in [Periods -> Nat]
    /\ abandoned \subseteq Periods

\* A row that says a report was sent tells the truth.
SentMeansAccepted ==
    \A p \in Periods : delivery[p] = "sent" => accepted[p] > 0

\* Beyond the first mail of a period there is one for each unrecorded success
\* and for each attempt that began during another, and never a further one:
\* retries alone send nothing twice.
DuplicatesAccounted ==
    \A p \in Periods : accepted[p] <= 1 + doubts[p]

\* Types; a row that says sent tells the truth; and retries send nothing twice.
DeliveriesOK == TypeOK /\ SentMeansAccepted /\ DuplicatesAccounted

\* A delivery that is not sent has a task that will see to it, unless a worker
\* died, the retries ran out, or the retry ran in the next period.
UnsentHasATask ==
    \A p \in Periods : delivery[p] \in {"pending", "failed"} =>
        \/ p \in abandoned
        \/ \E t \in Tasks : /\ task[t].period = p
                            /\ task[t].stage \notin {"new", "done"}

\* Such a delivery is eventually sent or abandoned.
StartedIsSent ==
    \A p \in Periods : delivery[p] \in {"pending", "failed"}
        ~> delivery[p] = "sent" \/ p \in abandoned

==============================================================================
