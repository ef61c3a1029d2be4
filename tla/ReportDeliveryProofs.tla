-------------------------- MODULE ReportDeliveryProofs --------------------------
(***************************************************************************)
(* What ReportDelivery promises for every number of tasks, days and        *)
(* retries.  The key is DoubtsCover: a period's mails, and the attempts    *)
(* that may still add to them or record a failure, are at most its doubts, *)
(* and one more while an attempt is under way or once the row says sent.   *)
(***************************************************************************)
EXTENDS ReportDelivery, FiniteSetTheorems, TLAPS

\* The attempts on p that have not had an answer they can record as sent.
Pursuing(p) == {t \in Tasks : /\ task[t].stage \in {"sending", "failing"}
                              /\ task[t].period = p}

\* Somebody has p in hand, or the row says that it is done.
Engaged(p) == \/ delivery[p] = "sent"
              \/ \E t \in Underway : task[t].period = p

DoubtsCover(p) ==
    /\ IsFiniteSet(Pursuing(p))
    /\ accepted[p] + Cardinality(Pursuing(p)) <= 1 + doubts[p]
    /\ ~Engaged(p) => accepted[p] + Cardinality(Pursuing(p)) <= doubts[p]

\* SentMeansAccepted and UnsentHasATask, for one period.
RowIsTrue(p) ==
    /\ delivery[p] = "sent" => accepted[p] > 0
    /\ delivery[p] \in {"pending", "failed"} =>
         \/ p \in abandoned
         \/ \E t \in Tasks : /\ task[t].period = p
                             /\ task[t].stage \notin {"new", "done"}

\* A task has a report from the moment it is queued, and a period from the
\* moment it is taken; the service has accepted what is about to be recorded.
TasksInOrder ==
    /\ today >= WeekLength
    /\ \A t \in Tasks :
         /\ task[t].stage # "new" => task[t].report \in Reports
         /\ task[t].stage \in {"sending", "accepted", "failing"} =>
                task[t].period \in Periods
         /\ task[t].stage = "accepted" => accepted[task[t].period] > 0

IInv ==
    /\ TypeOK
    /\ TasksInOrder
    /\ \A p \in Periods : DoubtsCover(p) /\ RowIsTrue(p)

TaskRecord ==
    [report : Reports \cup {"none"},
     stage : {"new", "queued", "sending", "accepted", "failing", "done"},
     tries : 0 .. MaxRetries, period : Periods \cup {NoPeriod}]

------------------------------------------------------------------------------
\* The period of a report on a day of the calendar is a period.
LEMMA WindowIsPeriod ==
    ASSUME NEW r \in Reports, NEW day \in WeekLength .. MaxDay
    PROVE  Window(r, day) \in Periods
  BY DEF Periods

\* A period that is known is a period.
LEMMA NoPeriodIsNone == NoPeriod \notin Periods
<1> USE DeliveryAssumption
<1> SUFFICES ASSUME NEW r \in Reports, NEW day \in WeekLength .. MaxDay
             PROVE  Window(r, day) # NoPeriod
  BY DEF Periods
<1>1. day % WeekLength \in Int
  OBVIOUS
<1>2. Window(r, day) \in Reports \X Int
  BY <1>1 DEF Window
<1> QED
  BY <1>2

\* An attempt on q is counted from when it begins to send to when it has been
\* recorded or has been given up.
LEMMA PursuitChanges ==
    ASSUME NEW t \in Tasks, \A u \in Tasks \ {t} : task'[u] = task[u],
           NEW q, IsFiniteSet(Pursuing(q))
    PROVE  /\ IsFiniteSet(Pursuing(q)')
           /\ Cardinality(Pursuing(q)) \in Nat
           /\ Cardinality(Pursuing(q)') =
                Cardinality(Pursuing(q)) - (IF t \in Pursuing(q) THEN 1 ELSE 0)
                    + (IF t \in Pursuing(q)' THEN 1 ELSE 0)
<1> DEFINE rest == Pursuing(q) \ {t}
<1>1. Cardinality(Pursuing(q)) \in Nat
  BY FS_CardinalityType
<1>2. /\ IsFiniteSet(rest)
      /\ Cardinality(rest) = IF t \in Pursuing(q) THEN Cardinality(Pursuing(q)) - 1
                             ELSE Cardinality(Pursuing(q))
  BY FS_RemoveElement
<1>3. Pursuing(q)' = IF t \in Pursuing(q)' THEN rest \cup {t} ELSE rest
  BY DEF Pursuing
<1>4. /\ IsFiniteSet(rest \cup {t})
      /\ Cardinality(rest \cup {t}) = Cardinality(rest) + 1
  BY <1>2, FS_AddElement
<1>5. Cardinality(Pursuing(q)') = IF t \in Pursuing(q)' THEN Cardinality(rest) + 1
                                  ELSE Cardinality(rest)
  BY <1>3, <1>4
<1>6. IsFiniteSet(Pursuing(q)')
  BY <1>2, <1>3, <1>4
<1>7. Cardinality(rest) \in Nat
  BY <1>2, FS_CardinalityType
<1> HIDE DEF rest
<1> QED
  BY <1>1, <1>2, <1>5, <1>6, <1>7

\* The invariant is about each period by itself: one that a step leaves alone,
\* and on which the task of the step was and is not at work, keeps it.
LEMMA OthersKept ==
    ASSUME IInv, NEW t \in Tasks, \A u \in Tasks \ {t} : task'[u] = task[u],
           NEW q \in Periods,
           delivery'[q] = delivery[q], accepted'[q] = accepted[q],
           doubts'[q] = doubts[q], abandoned \subseteq abandoned',
           task[t].period = q => task[t].stage \in {"new", "done"},
           task'[t].period = q => task'[t].stage \in {"new", "done"}
    PROVE  DoubtsCover(q)' /\ RowIsTrue(q)'
<1>1. t \notin Pursuing(q) /\ t \notin Pursuing(q)'
  BY DEF Pursuing
<1>2. IsFiniteSet(Pursuing(q)') /\ Cardinality(Pursuing(q)') = Cardinality(Pursuing(q))
  BY <1>1, PursuitChanges DEF IInv, DoubtsCover
<1>3. Engaged(q)' <=> Engaged(q)
  BY DEF Engaged, Underway
<1>4. DoubtsCover(q)'
  BY <1>2, <1>3 DEF IInv, DoubtsCover
<1>5. RowIsTrue(q)'
  BY DEF IInv, RowIsTrue
<1> QED
  BY <1>4, <1>5

\* What is left to show of a step of t on the period p.
LEMMA StepOnPeriod ==
    ASSUME IInv, NEW t \in Tasks, NEW p \in Periods, NEW r \in TaskRecord,
           task' = [task EXCEPT ![t] = r], r.report = task[t].report,
           r.period = p \/ r.stage \in {"new", "done"},
           task[t].period = p \/ task[t].stage \in {"new", "done"},
           today' = today, queuedOn' = queuedOn,
           r.stage # "new" => r.report \in Reports,
           r.stage = "accepted" => accepted'[p] > 0,
           delivery' \in [Periods -> {"none", "pending", "sent", "failed"}],
           accepted' \in [Periods -> Nat], doubts' \in [Periods -> Nat],
           accepted'[p] >= accepted[p],
           abandoned \subseteq abandoned', abandoned' \subseteq Periods,
           \A q \in Periods \ {p} : /\ delivery'[q] = delivery[q]
                                    /\ accepted'[q] = accepted[q]
                                    /\ doubts'[q] = doubts[q],
           DoubtsCover(p)', RowIsTrue(p)'
    PROVE  IInv'
<1>1. task \in [Tasks -> TaskRecord]
  BY DEF IInv, TypeOK, TaskRecord
<1>2. task' \in [Tasks -> TaskRecord]
  BY <1>1
<1>3. task'[t] = r /\ \A u \in Tasks \ {t} : task'[u] = task[u]
  BY <1>1
<1>4. TypeOK'
  BY <1>2 DEF IInv, TypeOK, TaskRecord
<1>5. TasksInOrder'
  <2>1. \A q \in Periods : accepted[q] > 0 => accepted'[q] > 0
    BY DEF IInv, TypeOK
  <2> QED
    BY <1>1, <1>3, <2>1 DEF IInv, TasksInOrder, TaskRecord
<1>6. ASSUME NEW q \in Periods \ {p}
      PROVE  DoubtsCover(q)' /\ RowIsTrue(q)'
  BY <1>3, OthersKept
<1> QED
  BY <1>4, <1>5, <1>6 DEF IInv

------------------------------------------------------------------------------
LEMMA InitInv == Init => IInv
<1> USE DeliveryAssumption
<1> SUFFICES ASSUME Init PROVE IInv
  OBVIOUS
<1>1. TypeOK /\ TasksInOrder
  BY DEF Init, NewTask, TypeOK, TasksInOrder
<1>2. ASSUME NEW p \in Periods
      PROVE  DoubtsCover(p) /\ RowIsTrue(p)
  <2>1. Pursuing(p) = {}
    BY DEF Init, NewTask, Pursuing
  <2> QED
    BY <2>1, FS_EmptySet DEF Init, DoubtsCover, RowIsTrue
<1> QED
  BY <1>1, <1>2 DEF IInv

\* A day passes, or Beat queues a task: no delivery is touched.
LEMMA CalendarStep ==
    ASSUME IInv, NextDay \/ \E t \in Tasks : Queue(t)
    PROVE  IInv'
<1> USE DeliveryAssumption
<1>1. CASE NextDay
  <2>1. TypeOK' /\ TasksInOrder'
    BY <1>1 DEF NextDay, IInv, TypeOK, TasksInOrder
  <2>2. ASSUME NEW p \in Periods
        PROVE  DoubtsCover(p)' /\ RowIsTrue(p)'
    BY <1>1 DEF NextDay, IInv, DoubtsCover, RowIsTrue, Pursuing, Engaged, Underway
  <2> QED
    BY <2>1, <2>2 DEF IInv
<1>2. ASSUME NEW t \in Tasks, Queue(t)
      PROVE  IInv'
  <2>1. PICK r \in Reports : /\ queuedOn' = [queuedOn EXCEPT ![r] = today]
                             /\ task' = [task EXCEPT ![t].report = r,
                                                     ![t].stage = "queued"]
    BY <1>2 DEF Queue
  <2>2. task \in [Tasks -> TaskRecord] /\ task[t].stage = "new"
    BY <1>2 DEF Queue, IInv, TypeOK, TaskRecord
  <2>3. task'[t] = [task[t] EXCEPT !.report = r, !.stage = "queued"]
    BY <2>1, <2>2
  <2>4. \A u \in Tasks \ {t} : task'[u] = task[u]
    BY <2>1, <2>2
  <2>5. task' \in [Tasks -> TaskRecord]
    BY <2>1, <2>2 DEF TaskRecord
  <2>6. TypeOK'
    BY <1>2, <2>1, <2>5 DEF Queue, IInv, TypeOK, TaskRecord
  <2>7. TasksInOrder'
    BY <1>2, <2>2, <2>3, <2>4 DEF Queue, IInv, TasksInOrder, TaskRecord
  <2>8. ASSUME NEW p \in Periods
        PROVE  DoubtsCover(p)' /\ RowIsTrue(p)'
    <3>1. Pursuing(p)' = Pursuing(p) /\ (Engaged(p)' <=> Engaged(p))
      BY <1>2, <2>2, <2>3, <2>4 DEF Queue, Pursuing, Engaged, Underway, TaskRecord
    <3>2. DoubtsCover(p)'
      BY <1>2, <3>1 DEF Queue, IInv, DoubtsCover
    <3>3. RowIsTrue(p)'
      BY <1>2, <2>2, <2>4 DEF Queue, IInv, RowIsTrue
    <3> QED
      BY <3>2, <3>3
  <2> QED
    BY <2>6, <2>7, <2>8 DEF IInv
<1> QED
  BY <1>1, <1>2

\* A worker takes a task: either the row says sent, or there is one more attempt,
\* and one more doubt if somebody else has the period in hand.
LEMMA BeginStep ==
    ASSUME IInv, NEW t \in Tasks, Begin(t)
    PROVE  IInv'
<1> USE DeliveryAssumption
<1>1. task \in [Tasks -> TaskRecord] /\ task[t].stage = "queued"
  BY DEF Begin, IInv, TypeOK, TaskRecord
<1>2. PICK p \in Periods : p = Window(task[t].report, today)
  BY <1>1, WindowIsPeriod DEF Begin, IInv, TypeOK, TasksInOrder
<1>3. PICK r : r = [task[t] EXCEPT !.period = p,
                       !.stage = IF AlreadySent(p) THEN "done" ELSE "sending"]
  OBVIOUS
<1>4. /\ task' = [task EXCEPT ![t] = r] /\ r \in TaskRecord
      /\ r.period = p /\ r.report = task[t].report
      /\ r.stage = IF AlreadySent(p) THEN "done" ELSE "sending"
  BY <1>1, <1>2, <1>3 DEF Begin, TaskRecord
<1>5. delivery' = [delivery EXCEPT ![p] = IF @ = "none" THEN "pending" ELSE @]
  BY <1>2 DEF Begin
<1>6. doubts' = [doubts EXCEPT ![p] =
                   IF ~AlreadySent(p) /\ \E u \in Underway : task[u].period = p
                   THEN @ + 1 ELSE @]
  BY <1>2 DEF Begin
<1>7. abandoned' = abandoned \cup ({task[t].period} \ {p, NoPeriod})
  BY <1>2 DEF Begin
<1>8. UNCHANGED <<today, queuedOn, accepted>>
  BY DEF Begin
<1>9. task'[t] = r /\ \A u \in Tasks \ {t} : task'[u] = task[u]
  BY <1>1, <1>4
<1>10. /\ delivery \in [Periods -> {"none", "pending", "sent", "failed"}]
      /\ accepted \in [Periods -> Nat] /\ doubts \in [Periods -> Nat]
      /\ abandoned \subseteq Periods /\ task[t].period \in Periods \cup {NoPeriod}
  BY <1>1 DEF IInv, TypeOK, TaskRecord
<1>11. TypeOK'
  BY <1>1, <1>4, <1>5, <1>6, <1>7, <1>8, <1>10 DEF IInv, TypeOK, TaskRecord
<1>12. TasksInOrder'
  BY <1>1, <1>2, <1>4, <1>8, <1>9 DEF IInv, TasksInOrder, TaskRecord
<1>13. DoubtsCover(p)'
  <2>1. /\ IsFiniteSet(Pursuing(p)') /\ Cardinality(Pursuing(p)) \in Nat
        /\ Cardinality(Pursuing(p)') =
              Cardinality(Pursuing(p)) + (IF AlreadySent(p) THEN 0 ELSE 1)
    <3>1. t \notin Pursuing(p)
      BY <1>1 DEF Pursuing
    <3>2. t \in Pursuing(p)' <=> ~AlreadySent(p)
      BY <1>4, <1>9 DEF Pursuing
    <3>3. /\ IsFiniteSet(Pursuing(p)') /\ Cardinality(Pursuing(p)) \in Nat
          /\ Cardinality(Pursuing(p)') =
                Cardinality(Pursuing(p)) - (IF t \in Pursuing(p) THEN 1 ELSE 0)
                    + (IF t \in Pursuing(p)' THEN 1 ELSE 0)
      BY <1>2, <1>9, PursuitChanges DEF IInv, DoubtsCover
    <3> QED
      BY <3>1, <3>2, <3>3
  <2>2. Engaged(p)'
    BY <1>2, <1>4, <1>5, <1>9, <1>10 DEF Engaged, Underway, AlreadySent
  <2>3. /\ accepted[p] + Cardinality(Pursuing(p)) <= 1 + doubts[p]
        /\ ~Engaged(p) => accepted[p] + Cardinality(Pursuing(p)) <= doubts[p]
    BY <1>2 DEF IInv, DoubtsCover
  <2>4. doubts'[p] = IF ~AlreadySent(p) /\ Engaged(p) THEN doubts[p] + 1
                     ELSE doubts[p]
    BY <1>2, <1>6, <1>10 DEF Engaged, AlreadySent
  <2>5. accepted'[p] + Cardinality(Pursuing(p)') <= 1 + doubts'[p]
    <3>1. accepted'[p] = accepted[p] /\ accepted[p] \in Nat /\ doubts[p] \in Nat
      BY <1>2, <1>8, <1>10
    <3> QED
      BY <2>1, <2>3, <2>4, <3>1
  <2> QED
    BY <2>1, <2>2, <2>5 DEF DoubtsCover
<1>14. RowIsTrue(p)'
  <2>1. delivery'[p] = "sent" <=> AlreadySent(p)
    BY <1>2, <1>5, <1>10 DEF AlreadySent
  <2>2. AlreadySent(p) => accepted'[p] > 0
    BY <1>2, <1>8 DEF IInv, RowIsTrue, AlreadySent
  <2> QED
    BY <1>4, <1>9, <2>1, <2>2 DEF RowIsTrue
<1>15. ASSUME NEW q \in Periods \ {p}
       PROVE  DoubtsCover(q)' /\ RowIsTrue(q)'
  <2>1. /\ delivery'[q] = delivery[q] /\ doubts'[q] = doubts[q]
        /\ accepted'[q] = accepted[q]
    BY <1>5, <1>6, <1>8, <1>10
  <2>2. t \notin Pursuing(q) /\ t \notin Pursuing(q)'
    BY <1>1, <1>4, <1>9 DEF Pursuing
  <2>3. IsFiniteSet(Pursuing(q)') /\ Cardinality(Pursuing(q)') = Cardinality(Pursuing(q))
    BY <1>9, <2>2, PursuitChanges DEF IInv, DoubtsCover
  <2>4. Engaged(q)' <=> Engaged(q)
    BY <1>1, <1>4, <1>9, <2>1 DEF Engaged, Underway
  <2>5. DoubtsCover(q)'
    BY <2>1, <2>3, <2>4 DEF IInv, DoubtsCover
  <2>6. RowIsTrue(q)'
    <3>1. q # NoPeriod
      BY NoPeriodIsNone
    <3>2. task[t].period = q => q \in abandoned'
      BY <1>7, <3>1
    <3>3. abandoned \subseteq abandoned'
      BY <1>7
    <3> QED
      BY <1>9, <2>1, <3>2, <3>3 DEF IInv, RowIsTrue
  <2> QED
    BY <2>5, <2>6
<1> QED
  BY <1>11, <1>12, <1>13, <1>14, <1>15 DEF IInv

\* The service answers, or not: the attempt is not pursued any more, or it is
\* one of the failing ones, and every mail whose answer is lost is a doubt.
LEMMA SendStep ==
    ASSUME IInv, NEW t \in Tasks, Send(t)
    PROVE  IInv'
<1>1. /\ task \in [Tasks -> TaskRecord] /\ task[t].stage = "sending"
      /\ task[t].period \in Periods
  BY DEF Send, SendAccepted, AnswerLost, SendFails, IInv, TypeOK, TaskRecord,
         TasksInOrder
<1>2. PICK p \in Periods : p = task[t].period
  BY <1>1
<1>3. /\ delivery \in [Periods -> {"none", "pending", "sent", "failed"}]
      /\ accepted \in [Periods -> Nat] /\ doubts \in [Periods -> Nat]
      /\ abandoned \subseteq Periods
  BY DEF IInv, TypeOK
<1>4. /\ IsFiniteSet(Pursuing(p)) /\ Cardinality(Pursuing(p)) \in Nat
      /\ accepted[p] + Cardinality(Pursuing(p)) <= 1 + doubts[p]
  BY <1>1, FS_CardinalityType DEF IInv, DoubtsCover
<1>5. task[t].report \in Reports
  BY <1>1 DEF IInv, TasksInOrder
<1>6. ASSUME NEW stage \in {"accepted", "failing"}, NEW got \in {0, 1}, NEW d \in {0, 1},
             Became(t, stage), UNCHANGED <<today, queuedOn, delivery, abandoned>>,
             accepted' = [accepted EXCEPT ![p] = @ + got],
             doubts' = [doubts EXCEPT ![p] = @ + d],
             stage = "accepted" => got = 1, stage = "failing" => d = got
      PROVE  IInv'
  <2>1. PICK r : r = [task[t] EXCEPT !.stage = stage]
    OBVIOUS
  <2>2. /\ r \in TaskRecord /\ r.report = task[t].report /\ r.period = p
        /\ r.stage = stage /\ task' = [task EXCEPT ![t] = r]
    BY <1>1, <1>6, <1>2, <2>1 DEF TaskRecord, Became
  <2>3. task'[t] = r /\ \A u \in Tasks \ {t} : task'[u] = task[u]
    BY <1>1, <2>2
  <2>4. /\ accepted'[p] = accepted[p] + got /\ doubts'[p] = doubts[p] + d
        /\ accepted[p] \in Nat /\ doubts[p] \in Nat
    BY <1>1, <1>3, <1>6
  <2>5. accepted'[p] >= accepted[p]
    BY <2>4
  <2>6. /\ IsFiniteSet(Pursuing(p)')
        /\ Cardinality(Pursuing(p)') = Cardinality(Pursuing(p))
                                          - (IF stage = "failing" THEN 0 ELSE 1)
    <3>1. t \in Pursuing(p) /\ (t \in Pursuing(p)' <=> stage = "failing")
      BY <1>1, <1>2, <2>2, <2>3 DEF Pursuing
    <3>2. /\ IsFiniteSet(Pursuing(p)')
          /\ Cardinality(Pursuing(p)') =
                Cardinality(Pursuing(p)) - (IF t \in Pursuing(p) THEN 1 ELSE 0)
                    + (IF t \in Pursuing(p)' THEN 1 ELSE 0)
      BY <1>4, <2>3, PursuitChanges
    <3> QED
      BY <1>4, <3>1, <3>2
  <2>7. Engaged(p)'
    BY <2>2, <2>3 DEF Engaged, Underway
  <2>8. DoubtsCover(p)'
    <3>1. accepted'[p] + Cardinality(Pursuing(p)') <= 1 + doubts'[p]
      BY <1>4, <1>6, <2>4, <2>6
    <3> QED
      BY <2>6, <2>7, <3>1 DEF DoubtsCover
  <2>9. RowIsTrue(p)'
    <3>1. delivery[p] = "sent" => accepted[p] > 0
      BY DEF IInv, RowIsTrue
    <3>2. delivery[p] = "sent" => accepted'[p] > 0
      BY <2>5, <2>4, <3>1
    <3>3. delivery' = delivery
      BY <1>6
    <3> QED
      BY <2>2, <2>3, <3>2, <3>3 DEF RowIsTrue
  <2>10. /\ accepted' \in [Periods -> Nat] /\ doubts' \in [Periods -> Nat]
        /\ \A q \in Periods \ {p} : accepted'[q] = accepted[q] /\ doubts'[q] = doubts[q]
    BY <1>1, <1>3, <1>6
  <2>11. stage = "accepted" => accepted'[p] > 0
    BY <1>6, <2>4
  <2> QED
    BY <1>1, <1>3, <1>5, <1>6, <2>2, <2>8, <2>9, <2>10, <2>11, <2>5, <1>2, StepOnPeriod
<1>7. CASE SendAccepted(t)
  <2>1. doubts' = [doubts EXCEPT ![p] = @ + 0]
    BY <1>1, <1>3, <1>7 DEF SendAccepted
  <2> QED
    BY <1>6, <1>7, <2>1, <1>2 DEF SendAccepted
<1>8. CASE AnswerLost(t)
  BY <1>6, <1>8, <1>2 DEF AnswerLost
<1>9. CASE SendFails(t)
  <2>1. doubts' = [doubts EXCEPT ![p] = @ + 0] /\ accepted' = [accepted EXCEPT ![p] = @ + 0]
    BY <1>1, <1>3, <1>9 DEF SendFails
  <2> QED
    BY <1>6, <1>9, <2>1, <1>2 DEF SendFails
<1> QED
  BY <1>7, <1>8, <1>9 DEF Send

\* r is what a step leaves of the task t once its attempt is over, or fails.
Left(t, r) ==
    /\ r.report = task[t].report /\ r.period = task[t].period
    /\ r.stage \in {"queued", "failing", "done"}

\* An attempt that is recorded, given up or killed: what it leaves is covered
\* when there is a new doubt for a new failing attempt, and when either the
\* period is still engaged or one attempt less is pursuing it.
LEMMA RecordStep ==
    ASSUME IInv, NEW t \in Tasks, NEW p \in Periods, NEW r \in TaskRecord,
           NEW status, NEW d \in {0, 1}, NEW given,
           p = task[t].period, task[t].stage \in {"accepted", "failing", "sending"},
           task' = [task EXCEPT ![t] = r], Left(t, r),
           delivery' = [delivery EXCEPT ![p] = status],
           doubts' = [doubts EXCEPT ![p] = @ + d],
           abandoned' = abandoned \cup given, given \subseteq {p},
           UNCHANGED <<today, queuedOn, accepted>>,
           status \in {"none", "pending", "sent", "failed"},
           status = "sent" => accepted[p] > 0,
           status # "sent" /\ r.stage = "done" => given = {p},
           r.stage = "failing" => task[t].stage = "accepted" /\ d = 1,
           r.stage # "failing" =>
               status = "sent" \/ task[t].stage # "accepted" \/ d = 1,
           task[t].stage = "accepted" => d = 1 \/ status = "sent"
    PROVE  IInv'
<1>1. task \in [Tasks -> TaskRecord]
  BY DEF IInv, TypeOK, TaskRecord
<1>2. /\ delivery \in [Periods -> {"none", "pending", "sent", "failed"}]
      /\ accepted \in [Periods -> Nat] /\ doubts \in [Periods -> Nat]
      /\ abandoned \subseteq Periods
  BY DEF IInv, TypeOK
<1>3. /\ IsFiniteSet(Pursuing(p)) /\ Cardinality(Pursuing(p)) \in Nat
      /\ accepted[p] + Cardinality(Pursuing(p)) <= 1 + doubts[p]
  BY FS_CardinalityType DEF IInv, DoubtsCover
<1>4. task[t].report \in Reports
  BY <1>1 DEF IInv, TasksInOrder
<1>5. /\ r.report = task[t].report /\ r.period = p
      /\ r.stage \in {"queued", "failing", "done"}
  BY DEF Left
<1>6. task'[t] = r /\ \A u \in Tasks \ {t} : task'[u] = task[u]
  BY <1>1
<1>7. /\ delivery'[p] = status /\ doubts'[p] = doubts[p] + d
      /\ accepted'[p] = accepted[p]
      /\ accepted[p] \in Nat /\ doubts[p] \in Nat
  BY <1>2
<1>8. /\ IsFiniteSet(Pursuing(p)')
      /\ Cardinality(Pursuing(p)') =
            Cardinality(Pursuing(p)) - (IF task[t].stage = "accepted" THEN 0 ELSE 1)
                + (IF r.stage = "failing" THEN 1 ELSE 0)
  <2>1. t \in Pursuing(p) <=> task[t].stage # "accepted"
    BY DEF Pursuing
  <2>2. t \in Pursuing(p)' <=> r.stage = "failing"
    BY <1>5, <1>6 DEF Pursuing
  <2>3. /\ IsFiniteSet(Pursuing(p)')
        /\ Cardinality(Pursuing(p)') =
              Cardinality(Pursuing(p)) - (IF t \in Pursuing(p) THEN 1 ELSE 0)
                  + (IF t \in Pursuing(p)' THEN 1 ELSE 0)
    BY <1>3, <1>6, PursuitChanges
  <2> QED
    BY <1>3, <2>1, <2>2, <2>3
<1>9. DoubtsCover(p)'
  <2>1. accepted'[p] + Cardinality(Pursuing(p)') <= 1 + doubts'[p]
    BY <1>3, <1>7, <1>8
  <2>2. r.stage = "failing" \/ status = "sent" => Engaged(p)'
    BY <1>5, <1>6, <1>7 DEF Engaged, Underway
  <2>3. r.stage # "failing" /\ status # "sent" =>
            accepted'[p] + Cardinality(Pursuing(p)') <= doubts'[p]
    BY <1>3, <1>7, <1>8
  <2> QED
    BY <1>8, <2>1, <2>2, <2>3 DEF DoubtsCover
<1>10. RowIsTrue(p)'
  BY <1>5, <1>6, <1>7 DEF RowIsTrue
<1>11. /\ delivery' \in [Periods -> {"none", "pending", "sent", "failed"}]
       /\ accepted' \in [Periods -> Nat] /\ doubts' \in [Periods -> Nat]
       /\ abandoned \subseteq abandoned' /\ abandoned' \subseteq Periods
       /\ \A q \in Periods \ {p} : /\ delivery'[q] = delivery[q]
                                   /\ accepted'[q] = accepted[q]
                                   /\ doubts'[q] = doubts[q]
  BY <1>2
<1>12. accepted'[p] >= accepted[p]
  BY <1>7
<1>13. /\ r.period = p \/ r.stage \in {"new", "done"}
       /\ task[t].period = p \/ task[t].stage \in {"new", "done"}
       /\ today' = today /\ queuedOn' = queuedOn
       /\ r.stage # "new" => r.report \in Reports
       /\ r.stage = "accepted" => accepted'[p] > 0
  BY <1>4, <1>5
<1> QED
  BY <1>5, <1>9, <1>10, <1>11, <1>12, <1>13, StepOnPeriod

\* The two saves, the handler of a failure, and a death.
LEMMA SaveStep ==
    ASSUME IInv, NEW t \in Tasks, Save(t) \/ Die(t)
    PROVE  IInv'
<1> USE DeliveryAssumption
<1>1. /\ task \in [Tasks -> TaskRecord]
      /\ task[t].stage \in {"accepted", "failing", "sending"}
      /\ task[t].period \in Periods
  BY DEF Save, SaveSent, SaveSentFails, Fail, Die, Underway, IInv, TypeOK,
         TaskRecord, TasksInOrder
<1>2. PICK p \in Periods : p = task[t].period
  BY <1>1
<1>3. /\ delivery \in [Periods -> {"none", "pending", "sent", "failed"}]
      /\ delivery[p] \in {"none", "pending", "sent", "failed"}
      /\ delivery[p] = "sent" => accepted[p] > 0
      /\ delivery = [delivery EXCEPT ![p] = delivery[p]]
  BY DEF IInv, TypeOK, RowIsTrue
<1>4. doubts = [doubts EXCEPT ![p] = @ + 0] /\ abandoned = abandoned \cup {}
  BY DEF IInv, TypeOK
<1>5. ASSUME NEW stage \in {"failing", "done"}, Became(t, stage)
      PROVE  \E r \in TaskRecord : /\ task' = [task EXCEPT ![t] = r]
                                   /\ Left(t, r) /\ r.stage = stage
  <2>1. PICK r : r = [task[t] EXCEPT !.stage = stage]
    OBVIOUS
  <2>2. r \in TaskRecord /\ Left(t, r) /\ r.stage = stage
    BY <1>1, <2>1 DEF TaskRecord, Left
  <2> QED
    BY <1>5, <2>1, <2>2 DEF Became
<1>6. CASE SaveSent(t)
  <2>1. /\ delivery' = [delivery EXCEPT ![p] = "sent"]
        /\ doubts' = [doubts EXCEPT ![p] = @ + 0] /\ abandoned' = abandoned \cup {}
        /\ UNCHANGED <<today, queuedOn, accepted>> /\ task[t].stage = "accepted"
    BY <1>2, <1>4, <1>6 DEF SaveSent, Recorded
  <2>2. accepted[p] > 0
    BY <1>2, <2>1 DEF IInv, TasksInOrder
  <2>3. PICK r \in TaskRecord : /\ task' = [task EXCEPT ![t] = r]
                               /\ Left(t, r) /\ r.stage = "done"
    BY <1>5, <1>6 DEF SaveSent
  <2> QED
    BY <1>2, <2>1, <2>2, <2>3, RecordStep
<1>7. CASE SaveSentFails(t)
  <2>1. /\ delivery' = [delivery EXCEPT ![p] = delivery[p]]
        /\ doubts' = [doubts EXCEPT ![p] = @ + 1] /\ abandoned' = abandoned \cup {}
        /\ UNCHANGED <<today, queuedOn, accepted>> /\ task[t].stage = "accepted"
    BY <1>2, <1>3, <1>4, <1>7 DEF SaveSentFails
  <2>2. PICK r \in TaskRecord : /\ task' = [task EXCEPT ![t] = r]
                               /\ Left(t, r) /\ r.stage = "failing"
    BY <1>5, <1>7 DEF SaveSentFails
  <2>3. PICK status : status = delivery[p]
    OBVIOUS
  <2>4. /\ delivery' = [delivery EXCEPT ![p] = status]
        /\ status \in {"none", "pending", "sent", "failed"}
        /\ status = "sent" => accepted[p] > 0
    BY <1>3, <2>1, <2>3
  <2> QED
    BY <1>2, <2>1, <2>2, <2>4, RecordStep
<1>8. CASE Fail(t)
  <2>1. PICK status \in {"failed", delivery[p]} :
            delivery' = [delivery EXCEPT ![p] = status]
    BY <1>2, <1>8 DEF Fail, Recorded
  <2>2. /\ doubts' = [doubts EXCEPT ![p] = @ + 0]
        /\ UNCHANGED <<today, queuedOn, accepted>> /\ task[t].stage = "failing"
    BY <1>4, <1>8 DEF Fail
  <2>3. /\ status \in {"none", "pending", "sent", "failed"}
        /\ status = "sent" => accepted[p] > 0
    BY <1>3, <2>1
  <2>4. CASE task[t].tries < MaxRetries
    <3>1. PICK r : r = [task[t] EXCEPT !.stage = "queued", !.tries = @ + 1]
      OBVIOUS
    <3>2. /\ r \in TaskRecord /\ Left(t, r) /\ r.stage = "queued"
          /\ task' = [task EXCEPT ![t] = r]
      <4>1. task[t] \in TaskRecord
        BY <1>1
      <4>2. task[t].tries + 1 \in 0 .. MaxRetries
        BY <2>4, <4>1 DEF TaskRecord
      <4>3. r \in TaskRecord
        BY <3>1, <4>1, <4>2 DEF TaskRecord
      <4>4. Left(t, r) /\ r.stage = "queued"
        BY <3>1, <4>1 DEF Left, TaskRecord
      <4>5. task' = [task EXCEPT ![t] = r]
        BY <1>8, <2>4, <3>1 DEF Fail, Retried
      <4> QED
        BY <4>3, <4>4, <4>5
    <3>3. abandoned' = abandoned \cup {}
      BY <1>8, <2>4 DEF Fail
    <3> QED
      BY <1>2, <2>1, <2>2, <2>3, <3>2, <3>3, RecordStep
  <2>5. CASE ~(task[t].tries < MaxRetries)
    <3>1. PICK r : r = [task[t] EXCEPT !.stage = "done"]
      OBVIOUS
    <3>2. /\ r \in TaskRecord /\ Left(t, r) /\ r.stage = "done"
          /\ task' = [task EXCEPT ![t] = r]
      BY <1>1, <1>8, <2>5, <3>1 DEF Fail, Retried, TaskRecord, Left
    <3>3. abandoned' = abandoned \cup {p}
      BY <1>2, <1>8, <2>5 DEF Fail
    <3> QED
      BY <1>2, <2>1, <2>2, <2>3, <3>2, <3>3, RecordStep
  <2> QED
    BY <2>4, <2>5
<1>9. CASE Die(t)
  <2>1. PICK d \in {0, 1} : d = IF task[t].stage = "accepted" THEN 1 ELSE 0
    BY <1>1
  <2>2. /\ delivery' = [delivery EXCEPT ![p] = delivery[p]]
        /\ abandoned' = abandoned \cup {p} /\ UNCHANGED <<today, queuedOn, accepted>>
    BY <1>2, <1>3, <1>9 DEF Die
  <2>3. doubts' = [doubts EXCEPT ![p] = @ + d]
    <3>1. doubts \in [Periods -> Nat]
      BY DEF IInv, TypeOK
    <3>2. doubts' = [doubts EXCEPT ![p] = IF task[t].stage = "accepted"
                                          THEN @ + 1 ELSE @]
      BY <1>2, <1>9 DEF Die
    <3>3. CASE task[t].stage = "accepted"
      BY <2>1, <3>2, <3>3
    <3>4. CASE task[t].stage # "accepted"
      BY <1>4, <2>1, <3>1, <3>2, <3>4
    <3> QED
      BY <3>3, <3>4
  <2>4. PICK r \in TaskRecord : /\ task' = [task EXCEPT ![t] = r]
                               /\ Left(t, r) /\ r.stage = "done"
    BY <1>5, <1>9 DEF Die
  <2>5. PICK status : status = delivery[p]
    OBVIOUS
  <2>6. /\ delivery' = [delivery EXCEPT ![p] = status]
        /\ status \in {"none", "pending", "sent", "failed"}
        /\ status = "sent" => accepted[p] > 0
    BY <1>3, <2>2, <2>5
  <2> QED
    BY <1>1, <1>2, <2>1, <2>2, <2>3, <2>4, <2>6, RecordStep
<1> QED
  BY <1>6, <1>7, <1>8, <1>9 DEF Save

LEMMA NextInv == IInv /\ [Next]_vars => IInv'
<1> SUFFICES ASSUME IInv, [Next]_vars PROVE IInv'
  OBVIOUS
<1>1. CASE Next
  BY <1>1, CalendarStep, BeginStep, SendStep, SaveStep DEF Next
<1>2. CASE UNCHANGED vars
  <2>1. TypeOK' /\ TasksInOrder'
    BY <1>2 DEF vars, IInv, TypeOK, TasksInOrder
  <2>2. ASSUME NEW p \in Periods
        PROVE  DoubtsCover(p)' /\ RowIsTrue(p)'
    BY <1>2 DEF vars, IInv, DoubtsCover, RowIsTrue, Pursuing, Engaged, Underway
  <2> QED
    BY <2>1, <2>2 DEF IInv
<1> QED
  BY <1>1, <1>2

------------------------------------------------------------------------------
\* The invariant holds of every behaviour.
THEOREM Invariant == Spec => []IInv
<1>1. Init => IInv
  BY InitInv
<1>2. IInv /\ [Next]_vars => IInv'
  BY NextInv
<1> QED
  BY <1>1, <1>2, PTL DEF Spec

\* A delivery recorded as sent was accepted by the mail service, and retries
\* alone send nothing twice: every mail of a period beyond the first has a lost
\* answer, a failed save, a death, or an attempt that began during another.
THEOREM DeliveriesHold == Spec => []DeliveriesOK
<1>1. ASSUME IInv PROVE DeliveriesOK
  <2>1. SentMeansAccepted
    BY <1>1 DEF IInv, RowIsTrue, SentMeansAccepted
  <2>2. ASSUME NEW p \in Periods PROVE accepted[p] <= 1 + doubts[p]
    <3>1. Cardinality(Pursuing(p)) \in Nat
      BY <1>1, FS_CardinalityType DEF IInv, DoubtsCover
    <3>2. accepted[p] \in Nat /\ doubts[p] \in Nat
      BY <1>1 DEF IInv, TypeOK
    <3> QED
      BY <1>1, <3>1, <3>2 DEF IInv, DoubtsCover
  <2> QED
    BY <1>1, <2>1, <2>2 DEF IInv, DeliveriesOK, DuplicatesAccounted
<1> QED
  BY <1>1, Invariant, PTL

\* A delivery that is pending or has failed has a task that will see to it,
\* unless a worker died on it, its retries ran out, or a retry ran in the next
\* period.
THEOREM NothingForgotten == Spec => []UnsentHasATask
<1>1. IInv => UnsentHasATask
  BY DEF IInv, RowIsTrue, UnsentHasATask
<1> QED
  BY <1>1, Invariant, PTL
==============================================================================
