-------------------------------- MODULE Outbox --------------------------------
(***************************************************************************)
(* Domain events (core/services.py publish_domain_event, core/tasks.py     *)
(* publish_domain_events): a service registers the event of its change in  *)
(* its transaction; the row is inserted once that has committed, in a      *)
(* transaction of its own; a periodic task marks batches as published.     *)
(***************************************************************************)
EXTENDS Naturals, FiniteSets, FiniteSetsExt

CONSTANTS
    Changes,    \* changes of operational data, one event each
    BatchSize,  \* of publish_domain_events
    Workers     \* threads that serve requests, or processes of Celery

VARIABLES
    committed,  \* changes that are in the database
    event,      \* the status of each change's event, "none" without a row
    pc, call,   \* each worker's stage, and its change or its batch
    lost        \* changes whose process died before the event was inserted

vars == <<committed, event, pc, call, lost>>

------------------------------------------------------------------------------
Init ==
    /\ committed = {}
    /\ event = [c \in Changes |-> "none"]
    /\ pc = [w \in Workers |-> "idle"]
    /\ call = [w \in Workers |-> {}]
    /\ lost = {}

Begun == UNION {call[w] : w \in {v \in Workers : pc[v] = "changing"}}
Pending == {c \in Changes : event[c] = "pending"}

Become(w, stage, s) ==
    /\ pc' = [pc EXCEPT ![w] = stage]
    /\ call' = [call EXCEPT ![w] = s]

\* Mutant: the event is inserted at once, in a transaction of its own.
Change_AtOnce(w) ==
    /\ pc[w] = "idle"
    /\ \E c \in Changes \ (committed \cup Begun) :
         /\ Become(w, "changing", {c})
         /\ event' = [event EXCEPT ![c] = "pending"]
    /\ UNCHANGED <<committed, lost>>

\* A service changes data and registers the event: transaction.on_commit
Change(w) ==
    /\ pc[w] = "idle"
    /\ \E c \in Changes \ (committed \cup Begun) : Become(w, "changing", {c})
    /\ UNCHANGED <<committed, event, lost>>

Commit(w) ==
    /\ pc[w] = "changing"
    /\ committed' = committed \cup call[w]
    /\ Become(w, "committed", call[w])
    /\ UNCHANGED <<event, lost>>

\* _create, after the commit
Insert(w) ==
    /\ pc[w] = "committed"
    /\ event' = [c \in Changes |-> IF c \in call[w] THEN "pending" ELSE event[c]]
    /\ Become(w, "idle", {})
    /\ UNCHANGED <<committed, lost>>

\* publish_domain_events reads the ids of a batch, in no particular order, and
ReadBatch(w) ==
    /\ pc[w] = "idle" /\ Pending # {}
    /\ \E b \in kSubset(Min({BatchSize, Cardinality(Pending)}), Pending) :
         Become(w, "publishing", b)
    /\ UNCHANGED <<committed, event, lost>>

\* marks them, those that another task has marked again.
Publish(w) ==
    /\ pc[w] = "publishing"
    /\ event' = [c \in Changes |-> IF c \in call[w] THEN "published" ELSE event[c]]
    /\ Become(w, "idle", {})
    /\ UNCHANGED <<committed, lost>>

\* The process dies, or the transaction is rolled back.
Abort(w) ==
    /\ pc[w] # "idle"
    /\ lost' = IF pc[w] = "committed" THEN lost \cup call[w] ELSE lost
    /\ Become(w, "idle", {})
    /\ UNCHANGED <<committed, event>>

Step(w) ==
    \/ Change(w) \/ Commit(w) \/ Insert(w) \/ ReadBatch(w) \/ Publish(w) \/ Abort(w)

Next == \E w \in Workers : Step(w)

Spec == Init /\ [][Next]_vars

------------------------------------------------------------------------------
TypeOK ==
    /\ committed \subseteq Changes /\ lost \subseteq Changes
    /\ event \in [Changes -> {"none", "pending", "published"}]
    /\ pc \in [Workers -> {"idle", "changing", "committed", "publishing"}]
    /\ call \in [Workers -> SUBSET Changes]

\* A change that was rolled back has no event, and one that committed has one
\* as soon as its request is over, unless the process died in between.
EventsFollowCommits ==
    /\ \A c \in Changes : event[c] # "none" => c \in committed
    /\ \A c \in committed \ lost :
         event[c] = "none" => \E w \in Workers : pc[w] = "committed" /\ c \in call[w]

\* What a call holds after the commit, and a batch, has been committed.
HeldIsCommitted ==
    \A w \in Workers : pc[w] \in {"committed", "publishing"} => call[w] \subseteq committed

IInv == TypeOK /\ EventsFollowCommits /\ HeldIsCommitted
==============================================================================
