---------------------------- MODULE StockRequests ----------------------------
(***************************************************************************)
(* The monthly stock request of a site store, from store_services.py: a    *)
(* draft of item lines that is submitted, verified by the zone supervisor, *)
(* approved by the assistant general supervisor, packed and assembled by   *)
(* HR and completed, or rejected on the way.  Requests share no rows, so   *)
(* one request is modelled.                                                *)
(*                                                                         *)
(* A call loads the request and its prefetched lines without a lock (the   *)
(* endpoint); the service checks the status of that object, not of the     *)
(* row, reads what it reads inside its transaction, and commits.  Workers  *)
(* take any number of calls and run concurrently.                          *)
(***************************************************************************)
EXTENDS Integers, FiniteSets

CONSTANTS
    Workers,        \* threads that serve requests
    StoreItems,     \* items of the store that a line may ask for
    Quantities,     \* quantities clients send
    None,           \* a quantity that is null
    Operations,     \* what the workers are asked to do
    MaxBatches      \* bound: payloads of lines that updates may bring it to

AllOperations == {"update", "submit", "review", "approve", "pack",
                  "assemble", "reject", "complete"}

ASSUME RequestAssumption ==
    /\ Quantities \subseteq Nat
    /\ None \notin Int
    /\ Operations \subseteq AllOperations
    /\ MaxBatches \in Nat

VARIABLES
    status,     \* of the committed StockRequest row; "none" before it exists
    lines,      \* committed StockRequestItem rows
    approvals,  \* stages that have a StockRequestApproval row
    batches,    \* how many payloads of lines have been written
    events,     \* StockRequestSubmitted events in the outbox
    pc, call    \* each worker's stage and the call it serves

vars == <<status, lines, approvals, batches, events, pc, call>>
requestVars == <<status, lines, approvals, batches, events>>

------------------------------------------------------------------------------
Statuses == {"none", "draft", "submitted", "zone_verified",
             "assistant_approved", "hr_packing", "assembled", "completed",
             "rejected"}
Decisions == {"zone_verified", "assistant_approved", "hr_packed", "assembled",
              "rejected"}
Rejectable == {"submitted", "zone_verified", "assistant_approved",
               "hr_packing"}

\* The status each operation requires of the object it was given.
From(op) ==
    CASE op \in {"update", "submit"} -> {"draft"}
      [] op = "review" -> {"submitted"}
      [] op = "approve" -> {"zone_verified"}
      [] op = "pack" -> {"assistant_approved"}
      [] op = "assemble" -> {"hr_packing"}
      [] op = "reject" -> Rejectable
      [] op = "complete" -> {"assembled"}
      [] OTHER -> {}

\* The status it writes.
To(op) ==
    [submit |-> "submitted", review |-> "zone_verified",
     approve |-> "assistant_approved", pack |-> "hr_packing",
     assemble |-> "assembled", reject |-> "rejected",
     complete |-> "completed"][op]

\* Mutants: a handoff writes no accountability row.
DecisionOf_PackUnrecorded(op) ==
    CASE op = "review" -> {"zone_verified"}
      [] op = "approve" -> {"assistant_approved"}
      [] op = "assemble" -> {"assembled"}
      [] op = "reject" -> {"rejected"}
      [] OTHER -> {}

\* The decision it records, with the rows it creates in one transaction.
DecisionOf(op) ==
    CASE op = "review" -> {"zone_verified"}
      [] op = "approve" -> {"assistant_approved"}
      [] op = "pack" -> {"hr_packed"}
      [] op = "assemble" -> {"assembled"}
      [] op = "reject" -> {"rejected"}
      [] OTHER -> {}

Quantity == Nat \cup {None}
Line == [batch : Nat, item : StoreItems, requested : Nat,
         verified : Quantity, assistant : Quantity, packed : Quantity]
Key(l) == <<l.batch, l.item>>
Keys == {Key(l) : l \in lines}

\* prefetched: the lines as loaded, where the service goes on using them.
\* payload: quantities by line key, or by store item in a draft.
\* doomed: the lines that the DELETE of an update has seen.
NoCall == [op |-> "none", prefetched |-> {}, payload |-> <<>>, doomed |-> {}]

Stages == {"idle", "loaded", "commit", "announce"}

Init ==
    /\ status = "none"
    /\ lines = {}
    /\ approvals = {}
    /\ batches = 0
    /\ events = 0
    /\ pc = [w \in Workers |-> "idle"]
    /\ call = [w \in Workers |-> NoCall]

------------------------------------------------------------------------------
GoTo(w, stage) == pc' = [pc EXCEPT ![w] = stage]

\* A call ends, in whatever way; its worker takes the next.
Return(w) ==
    /\ GoTo(w, "idle")
    /\ call' = [call EXCEPT ![w] = NoCall]

\* The lines of a draft: a positive quantity for some of the store's items.
Drafts == UNION {[S -> Quantities \ {0}] : S \in SUBSET StoreItems \ {{}}}

\* The rows of a draft payload.
NewLines(payload) ==
    {[batch |-> batches + 1, item |-> i, requested |-> payload[i],
      verified |-> None, assistant |-> None, packed |-> None] :
        i \in DOMAIN payload}

\* create_stock_request: new rows only, in one transaction.
Create ==
    /\ status = "none"
    /\ \E payload \in Drafts : lines' = NewLines(payload)
    /\ status' = "draft"
    /\ batches' = batches + 1
    /\ UNCHANGED <<approvals, events, pc, call>>

\* The endpoint loads the request with its lines.  The status the service
\* will check is the one loaded here: a call that finds another one changes
\* nothing.  Of the prefetched lines submit asks only whether there are any,
\* assemble works on them, and the other operations query the lines again.
Load(w) ==
    /\ pc[w] = "idle"
    /\ \E op \in Operations :
         /\ status \in From(op)
         /\ op = "update" => batches < MaxBatches
         /\ op = "submit" => lines # {}
         /\ call' = [call EXCEPT ![w].op = op,
                       ![w].prefetched = IF op = "assemble" THEN lines ELSE {}]
    /\ GoTo(w, "loaded")
    /\ UNCHANGED requestVars

\* Mutant: the approval is checked against the request, not the verification.
Cap_Unverified(op, l) ==
    IF op = "assemble" THEN IF l.assistant # None THEN l.assistant ELSE 0
    ELSE l.requested

\* The largest quantity a decision may give a line.
Cap(op, l) ==
    CASE op = "review" -> l.requested
      [] op = "approve" -> IF l.verified # None THEN l.verified ELSE l.requested
      [] op = "assemble" -> IF l.assistant # None THEN l.assistant ELSE 0

\* The payloads that pass the checks: a draft's lines, or a quantity within
\* its cap for some of the given lines; an assembly must name one.
Acceptable(op, given) ==
    CASE op = "update" -> Drafts
      [] op \in {"review", "approve", "assemble"} ->
           UNION {{f \in [{Key(l) : l \in S} -> Quantities] :
                     \A l \in S : f[Key(l)] <= Cap(op, l)} :
                   S \in SUBSET given \ (IF op = "assemble" THEN {{}} ELSE {})}
      [] OTHER -> {<<>>}

\* The transaction begins and its checks pass; the DELETE of an update takes
\* its snapshot.
Check(w) ==
    /\ pc[w] = "loaded"
    /\ \E payload \in Acceptable(call[w].op,
                                  IF call[w].op = "assemble"
                                  THEN call[w].prefetched ELSE lines) :
         call' = [call EXCEPT ![w] =
                    [op |-> call[w].op, prefetched |-> {}, payload |-> payload,
                     doomed |-> IF call[w].op = "update" THEN Keys ELSE {}]]
    /\ GoTo(w, "commit")
    /\ UNCHANGED requestVars

\* A check fails, or the request window has closed, or the user may not do
\* this, or a selected item is not the store's: nothing is written.
Refuse(w) ==
    /\ pc[w] = "loaded"
    /\ Return(w)
    /\ UNCHANGED requestVars

------------------------------------------------------------------------------
Recorded(w, l) ==
    LET q == call[w].payload[Key(l)]
    IN CASE call[w].op = "review" -> [l EXCEPT !.verified = q]
         [] call[w].op = "approve" -> [l EXCEPT !.assistant = q]
         [] call[w].op = "assemble" -> [l EXCEPT !.packed = q]

\* The lines once w's transaction is committed.
LinesAfter(w) ==
    CASE call[w].op = "update" ->
           {l \in lines : Key(l) \notin call[w].doomed}
             \cup NewLines(call[w].payload)
      [] call[w].op \in {"review", "approve", "assemble"} ->
           {IF Key(l) \in DOMAIN call[w].payload THEN Recorded(w, l) ELSE l :
              l \in lines}
      [] OTHER -> lines

\* Mutant: the table has no unique constraint on (request, stage).
Conflict_NoConstraint(w) ==
    /\ call[w].op \in {"review", "approve", "assemble"}
    /\ ~(DOMAIN call[w].payload \subseteq Keys)

\* What the database refuses: a second decision of a stage (reject looks for
\* an earlier one first), and an UPDATE of a line that has been deleted.
Conflict(w) ==
    LET op == call[w].op
    IN \/ op # "reject" /\ DecisionOf(op) \cap approvals # {}
       \/ /\ op \in {"review", "approve", "assemble"}
          /\ ~(DOMAIN call[w].payload \subseteq Keys)

\* Everything the service has written is committed at once.  save() names its
\* columns: update leaves the status alone, the others overwrite it.
Commit(w) ==
    /\ pc[w] = "commit"
    /\ ~Conflict(w)
    /\ status' = IF call[w].op = "update" THEN status ELSE To(call[w].op)
    /\ lines' = LinesAfter(w)
    /\ approvals' = approvals \cup DecisionOf(call[w].op)
    /\ batches' = batches + (IF call[w].op = "update" THEN 1 ELSE 0)
    /\ IF call[w].op = "submit"
       THEN GoTo(w, "announce") /\ UNCHANGED call
       ELSE Return(w)
    /\ UNCHANGED events

\* on_commit: the event is written after the transaction.
Announce(w) ==
    /\ pc[w] = "announce"
    /\ events' = events + 1
    /\ Return(w)
    /\ UNCHANGED <<status, lines, approvals, batches>>

\* A conflict, a deadlock over the line rows or the death of the worker:
\* the transaction is rolled back, and an event not yet written is lost.
Abort(w) ==
    /\ pc[w] \in {"commit", "announce"}
    /\ Return(w)
    /\ UNCHANGED requestVars

Step(w) == \/ Load(w) \/ Check(w) \/ Refuse(w) \/ Commit(w)
           \/ Announce(w) \/ Abort(w)

Next == Create \/ \E w \in Workers : Step(w)

Spec == Init /\ [][Next]_vars

------------------------------------------------------------------------------
TypeOK ==
    /\ status \in Statuses
    /\ lines \subseteq Line
    /\ approvals \subseteq Decisions
    /\ batches \in Nat
    /\ events \in Nat
    /\ pc \in [Workers -> Stages]
    /\ DOMAIN call = Workers
    /\ \A w \in Workers : /\ call[w].op \in AllOperations \cup {"none"}
                          /\ call[w].prefetched \subseteq Line
                          /\ call[w].doomed \subseteq Nat \X StoreItems

\* The decisions that must have been recorded before a status is reached.
TrailOf(s) ==
    CASE s = "zone_verified" -> {"zone_verified"}
      [] s = "assistant_approved" -> {"zone_verified", "assistant_approved"}
      [] s = "hr_packing" -> Decisions \ {"assembled", "rejected"}
      [] s \in {"assembled", "completed"} -> Decisions \ {"rejected"}
      [] s = "rejected" -> {"rejected"}
      [] OTHER -> {}

\* However calls on stale objects interleave, a request reaches no status
\* without the accountability row of every handoff before it, and no handoff
\* is recorded without the one it follows (StockRequestApproval).
TrailComplete ==
    /\ TrailOf(status) \subseteq approvals
    /\ "assembled" \in approvals => "hr_packed" \in approvals
    /\ "hr_packed" \in approvals => "assistant_approved" \in approvals
    /\ "assistant_approved" \in approvals => "zone_verified" \in approvals

\* A line never gets more than the stage before gave it, although each
\* quantity is checked against a line read earlier: packed <= approved <=
\* verified <= requested.
QuantitiesNeverGrow ==
    \A l \in lines :
      /\ l.verified # None => l.verified <= l.requested
      /\ l.assistant # None =>
           l.assistant <= IF l.verified # None THEN l.verified ELSE l.requested
      /\ l.packed # None =>
           l.packed <= IF l.assistant # None THEN l.assistant ELSE 0

\* Quantities and the row of the decision that set them are committed
\* together: no line carries a quantity of a decision nobody made.
QuantitiesAreDecided ==
    \A l \in lines :
      /\ l.verified # None => "zone_verified" \in approvals
      /\ l.assistant # None => "assistant_approved" \in approvals
      /\ l.packed # None => "assembled" \in approvals

\* Types; the quantities of every line shrink from stage to stage, and each was
\* set with the decision of its stage, although every cap and every line is
\* read before the transaction that relies on it.
RequestOK == TypeOK /\ QuantitiesNeverGrow /\ QuantitiesAreDecided

\* A decided quantity is final: no later or concurrent call revises what the
\* next stage has relied on.
DecidedOnce ==
    [][\A l \in lines, m \in lines' : Key(l) = Key(m) =>
         /\ l.verified # None => m.verified = l.verified
         /\ l.assistant # None => m.assistant = l.assistant
         /\ l.packed # None => m.packed = l.packed]_vars

==============================================================================
