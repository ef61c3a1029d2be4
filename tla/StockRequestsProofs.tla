-------------------------- MODULE StockRequestsProofs --------------------------
(***************************************************************************)
(* Proofs about StockRequests for any number of workers, items and         *)
(* payloads.  The invariant says what a call still knows of the rows when  *)
(* it commits, although it holds no lock: accountability rows are never    *)
(* deleted, so a stage that a call has seen decided stays decided, and the *)
(* unique constraint lets no second decision change what the call's        *)
(* quantities were checked against.                                        *)
(***************************************************************************)
EXTENDS StockRequests, TLAPS

\* The operations that give lines a quantity.
Deciding == {"review", "approve", "assemble"}

\* What has been decided when a request is in a status op accepts.
Before(op) ==
    CASE op = "approve" -> {"zone_verified"}
      [] op = "pack" -> {"zone_verified", "assistant_approved"}
      [] op = "assemble" -> Decisions \ {"assembled", "rejected"}
      [] op = "complete" -> Decisions \ {"rejected"}
      [] OTHER -> {}

\* A key belongs to one line and is never used again.
KeysAreUnique ==
    /\ \A l \in lines : l.batch <= batches
    /\ \A l, m \in lines : Key(l) = Key(m) => l = m

\* The decisions before the status a call has loaded are still on record.
LoadedInOrder ==
    \A w \in Workers :
      IF pc[w] = "idle" THEN call[w] = NoCall
      ELSE call[w].op \in Operations /\ Before(call[w].op) \subseteq approvals

\* The lines an assembly works on have the quantities they were loaded with.
PrefetchedHold ==
    \A w \in Workers : \A p \in call[w].prefetched :
      /\ call[w].op = "assemble"
      /\ p.batch <= batches
      /\ \A l \in lines : Key(l) = Key(p) => l.assistant = p.assistant

\* What a call is about to record is within its cap, as the rows are now.
PayloadHolds(w) ==
    /\ call[w].op = "update" => call[w].payload \in Drafts
    /\ call[w].op \in Deciding =>
         /\ \A k \in DOMAIN call[w].payload :
              /\ k \in Nat \X StoreItems
              /\ k[1] <= batches
              /\ call[w].payload[k] \in Nat
         /\ \A l \in lines : Key(l) \in DOMAIN call[w].payload =>
              call[w].payload[Key(l)] <= Cap(call[w].op, l)

PayloadsHold == \A w \in Workers : pc[w] = "commit" => PayloadHolds(w)

IInv ==
    /\ TypeOK
    /\ TrailComplete
    /\ QuantitiesNeverGrow
    /\ QuantitiesAreDecided
    /\ KeysAreUnique
    /\ LoadedInOrder
    /\ PrefetchedHold
    /\ PayloadsHold

------------------------------------------------------------------------------
(* What the payloads and the lines of a draft are.                          *)

\* The lines of a draft payload are new, distinct and undecided.
LEMMA NewLinesAreNew ==
    ASSUME batches \in Nat, NEW payload \in Drafts
    PROVE  /\ NewLines(payload) \subseteq Line
           /\ \A m \in NewLines(payload) :
                /\ m.batch = batches + 1
                /\ m.verified = None
                /\ m.assistant = None
                /\ m.packed = None
           /\ \A l, m \in NewLines(payload) : Key(l) = Key(m) => l = m
<1>1. PICK S \in SUBSET StoreItems : payload \in [S -> Quantities \ {0}]
  BY DEF Drafts
<1>2. \A i \in DOMAIN payload : i \in StoreItems /\ payload[i] \in Nat
  BY <1>1, RequestAssumption
<1> QED
  BY <1>2 DEF NewLines, Line, Quantity, Key

\* An acceptable payload gives some of the given lines quantities in their cap.
LEMMA AcceptablePayload ==
    ASSUME NEW op \in Deciding, NEW given, NEW payload \in Acceptable(op, given)
    PROVE  \E S \in SUBSET given :
             /\ payload \in [{Key(l) : l \in S} -> Quantities]
             /\ \A l \in S : payload[Key(l)] <= Cap(op, l)
<1>1. Acceptable(op, given) =
        UNION {{f \in [{Key(l) : l \in S} -> Quantities] :
                  \A l \in S : f[Key(l)] <= Cap(op, l)} :
                S \in SUBSET given \ (IF op = "assemble" THEN {{}} ELSE {})}
  BY DEF Acceptable, Deciding
<1> QED
  BY <1>1

------------------------------------------------------------------------------
(* The steps that do not write.                                             *)

LEMMA InitOK == Init => IInv
<1> SUFFICES ASSUME Init PROVE IInv
  OBVIOUS
<1> USE DEF Init
<1>1. TypeOK
  BY DEF TypeOK, Statuses, Stages, NoCall
<1>2. TrailComplete
  BY DEF TrailComplete, TrailOf
<1>3. LoadedInOrder
  BY DEF LoadedInOrder
<1>4. PrefetchedHold /\ PayloadsHold
  BY DEF PrefetchedHold, PayloadsHold, NoCall
<1> QED
  BY <1>1, <1>2, <1>3, <1>4
     DEF IInv, QuantitiesNeverGrow, QuantitiesAreDecided, KeysAreUnique

\* Whatever a call does to its own record, the rows stay as they were.
LEMMA RowsUntouched ==
    ASSUME IInv, UNCHANGED requestVars
    PROVE  /\ TrailComplete'
           /\ QuantitiesNeverGrow'
           /\ QuantitiesAreDecided'
           /\ KeysAreUnique'
  BY DEF IInv, requestVars, TrailComplete, QuantitiesNeverGrow,
         QuantitiesAreDecided, KeysAreUnique

LEMMA LoadOK ==
    ASSUME IInv, NEW w \in Workers, Load(w)
    PROVE  IInv'
<1>1. PICK op \in Operations :
        /\ status \in From(op)
        /\ call' = [call EXCEPT ![w].op = op,
                      ![w].prefetched = IF op = "assemble" THEN lines ELSE {}]
  BY DEF Load
<1>2. /\ pc[w] = "idle" /\ call[w] = NoCall
      /\ pc' = [pc EXCEPT ![w] = "loaded"]
      /\ UNCHANGED requestVars
  BY DEF Load, GoTo, IInv, LoadedInOrder
<1>3. /\ DOMAIN call' = Workers
      /\ call'[w].op = op
      /\ call'[w].prefetched = IF op = "assemble" THEN lines ELSE {}
      /\ call'[w].doomed = {}
      /\ \A v \in Workers \ {w} : call'[v] = call[v]
  BY <1>1, <1>2 DEF IInv, TypeOK, NoCall
<1>4. pc'[w] = "loaded" /\ \A v \in Workers \ {w} : pc'[v] = pc[v]
  BY <1>2 DEF IInv, TypeOK
<1>5. op \in AllOperations
  BY <1>1, RequestAssumption
<1>6. Before(op) \subseteq approvals
  BY <1>1, <1>5 DEF IInv, TrailComplete, TrailOf, Before, From, AllOperations,
                    Decisions, Rejectable
<1>7. TypeOK'
  <2>1. pc' \in [Workers -> Stages]
    BY <1>2 DEF IInv, TypeOK, Stages
  <2>2. \A v \in Workers : /\ call'[v].op \in AllOperations \cup {"none"}
                           /\ call'[v].prefetched \subseteq Line
                           /\ call'[v].doomed \subseteq Nat \X StoreItems
    BY <1>3, <1>5 DEF IInv, TypeOK
  <2> QED
    BY <1>2, <1>3, <2>1, <2>2 DEF IInv, TypeOK, requestVars
<1>8. LoadedInOrder'
  BY <1>1, <1>2, <1>3, <1>4, <1>6 DEF IInv, LoadedInOrder, requestVars
<1>9. PrefetchedHold'
  BY <1>2, <1>3 DEF IInv, PrefetchedHold, KeysAreUnique, requestVars
<1>10. PayloadsHold'
  BY <1>2, <1>3, <1>4 DEF IInv, PayloadsHold, PayloadHolds, requestVars
<1> QED
  BY <1>2, <1>7, <1>8, <1>9, <1>10, RowsUntouched DEF IInv

LEMMA CheckOK ==
    ASSUME IInv, NEW w \in Workers, Check(w)
    PROVE  IInv'
<1> DEFINE op == call[w].op
           given == IF op = "assemble" THEN call[w].prefetched ELSE lines
<1>1. PICK payload \in Acceptable(op, given) :
        call' = [call EXCEPT ![w] =
                   [op |-> op, prefetched |-> {}, payload |-> payload,
                    doomed |-> IF op = "update" THEN Keys ELSE {}]]
  BY DEF Check
<1>2. /\ pc[w] = "loaded" /\ pc' = [pc EXCEPT ![w] = "commit"]
      /\ UNCHANGED requestVars
  BY DEF Check, GoTo
<1>3. /\ DOMAIN call' = Workers
      /\ call'[w].op = op
      /\ call'[w].prefetched = {}
      /\ call'[w].payload = payload
      /\ call'[w].doomed = IF op = "update" THEN Keys ELSE {}
      /\ \A v \in Workers \ {w} : call'[v] = call[v]
  BY <1>1 DEF IInv, TypeOK
<1>4. pc'[w] = "commit" /\ \A v \in Workers \ {w} : pc'[v] = pc[v]
  BY <1>2 DEF IInv, TypeOK
<1>5. op \in Operations /\ Before(op) \subseteq approvals
  BY <1>2 DEF IInv, LoadedInOrder
<1>6. TypeOK'
  <2>1. pc' \in [Workers -> Stages]
    BY <1>2 DEF IInv, TypeOK, Stages
  <2>2. Keys \subseteq Nat \X StoreItems
    BY DEF IInv, TypeOK, Keys, Key, Line
  <2>3. \A v \in Workers : /\ call'[v].op \in AllOperations \cup {"none"}
                           /\ call'[v].prefetched \subseteq Line
                           /\ call'[v].doomed \subseteq Nat \X StoreItems
    BY <1>3, <2>2 DEF IInv, TypeOK
  <2> QED
    BY <1>2, <1>3, <2>1, <2>3 DEF IInv, TypeOK, requestVars
<1>7. LoadedInOrder'
  BY <1>2, <1>3, <1>4, <1>5 DEF IInv, LoadedInOrder, requestVars
<1>8. PrefetchedHold'
  BY <1>2, <1>3 DEF IInv, PrefetchedHold, requestVars
<1>9. op = "update" => payload \in Drafts
  BY <1>1 DEF Acceptable
<1>10. ASSUME op \in Deciding
       PROVE  /\ \A k \in DOMAIN payload : /\ k \in Nat \X StoreItems
                                           /\ k[1] <= batches
                                           /\ payload[k] \in Nat
              /\ \A l \in lines : Key(l) \in DOMAIN payload =>
                   payload[Key(l)] <= Cap(op, l)
  <2>1. PICK S \in SUBSET given :
          /\ payload \in [{Key(l) : l \in S} -> Quantities]
          /\ \A l \in S : payload[Key(l)] <= Cap(op, l)
    BY <1>1, <1>10, AcceptablePayload
  <2>2. \A p \in given : p \in Line /\ p.batch <= batches
    BY DEF IInv, TypeOK, KeysAreUnique, PrefetchedHold
  <2>3. \A k \in DOMAIN payload : /\ k \in Nat \X StoreItems
                                  /\ k[1] <= batches
                                  /\ payload[k] \in Nat
    <3>1. \A p \in S : /\ Key(p) \in Nat \X StoreItems
                       /\ Key(p)[1] <= batches
      BY <2>1, <2>2 DEF Key, Line
    <3>2. \A k \in DOMAIN payload : /\ payload[k] \in Nat
                                    /\ \E p \in S : k = Key(p)
      BY <2>1, RequestAssumption
    <3> QED
      BY <3>1, <3>2
  <2>4. ASSUME NEW l \in lines, Key(l) \in DOMAIN payload
        PROVE  payload[Key(l)] <= Cap(op, l)
    <3>1. PICK p \in S : Key(l) = Key(p)
      BY <2>1, <2>4
    <3>2. CASE op = "assemble"
      <4>1. l.assistant = p.assistant
        BY <3>1, <3>2 DEF IInv, PrefetchedHold
      <4> QED
        BY <2>1, <3>1, <3>2, <4>1 DEF Cap
    <3>3. CASE op # "assemble"
      <4>1. l = p
        BY <3>1, <3>3 DEF IInv, KeysAreUnique
      <4> QED
        BY <2>1, <4>1
    <3> QED
      BY <3>2, <3>3
  <2> QED
    BY <2>3, <2>4
<1>11. PayloadsHold'
  <2>1. ASSUME NEW v \in Workers, v # w, pc'[v] = "commit" PROVE PayloadHolds(v)'
    BY <1>2, <1>3, <1>4, <2>1 DEF IInv, PayloadsHold, PayloadHolds, requestVars,
       Drafts, Cap
  <2>2. PayloadHolds(w)'
    BY <1>2, <1>3, <1>9, <1>10 DEF PayloadHolds, requestVars, Drafts, Cap
  <2> QED
    BY <2>1, <2>2 DEF PayloadsHold
<1> QED
  BY <1>2, <1>6, <1>7, <1>8, <1>11, RowsUntouched DEF IInv

LEMMA ReturnOK ==
    ASSUME IInv, NEW w \in Workers, Return(w), 
           \/ UNCHANGED requestVars
           \/ UNCHANGED <<status, lines, approvals, batches>> /\ events' = events + 1
    PROVE  IInv'
<1>1. /\ pc' = [pc EXCEPT ![w] = "idle"]
      /\ call' = [call EXCEPT ![w] = NoCall]
      /\ UNCHANGED <<status, lines, approvals, batches>>
      /\ events' \in Nat
  BY DEF Return, GoTo, requestVars, IInv, TypeOK
<1>2. /\ DOMAIN call' = Workers
      /\ call'[w] = NoCall
      /\ \A v \in Workers \ {w} : call'[v] = call[v]
      /\ pc'[w] = "idle" 
      /\ \A v \in Workers \ {w} : pc'[v] = pc[v]
  BY <1>1 DEF IInv, TypeOK
<1>3. TypeOK'
  <2>1. pc' \in [Workers -> Stages]
    BY <1>1 DEF IInv, TypeOK, Stages
  <2>2. \A v \in Workers : /\ call'[v].op \in AllOperations \cup {"none"}
                           /\ call'[v].prefetched \subseteq Line
                           /\ call'[v].doomed \subseteq Nat \X StoreItems
    BY <1>2 DEF IInv, TypeOK, NoCall
  <2> QED
    BY <1>1, <1>2, <2>1, <2>2 DEF IInv, TypeOK
<1>4. LoadedInOrder'
  BY <1>1, <1>2 DEF IInv, LoadedInOrder
<1>5. PrefetchedHold'
  BY <1>1, <1>2 DEF IInv, PrefetchedHold, NoCall
<1>6. PayloadsHold'
  <2>1. ASSUME NEW v \in Workers, pc'[v] = "commit" PROVE PayloadHolds(v)'
    <3>1. v # w /\ pc[v] = "commit" /\ call'[v] = call[v]
      BY <1>2, <2>1
    <3>2. PayloadHolds(v)
      BY <3>1 DEF IInv, PayloadsHold
    <3> QED
      BY <1>1, <3>1, <3>2 DEF PayloadHolds, Drafts, Cap
  <2> QED
    BY <2>1 DEF PayloadsHold
<1> QED
  BY <1>1, <1>3, <1>4, <1>5, <1>6 DEF IInv, TrailComplete, QuantitiesNeverGrow,
     QuantitiesAreDecided, KeysAreUnique

------------------------------------------------------------------------------
(* The commit.                                                              *)

\* A line is new, or is an old one that keeps what has been decided.
LinesFollow ==
    \A m \in lines' :
      \/ m.batch = batches + 1
      \/ \E l \in lines :
           /\ Key(l) = Key(m)
           /\ l.requested = m.requested
           /\ "zone_verified" \in approvals => m.verified = l.verified
           /\ "assistant_approved" \in approvals => m.assistant = l.assistant
           /\ "assembled" \in approvals => m.packed = l.packed

\* What a committing call is, and what it does to the calls.
LEMMA CommitCalls ==
    ASSUME IInv, NEW w \in Workers, Commit(w)
    PROVE  /\ call[w].op \in Operations /\ call[w].op \in AllOperations
           /\ Before(call[w].op) \subseteq approvals
           /\ PayloadHolds(w)
           /\ DOMAIN call' = Workers
           /\ pc' \in [Workers -> Stages]
           /\ pc'[w] # "commit" /\ call'[w].prefetched = {}
           /\ \A v \in Workers \ {w} : pc'[v] = pc[v] /\ call'[v] = call[v]
           /\ \A v \in Workers : /\ call'[v].op \in AllOperations \cup {"none"}
                                  /\ call'[v].prefetched \subseteq Line
                                  /\ call'[v].doomed \subseteq Nat \X StoreItems
           /\ LoadedInOrder'
<1>1. pc[w] = "commit" /\ approvals \subseteq approvals'
  BY DEF Commit
<1>2. /\ call[w].op \in Operations
      /\ call[w].op \in AllOperations
      /\ Before(call[w].op) \subseteq approvals
      /\ PayloadHolds(w)
  BY <1>1, RequestAssumption DEF IInv, LoadedInOrder, PayloadsHold
<1>3. CASE call[w].op = "submit"
  <2>1. /\ pc' = [pc EXCEPT ![w] = "announce"]
        /\ UNCHANGED call
    BY <1>3 DEF Commit, GoTo
  <2>2. call[w].prefetched = {}
    BY <1>3 DEF IInv, PrefetchedHold
  <2>3. /\ pc' \in [Workers -> Stages]
        /\ pc'[w] = "announce"
        /\ \A v \in Workers \ {w} : pc'[v] = pc[v]
    BY <2>1 DEF IInv, TypeOK, Stages
  <2>4. LoadedInOrder'
    BY <1>1, <1>2, <2>1, <2>3 DEF IInv, LoadedInOrder
  <2> QED
    BY <1>2, <2>1, <2>2, <2>3, <2>4 DEF IInv, TypeOK
<1>4. CASE call[w].op # "submit"
  <2>1. /\ pc' = [pc EXCEPT ![w] = "idle"]
        /\ call' = [call EXCEPT ![w] = NoCall]
    BY <1>4 DEF Commit, Return, GoTo
  <2>2. /\ pc' \in [Workers -> Stages]
        /\ pc'[w] = "idle"
        /\ \A v \in Workers \ {w} : pc'[v] = pc[v] /\ call'[v] = call[v]
        /\ DOMAIN call' = Workers
        /\ call'[w] = NoCall
    BY <2>1 DEF IInv, TypeOK, Stages
  <2>3. LoadedInOrder'
    BY <1>1, <2>2 DEF IInv, LoadedInOrder
  <2> QED
    BY <1>2, <2>2, <2>3 DEF IInv, TypeOK, NoCall
<1> QED
  BY <1>3, <1>4

\* What the other calls know survives a commit that keeps what is decided.
LEMMA OthersUndisturbed ==
    ASSUME IInv, NEW w \in Workers, Commit(w), LinesFollow
    PROVE  PrefetchedHold' /\ PayloadsHold'
<1>1. /\ pc'[w] # "commit" /\ call'[w].prefetched = {}
      /\ \A v \in Workers \ {w} : pc'[v] = pc[v] /\ call'[v] = call[v]
  BY CommitCalls
<1>2. batches \in Nat /\ batches' \in Nat /\ batches <= batches'
  BY DEF IInv, TypeOK, Commit
<1>3. \A v \in Workers \ {w} :
         pc[v] # "idle" => Before(call[v].op) \subseteq approvals
  BY DEF IInv, LoadedInOrder
<1>4. PrefetchedHold'
  <2> SUFFICES ASSUME NEW v \in Workers, NEW p \in call'[v].prefetched
               PROVE  /\ call'[v].op = "assemble"
                      /\ p.batch <= batches'
                      /\ \A m \in lines' : Key(m) = Key(p) =>
                           m.assistant = p.assistant
    BY DEF PrefetchedHold, Key
  <2>1. v # w /\ call'[v] = call[v] /\ p \in call[v].prefetched
    BY <1>1
  <2>2. /\ call[v].op = "assemble"
        /\ p.batch <= batches /\ p.batch \in Nat
        /\ \A l \in lines : Key(l) = Key(p) => l.assistant = p.assistant
    BY <2>1 DEF IInv, TypeOK, Line, PrefetchedHold
  <2>3. "assistant_approved" \in approvals
    <3>1. pc[v] # "idle"
      BY <2>2 DEF IInv, LoadedInOrder, NoCall
    <3> QED
      BY <1>3, <2>1, <2>2, <3>1 DEF Before, Decisions
  <2>4. ASSUME NEW m \in lines', Key(m) = Key(p)
        PROVE  m.assistant = p.assistant
    BY <1>2, <2>2, <2>3, <2>4 DEF LinesFollow, Key
  <2> QED
    BY <1>2, <2>1, <2>2, <2>4
<1>5. PayloadsHold'
  <2> SUFFICES ASSUME NEW v \in Workers, pc'[v] = "commit"
               PROVE  PayloadHolds(v)'
    BY DEF PayloadsHold
  <2>1. v # w /\ pc[v] = "commit" /\ call'[v] = call[v]
    BY <1>1
  <2>2. PayloadHolds(v)
    BY <2>1 DEF IInv, PayloadsHold
  <2>3. ASSUME call[v].op \in Deciding, NEW m \in lines',
               Key(m) \in DOMAIN call[v].payload
        PROVE  call[v].payload[Key(m)] <= Cap(call[v].op, m)
    <3>1. Key(m)[1] <= batches
      BY <2>2, <2>3 DEF PayloadHolds
    <3>2. PICK l \in lines :
            /\ Key(l) = Key(m)
            /\ l.requested = m.requested
            /\ "zone_verified" \in approvals => m.verified = l.verified
            /\ "assistant_approved" \in approvals => m.assistant = l.assistant
      BY <1>2, <2>3, <3>1 DEF LinesFollow, Key
    <3>3. call[v].payload[Key(l)] <= Cap(call[v].op, l)
      BY <2>2, <2>3, <3>2 DEF PayloadHolds
    <3>4. Cap(call[v].op, l) = Cap(call[v].op, m)
      <4>1. Before(call[v].op) \subseteq approvals
        BY <1>3, <2>1
      <4> QED
        BY <2>3, <3>2, <4>1 DEF Deciding, Before, Decisions, Cap
    <3> QED
      BY <3>2, <3>3, <3>4
  <2>4. \A k \in Nat \X StoreItems : k[1] <= batches => k[1] <= batches'
    BY <1>2
  <2> QED
    BY <2>1, <2>2, <2>3, <2>4 DEF PayloadHolds, Drafts, Cap
<1> QED
  BY <1>4, <1>5

\* What is to be shown of the lines after a step.
LinesOK ==
    /\ lines' \subseteq Line
    /\ QuantitiesNeverGrow'
    /\ QuantitiesAreDecided'
    /\ KeysAreUnique'
    /\ LinesFollow

\* Lines are inserted under a new batch, and some of the old ones deleted.
LEMMA InsertedLines ==
    ASSUME IInv, NEW payload \in Drafts, NEW kept \in SUBSET lines,
           lines' = kept \cup NewLines(payload),
           batches' = batches + 1, approvals \subseteq approvals'
    PROVE  LinesOK
<1>1. batches \in Nat /\ lines \subseteq Line
  BY DEF IInv, TypeOK
<1>2. /\ NewLines(payload) \subseteq Line
      /\ \A m \in NewLines(payload) :
           /\ m.batch = batches + 1
           /\ m.verified = None
           /\ m.assistant = None
           /\ m.packed = None
      /\ \A l, m \in NewLines(payload) : Key(l) = Key(m) => l = m
  BY <1>1, NewLinesAreNew
<1>3. \A l \in kept : l \in Line /\ l.batch <= batches /\ l.batch \in Nat
  BY <1>1 DEF IInv, KeysAreUnique, Line
<1>4. QuantitiesNeverGrow' /\ QuantitiesAreDecided'
  BY <1>2 DEF IInv, QuantitiesNeverGrow, QuantitiesAreDecided
<1>5. KeysAreUnique'
  <2>1. \A l \in lines' : l.batch <= batches'
    BY <1>1, <1>2, <1>3
  <2>2. ASSUME NEW l \in lines', NEW m \in lines', Key(l) = Key(m)
        PROVE  l = m
    <3>1. l.batch = m.batch
      BY <2>2 DEF Key
    <3>2. CASE l \in kept
      <4>1. m \in kept
        BY <1>1, <1>2, <1>3, <3>1, <3>2
      <4> QED
        BY <2>2, <3>2, <4>1 DEF IInv, KeysAreUnique
    <3>3. CASE l \notin kept
      <4>1. l \in NewLines(payload) /\ m \in NewLines(payload)
        BY <1>1, <1>2, <1>3, <3>1, <3>3
      <4> QED
        BY <1>2, <2>2, <4>1
    <3> QED
      BY <3>2, <3>3
  <2>3. \A l, m \in lines' : Key(l) = Key(m) => l = m
    BY <2>2
  <2> QED
    BY <2>1, <2>3 DEF KeysAreUnique, Key
<1>6. LinesFollow
  BY <1>2 DEF LinesFollow
<1> QED
  BY <1>1, <1>2, <1>4, <1>5, <1>6 DEF LinesOK

\* Nothing happens to the lines.
LEMMA SameLines ==
    ASSUME IInv, UNCHANGED <<lines, batches>>, approvals \subseteq approvals'
    PROVE  LinesOK
  BY DEF LinesOK, IInv, TypeOK, QuantitiesNeverGrow, QuantitiesAreDecided,
         KeysAreUnique, LinesFollow

\* A decision is the first of its stage, so the lines do not have the quantity
\* it records, nor those of the stages after it.
LEMMA Undecided ==
    ASSUME IInv, NEW w \in Workers, Commit(w), call[w].op \in Deciding
    PROVE  /\ DecisionOf(call[w].op) \cap approvals = {}
           /\ \A l \in lines :
                /\ l.packed = None
                /\ call[w].op # "assemble" => l.assistant = None
                /\ call[w].op = "review" => l.verified = None
<1>1. DecisionOf(call[w].op) \cap approvals = {}
  BY DEF Commit, Conflict, Deciding
<1>2. CASE call[w].op = "review"
  BY <1>1, <1>2 DEF IInv, TrailComplete, QuantitiesAreDecided, DecisionOf
<1>3. CASE call[w].op = "approve"
  BY <1>1, <1>3 DEF IInv, TrailComplete, QuantitiesAreDecided, DecisionOf
<1>4. CASE call[w].op = "assemble"
  BY <1>1, <1>4 DEF IInv, TrailComplete, QuantitiesAreDecided, DecisionOf
<1> QED
  BY <1>1, <1>2, <1>3, <1>4 DEF Deciding

\* A line after a decision is an old one, or an old one with a quantity of the
\* payload that is within its cap.
LEMMA DecidedLine ==
    ASSUME IInv, NEW w \in Workers, Commit(w), call[w].op \in Deciding,
           NEW m \in lines'
    PROVE  \E l \in lines :
             \/ m = l
             \/ \E q \in Nat :
                  /\ q <= Cap(call[w].op, l)
                  /\ call[w].op = "review" => m = [l EXCEPT !.verified = q]
                  /\ call[w].op = "approve" => m = [l EXCEPT !.assistant = q]
                  /\ call[w].op = "assemble" => m = [l EXCEPT !.packed = q]
<1>1. lines' = {IF Key(l) \in DOMAIN call[w].payload THEN Recorded(w, l) ELSE l :
                  l \in lines}
  BY DEF Commit, LinesAfter, Deciding
<1>2. PICK l \in lines : m = IF Key(l) \in DOMAIN call[w].payload
                             THEN Recorded(w, l) ELSE l
  BY <1>1
<1>3. CASE Key(l) \notin DOMAIN call[w].payload
  BY <1>2, <1>3
<1>4. CASE Key(l) \in DOMAIN call[w].payload
  <2> DEFINE q == call[w].payload[Key(l)]
  <2>1. q \in Nat /\ q <= Cap(call[w].op, l)
    BY <1>4, CommitCalls DEF PayloadHolds
  <2>2. m = Recorded(w, l)
    BY <1>2, <1>4
  <2>3. /\ call[w].op = "review" => m = [l EXCEPT !.verified = q]
        /\ call[w].op = "approve" => m = [l EXCEPT !.assistant = q]
        /\ call[w].op = "assemble" => m = [l EXCEPT !.packed = q]
    BY <2>2 DEF Recorded
  <2> QED
    BY <2>1, <2>3
<1> QED
  BY <1>3, <1>4

LEMMA DecidedLines ==
    ASSUME IInv, NEW w \in Workers, Commit(w), call[w].op \in Deciding
    PROVE  LinesOK
<1> DEFINE op == call[w].op
<1>1. /\ lines \subseteq Line /\ batches' = batches
      /\ approvals' = approvals \cup DecisionOf(op)
      /\ Before(op) \subseteq approvals
  BY CommitCalls DEF IInv, TypeOK, Commit, Deciding
<1>2. ASSUME NEW m \in lines'
      PROVE  /\ m \in Line
             /\ \E l \in lines :
                  /\ Key(l) = Key(m) /\ l.batch = m.batch
                  /\ l.requested = m.requested
                  /\ "zone_verified" \in approvals => m.verified = l.verified
                  /\ "assistant_approved" \in approvals => m.assistant = l.assistant
                  /\ "assembled" \in approvals => m.packed = l.packed
             /\ m.verified # None =>
                  m.verified <= m.requested /\ "zone_verified" \in approvals'
             /\ m.assistant # None =>
                  /\ m.assistant <= IF m.verified # None THEN m.verified
                                    ELSE m.requested
                  /\ "assistant_approved" \in approvals'
             /\ m.packed # None =>
                  /\ m.packed <= IF m.assistant # None THEN m.assistant ELSE 0
                  /\ "assembled" \in approvals'
  <2>1. PICK l \in lines :
          \/ m = l
          \/ \E q \in Nat :
               /\ q <= Cap(op, l)
               /\ op = "review" => m = [l EXCEPT !.verified = q]
               /\ op = "approve" => m = [l EXCEPT !.assistant = q]
               /\ op = "assemble" => m = [l EXCEPT !.packed = q]
    BY <1>2, DecidedLine
  <2>2. /\ l \in Line
        /\ l.verified # None =>
             l.verified <= l.requested /\ "zone_verified" \in approvals
        /\ l.assistant # None =>
             /\ l.assistant <= IF l.verified # None THEN l.verified
                               ELSE l.requested
             /\ "assistant_approved" \in approvals
        /\ l.packed # None =>
             /\ l.packed <= IF l.assistant # None THEN l.assistant ELSE 0
             /\ "assembled" \in approvals
    BY <1>1 DEF IInv, QuantitiesNeverGrow, QuantitiesAreDecided
  <2>3. CASE m = l
    BY <1>1, <2>2, <2>3
  <2>4. CASE m # l
    <3>1. PICK q \in Nat :
            /\ q <= Cap(op, l)
            /\ op = "review" => m = [l EXCEPT !.verified = q]
            /\ op = "approve" => m = [l EXCEPT !.assistant = q]
            /\ op = "assemble" => m = [l EXCEPT !.packed = q]
      BY <2>1, <2>4
    <3>2. /\ DecisionOf(op) \cap approvals = {}
          /\ l.packed = None
          /\ op # "assemble" => l.assistant = None
          /\ op = "review" => l.verified = None
      BY Undecided
    <3>3. CASE op = "review"
      <4>1. m = [l EXCEPT !.verified = q] /\ q <= l.requested
        BY <3>1, <3>3 DEF Cap
      <4>2. /\ m \in Line /\ Key(l) = Key(m) /\ l.batch = m.batch
            /\ m.requested = l.requested /\ m.verified = q
            /\ m.assistant = None /\ m.packed = None
        BY <2>2, <3>2, <3>3, <4>1 DEF Line, Key, Quantity
      <4>3. "zone_verified" \notin approvals /\ "zone_verified" \in approvals'
        BY <1>1, <3>2, <3>3 DEF DecisionOf
      <4> QED
        BY <2>2, <3>2, <3>3, <4>1, <4>2, <4>3
    <3>4. CASE op = "approve"
      <4>1. /\ m = [l EXCEPT !.assistant = q]
            /\ q <= IF l.verified # None THEN l.verified ELSE l.requested
        BY <3>1, <3>4 DEF Cap
      <4>2. /\ m \in Line /\ Key(l) = Key(m) /\ l.batch = m.batch
            /\ m.requested = l.requested /\ m.verified = l.verified
            /\ m.assistant = q /\ m.packed = None
        BY <2>2, <3>2, <3>4, <4>1 DEF Line, Key, Quantity
      <4>3. /\ "assistant_approved" \notin approvals
            /\ "assistant_approved" \in approvals'
            /\ approvals \subseteq approvals'
        BY <1>1, <3>2, <3>4 DEF DecisionOf
      <4> QED
        BY <2>2, <3>2, <4>1, <4>2, <4>3
    <3>5. CASE op = "assemble"
      <4>1. /\ m = [l EXCEPT !.packed = q]
            /\ q <= IF l.assistant # None THEN l.assistant ELSE 0
        BY <3>1, <3>5 DEF Cap
      <4>2. /\ m \in Line /\ Key(l) = Key(m) /\ l.batch = m.batch
            /\ m.requested = l.requested /\ m.verified = l.verified
            /\ m.assistant = l.assistant /\ m.packed = q
        BY <2>2, <3>5, <4>1 DEF Line, Key, Quantity
      <4>3. /\ "assembled" \notin approvals /\ "assembled" \in approvals'
            /\ approvals \subseteq approvals'
        BY <1>1, <3>2, <3>5 DEF DecisionOf
      <4> QED
        BY <2>2, <4>1, <4>2, <4>3
    <3> QED
      BY <3>3, <3>4, <3>5 DEF Deciding
  <2> QED
    BY <2>3, <2>4
<1>3. lines' \subseteq Line /\ LinesFollow
  BY <1>2 DEF LinesFollow
<1>4. QuantitiesNeverGrow' /\ QuantitiesAreDecided'
  BY <1>2 DEF QuantitiesNeverGrow, QuantitiesAreDecided
<1>5. KeysAreUnique'
  <2>1. \A m \in lines' : m.batch <= batches'
    BY <1>1, <1>2 DEF IInv, KeysAreUnique
  <2>2. ASSUME NEW m \in lines', NEW n \in lines', Key(m) = Key(n)
        PROVE  m = n
    <3> DEFINE after(l) == IF Key(l) \in DOMAIN call[w].payload
                           THEN Recorded(w, l) ELSE l
    <3>1. lines' = {after(l) : l \in lines}
      BY DEF Commit, LinesAfter, Deciding
    <3>2. \A l \in lines : Key(after(l)) = Key(l)
      BY <1>1 DEF Recorded, Key, Line, Deciding
    <3>3. PICK k \in lines, l \in lines : m = after(k) /\ n = after(l)
      BY <3>1
    <3>4. k = l
      <4>1. Key(k) = Key(l)
        BY <2>2, <3>2, <3>3
      <4> QED
        BY <4>1 DEF IInv, KeysAreUnique
    <3> QED
      BY <3>3, <3>4
  <2>3. \A m, n \in lines' : Key(m) = Key(n) => m = n
    BY <2>2
  <2> QED
    BY <2>1, <2>3 DEF KeysAreUnique, Key
<1> QED
  BY <1>3, <1>4, <1>5 DEF LinesOK

\* Whatever a committing call does to the lines, they are in order after it.
LEMMA CommittedLines ==
    ASSUME IInv, NEW w \in Workers, Commit(w)
    PROVE  LinesOK
<1>1. call[w].op \in AllOperations /\ approvals \subseteq approvals'
  BY CommitCalls DEF Commit
<1>2. CASE call[w].op = "update"
  <2>1. call[w].payload \in Drafts
    BY <1>2, CommitCalls DEF PayloadHolds
  <2>2. /\ lines' = {l \in lines : Key(l) \notin call[w].doomed}
                       \cup NewLines(call[w].payload)
        /\ batches' = batches + 1
    BY <1>2 DEF Commit, LinesAfter
  <2> QED
    BY <1>1, <2>1, <2>2, InsertedLines
<1>3. CASE call[w].op \in Deciding
  BY <1>3, DecidedLines
<1>4. CASE call[w].op \notin Deciding \cup {"update"}
  <2>1. lines' = lines /\ batches' = batches
    BY <1>4 DEF Commit, LinesAfter, Deciding, IInv, TypeOK
  <2> QED
    BY <1>1, <2>1, SameLines
<1> QED
  BY <1>2, <1>3, <1>4

\* A status is reached with the decisions before it, and the operation's own.
LEMMA CommittedTrail ==
    ASSUME IInv, NEW w \in Workers, Commit(w)
    PROVE  /\ status' \in Statuses
           /\ approvals' \subseteq Decisions
           /\ TrailComplete'
<1>1. /\ call[w].op \in AllOperations
      /\ Before(call[w].op) \subseteq approvals
  BY CommitCalls
<1>2. /\ status' = IF call[w].op = "update" THEN status ELSE To(call[w].op)
      /\ approvals' = approvals \cup DecisionOf(call[w].op)
  BY DEF Commit
<1>3. approvals' \subseteq Decisions
  BY <1>2 DEF IInv, TypeOK, DecisionOf, Decisions
<1>4. status' \in Statuses
  BY <1>1, <1>2 DEF AllOperations, To, Statuses, IInv, TypeOK
<1>5. TrailOf(status') \subseteq approvals'
  BY <1>1, <1>2 DEF AllOperations, To, TrailOf, Before, DecisionOf, Decisions,
     IInv, TrailComplete
<1>6. /\ "assembled" \in approvals' => "hr_packed" \in approvals'
      /\ "hr_packed" \in approvals' => "assistant_approved" \in approvals'
      /\ "assistant_approved" \in approvals' => "zone_verified" \in approvals'
  BY <1>1, <1>2 DEF AllOperations, Before, DecisionOf, Decisions, IInv,
     TrailComplete
<1> QED
  BY <1>3, <1>4, <1>5, <1>6 DEF TrailComplete, TrailOf

LEMMA CommitOK ==
    ASSUME IInv, NEW w \in Workers, Commit(w)
    PROVE  IInv'
<1>1. LinesOK
  BY CommittedLines
<1>2. batches' \in Nat /\ events' \in Nat
  BY DEF Commit, IInv, TypeOK
<1>3. TypeOK'
  BY <1>1, <1>2, CommitCalls, CommittedTrail DEF TypeOK, LinesOK
<1> QED
  BY <1>1, <1>3, CommitCalls, CommittedTrail, OthersUndisturbed DEF IInv, LinesOK

\* A new request has new lines only.
LEMMA CreatedLines ==
    ASSUME IInv, Create
    PROVE  LinesOK /\ \A m \in lines' : m.batch = batches + 1
<1>1. PICK payload \in Drafts : lines' = NewLines(payload)
  BY DEF Create
<1>2. batches' = batches + 1 /\ approvals \subseteq approvals' /\ batches \in Nat
  BY DEF Create, IInv, TypeOK
<1> DEFINE kept == {}
<1>3. kept \in SUBSET lines /\ lines' = kept \cup NewLines(payload)
  BY <1>1
<1> HIDE DEF kept
<1>4. LinesOK
  BY <1>2, <1>3, InsertedLines
<1> QED
  BY <1>1, <1>2, <1>4, NewLinesAreNew

LEMMA CreateOK ==
    ASSUME IInv, Create
    PROVE  IInv'
<1>2. /\ status' = "draft" /\ batches' = batches + 1
      /\ UNCHANGED <<approvals, events, pc, call>>
  BY DEF Create
<1>3. LinesOK
  BY CreatedLines
<1>4. batches \in Nat /\ batches' \in Nat /\ batches <= batches'
  BY <1>2 DEF IInv, TypeOK
<1>5. TypeOK' /\ TrailComplete' /\ LoadedInOrder'
  BY <1>2, <1>3, <1>4 DEF IInv, TypeOK, Statuses, LinesOK, TrailComplete,
     TrailOf, LoadedInOrder
<1>6. \A m \in lines' : m.batch = batches + 1
  BY CreatedLines
<1>7. PrefetchedHold'
  <2>1. \A w \in Workers : \A p \in call[w].prefetched :
          p.batch \in Nat /\ p.batch <= batches /\ call[w].op = "assemble"
    BY DEF IInv, TypeOK, Line, PrefetchedHold
  <2> QED
    BY <1>2, <1>4, <1>6, <2>1 DEF PrefetchedHold, Key
<1>8. PayloadsHold'
  <2> SUFFICES ASSUME NEW v \in Workers, pc[v] = "commit"
               PROVE  PayloadHolds(v)'
    BY <1>2 DEF PayloadsHold
  <2>1. PayloadHolds(v)
    BY DEF IInv, PayloadsHold
  <2>2. ASSUME call[v].op \in Deciding
        PROVE  \A m \in lines' : Key(m) \notin DOMAIN call[v].payload
    <3>1. \A m \in lines' : Key(m)[1] = batches + 1
      BY <1>6 DEF Key
    <3>2. \A k \in DOMAIN call[v].payload : k[1] <= batches
      BY <2>1, <2>2 DEF PayloadHolds
    <3>3. ~(batches + 1 <= batches)
      BY <1>4
    <3> QED
      BY <3>1, <3>2, <3>3
  <2>3. \A k \in Nat \X StoreItems : k[1] <= batches => k[1] <= batches'
    BY <1>4
  <2> QED
    BY <1>2, <2>1, <2>2, <2>3 DEF PayloadHolds, Drafts, Cap, Key
<1> QED
  BY <1>3, <1>5, <1>7, <1>8 DEF IInv, LinesOK

------------------------------------------------------------------------------
\* Every step of every call leads from the invariant to the invariant.
LEMMA StepOK == IInv /\ [Next]_vars => IInv'
<1> SUFFICES ASSUME IInv, [Next]_vars PROVE IInv'
  OBVIOUS
<1>1. CASE Create
  BY <1>1, CreateOK
<1>2. ASSUME NEW w \in Workers, Step(w) PROVE IInv'
  <2>1. CASE Load(w)
    BY <2>1, LoadOK
  <2>2. CASE Check(w)
    BY <2>2, CheckOK
  <2>3. CASE Commit(w)
    BY <2>3, CommitOK
  <2>4. CASE Refuse(w) \/ Abort(w)
    BY <2>4, ReturnOK DEF Refuse, Abort
  <2>5. CASE Announce(w)
    BY <2>5, ReturnOK DEF Announce
  <2> QED
    BY <1>2, <2>1, <2>2, <2>3, <2>4, <2>5 DEF Step
<1>3. CASE UNCHANGED vars
  <2>1. TypeOK' /\ TrailComplete' /\ QuantitiesNeverGrow'
    BY <1>3 DEF vars, IInv, TypeOK, TrailComplete, QuantitiesNeverGrow
  <2>2. QuantitiesAreDecided' /\ KeysAreUnique'
    BY <1>3 DEF vars, IInv, QuantitiesAreDecided, KeysAreUnique
  <2>3. LoadedInOrder' /\ PrefetchedHold'
    BY <1>3 DEF vars, IInv, LoadedInOrder, PrefetchedHold
  <2>4. PayloadsHold'
    BY <1>3 DEF vars, IInv, PayloadsHold, PayloadHolds
  <2> QED
    BY <2>1, <2>2, <2>3, <2>4 DEF IInv
<1> QED
  BY <1>1, <1>2, <1>3 DEF Next

\* The invariant above holds throughout, for any number of calls on stale
\* objects.
THEOREM Invariant == Spec => []IInv
<1> QED
  BY InitOK, StepOK, PTL DEF Spec

\* Types, for every constant that RequestAssumption allows.
THEOREM TypeCorrect == Spec => []TypeOK
<1>1. IInv => TypeOK
  BY DEF IInv
<1> QED
  BY <1>1, Invariant, PTL

\* No status without the accountability rows of the handoffs before it, although
\* submit_stock_request and the decisions check a status loaded earlier.
THEOREM TrailIsComplete == Spec => []TrailComplete
<1>1. IInv => TrailComplete
  BY DEF IInv
<1> QED
  BY <1>1, Invariant, PTL

\* packed <= approved <= verified <= requested, although every quantity is
\* checked against lines read before the transaction that writes it.
THEOREM QuantitiesShrink == Spec => []QuantitiesNeverGrow
<1>1. IInv => QuantitiesNeverGrow
  BY DEF IInv
<1> QED
  BY <1>1, Invariant, PTL

\* Quantities and the decisions that set them are committed together.
THEOREM QuantitiesHaveDecisions == Spec => []QuantitiesAreDecided
<1>1. IInv => QuantitiesAreDecided
  BY DEF IInv
<1> QED
  BY <1>1, Invariant, PTL

\* All that is claimed of the lines of a request.
THEOREM RequestIsOK == Spec => []RequestOK
<1>1. IInv => RequestOK
  BY DEF IInv, RequestOK
<1> QED
  BY <1>1, Invariant, PTL

\* A quantity of a decided stage is never revised, by the unique constraint on
\* (request, stage) alone.
THEOREM QuantitiesAreFinal == Spec => DecidedOnce
<1> DEFINE Final ==
      \A l \in lines, m \in lines' : Key(l) = Key(m) =>
         /\ l.verified # None => m.verified = l.verified
         /\ l.assistant # None => m.assistant = l.assistant
         /\ l.packed # None => m.packed = l.packed
<1>1. ASSUME IInv, LinesFollow PROVE Final
  <2> SUFFICES ASSUME NEW l \in lines, NEW m \in lines', Key(l) = Key(m)
               PROVE  /\ l.verified # None => m.verified = l.verified
                      /\ l.assistant # None => m.assistant = l.assistant
                      /\ l.packed # None => m.packed = l.packed
    OBVIOUS
  <2>1. m.batch # batches + 1
    <3>1. /\ l.batch = m.batch /\ l.batch <= batches
          /\ l.batch \in Nat /\ batches \in Nat
      BY <1>1 DEF Key, IInv, TypeOK, KeysAreUnique, Line
    <3> QED
      BY <3>1
  <2>2. PICK k \in lines :
          /\ Key(k) = Key(m)
          /\ "zone_verified" \in approvals => m.verified = k.verified
          /\ "assistant_approved" \in approvals => m.assistant = k.assistant
          /\ "assembled" \in approvals => m.packed = k.packed
    BY <1>1, <2>1 DEF LinesFollow
  <2>3. k = l
    BY <1>1, <2>2 DEF IInv, KeysAreUnique
  <2> QED
    BY <1>1, <2>2, <2>3 DEF IInv, QuantitiesAreDecided
<1>2. ASSUME IInv, [Next]_vars PROVE [Final]_vars
  <2>1. CASE Create
    BY <1>1, <1>2, <2>1, CreatedLines DEF LinesOK
  <2>2. ASSUME NEW w \in Workers, Commit(w) PROVE Final
    BY <1>1, <1>2, <2>2, CommittedLines DEF LinesOK
  <2>3. ASSUME NEW w \in Workers, Step(w), ~Commit(w) PROVE Final
    <3>1. lines' = lines
      BY <2>3 DEF Step, Load, Check, Refuse, Announce, Abort, requestVars
    <3>2. \A l, m \in lines : Key(l) = Key(m) => l = m
      BY <1>2 DEF IInv, KeysAreUnique
    <3> QED
      BY <3>1, <3>2
  <2> QED
    BY <1>2, <2>1, <2>2, <2>3 DEF Next
<1> QED
  BY <1>2, Invariant, PTL DEF Spec, DecidedOnce
==============================================================================
