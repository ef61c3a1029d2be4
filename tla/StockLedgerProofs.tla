-------------------------- MODULE StockLedgerProofs --------------------------
(***************************************************************************)
(* What StockLedger promises for every set of items, calls and quantities. *)
(***************************************************************************)
EXTENDS StockLedger, FiniteSetTheorems, WellFoundedInduction, TLAPS

------------------------------------------------------------------------------
(* Types. *)

LEMMA AddedRowType ==
    ASSUME NEW i \in Items, NEW stock \in Int, NEW meta \in MetaRow
    PROVE  AddedRow(i, stock, meta) \in Row
  BY DEF AddedRow, Row, MetaRow

LEMMA InitType == Init => TypeOK
<1> SUFFICES ASSUME Init PROVE TypeOK
  OBVIOUS
<1> USE ConstantsAssumption
<1>1. \A i \in Items : AddedRow(i, InitialStock[i], InitialMeta[i]) \in Row
  BY AddedRowType
<1>2. IdleCall \in CallRecord
  <2> DEFINE i == CHOOSE x \in Items : TRUE
  <2>1. i \in Items
    OBVIOUS
  <2>2. AddedRow(i, InitialStock[i], InitialMeta[i]) \in Row
    BY <1>1, <2>1
  <2>3. InitialMeta[i] \in MetaRow
    BY <2>1
  <2> HIDE DEF i
  <2>4. IdleCall = [op |-> "none", item |-> i, dest |-> i,
                    type |-> "adjustment", quantity |-> 0, month |-> NoMonth,
                    seen |-> AddedRow(i, InitialStock[i], InitialMeta[i]),
                    meta |-> InitialMeta[i], low |-> {}, note |-> {}]
    BY DEF IdleCall, i
  <2> QED
    BY <2>1, <2>2, <2>3, <2>4 DEF CallRecord, AllTypes
<1>3. movements \subseteq Movement
  BY DEF Init, OpeningMovements, Movement, AllTypes, Increasing
<1> QED
  BY <1>1, <1>2, <1>3 DEF Init, TypeOK, Stages

LEMMA ArgumentsType ==
    ASSUME TypeOK, NEW c \in Calls, NEW op \in AllOperations,
           NEW i \in Items, NEW j \in Items, NEW type \in AllTypes,
           NEW q \in Int, NEW month \in Months \cup {NoMonth},
           NEW meta \in MetaRow, Arguments(c, op, i, j, type, q, month, meta)
    PROVE  call' \in [Calls -> CallRecord]
  BY DEF TypeOK, Arguments, CallRecord

LEMMA GoToType ==
    ASSUME TypeOK, NEW c \in Calls, NEW stage \in Stages, GoTo(c, stage)
    PROVE  pc' \in [Calls -> Stages]
  BY DEF TypeOK, GoTo

LEMMA DeltaType ==
    ASSUME TypeOK, NEW c \in Calls, NEW i \in Items
    PROVE  DeltaOf(c, i) \in Int
  BY DEF TypeOK, DeltaOf, IsTransfer, MovementDelta, CallRecord

LEMMA NewRowsType ==
    ASSUME TypeOK, NEW c \in Calls
    PROVE  /\ NewMovements(c) \subseteq Movement
           /\ NewTransfers(c) \subseteq Transfer
           /\ call[c].op = "opening" /\ call[c].month # NoMonth
                => NewOpenings(c) \subseteq Opening
  BY DEF TypeOK, NewMovements, NewMovement, NewTransfers, NewOpenings,
         IsTransfer, Movement, Transfer, Opening, CallRecord, AllTypes,
         Increasing, Decreasing

------------------------------------------------------------------------------
(* Steps that change no row of the database. *)

\* The properties of committed rows, which say nothing of running calls.
LEMMA RowPropertiesUnchanged ==
    ASSUME IInv, UNCHANGED ledgerVars
    PROVE  /\ NoNegativeStock' /\ TransfersArePaired' /\ OneOpeningPerMonth'
           /\ FewUnreadAlerts' /\ AnnouncedIsCommitted'
  BY DEF Alerts, IInv, ledgerVars, NoNegativeStock, TransfersArePaired,
         OneOpeningPerMonth, FewUnreadAlerts, AnnouncedIsCommitted

LEMMA TypeOfQuietStep ==
    ASSUME TypeOK, UNCHANGED ledgerVars,
           lock' \in [Items -> Calls \cup {NoCall}],
           pc' \in [Calls -> Stages], call' \in [Calls -> CallRecord]
    PROVE  TypeOK'
  BY DEF TypeOK, ledgerVars

SameArguments(d) ==
    /\ call'[d].op = call[d].op
    /\ call'[d].item = call[d].item
    /\ call'[d].dest = call[d].dest
    /\ call'[d].type = call[d].type
    /\ call'[d].quantity = call[d].quantity
    /\ call'[d].month = call[d].month

\* What a call is about to do depends on its own arguments only.
LEMMA WorkUnchanged ==
    ASSUME NEW d \in Calls, SameArguments(d)
    PROVE  /\ IsTransfer(d)' <=> IsTransfer(d)
           /\ TouchedBy(d)' = TouchedBy(d)
           /\ \A i \in Items : DeltaOf(d, i)' = DeltaOf(d, i)
  BY DEF SameArguments, IsTransfer, TouchedBy, DeltaOf

LEMMA TouchedByItems ==
    ASSUME TypeOK, NEW d \in Calls
    PROVE  TouchedBy(d) \subseteq Items
  BY DEF TypeOK, TouchedBy, CallRecord

\* A check that held on the rows a call has locked holds while they are
\* unchanged.
LEMMA ChecksStable ==
    ASSUME TypeOK, NEW d \in Calls, SameArguments(d), MayWrite(d),
           \A i \in TouchedBy(d) : row'[i] = row[i],
           OpeningExists(d)' => OpeningExists(d)
    PROVE  MayWrite(d)'
<1>1. \A i \in TouchedBy(d)' : Sufficient(i, DeltaOf(d, i))'
  <2> SUFFICES ASSUME NEW i \in TouchedBy(d)
               PROVE  Sufficient(i, DeltaOf(d, i))'
    BY WorkUnchanged
  <2>1. DeltaOf(d, i)' = DeltaOf(d, i) /\ Sufficient(i, DeltaOf(d, i))
    BY WorkUnchanged, TouchedByItems DEF MayWrite
  <2> QED
    BY <2>1 DEF Sufficient
<1>2. IsTransfer(d)' => TransferIsClean(d)'
  BY WorkUnchanged DEF MayWrite, TransferIsClean, TouchedBy, SameArguments
<1> QED
  BY <1>1, <1>2 DEF MayWrite, SameArguments

\* The same for the whole invariant of a call about to commit.
LEMMA CommitStable ==
    ASSUME TypeOK, NEW d \in Calls, call'[d] = call[d], ChecksHoldAtCommit,
           pc[d] = "commit",
           \A i \in TouchedBy(d) : row'[i] = row[i],
           \A i \in call[d].note : Alerts(i) < AlertLimit => Alerts(i)' < AlertLimit,
           OpeningExists(d)' => OpeningExists(d)
    PROVE  /\ MayWrite(d)'
           /\ \A i \in call'[d].note : i \in TouchedBy(d)' /\ Alerts(i)' < AlertLimit
           /\ \A e \in call'[d].low : e.by = d /\ e.item \in TouchedBy(d)'
<1>0. SameArguments(d)
  BY DEF SameArguments
<1>1. MayWrite(d)'
  BY <1>0, ChecksStable DEF ChecksHoldAtCommit
<1> QED
  BY <1>0, <1>1, WorkUnchanged DEF ChecksHoldAtCommit

\* A call begins: the arguments it got satisfy what its next stage relies on.
LEMMA BeginCall ==
    ASSUME IInv, NEW c \in Calls, NEW a \in CallRecord,
           NEW stage \in {"lockSource", "checkOpening", "save", "rejected", "error"},
           pc[c] = "idle", call' = [call EXCEPT ![c] = a], GoTo(c, stage),
           UNCHANGED <<ledgerVars, lock>>,
           ArgumentsChecked',
           stage = "save" /\ ~AllowNegativeStock => a.seen.stock >= 0
    PROVE  IInv'
<1> USE ConstantsAssumption
<1>1. TypeOK'
  <2>1. stage \in Stages
    BY DEF Stages, InTransaction, Finished
  <2>2. pc' \in [Calls -> Stages]
    BY <2>1, GoToType DEF IInv
  <2> QED
    BY <2>2, TypeOfQuietStep DEF IInv, TypeOK
<1>2. /\ \A d \in Calls : d # c => pc'[d] = pc[d] /\ call'[d] = call[d]
      /\ pc'[c] = stage
  BY DEF IInv, TypeOK, GoTo
<1>3. LocksHeld'
  BY <1>2 DEF IInv, LocksHeld, IsTransfer
<1>4. ChecksHoldAtCommit'
  <2> SUFFICES ASSUME NEW d \in Calls, pc'[d] = "commit"
               PROVE  /\ MayWrite(d)'
                      /\ \A i \in call'[d].note :
                            i \in TouchedBy(d)' /\ Alerts(i)' < AlertLimit
                      /\ \A e \in call'[d].low :
                            e.by = d /\ e.item \in TouchedBy(d)'
    BY DEF ChecksHoldAtCommit
  <2>1. pc[d] = "commit" /\ call'[d] = call[d]
    BY <1>2
  <2>2. OpeningExists(d)' => OpeningExists(d)
    BY <2>1 DEF OpeningExists, ledgerVars
  <2> QED
    BY <2>1, <2>2, CommitStable DEF Alerts, IInv, ledgerVars
<1>5. LoadedNotNegative'
  BY <1>2 DEF IInv, LoadedNotNegative, TypeOK
<1>6. RowsAreCommitted'
  <2>1. \A d \in Calls : Committed(d) => Committed(d)'
    BY <1>2 DEF Committed
  <2>2. /\ \A m \in movements : m.by \in Calls => Committed(m.by)'
        /\ \A t \in transfers : Committed(t.by)'
        /\ \A o \in openings : Committed(o.by)'
    BY <2>1 DEF IInv, RowsAreCommitted, TypeOK, Transfer, Opening
  <2>3. \A d \in Calls : pc'[d] = "announce" =>
          \A e \in call'[d].low :
             \E m \in movements : m.by = e.by /\ m.item = e.item
    BY <1>2 DEF IInv, RowsAreCommitted
  <2> QED
    BY <2>2, <2>3 DEF IInv, RowsAreCommitted, ledgerVars
<1> QED
  BY <1>1, <1>3, <1>4, <1>5, <1>6, RowPropertiesUnchanged DEF IInv

LEMMA BeginSteps ==
    ASSUME IInv, NEW c \in Calls,
           BeginMovement(c) \/ BeginTransfer(c) \/ BeginOpening(c) \/ BeginUpdate(c)
    PROVE  IInv'
<1> USE ConstantsAssumption
<1> DEFINE Rec(op, i, j, type, q, month, meta) ==
             [op |-> op, item |-> i, dest |-> j, type |-> type,
              quantity |-> q, month |-> month, seen |-> row[i],
              meta |-> meta, low |-> {}, note |-> {}]
<1>1. ASSUME NEW op \in AllOperations, NEW i \in present, NEW j \in present,
             NEW type \in AllTypes, NEW q \in Int,
             NEW month \in Months \cup {NoMonth}, NEW meta \in MetaRow
      PROVE  Rec(op, i, j, type, q, month, meta) \in CallRecord
  BY <1>1 DEF IInv, TypeOK, CallRecord
<1>2. ASSUME NEW a \in CallRecord,
             NEW stage \in {"lockSource", "checkOpening", "save", "rejected", "error"},
             pc[c] = "idle", call' = [call EXCEPT ![c] = a], GoTo(c, stage),
             UNCHANGED <<ledgerVars, lock>>,
             stage \in InTransaction =>
               /\ a.op \in {"movement", "transfer", "opening", "update"}
               /\ a.op \in Operations
               /\ a.item \in present /\ a.dest \in present
               /\ a.op # "update" => a.quantity \in Quantities
               /\ stage = "save" <=> a.op = "update"
               /\ stage = "checkOpening" => a.op = "opening"
               /\ a.op = "transfer" => /\ a.quantity > 0
                                       /\ StoreOf[a.item] # StoreOf[a.dest]
               /\ a.op = "movement" => a.type \in RequestableTypes
               /\ a.op = "opening" => a.type = "opening" /\ a.month \in Months
               /\ a.op # "opening" => a.month = NoMonth,
             stage = "save" /\ ~AllowNegativeStock => a.seen.stock >= 0
      PROVE  IInv'
  <2>1. /\ pc'[c] = stage /\ call'[c] = a
        /\ \A d \in Calls : d # c => pc'[d] = pc[d] /\ call'[d] = call[d]
    BY <1>2 DEF IInv, TypeOK, GoTo
  <2>2. ArgumentsChecked'
    BY <1>2, <2>1 DEF IInv, ArgumentsChecked, IsTransfer, ledgerVars
  <2> QED
    BY <1>2, <2>2, BeginCall
<1> HIDE DEF Rec
<1>3. CASE BeginMovement(c)
  <2>1. PICK i \in present, type \in MovementTypes, q \in Quantities :
          /\ Arguments(c, "movement", i, i, type, q, NoMonth, InitialMeta[i])
          /\ GoTo(c, IF q = 0 THEN "rejected" ELSE "lockSource")
    BY <1>3 DEF BeginMovement
  <2> DEFINE a == Rec("movement", i, i, type, q, NoMonth, InitialMeta[i])
             stage == IF q = 0 THEN "rejected" ELSE "lockSource"
  <2>2. a \in CallRecord
    BY <1>1, <1>3 DEF BeginMovement, IInv, TypeOK, AllTypes, RequestableTypes,
       Increasing, Decreasing, AllOperations
  <2>3. /\ a.op = "movement" /\ a.item = i /\ a.dest = i /\ a.type = type
        /\ a.quantity = q /\ a.month = NoMonth
        /\ call' = [call EXCEPT ![c] = a]
    BY <2>1 DEF Rec, Arguments
  <2> HIDE DEF a
  <2> QED
    BY <1>2, <1>3, <2>1, <2>2, <2>3 DEF BeginMovement, Starts, InTransaction
<1>4. CASE BeginTransfer(c)
  <2> DEFINE Stage(i, j, q) == IF ~Transferable(i, j, q) THEN "rejected"
                     ELSE IF LocksNullableJoin THEN "lockSource" ELSE "error"
  <2>1. PICK i \in present, j \in present, q \in Quantities :
          /\ Arguments(c, "transfer", i, j, "transfer_out", q, NoMonth,
                       InitialMeta[i])
          /\ GoTo(c, Stage(i, j, q))
    BY <1>4 DEF BeginTransfer
  <2> DEFINE a == Rec("transfer", i, j, "transfer_out", q, NoMonth, InitialMeta[i])
  <2>2. a \in CallRecord
    BY <1>1, <1>4 DEF BeginTransfer, IInv, TypeOK, AllTypes,
       Increasing, Decreasing, AllOperations
  <2>3. /\ a.op = "transfer" /\ a.item = i /\ a.dest = j
        /\ a.quantity = q /\ a.month = NoMonth
        /\ call' = [call EXCEPT ![c] = a]
    BY <2>1 DEF Rec, Arguments
  <2>4. /\ Stage(i, j, q) \in {"rejected", "lockSource", "error"}
        /\ Stage(i, j, q) = "lockSource" => Transferable(i, j, q)
    OBVIOUS
  <2> HIDE DEF a, Stage
  <2> QED
    BY <1>2, <1>4, <2>1, <2>2, <2>3, <2>4
       DEF BeginTransfer, Starts, InTransaction, Transferable
<1>5. CASE BeginOpening(c)
  <2>1. PICK i \in present, month \in Months, q \in Quantities :
          Arguments(c, "opening", i, i, "opening", q, month, InitialMeta[i])
    BY <1>5 DEF BeginOpening
  <2> DEFINE a == Rec("opening", i, i, "opening", q, month, InitialMeta[i])
  <2>2. a \in CallRecord
    BY <1>1, <1>5 DEF BeginOpening, IInv, TypeOK, AllTypes, Increasing,
       AllOperations
  <2>3. /\ a.op = "opening" /\ a.item = i /\ a.dest = i /\ a.type = "opening"
        /\ a.quantity = q /\ a.month = month
        /\ call' = [call EXCEPT ![c] = a]
    BY <2>1 DEF Rec, Arguments
  <2> HIDE DEF a
  <2> QED
    BY <1>2, <1>5, <2>1, <2>2, <2>3 DEF BeginOpening, Starts, InTransaction
<1>6. CASE BeginUpdate(c)
  <2>1. PICK i \in present, meta \in Metadata :
          Arguments(c, "update", i, i, "adjustment", 0, NoMonth, meta)
    BY <1>6 DEF BeginUpdate
  <2> DEFINE a == Rec("update", i, i, "adjustment", 0, NoMonth, meta)
  <2>2. a \in CallRecord
    <3>1. /\ "update" \in AllOperations /\ "adjustment" \in AllTypes
          /\ 0 \in Int /\ NoMonth \in Months \cup {NoMonth} /\ meta \in MetaRow
      BY DEF AllOperations, AllTypes
    <3> QED
      BY <1>1, <3>1
  <2>3. /\ a.op = "update" /\ a.item = i /\ a.dest = i /\ a.month = NoMonth
        /\ a.seen = row[i]
        /\ call' = [call EXCEPT ![c] = a]
    BY <2>1 DEF Rec, Arguments
  <2>4. ~AllowNegativeStock => a.seen.stock >= 0
    BY <2>3 DEF IInv, NoNegativeStock
  <2> HIDE DEF a
  <2> QED
    BY <1>2, <1>6, <2>1, <2>2, <2>3, <2>4 DEF BeginUpdate, Starts, InTransaction
<1> QED
  BY <1>3, <1>4, <1>5, <1>6

\* A step of one call that changes its stage and the locks only, short of
\* committing.
LEMMA LockStep ==
    ASSUME IInv, NEW c \in Calls,
           NEW stage \in {"lockSource", "lockDestination", "write"} \cup Finished,
           UNCHANGED <<ledgerVars, call>>, GoTo(c, stage),
           lock' \in [Items -> Calls \cup {NoCall}],
           \A i \in Items : \A d \in Calls \ {c} : lock[i] = d => lock'[i] = d,
           pc[c] \in InTransaction \ {"save"} \/ stage \in Finished,
           Committed(c) => stage \in {"ok", "failed"},
           stage \in {"lockDestination", "write"} => lock'[call[c].item] = c,
           stage = "write" /\ IsTransfer(c) => lock'[call[c].dest] = c,
           stage = "lockDestination" => IsTransfer(c)
    PROVE  IInv'
<1> USE ConstantsAssumption
<1>1. /\ \A d \in Calls : d # c => pc'[d] = pc[d]
      /\ pc'[c] = stage
      /\ \A d \in Calls : call'[d] = call[d]
  BY DEF IInv, TypeOK, GoTo
<1>2. TypeOK'
  <2>1. stage \in Stages
    BY DEF Stages, InTransaction, Finished
  <2> QED
    BY <2>1, GoToType, TypeOfQuietStep DEF IInv, TypeOK
<1>3. LocksHeld'
  <2>1. \A d \in Calls : call[d].item \in Items /\ call[d].dest \in Items
    BY DEF IInv, TypeOK, CallRecord
  <2>2. ASSUME NEW d \in Calls, d # c
        PROVE  /\ pc'[d] \in {"lockDestination", "write", "commit"} =>
                     lock'[call'[d].item] = d
               /\ pc'[d] \in {"write", "commit"} /\ IsTransfer(d)' =>
                     lock'[call'[d].dest] = d
    BY <1>1, <2>1, <2>2, WorkUnchanged DEF IInv, LocksHeld, SameArguments
  <2>3. /\ pc'[c] \in {"lockDestination", "write", "commit"} =>
              lock'[call'[c].item] = c
        /\ pc'[c] \in {"write", "commit"} /\ IsTransfer(c)' =>
              lock'[call'[c].dest] = c
    BY <1>1, WorkUnchanged DEF Finished, SameArguments
  <2> QED
    BY <2>2, <2>3 DEF LocksHeld
<1>4. ArgumentsChecked'
  BY <1>1 DEF IInv, ArgumentsChecked, IsTransfer, ledgerVars, InTransaction,
              Finished
<1>5. ChecksHoldAtCommit'
  <2> SUFFICES ASSUME NEW d \in Calls, pc'[d] = "commit"
               PROVE  /\ MayWrite(d)'
                      /\ \A i \in call'[d].note :
                            i \in TouchedBy(d)' /\ Alerts(i)' < AlertLimit
                      /\ \A e \in call'[d].low :
                            e.by = d /\ e.item \in TouchedBy(d)'
    BY DEF ChecksHoldAtCommit
  <2>1. pc[d] = "commit" /\ call'[d] = call[d]
    BY <1>1 DEF Finished
  <2>2. OpeningExists(d)' => OpeningExists(d)
    BY <2>1 DEF OpeningExists, ledgerVars
  <2> QED
    BY <2>1, <2>2, CommitStable DEF Alerts, IInv, ledgerVars
<1>6. LoadedNotNegative'
  BY <1>1 DEF IInv, LoadedNotNegative, Finished
<1>7. RowsAreCommitted'
  <2>1. \A d \in Calls : Committed(d) => Committed(d)'
    BY <1>1 DEF Committed
  <2>2. /\ \A m \in movements : m.by \in Calls => Committed(m.by)'
        /\ \A t \in transfers : Committed(t.by)'
        /\ \A o \in openings : Committed(o.by)'
    BY <2>1 DEF IInv, RowsAreCommitted, TypeOK, Transfer, Opening
  <2>3. \A d \in Calls : pc'[d] = "announce" =>
          \A e \in call'[d].low :
             \E m \in movements : m.by = e.by /\ m.item = e.item
    BY <1>1 DEF IInv, RowsAreCommitted, Finished
  <2> QED
    BY <2>2, <2>3 DEF IInv, RowsAreCommitted, ledgerVars
<1> QED
  BY <1>2, <1>3, <1>4, <1>5, <1>6, <1>7, RowPropertiesUnchanged DEF IInv

LEMMA ReleasedLocks ==
    ASSUME TypeOK, NEW c \in Calls, lock' = Released(c)
    PROVE  /\ lock' \in [Items -> Calls \cup {NoCall}]
           /\ \A i \in Items : \A d \in Calls \ {c} : lock[i] = d => lock'[i] = d
  BY DEF TypeOK, Released

LEMMA RollBackSteps ==
    ASSUME IInv, NEW c \in Calls, Refuse(c) \/ AbortVictim(c) \/ Crash(c)
    PROVE  IInv'
<1>1. ASSUME NEW outcome \in {"rejected", "failed"}, RollBack(c, outcome),
             Committed(c) => outcome = "failed"
      PROVE  IInv'
  BY <1>1, LockStep, ReleasedLocks DEF RollBack, IInv, Finished
<1>2. CASE Refuse(c)
  BY <1>1, <1>2 DEF Refuse, Committed
<1>3. CASE AbortVictim(c)
  BY <1>1, <1>3 DEF AbortVictim
<1>4. CASE Crash(c)
  BY <1>1, <1>4 DEF Crash
<1> QED
  BY <1>2, <1>3, <1>4

LEMMA LockSteps ==
    ASSUME IInv, NEW c \in Calls,
           CheckOpening(c) \/ LockSource(c) \/ LockDestination(c)
    PROVE  IInv'
<1> USE ConstantsAssumption
<1>0. call[c].item \in Items /\ call[c].dest \in Items
  BY DEF IInv, TypeOK, CallRecord
<1>1. CASE CheckOpening(c)
  <2>1. PICK stage \in {"rejected", "lockSource"} : GoTo(c, stage)
    BY <1>1 DEF CheckOpening
  <2> QED
    BY <1>1, <2>1, LockStep
       DEF CheckOpening, IInv, TypeOK, Committed, Finished, InTransaction
<1>2. CASE LockSource(c)
  <2> DEFINE stage == IF IsTransfer(c) THEN "lockDestination" ELSE "write"
  <2>1. /\ pc[c] = "lockSource" /\ lock[call[c].item] = NoCall
        /\ lock' = [lock EXCEPT ![call[c].item] = c]
        /\ GoTo(c, stage)
        /\ UNCHANGED <<ledgerVars, call>>
    BY <1>2 DEF LockSource
  <2>2. /\ lock' \in [Items -> Calls \cup {NoCall}]
        /\ \A i \in Items : \A d \in Calls \ {c} : lock[i] = d => lock'[i] = d
        /\ lock'[call[c].item] = c
    BY <1>0, <2>1 DEF IInv, TypeOK
  <2>3. stage \in {"lockDestination", "write"}
        /\ (stage = "lockDestination" <=> IsTransfer(c))
    OBVIOUS
  <2> HIDE DEF stage
  <2> QED
    BY <2>1, <2>2, <2>3, LockStep DEF Committed, InTransaction
<1>3. CASE LockDestination(c)
  <2>1. /\ pc[c] = "lockDestination" /\ lock[call[c].dest] = NoCall
        /\ lock' = [lock EXCEPT ![call[c].dest] = c]
        /\ GoTo(c, "write")
        /\ UNCHANGED <<ledgerVars, call>>
    BY <1>3 DEF LockDestination
  <2>2. /\ lock' \in [Items -> Calls \cup {NoCall}]
        /\ \A i \in Items : \A d \in Calls : lock[i] = d => lock'[i] = d
        /\ lock'[call[c].dest] = c /\ lock'[call[c].item] = c
    BY <1>0, <2>1 DEF IInv, TypeOK, LocksHeld
  <2> QED
    BY <2>1, <2>2, LockStep DEF Committed, InTransaction
<1> QED
  BY <1>1, <1>2, <1>3

LEMMA WriteStep ==
    ASSUME IInv, NEW c \in Calls, Write(c)
    PROVE  IInv'
<1> USE ConstantsAssumption
<1> DEFINE low == {i \in TouchedBy(c) : LowAfter(i, DeltaOf(c, i))}
           alerts == {[by |-> c, item |-> i,
                       stock |-> row[i].stock + DeltaOf(c, i)] : i \in low}
           note == {i \in low \cap Managed : unread[i] = 0}
<1>1. /\ pc[c] = "write" /\ MayWrite(c) /\ GoTo(c, "commit")
      /\ call' = [call EXCEPT ![c].low = alerts, ![c].note = note]
      /\ UNCHANGED <<ledgerVars, lock>>
  BY DEF Write
<1>2. /\ note \subseteq TouchedBy(c) /\ \A i \in note : unread[i] = 0
      /\ \A e \in alerts : e.by = c /\ e.item \in TouchedBy(c)
  OBVIOUS
<1>3. alerts \subseteq Alert /\ note \subseteq Items
  <2>1. \A i \in TouchedBy(c) : i \in Items /\ row[i].stock + DeltaOf(c, i) \in Int
    BY TouchedByItems, DeltaType DEF IInv, TypeOK, Row
  <2> QED
    BY <2>1 DEF Alert
<1>13. \A i \in note : Alerts(i)' < AlertLimit
  <2>1. \A i \in note : unread'[i] = 0 /\ alerting' = alerting
    BY <1>1, <1>2 DEF ledgerVars
  <2>2. alerting # {} => LowStockTask
    BY DEF IInv, FewUnreadAlerts
  <2> HIDE DEF low, note
  <2> QED
    BY <2>1, <2>2 DEF Alerts, AlertLimit
<1> HIDE DEF low, alerts, note
<1>4. /\ \A d \in Calls : d # c => pc'[d] = pc[d] /\ call'[d] = call[d]
      /\ \A d \in Calls : SameArguments(d) /\ call'[d].seen = call[d].seen
      /\ pc'[c] = "commit" /\ call'[c].low = alerts /\ call'[c].note = note
      /\ call' \in [Calls -> CallRecord]
  <2>1. /\ call \in [Calls -> CallRecord] /\ pc \in [Calls -> Stages]
    BY DEF IInv, TypeOK
  <2>2. /\ \A d \in Calls : d # c => pc'[d] = pc[d] /\ call'[d] = call[d]
        /\ pc'[c] = "commit"
    BY <1>1, <2>1 DEF GoTo
  <2>3. call'[c] = [call[c] EXCEPT !.low = alerts, !.note = note]
    BY <1>1, <2>1
  <2>4. /\ call'[c] \in CallRecord
        /\ call'[c].low = alerts /\ call'[c].note = note
        /\ SameArguments(c) /\ call'[c].seen = call[c].seen
    <3> DEFINE r == call[c]
    <3>1. r \in CallRecord /\ alerts \in SUBSET Alert /\ note \in SUBSET Items
      BY <1>3, <2>1
    <3>2. call'[c] = [r EXCEPT !.low = alerts, !.note = note]
      BY <2>3
    <3> HIDE DEF r
    <3>3. /\ call'[c].op = r.op /\ call'[c].item = r.item
          /\ call'[c].dest = r.dest /\ call'[c].type = r.type
          /\ call'[c].quantity = r.quantity /\ call'[c].month = r.month
          /\ call'[c].seen = r.seen
          /\ call'[c].low = alerts /\ call'[c].note = note
      BY <3>1, <3>2 DEF CallRecord
    <3>4. call'[c] \in CallRecord
      BY <3>1, <3>2 DEF CallRecord
    <3> QED
      BY <3>3, <3>4 DEF SameArguments, r
  <2>5. call' \in [Calls -> CallRecord]
    BY <1>1, <2>1, <2>2, <2>4
  <2> QED
    BY <2>2, <2>4, <2>5 DEF SameArguments
<1>5. TypeOK'
  BY <1>1, <1>4, GoToType, TypeOfQuietStep
     DEF IInv, TypeOK, Stages, InTransaction
<1>6. LocksHeld'
  BY <1>1, <1>4, WorkUnchanged DEF IInv, LocksHeld, SameArguments
<1>7. ArgumentsChecked'
  BY <1>1, <1>4 DEF IInv, ArgumentsChecked, IsTransfer, ledgerVars,
                    InTransaction, SameArguments
<1>8. ChecksHoldAtCommit'
  <2> SUFFICES ASSUME NEW d \in Calls, pc'[d] = "commit"
               PROVE  /\ MayWrite(d)'
                      /\ \A i \in call'[d].note :
                            i \in TouchedBy(d)' /\ Alerts(i)' < AlertLimit
                      /\ \A e \in call'[d].low :
                            e.by = d /\ e.item \in TouchedBy(d)'
    BY DEF ChecksHoldAtCommit
  <2>1. OpeningExists(d)' => OpeningExists(d)
    BY <1>1, <1>4 DEF OpeningExists, ledgerVars, SameArguments
  <2>2. CASE d = c
    <3>1. MayWrite(c)'
      BY <1>1, <1>4, <2>1, <2>2, ChecksStable DEF IInv, ledgerVars
    <3> QED
      BY <1>2, <1>4, <1>13, <2>2, <3>1, WorkUnchanged DEF ledgerVars
  <2>3. CASE d # c
    BY <1>1, <1>4, <2>1, <2>3, CommitStable DEF Alerts, IInv, ledgerVars
  <2> QED
    BY <2>2, <2>3
<1>9. LoadedNotNegative'
  BY <1>1, <1>4 DEF IInv, LoadedNotNegative
<1>10. RowsAreCommitted'
  <2>1. \A d \in Calls : Committed(d) => Committed(d)'
    BY <1>1, <1>4 DEF Committed
  <2>2. /\ \A m \in movements : m.by \in Calls => Committed(m.by)'
        /\ \A t \in transfers : Committed(t.by)'
        /\ \A o \in openings : Committed(o.by)'
    BY <2>1 DEF IInv, RowsAreCommitted, TypeOK, Transfer, Opening
  <2>3. \A d \in Calls : pc'[d] = "announce" =>
          \A e \in call'[d].low :
             \E m \in movements : m.by = e.by /\ m.item = e.item
    BY <1>4 DEF IInv, RowsAreCommitted
  <2> QED
    BY <1>1, <2>2, <2>3 DEF IInv, RowsAreCommitted, ledgerVars
<1> QED
  BY <1>1, <1>5, <1>6, <1>7, <1>8, <1>9, <1>10, RowPropertiesUnchanged DEF IInv

------------------------------------------------------------------------------
(* Steps that change rows. *)

\* A committing call holds the locks of all it touches, so two never share.
LEMMA TouchedIsLocked ==
    ASSUME IInv, NEW c \in Calls, pc[c] = "commit"
    PROVE  \A i \in TouchedBy(c) : lock[i] = c /\ i \in present
  BY DEF IInv, LocksHeld, ArgumentsChecked, TouchedBy, InTransaction

\* Every other call is as far as it was, and a call past its commit stays so.
LEMMA CommittedStays ==
    ASSUME IInv, NEW c \in Calls, NEW stage \in Stages, GoTo(c, stage),
           Committed(c) => stage \in {"announce", "ok", "failed"}
    PROVE  /\ \A m \in movements : m.by \in Calls => Committed(m.by)'
           /\ \A t \in transfers : Committed(t.by)'
           /\ \A o \in openings : Committed(o.by)'
<1>1. \A d \in Calls : Committed(d) => Committed(d)'
  BY DEF IInv, TypeOK, GoTo, Committed
<1> QED
  BY <1>1 DEF IInv, RowsAreCommitted, TypeOK, Transfer, Opening

LEMMA SaveItemStep ==
    ASSUME IInv, NEW c \in Calls, SaveItem(c)
    PROVE  IInv'
<1> USE ConstantsAssumption
<1> DEFINE i == call[c].item
<1>1. /\ pc[c] = "save" /\ lock[i] = NoCall /\ GoTo(c, "ok")
      /\ row' = [row EXCEPT ![i] = AddedRow(i, call[c].seen.stock, call[c].meta)]
      /\ UNCHANGED <<present, movements, transfers, openings, unread, alerting, events,
                     lock, call>>
  BY DEF SaveItem
<1>2. /\ i \in Items /\ call[c].seen.stock \in Int /\ call[c].meta \in MetaRow
      /\ i \in present
  BY <1>1 DEF IInv, TypeOK, CallRecord, Row, ArgumentsChecked, InTransaction
<1>3. /\ AddedRow(i, call[c].seen.stock, call[c].meta) \in Row
      /\ AddedRow(i, call[c].seen.stock, call[c].meta).stock = call[c].seen.stock
  BY <1>2, AddedRowType DEF AddedRow
<1> HIDE DEF i
<1>4. /\ \A d \in Calls : d # c => pc'[d] = pc[d]
      /\ pc'[c] = "ok" /\ pc' \in [Calls -> Stages]
      /\ row' \in [Items -> Row] /\ row'[i].stock = call[c].seen.stock
      /\ \A j \in Items : j # i => row'[j] = row[j]
  BY <1>1, <1>2, <1>3 DEF IInv, TypeOK, GoTo, Stages, Finished
<1>5. TypeOK'
  BY <1>1, <1>4 DEF IInv, TypeOK
<1>6. LocksHeld'
  BY <1>1, <1>4 DEF IInv, LocksHeld, IsTransfer
<1>7. ArgumentsChecked'
  BY <1>1, <1>4 DEF IInv, ArgumentsChecked, IsTransfer, InTransaction, Finished
<1>8. ChecksHoldAtCommit'
  <2> SUFFICES ASSUME NEW d \in Calls, pc'[d] = "commit"
               PROVE  /\ MayWrite(d)'
                      /\ \A k \in call'[d].note :
                            k \in TouchedBy(d)' /\ Alerts(k)' < AlertLimit
                      /\ \A e \in call'[d].low :
                            e.by = d /\ e.item \in TouchedBy(d)'
    BY DEF ChecksHoldAtCommit
  <2>1. d # c /\ pc[d] = "commit" /\ call'[d] = call[d]
    BY <1>1, <1>4
  <2>2. OpeningExists(d)' => OpeningExists(d)
    BY <1>1 DEF OpeningExists
  <2>3. \A k \in TouchedBy(d) : row'[k] = row[k]
    BY <1>1, <1>4, <2>1, TouchedIsLocked, TouchedByItems DEF IInv
  <2> QED
    BY <1>1, <2>1, <2>2, <2>3, CommitStable DEF Alerts, IInv
<1>9. LoadedNotNegative'
  BY <1>1, <1>4 DEF IInv, LoadedNotNegative
<1>10. RowsAreCommitted'
  <2>1. /\ \A m \in movements : m.by \in Calls => Committed(m.by)'
        /\ \A t \in transfers : Committed(t.by)'
        /\ \A o \in openings : Committed(o.by)'
    BY <1>1, CommittedStays DEF Stages, Finished
  <2>2. \A d \in Calls : pc'[d] = "announce" =>
          \A e \in call'[d].low :
             \E m \in movements : m.by = e.by /\ m.item = e.item
    BY <1>1, <1>4 DEF IInv, RowsAreCommitted
  <2> QED
    BY <1>1, <2>1, <2>2 DEF IInv, RowsAreCommitted
<1>11. NoNegativeStock'
  BY <1>1, <1>4 DEF IInv, NoNegativeStock, LoadedNotNegative, TypeOK
<1>12. /\ TransfersArePaired' /\ OneOpeningPerMonth' /\ FewUnreadAlerts'
       /\ AnnouncedIsCommitted'
  BY <1>1 DEF Alerts, IInv, TransfersArePaired, OneOpeningPerMonth, FewUnreadAlerts,
              AnnouncedIsCommitted
<1> QED
  BY <1>5, <1>6, <1>7, <1>8, <1>9, <1>10, <1>11, <1>12 DEF IInv

LEMMA AnnounceStep ==
    ASSUME IInv, NEW c \in Calls, Announce(c)
    PROVE  IInv'
<1> USE ConstantsAssumption
<1>1. PICK e \in call[c].low :
        /\ events' = events \cup {e}
        /\ call' = [call EXCEPT ![c].low = @ \ {e}]
        /\ GoTo(c, IF call[c].low = {e} THEN "ok" ELSE "announce")
  BY DEF Announce
<1>2. /\ pc[c] = "announce"
      /\ UNCHANGED <<present, row, movements, transfers, openings, unread, alerting, lock>>
  BY DEF Announce
<1>3. /\ \A d \in Calls : d # c => pc'[d] = pc[d] /\ call'[d] = call[d]
      /\ pc'[c] \in {"ok", "announce"} /\ pc' \in [Calls -> Stages]
      /\ \A d \in Calls : SameArguments(d) /\ call'[d].seen = call[d].seen
      /\ call'[c].low = call[c].low \ {e}
      /\ call' \in [Calls -> CallRecord]
  <2>1. /\ call \in [Calls -> CallRecord] /\ pc \in [Calls -> Stages]
    BY DEF IInv, TypeOK
  <2>2. /\ \A d \in Calls : d # c => pc'[d] = pc[d] /\ call'[d] = call[d]
        /\ pc'[c] \in {"ok", "announce"} /\ pc' \in [Calls -> Stages]
    BY <1>1, <2>1 DEF GoTo, Stages, Finished
  <2> DEFINE r == call[c]
  <2>3. r \in CallRecord /\ (r.low \ {e}) \in SUBSET Alert
    BY <2>1 DEF CallRecord
  <2>4. call'[c] = [r EXCEPT !.low = r.low \ {e}]
    BY <1>1, <2>1
  <2> HIDE DEF r
  <2>5. /\ call'[c].op = r.op /\ call'[c].item = r.item
        /\ call'[c].dest = r.dest /\ call'[c].type = r.type
        /\ call'[c].quantity = r.quantity /\ call'[c].month = r.month
        /\ call'[c].seen = r.seen /\ call'[c].low = r.low \ {e}
    BY <2>3, <2>4 DEF CallRecord
  <2>6. call'[c] \in CallRecord
    BY <2>3, <2>4 DEF CallRecord
  <2>7. call' \in [Calls -> CallRecord]
    BY <1>1, <2>1, <2>2, <2>6
  <2> QED
    BY <2>2, <2>5, <2>7 DEF SameArguments, r
<1>4. e \in Alert
  BY DEF IInv, TypeOK, CallRecord
<1>5. TypeOK'
  BY <1>1, <1>2, <1>3, <1>4 DEF IInv, TypeOK
<1>6. LocksHeld'
  BY <1>2, <1>3, WorkUnchanged DEF IInv, LocksHeld, SameArguments
<1>7. ArgumentsChecked'
  BY <1>2, <1>3 DEF IInv, ArgumentsChecked, IsTransfer, InTransaction
<1>8. ChecksHoldAtCommit'
  <2> SUFFICES ASSUME NEW d \in Calls, pc'[d] = "commit"
               PROVE  /\ MayWrite(d)'
                      /\ \A k \in call'[d].note :
                            k \in TouchedBy(d)' /\ Alerts(k)' < AlertLimit
                      /\ \A a \in call'[d].low :
                            a.by = d /\ a.item \in TouchedBy(d)'
    BY DEF ChecksHoldAtCommit
  <2>1. d # c /\ pc[d] = "commit" /\ call'[d] = call[d]
    BY <1>3
  <2>2. OpeningExists(d)' => OpeningExists(d)
    BY <1>2, <2>1 DEF OpeningExists
  <2> QED
    BY <1>2, <2>1, <2>2, CommitStable DEF Alerts, IInv
<1>9. LoadedNotNegative'
  BY <1>2, <1>3 DEF IInv, LoadedNotNegative
<1>10. RowsAreCommitted'
  <2>1. /\ \A m \in movements : m.by \in Calls => Committed(m.by)'
        /\ \A t \in transfers : Committed(t.by)'
        /\ \A o \in openings : Committed(o.by)'
    <3>1. PICK stage \in {"ok", "announce"} : GoTo(c, stage)
      BY <1>1
    <3> QED
      BY <3>1, CommittedStays DEF Stages, Finished
  <2>2. \A d \in Calls : pc'[d] = "announce" =>
          \A a \in call'[d].low :
             \E m \in movements : m.by = a.by /\ m.item = a.item
    BY <1>2, <1>3 DEF IInv, RowsAreCommitted
  <2> QED
    BY <1>2, <2>1, <2>2 DEF IInv, RowsAreCommitted
<1>11. AnnouncedIsCommitted'
  BY <1>1, <1>2 DEF IInv, RowsAreCommitted, AnnouncedIsCommitted
<1>12. /\ TransfersArePaired' /\ OneOpeningPerMonth' /\ FewUnreadAlerts'
       /\ NoNegativeStock'
  BY <1>2 DEF Alerts, IInv, TransfersArePaired, OneOpeningPerMonth, FewUnreadAlerts,
              NoNegativeStock
<1> QED
  BY <1>5, <1>6, <1>7, <1>8, <1>9, <1>10, <1>11, <1>12 DEF IInv

LEMMA AlertSteps ==
    ASSUME IInv, NEW i \in Items, MarkRead(i) \/ TaskLooks(i) \/ TaskNotifies(i)
    PROVE  IInv'
<1>1. UNCHANGED <<present, row, movements, transfers, openings, events, lock,
                  pc, call>>
  BY DEF MarkRead, TaskLooks, TaskNotifies
<1>2. /\ unread' \in [Items -> Nat] /\ alerting' \subseteq Items
      /\ alerting' # {} => LowStockTask
      /\ \A j \in Items : Alerts(j)' <= Alerts(j) \/ Alerts(j)' < AlertLimit
  <2>1. unread \in [Items -> Nat] /\ alerting \subseteq Items
    BY DEF IInv, TypeOK
  <2>2. alerting # {} => LowStockTask
    BY DEF IInv, FewUnreadAlerts
  <2>3. CASE MarkRead(i)
    BY <2>1, <2>2, <2>3 DEF MarkRead, Alerts
  <2>4. CASE TaskLooks(i)
    BY <2>1, <2>2, <2>4 DEF TaskLooks, Alerts, AlertLimit
  <2>5. CASE TaskNotifies(i)
    BY <2>1, <2>2, <2>5 DEF TaskNotifies, Alerts
  <2> QED
    BY <2>3, <2>4, <2>5
<1>10. \A j \in Items : Alerts(j) \in Nat /\ Alerts(j)' \in Nat
                       /\ AlertLimit \in Nat
  BY <1>2 DEF IInv, TypeOK, Alerts, AlertLimit
<1>3. TypeOK'
  BY <1>1, <1>2 DEF IInv, TypeOK
<1>4. LocksHeld' /\ ArgumentsChecked'
  BY <1>1 DEF IInv, LocksHeld, ArgumentsChecked, IsTransfer
<1>5. ChecksHoldAtCommit'
  <2> SUFFICES ASSUME NEW d \in Calls, pc'[d] = "commit"
               PROVE  /\ MayWrite(d)'
                      /\ \A k \in call'[d].note :
                            k \in TouchedBy(d)' /\ Alerts(k)' < AlertLimit
                      /\ \A a \in call'[d].low :
                            a.by = d /\ a.item \in TouchedBy(d)'
    BY DEF ChecksHoldAtCommit
  <2>1. pc[d] = "commit" /\ call'[d] = call[d]
    BY <1>1
  <2>2. OpeningExists(d)' => OpeningExists(d)
    BY <1>1 DEF OpeningExists
  <2>3. call[d].note \subseteq Items
    BY DEF IInv, TypeOK, CallRecord
  <2> QED
    BY <1>1, <1>2, <1>10, <2>1, <2>2, <2>3, CommitStable DEF IInv
<1>6. LoadedNotNegative' /\ RowsAreCommitted'
  BY <1>1 DEF IInv, LoadedNotNegative, RowsAreCommitted, Committed
<1>7. /\ TransfersArePaired' /\ OneOpeningPerMonth' /\ NoNegativeStock'
      /\ AnnouncedIsCommitted'
  BY <1>1 DEF IInv, TransfersArePaired, OneOpeningPerMonth, NoNegativeStock,
              AnnouncedIsCommitted
<1>8. FewUnreadAlerts'
  BY <1>2, <1>10 DEF IInv, FewUnreadAlerts
<1> QED
  BY <1>3, <1>4, <1>5, <1>6, <1>7, <1>8 DEF IInv

\* The change of each item's stock is the effect of the row that records it.
LEMMA NewMovementsExplain ==
    ASSUME IInv, NEW c \in Calls, pc[c] = "commit"
    PROVE  /\ \A m \in NewMovements(c) :
                /\ m.by = c /\ m.item \in TouchedBy(c)
                /\ Effect(m) = DeltaOf(c, m.item)
                /\ m.transfer \in {NoCall, m.by}
                /\ m.transfer # NoCall <=> m.type \in {"transfer_out", "transfer_in"}
                /\ m.month # NoMonth <=> call[c].op = "opening"
           /\ \A i \in TouchedBy(c) : \E m \in NewMovements(c) : m.item = i
           /\ \A m, n \in NewMovements(c) :
                m.item = n.item \/ m.type = n.type => m = n
           /\ \A i \in Items \ TouchedBy(c) : DeltaOf(c, i) = 0
<1> USE ConstantsAssumption
<1>1. /\ call[c].item \in Items /\ call[c].dest \in Items
      /\ call[c].quantity \in Int
      /\ call[c].op \in {"movement", "transfer", "opening"}
      /\ call[c].op = "opening" => call[c].type = "opening" /\ call[c].month \in Months
      /\ call[c].op # "opening" => call[c].month = NoMonth
      /\ call[c].op = "movement" => call[c].type \in RequestableTypes
      /\ IsTransfer(c) => call[c].item # call[c].dest
  BY DEF IInv, TypeOK, CallRecord, ArgumentsChecked, InTransaction
<1> DEFINE i == call[c].item
           j == call[c].dest
           q == call[c].quantity
           Moved(item, type, transfer) ==
             [by |-> c, item |-> item, type |-> type, quantity |-> q,
              transfer |-> transfer, month |-> call[c].month]
<1>2. CASE IsTransfer(c)
  <2>1. /\ NewMovements(c) = {Moved(i, "transfer_out", c), Moved(j, "transfer_in", c)}
        /\ TouchedBy(c) = {i, j} /\ i # j
        /\ call[c].month = NoMonth /\ call[c].op # "opening"
    BY <1>1, <1>2 DEF NewMovements, NewMovement, TouchedBy, IsTransfer
  <2>2. /\ DeltaOf(c, i) = -q /\ DeltaOf(c, j) = q
        /\ \A k \in Items \ {i, j} : DeltaOf(c, k) = 0
    BY <1>1, <1>2, <2>1 DEF DeltaOf
  <2>3. /\ Effect(Moved(i, "transfer_out", c)) = -q
        /\ Effect(Moved(j, "transfer_in", c)) = q
    BY DEF Effect, MovementDelta, Decreasing
  <2> QED
    BY <1>1, <2>1, <2>2, <2>3
<1>3. CASE ~IsTransfer(c)
  <2> DEFINE type == call[c].type
  <2>1. /\ NewMovements(c) = {Moved(i, type, NoCall)} /\ TouchedBy(c) = {i}
        /\ type \notin {"transfer_out", "transfer_in"}
    BY <1>1, <1>3 DEF NewMovements, NewMovement, TouchedBy, IsTransfer,
       RequestableTypes
  <2>2. /\ DeltaOf(c, i) = MovementDelta(type, q)
        /\ \A k \in Items \ {i} : DeltaOf(c, k) = 0
    BY <1>1, <1>3 DEF DeltaOf
  <2>3. Effect(Moved(i, type, NoCall)) = MovementDelta(type, q)
    BY DEF Effect
  <2> QED
    BY <1>1, <2>1, <2>2, <2>3
<1> QED
  BY <1>2, <1>3

\* No row in the tables is of a call that has not committed.
LEMMA NewRowsAreNew ==
    ASSUME IInv, NEW c \in Calls, ~Committed(c)
    PROVE  /\ \A m \in movements : m.by # c /\ m.transfer # c
           /\ \A t \in transfers : t.by # c
           /\ \A o \in openings : o.by # c
  BY ConstantsAssumption DEF IInv, RowsAreCommitted, TypeOK, Movement

\* What a commit does to the tables.
LEMMA CommitEffect ==
    ASSUME IInv, NEW c \in Calls, Commit(c)
    PROVE  /\ pc[c] = "commit" /\ pc'[c] \in {"ok", "announce"}
           /\ pc' \in [Calls -> Stages]
           /\ \A d \in Calls : d # c => pc'[d] = pc[d]
           /\ row' \in [Items -> Row]
           /\ \A i \in Items : row'[i].stock = row[i].stock + DeltaOf(c, i)
           /\ \A i \in Items \ TouchedBy(c) : row'[i] = row[i]
           /\ movements' = movements \cup NewMovements(c)
           /\ transfers' = transfers \cup NewTransfers(c)
           /\ openings' = openings \cup NewOpenings(c)
           /\ UNCHANGED <<present, events, call>>
           /\ \A i \in Items : \A d \in Calls \ {c} : lock[i] = d => lock'[i] = d
<1> USE ConstantsAssumption
<1>1. /\ pc[c] = "commit"
      /\ row' = [i \in Items |-> [row[i] EXCEPT !.stock = @ + DeltaOf(c, i)]]
      /\ movements' = movements \cup NewMovements(c)
      /\ transfers' = transfers \cup NewTransfers(c)
      /\ openings' = openings \cup NewOpenings(c)
      /\ lock' = Released(c)
      /\ GoTo(c, IF call[c].low = {} THEN "ok" ELSE "announce")
      /\ UNCHANGED <<present, events, call>>
  BY DEF Commit
<1>2. /\ pc'[c] \in {"ok", "announce"} /\ pc' \in [Calls -> Stages]
      /\ \A d \in Calls : d # c => pc'[d] = pc[d]
  BY <1>1 DEF IInv, TypeOK, GoTo, Stages, Finished
<1>3. ASSUME NEW i \in Items
      PROVE  /\ row'[i] \in Row
             /\ row'[i].stock = row[i].stock + DeltaOf(c, i)
             /\ i \notin TouchedBy(c) => row'[i] = row[i]
  <2> DEFINE r == row[i]
             delta == DeltaOf(c, i)
  <2>1. r \in Row /\ delta \in Int /\ row'[i] = [r EXCEPT !.stock = @ + delta]
    BY <1>1, DeltaType DEF IInv, TypeOK
  <2>2. i \notin TouchedBy(c) => delta = 0
    BY <1>1, NewMovementsExplain
  <2> HIDE DEF r, delta
  <2>3. row'[i] \in Row /\ row'[i].stock = r.stock + delta
    BY <2>1 DEF Row
  <2>4. delta = 0 => row'[i] = r
    BY <2>1 DEF Row
  <2> QED
    BY <2>2, <2>3, <2>4 DEF r, delta
<1>4. row' \in [Items -> Row]
  BY <1>1, <1>3
<1>5. \A i \in Items : \A d \in Calls \ {c} : lock[i] = d => lock'[i] = d
  BY <1>1, ReleasedLocks DEF IInv
<1> QED
  BY <1>1, <1>2, <1>3, <1>4, <1>5

LEMMA CommitPairsTransfers ==
    ASSUME IInv, NEW c \in Calls, Commit(c)
    PROVE  TransfersArePaired'
<1> USE ConstantsAssumption
<1>1. /\ pc[c] = "commit"
      /\ movements' = movements \cup NewMovements(c)
      /\ transfers' = transfers \cup NewTransfers(c)
  BY CommitEffect
<1>2. TransfersArePaired
  BY DEF IInv
<1>3. ~Committed(c)
  BY <1>1 DEF Committed
<1>4. CASE ~IsTransfer(c)
  <2>1. /\ transfers' = transfers
        /\ \A m \in NewMovements(c) : /\ m.transfer = NoCall
                                      /\ m.type \notin {"transfer_out", "transfer_in"}
    BY <1>1, <1>4, NewMovementsExplain DEF NewTransfers, NewMovements, NewMovement
  <2> QED
    BY <1>1, <1>2, <2>1 DEF TransfersArePaired
<1>5. CASE IsTransfer(c)
  <2> DEFINE i == call[c].item
             j == call[c].dest
             q == call[c].quantity
             t == [by |-> c, source |-> i, dest |-> j, quantity |-> q]
             out == NewMovement(c, i, "transfer_out")
             in == NewMovement(c, j, "transfer_in")
  <2>1. /\ transfers' = transfers \cup {t}
        /\ movements' = movements \cup {out, in}
        /\ StoreOf[i] # StoreOf[j]
    BY <1>1, <1>5 DEF NewTransfers, NewMovements, IInv, ArgumentsChecked,
       InTransaction
  <2>2. /\ out.transfer = c /\ out.type = "transfer_out" /\ out.quantity = q
        /\ out.item = i
        /\ in.transfer = c /\ in.type = "transfer_in" /\ in.quantity = q
        /\ in.item = j
    BY <1>5 DEF NewMovement
  <2>3. t.by = c /\ t.source = i /\ t.dest = j /\ t.quantity = q
    OBVIOUS
  <2>4. \A m \in movements : m.transfer # c
    BY <1>3, NewRowsAreNew
  <2>5. c # NoCall
    OBVIOUS
  <2> HIDE DEF i, j, q, t, out, in
  <2>6. \A u \in transfers' :
          /\ StoreOf[u.source] # StoreOf[u.dest]
          /\ \A type \in {"transfer_out", "transfer_in"} :
               \E m \in movements' :
                  /\ m.transfer = u.by /\ m.type = type
                  /\ m.quantity = u.quantity
                  /\ m.item = IF type = "transfer_out" THEN u.source ELSE u.dest
    <3> SUFFICES ASSUME NEW u \in transfers'
                 PROVE  /\ StoreOf[u.source] # StoreOf[u.dest]
                        /\ \A type \in {"transfer_out", "transfer_in"} :
                             \E m \in movements' :
                                /\ m.transfer = u.by /\ m.type = type
                                /\ m.quantity = u.quantity
                                /\ m.item = IF type = "transfer_out"
                                            THEN u.source ELSE u.dest
      OBVIOUS
    <3>1. CASE u \in transfers
      BY <1>2, <2>1, <3>1 DEF TransfersArePaired
    <3>2. CASE u = t
      BY <2>1, <2>2, <2>3, <3>2
    <3> QED
      BY <2>1, <3>1, <3>2
  <2>7. \A m \in movements' :
          m.type \in {"transfer_out", "transfer_in"} =>
             \E u \in transfers' :
                /\ u.by = m.transfer /\ u.quantity = m.quantity
                /\ m.item = IF m.type = "transfer_out" THEN u.source ELSE u.dest
    BY <1>2, <2>1, <2>2, <2>3 DEF TransfersArePaired
  <2>8. \A m, n \in movements' :
          m.transfer # NoCall /\ m.transfer = n.transfer /\ m.type = n.type
             => m = n
    BY <1>2, <2>1, <2>2, <2>4, <2>5 DEF TransfersArePaired
  <2> QED
    BY <2>6, <2>7, <2>8 DEF TransfersArePaired
<1> QED
  BY <1>4, <1>5

LEMMA CommitOpensOnce ==
    ASSUME IInv, NEW c \in Calls, Commit(c)
    PROVE  OneOpeningPerMonth'
<1> USE ConstantsAssumption
<1>1. /\ pc[c] = "commit"
      /\ movements' = movements \cup NewMovements(c)
      /\ openings' = openings \cup NewOpenings(c)
  BY CommitEffect
<1>2. OneOpeningPerMonth
  BY DEF IInv
<1>3. CASE call[c].op # "opening"
  <2>1. openings' = openings /\ \A m \in NewMovements(c) : m.month = NoMonth
    BY <1>1, <1>3, NewMovementsExplain DEF NewOpenings
  <2> QED
    BY <1>1, <1>2, <2>1 DEF OneOpeningPerMonth
<1>4. CASE call[c].op = "opening"
  <2> DEFINE o == [by |-> c, item |-> call[c].item, month |-> call[c].month,
                   quantity |-> call[c].quantity]
             new == NewMovement(c, call[c].item, call[c].type)
  <2>1. /\ openings' = openings \cup {o}
        /\ movements' = movements \cup {new}
        /\ ~OpeningExists(c)
    BY <1>1, <1>4 DEF NewOpenings, NewMovements, IsTransfer, IInv,
       ChecksHoldAtCommit, MayWrite
  <2>2. /\ new.by = o.by /\ new.item = o.item /\ new.month = o.month
        /\ new.quantity = o.quantity
    BY DEF NewMovement
  <2>3. \A p \in openings : ~(p.item = o.item /\ p.month = o.month)
    BY <2>1 DEF OpeningExists
  <2> HIDE DEF o, new
  <2> QED
    BY <1>2, <2>1, <2>2, <2>3 DEF OneOpeningPerMonth
<1> QED
  BY <1>3, <1>4

LEMMA CommitStep ==
    ASSUME IInv, NEW c \in Calls, Commit(c)
    PROVE  IInv'
<1> USE ConstantsAssumption
<1>1. /\ pc[c] = "commit" /\ pc'[c] \in {"ok", "announce"}
      /\ pc' \in [Calls -> Stages]
      /\ \A d \in Calls : d # c => pc'[d] = pc[d]
      /\ row' \in [Items -> Row]
      /\ \A i \in Items : row'[i].stock = row[i].stock + DeltaOf(c, i)
      /\ \A i \in Items \ TouchedBy(c) : row'[i] = row[i]
      /\ movements' = movements \cup NewMovements(c)
      /\ transfers' = transfers \cup NewTransfers(c)
      /\ openings' = openings \cup NewOpenings(c)
      /\ UNCHANGED <<present, events, call>>
      /\ \A i \in Items : \A d \in Calls \ {c} : lock[i] = d => lock'[i] = d
  BY CommitEffect
<1>2. /\ unread' = [i \in Items |-> IF i \in call[c].note THEN unread[i] + 1
                                    ELSE unread[i]]
      /\ lock' = Released(c) /\ UNCHANGED alerting
  BY DEF Commit
<1>3. /\ MayWrite(c) /\ call[c].note \subseteq TouchedBy(c)
      /\ \A i \in call[c].note : Alerts(i) < AlertLimit
      /\ \A e \in call[c].low : e.by = c /\ e.item \in TouchedBy(c)
  BY <1>1 DEF IInv, ChecksHoldAtCommit
<1>4. TypeOK'
  <2>1. movements' \subseteq Movement /\ transfers' \subseteq Transfer
    BY <1>1, NewRowsType DEF IInv, TypeOK
  <2>2. openings' \subseteq Opening
    <3>1. call[c].op = "opening" => call[c].month # NoMonth
      BY <1>1 DEF IInv, ArgumentsChecked, InTransaction
    <3>2. NewOpenings(c) \subseteq Opening
      BY <3>1, NewRowsType DEF IInv, NewOpenings
    <3> QED
      BY <1>1, <3>2 DEF IInv, TypeOK
  <2>3. unread' \in [Items -> Nat]
    BY <1>2 DEF IInv, TypeOK
  <2>4. lock' \in [Items -> Calls \cup {NoCall}]
    BY <1>2, ReleasedLocks DEF IInv
  <2> QED
    BY <1>1, <1>2, <2>1, <2>2, <2>3, <2>4 DEF IInv, TypeOK
<1>5. LocksHeld'
  <2>1. \A d \in Calls : call[d].item \in Items /\ call[d].dest \in Items
    BY DEF IInv, TypeOK, CallRecord
  <2> QED
    BY <1>1, <2>1, WorkUnchanged DEF IInv, LocksHeld, IsTransfer
<1>6. ArgumentsChecked'
  BY <1>1 DEF IInv, ArgumentsChecked, IsTransfer, InTransaction
<1>7. ChecksHoldAtCommit'
  <2> SUFFICES ASSUME NEW d \in Calls, pc'[d] = "commit"
               PROVE  /\ MayWrite(d)'
                      /\ \A i \in call'[d].note :
                            i \in TouchedBy(d)' /\ Alerts(i)' < AlertLimit
                      /\ \A e \in call'[d].low :
                            e.by = d /\ e.item \in TouchedBy(d)'
    BY DEF ChecksHoldAtCommit
  <2>1. d # c /\ pc[d] = "commit" /\ call'[d] = call[d]
    BY <1>1
  <2>2. \A i \in TouchedBy(d) : i \notin TouchedBy(c) /\ i \in Items
    BY <1>1, <2>1, TouchedIsLocked, TouchedByItems DEF IInv
  <2>3. \A i \in TouchedBy(d) : row'[i] = row[i]
    BY <1>1, <2>2
  <2>4. \A i \in call[d].note : Alerts(i) < AlertLimit => Alerts(i)' < AlertLimit
    BY <1>2, <1>3, <2>1, <2>2 DEF Alerts, IInv, ChecksHoldAtCommit
  <2>5. OpeningExists(d)' => OpeningExists(d)
    <3>1. \A o \in NewOpenings(c) : o.item = call[c].item
      BY DEF NewOpenings
    <3>2. call[c].item # call[d].item
      BY <2>2 DEF TouchedBy
    <3> QED
      BY <1>1, <2>1, <3>1, <3>2 DEF OpeningExists
  <2> QED
    BY <2>1, <2>3, <2>4, <2>5, CommitStable DEF IInv
<1>8. LoadedNotNegative'
  BY <1>1 DEF IInv, LoadedNotNegative
<1>9. RowsAreCommitted'
  <2>1. /\ \A m \in movements : m.by \in Calls => Committed(m.by)'
        /\ \A t \in transfers : Committed(t.by)'
        /\ \A o \in openings : Committed(o.by)'
    <3>1. \A d \in Calls : Committed(d) => Committed(d)'
      BY <1>1 DEF Committed
    <3> QED
      BY <3>1 DEF IInv, RowsAreCommitted, TypeOK, Transfer, Opening
  <2>2. Committed(c)'
    BY <1>1 DEF Committed
  <2>3. /\ \A t \in NewTransfers(c) : t.by = c
        /\ \A o \in NewOpenings(c) : o.by = c
    BY DEF NewTransfers, NewOpenings
  <2>4. \A m \in movements' :
          /\ m.by \in Calls => Committed(m.by)'
          /\ m.transfer \in {NoCall, m.by}
          /\ m.transfer # NoCall <=> m.type \in {"transfer_out", "transfer_in"}
    BY <1>1, <2>1, <2>2, NewMovementsExplain DEF IInv, RowsAreCommitted
  <2>5. (\A t \in transfers' : Committed(t.by)') /\ (\A o \in openings' : Committed(o.by)')
    BY <1>1, <2>1, <2>2, <2>3
  <2>6. ASSUME NEW d \in Calls, pc'[d] = "announce", NEW e \in call'[d].low
        PROVE  \E m \in movements' : m.by = e.by /\ m.item = e.item
    <3>1. CASE d = c
      BY <1>1, <1>3, <2>6, <3>1, NewMovementsExplain
    <3>2. CASE d # c
      BY <1>1, <2>6, <3>2 DEF IInv, RowsAreCommitted
    <3> QED
      BY <3>1, <3>2
  <2> QED
    BY <2>4, <2>5, <2>6 DEF RowsAreCommitted
<1>10. NoNegativeStock'
  <2> SUFFICES ASSUME ~AllowNegativeStock, NEW i \in present
               PROVE  row'[i].stock >= 0
    BY <1>1 DEF NoNegativeStock
  <2>1. i \in Items /\ row[i].stock \in Int /\ row[i].stock >= 0
    BY DEF IInv, TypeOK, Row, NoNegativeStock
  <2>2. CASE i \in TouchedBy(c)
    BY <1>1, <1>3, <2>1, <2>2 DEF MayWrite, Sufficient
  <2>3. CASE i \notin TouchedBy(c)
    BY <1>1, <2>1, <2>3
  <2> QED
    BY <2>2, <2>3
<1>11. FewUnreadAlerts'
  <2>1. unread \in [Items -> Nat] /\ AlertLimit \in Nat
    BY DEF IInv, TypeOK, AlertLimit
  <2>2. ASSUME NEW i \in Items PROVE Alerts(i)' <= AlertLimit
    <3>1. CASE i \in call[c].note
      BY <1>2, <1>3, <2>1, <3>1 DEF Alerts
    <3>2. CASE i \notin call[c].note
      BY <1>2, <3>2 DEF Alerts, IInv, FewUnreadAlerts
    <3> QED
      BY <3>1, <3>2
  <2> QED
    BY <1>2, <2>2 DEF IInv, FewUnreadAlerts
<1>12. AnnouncedIsCommitted'
  BY <1>1 DEF IInv, AnnouncedIsCommitted
<1> QED
  BY <1>4, <1>5, <1>6, <1>7, <1>8, <1>9, <1>10, <1>11, <1>12,
     CommitPairsTransfers, CommitOpensOnce DEF IInv

LEMMA AddItemStep ==
    ASSUME IInv, NEW c \in Calls, AddItem(c)
    PROVE  IInv'
<1> USE ConstantsAssumption
<1> DEFINE Rec(i, q) ==
             [op |-> "add", item |-> i, dest |-> i, type |-> "opening",
              quantity |-> q, month |-> NoMonth, seen |-> row[i],
              meta |-> InitialMeta[i], low |-> {}, note |-> {}]
<1>1. PICK i \in Items, q \in Quantities :
         /\ call' = [call EXCEPT ![c] = Rec(i, q)]
         /\ IF q >= 0 /\ i \notin present
            THEN /\ present' = present \cup {i}
                 /\ row' = [row EXCEPT ![i] = AddedRow(i, q, InitialMeta[i])]
                 /\ movements' = movements \cup OpeningMovements(c, i, q)
                 /\ GoTo(c, "ok")
            ELSE /\ GoTo(c, "rejected")
                 /\ UNCHANGED <<present, row, movements>>
  BY DEF AddItem, Arguments
<1>2. /\ pc[c] = "idle" /\ ~Committed(c)
      /\ UNCHANGED <<transfers, openings, unread, alerting, events, lock>>
  BY DEF AddItem, Starts, Committed
<1>3. Rec(i, q) \in CallRecord
  <2>1. /\ "add" \in AllOperations \cup {"none"} /\ "opening" \in AllTypes
        /\ row[i] \in Row /\ InitialMeta[i] \in MetaRow
    BY DEF AllOperations, AllTypes, Increasing, IInv, TypeOK
  <2> QED
    BY <2>1 DEF CallRecord
<1> HIDE DEF Rec
<1>4. /\ \A d \in Calls : d # c => pc'[d] = pc[d] /\ call'[d] = call[d]
      /\ pc'[c] \in {"ok", "rejected"} /\ pc' \in [Calls -> Stages]
      /\ call' \in [Calls -> CallRecord]
  BY <1>1, <1>3 DEF IInv, TypeOK, GoTo, Stages, Finished
<1>5. /\ present \subseteq present' /\ present' \subseteq Items
      /\ row' \in [Items -> Row]
      /\ \A j \in present : row'[j] = row[j]
      /\ \A j \in present' \ present : row'[j].stock >= 0
  <2>1. /\ q \in Int
        /\ AddedRow(i, q, InitialMeta[i]) \in Row
        /\ AddedRow(i, q, InitialMeta[i]).stock = q
    BY AddedRowType DEF AddedRow
  <2>2. row \in [Items -> Row] /\ present \subseteq Items
    BY DEF IInv, TypeOK
  <2> QED
    BY <1>1, <2>1, <2>2
<1>6. PICK new \in SUBSET Movement :
         /\ movements' = movements \cup new
         /\ \A m \in new : /\ m.by = c /\ m.type = "opening"
                           /\ m.transfer = NoCall /\ m.month = NoMonth
                           /\ pc'[c] = "ok"
  <2>1. CASE q >= 0 /\ i \notin present
    <3>1. OpeningMovements(c, i, q) \in SUBSET Movement
      BY DEF OpeningMovements, Movement, AllTypes, Increasing
    <3>2. pc'[c] = "ok"
      BY <1>1, <2>1 DEF GoTo, IInv, TypeOK
    <3>3. \A m \in OpeningMovements(c, i, q) :
             /\ m.by = c /\ m.type = "opening"
             /\ m.transfer = NoCall /\ m.month = NoMonth
      BY DEF OpeningMovements
    <3>4. movements' = movements \cup OpeningMovements(c, i, q)
      BY <1>1, <2>1
    <3> QED
      BY <3>1, <3>2, <3>3, <3>4
  <2>2. CASE ~(q >= 0 /\ i \notin present)
    <3>1. movements' = movements \cup {} /\ {} \in SUBSET Movement
      BY <1>1, <2>2
    <3> QED
      BY <3>1
  <2> QED
    BY <2>1, <2>2
<1>7. TypeOK'
  BY <1>2, <1>4, <1>5, <1>6 DEF IInv, TypeOK
<1>8. LocksHeld'
  BY <1>2, <1>4 DEF IInv, LocksHeld, IsTransfer
<1>9. ArgumentsChecked'
  BY <1>4, <1>5 DEF IInv, ArgumentsChecked, IsTransfer, InTransaction
<1>10. ChecksHoldAtCommit'
  <2> SUFFICES ASSUME NEW d \in Calls, pc'[d] = "commit"
               PROVE  /\ MayWrite(d)'
                      /\ \A k \in call'[d].note :
                            k \in TouchedBy(d)' /\ Alerts(k)' < AlertLimit
                      /\ \A e \in call'[d].low :
                            e.by = d /\ e.item \in TouchedBy(d)'
    BY DEF ChecksHoldAtCommit
  <2>1. pc[d] = "commit" /\ call'[d] = call[d]
    BY <1>4
  <2>2. OpeningExists(d)' => OpeningExists(d)
    BY <1>2, <2>1 DEF OpeningExists
  <2>3. \A k \in TouchedBy(d) : row'[k] = row[k]
    BY <1>5, <2>1, TouchedIsLocked
  <2> QED
    BY <1>2, <2>1, <2>2, <2>3, CommitStable DEF Alerts, IInv
<1>11. LoadedNotNegative'
  BY <1>4 DEF IInv, LoadedNotNegative
<1>12. RowsAreCommitted'
  <2>1. /\ \A m \in movements : m.by \in Calls => Committed(m.by)'
        /\ \A t \in transfers : Committed(t.by)'
        /\ \A o \in openings : Committed(o.by)'
    <3>1. \A d \in Calls : Committed(d) => Committed(d)'
      BY <1>2, <1>4 DEF Committed
    <3> QED
      BY <3>1 DEF IInv, RowsAreCommitted, TypeOK, Transfer, Opening
  <2>2. \A m \in movements' :
          /\ m.by \in Calls => Committed(m.by)'
          /\ m.transfer \in {NoCall, m.by}
          /\ m.transfer # NoCall <=> m.type \in {"transfer_out", "transfer_in"}
    BY <1>6, <2>1 DEF IInv, RowsAreCommitted, Committed
  <2>3. \A d \in Calls : pc'[d] = "announce" =>
          \A e \in call'[d].low :
             \E m \in movements : m.by = e.by /\ m.item = e.item
    BY <1>4 DEF IInv, RowsAreCommitted
  <2> QED
    BY <1>2, <1>6, <2>1, <2>2, <2>3 DEF RowsAreCommitted
<1>13. NoNegativeStock'
  BY <1>5 DEF IInv, NoNegativeStock
<1>14. TransfersArePaired'
  BY <1>2, <1>6 DEF IInv, TransfersArePaired
<1>15. OneOpeningPerMonth' /\ FewUnreadAlerts' /\ AnnouncedIsCommitted'
  BY <1>2, <1>6 DEF Alerts, IInv, OneOpeningPerMonth, FewUnreadAlerts, AnnouncedIsCommitted
<1> QED
  BY <1>7, <1>8, <1>9, <1>10, <1>11, <1>12, <1>13, <1>14, <1>15 DEF IInv

------------------------------------------------------------------------------
(* The theorems. *)

LEMMA InitInvariant == Init => IInv
<1> SUFFICES ASSUME Init PROVE IInv
  OBVIOUS
<1> USE ConstantsAssumption
<1>1. TypeOK
  BY InitType
<1>2. /\ \A c \in Calls : pc[c] = "idle"
      /\ transfers = {} /\ openings = {} /\ events = {}
      /\ \A i \in Items : unread[i] = 0 /\ row[i].stock = InitialStock[i]
      /\ present = InitialItems /\ alerting = {}
  BY DEF Init, AddedRow
<1>3. \A m \in movements : /\ m.by \in Items /\ m.type = "opening"
                           /\ m.transfer = NoCall /\ m.month = NoMonth
  BY DEF Init, OpeningMovements
<1>4. /\ LocksHeld /\ ArgumentsChecked /\ ChecksHoldAtCommit
      /\ LoadedNotNegative
  BY <1>2 DEF LocksHeld, ArgumentsChecked, ChecksHoldAtCommit,
              LoadedNotNegative, InTransaction
<1>5. RowsAreCommitted
  BY <1>2, <1>3 DEF RowsAreCommitted
<1>6. NoNegativeStock
  BY <1>2 DEF NoNegativeStock
<1>7. TransfersArePaired /\ OneOpeningPerMonth
  BY <1>2, <1>3 DEF TransfersArePaired, OneOpeningPerMonth
<1>8. FewUnreadAlerts /\ AnnouncedIsCommitted
  BY <1>2 DEF Alerts, AlertLimit, FewUnreadAlerts, AnnouncedIsCommitted
<1> QED
  BY <1>1, <1>4, <1>5, <1>6, <1>7, <1>8 DEF IInv

LEMMA NextInvariant == IInv /\ [Next]_vars => IInv'
<1> SUFFICES ASSUME IInv, [Next]_vars PROVE IInv'
  OBVIOUS
<1>1. ASSUME NEW c \in Calls, Begin(c) PROVE IInv'
  BY <1>1, BeginSteps, AddItemStep DEF Begin
<1>2. ASSUME NEW c \in Calls, Step(c) PROVE IInv'
  BY <1>2, LockSteps, WriteStep, RollBackSteps, CommitStep, SaveItemStep,
     AnnounceStep DEF Step
<1>3. ASSUME NEW c \in Calls, Crash(c) PROVE IInv'
  BY <1>3, RollBackSteps
<1>4. ASSUME NEW i \in Items, MarkRead(i) \/ TaskLooks(i) \/ TaskNotifies(i)
      PROVE  IInv'
  BY <1>4, AlertSteps
<1>5. ASSUME UNCHANGED vars PROVE IInv'
  <2>1. UNCHANGED <<ledgerVars, lock, pc, call>>
    BY <1>5 DEF vars, ledgerVars
  <2>2. TypeOK' /\ LocksHeld' /\ ArgumentsChecked'
    BY <1>5 DEF vars, IInv, TypeOK, LocksHeld, ArgumentsChecked, IsTransfer
  <2>3. ChecksHoldAtCommit'
    <3> SUFFICES ASSUME NEW d \in Calls, pc'[d] = "commit"
                 PROVE  /\ MayWrite(d)'
                        /\ \A k \in call'[d].note :
                              k \in TouchedBy(d)' /\ Alerts(k)' < AlertLimit
                        /\ \A e \in call'[d].low :
                              e.by = d /\ e.item \in TouchedBy(d)'
      BY DEF ChecksHoldAtCommit
    <3>1. OpeningExists(d)' => OpeningExists(d)
      BY <1>5 DEF OpeningExists, vars
    <3> QED
      BY <1>5, <3>1, CommitStable DEF Alerts, IInv, vars
  <2>4. LoadedNotNegative' /\ RowsAreCommitted'
    BY <1>5 DEF vars, IInv, LoadedNotNegative, RowsAreCommitted, Committed
  <2> QED
    BY <2>1, <2>2, <2>3, <2>4, RowPropertiesUnchanged DEF IInv
<1> QED
  BY <1>1, <1>2, <1>3, <1>4, <1>5 DEF Next, AllFinished

\* Every conjunct of the inductive invariant holds in every reachable state.
THEOREM Invariant == Spec => []IInv
  BY InitInvariant, NextInvariant, PTL DEF Spec

\* Every variable keeps its type.
THEOREM TypeCorrect == Spec => []TypeOK
  BY Invariant, PTL DEF IInv

\* No interleaving of movements, transfers, openings, edits, crashes and
\* aborts makes the stock of an item negative (ALLOW_NEGATIVE_STOCK off).
THEOREM StockNeverNegative == Spec => []NoNegativeStock
  BY Invariant, PTL DEF IInv

\* Transfers are recorded with both legs or not at all.
THEOREM TransfersPaired == Spec => []TransfersArePaired
  BY Invariant, PTL DEF IInv

\* A month is opened once for an item, with one movement.
THEOREM MonthOpenedOnce == Spec => []OneOpeningPerMonth
  BY Invariant, PTL DEF IInv

\* All that is claimed of the stock, the months and the types of the ledger.
THEOREM LedgerKept == Spec => []LedgerOK
<1>1. IInv => LedgerOK
  BY DEF IInv, LedgerOK
<1> QED
  BY <1>1, Invariant, PTL

\* The item lock is what makes notify()'s look-then-insert sound, and nothing
\* is announced that was not committed.
THEOREM AlertsKept == Spec => []AlertsOK
<1>1. IInv => AlertsOK
  BY DEF IInv, AlertsOK
<1> QED
  BY <1>1, Invariant, PTL

------------------------------------------------------------------------------
(* What explains the stock of an item.                                      *)

\* The steps that leave rows, movements, openings and the set of items alone.
LEMMA LedgerSteps ==
    ASSUME [Next]_vars
    PROVE  \/ UNCHANGED <<present, row, movements, openings>>
           \/ \E c \in Calls : AddItem(c) \/ Commit(c) \/ SaveItem(c)
<1>1. ASSUME NEW c \in Calls, Begin(c) \/ Step(c) \/ Crash(c),
             ~AddItem(c), ~Commit(c), ~SaveItem(c)
      PROVE  UNCHANGED <<present, row, movements, openings>>
  BY <1>1 DEF Begin, Step, Crash, BeginMovement, BeginTransfer,
     BeginOpening, BeginUpdate, CheckOpening, LockSource, LockDestination,
     Write, Refuse, Announce, AbortVictim, RollBack, ledgerVars
<1>2. ASSUME NEW i \in Items, MarkRead(i) \/ TaskLooks(i) \/ TaskNotifies(i)
      PROVE  UNCHANGED <<present, row, movements, openings>>
  BY <1>2 DEF MarkRead, TaskLooks, TaskNotifies
<1> QED
  BY <1>1, <1>2 DEF Next, AllFinished, vars

\* A step changes an item's stock with the one movement that says by how much,
\* or it is an edit.
LEMMA StepIsAccounted ==
    ASSUME IInv, [Next]_vars
    PROVE  \A i \in present : StockIsExplained(i) \/ IsWrittenBack(i)
<1>0. row \in [Items -> Row] /\ present \subseteq Items
  BY DEF IInv, TypeOK
<1>1. CASE UNCHANGED <<present, row, movements, openings>>
  BY <1>1 DEF NewRowsOf, StockIsExplained
<1>2. ASSUME NEW c \in Calls, Commit(c) PROVE \A i \in present : StockIsExplained(i)
  <2>1. /\ pc[c] = "commit" /\ movements' = movements \cup NewMovements(c)
        /\ \A i \in Items : row'[i].stock = row[i].stock + DeltaOf(c, i)
        /\ \A i \in Items \ TouchedBy(c) : row'[i] = row[i]
    BY <1>2, CommitEffect
  <2>2. \A m \in movements : m.by # c
    BY <2>1, NewRowsAreNew DEF Committed
  <2>3. /\ \A m \in NewMovements(c) : m.by = c /\ m.item \in TouchedBy(c)
                                      /\ Effect(m) = DeltaOf(c, m.item)
        /\ \A i \in TouchedBy(c) : \E m \in NewMovements(c) : m.item = i
        /\ \A m, n \in NewMovements(c) : m.item = n.item => m = n
    BY <2>1, NewMovementsExplain
  <2> SUFFICES ASSUME NEW i \in present PROVE StockIsExplained(i)
    OBVIOUS
  <2>4. NewRowsOf(i) = {m \in NewMovements(c) : m.item = i}
    BY <2>1, <2>2, <2>3 DEF NewRowsOf
  <2>5. CASE i \in TouchedBy(c)
    <3>1. PICK m \in NewMovements(c) : m.item = i
      BY <2>3, <2>5
    <3>2. NewRowsOf(i) = {m}
      BY <2>3, <2>4, <3>1
    <3>3. row'[i].stock = row[i].stock + Effect(m)
      BY <1>0, <2>1, <2>3, <3>1
    <3> QED
      BY <3>2, <3>3 DEF StockIsExplained
  <2>6. CASE i \notin TouchedBy(c)
    BY <1>0, <2>1, <2>3, <2>4, <2>6 DEF StockIsExplained
  <2> QED
    BY <2>5, <2>6
<1>3. ASSUME NEW c \in Calls, AddItem(c) PROVE \A i \in present : StockIsExplained(i)
  <2>1. PICK j \in Items, q \in Quantities :
          IF q >= 0 /\ j \notin present
          THEN /\ row' = [row EXCEPT ![j] = AddedRow(j, q, InitialMeta[j])]
               /\ movements' = movements \cup OpeningMovements(c, j, q)
          ELSE UNCHANGED <<row, movements>>
    BY <1>3 DEF AddItem
  <2>2. CASE q >= 0 /\ j \notin present
    <3>1. \A m \in OpeningMovements(c, j, q) : m.item = j
      BY DEF OpeningMovements
    <3>2. \A i \in present : i # j /\ row'[i] = row[i]
      BY <1>0, <2>1, <2>2
    <3> QED
      BY <2>1, <2>2, <3>1, <3>2 DEF NewRowsOf, StockIsExplained
  <2>3. CASE ~(q >= 0 /\ j \notin present)
    BY <2>1, <2>3 DEF NewRowsOf, StockIsExplained
  <2> QED
    BY <2>2, <2>3
<1>4. ASSUME NEW c \in Calls, SaveItem(c)
      PROVE  \A i \in present : StockIsExplained(i) \/ IsWrittenBack(i)
  <2> DEFINE j == call[c].item
  <2>1. /\ pc[c] = "save" /\ pc'[c] = "ok" /\ UNCHANGED movements
        /\ row' = [row EXCEPT ![j] = AddedRow(j, call[c].seen.stock, call[c].meta)]
    BY <1>4 DEF SaveItem, GoTo, IInv, TypeOK
  <2>2. j \in Items /\ call[c].op = "update"
    BY <2>1 DEF IInv, TypeOK, CallRecord, ArgumentsChecked, InTransaction
  <2>3. /\ row'[j].stock = call[c].seen.stock
        /\ \A i \in Items \ {j} : row'[i] = row[i]
    BY <1>0, <2>1, <2>2 DEF AddedRow
  <2> QED
    BY <1>0, <2>1, <2>2, <2>3 DEF NewRowsOf, StockIsExplained, IsWrittenBack
<1> QED
  BY <1>1, <1>2, <1>3, <1>4, LedgerSteps

\* Every change of an item's stock is recorded by exactly one movement row that
\* says by how much it changed, but for edits, which write back the stock they
\* loaded: no interleaving of the other calls loses an update.
THEOREM LedgerMissesEdits == Spec => OnlyEditsAreUnexplained
<1>1. IInv /\ [Next]_vars =>
          [\A i \in present : StockIsExplained(i) \/ IsWrittenBack(i)]_vars
  BY StepIsAccounted
<1> QED
  BY <1>1, Invariant, PTL DEF Spec, OnlyEditsAreUnexplained

------------------------------------------------------------------------------
(* Where no call edits an item's metadata.                                 *)

LEMMA NoEdits ==
    ASSUME IInv, "update" \notin Operations, NEW c \in Calls
    PROVE  pc[c] # "save"
BY DEF IInv, ArgumentsChecked, InTransaction

LEMMA QuietSteps ==
    ASSUME IInv, "update" \notin Operations, [Next]_vars
    PROVE  \/ UNCHANGED <<present, row, movements, openings>>
           \/ \E c \in Calls : AddItem(c) \/ Commit(c)
BY LedgerSteps, NoEdits DEF SaveItem

\* A step changes an item's stock with the one movement that says by how much.
LEMMA StepIsExplained ==
    ASSUME IInv, "update" \notin Operations, [Next]_vars
    PROVE  \A i \in present : StockIsExplained(i)
BY StepIsAccounted, NoEdits DEF IsWrittenBack

\* Every change of an item's stock is recorded by exactly one movement row
\* that says by how much it changed.
THEOREM LedgerExplainsStock ==
    ASSUME "update" \notin Operations
    PROVE  Spec => StockMovesWithLedger
<1>1. IInv /\ [Next]_vars => [\A i \in present : StockIsExplained(i)]_vars
  BY StepIsExplained
<1> QED
  BY <1>1, Invariant, PTL DEF Spec, StockMovesWithLedger

\* A function that a step changes at one argument.
LEMMA OneChanges ==
    ASSUME NEW S, NEW f, NEW g, NEW i, NEW delta, NEW D(_),
           f = [k \in S |-> f[k]], g = [k \in S |-> g[k]],
           \A k \in S : f[k] \in Int,
           \A k \in S : g[k] = f[k] + D(k),
           D(i) = delta, \A k \in S \ {i} : D(k) = 0
    PROVE  g = [f EXCEPT ![i] = @ + delta]
BY SMT

\* The steps of the book.
LEMMA BookSteps ==
    /\ \A i \in Items : Book!Add(i) => Book!Next
    /\ \A i \in Items : Book!Post(i) => Book!Next
    /\ \A i \in Items, month \in Months : Book!OpenMonth(i, month) => Book!Next
    /\ \A i, j \in Items : Book!Move(i, j) => Book!Next
BY DEF Book!Next

\* A committed transaction is one step of the book.
LEMMA CommitIsPosting ==
    ASSUME IInv, NEW c \in Calls, Commit(c)
    PROVE  Book!Next
<1> USE ConstantsAssumption
<1> DEFINE balance == [i \in Items |-> row[i].stock]
           balance1 == [i \in Items |-> row'[i].stock]
           monthly == {<<o.item, o.month>> : o \in openings}
           monthly1 == {<<o.item, o.month>> : o \in openings'}
<1>0. SUFFICES ASSUME NEW i, NEW j, NEW q,
                      i = call[c].item, j = call[c].dest, q = call[c].quantity
               PROVE  Book!Next
  OBVIOUS
<1>1. /\ pc[c] = "commit" /\ UNCHANGED present
      /\ \A k \in Items : row'[k].stock = row[k].stock + DeltaOf(c, k)
      /\ openings' = openings \cup NewOpenings(c)
  BY CommitEffect
<1>2. /\ i \in Items /\ j \in Items /\ i \in present /\ j \in present
      /\ q \in Int /\ q \in Quantities
      /\ call[c].op \in {"movement", "transfer", "opening"}
      /\ call[c].op = "opening" => call[c].type = "opening" /\ call[c].month \in Months
      /\ call[c].op = "movement" => call[c].type \in RequestableTypes
      /\ IsTransfer(c) => q > 0 /\ StoreOf[i] # StoreOf[j] /\ i # j
  BY <1>0, <1>1 DEF IInv, TypeOK, CallRecord, ArgumentsChecked, InTransaction
<1>3. /\ MayWrite(c)
      /\ \A k \in Items : row[k].stock \in Int
  BY <1>1 DEF IInv, ChecksHoldAtCommit, TypeOK, Row
<1>4. \A k \in Items : balance1[k] = balance[k] + DeltaOf(c, k)
  BY <1>1
<1>5. CASE IsTransfer(c)
  <2>1. /\ DeltaOf(c, i) = -q /\ DeltaOf(c, j) = q
        /\ \A k \in Items \ {i, j} : DeltaOf(c, k) = 0
        /\ i \in TouchedBy(c)
    BY <1>0, <1>2, <1>5 DEF DeltaOf, TouchedBy
  <2>2. monthly1 = monthly
    BY <1>1, <1>5 DEF NewOpenings, IsTransfer
  <2>3. balance1 = [balance EXCEPT ![i] = @ - q, ![j] = @ + q]
    <3>1. \A k \in Items : balance1[k] = IF k = j THEN balance[k] + q
                                         ELSE IF k = i THEN balance[k] - q
                                         ELSE balance[k]
      BY <1>2, <1>3, <1>4, <2>1
    <3> HIDE DEF balance
    <3>2. balance1 = [k \in Items |-> balance1[k]]
      OBVIOUS
    <3>3. balance = [k \in Items |-> balance[k]]
      BY DEF balance
    <3> HIDE DEF balance1
    <3> QED
      BY <1>2, <3>1, <3>2, <3>3
  <2>4. balance[i] + (-q) >= 0 \/ AllowNegativeStock
    BY <1>2, <1>3, <2>1 DEF MayWrite, Sufficient
  <2>5. Book!Move(i, j)
    BY <1>1, <1>2, <1>5, <2>2, <2>3, <2>4 DEF Book!Move, Book!Allows
  <2> QED
    BY <1>2, <2>5, BookSteps
<1>6. CASE call[c].op = "opening"
  <2>0. PICK month : month = call[c].month
    OBVIOUS
  <2>1. /\ ~IsTransfer(c) /\ q > 0 /\ ~OpeningExists(c) /\ month \in Months
    <3>1. call[c].op # "transfer" /\ call[c].type = "opening" /\ month \in Months
      BY <1>2, <1>6, <2>0
    <3>2. ValidMagnitude("opening", q) /\ ~OpeningExists(c)
      BY <1>0, <1>3, <1>6, <3>1 DEF MayWrite
    <3>3. q > 0
      BY <3>2 DEF ValidMagnitude
    <3> QED
      BY <3>1, <3>2, <3>3 DEF IsTransfer
  <2>2. /\ DeltaOf(c, i) = q /\ \A k \in Items \ {i} : DeltaOf(c, k) = 0
    BY <1>0, <1>2, <1>6, <2>1 DEF DeltaOf, MovementDelta, Decreasing
  <2>3. balance1 = [balance EXCEPT ![i] = @ + q]
    BY <1>3, <1>4, <2>2, OneChanges
  <2>4. openings' = openings \cup {[by |-> c, item |-> i,
                       month |-> month, quantity |-> q]}
    BY <1>0, <1>1, <1>6, <2>0 DEF NewOpenings
  <2>6. <<i, month>> \notin monthly
    BY <1>0, <2>0, <2>1 DEF OpeningExists
  <2>5. monthly1 = monthly \cup {<<i, month>>}
    <3> DEFINE o == [by |-> c, item |-> i, month |-> month, quantity |-> q]
    <3>1. <<o.item, o.month>> = <<i, month>>
      OBVIOUS
    <3>2. openings' = openings \cup {o}
      BY <2>4
    <3> HIDE DEF o
    <3> QED
      BY <3>1, <3>2
  <2>7. Book!OpenMonth(i, month)
    BY <1>1, <1>2, <2>1, <2>3, <2>5, <2>6 DEF Book!OpenMonth
  <2> QED
    BY <1>2, <2>1, <2>7, BookSteps
<1>7. CASE call[c].op = "movement"
  <2>1. ~IsTransfer(c) /\ monthly1 = monthly
    BY <1>1, <1>7 DEF NewOpenings, IsTransfer
  <2> DEFINE delta == DeltaOf(c, i)
  <2>2. /\ delta = q \/ delta = -q
        /\ \A k \in Items \ {i} : DeltaOf(c, k) = 0
        /\ i \in TouchedBy(c)
    BY <1>0, <1>2, <2>1 DEF DeltaOf, MovementDelta, TouchedBy
  <2>3. delta \in Int
    BY <1>2, DeltaType DEF IInv
  <2>4. balance[i] + delta >= 0 \/ AllowNegativeStock
    BY <1>2, <1>3, <2>2 DEF MayWrite, Sufficient
  <2>5. balance1 = [balance EXCEPT ![i] = @ + delta]
    BY <1>3, <1>4, <2>2, OneChanges
  <2> HIDE DEF delta
  <2>6. PICK sign \in {1, -1} : delta = sign * q
    <3>1. q = 1 * q /\ -q = (-1) * q
      BY <1>2
    <3> QED
      BY <2>2, <3>1
  <2>7. /\ balance[i] + sign * q >= 0 \/ AllowNegativeStock
        /\ balance1 = [balance EXCEPT ![i] = @ + sign * q]
    BY <2>4, <2>5, <2>6
  <2>8. Book!Post(i)
    BY <1>1, <1>2, <2>1, <2>7 DEF Book!Post, Book!Allows
  <2> QED
    BY <1>2, <2>8, BookSteps
<1> QED
  BY <1>2, <1>5, <1>6, <1>7 DEF IsTransfer

\* Adding an item is one step of the book, or none.
LEMMA AddingIsAStep ==
    ASSUME IInv, NEW c \in Calls, AddItem(c)
    PROVE  [Book!Next]_(Book!vars)
<1> USE ConstantsAssumption
<1>1. PICK i \in Items, q \in Quantities :
        IF q >= 0 /\ i \notin present
        THEN /\ present' = present \cup {i}
             /\ row' = [row EXCEPT ![i] = AddedRow(i, q, InitialMeta[i])]
        ELSE UNCHANGED <<present, row>>
  BY DEF AddItem
<1>2. UNCHANGED openings /\ row \in [Items -> Row]
  BY DEF AddItem, IInv, TypeOK
<1>3. CASE q >= 0 /\ i \notin present
  <2>1. \A k \in Items : row'[k].stock = IF k = i THEN q ELSE row[k].stock
    BY <1>1, <1>2, <1>3 DEF AddedRow
  <2>2. [k \in Items |-> row'[k].stock]
          = [[k \in Items |-> row[k].stock] EXCEPT ![i] = q]
    BY <2>1
  <2>3. Book!Add(i)
    BY <1>1, <1>2, <1>3, <2>2 DEF Book!Add
  <2> QED
    BY <2>3 DEF Book!Next
<1>4. CASE ~(q >= 0 /\ i \notin present)
  BY <1>1, <1>2, <1>4 DEF Book!vars
<1> QED
  BY <1>3, <1>4

\* The requests, with their unlocked loads, row locks, transactions, crashes
\* and deadlocks, implement the book that changes one posting at a time.
THEOREM LedgerImplementsBook ==
    ASSUME "update" \notin Operations
    PROVE  Spec => ImplementsBook
<1>1. Init => Book!Init
  <2> SUFFICES ASSUME Init PROVE Book!Init
    OBVIOUS
  <2>1. [i \in Items |-> row[i].stock] = InitialStock
    BY ConstantsAssumption DEF Init, AddedRow
  <2> QED
    BY <2>1 DEF Init, Book!Init
<1>2. IInv /\ [Next]_vars => [Book!Next]_(Book!vars)
  <2> SUFFICES ASSUME IInv, [Next]_vars PROVE [Book!Next]_(Book!vars)
    OBVIOUS
  <2>1. CASE UNCHANGED <<present, row, movements, openings>>
    BY <2>1 DEF Book!vars
  <2> QED
    BY <2>1, QuietSteps, CommitIsPosting, AddingIsAStep
<1> QED
  BY <1>1, <1>2, Invariant, PTL DEF Spec, ImplementsBook, Book!Spec

------------------------------------------------------------------------------
(* The sum of the effects of a set of movement rows. *)

\* A nonempty collection of finite sets has a minimal one.
LEMMA MinimalSet ==
    ASSUME NEW S, IsFiniteSet(S), NEW C, C \subseteq SUBSET S, C # {}
    PROVE  \E T \in C : \A U \in C : U \subseteq T => U = T
<1>1. C \subseteq FiniteSubsetsOf(S)
  BY FS_FiniteSubsetsOfFinite
<1>2. PICK T \in C : \A U \in C : ~(<<U, T>> \in StrictSubsetOrdering(S))
  BY <1>1, WFMin, FS_StrictSubsetOrderingWellFounded
<1> QED
  BY <1>2 DEF StrictSubsetOrdering

Pick(s) == CHOOSE x \in s : TRUE

SumBody(g, s) == IF s = {} THEN 0 ELSE Effect(Pick(s)) + g[s \ {Pick(s)}]

IsSumOn(g, S) == g = [s \in SUBSET S |-> SumBody(g, s)]

SumOn(S) == CHOOSE g : IsSumOn(g, S)

Total(S) == SumOn(S)[S]

LEMMA PickIn == ASSUME NEW s, s # {} PROVE Pick(s) \in s
BY DEF Pick

LEMMA SumUnique ==
    ASSUME NEW A, NEW B, IsFiniteSet(A),
           NEW g, IsSumOn(g, A), NEW h, IsSumOn(h, B)
    PROVE  \A u \in SUBSET (A \cap B) : g[u] = h[u]
<1> DEFINE C == {u \in SUBSET (A \cap B) : g[u] # h[u]}
<1> SUFFICES ASSUME C # {} PROVE FALSE
  OBVIOUS
<1>1. PICK u \in C : \A v \in C : v \subseteq u => v = u
  <2>1. C \subseteq SUBSET A
    OBVIOUS
  <2> HIDE DEF C
  <2> QED
    BY <2>1, MinimalSet
<1>2. u \in SUBSET A /\ u \in SUBSET B /\ g[u] # h[u]
  OBVIOUS
<1>3. g[u] = SumBody(g, u) /\ h[u] = SumBody(h, u)
  BY <1>2 DEF IsSumOn
<1>4. u # {}
  BY <1>2, <1>3 DEF SumBody
<1>5. u \ {Pick(u)} \notin C
  BY <1>1, <1>4, PickIn
<1>6. g[u \ {Pick(u)}] = h[u \ {Pick(u)}]
  BY <1>2, <1>5
<1> QED
  BY <1>2, <1>3, <1>6 DEF SumBody

LEMMA SumExists ==
    ASSUME NEW S, IsFiniteSet(S)
    PROVE  IsSumOn(SumOn(S), S)
<1> DEFINE C == {T \in SUBSET S : ~IsSumOn(SumOn(T), T)}
<1> SUFFICES ASSUME C # {} PROVE FALSE
  OBVIOUS
<1>1. PICK T \in C : \A U \in C : U \subseteq T => U = T
  <2> HIDE DEF C
  <2>1. C \subseteq SUBSET S
    BY DEF C
  <2> QED
    BY <2>1, MinimalSet
<1>2. \A U \in SUBSET T : U # T => IsSumOn(SumOn(U), U)
  BY <1>1
<1>3. T \in SUBSET S /\ ~IsSumOn(SumOn(T), T)
  OBVIOUS
<1> HIDE DEF C
<1>4. \A U \in SUBSET T : IsFiniteSet(U)
  BY <1>3, FS_Subset
<1> DEFINE at(s) == SumOn(s)[s]
           h == [s \in SUBSET T |->
                   IF s = {} THEN 0 ELSE Effect(Pick(s)) + at(s \ {Pick(s)})]
<1>5. ASSUME NEW u \in SUBSET T, u # T
      PROVE  at(u) = h[u]
  <2>1. at(u) = SumBody(SumOn(u), u)
    BY <1>2, <1>5 DEF IsSumOn
  <2>2. CASE u = {}
    BY <2>1, <2>2 DEF SumBody
  <2>3. CASE u # {}
    <3> DEFINE v == u \ {Pick(u)}
    <3>1. v \in SUBSET T /\ v # T /\ v \subseteq u
      BY <1>5
    <3>2. SumOn(u)[v] = SumOn(v)[v]
      BY <1>2, <1>4, <1>5, <3>1, SumUnique
    <3> QED
      BY <1>5, <2>1, <2>3, <3>2 DEF SumBody
  <2> QED
    BY <2>2, <2>3
<1>6. ASSUME NEW s \in SUBSET T
      PROVE  h[s] = SumBody(h, s)
  <2>1. CASE s = {}
    BY <2>1 DEF SumBody
  <2>2. CASE s # {}
    <3>1. s \ {Pick(s)} \in SUBSET T /\ s \ {Pick(s)} # T
      BY <1>6, <2>2, PickIn
    <3>2. at(s \ {Pick(s)}) = h[s \ {Pick(s)}]
      BY <1>5, <3>1
    <3> HIDE DEF at
    <3>3. h[s] = Effect(Pick(s)) + at(s \ {Pick(s)})
      BY <1>6, <2>2
    <3> HIDE DEF h
    <3> QED
      BY <2>2, <3>2, <3>3 DEF SumBody
  <2> QED
    BY <2>1, <2>2
<1>7. IsSumOn(h, T)
  BY <1>6 DEF IsSumOn
<1> HIDE DEF h
<1> QED
  BY <1>3, <1>7 DEF SumOn

LEMMA TotalStep ==
    ASSUME NEW S, IsFiniteSet(S)
    PROVE  Total(S) = IF S = {} THEN 0
                      ELSE Effect(Pick(S)) + Total(S \ {Pick(S)})
<1> DEFINE T == S \ {Pick(S)}
<1> DEFINE g == SumOn(S)
<1>1. g[S] = SumBody(g, S)
  <2>1. IsSumOn(g, S)
    BY SumExists
  <2> HIDE DEF g
  <2> QED
    BY <2>1 DEF IsSumOn
<1>2. IsFiniteSet(T)
  BY FS_Subset
<1>3. SumOn(S)[T] = SumOn(T)[T]
  BY <1>2, SumExists, SumUnique
<1> QED
  BY <1>1, <1>3 DEF SumBody, Total

LEMMA TotalType ==
    ASSUME NEW S, IsFiniteSet(S), \A x \in S : Effect(x) \in Int
    PROVE  Total(S) \in Int
<1> DEFINE C == {T \in SUBSET S : Total(T) \notin Int}
<1> SUFFICES ASSUME C # {} PROVE FALSE
  OBVIOUS
<1>1. PICK T \in C : \A U \in C : U \subseteq T => U = T
  <2>1. C \subseteq SUBSET S
    OBVIOUS
  <2> HIDE DEF C
  <2> QED
    BY <2>1, MinimalSet
<1>2. T \in SUBSET S /\ Total(T) \notin Int /\ IsFiniteSet(T)
  BY FS_Subset
<1>3. T # {}
  BY <1>2, TotalStep
<1>4. Pick(T) \in T /\ T \ {Pick(T)} \in SUBSET S /\ T \ {Pick(T)} # T
  BY <1>2, <1>3, PickIn
<1>5. Total(T \ {Pick(T)}) \in Int
  BY <1>1, <1>4
<1> QED
  BY <1>2, <1>3, <1>4, <1>5, TotalStep

\* Whatever the order in which the sum is taken.
LEMMA TotalWithout ==
    ASSUME NEW S, IsFiniteSet(S), \A x \in S : Effect(x) \in Int, NEW x \in S
    PROVE  Total(S) = Effect(x) + Total(S \ {x})
<1> DEFINE Splits(T) == \A y \in T : Total(T) = Effect(y) + Total(T \ {y})
           C == {T \in SUBSET S : ~Splits(T)}
<1> SUFFICES ASSUME C # {} PROVE FALSE
  OBVIOUS
<1>1. PICK T \in C : \A U \in C : U \subseteq T => U = T
  <2>1. C \subseteq SUBSET S
    OBVIOUS
  <2> HIDE DEF C
  <2> QED
    BY <2>1, MinimalSet
<1>2. T \in SUBSET S /\ ~Splits(T) /\ IsFiniteSet(T)
  BY FS_Subset
<1>3. \A U \in SUBSET T : U # T => Splits(U)
  BY <1>1, <1>2
<1> HIDE DEF C
<1>4. PICK y \in T : Total(T) # Effect(y) + Total(T \ {y})
  BY <1>2
<1> DEFINE p == Pick(T)
           R == (T \ {p}) \ {y}
<1>5. p \in T /\ Total(T) = Effect(p) + Total(T \ {p})
  BY <1>2, <1>4, PickIn, TotalStep
<1>6. p # y
  BY <1>4, <1>5
<1>7. Total(T \ {p}) = Effect(y) + Total(R)
  <2>1. Splits(T \ {p})
    BY <1>3, <1>5
  <2> HIDE DEF p
  <2> QED
    BY <1>4, <1>6, <2>1
<1>8. Total(T \ {y}) = Effect(p) + Total(R)
  <2>1. Splits(T \ {y})
    BY <1>3, <1>4
  <2>2. (T \ {y}) \ {p} = R
    OBVIOUS
  <2> HIDE DEF p
  <2>3. Total(T \ {y}) = Effect(p) + Total((T \ {y}) \ {p})
    BY <1>5, <1>6, <2>1
  <2> QED
    BY <2>2, <2>3
<1>9. Total(R) \in Int /\ Effect(p) \in Int /\ Effect(y) \in Int
  <2>1. IsFiniteSet(R) /\ R \in SUBSET S
    BY <1>2, FS_Subset
  <2> HIDE DEF R
  <2> QED
    BY <1>2, <1>4, <1>5, <2>1, TotalType
<1> HIDE DEF p, R
<1> QED
  BY <1>4, <1>5, <1>7, <1>8, <1>9

\* A row that is inserted adds its effect.
LEMMA TotalWith ==
    ASSUME NEW S, IsFiniteSet(S), NEW x, x \notin S,
           \A y \in S \cup {x} : Effect(y) \in Int
    PROVE  Total(S \cup {x}) = Total(S) + Effect(x)
<1>1. IsFiniteSet(S \cup {x})
  BY FS_AddElement
<1>2. (S \cup {x}) \ {x} = S
  OBVIOUS
<1>3. Total(S \cup {x}) = Effect(x) + Total((S \cup {x}) \ {x})
  BY <1>1, TotalWithout
<1>4. Total(S) \in Int /\ Effect(x) \in Int
  BY TotalType
<1>5. Total(S \cup {x}) = Effect(x) + Total(S)
  BY <1>2, <1>3
<1> QED
  BY <1>4, <1>5

LEMMA BalanceIsTotal ==
    ASSUME NEW i
    PROVE  /\ Balance(i) = Total({m \in movements : m.item = i})
           /\ Balance(i)' = Total({m \in movements' : m.item = i})
<1>1. ASSUME NEW S PROVE MapThenSumSet(Effect, S) = Total(S)
  BY Zenon DEF MapThenSumSet, MapThenFoldSet, Total, SumOn, IsSumOn, SumBody, Pick
<1> QED
  BY <1>1 DEF Balance

LEMMA EffectType == \A m \in Movement : Effect(m) \in Int
BY DEF Movement, Effect, MovementDelta

------------------------------------------------------------------------------
\* The rows are finitely many and of items that are there, and an item's stock
\* is what they add up to.
Balanced ==
    /\ IsFiniteSet(movements)
    /\ \A m \in movements : m.item \in present
    /\ LedgerMatchesStock

LEMMA NothingOfNone == Total({}) = 0
BY FS_EmptySet, TotalStep

LEMMA OpeningEffect ==
    ASSUME NEW by \in Calls \cup Items, NEW i \in Items, NEW q \in Int, q >= 0
    PROVE  /\ \A m \in OpeningMovements(by, i, q) : m.item = i
           /\ IsFiniteSet(OpeningMovements(by, i, q))
           /\ Total(OpeningMovements(by, i, q)) = q
<1> DEFINE m == [by |-> by, item |-> i, type |-> "opening", quantity |-> q,
                 transfer |-> NoCall, month |-> NoMonth]
<1>1. CASE q > 0
  <2>1. OpeningMovements(by, i, q) = {m}
    BY <1>1 DEF OpeningMovements
  <2>2. Effect(m) = q
    BY DEF Effect, MovementDelta, Decreasing
  <2>3. m.item = i
    OBVIOUS
  <2> HIDE DEF m
  <2>4. Total({} \cup {m}) = Total({}) + q
    BY <2>2, FS_EmptySet, NothingOfNone, TotalWith
  <2>5. {} \cup {m} = {m}
    OBVIOUS
  <2>6. Total({m}) = q /\ IsFiniteSet({m})
    <3>1. Total({m}) = 0 + q
      BY <2>4, <2>5, NothingOfNone, Zenon
    <3>2. Total({m}) = q
      BY <3>1
    <3>3. IsFiniteSet({m})
      BY FS_Singleton
    <3> QED
      BY <3>2, <3>3
  <2> QED
    BY <2>1, <2>3, <2>6
<1>2. CASE ~(q > 0)
  BY <1>2, NothingOfNone, FS_EmptySet DEF OpeningMovements
<1> QED
  BY <1>1, <1>2

LEMMA InitBalanced == Init => Balanced
<1> SUFFICES ASSUME Init PROVE Balanced
  OBVIOUS
<1> DEFINE opened(i) == OpeningMovements(i, i, InitialStock[i])
<1>1. movements = UNION {opened(i) : i \in InitialItems}
  BY DEF Init
<1>2. \A i \in InitialItems :
         /\ \A m \in opened(i) : m.item = i
         /\ IsFiniteSet(opened(i)) /\ Total(opened(i)) = InitialStock[i]
  BY ConstantsAssumption, OpeningEffect
<1>3. present = InitialItems /\ \A i \in present : row[i].stock = InitialStock[i]
  BY ConstantsAssumption DEF Init, AddedRow
<1> HIDE DEF opened
<1>4. IsFiniteSet({opened(i) : i \in InitialItems})
  <2> DEFINE f == [i \in InitialItems |-> opened(i)]
  <2>1. f \in Surjection(InitialItems, {opened(i) : i \in InitialItems})
    BY DEF Surjection
  <2>2. IsFiniteSet(InitialItems)
    BY ConstantsAssumption
  <2> QED
    BY <2>1, <2>2, FS_Surjection
<1>5. IsFiniteSet(movements)
  BY <1>1, <1>2, <1>4, FS_UNION
<1>6. ASSUME NEW i \in present PROVE row[i].stock = Balance(i)
  <2>1. {m \in movements : m.item = i} = opened(i)
    BY <1>1, <1>2, <1>3
  <2>2. row[i].stock = Total(opened(i))
    BY <1>2, <1>3
  <2>3. Balance(i) = Total({m \in movements : m.item = i})
    BY BalanceIsTotal
  <2> QED
    BY <2>1, <2>2, <2>3, Zenon
<1>7. \A m \in movements : m.item \in present
  BY <1>1, <1>2, <1>3
<1> QED
  BY <1>5, <1>6, <1>7 DEF Balanced, LedgerMatchesStock

\* An item that was there: its new rows explain its stock.
LEMMA ExplainedBalance ==
    ASSUME IInv, Balanced, TypeOK', NEW i \in present, StockIsExplained(i),
           movements \subseteq movements', row[i].stock = Balance(i)
    PROVE  row'[i].stock = Balance(i)'
<1> DEFINE old == {m \in movements : m.item = i}
           new == {m \in movements' : m.item = i}
<1>1. new = old \cup NewRowsOf(i)
  BY DEF NewRowsOf
<1>2. IsFiniteSet(old)
  BY FS_Subset DEF Balanced
<1>3. \A m \in new : Effect(m) \in Int
  BY EffectType DEF TypeOK
<1>4. row[i].stock = Total(old) /\ Balance(i)' = Total(new)
  BY BalanceIsTotal
<1>5. CASE NewRowsOf(i) = {} /\ row'[i].stock = row[i].stock
  BY <1>1, <1>4, <1>5
<1>6. ASSUME NEW m, NewRowsOf(i) = {m}, row'[i].stock = row[i].stock + Effect(m)
      PROVE  row'[i].stock = Balance(i)'
  <2>1. m \notin old
    BY <1>6 DEF NewRowsOf
  <2>2. new = old \cup {m}
    BY <1>1, <1>6
  <2> HIDE DEF old, new
  <2>3. Total(new) = Total(old) + Effect(m)
    BY <1>2, <1>3, <2>1, <2>2, TotalWith
  <2> QED
    BY <1>4, <1>6, <2>3
<1> QED
  BY <1>5, <1>6 DEF StockIsExplained

LEMMA NextBalanced ==
    ASSUME IInv, "update" \notin Operations, [Next]_vars, Balanced
    PROVE  Balanced'
<1>0. IInv' /\ TypeOK /\ TypeOK'
  BY NextInvariant DEF IInv
<1>1. CASE UNCHANGED <<present, row, movements, openings>>
  BY <1>1, BalanceIsTotal DEF Balanced, LedgerMatchesStock
<1>2. ASSUME NEW c \in Calls, Commit(c) PROVE Balanced'
  <2>1. /\ pc[c] = "commit" /\ movements' = movements \cup NewMovements(c)
        /\ present' = present
    BY <1>2, CommitEffect
  <2>2. IsFiniteSet(NewMovements(c))
    <3>1. ASSUME NEW a, NEW b PROVE IsFiniteSet({a, b}) /\ IsFiniteSet({a})
      <4>1. IsFiniteSet({a}) /\ IsFiniteSet({a} \cup {b})
        BY FS_Singleton, FS_AddElement
      <4>2. {a, b} = {a} \cup {b}
        OBVIOUS
      <4> QED
        BY <4>1, <4>2
    <3> QED
      BY <3>1, Zenon DEF NewMovements
  <2>3. TouchedBy(c) \subseteq present
    BY <2>1 DEF IInv, ArgumentsChecked, InTransaction, TouchedBy
  <2>4. \A m \in NewMovements(c) : m.item \in present
    BY <2>1, <2>3, NewMovementsExplain
  <2>5. IsFiniteSet(movements')
    BY <2>1, <2>2, FS_Union DEF Balanced
  <2>6. \A i \in present : row'[i].stock = Balance(i)'
    BY <1>0, <2>1, StepIsExplained, ExplainedBalance DEF Balanced, LedgerMatchesStock
  <2> QED
    BY <2>1, <2>4, <2>5, <2>6 DEF Balanced, LedgerMatchesStock
<1>3. ASSUME NEW c \in Calls, AddItem(c) PROVE Balanced'
  <2>1. PICK j \in Items, q \in Quantities :
          IF q >= 0 /\ j \notin present
          THEN /\ present' = present \cup {j}
               /\ row' = [row EXCEPT ![j] = AddedRow(j, q, InitialMeta[j])]
               /\ movements' = movements \cup OpeningMovements(c, j, q)
          ELSE UNCHANGED <<present, row, movements>>
    BY <1>3, Zenon DEF AddItem
  <2>2. CASE q >= 0 /\ j \notin present
    <3>1. /\ \A m \in OpeningMovements(c, j, q) : m.item = j
          /\ IsFiniteSet(OpeningMovements(c, j, q))
          /\ Total(OpeningMovements(c, j, q)) = q
      BY <2>2, ConstantsAssumption, OpeningEffect
    <3>2. IsFiniteSet(movements')
      <4>1. IsFiniteSet(movements \cup OpeningMovements(c, j, q))
        BY <3>1, FS_Union DEF Balanced
      <4> QED
        BY <2>1, <2>2, <4>1
    <3>3. \A m \in movements' : m.item \in present'
      BY <2>1, <2>2, <3>1 DEF Balanced
    <3>4. \A i \in present : row'[i].stock = Balance(i)'
      BY <1>0, <2>1, <2>2, StepIsExplained, ExplainedBalance DEF Balanced, LedgerMatchesStock
    <3>5. row'[j].stock = q
      BY <1>0, <2>1, <2>2 DEF AddedRow, TypeOK
    <3>6. {m \in movements' : m.item = j} = OpeningMovements(c, j, q)
      BY <2>1, <2>2, <3>1 DEF Balanced
    <3>7. row'[j].stock = Balance(j)'
      BY <3>1, <3>5, <3>6, BalanceIsTotal
    <3> QED
      BY <2>1, <2>2, <3>2, <3>3, <3>4, <3>7 DEF Balanced, LedgerMatchesStock
  <2>3. CASE ~(q >= 0 /\ j \notin present)
    <3>1. UNCHANGED <<present, row, movements>>
      BY <2>1, <2>3
    <3>2. \A i : Balance(i)' = Balance(i)
      BY <3>1, BalanceIsTotal
    <3> QED
      BY <3>1, <3>2 DEF Balanced, LedgerMatchesStock
  <2> QED
    BY <2>2, <2>3
<1> QED
  BY <1>1, <1>2, <1>3, QuietSteps

\* The running balance is the sum of its history (store_services.py:4-6): where
\* no call edits an item's metadata, no interleaving of movements, transfers
\* and openings loses or doubles an update of current_stock, for any number of
\* items, calls and quantities.
THEOREM LedgerBalances ==
    ASSUME "update" \notin Operations
    PROVE  Spec => []LedgerMatchesStock
<1>1. IInv /\ Balanced /\ [Next]_vars => Balanced'
  BY NextBalanced
<1>2. Balanced => LedgerMatchesStock
  BY DEF Balanced
<1> QED
  BY <1>1, <1>2, InitBalanced, Invariant, PTL DEF Spec
==============================================================================
