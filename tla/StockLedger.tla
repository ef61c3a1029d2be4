----------------------------- MODULE StockLedger -----------------------------
(***************************************************************************)
(* The inventory of apps/site_management/store_services.py: store items    *)
(* with a running current_stock, the movement rows that explain it,        *)
(* transfers between stores and monthly openings.                          *)
(*                                                                         *)
(* A call is one API request.  It loads what it needs without a lock       *)
(* (the endpoint), and then runs the service's transaction: lock the item  *)
(* rows, check, write, commit.  Other calls run between any two of these   *)
(* steps.  A call may crash in any of them; the database then rolls its    *)
(* transaction back.  Each call runs once, which bounds the behaviours.    *)
(***************************************************************************)
EXTENDS Integers, FiniteSets, FiniteSetsExt

CONSTANTS
    Items,              \* identities (store, item_name) of store items
    Stores, StoreOf,    \* the store of each item
    Products, NoProduct,
    Calls,              \* API calls
    NoCall,             \* "no call": a free lock, a movement of no transfer
    Months, NoMonth,
    Quantities,         \* quantities a client may send
    MovementTypes,      \* movement types the clients use
    Metadata,           \* the [product, min, active] an edit may leave
    Operations,         \* which operations the calls perform
    InitialItems,       \* items that exist at the start ...
    InitialStock,       \* ... and the opening stock they were added with
    InitialMeta,        \* [product, min, active] of each item when added
    Managed,            \* items whose store has a manager to notify
    AllowNegativeStock, \* config.ALLOW_NEGATIVE_STOCK
    LowStockTask,       \* the periodic task check_low_stock runs
    LocksNullableJoin   \* the database accepts FOR UPDATE over an outer join

AllOperations == {"add", "movement", "transfer", "opening", "update"}

RequestableTypes == {"opening", "received", "issued", "returned",
                     "damaged", "lost", "adjustment"}
Increasing == {"opening", "received", "transfer_in", "returned"}
Decreasing == {"issued", "transfer_out", "damaged", "lost"}
AllTypes == Increasing \cup Decreasing \cup {"adjustment"}

MetaRow == [product : Products \cup {NoProduct}, min : Nat, active : BOOLEAN]

ASSUME ConstantsAssumption ==
    /\ Items # {}
    /\ StoreOf \in [Items -> Stores]
    /\ NoCall \notin Calls
    /\ Items \cap Calls = {}
    /\ NoProduct \notin Products
    /\ NoMonth \notin Months
    /\ Quantities \subseteq Int
    /\ MovementTypes \subseteq RequestableTypes
    /\ Metadata \subseteq MetaRow
    /\ Operations \subseteq AllOperations
    /\ InitialItems \subseteq Items /\ IsFiniteSet(InitialItems)
    /\ InitialStock \in [Items -> Nat]
    /\ InitialMeta \in [Items -> MetaRow]
    /\ Managed \subseteq Items
    /\ AllowNegativeStock \in BOOLEAN
    /\ LowStockTask \in BOOLEAN
    /\ LocksNullableJoin \in BOOLEAN

VARIABLES
    present,    \* items that have a StoreItem row
    row,        \* that row, committed: current_stock and the metadata
    movements,  \* committed StockMovement rows
    transfers,  \* committed StockTransfer rows
    openings,   \* committed StoreMonthlyOpening rows
    unread,     \* unread low-stock notifications of each item
    alerting,   \* items the periodic task is about to notify the manager of
    events,     \* StockLow rows of the outbox
    lock,       \* which call's transaction holds the item's row lock
    pc,         \* how far each call has come
    call        \* its arguments and what its transaction has computed

vars == <<present, row, movements, transfers, openings, unread, alerting,
          events, lock, pc, call>>
ledgerVars == <<present, row, movements, transfers, openings, unread, alerting,
                events>>

------------------------------------------------------------------------------
Row == [stock : Int, product : Products \cup {NoProduct}, min : Nat,
        active : BOOLEAN]

\* A row's key is the call that inserted it and its type (by is the item for
\* the OPENING row add_store_item wrote before the first modelled step).
Movement == [by : Calls \cup Items, item : Items, type : AllTypes,
             quantity : Int, transfer : Calls \cup {NoCall},
             month : Months \cup {NoMonth}]
Transfer == [by : Calls, source : Items, dest : Items, quantity : Int]
Opening == [by : Calls, item : Items, month : Months, quantity : Int]
Alert == [by : Calls, item : Items, stock : Int]

Locking == {"lockSource", "lockDestination"}
InTransaction == {"checkOpening", "lockSource", "lockDestination", "write",
                  "commit", "save"}
\* rejected: a check refused the call (4xx); failed: it crashed or was aborted;
\* error: the database refused a statement of it (500).
Finished == {"ok", "rejected", "failed", "error"}
Stages == {"idle", "announce"} \cup InTransaction \cup Finished

\* low: StockLow events to publish after the commit; note: the items whose
\* low-stock notification the transaction creates.
CallRecord == [op : AllOperations \cup {"none"}, item : Items, dest : Items,
               type : AllTypes, quantity : Int,
               month : Months \cup {NoMonth}, seen : Row, meta : MetaRow,
               low : SUBSET Alert, note : SUBSET Items]

\* The signed change of current_stock for a movement; the magnitude of every
\* type but ADJUSTMENT must be positive.
MovementDelta(type, quantity) ==
    IF type \in Decreasing THEN -quantity ELSE quantity
ValidMagnitude(type, quantity) == type = "adjustment" \/ quantity > 0

\* What a stored movement row says it did to its item's stock.
Effect(m) == MovementDelta(m.type, m.quantity)

\* Mutant: the stock is checked before the change instead of after it.
Sufficient_Before(i, delta) == row[i].stock > 0 \/ AllowNegativeStock

Sufficient(i, delta) == row[i].stock + delta >= 0 \/ AllowNegativeStock

LowAfter(i, delta) == row[i].stock + delta <= row[i].min

------------------------------------------------------------------------------
(* What the committed transaction of call c adds. *)

IsTransfer(c) == call[c].op = "transfer"

\* The stock change of each item: one movement, or the two of a transfer.
DeltaOf(c, i) ==
    IF ~IsTransfer(c)
    THEN IF i = call[c].item
         THEN MovementDelta(call[c].type, call[c].quantity) ELSE 0
    ELSE IF i = call[c].item THEN -call[c].quantity
    ELSE IF i = call[c].dest THEN call[c].quantity ELSE 0

TouchedBy(c) == IF IsTransfer(c) THEN {call[c].item, call[c].dest}
                ELSE {call[c].item}

NewMovement(c, i, type) ==
    [by |-> c, item |-> i, type |-> type, quantity |-> call[c].quantity,
     transfer |-> IF IsTransfer(c) THEN c ELSE NoCall,
     month |-> call[c].month]

\* Mutant: a transfer records the outgoing leg only.
NewMovements_OneLeg(c) ==
    {NewMovement(c, call[c].item, call[c].type)}

NewMovements(c) ==
    IF IsTransfer(c)
    THEN {NewMovement(c, call[c].item, "transfer_out"),
          NewMovement(c, call[c].dest, "transfer_in")}
    ELSE {NewMovement(c, call[c].item, call[c].type)}

\* Mutant: source and destination are swapped.
NewTransfers_Swapped(c) ==
    IF IsTransfer(c)
    THEN {[by |-> c, source |-> call[c].dest, dest |-> call[c].item,
           quantity |-> call[c].quantity]}
    ELSE {}

NewTransfers(c) ==
    IF IsTransfer(c)
    THEN {[by |-> c, source |-> call[c].item, dest |-> call[c].dest,
           quantity |-> call[c].quantity]}
    ELSE {}

NewOpenings(c) ==
    IF call[c].op = "opening"
    THEN {[by |-> c, item |-> call[c].item, month |-> call[c].month,
           quantity |-> call[c].quantity]}
    ELSE {}

------------------------------------------------------------------------------
AddedRow(i, opening, meta) ==
    [stock |-> opening, product |-> meta.product, min |-> meta.min,
     active |-> meta.active]

\* The arguments of a call that has not begun.
IdleCall ==
    LET i == CHOOSE x \in Items : TRUE
    IN [op |-> "none", item |-> i, dest |-> i, type |-> "adjustment",
        quantity |-> 0, month |-> NoMonth,
        seen |-> AddedRow(i, InitialStock[i], InitialMeta[i]),
        meta |-> InitialMeta[i], low |-> {}, note |-> {}]

\* add_store_item's OPENING movement, written only for a positive opening.
OpeningMovements(by, i, opening) ==
    IF opening > 0
    THEN {[by |-> by, item |-> i, type |-> "opening", quantity |-> opening,
           transfer |-> NoCall, month |-> NoMonth]}
    ELSE {}

Init ==
    /\ present = InitialItems
    /\ row = [i \in Items |-> AddedRow(i, InitialStock[i], InitialMeta[i])]
    /\ movements = UNION {OpeningMovements(i, i, InitialStock[i]) :
                             i \in InitialItems}
    /\ transfers = {}
    /\ openings = {}
    /\ unread = [i \in Items |-> 0]
    /\ alerting = {}
    /\ events = {}
    /\ lock = [i \in Items |-> NoCall]
    /\ pc = [c \in Calls |-> "idle"]
    /\ call = [c \in Calls |-> IdleCall]

------------------------------------------------------------------------------
(* Beginning a call: the endpoint loads the rows, without a lock, and the   *)
(* service checks what it checks before its transaction.                    *)

\* The call's arguments; seen is the row as the endpoint loaded it.
Arguments(c, op, i, j, type, q, month, meta) ==
    call' = [call EXCEPT ![c] =
               [op |-> op, item |-> i, dest |-> j, type |-> type,
                quantity |-> q, month |-> month, seen |-> row[i],
                meta |-> meta, low |-> {}, note |-> {}]]

GoTo(c, stage) == pc' = [pc EXCEPT ![c] = stage]

Starts(c, op) == pc[c] = "idle" /\ op \in Operations

\* POST /stores/{id}/movements: a zero quantity is refused at once.
BeginMovement(c) ==
    /\ Starts(c, "movement")
    /\ \E i \in present, type \in MovementTypes, q \in Quantities :
         /\ Arguments(c, "movement", i, i, type, q, NoMonth, InitialMeta[i])
         /\ GoTo(c, IF q = 0 THEN "rejected" ELSE "lockSource")
    /\ UNCHANGED <<ledgerVars, lock>>

\* POST /stock-transfers: both items must be active, in different stores and
\* of the same product, on the rows as loaded.
Transferable(i, j, q) ==
    /\ row[i].active /\ row[j].active
    /\ StoreOf[i] # StoreOf[j]
    /\ row[i].product # NoProduct
    /\ row[i].product = row[j].product
    /\ q > 0

\* Where the database refuses to lock the nullable side of the join to the
\* product, the transaction fails at its first statement.
BeginTransfer(c) ==
    /\ Starts(c, "transfer")
    /\ \E i, j \in present, q \in Quantities :
         /\ Arguments(c, "transfer", i, j, "transfer_out", q, NoMonth,
                      InitialMeta[i])
         /\ GoTo(c, IF ~Transferable(i, j, q) THEN "rejected"
                    ELSE IF LocksNullableJoin THEN "lockSource" ELSE "error")
    /\ UNCHANGED <<ledgerVars, lock>>

\* POST /stores/{id}/monthly-openings
BeginOpening(c) ==
    /\ Starts(c, "opening")
    /\ \E i \in present, month \in Months, q \in Quantities :
         Arguments(c, "opening", i, i, "opening", q, month, InitialMeta[i])
    /\ GoTo(c, "checkOpening")
    /\ UNCHANGED <<ledgerVars, lock>>

\* PUT /stores/{id}/items/{id}: the product can be replaced, never removed.
BeginUpdate(c) ==
    /\ Starts(c, "update")
    /\ \E i \in present, meta \in Metadata :
         /\ meta.product = NoProduct => row[i].product = NoProduct
         /\ Arguments(c, "update", i, i, "adjustment", 0, NoMonth, meta)
    /\ GoTo(c, "save")
    /\ UNCHANGED <<ledgerVars, lock>>

\* POST /stores/{id}/items: one transaction that locks no existing row; a
\* second item of that name in the store violates a unique constraint.
AddItem(c) ==
    /\ Starts(c, "add")
    /\ \E i \in Items, q \in Quantities :
         /\ Arguments(c, "add", i, i, "opening", q, NoMonth, InitialMeta[i])
         /\ IF q >= 0 /\ i \notin present
            THEN /\ present' = present \cup {i}
                 /\ row' = [row EXCEPT ![i] = AddedRow(i, q, InitialMeta[i])]
                 /\ movements' = movements \cup OpeningMovements(c, i, q)
                 /\ GoTo(c, "ok")
            ELSE /\ GoTo(c, "rejected")
                 /\ UNCHANGED <<present, row, movements>>
    /\ UNCHANGED <<transfers, openings, unread, alerting, events, lock>>

------------------------------------------------------------------------------
(* The transaction. *)

Released(c) == [i \in Items |-> IF lock[i] = c THEN NoCall ELSE lock[i]]

\* The transaction is rolled back: nothing of it is seen, its locks are free.
RollBack(c, outcome) ==
    /\ lock' = Released(c)
    /\ GoTo(c, outcome)
    /\ UNCHANGED <<ledgerVars, call>>

OpeningExists(c) ==
    \E o \in openings : o.item = call[c].item /\ o.month = call[c].month

\* record_monthly_opening looks for an earlier opening before it locks, and
\* record_stock_movement then refuses a zero quantity.
CheckOpening(c) ==
    /\ pc[c] = "checkOpening"
    /\ GoTo(c, IF OpeningExists(c) \/ call[c].quantity = 0 THEN "rejected"
               ELSE "lockSource")
    /\ UNCHANGED <<ledgerVars, lock, call>>

\* Mutant: the item is read without FOR UPDATE.
LockSource_NoWait(c) ==
    /\ pc[c] = "lockSource"
    /\ GoTo(c, IF IsTransfer(c) THEN "lockDestination" ELSE "write")
    /\ UNCHANGED <<ledgerVars, lock, call>>

\* SELECT ... FOR UPDATE waits until the row's lock is free.
LockSource(c) ==
    /\ pc[c] = "lockSource"
    /\ lock[call[c].item] = NoCall
    /\ lock' = [lock EXCEPT ![call[c].item] = c]
    /\ GoTo(c, IF IsTransfer(c) THEN "lockDestination" ELSE "write")
    /\ UNCHANGED <<ledgerVars, call>>

LockDestination(c) ==
    /\ pc[c] = "lockDestination"
    /\ lock[call[c].dest] = NoCall
    /\ lock' = [lock EXCEPT ![call[c].dest] = c]
    /\ GoTo(c, "write")
    /\ UNCHANGED <<ledgerVars, call>>

\* StockTransfer.full_clean on the rows as locked: the product may have been
\* edited since the endpoint loaded them.
TransferIsClean(c) ==
    /\ row[call[c].item].product # NoProduct
    /\ row[call[c].dest].product \in {NoProduct, row[call[c].item].product}

\* Mutant: openings have no unique constraint on (store_item, opening_month).
MayWrite_NoConstraint(c) ==
    /\ ValidMagnitude(call[c].type, call[c].quantity)
    /\ \A i \in TouchedBy(c) : Sufficient(i, DeltaOf(c, i))
    /\ IsTransfer(c) => TransferIsClean(c)

\* The checks made on the locked rows.  A monthly opening is also checked
\* against the unique constraint when its row is inserted.
MayWrite(c) ==
    /\ ValidMagnitude(call[c].type, call[c].quantity)
    /\ \A i \in TouchedBy(c) : Sufficient(i, DeltaOf(c, i))
    /\ IsTransfer(c) => TransferIsClean(c)
    /\ call[c].op = "opening" => ~OpeningExists(c)

\* The rows are inserted and the stock updated, seen by this transaction only;
\* an item left low is announced, and its manager notified unless an unread
\* notification is there already.
Write(c) ==
    /\ pc[c] = "write"
    /\ MayWrite(c)
    /\ LET low == {i \in TouchedBy(c) : LowAfter(i, DeltaOf(c, i))}
       IN call' = [call EXCEPT
                     ![c].low = {[by |-> c, item |-> i,
                                  stock |-> row[i].stock + DeltaOf(c, i)] :
                                   i \in low},
                     ![c].note = {i \in low \cap Managed : unread[i] = 0}]
    /\ GoTo(c, "commit")
    /\ UNCHANGED <<ledgerVars, lock>>

\* A check fails: ValidationError, the transaction is rolled back.
Refuse(c) ==
    /\ pc[c] = "write"
    /\ ~MayWrite(c)
    /\ RollBack(c, "rejected")

\* COMMIT: current_stock = current_stock + delta, by an F expression.
Commit(c) ==
    /\ pc[c] = "commit"
    /\ row' = [i \in Items |->
                 [row[i] EXCEPT !.stock = @ + DeltaOf(c, i)]]
    /\ movements' = movements \cup NewMovements(c)
    /\ transfers' = transfers \cup NewTransfers(c)
    /\ openings' = openings \cup NewOpenings(c)
    /\ unread' = [i \in Items |->
                    IF i \in call[c].note THEN unread[i] + 1 ELSE unread[i]]
    /\ lock' = Released(c)
    /\ GoTo(c, IF call[c].low = {} THEN "ok" ELSE "announce")
    /\ UNCHANGED <<present, alerting, events, call>>

\* update_store_item: item.save() writes every column of the object the
\* endpoint loaded, current_stock included.  The UPDATE waits for the lock.
SaveItem(c) ==
    /\ pc[c] = "save"
    /\ lock[call[c].item] = NoCall
    /\ row' = [row EXCEPT ![call[c].item] =
                 AddedRow(call[c].item, call[c].seen.stock, call[c].meta)]
    /\ GoTo(c, "ok")
    /\ UNCHANGED <<present, movements, transfers, openings, unread, alerting,
                   events, lock, call>>

\* The on_commit callbacks: one StockLow event each.
Announce(c) ==
    /\ pc[c] = "announce"
    /\ \E e \in call[c].low :
         /\ events' = events \cup {e}
         /\ call' = [call EXCEPT ![c].low = @ \ {e}]
         /\ GoTo(c, IF call[c].low = {e} THEN "ok" ELSE "announce")
    /\ UNCHANGED <<present, row, movements, transfers, openings, unread,
                   alerting, lock>>

------------------------------------------------------------------------------
(* What can go wrong around a call. *)

\* The lock a waiting call waits for.
Wanted(c) == IF pc[c] = "lockSource" THEN call[c].item ELSE call[c].dest

\* Mutant: nobody looks for deadlocks.
Deadlocked_Unnoticed(c) == FALSE

\* c is on a cycle of calls that wait for each other's locks.
Deadlocked(c) ==
    \E D \in SUBSET Calls :
        /\ c \in D
        /\ \A d \in D : /\ pc[d] \in Locking
                        /\ lock[Wanted(d)] \in D
                        /\ \E e \in D : lock[Wanted(e)] = d

\* The database breaks the cycle: it aborts one of the transactions.
AbortVictim(c) ==
    /\ Deadlocked(c)
    /\ RollBack(c, "failed")

\* The worker process dies, or the client's database connection does.
Crash(c) ==
    /\ pc[c] \in InTransaction \cup {"announce"}
    /\ RollBack(c, "failed")

\* The manager reads the notification (mark_notifications_read).
MarkRead(i) ==
    /\ unread[i] > 0
    /\ unread' = [unread EXCEPT ![i] = 0]
    /\ UNCHANGED <<present, row, movements, transfers, openings, alerting,
                   events, lock, pc, call>>

\* check_low_stock: for each low item, notify() looks for an unread
\* notification and inserts one, without the item's row lock.
TaskLooks(i) ==
    /\ LowStockTask
    /\ i \in present \cap Managed
    /\ row[i].stock <= row[i].min
    /\ unread[i] = 0
    /\ alerting' = alerting \cup {i}
    /\ UNCHANGED <<present, row, movements, transfers, openings, unread,
                   events, lock, pc, call>>

TaskNotifies(i) ==
    /\ i \in alerting
    /\ alerting' = alerting \ {i}
    /\ unread' = [unread EXCEPT ![i] = @ + 1]
    /\ UNCHANGED <<present, row, movements, transfers, openings, events, lock,
                   pc, call>>

\* Nothing is left to do.
AllFinished ==
    /\ \A c \in Calls : pc[c] \in Finished
    /\ UNCHANGED vars

------------------------------------------------------------------------------
Begin(c) == \/ BeginMovement(c) \/ BeginTransfer(c) \/ BeginOpening(c)
            \/ BeginUpdate(c) \/ AddItem(c)

Step(c) == \/ CheckOpening(c) \/ LockSource(c) \/ LockDestination(c)
           \/ Write(c) \/ Refuse(c) \/ Commit(c) \/ SaveItem(c) \/ Announce(c)
           \/ AbortVictim(c)

Next == \/ \E c \in Calls : Begin(c) \/ Step(c) \/ Crash(c)
        \/ \E i \in Items : MarkRead(i) \/ TaskLooks(i) \/ TaskNotifies(i)
        \/ AllFinished

Spec == Init /\ [][Next]_vars

\* A worker keeps executing the call it has begun, and the database looks for
\* deadlocks (deadlock_timeout).  No call has to begin, none has to crash.
FairSpec == Spec /\ \A c \in Calls : WF_vars(Step(c))

------------------------------------------------------------------------------
TypeOK ==
    /\ present \subseteq Items
    /\ row \in [Items -> Row]
    /\ movements \subseteq Movement
    /\ transfers \subseteq Transfer
    /\ openings \subseteq Opening
    /\ unread \in [Items -> Nat]
    /\ alerting \subseteq Items
    /\ events \subseteq Alert
    /\ lock \in [Items -> Calls \cup {NoCall}]
    /\ pc \in [Calls -> Stages]
    /\ call \in [Calls -> CallRecord]

\* Stock is never negative unless ALLOW_NEGATIVE_STOCK: the check made on the
\* locked row still holds when the F expression is applied at the commit
\* (record_stock_movement, transfer_stock), whatever other calls do between
\* and whatever stale row an edit of the item writes back.
NoNegativeStock ==
    ~AllowNegativeStock => \A i \in present : row[i].stock >= 0

\* A transfer row has its two movements, of its quantity, at its two items in
\* different stores; and no transfer movement exists without its transfer row.
\* A crash, a refusal or a deadlock between the two legs leaves neither.
TransfersArePaired ==
    /\ \A t \in transfers :
         /\ StoreOf[t.source] # StoreOf[t.dest]
         /\ \A type \in {"transfer_out", "transfer_in"} :
              \E m \in movements :
                 /\ m.transfer = t.by /\ m.type = type
                 /\ m.quantity = t.quantity
                 /\ m.item = IF type = "transfer_out" THEN t.source ELSE t.dest
    /\ \A m \in movements :
         m.type \in {"transfer_out", "transfer_in"} =>
            \E t \in transfers :
               /\ t.by = m.transfer /\ t.quantity = m.quantity
               /\ m.item = IF m.type = "transfer_out" THEN t.source ELSE t.dest
    /\ \A m, n \in movements :
         m.transfer # NoCall /\ m.transfer = n.transfer /\ m.type = n.type
            => m = n

\* One opening per item and month, with one OPENING movement of its own: the
\* call that loses the race leaves no movement behind (record_monthly_opening).
OneOpeningPerMonth ==
    /\ \A o, p \in openings : o.item = p.item /\ o.month = p.month => o = p
    /\ \A m \in movements : m.month # NoMonth =>
         \E o \in openings : /\ o.by = m.by /\ o.item = m.item
                             /\ o.month = m.month /\ o.quantity = m.quantity
    /\ \A o \in openings :
         \E m \in movements : m.by = o.by /\ m.month = o.month

\* Notifications of an item that are unread or about to be inserted.
Alerts(i) == unread[i] + (IF i \in alerting THEN 1 ELSE 0)

AlertLimit == IF LowStockTask THEN 2 ELSE 1

\* Repeated low-stock alerts coalesce, although no constraint says so and
\* notify() looks before it inserts: the item's row lock lets one movement at
\* a time do that, and only the periodic task, which takes no lock, can race
\* it and add a second unread notification.  No interleaving adds a third.
FewUnreadAlerts ==
    /\ \A i \in Items : Alerts(i) <= AlertLimit
    /\ alerting # {} => LowStockTask

\* StockLow is announced only for a movement that is committed, with the stock
\* that movement left; a rolled back transaction announces nothing.
AnnouncedIsCommitted ==
    \A e \in events : \E m \in movements : m.by = e.by /\ m.item = e.item

\* Types; stock is never negative; and a month is opened once. Two requests
\* that check the same item or month at once would each find what they need.
LedgerOK == TypeOK /\ NoNegativeStock /\ OneOpeningPerMonth

\* An item's alerts coalesce, and a movement that was rolled back has none.
AlertsOK == FewUnreadAlerts /\ AnnouncedIsCommitted

\* Calls that wait for each other's rows are never stuck: every call that has
\* begun comes to an end.
BegunCallsFinish ==
    \A c \in Calls : pc[c] # "idle" ~> pc[c] \in Finished

\* What the movement rows of an item add up to.
Balance(i) ==
    MapThenSumSet(Effect, {m \in movements : m.item = i})

\* The running balance is the sum of the item's history: concurrent movements
\* and transfers never lose an update of current_stock (store_services.py:4-6).
LedgerMatchesStock == \A i \in present : row[i].stock = Balance(i)

NewRowsOf(i) == {m \in movements' \ movements : m.item = i}

StockIsExplained(i) ==
    \/ NewRowsOf(i) = {} /\ row'[i].stock = row[i].stock
    \/ \E m \in NewRowsOf(i) : /\ NewRowsOf(i) = {m}
                               /\ row'[i].stock = row[i].stock + Effect(m)

\* The stock of an item changes only together with the one movement row that
\* says by how much: what update_store_item's docstring states of current_stock.
StockMovesWithLedger == [][\A i \in present : StockIsExplained(i)]_vars

\* An edit saves the stock its endpoint loaded, and no movement.
IsWrittenBack(i) ==
    /\ NewRowsOf(i) = {}
    /\ \E c \in Calls : /\ pc[c] = "save" /\ pc'[c] = "ok"
                        /\ call[c].op = "update" /\ call[c].item = i
                        /\ row'[i].stock = call[c].seen.stock

\* Nothing else changes stock without its movement: whatever is done at once,
\* what the history does not explain is what an edit wrote back.
OnlyEditsAreUnexplained ==
    [][\A i \in present : StockIsExplained(i) \/ IsWrittenBack(i)]_vars

------------------------------------------------------------------------------
(* The inductive invariant: the properties above, and what each stage of a  *)
(* call has established.                                                    *)

\* Past a lock statement, a call holds that lock.
LocksHeld ==
    \A c \in Calls :
      /\ pc[c] \in {"lockDestination", "write", "commit"} =>
            lock[call[c].item] = c
      /\ pc[c] \in {"write", "commit"} /\ IsTransfer(c) =>
            lock[call[c].dest] = c

\* What the checks before the transaction leave of a call's arguments.
ArgumentsChecked ==
    \A c \in Calls : pc[c] \in InTransaction =>
      /\ call[c].op \in {"movement", "transfer", "opening", "update"}
      /\ call[c].op \in Operations
      /\ call[c].item \in present /\ call[c].dest \in present
      /\ call[c].op # "update" => call[c].quantity \in Quantities
      /\ pc[c] = "save" <=> call[c].op = "update"
      /\ pc[c] = "checkOpening" => call[c].op = "opening"
      /\ pc[c] = "lockDestination" => IsTransfer(c)
      /\ IsTransfer(c) => /\ call[c].quantity > 0
                          /\ StoreOf[call[c].item] # StoreOf[call[c].dest]
      /\ call[c].op = "movement" => call[c].type \in RequestableTypes
      /\ call[c].op = "opening" => /\ call[c].type = "opening"
                                  /\ call[c].month \in Months
      /\ call[c].op # "opening" => call[c].month = NoMonth

\* What Write checked is still true when the transaction commits.
ChecksHoldAtCommit ==
    \A c \in Calls : pc[c] = "commit" =>
      /\ MayWrite(c)
      /\ \A i \in call[c].note : i \in TouchedBy(c) /\ Alerts(i) < AlertLimit
      /\ \A e \in call[c].low : e.by = c /\ e.item \in TouchedBy(c)

\* A row that an edit will write back was not negative when it was loaded.
LoadedNotNegative ==
    ~AllowNegativeStock =>
      \A c \in Calls : pc[c] = "save" => call[c].seen.stock >= 0

Committed(c) == pc[c] \in {"announce", "ok", "failed"}

\* Rows come from committed calls only, and name them.
RowsAreCommitted ==
    /\ \A m \in movements :
         /\ m.by \in Calls => Committed(m.by)
         /\ m.transfer \in {NoCall, m.by}
         /\ m.transfer # NoCall <=> m.type \in {"transfer_out", "transfer_in"}
    /\ \A t \in transfers : Committed(t.by)
    /\ \A o \in openings : Committed(o.by)
    /\ \A c \in Calls : pc[c] = "announce" =>
         \A e \in call[c].low :
            \E m \in movements : m.by = e.by /\ m.item = e.item

IInv == /\ TypeOK
        /\ LocksHeld
        /\ ArgumentsChecked
        /\ ChecksHoldAtCommit
        /\ LoadedNotNegative
        /\ RowsAreCommitted
        /\ NoNegativeStock
        /\ TransfersArePaired
        /\ OneOpeningPerMonth
        /\ FewUnreadAlerts
        /\ AnnouncedIsCommitted

------------------------------------------------------------------------------
Book == INSTANCE StockBook WITH
            known <- present,
            balance <- [i \in Items |-> row[i].stock],
            monthly <- {<<o.item, o.month>> : o \in openings}

\* Where no call edits an item's metadata, the requests with their locks and
\* transactions are an implementation of the atomic book.
ImplementsBook == Book!Spec
==============================================================================
