------------------------------ MODULE StockBook ------------------------------
(***************************************************************************)
(* What the inventory promises, without requests, locks or transactions:   *)
(* a balance per item that one posting, one monthly opening or one         *)
(* transfer changes at a time, each of them entirely or not at all, and    *)
(* none on the strength of a balance that is no longer true.               *)
(***************************************************************************)
EXTENDS Integers

CONSTANTS Items, StoreOf, Months, Quantities, AllowNegativeStock,
          InitialItems, InitialStock

VARIABLES
    known,      \* the items that exist
    balance,    \* their balances
    monthly     \* <<item, month>> pairs that have their opening

vars == <<known, balance, monthly>>

Allows(i, delta) == balance[i] + delta >= 0 \/ AllowNegativeStock

Init ==
    /\ known = InitialItems
    /\ balance = InitialStock
    /\ monthly = {}

Add(i) ==
    /\ i \notin known
    /\ \E q \in Quantities : q >= 0 /\ balance' = [balance EXCEPT ![i] = q]
    /\ known' = known \cup {i}
    /\ UNCHANGED monthly

Post(i) ==
    /\ i \in known
    /\ \E q \in Quantities, sign \in {1, -1} :
         /\ Allows(i, sign * q)
         /\ balance' = [balance EXCEPT ![i] = @ + sign * q]
    /\ UNCHANGED <<known, monthly>>

OpenMonth(i, month) ==
    /\ i \in known
    /\ <<i, month>> \notin monthly
    /\ \E q \in Quantities :
         q > 0 /\ balance' = [balance EXCEPT ![i] = @ + q]
    /\ monthly' = monthly \cup {<<i, month>>}
    /\ UNCHANGED known

Move(i, j) ==
    /\ i \in known /\ j \in known
    /\ StoreOf[i] # StoreOf[j]
    /\ \E q \in Quantities :
         /\ q > 0
         /\ Allows(i, -q)
         /\ balance' = [balance EXCEPT ![i] = @ - q, ![j] = @ + q]
    /\ UNCHANGED <<known, monthly>>

Next == \/ \E i \in Items : Add(i) \/ Post(i)
        \/ \E i \in Items, month \in Months : OpenMonth(i, month)
        \/ \E i, j \in Items : Move(i, j)

Spec == Init /\ [][Next]_vars
==============================================================================
