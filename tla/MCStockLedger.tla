---------------------------- MODULE MCStockLedger ----------------------------
(* Instances of StockLedger for TLC: one product at two stores, and an item *)
(* that is added while calls run.                                           *)
EXTENDS StockLedger, TLC

CONSTANTS i1, i2, i3, s1, s2, p1, p2, c1, c2, c3

MCStoreOf == [i \in Items |-> IF i = i1 THEN s1 ELSE s2]
MCStock == [i \in Items |-> 2]
Meta(product, min) == [product |-> product, min |-> min, active |-> TRUE]
MCMeta == [i \in Items |-> Meta(p1, 1)]
MCEdits == {Meta(p2, 1), [product |-> p1, min |-> 1, active |-> FALSE]}
MCSignedQuantities == {-2, 0, 1, 2}

CallSymmetry == Permutations(Calls)

\* The running balance is the sum of the item's history, where clients also
\* edit the item's metadata.
CurrentStockOnlyByMovements == LedgerMatchesStock

\* docs/store-management-workflow.md says an inter-store transfer "creates both
\* the transfer-out and transfer-in movements": the database never refuses the
\* statements of a transfer whose request passed every check.
TransferStatementsRun == \A c \in Calls : pc[c] # "error"
==============================================================================
