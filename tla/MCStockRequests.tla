--------------------------- MODULE MCStockRequests ---------------------------
(* Instances of StockRequests for TLC.                                      *)
EXTENDS StockRequests, TLC

WorkerSymmetry == Permutations(Workers)
==============================================================================
