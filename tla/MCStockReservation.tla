------------------------ MODULE MCStockReservation --------------------------
(* Small instances of StockReservation for TLC.                            *)
EXTENDS StockReservation, TLC

Symmetry == Permutations(Calls) \cup Permutations(Customers)
=============================================================================
