----------------------- MODULE MCCheckoutFulfillment ------------------------
(* Small instances of CheckoutFulfillment for TLC.                         *)
EXTENDS CheckoutFulfillment, TLC

Symmetry == Permutations(Calls \ (Clients \cup SessionEvents)) \cup Permutations(Clients)
=============================================================================
