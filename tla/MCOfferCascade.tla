--------------------------- MODULE MCOfferCascade ---------------------------
(* Small instances of OfferCascade for TLC.  Couriers are interchangeable  *)
(* when a configuration gives all of them the same rights, so are vendor   *)
(* calls of the same kind; no liveness property is checked with symmetry.  *)
EXTENDS OfferCascade, TLC

Symmetry == Permutations(Agents) \cup Permutations(VendorCalls \ Rejecters)
=============================================================================
