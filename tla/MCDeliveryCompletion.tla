------------------------ MODULE MCDeliveryCompletion ------------------------
(* Small instances of DeliveryCompletion for TLC.                          *)
EXTENDS DeliveryCompletion, TLC

Symmetry == Permutations(Agents) \cup Permutations(Calls)
=============================================================================
