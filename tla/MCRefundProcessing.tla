------------------------ MODULE MCRefundProcessing -------------------------
(***************************************************************************)
(* Instances of RefundProcessing for TLC; the .cfg files choose the actors *)
(* and the bounds.                                                         *)
(***************************************************************************)
EXTENDS RefundProcessing, TLC

Symmetry ==
  Permutations(Rejects) \cup Permutations(Crons) \cup Permutations(Admins)
=============================================================================
