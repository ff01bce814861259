--------------------------- MODULE MCDomainEvents ---------------------------
(* Small instances of DomainEvents for TLC.                                *)
EXTENDS DomainEvents, TLC

Symmetry == Permutations(Publishers) \cup Permutations(Procs)
=============================================================================
