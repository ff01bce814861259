------------------------- MODULE CourierAssignment --------------------------
(***************************************************************************)
(* What the assignment of one order promises, whatever runs underneath:    *)
(* at most one courier at a time holds an exclusive offer, the order has   *)
(* at most one courier, neither passes from one courier to another without *)
(* being given back first, and no offer is held for ever.                  *)
(***************************************************************************)
CONSTANTS Agents, None

VARIABLES
  courier,  \* the courier the order is assigned to
  holder    \* the courier whose offer is open

vars == <<courier, holder>>

Init == courier = None /\ holder = None

Offer(a) == holder = None /\ holder' = a /\ UNCHANGED courier
Close == holder # None /\ holder' = None /\ UNCHANGED courier
Claim(a) == courier = None /\ courier' = a /\ UNCHANGED holder
Release == courier # None /\ courier' = None /\ UNCHANGED holder

Next == Close \/ Release \/ \E a \in Agents : Offer(a) \/ Claim(a)

SafeSpec == Init /\ [][Next]_vars
Spec == SafeSpec /\ WF_vars(Close)
=============================================================================
