--------------------------- MODULE RefundRequest ----------------------------
(***************************************************************************)
(* What the refund of one order promises: a request is decided once, moves *)
(* only along the life cycle the administration sees, and is reported as   *)
(* completed only when the customer has been made whole.                   *)
(***************************************************************************)
VARIABLES
  request,  \* status of the latest request of the order
  whole     \* money is back: the authorization was released or a refund made

vars == <<request, whole>>

Init == request = "none" /\ whole = FALSE

Move(from, to) == request \in from /\ request' = to /\ UNCHANGED whole

Ask == Move({"none", "rejected", "completed"}, "pending")
Pause == Move({"pending"}, "paused")
Resume == Move({"paused"}, "pending")
Reject == Move({"pending", "paused"}, "rejected")
Approve == Move({"pending", "paused"}, "approved")
Fail == Move({"approved"}, "pending")
Complete == whole /\ Move({"approved"}, "completed")
PayBack == whole' = TRUE /\ UNCHANGED request

Next ==
  \/ Ask \/ Pause \/ Resume \/ Reject \/ Approve \/ Fail \/ Complete
  \/ PayBack

Spec == Init /\ [][Next]_vars
=============================================================================
