------------------------ MODULE MCOfferCascadeParts -------------------------
(* One run asks two questions, each in a part of the state space of its    *)
(* own: what the crons of all processes and the couriers' claims do to one *)
(* mark-ready, and what two overlapping vendor calls, perhaps a rejection, *)
(* do in one process.  Which process serves the vendor does not matter.    *)
EXTENDS MCOfferCascade

Lead == CHOOSE p \in Procs : TRUE
Called == {v \in VendorCalls : job[v].pc # "idle"}
VendorAtLead == \A v \in Called : job[v].at \in {None, Lead}
OneMarkReady == Cardinality(Called) <= 1 /\ Called \cap Rejecters = {}
Busy == {t \in Threads : job[t].pc \notin {"idle", "done"}}
OneProcess ==
  /\ Cardinality(Called) <= 2 /\ Cardinality(Busy) <= 3
  /\ \A t \in Threads : job[t].at \in {None, Lead}
  /\ \A a \in Agents : job[a].pc \in ClaimSteps => job[a].offer # None

InPart == VendorAtLead /\ (OneMarkReady \/ OneProcess)
=============================================================================
