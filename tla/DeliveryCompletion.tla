------------------------- MODULE DeliveryCompletion -------------------------
(***************************************************************************)
(* The last part of a delivery, once the order is ready: claims of the     *)
(* couriers, manual assignment from the dashboard, the vendor who carries  *)
(* the order himself, the hand-off with the customer's code, the proof     *)
(* left when the customer is absent and its reviews, and the transfer of   *)
(* the delivery share to the courier.  All these handlers read a document, *)
(* wait, and save only the fields they changed; any number of them may be  *)
(* between its read and its save.                                          *)
(***************************************************************************)
EXTENDS Naturals, FiniteSets

CONSTANTS
  Agents,        \* couriers, each with a Stripe account of his own
  Vendor,        \* the vendor, who may deliver an order himself
  Calls,         \* handlers that can be under way at a time
  MaxRequests,   \* bound: requests made, those of the crons included
  MaxFailures,   \* bound: handlers cut short by an error or a restart,
                 \* payouts put off
  MaxStripe,     \* bound: failed listings of transfers, conflicting
                 \* requests, amounts that moved between two payouts
  None

Couriers == Agents \cup {Vendor}

ASSUME ConstantsAssumption ==
  /\ IsFiniteSet(Agents) /\ IsFiniteSet(Calls)
  /\ Vendor \notin Agents /\ None \notin Couriers
  /\ MaxRequests \in Nat /\ MaxFailures \in Nat /\ MaxStripe \in Nat

VARIABLES
  order,      \* status, assignedDeliveryUser, pendingDeliveryProofId set or
              \* not, stripeDeliveryTransferId
  proof,      \* the one proof of the order: its status and its courier
  call,       \* handler -> what it is doing and what it has read
  transfers,  \* the transfers of the delivery share that exist at Stripe
  count,      \* what the bounds count
  late        \* history: a submission of a proof outlived its assignment

vars == <<order, proof, call, transfers, count, late>>

(* The account, the amount (the share as it was first computed, or any     *)
(* other), and the kind of idempotency key it was made with.               *)
Transfers == [to: Couriers, amount: {"whole", "rest"}, key: {"base", "retry"}]

Active == {"submitted", "confirmed", "disputed"}
Steps == {"idle", "release", "assign", "reassign", "unlink", "handoff",
          "vendor_handoff", "find", "put", "link", "answer", "finalize",
          "complete", "complete_save", "close", "pay", "remaining", "list",
          "create", "relist", "retry", "record"}
Verdicts == {"confirmed", "disputed", "rejected", "approved"}

Idle == [pc |-> "idle", agent |-> None, seen |-> None, answer |-> "approved",
         found |-> FALSE, amount |-> "whole", made |-> None]

Orders == [status: {"approved", "shipped", "completed"},
           courier: Couriers \cup {None}, linked: BOOLEAN,
           transfer: Transfers \cup {None}]
Proofs == [status: Active \cup {"none", "approved", "rejected"},
           agent: Couriers \cup {None}]
Handlers == [pc: Steps, agent: Couriers \cup {None},
             seen: Couriers \cup {None}, answer: Verdicts, found: BOOLEAN,
             amount: {"whole", "rest"}, made: Transfers \cup {None}]

TypeOK ==
  /\ order \in Orders /\ proof \in Proofs /\ call \in [Calls -> Handlers]
  /\ transfers \subseteq Transfers
  /\ count \in [requests: 0..MaxRequests, failures: 0..MaxFailures,
                stripe: 0..MaxStripe]
  /\ late \in BOOLEAN

Init ==
  /\ order = [status |-> "approved", courier |-> None, linked |-> FALSE,
              transfer |-> None]
  /\ proof = [status |-> "none", agent |-> None]
  /\ call = [h \in Calls |-> Idle]
  /\ transfers = {}
  /\ count = [requests |-> 0, failures |-> 0, stripe |-> 0]
  /\ late = FALSE

-----------------------------------------------------------------------------
(* Helpers                                                                 *)

At(h, label) == call[h].pc = label
Become(h, r) == call' = [call EXCEPT ![h] = r]
Go(h, label) == call' = [call EXCEPT ![h].pc = label]
Return(h) == Become(h, Idle)
Count(k) == count' = [count EXCEPT ![k] = @ + 1]

Request(h) ==
  /\ At(h, "idle") /\ count.requests < MaxRequests
  /\ Count("requests")

(* A request whose first read lets it go on to the step pc.                *)
Begin(h, pc, agent) ==
  /\ Request(h)
  /\ Become(h, [Idle EXCEPT !.pc = pc, !.agent = agent, !.seen = order.courier])
  /\ UNCHANGED <<order, proof, transfers>>

(* An exception, or the restart of the process: what is done stays done.   *)
Cut(h) ==
  /\ ~At(h, "idle") /\ count.failures < MaxFailures
  /\ Count("failures") /\ Return(h)
  /\ UNCHANGED <<order, proof, transfers>>

-----------------------------------------------------------------------------
(* Who carries the order                                                   *)

(* Mutant: the claim does not purge what the former courier left.          *)
ClaimKeepsLink(h, a) ==
  /\ Request(h)
  /\ order.status = "approved" /\ order.courier = None
  /\ order' = [order EXCEPT !.status = "shipped", !.courier = a]
  /\ UNCHANGED <<proof, call, transfers>>

(* assignSelfToOrder ends in one conditional update.                       *)
Claim(h, a) ==
  /\ Request(h)
  /\ order.status = "approved" /\ order.courier = None
  /\ order' = [order EXCEPT !.status = "shipped", !.courier = a,
                            !.linked = FALSE]
  /\ UNCHANGED <<proof, call, transfers>>

(* unassignOrderFromLivreur by the dashboard, abandonOrderDelivery by the  *)
(* courier: only a shipped order is given back.                            *)
ReleaseRead(h, a) ==
  /\ order.status = "shipped" /\ a \in {None, order.courier}
  /\ Begin(h, "release", a)

Release(h) ==
  /\ At(h, "release")
  /\ order' = [order EXCEPT !.status = "approved",
       !.courier = IF call[h].seen = None THEN @ ELSE None]
  /\ Return(h)
  /\ UNCHANGED <<proof, transfers, count>>

(* assignOrderToAppDeliveryUser.                                           *)
AssignRead(h, b) ==
  /\ order.status = "approved" /\ order.courier \in {None, b}
  /\ Begin(h, "assign", b)

Assign(h) ==
  /\ At(h, "assign")
  /\ order' = [order EXCEPT !.status = "shipped",
       !.courier = IF call[h].seen = call[h].agent THEN @ ELSE call[h].agent]
  /\ Go(h, "unlink")
  /\ UNCHANGED <<proof, transfers, count>>

(* reassignOrderToLivreur saves the courier alone.                         *)
ReassignRead(h, b) ==
  /\ order.status = "shipped" /\ order.courier # b
  /\ Begin(h, "reassign", b)

Reassign(h) ==
  /\ At(h, "reassign")
  /\ order' = [order EXCEPT !.courier = call[h].agent]
  /\ Go(h, "unlink")
  /\ UNCHANGED <<proof, transfers, count>>

(* assignVendorSelfDelivery: the vendor takes an order that is ready, or   *)
(* takes over a shipped one; its save is that of the one or the other.     *)
SelfAssignRead(h) ==
  \/ order.courier \in {None, Vendor} /\ order.status = "approved"
     /\ Begin(h, "assign", Vendor)
  \/ order.courier # Vendor /\ order.status = "shipped"
     /\ Begin(h, "reassign", Vendor)

(* A second write purges what the former courier left on the order.        *)
Unlink(h) ==
  /\ At(h, "unlink")
  /\ order' = [order EXCEPT !.linked = FALSE]
  /\ Return(h)
  /\ UNCHANGED <<proof, transfers, count>>

-----------------------------------------------------------------------------
(* Hand-off with the customer's code                                       *)

HandoffRead(h, a) ==
  /\ order.status = "shipped" /\ order.courier = a
  /\ Begin(h, "handoff", a)

(* confirmPickupByCode: the vendor closes the delivery himself.            *)
VendorHandoffRead(h) ==
  /\ order.status \in {"approved", "shipped"}
  /\ Begin(h, "vendor_handoff", Vendor)

(* Both start the payout of the courier.                                   *)
Handoff(h) ==
  /\ call[h].pc \in {"handoff", "vendor_handoff"}
  /\ order' = [order EXCEPT !.status = "completed",
       !.courier = IF At(h, "vendor_handoff") /\ call[h].seen = None
                   THEN Vendor ELSE @]
  /\ Become(h, [Idle EXCEPT !.pc = "pay"])
  /\ UNCHANGED <<proof, transfers, count>>

-----------------------------------------------------------------------------
(* The proof of a customer's absence                                       *)

(* submitCustomerAbsent loads the order, looks for a proof, uploads the    *)
(* photographs, writes the proof whatever became of it, links it.          *)
SubmitLoad(h, a) ==
  /\ order.status = "shipped" /\ order.courier = a
  /\ Begin(h, "find", a)

SubmitFind(h) ==
  /\ At(h, "find")
  /\ Become(h, [call[h] EXCEPT !.pc = "put", !.found = proof.status # "none"])
  /\ UNCHANGED <<order, proof, transfers, count>>

(* The unique index makes the loser of two first submissions link the      *)
(* other's proof, unless that one is rejected already.                     *)
SubmitPut(h) ==
  /\ At(h, "put")
  /\ IF call[h].found \/ proof.status = "none"
     THEN /\ proof' = [status |-> "submitted", agent |-> call[h].agent]
          /\ Go(h, "link")
     ELSE /\ IF proof.status = "rejected" THEN Return(h) ELSE Go(h, "link")
          /\ UNCHANGED proof
  /\ UNCHANGED <<order, transfers, count>>

SubmitLink(h) ==
  /\ At(h, "link")
  /\ order' = [order EXCEPT !.linked = TRUE]
  /\ Return(h)
  /\ UNCHANGED <<proof, transfers, count>>

(* confirmByCustomer, disputeByCustomer, and the rejection by an admin.    *)
Answers(from) ==
  CASE from = "submitted" -> {"confirmed", "disputed"}
    [] from = "confirmed" -> {"rejected"}
    [] OTHER -> {}
AnswerRead(h, v) ==
  /\ v \in Answers(proof.status)
  /\ Request(h)
  /\ Become(h, [Idle EXCEPT !.pc = "answer", !.answer = v])
  /\ UNCHANGED <<order, proof, transfers>>

Answer(h) ==
  /\ At(h, "answer")
  /\ proof' = [proof EXCEPT !.status = call[h].answer]
  /\ Return(h)
  /\ UNCHANGED <<order, transfers, count>>

(* closeByAdmin takes any active proof; the approval of a review and the   *)
(* automatic closing after seven days take one of them.                    *)
CloseRead(h) ==
  /\ proof.status \in Active
  /\ Request(h)
  /\ Become(h, [Idle EXCEPT !.pc = "finalize"])
  /\ UNCHANGED <<order, proof, transfers>>

(* An order that is not shipped is not completed, the proof is closed.     *)
Finalize(h) ==
  /\ At(h, "finalize")
  /\ Go(h, IF order.status = "shipped" THEN "complete" ELSE "close")
  /\ UNCHANGED <<order, proof, transfers, count>>

(* completeDeliveryFromPendingProof reads the order again.                 *)
Complete(h) ==
  /\ At(h, "complete")
  /\ CASE order.status = "completed" -> Go(h, "close")
       [] order.status = "approved"  -> Return(h)
       [] OTHER                      -> Go(h, "complete_save")
  /\ UNCHANGED <<order, proof, transfers, count>>

CompleteSave(h) ==
  /\ At(h, "complete_save")
  /\ order' = [order EXCEPT !.status = "completed"]
  /\ Become(h, [call[h] EXCEPT !.pc = "close", !.found = TRUE])
  /\ UNCHANGED <<proof, transfers, count>>

(* The payout runs beside the closing; it is shown after it.               *)
Close(h) ==
  /\ At(h, "close")
  /\ proof' = [proof EXCEPT !.status = "approved"]
  /\ IF call[h].found THEN Become(h, [Idle EXCEPT !.pc = "pay"]) ELSE Return(h)
  /\ UNCHANGED <<order, transfers, count>>

-----------------------------------------------------------------------------
(* transferDeliveryShareForCompletedOrder                                  *)

(* An administrator pays an assigned order, whatever its status; the       *)
(* settling pass retries a completed order without a transfer.             *)
PayByAdmin(h) ==
  /\ order.courier # None
  /\ Begin(h, "pay", None)

(* Mutant: an order that has a transfer at Stripe counts as settled.       *)
UnsettledUnpaid == /\ order.status = "completed" /\ order.courier # None
                   /\ transfers = {}

Unsettled == /\ order.status = "completed" /\ order.courier # None
             /\ order.transfer = None
SettlePass(h) ==
  /\ At(h, "idle") /\ Unsettled
  /\ Become(h, [Idle EXCEPT !.pc = "pay"])
  /\ UNCHANGED <<order, proof, transfers, count, late>>

(* Mutant: nobody looks whether the order still has a courier.             *)
PayLoadUnassigned(h) ==
  /\ At(h, "pay")
  /\ IF order.transfer # None THEN Return(h)
     ELSE Become(h, [Idle EXCEPT !.pc = "remaining", !.agent = order.courier])
  /\ UNCHANGED <<order, proof, transfers, count>>

PayLoad(h) ==
  /\ At(h, "pay")
  /\ IF order.transfer # None \/ order.courier = None THEN Return(h)
     ELSE Become(h, [Idle EXCEPT !.pc = "remaining", !.agent = order.courier])
  /\ UNCHANGED <<order, proof, transfers, count>>

(* No payout: the charge is not resolved, nothing is left of the share, or *)
(* the courier's account is not ready.                                     *)
PaySkip(h) ==
  /\ At(h, "remaining") /\ count.failures < MaxFailures
  /\ Count("failures") /\ Return(h)
  /\ UNCHANGED <<order, proof, transfers>>

(* The amount depends on what is left on the charge, which a transfer of   *)
(* the share lowers, and on the other transfers of the charge, settings    *)
(* and a cached fee, which change between two payouts a bounded number of  *)
(* times.                                                                  *)
PayRemaining(h) ==
  /\ At(h, "remaining")
  /\ \E m \in {"whole", "rest"} :
       /\ Become(h, [call[h] EXCEPT !.pc = "list", !.amount = m])
       /\ IF m = "whole" \/ transfers # {} THEN UNCHANGED count
          ELSE count.stripe < MaxStripe /\ Count("stripe")
  /\ UNCHANGED <<order, proof, transfers>>

Made(h, key) == [to |-> call[h].agent, amount |-> call[h].amount, key |-> key]
Record(h, t) == Become(h, [call[h] EXCEPT !.pc = "record", !.made = t])
Found(h, known, otherwise) ==
  \/ \E t \in known : Record(h, t)
  \/ known = {} /\ Go(h, otherwise)

(* Mutant: only a transfer of the same amount is recognised.               *)
PayListSameAmount(h) ==
  /\ At(h, "list")
  /\ Found(h, {t \in transfers : t.amount = call[h].amount}, "create")
  /\ UNCHANGED <<order, proof, transfers, count>>

(* findExistingConnectTransfer: any transfer of the order is taken for     *)
(* the one to make, whatever its destination.                              *)
PayList(h) ==
  /\ At(h, "list")
  /\ Found(h, transfers, "create")
  /\ UNCHANGED <<order, proof, transfers, count>>

Stripe(h, label, next) ==
  /\ At(h, label) /\ count.stripe < MaxStripe
  /\ Count("stripe") /\ Go(h, next)
  /\ UNCHANGED <<order, proof, transfers>>

(* A listing that fails is logged and counts as an empty one.              *)
PayListFails(h) == Stripe(h, "list", "create") \/ Stripe(h, "relist", "retry")

(* Two requests with one idempotency key, which holds the account and the  *)
(* amount, make one transfer.                                              *)
PayCreate(h) ==
  /\ At(h, "create")
  /\ transfers' = transfers \cup {Made(h, "base")}
  /\ Record(h, Made(h, "base"))
  /\ UNCHANGED <<order, proof, count>>

(* The key is in use by a request under way: taken for a mismatch, it is   *)
(* followed by a new listing, and a request with a key of its own.         *)
PayConflict(h) ==
  /\ \E g \in Calls \ {h} : At(g, "create") /\ Made(g, "base") = Made(h, "base")
  /\ Stripe(h, "create", "relist")

(* Mutant: the request under way is taken for granted.                     *)
PayRelistTrusts(h) ==
  /\ At(h, "relist") /\ Record(h, Made(h, "base"))
  /\ UNCHANGED <<order, proof, transfers, count>>

PayRelist(h) ==
  /\ At(h, "relist")
  /\ Found(h, transfers, "retry")
  /\ UNCHANGED <<order, proof, transfers, count>>

PayRetry(h) ==
  /\ At(h, "retry")
  /\ transfers' = transfers \cup {Made(h, "retry")}
  /\ Record(h, Made(h, "retry"))
  /\ UNCHANGED <<order, proof, count>>

PayRecord(h) ==
  /\ At(h, "record")
  /\ order' = [order EXCEPT !.transfer = call[h].made]
  /\ Return(h)
  /\ UNCHANGED <<proof, transfers, count>>

-----------------------------------------------------------------------------
Ask(h) ==
  \/ \E a \in Agents : Claim(h, a) \/ HandoffRead(h, a) \/ SubmitLoad(h, a)
                       \/ AssignRead(h, a) \/ ReassignRead(h, a)
  \/ \E a \in Agents \cup {None} : ReleaseRead(h, a)
  \/ \E v \in Verdicts : AnswerRead(h, v)
  \/ SelfAssignRead(h) \/ VendorHandoffRead(h) \/ CloseRead(h) \/ PayByAdmin(h)

Pay(h) ==
  \/ PayLoad(h) \/ PayRemaining(h) \/ PayList(h) \/ PayCreate(h)
  \/ PayRelist(h) \/ PayRetry(h) \/ PayRecord(h)

(* A courier is still submitting a proof for an order no longer his.       *)
Outlived == \E h \in Calls : /\ call[h].pc \in {"find", "put", "link"}
                             /\ call[h].agent # order.courier
Track == late' = (late \/ Outlived')

Serve(h) ==
  /\ \/ Release(h) \/ Assign(h) \/ Reassign(h) \/ Unlink(h) \/ Handoff(h)
     \/ SubmitFind(h) \/ SubmitPut(h) \/ SubmitLink(h) \/ Answer(h)
     \/ Finalize(h) \/ Complete(h) \/ CompleteSave(h) \/ Close(h) \/ Pay(h)
  /\ Track

Next == \E h \in Calls :
  \/ Serve(h) \/ SettlePass(h)
  \/ /\ Ask(h) \/ Cut(h) \/ PaySkip(h) \/ PayListFails(h) \/ PayConflict(h)
     /\ Track

Spec == Init /\ [][Next]_vars

(* A handler goes on with what it began.                                   *)
FairSpec == Spec /\ \A h \in Calls : WF_vars(Serve(h))

-----------------------------------------------------------------------------
(* Properties                                                              *)

(* Whatever calls overlap (two completions, the settling pass, an          *)
(* administrator, reassignments), no courier is sent the delivery share    *)
(* twice, unless a listing at Stripe failed, two requests collided, or the *)
(* amount moved between two payouts that both found nothing.               *)
NoCourierPaidTwice ==
  count.stripe = 0 => \A t, u \in transfers : t.to = u.to => t = u

(* "evite un double versement": the share is transferred once.             *)
PaidOnce == Cardinality(transfers) <= 1

(* The transfer an order names is one that was made.                       *)
RecordedTransferExists == order.transfer # None => order.transfer \in transfers

(* "meme quand la cle d'idempotency change (montant / compte Connect)":    *)
(* once the share is transferred and the payouts that had found no         *)
(* transfer have ended, no payout transfers it again, whoever has reopened *)
(* the order, or carries it now, and whatever the amount has become; only  *)
(* a failed listing lets one try.                                          *)
Settled == /\ transfers # {}
           /\ \A h \in Calls : call[h].pc \notin {"create", "retry"}
NeverPaidAgain ==
  [][Settled => \/ Settled' /\ UNCHANGED transfers
                \/ \E h \in Calls : PayListFails(h)]_vars

(* "Sans cette purge, une preuve submitted d'une tentative precedente      *)
(* exclut la nouvelle course active": the order a courier carries is never *)
(* excluded from his active orders by the proof of another, unless that    *)
(* other's submission outlived his assignment or a handler was cut short   *)
(* between its two writes.                                                 *)
StaleProofPurged ==
  (/\ count.failures = 0 /\ ~late
   /\ \A h \in Calls : ~At(h, "unlink")
   /\ order.status = "shipped" /\ order.linked) => proof.agent = order.courier

(* A delivered order that keeps its courier ends up with its transfer      *)
(* recorded, whatever failed on the way, as long as the settling pass goes *)
(* on selecting it: the pass takes the thirty latest orders of two weeks.  *)
Selected == WF_vars(\E h \in Calls : SettlePass(h))
CourierIsPaid ==
  Selected /\ <>[](order.status = "completed" /\ order.courier # None)
    => <>(order.transfer # None)
=============================================================================
