---------------------------- MODULE OfferCascade ----------------------------
(***************************************************************************)
(* The assignment of one ready-to-ship order to a courier of the store's   *)
(* own fleet: the cascade of exclusive offers, the direct claim, the       *)
(* automatic hard assignment, the expiry cron, the courier's abandon and   *)
(* the vendor's calls that open or close the window.                       *)
(*                                                                         *)
(* Every await of the TypeScript handlers is a step of its own: two        *)
(* requests interleave between their database operations.  A handler is a  *)
(* thread, its program counter is named after the operation it is about to *)
(* perform.  Reads and synchronous code that follow an operation up to the *)
(* next await belong to the step of that operation.                        *)
(***************************************************************************)
EXTENDS Naturals, Sequences, FiniteSets

CONSTANTS
  Agents,               \* couriers of the store's fleet
  VendorCalls,          \* requests of the vendor on this order, each made once
  Rejecters,            \* those that reject the order; the others mark it ready
  Procs,                \* API processes: each has its own queues and its cron
  MaxOffers,            \* bound: rows of delivery_order_offers for the order
  Handles,              \* bound: identities of live in-memory queue objects
  None,
  Mode,                 \* the store's deliveryAssignmentMode
  SelfDeliveryRequired, \* the store's policy: only members may claim
  Payable,              \* couriers that pass the checks only the claim makes:
                        \* Stripe onboarding, operating region, radius
  Fickle,               \* couriers whose availability may change
  Claimers,             \* couriers that claim the order directly
  Quitters,             \* couriers that abandon it once assigned
  MaxCrashes            \* bound: restarts of API processes

ASSUME ConstantsAssumption ==
  /\ IsFiniteSet(Agents)
  /\ Payable \subseteq Agents /\ Fickle \subseteq Agents
  /\ Claimers \subseteq Agents /\ Quitters \subseteq Agents
  /\ Mode \in {"AUTO", "SEMI_AUTO", "MANUAL"}
  /\ SelfDeliveryRequired \in BOOLEAN
  /\ MaxOffers \in Nat /\ MaxCrashes \in Nat
  /\ Agents \cap VendorCalls = {} /\ Agents \cap Procs = {}
  /\ VendorCalls \cap Procs = {} /\ Rejecters \subseteq VendorCalls
  /\ None \notin Agents \cup Procs \cup Handles \cup (1..MaxOffers)

OfferIds == 1..MaxOffers

(* A courier has one request under way at a time; the cron of process p is *)
(* the thread p itself.                                                    *)
Threads == Agents \cup VendorCalls \cup Procs

VARIABLES
  order,      \* the order document: status, courier, activeOffer
  offers,     \* the rows of delivery_order_offers, "free" when unused
  available,  \* courier -> approved, online and below its capacity
  cascade,    \* process -> handle of the order's entry in cascadeByOrderId
  queues,     \* handle -> the candidates not yet tried
  job,        \* thread -> the request it is executing
  settle,     \* courier -> step of a detached markAcceptedAfterDirectClaim
  signals,    \* what staff and the marketplace have been told
  crashes,    \* number of process restarts
  won,        \* history: couriers that ever won the order
  orphans     \* history: offers whose accept request a restart killed

vars == <<order, offers, available, cascade, queues, job, settle, signals,
          crashes, won, orphans>>

OrderStatus == {"paid", "approved", "shipped", "cancelled"}
OfferStatus ==
  {"free", "pending", "accepted", "rejected", "expired", "skipped", "cancelled"}
ClaimSteps ==
  {"claim_check", "claim_read_active", "claim_read_offer", "claim_write"}
NextSteps ==
  {"next_read", "next_rebuild", "next_take", "next_create", "next_publish",
   "exhaust", "exhaust_tell"}
Steps == ClaimSteps \cup NextSteps \cup
  {"idle", "done", "ready_save", "reject_save", "hard_rank", "start_cancel",
   "start_clear", "start_rank", "accept_claim", "accept_clear", "accept_undo",
   "decline_claim", "decline_clear", "expire_claim", "expire_clear",
   "abandon_save", "tell"}
Refusals == {"unavailable", "not_assignable", "exclusive", "mode", "lost"}

Idle == [pc |-> "idle", at |-> None, agent |-> None, offer |-> None,
         queue |-> None, read |-> None, seen |-> None, why |-> None]
Settled == [pc |-> "idle", at |-> None]

Orders == [status: OrderStatus, courier: Agents \cup {None},
           activeOffer: OfferIds \cup {None}]
Rows == [status: OfferStatus, agent: Agents \cup {None}, due: BOOLEAN]
Jobs == [pc: Steps, at: Procs \cup {None}, agent: Agents \cup {None},
         offer: OfferIds \cup {None}, queue: Handles \cup {None},
         read: OfferIds \cup {None}, seen: OfferIds \cup {None},
         why: Refusals \cup {None}]
Settlements == [pc: {"idle", "match", "clear", "cancel"}, at: Procs \cup {None}]

TypeOK ==
  /\ order \in Orders
  /\ offers \in [OfferIds -> Rows]
  /\ available \in [Agents -> BOOLEAN]
  /\ cascade \in [Procs -> Handles \cup {None}]
  /\ queues \in [Handles -> Seq(Agents)]
  /\ job \in [Threads -> Jobs]
  /\ settle \in [Agents -> Settlements]
  /\ signals \subseteq {"exhausted", "claimable"}
  /\ crashes \in 0..MaxCrashes
  /\ won \subseteq Agents
  /\ orphans \subseteq OfferIds

Init ==
  /\ order = [status |-> "paid", courier |-> None, activeOffer |-> None]
  /\ offers = [o \in OfferIds |->
                 [status |-> "free", agent |-> None, due |-> FALSE]]
  /\ available \in [Agents -> BOOLEAN]
  /\ \A a \in Agents \ Fickle : available[a]
  /\ cascade = [p \in Procs |-> None]
  /\ queues = [h \in Handles |-> <<>>]
  /\ job = [t \in Threads |-> Idle]
  /\ settle = [a \in Agents |-> Settled]
  /\ signals = {} /\ crashes = 0 /\ won = {} /\ orphans = {}

-----------------------------------------------------------------------------
(* Helpers                                                                 *)

At(t, label) == job[t].pc = label
Become(t, j) == job' = [job EXCEPT ![t] = j]
Goto(t, label) == Become(t, [job[t] EXCEPT !.pc = label])
Begin(p, label) == [Idle EXCEPT !.pc = label, !.at = p]
Ended(t) == IF t \in VendorCalls THEN [Idle EXCEPT !.pc = "done"] ELSE Idle

(* Where a finished call leaves its thread: mark-ready still notifies the  *)
(* marketplace (.finally), the other callers are done.                     *)
Return(t) ==
  Become(t, IF t \in VendorCalls THEN Begin(job[t].at, "tell") ELSE Idle)

Pending(o) == offers[o].status = "pending"
FreeIds == {o \in OfferIds : offers[o].status = "free"}
Fresh == CHOOSE o \in OfferIds : offers[o].status = "free"
Row(a, s) == [status |-> s, agent |-> a, due |-> s = "skipped"]
(* Mutant: only the couriers that answered count as asked.                 *)
AskedAnswered ==
  {offers[o].agent :
     o \in {q \in OfferIds : offers[q].status \in {"accepted", "rejected"}}}
(* Every courier with a row for the order, whatever became of it.          *)
Asked == {offers[o].agent : o \in OfferIds \ FreeIds}

(* An acceptOffer call past its write on the offer.                        *)
InAccept(a, o) ==
  /\ job[a].offer = o
  /\ job[a].pc \in ClaimSteps \cup {"accept_clear", "accept_undo"}

(* Mutant: the insert relies on the order's pointer instead of the index.  *)
MayInsertNoneActive == order.activeOffer = None

(* The unique partial index on pending rows lets the insert through.       *)
MayInsert == \A o \in OfferIds : ~Pending(o)

(* Mutant: the claim only looks at the status, not at the courier.         *)
UnclaimedByStatus == order.status \in {"approved", "shipped"}

(* claimFilter: the condition of the update that assigns the order.        *)
Unclaimed == order.status = "approved" /\ order.courier = None

(* updateMany { orderId, status: pending } -> status s.                    *)
ResolvePending(s) ==
  offers' = [o \in OfferIds |->
               IF Pending(o) THEN [offers[o] EXCEPT !.status = s]
               ELSE offers[o]]

(* rankCandidates: the available couriers in an order the costs decide.    *)
Rankings(S) == {r \in [1..Cardinality(S) -> S] :
                  \A i, j \in 1..Cardinality(S) : i # j => r[i] # r[j]}
Ready == {a \in Agents : available[a]}

(* The queue object of a cascade is shared by every call that got it from  *)
(* the map, and outlives its map entry while a call still holds it.        *)
Live(h) == \/ \E p \in Procs : cascade[p] = h
           \/ \E t \in Threads : job[t].queue = h
Swept(q) == [h \in Handles |-> IF Live(h)' THEN q[h] ELSE <<>>]
FreshHandle == CHOOSE h \in Handles : ~Live(h)

(* The guard of notifyClaimableOrder on the document it re-reads.          *)
Claimable ==
  IF /\ order.status = "approved" /\ order.courier = None
     /\ order.activeOffer = None /\ Mode # "MANUAL"
  THEN {"claimable"} ELSE {}

-----------------------------------------------------------------------------
(* Environment: the courier's availability, the clock, the vendor, crashes *)

Toggle(a) ==
  /\ a \in Fickle
  /\ available' = [available EXCEPT ![a] = ~@]
  /\ UNCHANGED <<order, offers, cascade, queues, job, settle, signals,
                 crashes, won, orphans>>

(* expiresAt passes.                                                       *)
Tick(o) ==
  /\ Pending(o) /\ ~offers[o].due
  /\ offers' = [offers EXCEPT ![o].due = TRUE]
  /\ UNCHANGED <<order, available, cascade, queues, job, settle, signals,
                 crashes, won, orphans>>

(* A restart of process p: its requests, its cron pass, its detached tasks *)
(* and its queues are gone; the documents stay.                            *)
Crash(p) ==
  /\ crashes < MaxCrashes
  /\ crashes' = crashes + 1
  /\ cascade' = [cascade EXCEPT ![p] = None]
  /\ job' = [t \in Threads |->
               IF job[t].at # p THEN job[t] ELSE Ended(t)]
  /\ settle' = [a \in Agents |-> IF settle[a].at = p THEN Settled ELSE settle[a]]
  /\ orphans' = orphans \cup
       {o \in OfferIds : \E a \in Agents : job[a].at = p /\ InAccept(a, o)}
  /\ UNCHANGED <<order, offers, available, signals, won>>
  /\ queues' = Swept(queues)

-----------------------------------------------------------------------------
(* The vendor: markOrderReady and rejectOrder read the order, then save it. *)

MarkReadyRead(v, p) ==
  /\ v \notin Rejecters /\ At(v, "idle") /\ order.status = "paid"
  /\ Become(v, Begin(p, "ready_save"))
  /\ UNCHANGED <<order, offers, available, cascade, queues, settle, signals,
                 crashes, won, orphans>>

(* The save, then dispatchAssignmentAfterMarkReady on the document in hand. *)
MarkReadySave(v) ==
  /\ At(v, "ready_save")
  /\ order' = [order EXCEPT !.status = "approved"]
  /\ Goto(v, CASE Mode = "AUTO" -> "hard_rank"
               [] Mode = "SEMI_AUTO" -> "start_cancel"
               [] OTHER -> "tell")
  /\ UNCHANGED <<offers, available, cascade, queues, settle, signals, crashes,
                 won, orphans>>

RejectOrderRead(v, p) ==
  /\ v \in Rejecters /\ At(v, "idle") /\ order.status \in {"paid", "approved"}
  /\ Become(v, Begin(p, "reject_save"))
  /\ UNCHANGED <<order, offers, available, cascade, queues, settle, signals,
                 crashes, won, orphans>>

RejectOrderSave(v) ==
  /\ At(v, "reject_save")
  /\ order' = [order EXCEPT !.status = "cancelled"]
  /\ Become(v, Ended(v))
  /\ UNCHANGED <<offers, available, cascade, queues, settle, signals, crashes,
                 won, orphans>>

Tell(t) ==
  /\ At(t, "tell")
  /\ signals' = signals \cup Claimable
  /\ Become(t, Ended(t))
  /\ UNCHANGED <<order, offers, available, cascade, queues, settle, crashes,
                 won, orphans>>

-----------------------------------------------------------------------------
(* tryHardAutoAssignAfterMarkReady and startCascadeAfterMarkReady          *)

(* AUTO: the first of the ranking is assigned by the system, through the   *)
(* same claim as a courier's; nobody available: the cascade.               *)
HardRank(v) ==
  /\ At(v, "hard_rank")
  /\ IF Ready = {} THEN Goto(v, "start_cancel")
     ELSE \E a \in Ready :
            Become(v, [job[v] EXCEPT !.pc = "claim_check", !.agent = a])
  /\ UNCHANGED <<order, offers, available, cascade, queues, settle, signals,
                 crashes, won, orphans>>

(* The guards of startCascade look at the document mark-ready saved, which *)
(* is approved and unassigned whatever happened since.                     *)
StartCancel(v) ==
  /\ At(v, "start_cancel")
  /\ ResolvePending("cancelled")
  /\ Goto(v, "start_clear")
  /\ UNCHANGED <<order, available, cascade, queues, settle, signals, crashes,
                 won, orphans>>

StartClear(v) ==
  /\ At(v, "start_clear")
  /\ order' = [order EXCEPT !.activeOffer = None]
  /\ cascade' = [cascade EXCEPT ![job[v].at] = None]
  /\ Goto(v, "start_rank")
  /\ UNCHANGED <<offers, available, settle, signals, crashes, won, orphans>>
  /\ queues' = Swept(queues)

(* The new queue object becomes the process's entry for the order.         *)
Enqueue(t, r, label) ==
  LET h == FreshHandle
  IN /\ \E g \in Handles : ~Live(g)
     /\ cascade' = [cascade EXCEPT ![job[t].at] = h]
     /\ Become(t, [job[t] EXCEPT
          !.pc = label, !.queue = IF label = "next_take" THEN h ELSE None])
     /\ queues' = Swept([queues EXCEPT ![h] = r])

StartRank(v) ==
  /\ At(v, "start_rank")
  /\ IF Ready = {}
     THEN Goto(v, "exhaust") /\ UNCHANGED <<cascade, queues>>
     ELSE \E r \in Rankings(Ready) : Enqueue(v, r, "next_read")
  /\ UNCHANGED <<order, offers, available, settle, signals, crashes, won,
                 orphans>>

-----------------------------------------------------------------------------
(* offerToNext and onCascadeExhausted                                      *)

NextRead(t) ==
  /\ At(t, "next_read")
  /\ IF order.status # "approved" \/ order.courier # None
     THEN Return(t)
     ELSE LET h == cascade[job[t].at]
          IN Become(t, [job[t] EXCEPT
               !.pc = IF h = None THEN "next_rebuild" ELSE "next_take",
               !.queue = h])
  /\ UNCHANGED <<order, offers, available, cascade, settle, signals, crashes,
                 won, orphans>>
  /\ queues' = Swept(queues)

(* No entry in this process: rank again, minus every courier that already  *)
(* has an offer row, whatever became of it.                                *)
NextRebuild(t) ==
  /\ At(t, "next_rebuild")
  /\ LET rest == Ready \ Asked
     IN IF rest = {} THEN Goto(t, "exhaust") /\ UNCHANGED <<cascade, queues>>
        ELSE \E r \in Rankings(rest) : Enqueue(t, r, "next_take")
  /\ UNCHANGED <<order, offers, available, settle, signals, crashes, won,
                 orphans>>

(* The next rank: isAgentStillEligible, or a row "skipped".                *)
NextTake(t) ==
  /\ At(t, "next_take")
  /\ UNCHANGED <<order, available, cascade, settle, signals, crashes, won,
                 orphans>>
  /\ LET h == job[t].queue
         a == Head(queues[h])
     IN IF queues[h] = <<>>
        THEN /\ Become(t, [job[t] EXCEPT !.pc = "exhaust", !.queue = None])
             /\ queues' = Swept(queues)
             /\ UNCHANGED offers
        ELSE /\ queues' = [queues EXCEPT ![h] = Tail(@)]
             /\ IF available[a]
                THEN /\ Become(t, [job[t] EXCEPT !.pc = "next_create",
                                              !.agent = a])
                     /\ UNCHANGED offers
                ELSE /\ FreeIds # {}
                     /\ offers' = [offers EXCEPT ![Fresh] = Row(a, "skipped")]
                     /\ UNCHANGED job

(* The insert: the unique partial index refuses a second pending row, and  *)
(* the candidate just taken is passed over.                                *)
NextCreate(t) ==
  /\ At(t, "next_create")
  /\ UNCHANGED <<order, available, cascade, settle, signals, crashes, won,
                 orphans>>
  /\ IF ~MayInsert
     THEN /\ Become(t, [job[t] EXCEPT !.pc = "next_take", !.agent = None])
          /\ UNCHANGED <<offers, queues>>
     ELSE /\ FreeIds # {}
          /\ offers' = [offers EXCEPT ![Fresh] = Row(job[t].agent, "pending")]
          /\ Become(t, [job[t] EXCEPT !.pc = "next_publish", !.agent = None,
                                   !.offer = Fresh, !.queue = None])
          /\ queues' = Swept(queues)

(* Mutant: the order is given the courier's id instead of the offer's.     *)
NextPublishAgent(t) ==
  /\ At(t, "next_publish")
  /\ order' = [order EXCEPT !.activeOffer = offers[job[t].offer].agent]
  /\ Return(t)
  /\ UNCHANGED <<offers, available, cascade, queues, settle, signals, crashes,
                 won, orphans>>

NextPublish(t) ==
  /\ At(t, "next_publish")
  /\ order' = [order EXCEPT !.activeOffer = job[t].offer]
  /\ Return(t)
  /\ UNCHANGED <<offers, available, cascade, queues, settle, signals, crashes,
                 won, orphans>>

Exhaust(t) ==
  /\ At(t, "exhaust")
  /\ cascade' = [cascade EXCEPT ![job[t].at] = None]
  /\ order' = [order EXCEPT !.activeOffer = None]
  /\ Goto(t, "exhaust_tell")
  /\ UNCHANGED <<offers, available, settle, signals, crashes, won, orphans>>
  /\ queues' = Swept(queues)

ExhaustTell(t) ==
  /\ At(t, "exhaust_tell")
  /\ signals' = signals \cup {"exhausted"} \cup Claimable
  /\ Return(t)
  /\ UNCHANGED <<order, offers, available, cascade, queues, settle, crashes,
                 won, orphans>>

-----------------------------------------------------------------------------
(* The courier's answers to an offer: acceptOffer, rejectOffer             *)

(* loadPendingOfferForAgent.                                               *)
Answerable(a, o) == Pending(o) /\ offers[o].agent = a /\ ~offers[o].due

AcceptLoad(a, o, p) ==
  /\ At(a, "idle") /\ Answerable(a, o)
  /\ Become(a, [Begin(p, "accept_claim") EXCEPT !.agent = a, !.offer = o])
  /\ UNCHANGED <<order, offers, available, cascade, queues, settle, signals,
                 crashes, won, orphans>>

AcceptClaim(a) ==
  /\ At(a, "accept_claim")
  /\ IF Pending(job[a].offer)
     THEN /\ offers' = [offers EXCEPT ![job[a].offer].status = "accepted"]
          /\ Goto(a, "accept_clear")
     ELSE Return(a) /\ UNCHANGED offers
  /\ UNCHANGED <<order, available, cascade, queues, settle, signals, crashes,
                 won, orphans>>

AcceptClear(a) ==
  /\ At(a, "accept_clear")
  /\ order' = [order EXCEPT !.activeOffer = None]
  /\ cascade' = [cascade EXCEPT ![job[a].at] = None]
  /\ Goto(a, "claim_check")
  /\ UNCHANGED <<offers, available, settle, signals, crashes, won, orphans>>
  /\ queues' = Swept(queues)

(* Mutant: the exception of the claim leaves the offer accepted.           *)
AcceptUndoSkipped(a) ==
  /\ At(a, "accept_undo")
  /\ Return(a)
  /\ UNCHANGED <<order, offers, available, cascade, queues, settle, signals,
                 crashes, won, orphans>>

(* The claim refused the accepted offer: cancelled, nobody else is asked.  *)
AcceptUndo(a) ==
  /\ At(a, "accept_undo")
  /\ offers' = [offers EXCEPT ![job[a].offer].status = "cancelled"]
  /\ Return(a)
  /\ UNCHANGED <<order, available, cascade, queues, settle, signals, crashes,
                 won, orphans>>

DeclineLoad(a, o, p) ==
  /\ At(a, "idle") /\ Answerable(a, o)
  /\ Become(a, [Begin(p, "decline_claim") EXCEPT !.read = o])
  /\ UNCHANGED <<order, offers, available, cascade, queues, settle, signals,
                 crashes, won, orphans>>

DeclineClaim(a) ==
  /\ At(a, "decline_claim")
  /\ IF Pending(job[a].read)
     THEN /\ offers' = [offers EXCEPT ![job[a].read].status = "rejected"]
          /\ Goto(a, "decline_clear")
     ELSE Return(a) /\ UNCHANGED offers
  /\ UNCHANGED <<order, available, cascade, queues, settle, signals, crashes,
                 won, orphans>>

(* Mutant: a declined offer is not passed on to the next courier.          *)
DeclineClearStops(a) ==
  /\ At(a, "decline_clear")
  /\ order' = [order EXCEPT !.activeOffer = None]
  /\ Return(a)
  /\ UNCHANGED <<offers, available, cascade, queues, settle, signals, crashes,
                 won, orphans>>

DeclineClear(a) ==
  /\ At(a, "decline_clear")
  /\ order' = [order EXCEPT !.activeOffer = None]
  /\ Become(a, Begin(job[a].at, "next_read"))
  /\ UNCHANGED <<offers, available, cascade, queues, settle, signals, crashes,
                 won, orphans>>

-----------------------------------------------------------------------------
(* processExpiredOffers: the pass of one process's cron                    *)

(* Mutant: the cron starts from the orders' active offers.                 *)
ExpireFindActive(p) ==
  /\ At(p, "idle") /\ order.activeOffer # None
  /\ Pending(order.activeOffer) /\ offers[order.activeOffer].due
  /\ Become(p, [Begin(p, "expire_claim") EXCEPT !.read = order.activeOffer])
  /\ UNCHANGED <<order, offers, available, cascade, queues, settle, signals,
                 crashes, won, orphans>>

ExpireFind(p) ==
  /\ At(p, "idle")
  /\ \E o \in OfferIds :
       /\ Pending(o) /\ offers[o].due
       /\ Become(p, [Begin(p, "expire_claim") EXCEPT !.read = o])
  /\ UNCHANGED <<order, offers, available, cascade, queues, settle, signals,
                 crashes, won, orphans>>

(* Mutant: the row is expired without looking at its status again.         *)
ExpireClaimBlind(p) ==
  /\ At(p, "expire_claim")
  /\ offers' = [offers EXCEPT ![job[p].read].status = "expired"]
  /\ Goto(p, "expire_clear")
  /\ UNCHANGED <<order, available, cascade, queues, settle, signals, crashes,
                 won, orphans>>

ExpireClaim(p) ==
  /\ At(p, "expire_claim")
  /\ IF Pending(job[p].read)
     THEN /\ offers' = [offers EXCEPT ![job[p].read].status = "expired"]
          /\ Goto(p, "expire_clear")
     ELSE Return(p) /\ UNCHANGED offers
  /\ UNCHANGED <<order, available, cascade, queues, settle, signals, crashes,
                 won, orphans>>

(* The only conditional clear: the row must still be the active offer.     *)
ExpireClear(p) ==
  /\ At(p, "expire_clear")
  /\ order' = IF order.activeOffer = job[p].read
              THEN [order EXCEPT !.activeOffer = None] ELSE order
  /\ Become(p, Begin(p, "next_read"))
  /\ UNCHANGED <<offers, available, cascade, queues, settle, signals, crashes,
                 won, orphans>>

-----------------------------------------------------------------------------
(* assignSelfToOrder, called by a courier (claim), by acceptOffer and, on  *)
(* behalf of a courier and without the mode gate, by the hard assignment   *)

(* The exception leaves the claim: acceptOffer undoes its offer, the hard  *)
(* assignment falls back on the cascade, a direct claim just fails.        *)
Refused(t, j, why) ==
  IF t \in VendorCalls THEN Begin(j.at, "start_cancel")
  ELSE IF j.offer = None THEN Idle
  ELSE [j EXCEPT !.pc = "accept_undo", !.why = why, !.read = None]

Refuse(t, why) == Become(t, Refused(t, job[t], why))

(* The gate of a store whose plan requires its own fleet.                  *)
ModeAllows(t) ==
  SelfDeliveryRequired => t \in VendorCalls \/ Mode = "SEMI_AUTO"

LiveForOther(a, o) == Pending(o) /\ offers[o].agent # a

(* Availability and capacity, then the order document every later check of *)
(* the claim looks at.  seen is history: the offer that was live for       *)
(* another courier when the claim read the order.                          *)
Checked(t, j) ==
  IF ~available[j.agent] \/ j.agent \notin Payable
  THEN Refused(t, j, "unavailable")
  ELSE IF order.status # "approved" \/ order.courier \notin {None, j.agent}
  THEN Refused(t, j, "not_assignable")
  ELSE IF ~ModeAllows(t) THEN Refused(t, j, "mode")
  ELSE [j EXCEPT !.pc = "claim_read_active",
                 !.seen = IF order.activeOffer # None
                             /\ LiveForOther(j.agent, order.activeOffer)
                          THEN order.activeOffer ELSE None]

ClaimCheck(t) ==
  /\ At(t, "claim_check")
  /\ Become(t, Checked(t, job[t]))
  /\ UNCHANGED <<order, offers, available, cascade, queues, settle, signals,
                 crashes, won, orphans>>

(* The courier's own request.                                              *)
ClaimBegin(a, p) ==
  /\ a \in Claimers /\ At(a, "idle")
  /\ Become(a, Checked(a, [Begin(p, "claim_check") EXCEPT !.agent = a]))
  /\ UNCHANGED <<order, offers, available, cascade, queues, settle, signals,
                 crashes, won, orphans>>

(* Mutant: the claim goes straight to its write.                           *)
ClaimReadActiveSkipped(t) ==
  /\ At(t, "claim_read_active")
  /\ Goto(t, "claim_write")
  /\ UNCHANGED <<order, offers, available, cascade, queues, settle, signals,
                 crashes, won, orphans>>

(* assertClaimAllowedDuringOffer: the order's active offer ...             *)
ClaimReadActive(t) ==
  /\ At(t, "claim_read_active")
  /\ Become(t, [job[t] EXCEPT
       !.pc = IF order.activeOffer = None THEN "claim_write"
              ELSE "claim_read_offer",
       !.read = order.activeOffer])
  /\ UNCHANGED <<order, offers, available, cascade, queues, settle, signals,
                 crashes, won, orphans>>

(* ... then the offer itself: pending and another courier's is exclusive.  *)
ClaimReadOffer(t) ==
  /\ At(t, "claim_read_offer")
  /\ IF LiveForOther(job[t].agent, job[t].read) THEN Refuse(t, "exclusive")
     ELSE Become(t, [job[t] EXCEPT !.pc = "claim_write", !.read = None])
  /\ UNCHANGED <<order, offers, available, cascade, queues, settle, signals,
                 crashes, won, orphans>>

(* The conditional update that decides, then the detached settlement of    *)
(* the winner's offer.  A second claim of the assignee is idempotent.      *)
ClaimWrite(t) ==
  /\ At(t, "claim_write")
  /\ LET a == job[t].agent
         again == order.status = "shipped" /\ order.courier = a
     IN IF Unclaimed \/ again
        THEN /\ order' = [order EXCEPT !.status = "shipped", !.courier = a]
             /\ settle' = [settle EXCEPT ![a] =
                             [pc |-> "match", at |-> job[t].at]]
             /\ won' = won \cup {a}
             /\ Return(t)
        ELSE /\ Refuse(t, "lost")
             /\ UNCHANGED <<order, settle, won>>
  /\ UNCHANGED <<offers, available, cascade, queues, signals, crashes, orphans>>

-----------------------------------------------------------------------------
(* markAcceptedAfterDirectClaim, detached from the claim of courier a      *)

SettleMatch(a) ==
  /\ settle[a].pc = "match"
  /\ IF \E o \in OfferIds : Pending(o) /\ offers[o].agent = a
     THEN /\ offers' = [o \in OfferIds |->
               IF Pending(o) /\ offers[o].agent = a
               THEN [offers[o] EXCEPT !.status = "accepted"] ELSE offers[o]]
          /\ settle' = [settle EXCEPT ![a].pc = "clear"]
     ELSE settle' = [settle EXCEPT ![a] = Settled] /\ UNCHANGED offers
  /\ UNCHANGED <<order, available, cascade, queues, job, signals, crashes, won,
                 orphans>>

SettleClear(a) ==
  /\ settle[a].pc = "clear"
  /\ order' = [order EXCEPT !.activeOffer = None]
  /\ cascade' = [cascade EXCEPT ![settle[a].at] = None]
  /\ settle' = [settle EXCEPT ![a].pc = "cancel"]
  /\ UNCHANGED <<offers, available, job, signals, crashes, won, orphans>>
  /\ queues' = Swept(queues)

SettleCancel(a) ==
  /\ settle[a].pc = "cancel"
  /\ ResolvePending("cancelled")
  /\ settle' = [settle EXCEPT ![a] = Settled]
  /\ UNCHANGED <<order, available, cascade, queues, job, signals, crashes, won,
                 orphans>>

-----------------------------------------------------------------------------
(* abandonOrderDelivery: read, then save without a condition               *)

AbandonRead(a, p) ==
  /\ a \in Quitters /\ At(a, "idle")
  /\ order.status = "shipped" /\ order.courier = a
  /\ Become(a, Begin(p, "abandon_save"))
  /\ UNCHANGED <<order, offers, available, cascade, queues, settle, signals,
                 crashes, won, orphans>>

AbandonSave(a) ==
  /\ At(a, "abandon_save")
  /\ order' = [order EXCEPT !.status = "approved", !.courier = None]
  /\ Goto(a, "tell")
  /\ UNCHANGED <<offers, available, cascade, queues, settle, signals, crashes,
                 won, orphans>>

-----------------------------------------------------------------------------
(* A call that has begun runs to its end.                                  *)
Continue(t) ==
  \/ NextRead(t) \/ NextRebuild(t) \/ NextTake(t) \/ NextCreate(t)
  \/ NextPublish(t) \/ Exhaust(t) \/ ExhaustTell(t) \/ Tell(t)
  \/ ClaimCheck(t) \/ ClaimReadActive(t) \/ ClaimReadOffer(t) \/ ClaimWrite(t)

VendorStep(v) ==
  \/ MarkReadySave(v) \/ RejectOrderSave(v) \/ HardRank(v) \/ StartCancel(v)
  \/ StartClear(v) \/ StartRank(v)

CourierStep(a) ==
  \/ AcceptClaim(a) \/ AcceptClear(a) \/ AcceptUndo(a) \/ DeclineClaim(a)
  \/ DeclineClear(a) \/ AbandonSave(a)

SettleStep(a) == SettleMatch(a) \/ SettleClear(a) \/ SettleCancel(a)
CronStep(p) == ExpireFind(p) \/ ExpireClaim(p) \/ ExpireClear(p)

CourierRequest(a, p) ==
  \/ \E o \in OfferIds : AcceptLoad(a, o, p) \/ DeclineLoad(a, o, p)
  \/ ClaimBegin(a, p) \/ AbandonRead(a, p)

Next ==
  \/ \E t \in Threads : Continue(t)
  \/ \E v \in VendorCalls :
       \/ VendorStep(v)
       \/ \E p \in Procs : MarkReadyRead(v, p) \/ RejectOrderRead(v, p)
  \/ \E a \in Agents :
       \/ CourierStep(a) \/ SettleStep(a) \/ Toggle(a)
       \/ \E p \in Procs : CourierRequest(a, p)
  \/ \E p \in Procs : CronStep(p) \/ Crash(p)
  \/ \E o \in OfferIds : Tick(o)

Spec == Init /\ [][Next]_vars

(* Node runs every continuation it has queued, Nest fires the cron every   *)
(* 15 seconds, and time passes; nobody is obliged to send a request.       *)
Fairness ==
  /\ \A t \in Threads : WF_vars(Continue(t))
  /\ \A v \in VendorCalls : WF_vars(VendorStep(v))
  /\ \A a \in Agents : WF_vars(CourierStep(a)) /\ WF_vars(SettleStep(a))
  /\ \A p \in Procs : WF_vars(CronStep(p))
  /\ \A o \in OfferIds : WF_vars(Tick(o))

FairSpec == Spec /\ Fairness

-----------------------------------------------------------------------------
(* Properties                                                              *)

(* The unique partial index of delivery_order_offers: at no time do two    *)
(* couriers hold a pending offer for the order, whichever calls overlap.   *)
OnePending ==
  \A o, q \in OfferIds : Pending(o) /\ Pending(q) => o = q

(* acceptOffer writes "accepted" before the claim that may still fail: an  *)
(* accepted row stands for a courier that won the order, except while the  *)
(* call is under way or when a restart killed it between the two writes.   *)
AcceptedWonOrKilled ==
  \A o \in OfferIds : offers[o].status = "accepted" =>
    \/ offers[o].agent \in won
    \/ InAccept(offers[o].agent, o)
    \/ o \in orphans

(* A claim by t takes the order in this step.                              *)
Takes(t) ==
  /\ At(t, "claim_write") /\ ~At(t, "claim_write")'
  /\ order.courier = None /\ order'.courier = job[t].agent

(* assertClaimAllowedDuringOffer reads the active offer, then its row, and *)
(* the claim is written later: a claim that saw another courier's offer    *)
(* live when it began never takes the order while that offer is still the  *)
(* active one and still pending.                                           *)
HonoursLiveOffer ==
  [][\A t \in Threads : Takes(t) =>
       LET o == job[t].seen
       IN o = None \/ order.activeOffer # o \/ ~Pending(o)]_vars

(* Whatever overlaps, an assigned courier is never displaced by a claim:   *)
(* the order loses its courier only when that courier's own abandon saves. *)
NeverDisplaced ==
  [][order.courier # None /\ order'.courier # order.courier =>
       order'.courier = None /\ At(order.courier, "abandon_save")]_vars

(* A row that left "pending" never asks its courier again, and the only    *)
(* later correction is the accepted offer whose claim failed.              *)
AnswersAreFinal ==
  [][\A o \in OfferIds :
       offers[o].status \notin {"free", "pending", offers'[o].status} =>
         /\ offers[o].status = "accepted" /\ offers'[o].status = "cancelled"
         /\ At(offers[o].agent, "accept_undo")]_vars

(* A single mark-ready asks every courier at most once about the order:    *)
(* the queue moves on even when a restart has to rebuild it from the rows. *)
AskedOnce ==
  \A o, q \in OfferIds \ FreeIds : offers[o].agent = offers[q].agent => o = q

(* The cascade implements the abstract assignment: the holder is the       *)
(* courier of the pending row, and the expiry cron closes every offer,     *)
(* even one left behind by a restart or overtaken by a claim.              *)
Holder == IF \E o \in OfferIds : Pending(o)
          THEN offers[CHOOSE o \in OfferIds : Pending(o)].agent ELSE None
Assignment == INSTANCE CourierAssignment
                WITH courier <- order.courier, holder <- Holder
ImplementsAssignment == Assignment!Spec

(* The cascade ends: an order that becomes ready is won by a courier, or   *)
(* the staff and the marketplace hear of it, or the vendor cancels it, or  *)
(* an accepted offer fell back to cancelled, which nothing resumes.  Only a*)
(* restart can leave the order waiting with no offer and no call under way.*)
CascadeEnds ==
  order.status = "approved" ~>
    \/ won # {} \/ signals # {} \/ order.status = "cancelled"
    \/ crashes > 0
    \/ \E o \in OfferIds : offers[o].status = "cancelled"
=============================================================================
