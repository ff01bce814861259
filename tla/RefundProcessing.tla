-------------------------- MODULE RefundProcessing --------------------------
(***************************************************************************)
(* The refund of one cancelled order: the vendor's and the customer's      *)
(* cancellation, the administration's decisions, the processors (cron,     *)
(* order.cancelled handler, administrator) that release the authorization  *)
(* or refund through Stripe, and the capture that mark-ready starts.       *)
(*                                                                         *)
(* A request works on the document it loaded.  Saving a document whose log *)
(* was assigned is refused when the version moved since it was loaded      *)
(* (Mongoose checks and increments __v when an array is replaced, unless   *)
(* the query left __v out); saving the other fields is unconditional and   *)
(* touches only those fields.  A version is only ever compared with the    *)
(* one loaded: it is modelled as the fact that the document is stale.      *)
(***************************************************************************)
EXTENDS Naturals, Sequences, FiniteSets

CONSTANTS
  Rejects,      \* vendor calls that reject the order, each made once
  Cancels,      \* customer calls that cancel it, each made once
  Readies,      \* vendor calls that mark it ready, each made once
  Crons,        \* API processes, each with its refund cron
  Admins,       \* administrators
  AdminOps,     \* what they may do: pause, resume, cancel, override, process,
                \* pause_all, resume_all
  Fees,         \* platform fees an administrator may impose
  EventsOn,     \* order.cancelled is dispatched to the refund handler
  Capacity,     \* refunds of the order's amount the payment can bear: 1, more
                \* when one payment covers several orders
  MaxDecisions, \* bound: requests of the administrators
  MaxFailures,  \* bound: refunds Stripe fails for no lasting reason
  MaxKills,     \* bound: requests that die (restart, uncaught exception)
  None

ASSUME RefundConstants ==
  /\ Capacity \in Nat \ {0} /\ EventsOn \in BOOLEAN
  /\ MaxDecisions \in Nat /\ MaxFailures \in Nat /\ MaxKills \in Nat
  /\ None \notin {"authorized", "captured", "cancelled", "process"}

Threads == Rejects \cup Cancels \cup Readies \cup Crons \cup Admins

VARIABLES
  order,     \* the order document: status, source, capture, log
  pi,        \* Stripe: status of the payment intent
  refunded,  \* Stripe: refunds made of the order's amount
  job,       \* thread -> the request it executes, with the document it loaded
  paused,    \* processingPaused of the settings
  decisions, failures, kills

vars == <<order, pi, refunded, job, paused, decisions, failures, kills>>
counters == <<decisions, failures, kills>>

Statuses == {"pending", "paused", "approved", "rejected", "completed"}
ActiveStatuses == {"pending", "paused", "approved"}
Entries == [status: Statuses, by: Admins \cup {"auto", None},
            fee: Fees \cup {None}, split: Fees \cup {None}]
Orders == [status: {"paid", "approved", "cancelled"},
           source: {"vendor", "client", None},
           capture: {"authorized", "captured", "cancelled", None},
           log: Seq(Entries)]
Ops == {"process", "reject", "client", "ready", "pause", "resume", "cancel",
        "override", None}
Steps == {"idle", "done", "load", "approve", "release", "release_cancel",
          "release_mark", "release_done", "refund", "failed", "complete",
          "decide", "reject_save", "reject_refund", "client_save",
          "ready_save", "capture_read", "capture_retrieve", "capture",
          "capture_mark"}
Jobs == [pc: Steps, op: Ops, log: Seq(Entries), stale: BOOLEAN,
         fee: Fees \cup {None}]

Idle == [pc |-> "idle", op |-> None, log |-> <<>>, stale |-> FALSE, fee |-> None]

TypeOK ==
  /\ order \in Orders
  /\ pi \in {"requires_capture", "succeeded", "canceled"}
  /\ refunded \in 0..Capacity
  /\ job \in [Threads -> Jobs]
  /\ paused \in BOOLEAN
  /\ decisions \in 0..MaxDecisions
  /\ failures \in 0..MaxFailures
  /\ kills \in 0..MaxKills

(* The payment was captured at checkout, or authorized only: a payment of  *)
(* several orders is never deferred.                                       *)
Init ==
  /\ \E deferred \in {d \in BOOLEAN : d => Capacity = 1} :
       /\ order = [status |-> "paid", source |-> None, log |-> <<>>,
                   capture |-> IF deferred THEN "authorized" ELSE None]
       /\ pi = IF deferred THEN "requires_capture" ELSE "succeeded"
  /\ refunded = 0 /\ paused = FALSE
  /\ job = [t \in Threads |-> Idle]
  /\ decisions = 0 /\ failures = 0 /\ kills = 0

-----------------------------------------------------------------------------
(* The log, and the save of a document                                     *)

Active(log) == {i \in 1..Len(log) : log[i].status \in ActiveStatuses}
ActiveEntry(log) == log[CHOOSE i \in Active(log) : \A j \in Active(log) : j <= i]
Latest(log) == log[Len(log)]
Patched(log, entry) == [log EXCEPT ![Len(log)] = entry]

(* Mutant: an entry without its status.                                    *)
AskedBlank == [status |-> None, by |-> None, fee |-> None, split |-> None]
Asked == [status |-> "pending", by |-> None, fee |-> None, split |-> None]

At(t, label) == job[t].pc = label
Become(t, j) == job' = [job EXCEPT ![t] = j]
Goto(t, label) == Become(t, [job[t] EXCEPT !.pc = label])
Loaded(label, op) ==
  [Idle EXCEPT !.pc = label, !.op = op, !.log = order.log]
Ended(t) == IF t \in Admins \cup Crons THEN Idle ELSE [Idle EXCEPT !.pc = "done"]
End(t) == Become(t, Ended(t))

(* Mutant: updateOne by id, as findByIdAndUpdate would.                    *)
RefusedNever(t, log) == FALSE

(* VersionError: the log is written and somebody else wrote it since.      *)
Refused(t, log) == log # job[t].log /\ job[t].stale

Holding(j) == j.pc \notin {"idle", "done", "load"}

(* order.save() by t: the fields changed in "doc" and the log "log".  An   *)
(* unchanged log is not part of the update; a changed one makes stale what *)
(* the others hold.                                                        *)
Save(t, doc, log, next) ==
  IF Refused(t, log) THEN UNCHANGED order /\ End(t)
  ELSE IF log = job[t].log THEN order' = doc /\ Become(t, next)
  ELSE /\ order' = [doc EXCEPT !.log = log]
       /\ job' = [u \in Threads |->
                    IF u # t THEN [job[u] EXCEPT !.stale = Holding(job[u])]
                    ELSE IF Holding(next) THEN [next EXCEPT !.log = log]
                    ELSE next]

-----------------------------------------------------------------------------
(* submitRefundRequest: the customer cancels a paid order                  *)

ClientLoad(c) ==
  /\ c \in Cancels /\ At(c, "idle") /\ order.status = "paid"
  /\ \A i \in 1..Len(order.log) : order.log[i].status = "rejected"
  /\ Become(c, Loaded("client_save", "client"))
  /\ UNCHANGED <<order, pi, refunded, paused, counters>>

(* The fields were selected one by one and __v is not among them: the log  *)
(* is written unchecked and the version stays.                             *)
ClientSave(c) ==
  /\ At(c, "client_save")
  /\ order' = [order EXCEPT !.status = "cancelled", !.source = "client",
                            !.log = Append(job[c].log, Asked)]
  /\ End(c)
  /\ UNCHANGED <<pi, refunded, paused, counters>>

-----------------------------------------------------------------------------
(* rejectOrder: the authorization is released first; when there was none   *)
(* to release, a refund is requested with the cancellation                 *)

(* Mutant: a request that is already active is not looked for.             *)
RejectAsksAgain(v) ==
  /\ v \in Rejects /\ At(v, "idle") /\ order.status \in {"paid", "approved"}
  /\ Become(v, Loaded("release", "reject"))
  /\ UNCHANGED <<order, pi, refunded, paused, counters>>

RejectLoad(v) ==
  /\ v \in Rejects /\ At(v, "idle") /\ order.status \in {"paid", "approved"}
  /\ Become(v, Loaded(IF Active(order.log) = {} THEN "release"
                      ELSE "reject_save", "reject"))
  /\ UNCHANGED <<order, pi, refunded, paused, counters>>

(* The save, then the domain event: its handler goes on as a processor, or *)
(* the event is lost.                                                      *)
Rejected(v, log) ==
  /\ \E next \in {Ended(v)} \cup
         (IF EventsOn THEN {[Idle EXCEPT !.pc = "load", !.op = "process"]}
          ELSE {}) :
       Save(v, [order EXCEPT !.status = "cancelled", !.source = "vendor"],
            log, next)
  /\ UNCHANGED <<pi, refunded, paused, counters>>

RejectSave(v) == At(v, "reject_save") /\ Rejected(v, job[v].log)
RejectRefund(v) ==
  At(v, "reject_refund") /\ Rejected(v, Append(job[v].log, Asked))

-----------------------------------------------------------------------------
(* cancelAuthorizationIfUncaptured, called by rejectOrder and by the       *)
(* processors: retrieve, cancel, record                                    *)

(* Mutant: a payment that could not be released counts as released.        *)
ReleaseAlways(t) ==
  /\ At(t, "release")
  /\ Goto(t, IF pi = "requires_capture" THEN "release_cancel"
             ELSE "release_mark")
  /\ UNCHANGED <<order, pi, refunded, paused, counters>>

Release(t) ==
  /\ At(t, "release")
  /\ Goto(t, IF pi = "requires_capture" THEN "release_cancel"
             ELSE IF job[t].op = "reject" THEN "reject_refund" ELSE "refund")
  /\ UNCHANGED <<order, pi, refunded, paused, counters>>

(* Stripe refuses to cancel what was captured or cancelled meanwhile; no   *)
(* caller catches the error.                                               *)
ReleaseCancel(t) ==
  /\ At(t, "release_cancel")
  /\ IF pi = "requires_capture"
     THEN pi' = "canceled" /\ Goto(t, "release_mark")
     ELSE UNCHANGED pi /\ End(t)
  /\ UNCHANGED <<order, refunded, paused, counters>>

ReleaseMark(t) ==
  /\ At(t, "release_mark")
  /\ order' = [order EXCEPT !.capture = "cancelled"]
  /\ Goto(t, IF job[t].op = "reject" THEN "reject_save" ELSE "release_done")
  /\ UNCHANGED <<pi, refunded, paused, counters>>

-----------------------------------------------------------------------------
(* processRefundForOrder                                                   *)

Processable == order.status = "cancelled" /\ Active(order.log) # {}
By(t) == IF t \in Admins THEN t ELSE "auto"

(* The cron pass: the global pause, then the query for pending requests.   *)
CronScan(c) ==
  /\ c \in Crons /\ At(c, "idle") /\ ~paused
  /\ order.status = "cancelled"
  /\ \E i \in 1..Len(order.log) : order.log[i].status = "pending"
  /\ Become(c, [Idle EXCEPT !.pc = "load", !.op = "process"])
  /\ UNCHANGED <<order, pi, refunded, paused, counters>>

(* The cron and the handler reach the order later and read it again.       *)
ProcessLoad(t) ==
  /\ At(t, "load")
  /\ IF Processable
     THEN Become(t, [Loaded("approve", "process") EXCEPT
                       !.fee = Latest(order.log).fee])
     ELSE End(t)
  /\ UNCHANGED <<order, pi, refunded, paused, counters>>

AdminMay(a, op) ==
  a \in Admins /\ op \in AdminOps /\ At(a, "idle") /\ decisions < MaxDecisions

AdminProcess(a) ==
  /\ AdminMay(a, "process") /\ Processable
  /\ decisions' = decisions + 1
  /\ \E f \in {Latest(order.log).fee} \cup
              (IF order.source = "vendor" THEN {} ELSE Fees) :
       Become(a, [Loaded("approve", "process") EXCEPT !.fee = f])
  /\ UNCHANGED <<order, pi, refunded, paused, failures, kills>>

(* The amounts depend on the fee, an approval by the same processor with   *)
(* the same amounts leaves the log as it was.                              *)
Approve(t) ==
  /\ At(t, "approve")
  /\ Save(t, order,
          Patched(job[t].log, [Latest(job[t].log) EXCEPT
            !.status = "approved", !.by = By(t), !.fee = job[t].fee,
            !.split = job[t].fee]),
          [job[t] EXCEPT !.pc = "release"])
  /\ UNCHANGED <<pi, refunded, paused, counters>>

Completed(t) == [Latest(job[t].log) EXCEPT !.status = "completed", !.by = By(t)]

ReleaseDone(t) ==
  /\ At(t, "release_done")
  /\ Save(t, order,
          Patched(job[t].log, [Completed(t) EXCEPT !.split = None]), Ended(t))
  /\ UNCHANGED <<pi, refunded, paused, counters>>

(* refunds.create, without an idempotency key.                             *)
Refund(t) ==
  /\ At(t, "refund")
  /\ \/ /\ pi = "succeeded" /\ refunded < Capacity
        /\ refunded' = refunded + 1
        /\ Goto(t, "complete")
        /\ UNCHANGED failures
     \/ /\ pi # "succeeded" \/ refunded = Capacity
        /\ Goto(t, "failed")
        /\ UNCHANGED <<refunded, failures>>
     \/ /\ failures < MaxFailures
        /\ failures' = failures + 1
        /\ Goto(t, "failed")
        /\ UNCHANGED refunded
  /\ UNCHANGED <<order, pi, paused, decisions, kills>>

(* Mutant: the failure is recorded as a success.                           *)
FailedCompletes(t) ==
  /\ At(t, "failed")
  /\ Save(t, order, Patched(job[t].log, Completed(t)), Ended(t))
  /\ UNCHANGED <<pi, refunded, paused, counters>>

(* Mutant: a failed refund stays approved.                                 *)
FailedStays(t) ==
  /\ At(t, "failed")
  /\ End(t)
  /\ UNCHANGED <<order, pi, refunded, paused, counters>>

Failed(t) ==
  /\ At(t, "failed")
  /\ Save(t, order,
          Patched(job[t].log, [Latest(job[t].log) EXCEPT !.status = "pending"]),
          Ended(t))
  /\ UNCHANGED <<pi, refunded, paused, counters>>

Complete(t) ==
  /\ At(t, "complete")
  /\ Save(t, order, Patched(job[t].log, Completed(t)), Ended(t))
  /\ UNCHANGED <<pi, refunded, paused, counters>>

-----------------------------------------------------------------------------
(* The administration's decisions: load and check, then save               *)

Decidable(op) ==
  LET status == ActiveEntry(order.log).status
  IN Active(order.log) # {} /\
     CASE op = "pause" -> status = "pending"
       [] op = "resume" -> status = "paused"
       [] op = "cancel" -> status \in {"pending", "paused"}
       [] op = "override" -> order.source # "vendor"

Decide(a, op) ==
  /\ AdminMay(a, op) /\ Decidable(op)
  /\ decisions' = decisions + 1
  /\ \E f \in IF op = "override" THEN Fees ELSE {None} :
       Become(a, [Loaded("decide", op) EXCEPT !.fee = f])
  /\ UNCHANGED <<order, pi, refunded, paused, failures, kills>>

Decided(a) ==
  LET entry == Latest(job[a].log)
  IN CASE job[a].op = "pause" -> [entry EXCEPT !.status = "paused"]
       [] job[a].op = "resume" -> [entry EXCEPT !.status = "pending"]
       [] job[a].op = "cancel" -> [entry EXCEPT !.status = "rejected", !.by = a]
       [] job[a].op = "override" -> [entry EXCEPT !.fee = job[a].fee]

DecideSave(a) ==
  /\ At(a, "decide")
  /\ Save(a, order, Patched(job[a].log, Decided(a)), Ended(a))
  /\ UNCHANGED <<pi, refunded, paused, counters>>

(* pauseGlobalProcessing, resumeGlobalProcessing                           *)
PauseAll(a) ==
  /\ AdminMay(a, IF paused THEN "resume_all" ELSE "pause_all")
  /\ paused' = ~paused /\ decisions' = decisions + 1
  /\ UNCHANGED <<order, pi, refunded, job, failures, kills>>

-----------------------------------------------------------------------------
(* markOrderReady, then captureOnOrderReady                                *)

ReadyLoad(r) ==
  /\ r \in Readies /\ At(r, "idle") /\ order.status = "paid"
  /\ Become(r, Loaded("ready_save", "ready"))
  /\ UNCHANGED <<order, pi, refunded, paused, counters>>

ReadySave(r) ==
  /\ At(r, "ready_save")
  /\ Save(r, [order EXCEPT !.status = "approved"], job[r].log,
          [job[r] EXCEPT !.pc = "capture_read"])
  /\ UNCHANGED <<pi, refunded, paused, counters>>

CaptureRead(r) ==
  /\ At(r, "capture_read")
  /\ IF order.capture = "authorized" THEN Goto(r, "capture_retrieve") ELSE End(r)
  /\ UNCHANGED <<order, pi, refunded, paused, counters>>

CaptureRetrieve(r) ==
  /\ At(r, "capture_retrieve")
  /\ CASE pi = "requires_capture" -> Goto(r, "capture")
       [] pi = "succeeded" -> Goto(r, "capture_mark")
       [] OTHER -> End(r)
  /\ UNCHANGED <<order, pi, refunded, paused, counters>>

(* Mutant: the error of Stripe is swallowed.                               *)
CaptureBlind(r) ==
  /\ At(r, "capture")
  /\ pi' = IF pi = "requires_capture" THEN "succeeded" ELSE pi
  /\ Goto(r, "capture_mark")
  /\ UNCHANGED <<order, refunded, paused, counters>>

Capture(r) ==
  /\ At(r, "capture")
  /\ IF pi = "requires_capture"
     THEN pi' = "succeeded" /\ Goto(r, "capture_mark")
     ELSE UNCHANGED pi /\ End(r)
  /\ UNCHANGED <<order, refunded, paused, counters>>

CaptureMark(r) ==
  /\ At(r, "capture_mark")
  /\ order' = IF order.capture = "authorized"
              THEN [order EXCEPT !.capture = "captured"] ELSE order
  /\ End(r)
  /\ UNCHANGED <<pi, refunded, paused, counters>>

-----------------------------------------------------------------------------
(* A request dies: the process restarts, or a call nobody guards throws.   *)
Kill(t) ==
  /\ kills < MaxKills /\ job[t].pc \notin {"idle", "done"}
  /\ kills' = kills + 1
  /\ End(t)
  /\ UNCHANGED <<order, pi, refunded, paused, decisions, failures>>

(* A request that was received runs to its end.                            *)
Continue(t) ==
  \/ ClientSave(t) \/ RejectSave(t) \/ RejectRefund(t)
  \/ Release(t) \/ ReleaseCancel(t) \/ ReleaseMark(t) \/ ReleaseDone(t)
  \/ ProcessLoad(t) \/ Approve(t) \/ Refund(t) \/ Failed(t) \/ Complete(t)
  \/ DecideSave(t)
  \/ ReadySave(t) \/ CaptureRead(t) \/ CaptureRetrieve(t) \/ Capture(t)
  \/ CaptureMark(t)

Begin(t) ==
  \/ ClientLoad(t) \/ RejectLoad(t) \/ ReadyLoad(t) \/ AdminProcess(t)
  \/ \E op \in {"pause", "resume", "cancel", "override"} : Decide(t, op)
  \/ PauseAll(t)

Next == \E t \in Threads : Continue(t) \/ Begin(t) \/ CronScan(t) \/ Kill(t)

Spec == Init /\ [][Next]_vars

(* Received requests go on, and the cron fires every fifteen minutes.      *)
Fairness == \A t \in Threads : WF_vars(Continue(t)) /\ WF_vars(CronScan(t))
FairSpec == Spec /\ Fairness

-----------------------------------------------------------------------------
(* Properties                                                              *)

(* At most one request of the order is open ("Une seule entrée `pending` à *)
(* la fois"): every writer of the log looks at the one it loaded.          *)
OneActive == Cardinality(Active(order.log)) <= 1

(* The capture status recorded on the order is what happened at Stripe,    *)
(* whichever of mark-ready, reject and the processors came first.          *)
CaptureStatusTrue ==
  /\ order.capture = "captured" => pi = "succeeded"
  /\ order.capture = "cancelled" => pi = "canceled"

(* The log is a history: a decision once written, a refusal or a completed *)
(* refund, is never lost to a request that read the order earlier.         *)
Final == {"rejected", "completed"}
DecidedStays ==
  [][\A i \in 1..Len(order.log) :
       order.log[i].status \in Final =>
         i <= Len(order'.log) /\ order'.log[i] = order.log[i]]_vars

(* One refund for one order, whatever Stripe, restarts and administrators  *)
(* do, as long as a single cron processes the requests and the vendor      *)
(* rejects the order once.                                                 *)
RefundedOnce == refunded <= 1

(* Money leaves only for a request that stands approved at that moment:    *)
(* with a single processor, pausing or refusing the request cannot come    *)
(* between its approval and Stripe.                                        *)
MoneyOnlyIfApproved ==
  [][refunded' # refunded =>
       order.log # <<>> /\ Latest(order.log).status = "approved"]_vars

(* The latest request of the order follows the life cycle of RefundRequest *)
(* and is completed only when the customer has the money back.             *)
Request == INSTANCE RefundRequest WITH
  request <- IF order.log = <<>> THEN "none" ELSE Latest(order.log).status,
  whole <- pi = "canceled" \/ refunded > 0
ImplementsRequest == Request!Spec

(* A request that stays open is processed: completed, refused, or set      *)
(* aside by the administration.                                            *)
Open == order.log # <<>> /\ Latest(order.log).status \in {"pending", "approved"}
RequestEnds == Open ~> (~Open \/ paused)
=============================================================================
