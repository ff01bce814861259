------------------------ MODULE RefundHistoryProofs -------------------------
(***************************************************************************)
(* The log of refund requests as a history, for any actors and bounds, as  *)
(* long as the customer's cancellation, whose save checks no version, does *)
(* not meet a rejection or another one.                                    *)
(*                                                                         *)
(* The invariant is Fresh: whoever may write the log and holds a document  *)
(* that is not stale holds the log as it is.  A save that goes through     *)
(* therefore changes the log from what its request had checked, and what   *)
(* was checked is in RefundProcessingProofs (Stage, Progress).             *)
(*                                                                         *)
(* The last two parts add what holds with a single processor: money moves  *)
(* on approval only, and with a single rejection, once.                    *)
(***************************************************************************)
EXTENDS RefundProcessingProofs

(* The calls for which the log is a history: the customer does not cancel, *)
(* or cancels once (nobody else's call) an order the vendor does not       *)
(* reject.                                                                 *)
OneOrigin ==
  \/ Cancels = {}
  \/ /\ Rejects = {} /\ Cancels \cap (Readies \cup Admins \cup Crons) = {}
     /\ \A c, d \in Cancels : c = d

(* A mark-ready saves a document without writing its log.                  *)
Fresh == \A t \in Threads :
           Holding(job[t]) /\ ~job[t].stale /\ job[t].op # "ready" =>
             job[t].log = order.log

(* The customer's is the first request.                                    *)
FirstAsks == \A c \in Cancels :
  /\ job[c].pc \in {"idle", "client_save", "done"}
  /\ order.log # <<>> => job[c].pc = "done"
  /\ job[c].pc = "client_save" => job[c].log = <<>>
HistoryInv == LifeInv /\ Fresh
ClientInv == HistoryInv /\ FirstAsks

(* The ways a request may pass from one status to another.                 *)
Lawful(from, to) ==
  \/ from \in ActiveStatuses /\ to = "approved"
  \/ from = to
  \/ from = "pending" /\ to = "paused"
  \/ from = "paused" /\ to = "pending"
  \/ from \in {"pending", "paused"} /\ to = "rejected"
  \/ from = "approved" /\ to = "pending"
  \/ from = "approved" /\ to = "completed" /\ (pi = "canceled" \/ refunded > 0)

(* What a step may do to the log.                                          *)
Quiet == /\ order'.log = order.log
         /\ pi = "canceled" => pi' = "canceled"
         /\ refunded > 0 => refunded' > 0
Asking == /\ UNCHANGED <<pi, refunded>> /\ Active(order.log) = {}
          /\ order'.log = Append(order.log, Asked)
Patching ==
  /\ UNCHANGED <<pi, refunded>> /\ LastOpen(order.log)
  /\ \E e \in Entries : /\ order'.log = Patched(order.log, e)
                        /\ Lawful(Latest(order.log).status, e.status)
LawfulStep == Quiet \/ Asking \/ Patching

LEMMA HistoryFacts ==
  ASSUME HistoryInv
  PROVE  /\ RefundInv /\ LifeInv /\ Fresh /\ TypeOK
         /\ order \in Orders /\ order.log \in Seq(Entries) /\ Ordered(order.log)
         /\ refunded \in Nat /\ job \in [Threads -> Jobs]
         /\ \A t \in Threads : /\ job[t] \in Jobs /\ Stage(t, job[t])
                               /\ Progress(job[t], pi, refunded)
                               /\ job[t].log \in Seq(Entries)
                               /\ Ordered(job[t].log)
  BY Facts, RefundConstants DEF HistoryInv, LifeInv, TypeOK

(* One request moves and the log stays.                                    *)
LEMMA MoveFresh ==
  ASSUME HistoryInv, NEW t \in Threads, NEW j, Become(t, j),
         order'.log = order.log,
         Holding(j) /\ ~j.stale /\ j.op # "ready" => j.log = order.log
  PROVE  Fresh'
<1>1. \A u \in Threads : job'[u] = IF u = t THEN j ELSE job[u]
  BY HistoryFacts DEF Become
<1> QED
  BY <1>1, HistoryFacts DEF Fresh

LEMMA EndFresh ==
  ASSUME HistoryInv, NEW t \in Threads, End(t), order'.log = order.log
  PROVE  Fresh'
  BY EndedStage, MoveFresh DEF End

LEMMA GotoFresh ==
  ASSUME HistoryInv, NEW t \in Threads, NEW label \in Steps, Goto(t, label),
         Holding(job[t]), order'.log = order.log
  PROVE  Fresh'
<1>1. /\ job[t] \in Jobs
      /\ ~job[t].stale /\ job[t].op # "ready" => job[t].log = order.log
  BY HistoryFacts DEF Fresh
<1>2. /\ [job[t] EXCEPT !.pc = label].log = job[t].log
      /\ [job[t] EXCEPT !.pc = label].stale = job[t].stale
      /\ [job[t] EXCEPT !.pc = label].op = job[t].op
  BY <1>1, GotoJob
<1> QED
  BY <1>1, <1>2, MoveFresh DEF Goto

LEMMA QuietStep ==
  ASSUME HistoryInv, order'.log = order.log, Onward
  PROVE  Quiet
  BY HistoryFacts DEF Quiet, Onward

(* A save that changes the log changes it from what its request holds.     *)
LEMMA SaveFresh ==
  ASSUME HistoryInv, NEW t \in Threads, NEW doc \in Orders,
         NEW log \in Seq(Entries), NEW next \in Jobs, doc.log = order.log,
         Save(t, doc, log, next), Holding(job[t]),
         log # job[t].log => job[t].op # "ready",
         Holding(next) => /\ next.stale = job[t].stale /\ next.op = job[t].op
                          /\ next.log = job[t].log
  PROVE  /\ Fresh'
         /\ order'.log # order.log => order'.log = log /\ job[t].log = order.log
<1>1. CASE order' = order /\ End(t)
  BY <1>1, EndFresh
<1>2. CASE order' = doc /\ Become(t, next)
  BY <1>2, HistoryFacts, MoveFresh DEF Fresh
<1>3. CASE /\ ~Refused(t, log) /\ log # job[t].log
           /\ order' = [doc EXCEPT !.log = log]
           /\ job' = [u \in Threads |->
                        IF u # t THEN [job[u] EXCEPT !.stale = Holding(job[u])]
                        ELSE IF Holding(next) THEN [next EXCEPT !.log = log]
                        ELSE next]
  <2>1. job[t].log = order.log
    BY <1>3, HistoryFacts DEF Refused, Fresh
  <2>2. order'.log = log
    BY <1>3 DEF Orders
  <2>3. ASSUME NEW u \in Threads, Holding(job'[u]), ~job'[u].stale
        PROVE  job'[u].log = log
    <3>1. CASE u # t
      <4>1. job'[u] = [job[u] EXCEPT !.stale = Holding(job[u])] /\ job[u] \in Jobs
        BY <1>3, <3>1, HistoryFacts
      <4>2. job'[u].pc = job[u].pc /\ job'[u].stale = Holding(job[u])
        BY <4>1 DEF Jobs
      <4> QED
        BY <2>3, <4>2 DEF Holding
    <3>2. CASE u = t
      <4>1. job'[u] = IF Holding(next) THEN [next EXCEPT !.log = log] ELSE next
        BY <1>3, <3>2
      <4>2. [next EXCEPT !.log = log].log = log
        BY DEF Jobs
      <4> QED
        BY <2>3, <4>1, <4>2
    <3> QED
      BY <3>1, <3>2
  <2> QED
    BY <2>1, <2>2, <2>3 DEF Fresh
<1> QED
  BY <1>1, <1>2, <1>3, SaveOutcome, HistoryFacts

-----------------------------------------------------------------------------
(* The steps                                                               *)

(* A request that reads the order, or moves without writing the log.       *)
LEMMA LoadHistory ==
  ASSUME HistoryInv, NEW t \in Threads, NEW j, Become(t, j),
         UNCHANGED <<order, pi, refunded>>, Holding(j) => j.log = order.log
  PROVE  Fresh' /\ Quiet
<1>1. Onward
  BY SameOnward, HistoryFacts
<1> QED
  BY <1>1, MoveFresh, QuietStep

LEMMA EndHistory ==
  ASSUME HistoryInv, NEW t \in Threads, End(t), order'.log = order.log, Onward
  PROVE  Fresh' /\ Quiet
  BY EndFresh, QuietStep

LEMMA GotoHistory ==
  ASSUME HistoryInv, NEW t \in Threads, NEW label \in Steps, Goto(t, label),
         Holding(job[t]), order'.log = order.log, Onward
  PROVE  Fresh' /\ Quiet
  BY GotoFresh, QuietStep

LEMMA LoadsHistory ==
  ASSUME HistoryInv, NEW t \in Threads,
         ClientLoad(t) \/ RejectLoad(t) \/ ReadyLoad(t)
  PROVE  Fresh' /\ Quiet
<1>1. PICK label \in {"client_save", "release", "reject_save", "ready_save"},
           op \in {"client", "reject", "ready"} : Become(t, Loaded(label, op))
  BY DEF ClientLoad, RejectLoad, ReadyLoad
<1>2. label \in Steps /\ op \in Ops
  BY DEF Steps, Ops
<1>3. Loaded(label, op).log = order.log
  BY <1>2, LoadedJob, HistoryFacts
<1>4. UNCHANGED <<order, pi, refunded>>
  BY DEF ClientLoad, RejectLoad, ReadyLoad
<1> QED
  BY <1>1, <1>3, <1>4, LoadHistory

LEMMA ReleaseHistory ==
  ASSUME HistoryInv, NEW t \in Threads,
         Release(t) \/ ReleaseCancel(t) \/ ReleaseMark(t)
  PROVE  Fresh' /\ Quiet
<1>1. /\ Holding(job[t])
      /\ order'.log = order.log
      /\ refunded' = refunded
      /\ pi' = pi \/ (pi = "requires_capture" /\ pi' = "canceled")
  BY HistoryFacts DEF Release, ReleaseCancel, ReleaseMark, At, Holding, Orders
<1>2. Onward
  BY <1>1, HistoryFacts DEF Onward
<1>3. CASE End(t)
  BY <1>1, <1>2, <1>3, EndHistory
<1>4. CASE ~End(t)
  <2>1. PICK label \in {"release_cancel", "reject_refund", "refund",
                        "release_mark", "reject_save", "release_done"} :
          Goto(t, label)
    BY <1>4 DEF Release, ReleaseCancel, ReleaseMark
  <2>2. label \in Steps
    BY DEF Steps
  <2> QED
    BY <1>1, <1>2, <2>1, <2>2, GotoHistory
<1> QED
  BY <1>3, <1>4

LEMMA CaptureHistory ==
  ASSUME HistoryInv, NEW t \in Threads,
         CaptureRead(t) \/ CaptureRetrieve(t) \/ Capture(t) \/ CaptureMark(t)
  PROVE  Fresh' /\ Quiet
<1>1. /\ Holding(job[t])
      /\ order'.log = order.log
      /\ refunded' = refunded
      /\ pi' = pi \/ (pi = "requires_capture" /\ pi' = "succeeded")
  BY HistoryFacts
     DEF CaptureRead, CaptureRetrieve, Capture, CaptureMark, At, Holding, Orders
<1>2. Onward
  BY <1>1, HistoryFacts DEF Onward
<1>3. CASE End(t)
  BY <1>1, <1>2, <1>3, EndHistory
<1>4. CASE ~End(t)
  <2>1. PICK label \in {"capture_retrieve", "capture", "capture_mark"} :
          Goto(t, label)
    BY <1>4 DEF CaptureRead, CaptureRetrieve, Capture, CaptureMark
  <2>2. label \in Steps
    BY DEF Steps
  <2> QED
    BY <1>1, <1>2, <2>1, <2>2, GotoHistory
<1> QED
  BY <1>3, <1>4

LEMMA ProcessHistory ==
  ASSUME HistoryInv, NEW t \in Threads,
         CronScan(t) \/ ProcessLoad(t) \/ AdminProcess(t)
  PROVE  Fresh' /\ Quiet
<1>1. UNCHANGED <<order, pi, refunded>>
  BY DEF CronScan, ProcessLoad, AdminProcess
<1>2. ASSUME NEW f, Become(t, [Loaded("approve", "process") EXCEPT !.fee = f])
      PROVE  Fresh' /\ Quiet
  <2>1. [Loaded("approve", "process") EXCEPT !.fee = f].log = order.log
    BY HistoryFacts DEF Loaded, Idle
  <2> QED
    BY <1>1, <1>2, <2>1, LoadHistory
<1>3. CASE CronScan(t)
  <2>1. ~Holding([Idle EXCEPT !.pc = "load", !.op = "process"])
    BY DEF Idle, Holding
  <2> QED
    BY <1>1, <1>3, <2>1, LoadHistory DEF CronScan
<1>4. CASE ProcessLoad(t)
  <2>1. Onward
    BY <1>1, SameOnward, HistoryFacts
  <2> QED
    BY <1>1, <1>2, <1>4, <2>1, EndHistory DEF ProcessLoad
<1>5. CASE AdminProcess(t)
  BY <1>2, <1>5 DEF AdminProcess
<1> QED
  BY <1>3, <1>4, <1>5

(* A patch by which a request ends.                                        *)
LEMMA PatchHistory ==
  ASSUME HistoryInv, NEW t \in Threads, NEW e \in Entries, NEW next \in Jobs,
         LastOpen(job[t].log), Holding(job[t]), job[t].op # "ready",
         UNCHANGED <<pi, refunded>>,
         Save(t, order, Patched(job[t].log, e), next),
         Holding(next) => /\ next.stale = job[t].stale /\ next.op = job[t].op
                          /\ next.log = job[t].log,
         Lawful(Latest(job[t].log).status, e.status)
  PROVE  /\ Fresh' /\ (Quiet \/ Patching)
         /\ \/ Quiet
            \/ /\ job[t].log = order.log
               /\ order'.log = Patched(order.log, e)
<1>1. /\ job[t].log \in Seq(Entries) /\ job[t].log # <<>> /\ order \in Orders
  BY HistoryFacts DEF LastOpen
<1>2. Patched(job[t].log, e) \in Seq(Entries)
  BY <1>1, PatchedLog
<1>3. /\ Fresh'
      /\ order'.log # order.log =>
           order'.log = Patched(job[t].log, e) /\ job[t].log = order.log
  BY <1>1, <1>2, SaveFresh
<1>4. CASE order'.log = order.log
  BY <1>3, <1>4, SameOnward, QuietStep, HistoryFacts
<1>5. CASE order'.log # order.log
  BY <1>3, <1>5 DEF Patching
<1> QED
  BY <1>3, <1>4, <1>5

LEMMA FinishHistory ==
  ASSUME HistoryInv, NEW t \in Threads,
         ReleaseDone(t) \/ Refund(t) \/ Failed(t) \/ Complete(t)
  PROVE  Fresh' /\ (Quiet \/ Patching)
<1>0. /\ job[t] \in Jobs /\ Stage(t, job[t]) /\ Progress(job[t], pi, refunded)
      /\ RefundInv
  BY HistoryFacts
<1>1. /\ Holding(job[t]) /\ job[t].op = "process" /\ LastOpen(job[t].log)
      /\ job[t].pc # "approve"
  BY <1>0 DEF ReleaseDone, Refund, Failed, Complete, At, Stage, Holding
<1>2. /\ Latest(job[t].log) \in Entries /\ Latest(job[t].log).status = "approved"
  BY <1>0, <1>1, Facts, LatestEntry DEF LastOpen, Progress
<1>3. Ended(t) \in Jobs /\ ~Holding(Ended(t))
  BY EndedStage
<1>4. Completed(t) \in Entries /\ Completed(t).status = "completed"
  BY <1>0, <1>1, CompletedEntry
<1>5. CASE ReleaseDone(t)
  <2>1. /\ [Completed(t) EXCEPT !.split = None] \in Entries
        /\ [Completed(t) EXCEPT !.split = None].status = "completed"
    BY <1>4 DEF Entries
  <2>2. Save(t, order,
             Patched(job[t].log, [Completed(t) EXCEPT !.split = None]), Ended(t))
        /\ UNCHANGED <<pi, refunded>>
    BY <1>5 DEF ReleaseDone
  <2>3. pi = "canceled"
    BY <1>0, <1>5 DEF ReleaseDone, At, Progress
  <2>4. Lawful(Latest(job[t].log).status, "completed")
    BY <1>2, <2>3 DEF Lawful
  <2> QED
    BY <1>1, <1>3, <2>1, <2>2, <2>4, PatchHistory
<1>6. CASE Failed(t)
  <2>1. /\ [Latest(job[t].log) EXCEPT !.status = "pending"] \in Entries
        /\ [Latest(job[t].log) EXCEPT !.status = "pending"].status = "pending"
    BY <1>2 DEF Entries, Statuses
  <2>2. Lawful(Latest(job[t].log).status, "pending")
    BY <1>2 DEF Lawful
  <2> QED
    BY <1>1, <1>3, <1>6, <2>1, <2>2, PatchHistory DEF Failed
<1>7. CASE Complete(t)
  <2>1. refunded > 0
    BY <1>0, <1>7 DEF Complete, At, Progress
  <2>2. Lawful(Latest(job[t].log).status, "completed")
    BY <1>2, <2>1 DEF Lawful
  <2> QED
    BY <1>1, <1>3, <1>4, <1>7, <2>2, PatchHistory DEF Complete
<1>8. CASE Refund(t)
  <2>1. UNCHANGED <<order, pi>> /\ refunded' \in Nat /\ refunded <= refunded'
    BY <1>8, HistoryFacts DEF Refund
  <2>2. PICK label \in {"complete", "failed"} : Goto(t, label)
    BY <1>8 DEF Refund
  <2>3. label \in Steps
    BY DEF Steps
  <2>4. Onward
    BY <2>1 DEF Onward
  <2> QED
    BY <1>1, <2>1, <2>2, <2>3, <2>4, GotoHistory
<1> QED
  BY <1>5, <1>6, <1>7, <1>8

LEMMA ApproveHistory ==
  ASSUME HistoryInv, NEW t \in Threads, Approve(t)
  PROVE  Fresh' /\ (Quiet \/ Patching)
<1>0. /\ job[t] \in Jobs /\ Stage(t, job[t]) /\ RefundInv
  BY HistoryFacts
<1>1. Holding(job[t]) /\ LastOpen(job[t].log) /\ job[t].op = "process"
  BY <1>0 DEF Approve, At, Stage, Holding
<1> DEFINE e == [Latest(job[t].log) EXCEPT !.status = "approved", !.by = By(t),
                   !.fee = job[t].fee, !.split = job[t].fee]
           next == [job[t] EXCEPT !.pc = "release"]
<1>2. e \in Entries /\ e.status = "approved"
  BY <1>0, <1>1, ApprovedEntry
<1>3. Save(t, order, Patched(job[t].log, e), next) /\ UNCHANGED <<pi, refunded>>
  BY DEF Approve
<1>4. Lawful(Latest(job[t].log).status, "approved")
  BY <1>1 DEF LastOpen, Lawful
<1>5. "release" \in Steps
  BY DEF Steps
<1>6. /\ next \in Jobs /\ next.stale = job[t].stale /\ next.op = job[t].op
      /\ next.log = job[t].log
  BY <1>0, <1>5, GotoJob
<1> HIDE DEF e, next
<1> QED
  BY <1>1, <1>2, <1>3, <1>4, <1>6, PatchHistory

LEMMA DecideHistory ==
  ASSUME HistoryInv, NEW t \in Threads, NEW op \in Decisions, Decide(t, op)
  PROVE  Fresh' /\ Quiet
<1>1. PICK f : Become(t, [Loaded("decide", op) EXCEPT !.fee = f])
  BY DEF Decide
<1>2. [Loaded("decide", op) EXCEPT !.fee = f].log = order.log
  BY DEF Loaded, Idle
<1>3. UNCHANGED <<order, pi, refunded>>
  BY DEF Decide
<1> QED
  BY <1>1, <1>2, <1>3, LoadHistory

(* What an administrator writes is lawful, and neither makes nor ends an   *)
(* approval.                                                               *)
LEMMA DecidedLawful ==
  ASSUME HistoryInv, NEW t \in Threads, At(t, "decide")
  PROVE  /\ LastOpen(job[t].log) /\ Decided(t) \in Entries
         /\ Lawful(Latest(job[t].log).status, Decided(t).status)
         /\ Latest(job[t].log).status = "approved" <=> Decided(t).status = "approved"
<1>0. /\ job[t] \in Jobs /\ Progress(job[t], pi, refunded) /\ RefundInv
      /\ Holding(job[t])
  BY HistoryFacts DEF At, Holding
<1>1. /\ LastOpen(job[t].log) /\ Decided(t) \in Entries /\ job[t].op \in Decisions
  BY <1>0, DecidedEntry
<1>2. Latest(job[t].log) \in Entries
  BY <1>1, HistoryFacts, LatestEntry DEF LastOpen
<1>3. CASE job[t].op = "pause"
  <2>1. Latest(job[t].log).status = "pending" /\ Decided(t).status = "paused"
    BY <1>0, <1>2, <1>3 DEF Progress, Decided, Entries
  <2> QED
    BY <1>1, <2>1 DEF Lawful
<1>4. CASE job[t].op = "resume"
  <2>1. Latest(job[t].log).status = "paused" /\ Decided(t).status = "pending"
    BY <1>0, <1>2, <1>4 DEF Progress, Decided, Entries
  <2> QED
    BY <1>1, <2>1 DEF Lawful
<1>5. CASE job[t].op = "cancel"
  <2>1. /\ Latest(job[t].log).status \in {"pending", "paused"}
        /\ Decided(t).status = "rejected"
    BY <1>0, <1>2, <1>5 DEF Progress, Decided, Entries
  <2> QED
    BY <1>1, <2>1 DEF Lawful
<1>6. CASE job[t].op = "override"
  <2>1. Decided(t).status = Latest(job[t].log).status
    BY <1>2, <1>6 DEF Decided, Entries
  <2> QED
    BY <1>1, <2>1 DEF Lawful
<1> QED
  BY <1>1, <1>3, <1>4, <1>5, <1>6 DEF Decisions

LEMMA DecideSaveHistory ==
  ASSUME HistoryInv, NEW t \in Threads, DecideSave(t)
  PROVE  /\ Fresh' /\ (Quiet \/ Patching)
         /\ \/ Quiet
            \/ /\ job[t].log = order.log
               /\ order'.log = Patched(order.log, Decided(t))
<1>1. /\ Holding(job[t]) /\ LastOpen(job[t].log) /\ Decided(t) \in Entries
      /\ Lawful(Latest(job[t].log).status, Decided(t).status)
  BY DecidedLawful DEF DecideSave, At, Holding
<1>2. job[t].op # "ready"
  BY HistoryFacts DEF DecideSave, At, Stage, Decisions
<1> QED
  BY <1>1, <1>2, PatchHistory, EndedStage DEF DecideSave

LEMMA RejectedHistory ==
  ASSUME HistoryInv, NEW t \in Threads, RejectSave(t) \/ RejectRefund(t)
  PROVE  Fresh' /\ (Quiet \/ Asking)
<1>0. /\ order \in Orders /\ job[t] \in Jobs /\ Stage(t, job[t])
      /\ job[t].log \in Seq(Entries) /\ Holding(job[t]) /\ job[t].op = "reject"
  BY HistoryFacts DEF RejectSave, RejectRefund, At, Holding, Stage
<1>1. PICK log \in Seq(Entries) :
        /\ Rejected(t, log)
        /\ \/ log = job[t].log
           \/ log = Append(job[t].log, Asked) /\ Active(job[t].log) = {}
  <2>1. CASE RejectSave(t)
    BY <1>0, <2>1 DEF RejectSave
  <2>2. CASE RejectRefund(t)
    <3>1. Active(job[t].log) = {}
      BY <1>0, <2>2 DEF RejectRefund, At, Stage, Holding
    <3> QED
      BY <1>0, <2>2, <3>1, AppendedOrdered DEF RejectRefund
  <2> QED
    BY <2>1, <2>2
<1> DEFINE waiting == [Idle EXCEPT !.pc = "load", !.op = "process"]
           doc == [order EXCEPT !.status = "cancelled", !.source = "vendor"]
<1>2. /\ UNCHANGED <<pi, refunded>>
      /\ \E next \in {Ended(t), waiting} : Save(t, doc, log, next)
  BY <1>1 DEF Rejected
<1>3. PICK next \in {Ended(t), waiting} : Save(t, doc, log, next)
  BY <1>2
<1>4. waiting \in Jobs /\ waiting.pc = "load"
  <2>1. "load" \in Steps /\ "process" \in Ops
    BY DEF Steps, Ops
  <2> QED
    BY <2>1, IdleJob DEF Jobs
<1>5. doc \in Orders /\ doc.log = order.log
  BY <1>0 DEF Orders
<1> HIDE DEF doc, waiting
<1>6. next \in Jobs /\ ~Holding(next)
  BY <1>3, <1>4, EndedStage DEF Holding
<1>7. /\ Fresh'
      /\ order'.log # order.log => order'.log = log /\ job[t].log = order.log
  BY <1>0, <1>1, <1>3, <1>5, <1>6, SaveFresh
<1>8. CASE order'.log = order.log
  BY <1>2, <1>7, <1>8, SameOnward, QuietStep, HistoryFacts
<1>9. CASE order'.log # order.log
  BY <1>1, <1>2, <1>7, <1>9 DEF Asking
<1> QED
  BY <1>7, <1>8, <1>9

LEMMA ReadySaveHistory ==
  ASSUME HistoryInv, NEW t \in Threads, ReadySave(t)
  PROVE  Fresh' /\ Quiet
<1>0. /\ order \in Orders /\ job[t] \in Jobs /\ job[t].log \in Seq(Entries)
      /\ Holding(job[t])
  BY HistoryFacts DEF ReadySave, At, Holding
<1> DEFINE doc == [order EXCEPT !.status = "approved"]
           next == [job[t] EXCEPT !.pc = "capture_read"]
<1>1. Save(t, doc, job[t].log, next) /\ UNCHANGED <<pi, refunded>>
  BY DEF ReadySave
<1>2. doc \in Orders /\ doc.log = order.log
  BY <1>0 DEF Orders
<1>3. "capture_read" \in Steps
  BY DEF Steps
<1>4. /\ next \in Jobs /\ next.stale = job[t].stale /\ next.op = job[t].op
      /\ next.log = job[t].log
  BY <1>0, <1>3, GotoJob
<1> HIDE DEF doc, next
<1>5. Fresh' /\ order'.log = order.log
  BY <1>0, <1>1, <1>2, <1>4, SaveFresh
<1> QED
  BY <1>1, <1>5, SameOnward, QuietStep, HistoryFacts

LEMMA KillHistory ==
  ASSUME HistoryInv, NEW t \in Threads, Kill(t)
  PROVE  Fresh' /\ Quiet
<1>1. End(t) /\ UNCHANGED <<order, pi, refunded>>
  BY DEF Kill
<1> QED
  BY <1>1, SameOnward, EndHistory, HistoryFacts

LEMMA PauseAllHistory ==
  ASSUME HistoryInv, NEW t \in Threads, PauseAll(t)
  PROVE  Fresh' /\ Quiet
<1>1. UNCHANGED <<order, pi, refunded, job>>
  BY DEF PauseAll
<1> QED
  BY <1>1, SameOnward, QuietStep, HistoryFacts DEF Fresh

-----------------------------------------------------------------------------
(* One thread                                                              *)

(* A step of t changes the request of the others at most by making it      *)
(* stale.                                                                  *)
Others(t) == \A u \in Threads : u # t =>
  job'[u].pc = job[u].pc /\ job'[u].op = job[u].op /\ job'[u].log = job[u].log

Moves(t) == Continue(t) \/ Begin(t) \/ CronScan(t) \/ Kill(t)

LEMMA BecomeOthers ==
  ASSUME HistoryInv, NEW t \in Threads, NEW j, Become(t, j)
  PROVE  Others(t) /\ job'[t] = j
  BY HistoryFacts DEF Become, Others

LEMMA SavedOthers ==
  ASSUME HistoryInv, NEW t \in Threads, NEW doc, NEW log, NEW next,
         Save(t, doc, log, next)
  PROVE  Others(t)
<1>1. CASE End(t) \/ Become(t, next)
  BY <1>1, BecomeOthers DEF End
<1>2. CASE job' = [u \in Threads |->
                     IF u # t THEN [job[u] EXCEPT !.stale = Holding(job[u])]
                     ELSE IF Holding(next) THEN [next EXCEPT !.log = log]
                     ELSE next]
  <2> SUFFICES ASSUME NEW u \in Threads, u # t
               PROVE  /\ job'[u].pc = job[u].pc /\ job'[u].op = job[u].op
                      /\ job'[u].log = job[u].log
    BY DEF Others
  <2>1. job'[u] = [job[u] EXCEPT !.stale = Holding(job[u])] /\ job[u] \in Jobs
    BY <1>2, HistoryFacts
  <2> QED
    BY <2>1 DEF Jobs
<1> QED
  BY <1>1, <1>2 DEF Save

LEMMA StepOthers ==
  ASSUME HistoryInv, NEW t \in Threads, Moves(t)
  PROVE  Others(t)
<1>1. ASSUME NEW j, Become(t, j) PROVE Others(t)
  BY <1>1, BecomeOthers
<1>2. ASSUME NEW doc, NEW log, NEW next, Save(t, doc, log, next)
      PROVE  Others(t)
  BY <1>2, SavedOthers
<1>3. CASE RejectSave(t) \/ RejectRefund(t)
  <2>1. PICK log : Rejected(t, log)
    BY <1>3 DEF RejectSave, RejectRefund
  <2> QED
    BY <1>2, <2>1 DEF Rejected
<1>4. CASE ReleaseDone(t) \/ Approve(t) \/ Failed(t) \/ Complete(t)
             \/ DecideSave(t) \/ ReadySave(t)
  BY <1>2, <1>4 DEF ReleaseDone, Approve, Failed, Complete, DecideSave, ReadySave
<1>5. CASE ClientSave(t) \/ Release(t) \/ ReleaseCancel(t) \/ ReleaseMark(t)
             \/ ProcessLoad(t) \/ Refund(t) \/ Kill(t)
  BY <1>1, <1>5 DEF ClientSave, Release, ReleaseCancel, ReleaseMark,
     ProcessLoad, Refund, Kill, End, Goto
<1>6. CASE CaptureRead(t) \/ CaptureRetrieve(t) \/ Capture(t) \/ CaptureMark(t)
  BY <1>1, <1>6 DEF CaptureRead, CaptureRetrieve, Capture, CaptureMark, End, Goto
<1>7. CASE ClientLoad(t) \/ RejectLoad(t) \/ ReadyLoad(t) \/ AdminProcess(t)
             \/ CronScan(t) \/ \E op \in Decisions : Decide(t, op)
  BY <1>1, <1>7 DEF ClientLoad, RejectLoad, ReadyLoad, AdminProcess, CronScan,
     Decide
<1>8. CASE PauseAll(t)
  BY <1>8 DEF PauseAll, Others
<1> QED
  BY <1>3, <1>4, <1>5, <1>6, <1>7, <1>8 DEF Moves, Continue, Begin, Decisions

(* A call that returned takes no step.                                     *)
LEMMA DoneRests ==
  ASSUME NEW t, Moves(t)
  PROVE  job[t].pc # "done"
  BY DEF Moves, Continue, Begin, ClientSave, RejectSave, RejectRefund, Release,
     ReleaseCancel, ReleaseMark, ReleaseDone, ProcessLoad, Approve, Refund,
     Failed, Complete, DecideSave, ReadySave, CaptureRead, CaptureRetrieve,
     Capture, CaptureMark, ClientLoad, RejectLoad, ReadyLoad, AdminProcess,
     Decide, PauseAll, CronScan, Kill, AdminMay, At

(* The customer's call does nothing but cancel.                            *)
LEMMA ClientOnly ==
  ASSUME OneOrigin, NEW c \in Cancels, Rejects = {}, Moves(c),
         job[c].pc \in {"idle", "client_save"}
  PROVE  \/ ClientLoad(c)
         \/ ClientSave(c)
         \/ End(c)
<1>1. c \notin Rejects \cup Readies \cup Crons \cup Admins
  BY DEF OneOrigin
<1> QED
  BY <1>1 DEF Moves, Continue, Begin, RejectSave, RejectRefund, Release,
     ReleaseCancel, ReleaseMark, ReleaseDone, ProcessLoad, Approve, Refund,
     Failed, Complete, DecideSave, ReadySave, CaptureRead, CaptureRetrieve,
     Capture, CaptureMark, RejectLoad, ReadyLoad, AdminProcess, Decide,
     PauseAll, CronScan, Kill, AdminMay, At

(* When the customer's request is written nobody else holds a request.     *)
LEMMA ClientHistory ==
  ASSUME OneOrigin, ClientInv, NEW c \in Threads, ClientSave(c)
  PROVE  Fresh' /\ Asking
<1>0. /\ c \in Cancels /\ job[c].pc = "client_save"
      /\ order \in Orders /\ job \in [Threads -> Jobs]
  BY HistoryFacts DEF ClientInv, ClientSave, At, Stage
<1>1. Rejects = {} /\ \A d \in Cancels : d = c
  BY <1>0 DEF OneOrigin
<1>2. order.log = <<>> /\ job[c].log = <<>>
  BY <1>0 DEF ClientInv, FirstAsks
<1>3. /\ order'.log = Append(order.log, Asked) /\ Active(order.log) = {}
      /\ UNCHANGED <<pi, refunded>>
  BY <1>0, <1>2 DEF ClientSave, Orders, Active
<1>4. Fresh'
  <2> SUFFICES ASSUME NEW u \in Threads, Holding(job'[u]), ~job'[u].stale,
                      job'[u].op # "ready"
               PROVE  FALSE
    BY DEF Fresh
  <2>1. u # c
    BY <1>0, EndedStage DEF ClientSave, End, Become
  <2>2. job'[u] = job[u]
    BY <1>0, <2>1 DEF ClientSave, End, Become
  <2>3. /\ Stage(u, job[u]) /\ job[u] \in Jobs
        /\ job[u].log = <<>>
    BY <1>2, <2>2, HistoryFacts DEF ClientInv, Fresh
  <2>4. job[u].op \notin Decisions \cup {"process", "reject"}
    BY <1>1, <2>2, <2>3 DEF Stage, LastOpen
  <2> QED
    BY <1>1, <2>1, <2>2, <2>3, <2>4 DEF Stage, Holding, Jobs, Steps
<1> QED
  BY <1>3, <1>4 DEF Asking

(* Every step writes what it checked.                                      *)
LEMMA ThreadHistory ==
  ASSUME OneOrigin, ClientInv, NEW t \in Threads, Moves(t)
  PROVE  /\ Fresh'
         /\ \/ Quiet \/ Patching
            \/ Asking /\ (t \in Rejects \/ ClientSave(t))
<1>0. HistoryInv
  BY DEF ClientInv
<1>1. CASE Continue(t)
  <2>1. CASE RejectSave(t) \/ RejectRefund(t)
    <3>1. t \in Rejects
      BY <1>0, <2>1, HistoryFacts DEF RejectSave, RejectRefund, At, Stage, Holding
    <3> QED
      BY <1>0, <2>1, <3>1, RejectedHistory
  <2>2. CASE ClientSave(t)
    BY <2>2, ClientHistory
  <2> QED
    BY <1>0, <1>1, <2>1, <2>2, ReleaseHistory, ProcessHistory,
       ApproveHistory, FinishHistory, DecideSaveHistory, ReadySaveHistory,
       CaptureHistory DEF Continue
<1>2. CASE Begin(t)
  BY <1>0, <1>2, LoadsHistory, ProcessHistory, DecideHistory, PauseAllHistory
     DEF Begin, Decisions
<1> QED
  BY <1>0, <1>1, <1>2, ProcessHistory, KillHistory DEF Moves

LEMMA FirstKept ==
  ASSUME OneOrigin, ClientInv, NEW t \in Threads, Moves(t)
  PROVE  FirstAsks'
<1> SUFFICES ASSUME NEW c \in Cancels
             PROVE  /\ job'[c].pc \in {"idle", "client_save", "done"}
                    /\ order'.log # <<>> => job'[c].pc = "done"
                    /\ job'[c].pc = "client_save" => job'[c].log = <<>>
  BY DEF FirstAsks
<1>0. /\ c \in Threads /\ Rejects = {} /\ \A d \in Cancels : d = c
      /\ c \notin Admins \cup Crons
      /\ HistoryInv /\ TypeOK /\ job \in [Threads -> Jobs]
  BY HistoryFacts DEF Threads, OneOrigin, ClientInv
<1>1. /\ job[c].pc \in {"idle", "client_save", "done"}
      /\ order.log # <<>> => job[c].pc = "done"
      /\ job[c].pc = "client_save" => job[c].log = <<>>
  BY DEF ClientInv, FirstAsks
<1>2. /\ t # c => job'[c].pc = job[c].pc /\ job'[c].log = job[c].log
      /\ job[t].pc # "done"
  BY <1>0, StepOthers, DoneRests DEF Others
<1>3. CASE job[c].pc = "done"
  BY <1>2, <1>3
<1>4. CASE t = c /\ (ClientSave(c) \/ End(c))
  <2>1. job'[c] = [Idle EXCEPT !.pc = "done"]
    BY <1>0, <1>4 DEF ClientSave, End, Become, Ended
  <2> QED
    BY <2>1 DEF Idle
<1>5. CASE order.log = <<>> /\ ~ClientSave(t)
  <2>1. order'.log = <<>>
    BY <1>0, <1>5, ThreadHistory DEF Quiet, Patching, LastOpen
  <2>2. CASE t = c /\ ClientLoad(c)
    <3>1. /\ Loaded("client_save", "client").pc = "client_save"
          /\ Loaded("client_save", "client").log = order.log
      BY DEF Loaded, Idle
    <3>2. job'[c] = Loaded("client_save", "client")
      BY <1>0, <2>2 DEF ClientLoad, Become
    <3> QED
      BY <1>5, <2>1, <3>1, <3>2
  <2>3. CASE t # c
    BY <1>1, <1>2, <2>1, <2>3
  <2>4. t = c => job[c].pc \in {"idle", "client_save"}
    BY <1>1, <1>2
  <2> QED
    BY <1>0, <1>4, <1>5, <2>2, <2>3, <2>4, ClientOnly
<1>6. ClientSave(t) => t = c
  BY <1>0, HistoryFacts DEF ClientSave, At, Stage
<1> QED
  BY <1>1, <1>3, <1>4, <1>5, <1>6

LEMMA StepHistory ==
  ASSUME OneOrigin, ClientInv, [Next]_vars
  PROVE  ClientInv' /\ LawfulStep
<1>0. HistoryInv /\ LifeInv'
  BY StepLife, HistoryFacts DEF ClientInv
<1>1. CASE UNCHANGED vars
  <2>1. UNCHANGED <<order, pi, refunded, job>>
    BY <1>1 DEF vars
  <2>2. Quiet
    BY <1>0, <2>1, SameOnward, QuietStep, HistoryFacts
  <2> QED
    BY <1>0, <2>1, <2>2
       DEF Fresh, FirstAsks, ClientInv, HistoryInv, LawfulStep
<1>2. CASE Next
  <2>1. PICK t \in Threads : Moves(t)
    BY <1>2 DEF Next, Moves
  <2> QED
    BY <1>0, <2>1, ThreadHistory, FirstKept DEF ClientInv, HistoryInv, LawfulStep
<1> QED
  BY <1>1, <1>2

LEMMA InitHistory == Init => ClientInv
<1>1. Init => job = [t \in Threads |-> Idle] /\ order.log = <<>>
  BY DEF Init
<1>2. Idle.pc = "idle" /\ Cancels \subseteq Threads
  BY DEF Idle, Threads
<1> QED
  BY <1>1, <1>2, InitLife, IdleJob DEF ClientInv, HistoryInv, Fresh, FirstAsks

-----------------------------------------------------------------------------
(* Theorems                                                                *)

(* A decided entry is never lost: whatever rejections, administrators,     *)
(* processors and mark-ready do at the same time, a refused or completed   *)
(* request stays in refundRequestLog as it was written.  Only the save of  *)
(* submitRefundRequest, which leaves the version out, can do otherwise,    *)
(* when it meets a rejection or another one.                               *)
THEOREM HistoryKept == ASSUME OneOrigin PROVE Spec => DecidedStays
<1>1. ClientInv /\ [Next]_vars =>
        [\A i \in 1..Len(order.log) :
           order.log[i].status \in Final =>
             i <= Len(order'.log) /\ order'.log[i] = order.log[i]]_vars
  <2> SUFFICES ASSUME ClientInv, [Next]_vars, NEW i \in 1..Len(order.log),
                      order.log[i].status \in Final
               PROVE  i <= Len(order'.log) /\ order'.log[i] = order.log[i]
    OBVIOUS
  <2>1. LawfulStep /\ order.log \in Seq(Entries)
    BY StepHistory, HistoryFacts DEF ClientInv
  <2>2. CASE Quiet
    BY <2>1, <2>2 DEF Quiet
  <2>3. CASE Asking
    BY <2>1, <2>3, AppendedOrdered DEF Asking
  <2>4. CASE Patching
    <3>1. PICK e \in Entries : order'.log = Patched(order.log, e)
      BY <2>4 DEF Patching
    <3>2. order.log # <<>> /\ order.log[Len(order.log)].status \in ActiveStatuses
      BY <2>4 DEF Patching, LastOpen, Latest
    <3>3. i < Len(order.log)
      BY <2>1, <3>2 DEF Final, ActiveStatuses
    <3>4. /\ Len(Patched(order.log, e)) = Len(order.log)
          /\ Patched(order.log, e)[i] = order.log[i]
      BY <2>1, <3>2, <3>3, PatchedLog
    <3> QED
      BY <2>1, <3>1, <3>3, <3>4
  <2> QED
    BY <2>1, <2>2, <2>3, <2>4 DEF LawfulStep
<1>2. ClientInv /\ [Next]_vars => ClientInv'
  BY StepHistory
<1> QED
  BY <1>1, <1>2, InitHistory, PTL DEF Spec, DecidedStays

(* The status of the latest request.                                       *)
Shown(log) == IF log = <<>> THEN "none" ELSE Latest(log).status

LEMMA ShownAsked ==
  ASSUME NEW log \in Seq(Entries), Active(log) = {}
  PROVE  /\ Shown(log) \in {"none", "rejected", "completed"}
         /\ Shown(Append(log, Asked)) = "pending"
<1>1. CASE log = <<>>
  BY <1>1, AppendedOrdered DEF Shown, Latest, Asked
<1>2. CASE log # <<>>
  <2>1. Latest(log) \in Entries /\ Latest(log).status \notin ActiveStatuses
    BY <1>2, LatestEntry DEF Active, Latest
  <2>2. Latest(log).status \in {"rejected", "completed"}
    BY <2>1 DEF Entries, Statuses, ActiveStatuses
  <2> QED
    BY <1>2, <2>2, AppendedOrdered DEF Shown, Latest, Asked
<1> QED
  BY <1>1, <1>2

LEMMA RequestStep ==
  ASSUME HistoryInv, LawfulStep
  PROVE  [Request!Next]_(Request!vars)
<1> DEFINE back == pi = "canceled" \/ refunded > 0
<1>1. order.log \in Seq(Entries)
  BY HistoryFacts
<1>2. CASE Quiet
  <2>1. Shown(order'.log) = Shown(order.log)
    BY <1>2 DEF Quiet
  <2>2. back => back'
    BY <1>2 DEF Quiet
  <2> QED
    BY <2>1, <2>2 DEF Shown, Request!Next, Request!PayBack, Request!vars
<1>3. CASE Asking
  <2>1. /\ Shown(order.log) \in {"none", "rejected", "completed"}
        /\ Shown(order'.log) = "pending"
    BY <1>1, <1>3, ShownAsked DEF Asking
  <2>2. back' = back
    BY <1>3 DEF Asking
  <2> QED
    BY <2>1, <2>2 DEF Shown, Request!Next, Request!Ask, Request!Move
<1>4. CASE Patching
  <2>1. PICK e \in Entries : /\ order'.log = Patched(order.log, e)
                             /\ Lawful(Latest(order.log).status, e.status)
    BY <1>4 DEF Patching
  <2>2. order.log # <<>> /\ Latest(order.log).status \in ActiveStatuses
    BY <1>4 DEF Patching, LastOpen
  <2>3. Shown(order.log) = Latest(order.log).status /\ Shown(order'.log) = e.status
    BY <1>1, <2>1, <2>2, PatchedLog DEF Shown
  <2>4. back' = back
    BY <1>4 DEF Patching
  <2> DEFINE from == Shown(order.log)
             to == Shown(order'.log)
  <2>5. from \in ActiveStatuses /\ Lawful(from, to)
    BY <2>1, <2>2, <2>3
  <2>6. CASE from = to
    BY <2>4, <2>6 DEF Shown, Request!vars
  <2>7. CASE from \in {"pending", "paused"} /\ to = "approved"
    BY <2>4, <2>7 DEF Shown, Request!Next, Request!Approve, Request!Move
  <2>8. CASE from = "pending" /\ to = "paused"
    BY <2>4, <2>8 DEF Shown, Request!Next, Request!Pause, Request!Move
  <2>9. CASE from = "paused" /\ to = "pending"
    BY <2>4, <2>9 DEF Shown, Request!Next, Request!Resume, Request!Move
  <2>10. CASE from \in {"pending", "paused"} /\ to = "rejected"
    BY <2>4, <2>10 DEF Shown, Request!Next, Request!Reject, Request!Move
  <2>11. CASE from = "approved" /\ to = "pending"
    BY <2>4, <2>11 DEF Shown, Request!Next, Request!Fail, Request!Move
  <2>12. CASE from = "approved" /\ to = "completed" /\ back
    BY <2>4, <2>12 DEF Shown, Request!Next, Request!Complete, Request!Move
  <2> QED
    BY <2>5, <2>6, <2>7, <2>8, <2>9, <2>10, <2>11, <2>12
       DEF Lawful, ActiveStatuses
<1> QED
  BY <1>2, <1>3, <1>4 DEF LawfulStep

(* The latest request, whoever made it, goes through the life cycle of     *)
(* RefundRequest for any number of processors and administrators: above    *)
(* all it is completed only once Stripe has released or refunded the       *)
(* payment.                                                                *)
THEOREM RequestLifeCycle == ASSUME OneOrigin PROVE Spec => ImplementsRequest
<1>1. Init => Request!Init
  BY DEF Init, Request!Init
<1>2. ClientInv /\ [Next]_vars => [Request!Next]_(Request!vars)
  BY StepHistory, RequestStep DEF ClientInv
<1>3. ClientInv /\ [Next]_vars => ClientInv'
  BY StepHistory
<1> QED
  BY <1>1, <1>2, <1>3, InitHistory, PTL
     DEF Spec, ImplementsRequest, Request!Spec

-----------------------------------------------------------------------------
(* A single processor                                                      *)

(* The deployment for which the requests are processed one at a time: the  *)
(* cron enabled in one process, no immediate processing after a            *)
(* cancellation, no administrator processing by hand.                      *)
OneProcessor ==
  /\ EventsOn = FALSE /\ "process" \notin AdminOps
  /\ \A c, d \in Crons : c = d

Approved == Shown(order.log) = "approved"

(* What processor t knows of the request it works on.                      *)
Undisturbed(t) ==
  /\ job[t].pc = "load" => job[t].op = "process"
  /\ job[t].op = "process" =>
       /\ t \in Crons
       /\ job[t].pc = "load" => ~Approved
       /\ job[t].pc = "approve" => Latest(job[t].log).status # "approved"
       /\ Holding(job[t]) /\ job[t].pc # "approve" => Approved

MoneyInv == ClientInv /\ \A t \in Threads : Undisturbed(t)

LEMMA SaveOthers ==
  ASSUME HistoryInv, NEW t \in Threads, NEW doc \in Orders, NEW log,
         NEW next \in Jobs, doc.log = order.log, Save(t, doc, log, next)
  PROVE  /\ Others(t)
         /\ \/ job'[t] = Ended(t)
            \/ log = job[t].log /\ job'[t] = next
            \/ /\ order'.log = log
               /\ job'[t] = IF Holding(next) THEN [next EXCEPT !.log = log] ELSE next
<1>1. CASE order' = order /\ End(t)
  BY <1>1, BecomeOthers DEF End
<1>2. CASE log = job[t].log /\ order' = doc /\ Become(t, next)
  BY <1>2, BecomeOthers
<1>3. CASE /\ order' = [doc EXCEPT !.log = log]
           /\ job' = [u \in Threads |->
                        IF u # t THEN [job[u] EXCEPT !.stale = Holding(job[u])]
                        ELSE IF Holding(next) THEN [next EXCEPT !.log = log]
                        ELSE next]
  <2>1. order'.log = log
    BY <1>3 DEF Orders
  <2>2. Others(t)
    <3> SUFFICES ASSUME NEW u \in Threads, u # t
                 PROVE  /\ job'[u].pc = job[u].pc /\ job'[u].op = job[u].op
                        /\ job'[u].log = job[u].log
      BY DEF Others
    <3>1. job'[u] = [job[u] EXCEPT !.stale = Holding(job[u])] /\ job[u] \in Jobs
      BY <1>3, HistoryFacts
    <3> QED
      BY <3>1 DEF Jobs
  <2> QED
    BY <1>3, <2>1, <2>2
<1> QED
  BY <1>1, <1>2, <1>3, SaveOutcome, HistoryFacts

(* Only a processor makes or ends an approval.                             *)
LEMMA MoneyKept ==
  ASSUME MoneyInv, OneProcessor, ClientInv', NEW t \in Threads, Others(t),
         Undisturbed(t)', t \in Crons \/ (Approved' <=> Approved)
  PROVE  MoneyInv'
<1> SUFFICES ASSUME NEW u \in Threads, u # t PROVE Undisturbed(u)'
  BY DEF ClientInv, MoneyInv
<1>1. /\ job'[u].pc = job[u].pc /\ job'[u].op = job[u].op
      /\ job'[u].log = job[u].log
  BY DEF Others
<1>2. Undisturbed(u)
  BY DEF ClientInv, MoneyInv
<1>3. CASE job[u].op # "process"
  BY <1>1, <1>2, <1>3 DEF Undisturbed
<1>4. CASE job[u].op = "process"
  <2>1. u \in Crons
    BY <1>2, <1>4 DEF Undisturbed
  <2>2. Approved' <=> Approved
    BY <2>1 DEF OneProcessor
  <2> QED
    BY <1>1, <1>2, <2>1, <2>2 DEF Undisturbed, Holding
<1> QED
  BY <1>3, <1>4

LEMMA QuietApproved ==
  ASSUME Quiet PROVE Approved' <=> Approved
  BY DEF Quiet, Approved, Shown

LEMMA EndedOp ==
  ASSUME NEW t \in Threads
  PROVE  Ended(t).op # "process" /\ Ended(t).pc # "load"
<1>1. /\ Idle.op = None /\ [Idle EXCEPT !.pc = "done"].op = None
      /\ Idle.pc = "idle" /\ [Idle EXCEPT !.pc = "done"].pc = "done"
  BY DEF Idle
<1> QED
  BY <1>1, RefundConstants DEF Ended

(* A step of t that ends its request, or that leaves the log alone and     *)
(* whose request is none of a processor.                                   *)
LEMMA MoneyEnds ==
  ASSUME MoneyInv, OneProcessor, ClientInv', NEW t \in Threads, Others(t),
         job'[t] = Ended(t), t \in Crons \/ (Approved' <=> Approved)
  PROVE  MoneyInv'
<1>1. Undisturbed(t)'
  BY EndedOp DEF Undisturbed
<1> QED
  BY <1>1, MoneyKept

LEMMA MoneyMoves ==
  ASSUME MoneyInv, OneProcessor, ClientInv', NEW t \in Threads, NEW j,
         Become(t, j), Quiet, j.op # "process", j.pc # "load"
  PROVE  MoneyInv'
<1>1. Others(t) /\ job'[t] = j
  BY BecomeOthers DEF ClientInv, MoneyInv
<1>2. Undisturbed(t)'
  BY <1>1 DEF Undisturbed
<1> QED
  BY <1>1, <1>2, MoneyKept, QuietApproved

LEMMA MoneyGoto ==
  ASSUME MoneyInv, OneProcessor, ClientInv', NEW t \in Threads,
         NEW label \in Steps, Goto(t, label), Quiet, Holding(job[t]),
         job[t].pc # "approve", label \notin {"load", "approve"}
  PROVE  MoneyInv'
<1> DEFINE j == [job[t] EXCEPT !.pc = label]
<1>1. Become(t, j) /\ job[t] \in Jobs
  BY HistoryFacts DEF Goto, ClientInv, MoneyInv
<1>2. j.pc = label /\ j.op = job[t].op
  BY <1>1, GotoJob
<1> HIDE DEF j
<1>3. Others(t) /\ job'[t] = j
  BY <1>1, BecomeOthers DEF ClientInv, MoneyInv
<1>4. Undisturbed(t)'
  BY <1>2, <1>3, QuietApproved DEF ClientInv, MoneyInv, Undisturbed
<1> QED
  BY <1>3, <1>4, MoneyKept, QuietApproved

LEMMA LoadsMoney ==
  ASSUME MoneyInv, OneProcessor, ClientInv', NEW t \in Threads,
         ClientLoad(t) \/ RejectLoad(t) \/ ReadyLoad(t)
           \/ \E op \in Decisions : Decide(t, op)
  PROVE  MoneyInv'
<1>1. Quiet
  BY LoadsHistory, DecideHistory DEF ClientInv, MoneyInv
<1>2. CASE \E op \in Decisions : Decide(t, op)
  <2>1. PICK op \in Decisions : Decide(t, op)
    BY <1>2
  <2>2. PICK f : Become(t, [Loaded("decide", op) EXCEPT !.fee = f])
    BY <2>1 DEF Decide
  <2>3. /\ [Loaded("decide", op) EXCEPT !.fee = f].op = op
        /\ [Loaded("decide", op) EXCEPT !.fee = f].pc = "decide"
    BY DEF Loaded, Idle
  <2>4. op # "process"
    BY DEF Decisions
  <2> QED
    BY <1>1, <2>2, <2>3, <2>4, MoneyMoves
<1>3. CASE ClientLoad(t) \/ RejectLoad(t) \/ ReadyLoad(t)
  <2>1. PICK label \in {"client_save", "release", "reject_save", "ready_save"},
             op \in {"client", "reject", "ready"} : Become(t, Loaded(label, op))
    BY <1>3 DEF ClientLoad, RejectLoad, ReadyLoad
  <2>2. Loaded(label, op).op # "process" /\ Loaded(label, op).pc # "load"
    BY DEF Loaded, Idle
  <2> QED
    BY <1>1, <2>1, <2>2, MoneyMoves
<1> QED
  BY <1>2, <1>3

LEMMA ReleaseMoney ==
  ASSUME MoneyInv, OneProcessor, ClientInv', NEW t \in Threads,
         \/ Release(t) \/ ReleaseCancel(t) \/ ReleaseMark(t)
         \/ CaptureRead(t) \/ CaptureRetrieve(t) \/ Capture(t) \/ CaptureMark(t)
  PROVE  MoneyInv'
<1>1. Quiet
  BY ReleaseHistory, CaptureHistory DEF ClientInv, MoneyInv
<1>2. Holding(job[t]) /\ job[t].pc # "approve"
  BY DEF Release, ReleaseCancel, ReleaseMark, CaptureRead, CaptureRetrieve,
     Capture, CaptureMark, At, Holding
<1>3. CASE End(t)
  BY <1>1, <1>3, BecomeOthers, MoneyEnds, QuietApproved DEF End, ClientInv, MoneyInv
<1>4. CASE ~End(t)
  <2>1. PICK label \in {"release_cancel", "reject_refund", "refund",
                        "release_mark", "reject_save", "release_done",
                        "capture_retrieve", "capture", "capture_mark"} :
          Goto(t, label)
    BY <1>4 DEF Release, ReleaseCancel, ReleaseMark, CaptureRead,
       CaptureRetrieve, Capture, CaptureMark
  <2>2. label \in Steps /\ label \notin {"load", "approve"}
    BY DEF Steps
  <2> QED
    BY <1>1, <1>2, <2>1, <2>2, MoneyGoto
<1> QED
  BY <1>3, <1>4

(* The cron takes up a request only when it is pending, and nobody else    *)
(* approves it before the cron has read the order.                         *)
LEMMA ProcessMoney ==
  ASSUME MoneyInv, OneProcessor, ClientInv', NEW t \in Threads,
         CronScan(t) \/ ProcessLoad(t) \/ AdminProcess(t)
  PROVE  MoneyInv'
<1>0. /\ HistoryInv /\ TypeOK /\ order.log \in Seq(Entries) /\ Ordered(order.log)
      /\ Undisturbed(t) /\ Quiet
  BY HistoryFacts, ProcessHistory DEF ClientInv, MoneyInv
<1>1. ~AdminProcess(t)
  BY DEF AdminProcess, AdminMay, OneProcessor
<1>2. CASE CronScan(t)
  <2> DEFINE j == [Idle EXCEPT !.pc = "load", !.op = "process"]
  <2>1. /\ t \in Crons /\ Become(t, j)
        /\ \E i \in 1..Len(order.log) : order.log[i].status = "pending"
    BY <1>2 DEF CronScan
  <2>2. ~Approved
    <3>1. Active(order.log) # {}
      BY <2>1 DEF Active, ActiveStatuses
    <3>2. order.log # <<>> /\ Latest(order.log).status = "pending"
      BY <1>0, <2>1 DEF Ordered, ActiveStatuses, Latest
    <3> QED
      BY <3>2 DEF Approved, Shown
  <2>3. j.pc = "load" /\ j.op = "process"
    BY DEF Idle
  <2> HIDE DEF j
  <2>4. Others(t) /\ job'[t] = j
    BY <1>0, <2>1, BecomeOthers
  <2>5. Undisturbed(t)'
    BY <1>0, <2>1, <2>2, <2>3, <2>4, QuietApproved DEF Undisturbed, Holding
  <2> QED
    BY <2>1, <2>4, <2>5, MoneyKept
<1>3. CASE ProcessLoad(t) /\ ~Processable
  BY <1>0, <1>3, BecomeOthers, MoneyEnds, QuietApproved DEF ProcessLoad, End
<1>4. CASE ProcessLoad(t) /\ Processable
  <2> DEFINE j == [Loaded("approve", "process") EXCEPT !.fee = Latest(order.log).fee]
  <2>1. Become(t, j) /\ job[t].pc = "load"
    BY <1>4 DEF ProcessLoad, At
  <2>2. j.pc = "approve" /\ j.op = "process" /\ j.log = order.log
    BY DEF Loaded, Idle
  <2>3. LastOpen(order.log)
    BY <1>0, <1>4, OpenIsLast DEF Processable
  <2> HIDE DEF j
  <2>4. Others(t) /\ job'[t] = j
    BY <1>0, <2>1, BecomeOthers
  <2>5. job[t].op = "process"
    BY <1>0, <2>1 DEF Undisturbed
  <2>6. Undisturbed(t)'
    BY <1>0, <2>1, <2>2, <2>3, <2>4, <2>5
       DEF Undisturbed, LastOpen, Approved, Shown
  <2> QED
    BY <1>0, <2>4, <2>6, MoneyKept, QuietApproved
<1> QED
  BY <1>1, <1>2, <1>3, <1>4

(* A decision of the administration neither makes nor ends an approval.    *)
LEMMA DecidedApproval ==
  ASSUME HistoryInv, NEW t \in Threads, DecideSave(t)
  PROVE  Approved' <=> Approved
<1>1. CASE Quiet
  BY <1>1, QuietApproved
<1>2. CASE /\ job[t].log = order.log
           /\ order'.log = Patched(order.log, Decided(t))
  <2>1. /\ LastOpen(job[t].log) /\ Decided(t) \in Entries
        /\ Latest(job[t].log).status = "approved" <=>
             Decided(t).status = "approved"
    BY DecidedLawful DEF DecideSave
  <2>2. order.log \in Seq(Entries)
    BY HistoryFacts
  <2>3. /\ Shown(order.log) = Latest(order.log).status
        /\ Shown(order'.log) = Decided(t).status
    BY <1>2, <2>1, <2>2, PatchedLog DEF Shown, LastOpen
  <2> QED
    BY <1>2, <2>1, <2>3 DEF Approved
<1>3. \/ Quiet
      \/ job[t].log = order.log /\ order'.log = Patched(order.log, Decided(t))
  BY DecideSaveHistory
<1> QED
  BY <1>1, <1>2, <1>3

LEMMA AskingApproved ==
  ASSUME HistoryInv, Asking PROVE Approved' <=> Approved
  BY HistoryFacts, ShownAsked DEF Asking, Approved

(* The saves of the vendor and of the administrators.                      *)
LEMMA SavesMoney ==
  ASSUME MoneyInv, OneProcessor, ClientInv', NEW t \in Threads,
         RejectSave(t) \/ RejectRefund(t) \/ ReadySave(t) \/ DecideSave(t)
  PROVE  MoneyInv'
<1>0. /\ HistoryInv /\ order \in Orders /\ order.log \in Seq(Entries)
      /\ job[t] \in Jobs /\ Stage(t, job[t])
  BY HistoryFacts DEF ClientInv, MoneyInv
<1>1. CASE RejectSave(t) \/ RejectRefund(t)
  <2>1. PICK log : Rejected(t, log)
    BY <1>1 DEF RejectSave, RejectRefund
  <2> DEFINE doc == [order EXCEPT !.status = "cancelled", !.source = "vendor"]
  <2>2. Save(t, doc, log, Ended(t))
    BY <2>1 DEF Rejected, OneProcessor
  <2>3. doc \in Orders /\ doc.log = order.log
    BY <1>0 DEF Orders
  <2> HIDE DEF doc
  <2>4. Others(t) /\ job'[t] = Ended(t)
    BY <1>0, <2>2, <2>3, SaveOthers, EndedStage
  <2>5. Approved' <=> Approved
    <3>1. CASE Quiet
      BY <3>1, QuietApproved
    <3>2. CASE Asking
      BY <1>0, <3>2, AskingApproved
    <3> QED
      BY <1>0, <1>1, <3>1, <3>2, RejectedHistory
  <2> QED
    BY <2>4, <2>5, MoneyEnds
<1>2. CASE DecideSave(t)
  <2>1. PICK log : Save(t, order, log, Ended(t))
    BY <1>2 DEF DecideSave
  <2>2. Others(t) /\ job'[t] = Ended(t)
    BY <1>0, <2>1, SaveOthers, EndedStage
  <2> QED
    BY <1>0, <1>2, <2>2, DecidedApproval, MoneyEnds
<1>3. CASE ReadySave(t)
  <2> DEFINE doc == [order EXCEPT !.status = "approved"]
             next == [job[t] EXCEPT !.pc = "capture_read"]
  <2>1. Save(t, doc, job[t].log, next) /\ job[t].op = "ready"
    BY <1>0, <1>3 DEF ReadySave, At, Stage
  <2>2. doc \in Orders /\ doc.log = order.log
    BY <1>0 DEF Orders
  <2>3. next \in Jobs /\ next.pc = "capture_read" /\ next.op = "ready"
    BY <1>0, <2>1, GotoJob DEF Steps
  <2> HIDE DEF doc, next
  <2>4. Others(t) /\ (job'[t].op # "process" /\ job'[t].pc # "load")
    <3>1. CASE job'[t] = Ended(t)
      BY <1>0, <2>1, <2>2, <2>3, <3>1, SaveOthers, EndedOp
    <3>2. CASE job'[t] \in {next, [next EXCEPT !.log = job[t].log]}
      <4>1. /\ [next EXCEPT !.log = job[t].log].pc = "capture_read"
            /\ [next EXCEPT !.log = job[t].log].op = "ready"
        BY <2>3 DEF Jobs
      <4> QED
        BY <1>0, <2>1, <2>2, <2>3, <3>2, <4>1, SaveOthers
    <3>3. \/ job'[t] = Ended(t)
          \/ job'[t] = next
          \/ job'[t] = IF Holding(next) THEN [next EXCEPT !.log = job[t].log]
                       ELSE next
      BY <1>0, <2>1, <2>2, <2>3, SaveOthers
    <3>4. Others(t)
      BY <1>0, <2>1, <2>2, <2>3, SaveOthers
    <3> QED
      BY <3>1, <3>2, <3>3, <3>4
  <2>5. Undisturbed(t)'
    BY <2>4 DEF Undisturbed
  <2> QED
    BY <1>0, <1>3, <2>4, <2>5, ReadySaveHistory, QuietApproved, MoneyKept
<1> QED
  BY <1>1, <1>2, <1>3

LEMMA ClientMoney ==
  ASSUME MoneyInv, OneProcessor, OneOrigin, ClientInv', NEW t \in Threads,
         ClientSave(t)
  PROVE  MoneyInv'
<1>1. Asking /\ HistoryInv
  BY ClientHistory DEF MoneyInv, ClientInv
<1>2. Others(t) /\ job'[t] = Ended(t)
  BY <1>1, BecomeOthers DEF ClientSave, End
<1> QED
  BY <1>1, <1>2, AskingApproved, MoneyEnds

(* The approval writes the log: what the processor holds was not approved, *)
(* so the save is either refused or makes the order approved.              *)
LEMMA ApproveMoney ==
  ASSUME MoneyInv, OneProcessor, ClientInv', NEW t \in Threads, Approve(t)
  PROVE  MoneyInv'
<1>0. /\ HistoryInv /\ RefundInv /\ order \in Orders /\ Undisturbed(t)
      /\ job[t] \in Jobs /\ Stage(t, job[t]) /\ job[t].log \in Seq(Entries)
  BY HistoryFacts DEF ClientInv, MoneyInv
<1>1. /\ job[t].pc = "approve" /\ job[t].op = "process" /\ LastOpen(job[t].log)
      /\ t \in Crons /\ Latest(job[t].log).status # "approved"
  BY <1>0 DEF Approve, At, Stage, Holding, Undisturbed
<1> DEFINE e == [Latest(job[t].log) EXCEPT !.status = "approved", !.by = By(t),
                   !.fee = job[t].fee, !.split = job[t].fee]
           log == Patched(job[t].log, e)
           next == [job[t] EXCEPT !.pc = "release"]
<1>2. e \in Entries /\ e.status = "approved"
  BY <1>0, <1>1, ApprovedEntry
<1>3. Save(t, order, log, next)
  BY DEF Approve
<1> HIDE DEF e
<1>4. log # <<>> /\ Latest(log).status = "approved"
  BY <1>0, <1>1, <1>2, PatchedLog DEF LastOpen
<1>5. next \in Jobs /\ next.pc = "release" /\ next.op = "process"
  BY <1>0, <1>1, GotoJob DEF Steps
<1> HIDE DEF log, next
<1>6. log # job[t].log
  BY <1>1, <1>4
<1>7. /\ Others(t)
      /\ job'[t] = Ended(t) \/ (order'.log = log /\
           job'[t] = IF Holding(next) THEN [next EXCEPT !.log = log] ELSE next)
  BY <1>0, <1>3, <1>5, <1>6, SaveOthers
<1>8. CASE job'[t] = Ended(t)
  BY <1>1, <1>7, <1>8, MoneyEnds
<1>9. CASE order'.log = log /\ job'[t] = [next EXCEPT !.log = log]
  <2>1. [next EXCEPT !.log = log].pc = "release"
        /\ [next EXCEPT !.log = log].op = "process"
    BY <1>5 DEF Jobs
  <2>2. Approved'
    BY <1>4, <1>9 DEF Approved, Shown
  <2>3. Undisturbed(t)'
    BY <1>1, <1>9, <2>1, <2>2 DEF Undisturbed
  <2> QED
    BY <1>1, <1>7, <2>3, MoneyKept
<1> QED
  BY <1>5, <1>7, <1>8, <1>9 DEF Holding

LEMMA FinishMoney ==
  ASSUME MoneyInv, OneProcessor, ClientInv', NEW t \in Threads,
         ReleaseDone(t) \/ Refund(t) \/ Failed(t) \/ Complete(t)
  PROVE  MoneyInv'
<1>0. /\ HistoryInv /\ order \in Orders /\ Undisturbed(t) /\ Stage(t, job[t])
  BY HistoryFacts DEF ClientInv, MoneyInv
<1>1. Holding(job[t]) /\ job[t].op = "process" /\ job[t].pc # "approve"
      /\ t \in Crons
  BY <1>0 DEF ReleaseDone, Refund, Failed, Complete, At, Stage, Holding,
     Undisturbed
<1>2. CASE Refund(t)
  <2>1. Quiet
    BY <1>2, HistoryFacts, <1>0 DEF Refund, Quiet
  <2>2. PICK label \in {"complete", "failed"} : Goto(t, label)
    BY <1>2 DEF Refund
  <2>3. label \in Steps
    BY DEF Steps
  <2> QED
    BY <1>1, <2>1, <2>2, <2>3, MoneyGoto
<1>3. CASE ReleaseDone(t) \/ Failed(t) \/ Complete(t)
  <2>1. PICK log : Save(t, order, log, Ended(t))
    BY <1>3 DEF ReleaseDone, Failed, Complete
  <2>2. Others(t) /\ job'[t] = Ended(t)
    BY <1>0, <2>1, SaveOthers, EndedStage
  <2> QED
    BY <1>1, <2>2, MoneyEnds
<1> QED
  BY <1>2, <1>3

LEMMA RestMoney ==
  ASSUME MoneyInv, OneProcessor, ClientInv', NEW t \in Threads,
         Kill(t) \/ PauseAll(t)
  PROVE  MoneyInv'
<1>1. CASE Kill(t)
  <2>1. Others(t) /\ job'[t] = Ended(t) /\ Quiet
    BY <1>1, BecomeOthers, KillHistory DEF Kill, End, ClientInv, MoneyInv
  <2> QED
    BY <2>1, MoneyEnds, QuietApproved
<1>2. CASE PauseAll(t)
  BY <1>2 DEF PauseAll, MoneyInv, Undisturbed, Approved
<1> QED
  BY <1>1, <1>2

LEMMA StepMoney ==
  ASSUME OneProcessor, OneOrigin, MoneyInv, [Next]_vars
  PROVE  MoneyInv'
<1>0. ClientInv' /\ HistoryInv
  BY StepHistory DEF ClientInv, MoneyInv
<1>1. CASE UNCHANGED vars
  BY <1>0, <1>1 DEF vars, MoneyInv, Undisturbed, Approved
<1>2. ASSUME NEW t \in Threads, Continue(t) PROVE MoneyInv'
  BY <1>0, <1>2, SavesMoney, ClientMoney, ReleaseMoney, ProcessMoney,
     ApproveMoney, FinishMoney DEF Continue
<1>3. ASSUME NEW t \in Threads, Begin(t) PROVE MoneyInv'
  BY <1>0, <1>3, LoadsMoney, ProcessMoney, RestMoney DEF Begin, Decisions
<1>4. CASE Next
  BY <1>0, <1>2, <1>3, <1>4, ProcessMoney, RestMoney DEF Next
<1> QED
  BY <1>1, <1>4

LEMMA MoneyInit == Init => MoneyInv
<1>1. Init => \A t \in Threads : job[t] = Idle
  BY DEF Init
<1>2. Idle.op # "process" /\ Idle.pc # "load"
  BY RefundConstants DEF Idle
<1> QED
  BY <1>1, <1>2, InitHistory DEF ClientInv, MoneyInv, Undisturbed

(* With a single processor, Stripe is asked for money only while the       *)
(* request stands approved: no decision of an administrator, no rejection  *)
(* and no mark-ready can come between the approval processRefundForOrder   *)
(* saved and its call, for any number of them and any failures.            *)
THEOREM MoneyOnApproval ==
  ASSUME OneProcessor, OneOrigin PROVE Spec => MoneyOnlyIfApproved
<1>1. Init => MoneyInv
  BY MoneyInit
<1>2. MoneyInv /\ [Next]_vars => MoneyInv'
  BY StepMoney
<1>3. MoneyInv /\ [Next]_vars =>
        [refunded' # refunded =>
           order.log # <<>> /\ Latest(order.log).status = "approved"]_vars
  <2> SUFFICES ASSUME MoneyInv, Next, refunded' # refunded
               PROVE  order.log # <<>> /\ Latest(order.log).status = "approved"
    BY DEF vars
  <2>1. PICK t \in Threads : Refund(t)
    BY DEF Next, Continue, Begin, ClientSave, RejectSave, RejectRefund, Rejected,
       Release, ReleaseCancel, ReleaseMark, ReleaseDone, ProcessLoad, Approve,
       Failed, Complete, DecideSave, ReadySave, CaptureRead, CaptureRetrieve,
       Capture, CaptureMark, ClientLoad, RejectLoad, ReadyLoad, AdminProcess,
       Decide, PauseAll, CronScan, Kill
  <2>2. job[t].pc = "refund" /\ Stage(t, job[t]) /\ Undisturbed(t)
    BY <2>1, HistoryFacts DEF Refund, At, ClientInv, MoneyInv
  <2>3. Approved
    BY <2>2 DEF Stage, Undisturbed, Holding
  <2> QED
    BY <2>3 DEF Approved, Shown
<1> QED
  BY <1>1, <1>2, <1>3, PTL DEF Spec, MoneyOnlyIfApproved

-----------------------------------------------------------------------------
(* One refund                                                              *)

(* The vendor rejects the order at most once, in a call of its own.        *)
OneRejection ==
  /\ \A v, w \in Rejects : v = w
  /\ Rejects \cap (Admins \cup Crons) = {}

(* A rejection requests the refund with its last write, and nobody else    *)
(* asks for one: a request means that no rejection is to come.             *)
AskedLast == order.log # <<>> => \A v \in Rejects : job[v].pc = "done"

(* Once Stripe has paid, the request stands approved until it is           *)
(* completed, even when the processor dies or its last save is refused:    *)
(* the cron scans pending requests only, and the one processor has nothing *)
(* left to do but to record.                                               *)
PaidFor == refunded > 0 =>
  /\ refunded = 1
  /\ Shown(order.log) \in {"approved", "completed"}
  /\ \A t \in Threads : job[t].op = "process" => job[t].pc = "complete"

OnceInv == MoneyInv /\ AskedLast /\ PaidFor

LEMMA OnceFacts ==
  ASSUME OnceInv
  PROVE  /\ MoneyInv /\ HistoryInv /\ refunded \in Nat
         /\ order \in Orders /\ order.log \in Seq(Entries)
         /\ \A t \in Threads : /\ job[t] \in Jobs /\ Stage(t, job[t])
                               /\ Undisturbed(t)
  BY HistoryFacts DEF OnceInv, ClientInv, MoneyInv

(* Once the money is back, a thread at an earlier step is no processor and *)
(* the vendor's call has returned.                                         *)
LEMMA PaidIdle ==
  ASSUME OnceInv, refunded > 0, NEW t \in Threads
  PROVE  /\ job[t].op = "process" => job[t].pc = "complete"
         /\ t \in Rejects => job[t].pc = "done"
  BY DEF OnceInv, PaidFor, AskedLast, Shown

(* A step of t asks for nothing new unless it is the vendor's last one,    *)
(* pays nothing, and leaves the request of a payment made as it was or     *)
(* completes it.                                                           *)
LEMMA OnceKept ==
  ASSUME OnceInv, MoneyInv', OneRejection, NEW t \in Threads, Others(t),
         job[t].pc # "done", refunded' = refunded,
         \/ Rejects = {} \/ order.log # <<>> \/ order'.log = <<>>
         \/ t \in Rejects /\ job'[t].pc = "done",
         refunded > 0 =>
           /\ Shown(order'.log) \in {"approved", "completed"}
           /\ job'[t].op = "process" => job'[t].pc = "complete"
  PROVE  OnceInv'
<1>0. Rejects \subseteq Threads
  BY DEF Threads
<1>1. AskedLast'
  <2> SUFFICES ASSUME order'.log # <<>>, NEW v \in Rejects
               PROVE  job'[v].pc = "done"
    BY DEF AskedLast
  <2>1. CASE order.log # <<>>
    <3>1. job[v].pc = "done"
      BY <2>1 DEF OnceInv, AskedLast
    <3> QED
      BY <1>0, <3>1 DEF Others
  <2>2. CASE t \in Rejects /\ job'[t].pc = "done"
    BY <2>2 DEF OneRejection
  <2> QED
    BY <2>1, <2>2
<1>2. PaidFor'
  <2> SUFFICES ASSUME refunded > 0
               PROVE  /\ refunded = 1
                      /\ Shown(order'.log) \in {"approved", "completed"}
                      /\ \A u \in Threads :
                           job'[u].op = "process" => job'[u].pc = "complete"
    BY DEF PaidFor, Shown
  <2>1. refunded = 1
    BY DEF OnceInv, PaidFor
  <2>2. \A u \in Threads : u # t =>
          (job'[u].op = "process" => job'[u].pc = "complete")
    BY PaidIdle DEF Others
  <2> QED
    BY <2>1, <2>2
<1> QED
  BY <1>1, <1>2 DEF OnceInv

LEMMA QuietShown ==
  ASSUME OnceInv, Quiet
  PROVE  /\ order.log # <<>> \/ order'.log = <<>>
         /\ refunded > 0 => Shown(order'.log) \in {"approved", "completed"}
  BY DEF OnceInv, PaidFor, Quiet, Shown

(* The request moves without writing the log.                              *)
LEMMA OnceMoves ==
  ASSUME OnceInv, MoneyInv', OneRejection, NEW t \in Threads, NEW j,
         Become(t, j), Quiet, job[t].pc # "done", refunded' = refunded,
         j.op = "process" => refunded = 0
  PROVE  OnceInv'
<1>1. Others(t) /\ job'[t] = j
  BY OnceFacts, BecomeOthers
<1>2. refunded > 0 => job'[t].op # "process"
  BY <1>1
<1> QED
  BY <1>1, <1>2, QuietShown, OnceKept

LEMMA LoadsOnce ==
  ASSUME OnceInv, MoneyInv', OneRejection, NEW t \in Threads,
         ClientLoad(t) \/ RejectLoad(t) \/ ReadyLoad(t)
           \/ \E op \in Decisions : Decide(t, op)
  PROVE  OnceInv'
<1>1. Quiet /\ refunded' = refunded /\ job[t].pc # "done"
  BY LoadsHistory, DecideHistory, OnceFacts
     DEF ClientLoad, RejectLoad, ReadyLoad, Decide, AdminMay, At
<1>2. CASE \E op \in Decisions : Decide(t, op)
  <2>1. PICK op \in Decisions : Decide(t, op)
    BY <1>2
  <2>2. PICK f : Become(t, [Loaded("decide", op) EXCEPT !.fee = f])
    BY <2>1 DEF Decide
  <2>3. [Loaded("decide", op) EXCEPT !.fee = f].op = op
    BY DEF Loaded, Idle
  <2>4. op # "process"
    BY DEF Decisions
  <2> QED
    BY <1>1, <2>2, <2>3, <2>4, OnceMoves
<1>3. CASE ClientLoad(t) \/ RejectLoad(t) \/ ReadyLoad(t)
  <2>1. PICK label \in {"client_save", "release", "reject_save", "ready_save"},
             op \in {"client", "reject", "ready"} : Become(t, Loaded(label, op))
    BY <1>3 DEF ClientLoad, RejectLoad, ReadyLoad
  <2>2. Loaded(label, op).op # "process"
    BY DEF Loaded, Idle
  <2> QED
    BY <1>1, <2>1, <2>2, OnceMoves
<1> QED
  BY <1>2, <1>3

LEMMA ReleaseOnce ==
  ASSUME OnceInv, MoneyInv', OneRejection, NEW t \in Threads,
         \/ Release(t) \/ ReleaseCancel(t) \/ ReleaseMark(t)
         \/ CaptureRead(t) \/ CaptureRetrieve(t) \/ Capture(t) \/ CaptureMark(t)
  PROVE  OnceInv'
<1>1. Quiet /\ refunded' = refunded
  BY ReleaseHistory, CaptureHistory, OnceFacts
     DEF Release, ReleaseCancel, ReleaseMark, CaptureRead, CaptureRetrieve,
     Capture, CaptureMark
<1>2. job[t].pc \notin {"done", "complete"}
  BY DEF Release, ReleaseCancel, ReleaseMark, CaptureRead, CaptureRetrieve,
     Capture, CaptureMark, At
<1>3. job[t].op = "process" => refunded = 0
  BY <1>2, PaidIdle, OnceFacts
<1>4. CASE End(t)
  BY <1>1, <1>2, <1>4, EndedOp, OnceMoves DEF End
<1>5. CASE ~End(t)
  <2>1. PICK label \in {"release_cancel", "reject_refund", "refund",
                        "release_mark", "reject_save", "release_done",
                        "capture_retrieve", "capture", "capture_mark"} :
          Goto(t, label)
    BY <1>5 DEF Release, ReleaseCancel, ReleaseMark, CaptureRead,
       CaptureRetrieve, Capture, CaptureMark
  <2>2. label \in Steps
    BY DEF Steps
  <2>3. [job[t] EXCEPT !.pc = label].op = job[t].op
    BY <2>2, OnceFacts, GotoJob
  <2> QED
    BY <1>1, <1>2, <1>3, <2>1, <2>3, OnceMoves DEF Goto
<1> QED
  BY <1>4, <1>5

(* The cron finds no pending request once the money is back.               *)
LEMMA ProcessOnce ==
  ASSUME OneProcessor, OnceInv, MoneyInv', OneRejection, NEW t \in Threads,
         CronScan(t) \/ ProcessLoad(t) \/ AdminProcess(t)
  PROVE  OnceInv'
<1>1. Quiet /\ refunded' = refunded /\ ~AdminProcess(t)
  BY ProcessHistory, OnceFacts
     DEF CronScan, ProcessLoad, AdminProcess, AdminMay, OneProcessor
<1>2. job[t].pc # "done" /\ \E j : Become(t, j)
  BY <1>1 DEF CronScan, ProcessLoad, At, End
<1>3. refunded = 0
  <2> SUFFICES ASSUME refunded > 0 PROVE FALSE
    BY OnceFacts
  <2>1. CASE CronScan(t)
    <3>1. PICK i \in 1..Len(order.log) : order.log[i].status = "pending"
      BY <2>1 DEF CronScan
    <3>2. Ordered(order.log) /\ order.log \in Seq(Entries)
      BY OnceFacts, HistoryFacts
    <3>3. order.log # <<>> /\ Latest(order.log).status = "pending"
      BY <3>1, <3>2 DEF Ordered, ActiveStatuses, Latest
    <3> QED
      BY <3>3 DEF OnceInv, PaidFor, Shown
  <2>2. CASE ProcessLoad(t)
    <3>1. job[t].pc = "load" /\ job[t].op = "process"
      BY <2>2, OnceFacts DEF ProcessLoad, At, Undisturbed
    <3> QED
      BY <3>1, PaidIdle
  <2> QED
    BY <1>1, <2>1, <2>2
<1> QED
  BY <1>1, <1>2, <1>3, OnceMoves

(* The rejection asks with its last write.                                 *)
LEMMA RejectedOnce ==
  ASSUME OneProcessor, OnceInv, MoneyInv', OneRejection, NEW t \in Threads,
         RejectSave(t) \/ RejectRefund(t)
  PROVE  OnceInv'
<1>1. t \in Rejects /\ job[t].pc # "done" /\ Holding(job[t])
  BY OnceFacts DEF RejectSave, RejectRefund, At, Stage, Holding
<1>2. refunded = 0
  BY <1>1, PaidIdle, OnceFacts
<1>3. PICK log : Rejected(t, log)
  BY DEF RejectSave, RejectRefund
<1> DEFINE doc == [order EXCEPT !.status = "cancelled", !.source = "vendor"]
<1>4. Save(t, doc, log, Ended(t)) /\ refunded' = refunded
  BY <1>3 DEF Rejected, OneProcessor
<1>5. doc \in Orders /\ doc.log = order.log
  BY OnceFacts DEF Orders
<1> HIDE DEF doc
<1>6. Others(t) /\ job'[t] = Ended(t)
  BY <1>4, <1>5, SaveOthers, EndedStage, OnceFacts
<1>7. Ended(t).pc = "done"
  <2>1. t \notin Admins \cup Crons
    BY <1>1 DEF OneRejection
  <2> QED
    BY <2>1 DEF Ended, Idle
<1> QED
  BY <1>1, <1>2, <1>4, <1>6, <1>7, OnceKept

(* What an administrator decides leaves an approval, and there is nothing  *)
(* to decide on a completed request.                                       *)
LEMMA DecideOnce ==
  ASSUME OnceInv, MoneyInv', OneRejection, NEW t \in Threads, DecideSave(t)
  PROVE  OnceInv'
<1>1. job[t].pc # "done" /\ refunded' = refunded
  BY DEF DecideSave, At
<1>2. PICK log : Save(t, order, log, Ended(t))
  BY DEF DecideSave
<1>3. Others(t) /\ job'[t] = Ended(t)
  BY <1>2, SaveOthers, EndedStage, OnceFacts
<1>4. CASE Quiet
  BY <1>1, <1>3, <1>4, QuietShown, EndedOp, OnceKept
<1>5. CASE Patching
  <2>1. order.log # <<>> /\ Latest(order.log).status \in ActiveStatuses
    BY <1>5 DEF Patching, LastOpen
  <2>2. refunded > 0 => Shown(order'.log) \in {"approved", "completed"}
    <3>1. refunded > 0 => Approved
      BY <2>1 DEF OnceInv, PaidFor, Shown, ActiveStatuses, Approved
    <3> QED
      BY <3>1, DecidedApproval, OnceFacts DEF Approved
  <2> QED
    BY <1>1, <1>3, <2>1, <2>2, EndedOp, OnceKept
<1> QED
  BY <1>4, <1>5, DecideSaveHistory, OnceFacts

LEMMA ReadyOnce ==
  ASSUME OnceInv, MoneyInv', OneRejection, NEW t \in Threads, ReadySave(t)
  PROVE  OnceInv'
<1>1. /\ job[t].pc # "done" /\ refunded' = refunded /\ Quiet
      /\ job[t].op = "ready" /\ job[t] \in Jobs
  BY OnceFacts, ReadySaveHistory DEF ReadySave, At, Stage
<1> DEFINE doc == [order EXCEPT !.status = "approved"]
           next == [job[t] EXCEPT !.pc = "capture_read"]
<1>2. Save(t, doc, job[t].log, next)
  BY DEF ReadySave
<1>3. doc \in Orders /\ doc.log = order.log
  BY OnceFacts DEF Orders
<1>4. next \in Jobs /\ next.op = "ready"
  BY <1>1, GotoJob DEF Steps
<1> HIDE DEF doc, next
<1>5. [next EXCEPT !.log = job[t].log].op = "ready"
  BY <1>4 DEF Jobs
<1>6. /\ Others(t)
      /\ \/ job'[t] = Ended(t)
         \/ job'[t] = next
         \/ job'[t] = IF Holding(next) THEN [next EXCEPT !.log = job[t].log]
                      ELSE next
  BY <1>2, <1>3, <1>4, SaveOthers, OnceFacts
<1>7. job'[t].op # "process"
  BY <1>4, <1>5, <1>6, EndedOp
<1> QED
  BY <1>1, <1>6, <1>7, QuietShown, OnceKept

(* The processor pays while nothing is paid, and after that only records.  *)
LEMMA PayOnce ==
  ASSUME OneProcessor, OnceInv, MoneyInv', OneRejection, NEW t \in Threads,
         Refund(t)
  PROVE  OnceInv'
<1>1. /\ job[t].pc = "refund" /\ job[t].op = "process" /\ t \in Crons
      /\ Approved /\ refunded = 0
  <2>1. job[t].pc = "refund" /\ job[t].op = "process"
    BY OnceFacts DEF Refund, At, Stage
  <2>2. t \in Crons /\ Approved
    BY <2>1, OnceFacts DEF Undisturbed, Holding
  <2>3. refunded = 0
    BY <2>1, PaidIdle, OnceFacts
  <2> QED
    BY <2>1, <2>2, <2>3
<1>2. PICK label \in {"complete", "failed"} :
        /\ Goto(t, label)
        /\ refunded' = IF label = "complete" THEN 1 ELSE 0
  BY <1>1 DEF Refund
<1> DEFINE j == [job[t] EXCEPT !.pc = label]
<1>3. j.pc = label /\ Become(t, j)
  <2>1. label \in Steps
    BY DEF Steps
  <2> QED
    BY <1>2, <2>1, OnceFacts, GotoJob DEF Goto
<1> HIDE DEF j
<1>4. UNCHANGED order
  BY DEF Refund
<1>5. Others(t) /\ job'[t] = j
  BY <1>3, BecomeOthers, OnceFacts
<1>6. CASE label = "failed"
  <2>1. refunded' = refunded
    BY <1>1, <1>2, <1>6
  <2> QED
    BY <1>1, <1>4, <1>5, <2>1, OnceKept
<1>7. CASE label = "complete"
  <2>1. \A u \in Threads : job'[u].op = "process" => job'[u].pc = "complete"
    <3> SUFFICES ASSUME NEW u \in Threads, u # t, job[u].op = "process"
                 PROVE  FALSE
      BY <1>3, <1>5, <1>7 DEF Others
    <3>1. u \in Crons
      BY OnceFacts DEF Undisturbed
    <3> QED
      BY <1>1, <3>1 DEF OneProcessor
  <2>2. refunded' = 1 /\ Shown(order'.log) \in {"approved", "completed"}
    BY <1>1, <1>2, <1>4, <1>7 DEF Approved
  <2>3. PaidFor'
    BY <2>1, <2>2 DEF PaidFor, Shown
  <2>4. AskedLast'
    <3> SUFFICES ASSUME NEW v \in Rejects PROVE job'[v].pc = "done"
      BY DEF AskedLast
    <3>1. v \in Threads /\ v # t
      BY <1>1 DEF Threads, OneRejection
    <3>2. job[v].pc = "done"
      BY <1>1 DEF OnceInv, AskedLast, Approved, Shown
    <3> QED
      BY <1>5, <3>1, <3>2 DEF Others
  <2> QED
    BY <2>3, <2>4 DEF OnceInv
<1> QED
  BY <1>6, <1>7

LEMMA RecordOnce ==
  ASSUME OnceInv, MoneyInv', OneRejection, NEW t \in Threads,
         Approve(t) \/ ReleaseDone(t) \/ Failed(t) \/ Complete(t)
  PROVE  OnceInv'
<1>0. /\ job[t] \in Jobs /\ Stage(t, job[t]) /\ job[t].pc # "done"
      /\ refunded' = refunded /\ order \in Orders /\ refunded \in Nat
  BY OnceFacts DEF Approve, ReleaseDone, Failed, Complete, At
<1>1. job[t].op = "process" /\ Holding(job[t]) /\ LastOpen(job[t].log)
  BY <1>0 DEF Approve, ReleaseDone, Failed, Complete, At, Stage, Holding
<1>2. Quiet \/ Patching
  BY ApproveHistory, FinishHistory, OnceFacts
<1>3. order.log # <<>> \/ order'.log = <<>>
  BY <1>2, QuietShown DEF Patching, LastOpen
<1>4. Others(t)
  <2>1. CASE Approve(t)
    <3> DEFINE next == [job[t] EXCEPT !.pc = "release"]
    <3>1. next \in Jobs
      BY <1>0, GotoJob DEF Steps
    <3>2. \E log : Save(t, order, log, next)
      BY <2>1 DEF Approve
    <3> HIDE DEF next
    <3> QED
      BY <1>0, <3>1, <3>2, SaveOthers, OnceFacts
  <2>2. CASE ReleaseDone(t) \/ Failed(t) \/ Complete(t)
    <3>1. \E log : Save(t, order, log, Ended(t))
      BY <2>2 DEF ReleaseDone, Failed, Complete
    <3> QED
      BY <1>0, <3>1, SaveOthers, EndedStage, OnceFacts
  <2> QED
    BY <2>1, <2>2
<1>5. CASE refunded = 0
  BY <1>0, <1>3, <1>4, <1>5, OnceKept
<1>6. CASE refunded > 0
  <2>1. Complete(t)
    BY <1>1, <1>6, PaidIdle
       DEF Approve, ReleaseDone, Failed, Complete, At
  <2>2. PICK log : log = Patched(job[t].log, Completed(t))
    OBVIOUS
  <2>3. Save(t, order, log, Ended(t))
    BY <2>1, <2>2 DEF Complete
  <2>4. job'[t] = Ended(t)
    BY <1>0, <2>3, SaveOthers, EndedStage, OnceFacts
  <2>5. order'.log \in {order.log, log}
    BY <1>0, <2>3 DEF Save, Orders
  <2>6. Shown(log) = "completed"
    <3>1. Completed(t) \in Entries /\ Completed(t).status = "completed"
      BY <1>0, <1>1, CompletedEntry, OnceFacts, HistoryFacts
    <3>2. job[t].log \in Seq(Entries) /\ job[t].log # <<>>
      BY <1>1, OnceFacts, HistoryFacts DEF LastOpen
    <3> QED
      BY <2>2, <3>1, <3>2, PatchedLog DEF Shown
  <2>7. Shown(order'.log) \in {"approved", "completed"}
    BY <1>6, <2>5, <2>6 DEF OnceInv, PaidFor, Shown
  <2> QED
    BY <1>0, <1>3, <1>4, <2>4, <2>7, EndedOp, OnceKept
<1> QED
  BY <1>0, <1>5, <1>6

LEMMA RestOnce ==
  ASSUME OnceInv, MoneyInv', OneRejection, NEW t \in Threads,
         Kill(t) \/ PauseAll(t)
  PROVE  OnceInv'
<1>1. CASE Kill(t)
  BY <1>1, KillHistory, OnceFacts, EndedOp, OnceMoves DEF Kill, End
<1>2. CASE PauseAll(t)
  BY <1>2 DEF PauseAll, OnceInv, AskedLast, PaidFor, Shown
<1> QED
  BY <1>1, <1>2

(* The customer's request is the first: nothing was paid yet.              *)
LEMMA ClientOnce ==
  ASSUME OnceInv, MoneyInv', OneRejection, OneOrigin, NEW t \in Threads,
         ClientSave(t)
  PROVE  OnceInv'
<1>0. /\ ClientInv /\ HistoryInv /\ t \in Cancels
      /\ job[t].pc = "client_save" /\ refunded \in Nat
  BY OnceFacts DEF ClientInv, OnceInv, MoneyInv, ClientSave, At, Stage
<1>1. Rejects = {} /\ order.log = <<>>
  BY <1>0 DEF OneOrigin, ClientInv, FirstAsks
<1>2. refunded = 0 /\ refunded' = refunded
  BY <1>0, <1>1 DEF OnceInv, PaidFor, Shown, ClientSave
<1>3. Others(t)
  BY <1>0, BecomeOthers DEF ClientSave, End
<1> QED
  BY <1>0, <1>1, <1>2, <1>3, OnceKept

LEMMA StepOnce ==
  ASSUME OneProcessor, OneRejection, OneOrigin, OnceInv, [Next]_vars
  PROVE  OnceInv'
<1>0. MoneyInv'
  BY StepMoney DEF OnceInv
<1>1. CASE UNCHANGED vars
  BY <1>0, <1>1 DEF vars, OnceInv, AskedLast, PaidFor, Shown
<1>2. ASSUME NEW t \in Threads, Continue(t) PROVE OnceInv'
  BY <1>0, <1>2, RejectedOnce, ClientOnce, ReleaseOnce, ProcessOnce,
     RecordOnce, PayOnce, DecideOnce, ReadyOnce DEF Continue
<1>3. ASSUME NEW t \in Threads, Begin(t) PROVE OnceInv'
  BY <1>0, <1>3, LoadsOnce, ProcessOnce, RestOnce DEF Begin, Decisions
<1>4. CASE Next
  BY <1>0, <1>2, <1>3, <1>4, ProcessOnce, RestOnce DEF Next
<1> QED
  BY <1>1, <1>4

(* refunds.create has no idempotency key, a restart can come between it    *)
(* and the save that records it, and Stripe may fail for a while: a single *)
(* processor still refunds an order at most once when the vendor rejects   *)
(* it once or the customer cancels it once, for any number of mark-ready   *)
(* calls, administrators, failures and restarts, even where the payment    *)
(* could bear more.                                                        *)
THEOREM RefundedAtMostOnce ==
  ASSUME OneProcessor, OneRejection, OneOrigin
  PROVE  Spec => []RefundedOnce
<1>1. Init => OnceInv
  BY MoneyInit DEF Init, OnceInv, AskedLast, PaidFor
<1>2. OnceInv /\ [Next]_vars => OnceInv'
  BY StepOnce
<1>3. OnceInv => RefundedOnce
  BY OnceFacts DEF OnceInv, PaidFor, RefundedOnce
<1> QED
  BY <1>1, <1>2, <1>3, PTL DEF Spec
=============================================================================
