----------------------- MODULE RefundProcessingProofs -----------------------
(***************************************************************************)
(* Theorems about RefundProcessing, for any actors, fees, capacity and     *)
(* bounds.                                                                 *)
(*                                                                         *)
(* The invariant RefundInv says what the document a request holds looks    *)
(* like at each of its steps: only its last entry can be open, it is open  *)
(* for whoever is about to patch it, and nothing is open for whoever is    *)
(* about to append.                                                        *)
(***************************************************************************)
EXTENDS RefundProcessing, FiniteSetTheorems, TLAPS

Ordered(log) ==
  \A i \in 1..Len(log) : i < Len(log) => log[i].status \notin ActiveStatuses
LastOpen(log) == log # <<>> /\ Latest(log).status \in ActiveStatuses
Decisions == {"pause", "resume", "cancel", "override"}

(* What thread t holds while it executes j.                                *)
Stage(t, j) ==
  /\ Ordered(j.log)
  /\ Holding(j) /\ j.op \in Decisions \cup {"process"} => LastOpen(j.log)
  /\ Holding(j) /\ j.op \in {"reject", "client"} /\ j.pc # "reject_save"
       => Active(j.log) = {}
  /\ j.pc \in {"approve", "release_done", "refund", "failed", "complete"}
       => j.op = "process"
  /\ j.pc \in {"release", "release_cancel", "release_mark"}
       => j.op \in {"process", "reject"}
  /\ j.pc \in {"reject_save", "reject_refund"} => j.op = "reject"
  /\ Holding(j) /\ j.op = "reject" => t \in Rejects
  /\ j.pc = "client_save" => j.op = "client" /\ t \in Cancels
  /\ j.pc = "decide" => j.op \in Decisions /\ t \in Admins
  /\ j.pc \in {"ready_save", "capture_read", "capture_retrieve", "capture",
               "capture_mark"} => j.op = "ready"

RefundInv ==
  /\ TypeOK
  /\ Ordered(order.log)
  /\ \A t \in Threads : Stage(t, job[t])

-----------------------------------------------------------------------------
(* The log                                                                 *)

(* Patching the last entry changes that entry only.                        *)
LEMMA PatchedLog ==
  ASSUME NEW log \in Seq(Entries), NEW e \in Entries, log # <<>>
  PROVE  /\ Patched(log, e) \in Seq(Entries)
         /\ Len(Patched(log, e)) = Len(log)
         /\ Patched(log, e) # <<>>
         /\ Latest(Patched(log, e)) = e
         /\ \A i \in 1..Len(log) : i < Len(log) => Patched(log, e)[i] = log[i]
  BY DEF Patched, Latest

LEMMA LatestEntry ==
  ASSUME NEW log \in Seq(Entries), log # <<>>
  PROVE  Latest(log) \in Entries /\ Len(log) \in 1..Len(log)
  BY DEF Latest

(* In an ordered log an open entry is the last one.                        *)
LEMMA OpenIsLast ==
  ASSUME NEW log \in Seq(Entries), Ordered(log), Active(log) # {}
  PROVE  LastOpen(log)
<1>1. PICK i \in 1..Len(log) : log[i].status \in ActiveStatuses
  BY DEF Active
<1>2. i = Len(log)
  BY <1>1 DEF Ordered
<1> QED
  BY <1>1, <1>2 DEF LastOpen, Latest

(* Patching keeps a log ordered.                                           *)
LEMMA PatchedOrdered ==
  ASSUME NEW log \in Seq(Entries), NEW e \in Entries, log # <<>>, Ordered(log)
  PROVE  Ordered(Patched(log, e))
  BY PatchedLog DEF Ordered

(* Appending to a log without an open entry keeps it ordered.              *)
LEMMA AppendedOrdered ==
  ASSUME NEW log \in Seq(Entries), Active(log) = {}
  PROVE  /\ Append(log, Asked) \in Seq(Entries)
         /\ Ordered(Append(log, Asked))
         /\ Append(log, Asked) # <<>>
         /\ Len(Append(log, Asked)) = Len(log) + 1
         /\ \A i \in 1..Len(log) : Append(log, Asked)[i] = log[i]
         /\ Append(log, Asked)[Len(log) + 1] = Asked
<1>1. Asked \in Entries
  BY DEF Asked, Entries, Statuses
<1>2. /\ Append(log, Asked) \in Seq(Entries)
      /\ Append(log, Asked) # <<>>
      /\ Len(Append(log, Asked)) = Len(log) + 1
      /\ \A i \in 1..Len(log) : Append(log, Asked)[i] = log[i]
      /\ Append(log, Asked)[Len(log) + 1] = Asked
  BY <1>1
<1>3. Ordered(Append(log, Asked))
  <2> SUFFICES ASSUME NEW i \in 1..Len(Append(log, Asked)),
                      i < Len(Append(log, Asked))
               PROVE  Append(log, Asked)[i].status \notin ActiveStatuses
    BY DEF Ordered
  <2>1. i \in 1..Len(log) /\ Append(log, Asked)[i] = log[i]
    BY <1>2
  <2> QED
    BY <2>1 DEF Active
<1> QED
  BY <1>2, <1>3

(* The empty log is ordered.                                               *)
LEMMA EmptyOrdered == Ordered(<<>>)
  BY DEF Ordered

-----------------------------------------------------------------------------
(* The requests                                                            *)

LEMMA IdleJob ==
  /\ Idle \in Jobs /\ ~Holding(Idle) /\ Idle.log = <<>> /\ Idle.pc = "idle"
  /\ Idle.stale = FALSE
  BY DEF Idle, Jobs, Steps, Ops, Holding

(* Another step of the same request, with what it holds.                   *)
LEMMA GotoJob ==
  ASSUME NEW j \in Jobs, NEW label \in Steps
  PROVE  /\ [j EXCEPT !.pc = label] \in Jobs
         /\ [j EXCEPT !.pc = label].pc = label
         /\ [j EXCEPT !.pc = label].op = j.op
         /\ [j EXCEPT !.pc = label].log = j.log
         /\ [j EXCEPT !.pc = label].stale = j.stale
         /\ [j EXCEPT !.pc = label].fee = j.fee
  BY DEF Jobs

(* A request that has ended holds nothing.                                 *)
LEMMA EndedStage ==
  ASSUME NEW t \in Threads
  PROVE  Ended(t) \in Jobs /\ Stage(t, Ended(t)) /\ ~Holding(Ended(t))
<1>1. /\ [Idle EXCEPT !.pc = "done"] \in Jobs
      /\ [Idle EXCEPT !.pc = "done"].pc = "done"
      /\ [Idle EXCEPT !.pc = "done"].log = <<>>
  <2>1. "done" \in Steps
    BY DEF Steps
  <2> QED
    BY <2>1, IdleJob, GotoJob
<1>2. /\ Ended(t) \in Jobs
      /\ Ended(t).pc \in {"idle", "done"}
      /\ Ended(t).log = <<>>
  BY <1>1, IdleJob DEF Ended
<1> QED
  BY <1>2, EmptyOrdered DEF Stage, Holding

(* A request that reads the order.                                         *)
LEMMA LoadedJob ==
  ASSUME TypeOK, NEW label \in Steps, NEW op \in Ops
  PROVE  /\ Loaded(label, op) \in Jobs
         /\ Loaded(label, op).pc = label
         /\ Loaded(label, op).op = op
         /\ Loaded(label, op).log = order.log
         /\ Loaded(label, op).stale = FALSE
         /\ Loaded(label, op).fee = None
  BY DEF TypeOK, Orders, Loaded, Idle, Jobs

(* One request moves and the others stay.                                  *)
LEMMA BecomeKeeps ==
  ASSUME RefundInv, NEW t \in Threads, NEW j \in Jobs, Stage(t, j), Become(t, j)
  PROVE  /\ job' \in [Threads -> Jobs]
         /\ \A u \in Threads : Stage(u, job'[u])
<1>1. job' = [job EXCEPT ![t] = j] /\ job \in [Threads -> Jobs]
  BY DEF Become, RefundInv, TypeOK
<1>2. \A u \in Threads : job'[u] = IF u = t THEN j ELSE job[u]
  BY <1>1
<1> QED
  BY <1>1, <1>2 DEF RefundInv

(* Being stale changes nothing of what a request is about to do.           *)
LEMMA StaleStage ==
  ASSUME NEW t, NEW j \in Jobs, Stage(t, j), NEW b \in BOOLEAN
  PROVE  [j EXCEPT !.stale = b] \in Jobs /\ Stage(t, [j EXCEPT !.stale = b])
<1>1. /\ [j EXCEPT !.stale = b] \in Jobs
      /\ [j EXCEPT !.stale = b].pc = j.pc
      /\ [j EXCEPT !.stale = b].op = j.op
      /\ [j EXCEPT !.stale = b].log = j.log
  BY DEF Jobs
<1> QED
  BY <1>1 DEF Stage, Holding

(* The outcomes of a save.                                                 *)
LEMMA SaveOutcome ==
  ASSUME RefundInv, NEW t \in Threads, NEW doc \in Orders, NEW log, NEW next,
         doc.log = order.log, Save(t, doc, log, next)
  PROVE  \/ Refused(t, log) /\ order' = order /\ End(t)
         \/ log = job[t].log /\ order' = doc /\ Become(t, next)
         \/ /\ ~Refused(t, log) /\ log # job[t].log
            /\ order' = [doc EXCEPT !.log = log]
            /\ job' = [u \in Threads |->
                         IF u # t THEN [job[u] EXCEPT !.stale = Holding(job[u])]
                         ELSE IF Holding(next) THEN [next EXCEPT !.log = log]
                         ELSE next]
  BY DEF Save

(* A save keeps the invariant when the log it writes is ordered and the    *)
(* request goes on with the log it wrote.                                  *)
LEMMA SaveKeeps ==
  ASSUME RefundInv, NEW t \in Threads, NEW doc \in Orders,
         NEW log \in Seq(Entries), NEW next \in Jobs,
         doc.log = order.log, Save(t, doc, log, next),
         Ordered(log), Stage(t, next),
         log # job[t].log /\ Holding(next) => Stage(t, [next EXCEPT !.log = log])
  PROVE  /\ order' \in Orders /\ Ordered(order'.log)
         /\ job' \in [Threads -> Jobs]
         /\ \A u \in Threads : Stage(u, job'[u])
<1> USE RefundInv
<1>0. order \in Orders /\ Ordered(order.log)
  BY DEF RefundInv, TypeOK
<1>1. CASE order' = order /\ End(t)
  BY <1>0, <1>1, EndedStage, BecomeKeeps DEF End
<1>2. CASE order' = doc /\ Become(t, next)
  BY <1>0, <1>2, BecomeKeeps
<1>3. CASE /\ log # job[t].log
           /\ order' = [doc EXCEPT !.log = log]
           /\ job' = [u \in Threads |->
                        IF u # t THEN [job[u] EXCEPT !.stale = Holding(job[u])]
                        ELSE IF Holding(next) THEN [next EXCEPT !.log = log]
                        ELSE next]
  <2>1. order' \in Orders /\ order'.log = log
    BY <1>3 DEF Orders
  <2>2. \A u \in Threads : job[u] \in Jobs /\ Stage(u, job[u])
    BY DEF RefundInv, TypeOK
  <2>3. [next EXCEPT !.log = log] \in Jobs
    BY DEF Jobs
  <2>4. ASSUME NEW u \in Threads
        PROVE  job'[u] \in Jobs /\ Stage(u, job'[u])
    <3>1. CASE u # t
      <4>1. job'[u] = [job[u] EXCEPT !.stale = Holding(job[u])]
        BY <1>3, <3>1
      <4>2. Holding(job[u]) \in BOOLEAN
        BY DEF Holding
      <4> QED
        BY <4>1, <4>2, <2>2, StaleStage
    <3>2. CASE u = t /\ Holding(next)
      <4>1. job'[u] = [next EXCEPT !.log = log]
        BY <1>3, <3>2
      <4> QED
        BY <4>1, <3>2, <1>3, <2>3
    <3>3. CASE u = t /\ ~Holding(next)
      <4>1. job'[u] = next
        BY <1>3, <3>3
      <4> QED
        BY <4>1, <3>3
    <3> QED
      BY <3>1, <3>2, <3>3
  <2>5. job' \in [Threads -> Jobs]
    <3> DEFINE new(u) == IF u # t
                         THEN [job[u] EXCEPT !.stale = Holding(job[u])]
                         ELSE IF Holding(next) THEN [next EXCEPT !.log = log]
                         ELSE next
    <3>1. job' = [u \in Threads |-> new(u)]
      BY <1>3
    <3>2. \A u \in Threads : new(u) = job'[u]
      BY <3>1
    <3> HIDE DEF new
    <3> QED
      BY <3>1, <3>2, <2>4
  <2> QED
    BY <2>1, <2>4, <2>5
<1> QED
  BY <1>1, <1>2, <1>3, SaveOutcome

-----------------------------------------------------------------------------
(* The steps keep the invariant                                            *)

RestOK ==
  /\ pi \in {"requires_capture", "succeeded", "canceled"}
  /\ refunded \in 0..Capacity
  /\ paused \in BOOLEAN
  /\ decisions \in 0..MaxDecisions
  /\ failures \in 0..MaxFailures
  /\ kills \in 0..MaxKills

LEMMA Reassembled ==
  ASSUME RestOK', order' \in Orders, Ordered(order'.log),
         job' \in [Threads -> Jobs], \A u \in Threads : Stage(u, job'[u])
  PROVE  RefundInv'
  BY DEF RestOK, RefundInv, TypeOK

(* A step that moves one request and leaves the log alone.                 *)
LEMMA MoveKeeps ==
  ASSUME RefundInv, NEW t \in Threads, NEW j \in Jobs, Stage(t, j),
         Become(t, j), order' \in Orders, order'.log = order.log, RestOK'
  PROVE  RefundInv'
<1>1. Ordered(order'.log)
  BY DEF RefundInv
<1> QED
  BY <1>1, BecomeKeeps, Reassembled

LEMMA EndKeeps ==
  ASSUME RefundInv, NEW t \in Threads, End(t),
         order' \in Orders, order'.log = order.log, RestOK'
  PROVE  RefundInv'
  BY EndedStage, MoveKeeps DEF End

LEMMA Facts ==
  ASSUME RefundInv
  PROVE  /\ TypeOK /\ RestOK /\ order \in Orders /\ order.log \in Seq(Entries)
         /\ Ordered(order.log)
         /\ \A t \in Threads : /\ job[t] \in Jobs /\ Stage(t, job[t])
                              /\ job[t].log \in Seq(Entries)
                              /\ Ordered(job[t].log)
  BY DEF RefundInv, TypeOK, RestOK, Orders, Jobs, Stage

(* The loads: submitRefundRequest, rejectOrder, markOrderReady.            *)
LEMMA LoadsKeep ==
  ASSUME RefundInv, NEW t \in Threads,
         ClientLoad(t) \/ RejectLoad(t) \/ ReadyLoad(t)
  PROVE  RefundInv'
<1>0. TypeOK /\ RestOK' /\ order' = order /\ order \in Orders
      /\ Ordered(order.log)
  BY Facts DEF ClientLoad, RejectLoad, ReadyLoad, RestOK, counters
<1>1. CASE ClientLoad(t)
  <2>1. t \in Cancels /\ Become(t, Loaded("client_save", "client"))
    BY <1>1 DEF ClientLoad
  <2>2. Active(order.log) = {}
    BY <1>1 DEF ClientLoad, Active, ActiveStatuses
  <2>3. /\ Loaded("client_save", "client") \in Jobs
        /\ Loaded("client_save", "client").pc = "client_save"
        /\ Loaded("client_save", "client").op = "client"
        /\ Loaded("client_save", "client").log = order.log
    BY <1>0, LoadedJob DEF Steps, Ops
  <2>4. Stage(t, Loaded("client_save", "client"))
    BY <1>0, <2>1, <2>2, <2>3 DEF Stage, Decisions
  <2> QED
    BY <1>0, <2>1, <2>3, <2>4, MoveKeeps
<1>2. CASE RejectLoad(t) /\ Active(order.log) = {}
  <2>1. Become(t, Loaded("release", "reject")) /\ t \in Rejects
    BY <1>2 DEF RejectLoad
  <2>2. /\ Loaded("release", "reject") \in Jobs
        /\ Loaded("release", "reject").pc = "release"
        /\ Loaded("release", "reject").op = "reject"
        /\ Loaded("release", "reject").log = order.log
    BY <1>0, LoadedJob DEF Steps, Ops
  <2>3. Stage(t, Loaded("release", "reject"))
    BY <1>0, <1>2, <2>1, <2>2 DEF Stage, Decisions
  <2> QED
    BY <1>0, <2>1, <2>2, <2>3, MoveKeeps
<1>3. CASE RejectLoad(t) /\ Active(order.log) # {}
  <2>1. Become(t, Loaded("reject_save", "reject")) /\ t \in Rejects
    BY <1>3 DEF RejectLoad
  <2>2. /\ Loaded("reject_save", "reject") \in Jobs
        /\ Loaded("reject_save", "reject").pc = "reject_save"
        /\ Loaded("reject_save", "reject").op = "reject"
        /\ Loaded("reject_save", "reject").log = order.log
    BY <1>0, LoadedJob DEF Steps, Ops
  <2>3. Stage(t, Loaded("reject_save", "reject"))
    BY <1>0, <2>1, <2>2 DEF Stage, Decisions
  <2> QED
    BY <1>0, <2>1, <2>2, <2>3, MoveKeeps
<1>4. CASE ReadyLoad(t)
  <2>1. Become(t, Loaded("ready_save", "ready"))
    BY <1>4 DEF ReadyLoad
  <2>2. /\ Loaded("ready_save", "ready") \in Jobs
        /\ Loaded("ready_save", "ready").pc = "ready_save"
        /\ Loaded("ready_save", "ready").op = "ready"
        /\ Loaded("ready_save", "ready").log = order.log
    BY <1>0, LoadedJob DEF Steps, Ops
  <2>3. Stage(t, Loaded("ready_save", "ready"))
    BY <1>0, <2>2 DEF Stage, Decisions
  <2> QED
    BY <1>0, <2>1, <2>2, <2>3, MoveKeeps
<1> QED
  BY <1>1, <1>2, <1>3, <1>4

(* A request goes to its next step.                                        *)
LEMMA GotoKeeps ==
  ASSUME RefundInv, NEW t \in Threads, NEW label \in Steps, Goto(t, label),
         Stage(t, [job[t] EXCEPT !.pc = label]),
         order' \in Orders, order'.log = order.log, RestOK'
  PROVE  RefundInv'
<1>1. [job[t] EXCEPT !.pc = label] \in Jobs
  BY Facts, GotoJob
<1> QED
  BY <1>1, MoveKeeps DEF Goto

(* cancelAuthorizationIfUncaptured.                                        *)
LEMMA ReleaseKeeps ==
  ASSUME RefundInv, NEW t \in Threads,
         Release(t) \/ ReleaseCancel(t) \/ ReleaseMark(t)
  PROVE  RefundInv'
<1>0. /\ order \in Orders /\ RestOK /\ job[t] \in Jobs /\ Stage(t, job[t])
  BY Facts
<1>1. CASE Release(t)
  <2>1. /\ job[t].pc = "release" /\ order' = order /\ RestOK'
    BY <1>0, <1>1 DEF Release, At, RestOK, counters
  <2>2. PICK label \in {"release_cancel", "reject_refund", "refund"} :
          /\ Goto(t, label)
          /\ label = "reject_refund" => job[t].op = "reject"
          /\ label = "refund" => job[t].op # "reject"
    BY <1>1 DEF Release
  <2>3. label \in Steps
    BY DEF Steps
  <2>4. Stage(t, [job[t] EXCEPT !.pc = label])
    BY <1>0, <2>1, <2>2, <2>3, GotoJob DEF Stage, Holding, Decisions
  <2> QED
    BY <1>0, <2>1, <2>2, <2>3, <2>4, GotoKeeps
<1>2. CASE ReleaseCancel(t)
  <2>1. /\ job[t].pc = "release_cancel" /\ order' = order /\ RestOK'
        /\ Goto(t, "release_mark") \/ End(t)
    BY <1>0, <1>2 DEF ReleaseCancel, At, RestOK, counters
  <2>2. "release_mark" \in Steps
    BY DEF Steps
  <2>3. Stage(t, [job[t] EXCEPT !.pc = "release_mark"])
    BY <1>0, <2>1, <2>2, GotoJob DEF Stage, Holding, Decisions
  <2> QED
    BY <1>0, <2>1, <2>2, <2>3, GotoKeeps, EndKeeps
<1>3. CASE ReleaseMark(t)
  <2>1. /\ job[t].pc = "release_mark" /\ RestOK'
        /\ order' = [order EXCEPT !.capture = "cancelled"]
    BY <1>0, <1>3 DEF ReleaseMark, At, RestOK, counters
  <2>2. order' \in Orders /\ order'.log = order.log
    BY <1>0, <2>1 DEF Orders
  <2>3. PICK label \in {"reject_save", "release_done"} :
          /\ Goto(t, label)
          /\ label = "reject_save" <=> job[t].op = "reject"
    BY <1>3 DEF ReleaseMark
  <2>4. label \in Steps
    BY DEF Steps
  <2>5. Stage(t, [job[t] EXCEPT !.pc = label])
    BY <1>0, <2>1, <2>3, <2>4, GotoJob DEF Stage, Holding, Decisions
  <2> QED
    BY <2>1, <2>2, <2>3, <2>4, <2>5, GotoKeeps
<1> QED
  BY <1>1, <1>2, <1>3

(* captureOnOrderReady.                                                    *)
LEMMA CaptureKeeps ==
  ASSUME RefundInv, NEW t \in Threads,
         CaptureRead(t) \/ CaptureRetrieve(t) \/ Capture(t) \/ CaptureMark(t)
  PROVE  RefundInv'
<1>0. /\ order \in Orders /\ RestOK /\ job[t] \in Jobs /\ Stage(t, job[t])
  BY Facts
<1>1. CASE CaptureMark(t)
  <2>1. RestOK' /\ End(t)
        /\ order' \in {order, [order EXCEPT !.capture = "captured"]}
    BY <1>0, <1>1 DEF CaptureMark, RestOK, counters
  <2>2. order' \in Orders /\ order'.log = order.log
    BY <1>0, <2>1 DEF Orders
  <2> QED
    BY <2>1, <2>2, EndKeeps
<1>2. CASE CaptureRead(t) \/ CaptureRetrieve(t) \/ Capture(t)
  <2>1. /\ order' = order /\ RestOK'
        /\ job[t].pc \in {"capture_read", "capture_retrieve", "capture"}
    BY <1>0, <1>2 DEF CaptureRead, CaptureRetrieve, Capture, At, RestOK, counters
  <2>2. CASE End(t)
    BY <1>0, <2>1, <2>2, EndKeeps
  <2>3. CASE ~End(t)
    <3>1. PICK label \in {"capture_retrieve", "capture", "capture_mark"} :
            Goto(t, label)
      BY <1>2, <2>3 DEF CaptureRead, CaptureRetrieve, Capture
    <3>2. label \in Steps
      BY DEF Steps
    <3>3. Stage(t, [job[t] EXCEPT !.pc = label])
      BY <1>0, <2>1, <3>2, GotoJob DEF Stage, Holding, Decisions
    <3> QED
      BY <1>0, <2>1, <3>1, <3>2, <3>3, GotoKeeps
  <2> QED
    BY <2>2, <2>3
<1> QED
  BY <1>1, <1>2

(* The cron pass and processRefundForOrder up to its first save.           *)
LEMMA ProcessKeeps ==
  ASSUME RefundInv, NEW t \in Threads,
         CronScan(t) \/ ProcessLoad(t) \/ AdminProcess(t)
  PROVE  RefundInv'
<1>0. /\ order \in Orders /\ RestOK /\ job[t] \in Jobs /\ Stage(t, job[t])
      /\ TypeOK /\ order.log \in Seq(Entries) /\ Ordered(order.log)
  BY Facts
<1>1. ASSUME NEW f \in Fees \cup {None}, LastOpen(order.log)
      PROVE  /\ [Loaded("approve", "process") EXCEPT !.fee = f] \in Jobs
             /\ Stage(t, [Loaded("approve", "process") EXCEPT !.fee = f])
  <2>1. /\ Loaded("approve", "process") \in Jobs
        /\ Loaded("approve", "process").pc = "approve"
        /\ Loaded("approve", "process").op = "process"
        /\ Loaded("approve", "process").log = order.log
    BY <1>0, LoadedJob DEF Steps, Ops
  <2> DEFINE j == [Loaded("approve", "process") EXCEPT !.fee = f]
  <2>2. j \in Jobs /\ j.pc = "approve" /\ j.op = "process" /\ j.log = order.log
    BY <2>1 DEF Jobs
  <2> HIDE DEF j
  <2>3. Stage(t, j)
    BY <1>0, <1>1, <2>2 DEF Stage, Decisions
  <2> QED
    BY <2>2, <2>3 DEF j
<1>2. Processable =>
        LastOpen(order.log) /\ Latest(order.log).fee \in Fees \cup {None}
  BY <1>0, OpenIsLast, LatestEntry DEF Processable, LastOpen, Entries
<1>3. CASE CronScan(t)
  <2>1. RestOK' /\ order' = order
        /\ Become(t, [Idle EXCEPT !.pc = "load", !.op = "process"])
    BY <1>0, <1>3 DEF CronScan, RestOK, counters
  <2>2. "load" \in Steps /\ "process" \in Ops
    BY DEF Steps, Ops
  <2>3. /\ [Idle EXCEPT !.pc = "load", !.op = "process"] \in Jobs
        /\ [Idle EXCEPT !.pc = "load", !.op = "process"].pc = "load"
        /\ [Idle EXCEPT !.pc = "load", !.op = "process"].log = <<>>
    BY <2>2, IdleJob DEF Jobs
  <2>4. Stage(t, [Idle EXCEPT !.pc = "load", !.op = "process"])
    BY <2>3, EmptyOrdered DEF Stage, Holding
  <2> QED
    BY <1>0, <2>1, <2>3, <2>4, MoveKeeps
<1>4. CASE ProcessLoad(t)
  <2>1. RestOK' /\ order' = order
        /\ IF Processable
           THEN Become(t, [Loaded("approve", "process") EXCEPT
                             !.fee = Latest(order.log).fee])
           ELSE End(t)
    BY <1>0, <1>4 DEF ProcessLoad, RestOK, counters
  <2> QED
    BY <1>0, <1>1, <1>2, <2>1, MoveKeeps, EndKeeps
<1>5. CASE AdminProcess(t)
  <2>1. order' = order /\ Processable /\ RestOK'
    BY <1>0, <1>5, RefundConstants DEF AdminProcess, AdminMay, RestOK
  <2>2. PICK f \in {Latest(order.log).fee} \cup Fees :
          Become(t, [Loaded("approve", "process") EXCEPT !.fee = f])
    BY <1>5 DEF AdminProcess
  <2> QED
    BY <1>0, <1>1, <1>2, <2>1, <2>2, MoveKeeps
<1> QED
  BY <1>3, <1>4, <1>5

(* An entry with another status, author, fee or split is an entry.         *)
LEMMA EntryFields ==
  ASSUME NEW e \in Entries
  PROVE  /\ \A st \in Statuses : [e EXCEPT !.status = st] \in Entries
         /\ \A f \in Fees \cup {None} :
              [e EXCEPT !.fee = f] \in Entries /\ [e EXCEPT !.split = f] \in Entries
         /\ \A a \in Admins \cup {"auto", None} : [e EXCEPT !.by = a] \in Entries
  BY DEF Entries

LEMMA StatusFields ==
  ASSUME NEW e \in Entries, NEW st \in Statuses,
         NEW a \in Admins \cup {"auto", None}
  PROVE  /\ [e EXCEPT !.status = st, !.by = a] \in Entries
         /\ [e EXCEPT !.status = st, !.by = a].status = st
         /\ [e EXCEPT !.status = st].status = st
  BY DEF Entries

LEMMA Authors ==
  ASSUME NEW t PROVE By(t) \in Admins \cup {"auto", None}
  BY DEF By

(* The last save of a processor or of a decision, whatever entry it        *)
(* writes.                                                                 *)
LEMMA PatchAndEnd ==
  ASSUME RefundInv, RestOK', NEW t \in Threads, NEW e \in Entries,
         LastOpen(job[t].log),
         Save(t, order, Patched(job[t].log, e), Ended(t))
  PROVE  RefundInv'
<1>1. /\ job[t].log \in Seq(Entries) /\ job[t].log # <<>>
      /\ Ordered(job[t].log) /\ order \in Orders
  BY Facts DEF LastOpen
<1>2. Patched(job[t].log, e) \in Seq(Entries)
  BY <1>1, PatchedLog
<1>3. Ordered(Patched(job[t].log, e))
  BY <1>1, PatchedOrdered
<1> QED
  BY <1>1, <1>2, <1>3, EndedStage, SaveKeeps, Reassembled

LEMMA CompletedEntry ==
  ASSUME RefundInv, NEW t \in Threads, LastOpen(job[t].log)
  PROVE  Completed(t) \in Entries /\ Completed(t).status = "completed"
<1>1. Latest(job[t].log) \in Entries
  BY Facts, LatestEntry DEF LastOpen
<1>2. "completed" \in Statuses
  BY DEF Statuses
<1> QED
  BY <1>1, <1>2, StatusFields, Authors DEF Completed

(* processRefundForOrder after its first save, with the outcome of Stripe. *)
LEMMA FinishKeeps ==
  ASSUME RefundInv, NEW t \in Threads,
         ReleaseDone(t) \/ Refund(t) \/ Failed(t) \/ Complete(t)
  PROVE  RefundInv'
<1>0. /\ order \in Orders /\ RestOK /\ job[t] \in Jobs /\ Stage(t, job[t])
  BY Facts
<1>1. job[t].op = "process" /\ LastOpen(job[t].log)
  BY <1>0 DEF ReleaseDone, Refund, Failed, Complete, At, Stage, Holding
<1>2. Latest(job[t].log) \in Entries
  BY <1>1, Facts, LatestEntry DEF LastOpen
<1>3. CASE ReleaseDone(t)
  <2>1. [Completed(t) EXCEPT !.split = None] \in Entries
    BY <1>1, CompletedEntry, EntryFields
  <2>2. RestOK'
    BY <1>0, <1>3 DEF ReleaseDone, RestOK, counters
  <2>3. Save(t, order,
             Patched(job[t].log, [Completed(t) EXCEPT !.split = None]), Ended(t))
    BY <1>3 DEF ReleaseDone
  <2> QED
    BY <1>1, <2>1, <2>2, <2>3, PatchAndEnd
<1>4. CASE Failed(t)
  <2>1. [Latest(job[t].log) EXCEPT !.status = "pending"] \in Entries
    BY <1>2, EntryFields DEF Statuses
  <2>2. RestOK'
    BY <1>0, <1>4 DEF Failed, RestOK, counters
  <2> QED
    BY <1>1, <1>4, <2>1, <2>2, PatchAndEnd DEF Failed
<1>5. CASE Complete(t)
  <2>1. RestOK'
    BY <1>0, <1>5 DEF Complete, RestOK, counters
  <2> QED
    BY <1>1, <1>5, <2>1, CompletedEntry, PatchAndEnd DEF Complete
<1>6. CASE Refund(t)
  <2>1. order' = order /\ RestOK'
    BY <1>0, <1>6, RefundConstants DEF Refund, RestOK
  <2>2. PICK label \in {"complete", "failed"} : Goto(t, label)
    BY <1>6 DEF Refund
  <2>3. label \in Steps
    BY DEF Steps
  <2>4. job[t].pc = "refund"
    BY <1>6 DEF Refund, At
  <2>5. Stage(t, [job[t] EXCEPT !.pc = label])
    BY <1>0, <1>1, <2>3, <2>4, GotoJob DEF Stage, Holding, Decisions
  <2> QED
    BY <1>0, <2>1, <2>2, <2>3, <2>5, GotoKeeps
<1> QED
  BY <1>3, <1>4, <1>5, <1>6

(* The entry processRefundForOrder approves.                               *)
LEMMA ApprovedEntry ==
  ASSUME RefundInv, NEW t \in Threads, LastOpen(job[t].log)
  PROVE  /\ [Latest(job[t].log) EXCEPT !.status = "approved", !.by = By(t),
                !.fee = job[t].fee, !.split = job[t].fee] \in Entries
         /\ [Latest(job[t].log) EXCEPT !.status = "approved", !.by = By(t),
                !.fee = job[t].fee, !.split = job[t].fee].status = "approved"
<1>1. /\ Latest(job[t].log) \in Entries /\ job[t].fee \in Fees \cup {None}
      /\ "approved" \in Statuses
  BY Facts, LatestEntry DEF LastOpen, Jobs, Statuses
<1>2. By(t) \in Admins \cup {"auto", None}
  BY Authors
<1> DEFINE e == Latest(job[t].log)
           f == job[t].fee
           b == By(t)
<1>3. e \in Entries /\ f \in Fees \cup {None} /\ b \in Admins \cup {"auto", None}
  BY <1>1, <1>2
<1> HIDE DEF e, f, b
<1>4. [e EXCEPT !.status = "approved", !.by = b, !.fee = f, !.split = f] \in Entries
  BY <1>1, <1>3 DEF Entries
<1>5. [e EXCEPT !.status = "approved", !.by = b, !.fee = f, !.split = f].status
        = "approved"
  BY <1>3 DEF Entries
<1> QED
  BY <1>4, <1>5 DEF e, f, b

LEMMA ApproveKeeps ==
  ASSUME RefundInv, NEW t \in Threads, Approve(t)
  PROVE  RefundInv'
<1>0. /\ order \in Orders /\ RestOK /\ job[t] \in Jobs /\ Stage(t, job[t])
      /\ job[t].log \in Seq(Entries) /\ Ordered(job[t].log)
  BY Facts
<1>1. job[t].pc = "approve" /\ job[t].op = "process" /\ LastOpen(job[t].log)
  BY <1>0 DEF Approve, At, Stage, Holding
<1> DEFINE e == [Latest(job[t].log) EXCEPT !.status = "approved", !.by = By(t),
                   !.fee = job[t].fee, !.split = job[t].fee]
           log == Patched(job[t].log, e)
           next == [job[t] EXCEPT !.pc = "release"]
<1>2. e \in Entries /\ e.status = "approved"
  BY <1>1, ApprovedEntry
<1>3. Save(t, order, log, next) /\ RestOK'
  BY <1>0 DEF Approve, RestOK, counters
<1> HIDE DEF e
<1>4. log \in Seq(Entries) /\ log # <<>> /\ Latest(log) = e /\ Ordered(log)
  BY <1>0, <1>1, <1>2, PatchedLog, PatchedOrdered DEF LastOpen
<1>5. LastOpen(log)
  BY <1>2, <1>4 DEF LastOpen, ActiveStatuses
<1>6. "release" \in Steps
  BY DEF Steps
<1>7. /\ next \in Jobs /\ next.pc = "release" /\ next.op = "process"
      /\ next.log = job[t].log
  BY <1>0, <1>1, <1>6, GotoJob
<1> HIDE DEF log, next
<1>8. Stage(t, next)
  BY <1>0, <1>1, <1>7 DEF Stage, Decisions
<1>9. /\ [next EXCEPT !.log = log].pc = "release"
      /\ [next EXCEPT !.log = log].op = "process"
      /\ [next EXCEPT !.log = log].log = log
  BY <1>7 DEF Jobs
<1>10. Stage(t, [next EXCEPT !.log = log])
  BY <1>4, <1>5, <1>9 DEF Stage, Decisions
<1> QED
  BY <1>0, <1>3, <1>4, <1>7, <1>8, <1>10, SaveKeeps, Reassembled

(* The administration's decisions.                                         *)
LEMMA DecideKeeps ==
  ASSUME RefundInv, NEW t \in Threads, NEW op \in Decisions, Decide(t, op)
  PROVE  RefundInv'
<1>0. /\ order \in Orders /\ RestOK /\ TypeOK /\ order.log \in Seq(Entries)
      /\ Ordered(order.log)
  BY Facts
<1>1. order' = order /\ Active(order.log) # {} /\ RestOK' /\ t \in Admins
  BY <1>0, RefundConstants DEF Decide, AdminMay, Decidable, RestOK
<1>2. LastOpen(order.log)
  BY <1>0, <1>1, OpenIsLast
<1>3. PICK f \in Fees \cup {None} : Become(t, [Loaded("decide", op) EXCEPT !.fee = f])
  BY DEF Decide
<1> DEFINE j == [Loaded("decide", op) EXCEPT !.fee = f]
<1>4. /\ Loaded("decide", op) \in Jobs
      /\ Loaded("decide", op).pc = "decide"
      /\ Loaded("decide", op).op = op
      /\ Loaded("decide", op).log = order.log
  <2>1. "decide" \in Steps /\ op \in Ops
    BY DEF Steps, Ops, Decisions
  <2> QED
    BY <1>0, <2>1, LoadedJob
<1>5. j \in Jobs /\ j.pc = "decide" /\ j.op = op /\ j.log = order.log
  BY <1>4 DEF Jobs
<1> HIDE DEF j
<1>6. Stage(t, j)
  BY <1>0, <1>1, <1>2, <1>5 DEF Stage, Decisions
<1> QED
  BY <1>0, <1>1, <1>3, <1>5, <1>6, MoveKeeps DEF j

(* The entry an administrator writes.                                      *)
LEMMA DecidedEntry ==
  ASSUME RefundInv, NEW t \in Threads, At(t, "decide")
  PROVE  /\ LastOpen(job[t].log) /\ Decided(t) \in Entries
         /\ job[t].op \in Decisions
<1>0. /\ job[t] \in Jobs /\ Stage(t, job[t])
  BY Facts
<1>1. /\ job[t].op \in Decisions /\ LastOpen(job[t].log) /\ t \in Admins
  BY <1>0 DEF At, Stage, Holding
<1>2. /\ Latest(job[t].log) \in Entries /\ job[t].fee \in Fees \cup {None}
  BY <1>1, Facts, LatestEntry DEF LastOpen, Jobs
<1>3. "paused" \in Statuses /\ "pending" \in Statuses /\ "rejected" \in Statuses
  BY DEF Statuses
<1>4. CASE job[t].op = "pause"
  BY <1>1, <1>2, <1>3, <1>4, EntryFields DEF Decided
<1>5. CASE job[t].op = "resume"
  BY <1>1, <1>2, <1>3, <1>5, EntryFields DEF Decided
<1>6. CASE job[t].op = "cancel"
  BY <1>1, <1>2, <1>3, <1>6, StatusFields DEF Decided
<1>7. CASE job[t].op = "override"
  BY <1>1, <1>2, <1>7, EntryFields DEF Decided
<1> QED
  BY <1>1, <1>4, <1>5, <1>6, <1>7 DEF Decisions

LEMMA DecideSaveKeeps ==
  ASSUME RefundInv, NEW t \in Threads, DecideSave(t)
  PROVE  RefundInv'
<1>1. LastOpen(job[t].log) /\ Decided(t) \in Entries
  BY DecidedEntry DEF DecideSave
<1>2. RestOK' /\ Save(t, order, Patched(job[t].log, Decided(t)), Ended(t))
  BY Facts DEF DecideSave, RestOK, counters
<1> QED
  BY <1>1, <1>2, PatchAndEnd

LEMMA PauseAllKeeps ==
  ASSUME RefundInv, NEW t \in Threads, PauseAll(t)
  PROVE  RefundInv'
<1>1. /\ RestOK /\ order \in Orders /\ Ordered(order.log)
      /\ job \in [Threads -> Jobs] /\ \A u \in Threads : Stage(u, job[u])
  BY Facts DEF RefundInv, TypeOK
<1>2. order' = order /\ job' = job /\ RestOK'
  BY <1>1, RefundConstants DEF PauseAll, AdminMay, RestOK
<1> QED
  BY <1>1, <1>2, Reassembled

(* The saves of the two cancellations and of mark-ready.                   *)
LEMMA ClientSaveKeeps ==
  ASSUME RefundInv, NEW t \in Threads, ClientSave(t)
  PROVE  RefundInv'
<1>0. /\ order \in Orders /\ RestOK /\ job[t] \in Jobs /\ Stage(t, job[t])
      /\ job[t].log \in Seq(Entries)
  BY Facts
<1>1. /\ RestOK' /\ End(t) /\ Active(job[t].log) = {}
      /\ order' = [order EXCEPT !.status = "cancelled", !.source = "client",
                                !.log = Append(job[t].log, Asked)]
  BY <1>0 DEF ClientSave, At, Stage, Holding, RestOK, counters
<1>2. /\ Append(job[t].log, Asked) \in Seq(Entries)
      /\ Ordered(Append(job[t].log, Asked))
  BY <1>0, <1>1, AppendedOrdered
<1>3. order' \in Orders /\ order'.log = Append(job[t].log, Asked)
  BY <1>0, <1>1, <1>2 DEF Orders
<1>4. /\ job' \in [Threads -> Jobs]
      /\ \A u \in Threads : Stage(u, job'[u])
  BY <1>1, EndedStage, BecomeKeeps DEF End
<1> QED
  BY <1>1, <1>2, <1>3, <1>4, Reassembled

LEMMA RejectedKeeps ==
  ASSUME RefundInv, NEW t \in Threads, RejectSave(t) \/ RejectRefund(t)
  PROVE  RefundInv'
<1>0. /\ order \in Orders /\ RestOK /\ job[t] \in Jobs /\ Stage(t, job[t])
      /\ job[t].log \in Seq(Entries) /\ Ordered(job[t].log)
  BY Facts
<1>1. PICK log \in Seq(Entries) : Ordered(log) /\ Rejected(t, log)
  <2>1. CASE RejectSave(t)
    BY <1>0, <2>1 DEF RejectSave
  <2>2. CASE RejectRefund(t)
    <3>1. Active(job[t].log) = {}
      BY <1>0, <2>2 DEF RejectRefund, At, Stage, Holding
    <3> QED
      BY <1>0, <2>2, <3>1, AppendedOrdered DEF RejectRefund
  <2> QED
    BY <2>1, <2>2
<1> DEFINE waiting == [Idle EXCEPT !.pc = "load", !.op = "process"]
           doc == [order EXCEPT !.status = "cancelled", !.source = "vendor"]
<1>2. RestOK' /\ \E next \in {Ended(t), waiting} : Save(t, doc, log, next)
  BY <1>0, <1>1 DEF Rejected, RestOK, counters
<1>3. PICK next \in {Ended(t), waiting} : Save(t, doc, log, next)
  BY <1>2
<1>4. /\ waiting \in Jobs /\ waiting.pc = "load" /\ waiting.log = <<>>
  <2>1. "load" \in Steps /\ "process" \in Ops
    BY DEF Steps, Ops
  <2> QED
    BY <2>1, IdleJob DEF Jobs
<1>5. doc \in Orders /\ doc.log = order.log
  BY <1>0 DEF Orders
<1> HIDE DEF doc, waiting
<1>6. Stage(t, waiting) /\ ~Holding(waiting)
  BY <1>4, EmptyOrdered DEF Stage, Holding
<1>7. next \in Jobs /\ Stage(t, next) /\ ~Holding(next)
  BY <1>3, <1>4, <1>6, EndedStage
<1> QED
  BY <1>1, <1>2, <1>3, <1>5, <1>7, SaveKeeps, Reassembled

LEMMA ReadySaveKeeps ==
  ASSUME RefundInv, NEW t \in Threads, ReadySave(t)
  PROVE  RefundInv'
<1>0. /\ order \in Orders /\ RestOK /\ job[t] \in Jobs /\ Stage(t, job[t])
      /\ job[t].log \in Seq(Entries) /\ Ordered(job[t].log)
  BY Facts
<1> DEFINE doc == [order EXCEPT !.status = "approved"]
           next == [job[t] EXCEPT !.pc = "capture_read"]
<1>1. RestOK' /\ Save(t, doc, job[t].log, next) /\ job[t].op = "ready"
  BY <1>0 DEF ReadySave, At, Stage, RestOK, counters
<1>2. doc \in Orders /\ doc.log = order.log
  BY <1>0 DEF Orders
<1>3. "capture_read" \in Steps
  BY DEF Steps
<1>4. /\ next \in Jobs /\ next.pc = "capture_read" /\ next.op = "ready"
      /\ next.log = job[t].log
  BY <1>0, <1>1, <1>3, GotoJob
<1> HIDE DEF doc, next
<1>5. Stage(t, next)
  BY <1>0, <1>4 DEF Stage, Decisions
<1> QED
  BY <1>0, <1>1, <1>2, <1>4, <1>5, SaveKeeps, Reassembled

LEMMA KillKeeps ==
  ASSUME RefundInv, NEW t \in Threads, Kill(t)
  PROVE  RefundInv'
<1>1. RestOK /\ order \in Orders
  BY Facts
<1>2. order' = order /\ RestOK' /\ End(t)
  BY <1>1, RefundConstants DEF Kill, RestOK
<1> QED
  BY <1>1, <1>2, EndKeeps

-----------------------------------------------------------------------------
(* Theorems                                                                *)

LEMMA InitRefund == Init => RefundInv
<1> SUFFICES ASSUME Init PROVE RefundInv
  OBVIOUS
<1>1. order.log = <<>> /\ order \in Orders
  BY DEF Init, Orders
<1>2. /\ pi \in {"requires_capture", "succeeded"} /\ refunded = 0
      /\ paused = FALSE /\ decisions = 0 /\ failures = 0 /\ kills = 0
  BY DEF Init
<1>3. job = [t \in Threads |-> Idle]
  BY DEF Init
<1>4. job \in [Threads -> Jobs]
  BY <1>3, IdleJob
<1>5. ASSUME NEW t \in Threads PROVE Stage(t, job[t])
  BY <1>3, IdleJob, EmptyOrdered DEF Stage
<1>6. TypeOK
  <2>1. /\ 0 \in 0..Capacity /\ 0 \in 0..MaxDecisions /\ 0 \in 0..MaxFailures
        /\ 0 \in 0..MaxKills
    BY RefundConstants
  <2> QED
    BY <1>1, <1>2, <1>4, <2>1 DEF TypeOK
<1> QED
  BY <1>1, <1>5, <1>6, EmptyOrdered DEF RefundInv

LEMMA StepRefund == RefundInv /\ [Next]_vars => RefundInv'
<1> SUFFICES ASSUME RefundInv, [Next]_vars PROVE RefundInv'
  OBVIOUS
<1>1. CASE UNCHANGED vars
  BY <1>1 DEF vars, RefundInv, TypeOK, Stage
<1>2. ASSUME NEW t \in Threads, Continue(t) PROVE RefundInv'
  BY <1>2, ClientSaveKeeps, RejectedKeeps, ReleaseKeeps, ProcessKeeps,
     ApproveKeeps, FinishKeeps, DecideSaveKeeps, ReadySaveKeeps, CaptureKeeps
     DEF Continue
<1>3. ASSUME NEW t \in Threads, Begin(t) PROVE RefundInv'
  BY <1>3, LoadsKeep, ProcessKeeps, DecideKeeps, PauseAllKeeps
     DEF Begin, Decisions
<1> QED
  BY <1>1, <1>2, <1>3, ProcessKeeps, KillKeeps DEF Next

(* RefundInv holds in every reachable state.                               *)
LEMMA AlwaysRefundInv == Spec => []RefundInv
  BY InitRefund, StepRefund, PTL DEF Spec

(* Type correctness of the refund of an order, for any actors and bounds.  *)
THEOREM RefundTypes == Spec => []TypeOK
<1>1. RefundInv => TypeOK
  BY DEF RefundInv
<1> QED
  BY <1>1, AlwaysRefundInv, PTL

(* At most one request of the order is open: rejectOrder and               *)
(* submitRefundRequest append only to a log they saw without an open       *)
(* request, and every other writer patches the last entry of one.          *)
THEOREM OneRequest == Spec => []OneActive
<1>1. RefundInv => OneActive
  <2> SUFFICES ASSUME RefundInv PROVE Cardinality(Active(order.log)) <= 1
    BY DEF OneActive
  <2>1. /\ order.log \in Seq(Entries)
        /\ \A i \in 1..Len(order.log) :
             i < Len(order.log) => order.log[i].status \notin ActiveStatuses
    BY Facts DEF Ordered
  <2>2. Active(order.log) \subseteq {Len(order.log)}
    BY <2>1 DEF Active
  <2>3. Active(order.log) = {} \/ Active(order.log) = {Len(order.log)}
    BY <2>2
  <2>4. CASE Active(order.log) = {}
    BY <2>4, FS_EmptySet
  <2>5. CASE Active(order.log) = {Len(order.log)}
    <3>1. Cardinality({Len(order.log)}) = 1
      BY FS_Singleton
    <3> QED
      BY <2>5, <3>1
  <2> QED
    BY <2>3, <2>4, <2>5
<1> QED
  BY <1>1, AlwaysRefundInv, PTL

-----------------------------------------------------------------------------
(* What a request knows of Stripe and of the status it is about to change  *)

Progress(j, intent, made) ==
  /\ Holding(j) /\ j.op = "process" /\ j.pc # "approve"
       => Latest(j.log).status = "approved"
  /\ Holding(j) /\ j.op = "pause" => Latest(j.log).status = "pending"
  /\ Holding(j) /\ j.op = "resume" => Latest(j.log).status = "paused"
  /\ Holding(j) /\ j.op = "cancel" => Latest(j.log).status \in {"pending", "paused"}
  /\ j.pc \in {"release_mark", "release_done"} => intent = "canceled"
  /\ j.pc = "capture_mark" => intent = "succeeded"
  /\ j.pc = "complete" => made > 0

LifeInv ==
  /\ RefundInv
  /\ \A t \in Threads : Progress(job[t], pi, refunded)
  /\ CaptureStatusTrue

(* Stripe never takes back what it did.                                    *)
Onward == pi' \in {pi, "succeeded", "canceled"} /\ refunded' \in Nat
          /\ (pi' # pi => pi = "requires_capture") /\ refunded <= refunded'

LEMMA OnwardKeeps ==
  ASSUME LifeInv, Onward
  PROVE  /\ \A t \in Threads : Progress(job[t], pi', refunded')
         /\ order'.capture = order.capture => CaptureStatusTrue'
<1>1. refunded \in Nat
  BY RefundConstants DEF LifeInv, RefundInv, TypeOK
<1>2. \A t \in Threads : Progress(job[t], pi', refunded')
  BY <1>1 DEF LifeInv, Onward, Progress
<1> QED
  BY <1>2 DEF LifeInv, Onward, CaptureStatusTrue

LEMMA SameOnward ==
  ASSUME LifeInv, pi' = pi, refunded' = refunded
  PROVE  Onward
  BY RefundConstants DEF LifeInv, RefundInv, TypeOK, Onward

LEMMA EndedProgress ==
  ASSUME NEW t \in Threads, NEW p, NEW r
  PROVE  Progress(Ended(t), p, r)
<1>1. Ended(t).pc \in {"idle", "done"}
  <2>1. [Idle EXCEPT !.pc = "done"].pc = "done" /\ Idle.pc = "idle"
    BY DEF Idle
  <2> QED
    BY <2>1 DEF Ended
<1> QED
  BY <1>1, EndedStage DEF Progress

(* One request moves, the log and the capture status stay.                 *)
LEMMA MoveLife ==
  ASSUME LifeInv, RefundInv', NEW t \in Threads, NEW j, Become(t, j), Onward,
         Progress(j, pi', refunded'), order'.capture = order.capture
  PROVE  LifeInv'
<1>1. job' = [job EXCEPT ![t] = j] /\ job \in [Threads -> Jobs]
  BY DEF Become, LifeInv, RefundInv, TypeOK
<1>2. \A u \in Threads : job'[u] = IF u = t THEN j ELSE job[u]
  BY <1>1
<1>3. \A u \in Threads : Progress(job'[u], pi', refunded')
  BY <1>2, OnwardKeeps
<1>4. CaptureStatusTrue'
  BY OnwardKeeps
<1> QED
  BY <1>3, <1>4 DEF LifeInv

LEMMA EndLife ==
  ASSUME LifeInv, RefundInv', NEW t \in Threads, End(t), Onward,
         order'.capture = order.capture
  PROVE  LifeInv'
  BY MoveLife, EndedProgress DEF End

(* A document is saved and Stripe is not called.                           *)
LEMMA SaveLife ==
  ASSUME LifeInv, RefundInv', NEW t \in Threads, NEW doc \in Orders,
         NEW log \in Seq(Entries), NEW next \in Jobs, doc.log = order.log,
         doc.capture = order.capture, Save(t, doc, log, next),
         pi' = pi, refunded' = refunded,
         log = job[t].log => Progress(next, pi, refunded),
         Holding(next) => Progress([next EXCEPT !.log = log], pi, refunded),
         ~Holding(next) => Progress(next, pi, refunded)
  PROVE  LifeInv'
<1>1. Onward
  BY SameOnward
<1>2. CASE order' = order /\ End(t)
  BY <1>1, <1>2, EndLife
<1>3. CASE log = job[t].log /\ order' = doc /\ Become(t, next)
  BY <1>1, <1>3, MoveLife
<1>4. CASE /\ order' = [doc EXCEPT !.log = log]
           /\ job' = [u \in Threads |->
                        IF u # t THEN [job[u] EXCEPT !.stale = Holding(job[u])]
                        ELSE IF Holding(next) THEN [next EXCEPT !.log = log]
                        ELSE next]
  <2>1. order'.capture = order.capture
    BY <1>4 DEF Orders
  <2>2. ASSUME NEW u \in Threads PROVE Progress(job'[u], pi', refunded')
    <3>1. CASE u # t
      <4>1. /\ job'[u] = [job[u] EXCEPT !.stale = Holding(job[u])]
            /\ job[u] \in Jobs /\ Progress(job[u], pi, refunded)
        BY <1>4, <3>1, Facts DEF LifeInv
      <4>2. /\ job'[u].pc = job[u].pc /\ job'[u].op = job[u].op
            /\ job'[u].log = job[u].log
        BY <4>1 DEF Jobs
      <4> QED
        BY <4>1, <4>2 DEF Progress, Holding
    <3>2. CASE u = t
      <4>1. job'[u] = IF Holding(next) THEN [next EXCEPT !.log = log] ELSE next
        BY <1>4, <3>2
      <4> QED
        BY <4>1
    <3> QED
      BY <3>1, <3>2
  <2>3. CaptureStatusTrue'
    BY <1>1, <2>1, OnwardKeeps
  <2> QED
    BY <2>2, <2>3 DEF LifeInv
<1> QED
  BY <1>2, <1>3, <1>4, SaveOutcome DEF LifeInv

(* A patch by which a request ends.                                        *)
LEMMA PatchLife ==
  ASSUME LifeInv, RefundInv', NEW t \in Threads, NEW e \in Entries,
         LastOpen(job[t].log), pi' = pi, refunded' = refunded,
         Save(t, order, Patched(job[t].log, e), Ended(t))
  PROVE  LifeInv'
<1>1. /\ job[t].log \in Seq(Entries) /\ job[t].log # <<>> /\ order \in Orders
  BY Facts DEF LastOpen, LifeInv
<1>2. Patched(job[t].log, e) \in Seq(Entries)
  BY <1>1, PatchedLog
<1>3. Ended(t) \in Jobs /\ ~Holding(Ended(t)) /\ Progress(Ended(t), pi, refunded)
  BY EndedStage, EndedProgress
<1> QED
  BY <1>1, <1>2, <1>3, SaveLife

LEMMA GotoLife ==
  ASSUME LifeInv, RefundInv', NEW t \in Threads, NEW label \in Steps,
         Goto(t, label), Onward, order'.capture = order.capture,
         Progress([job[t] EXCEPT !.pc = label], pi', refunded')
  PROVE  LifeInv'
  BY MoveLife DEF Goto

(* A request that has just read the order as it is.                        *)
LEMMA LoadLife ==
  ASSUME LifeInv, RefundInv', NEW t \in Threads, NEW label \in Steps, NEW op \in Ops,
         NEW j, Become(t, j), j.pc = label, j.op = op, j.log = order.log,
         label \in {"approve", "client_save", "release", "reject_save", "ready_save",
                   "decide"},
         op = "process" => label = "approve",
         op = "pause" => Latest(order.log).status = "pending",
         op = "resume" => Latest(order.log).status = "paused",
         op = "cancel" => Latest(order.log).status \in {"pending", "paused"},
         UNCHANGED <<order, pi, refunded>>
  PROVE  LifeInv'
<1>1. Onward
  BY SameOnward
<1>2. Progress(j, pi', refunded')
  BY DEF Progress
<1> QED
  BY <1>1, <1>2, MoveLife

LEMMA LoadsLife ==
  ASSUME LifeInv, RefundInv', NEW t \in Threads,
         ClientLoad(t) \/ RejectLoad(t) \/ ReadyLoad(t)
  PROVE  LifeInv'
<1>0. TypeOK /\ UNCHANGED <<order, pi, refunded>>
  BY DEF ClientLoad, RejectLoad, ReadyLoad, LifeInv, RefundInv
<1>1. PICK label \in {"client_save", "release", "reject_save", "ready_save"},
           op \in {"client", "reject", "ready"} : Become(t, Loaded(label, op))
  BY DEF ClientLoad, RejectLoad, ReadyLoad
<1>2. label \in Steps /\ op \in Ops
  BY DEF Steps, Ops
<1>3. /\ Loaded(label, op).pc = label /\ Loaded(label, op).op = op
      /\ Loaded(label, op).log = order.log
  BY <1>0, <1>2, LoadedJob
<1> QED
  BY <1>0, <1>1, <1>2, <1>3, LoadLife

LEMMA ReleaseLife ==
  ASSUME LifeInv, RefundInv', NEW t \in Threads,
         Release(t) \/ ReleaseCancel(t) \/ ReleaseMark(t)
  PROVE  LifeInv'
<1>0. /\ job[t] \in Jobs /\ Progress(job[t], pi, refunded) /\ TypeOK
      /\ Stage(t, job[t]) /\ refunded \in Nat /\ order \in Orders
  BY Facts, RefundConstants DEF LifeInv, TypeOK
<1>1. CASE Release(t)
  <2>1. /\ job[t].pc = "release" /\ UNCHANGED <<order, pi, refunded>>
    BY <1>1 DEF Release, At
  <2>2. PICK label \in {"release_cancel", "reject_refund", "refund"} :
          Goto(t, label)
    BY <1>1 DEF Release
  <2>3. label \in Steps
    BY DEF Steps
  <2>4. Progress([job[t] EXCEPT !.pc = label], pi', refunded')
    BY <1>0, <2>1, <2>3, GotoJob DEF Progress, Holding
  <2> QED
    BY <2>1, <2>2, <2>3, <2>4, SameOnward, GotoLife
<1>2. CASE ReleaseCancel(t) /\ pi = "requires_capture"
  <2>1. /\ job[t].pc = "release_cancel" /\ UNCHANGED <<order, refunded>>
        /\ pi' = "canceled" /\ Goto(t, "release_mark")
    BY <1>2 DEF ReleaseCancel, At
  <2>2. "release_mark" \in Steps
    BY DEF Steps
  <2>3. Progress([job[t] EXCEPT !.pc = "release_mark"], pi', refunded')
    BY <1>0, <2>1, <2>2, GotoJob DEF Progress, Holding
  <2>4. Onward
    BY <1>0, <1>2, <2>1 DEF Onward
  <2> QED
    BY <2>1, <2>2, <2>3, <2>4, GotoLife
<1>3. CASE ReleaseCancel(t) /\ pi # "requires_capture"
  <2>1. End(t) /\ UNCHANGED <<order, pi, refunded>>
    BY <1>3 DEF ReleaseCancel
  <2> QED
    BY <2>1, SameOnward, EndLife
<1>4. CASE ReleaseMark(t)
  <2>1. /\ job[t].pc = "release_mark" /\ UNCHANGED <<pi, refunded>>
        /\ order' = [order EXCEPT !.capture = "cancelled"]
    BY <1>4 DEF ReleaseMark, At
  <2>2. PICK label \in {"reject_save", "release_done"} : Goto(t, label)
    BY <1>4 DEF ReleaseMark
  <2>3. label \in Steps
    BY DEF Steps
  <2>4. pi = "canceled"
    BY <1>0, <2>1 DEF Progress
  <2>5. Progress([job[t] EXCEPT !.pc = label], pi', refunded')
    BY <1>0, <2>1, <2>3, <2>4, GotoJob DEF Progress, Holding
  <2>6. order'.capture = "cancelled"
    BY <1>0, <2>1 DEF Orders
  <2>7. CaptureStatusTrue'
    BY <2>1, <2>4, <2>6 DEF CaptureStatusTrue
  <2>8. \A u \in Threads : job'[u] = IF u = t THEN [job[t] EXCEPT !.pc = label]
                                     ELSE job[u]
    BY <1>0, <2>2 DEF Goto, Become, TypeOK
  <2>9. \A u \in Threads : Progress(job'[u], pi', refunded')
    BY <2>1, <2>5, <2>8 DEF LifeInv
  <2> QED
    BY <2>7, <2>9 DEF LifeInv
<1> QED
  BY <1>1, <1>2, <1>3, <1>4

LEMMA CaptureLife ==
  ASSUME LifeInv, RefundInv', NEW t \in Threads,
         CaptureRead(t) \/ CaptureRetrieve(t) \/ Capture(t) \/ CaptureMark(t)
  PROVE  LifeInv'
<1>0. /\ job[t] \in Jobs /\ Progress(job[t], pi, refunded) /\ TypeOK
      /\ Stage(t, job[t]) /\ refunded \in Nat /\ order \in Orders
      /\ refunded' = refunded
  BY Facts, RefundConstants DEF LifeInv, TypeOK, CaptureRead, CaptureRetrieve,
     Capture, CaptureMark
<1>1. CASE CaptureMark(t)
  <2>1. /\ job[t].pc = "capture_mark" /\ pi' = pi /\ End(t)
        /\ order' \in {order, [order EXCEPT !.capture = "captured"]}
    BY <1>1 DEF CaptureMark, At
  <2>2. pi = "succeeded"
    BY <1>0, <2>1 DEF Progress
  <2>3. order'.capture \in {order.capture, "captured"}
    BY <1>0, <2>1 DEF Orders
  <2>4. CaptureStatusTrue'
    BY <2>1, <2>2, <2>3 DEF CaptureStatusTrue, LifeInv
  <2>5. \A u \in Threads : job'[u] = IF u = t THEN Ended(t) ELSE job[u]
    BY <1>0, <2>1 DEF End, Become, TypeOK
  <2>6. \A u \in Threads : Progress(job'[u], pi', refunded')
    BY <1>0, <2>1, <2>5, EndedProgress DEF LifeInv
  <2> QED
    BY <2>4, <2>6 DEF LifeInv
<1>2. CASE CaptureRead(t) \/ CaptureRetrieve(t) \/ Capture(t)
  <2>1. /\ order' = order
        /\ job[t].pc \in {"capture_read", "capture_retrieve", "capture"}
        /\ pi' = pi \/ (pi = "requires_capture" /\ pi' = "succeeded")
    <3>1. CASE CaptureRead(t) \/ CaptureRetrieve(t)
      BY <3>1 DEF CaptureRead, CaptureRetrieve, At
    <3>2. CASE Capture(t)
      BY <3>2 DEF Capture, At
    <3> QED
      BY <1>2, <3>1, <3>2
  <2>2. Onward
    BY <1>0, <2>1 DEF Onward
  <2>3. CASE End(t)
    BY <2>1, <2>2, <2>3, EndLife
  <2>4. CASE ~End(t)
    <3>1. PICK label \in {"capture_retrieve", "capture", "capture_mark"} :
            Goto(t, label) /\ (label = "capture_mark" => pi' = "succeeded")
      BY <1>2, <2>4 DEF CaptureRead, CaptureRetrieve, Capture
    <3>2. label \in Steps
      BY DEF Steps
    <3>3. job[t].op = "ready"
      BY <1>0, <2>1 DEF Stage
    <3>4. Progress([job[t] EXCEPT !.pc = label], pi', refunded')
      BY <1>0, <2>1, <3>1, <3>2, <3>3, GotoJob DEF Progress, Holding
    <3> QED
      BY <2>1, <2>2, <3>1, <3>2, <3>4, GotoLife
  <2> QED
    BY <2>3, <2>4
<1> QED
  BY <1>1, <1>2

LEMMA ProcessLife ==
  ASSUME LifeInv, RefundInv', NEW t \in Threads,
         CronScan(t) \/ ProcessLoad(t) \/ AdminProcess(t)
  PROVE  LifeInv'
<1>0. TypeOK /\ UNCHANGED <<order, pi, refunded>>
  BY DEF CronScan, ProcessLoad, AdminProcess, LifeInv, RefundInv
<1>1. Onward
  BY <1>0, SameOnward
<1>2. ASSUME NEW f, Become(t, [Loaded("approve", "process") EXCEPT !.fee = f])
      PROVE  LifeInv'
  <2>1. /\ Loaded("approve", "process") \in Jobs
        /\ Loaded("approve", "process").pc = "approve"
        /\ Loaded("approve", "process").op = "process"
        /\ Loaded("approve", "process").log = order.log
    BY <1>0, LoadedJob DEF Steps, Ops
  <2> DEFINE j == [Loaded("approve", "process") EXCEPT !.fee = f]
  <2>2. j.pc = "approve" /\ j.op = "process" /\ j.log = order.log
    BY <2>1 DEF Jobs
  <2>3. Become(t, j)
    BY <1>2
  <2> HIDE DEF j
  <2>4. "approve" \in Steps /\ "process" \in Ops
    BY DEF Steps, Ops
  <2> QED
    BY <1>0, <2>2, <2>3, <2>4, LoadLife
<1>3. CASE CronScan(t)
  <2> DEFINE j == [Idle EXCEPT !.pc = "load", !.op = "process"]
  <2>1. Become(t, j)
    BY <1>3 DEF CronScan
  <2>2. j.pc = "load"
    BY IdleJob DEF Jobs
  <2> HIDE DEF j
  <2>3. Progress(j, pi', refunded')
    BY <2>2 DEF Progress, Holding
  <2> QED
    BY <1>0, <1>1, <2>1, <2>3, MoveLife
<1>4. CASE ProcessLoad(t)
  BY <1>0, <1>1, <1>2, <1>4, EndLife DEF ProcessLoad
<1>5. CASE AdminProcess(t)
  BY <1>2, <1>5 DEF AdminProcess
<1> QED
  BY <1>3, <1>4, <1>5

LEMMA FinishLife ==
  ASSUME LifeInv, RefundInv', NEW t \in Threads,
         ReleaseDone(t) \/ Refund(t) \/ Failed(t) \/ Complete(t)
  PROVE  LifeInv'
<1>0. /\ job[t] \in Jobs /\ Progress(job[t], pi, refunded) /\ Stage(t, job[t])
      /\ RefundInv /\ refunded \in Nat
  BY Facts, RefundConstants DEF LifeInv, TypeOK
<1>1. job[t].op = "process" /\ LastOpen(job[t].log)
  BY <1>0 DEF ReleaseDone, Refund, Failed, Complete, At, Stage, Holding
<1>2. Latest(job[t].log) \in Entries
  BY <1>0, <1>1, Facts, LatestEntry DEF LastOpen
<1>3. CASE ReleaseDone(t)
  <2>1. [Completed(t) EXCEPT !.split = None] \in Entries
    BY <1>0, <1>1, CompletedEntry, EntryFields
  <2>2. Save(t, order,
             Patched(job[t].log, [Completed(t) EXCEPT !.split = None]), Ended(t))
    BY <1>3 DEF ReleaseDone
  <2>3. UNCHANGED <<pi, refunded>>
    BY <1>3 DEF ReleaseDone
  <2> QED
    BY <1>1, <2>1, <2>2, <2>3, PatchLife
<1>4. CASE Failed(t)
  <2>1. [Latest(job[t].log) EXCEPT !.status = "pending"] \in Entries
    BY <1>2, EntryFields DEF Statuses
  <2> QED
    BY <1>1, <1>4, <2>1, PatchLife DEF Failed
<1>5. CASE Complete(t)
  BY <1>0, <1>1, <1>5, CompletedEntry, PatchLife DEF Complete
<1>6. CASE Refund(t)
  <2>1. /\ UNCHANGED <<order, pi>> /\ refunded' \in Nat /\ refunded <= refunded'
        /\ job[t].pc = "refund"
    BY <1>0, <1>6 DEF Refund, At
  <2>2. PICK label \in {"complete", "failed"} :
          Goto(t, label) /\ (label = "complete" => refunded' > 0)
    BY <1>0, <1>6 DEF Refund
  <2>3. label \in Steps
    BY DEF Steps
  <2>4. Progress([job[t] EXCEPT !.pc = label], pi', refunded')
    BY <1>0, <1>1, <2>1, <2>2, <2>3, GotoJob DEF Progress, Holding
  <2>5. Onward
    BY <2>1 DEF Onward
  <2> QED
    BY <2>1, <2>2, <2>3, <2>4, <2>5, GotoLife
<1> QED
  BY <1>3, <1>4, <1>5, <1>6

LEMMA ApproveLife ==
  ASSUME LifeInv, RefundInv', NEW t \in Threads, Approve(t)
  PROVE  LifeInv'
<1>0. /\ order \in Orders /\ job[t] \in Jobs /\ Stage(t, job[t]) /\ RefundInv
      /\ job[t].log \in Seq(Entries) /\ Progress(job[t], pi, refunded)
  BY Facts DEF LifeInv
<1>1. job[t].pc = "approve" /\ job[t].op = "process" /\ LastOpen(job[t].log)
  BY <1>0 DEF Approve, At, Stage, Holding
<1> DEFINE e == [Latest(job[t].log) EXCEPT !.status = "approved", !.by = By(t),
                   !.fee = job[t].fee, !.split = job[t].fee]
           log == Patched(job[t].log, e)
           next == [job[t] EXCEPT !.pc = "release"]
<1>2. e \in Entries /\ e.status = "approved"
  BY <1>0, <1>1, ApprovedEntry
<1>3. Save(t, order, log, next) /\ UNCHANGED <<pi, refunded>>
  BY DEF Approve
<1> HIDE DEF e
<1>4. log \in Seq(Entries) /\ Latest(log).status = "approved"
  BY <1>0, <1>1, <1>2, PatchedLog DEF LastOpen
<1>5. "release" \in Steps
  BY DEF Steps
<1>6. /\ next \in Jobs /\ next.pc = "release" /\ next.op = "process"
      /\ next.log = job[t].log
  BY <1>0, <1>1, <1>5, GotoJob
<1> HIDE DEF log, next
<1>7. /\ [next EXCEPT !.log = log].pc = "release"
      /\ [next EXCEPT !.log = log].op = "process"
      /\ [next EXCEPT !.log = log].log = log
  BY <1>6 DEF Jobs
<1>8. Progress([next EXCEPT !.log = log], pi, refunded)
  BY <1>4, <1>7 DEF Progress
<1>9. log = job[t].log => Progress(next, pi, refunded)
  BY <1>4, <1>6 DEF Progress
<1>10. Holding(next)
  BY <1>6 DEF Holding
<1> QED
  BY <1>0, <1>3, <1>4, <1>6, <1>8, <1>9, <1>10, SaveLife

(* An administrator's decision is checked against the last entry.          *)
LEMMA ActiveEntryIsLatest ==
  ASSUME NEW log \in Seq(Entries), Ordered(log), Active(log) # {}
  PROVE  ActiveEntry(log) = Latest(log)
<1>1. LastOpen(log)
  BY OpenIsLast
<1>2. \A i \in Active(log) : i = Len(log)
  BY DEF Active, Ordered
<1>3. Len(log) \in Active(log)
  BY <1>1 DEF LastOpen, Latest, Active
<1>4. \E i \in Active(log) : \A j \in Active(log) : j <= i
  BY <1>2, <1>3
<1>5. (CHOOSE i \in Active(log) : \A j \in Active(log) : j <= i) = Len(log)
  BY <1>2, <1>4
<1> QED
  BY <1>5 DEF ActiveEntry, Latest

LEMMA DecideLife ==
  ASSUME LifeInv, RefundInv', NEW t \in Threads, NEW op \in Decisions, Decide(t, op)
  PROVE  LifeInv'
<1>0. TypeOK /\ order.log \in Seq(Entries) /\ Ordered(order.log)
  BY Facts DEF LifeInv
<1>1. UNCHANGED <<order, pi, refunded>> /\ Active(order.log) # {}
  BY DEF Decide, Decidable
<1>2. ActiveEntry(order.log) = Latest(order.log)
  BY <1>0, <1>1, ActiveEntryIsLatest
<1>3. /\ op = "pause" => Latest(order.log).status = "pending"
      /\ op = "resume" => Latest(order.log).status = "paused"
      /\ op = "cancel" => Latest(order.log).status \in {"pending", "paused"}
  BY <1>2 DEF Decide, Decidable
<1>4. PICK f : Become(t, [Loaded("decide", op) EXCEPT !.fee = f])
  BY DEF Decide
<1>5. "decide" \in Steps /\ op \in Ops
  BY DEF Steps, Ops, Decisions
<1> DEFINE j == [Loaded("decide", op) EXCEPT !.fee = f]
<1>6. /\ Loaded("decide", op) \in Jobs
      /\ Loaded("decide", op).pc = "decide"
      /\ Loaded("decide", op).op = op
      /\ Loaded("decide", op).log = order.log
  BY <1>0, <1>5, LoadedJob
<1>7. j.pc = "decide" /\ j.op = op /\ j.log = order.log
  BY <1>6 DEF Jobs
<1> HIDE DEF j
<1> QED
  BY <1>1, <1>3, <1>4, <1>5, <1>7, LoadLife DEF j, Decisions

LEMMA DecideSaveLife ==
  ASSUME LifeInv, RefundInv', NEW t \in Threads, DecideSave(t)
  PROVE  LifeInv'
<1>1. /\ LastOpen(job[t].log) /\ Decided(t) \in Entries
  BY DecidedEntry DEF DecideSave, LifeInv
<1> QED
  BY <1>1, PatchLife DEF DecideSave

LEMMA OthersLife ==
  ASSUME LifeInv, RefundInv', NEW t \in Threads,
         PauseAll(t) \/ ClientSave(t) \/ Kill(t)
  PROVE  LifeInv'
<1>1. CASE PauseAll(t)
  BY <1>1 DEF PauseAll, LifeInv, CaptureStatusTrue
<1>2. CASE ClientSave(t)
  <2>1. End(t) /\ UNCHANGED <<pi, refunded>> /\ order'.capture = order.capture
    BY <1>2, Facts DEF ClientSave, LifeInv, Orders
  <2> QED
    BY <2>1, SameOnward, EndLife
<1>3. CASE Kill(t)
  BY <1>3, SameOnward, EndLife DEF Kill
<1> QED
  BY <1>1, <1>2, <1>3

LEMMA RejectedLife ==
  ASSUME LifeInv, RefundInv', NEW t \in Threads, RejectSave(t) \/ RejectRefund(t)
  PROVE  LifeInv'
<1>0. /\ order \in Orders /\ job[t] \in Jobs /\ Stage(t, job[t])
      /\ job[t].log \in Seq(Entries)
  BY Facts DEF LifeInv
<1>1. PICK log \in Seq(Entries) : Rejected(t, log)
  <2>1. CASE RejectSave(t)
    BY <1>0, <2>1 DEF RejectSave
  <2>2. CASE RejectRefund(t)
    <3>1. Active(job[t].log) = {}
      BY <1>0, <2>2 DEF RejectRefund, At, Stage, Holding
    <3> QED
      BY <1>0, <2>2, <3>1, AppendedOrdered DEF RejectRefund
  <2> QED
    BY <2>1, <2>2
<1> DEFINE waiting == [Idle EXCEPT !.pc = "load", !.op = "process"]
           doc == [order EXCEPT !.status = "cancelled", !.source = "vendor"]
<1>2. UNCHANGED <<pi, refunded>> /\ \E next \in {Ended(t), waiting} : Save(t, doc, log, next)
  BY <1>1 DEF Rejected
<1>3. PICK next \in {Ended(t), waiting} : Save(t, doc, log, next)
  BY <1>2
<1>4. /\ waiting \in Jobs /\ waiting.pc = "load"
  <2>1. "load" \in Steps /\ "process" \in Ops
    BY DEF Steps, Ops
  <2> QED
    BY <2>1, IdleJob DEF Jobs
<1>5. doc \in Orders /\ doc.log = order.log /\ doc.capture = order.capture
  BY <1>0 DEF Orders
<1> HIDE DEF doc, waiting
<1>6. next \in Jobs /\ ~Holding(next) /\ Progress(next, pi, refunded)
  <2>1. ~Holding(waiting) /\ Progress(waiting, pi, refunded)
    BY <1>4 DEF Holding, Progress
  <2> QED
    BY <1>3, <1>4, <2>1, EndedStage, EndedProgress
<1> QED
  BY <1>2, <1>3, <1>5, <1>6, SaveLife

LEMMA ReadySaveLife ==
  ASSUME LifeInv, RefundInv', NEW t \in Threads, ReadySave(t)
  PROVE  LifeInv'
<1>0. /\ order \in Orders /\ job[t] \in Jobs /\ Stage(t, job[t])
      /\ job[t].log \in Seq(Entries)
  BY Facts DEF LifeInv
<1> DEFINE doc == [order EXCEPT !.status = "approved"]
           next == [job[t] EXCEPT !.pc = "capture_read"]
<1>1. /\ Save(t, doc, job[t].log, next) /\ job[t].op = "ready"
      /\ UNCHANGED <<pi, refunded>>
  BY <1>0 DEF ReadySave, At, Stage
<1>2. doc \in Orders /\ doc.log = order.log /\ doc.capture = order.capture
  BY <1>0 DEF Orders
<1>3. "capture_read" \in Steps
  BY DEF Steps
<1>4. /\ next \in Jobs /\ next.pc = "capture_read" /\ next.op = "ready"
      /\ next.log = job[t].log
  BY <1>0, <1>1, <1>3, GotoJob
<1> HIDE DEF doc, next
<1>5. Progress(next, pi, refunded)
  BY <1>4 DEF Progress
<1>6. [next EXCEPT !.log = job[t].log].pc = "capture_read"
      /\ [next EXCEPT !.log = job[t].log].op = "ready"
  BY <1>4 DEF Jobs
<1>7. Progress([next EXCEPT !.log = job[t].log], pi, refunded)
  BY <1>6 DEF Progress
<1> QED
  BY <1>0, <1>1, <1>2, <1>4, <1>5, <1>7, SaveLife

LEMMA InitLife == Init => LifeInv
<1> SUFFICES ASSUME Init PROVE LifeInv
  OBVIOUS
<1>1. job = [t \in Threads |-> Idle]
  BY DEF Init
<1>2. \A t \in Threads : Progress(job[t], pi, refunded)
  BY <1>1, IdleJob DEF Progress
<1>3. PICK deferred \in BOOLEAN :
        /\ order.capture = IF deferred THEN "authorized" ELSE None
        /\ pi = IF deferred THEN "requires_capture" ELSE "succeeded"
  BY DEF Init
<1>4. CaptureStatusTrue
  BY <1>3, RefundConstants DEF CaptureStatusTrue
<1> QED
  BY <1>2, <1>4, InitRefund DEF LifeInv

LEMMA StepLife == LifeInv /\ [Next]_vars => LifeInv'
<1> SUFFICES ASSUME LifeInv, [Next]_vars PROVE LifeInv'
  OBVIOUS
<1>0. RefundInv'
  BY StepRefund DEF LifeInv
<1>1. CASE UNCHANGED vars
  BY <1>0, <1>1 DEF vars, LifeInv, CaptureStatusTrue
<1>2. ASSUME NEW t \in Threads, Continue(t) PROVE LifeInv'
  BY <1>0, <1>2, OthersLife, RejectedLife, ReleaseLife, ProcessLife,
     ApproveLife, FinishLife, DecideSaveLife, ReadySaveLife, CaptureLife
     DEF Continue
<1>3. ASSUME NEW t \in Threads, Begin(t) PROVE LifeInv'
  BY <1>0, <1>3, LoadsLife, ProcessLife, DecideLife, OthersLife
     DEF Begin, Decisions
<1> QED
  BY <1>0, <1>1, <1>2, <1>3, ProcessLife, OthersLife DEF Next

(* The capture status of the order is what Stripe did, whichever of        *)
(* captureOnOrderReady and the calls of cancelAuthorizationIfUncaptured    *)
(* comes first or stops half way.                                          *)
THEOREM CaptureRecorded == Spec => []CaptureStatusTrue
<1>1. Spec => []LifeInv
  BY InitLife, StepLife, PTL DEF Spec
<1>2. LifeInv => CaptureStatusTrue
  BY DEF LifeInv
<1> QED
  BY <1>1, <1>2, PTL
=============================================================================
