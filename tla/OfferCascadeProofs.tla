------------------------- MODULE OfferCascadeProofs -------------------------
(***************************************************************************)
(* Theorems about OfferCascade for any number of couriers, vendor calls,   *)
(* processes, offers and restarts.                                         *)
(***************************************************************************)
EXTENDS OfferCascade, FiniteSetTheorems, SequenceTheorems, TLAPS

(* What a request holds at the steps that use it without looking.          *)
JobOK(j) ==
  /\ j.pc \notin {"idle", "done"} => j.at \in Procs
  /\ j.pc \in {"next_take", "next_create"} => j.queue \in Handles
  /\ j.pc \in {"next_create", "accept_claim", "accept_clear"} \cup ClaimSteps
       => j.agent \in Agents
  /\ j.pc \in {"decline_claim", "expire_claim"} => j.read \in OfferIds

TypeInv == TypeOK /\ \A t \in Threads : JobOK(job[t])

(* A ranking of a set of couriers is a sequence of them.                   *)
LEMMA RankingType ==
  ASSUME NEW S \in SUBSET Agents, NEW r \in Rankings(S)
  PROVE  r \in Seq(Agents)
<1>1. IsFiniteSet(S)
  BY FS_Subset, ConstantsAssumption
<1>2. Cardinality(S) \in Nat
  BY <1>1, FS_CardinalityType
<1> QED
  BY <1>2 DEF Rankings

LEMMA FreshType ==
  ASSUME FreeIds # {}
  PROVE  Fresh \in OfferIds /\ offers[Fresh].status = "free"
BY DEF Fresh, FreeIds

LEMMA InitType == Init => TypeInv
<1> SUFFICES ASSUME Init PROVE TypeInv
  OBVIOUS
<1>1. TypeOK
  BY ConstantsAssumption DEF Init, TypeOK, Idle, Settled, Steps, OrderStatus,
     OfferStatus, Orders, Rows, Jobs, Settlements
<1>2. \A t \in Threads : JobOK(job[t])
  BY DEF Init, JobOK, Idle, ClaimSteps
<1> QED
  BY <1>1, <1>2 DEF TypeInv

-----------------------------------------------------------------------------
(* The ways a step changes the jobs.                                       *)

JobsOK == job' \in [Threads -> Jobs] /\ \A u \in Threads : JobOK(job'[u])

LEMMA JobStep ==
  ASSUME TypeInv, NEW t \in Threads, NEW j \in Jobs, JobOK(j),
         Become(t, j)
  PROVE  JobsOK
<1>1. job \in [Threads -> Jobs] /\ \A u \in Threads : JobOK(job[u])
  BY DEF TypeInv, TypeOK
<1> QED
  BY <1>1 DEF JobsOK, Become

LEMMA JobsUnchanged == ASSUME TypeInv, UNCHANGED job PROVE JobsOK
BY DEF TypeInv, TypeOK, JobsOK

LEMMA GotoType ==
  ASSUME TypeInv, NEW t \in Threads, NEW label \in Steps, Goto(t, label),
         JobOK([job[t] EXCEPT !.pc = label])
  PROVE  JobsOK
<1> DEFINE j == [job[t] EXCEPT !.pc = label]
<1>1. j \in Jobs
  BY DEF TypeInv, TypeOK, Jobs
<1>2. Become(t, j)
  BY DEF Goto
<1>3. JobOK(j)
  OBVIOUS
<1> HIDE DEF j
<1> QED
  BY <1>1, <1>2, <1>3, JobStep

(* The steps that hold nothing JobOK speaks of.                            *)
FreeSteps == Steps \ ({"next_take", "next_create", "accept_claim",
                       "accept_clear", "decline_claim", "expire_claim"}
                      \cup ClaimSteps)

LEMMA GotoFree ==
  ASSUME TypeInv, NEW t \in Threads, NEW label \in FreeSteps, Goto(t, label),
         job[t].at \in Procs
  PROVE  JobsOK
<1>1. JobOK([job[t] EXCEPT !.pc = label])
  BY DEF TypeInv, TypeOK, Jobs, JobOK, FreeSteps
<1> QED
  BY <1>1, GotoType DEF FreeSteps

LEMMA BeginType ==
  ASSUME NEW p \in Procs, NEW label \in FreeSteps
  PROVE  Begin(p, label) \in Jobs /\ JobOK(Begin(p, label))
BY DEF Begin, Idle, Jobs, JobOK, FreeSteps

LEMMA IdleType == Idle \in Jobs /\ JobOK(Idle)
BY DEF Idle, Jobs, JobOK, Steps, ClaimSteps

LEMMA EndedType ==
  ASSUME NEW t
  PROVE  Ended(t) \in Jobs /\ JobOK(Ended(t))
BY DEF Ended, Idle, Jobs, JobOK, Steps, ClaimSteps

LEMMA ReturnType ==
  ASSUME TypeInv, NEW t \in Threads, job[t].at \in Procs, Return(t)
  PROVE  JobsOK
<1>1. "tell" \in FreeSteps
  BY DEF FreeSteps, Steps, ClaimSteps
<1> DEFINE j == IF t \in VendorCalls THEN Begin(job[t].at, "tell") ELSE Idle
<1>2. j \in Jobs /\ JobOK(j)
  BY <1>1, BeginType, IdleType
<1>3. Become(t, j)
  BY DEF Return
<1> HIDE DEF j
<1> QED
  BY <1>2, <1>3, JobStep

LEMMA RefusedType ==
  ASSUME NEW t, NEW j \in Jobs, j.at \in Procs, NEW why \in Refusals
  PROVE  Refused(t, j, why) \in Jobs /\ JobOK(Refused(t, j, why))
BY DEF Refused, Begin, Idle, Jobs, JobOK, Steps, ClaimSteps

LEMMA CheckedType ==
  ASSUME TypeInv, NEW t, NEW j \in Jobs, j.at \in Procs, j.agent \in Agents
  PROVE  Checked(t, j) \in Jobs /\ JobOK(Checked(t, j))
<1>1. \A why \in {"unavailable", "not_assignable", "mode"} :
        Refused(t, j, why) \in Jobs /\ JobOK(Refused(t, j, why))
  BY RefusedType DEF Refusals
<1>2. \A o \in OfferIds \cup {None} :
        LET k == [j EXCEPT !.pc = "claim_read_active", !.seen = o]
        IN k \in Jobs /\ JobOK(k)
  BY DEF Jobs, JobOK, Steps, ClaimSteps
<1>3. order.activeOffer \in OfferIds \cup {None}
  BY DEF TypeInv, TypeOK, Orders
<1> QED
  BY <1>1, <1>2, <1>3 DEF Checked

LEMMA RowType ==
  ASSUME NEW a \in Agents \cup {None}, NEW s \in OfferStatus
  PROVE  Row(a, s) \in Rows
BY DEF Row, Rows

(* Every write of a status on an existing row.                             *)
LEMMA OneStatusType ==
  ASSUME TypeInv, NEW o, NEW s \in OfferStatus,
         offers' = [offers EXCEPT ![o].status = s]
  PROVE  offers' \in [OfferIds -> Rows]
BY DEF TypeInv, TypeOK, Rows

(* Sweeping the queues that nobody holds keeps them sequences of couriers. *)
LEMMA SweptType ==
  ASSUME NEW q \in [Handles -> Seq(Agents)], queues' = Swept(q)
  PROVE  queues' \in [Handles -> Seq(Agents)]
BY DEF Swept

LEMMA FreshHandleType ==
  ASSUME \E g \in Handles : ~Live(g)
  PROVE  FreshHandle \in Handles
BY DEF FreshHandle

(* A new queue: its handle is free, the thread holds it if it goes on to   *)
(* take from it.                                                           *)
LEMMA EnqueueType ==
  ASSUME TypeInv, NEW t \in Threads, NEW r \in Seq(Agents),
         NEW label \in {"next_read", "next_take"}, Enqueue(t, r, label),
         job[t].at \in Procs
  PROVE  /\ JobsOK
         /\ queues' \in [Handles -> Seq(Agents)]
         /\ cascade' \in [Procs -> Handles \cup {None}]
<1>1. FreshHandle \in Handles
  BY FreshHandleType DEF Enqueue
<1> DEFINE j == [job[t] EXCEPT !.pc = label,
                   !.queue = IF label = "next_take" THEN FreshHandle ELSE None]
<1>2. j \in Jobs /\ JobOK(j)
  <2>1. job[t] \in Jobs /\ label \in Steps
    BY DEF TypeInv, TypeOK, Steps, NextSteps
  <2>2. j \in Jobs /\ j.pc = label /\ j.at = job[t].at
        /\ j.queue = IF label = "next_take" THEN FreshHandle ELSE None
    BY <1>1, <2>1 DEF Jobs
  <2> QED
    BY <1>1, <2>2 DEF JobOK, ClaimSteps
<1>3. Become(t, j)
  BY DEF Enqueue
<1> HIDE DEF j
<1>4. JobsOK
  BY <1>2, <1>3, JobStep
<1>5. [queues EXCEPT ![FreshHandle] = r] \in [Handles -> Seq(Agents)]
  BY DEF TypeInv, TypeOK
<1>6. queues' \in [Handles -> Seq(Agents)]
  BY <1>5, SweptType DEF Enqueue
<1>7. cascade' \in [Procs -> Handles \cup {None}]
  BY <1>1 DEF Enqueue, TypeInv, TypeOK
<1> QED
  BY <1>4, <1>6, <1>7

-----------------------------------------------------------------------------
(* Each action keeps the type invariant.                                   *)

LEMMA EnvironmentType ==
  ASSUME TypeInv,
         \/ \E a \in Agents : Toggle(a)
         \/ \E o \in OfferIds : Tick(o)
         \/ \E p \in Procs : Crash(p)
  PROVE  TypeInv'
<1>1. ASSUME NEW a \in Agents, Toggle(a) PROVE TypeInv'
  BY <1>1, JobsUnchanged DEF TypeInv, TypeOK, JobsOK, Toggle
<1>2. ASSUME NEW o \in OfferIds, Tick(o) PROVE TypeInv'
  BY <1>2, JobsUnchanged DEF TypeInv, TypeOK, JobsOK, Tick, Rows
<1>3. ASSUME NEW p \in Procs, Crash(p) PROVE TypeInv'
  <2>1. JobsOK
    BY <1>3, EndedType DEF Crash, JobsOK, TypeInv, TypeOK
  <2>2. settle' \in [Agents -> Settlements]
    BY <1>3 DEF Crash, TypeInv, TypeOK, Settlements, Settled
  <2>3. crashes' \in 0..MaxCrashes
    BY <1>3, ConstantsAssumption DEF Crash, TypeInv, TypeOK
  <2>4. queues' \in [Handles -> Seq(Agents)]
    BY <1>3, SweptType DEF Crash, TypeInv, TypeOK
  <2>5. orphans' \subseteq OfferIds
    BY <1>3 DEF Crash, TypeInv, TypeOK
  <2>6. cascade' \in [Procs -> Handles \cup {None}]
    BY <1>3 DEF Crash, TypeInv, TypeOK
  <2> QED
    BY <1>3, <2>1, <2>2, <2>3, <2>4, <2>5, <2>6
       DEF Crash, TypeInv, TypeOK, JobsOK
<1> QED
  BY <1>1, <1>2, <1>3

LEMMA VendorType ==
  ASSUME TypeInv, NEW v \in VendorCalls,
         \/ VendorStep(v)
         \/ \E p \in Procs : MarkReadyRead(v, p) \/ RejectOrderRead(v, p)
  PROVE  TypeInv'
<1>1. v \in Threads
  BY DEF Threads
<1>2. {"ready_save", "reject_save", "hard_rank", "start_cancel", "start_clear",
       "start_rank", "tell", "exhaust", "next_read"} \subseteq FreeSteps
  BY DEF FreeSteps, Steps, ClaimSteps, NextSteps
<1>3. JobOK(job[v])
  BY <1>1 DEF TypeInv
<1>4. ASSUME NEW p \in Procs, MarkReadyRead(v, p) \/ RejectOrderRead(v, p)
      PROVE  TypeInv'
  <2>1. JobsOK
    BY <1>1, <1>2, <1>4, BeginType, JobStep DEF MarkReadyRead, RejectOrderRead
  <2> QED
    BY <1>4, <2>1 DEF MarkReadyRead, RejectOrderRead, TypeInv, TypeOK, JobsOK
<1>5. CASE MarkReadySave(v)
  <2>1. PICK label \in FreeSteps : Goto(v, label)
    BY <1>2, <1>5 DEF MarkReadySave
  <2>2. JobsOK
    BY <1>3, <1>1, <1>5, <2>1, GotoFree DEF MarkReadySave, At, JobOK
  <2> QED
    BY <1>5, <2>2 DEF MarkReadySave, TypeInv, TypeOK, JobsOK, Orders, OrderStatus
<1>6. CASE RejectOrderSave(v)
  <2>1. JobsOK
    BY <1>1, <1>6, EndedType, JobStep DEF RejectOrderSave
  <2> QED
    BY <1>6, <2>1 DEF RejectOrderSave, TypeInv, TypeOK, JobsOK, Orders, OrderStatus
<1>7. CASE HardRank(v)
  <2>1. ASSUME NEW a \in Ready,
               Become(v, [job[v] EXCEPT !.pc = "claim_check", !.agent = a])
        PROVE  JobsOK
    <3> DEFINE j == [job[v] EXCEPT !.pc = "claim_check", !.agent = a]
    <3>1. job[v] \in Jobs /\ "claim_check" \in Steps /\ a \in Agents
      BY <1>1 DEF TypeInv, TypeOK, Steps, ClaimSteps, Ready
    <3>2. j \in Jobs /\ j.pc = "claim_check" /\ j.agent = a
          /\ j.at = job[v].at
      BY <3>1 DEF Jobs
    <3>3. Become(v, j)
      BY <2>1
    <3> HIDE DEF j
    <3>4. JobOK(j)
      BY <1>3, <1>7, <3>1, <3>2 DEF JobOK, HardRank, At
    <3> QED
      BY <1>1, <3>2, <3>3, <3>4, JobStep
  <2>2. JobsOK
    BY <1>3, <1>1, <1>2, <1>7, <2>1, GotoFree DEF HardRank, At, JobOK
  <2> QED
    BY <1>7, <2>2 DEF HardRank, TypeInv, TypeOK, JobsOK
<1>8. CASE StartCancel(v)
  <2>1. JobsOK
    BY <1>3, <1>1, <1>2, <1>8, GotoFree DEF StartCancel, At, JobOK
  <2>2. offers' \in [OfferIds -> Rows]
    BY <1>8 DEF StartCancel, ResolvePending, TypeInv, TypeOK, Rows, OfferStatus
  <2> QED
    BY <1>8, <2>1, <2>2 DEF StartCancel, TypeInv, TypeOK, JobsOK
<1>9. CASE StartClear(v)
  <2>1. JobsOK
    BY <1>3, <1>1, <1>2, <1>9, GotoFree DEF StartClear, At, JobOK
  <2>2. queues' \in [Handles -> Seq(Agents)]
    BY <1>9, SweptType DEF StartClear, TypeInv, TypeOK
  <2> QED
    BY <1>9, <2>1, <2>2 DEF StartClear, TypeInv, TypeOK, JobsOK, Orders
<1>10. CASE StartRank(v)
  <2>1. CASE Ready = {}
    <3>1. JobsOK
      BY <1>3, <1>1, <1>2, <1>10, <2>1, GotoFree DEF StartRank, At, JobOK
    <3> QED
      BY <1>10, <2>1, <3>1 DEF StartRank, TypeInv, TypeOK, JobsOK
  <2>2. CASE Ready # {}
    <3>1. PICK r \in Rankings(Ready) : Enqueue(v, r, "next_read")
      BY <1>10, <2>2 DEF StartRank
    <3>2. r \in Seq(Agents)
      BY RankingType DEF Ready
    <3>3. JobsOK /\ queues' \in [Handles -> Seq(Agents)]
                 /\ cascade' \in [Procs -> Handles \cup {None}]
      BY <1>3, <1>1, <1>10, <3>1, <3>2, EnqueueType DEF StartRank, At, JobOK
    <3> QED
      BY <1>10, <3>3 DEF StartRank, TypeInv, TypeOK, JobsOK
  <2> QED
    BY <2>1, <2>2
<1> QED
  BY <1>4, <1>5, <1>6, <1>7, <1>8, <1>9, <1>10 DEF VendorStep

LEMMA CascadeType ==
  ASSUME TypeInv, NEW t \in Threads,
         \/ NextRead(t) \/ NextRebuild(t) \/ NextTake(t) \/ NextCreate(t)
         \/ NextPublish(t) \/ Exhaust(t) \/ ExhaustTell(t) \/ Tell(t)
  PROVE  TypeInv'
<1>1. job[t] \in Jobs /\ JobOK(job[t])
  BY DEF TypeInv, TypeOK
<1>2. {"exhaust", "exhaust_tell", "next_rebuild", "next_publish", "next_take",
       "next_create"} \subseteq Steps
  BY DEF Steps, NextSteps
<1>3. job[t].at \in Procs
  BY <1>1 DEF JobOK, At, NextRead, NextRebuild, NextTake, NextCreate,
     NextPublish, Exhaust, ExhaustTell, Tell
<1>4. CASE NextRead(t)
  <2> DEFINE h == cascade[job[t].at]
             j == [job[t] EXCEPT
                    !.pc = IF h = None THEN "next_rebuild" ELSE "next_take",
                    !.queue = h]
  <2>1. CASE order.status # "approved" \/ order.courier # None
    <3>1. JobsOK
      BY <1>4, <1>3, <2>1, ReturnType DEF NextRead
    <3> QED
      BY <1>4, <3>1, SweptType DEF NextRead, TypeInv, TypeOK, JobsOK
  <2>2. CASE ~(order.status # "approved" \/ order.courier # None)
    <3>1. h \in Handles \cup {None}
      BY <1>3 DEF TypeInv, TypeOK
    <3>2. j \in Jobs /\ j.queue = h /\ j.at = job[t].at
          /\ j.pc = IF h = None THEN "next_rebuild" ELSE "next_take"
      BY <1>1, <1>2, <3>1 DEF Jobs
    <3>3. Become(t, j)
      BY <1>4, <2>2 DEF NextRead
    <3> HIDE DEF j
    <3>4. JobOK(j)
      BY <1>3, <3>1, <3>2 DEF JobOK, ClaimSteps
    <3>5. JobsOK
      BY <3>2, <3>3, <3>4, JobStep
    <3> QED
      BY <1>4, <3>5, SweptType DEF NextRead, TypeInv, TypeOK, JobsOK
  <2> QED
    BY <2>1, <2>2
<1>5. CASE NextRebuild(t)
  <2>1. CASE Ready \ Asked = {}
    <3>1. JobsOK
      BY <1>2, <1>5, <1>3, <2>1, GotoFree DEF NextRebuild, FreeSteps, ClaimSteps
    <3> QED
      BY <1>5, <2>1, <3>1 DEF NextRebuild, TypeInv, TypeOK, JobsOK
  <2>2. CASE Ready \ Asked # {}
    <3>1. PICK r \in Rankings(Ready \ Asked) : Enqueue(t, r, "next_take")
      BY <1>5, <2>2 DEF NextRebuild
    <3>2. r \in Seq(Agents)
      BY RankingType DEF Ready
    <3>3. JobsOK /\ queues' \in [Handles -> Seq(Agents)]
                 /\ cascade' \in [Procs -> Handles \cup {None}]
      BY <1>3, <3>1, <3>2, EnqueueType
    <3> QED
      BY <1>5, <3>3 DEF NextRebuild, TypeInv, TypeOK, JobsOK
  <2> QED
    BY <2>1, <2>2
<1>6. CASE NextTake(t)
  <2> DEFINE h == job[t].queue
             a == Head(queues[h])
  <2>1. h \in Handles
    BY <1>1, <1>6 DEF NextTake, At, JobOK
  <2>2. queues[h] \in Seq(Agents)
    BY <2>1 DEF TypeInv, TypeOK
  <2>3. CASE queues[h] = <<>>
    <3> DEFINE j == [job[t] EXCEPT !.pc = "exhaust", !.queue = None]
    <3>1. j \in Jobs /\ j.pc = "exhaust" /\ j.at = job[t].at
      BY <1>1, <1>2 DEF Jobs
    <3>2. Become(t, j) /\ queues' = Swept(queues) /\ UNCHANGED offers
      BY <1>6, <2>3 DEF NextTake
    <3> HIDE DEF j
    <3>3. JobOK(j)
      BY <1>3, <3>1 DEF JobOK, ClaimSteps
    <3>4. JobsOK
      BY <3>1, <3>2, <3>3, JobStep
    <3> QED
      BY <1>6, <3>2, <3>4, SweptType DEF NextTake, TypeInv, TypeOK, JobsOK
  <2>4. CASE queues[h] # <<>>
    <3>1. a \in Agents /\ Tail(queues[h]) \in Seq(Agents)
      BY <2>2, <2>4, HeadTailProperties
    <3>2. queues' = [queues EXCEPT ![h] = Tail(@)]
      BY <1>6, <2>4 DEF NextTake
    <3>3. queues' \in [Handles -> Seq(Agents)]
      BY <2>1, <3>1, <3>2 DEF TypeInv, TypeOK
    <3>4. CASE available[a]
      <4> DEFINE j == [job[t] EXCEPT !.pc = "next_create", !.agent = a]
      <4>1. /\ j \in Jobs /\ j.pc = "next_create"
            /\ j.queue = h /\ j.at = job[t].at /\ j.agent = a
        BY <1>1, <1>2, <3>1 DEF Jobs
      <4>2. Become(t, j) /\ UNCHANGED offers
        BY <1>6, <2>4, <3>4 DEF NextTake
      <4> HIDE DEF j
      <4>3. JobOK(j)
        BY <1>3, <2>1, <3>1, <4>1 DEF JobOK, ClaimSteps
      <4>4. JobsOK
        BY <4>1, <4>2, <4>3, JobStep
      <4> QED
        BY <1>6, <3>3, <4>2, <4>4 DEF NextTake, TypeInv, TypeOK, JobsOK
    <3>5. CASE ~available[a]
      <4>1. offers' = [offers EXCEPT ![Fresh] = Row(a, "skipped")] /\ UNCHANGED job
        BY <1>6, <2>4, <3>5 DEF NextTake
      <4>2. Row(a, "skipped") \in Rows
        BY <3>1, RowType DEF OfferStatus
      <4>3. offers' \in [OfferIds -> Rows]
        BY <4>1, <4>2 DEF TypeInv, TypeOK
      <4>4. JobsOK
        BY <4>1, JobsUnchanged
      <4> QED
        BY <1>6, <3>3, <4>3, <4>4 DEF NextTake, TypeInv, TypeOK, JobsOK
    <3> QED
      BY <3>4, <3>5
  <2> QED
    BY <2>3, <2>4
<1>7. CASE NextCreate(t)
  <2>1. CASE ~MayInsert
    <3> DEFINE j == [job[t] EXCEPT !.pc = "next_take", !.agent = None]
    <3>1. j \in Jobs /\ j.pc = "next_take" /\ j.queue = job[t].queue
          /\ j.at = job[t].at
      BY <1>1, <1>2 DEF Jobs
    <3>2. Become(t, j) /\ UNCHANGED <<offers, queues>>
      BY <1>7, <2>1 DEF NextCreate
    <3> HIDE DEF j
    <3>3. JobOK(j)
      BY <1>1, <1>7, <1>3, <3>1 DEF JobOK, ClaimSteps, NextCreate, At
    <3>4. JobsOK
      BY <3>1, <3>2, <3>3, JobStep
    <3> QED
      BY <1>7, <3>2, <3>4 DEF NextCreate, TypeInv, TypeOK, JobsOK
  <2>2. CASE MayInsert
    <3> DEFINE j == [job[t] EXCEPT !.pc = "next_publish", !.agent = None,
                                   !.offer = Fresh, !.queue = None]
    <3>1. Fresh \in OfferIds
      BY <1>7, <2>2, FreshType DEF NextCreate
    <3>2. j \in Jobs /\ j.pc = "next_publish" /\ j.at = job[t].at
      BY <1>1, <1>2, <3>1 DEF Jobs
    <3>3. Become(t, j)
      BY <1>7, <2>2 DEF NextCreate
    <3>4. offers' = [offers EXCEPT ![Fresh] = Row(job[t].agent, "pending")]
          /\ queues' = Swept(queues)
      BY <1>7, <2>2 DEF NextCreate
    <3> HIDE DEF j
    <3>5. JobsOK
      BY <1>3, <3>2, <3>3, JobStep DEF JobOK, ClaimSteps
    <3>6. Row(job[t].agent, "pending") \in Rows
      BY <1>1, RowType DEF Jobs, OfferStatus
    <3>7. offers' \in [OfferIds -> Rows]
      BY <3>4, <3>6 DEF TypeInv, TypeOK
    <3> QED
      BY <1>7, <3>4, <3>5, <3>7, SweptType DEF NextCreate, TypeInv, TypeOK, JobsOK
  <2> QED
    BY <2>1, <2>2
<1>8. CASE NextPublish(t)
  <2>1. JobsOK
    BY <1>8, <1>3, ReturnType DEF NextPublish
  <2>2. order' \in Orders
    BY <1>1, <1>8 DEF NextPublish, TypeInv, TypeOK, Orders, Jobs
  <2> QED
    BY <1>8, <2>1, <2>2 DEF NextPublish, TypeInv, TypeOK, JobsOK
<1>9. CASE Exhaust(t)
  <2>1. JobsOK
    BY <1>2, <1>9, <1>3, GotoFree DEF Exhaust, FreeSteps, ClaimSteps
  <2> QED
    BY <1>9, <2>1, SweptType DEF Exhaust, TypeInv, TypeOK, JobsOK, Orders
<1>10. CASE ExhaustTell(t)
  <2>1. JobsOK
    BY <1>10, <1>3, ReturnType DEF ExhaustTell
  <2> QED
    BY <1>10, <2>1 DEF ExhaustTell, Claimable, TypeInv, TypeOK, JobsOK
<1>11. CASE Tell(t)
  <2>1. JobsOK
    BY <1>11, EndedType, JobStep DEF Tell
  <2> QED
    BY <1>11, <2>1 DEF Tell, Claimable, TypeInv, TypeOK, JobsOK
<1> QED
  BY <1>4, <1>5, <1>6, <1>7, <1>8, <1>9, <1>10, <1>11

LEMMA ClaimType ==
  ASSUME TypeInv, NEW t \in Threads,
         \/ ClaimCheck(t) \/ ClaimReadActive(t) \/ ClaimReadOffer(t)
         \/ ClaimWrite(t)
  PROVE  TypeInv'
<1>1. job[t] \in Jobs /\ job[t].at \in Procs /\ job[t].agent \in Agents
  BY DEF TypeInv, TypeOK, JobOK, ClaimSteps, At, ClaimCheck, ClaimReadActive,
     ClaimReadOffer, ClaimWrite
<1>2. "claim_write" \in Steps /\ "claim_read_offer" \in Steps
  BY DEF Steps, ClaimSteps
<1>3. ASSUME NEW why \in Refusals, Refuse(t, why) PROVE JobsOK
  BY <1>1, <1>3, RefusedType, JobStep DEF Refuse
<1>4. CASE ClaimCheck(t)
  <2>1. JobsOK
    BY <1>1, <1>4, CheckedType, JobStep DEF ClaimCheck
  <2> QED
    BY <1>4, <2>1 DEF ClaimCheck, TypeInv, TypeOK, JobsOK
<1>5. CASE ClaimReadActive(t)
  <2> DEFINE o == order.activeOffer
             j == [job[t] EXCEPT
                    !.pc = IF o = None THEN "claim_write" ELSE "claim_read_offer",
                    !.read = o]
  <2>1. o \in OfferIds \cup {None}
    BY DEF TypeInv, TypeOK, Orders
  <2>2. j \in Jobs /\ j.pc \in {"claim_write", "claim_read_offer"}
        /\ j.at = job[t].at /\ j.agent = job[t].agent
    BY <1>1, <1>2, <2>1 DEF Jobs
  <2>3. Become(t, j)
    BY <1>5 DEF ClaimReadActive
  <2> HIDE DEF j
  <2>4. JobsOK
    BY <1>1, <2>2, <2>3, JobStep DEF JobOK
  <2> QED
    BY <1>5, <2>4 DEF ClaimReadActive, TypeInv, TypeOK, JobsOK
<1>6. CASE ClaimReadOffer(t)
  <2> DEFINE j == [job[t] EXCEPT !.pc = "claim_write", !.read = None]
  <2>1. j \in Jobs /\ j.pc = "claim_write" /\ j.at = job[t].at
        /\ j.agent = job[t].agent
    BY <1>1, <1>2 DEF Jobs
  <2>2. Refuse(t, "exclusive") \/ Become(t, j)
    BY <1>6 DEF ClaimReadOffer
  <2> HIDE DEF j
  <2>3. JobsOK
    BY <1>1, <1>3, <2>1, <2>2, JobStep DEF JobOK, Refusals
  <2> QED
    BY <1>6, <2>3 DEF ClaimReadOffer, TypeInv, TypeOK, JobsOK
<1>7. CASE ClaimWrite(t)
  <2> DEFINE a == job[t].agent
             wins == Unclaimed \/ (order.status = "shipped" /\ order.courier = a)
  <2>1. CASE wins
    <3>1. /\ order' = [order EXCEPT !.status = "shipped", !.courier = a]
          /\ settle' = [settle EXCEPT ![a] = [pc |-> "match", at |-> job[t].at]]
          /\ won' = won \cup {a}
          /\ Return(t)
      BY <1>7, <2>1 DEF ClaimWrite
    <3>2. JobsOK
      BY <1>1, <3>1, ReturnType
    <3>3. order' \in Orders
      BY <1>1, <3>1 DEF TypeInv, TypeOK, Orders, OrderStatus
    <3>4. settle' \in [Agents -> Settlements]
      BY <1>1, <3>1 DEF TypeInv, TypeOK, Settlements
    <3> QED
      BY <1>1, <1>7, <3>1, <3>2, <3>3, <3>4 DEF ClaimWrite, TypeInv, TypeOK, JobsOK
  <2>2. CASE ~wins
    <3>1. Refuse(t, "lost") /\ UNCHANGED <<order, settle, won>>
      BY <1>7, <2>2 DEF ClaimWrite
    <3>2. JobsOK
      BY <1>3, <3>1 DEF Refusals
    <3> QED
      BY <1>7, <3>1, <3>2 DEF ClaimWrite, TypeInv, TypeOK, JobsOK
  <2> QED
    BY <2>1, <2>2
<1> QED
  BY <1>4, <1>5, <1>6, <1>7

LEMMA CourierType ==
  ASSUME TypeInv, NEW a \in Agents,
         CourierStep(a) \/ \E p \in Procs : CourierRequest(a, p)
  PROVE  TypeInv'
<1>1. a \in Threads /\ job[a] \in Jobs /\ JobOK(job[a])
  BY DEF Threads, TypeInv, TypeOK
<1>2. /\ {"accept_undo", "decline_clear", "next_read", "abandon_save", "tell"}
           \subseteq FreeSteps
      /\ {"accept_claim", "accept_clear", "decline_claim", "claim_check"}
           \subseteq Steps
      /\ {"accepted", "rejected", "cancelled"} \subseteq OfferStatus
  BY DEF FreeSteps, Steps, ClaimSteps, NextSteps, OfferStatus
<1>3. ASSUME NEW p \in Procs, NEW o \in OfferIds,
             AcceptLoad(a, o, p) \/ DeclineLoad(a, o, p)
      PROVE  TypeInv'
  <2> DEFINE j == [Begin(p, "accept_claim") EXCEPT !.agent = a, !.offer = o]
             k == [Begin(p, "decline_claim") EXCEPT !.read = o]
  <2>1. j \in Jobs /\ JobOK(j)
    BY <1>2 DEF Begin, Idle, Jobs, JobOK
  <2>2. k \in Jobs /\ JobOK(k)
    BY <1>2 DEF Begin, Idle, Jobs, JobOK, ClaimSteps
  <2>3. Become(a, j) \/ Become(a, k)
    BY <1>3 DEF AcceptLoad, DeclineLoad
  <2> HIDE DEF j, k
  <2>4. JobsOK
    BY <1>1, <2>1, <2>2, <2>3, JobStep
  <2> QED
    BY <1>3, <2>4 DEF AcceptLoad, DeclineLoad, TypeInv, TypeOK, JobsOK
<1>4. ASSUME NEW p \in Procs, ClaimBegin(a, p) PROVE TypeInv'
  <2> DEFINE j == [Begin(p, "claim_check") EXCEPT !.agent = a]
  <2>1. j \in Jobs /\ j.at \in Procs /\ j.agent \in Agents
    BY <1>2 DEF Begin, Idle, Jobs
  <2>2. Become(a, Checked(a, j))
    BY <1>4 DEF ClaimBegin
  <2> HIDE DEF j
  <2>3. JobsOK
    BY <1>1, <2>1, <2>2, CheckedType, JobStep
  <2> QED
    BY <1>4, <2>3 DEF ClaimBegin, TypeInv, TypeOK, JobsOK
<1>5. ASSUME NEW p \in Procs, AbandonRead(a, p) PROVE TypeInv'
  <2>1. JobsOK
    BY <1>1, <1>2, <1>5, BeginType, JobStep DEF AbandonRead
  <2> QED
    BY <1>5, <2>1 DEF AbandonRead, TypeInv, TypeOK, JobsOK
<1>6. CASE AcceptClaim(a)
  <2>1. job[a].at \in Procs /\ job[a].agent \in Agents
    BY <1>1, <1>6 DEF AcceptClaim, At, JobOK
  <2> DEFINE j == [job[a] EXCEPT !.pc = "accept_clear"]
  <2>2. j \in Jobs /\ JobOK(j)
    BY <1>1, <1>2, <2>1 DEF Jobs, JobOK
  <2>3. ASSUME Goto(a, "accept_clear") PROVE JobsOK
    BY <1>1, <1>2, <2>2, <2>3, GotoType
  <2>4. JobsOK
    BY <1>1, <1>6, <2>1, <2>3, ReturnType DEF AcceptClaim
  <2>5. offers' \in [OfferIds -> Rows]
    BY <1>2, <1>6, OneStatusType DEF AcceptClaim, TypeInv, TypeOK
  <2> QED
    BY <1>6, <2>4, <2>5 DEF AcceptClaim, TypeInv, TypeOK, JobsOK
<1>7. CASE AcceptClear(a)
  <2>1. job[a].at \in Procs /\ job[a].agent \in Agents
    BY <1>1, <1>7 DEF AcceptClear, At, JobOK
  <2>2. JobOK([job[a] EXCEPT !.pc = "claim_check"])
    BY <1>1, <2>1 DEF Jobs, JobOK
  <2>3. JobsOK
    BY <1>1, <1>2, <1>7, <2>2, GotoType DEF AcceptClear
  <2> QED
    BY <1>7, <2>3, SweptType DEF AcceptClear, TypeInv, TypeOK, JobsOK, Orders
<1>8. CASE AcceptUndo(a)
  <2>1. JobsOK
    BY <1>1, <1>8, ReturnType DEF AcceptUndo, At, JobOK
  <2>2. offers' \in [OfferIds -> Rows]
    BY <1>2, <1>8, OneStatusType DEF AcceptUndo
  <2> QED
    BY <1>8, <2>1, <2>2 DEF AcceptUndo, TypeInv, TypeOK, JobsOK
<1>9. CASE DeclineClaim(a)
  <2>1. job[a].at \in Procs
    BY <1>1, <1>9 DEF DeclineClaim, At, JobOK
  <2>2. JobsOK
    BY <1>1, <1>2, <1>9, <2>1, ReturnType, GotoFree DEF DeclineClaim
  <2>3. offers' \in [OfferIds -> Rows]
    BY <1>2, <1>9, OneStatusType DEF DeclineClaim, TypeInv, TypeOK
  <2> QED
    BY <1>9, <2>2, <2>3 DEF DeclineClaim, TypeInv, TypeOK, JobsOK
<1>10. CASE DeclineClear(a)
  <2>1. job[a].at \in Procs
    BY <1>1, <1>10 DEF DeclineClear, At, JobOK
  <2>2. JobsOK
    BY <1>1, <1>2, <1>10, <2>1, BeginType, JobStep DEF DeclineClear
  <2> QED
    BY <1>10, <2>2 DEF DeclineClear, TypeInv, TypeOK, JobsOK, Orders
<1>11. CASE AbandonSave(a)
  <2>1. job[a].at \in Procs
    BY <1>1, <1>11 DEF AbandonSave, At, JobOK
  <2>2. JobsOK
    BY <1>1, <1>2, <1>11, <2>1, GotoFree DEF AbandonSave
  <2> QED
    BY <1>11, <2>2 DEF AbandonSave, TypeInv, TypeOK, JobsOK, Orders, OrderStatus
<1> QED
  BY <1>3, <1>4, <1>5, <1>6, <1>7, <1>8, <1>9, <1>10, <1>11
     DEF CourierStep, CourierRequest

LEMMA CronType ==
  ASSUME TypeInv, NEW p \in Procs, CronStep(p)
  PROVE  TypeInv'
<1>1. p \in Threads /\ job[p] \in Jobs /\ JobOK(job[p])
  BY DEF Threads, TypeInv, TypeOK
<1>2. /\ {"expire_clear", "next_read"} \subseteq FreeSteps
      /\ "expire_claim" \in Steps
      /\ "expired" \in OfferStatus
  BY DEF FreeSteps, Steps, ClaimSteps, NextSteps, OfferStatus
<1>3. CASE ExpireFind(p)
  <2>1. PICK o \in OfferIds :
          Become(p, [Begin(p, "expire_claim") EXCEPT !.read = o])
    BY <1>3 DEF ExpireFind
  <2> DEFINE j == [Begin(p, "expire_claim") EXCEPT !.read = o]
  <2>2. j \in Jobs /\ JobOK(j)
    BY <1>2 DEF Begin, Idle, Jobs, JobOK, ClaimSteps
  <2> HIDE DEF j
  <2>3. JobsOK
    BY <1>1, <2>1, <2>2, JobStep DEF j
  <2> QED
    BY <1>3, <2>3 DEF ExpireFind, TypeInv, TypeOK, JobsOK
<1>4. CASE ExpireClaim(p)
  <2>1. job[p].at \in Procs
    BY <1>1, <1>4 DEF ExpireClaim, At, JobOK
  <2>2. JobsOK
    BY <1>1, <1>2, <1>4, <2>1, ReturnType, GotoFree DEF ExpireClaim
  <2>3. offers' \in [OfferIds -> Rows]
    BY <1>2, <1>4, OneStatusType DEF ExpireClaim, TypeInv, TypeOK
  <2> QED
    BY <1>4, <2>2, <2>3 DEF ExpireClaim, TypeInv, TypeOK, JobsOK
<1>5. CASE ExpireClear(p)
  <2>1. JobsOK
    BY <1>1, <1>2, <1>5, BeginType, JobStep DEF ExpireClear
  <2>2. order' \in Orders
    BY <1>5 DEF ExpireClear, TypeInv, TypeOK, Orders
  <2> QED
    BY <1>5, <2>1, <2>2 DEF ExpireClear, TypeInv, TypeOK, JobsOK
<1> QED
  BY <1>3, <1>4, <1>5 DEF CronStep

LEMMA SettleType ==
  ASSUME TypeInv, NEW a \in Agents, SettleStep(a)
  PROVE  TypeInv'
<1>1. CASE SettleMatch(a)
  <2>1. JobsOK
    BY <1>1, JobsUnchanged DEF SettleMatch
  <2>2. offers' \in [OfferIds -> Rows]
    BY <1>1 DEF SettleMatch, TypeInv, TypeOK, Rows, OfferStatus
  <2>3. settle' \in [Agents -> Settlements]
    <3>1. settle' = [settle EXCEPT ![a].pc = "clear"]
          \/ settle' = [settle EXCEPT ![a] = Settled]
      BY <1>1 DEF SettleMatch
    <3>2. settle \in [Agents -> Settlements]
      BY DEF TypeInv, TypeOK
    <3> QED
      BY <3>1, <3>2 DEF Settlements, Settled
  <2> QED
    BY <1>1, <2>1, <2>2, <2>3 DEF SettleMatch, TypeInv, TypeOK, JobsOK
<1>2. CASE SettleClear(a)
  <2>1. JobsOK
    BY <1>2, JobsUnchanged DEF SettleClear
  <2>2. settle' \in [Agents -> Settlements]
    BY <1>2 DEF SettleClear, TypeInv, TypeOK, Settlements
  <2> QED
    BY <1>2, <2>1, <2>2, SweptType DEF SettleClear, TypeInv, TypeOK, JobsOK, Orders
<1>3. CASE SettleCancel(a)
  <2>1. JobsOK
    BY <1>3, JobsUnchanged DEF SettleCancel
  <2>2. offers' \in [OfferIds -> Rows]
    BY <1>3 DEF SettleCancel, ResolvePending, TypeInv, TypeOK, Rows, OfferStatus
  <2>3. settle' \in [Agents -> Settlements]
    BY <1>3 DEF SettleCancel, TypeInv, TypeOK, Settlements, Settled
  <2> QED
    BY <1>3, <2>1, <2>2, <2>3 DEF SettleCancel, TypeInv, TypeOK, JobsOK
<1> QED
  BY <1>1, <1>2, <1>3 DEF SettleStep

LEMMA StepType == TypeInv /\ [Next]_vars => TypeInv'
<1> SUFFICES ASSUME TypeInv, [Next]_vars PROVE TypeInv'
  OBVIOUS
<1>1. CASE UNCHANGED vars
  BY <1>1 DEF vars, TypeInv, TypeOK
<1>2. CASE Next
  BY <1>2, EnvironmentType, VendorType, CascadeType, ClaimType, CourierType,
     CronType, SettleType DEF Next, Continue
<1> QED
  BY <1>1, <1>2

(* Every reachable state of the assignment is well typed: a call never     *)
(* uses a queue, an offer or a courier it does not hold, and the order and *)
(* the rows only refer to each other's identities.                         *)
THEOREM TypeCorrect == Spec => []TypeOK
<1>1. Spec => []TypeInv
  BY InitType, StepType, PTL DEF Spec
<1>2. TypeInv => TypeOK
  BY DEF TypeInv
<1> QED
  BY <1>1, <1>2, PTL

-----------------------------------------------------------------------------
(* One pending offer.                                                      *)

(* The rows change in one of three ways: rows leave "pending", a free row  *)
(* is skipped, or a courier gets a pending row when no other row is.       *)
NoneBecomesPending ==
  \A o \in OfferIds :
    Pending(o)' => Pending(o) /\ offers'[o].agent = offers[o].agent

LEMMA StatusesMove ==
  ASSUME TypeInv, Next
  PROVE  \/ NoneBecomesPending
         \/ \E t \in Threads : NextCreate(t) /\ MayInsert
<1>1. ASSUME UNCHANGED offers PROVE NoneBecomesPending
  BY <1>1 DEF NoneBecomesPending, Pending
<1>2. ASSUME NEW o, NEW s \in OfferStatus \ {"pending"},
             offers' = [offers EXCEPT ![o].status = s]
      PROVE  NoneBecomesPending
  BY <1>2 DEF NoneBecomesPending, Pending, TypeInv, TypeOK, Rows
<1>3. {"accepted", "cancelled", "rejected", "expired"}
        \subseteq OfferStatus \ {"pending"}
  BY DEF OfferStatus
<1>4. ASSUME NEW t \in Threads, NextTake(t) PROVE NoneBecomesPending
  <2>1. \/ UNCHANGED offers
        \/ \E a : offers' = [offers EXCEPT ![Fresh] = Row(a, "skipped")]
    BY <1>4 DEF NextTake
  <2> QED
    BY <1>1, <2>1 DEF NoneBecomesPending, Pending, TypeInv, TypeOK, Row
<1>5. ASSUME NEW t \in Threads, Continue(t)
      PROVE  NoneBecomesPending \/ (NextCreate(t) /\ MayInsert)
  <2>1. NextTake(t) \/ NextCreate(t) \/ UNCHANGED offers
    BY <1>5 DEF Continue, NextRead, NextRebuild, NextPublish, Exhaust,
       ExhaustTell, Tell, ClaimCheck, ClaimReadActive, ClaimReadOffer, ClaimWrite
  <2>2. NextCreate(t) /\ ~MayInsert => UNCHANGED offers
    BY DEF NextCreate
  <2> QED
    BY <1>1, <1>4, <2>1, <2>2
<1>6. ASSUME NEW v \in VendorCalls,
             \/ VendorStep(v)
             \/ \E p \in Procs : MarkReadyRead(v, p) \/ RejectOrderRead(v, p)
      PROVE  NoneBecomesPending
  <2>1. UNCHANGED offers \/ ResolvePending("cancelled")
    BY <1>6 DEF VendorStep, MarkReadyRead, RejectOrderRead, MarkReadySave,
       RejectOrderSave, HardRank, StartCancel, StartClear, StartRank
  <2>2. ResolvePending("cancelled") => NoneBecomesPending
    BY DEF ResolvePending, NoneBecomesPending, Pending, TypeInv, TypeOK, Rows
  <2> QED
    BY <1>1, <2>1, <2>2
<1>7. ASSUME NEW a \in Agents,
             CourierStep(a) \/ Toggle(a) \/ \E p \in Procs : CourierRequest(a, p)
      PROVE  NoneBecomesPending
  <2>1. \/ UNCHANGED offers
        \/ \E o, s : /\ s \in {"accepted", "cancelled", "rejected"}
                     /\ offers' = [offers EXCEPT ![o].status = s]
    BY <1>7 DEF CourierStep, CourierRequest, Toggle, AcceptLoad, DeclineLoad,
       ClaimBegin, AbandonRead, AcceptClaim, AcceptClear, AcceptUndo,
       DeclineClaim, DeclineClear, AbandonSave
  <2> QED
    BY <1>1, <1>2, <1>3, <2>1
<1>8. ASSUME NEW a \in Agents, SettleStep(a) PROVE NoneBecomesPending
  <2>1. CASE SettleMatch(a)
    BY <2>1 DEF SettleMatch, NoneBecomesPending, Pending, TypeInv, TypeOK, Rows
  <2>2. CASE SettleClear(a)
    BY <1>1, <2>2 DEF SettleClear
  <2>3. CASE SettleCancel(a)
    BY <2>3 DEF SettleCancel, ResolvePending, NoneBecomesPending, Pending,
       TypeInv, TypeOK, Rows
  <2> QED
    BY <1>8, <2>1, <2>2, <2>3 DEF SettleStep
<1>9. ASSUME NEW p \in Procs, CronStep(p) \/ Crash(p) PROVE NoneBecomesPending
  <2>1. \/ UNCHANGED offers
        \/ \E o : offers' = [offers EXCEPT ![o].status = "expired"]
    BY <1>9 DEF CronStep, Crash, ExpireFind, ExpireClaim, ExpireClear
  <2> QED
    BY <1>1, <1>2, <1>3, <2>1
<1>10. ASSUME NEW o \in OfferIds, Tick(o) PROVE NoneBecomesPending
  BY <1>10 DEF Tick, NoneBecomesPending, Pending, TypeInv, TypeOK, Rows
<1> QED
  BY <1>5, <1>6, <1>7, <1>8, <1>9, <1>10 DEF Next

LEMMA OnePendingStep == TypeInv /\ OnePending /\ [Next]_vars => OnePending'
<1> SUFFICES ASSUME TypeInv, OnePending, [Next]_vars PROVE OnePending'
  OBVIOUS
<1>1. CASE UNCHANGED vars
  BY <1>1 DEF vars, OnePending, Pending
<1>2. ASSUME NoneBecomesPending PROVE OnePending'
  BY <1>2 DEF NoneBecomesPending, OnePending
<1>3. ASSUME NEW t \in Threads, NextCreate(t), MayInsert PROVE OnePending'
  <2>1. \A o \in OfferIds : Pending(o)' => o = Fresh
    BY <1>3 DEF NextCreate, MayInsert, Pending, TypeInv, TypeOK
  <2> QED
    BY <2>1 DEF OnePending
<1>4. CASE Next
  BY <1>2, <1>3, <1>4, StatusesMove
<1> QED
  BY <1>1, <1>4

(* However many mark-ready calls, couriers, processes and restarts         *)
(* overlap, at most one courier holds a pending offer for the order.       *)
THEOREM OneOffer == Spec => []OnePending
<1>1. Init => OnePending
  BY DEF Init, OnePending, Pending
<1>2. Spec => []TypeInv
  BY InitType, StepType, PTL DEF Spec
<1> QED
  BY <1>1, <1>2, OnePendingStep, PTL DEF Spec

-----------------------------------------------------------------------------
(* No courier is displaced.                                                *)

(* The courier about to save its abandon is still the order's courier:     *)
(* abandonOrderDelivery saves without a condition, so this is what makes   *)
(* its save harmless.                                                      *)
QuitterHolds == \A a \in Agents : At(a, "abandon_save") => order.courier = a

NobodyQuits == \A a \in Agents : At(a, "abandon_save")' => At(a, "abandon_save")

LEMMA QuitNotEntered ==
  ASSUME TypeInv, NEW t \in Threads, NEW j, Become(t, j), j.pc # "abandon_save"
  PROVE  NobodyQuits
<1>1. job \in [Threads -> Jobs] /\ Agents \subseteq Threads
  BY DEF TypeInv, TypeOK, Threads
<1> QED
  BY <1>1 DEF NobodyQuits, At, Become

LEMMA QuitNotGoto ==
  ASSUME TypeInv, NEW t \in Threads, NEW label, label # "abandon_save",
         Goto(t, label)
  PROVE  NobodyQuits
<1>1. [job[t] EXCEPT !.pc = label].pc = label
  BY DEF TypeInv, TypeOK, Jobs
<1> QED
  BY <1>1, QuitNotEntered DEF Goto

LEMMA QuitNotReturn ==
  ASSUME TypeInv, NEW t \in Threads, Return(t)
  PROVE  NobodyQuits
<1>1. (IF t \in VendorCalls THEN Begin(job[t].at, "tell") ELSE Idle).pc
        # "abandon_save"
  BY DEF Begin, Idle
<1> QED
  BY <1>1, QuitNotEntered DEF Return

LEMMA QuitNotRefused ==
  ASSUME NEW t, NEW j \in Jobs, NEW why, j.pc # "abandon_save"
  PROVE  Refused(t, j, why).pc # "abandon_save"
BY DEF Refused, Begin, Idle, Jobs

LEMMA QuitNotChecked ==
  ASSUME NEW t, NEW j \in Jobs, j.pc # "abandon_save"
  PROVE  Checked(t, j).pc # "abandon_save"
BY QuitNotRefused DEF Checked, Jobs

LEMMA QuitNotContinue ==
  ASSUME TypeInv, NEW t \in Threads, Continue(t)
  PROVE  NobodyQuits
<1>1. job[t] \in Jobs
  BY DEF TypeInv, TypeOK
<1>2. ASSUME UNCHANGED job PROVE NobodyQuits
  BY <1>2 DEF NobodyQuits, At
<1>3. CASE NextRead(t)
  <2>1. Return(t) \/ \E h : Become(t, [job[t] EXCEPT
          !.pc = IF h = None THEN "next_rebuild" ELSE "next_take", !.queue = h])
    BY <1>3 DEF NextRead
  <2> QED
    BY <1>1, <2>1, QuitNotReturn, QuitNotEntered DEF Jobs
<1>4. CASE NextRebuild(t)
  <2>1. Goto(t, "exhaust") \/ \E r : Enqueue(t, r, "next_take")
    BY <1>4 DEF NextRebuild
  <2> QED
    BY <1>1, <2>1, QuitNotGoto, QuitNotEntered DEF Enqueue, Jobs
<1>5. CASE NextTake(t)
  <2>1. \/ Become(t, [job[t] EXCEPT !.pc = "exhaust", !.queue = None])
        \/ \E a : Become(t, [job[t] EXCEPT !.pc = "next_create", !.agent = a])
        \/ UNCHANGED job
    BY <1>5 DEF NextTake
  <2> QED
    BY <1>1, <1>2, <2>1, QuitNotEntered DEF Jobs
<1>6. CASE NextCreate(t)
  <2>1. \/ Become(t, [job[t] EXCEPT !.pc = "next_take", !.agent = None])
        \/ \E o : Become(t, [job[t] EXCEPT !.pc = "next_publish",
                             !.agent = None, !.offer = o, !.queue = None])
    BY <1>6 DEF NextCreate
  <2> QED
    BY <1>1, <2>1, QuitNotEntered DEF Jobs
<1>7. CASE NextPublish(t) \/ ExhaustTell(t)
  BY <1>7, QuitNotReturn DEF NextPublish, ExhaustTell
<1>8. CASE Exhaust(t)
  BY <1>8, QuitNotGoto DEF Exhaust
<1>9. CASE Tell(t)
  <2>1. Ended(t).pc # "abandon_save"
    BY DEF Ended, Idle
  <2> QED
    BY <1>9, <2>1, QuitNotEntered DEF Tell
<1>10. CASE ClaimCheck(t)
  <2>1. job[t].pc # "abandon_save"
    BY <1>10 DEF ClaimCheck, At
  <2> QED
    BY <1>1, <1>10, <2>1, QuitNotChecked, QuitNotEntered DEF ClaimCheck
<1>11. CASE ClaimReadActive(t)
  <2>1. \E o : Become(t, [job[t] EXCEPT
          !.pc = IF o = None THEN "claim_write" ELSE "claim_read_offer",
          !.read = o])
    BY <1>11 DEF ClaimReadActive
  <2> QED
    BY <1>1, <2>1, QuitNotEntered DEF Jobs
<1>12. CASE ClaimReadOffer(t)
  <2>1. \/ Become(t, Refused(t, job[t], "exclusive"))
        \/ Become(t, [job[t] EXCEPT !.pc = "claim_write", !.read = None])
    BY <1>12 DEF ClaimReadOffer, Refuse
  <2>2. job[t].pc # "abandon_save"
    BY <1>12 DEF ClaimReadOffer, At
  <2> QED
    BY <1>1, <2>1, <2>2, QuitNotRefused, QuitNotEntered DEF Jobs
<1>13. CASE ClaimWrite(t)
  <2>1. Return(t) \/ Become(t, Refused(t, job[t], "lost"))
    BY <1>13 DEF ClaimWrite, Refuse
  <2>2. job[t].pc # "abandon_save"
    BY <1>13 DEF ClaimWrite, At
  <2> QED
    BY <1>1, <2>1, <2>2, QuitNotReturn, QuitNotRefused, QuitNotEntered
<1> QED
  BY <1>3, <1>4, <1>5, <1>6, <1>7, <1>8, <1>9, <1>10, <1>11, <1>12, <1>13
     DEF Continue

LEMMA QuitNotVendor ==
  ASSUME TypeInv, NEW v \in VendorCalls,
         \/ VendorStep(v)
         \/ \E p \in Procs : MarkReadyRead(v, p) \/ RejectOrderRead(v, p)
  PROVE  NobodyQuits
<1>1. v \in Threads /\ job[v] \in Jobs
  BY DEF Threads, TypeInv, TypeOK
<1>2. ASSUME NEW p \in Procs, MarkReadyRead(v, p) \/ RejectOrderRead(v, p)
      PROVE  NobodyQuits
  <2>1. \A label \in {"ready_save", "reject_save"} :
          Begin(p, label).pc # "abandon_save"
    BY DEF Begin, Idle
  <2> QED
    BY <1>1, <1>2, <2>1, QuitNotEntered DEF MarkReadyRead, RejectOrderRead
<1>3. CASE MarkReadySave(v) \/ StartCancel(v) \/ StartClear(v)
  BY <1>1, <1>3, QuitNotGoto DEF MarkReadySave, StartCancel, StartClear
<1>4. CASE RejectOrderSave(v)
  <2>1. Ended(v).pc # "abandon_save"
    BY DEF Ended, Idle
  <2> QED
    BY <1>1, <1>4, <2>1, QuitNotEntered DEF RejectOrderSave
<1>5. CASE HardRank(v)
  <2>1. \/ Goto(v, "start_cancel")
        \/ \E a : Become(v, [job[v] EXCEPT !.pc = "claim_check", !.agent = a])
    BY <1>5 DEF HardRank
  <2> QED
    BY <1>1, <2>1, QuitNotGoto, QuitNotEntered DEF Jobs
<1>6. CASE StartRank(v)
  <2>1. Goto(v, "exhaust") \/ \E r : Enqueue(v, r, "next_read")
    BY <1>6 DEF StartRank
  <2> QED
    BY <1>1, <2>1, QuitNotGoto, QuitNotEntered DEF Enqueue, Jobs
<1> QED
  BY <1>2, <1>3, <1>4, <1>5, <1>6 DEF VendorStep

LEMMA QuitNotCourier ==
  ASSUME TypeInv, NEW a \in Agents,
         \/ CourierStep(a)
         \/ \E p \in Procs : \/ ClaimBegin(a, p)
                            \/ \E o \in OfferIds : \/ AcceptLoad(a, o, p)
                                                  \/ DeclineLoad(a, o, p)
  PROVE  NobodyQuits
<1>1. a \in Threads /\ job[a] \in Jobs
  BY DEF Threads, TypeInv, TypeOK
<1>2. ASSUME NEW p \in Procs, ClaimBegin(a, p) PROVE NobodyQuits
  <2> DEFINE j == [Begin(p, "claim_check") EXCEPT !.agent = a]
  <2>1. j \in Jobs /\ j.pc # "abandon_save"
    BY DEF Begin, Idle, Jobs, Steps, ClaimSteps
  <2>2. Become(a, Checked(a, j))
    BY <1>2 DEF ClaimBegin
  <2> HIDE DEF j
  <2> QED
    BY <1>1, <2>1, <2>2, QuitNotChecked, QuitNotEntered
<1>3. ASSUME NEW p \in Procs, NEW o \in OfferIds,
             AcceptLoad(a, o, p) \/ DeclineLoad(a, o, p)
      PROVE  NobodyQuits
  <2>1. /\ [Begin(p, "accept_claim") EXCEPT !.agent = a, !.offer = o].pc
             # "abandon_save"
        /\ [Begin(p, "decline_claim") EXCEPT !.read = o].pc # "abandon_save"
    BY DEF Begin, Idle
  <2> QED
    BY <1>1, <1>3, <2>1, QuitNotEntered DEF AcceptLoad, DeclineLoad
<1>4. CASE AcceptClaim(a) \/ AcceptClear(a) \/ AcceptUndo(a)
           \/ DeclineClaim(a) \/ AbandonSave(a)
  BY <1>1, <1>4, QuitNotGoto, QuitNotReturn
     DEF AcceptClaim, AcceptClear, AcceptUndo, DeclineClaim, AbandonSave
<1>5. CASE DeclineClear(a)
  <2>1. Begin(job[a].at, "next_read").pc # "abandon_save"
    BY DEF Begin, Idle
  <2> QED
    BY <1>1, <1>5, <2>1, QuitNotEntered DEF DeclineClear
<1> QED
  BY <1>2, <1>3, <1>4, <1>5 DEF CourierStep

LEMMA QuitNotCron ==
  ASSUME TypeInv, NEW p \in Procs, CronStep(p) \/ Crash(p)
  PROVE  NobodyQuits
<1>1. p \in Threads
  BY DEF Threads
<1>2. CASE ExpireFind(p)
  <2>1. \A o : [Begin(p, "expire_claim") EXCEPT !.read = o].pc # "abandon_save"
    BY DEF Begin, Idle
  <2> QED
    BY <1>1, <1>2, <2>1, QuitNotEntered DEF ExpireFind
<1>3. CASE ExpireClaim(p)
  BY <1>1, <1>3, QuitNotGoto, QuitNotReturn DEF ExpireClaim
<1>4. CASE ExpireClear(p)
  <2>1. Begin(p, "next_read").pc # "abandon_save"
    BY DEF Begin, Idle
  <2> QED
    BY <1>1, <1>4, <2>1, QuitNotEntered DEF ExpireClear
<1>5. CASE Crash(p)
  <2>1. \A t : Ended(t).pc # "abandon_save"
    BY DEF Ended, Idle
  <2> QED
    BY <1>5, <2>1 DEF Crash, NobodyQuits, At, Threads
<1> QED
  BY <1>2, <1>3, <1>4, <1>5 DEF CronStep

(* Only three kinds of steps touch the courier of the order or the set of  *)
(* couriers about to abandon it.                                           *)
LEMMA CourierMoves ==
  ASSUME TypeInv, Next
  PROVE  \/ NobodyQuits /\ order'.courier = order.courier
         \/ \E a \in Agents, p \in Procs : AbandonRead(a, p)
         \/ \E a \in Agents : AbandonSave(a)
         \/ NobodyQuits /\ order.courier = None
<1>1. order \in Orders
  BY DEF TypeInv, TypeOK
<1>2. ASSUME NEW t \in Threads, Continue(t)
      PROVE  NobodyQuits
             /\ (order'.courier = order.courier \/ order.courier = None)
  <2>1. CASE ClaimWrite(t)
    <3>1. \/ order' = order
          \/ /\ order.courier \in {None, job[t].agent}
             /\ order' = [order EXCEPT !.status = "shipped",
                                       !.courier = job[t].agent]
      BY <2>1 DEF ClaimWrite, Unclaimed
    <3>2. [order EXCEPT !.status = "shipped", !.courier = job[t].agent].courier
            = job[t].agent
      BY <1>1 DEF Orders
    <3>3. order'.courier = order.courier \/ order.courier = None
      BY <3>1, <3>2
    <3> QED
      BY <1>2, <3>3, QuitNotContinue
  <2>2. CASE ~ClaimWrite(t)
    <3>1. order'.courier = order.courier
      BY <1>1, <1>2, <2>2 DEF Continue, NextRead, NextRebuild, NextTake,
         NextCreate, NextPublish, Exhaust, ExhaustTell, Tell, ClaimCheck,
         ClaimReadActive, ClaimReadOffer, Orders
    <3> QED
      BY <1>2, <3>1, QuitNotContinue
  <2> QED
    BY <2>1, <2>2
<1>3. ASSUME NEW v \in VendorCalls,
             \/ VendorStep(v)
             \/ \E p \in Procs : MarkReadyRead(v, p) \/ RejectOrderRead(v, p)
      PROVE  NobodyQuits /\ order'.courier = order.courier
  <2>1. order'.courier = order.courier
    BY <1>1, <1>3 DEF VendorStep, MarkReadyRead, RejectOrderRead, MarkReadySave,
       RejectOrderSave, HardRank, StartCancel, StartClear, StartRank, Orders
  <2> QED
    BY <1>3, <2>1, QuitNotVendor
<1>4. ASSUME NEW a \in Agents,
             CourierStep(a) \/ \E p \in Procs : CourierRequest(a, p),
             ~AbandonSave(a), \A p \in Procs : ~AbandonRead(a, p)
      PROVE  NobodyQuits /\ order'.courier = order.courier
  <2>1. order'.courier = order.courier
    BY <1>1, <1>4 DEF CourierStep, CourierRequest, AcceptLoad, DeclineLoad,
       ClaimBegin, AcceptClaim, AcceptClear, AcceptUndo, DeclineClaim,
       DeclineClear, Orders
  <2> QED
    BY <1>4, <2>1, QuitNotCourier DEF CourierRequest
<1>5. ASSUME NEW a \in Agents, SettleStep(a) \/ Toggle(a)
      PROVE  NobodyQuits /\ order'.courier = order.courier
  BY <1>1, <1>5 DEF SettleStep, SettleMatch, SettleClear, SettleCancel, Toggle,
     Orders, NobodyQuits, At
<1>6. ASSUME NEW p \in Procs, CronStep(p) \/ Crash(p)
      PROVE  NobodyQuits /\ order'.courier = order.courier
  <2>1. order'.courier = order.courier
    BY <1>1, <1>6 DEF CronStep, Crash, ExpireFind, ExpireClaim, ExpireClear,
       Orders
  <2> QED
    BY <1>6, <2>1, QuitNotCron
<1>7. ASSUME NEW o \in OfferIds, Tick(o)
      PROVE  NobodyQuits /\ order'.courier = order.courier
  BY <1>7 DEF Tick, NobodyQuits, At
<1> QED
  BY <1>2, <1>3, <1>4, <1>5, <1>6, <1>7 DEF Next

Displaced ==
  /\ order.courier # None /\ order'.courier # order.courier
  /\ ~(order'.courier = None /\ At(order.courier, "abandon_save"))

LEMMA QuitterStep ==
  ASSUME TypeInv, QuitterHolds, [Next]_vars
  PROVE  QuitterHolds' /\ ~Displaced
<1>1. /\ order \in Orders /\ job \in [Threads -> Jobs]
      /\ Agents \subseteq Threads /\ None \notin Agents
  BY ConstantsAssumption DEF TypeInv, TypeOK, Threads
<1>2. CASE UNCHANGED vars
  BY <1>2 DEF vars, QuitterHolds, At, Displaced
<1>3. CASE NobodyQuits /\ order'.courier = order.courier
  BY <1>3 DEF NobodyQuits, QuitterHolds, Displaced
<1>4. CASE NobodyQuits /\ order.courier = None
  BY <1>1, <1>4 DEF NobodyQuits, QuitterHolds, Displaced
<1>5. ASSUME NEW a \in Agents, NEW p \in Procs, AbandonRead(a, p)
      PROVE  QuitterHolds' /\ ~Displaced
  BY <1>1, <1>5 DEF AbandonRead, Become, QuitterHolds, At, Displaced
<1>6. ASSUME NEW a \in Agents, AbandonSave(a)
      PROVE  QuitterHolds' /\ ~Displaced
  <2>1. order.courier = a /\ \A b \in Agents : At(b, "abandon_save") => b = a
    BY <1>6 DEF AbandonSave, QuitterHolds
  <2>2. At(a, "abandon_save") /\ ~At(a, "abandon_save")' /\ NobodyQuits
    BY <1>1, <1>6, QuitNotGoto DEF AbandonSave, At, Goto, Become, Jobs
  <2>3. order'.courier = None
    BY <1>1, <1>6 DEF AbandonSave, Orders
  <2> QED
    BY <2>1, <2>2, <2>3 DEF NobodyQuits, QuitterHolds, Displaced
<1>7. CASE Next
  BY <1>3, <1>4, <1>5, <1>6, <1>7, CourierMoves
<1> QED
  BY <1>2, <1>7

(* Whatever overlaps, restarts included, an assigned courier loses the     *)
(* order only in the step that saves that courier's own abandon: neither a *)
(* claim, nor a late acceptance, nor the vendor's calls displace it.       *)
THEOREM CourierKept == Spec => NeverDisplaced
<1>1. Init => QuitterHolds
  BY DEF Init, QuitterHolds, At, Idle, Threads
<1>2. Spec => []TypeInv
  BY InitType, StepType, PTL DEF Spec
<1>3. TypeInv /\ QuitterHolds /\ [Next]_vars =>
        [order.courier # None /\ order'.courier # order.courier =>
           order'.courier = None /\ At(order.courier, "abandon_save")]_vars
  BY QuitterStep DEF Displaced
<1>4. TypeInv /\ QuitterHolds /\ [Next]_vars => QuitterHolds'
  BY QuitterStep
<1> QED
  BY <1>1, <1>2, <1>3, <1>4, PTL DEF Spec, NeverDisplaced

-----------------------------------------------------------------------------
(* The cascade implements the abstract assignment.                         *)

PendingAgents == \A o \in OfferIds : Pending(o) => offers[o].agent \in Agents
HolderInv == TypeInv /\ OnePending /\ PendingAgents

LEMMA PendingAgentsStep == HolderInv /\ [Next]_vars => PendingAgents'
<1> SUFFICES ASSUME HolderInv, [Next]_vars PROVE PendingAgents'
  OBVIOUS
<1>1. CASE UNCHANGED vars
  BY <1>1 DEF vars, HolderInv, PendingAgents, Pending
<1>2. CASE NoneBecomesPending
  BY <1>2 DEF NoneBecomesPending, HolderInv, PendingAgents
<1>3. ASSUME NEW t \in Threads, NextCreate(t), MayInsert PROVE PendingAgents'
  <2>1. job[t].agent \in Agents
    BY <1>3 DEF HolderInv, TypeInv, JobOK, NextCreate, At
  <2>2. offers' = [offers EXCEPT ![Fresh] = Row(job[t].agent, "pending")]
    BY <1>3 DEF NextCreate
  <2>3. Row(job[t].agent, "pending").agent = job[t].agent
    BY DEF Row
  <2>4. \A o \in OfferIds : o # Fresh => offers'[o] = offers[o]
    BY <2>2 DEF HolderInv, TypeInv, TypeOK
  <2>5. Fresh \in OfferIds => offers'[Fresh].agent = job[t].agent
    BY <2>2, <2>3 DEF HolderInv, TypeInv, TypeOK
  <2> QED
    BY <2>1, <2>4, <2>5 DEF HolderInv, PendingAgents, Pending
<1>4. CASE Next
  BY <1>2, <1>3, <1>4, StatusesMove DEF HolderInv
<1> QED
  BY <1>1, <1>4

LEMMA HolderInvStep == HolderInv /\ [Next]_vars => HolderInv'
BY StepType, OnePendingStep, PendingAgentsStep DEF HolderInv

LEMMA HolderNone ==
  ASSUME \A o \in OfferIds : ~Pending(o)
  PROVE  Holder = None
BY DEF Holder

LEMMA HolderIs ==
  ASSUME OnePending, NEW o \in OfferIds, Pending(o)
  PROVE  Holder = offers[o].agent
BY DEF Holder, OnePending

LEMMA HolderNonePrimed ==
  ASSUME \A o \in OfferIds : ~Pending(o)'
  PROVE  Holder' = None
BY DEF Holder

LEMMA HolderIsPrimed ==
  ASSUME OnePending', NEW o \in OfferIds, Pending(o)'
  PROVE  Holder' = offers'[o].agent
BY DEF Holder, OnePending

(* A step writes the rows or assigns the order, never both.                *)
LEMMA OneAtATime ==
  ASSUME TypeInv, Next
  PROVE  UNCHANGED offers \/ order'.courier = order.courier
<1>1. order \in Orders
  BY DEF TypeInv, TypeOK
<1>2. ASSUME NEW t \in Threads, Continue(t)
      PROVE  UNCHANGED offers \/ UNCHANGED order
  BY <1>2 DEF Continue, NextRead, NextRebuild, NextTake, NextCreate, NextPublish,
     Exhaust, ExhaustTell, Tell, ClaimCheck, ClaimReadActive, ClaimReadOffer,
     ClaimWrite
<1>3. ASSUME NEW v \in VendorCalls,
             \/ VendorStep(v)
             \/ \E p \in Procs : MarkReadyRead(v, p) \/ RejectOrderRead(v, p)
      PROVE  UNCHANGED offers \/ UNCHANGED order
  BY <1>3 DEF VendorStep, MarkReadyRead, RejectOrderRead, MarkReadySave,
     RejectOrderSave, HardRank, StartCancel, StartClear, StartRank
<1>4. ASSUME NEW a \in Agents,
             CourierStep(a) \/ \E p \in Procs : CourierRequest(a, p)
      PROVE  UNCHANGED offers \/ UNCHANGED order
  BY <1>4 DEF CourierStep, CourierRequest, AcceptLoad, DeclineLoad, ClaimBegin,
     AbandonRead, AcceptClaim, AcceptClear, AcceptUndo, DeclineClaim,
     DeclineClear, AbandonSave
<1>5. ASSUME NEW a \in Agents, SettleStep(a) \/ Toggle(a)
      PROVE  UNCHANGED offers \/ UNCHANGED order
  BY <1>5 DEF SettleStep, SettleMatch, SettleClear, SettleCancel, Toggle
<1>6. ASSUME NEW p \in Procs, CronStep(p) \/ Crash(p)
      PROVE  UNCHANGED offers \/ UNCHANGED order
  BY <1>6 DEF CronStep, Crash, ExpireFind, ExpireClaim, ExpireClear
<1>7. ASSUME NEW o \in OfferIds, Tick(o)
      PROVE  UNCHANGED offers \/ UNCHANGED order
  BY <1>7 DEF Tick
<1> QED
  BY <1>1, <1>2, <1>3, <1>4, <1>5, <1>6, <1>7 DEF Next

LEMMA AssignmentStep ==
  ASSUME HolderInv, [Next]_vars
  PROVE  [Assignment!Next]_(Assignment!vars)
<1>1. /\ TypeInv /\ OnePending /\ PendingAgents
      /\ TypeInv' /\ OnePending' /\ PendingAgents'
      /\ None \notin Agents
  BY HolderInvStep, ConstantsAssumption DEF HolderInv
<1>2. /\ order.courier \in Agents \cup {None}
      /\ order'.courier \in Agents \cup {None}
  BY <1>1 DEF TypeInv, TypeOK, Orders
<1>3. CASE UNCHANGED vars
  BY <1>3 DEF vars, Holder, Pending, Assignment!vars
<1>4. ASSUME UNCHANGED offers, Next PROVE [Assignment!Next]_(Assignment!vars)
  <2>1. Holder' = Holder
    BY <1>4 DEF Holder, Pending
  <2>2. order.courier # None => order'.courier \in {order.courier, None}
    <3>1. CASE \E a \in Agents : AbandonSave(a)
      <4>1. order'.courier = None
        BY <1>1, <3>1 DEF AbandonSave, TypeInv, TypeOK, Orders
      <4> QED
        BY <4>1
    <3>2. CASE \E a \in Agents, p \in Procs : AbandonRead(a, p)
      BY <3>2 DEF AbandonRead
    <3> QED
      BY <1>1, <1>4, <3>1, <3>2, CourierMoves
  <2> QED
    BY <1>2, <2>1, <2>2
       DEF Assignment!Next, Assignment!Claim, Assignment!Release, Assignment!vars
<1>5. ASSUME order'.courier = order.courier, NoneBecomesPending
      PROVE  [Assignment!Next]_(Assignment!vars)
  <2>1. CASE \E o \in OfferIds : Pending(o)'
    <3>1. PICK o \in OfferIds : Pending(o)'
      BY <2>1
    <3>2. Pending(o) /\ offers'[o].agent = offers[o].agent
      BY <1>5, <3>1 DEF NoneBecomesPending
    <3>3. Holder' = Holder
      BY <1>1, <3>1, <3>2, HolderIs, HolderIsPrimed
    <3> QED
      BY <1>5, <3>3 DEF Assignment!vars
  <2>2. CASE ~\E o \in OfferIds : Pending(o)'
    <3>1. Holder' = None
      BY <2>2, HolderNonePrimed
    <3> QED
      BY <1>5, <3>1 DEF Assignment!Next, Assignment!Close, Assignment!vars
  <2> QED
    BY <2>1, <2>2
<1>6. ASSUME NEW t \in Threads, NextCreate(t), MayInsert
      PROVE  [Assignment!Next]_(Assignment!vars)
  <2>1. UNCHANGED order
    BY <1>6 DEF NextCreate
  <2>2. Holder = None
    BY <1>6, HolderNone DEF MayInsert
  <2>3. CASE \E o \in OfferIds : Pending(o)'
    <3>1. PICK o \in OfferIds : Pending(o)'
      BY <2>3
    <3>2. Holder' = offers'[o].agent
      BY <1>1, <3>1, HolderIsPrimed
    <3>3. offers'[o].agent \in Agents
      BY <1>1, <3>1 DEF PendingAgents
    <3> QED
      BY <2>1, <2>2, <3>2, <3>3 DEF Assignment!Next, Assignment!Offer
  <2>4. CASE ~\E o \in OfferIds : Pending(o)'
    BY <2>1, <2>2, <2>4, HolderNonePrimed DEF Assignment!vars
  <2> QED
    BY <2>3, <2>4
<1>7. CASE Next
  BY <1>1, <1>4, <1>5, <1>6, <1>7, StatusesMove, OneAtATime
<1> QED
  BY <1>3, <1>7

(* Every behaviour of the cascade, seen through the courier of the order   *)
(* and the courier of its pending offer, is one of the abstract exclusive  *)
(* assignment: offers are opened one at a time and closed before the next, *)
(* and the order goes from one courier to another only by being given back. *)
THEOREM Implements == Spec => Assignment!SafeSpec
<1>1. Init => HolderInv /\ Assignment!Init
  <2>1. Init => TypeInv
    BY InitType
  <2>2. Init => /\ OnePending /\ PendingAgents
                /\ \A o \in OfferIds : ~Pending(o)
    BY DEF Init, OnePending, PendingAgents, Pending
  <2>3. Init => Holder = None /\ order.courier = None
    BY <2>2, HolderNone DEF Init
  <2> QED
    BY <2>1, <2>2, <2>3 DEF HolderInv, Assignment!Init
<1>2. HolderInv /\ [Next]_vars => HolderInv'
  BY HolderInvStep
<1>3. HolderInv /\ [Next]_vars => [Assignment!Next]_(Assignment!vars)
  BY AssignmentStep
<1> QED
  BY <1>1, <1>2, <1>3, PTL DEF Spec, Assignment!SafeSpec

=============================================================================
