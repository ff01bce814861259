------------------------- MODULE OfferAnswersProofs -------------------------
(***************************************************************************)
(* Theorems about the answers to the offers of OfferCascade, about the     *)
(* claims made while an offer is live, and about whom the cascade asks,    *)
(* for any number of couriers, vendor calls, processes, offers and         *)
(* restarts.                                                               *)
(***************************************************************************)
EXTENDS OfferCascadeProofs

-----------------------------------------------------------------------------
(* The rows                                                                *)

(* A row that is used keeps its courier and is not pending a second time;  *)
(* an answer stands, and nothing is accepted.                              *)
RowGrows(o) ==
  offers[o].status # "free" =>
    /\ offers'[o].status # "free" /\ offers'[o].agent = offers[o].agent
    /\ offers'[o].status = "pending" => offers[o].status = "pending"
RowStands(o) ==
  /\ offers[o].status \notin {"free", "pending"} =>
       offers'[o].status = offers[o].status
  /\ offers'[o].status = "accepted" => offers[o].status = "accepted"
Quiet == \A o \in OfferIds : RowGrows(o) /\ RowStands(o)

LEMMA QuietUnchanged == ASSUME UNCHANGED offers PROVE Quiet
BY DEF Quiet, RowGrows, RowStands

LEMMA QuietAnswer ==
  ASSUME TypeInv, NEW o, Pending(o), NEW s \in {"rejected", "expired"},
         offers' = [offers EXCEPT ![o].status = s]
  PROVE  Quiet
BY DEF Quiet, RowGrows, RowStands, Pending, TypeInv, TypeOK, Rows

LEMMA QuietCancel ==
  ASSUME TypeInv, ResolvePending("cancelled")
  PROVE  Quiet
BY DEF ResolvePending, Quiet, RowGrows, RowStands, Pending, TypeInv, TypeOK, Rows

LEMMA QuietInsert ==
  ASSUME TypeInv, FreeIds # {}, NEW a, NEW s \in {"skipped", "pending"},
         offers' = [offers EXCEPT ![Fresh] = Row(a, s)]
  PROVE  Quiet
<1>1. offers[Fresh].status = "free" /\ Fresh \in OfferIds
  BY FreshType
<1>2. offers \in [OfferIds -> Rows] /\ Row(a, s).status = s
  BY DEF TypeInv, TypeOK, Row
<1> HIDE DEF Fresh, Row
<1>3. offers'[Fresh].status = s
  BY <1>1, <1>2
<1>4. \A o \in OfferIds : o # Fresh => offers'[o] = offers[o]
  BY <1>1, <1>2
<1> QED
  BY <1>1, <1>3, <1>4 DEF Quiet, RowGrows, RowStands

(* Only three steps accept an offer or take an answer back.                *)
Answers(a) == AcceptClaim(a) \/ AcceptUndo(a) \/ SettleMatch(a)

LEMMA RowsMove ==
  ASSUME TypeInv, Next
  PROVE  Quiet \/ \E a \in Agents : Answers(a)
<1>1. ASSUME NEW t \in Threads, Continue(t) PROVE Quiet
  <2>1. CASE NextTake(t)
    <3>1. \/ UNCHANGED offers
          \/ /\ FreeIds # {}
             /\ \E a : offers' = [offers EXCEPT ![Fresh] = Row(a, "skipped")]
      BY <2>1 DEF NextTake
    <3> QED
      BY <3>1, QuietUnchanged, QuietInsert
  <2>2. CASE NextCreate(t)
    <3>1. \/ UNCHANGED offers
          \/ /\ FreeIds # {}
             /\ \E a : offers' = [offers EXCEPT ![Fresh] = Row(a, "pending")]
      BY <2>2 DEF NextCreate
    <3> QED
      BY <3>1, QuietUnchanged, QuietInsert
  <2>3. CASE ~NextTake(t) /\ ~NextCreate(t)
    <3>1. UNCHANGED offers
      BY <1>1, <2>3 DEF Continue, NextRead, NextRebuild, NextPublish, Exhaust,
         ExhaustTell, Tell, ClaimCheck, ClaimReadActive, ClaimReadOffer,
         ClaimWrite
    <3> QED
      BY <3>1, QuietUnchanged
  <2> QED
    BY <2>1, <2>2, <2>3
<1>2. ASSUME NEW v \in VendorCalls,
             \/ VendorStep(v)
             \/ \E p \in Procs : MarkReadyRead(v, p) \/ RejectOrderRead(v, p)
      PROVE  Quiet
  <2>1. UNCHANGED offers \/ ResolvePending("cancelled")
    BY <1>2 DEF VendorStep, MarkReadyRead, RejectOrderRead, MarkReadySave,
       RejectOrderSave, HardRank, StartCancel, StartClear, StartRank
  <2> QED
    BY <2>1, QuietUnchanged, QuietCancel
<1>3. ASSUME NEW a \in Agents, ~Answers(a),
             \/ CourierStep(a) \/ SettleStep(a) \/ Toggle(a)
             \/ \E p \in Procs : CourierRequest(a, p)
      PROVE  Quiet
  <2>1. \/ UNCHANGED offers \/ ResolvePending("cancelled")
        \/ \E o : /\ Pending(o)
                  /\ offers' = [offers EXCEPT ![o].status = "rejected"]
    BY <1>3 DEF Answers, CourierStep, SettleStep, Toggle, CourierRequest,
       AcceptLoad, DeclineLoad, ClaimBegin, AbandonRead, AcceptClear,
       DeclineClaim, DeclineClear, AbandonSave, SettleClear, SettleCancel
  <2> QED
    BY <2>1, QuietUnchanged, QuietCancel, QuietAnswer
<1>4. ASSUME NEW p \in Procs, CronStep(p) \/ Crash(p) PROVE Quiet
  <2>1. \/ UNCHANGED offers
        \/ \E o : /\ Pending(o)
                  /\ offers' = [offers EXCEPT ![o].status = "expired"]
    BY <1>4 DEF CronStep, Crash, ExpireFind, ExpireClaim, ExpireClear
  <2> QED
    BY <2>1, QuietUnchanged, QuietAnswer
<1>5. ASSUME NEW o \in OfferIds, Tick(o) PROVE Quiet
  BY <1>5 DEF Tick, Quiet, RowGrows, RowStands, TypeInv, TypeOK, Rows
<1> QED
  BY <1>1, <1>2, <1>3, <1>4, <1>5 DEF Next

-----------------------------------------------------------------------------
(* The inductive invariant of the answers                                  *)

(* The request of a courier between the load of an offer and the end of    *)
(* the claim that acceptOffer makes of it.                                 *)
Accepting == ClaimSteps \cup {"accept_claim", "accept_clear", "accept_undo"}
Answering(j) == j.pc \in Accepting /\ (j.pc \in ClaimSteps => j.offer # None)

(* It is the courier's own, of an offer made to it, and once past its      *)
(* write the offer is accepted.                                            *)
AnswerOK(a) == Answering(job[a]) =>
  /\ job[a].agent = a /\ job[a].offer \in OfferIds
  /\ offers[job[a].offer].agent = a
  /\ offers[job[a].offer].status # "free"
  /\ job[a].pc # "accept_claim" => offers[job[a].offer].status = "accepted"

(* Only a winner's settlement looks for the winner's offer.                *)
WinnersSettle == \A a \in Agents : settle[a].pc = "match" => a \in won

AcceptedOK(o) == offers[o].status = "accepted" =>
  /\ offers[o].agent \in Agents
  /\ offers[o].agent \in won \/ InAccept(offers[o].agent, o) \/ o \in orphans

AnswersHold ==
  /\ \A a \in Agents : AnswerOK(a)
  /\ \A o \in OfferIds : AcceptedOK(o)
  /\ WinnersSettle
AnswerInv == TypeInv /\ AnswersHold

LEMMA AnswerInit == Init => AnswerInv
<1> SUFFICES ASSUME Init PROVE AnswerInv
  OBVIOUS
<1>1. \A a \in Agents : ~Answering(job[a])
  BY DEF Init, Threads, Idle, Answering, Accepting, ClaimSteps
<1>2. WinnersSettle /\ \A o \in OfferIds : AcceptedOK(o)
  BY DEF Init, WinnersSettle, Settled, AcceptedOK
<1> QED
  BY <1>1, <1>2, InitType DEF AnswerInv, AnswersHold, AnswerOK

(* A request in its courier's answer, past the write on the offer, is what *)
(* InAccept says of it.                                                    *)
LEMMA InAcceptIs ==
  ASSUME NEW a, NEW o \in OfferIds
  PROVE  InAccept(a, o) <=> /\ Answering(job[a]) /\ job[a].pc # "accept_claim"
                            /\ job[a].offer = o
BY ConstantsAssumption DEF InAccept, Answering, Accepting, ClaimSteps, OfferIds

LEMMA InAcceptIsPrimed ==
  ASSUME NEW a, NEW o \in OfferIds
  PROVE  InAccept(a, o)' <=> /\ Answering(job'[a]) /\ job'[a].pc # "accept_claim"
                             /\ job'[a].offer = o
BY ConstantsAssumption DEF InAccept, Answering, Accepting, ClaimSteps, OfferIds

(* How the job of a courier may move while the rows stand: into no answer, *)
(* unless the answer had written nothing or the courier has won; or on     *)
(* with the same answer.                                                   *)
Goes(a, j) ==
  \/ /\ ~Answering(j)
     /\ Answering(job[a]) => job[a].pc = "accept_claim" \/ a \in won'
  \/ /\ Answering(job[a]) /\ job[a].pc # "accept_claim"
     /\ Answering(j) /\ j.pc # "accept_claim"
     /\ j.offer = job[a].offer /\ j.agent = job[a].agent
  \/ j = job[a]

LEMMA AnswersKept ==
  ASSUME AnswerInv, Quiet, WinnersSettle',
         won \subseteq won', orphans \subseteq orphans',
         \A a \in Agents : Goes(a, job'[a])
  PROVE  AnswersHold'
<1>1. ASSUME NEW a \in Agents PROVE AnswerOK(a)'
  BY <1>1 DEF AnswerInv, AnswersHold, AnswerOK, Goes, Quiet, RowGrows, RowStands
<1>2. ASSUME NEW o \in OfferIds PROVE AcceptedOK(o)'
  <2> SUFFICES ASSUME offers'[o].status = "accepted" PROVE AcceptedOK(o)'
    BY DEF AcceptedOK
  <2>1. offers[o].status = "accepted" /\ offers'[o].agent = offers[o].agent
    BY DEF Quiet, RowGrows, RowStands
  <2>2. PICK a \in Agents : a = offers[o].agent
    BY <2>1 DEF AnswerInv, AnswersHold, AcceptedOK
  <2>3. a \in won \/ InAccept(a, o) \/ o \in orphans
    BY <2>1, <2>2 DEF AnswerInv, AnswersHold, AcceptedOK
  <2>4. InAccept(a, o) => a \in won' \/ InAccept(a, o)'
    <3>1. Goes(a, job'[a])
      BY <2>2
    <3>2. InAccept(a, o) <=> /\ Answering(job[a]) /\ job[a].pc # "accept_claim"
                             /\ job[a].offer = o
      BY InAcceptIs
    <3>3. InAccept(a, o)' <=> /\ Answering(job'[a]) /\ job'[a].pc # "accept_claim"
                              /\ job'[a].offer = o
      BY InAcceptIsPrimed
    <3> QED
      BY <3>1, <3>2, <3>3 DEF Goes
  <2>5. offers'[o].agent = a
    BY <2>1, <2>2
  <2>6. a \in won' \/ InAccept(a, o)' \/ o \in orphans'
    BY <2>3, <2>4
  <2> QED
    BY <2>2, <2>5, <2>6 DEF AcceptedOK
<1> QED
  BY <1>1, <1>2 DEF AnswersHold

(* The step of one thread.                                                 *)
LEMMA ThreadKeeps ==
  ASSUME AnswerInv, Quiet, NEW t \in Threads, NEW j, Become(t, j),
         t \in Agents => Goes(t, j),
         WinnersSettle', won \subseteq won', UNCHANGED orphans
  PROVE  AnswersHold'
<1>1. \A a \in Agents : job'[a] = IF a = t THEN j ELSE job[a]
  BY DEF AnswerInv, TypeInv, TypeOK, Threads, Become
<1>2. \A a \in Agents : Goes(a, job'[a])
  BY <1>1 DEF Goes
<1> QED
  BY <1>2, AnswersKept

(* Most steps touch neither the winners nor the settlements.               *)
LEMMA PlainKeeps ==
  ASSUME AnswerInv, Quiet, NEW t \in Threads, NEW j, Become(t, j),
         t \in Agents => Goes(t, j), UNCHANGED <<settle, won, orphans>>
  PROVE  AnswersHold'
<1>1. WinnersSettle'
  BY DEF AnswerInv, AnswersHold, WinnersSettle
<1> QED
  BY <1>1, ThreadKeeps

LEMMA AsideKeeps ==
  ASSUME AnswerInv, Quiet, NEW t \in Threads, NEW j, Become(t, j),
         ~Answering(j), ~Answering(job[t]), UNCHANGED <<settle, won, orphans>>
  PROVE  AnswersHold'
BY PlainKeeps DEF Goes

LEMMA JobsStand ==
  ASSUME AnswerInv, Quiet, UNCHANGED <<job, settle, won, orphans>>
  PROVE  AnswersHold'
<1>1. WinnersSettle'
  BY DEF AnswerInv, AnswersHold, WinnersSettle
<1> QED
  BY <1>1, AnswersKept DEF Goes

-----------------------------------------------------------------------------
(* Where a job goes that leaves no answer behind                           *)

LEMMA Aside ==
  ASSUME NEW j, j.pc \notin Accepting
  PROVE  ~Answering(j)
BY DEF Answering

LEMMA AsideBegin ==
  ASSUME NEW p, NEW label, label \notin Accepting
  PROVE  ~Answering(Begin(p, label))
BY Aside DEF Begin, Idle

LEMMA AsideIdle == ~Answering(Idle)
BY Aside DEF Idle, Accepting, ClaimSteps

LEMMA AsideEnded == ASSUME NEW t PROVE ~Answering(Ended(t))
BY Aside DEF Ended, Idle, Accepting, ClaimSteps

LEMMA ReturnAside ==
  ASSUME NEW t, Return(t)
  PROVE  \E j : Become(t, j) /\ ~Answering(j)
<1>1. "tell" \notin Accepting
  BY DEF Accepting, ClaimSteps
<1> QED
  BY <1>1, AsideBegin, AsideIdle DEF Return

LEMMA GotoAside ==
  ASSUME TypeInv, NEW t \in Threads, NEW label, label \notin Accepting,
         Goto(t, label)
  PROVE  \E j : Become(t, j) /\ ~Answering(j)
<1>1. [job[t] EXCEPT !.pc = label].pc = label
  BY DEF TypeInv, TypeOK, Jobs
<1> QED
  BY <1>1, Aside DEF Goto

(* The refusal of a claim that courier a makes: it goes on to the undo of  *)
(* its offer, or it was no answer.                                         *)
LEMMA RefusedGoes ==
  ASSUME NEW a \in Agents, NEW j \in Jobs, NEW why, j.pc \in ClaimSteps
  PROVE  IF j.offer = None THEN ~Answering(Refused(a, j, why))
         ELSE /\ Answering(Refused(a, j, why))
              /\ Refused(a, j, why).pc = "accept_undo"
              /\ Refused(a, j, why).offer = j.offer
              /\ Refused(a, j, why).agent = j.agent
BY AsideIdle, ConstantsAssumption
   DEF Refused, Jobs, Answering, Accepting, ClaimSteps

LEMMA CheckedGoes ==
  ASSUME NEW a \in Agents, NEW j \in Jobs, j.pc \in ClaimSteps
  PROVE  IF j.offer = None THEN ~Answering(Checked(a, j))
         ELSE /\ Answering(Checked(a, j)) /\ Checked(a, j).pc # "accept_claim"
              /\ Checked(a, j).offer = j.offer
              /\ Checked(a, j).agent = j.agent
<1> DEFINE k(o) == [j EXCEPT !.pc = "claim_read_active", !.seen = o]
<1>1. ASSUME NEW o
      PROVE  /\ k(o).pc = "claim_read_active" /\ k(o).offer = j.offer
             /\ k(o).agent = j.agent
             /\ Answering(k(o)) <=> j.offer # None
  BY DEF Jobs, Answering, Accepting, ClaimSteps
<1>2. \/ \E why : Checked(a, j) = Refused(a, j, why)
      \/ \E o : Checked(a, j) = k(o)
  BY DEF Checked
<1> HIDE DEF k
<1> QED
  BY <1>1, <1>2, RefusedGoes

-----------------------------------------------------------------------------
(* Each step keeps what is known of the answers.                           *)

LEMMA ClaimGoes ==
  ASSUME AnswerInv, Quiet, NEW t \in Threads,
         \/ ClaimCheck(t) \/ ClaimReadActive(t) \/ ClaimReadOffer(t)
         \/ ClaimWrite(t)
  PROVE  AnswersHold'
<1>1. job[t] \in Jobs /\ job[t].pc \in ClaimSteps /\ job[t].pc # "accept_claim"
  BY DEF AnswerInv, TypeInv, TypeOK, ClaimCheck, ClaimReadActive,
     ClaimReadOffer, ClaimWrite, At, ClaimSteps
<1>2. job[t].offer = None => ~Answering(job[t])
  BY <1>1 DEF Answering
<1>3. job[t].offer # None => Answering(job[t])
  BY <1>1 DEF Answering, Accepting
<1>4. ASSUME t \in Agents, NEW why PROVE Goes(t, Refused(t, job[t], why))
  BY <1>1, <1>2, <1>3, <1>4, RefusedGoes DEF Goes
<1>5. ASSUME NEW label \in ClaimSteps, NEW o
      PROVE  LET j == [job[t] EXCEPT !.pc = label, !.read = o]
             IN (t \in Agents => Goes(t, j))
  <2> DEFINE j == [job[t] EXCEPT !.pc = label, !.read = o]
  <2>1. /\ j.pc = label /\ j.offer = job[t].offer /\ j.agent = job[t].agent
        /\ label # "accept_claim"
    BY <1>1 DEF Jobs, ClaimSteps
  <2>2. Answering(j) <=> job[t].offer # None
    BY <2>1 DEF Answering, Accepting
  <2> HIDE DEF j
  <2>3. t \in Agents => Goes(t, j)
    BY <1>1, <1>2, <1>3, <2>1, <2>2 DEF Goes
  <2> QED
    BY <2>3 DEF j
<1>6. {"claim_write", "claim_read_offer"} \subseteq ClaimSteps
  BY DEF ClaimSteps
<1>7. CASE ClaimCheck(t)
  <2>1. t \in Agents => Goes(t, Checked(t, job[t]))
    BY <1>1, <1>2, <1>3, CheckedGoes DEF Goes
  <2> QED
    BY <1>7, <2>1, PlainKeeps DEF ClaimCheck
<1>8. CASE ClaimReadActive(t)
  <2>1. \E label \in ClaimSteps : \E o :
          Become(t, [job[t] EXCEPT !.pc = label, !.read = o])
    BY <1>6, <1>8 DEF ClaimReadActive
  <2> QED
    BY <1>5, <1>8, <2>1, PlainKeeps DEF ClaimReadActive
<1>9. CASE ClaimReadOffer(t)
  <2>1. \/ \E label \in ClaimSteps : \E o :
              Become(t, [job[t] EXCEPT !.pc = label, !.read = o])
        \/ \E why : Become(t, Refused(t, job[t], why))
    BY <1>6, <1>9 DEF ClaimReadOffer, Refuse
  <2> QED
    BY <1>4, <1>5, <1>9, <2>1, PlainKeeps DEF ClaimReadOffer
<1>10. CASE ClaimWrite(t)
  <2>1. CASE /\ Return(t) /\ won' = won \cup {job[t].agent}
             /\ settle' = [settle EXCEPT ![job[t].agent] =
                              [pc |-> "match", at |-> job[t].at]]
    <3>1. PICK j : Become(t, j) /\ ~Answering(j)
      BY <2>1, ReturnAside
    <3>2. t \in Agents => Goes(t, j)
      BY <2>1, <3>1 DEF Goes, AnswerInv, AnswersHold, AnswerOK
    <3>3. WinnersSettle'
      BY <2>1 DEF AnswerInv, AnswersHold, WinnersSettle, TypeInv, TypeOK
    <3> QED
      BY <1>10, <2>1, <3>1, <3>2, <3>3, ThreadKeeps DEF ClaimWrite
  <2>2. CASE Refuse(t, "lost") /\ UNCHANGED <<settle, won>>
    BY <1>4, <1>10, <2>2, PlainKeeps DEF ClaimWrite, Refuse
  <2> QED
    BY <1>10, <2>1, <2>2 DEF ClaimWrite
<1> QED
  BY <1>7, <1>8, <1>9, <1>10

LEMMA CascadeGoes ==
  ASSUME AnswerInv, Quiet, NEW t \in Threads,
         \/ NextRead(t) \/ NextRebuild(t) \/ NextTake(t) \/ NextCreate(t)
         \/ NextPublish(t) \/ Exhaust(t) \/ ExhaustTell(t) \/ Tell(t)
  PROVE  AnswersHold'
<1>1. job[t] \in Jobs
  BY DEF AnswerInv, TypeInv, TypeOK
<1>2. UNCHANGED <<settle, won, orphans>>
  BY DEF NextRead, NextRebuild, NextTake, NextCreate, NextPublish, Exhaust,
     ExhaustTell, Tell
<1>3. ~Answering(job[t])
  BY Aside DEF NextRead, NextRebuild, NextTake, NextCreate, NextPublish,
     Exhaust, ExhaustTell, Tell, At, Accepting, ClaimSteps
<1>4. ASSUME NEW j, Become(t, j), ~Answering(j) PROVE AnswersHold'
  BY <1>2, <1>3, <1>4, AsideKeeps
<1> DEFINE Labels == {"next_rebuild", "next_take", "next_create",
                      "next_publish", "exhaust", "exhaust_tell"}
<1>5. \A label \in Labels : label \notin Accepting
  BY DEF Accepting, ClaimSteps
<1> HIDE DEF Labels
<1>6. ASSUME NEW j, Become(t, j), j.pc \in Labels PROVE AnswersHold'
  BY <1>4, <1>5, <1>6, Aside
<1>7. CASE NextRead(t)
  <2>1. Return(t) \/ \E h : Become(t, [job[t] EXCEPT
          !.pc = IF h = None THEN "next_rebuild" ELSE "next_take", !.queue = h])
    BY <1>7 DEF NextRead
  <2>2. ASSUME NEW h
        PROVE  [job[t] EXCEPT !.pc = IF h = None THEN "next_rebuild"
                  ELSE "next_take", !.queue = h].pc \in Labels
    BY <1>1 DEF Jobs, Labels
  <2> QED
    BY <1>4, <1>6, <2>1, <2>2, ReturnAside
<1>8. CASE NextRebuild(t)
  <2>1. Goto(t, "exhaust") \/ \E r : Enqueue(t, r, "next_take")
    BY <1>8 DEF NextRebuild
  <2>2. \A h : [job[t] EXCEPT !.pc = "next_take", !.queue = h].pc \in Labels
    BY <1>1 DEF Jobs, Labels
  <2>3. [job[t] EXCEPT !.pc = "exhaust"].pc \in Labels
    BY <1>1 DEF Jobs, Labels
  <2>4. ASSUME NEW r, Enqueue(t, r, "next_take")
        PROVE  \E h : Become(t, [job[t] EXCEPT !.pc = "next_take", !.queue = h])
    BY <2>4 DEF Enqueue
  <2> QED
    BY <1>6, <2>1, <2>2, <2>3, <2>4 DEF Goto
<1>9. CASE NextTake(t)
  <2>1. \/ Become(t, [job[t] EXCEPT !.pc = "exhaust", !.queue = None])
        \/ \E a : Become(t, [job[t] EXCEPT !.pc = "next_create", !.agent = a])
        \/ UNCHANGED job
    BY <1>9 DEF NextTake
  <2>2. /\ [job[t] EXCEPT !.pc = "exhaust", !.queue = None].pc \in Labels
        /\ \A a : [job[t] EXCEPT !.pc = "next_create", !.agent = a].pc \in Labels
    BY <1>1 DEF Jobs, Labels
  <2> QED
    BY <1>2, <1>6, <2>1, <2>2, JobsStand
<1>10. CASE NextCreate(t)
  <2>1. \/ Become(t, [job[t] EXCEPT !.pc = "next_take", !.agent = None])
        \/ \E o : Become(t, [job[t] EXCEPT !.pc = "next_publish",
                             !.agent = None, !.offer = o, !.queue = None])
    BY <1>10 DEF NextCreate
  <2>2. /\ [job[t] EXCEPT !.pc = "next_take", !.agent = None].pc \in Labels
        /\ \A o : [job[t] EXCEPT !.pc = "next_publish", !.agent = None,
                    !.offer = o, !.queue = None].pc \in Labels
    BY <1>1 DEF Jobs, Labels
  <2> QED
    BY <1>6, <2>1, <2>2
<1>11. CASE NextPublish(t) \/ ExhaustTell(t)
  BY <1>4, <1>11, ReturnAside DEF NextPublish, ExhaustTell
<1>12. CASE Exhaust(t)
  <2>1. [job[t] EXCEPT !.pc = "exhaust_tell"].pc \in Labels
    BY <1>1 DEF Jobs, Labels
  <2> QED
    BY <1>6, <1>12, <2>1 DEF Exhaust, Goto
<1>13. CASE Tell(t)
  BY <1>4, <1>13, AsideEnded DEF Tell
<1> QED
  BY <1>7, <1>8, <1>9, <1>10, <1>11, <1>12, <1>13

(* The vendor's threads hold no answer.                                    *)
LEMMA VendorGoes ==
  ASSUME AnswerInv, Quiet, NEW v \in VendorCalls,
         \/ VendorStep(v)
         \/ \E p \in Procs : MarkReadyRead(v, p) \/ RejectOrderRead(v, p)
  PROVE  AnswersHold'
<1>1. v \in Threads /\ v \notin Agents
  BY ConstantsAssumption DEF Threads
<1>2. \E j : Become(v, j)
  BY DEF VendorStep, MarkReadyRead, RejectOrderRead, MarkReadySave,
     RejectOrderSave, HardRank, StartCancel, StartClear, StartRank, Goto, Enqueue
<1>3. UNCHANGED <<settle, won, orphans>>
  BY DEF VendorStep, MarkReadyRead, RejectOrderRead, MarkReadySave,
     RejectOrderSave, HardRank, StartCancel, StartClear, StartRank
<1> QED
  BY <1>1, <1>2, <1>3, PlainKeeps

LEMMA RequestGoes ==
  ASSUME AnswerInv, Quiet, NEW a \in Agents, NEW p \in Procs,
         CourierRequest(a, p)
  PROVE  AnswersHold'
<1>1. a \in Threads /\ a \notin VendorCalls
  BY ConstantsAssumption DEF Threads
<1>2. ~Answering(job[a]) /\ UNCHANGED <<settle, won, orphans>>
  BY Aside DEF CourierRequest, AcceptLoad, DeclineLoad, ClaimBegin, AbandonRead,
     At, Accepting, ClaimSteps
<1>3. CASE ClaimBegin(a, p)
  <2> DEFINE j == [Begin(p, "claim_check") EXCEPT !.agent = a]
  <2>1. j \in Jobs /\ j.pc \in ClaimSteps /\ j.offer = None
    BY DEF Begin, Idle, Jobs, Steps, ClaimSteps
  <2>2. Become(a, Checked(a, j))
    BY <1>3 DEF ClaimBegin
  <2> HIDE DEF j
  <2> QED
    BY <1>1, <1>2, <2>1, <2>2, CheckedGoes, AsideKeeps
<1>4. ASSUME NEW o \in OfferIds, DeclineLoad(a, o, p) PROVE AnswersHold'
  <2>1. [Begin(p, "decline_claim") EXCEPT !.read = o].pc \notin Accepting
    BY DEF Begin, Idle, Accepting, ClaimSteps
  <2> QED
    BY <1>1, <1>2, <1>4, <2>1, Aside, AsideKeeps DEF DeclineLoad
<1>5. CASE AbandonRead(a, p)
  <2>1. "abandon_save" \notin Accepting
    BY DEF Accepting, ClaimSteps
  <2> QED
    BY <1>1, <1>2, <1>5, <2>1, AsideBegin, AsideKeeps DEF AbandonRead
<1>6. ASSUME NEW o \in OfferIds, AcceptLoad(a, o, p) PROVE AnswersHold'
  <2> DEFINE j == [Begin(p, "accept_claim") EXCEPT !.agent = a, !.offer = o]
  <2>1. /\ j.pc = "accept_claim" /\ j.agent = a /\ j.offer = o
    BY DEF Begin, Idle
  <2>2. Become(a, j) /\ UNCHANGED offers
    BY <1>6 DEF AcceptLoad
  <2>3. offers[o].agent = a /\ offers[o].status # "free"
    BY <1>6 DEF AcceptLoad, Answerable, Pending
  <2> HIDE DEF j
  <2>4. \A b \in Agents : job'[b] = IF b = a THEN j ELSE job[b]
    BY <1>1, <2>2 DEF AnswerInv, TypeInv, TypeOK, Become, Threads
  <2>5. \A b \in Agents : AnswerOK(b)'
    BY <1>6, <2>1, <2>2, <2>3, <2>4 DEF AnswerInv, AnswersHold, AnswerOK
  <2>6. ASSUME NEW q \in OfferIds PROVE AcceptedOK(q)'
    <3>1. ~InAccept(a, q)
      BY <1>2, InAcceptIs
    <3>2. \A b \in Agents : b # a => (InAccept(b, q)' <=> InAccept(b, q))
      BY <2>4 DEF InAccept
    <3> QED
      BY <1>2, <2>2, <3>1, <3>2 DEF AnswerInv, AnswersHold, AcceptedOK
  <2> QED
    BY <1>2, <2>5, <2>6 DEF AnswerInv, AnswersHold, WinnersSettle
<1> QED
  BY <1>3, <1>4, <1>5, <1>6 DEF CourierRequest

(* The steps of a courier that accept nothing and take nothing back.       *)
LEMMA CourierGoes ==
  ASSUME AnswerInv, Quiet, NEW a \in Agents,
         \/ AcceptClear(a) \/ DeclineClaim(a) \/ DeclineClear(a)
         \/ AbandonSave(a) \/ Toggle(a)
         \/ AcceptClaim(a) /\ ~Pending(job[a].offer)
  PROVE  AnswersHold'
<1>1. a \in Threads /\ job[a] \in Jobs
  BY DEF Threads, AnswerInv, TypeInv, TypeOK
<1>2. UNCHANGED <<settle, won, orphans>>
  BY DEF AcceptClear, DeclineClaim, DeclineClear, AbandonSave, Toggle, AcceptClaim
<1>3. CASE Toggle(a)
  BY <1>2, <1>3, JobsStand DEF Toggle
<1>4. CASE AcceptClear(a)
  <2> DEFINE j == [job[a] EXCEPT !.pc = "claim_check"]
  <2>1. j.pc = "claim_check" /\ j.offer = job[a].offer /\ j.agent = job[a].agent
    BY <1>1 DEF Jobs
  <2>2. job[a].pc = "accept_clear" /\ Answering(job[a]) /\ job[a].offer # None
    BY <1>4, ConstantsAssumption DEF AcceptClear, At, Answering, Accepting,
       ClaimSteps, AnswerInv, AnswersHold, AnswerOK, OfferIds
  <2>3. Become(a, j)
    BY <1>4 DEF AcceptClear, Goto
  <2> HIDE DEF j
  <2>4. Answering(j)
    BY <2>1, <2>2 DEF Answering, Accepting, ClaimSteps
  <2>5. Goes(a, j)
    BY <2>1, <2>2, <2>4 DEF Goes
  <2> QED
    BY <1>1, <1>2, <2>3, <2>5, PlainKeeps
<1>5. CASE DeclineClaim(a) \/ DeclineClear(a) \/ AbandonSave(a)
  <2>1. ~Answering(job[a])
    BY <1>5, Aside DEF DeclineClaim, DeclineClear, AbandonSave, At, Accepting,
       ClaimSteps
  <2>2. {"decline_clear", "next_read", "tell"} \cap Accepting = {}
    BY DEF Accepting, ClaimSteps
  <2>3. \/ Return(a) \/ Goto(a, "decline_clear") \/ Goto(a, "tell")
        \/ Become(a, Begin(job[a].at, "next_read"))
    BY <1>5 DEF DeclineClaim, DeclineClear, AbandonSave
  <2>4. \E j : Become(a, j) /\ ~Answering(j)
    BY <1>1, <2>2, <2>3, ReturnAside, GotoAside, AsideBegin DEF AnswerInv
  <2> QED
    BY <1>1, <1>2, <2>1, <2>4, AsideKeeps
<1>6. CASE AcceptClaim(a) /\ ~Pending(job[a].offer)
  <2>1. PICK j : Become(a, j) /\ ~Answering(j)
    BY <1>6, ReturnAside DEF AcceptClaim
  <2>2. Goes(a, j)
    BY <1>6, <2>1 DEF Goes, AcceptClaim, At
  <2> QED
    BY <1>1, <1>2, <2>1, <2>2, PlainKeeps
<1> QED
  BY <1>3, <1>4, <1>5, <1>6

LEMMA CronGoes ==
  ASSUME AnswerInv, Quiet, NEW p \in Procs, CronStep(p)
  PROVE  AnswersHold'
<1>1. p \in Threads /\ p \notin Agents
  BY ConstantsAssumption DEF Threads
<1>2. \E j : Become(p, j)
  BY DEF CronStep, ExpireFind, ExpireClaim, ExpireClear, Goto, Return
<1>3. UNCHANGED <<settle, won, orphans>>
  BY DEF CronStep, ExpireFind, ExpireClaim, ExpireClear
<1> QED
  BY <1>1, <1>2, <1>3, PlainKeeps

(* A restart kills answers: the offers they had accepted are orphans.      *)
LEMMA CrashGoes ==
  ASSUME AnswerInv, NEW p \in Procs, Crash(p)
  PROVE  AnswersHold'
<1>1. ASSUME NEW a \in Agents
      PROVE  job'[a] = IF job[a].at = p THEN Idle ELSE job[a]
  <2>1. a \in Threads /\ Ended(a) = Idle
    BY ConstantsAssumption DEF Threads, Ended
  <2> QED
    BY <2>1 DEF Crash
<1>2. UNCHANGED <<offers, won>> /\ orphans \subseteq orphans'
  BY DEF Crash
<1>3. WinnersSettle'
  BY <1>2 DEF Crash, AnswerInv, AnswersHold, WinnersSettle, Settled
<1>4. \A a \in Agents : AnswerOK(a)'
  BY <1>1, <1>2, AsideIdle DEF AnswerInv, AnswersHold, AnswerOK
<1>5. ASSUME NEW o \in OfferIds PROVE AcceptedOK(o)'
  <2>1. \A a \in Agents : InAccept(a, o) => InAccept(a, o)' \/ o \in orphans'
    BY <1>1 DEF Crash, InAccept
  <2> QED
    BY <1>2, <2>1 DEF AnswerInv, AnswersHold, AcceptedOK
<1> QED
  BY <1>3, <1>4, <1>5 DEF AnswersHold

(* acceptOffer's write on the pending offer.                               *)
LEMMA AcceptGoes ==
  ASSUME AnswerInv, NEW a \in Agents, AcceptClaim(a), Pending(job[a].offer)
  PROVE  AnswersHold'
<1>1. a \in Threads /\ job[a] \in Jobs /\ job[a].pc = "accept_claim"
  BY DEF Threads, AnswerInv, TypeInv, TypeOK, AcceptClaim, At
<1> DEFINE j == [job[a] EXCEPT !.pc = "accept_clear"]
<1>2. j.pc = "accept_clear" /\ j.offer = job[a].offer /\ j.agent = job[a].agent
  BY <1>1 DEF Jobs
<1>3. Become(a, j)
  BY DEF AcceptClaim, Goto
<1> HIDE DEF j
<1>4. \A b \in Agents : job'[b] = IF b = a THEN j ELSE job[b]
  BY <1>3 DEF AnswerInv, TypeInv, TypeOK, Become, Threads
<1>5. PICK o \in OfferIds : o = job[a].offer /\ offers[o].agent = a
  BY <1>1 DEF AnswerInv, AnswersHold, AnswerOK, Answering, Accepting, ClaimSteps
<1>6. \A q \in OfferIds : /\ offers'[q].agent = offers[q].agent
                          /\ offers'[q].status = IF q = o THEN "accepted"
                                                ELSE offers[q].status
  BY <1>5 DEF AcceptClaim, AnswerInv, TypeInv, TypeOK, Rows
<1>7. UNCHANGED <<settle, won, orphans>>
  BY DEF AcceptClaim
<1>8. \A b \in Agents : AnswerOK(b)'
  <2>1. AnswerOK(a)'
    BY <1>1, <1>2, <1>4, <1>5, <1>6 DEF AnswerInv, AnswersHold, AnswerOK,
       Answering, Accepting, ClaimSteps
  <2>2. ASSUME NEW b \in Agents, b # a PROVE AnswerOK(b)'
    BY <1>4, <1>6, <2>2 DEF AnswerInv, AnswersHold, AnswerOK
  <2> QED
    BY <2>1, <2>2
<1>9. ASSUME NEW q \in OfferIds PROVE AcceptedOK(q)'
  <2>1. InAccept(a, o)'
    BY <1>2, <1>4, <1>5 DEF InAccept
  <2>2. ~InAccept(a, q)
    BY <1>1 DEF InAccept, ClaimSteps
  <2>3. \A b \in Agents : b # a => (InAccept(b, q)' <=> InAccept(b, q))
    BY <1>4 DEF InAccept
  <2> QED
    BY <1>5, <1>6, <1>7, <2>1, <2>2, <2>3
       DEF AnswerInv, AnswersHold, AcceptedOK
<1> QED
  BY <1>7, <1>8, <1>9 DEF AnswerInv, AnswersHold, WinnersSettle

(* What the undo writes on: the accepted offer of the courier itself.      *)
LEMMA UndoneOffer ==
  ASSUME AnswerInv, NEW a \in Agents, At(a, "accept_undo")
  PROVE  /\ job[a].offer \in OfferIds /\ offers[job[a].offer].agent = a
         /\ offers[job[a].offer].status = "accepted"
BY DEF AnswerInv, AnswersHold, AnswerOK, At, Answering, Accepting, ClaimSteps

LEMMA UndoGoes ==
  ASSUME AnswerInv, NEW a \in Agents, AcceptUndo(a)
  PROVE  AnswersHold'
<1>1. PICK o \in OfferIds : /\ o = job[a].offer /\ offers[o].agent = a
                           /\ offers[o].status = "accepted"
  BY UndoneOffer DEF AcceptUndo
<1>2. \A b \in Agents : job'[b] = IF b = a THEN Idle ELSE job[b]
  <2>1. a \in Threads /\ a \notin VendorCalls
    BY ConstantsAssumption DEF Threads
  <2> QED
    BY <2>1 DEF AcceptUndo, Return, Become, AnswerInv, TypeInv, TypeOK, Threads
<1>3. \A q \in OfferIds : /\ offers'[q].agent = offers[q].agent
                          /\ offers'[q].status = IF q = o THEN "cancelled"
                                                ELSE offers[q].status
  BY <1>1 DEF AcceptUndo, AnswerInv, TypeInv, TypeOK, Rows
<1>4. UNCHANGED <<settle, won, orphans>>
  BY DEF AcceptUndo
<1>5. \A b \in Agents : AnswerOK(b)'
  BY <1>1, <1>2, <1>3, AsideIdle DEF AnswerInv, AnswersHold, AnswerOK
<1>6. ASSUME NEW q \in OfferIds PROVE AcceptedOK(q)'
  <2>1. InAccept(a, q) => q = o
    BY <1>1 DEF InAccept
  <2>2. \A b \in Agents : b # a => (InAccept(b, q)' <=> InAccept(b, q))
    BY <1>2 DEF InAccept
  <2> QED
    BY <1>1, <1>3, <1>4, <2>1, <2>2 DEF AnswerInv, AnswersHold, AcceptedOK
<1> QED
  BY <1>4, <1>5, <1>6 DEF AnswerInv, AnswersHold, WinnersSettle

(* The settlement of a winner accepts that winner's pending offer.         *)
LEMMA SettleGoes ==
  ASSUME AnswerInv, NEW a \in Agents, SettleStep(a), ~SettleMatch(a) => Quiet
  PROVE  AnswersHold'
<1>1. UNCHANGED <<job, won, orphans>>
  BY DEF SettleStep, SettleMatch, SettleClear, SettleCancel
<1>2. WinnersSettle'
  <2>1. \A b \in Agents : settle'[b].pc = "match" => settle[b].pc = "match"
    <3>1. settle \in [Agents -> Settlements] /\ Settled.pc = "idle"
      BY DEF AnswerInv, TypeInv, TypeOK, Settled
    <3>2. \E s : s.pc # "match" /\ settle' = [settle EXCEPT ![a] = s]
      <4>1. /\ [settle[a] EXCEPT !.pc = "clear"].pc # "match"
            /\ [settle[a] EXCEPT !.pc = "cancel"].pc # "match"
        BY <3>1 DEF Settlements
      <4> QED
        BY <3>1, <4>1 DEF SettleStep, SettleMatch, SettleClear, SettleCancel
    <3> QED
      BY <3>1, <3>2
  <2> QED
    BY <1>1, <2>1 DEF AnswerInv, AnswersHold, WinnersSettle
<1>3. CASE ~SettleMatch(a)
  BY <1>1, <1>2, <1>3, AnswersKept DEF Goes
<1>4. CASE SettleMatch(a)
  <2>1. a \in won
    BY <1>4 DEF SettleMatch, AnswerInv, AnswersHold, WinnersSettle
  <2>2. \A q \in OfferIds :
          \/ offers'[q] = offers[q]
          \/ /\ Pending(q) /\ offers[q].agent = a
             /\ offers'[q].agent = a /\ offers'[q].status = "accepted"
    BY <1>4 DEF SettleMatch, AnswerInv, TypeInv, TypeOK, Rows
  <2>3. \A b \in Agents : AnswerOK(b)'
    BY <1>1, <2>2 DEF AnswerInv, AnswersHold, AnswerOK, Pending
  <2>4. ASSUME NEW q \in OfferIds PROVE AcceptedOK(q)'
    <3>1. \A b \in Agents : InAccept(b, q)' <=> InAccept(b, q)
      BY <1>1 DEF InAccept
    <3> QED
      BY <1>1, <2>1, <2>2, <3>1 DEF AnswerInv, AnswersHold, AcceptedOK
  <2> QED
    BY <1>2, <2>3, <2>4 DEF AnswersHold
<1> QED
  BY <1>3, <1>4

LEMMA AnswerStep == AnswerInv /\ [Next]_vars => AnswerInv'
<1> SUFFICES ASSUME AnswerInv, [Next]_vars PROVE AnswerInv'
  OBVIOUS
<1>1. TypeInv'
  BY StepType DEF AnswerInv
<1>2. CASE UNCHANGED vars
  BY <1>1, <1>2, QuietUnchanged, JobsStand DEF vars, AnswerInv
<1>3. ASSUME Next, Quiet PROVE AnswersHold'
  <2>1. ASSUME NEW t \in Threads, Continue(t) PROVE AnswersHold'
    BY <1>3, <2>1, ClaimGoes, CascadeGoes DEF Continue
  <2>2. ASSUME NEW v \in VendorCalls,
               \/ VendorStep(v)
               \/ \E p \in Procs : MarkReadyRead(v, p) \/ RejectOrderRead(v, p)
        PROVE  AnswersHold'
    BY <1>3, <2>2, VendorGoes
  <2>3. ASSUME NEW a \in Agents, CourierStep(a) PROVE AnswersHold'
    BY <1>3, <2>3, CourierGoes, AcceptGoes, UndoGoes DEF CourierStep
  <2>4. ASSUME NEW a \in Agents,
               \/ SettleStep(a) \/ Toggle(a)
               \/ \E p \in Procs : CourierRequest(a, p)
        PROVE  AnswersHold'
    BY <1>3, <2>4, SettleGoes, CourierGoes, RequestGoes
  <2>5. ASSUME NEW p \in Procs, CronStep(p) \/ Crash(p) PROVE AnswersHold'
    BY <1>3, <2>5, CronGoes, CrashGoes
  <2>6. ASSUME NEW o \in OfferIds, Tick(o) PROVE AnswersHold'
    BY <1>3, <2>6, JobsStand DEF Tick
  <2> QED
    BY <1>3, <2>1, <2>2, <2>3, <2>4, <2>5, <2>6 DEF Next
<1>4. ASSUME NEW a \in Agents, Answers(a), ~Quiet PROVE AnswersHold'
  <2>1. CASE AcceptClaim(a)
    <3>1. ~Pending(job[a].offer) => UNCHANGED offers
      BY <2>1 DEF AcceptClaim
    <3> QED
      BY <1>4, <2>1, <3>1, QuietUnchanged, AcceptGoes
  <2> QED
    BY <1>4, <2>1, UndoGoes, SettleGoes DEF Answers, SettleStep
<1>5. CASE Next
  BY <1>1, <1>3, <1>4, <1>5, RowsMove DEF AnswerInv
<1> QED
  BY <1>2, <1>5

-----------------------------------------------------------------------------
(* The theorems about the answers                                          *)

(* acceptOffer writes "accepted" before the claim that may fail: however   *)
(* claims, settlements, expiries and restarts overlap, an accepted row     *)
(* stands for a winner, for a call under way, or for one a restart killed  *)
(* between its two writes.                                                 *)
THEOREM AcceptedStands == Spec => []AcceptedWonOrKilled
<1>1. AnswerInv => AcceptedWonOrKilled
  BY DEF AnswerInv, AnswersHold, AcceptedOK, AcceptedWonOrKilled
<1> QED
  BY <1>1, AnswerInit, AnswerStep, PTL DEF Spec

TakenBack ==
  \E o \in OfferIds :
    /\ offers[o].status \notin {"free", "pending", offers'[o].status}
    /\ ~(/\ offers[o].status = "accepted" /\ offers'[o].status = "cancelled"
         /\ At(offers[o].agent, "accept_undo"))

LEMMA NotTakenBack == AnswerInv /\ [Next]_vars => ~TakenBack
<1> SUFFICES ASSUME AnswerInv, [Next]_vars PROVE ~TakenBack
  OBVIOUS
<1>1. CASE Quiet
  BY <1>1 DEF Quiet, RowStands, TakenBack
<1>2. ASSUME NEW a \in Agents, AcceptClaim(a) \/ SettleMatch(a) PROVE ~TakenBack
  BY <1>2 DEF AcceptClaim, SettleMatch, Pending, TakenBack, AnswerInv, TypeInv,
     TypeOK, Rows
<1>3. ASSUME NEW a \in Agents, AcceptUndo(a) PROVE ~TakenBack
  <2>1. PICK o \in OfferIds : /\ o = job[a].offer /\ offers[o].agent = a
                             /\ offers[o].status = "accepted"
    BY <1>3, UndoneOffer DEF AcceptUndo
  <2>2. \A q \in OfferIds : offers'[q].status = IF q = o THEN "cancelled"
                                                ELSE offers[q].status
    BY <1>3, <2>1 DEF AcceptUndo, AnswerInv, TypeInv, TypeOK, Rows
  <2> QED
    BY <1>3, <2>1, <2>2 DEF AcceptUndo, TakenBack
<1>4. CASE Next
  BY <1>1, <1>2, <1>3, <1>4, RowsMove DEF AnswerInv, Answers
<1>5. CASE UNCHANGED vars
  BY <1>1, <1>5, QuietUnchanged DEF vars
<1> QED
  BY <1>4, <1>5

(* A courier's answer, an expiry or a cancellation is final; only the      *)
(* acceptance whose claim failed is taken back, by its own call.           *)
THEOREM FinalAnswers == Spec => AnswersAreFinal
<1>1. AnswerInv /\ [Next]_vars =>
        [\A o \in OfferIds :
           offers[o].status \notin {"free", "pending", offers'[o].status} =>
             /\ offers[o].status = "accepted" /\ offers'[o].status = "cancelled"
             /\ At(offers[o].agent, "accept_undo")]_vars
  BY NotTakenBack DEF TakenBack
<1> QED
  BY <1>1, AnswerInit, AnswerStep, PTL DEF Spec, AnswersAreFinal

-----------------------------------------------------------------------------
(* A claim honours the offer it saw live                                   *)

(* Past its look at the order a claim knows the offer it saw: a used row   *)
(* of another courier, which nobody is still to publish.  When it is about *)
(* to read a row, that is the one it saw or the one it saw is no more the  *)
(* active one; when it is about to write, that one is no more live.        *)
Watching == {"claim_read_active", "claim_read_offer", "claim_write"}
Watch(j) == j.pc \in Watching /\ j.seen # None =>
  /\ j.seen \in OfferIds /\ offers[j.seen].status # "free"
  /\ offers[j.seen].agent # j.agent
  /\ \A u \in Threads : At(u, "next_publish") => job[u].offer # j.seen
  /\ j.pc = "claim_read_offer" =>
       j.read = j.seen \/ order.activeOffer # j.seen
  /\ j.pc = "claim_write" =>
       order.activeOffer # j.seen \/ ~Pending(j.seen)

(* An offer is published once, by the call that made it.                   *)
PublishOK(t) == At(t, "next_publish") =>
  /\ job[t].offer \in OfferIds /\ offers[job[t].offer].status # "free"
  /\ order.activeOffer # job[t].offer
  /\ \A u \in Threads : u # t /\ At(u, "next_publish") =>
       job[u].offer # job[t].offer
ActiveOK == order.activeOffer # None =>
              offers[order.activeOffer].status # "free"

HonourHold == ActiveOK /\ \A t \in Threads : Watch(job[t]) /\ PublishOK(t)
HonourInv == TypeInv /\ HonourHold

Busy == Watching \cup {"next_publish"}

LEMMA HonourInit == Init => HonourInv
<1> SUFFICES ASSUME Init PROVE HonourInv
  OBVIOUS
<1>1. \A t \in Threads : job[t].pc = "idle"
  BY DEF Init, Idle
<1> QED
  BY <1>1, InitType
     DEF Init, HonourInv, HonourHold, ActiveOK, Watch, Watching, PublishOK, At

Grows == \A o \in OfferIds : RowGrows(o)

LEMMA RowsGrow == ASSUME TypeInv, [Next]_vars PROVE Grows
<1>1. CASE UNCHANGED vars
  BY <1>1 DEF vars, Grows, RowGrows
<1>2. ASSUME NEW a \in Agents, Answers(a) PROVE Grows
  <2>1. ASSUME NEW o, NEW s \in {"accepted", "cancelled"},
               offers' = [offers EXCEPT ![o].status = s]
        PROVE  Grows
    BY <2>1 DEF Grows, RowGrows, TypeInv, TypeOK, Rows
  <2>2. CASE AcceptClaim(a) \/ AcceptUndo(a)
    <3>1. \/ UNCHANGED offers
          \/ \E o, s : /\ s \in {"accepted", "cancelled"}
                       /\ offers' = [offers EXCEPT ![o].status = s]
      BY <2>2 DEF AcceptClaim, AcceptUndo
    <3> QED
      BY <2>1, <3>1 DEF Grows, RowGrows
  <2>3. CASE SettleMatch(a)
    BY <2>3 DEF SettleMatch, Grows, RowGrows, Pending, TypeInv, TypeOK, Rows
  <2> QED
    BY <1>2, <2>2, <2>3 DEF Answers
<1>3. CASE Next
  BY <1>2, <1>3, RowsMove DEF Quiet, Grows
<1> QED
  BY <1>1, <1>3

(* Steps that publish nothing and after which nobody knows more than what  *)
(* Watch says.                                                             *)
LEMMA HonourKept ==
  ASSUME HonourInv, Grows, order'.activeOffer \in {None, order.activeOffer},
         \A u \in Threads : \/ job'[u] = job[u]
                            \/ job'[u].pc # "next_publish" /\ Watch(job'[u])
  PROVE  HonourHold'
<1>1. order.activeOffer \in OfferIds \cup {None} /\ None \notin OfferIds
  BY ConstantsAssumption DEF HonourInv, TypeInv, TypeOK, Orders, OfferIds
<1>2. ActiveOK'
  BY <1>1 DEF HonourInv, HonourHold, ActiveOK, Grows, RowGrows
<1>3. \A u \in Threads : At(u, "next_publish")' =>
                            At(u, "next_publish") /\ job'[u] = job[u]
  BY DEF At
<1>4. ASSUME NEW t \in Threads PROVE Watch(job[t])' /\ PublishOK(t)'
  <2>1. PublishOK(t)'
    BY <1>1, <1>3 DEF HonourInv, HonourHold, PublishOK, Grows, RowGrows
  <2>2. Watch(job'[t])
    BY DEF HonourInv, HonourHold
  <2>3. ASSUME NEW j, Watch(j), j.pc \in Watching, j.seen # None
        PROVE  /\ j.seen \in OfferIds /\ offers'[j.seen].status # "free"
               /\ offers'[j.seen].agent # j.agent
               /\ \A u \in Threads : At(u, "next_publish")' =>
                                        job'[u].offer # j.seen
               /\ j.pc = "claim_read_offer" =>
                    j.read = j.seen \/ order'.activeOffer # j.seen
               /\ j.pc = "claim_write" =>
                    order'.activeOffer # j.seen
                      \/ offers'[j.seen].status # "pending"
    BY <1>1, <1>3, <2>3 DEF Watch, Grows, RowGrows, Pending
  <2> QED
    BY <2>1, <2>2, <2>3 DEF Watch, Pending
<1> QED
  BY <1>2, <1>4 DEF HonourHold

LEMMA HonourThread ==
  ASSUME HonourInv, Grows, order'.activeOffer \in {None, order.activeOffer},
         NEW t \in Threads, NEW j, Become(t, j), j.pc # "next_publish", Watch(j)
  PROVE  HonourHold'
<1>1. \A u \in Threads : job'[u] = IF u = t THEN j ELSE job[u]
  BY DEF HonourInv, TypeInv, TypeOK, Become
<1> QED
  BY <1>1, HonourKept

LEMMA HonourIdle ==
  ASSUME HonourInv, Grows, order'.activeOffer \in {None, order.activeOffer},
         NEW t \in Threads, \E j : Become(t, j) /\ j.pc \notin Busy
  PROVE  HonourHold'
BY HonourThread DEF Busy, Watch

-----------------------------------------------------------------------------
(* The steps of a claim                                                    *)

(* The order document as it is checked: the offer it names is used, and    *)
(* nobody is to publish it again.                                          *)
LEMMA CheckedWatches ==
  ASSUME HonourInv, NEW t, NEW j \in Jobs, j.pc = "claim_check"
  PROVE  Checked(t, j).pc # "next_publish" /\ Watch(Checked(t, j))
<1> DEFINE k(o) == [j EXCEPT !.pc = "claim_read_active", !.seen = o]
<1>1. \A o : /\ k(o).pc = "claim_read_active" /\ k(o).seen = o
             /\ k(o).agent = j.agent
  BY DEF Jobs
<1>2. \A why : Refused(t, j, why).pc \notin Busy
  BY DEF Refused, Begin, Idle, Jobs, Busy, Watching
<1>3. \/ \E why : Checked(t, j) = Refused(t, j, why)
      \/ Checked(t, j) = k(None)
      \/ /\ order.activeOffer # None /\ LiveForOther(j.agent, order.activeOffer)
         /\ Checked(t, j) = k(order.activeOffer)
  BY DEF Checked
<1> HIDE DEF k
<1>4. ASSUME order.activeOffer # None, LiveForOther(j.agent, order.activeOffer)
      PROVE  Watch(k(order.activeOffer))
  <2>1. order.activeOffer \in OfferIds
    BY <1>4 DEF HonourInv, TypeInv, TypeOK, Orders
  <2> QED
    BY <1>1, <1>4, <2>1 DEF Watch, LiveForOther, Pending, HonourInv, HonourHold,
       PublishOK
<1> QED
  BY <1>1, <1>2, <1>3, <1>4 DEF Watch, Busy

LEMMA ClaimHonours ==
  ASSUME HonourInv, Grows, NEW t \in Threads,
         ClaimCheck(t) \/ ClaimReadActive(t) \/ ClaimReadOffer(t)
  PROVE  HonourHold'
<1>1. job[t] \in Jobs /\ Watch(job[t]) /\ UNCHANGED order
  BY DEF HonourInv, HonourHold, TypeInv, TypeOK, ClaimCheck, ClaimReadActive,
     ClaimReadOffer
<1>2. CASE ClaimCheck(t)
  <2>1. Watch(Checked(t, job[t])) /\ Checked(t, job[t]).pc # "next_publish"
    BY <1>1, <1>2, CheckedWatches DEF ClaimCheck, At
  <2> QED
    BY <1>1, <1>2, <2>1, HonourThread DEF ClaimCheck
<1>3. CASE ClaimReadActive(t)
  <2> DEFINE j == [job[t] EXCEPT
                     !.pc = IF order.activeOffer = None THEN "claim_write"
                            ELSE "claim_read_offer",
                     !.read = order.activeOffer]
  <2>1. /\ j.pc = IF order.activeOffer = None THEN "claim_write"
                  ELSE "claim_read_offer"
        /\ j.read = order.activeOffer /\ j.seen = job[t].seen
        /\ j.agent = job[t].agent
    BY <1>1 DEF Jobs
  <2>2. Become(t, j)
    BY <1>3 DEF ClaimReadActive
  <2> HIDE DEF j
  <2>3. Watch(j)
    BY <1>1, <1>3, <2>1 DEF ClaimReadActive, At, Watch, Watching
  <2> QED
    BY <1>1, <2>1, <2>2, <2>3, HonourThread
<1>4. CASE ClaimReadOffer(t)
  <2>1. CASE LiveForOther(job[t].agent, job[t].read)
    <3>1. Refused(t, job[t], "exclusive").pc \notin Busy
      BY <1>1 DEF Refused, Begin, Idle, Jobs, Busy, Watching
    <3> QED
      BY <1>1, <1>4, <2>1, <3>1, HonourIdle DEF ClaimReadOffer, Refuse
  <2>2. CASE ~LiveForOther(job[t].agent, job[t].read)
    <3> DEFINE j == [job[t] EXCEPT !.pc = "claim_write", !.read = None]
    <3>1. /\ j.pc = "claim_write" /\ j.seen = job[t].seen
          /\ j.agent = job[t].agent
      BY <1>1 DEF Jobs
    <3>2. Become(t, j)
      BY <1>4, <2>2 DEF ClaimReadOffer
    <3> HIDE DEF j
    <3>3. Watch(j)
      BY <1>1, <1>4, <2>2, <3>1
         DEF ClaimReadOffer, At, LiveForOther, Watch, Watching
    <3> QED
      BY <1>1, <3>1, <3>2, <3>3, HonourThread
  <2> QED
    BY <2>1, <2>2
<1> QED
  BY <1>2, <1>3, <1>4

LEMMA ReturnIdle == ASSUME NEW t, Return(t)
                    PROVE  \E j : Become(t, j) /\ j.pc \notin Busy
<1>1. Begin(job[t].at, "tell").pc \notin Busy /\ Idle.pc \notin Busy
  BY DEF Begin, Idle, Busy, Watching
<1> QED
  BY <1>1 DEF Return

LEMMA GotoIdle ==
  ASSUME HonourInv, NEW t \in Threads, NEW label, label \notin Busy,
         Goto(t, label)
  PROVE  \E j : Become(t, j) /\ j.pc \notin Busy
<1>1. [job[t] EXCEPT !.pc = label].pc = label
  BY DEF HonourInv, TypeInv, TypeOK, Jobs
<1> QED
  BY <1>1 DEF Goto

(* The insert makes an offer nobody knows yet.                             *)
LEMMA CreateHonours ==
  ASSUME HonourInv, Grows, NEW t \in Threads, NextCreate(t)
  PROVE  HonourHold'
<1>1. job[t] \in Jobs /\ UNCHANGED order
  BY DEF HonourInv, TypeInv, TypeOK, NextCreate
<1>2. CASE ~MayInsert
  <2>1. [job[t] EXCEPT !.pc = "next_take", !.agent = None].pc \notin Busy
    BY <1>1 DEF Jobs, Busy, Watching
  <2> QED
    BY <1>1, <1>2, <2>1, HonourIdle DEF NextCreate
<1>3. CASE MayInsert
  <2> DEFINE j == [job[t] EXCEPT !.pc = "next_publish", !.agent = None,
                                 !.offer = Fresh, !.queue = None]
  <2>1. j.pc = "next_publish" /\ j.offer = Fresh
    BY <1>1 DEF Jobs
  <2>2. PICK o \in OfferIds : o = Fresh /\ offers[o].status = "free"
    BY <1>3, FreshType DEF NextCreate
  <2>3. \A u \in Threads : job'[u] = IF u = t THEN j ELSE job[u]
    BY <1>3 DEF NextCreate, Become, HonourInv, TypeInv, TypeOK
  <2> HIDE DEF j
  <2>4. offers'[o].status = "pending"
    BY <1>3, <2>2 DEF NextCreate, Row, HonourInv, TypeInv, TypeOK
  <2>5. ActiveOK'
    BY <1>1 DEF HonourInv, HonourHold, ActiveOK, Grows, RowGrows, TypeInv,
       TypeOK, Orders
  <2>6. order.activeOffer # o
    BY <2>2, ConstantsAssumption DEF HonourInv, HonourHold, ActiveOK, OfferIds
  <2>7. ASSUME NEW u \in Threads PROVE PublishOK(u)'
    BY <1>1, <2>1, <2>2, <2>3, <2>4, <2>6
       DEF HonourInv, HonourHold, PublishOK, At, Grows, RowGrows
  <2>8. ASSUME NEW u \in Threads PROVE Watch(job[u])'
    <3>1. CASE u = t
      BY <2>1, <2>3, <3>1 DEF Watch, Watching
    <3>2. CASE u # t
      <4>1. job'[u] = job[u] /\ Watch(job[u])
        BY <2>3, <3>2 DEF HonourInv, HonourHold
      <4> QED
        BY <1>1, <2>1, <2>2, <2>3, <4>1 DEF Watch, At, Grows, RowGrows, Pending
    <3> QED
      BY <3>1, <3>2
  <2> QED
    BY <2>5, <2>7, <2>8 DEF HonourHold
<1> QED
  BY <1>2, <1>3

(* The publication names an offer that no claim has seen.                  *)
LEMMA PublishHonours ==
  ASSUME HonourInv, NEW t \in Threads, NextPublish(t)
  PROVE  HonourHold'
<1>1. PICK j : Become(t, j) /\ j.pc \notin Busy
  BY ReturnIdle DEF NextPublish
<1>2. \A u \in Threads : job'[u] = IF u = t THEN j ELSE job[u]
  BY <1>1 DEF Become, HonourInv, TypeInv, TypeOK
<1>3. At(t, "next_publish") /\ UNCHANGED offers
  BY DEF NextPublish
<1>4. order'.activeOffer = job[t].offer
  BY DEF NextPublish, HonourInv, TypeInv, TypeOK, Orders
<1>5. ActiveOK'
  BY <1>3, <1>4 DEF ActiveOK, HonourInv, HonourHold, PublishOK
<1>6. ASSUME NEW u \in Threads PROVE PublishOK(u)'
  BY <1>1, <1>2, <1>3, <1>4 DEF HonourInv, HonourHold, PublishOK, At, Busy
<1>7. ASSUME NEW u \in Threads PROVE Watch(job[u])'
  <2>1. CASE u = t
    BY <1>1, <1>2, <2>1 DEF Watch, Busy
  <2>2. CASE u # t
    <3>1. job'[u] = job[u] /\ Watch(job[u])
      BY <1>2, <2>2 DEF HonourInv, HonourHold
    <3>2. \A w \in Threads : At(w, "next_publish")' =>
                             At(w, "next_publish") /\ job'[w] = job[w]
      BY <1>1, <1>2 DEF At, Busy
    <3> QED
      BY <1>3, <1>4, <3>1, <3>2 DEF Watch, Pending
  <2> QED
    BY <2>1, <2>2
<1> QED
  BY <1>5, <1>6, <1>7 DEF HonourHold

-----------------------------------------------------------------------------
(* The other steps publish nothing and leave no claim about to write.      *)

Clears == order'.activeOffer \in {None, order.activeOffer}

LEMMA ClearsWrite ==
  ASSUME HonourInv
  PROVE  /\ UNCHANGED order => Clears
         /\ \A s, c : order' = [order EXCEPT !.status = s, !.courier = c] => Clears
         /\ \A s : order' = [order EXCEPT !.status = s] => Clears
         /\ order' = [order EXCEPT !.activeOffer = None] => Clears
BY DEF Clears, HonourInv, TypeInv, TypeOK, Orders

LEMMA StandsHonour ==
  ASSUME HonourInv, Grows, Clears, UNCHANGED job
  PROVE  HonourHold'
BY HonourKept DEF Clears

LEMMA IdleHonours ==
  ASSUME HonourInv, Grows, Clears, NEW t \in Threads,
         \E j : Become(t, j) /\ j.pc \notin Busy
  PROVE  HonourHold'
BY HonourIdle DEF Clears

LEMMA CascadeHonours ==
  ASSUME HonourInv, Grows, NEW t \in Threads, Continue(t)
  PROVE  HonourHold'
<1>1. job[t] \in Jobs
  BY DEF HonourInv, TypeInv, TypeOK
<1>2. {"exhaust", "exhaust_tell", "next_take", "next_rebuild", "next_create"}
        \cap Busy = {}
  BY DEF Busy, Watching
<1>3. CASE NextRead(t)
  <2>1. Return(t) \/ \E h : Become(t, [job[t] EXCEPT
          !.pc = IF h = None THEN "next_rebuild" ELSE "next_take", !.queue = h])
    BY <1>3 DEF NextRead
  <2>2. \A h : [job[t] EXCEPT !.pc = IF h = None THEN "next_rebuild"
                  ELSE "next_take", !.queue = h].pc \notin Busy
    BY <1>1, <1>2 DEF Jobs
  <2>3. \E j : Become(t, j) /\ j.pc \notin Busy
    BY <2>1, <2>2, ReturnIdle
  <2> QED
    BY <1>3, <2>3, ClearsWrite, IdleHonours DEF NextRead
<1>4. CASE NextRebuild(t)
  <2>1. Goto(t, "exhaust") \/ \E r : Enqueue(t, r, "next_take")
    BY <1>4 DEF NextRebuild
  <2>2. \A h : [job[t] EXCEPT !.pc = "next_take", !.queue = h].pc \notin Busy
    BY <1>1, <1>2 DEF Jobs
  <2>3. ASSUME NEW r, Enqueue(t, r, "next_take")
        PROVE  \E j : Become(t, j) /\ j.pc \notin Busy
    BY <2>2, <2>3 DEF Enqueue
  <2>4. \E j : Become(t, j) /\ j.pc \notin Busy
    BY <1>2, <2>1, <2>3, GotoIdle
  <2> QED
    BY <1>4, <2>4, ClearsWrite, IdleHonours DEF NextRebuild
<1>5. CASE NextTake(t)
  <2>1. \/ Become(t, [job[t] EXCEPT !.pc = "exhaust", !.queue = None])
        \/ \E a : Become(t, [job[t] EXCEPT !.pc = "next_create", !.agent = a])
        \/ UNCHANGED job
    BY <1>5 DEF NextTake
  <2>2. /\ [job[t] EXCEPT !.pc = "exhaust", !.queue = None].pc \notin Busy
        /\ \A a : [job[t] EXCEPT !.pc = "next_create", !.agent = a].pc \notin Busy
    BY <1>1, <1>2 DEF Jobs
  <2>3. UNCHANGED job \/ \E j : Become(t, j) /\ j.pc \notin Busy
    BY <2>1, <2>2
  <2> QED
    BY <1>5, <2>3, ClearsWrite, IdleHonours, StandsHonour DEF NextTake
<1>6. CASE NextCreate(t) \/ NextPublish(t)
  BY <1>6, CreateHonours, PublishHonours
<1>7. CASE Exhaust(t)
  <2>1. \E j : Become(t, j) /\ j.pc \notin Busy
    BY <1>2, <1>7, GotoIdle DEF Exhaust
  <2> QED
    BY <1>7, <2>1, ClearsWrite, IdleHonours DEF Exhaust
<1>8. CASE ExhaustTell(t)
  BY <1>8, ReturnIdle, ClearsWrite, IdleHonours DEF ExhaustTell
<1>9. CASE Tell(t)
  <2>1. Ended(t).pc \notin Busy
    BY DEF Ended, Idle, Busy, Watching
  <2> QED
    BY <1>9, <2>1, ClearsWrite, IdleHonours DEF Tell
<1>10. CASE ClaimCheck(t) \/ ClaimReadActive(t) \/ ClaimReadOffer(t)
  BY <1>10, ClaimHonours
<1>11. CASE ClaimWrite(t)
  <2>1. Refused(t, job[t], "lost").pc \notin Busy
    BY <1>1 DEF Refused, Begin, Idle, Jobs, Busy, Watching
  <2>2. \E j : Become(t, j) /\ j.pc \notin Busy
    BY <1>11, <2>1, ReturnIdle DEF ClaimWrite, Refuse
  <2>3. UNCHANGED order
        \/ \E c : order' = [order EXCEPT !.status = "shipped", !.courier = c]
    BY <1>11 DEF ClaimWrite
  <2> QED
    BY <2>2, <2>3, ClearsWrite, IdleHonours
<1> QED
  BY <1>3, <1>4, <1>5, <1>6, <1>7, <1>8, <1>9, <1>10, <1>11 DEF Continue

LEMMA VendorHonours ==
  ASSUME HonourInv, Grows, NEW v \in VendorCalls,
         \/ VendorStep(v)
         \/ \E p \in Procs : MarkReadyRead(v, p) \/ RejectOrderRead(v, p)
  PROVE  HonourHold'
<1>1. v \in Threads /\ job[v] \in Jobs
  BY DEF Threads, HonourInv, TypeInv, TypeOK
<1>2. Clears
  BY ClearsWrite DEF VendorStep, MarkReadyRead, RejectOrderRead, MarkReadySave,
     RejectOrderSave, HardRank, StartCancel, StartClear, StartRank
<1> DEFINE Labels == {"ready_save", "reject_save", "hard_rank", "start_cancel",
                      "start_clear", "start_rank", "tell", "exhaust",
                      "next_read", "claim_check"}
<1>3. Labels \cap Busy = {}
  BY DEF Busy, Watching
<1>4. ASSUME NEW label \in Labels, Goto(v, label)
      PROVE  \E j : Become(v, j) /\ j.pc \notin Busy
  BY <1>1, <1>3, <1>4, GotoIdle
<1>5. ASSUME NEW p, NEW label \in Labels PROVE Begin(p, label).pc \notin Busy
  BY <1>3 DEF Begin, Idle
<1>6. CASE MarkReadySave(v) \/ StartCancel(v) \/ StartClear(v)
  <2>1. \E label \in Labels : Goto(v, label)
    BY <1>6 DEF MarkReadySave, StartCancel, StartClear
  <2> HIDE DEF Labels
  <2> QED
    BY <1>1, <1>2, <1>4, <2>1, IdleHonours
<1>7. CASE RejectOrderSave(v)
  <2>1. Ended(v).pc \notin Busy
    BY DEF Ended, Idle, Busy, Watching
  <2> QED
    BY <1>1, <1>2, <1>7, <2>1, IdleHonours DEF RejectOrderSave
<1>8. CASE HardRank(v)
  <2>1. \/ Goto(v, "start_cancel")
        \/ \E a : Become(v, [job[v] EXCEPT !.pc = "claim_check", !.agent = a])
    BY <1>8 DEF HardRank
  <2>2. \A a : [job[v] EXCEPT !.pc = "claim_check", !.agent = a].pc \notin Busy
    BY <1>1 DEF Jobs, Busy, Watching
  <2> QED
    BY <1>1, <1>2, <1>4, <2>1, <2>2, IdleHonours
<1>9. CASE StartRank(v)
  <2>1. Goto(v, "exhaust") \/ \E r : Enqueue(v, r, "next_read")
    BY <1>9 DEF StartRank
  <2>2. \A h : [job[v] EXCEPT !.pc = "next_read", !.queue = h].pc \notin Busy
    BY <1>1 DEF Jobs, Busy, Watching
  <2>3. ASSUME NEW r, Enqueue(v, r, "next_read")
        PROVE  \E j : Become(v, j) /\ j.pc \notin Busy
    BY <2>2, <2>3 DEF Enqueue
  <2> QED
    BY <1>1, <1>2, <1>4, <2>1, <2>3, IdleHonours
<1>10. ASSUME NEW p \in Procs, MarkReadyRead(v, p) \/ RejectOrderRead(v, p)
       PROVE  HonourHold'
  <2>1. \E label \in Labels : Become(v, Begin(p, label))
    BY <1>10 DEF MarkReadyRead, RejectOrderRead
  <2> HIDE DEF Labels
  <2> QED
    BY <1>1, <1>2, <1>5, <2>1, IdleHonours
<1> QED
  BY <1>6, <1>7, <1>8, <1>9, <1>10 DEF VendorStep

LEMMA RequestHonours ==
  ASSUME HonourInv, Grows, NEW a \in Agents, NEW p \in Procs,
         CourierRequest(a, p)
  PROVE  HonourHold'
<1>1. a \in Threads
  BY DEF Threads
<1>2. Clears
  BY ClearsWrite DEF CourierRequest, AcceptLoad, DeclineLoad, ClaimBegin,
     AbandonRead
<1>3. CASE ClaimBegin(a, p)
  <2> DEFINE j == [Begin(p, "claim_check") EXCEPT !.agent = a]
  <2>1. j \in Jobs /\ j.pc = "claim_check"
    BY DEF Begin, Idle, Jobs, Steps, ClaimSteps
  <2>2. Become(a, Checked(a, j))
    BY <1>3 DEF ClaimBegin
  <2> HIDE DEF j
  <2> QED
    BY <1>1, <1>2, <2>1, <2>2, CheckedWatches, HonourThread DEF Clears
<1>4. ASSUME NEW o \in OfferIds, AcceptLoad(a, o, p) \/ DeclineLoad(a, o, p)
      PROVE  HonourHold'
  <2>1. /\ [Begin(p, "accept_claim") EXCEPT !.agent = a, !.offer = o].pc
             \notin Busy
        /\ [Begin(p, "decline_claim") EXCEPT !.read = o].pc \notin Busy
    BY DEF Begin, Idle, Busy, Watching
  <2> QED
    BY <1>1, <1>2, <1>4, <2>1, IdleHonours DEF AcceptLoad, DeclineLoad
<1>5. CASE AbandonRead(a, p)
  <2>1. Begin(p, "abandon_save").pc \notin Busy
    BY DEF Begin, Idle, Busy, Watching
  <2> QED
    BY <1>1, <1>2, <1>5, <2>1, IdleHonours DEF AbandonRead
<1> QED
  BY <1>3, <1>4, <1>5 DEF CourierRequest

LEMMA CourierHonours ==
  ASSUME HonourInv, Grows, NEW a \in Agents,
         CourierStep(a) \/ SettleStep(a) \/ Toggle(a)
  PROVE  HonourHold'
<1>1. a \in Threads
  BY DEF Threads
<1>2. Clears
  BY ClearsWrite DEF CourierStep, AcceptClaim, AcceptClear, AcceptUndo,
     DeclineClaim, DeclineClear, AbandonSave, SettleStep, SettleMatch,
     SettleClear, SettleCancel, Toggle
<1>3. CASE SettleStep(a) \/ Toggle(a)
  <2>1. UNCHANGED job
    BY <1>3 DEF SettleStep, SettleMatch, SettleClear, SettleCancel, Toggle
  <2> QED
    BY <1>2, <2>1, StandsHonour
<1>4. CASE CourierStep(a)
  <2> DEFINE Labels == {"accept_clear", "claim_check", "decline_clear", "tell"}
  <2>1. /\ Labels \cap Busy = {}
        /\ Begin(job[a].at, "next_read").pc \notin Busy
    BY DEF Busy, Watching, Begin, Idle
  <2>2. \/ Return(a) \/ \E label \in Labels : Goto(a, label)
        \/ Become(a, Begin(job[a].at, "next_read"))
    BY <1>4 DEF CourierStep, AcceptClaim, AcceptClear, AcceptUndo, DeclineClaim,
       DeclineClear, AbandonSave
  <2> HIDE DEF Labels
  <2>3. \E j : Become(a, j) /\ j.pc \notin Busy
    BY <1>1, <2>1, <2>2, ReturnIdle, GotoIdle
  <2> QED
    BY <1>1, <1>2, <2>3, IdleHonours
<1> QED
  BY <1>3, <1>4

LEMMA CronHonours ==
  ASSUME HonourInv, Grows, NEW p \in Procs, CronStep(p) \/ Crash(p)
  PROVE  HonourHold'
<1>1. p \in Threads
  BY DEF Threads
<1>2. Clears
  BY ClearsWrite DEF CronStep, Crash, ExpireFind, ExpireClaim, ExpireClear
<1>3. CASE Crash(p)
  <2>1. \A t : Ended(t).pc \notin Busy
    BY DEF Ended, Idle, Busy, Watching
  <2>2. \A t \in Threads : job'[t] = job[t] \/ job'[t].pc \notin Busy
    BY <1>3, <2>1 DEF Crash
  <2> QED
    BY <1>2, <2>2, HonourKept DEF Clears, Busy, Watch
<1>4. CASE CronStep(p)
  <2>1. /\ \A o : [Begin(p, "expire_claim") EXCEPT !.read = o].pc \notin Busy
        /\ Begin(p, "next_read").pc \notin Busy /\ "expire_clear" \notin Busy
    BY DEF Begin, Idle, Busy, Watching
  <2>2. \/ Return(p) \/ Goto(p, "expire_clear") \/ Become(p, Begin(p, "next_read"))
        \/ \E o : Become(p, [Begin(p, "expire_claim") EXCEPT !.read = o])
    BY <1>4 DEF CronStep, ExpireFind, ExpireClaim, ExpireClear
  <2>3. \E j : Become(p, j) /\ j.pc \notin Busy
    BY <1>1, <2>1, <2>2, ReturnIdle, GotoIdle
  <2> QED
    BY <1>1, <1>2, <2>3, IdleHonours
<1> QED
  BY <1>3, <1>4

LEMMA HonourStep == HonourInv /\ [Next]_vars => HonourInv'
<1> SUFFICES ASSUME HonourInv, [Next]_vars PROVE HonourInv'
  OBVIOUS
<1>1. TypeInv' /\ Grows
  BY StepType, RowsGrow DEF HonourInv
<1>2. CASE UNCHANGED vars
  BY <1>1, <1>2, ClearsWrite, StandsHonour DEF vars, HonourInv
<1>3. ASSUME NEW o \in OfferIds, Tick(o) PROVE HonourHold'
  BY <1>1, <1>3, ClearsWrite, StandsHonour DEF Tick
<1>4. CASE Next
  <2>1. HonourHold'
    BY <1>1, <1>3, <1>4, CascadeHonours, VendorHonours, RequestHonours,
       CourierHonours, CronHonours DEF Next
  <2> QED
    BY <1>1, <2>1 DEF HonourInv
<1> QED
  BY <1>2, <1>4

(* assertClaimAllowedDuringOffer reads the active offer and its row before *)
(* the claim is written: for any interleaving, an order is never taken     *)
(* from under the offer that the claim saw live when it began.             *)
THEOREM LiveOfferHonoured == Spec => HonoursLiveOffer
<1>1. HonourInv => \A t \in Threads : Takes(t) =>
        LET o == job[t].seen
        IN o = None \/ order.activeOffer # o \/ ~Pending(o)
  BY DEF HonourInv, HonourHold, Takes, At, Watch, Watching
<1>2. HonourInv /\ [Next]_vars =>
        [\A t \in Threads : Takes(t) =>
           LET o == job[t].seen
           IN o = None \/ order.activeOffer # o \/ ~Pending(o)]_vars
  BY <1>1
<1> QED
  BY <1>2, HonourInit, HonourStep, PTL DEF Spec, HonoursLiveOffer

-----------------------------------------------------------------------------
(* One mark-ready in one process                                           *)

(* The deployment and the calls for which no courier is asked twice: a     *)
(* single API process, whose queue is the only one, and one call that      *)
(* marks the order ready.                                                  *)
OneCascade ==
  /\ \A p, q \in Procs : p = q
  /\ \A v, w \in VendorCalls \ Rejecters : v = w

(* Where a thread is about to ask the next courier, or will be; and where  *)
(* the vendor's call has yet to start the cascade.                         *)
Holding == {"next_take", "next_create"}
Chain == {"decline_clear", "expire_clear", "next_read", "next_rebuild"}
           \cup Holding
Opening == {"idle", "ready_save", "hard_rank", "start_cancel", "start_clear",
            "start_rank"} \cup ClaimSteps
Asks(t) == job[t].pc \in Chain
Opened == \A v \in VendorCalls \ Rejecters : job[v].pc \notin Opening

Members(q) == {q[i] : i \in 1..Len(q)}
Distinct(q) == \A i, j \in 1..Len(q) : i # j => q[i] # q[j]

RejectersOnly ==
  \A v \in Rejecters : job[v].pc \in {"idle", "reject_save", "done"}

(* Nothing is asked before the cascade starts.                             *)
NothingYet == ~Opened =>
  /\ \A o \in OfferIds : offers[o].status = "free"
  /\ \A t \in Threads : ~Asks(t)
  /\ \A h \in Handles : queues[h] = <<>>

(* The right to ask is one token: a pending row, or one thread.            *)
OneAsks ==
  /\ \A t, u \in Threads : Asks(t) /\ Asks(u) => t = u
  /\ \A t \in Threads, o \in OfferIds : ~(Asks(t) /\ Pending(o))

(* The thread that asks works on the process's own queue, unless that was  *)
(* cleared meanwhile.                                                      *)
OneQueue ==
  \A t \in Threads :
    /\ job[t].queue # None => job[t].pc \in Holding
    /\ job[t].pc \in Holding =>
         \A p \in Procs : cascade[p] \in {None, job[t].queue}
    /\ job[t].pc = "next_rebuild" => \A p \in Procs : cascade[p] = None

DeadEmpty == \A h \in Handles : Live(h) \/ queues[h] = <<>>

(* Nobody in a queue, and nobody about to be asked, was asked before or is *)
(* there twice.                                                            *)
NoRepeat ==
  /\ \A h \in Handles :
       Distinct(queues[h]) /\ Members(queues[h]) \cap Asked = {}
  /\ \A t \in Threads : job[t].pc = "next_create" =>
       /\ job[t].agent \notin Asked
       /\ \A h \in Handles : job[t].agent \notin Members(queues[h])

AskParts ==
  /\ RejectersOnly /\ NothingYet /\ OneAsks /\ OneQueue /\ DeadEmpty
  /\ NoRepeat /\ AskedOnce

AskInv == AnswerInv /\ TypeInv /\ OnePending /\ AskParts

(* What a step of thread t leaves that asks nobody: no queue, no new start *)
(* of the cascade, and a rejection stays one.                              *)
Retires(t, j) ==
  /\ j.pc \notin Chain /\ j.queue = None
  /\ t \in Rejecters => j.pc \in {"idle", "reject_save", "done"}
  /\ t \in VendorCalls \ Rejecters /\ j.pc \in Opening => job[t].pc \in Opening

SameRows ==
  \A o \in OfferIds : offers'[o].status = "free" <=> offers[o].status = "free"

LEMMA AskInit == Init => AskInv
<1> SUFFICES ASSUME Init PROVE AskInv
  OBVIOUS
<1>1. AnswerInv /\ TypeInv /\ OnePending
  BY AnswerInit, InitType DEF Init, OnePending, Pending
<1>2. /\ \A t \in Threads : job[t].pc = "idle" /\ job[t].queue = None
      /\ \A h \in Handles : queues[h] = <<>>
      /\ \A o \in OfferIds : offers[o].status = "free"
  BY DEF Init, Idle
<1>3. RejectersOnly /\ NothingYet /\ OneAsks
  BY <1>2, ConstantsAssumption
     DEF RejectersOnly, NothingYet, OneAsks, Asks, Chain, Holding, Threads
<1>4. OneQueue /\ DeadEmpty
  BY <1>2 DEF OneQueue, DeadEmpty, Holding
<1>5. FreeIds = OfferIds /\ Asked = {} /\ AskedOnce
  BY <1>2 DEF FreeIds, Asked, AskedOnce
<1>6. NoRepeat
  BY <1>2, <1>5 DEF NoRepeat, Distinct, Members
<1> QED
  BY <1>1, <1>3, <1>4, <1>5, <1>6 DEF AskInv, AskParts

LEMMA JobIs ==
  ASSUME AskInv, NEW t \in Threads, NEW j, Become(t, j)
  PROVE  \A u \in Threads : job'[u] = IF u = t THEN j ELSE job[u]
BY DEF Become, AskInv, TypeInv, TypeOK

LEMMA NotRejecter ==
  ASSUME AskInv, NEW t, job[t].pc \notin {"idle", "reject_save", "done"}
  PROVE  t \notin Rejecters
BY DEF AskInv, AskParts, RejectersOnly

LEMMA NoQueue ==
  ASSUME AskInv, NEW t \in Threads, job[t].pc \notin Holding
  PROVE  job[t].queue = None
BY DEF AskInv, AskParts, OneQueue

(* The rows keep their couriers, so the same couriers count as asked.      *)
LEMMA AskedSame ==
  ASSUME AskInv, Grows, SameRows
  PROVE  Asked' = Asked /\ AskedOnce'
<1>1. FreeIds' = FreeIds
  BY DEF SameRows, FreeIds
<1>2. \A o \in OfferIds \ FreeIds : offers'[o].agent = offers[o].agent
  BY DEF Grows, RowGrows, FreeIds
<1>3. Asked' = Asked
  BY <1>1, <1>2 DEF Asked
<1>4. AskedOnce'
  BY <1>1, <1>2 DEF AskInv, AskParts, AskedOnce
<1> QED
  BY <1>3, <1>4

LEMMA EmptyRepeats ==
  ASSUME NEW S
  PROVE  Distinct(<<>>) /\ Members(<<>>) \cap S = {} /\ Members(<<>>) = {}
BY DEF Distinct, Members

(* A step that asks nobody new, empties queues at most, and after which a  *)
(* thread that moved has retired.                                          *)
LEMMA AskKept ==
  ASSUME AskInv, Grows, SameRows, DeadEmpty',
         \A h \in Handles : queues'[h] \in {queues[h], <<>>},
         \A p \in Procs : cascade'[p] \in {cascade[p], None},
         \A t \in Threads : job'[t] = job[t] \/ Retires(t, job'[t])
  PROVE  AskParts'
<1>0. VendorCalls \subseteq Threads /\ Rejecters \subseteq VendorCalls
  BY ConstantsAssumption DEF Threads
<1>1. \A t \in Threads : Asks(t)' => Asks(t) /\ job'[t] = job[t]
  BY DEF Asks, Retires
<1>2. RejectersOnly'
  BY <1>0 DEF RejectersOnly, Retires, AskInv, AskParts
<1>3. NothingYet'
  <2> SUFFICES ASSUME ~Opened' PROVE
        /\ \A o \in OfferIds : offers'[o].status = "free"
        /\ \A t \in Threads : ~Asks(t)'
        /\ \A h \in Handles : queues'[h] = <<>>
    BY DEF NothingYet
  <2>1. ~Opened
    BY <1>0 DEF Opened, Retires
  <2> QED
    BY <1>1, <2>1 DEF AskInv, AskParts, NothingYet, SameRows
<1>4. OneAsks'
  BY <1>1 DEF OneAsks, AskInv, AskParts, SameRows, Grows, RowGrows, Pending
<1>5. OneQueue'
  <2> SUFFICES ASSUME NEW t \in Threads
               PROVE  /\ job'[t].queue # None => job'[t].pc \in Holding
                      /\ job'[t].pc \in Holding =>
                           \A p \in Procs : cascade'[p] \in {None, job'[t].queue}
                      /\ job'[t].pc = "next_rebuild" =>
                           \A p \in Procs : cascade'[p] = None
    BY DEF OneQueue
  <2>1. CASE job'[t] = job[t]
    BY <2>1 DEF AskInv, AskParts, OneQueue
  <2>2. CASE Retires(t, job'[t])
    BY <2>2 DEF Retires, Chain
  <2> QED
    BY <2>1, <2>2
<1>6. Asked' = Asked /\ AskedOnce'
  BY AskedSame
<1>7. NoRepeat'
  <2>1. ASSUME NEW h \in Handles
        PROVE  /\ Distinct(queues'[h]) /\ Members(queues'[h]) \cap Asked = {}
               /\ Members(queues'[h]) \subseteq Members(queues[h])
    BY EmptyRepeats DEF AskInv, AskParts, NoRepeat
  <2>2. ASSUME NEW t \in Threads, job'[t].pc = "next_create"
        PROVE  /\ job'[t].agent \notin Asked
               /\ \A h \in Handles : job'[t].agent \notin Members(queues'[h])
    <3>1. job'[t] = job[t]
      BY <2>2 DEF Retires, Chain, Holding
    <3> QED
      BY <2>1, <2>2, <3>1 DEF AskInv, AskParts, NoRepeat
  <2> QED
    BY <1>6, <2>1, <2>2 DEF NoRepeat, Distinct, Members
<1> QED
  BY <1>2, <1>3, <1>4, <1>5, <1>6, <1>7 DEF AskParts

(* Nobody lets a queue go: the queues without an owner stay empty.         *)
LEMMA StillOwned ==
  ASSUME AskInv, UNCHANGED cascade, NEW t \in Threads, NEW j, Become(t, j),
         job[t].queue \in {None, j.queue},
         \A h \in Handles : queues'[h] = queues[h] \/ Live(h)
  PROVE  DeadEmpty'
<1>1. \A u \in Threads : job'[u] = IF u = t THEN j ELSE job[u]
  BY JobIs
<1>2. None \notin Handles
  BY ConstantsAssumption
<1>3. \A h \in Handles : Live(h) => Live(h)'
  BY <1>1, <1>2 DEF Live
<1> QED
  BY <1>3 DEF AskInv, AskParts, DeadEmpty

LEMMA SweptEmpty ==
  ASSUME NEW q, queues' = Swept(q)
  PROVE  DeadEmpty' /\ \A h \in Handles : queues'[h] \in {q[h], <<>>}
BY DEF DeadEmpty, Swept

(* The two ways a thread retires: it held no queue and nothing else of the *)
(* cascade moves; or the queues nobody holds any longer are dropped.       *)
LEMMA AsideAsks ==
  ASSUME AskInv, Grows, SameRows, UNCHANGED <<cascade, queues>>,
         NEW t \in Threads, job[t].pc \notin Holding,
         \E j : Become(t, j) /\ Retires(t, j)
  PROVE  AskParts'
<1>1. PICK j : Become(t, j) /\ Retires(t, j)
  OBVIOUS
<1>2. DeadEmpty'
  BY <1>1, NoQueue, StillOwned
<1>3. \A u \in Threads : job'[u] = job[u] \/ Retires(u, job'[u])
  BY <1>1, JobIs
<1> QED
  BY <1>2, <1>3, AskKept

LEMMA SweptAsks ==
  ASSUME AskInv, Grows, SameRows, queues' = Swept(queues),
         \A p \in Procs : cascade'[p] \in {cascade[p], None},
         \A t \in Threads : job'[t] = job[t] \/ Retires(t, job'[t])
  PROVE  AskParts'
BY SweptEmpty, AskKept

LEMMA StandsAsks ==
  ASSUME AskInv, Grows, SameRows, UNCHANGED <<cascade, queues, job>>
  PROVE  AskParts'
<1>1. \A h : Live(h)' <=> Live(h)
  BY DEF Live
<1>2. DeadEmpty'
  BY <1>1 DEF DeadEmpty, AskInv, AskParts
<1> QED
  BY <1>2, AskKept

(* Where a thread goes that retires.                                       *)
LEMMA RetiresTo ==
  ASSUME AskInv, NEW t \in Threads, NEW j, j.queue = None, j.pc \notin Chain,
         job[t].pc \notin {"idle", "reject_save", "done"},
         \/ j.pc \notin Opening \/ t \notin VendorCalls
         \/ job[t].pc \in Opening
  PROVE  Retires(t, j)
BY NotRejecter DEF Retires

LEMMA ReturnRetires ==
  ASSUME AskInv, NEW t \in Threads, Return(t),
         job[t].pc \notin {"idle", "reject_save", "done"}
  PROVE  \E j : Become(t, j) /\ Retires(t, j)
<1> DEFINE j == IF t \in VendorCalls THEN Begin(job[t].at, "tell") ELSE Idle
<1>1. /\ j.queue = None /\ j.pc \notin Chain
      /\ j.pc \notin Opening \/ t \notin VendorCalls
  BY DEF Begin, Idle, Chain, Holding, Opening, ClaimSteps
<1>2. Become(t, j)
  BY DEF Return
<1> HIDE DEF j
<1> QED
  BY <1>1, <1>2, RetiresTo

LEMMA GotoRetires ==
  ASSUME AskInv, NEW t \in Threads, NEW label, label \notin Chain, Goto(t, label),
         job[t].pc \notin {"idle", "reject_save", "done"} \cup Holding,
         \/ label \notin Opening \/ t \notin VendorCalls
         \/ job[t].pc \in Opening
  PROVE  \E j : Become(t, j) /\ Retires(t, j)
<1> DEFINE j == [job[t] EXCEPT !.pc = label]
<1>1. job[t] \in Jobs /\ job[t].queue = None
  BY NoQueue DEF AskInv, TypeInv, TypeOK
<1>2. j.pc = label /\ j.queue = None
  BY <1>1 DEF Jobs
<1>3. Become(t, j)
  BY DEF Goto
<1> HIDE DEF j
<1> QED
  BY <1>2, <1>3, RetiresTo

LEMMA EndedRetires ==
  ASSUME AskInv, NEW t \in Threads
  PROVE  Retires(t, Ended(t))
<1>1. Ended(t).queue = None
      /\ Ended(t).pc = IF t \in VendorCalls THEN "done" ELSE "idle"
  BY DEF Ended, Idle
<1> QED
  BY <1>1, ConstantsAssumption DEF Retires, Chain, Holding, Opening, ClaimSteps

LEMMA CheckedRetires ==
  ASSUME NEW t \in Threads, NEW j \in Jobs, j.queue = None
  PROVE  /\ \A why : /\ Refused(t, j, why).queue = None
                     /\ Refused(t, j, why).pc \in
                          {"start_cancel", "idle", "accept_undo"}
         /\ Checked(t, j).queue = None
         /\ Checked(t, j).pc \in {"start_cancel", "idle", "accept_undo",
                                   "claim_read_active"}
<1>1. ASSUME NEW why
      PROVE  /\ Refused(t, j, why).queue = None
             /\ Refused(t, j, why).pc \in {"start_cancel", "idle", "accept_undo"}
  BY DEF Refused, Begin, Idle, Jobs
<1>2. \A o : LET k == [j EXCEPT !.pc = "claim_read_active", !.seen = o]
             IN k.pc = "claim_read_active" /\ k.queue = None
  BY DEF Jobs
<1> QED
  BY <1>1, <1>2 DEF Checked

(* The steps of a claim ask nobody.                                        *)
LEMMA ClaimAsks ==
  ASSUME AskInv, Grows, NEW t \in Threads,
         \/ ClaimCheck(t) \/ ClaimReadActive(t) \/ ClaimReadOffer(t)
         \/ ClaimWrite(t)
  PROVE  AskParts'
<1>1. /\ job[t] \in Jobs /\ job[t].pc \in ClaimSteps
      /\ UNCHANGED <<offers, cascade, queues>>
  BY DEF AskInv, TypeInv, TypeOK, ClaimCheck, ClaimReadActive, ClaimReadOffer,
     ClaimWrite, At, ClaimSteps
<1>2. /\ job[t].pc \notin {"idle", "reject_save", "done"} \cup Holding
      /\ job[t].pc \in Opening
  BY <1>1 DEF ClaimSteps, Holding, Opening
<1>3. job[t].queue = None
  BY <1>2, NoQueue
<1>4. {"start_cancel", "idle", "accept_undo", "claim_read_active",
       "claim_read_offer", "claim_write"} \cap Chain = {}
  BY DEF Chain, Holding
<1>5. ASSUME NEW label, NEW o
      PROVE  LET j == [job[t] EXCEPT !.pc = label, !.read = o]
             IN j.pc = label /\ j.queue = None
  BY <1>1, <1>3 DEF Jobs
<1>6. \/ Return(t)
      \/ \E why : Become(t, Refused(t, job[t], why))
      \/ Become(t, Checked(t, job[t]))
      \/ \E label \in {"claim_read_offer", "claim_write"} : \E o :
           Become(t, [job[t] EXCEPT !.pc = label, !.read = o])
  <2>1. ClaimCheck(t) => Become(t, Checked(t, job[t]))
    BY DEF ClaimCheck
  <2>2. ClaimReadActive(t) =>
          \E label \in {"claim_read_offer", "claim_write"} : \E o :
            Become(t, [job[t] EXCEPT !.pc = label, !.read = o])
    BY DEF ClaimReadActive
  <2>3. ClaimReadOffer(t) =>
          \/ \E why : Become(t, Refused(t, job[t], why))
          \/ Become(t, [job[t] EXCEPT !.pc = "claim_write", !.read = None])
    BY DEF ClaimReadOffer, Refuse
  <2>4. ClaimWrite(t) =>
          Return(t) \/ \E why : Become(t, Refused(t, job[t], why))
    BY DEF ClaimWrite, Refuse
  <2> QED
    BY <2>1, <2>2, <2>3, <2>4
<1>7. \E j : Become(t, j) /\ Retires(t, j)
  <2>1. ASSUME NEW j, j.queue = None, j.pc \notin Chain
        PROVE  Retires(t, j)
    BY <1>2, <2>1, RetiresTo
  <2>2. CASE Return(t)
    BY <1>2, <2>2, ReturnRetires
  <2>3. CASE \E why : Become(t, Refused(t, job[t], why))
    BY <1>1, <1>3, <1>4, <2>1, <2>3, CheckedRetires
  <2>4. CASE Become(t, Checked(t, job[t]))
    BY <1>1, <1>3, <1>4, <2>1, <2>4, CheckedRetires
  <2>5. ASSUME NEW label \in {"claim_read_offer", "claim_write"}, NEW o,
               Become(t, [job[t] EXCEPT !.pc = label, !.read = o])
        PROVE  \E j : Become(t, j) /\ Retires(t, j)
    <3> DEFINE j == [job[t] EXCEPT !.pc = label, !.read = o]
    <3>1. j.pc \notin Chain /\ j.queue = None
      BY <1>4, <1>5
    <3>2. Become(t, j)
      BY <2>5
    <3> HIDE DEF j
    <3> QED
      BY <2>1, <3>1, <3>2
  <2> QED
    BY <1>6, <2>2, <2>3, <2>4, <2>5
<1> QED
  BY <1>1, <1>2, <1>7, AsideAsks DEF SameRows

-----------------------------------------------------------------------------
(* The thread that asks                                                    *)

(* Where nobody can be asked there is no row, no thread that asks, no      *)
(* queue: a thread that asks, or a row, shows that the cascade started.    *)
LEMMA HasOpened ==
  ASSUME AskInv,
         \/ \E t \in Threads : Asks(t)
         \/ \E o \in OfferIds : offers[o].status # "free"
  PROVE  Opened
BY DEF AskInv, AskParts, NothingYet

LEMMA StaysOpened ==
  ASSUME AskInv, Opened, NEW t \in Threads, NEW j, Become(t, j),
         j.pc \notin Opening
  PROVE  Opened'
<1>1. VendorCalls \subseteq Threads
  BY DEF Threads
<1> QED
  BY <1>1, JobIs DEF Opened

(* A step of the only thread that asks, as long as no row is pending and   *)
(* its queue is the process's own.                                         *)
LEMMA ChainKept ==
  ASSUME AskInv, NEW t \in Threads, NEW j, Become(t, j), j.pc \in Chain,
         \A u \in Threads : u # t => ~Asks(u),
         \A o \in OfferIds : ~Pending(o)',
         Opened', t \notin Rejecters,
         j.queue # None => j.pc \in Holding,
         j.pc \in Holding => \A p \in Procs : cascade'[p] \in {None, j.queue},
         j.pc = "next_rebuild" => \A p \in Procs : cascade'[p] = None,
         DeadEmpty', NoRepeat', AskedOnce'
  PROVE  AskParts'
<1>1. \A u \in Threads : job'[u] = IF u = t THEN j ELSE job[u]
  BY JobIs
<1>2. RejectersOnly'
  <2>1. Rejecters \subseteq Threads
    BY ConstantsAssumption DEF Threads
  <2> QED
    BY <1>1, <2>1 DEF RejectersOnly, AskInv, AskParts
<1>3. NothingYet'
  BY DEF NothingYet
<1>4. OneAsks'
  BY <1>1 DEF OneAsks, Asks
<1>5. OneQueue'
  <2> SUFFICES ASSUME NEW u \in Threads
               PROVE  /\ job'[u].queue # None => job'[u].pc \in Holding
                      /\ job'[u].pc \in Holding =>
                           \A p \in Procs : cascade'[p] \in {None, job'[u].queue}
                      /\ job'[u].pc = "next_rebuild" =>
                           \A p \in Procs : cascade'[p] = None
    BY DEF OneQueue
  <2>1. CASE u = t
    BY <1>1, <2>1
  <2>2. CASE u # t
    <3>1. job'[u] = job[u] /\ ~Asks(u)
      BY <1>1, <2>2
    <3> QED
      BY <3>1 DEF Asks, Chain, AskInv, AskParts, OneQueue
  <2> QED
    BY <2>1, <2>2
<1> QED
  BY <1>2, <1>3, <1>4, <1>5 DEF AskParts

(* A step that asks nobody new and is not about to: the queues still hold  *)
(* nobody that was asked.                                                  *)
LEMMA RepeatKept ==
  ASSUME AskInv, Grows, SameRows,
         \A h \in Handles : queues'[h] \in {queues[h], <<>>},
         NEW t \in Threads, NEW j, Become(t, j),
         \A u \in Threads : u # t => ~Asks(u), j.pc # "next_create"
  PROVE  NoRepeat' /\ AskedOnce'
<1>1. Asked' = Asked /\ AskedOnce'
  BY AskedSame
<1>2. ASSUME NEW h \in Handles
      PROVE  Distinct(queues'[h]) /\ Members(queues'[h]) \cap Asked = {}
  BY EmptyRepeats DEF AskInv, AskParts, NoRepeat
<1>3. \A u \in Threads : job'[u].pc # "next_create"
  BY JobIs DEF Asks, Chain, Holding
<1> QED
  BY <1>1, <1>2, <1>3 DEF NoRepeat, Distinct, Members

(* While a thread takes from a queue every other queue is empty.           *)
LEMMA HolderAlone ==
  ASSUME AskInv, NEW t \in Threads, job[t].pc \in Holding
  PROVE  \A h \in Handles : h # job[t].queue => queues[h] = <<>>
<1> SUFFICES ASSUME NEW h \in Handles, h # job[t].queue, Live(h)
             PROVE  FALSE
  BY DEF AskInv, AskParts, DeadEmpty
<1>1. h # None
  BY ConstantsAssumption
<1>2. CASE \E p \in Procs : cascade[p] = h
  BY <1>1, <1>2 DEF AskInv, AskParts, OneQueue
<1>3. CASE \E u \in Threads : job[u].queue = h
  <2>1. PICK u \in Threads : job[u].queue = h
    BY <1>3
  <2>2. Asks(u) /\ Asks(t)
    BY <1>1, <2>1 DEF AskInv, AskParts, OneQueue, Asks, Chain
  <2> QED
    BY <2>1, <2>2 DEF AskInv, AskParts, OneAsks
<1> QED
  BY <1>2, <1>3 DEF Live

LEMMA AloneAsks ==
  ASSUME AskInv, NEW t \in Threads, Asks(t)
  PROVE  /\ \A u \in Threads : u # t => ~Asks(u)
         /\ \A o \in OfferIds : ~Pending(o)
         /\ t \notin Rejecters
         /\ Opened
<1>1. t \notin Rejecters
  BY NotRejecter DEF Asks, Chain, Holding
<1> QED
  BY <1>1, HasOpened DEF AskInv, AskParts, OneAsks

LEMMA TailRepeats ==
  ASSUME NEW q \in Seq(Agents), q # <<>>
  PROVE  /\ Head(q) \in Members(q) /\ Members(Tail(q)) \subseteq Members(q)
         /\ Distinct(q) => Distinct(Tail(q)) /\ Head(q) \notin Members(Tail(q))
<1>1. /\ Len(q) \in Nat /\ Len(q) > 0 /\ Len(Tail(q)) = Len(q) - 1
      /\ Head(q) = q[1]
      /\ \A i \in 1..Len(Tail(q)) : Tail(q)[i] = q[i + 1]
  OBVIOUS
<1>2. \A i \in 1..Len(Tail(q)) : i + 1 \in 1..Len(q) /\ i + 1 # 1
  BY <1>1
<1> QED
  BY <1>1, <1>2 DEF Members, Distinct

LEMMA RankedRepeats ==
  ASSUME NEW S \in SUBSET Agents, NEW r \in Rankings(S)
  PROVE  Distinct(r) /\ Members(r) \subseteq S
<1>1. Cardinality(S) \in Nat
  BY FS_Subset, FS_CardinalityType, ConstantsAssumption
<1>2. r \in [1..Cardinality(S) -> S] /\ Len(r) = Cardinality(S)
  BY <1>1 DEF Rankings
<1> QED
  BY <1>2 DEF Distinct, Members, Rankings

(* A new row asks one courier more, once.                                  *)
LEMMA RowAdded ==
  ASSUME AskInv, FreeIds # {}, NEW a, a \notin Asked,
         NEW s \in {"skipped", "pending"},
         offers' = [offers EXCEPT ![Fresh] = Row(a, s)]
  PROVE  Asked' = Asked \cup {a} /\ AskedOnce'
<1>1. PICK f \in OfferIds : f = Fresh /\ offers[f].status = "free"
  BY FreshType
<1>2. \A o \in OfferIds : offers'[o] = IF o = f THEN Row(a, s) ELSE offers[o]
  BY <1>1 DEF AskInv, TypeInv, TypeOK
<1>3. Row(a, s).status # "free" /\ Row(a, s).agent = a
  BY DEF Row
<1>4. OfferIds \ FreeIds' = (OfferIds \ FreeIds) \cup {f} /\ f \in FreeIds
  BY <1>1, <1>2, <1>3 DEF FreeIds
<1>5. \A o \in OfferIds \ FreeIds : offers'[o].agent = offers[o].agent
                                    /\ offers[o].agent \in Asked
  BY <1>2, <1>4 DEF Asked
<1>6. offers'[f].agent = a
  BY <1>2, <1>3
<1>7. Asked' = Asked \cup {a}
  BY <1>4, <1>5, <1>6 DEF Asked
<1>8. AskedOnce'
  BY <1>4, <1>5, <1>6 DEF AskedOnce, AskInv, AskParts
<1> QED
  BY <1>7, <1>8

(* The next rank is taken from the queue.                                  *)
LEMMA TakeAsks ==
  ASSUME AskInv, Grows, NEW t \in Threads, NextTake(t)
  PROVE  AskParts'
<1>1. /\ job[t].pc = "next_take" /\ job[t] \in Jobs
      /\ job[t].queue \in Handles /\ job[t].queue # None
      /\ UNCHANGED <<order, cascade>>
  BY ConstantsAssumption DEF NextTake, At, AskInv, TypeInv, TypeOK, JobOK
<1>2. Asks(t) /\ job[t].pc \in Holding
  BY <1>1 DEF Asks, Chain, Holding
<1>3. /\ \A u \in Threads : u # t => ~Asks(u)
      /\ \A o \in OfferIds : ~Pending(o)
      /\ t \notin Rejecters /\ Opened
  BY <1>2, AloneAsks
<1>4. PICK h \in Handles : h = job[t].queue
  BY <1>1
<1>5. PICK q \in Seq(Agents) : q = queues[h]
  BY DEF AskInv, TypeInv, TypeOK
<1>6. CASE q = <<>>
  <2> DEFINE j == [job[t] EXCEPT !.pc = "exhaust", !.queue = None]
  <2>1. j.pc = "exhaust" /\ j.queue = None
    BY <1>1 DEF Jobs
  <2>2. Become(t, j) /\ queues' = Swept(queues) /\ UNCHANGED offers
    BY <1>4, <1>5, <1>6 DEF NextTake
  <2> HIDE DEF j
  <2>3. Retires(t, j)
    BY <1>1, <2>1, RetiresTo DEF Chain, Holding, Opening, ClaimSteps
  <2> QED
    BY <1>1, <2>2, <2>3, JobIs, SweptAsks DEF SameRows
<1>7. CASE q # <<>>
  <2>1. PICK a \in Agents : a = Head(q)
    BY <1>7
  <2>2. queues' = [queues EXCEPT ![h] = Tail(q)]
    BY <1>4, <1>5, <1>7 DEF NextTake
  <2>3. \A g \in Handles : queues'[g] = IF g = h THEN Tail(q) ELSE queues[g]
    BY <2>2 DEF AskInv, TypeInv, TypeOK
  <2>4. /\ a \notin Asked /\ a \notin Members(Tail(q)) /\ Distinct(Tail(q))
        /\ Members(Tail(q)) \cap Asked = {}
    <3>1. Distinct(q) /\ Members(q) \cap Asked = {}
      BY <1>5 DEF AskInv, AskParts, NoRepeat
    <3> QED
      BY <1>7, <2>1, <3>1, TailRepeats
  <2>5. ASSUME NEW g \in Handles
        PROVE  /\ Distinct(queues'[g]) /\ Members(queues'[g]) \cap Asked = {}
               /\ a \notin Members(queues'[g])
    <3>1. CASE g = h
      BY <2>3, <2>4, <3>1
    <3>2. CASE g # h
      <4>1. queues'[g] = <<>>
        BY <1>2, <1>4, <2>3, <3>2, HolderAlone
      <4> QED
        BY <4>1, EmptyRepeats
    <3> QED
      BY <3>1, <3>2
  <2>6. ASSUME NEW j, Become(t, j), j.queue = job[t].queue PROVE DeadEmpty'
    <3>1. \A g \in Handles : queues'[g] = queues[g] \/ Live(g)
      BY <1>4, <2>3 DEF Live
    <3> QED
      BY <1>1, <2>6, <3>1, StillOwned
  <2>7. \A p \in Procs : cascade'[p] \in {None, job[t].queue}
    BY <1>1, <1>2 DEF AskInv, AskParts, OneQueue
  <2>8. CASE available[a]
    <3> DEFINE j == [job[t] EXCEPT !.pc = "next_create", !.agent = a]
    <3>1. j.pc = "next_create" /\ j.agent = a /\ j.queue = job[t].queue
      BY <1>1 DEF Jobs
    <3>2. Become(t, j) /\ UNCHANGED offers
      BY <1>4, <1>5, <1>7, <2>1, <2>8 DEF NextTake
    <3> HIDE DEF j
    <3>3. Asked' = Asked /\ AskedOnce'
      BY <3>2, AskedSame DEF SameRows
    <3>4. NoRepeat'
      <4>1. \A u \in Threads : job'[u] = IF u = t THEN j ELSE job[u]
        BY <3>2, JobIs
      <4>2. \A u \in Threads : job'[u].pc = "next_create" => u = t
        BY <1>3, <4>1 DEF Asks, Chain, Holding
      <4> QED
        BY <2>4, <2>5, <3>1, <3>3, <4>1, <4>2 DEF NoRepeat, Distinct, Members
    <3>5. Opened'
      BY <1>3, <3>1, <3>2, StaysOpened DEF Opening, ClaimSteps
    <3>6. j.pc \in Chain /\ j.pc \in Holding /\ j.pc # "next_rebuild"
      BY <3>1 DEF Chain, Holding
    <3>7. \A o \in OfferIds : ~Pending(o)'
      BY <1>3, <3>2 DEF Pending
    <3> QED
      BY <1>3, <2>6, <2>7, <3>1, <3>2, <3>3, <3>4, <3>5, <3>6, <3>7, ChainKept
  <2>9. CASE ~available[a]
    <3>1. /\ FreeIds # {} /\ UNCHANGED job
          /\ offers' = [offers EXCEPT ![Fresh] = Row(a, "skipped")]
      BY <1>4, <1>5, <1>7, <2>1, <2>9 DEF NextTake
    <3>2. Become(t, job[t])
      BY <3>1 DEF Become, AskInv, TypeInv, TypeOK
    <3>3. Asked' = Asked \cup {a} /\ AskedOnce'
      BY <2>4, <3>1, RowAdded
    <3>4. NoRepeat'
      <4>1. \A u \in Threads : job'[u].pc # "next_create"
        BY <1>1, <1>3, <3>1 DEF Asks, Chain, Holding
      <4> QED
        BY <2>5, <3>3, <4>1 DEF NoRepeat, Distinct, Members
    <3>5. Opened'
      BY <1>3, <3>1 DEF Opened
    <3>6. \A o \in OfferIds : ~Pending(o)'
      <4>1. PICK f : f = Fresh
        OBVIOUS
      <4>2. \A o \in OfferIds : offers'[o] = IF o = f THEN Row(a, "skipped")
                                             ELSE offers[o]
        BY <3>1, <4>1 DEF AskInv, TypeInv, TypeOK
      <4> QED
        BY <1>3, <4>2 DEF Pending, Row
    <3>7. job[t].pc \in Chain /\ job[t].pc # "next_rebuild"
      BY <1>1 DEF Chain, Holding
    <3> QED
      BY <1>2, <1>3, <2>6, <2>7, <3>2, <3>3, <3>4, <3>5, <3>6, <3>7, ChainKept
  <2> QED
    BY <2>8, <2>9
<1> QED
  BY <1>6, <1>7

(* The insert: no row is pending, so it goes through, for a courier that   *)
(* was never asked.                                                        *)
LEMMA CreateAsks ==
  ASSUME AskInv, Grows, NEW t \in Threads, NextCreate(t)
  PROVE  AskParts'
<1>1. /\ job[t].pc = "next_create" /\ job[t] \in Jobs
      /\ job[t].queue \in Handles /\ UNCHANGED <<order, cascade>>
  BY DEF NextCreate, At, AskInv, TypeInv, TypeOK, JobOK
<1>2. Asks(t)
  BY <1>1 DEF Asks, Chain, Holding
<1>3. /\ \A u \in Threads : u # t => ~Asks(u)
      /\ MayInsert /\ t \notin Rejecters /\ Opened
  BY <1>2, AloneAsks DEF MayInsert
<1>4. PICK a : a = job[t].agent
  OBVIOUS
<1>5. /\ FreeIds # {} /\ queues' = Swept(queues)
      /\ offers' = [offers EXCEPT ![Fresh] = Row(a, "pending")]
  BY <1>3, <1>4 DEF NextCreate
<1> DEFINE j == [job[t] EXCEPT !.pc = "next_publish", !.agent = None,
                               !.offer = Fresh, !.queue = None]
<1>6. j.pc = "next_publish" /\ j.queue = None
  BY <1>1 DEF Jobs
<1>7. Become(t, j)
  BY <1>3 DEF NextCreate
<1> HIDE DEF j
<1>8. \A u \in Threads : job'[u] = IF u = t THEN j ELSE job[u]
  BY <1>7, JobIs
<1>9. \A u \in Threads : ~Asks(u)'
  BY <1>3, <1>6, <1>8 DEF Asks, Chain, Holding
<1>10. /\ a \notin Asked
       /\ \A h \in Handles : a \notin Members(queues[h])
  BY <1>1, <1>4 DEF AskInv, AskParts, NoRepeat
<1>11. Asked' = Asked \cup {a} /\ AskedOnce'
  BY <1>5, <1>10, RowAdded
<1>12. DeadEmpty' /\ \A h \in Handles : queues'[h] \in {queues[h], <<>>}
  BY <1>5, SweptEmpty
<1>13. RejectersOnly'
  <2>1. Rejecters \subseteq Threads
    BY ConstantsAssumption DEF Threads
  <2> QED
    BY <1>3, <1>8, <2>1 DEF RejectersOnly, AskInv, AskParts
<1>14. NothingYet'
  <2>1. Opened'
    BY <1>3, <1>6, <1>7, StaysOpened DEF Opening, ClaimSteps
  <2> QED
    BY <2>1 DEF NothingYet
<1>15. OneAsks'
  BY <1>9 DEF OneAsks
<1>16. OneQueue'
  BY <1>6, <1>8, <1>9
     DEF OneQueue, Asks, Chain, AskInv, AskParts
<1>17. NoRepeat'
  <2>1. ASSUME NEW h \in Handles
        PROVE  /\ Distinct(queues'[h])
               /\ Members(queues'[h]) \cap (Asked \cup {a}) = {}
    BY <1>10, <1>12, EmptyRepeats DEF AskInv, AskParts, NoRepeat
  <2>2. \A u \in Threads : job'[u].pc # "next_create"
    BY <1>9 DEF Asks, Chain, Holding
  <2> QED
    BY <1>11, <2>1, <2>2 DEF NoRepeat, Distinct, Members
<1> QED
  BY <1>11, <1>12, <1>13, <1>14, <1>15, <1>16, <1>17 DEF AskParts

(* A new queue, of couriers that were never asked.                         *)
LEMMA EnqueueAsks ==
  ASSUME AskInv, OneCascade, UNCHANGED offers,
         NEW t \in Threads, t \notin Rejecters, job[t].at \in Procs,
         \A u \in Threads : u # t => ~Asks(u),
         \A o \in OfferIds : ~Pending(o),
         NEW S \in SUBSET Agents, S \cap Asked = {}, NEW r \in Rankings(S),
         NEW label \in {"next_read", "next_take"}, Enqueue(t, r, label), Opened'
  PROVE  AskParts'
<1>1. PICK h \in Handles : h = FreshHandle
  BY FreshHandleType DEF Enqueue
<1> DEFINE j == [job[t] EXCEPT !.pc = label,
                   !.queue = IF label = "next_take" THEN h ELSE None]
<1>2. /\ j.pc = label
      /\ j.queue = IF label = "next_take" THEN h ELSE None
  BY DEF AskInv, TypeInv, TypeOK, Jobs
<1>3. /\ Become(t, j) /\ cascade' = [cascade EXCEPT ![job[t].at] = h]
      /\ queues' = Swept([queues EXCEPT ![h] = r])
  BY <1>1 DEF Enqueue
<1> HIDE DEF j
<1>4. DeadEmpty' /\ \A g \in Handles :
                      queues'[g] \in {[queues EXCEPT ![h] = r][g], <<>>}
  BY <1>3, SweptEmpty
<1>5. \A g \in Handles : queues'[g] \in {r, queues[g], <<>>}
  BY <1>4 DEF AskInv, TypeInv, TypeOK
<1>6. \A p \in Procs : cascade'[p] = h
  BY <1>3 DEF OneCascade, AskInv, TypeInv, TypeOK
<1>7. Asked' = Asked /\ AskedOnce'
  <2>1. Grows /\ SameRows
    BY DEF Grows, RowGrows, SameRows
  <2> QED
    BY <2>1, AskedSame
<1>8. NoRepeat'
  <2>1. ASSUME NEW g \in Handles
        PROVE  Distinct(queues'[g]) /\ Members(queues'[g]) \cap Asked = {}
    <3>1. Distinct(r) /\ Members(r) \cap Asked = {}
      BY RankedRepeats
    <3> QED
      BY <1>5, <3>1, EmptyRepeats DEF AskInv, AskParts, NoRepeat
  <2>2. \A u \in Threads : job'[u].pc # "next_create"
    BY <1>2, <1>3, JobIs DEF Asks, Chain, Holding
  <2> QED
    BY <1>7, <2>1, <2>2 DEF NoRepeat, Distinct, Members
<1>9. /\ j.pc \in Chain /\ j.pc # "next_rebuild"
      /\ j.queue # None => j.pc \in Holding
      /\ j.pc \in Holding => j.queue = h
  BY <1>2 DEF Chain, Holding
<1>10. \A o \in OfferIds : ~Pending(o)'
  BY DEF Pending
<1> QED
  BY <1>3, <1>4, <1>6, <1>7, <1>8, <1>9, <1>10, ChainKept

LEMMA ReadAsks ==
  ASSUME AskInv, OneCascade, Grows, NEW t \in Threads, NextRead(t)
  PROVE  AskParts'
<1>1. /\ job[t].pc = "next_read" /\ job[t] \in Jobs /\ job[t].at \in Procs
      /\ UNCHANGED <<offers, cascade>> /\ queues' = Swept(queues)
  BY DEF NextRead, At, AskInv, TypeInv, TypeOK, JobOK
<1>2. SameRows
  BY <1>1 DEF SameRows
<1>3. CASE Return(t)
  <2>1. \E j : Become(t, j) /\ Retires(t, j)
    BY <1>1, <1>3, ReturnRetires
  <2> QED
    BY <1>1, <1>2, <2>1, JobIs, SweptAsks
<1>4. CASE ~Return(t)
  <2>1. PICK h \in Handles \cup {None} : h = cascade[job[t].at]
    BY <1>1 DEF AskInv, TypeInv, TypeOK
  <2> DEFINE j == [job[t] EXCEPT
                     !.pc = IF h = None THEN "next_rebuild" ELSE "next_take",
                     !.queue = h]
  <2>2. /\ j.pc = IF h = None THEN "next_rebuild" ELSE "next_take"
        /\ j.queue = h
    BY <1>1 DEF Jobs
  <2>3. Become(t, j)
    BY <1>4, <2>1 DEF NextRead
  <2> HIDE DEF j
  <2>4. \A p \in Procs : cascade'[p] = h
    BY <1>1, <2>1 DEF OneCascade
  <2>5. Asks(t)
    BY <1>1 DEF Asks, Chain
  <2>6. /\ \A u \in Threads : u # t => ~Asks(u)
        /\ \A o \in OfferIds : ~Pending(o)'
        /\ t \notin Rejecters /\ Opened
    BY <1>1, <2>5, AloneAsks DEF Pending
  <2>7. DeadEmpty' /\ \A g \in Handles : queues'[g] \in {queues[g], <<>>}
    BY <1>1, SweptEmpty
  <2>8. NoRepeat' /\ AskedOnce'
    BY <1>2, <2>2, <2>3, <2>6, <2>7, RepeatKept
  <2>9. Opened'
    BY <2>2, <2>3, <2>6, StaysOpened DEF Opening, ClaimSteps
  <2>10. /\ j.pc \in Chain
         /\ j.queue # None => j.pc \in Holding
         /\ j.pc \in Holding => j.queue = h
         /\ j.pc = "next_rebuild" => h = None
    BY <2>2 DEF Chain, Holding
  <2> QED
    BY <2>3, <2>4, <2>6, <2>7, <2>8, <2>9, <2>10, ChainKept
<1> QED
  BY <1>3, <1>4

(* The queue is rebuilt from the rows: whoever has one is left out.        *)
LEMMA RebuildAsks ==
  ASSUME AskInv, OneCascade, Grows, NEW t \in Threads, NextRebuild(t)
  PROVE  AskParts'
<1>1. /\ job[t].pc = "next_rebuild" /\ job[t].at \in Procs
      /\ UNCHANGED offers
  BY DEF NextRebuild, At, AskInv, TypeInv, TypeOK, JobOK
<1>2. Asks(t)
  BY <1>1 DEF Asks, Chain
<1>3. /\ \A u \in Threads : u # t => ~Asks(u)
      /\ \A o \in OfferIds : ~Pending(o)
      /\ t \notin Rejecters /\ Opened
  BY <1>2, AloneAsks
<1>4. CASE Goto(t, "exhaust") /\ UNCHANGED <<cascade, queues>>
  <2>1. \E j : Become(t, j) /\ Retires(t, j)
    BY <1>1, <1>4, GotoRetires
       DEF Chain, Holding, Opening, ClaimSteps
  <2> QED
    BY <1>1, <1>4, <2>1, AsideAsks DEF SameRows, Holding
<1>5. CASE \E r \in Rankings(Ready \ Asked) : Enqueue(t, r, "next_take")
  <2>1. PICK r \in Rankings(Ready \ Asked) : Enqueue(t, r, "next_take")
    BY <1>5
  <2>2. Ready \ Asked \in SUBSET Agents
    BY DEF Ready
  <2>3. Opened'
    <3>1. \E j : Become(t, j) /\ j.pc = "next_take"
      <4>1. \A h : [job[t] EXCEPT !.pc = "next_take", !.queue = h].pc
                     = "next_take"
        BY DEF AskInv, TypeInv, TypeOK, Jobs
      <4> QED
        BY <2>1, <4>1 DEF Enqueue
    <3> QED
      BY <1>3, <3>1, StaysOpened DEF Opening, ClaimSteps
  <2> QED
    BY <1>1, <1>3, <2>1, <2>2, <2>3, EnqueueAsks
<1> QED
  BY <1>4, <1>5 DEF NextRebuild

(* The only call that marks the order ready starts the cascade.            *)
LEMMA StartAsks ==
  ASSUME AskInv, OneCascade, Grows, NEW v \in VendorCalls, StartRank(v)
  PROVE  AskParts'
<1>1. /\ v \in Threads /\ job[v].pc = "start_rank" /\ job[v].at \in Procs
      /\ UNCHANGED offers
  BY DEF StartRank, At, AskInv, TypeInv, TypeOK, JobOK, Threads
<1>2. v \notin Rejecters
  BY <1>1, NotRejecter
<1>3. ~Opened
  BY <1>1, <1>2 DEF Opened, Opening
<1>4. /\ \A o \in OfferIds : offers[o].status = "free"
      /\ \A u \in Threads : ~Asks(u)
  BY <1>3 DEF AskInv, AskParts, NothingYet
<1>5. CASE Goto(v, "exhaust") /\ UNCHANGED <<cascade, queues>>
  <2>1. \E j : Become(v, j) /\ Retires(v, j)
    BY <1>1, <1>5, GotoRetires
       DEF Chain, Holding, Opening, ClaimSteps
  <2> QED
    BY <1>1, <1>5, <2>1, AsideAsks DEF SameRows, Holding
<1>6. CASE \E r \in Rankings(Ready) : Enqueue(v, r, "next_read")
  <2>1. PICK r \in Rankings(Ready) : Enqueue(v, r, "next_read")
    BY <1>6
  <2>2. Ready \in SUBSET Agents /\ Ready \cap Asked = {}
    BY <1>4 DEF Ready, Asked, FreeIds
  <2>3. Opened'
    <3>1. \E j : Become(v, j) /\ j.pc = "next_read"
      <4>1. \A h : [job[v] EXCEPT !.pc = "next_read", !.queue = h].pc
                     = "next_read"
        BY <1>1 DEF AskInv, TypeInv, TypeOK, Jobs
      <4> QED
        BY <2>1, <4>1 DEF Enqueue
    <3>2. job'[v].pc = "next_read"
      BY <1>1, <3>1, JobIs
    <3> QED
      BY <1>2, <3>2 DEF Opened, OneCascade, Opening, ClaimSteps
  <2>4. \A o \in OfferIds : ~Pending(o)
    BY <1>4 DEF Pending
  <2> QED
    BY <1>1, <1>2, <1>4, <2>1, <2>2, <2>3, <2>4, EnqueueAsks
<1> QED
  BY <1>5, <1>6 DEF StartRank

(* The pending row is closed: whoever closed it asks the next courier.     *)
LEMMA PassOn ==
  ASSUME AskInv, Grows, NEW t \in Threads, NEW o \in OfferIds, Pending(o),
         NEW s \in {"rejected", "expired"},
         offers' = [offers EXCEPT ![o].status = s],
         NEW label \in {"decline_clear", "expire_clear"}, Goto(t, label),
         job[t].pc \in {"decline_claim", "expire_claim"},
         UNCHANGED <<cascade, queues>>
  PROVE  AskParts'
<1> DEFINE j == [job[t] EXCEPT !.pc = label]
<1>1. job[t] \in Jobs /\ job[t].queue = None
  BY NoQueue DEF AskInv, TypeInv, TypeOK, Holding
<1>2. j.pc = label /\ j.queue = None
  BY <1>1 DEF Jobs
<1>3. Become(t, j)
  BY DEF Goto
<1> HIDE DEF j
<1>4. \A q \in OfferIds : /\ q # o => offers'[q] = offers[q]
                          /\ offers'[o].status = s
  BY DEF AskInv, TypeInv, TypeOK, Rows
<1>5. SameRows
  BY <1>4 DEF SameRows, Pending
<1>6. \A q \in OfferIds : ~Pending(q)'
  BY <1>4 DEF AskInv, OnePending, Pending
<1>7. \A u \in Threads : ~Asks(u)
  BY DEF AskInv, AskParts, OneAsks
<1>8. t \notin Rejecters
  BY NotRejecter
<1>9. Opened'
  <2>1. Opened
    BY HasOpened DEF Pending
  <2> QED
    BY <1>2, <1>3, <2>1, StaysOpened DEF Opening, ClaimSteps
<1>10. DeadEmpty'
  BY <1>1, <1>3, StillOwned
<1>11. NoRepeat' /\ AskedOnce'
  BY <1>2, <1>3, <1>5, <1>7, RepeatKept
<1>12. j.pc \in Chain /\ j.pc \notin Holding /\ j.pc # "next_rebuild"
  BY <1>2 DEF Chain, Holding
<1> QED
  BY <1>2, <1>3, <1>6, <1>7, <1>8, <1>9, <1>10, <1>11, <1>12, ChainKept

LEMMA PassedOn ==
  ASSUME AskInv, Grows, NEW t \in Threads,
         job[t].pc \in {"decline_clear", "expire_clear"},
         NEW p, Become(t, Begin(p, "next_read")),
         UNCHANGED <<offers, cascade, queues>>
  PROVE  AskParts'
<1>1. PICK j : j = Begin(p, "next_read")
  OBVIOUS
<1>2. j.pc = "next_read" /\ j.queue = None
  BY <1>1 DEF Begin, Idle
<1>3. Become(t, j)
  BY <1>1
<1>4. Asks(t) /\ job[t].queue = None
  BY NoQueue DEF Asks, Chain, Holding
<1>5. /\ \A u \in Threads : u # t => ~Asks(u)
      /\ \A o \in OfferIds : ~Pending(o)'
      /\ t \notin Rejecters /\ Opened
  BY <1>4, AloneAsks DEF Pending
<1>6. Opened'
  BY <1>2, <1>3, <1>5, StaysOpened DEF Opening, ClaimSteps
<1>7. DeadEmpty'
  BY <1>3, <1>4, StillOwned
<1>8. NoRepeat' /\ AskedOnce'
  BY <1>2, <1>3, <1>5, RepeatKept DEF SameRows
<1>9. j.pc \in Chain /\ j.pc \notin Holding /\ j.pc # "next_rebuild"
  BY <1>2 DEF Chain, Holding
<1> QED
  BY <1>2, <1>3, <1>5, <1>6, <1>7, <1>8, <1>9, ChainKept

-----------------------------------------------------------------------------
(* Each step of the system                                                 *)

LEMMA ContinueAsks ==
  ASSUME AskInv, OneCascade, Grows, NEW t \in Threads, Continue(t)
  PROVE  AskParts'
<1>1. CASE NextPublish(t)
  <2>1. \E j : Become(t, j) /\ Retires(t, j)
    BY <1>1, ReturnRetires DEF NextPublish, At
  <2> QED
    BY <1>1, <2>1, AsideAsks DEF NextPublish, At, SameRows, Holding
<1>2. CASE Exhaust(t)
  <2>1. \E j : Become(t, j) /\ Retires(t, j)
    BY <1>2, GotoRetires DEF Exhaust, At, Chain, Holding, Opening, ClaimSteps
  <2>2. \A p \in Procs : cascade'[p] \in {cascade[p], None}
    BY <1>2 DEF Exhaust, AskInv, TypeInv, TypeOK
  <2> QED
    BY <1>2, <2>1, <2>2, JobIs, SweptAsks DEF Exhaust, SameRows
<1>3. CASE ExhaustTell(t)
  <2>1. \E j : Become(t, j) /\ Retires(t, j)
    BY <1>3, ReturnRetires DEF ExhaustTell, At
  <2> QED
    BY <1>3, <2>1, AsideAsks DEF ExhaustTell, At, SameRows, Holding
<1>4. CASE Tell(t)
  BY <1>4, EndedRetires, AsideAsks DEF Tell, At, SameRows, Holding
<1> QED
  BY <1>1, <1>2, <1>3, <1>4, ReadAsks, RebuildAsks, TakeAsks, CreateAsks,
     ClaimAsks
     DEF Continue

LEMMA VendorAsks ==
  ASSUME AskInv, OneCascade, Grows, NEW v \in VendorCalls,
         \/ VendorStep(v)
         \/ \E p \in Procs : MarkReadyRead(v, p) \/ RejectOrderRead(v, p)
  PROVE  AskParts'
<1>0. v \in Threads /\ job[v] \in Jobs
  BY DEF Threads, AskInv, TypeInv, TypeOK
<1>1. ASSUME NEW p \in Procs, MarkReadyRead(v, p) PROVE AskParts'
  <2>1. Retires(v, Begin(p, "ready_save"))
    BY <1>1 DEF Retires, MarkReadyRead, At, Begin, Idle, Chain, Holding, Opening
  <2> QED
    BY <1>0, <1>1, <2>1, AsideAsks DEF MarkReadyRead, At, SameRows, Holding
<1>2. ASSUME NEW p \in Procs, RejectOrderRead(v, p) PROVE AskParts'
  <2>1. Retires(v, Begin(p, "reject_save"))
    BY <1>2 DEF Retires, RejectOrderRead, At, Begin, Idle, Chain, Holding
  <2> QED
    BY <1>0, <1>2, <2>1, AsideAsks DEF RejectOrderRead, At, SameRows, Holding
<1>3. CASE MarkReadySave(v)
  <2>1. \E label \in {"hard_rank", "start_cancel", "tell"} : Goto(v, label)
    BY <1>3 DEF MarkReadySave
  <2>2. \E j : Become(v, j) /\ Retires(v, j)
    BY <1>0, <1>3, <2>1, GotoRetires
       DEF MarkReadySave, At, Chain, Holding, Opening
  <2> QED
    BY <1>0, <1>3, <2>2, AsideAsks DEF MarkReadySave, At, SameRows, Holding
<1>4. CASE RejectOrderSave(v)
  BY <1>0, <1>4, EndedRetires, AsideAsks
     DEF RejectOrderSave, At, SameRows, Holding
<1>5. CASE HardRank(v)
  <2>1. CASE Goto(v, "start_cancel")
    <3>1. \E j : Become(v, j) /\ Retires(v, j)
      BY <1>0, <1>5, <2>1, GotoRetires
         DEF HardRank, At, Chain, Holding, Opening
    <3> QED
      BY <1>0, <1>5, <3>1, AsideAsks DEF HardRank, At, SameRows, Holding
  <2>2. ASSUME NEW a, Become(v, [job[v] EXCEPT !.pc = "claim_check", !.agent = a])
        PROVE  AskParts'
    <3> DEFINE j == [job[v] EXCEPT !.pc = "claim_check", !.agent = a]
    <3>1. job[v].pc = "hard_rank" /\ job[v].queue = None
      BY <1>0, <1>5, NoQueue DEF HardRank, At, Holding
    <3>2. j.pc = "claim_check" /\ j.queue = None
      BY <1>0, <3>1 DEF Jobs
    <3>3. Become(v, j)
      BY <2>2
    <3> HIDE DEF j
    <3>4. Retires(v, j)
      BY <1>0, <3>1, <3>2, RetiresTo DEF Chain, Holding, Opening
    <3> QED
      BY <1>0, <1>5, <3>1, <3>3, <3>4, AsideAsks
         DEF HardRank, SameRows, Holding
  <2> QED
    BY <1>5, <2>1, <2>2 DEF HardRank
<1>6. CASE StartCancel(v)
  <2>1. \E j : Become(v, j) /\ Retires(v, j)
    BY <1>0, <1>6, GotoRetires DEF StartCancel, At, Chain, Holding, Opening
  <2>2. SameRows
    BY <1>6 DEF StartCancel, ResolvePending, SameRows, Pending, AskInv, TypeInv,
       TypeOK, Rows
  <2> QED
    BY <1>0, <1>6, <2>1, <2>2, AsideAsks DEF StartCancel, At, Holding
<1>7. CASE StartClear(v)
  <2>1. \E j : Become(v, j) /\ Retires(v, j)
    BY <1>0, <1>7, GotoRetires DEF StartClear, At, Chain, Holding, Opening
  <2>2. \A p \in Procs : cascade'[p] \in {cascade[p], None}
    BY <1>7 DEF StartClear, AskInv, TypeInv, TypeOK
  <2> QED
    BY <1>0, <1>7, <2>1, <2>2, JobIs, SweptAsks DEF StartClear, SameRows
<1> QED
  BY <1>1, <1>2, <1>3, <1>4, <1>5, <1>6, <1>7, StartAsks DEF VendorStep

(* Couriers and crons are no vendor calls.                                 *)
LEMMA OutsiderRetires ==
  ASSUME NEW t \in Agents \cup Procs, NEW j, j.queue = None, j.pc \notin Chain
  PROVE  Retires(t, j)
BY ConstantsAssumption DEF Retires

LEMMA RequestAsks ==
  ASSUME AskInv, Grows, NEW a \in Agents, NEW p \in Procs, CourierRequest(a, p)
  PROVE  AskParts'
<1>1. /\ a \in Threads /\ job[a].pc = "idle"
      /\ UNCHANGED <<offers, cascade, queues>>
  BY DEF Threads, CourierRequest, AcceptLoad, DeclineLoad, ClaimBegin,
     AbandonRead, At
<1>2. \E j : Become(a, j) /\ j.queue = None /\ j.pc \notin Chain
  <2>1. ASSUME NEW o
        PROVE  LET i == [Begin(p, "accept_claim") EXCEPT !.agent = a, !.offer = o]
                   k == [Begin(p, "decline_claim") EXCEPT !.read = o]
               IN /\ i.queue = None /\ i.pc = "accept_claim"
                  /\ k.queue = None /\ k.pc = "decline_claim"
    BY DEF Begin, Idle
  <2>2. Begin(p, "abandon_save").queue = None
        /\ Begin(p, "abandon_save").pc = "abandon_save"
    BY DEF Begin, Idle
  <2>3. ASSUME ClaimBegin(a, p)
        PROVE  \E j : Become(a, j) /\ j.queue = None /\ j.pc \notin Chain
    <3> DEFINE k == [Begin(p, "claim_check") EXCEPT !.agent = a]
    <3>1. k \in Jobs /\ k.queue = None
      BY DEF Begin, Idle, Jobs, Steps, ClaimSteps
    <3>2. Become(a, Checked(a, k))
      BY <2>3 DEF ClaimBegin
    <3> HIDE DEF k
    <3> QED
      BY <1>1, <3>1, <3>2, CheckedRetires DEF Chain, Holding
  <2>4. {"accept_claim", "decline_claim", "abandon_save"} \cap Chain = {}
    BY DEF Chain, Holding
  <2>5. ASSUME NEW o, AcceptLoad(a, o, p) \/ DeclineLoad(a, o, p)
        PROVE  \E j : Become(a, j) /\ j.queue = None /\ j.pc \notin Chain
    BY <2>1, <2>4, <2>5 DEF AcceptLoad, DeclineLoad
  <2>6. ASSUME AbandonRead(a, p)
        PROVE  \E j : Become(a, j) /\ j.queue = None /\ j.pc \notin Chain
    BY <2>2, <2>4, <2>6 DEF AbandonRead
  <2> QED
    BY <2>3, <2>5, <2>6 DEF CourierRequest
<1>3. \E j : Become(a, j) /\ Retires(a, j)
  BY <1>2, OutsiderRetires
<1> QED
  BY <1>1, <1>3, AsideAsks DEF SameRows, Holding

LEMMA CourierAsks ==
  ASSUME AskInv, Grows, NEW a \in Agents, CourierStep(a)
  PROVE  AskParts'
<1>0. /\ a \in Threads /\ job[a] \in Jobs /\ a \notin VendorCalls
      /\ JobOK(job[a])
  BY ConstantsAssumption DEF Threads, AskInv, TypeInv, TypeOK
<1>1. CASE DeclineClaim(a)
  <2>0. /\ job[a].pc = "decline_claim" /\ job[a].read \in OfferIds
        /\ UNCHANGED <<cascade, queues>>
    BY <1>0, <1>1 DEF DeclineClaim, At, JobOK
  <2>1. CASE Pending(job[a].read)
    BY <1>0, <1>1, <2>0, <2>1, PassOn DEF DeclineClaim
  <2>2. CASE ~Pending(job[a].read)
    <3>1. \E j : Become(a, j) /\ Retires(a, j)
      BY <1>0, <1>1, <2>0, <2>2, ReturnRetires DEF DeclineClaim
    <3> QED
      BY <1>0, <1>1, <2>0, <2>2, <3>1, AsideAsks
         DEF DeclineClaim, SameRows, Holding
  <2> QED
    BY <2>1, <2>2
<1>2. CASE DeclineClear(a)
  BY <1>0, <1>2, PassedOn DEF DeclineClear, At
<1>3. CASE AcceptClear(a)
  <2>1. \E j : Become(a, j) /\ Retires(a, j)
    BY <1>0, <1>3, GotoRetires DEF AcceptClear, At, Chain, Holding
  <2>2. \A p \in Procs : cascade'[p] \in {cascade[p], None}
    BY <1>3 DEF AcceptClear, AskInv, TypeInv, TypeOK
  <2> QED
    BY <1>0, <1>3, <2>1, <2>2, JobIs, SweptAsks DEF AcceptClear, SameRows
<1>4. CASE AcceptClaim(a) \/ AcceptUndo(a) \/ AbandonSave(a)
  <2>1. /\ job[a].pc \in {"accept_claim", "accept_undo", "abandon_save"}
        /\ UNCHANGED <<cascade, queues>>
        /\ Return(a) \/ Goto(a, "accept_clear") \/ Goto(a, "tell")
    BY <1>4 DEF AcceptClaim, AcceptUndo, AbandonSave, At
  <2>2. \E j : Become(a, j) /\ Retires(a, j)
    BY <1>0, <2>1, ReturnRetires, GotoRetires DEF Chain, Holding
  <2>3. \/ UNCHANGED offers
        \/ \E o, s : /\ offers[o].status # "free" /\ s # "free"
                     /\ offers' = [offers EXCEPT ![o].status = s]
    <3>1. AcceptUndo(a) => offers[job[a].offer].status # "free"
      BY DEF AcceptUndo, At, AskInv, AnswerInv, AnswersHold, AnswerOK, Answering,
         Accepting, ClaimSteps
    <3> QED
      BY <1>4, <3>1 DEF AcceptClaim, AcceptUndo, AbandonSave, Pending
  <2>4. SameRows
    BY <2>3 DEF SameRows, AskInv, TypeInv, TypeOK, Rows
  <2> QED
    BY <1>0, <2>1, <2>2, <2>4, AsideAsks DEF Holding
<1> QED
  BY <1>1, <1>2, <1>3, <1>4 DEF CourierStep

LEMMA CronAsks ==
  ASSUME AskInv, Grows, NEW p \in Procs, CronStep(p) \/ Crash(p)
  PROVE  AskParts'
<1>0. p \in Threads /\ job[p] \in Jobs /\ JobOK(job[p])
  BY DEF Threads, AskInv, TypeInv, TypeOK
<1>1. CASE ExpireFind(p)
  <2>1. \A o : LET j == [Begin(p, "expire_claim") EXCEPT !.read = o]
               IN j.pc \notin Chain /\ j.queue = None
    BY DEF Begin, Idle, Chain, Holding
  <2>2. \E j : Become(p, j) /\ Retires(p, j)
    BY <1>1, <2>1, OutsiderRetires DEF ExpireFind
  <2> QED
    BY <1>0, <1>1, <2>2, AsideAsks DEF ExpireFind, At, SameRows, Holding
<1>2. CASE ExpireClaim(p)
  <2>0. /\ job[p].pc = "expire_claim" /\ job[p].read \in OfferIds
        /\ UNCHANGED <<cascade, queues>>
    BY <1>0, <1>2 DEF ExpireClaim, At, JobOK
  <2>1. CASE Pending(job[p].read)
    BY <1>0, <1>2, <2>0, <2>1, PassOn DEF ExpireClaim
  <2>2. CASE ~Pending(job[p].read)
    <3>1. \E j : Become(p, j) /\ Retires(p, j)
      BY <1>0, <1>2, <2>0, <2>2, ReturnRetires DEF ExpireClaim
    <3> QED
      BY <1>0, <1>2, <2>0, <2>2, <3>1, AsideAsks
         DEF ExpireClaim, SameRows, Holding
  <2> QED
    BY <2>1, <2>2
<1>3. CASE ExpireClear(p)
  BY <1>0, <1>3, PassedOn DEF ExpireClear, At
<1>4. CASE Crash(p)
  <2>1. \A q \in Procs : cascade'[q] \in {cascade[q], None}
    BY <1>4 DEF Crash, AskInv, TypeInv, TypeOK
  <2>2. \A t \in Threads : job'[t] = job[t] \/ job'[t] = Ended(t)
    BY <1>4 DEF Crash
  <2>3. \A t \in Threads : job'[t] = job[t] \/ Retires(t, job'[t])
    BY <2>2, EndedRetires
  <2> QED
    BY <1>4, <2>1, <2>3, SweptAsks DEF Crash, SameRows
<1> QED
  BY <1>1, <1>2, <1>3, <1>4 DEF CronStep

(* The detached settlement, the courier's availability and the clock.      *)
LEMMA SettleAsks ==
  ASSUME AskInv, Grows, NEW a \in Agents, SettleStep(a)
  PROVE  AskParts'
<1>1. CASE SettleMatch(a)
  <2>1. SameRows
    BY <1>1 DEF SettleMatch, SameRows, Pending, AskInv, TypeInv, TypeOK, Rows
  <2> QED
    BY <1>1, <2>1, StandsAsks DEF SettleMatch
<1>2. CASE SettleClear(a)
  <2>1. \A p \in Procs : cascade'[p] \in {cascade[p], None}
    BY <1>2 DEF SettleClear, AskInv, TypeInv, TypeOK
  <2> QED
    BY <1>2, <2>1, SweptAsks DEF SettleClear, SameRows
<1>3. CASE SettleCancel(a)
  <2>1. SameRows
    BY <1>3 DEF SettleCancel, ResolvePending, SameRows, Pending, AskInv, TypeInv,
       TypeOK, Rows
  <2> QED
    BY <1>3, <2>1, StandsAsks DEF SettleCancel
<1> QED
  BY <1>1, <1>2, <1>3 DEF SettleStep

LEMMA AskStep ==
  ASSUME OneCascade
  PROVE  AskInv /\ [Next]_vars => AskInv'
<1> SUFFICES ASSUME AskInv, [Next]_vars PROVE AskInv'
  OBVIOUS
<1>1. AnswerInv' /\ TypeInv' /\ OnePending' /\ Grows
  BY AnswerStep, StepType, OnePendingStep, RowsGrow DEF AskInv
<1>2. CASE UNCHANGED vars
  BY <1>1, <1>2, StandsAsks DEF vars, SameRows, AskInv
<1>3. ASSUME NEW a \in Agents, Toggle(a) PROVE AskParts'
  BY <1>1, <1>3, StandsAsks DEF Toggle, SameRows
<1>4. ASSUME NEW o \in OfferIds, Tick(o) PROVE AskParts'
  <2>1. SameRows
    BY <1>4 DEF Tick, SameRows, Pending, AskInv, TypeInv, TypeOK, Rows
  <2> QED
    BY <1>1, <1>4, <2>1, StandsAsks DEF Tick
<1>5. CASE Next
  <2>1. AskParts'
    BY <1>1, <1>3, <1>4, <1>5, ContinueAsks, VendorAsks, RequestAsks,
       CourierAsks, SettleAsks, CronAsks
       DEF Next
  <2> QED
    BY <1>1, <2>1 DEF AskInv
<1> QED
  BY <1>2, <1>5

(* The queue is shared by every call that got it and is rebuilt from the   *)
(* rows after a restart: where one call marks the order ready and one      *)
(* process serves it, no courier is ever asked twice about the order,      *)
(* whatever overlaps and however often the process restarts.               *)
THEOREM AskedAtMostOnce ==
  ASSUME OneCascade
  PROVE  Spec => []AskedOnce
<1>1. AskInv => AskedOnce
  BY DEF AskInv, AskParts
<1>2. AskInv /\ [Next]_vars => AskInv'
  BY AskStep
<1> QED
  BY <1>1, <1>2, AskInit, PTL DEF Spec
=============================================================================
