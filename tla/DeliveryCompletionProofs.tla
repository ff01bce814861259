---------------------- MODULE DeliveryCompletionProofs ----------------------
(***************************************************************************)
(* Theorems about DeliveryCompletion for any couriers, any number of       *)
(* handlers under way, requests, errors and failures of Stripe: the        *)
(* transfer an order names exists, no courier is paid twice by calls that  *)
(* merely overlap, a share once transferred is not transferred again, and  *)
(* the proof of a courier who lost an order does not outlive the change.   *)
(***************************************************************************)
EXTENDS DeliveryCompletion, TLAPS

-----------------------------------------------------------------------------
(* The inductive invariant                                                 *)

PaySteps == {"remaining", "list", "create", "relist", "retry", "record"}

(* What a payout under way knows: its courier, the transfer it is about to *)
(* record, and, as long as Stripe behaves, that a share it is about to     *)
(* create is the whole one.                                                *)
PayoutOK(r) ==
  /\ r.pc \in PaySteps \ {"record"} => r.agent \in Couriers
  /\ r.pc = "record" => r.made \in transfers
  /\ count.stripe = 0 =>
       /\ r.pc \notin {"relist", "retry"}
       /\ r.pc = "create" => r.amount = "whole"
       /\ r.pc = "list" /\ r.amount = "rest" => transfers # {}
RecordOK == order.transfer # None => order.transfer \in transfers
ShareOK == count.stripe = 0 =>
  \A t \in transfers : t.amount = "whole" /\ t.key = "base"

Inv == TypeOK /\ RecordOK /\ ShareOK /\ \A h \in Calls : PayoutOK(call[h])

Counts == [requests: 0..MaxRequests, failures: 0..MaxFailures,
           stripe: 0..MaxStripe]

LEMMA IdleTyped == Idle \in Handlers /\ Idle.pc = "idle"
BY DEF Idle, Handlers, Steps, Verdicts

LEMMA InitInv == Init => Inv
<1> SUFFICES ASSUME Init PROVE Inv
  OBVIOUS
<1>1. order \in Orders /\ proof \in Proofs
  BY DEF Init, Orders, Proofs, Active
<1>2. call \in [Calls -> Handlers]
  BY IdleTyped DEF Init
<1>3. count \in Counts
  BY ConstantsAssumption DEF Init, Counts
<1>4. TypeOK
  BY <1>1, <1>2, <1>3 DEF Init, TypeOK, Counts
<1>5. RecordOK /\ ShareOK
  BY DEF Init, RecordOK, ShareOK
<1>6. \A h \in Calls : PayoutOK(call[h])
  BY IdleTyped DEF Init, PayoutOK, PaySteps
<1> QED
  BY <1>4, <1>5, <1>6 DEF Inv

-----------------------------------------------------------------------------
(* The shapes of a step                                                    *)

(* A handler takes the value r; what the others know stays true.           *)
LEMMA HandlerStep ==
  ASSUME Inv, NEW h \in Calls, NEW r \in Handlers,
         call' = [call EXCEPT ![h] = r], PayoutOK(r)',
         order' \in Orders, RecordOK', proof' \in Proofs,
         transfers \subseteq transfers', transfers' \subseteq Transfers,
         ShareOK', count' \in Counts, count'.stripe = 0 => count.stripe = 0,
         late' \in BOOLEAN
  PROVE  Inv'
<1>1. TypeOK'
  BY DEF Inv, TypeOK, Counts
<1>2. \A g \in Calls : call'[g] = IF g = h THEN r ELSE call[g]
  BY DEF Inv, TypeOK
<1>3. \A g \in Calls : PayoutOK(call[g])'
  BY <1>2 DEF Inv, PayoutOK
<1> QED
  BY <1>1, <1>3 DEF Inv

(* A step outside the payout: no transfer is made or recorded.             *)
LEMMA QuietStep ==
  ASSUME Inv, NEW h \in Calls, NEW r \in Handlers, r.pc \notin PaySteps,
         call' = [call EXCEPT ![h] = r], UNCHANGED transfers,
         order' \in Orders, order'.transfer = order.transfer,
         proof' \in Proofs, count' \in Counts, count'.stripe = count.stripe,
         late' \in BOOLEAN
  PROVE  Inv'
<1>1. TypeOK'
  BY DEF Inv, TypeOK, Counts
<1>2. \A g \in Calls : call'[g] = IF g = h THEN r ELSE call[g]
  BY DEF Inv, TypeOK
<1>3. \A g \in Calls : PayoutOK(call[g])'
  BY <1>2 DEF Inv, PayoutOK, PaySteps
<1>4. RecordOK' /\ ShareOK'
  BY DEF Inv, RecordOK, ShareOK
<1> QED
  BY <1>1, <1>3, <1>4 DEF Inv

LEMMA TrackTyped == Track => late' \in BOOLEAN
BY DEF Track

LEMMA CountTyped ==
  ASSUME TypeOK
  PROVE  /\ count \in Counts
         /\ count.requests < MaxRequests /\ Count("requests") =>
              count' \in Counts /\ count'.stripe = count.stripe
         /\ count.failures < MaxFailures /\ Count("failures") =>
              count' \in Counts /\ count'.stripe = count.stripe
         /\ count.stripe < MaxStripe /\ Count("stripe") =>
              count' \in Counts /\ count'.stripe # 0
BY ConstantsAssumption DEF TypeOK, Count, Counts

LEMMA Relabel ==
  ASSUME NEW r \in Handlers, NEW label \in Steps
  PROVE  LET q == [r EXCEPT !.pc = label]
         IN  /\ q \in Handlers /\ q.pc = label /\ q.agent = r.agent
             /\ q.made = r.made /\ q.amount = r.amount /\ q.seen = r.seen
BY DEF Handlers

(* What TypeOK says of a handler and of the documents.                     *)
LEMMA Typed ==
  ASSUME Inv, NEW h \in Calls
  PROVE  /\ call[h] \in Handlers /\ PayoutOK(call[h])
         /\ order \in Orders /\ proof \in Proofs /\ count \in Counts
         /\ transfers \subseteq Transfers /\ late \in BOOLEAN
BY DEF Inv, TypeOK, Counts

LEMMA BeginStep ==
  ASSUME Inv, NEW h \in Calls, NEW label \in Steps \ PaySteps,
         NEW a \in Couriers \cup {None}, Begin(h, label, a), late' \in BOOLEAN
  PROVE  Inv'
<1> DEFINE c == order.courier
           r == [Idle EXCEPT !.pc = label, !.agent = a, !.seen = c]
<1>1. c \in Couriers \cup {None}
  BY Typed DEF Orders
<1>2. r \in Handlers /\ r.pc = label
  <2> HIDE DEF c
  <2> QED
    BY <1>1 DEF Idle, Handlers, Verdicts
<1>3. call' = [call EXCEPT ![h] = r] /\ UNCHANGED <<order, proof, transfers>>
  BY DEF Begin, Become
<1>4. count' \in Counts /\ count'.stripe = count.stripe
  BY CountTyped DEF Begin, Request, Inv
<1> HIDE DEF r
<1> QED
  BY <1>2, <1>3, <1>4, Typed, QuietStep

LEMMA CutStep ==
  ASSUME Inv, NEW h \in Calls, Cut(h) \/ PaySkip(h), late' \in BOOLEAN
  PROVE  Inv'
<1>1. count' \in Counts /\ count'.stripe = count.stripe
  BY CountTyped DEF Cut, PaySkip, Inv
<1>2. call' = [call EXCEPT ![h] = Idle] /\ UNCHANGED <<order, proof, transfers>>
  BY DEF Cut, PaySkip, Return, Become
<1> QED
  BY <1>1, <1>2, Typed, IdleTyped, QuietStep DEF PaySteps

-----------------------------------------------------------------------------
(* Requests                                                                *)

LEMMA OrderTyped ==
  ASSUME NEW o \in Orders, NEW a \in Couriers \cup {None}, NEW b \in BOOLEAN,
         NEW st \in {"approved", "shipped", "completed"}
  PROVE  /\ [o EXCEPT !.status = st, !.courier = a] \in Orders
         /\ [o EXCEPT !.status = st, !.courier = a].transfer = o.transfer
         /\ [o EXCEPT !.status = st, !.courier = a, !.linked = b] \in Orders
         /\ [o EXCEPT !.status = st, !.courier = a, !.linked = b].transfer
              = o.transfer
         /\ [o EXCEPT !.status = st] \in Orders
         /\ [o EXCEPT !.status = st].transfer = o.transfer
         /\ [o EXCEPT !.courier = a] \in Orders
         /\ [o EXCEPT !.courier = a].transfer = o.transfer
         /\ [o EXCEPT !.linked = b] \in Orders
         /\ [o EXCEPT !.linked = b].transfer = o.transfer
BY DEF Orders

LEMMA ClaimStep ==
  ASSUME Inv, NEW h \in Calls, NEW a \in Agents, Claim(h, a), late' \in BOOLEAN
  PROVE  Inv'
<1>1. order' \in Orders /\ order'.transfer = order.transfer
  BY Typed, OrderTyped DEF Claim, Couriers
<1>2. count' \in Counts /\ count'.stripe = count.stripe
  BY CountTyped DEF Claim, Request, Inv
<1>3. call' = [call EXCEPT ![h] = call[h]] /\ call[h].pc = "idle"
  BY DEF Claim, Request, At, Inv, TypeOK
<1>4. UNCHANGED <<proof, transfers>>
  BY DEF Claim
<1> QED
  BY <1>1, <1>2, <1>3, <1>4, Typed, QuietStep DEF PaySteps

LEMMA AnswerReadStep ==
  ASSUME Inv, NEW h \in Calls, NEW v \in Verdicts, AnswerRead(h, v),
         late' \in BOOLEAN
  PROVE  Inv'
<1> DEFINE r == [Idle EXCEPT !.pc = "answer", !.answer = v]
<1>1. r \in Handlers /\ r.pc = "answer"
  BY DEF Idle, Handlers, Steps
<1>2. call' = [call EXCEPT ![h] = r] /\ UNCHANGED <<order, proof, transfers>>
  BY DEF AnswerRead, Become
<1>3. count' \in Counts /\ count'.stripe = count.stripe
  BY CountTyped DEF AnswerRead, Request, Inv
<1> HIDE DEF r
<1> QED
  BY <1>1, <1>2, <1>3, Typed, QuietStep DEF PaySteps

LEMMA CloseReadStep ==
  ASSUME Inv, NEW h \in Calls, CloseRead(h), late' \in BOOLEAN
  PROVE  Inv'
<1> DEFINE r == [Idle EXCEPT !.pc = "finalize"]
<1>1. r \in Handlers /\ r.pc = "finalize"
  BY DEF Idle, Handlers, Steps, Verdicts
<1>2. call' = [call EXCEPT ![h] = r] /\ UNCHANGED <<order, proof, transfers>>
  BY DEF CloseRead, Become
<1>3. count' \in Counts /\ count'.stripe = count.stripe
  BY CountTyped DEF CloseRead, Request, Inv
<1> HIDE DEF r
<1> QED
  BY <1>1, <1>2, <1>3, Typed, QuietStep DEF PaySteps

(* A payout begins: it knows nothing yet.                                  *)
LEMMA PayLabel == "pay" \in Steps \ PaySteps
BY DEF Steps, PaySteps

LEMMA SettlePassStep ==
  ASSUME Inv, NEW h \in Calls, SettlePass(h)
  PROVE  Inv'
<1> DEFINE r == [Idle EXCEPT !.pc = "pay"]
<1>1. r \in Handlers /\ r.pc = "pay"
  BY IdleTyped, PayLabel, Relabel
<1>2. /\ call' = [call EXCEPT ![h] = r]
      /\ UNCHANGED <<order, proof, transfers, count, late>>
  BY DEF SettlePass, Become
<1> HIDE DEF r
<1> QED
  BY <1>1, <1>2, Typed, PayLabel, QuietStep

LEMMA AskStep ==
  ASSUME Inv, NEW h \in Calls, Ask(h), late' \in BOOLEAN
  PROVE  Inv'
<1>1. /\ {"release", "assign", "reassign", "handoff", "vendor_handoff", "find",
          "pay"} \subseteq Steps \ PaySteps
      /\ Agents \subseteq Couriers \cup {None} /\ Vendor \in Couriers
  BY DEF Steps, PaySteps, Couriers
<1>2. ASSUME NEW a \in Agents,
             \/ Claim(h, a) \/ HandoffRead(h, a) \/ SubmitLoad(h, a)
             \/ AssignRead(h, a) \/ ReassignRead(h, a)
      PROVE  Inv'
  BY <1>1, <1>2, ClaimStep, BeginStep
     DEF HandoffRead, SubmitLoad, AssignRead, ReassignRead
<1>3. ASSUME NEW a \in Agents \cup {None}, ReleaseRead(h, a) PROVE Inv'
  BY <1>1, <1>3, BeginStep DEF ReleaseRead
<1>4. CASE VendorHandoffRead(h)
  BY <1>1, <1>4, BeginStep DEF VendorHandoffRead
<1>5. CASE PayByAdmin(h)
  BY <1>1, <1>5, BeginStep DEF PayByAdmin
<1>6. CASE SelfAssignRead(h)
  BY <1>1, <1>6, BeginStep DEF SelfAssignRead
<1> QED
  BY <1>2, <1>3, <1>4, <1>5, <1>6, AnswerReadStep, CloseReadStep DEF Ask

-----------------------------------------------------------------------------
(* Saves outside the payout                                                *)

(* The handler goes on to a step outside the payout.                       *)
LEMMA SaveStep ==
  ASSUME Inv, NEW h \in Calls, NEW label \in Steps \ PaySteps,
         \/ Go(h, label) \/ Return(h)
         \/ Become(h, [Idle EXCEPT !.pc = label])
         \/ Become(h, [call[h] EXCEPT !.pc = label, !.found = TRUE])
         \/ Become(h, [call[h] EXCEPT !.pc = label,
                                      !.found = proof.status # "none"]),
         order' \in Orders, order'.transfer = order.transfer,
         proof' \in Proofs, UNCHANGED <<transfers, count>>, late' \in BOOLEAN
  PROVE  Inv'
<1>1. PICK b \in BOOLEAN : b = (proof.status # "none")
  OBVIOUS
<1>2. PICK c : c = call[h]
  OBVIOUS
<1>3. c \in Handlers
  BY <1>2, Typed
<1>4. ASSUME NEW f \in BOOLEAN
      PROVE  LET r == [c EXCEPT !.pc = label, !.found = f]
             IN  r \in Handlers /\ r.pc = label
  BY <1>3 DEF Handlers
<1>5. LET r == [c EXCEPT !.pc = label] IN r \in Handlers /\ r.pc = label
  BY <1>3, Relabel
<1>6. LET r == [Idle EXCEPT !.pc = label] IN r \in Handlers /\ r.pc = label
  BY IdleTyped, Relabel
<1>7. Idle \in Handlers /\ Idle.pc \notin PaySteps
  BY IdleTyped DEF PaySteps
<1>8. \E r \in Handlers : r.pc \notin PaySteps /\ call' = [call EXCEPT ![h] = r]
  <2>1. CASE Go(h, label)
    <3>1. call' = [call EXCEPT ![h] = [c EXCEPT !.pc = label]]
      BY <1>2, <2>1 DEF Go, Inv, TypeOK
    <3> QED
      BY <3>1, <1>5
  <2>2. CASE Return(h)
    BY <2>2, <1>7 DEF Return, Become
  <2>3. CASE Become(h, [Idle EXCEPT !.pc = label])
    BY <2>3, <1>6 DEF Become
  <2>4. CASE Become(h, [call[h] EXCEPT !.pc = label, !.found = TRUE])
    BY <2>4, <1>2, <1>4 DEF Become
  <2>5. CASE Become(h, [call[h] EXCEPT !.pc = label,
                                       !.found = proof.status # "none"])
    BY <2>5, <1>1, <1>2, <1>4 DEF Become
  <2> QED
    BY <2>1, <2>2, <2>3, <2>4, <2>5
<1> QED
  BY <1>8, Typed, QuietStep

LEMMA Labels ==
  {"idle", "unlink", "pay", "put", "link", "complete", "close", "complete_save"}
    \subseteq Steps \ PaySteps
BY DEF Steps, PaySteps

LEMMA CarrierSaves ==
  ASSUME Inv, NEW h \in Calls, late' \in BOOLEAN,
         \/ Release(h) \/ Assign(h) \/ Reassign(h) \/ Unlink(h) \/ Handoff(h)
         \/ SubmitLink(h) \/ CompleteSave(h)
  PROVE  Inv'
<1> PICK o : o = order
  OBVIOUS
<1>1. /\ o \in Orders /\ proof \in Proofs /\ call[h] \in Handlers
      /\ o.courier \in Couriers \cup {None} /\ Vendor \in Couriers
      /\ call[h].agent \in Couriers \cup {None}
  BY Typed DEF Orders, Handlers, Couriers
<1>2. /\ \A a \in Couriers \cup {None}, st \in {"approved", "shipped", "completed"} :
           LET q == [o EXCEPT !.status = st, !.courier = a]
           IN  q \in Orders /\ q.transfer = o.transfer
      /\ \A a \in Couriers \cup {None} :
           LET q == [o EXCEPT !.courier = a]
           IN  q \in Orders /\ q.transfer = o.transfer
      /\ LET q == [o EXCEPT !.linked = FALSE]
         IN  q \in Orders /\ q.transfer = o.transfer
      /\ LET q == [o EXCEPT !.linked = TRUE]
         IN  q \in Orders /\ q.transfer = o.transfer
      /\ LET q == [o EXCEPT !.status = "completed"]
         IN  q \in Orders /\ q.transfer = o.transfer
  BY <1>1 DEF Orders
<1>3. order' \in Orders /\ order'.transfer = order.transfer
  <2>1. CASE Release(h)
    <3>1. PICK a \in Couriers \cup {None} :
            order' = [o EXCEPT !.status = "approved", !.courier = a]
      BY <1>1, <2>1 DEF Release
    <3> QED
      BY <3>1, <1>2
  <2>2. CASE Assign(h)
    <3>1. PICK a \in Couriers \cup {None} :
            order' = [o EXCEPT !.status = "shipped", !.courier = a]
      BY <1>1, <2>2 DEF Assign
    <3> QED
      BY <3>1, <1>2
  <2>3. CASE Reassign(h)
    BY <1>1, <1>2, <2>3 DEF Reassign
  <2>4. CASE Unlink(h)
    BY <1>2, <2>4 DEF Unlink
  <2>5. CASE Handoff(h)
    <3>1. PICK a \in Couriers \cup {None} :
            order' = [o EXCEPT !.status = "completed", !.courier = a]
      BY <1>1, <2>5 DEF Handoff
    <3> QED
      BY <3>1, <1>2
  <2>6. CASE SubmitLink(h)
    BY <1>2, <2>6 DEF SubmitLink
  <2>7. CASE CompleteSave(h)
    BY <1>2, <2>7 DEF CompleteSave
  <2> QED
    BY <2>1, <2>2, <2>3, <2>4, <2>5, <2>6, <2>7
<1>4. UNCHANGED <<proof, transfers, count>>
  BY DEF Release, Assign, Reassign, Unlink, Handoff, SubmitLink, CompleteSave
<1>5. CASE Release(h) \/ Unlink(h) \/ SubmitLink(h)
  BY <1>1, <1>3, <1>4, <1>5, Labels, SaveStep DEF Release, Unlink, SubmitLink
<1>6. CASE Assign(h) \/ Reassign(h)
  BY <1>1, <1>3, <1>4, <1>6, Labels, SaveStep DEF Assign, Reassign
<1>7. CASE Handoff(h)
  BY <1>1, <1>3, <1>4, <1>7, Labels, SaveStep DEF Handoff
<1>8. CASE CompleteSave(h)
  BY <1>1, <1>3, <1>4, <1>8, Labels, SaveStep DEF CompleteSave
<1> QED
  BY <1>5, <1>6, <1>7, <1>8

LEMMA ProofSaves ==
  ASSUME Inv, NEW h \in Calls, late' \in BOOLEAN,
         \/ SubmitFind(h) \/ SubmitPut(h) \/ Answer(h) \/ Finalize(h)
         \/ Complete(h) \/ Close(h)
  PROVE  Inv'
<1>1. /\ order \in Orders /\ proof \in Proofs /\ call[h] \in Handlers
      /\ call[h].agent \in Couriers \cup {None}
  BY Typed DEF Handlers
<1>2. UNCHANGED <<order, transfers, count>>
  BY DEF SubmitFind, SubmitPut, Answer, Finalize, Complete, Close
<1>3. CASE SubmitFind(h)
  BY <1>1, <1>2, <1>3, Labels, SaveStep DEF SubmitFind
<1>4. CASE SubmitPut(h)
  <2>1. proof' \in Proofs
    BY <1>1, <1>4 DEF SubmitPut, Proofs, Active
  <2>2. Go(h, "link") \/ Return(h)
    BY <1>4 DEF SubmitPut
  <2> QED
    BY <1>1, <1>2, <2>1, <2>2, Labels, SaveStep
<1>5. CASE Answer(h)
  <2>1. proof' \in Proofs
    <3>1. call[h].answer \in Verdicts
      BY <1>1 DEF Handlers
    <3> QED
      BY <1>1, <1>5, <3>1 DEF Answer, Proofs, Active, Verdicts
  <2> QED
    BY <1>1, <1>2, <1>5, <2>1, Labels, SaveStep DEF Answer
<1>6. CASE Finalize(h)
  <2>1. PICK label \in {"complete", "close"} : Go(h, label)
    BY <1>6 DEF Finalize
  <2>2. UNCHANGED proof
    BY <1>6 DEF Finalize
  <2> QED
    BY <1>1, <1>2, <2>1, <2>2, Labels, SaveStep
<1>7. CASE Complete(h)
  <2>1. Go(h, "close") \/ Return(h) \/ Go(h, "complete_save")
    BY <1>1, <1>7 DEF Complete, Orders
  <2>2. UNCHANGED proof
    BY <1>7 DEF Complete
  <2> QED
    BY <1>1, <1>2, <2>1, <2>2, Labels, SaveStep
<1>8. CASE Close(h)
  <2>1. proof' \in Proofs
    BY <1>1, <1>8 DEF Close, Proofs, Active
  <2>2. Become(h, [Idle EXCEPT !.pc = "pay"]) \/ Return(h)
    BY <1>8 DEF Close
  <2> QED
    BY <1>1, <1>2, <2>1, <2>2, Labels, SaveStep
<1> QED
  BY <1>3, <1>4, <1>5, <1>6, <1>7, <1>8

-----------------------------------------------------------------------------
(* The payout                                                              *)

LEMMA PayLoadStep ==
  ASSUME Inv, NEW h \in Calls, PayLoad(h), late' \in BOOLEAN
  PROVE  Inv'
<1>1. UNCHANGED <<order, proof, transfers, count>>
  BY DEF PayLoad
<1>2. CASE Return(h)
  BY <1>1, <1>2, Typed, Labels, SaveStep
<1>3. CASE /\ order.courier # None
           /\ Become(h, [Idle EXCEPT !.pc = "remaining", !.agent = order.courier])
  <2> PICK a : a = order.courier
    OBVIOUS
  <2>1. a \in Couriers
    BY <1>3, Typed DEF Orders
  <2> DEFINE r == [Idle EXCEPT !.pc = "remaining", !.agent = a]
  <2>2. r \in Handlers /\ r.pc = "remaining" /\ r.agent = a
    BY <2>1 DEF Idle, Handlers, Steps, Verdicts
  <2>3. call' = [call EXCEPT ![h] = r]
    BY <1>3 DEF Become
  <2> HIDE DEF r
  <2>4. PayoutOK(r)'
    BY <2>1, <2>2 DEF PayoutOK, PaySteps
  <2>5. RecordOK' /\ ShareOK'
    BY <1>1 DEF Inv, RecordOK, ShareOK
  <2> QED
    BY <1>1, <2>2, <2>3, <2>4, <2>5, Typed, HandlerStep
<1> QED
  BY <1>2, <1>3 DEF PayLoad

(* The payout goes on to another step without a word from Stripe.          *)
LEMMA GoOn ==
  ASSUME Inv, NEW h \in Calls, UNCHANGED <<order, proof, transfers>>,
         NEW label \in Steps, label # "record", Go(h, label),
         call[h].pc \in PaySteps \ {"record"},
         count'.stripe = 0 => /\ label \notin {"relist", "retry", "list"}
                              /\ label = "create" => call[h].amount = "whole",
         count' \in Counts, count'.stripe = 0 => count.stripe = 0,
         late' \in BOOLEAN
  PROVE  Inv'
<1> PICK c : c = call[h]
  OBVIOUS
<1> DEFINE r == [c EXCEPT !.pc = label]
<1>1. c \in Handlers /\ c.agent \in Couriers
  BY Typed DEF PayoutOK
<1>2. /\ r \in Handlers /\ r.pc = label /\ r.agent = c.agent
      /\ r.amount = c.amount
  BY <1>1, Relabel
<1>3. call' = [call EXCEPT ![h] = r]
  BY DEF Go, Inv, TypeOK
<1> HIDE DEF r
<1>4. PayoutOK(r)'
  BY <1>1, <1>2 DEF PayoutOK, PaySteps
<1>5. RecordOK' /\ ShareOK'
  BY DEF Inv, RecordOK, ShareOK
<1> QED
  BY <1>2, <1>3, <1>4, <1>5, Typed, HandlerStep

(* The payout has found or made a transfer, and goes on to record it.      *)
LEMMA RecordStep ==
  ASSUME Inv, NEW h \in Calls, UNCHANGED <<order, proof, count>>,
         NEW t \in Transfers, Record(h, t), t \in transfers',
         transfers \subseteq transfers', transfers' \subseteq Transfers,
         ShareOK', late' \in BOOLEAN
  PROVE  Inv'
<1> PICK c : c = call[h]
  OBVIOUS
<1> DEFINE r == [c EXCEPT !.pc = "record", !.made = t]
<1>1. c \in Handlers
  BY Typed
<1>2. r \in Handlers /\ r.pc = "record" /\ r.made = t
  BY <1>1 DEF Handlers, Steps
<1>3. call' = [call EXCEPT ![h] = r]
  BY DEF Record, Become
<1> HIDE DEF r
<1>4. PayoutOK(r)'
  BY <1>2 DEF PayoutOK
<1>5. RecordOK'
  BY DEF Inv, RecordOK
<1> QED
  BY <1>2, <1>3, <1>4, <1>5, Typed, HandlerStep

LEMMA PayRemainingStep ==
  ASSUME Inv, NEW h \in Calls, PayRemaining(h), late' \in BOOLEAN
  PROVE  Inv'
<1> PICK c : c = call[h]
  OBVIOUS
<1>1. PICK m \in {"whole", "rest"} :
        /\ Become(h, [c EXCEPT !.pc = "list", !.amount = m])
        /\ \/ UNCHANGED count /\ (m = "rest" => transfers # {})
           \/ count.stripe < MaxStripe /\ Count("stripe")
  BY DEF PayRemaining
<1> DEFINE r == [c EXCEPT !.pc = "list", !.amount = m]
<1>2. c \in Handlers /\ c.agent \in Couriers /\ count \in Counts
  BY Typed DEF PayRemaining, At, PayoutOK, PaySteps
<1>3. r \in Handlers /\ r.pc = "list" /\ r.amount = m /\ r.agent = c.agent
  BY <1>2 DEF Handlers, Steps
<1>4. call' = [call EXCEPT ![h] = r] /\ UNCHANGED <<order, proof, transfers>>
  BY <1>1 DEF Become, PayRemaining
<1>5. /\ count' \in Counts
      /\ count'.stripe = 0 => count.stripe = 0 /\ (m = "rest" => transfers # {})
  BY <1>1, <1>2, CountTyped DEF Inv
<1> HIDE DEF r
<1>6. PayoutOK(r)'
  BY <1>2, <1>3, <1>4, <1>5 DEF PayoutOK, PaySteps
<1>7. RecordOK' /\ ShareOK'
  BY <1>4, <1>5 DEF Inv, RecordOK, ShareOK
<1> QED
  BY <1>3, <1>4, <1>5, <1>6, <1>7, Typed, HandlerStep

LEMMA PayListStep ==
  ASSUME Inv, NEW h \in Calls, PayList(h) \/ PayRelist(h), late' \in BOOLEAN
  PROVE  Inv'
<1>1. /\ UNCHANGED <<order, proof, transfers, count>>
      /\ call[h].pc \in {"list", "relist"}
  BY DEF PayList, PayRelist, At
<1>2. ASSUME NEW t \in transfers, Record(h, t) PROVE Inv'
  <2>1. t \in Transfers /\ ShareOK'
    BY <1>1, Typed DEF Inv, ShareOK
  <2> QED
    BY <1>1, <1>2, <2>1, Typed, RecordStep
<1>3. CASE transfers = {} /\ PayList(h) /\ Go(h, "create")
  <2>1. count.stripe = 0 => call[h].amount = "whole"
    <3>1. call[h].amount \in {"whole", "rest"} /\ call[h].pc = "list"
      BY <1>3, Typed DEF PayList, At, Handlers
    <3> QED
      BY <3>1, <1>3, Typed DEF PayoutOK
  <2>2. "create" \in Steps /\ call[h].pc \in PaySteps \ {"record"}
    BY <1>1 DEF Steps, PaySteps
  <2> QED
    BY <1>1, <1>3, <2>1, <2>2, Typed, GoOn
<1>4. CASE PayRelist(h) /\ Go(h, "retry")
  <2>1. count.stripe # 0
    BY <1>4, Typed DEF PayRelist, At, PayoutOK
  <2>2. "retry" \in Steps /\ call[h].pc \in PaySteps \ {"record"}
    BY <1>1 DEF Steps, PaySteps
  <2> QED
    BY <1>1, <1>4, <2>1, <2>2, Typed, GoOn
<1> QED
  BY <1>2, <1>3, <1>4 DEF PayList, PayRelist, Found

LEMMA StripeFails ==
  ASSUME Inv, NEW h \in Calls, PayListFails(h) \/ PayConflict(h), late' \in BOOLEAN
  PROVE  Inv'
<1>1. PICK label \in {"create", "retry", "relist"} :
        /\ count.stripe < MaxStripe /\ Count("stripe") /\ Go(h, label)
        /\ UNCHANGED <<order, proof, transfers>>
        /\ call[h].pc \in {"list", "relist", "create"}
  BY DEF PayListFails, PayConflict, Stripe, At
<1>2. count' \in Counts /\ count'.stripe # 0
  BY <1>1, CountTyped DEF Inv
<1>3. label \in Steps /\ label # "record" /\ call[h].pc \in PaySteps \ {"record"}
  BY <1>1 DEF Steps, PaySteps
<1> QED
  BY <1>1, <1>2, <1>3, Typed, GoOn

LEMMA MadeTyped ==
  ASSUME Inv, NEW h \in Calls, call[h].pc \in {"create", "retry"},
         NEW key \in {"base", "retry"}
  PROVE  /\ Made(h, key) \in Transfers /\ Made(h, key).key = key
         /\ Made(h, key).amount = call[h].amount
<1>1. call[h].agent \in Couriers /\ call[h].amount \in {"whole", "rest"}
  BY Typed DEF PayoutOK, PaySteps, Handlers
<1> QED
  BY <1>1 DEF Made, Transfers

LEMMA PayCreateStep ==
  ASSUME Inv, NEW h \in Calls, PayCreate(h) \/ PayRetry(h), late' \in BOOLEAN
  PROVE  Inv'
<1>1. PICK key \in {"base", "retry"} :
        /\ transfers' = transfers \cup {Made(h, key)}
        /\ Record(h, Made(h, key)) /\ UNCHANGED <<order, proof, count>>
        /\ \/ call[h].pc = "create" /\ key = "base"
           \/ call[h].pc = "retry"
  BY DEF PayCreate, PayRetry, At
<1> PICK t : t = Made(h, key)
  OBVIOUS
<1>2. t \in Transfers /\ t.key = key /\ t.amount = call[h].amount
  BY <1>1, MadeTyped
<1>3. count.stripe = 0 => key = "base" /\ call[h].amount = "whole"
  BY <1>1, Typed DEF PayoutOK
<1>4. ShareOK'
  BY <1>1, <1>2, <1>3 DEF Inv, ShareOK
<1> QED
  BY <1>1, <1>2, <1>4, Typed, RecordStep

LEMMA PayRecordStep ==
  ASSUME Inv, NEW h \in Calls, PayRecord(h), late' \in BOOLEAN
  PROVE  Inv'
<1> PICK o : o = order
  OBVIOUS
<1> PICK t : t = call[h].made
  OBVIOUS
<1>1. t \in transfers /\ t \in Transfers /\ o \in Orders
  BY Typed DEF PayRecord, At, PayoutOK
<1>2. /\ order' = [o EXCEPT !.transfer = t] /\ call' = [call EXCEPT ![h] = Idle]
      /\ UNCHANGED <<proof, transfers, count>>
  BY DEF PayRecord, Return, Become
<1>3. order' \in Orders /\ order'.transfer = t
  BY <1>1, <1>2 DEF Orders
<1>4. RecordOK' /\ ShareOK'
  BY <1>1, <1>2, <1>3 DEF Inv, RecordOK, ShareOK
<1>5. PayoutOK(Idle)'
  BY IdleTyped DEF PayoutOK, PaySteps, Idle
<1> QED
  BY <1>2, <1>3, <1>4, <1>5, Typed, IdleTyped, HandlerStep

-----------------------------------------------------------------------------
(* Every step                                                              *)

LEMMA ServeStep ==
  ASSUME Inv, NEW h \in Calls, Serve(h)
  PROVE  Inv'
BY TrackTyped, CarrierSaves, ProofSaves, PayLoadStep, PayRemainingStep,
   PayListStep, PayCreateStep, PayRecordStep DEF Serve, Pay

LEMMA NextStep ==
  ASSUME Inv, [Next]_vars
  PROVE  Inv'
<1>1. CASE UNCHANGED vars
  <2>1. TypeOK' /\ RecordOK' /\ ShareOK'
    BY <1>1 DEF vars, Inv, TypeOK, RecordOK, ShareOK
  <2>2. \A h \in Calls : PayoutOK(call[h])'
    BY <1>1 DEF vars, Inv, PayoutOK
  <2> QED
    BY <2>1, <2>2 DEF Inv
<1>2. CASE Next
  BY <1>2, TrackTyped, ServeStep, SettlePassStep, AskStep, CutStep, StripeFails
     DEF Next
<1> QED
  BY <1>1, <1>2

THEOREM Invariance == Spec => []Inv
<1> QED
  BY InitInv, NextStep, PTL DEF Spec

-----------------------------------------------------------------------------
(* What the invariant says                                                 *)

(* The order, its proof, the handlers and the transfers keep their types.  *)
THEOREM CompletionTypes == Spec => []TypeOK
<1>1. Inv => TypeOK
  BY DEF Inv
<1> QED
  BY Invariance, <1>1, PTL

(* The transfer an order names is one that exists at Stripe, whatever      *)
(* fails and wherever a handler is cut short.                              *)
THEOREM NamedTransferExists == Spec => []RecordedTransferExists
<1>1. Inv => RecordedTransferExists
  BY DEF Inv, RecordOK, RecordedTransferExists
<1> QED
  BY Invariance, <1>1, PTL

(* As long as Stripe lists its transfers, no two requests collide and the  *)
(* amount does not move before the first transfer, no courier gets the     *)
(* share twice, whatever calls overlap.                                    *)
THEOREM SharePaidOnce == Spec => []NoCourierPaidTwice
<1>1. ASSUME NEW t \in Transfers, NEW u \in Transfers, t.to = u.to,
             t.amount = u.amount, t.key = u.key
      PROVE  t = u
  BY <1>1 DEF Transfers
<1>2. Inv => NoCourierPaidTwice
  BY <1>1 DEF Inv, TypeOK, ShareOK, NoCourierPaidTwice
<1> QED
  BY Invariance, <1>2, PTL

LEMMA Becomes ==
  ASSUME Inv, NEW h \in Calls
  PROVE  /\ \A r : Become(h, r) => /\ call'[h] = r
                                  /\ \A g \in Calls : g # h => call'[g] = call[g]
         /\ \A label : Go(h, label) =>
              /\ call'[h].pc = label
              /\ \A g \in Calls : g # h => call'[g] = call[g]
         /\ Return(h) => /\ call'[h].pc = "idle"
                         /\ \A g \in Calls : g # h => call'[g] = call[g]
BY DEF Inv, TypeOK, Become, Go, Return, Handlers, Idle

(* A payout about to create a transfer found none, or its listing failed.  *)
Creating == {"create", "retry"}

(* A step that makes nobody about to create leaves the share settled.      *)
LEMMA StillSettled ==
  ASSUME Inv, Settled, NEW h \in Calls, call'[h].pc \notin Creating,
         \A g \in Calls : g # h => call'[g] = call[g], UNCHANGED transfers
  PROVE  Settled' /\ UNCHANGED transfers
BY DEF Settled, Creating

(* Where a handler can stand that is not about to create.                  *)
Elsewhere == Steps \ Creating

LEMMA Elsewheres ==
  ASSUME Inv, NEW h \in Calls
  PROVE  /\ \A a : [Idle EXCEPT !.pc = "remaining", !.agent = a].pc \in Elsewhere
         /\ [Idle EXCEPT !.pc = "pay"].pc \in Elsewhere
         /\ [Idle EXCEPT !.pc = "finalize"].pc \in Elsewhere
         /\ \A v : [Idle EXCEPT !.pc = "answer", !.answer = v].pc \in Elsewhere
         /\ \A pc \in Elsewhere : \A a, c :
              [Idle EXCEPT !.pc = pc, !.agent = a, !.seen = c].pc \in Elsewhere
         /\ \A v : [call[h] EXCEPT !.pc = "put", !.found = v].pc \in Elsewhere
         /\ \A v : [call[h] EXCEPT !.pc = "close", !.found = v].pc \in Elsewhere
         /\ \A v : [call[h] EXCEPT !.pc = "list", !.amount = v].pc \in Elsewhere
         /\ \A v : [call[h] EXCEPT !.pc = "record", !.made = v].pc \in Elsewhere
<1> PICK c \in Handlers : c = call[h]
  BY Typed
<1>1. /\ \A v : [c EXCEPT !.pc = "put", !.found = v].pc = "put"
      /\ \A v : [c EXCEPT !.pc = "close", !.found = v].pc = "close"
      /\ \A v : [c EXCEPT !.pc = "list", !.amount = v].pc = "list"
      /\ \A v : [c EXCEPT !.pc = "record", !.made = v].pc = "record"
  BY DEF Handlers
<1>2. /\ [Idle EXCEPT !.pc = "pay"].pc = "pay"
      /\ [Idle EXCEPT !.pc = "finalize"].pc = "finalize"
      /\ \A v : [Idle EXCEPT !.pc = "answer", !.answer = v].pc = "answer"
      /\ \A a : [Idle EXCEPT !.pc = "remaining", !.agent = a].pc = "remaining"
      /\ \A pc, a, d : [Idle EXCEPT !.pc = pc, !.agent = a, !.seen = d].pc = pc
  BY DEF Idle
<1> QED
  BY <1>1, <1>2 DEF Elsewhere, Steps, Creating

LEMMA SettledAsk ==
  ASSUME Inv, Settled, NEW h \in Calls, Ask(h) \/ SettlePass(h)
  PROVE  Settled' /\ UNCHANGED transfers
<1>1. {"release", "assign", "reassign", "handoff", "vendor_handoff", "find",
       "pay"} \subseteq Elsewhere
  BY DEF Elsewhere, Steps, Creating
<1>2. ASSUME NEW pc \in Elsewhere, NEW a, Begin(h, pc, a)
      PROVE  Settled' /\ UNCHANGED transfers
  <2> PICK r : r = [Idle EXCEPT !.pc = pc, !.agent = a, !.seen = order.courier]
    OBVIOUS
  <2>1. r.pc \in Elsewhere
    BY Elsewheres
  <2>2. Become(h, r) /\ UNCHANGED transfers
    BY <1>2 DEF Begin
  <2> QED
    BY <2>1, <2>2, Becomes, StillSettled DEF Elsewhere
<1>3. ASSUME NEW a \in Agents, Claim(h, a)
      PROVE  Settled' /\ UNCHANGED transfers
  BY <1>3 DEF Claim, Settled
<1>4. ASSUME NEW v \in Verdicts, AnswerRead(h, v)
      PROVE  Settled' /\ UNCHANGED transfers
  <2> PICK r : r = [Idle EXCEPT !.pc = "answer", !.answer = v]
    OBVIOUS
  <2>1. r.pc \in Elsewhere
    BY Elsewheres
  <2>2. Become(h, r) /\ UNCHANGED transfers
    BY <1>4 DEF AnswerRead
  <2> QED
    BY <2>1, <2>2, Becomes, StillSettled DEF Elsewhere
<1>5. CASE CloseRead(h) \/ SettlePass(h)
  <2>1. \E r : r.pc \in Elsewhere /\ Become(h, r)
    BY <1>5, Elsewheres DEF CloseRead, SettlePass
  <2>2. UNCHANGED transfers
    BY <1>5 DEF CloseRead, SettlePass
  <2> QED
    BY <2>1, <2>2, Becomes, StillSettled DEF Elsewhere
<1> QED
  BY <1>1, <1>2, <1>3, <1>4, <1>5
     DEF Ask, HandoffRead, SubmitLoad, AssignRead, ReassignRead, ReleaseRead,
         SelfAssignRead, VendorHandoffRead, PayByAdmin

LEMMA SettledServe ==
  ASSUME Inv, Settled, NEW h \in Calls,
         Serve(h) \/ Cut(h) \/ PaySkip(h) \/ PayConflict(h)
  PROVE  Settled' /\ UNCHANGED transfers
<1>1. transfers # {} /\ call[h].pc \notin Creating
  BY DEF Settled, Creating
<1>2. UNCHANGED transfers
  BY <1>1
     DEF Serve, Cut, PaySkip, PayConflict, Stripe, Release, Assign, Reassign,
         Unlink, Handoff, SubmitFind, SubmitPut, SubmitLink, Answer, Finalize,
         Complete, CompleteSave, Close, Pay, PayLoad, PayRemaining, PayList,
         PayCreate, PayRelist, PayRetry, PayRecord, At, Creating
<1>3. {"unlink", "link", "complete", "close", "complete_save", "relist"}
        \subseteq Elsewhere
  BY DEF Elsewhere, Steps, Creating
<1>4. \/ Return(h)
      \/ \E l \in Elsewhere : Go(h, l)
      \/ \E r : r.pc \in Elsewhere /\ Become(h, r)
  <2>1. CASE \/ Release(h) \/ Unlink(h) \/ SubmitLink(h) \/ Answer(h)
             \/ PayRecord(h) \/ Cut(h) \/ PaySkip(h)
    BY <2>1 DEF Release, Unlink, SubmitLink, Answer, PayRecord, Cut, PaySkip
  <2>2. CASE \/ Assign(h) \/ Reassign(h) \/ Finalize(h) \/ Complete(h)
             \/ SubmitPut(h) \/ PayConflict(h)
    BY <1>3, <2>2 DEF Assign, Reassign, Finalize, Complete, SubmitPut,
                      PayConflict, Stripe
  <2>3. CASE Handoff(h) \/ Close(h)
    BY <2>3, Elsewheres DEF Handoff, Close
  <2>4. CASE SubmitFind(h)
    BY <2>4, Elsewheres DEF SubmitFind
  <2>5. CASE CompleteSave(h)
    BY <2>5, Elsewheres DEF CompleteSave
  <2>6. CASE PayLoad(h)
    BY <2>6, Elsewheres DEF PayLoad
  <2>7. CASE PayRemaining(h)
    BY <2>7, Elsewheres DEF PayRemaining
  <2>8. CASE PayList(h) \/ PayRelist(h)
    BY <1>1, <2>8, Elsewheres DEF PayList, PayRelist, Found, Record
  <2>9. ~PayCreate(h) /\ ~PayRetry(h)
    BY <1>1 DEF PayCreate, PayRetry, At, Creating
  <2> QED
    BY <2>1, <2>2, <2>3, <2>4, <2>5, <2>6, <2>7, <2>8, <2>9 DEF Serve, Pay
<1>5. "idle" \notin Creating
  BY DEF Creating
<1> QED
  BY <1>2, <1>4, <1>5, Becomes, StillSettled DEF Elsewhere

(* A share once transferred is not transferred again, whoever the order    *)
(* goes to and whatever the amount becomes, unless a listing fails.        *)
THEOREM ShareNotPaidAgain == Spec => NeverPaidAgain
<1>1. ASSUME Inv, Settled, [Next]_vars
      PROVE  \/ Settled' /\ UNCHANGED transfers
             \/ \E h \in Calls : PayListFails(h)
  <2>1. CASE UNCHANGED vars
    BY <1>1, <2>1 DEF vars, Settled
  <2>2. CASE Next
    BY <1>1, <2>2, SettledAsk, SettledServe DEF Next
  <2> QED
    BY <1>1, <2>1, <2>2
<1>2. Inv /\ [Next]_vars =>
        [Settled => \/ Settled' /\ UNCHANGED transfers
                    \/ \E h \in Calls : PayListFails(h)]_vars
  BY <1>1
<1> QED
  BY Invariance, <1>2, PTL DEF Spec, NeverPaidAgain

-----------------------------------------------------------------------------
(* The proof linked to the order                                           *)

Reviewing == {"answer", "finalize", "complete", "complete_save", "close"}

(* A review has a proof to review.  A submission knows that the proof, if  *)
(* there was none when it looked, is by its own courier; one about to link *)
(* the proof knows it whatever it did.                                     *)
ReviewOK(r) == r.pc \in Reviewing => proof.status # "none"
SubmissionOK(r) ==
  /\ r.pc = "put" /\ ~r.found => proof.status = "none" \/ proof.agent = r.agent
  /\ r.pc = "link" => proof.agent = r.agent
LinkOK ==
  (/\ \A h \in Calls : ~At(h, "unlink")
   /\ order.status = "shipped" /\ order.linked) => proof.agent = order.courier

Watched == count.failures = 0 /\ ~late
Purged ==
  /\ \A h \in Calls : ReviewOK(call[h])
  /\ Watched => ~Outlived /\ LinkOK /\ \A h \in Calls : SubmissionOK(call[h])

(* A step that leaves the courier of the proof alone, links no proof, and  *)
(* makes the order somebody's only when a purge follows.                   *)
LEMMA PurgeKept ==
  ASSUME Purged, NEW h \in Calls,
         \A g \in Calls : g # h => call'[g] = call[g],
         call'[h].pc \in Reviewing => proof.status # "none",
         call'[h].pc \notin {"put", "link"},
         proof'.agent = proof.agent,
         proof'.status = "none" <=> proof.status = "none",
         order'.linked => order.linked,
         call[h].pc = "unlink" => ~order'.linked,
         call'[h].pc # "unlink" /\ order'.status = "shipped" /\ order'.linked =>
           order.status = "shipped" /\ order'.courier = order.courier,
         Watched' => Watched /\ ~Outlived'
  PROVE  Purged'
<1>1. \A g \in Calls : ReviewOK(call[g])'
  BY DEF Purged, ReviewOK
<1>2. ASSUME Watched', NEW g \in Calls PROVE SubmissionOK(call[g])'
  BY <1>2 DEF Purged, SubmissionOK
<1>3. ASSUME Watched' PROVE LinkOK'
  BY <1>3 DEF Purged, LinkOK, At
<1> QED
  BY <1>1, <1>2, <1>3 DEF Purged

(* Errors only add up, and so does what the history saw.                   *)
LEMMA WatchStep ==
  ASSUME Inv, Track,
         \/ UNCHANGED count
         \/ Count("requests") \/ Count("stripe") \/ Count("failures")
  PROVE  Watched' => Watched /\ ~Outlived'
<1>1. count'.failures = 0 => count.failures = 0
  BY DEF Inv, TypeOK, Count
<1> QED
  BY <1>1 DEF Watched, Track

LEMMA PurgeRead ==
  ASSUME Inv, Purged, Track, NEW h \in Calls, NEW pc, NEW a,
         Begin(h, pc, a), pc \notin Reviewing \cup {"put", "link"}
  PROVE  Purged'
<1>1. call'[h].pc = pc /\ \A g \in Calls : g # h => call'[g] = call[g]
  <2>1. [Idle EXCEPT !.pc = pc, !.agent = a, !.seen = order.courier].pc = pc
    BY DEF Idle
  <2> QED
    BY <2>1, Becomes DEF Begin
<1>2. call[h].pc = "idle" /\ UNCHANGED <<order, proof>> /\ Count("requests")
  BY DEF Begin, Request, At
<1> QED
  BY <1>1, <1>2, PurgeKept, WatchStep

LEMMA PurgeAsk ==
  ASSUME Inv, Purged, Track, NEW h \in Calls, Ask(h)
  PROVE  Purged'
<1>1. {"release", "assign", "reassign", "handoff", "vendor_handoff", "find",
       "pay"} \cap (Reviewing \cup {"put", "link"}) = {}
  BY DEF Reviewing
<1>2. ASSUME NEW a \in Agents, Claim(h, a) PROVE Purged'
  <2>1. call[h].pc = "idle" /\ UNCHANGED <<call, proof>> /\ Count("requests")
    BY <1>2 DEF Claim, Request, At
  <2>2. ~order'.linked
    BY <1>2, Typed DEF Claim, Orders
  <2> QED
    BY <2>1, <2>2, PurgeKept, WatchStep DEF Reviewing
<1>3. ASSUME NEW a \in Agents,
             \/ HandoffRead(h, a) \/ SubmitLoad(h, a)
             \/ AssignRead(h, a) \/ ReassignRead(h, a)
      PROVE  Purged'
  BY <1>1, <1>3, PurgeRead
     DEF HandoffRead, SubmitLoad, AssignRead, ReassignRead
<1>4. ASSUME NEW a \in Agents \cup {None}, ReleaseRead(h, a) PROVE Purged'
  BY <1>1, <1>4, PurgeRead DEF ReleaseRead
<1>5. CASE SelfAssignRead(h) \/ VendorHandoffRead(h) \/ PayByAdmin(h)
  BY <1>1, <1>5, PurgeRead DEF SelfAssignRead, VendorHandoffRead, PayByAdmin
<1>6. CASE CloseRead(h) \/ \E v \in Verdicts : AnswerRead(h, v)
  <2>1. /\ call[h].pc = "idle" /\ UNCHANGED <<order, proof>> /\ Count("requests")
        /\ proof.status # "none"
    BY <1>6 DEF CloseRead, AnswerRead, Request, At, Answers, Active
  <2>2. ASSUME CloseRead(h)
        PROVE  /\ call'[h].pc = "finalize"
               /\ \A g \in Calls : g # h => call'[g] = call[g]
    <3> PICK r : r = [Idle EXCEPT !.pc = "finalize"]
      OBVIOUS
    <3>1. r.pc = "finalize"
      BY DEF Idle
    <3> QED
      BY <2>2, <3>1, Becomes DEF CloseRead
  <2>3. ASSUME NEW v \in Verdicts, AnswerRead(h, v)
        PROVE  /\ call'[h].pc = "answer"
               /\ \A g \in Calls : g # h => call'[g] = call[g]
    <3> PICK r : r = [Idle EXCEPT !.pc = "answer", !.answer = v]
      OBVIOUS
    <3>1. r.pc = "answer"
      BY DEF Idle
    <3>2. Become(h, r)
      BY <2>3 DEF AnswerRead
    <3> QED
      BY <3>1, <3>2, Becomes
  <2> QED
    BY <1>6, <2>1, <2>2, <2>3, PurgeKept, WatchStep
<1> QED
  BY <1>2, <1>3, <1>4, <1>5, <1>6 DEF Ask

LEMMA PurgeSettle ==
  ASSUME Inv, Purged, NEW h \in Calls, SettlePass(h)
  PROVE  Purged'
<1>1. /\ call[h].pc = "idle" /\ call'[h].pc = "pay"
      /\ \A g \in Calls : g # h => call'[g] = call[g]
      /\ UNCHANGED <<order, proof, count, late>>
  <2>1. [Idle EXCEPT !.pc = "pay"].pc = "pay"
    BY DEF Idle
  <2> QED
    BY <2>1, Becomes DEF SettlePass, At
<1>2. Watched' => Watched /\ ~Outlived'
  BY <1>1 DEF Watched, Purged, Outlived
<1> QED
  BY <1>1, <1>2, PurgeKept DEF Reviewing

(* The saves of the carriers' handlers, and the payouts.                   *)
LEMMA PurgeSave ==
  ASSUME Inv, Purged, Track, NEW h \in Calls,
         \/ Release(h) \/ Assign(h) \/ Reassign(h) \/ Unlink(h) \/ Handoff(h)
         \/ Pay(h) \/ PayListFails(h) \/ PayConflict(h)
  PROVE  Purged'
<1>1. /\ order'.linked => order.linked
      /\ call[h].pc = "unlink" => ~order'.linked
      /\ \/ Assign(h) \/ Reassign(h)
         \/ order'.status = "shipped" =>
              order.status = "shipped" /\ order'.courier = order.courier
  <2>1. order \in Orders
    BY Typed
  <2> QED
    BY <2>1 DEF Release, Assign, Reassign, Unlink, Handoff, Pay, PayLoad,
                PayRemaining, PayList, PayCreate, PayRelist, PayRetry, PayRecord,
                PayListFails, PayConflict, Stripe, At, Orders
<1>2. UNCHANGED proof /\ (UNCHANGED count \/ Count("stripe"))
  BY DEF Release, Assign, Reassign, Unlink, Handoff, Pay, PayLoad,
         PayRemaining, PayList, PayCreate, PayRelist, PayRetry, PayRecord,
         PayListFails, PayConflict, Stripe
<1>3. Assign(h) \/ Reassign(h) => call'[h].pc = "unlink"
  BY Becomes DEF Assign, Reassign
<1>4. /\ call'[h].pc \notin Reviewing \cup {"put", "link"}
      /\ \A g \in Calls : g # h => call'[g] = call[g]
  <2> DEFINE Plain == {"unlink", "pay", "remaining", "list", "create", "relist",
                       "retry", "record"}
  <2>1. /\ \A l \in Plain : l \notin Reviewing \cup {"put", "link"}
        /\ \A t : [call[h] EXCEPT !.pc = "record", !.made = t].pc \in Plain
        /\ \A m : [call[h] EXCEPT !.pc = "list", !.amount = m].pc \in Plain
        /\ \A a : [Idle EXCEPT !.pc = "remaining", !.agent = a].pc \in Plain
        /\ [Idle EXCEPT !.pc = "pay"].pc \in Plain
        /\ {"unlink", "create", "retry", "relist"} \subseteq Plain
    <3>1. /\ \A t : [call[h] EXCEPT !.pc = "record", !.made = t].pc = "record"
          /\ \A m : [call[h] EXCEPT !.pc = "list", !.amount = m].pc = "list"
      BY Typed DEF Handlers
    <3>2. /\ \A a : [Idle EXCEPT !.pc = "remaining", !.agent = a].pc = "remaining"
          /\ [Idle EXCEPT !.pc = "pay"].pc = "pay"
      BY DEF Idle
    <3> QED
      BY <3>1, <3>2 DEF Reviewing
  <2> HIDE DEF Plain
  <2>2. \/ Return(h)
        \/ \E l \in Plain : Go(h, l)
        \/ \E r : r.pc \in Plain /\ Become(h, r)
    <3>1. CASE Release(h) \/ Unlink(h) \/ PayRecord(h)
      BY <3>1 DEF Release, Unlink, PayRecord
    <3>2. CASE \/ Assign(h) \/ Reassign(h) \/ PayListFails(h) \/ PayConflict(h)
      BY <2>1, <3>2 DEF Assign, Reassign, PayListFails, PayConflict, Stripe
    <3>3. CASE Handoff(h)
      BY <2>1, <3>3 DEF Handoff
    <3>4. CASE PayLoad(h)
      BY <2>1, <3>4 DEF PayLoad
    <3>5. CASE PayRemaining(h)
      BY <2>1, <3>5 DEF PayRemaining
    <3>6. CASE PayList(h) \/ PayRelist(h)
      <4>1. (\E t \in transfers : Record(h, t)) \/ Go(h, "create") \/ Go(h, "retry")
        BY <3>6 DEF PayList, PayRelist, Found
      <4> QED
        BY <2>1, <4>1 DEF Record
    <3>7. CASE PayCreate(h) \/ PayRetry(h)
      BY <2>1, <3>7 DEF PayCreate, PayRetry, Record
    <3> QED
      BY <3>1, <3>2, <3>3, <3>4, <3>5, <3>6, <3>7 DEF Pay
  <2>3. "idle" \notin Reviewing \cup {"put", "link"}
    BY DEF Reviewing
  <2> QED
    BY <2>1, <2>2, <2>3, Becomes
<1> QED
  BY <1>1, <1>2, <1>3, <1>4, PurgeKept, WatchStep

(* The reviews: they find a proof, and leave one.                          *)
LEMMA PurgeReview ==
  ASSUME Inv, Purged, Track, NEW h \in Calls,
         \/ Answer(h) \/ Finalize(h) \/ Complete(h) \/ CompleteSave(h) \/ Close(h)
  PROVE  Purged'
<1>1. call[h].pc \in Reviewing /\ proof.status # "none"
  <2>1. call[h].pc \in Reviewing
    BY DEF Answer, Finalize, Complete, CompleteSave, Close, At, Reviewing
  <2> QED
    BY <2>1 DEF Purged, ReviewOK
<1>2. /\ proof'.agent = proof.agent /\ proof'.status # "none"
      /\ UNCHANGED count
  <2>1. proof \in Proofs /\ call[h].answer \in Verdicts
    BY Typed DEF Handlers
  <2> QED
    BY <1>1, <2>1 DEF Answer, Finalize, Complete, CompleteSave, Close, Proofs,
                      Verdicts
<1>3. /\ order'.linked = order.linked
      /\ order'.status = "shipped" =>
           order.status = "shipped" /\ order'.courier = order.courier
  <2>1. order \in Orders
    BY Typed
  <2> QED
    BY <2>1 DEF Answer, Finalize, Complete, CompleteSave, Close, Orders
<1>4. /\ call'[h].pc \notin {"put", "link"}
      /\ \A g \in Calls : g # h => call'[g] = call[g]
  <2> DEFINE Then == {"complete", "close", "complete_save", "pay"}
  <2>1. /\ \A l \in Then : l \notin {"put", "link"}
        /\ [call[h] EXCEPT !.pc = "close", !.found = TRUE].pc \in Then
        /\ [Idle EXCEPT !.pc = "pay"].pc \in Then
        /\ {"complete", "close", "complete_save"} \subseteq Then
    <3>1. [call[h] EXCEPT !.pc = "close", !.found = TRUE].pc = "close"
      BY Typed DEF Handlers
    <3>2. [Idle EXCEPT !.pc = "pay"].pc = "pay"
      BY DEF Idle
    <3> QED
      BY <3>1, <3>2
  <2> HIDE DEF Then
  <2>2. \/ Return(h)
        \/ \E l \in Then : Go(h, l)
        \/ \E r : r.pc \in Then /\ Become(h, r)
    <3>1. CASE Answer(h) \/ Finalize(h) \/ Complete(h)
      BY <2>1, <3>1 DEF Answer, Finalize, Complete
    <3>2. CASE CompleteSave(h)
      BY <2>1, <3>2 DEF CompleteSave
    <3>3. CASE Close(h)
      BY <2>1, <3>3 DEF Close
    <3> QED
      BY <3>1, <3>2, <3>3
  <2> QED
    BY <2>1, <2>2, Becomes
<1> QED
  BY <1>1, <1>2, <1>3, <1>4, PurgeKept, WatchStep DEF Reviewing

(* A submission.  As long as none outlived its assignment all of them are  *)
(* of the courier of the order, so the proof one writes suits the others.  *)
LEMMA PurgeSubmit ==
  ASSUME Inv, Purged, Track, NEW h \in Calls,
         SubmitFind(h) \/ SubmitPut(h) \/ SubmitLink(h)
  PROVE  Purged'
<1> DEFINE c == call[h]
<1>1. /\ c \in Handlers /\ order \in Orders /\ proof \in Proofs
      /\ c.pc \in {"find", "put", "link"} /\ UNCHANGED count
      /\ order'.status = order.status /\ order'.courier = order.courier
  BY Typed DEF SubmitFind, SubmitPut, SubmitLink, At, Orders
<1>2. /\ \A g \in Calls : g # h => call'[g] = call[g]
      /\ call'[h].pc \in {"put", "link", "idle"}
      /\ SubmitFind(h) => /\ call'[h].pc = "put"
                          /\ ~call'[h].found => proof.status = "none"
      /\ SubmitPut(h) => call'[h].pc \in {"link", "idle"}
      /\ SubmitPut(h) /\ call'[h].pc = "link" => call'[h].agent = c.agent
      /\ SubmitLink(h) => call'[h].pc = "idle"
  <2>1. CASE SubmitFind(h)
    <3> PICK r : r = [call[h] EXCEPT !.pc = "put", !.found = proof.status # "none"]
      OBVIOUS
    <3>1. r.pc = "put" /\ (~r.found => proof.status = "none")
      BY <1>1 DEF Handlers
    <3>2. Become(h, r)
      BY <2>1 DEF SubmitFind
    <3>3. ~SubmitPut(h) /\ ~SubmitLink(h)
      BY <2>1 DEF SubmitFind, SubmitPut, SubmitLink, At
    <3> QED
      BY <3>1, <3>2, <3>3, Becomes
  <2>2. CASE SubmitPut(h)
    <3>1. Go(h, "link") \/ Return(h)
      BY <2>2 DEF SubmitPut
    <3>2. Go(h, "link") => call'[h].agent = c.agent
      BY <1>1 DEF Go, Inv, TypeOK, Handlers
    <3>3. ~SubmitFind(h) /\ ~SubmitLink(h)
      BY <2>2 DEF SubmitFind, SubmitPut, SubmitLink, At
    <3>4. /\ Go(h, "link") => call'[h].pc = "link"
          /\ Return(h) => call'[h].pc = "idle"
          /\ \A g \in Calls : g # h => call'[g] = call[g]
      BY <3>1, Becomes
    <3> QED
      BY <3>1, <3>2, <3>3, <3>4
  <2>3. CASE SubmitLink(h)
    <3>1. ~SubmitFind(h) /\ ~SubmitPut(h)
      BY <2>3 DEF SubmitFind, SubmitPut, SubmitLink, At
    <3>2. call'[h].pc = "idle" /\ \A g \in Calls : g # h => call'[g] = call[g]
      BY <2>3, Becomes DEF SubmitLink
    <3> QED
      BY <3>1, <3>2
  <2> QED
    BY <2>1, <2>2, <2>3
<1>3. proof.status # "none" => proof'.status # "none"
  BY <1>1 DEF SubmitFind, SubmitPut, SubmitLink
<1>4. \A g \in Calls : ReviewOK(call[g])'
  BY <1>2, <1>3 DEF Purged, ReviewOK, Reviewing
<1>5. ASSUME Watched'
      PROVE  ~Outlived' /\ LinkOK' /\ \A g \in Calls : SubmissionOK(call[g])'
  <2>1. Watched /\ ~Outlived'
    BY <1>1, <1>5, WatchStep
  <2>2. /\ LinkOK /\ \A g \in Calls : SubmissionOK(call[g])
        /\ \A g \in Calls :
             call[g].pc \in {"find", "put", "link"} => call[g].agent = order.courier
    BY <2>1 DEF Purged, Outlived
  <2>3. CASE SubmitFind(h)
    <3>1. UNCHANGED <<order, proof>>
      BY <2>3 DEF SubmitFind
    <3>2. \A g \in Calls : SubmissionOK(call[g])'
      BY <1>2, <2>2, <2>3, <3>1 DEF SubmissionOK
    <3>3. LinkOK'
      BY <1>1, <1>2, <2>2, <3>1 DEF LinkOK, At
    <3> QED
      BY <2>1, <3>2, <3>3
  <2>4. CASE SubmitPut(h)
    <3>1. UNCHANGED order /\ c.agent = order.courier
      BY <1>1, <2>2, <2>4 DEF SubmitPut
    <3>2. \/ proof'.agent = order.courier
          \/ UNCHANGED proof /\ proof.agent = order.courier
      <4>1. CASE call[h].found \/ proof.status = "none"
        BY <2>4, <3>1, <4>1 DEF SubmitPut
      <4>2. CASE ~(call[h].found \/ proof.status = "none")
        BY <2>2, <2>4, <3>1, <4>2 DEF SubmitPut, SubmissionOK, At
      <4> QED
        BY <4>1, <4>2
    <3>3. \A g \in Calls : SubmissionOK(call[g])'
      BY <1>2, <2>2, <2>4, <3>1, <3>2 DEF SubmissionOK
    <3>4. LinkOK'
      BY <3>1, <3>2 DEF LinkOK
    <3> QED
      BY <2>1, <3>3, <3>4
  <2>5. CASE SubmitLink(h)
    <3>1. UNCHANGED proof /\ proof.agent = order.courier
      BY <2>2, <2>5 DEF SubmitLink, SubmissionOK, At
    <3>2. \A g \in Calls : SubmissionOK(call[g])'
      BY <1>2, <2>2, <2>5, <3>1 DEF SubmissionOK
    <3>3. LinkOK'
      BY <1>1, <3>1 DEF LinkOK
    <3> QED
      BY <2>1, <3>2, <3>3
  <2> QED
    BY <2>3, <2>4, <2>5
<1> QED
  BY <1>4, <1>5 DEF Purged

(* A handler cut short is counted: nothing is promised afterwards.         *)
LEMMA PurgeCut ==
  ASSUME Inv, Purged, NEW h \in Calls, Cut(h) \/ PaySkip(h)
  PROVE  Purged'
<1>1. count'.failures # 0
  BY DEF Cut, PaySkip, Count, Inv, TypeOK
<1>2. /\ call'[h].pc = "idle" /\ UNCHANGED proof
      /\ \A g \in Calls : g # h => call'[g] = call[g]
  BY Becomes DEF Cut, PaySkip
<1>3. \A g \in Calls : ReviewOK(call[g])'
  BY <1>2 DEF Purged, ReviewOK, Reviewing
<1> QED
  BY <1>1, <1>3 DEF Purged, Watched

(* "Sans cette purge ...": an order its courier carries is never excluded  *)
(* from his active orders by the proof of another, however claims,         *)
(* releases, assignments, submissions and reviews overlap.                 *)
THEOREM ProofPurged == Spec => []StaleProofPurged
<1>1. Init => Purged
  <2> SUFFICES ASSUME Init PROVE Purged
    OBVIOUS
  <2>1. \A h \in Calls : call[h].pc = "idle"
    BY IdleTyped DEF Init
  <2>2. ~order.linked
    BY DEF Init
  <2> QED
    BY <2>1, <2>2 DEF Purged, ReviewOK, Reviewing, SubmissionOK, LinkOK, Outlived
<1>2. Inv /\ Purged /\ [Next]_vars => Purged'
  <2> SUFFICES ASSUME Inv, Purged, [Next]_vars PROVE Purged'
    OBVIOUS
  <2>1. CASE UNCHANGED vars
    BY <2>1 DEF vars, Purged, ReviewOK, SubmissionOK, Watched, Outlived, LinkOK, At
  <2>2. CASE Next
    BY <2>2, PurgeAsk, PurgeSettle, PurgeSave, PurgeReview, PurgeSubmit, PurgeCut
       DEF Next, Serve
  <2> QED
    BY <2>1, <2>2
<1>3. Purged => StaleProofPurged
  BY DEF Purged, Watched, LinkOK, StaleProofPurged
<1> QED
  BY Invariance, <1>1, <1>2, <1>3, PTL DEF Spec
=============================================================================
