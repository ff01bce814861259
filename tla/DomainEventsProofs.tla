------------------------- MODULE DomainEventsProofs -------------------------
(***************************************************************************)
(* Theorems about DomainEvents for any number of publications, processes,  *)
(* faults: an execution of the handler is paid for by a claim or by a job  *)
(* that a second actor takes over, and a claim beyond the first by a       *)
(* decision without Redis or by an expiry of the key.                      *)
(***************************************************************************)
EXTENDS DomainEvents, FiniteSetTheorems, TLAPS

-----------------------------------------------------------------------------
(* The inductive invariant                                                 *)

(* A publication granted and not yet scheduled, and a task not yet queued  *)
(* or begun, each owe one execution; so does a job that waits.             *)
Owes(d) == pub[d].pc = "infra" \/ task[d].pc \in {"enqueue", "start"}
Debtors == {d \in Publishers : Owes(d)}
Waiting == IF hjob.st = "waiting" THEN 1 ELSE 0
Balance == runs + Cardinality(Debtors) + Waiting <= grants + repeats

(* A task belongs to a publication past its scheduling, in its process.    *)
TaskOK(d) ==
  task[d].pc # "off" => /\ pub[d].pc \in {"dispatch", "direct", "returned"}
                        /\ pub[d].at = task[d].at

Placed(d) == pub[d].pc \notin {"idle", "returned"} => pub[d].at \in Procs

(* The next claim is free while the key is not set and paid otherwise.     *)
OneGrant == grants + (IF claimed THEN 0 ELSE 1)
              <= 1 + strays + faults["expiries"]

(* A job of the bus still to be delivered has an attempt left.             *)
BusJobOK == bjob.st \in {"none", "waiting", "active"} => bjob.tries < Attempts

Inv ==
  /\ TypeOK /\ BusJobOK /\ Balance /\ OneGrant
  /\ \A d \in Publishers : TaskOK(d) /\ Placed(d)

(* What the publications owe, when some of them change.                    *)
LEMMA DebtCount ==
  ASSUME NEW S \in SUBSET Publishers, NEW T \in SUBSET Publishers
  PROVE  /\ Cardinality(S) \in Nat /\ Cardinality(T) \in Nat
         /\ T \subseteq S => Cardinality(T) <= Cardinality(S)
         /\ \A d \in Publishers : T \subseteq S \cup {d}
              => Cardinality(T) <= Cardinality(S) + 1
         /\ \A d \in S : T \subseteq S \ {d}
              => Cardinality(T) + 1 <= Cardinality(S)
<1>1. IsFiniteSet(S) /\ IsFiniteSet(T)
  BY ConstantsAssumption, FS_Subset
<1>2. Cardinality(S) \in Nat /\ Cardinality(T) \in Nat
  BY <1>1, FS_CardinalityType
<1>3. T \subseteq S => Cardinality(T) <= Cardinality(S)
  BY <1>1, FS_Subset
<1>4. ASSUME NEW d \in Publishers, T \subseteq S \cup {d}
      PROVE  Cardinality(T) <= Cardinality(S) + 1
  <2>1. /\ IsFiniteSet(S \cup {d})
        /\ Cardinality(S \cup {d}) = IF d \in S THEN Cardinality(S)
                                     ELSE Cardinality(S) + 1
    BY <1>1, FS_AddElement
  <2>2. Cardinality(T) <= Cardinality(S \cup {d})
    BY <2>1, <1>4, FS_Subset
  <2> QED
    BY <2>1, <2>2, <1>2
<1>5. ASSUME NEW d \in S, T \subseteq S \ {d}
      PROVE  Cardinality(T) + 1 <= Cardinality(S)
  <2>1. /\ IsFiniteSet(S \ {d})
        /\ Cardinality(S \ {d}) = Cardinality(S) - 1
    BY <1>1, FS_RemoveElement
  <2>2. Cardinality(T) <= Cardinality(S \ {d})
    BY <2>1, <1>5, FS_Subset
  <2> QED
    BY <2>1, <2>2, <1>2
<1> QED
  BY <1>2, <1>3, <1>4, <1>5

LEMMA InitInv == Init => Inv
<1> SUFFICES ASSUME Init PROVE Inv
  OBVIOUS
<1>5. AllOn \in Settings /\ NoTask \in Tasks
  BY DEF AllOn, Settings, NoTask, Tasks
<1>6. Quiet \in Publications
  BY <1>5 DEF Quiet, Publications
<1>7. NoJob \in Jobs
  BY ConstantsAssumption DEF NoJob, Jobs
<1>1. TypeOK
  <2>1. faults \in [Faults -> 0..MaxFaults] /\ grants \in Nat /\ runs \in Nat
    BY ConstantsAssumption DEF Init
  <2>2. cache \in [Procs -> Settings] /\ memory \in [Procs -> BOOLEAN]
    BY <1>5 DEF Init
  <2>4. open \in [Procs -> SUBSET Links] /\ strays \in Nat /\ repeats \in Nat
    BY DEF Init, Links
  <2>3. pub \in [Publishers -> Publications] /\ task \in [Publishers -> Tasks]
    BY <1>5, <1>6 DEF Init
  <2> QED
    BY <2>1, <2>2, <2>3, <2>4, <1>5, <1>7 DEF Init, TypeOK
<1>2. Debtors = {}
  BY DEF Init, Debtors, Owes, Quiet, NoTask
<1>3. Balance
  BY <1>2, FS_EmptySet DEF Init, Balance, Waiting, NoJob
<1>4. BusJobOK /\ OneGrant /\ \A d \in Publishers : TaskOK(d) /\ Placed(d)
  BY ConstantsAssumption DEF BusJobOK, NoJob, Init, OneGrant, TaskOK, NoTask,
                             Placed, Quiet, Faults
<1> QED
  BY <1>1, <1>3, <1>4 DEF Inv

-----------------------------------------------------------------------------
(* Types                                                                   *)

LEMMA FaultTyped ==
  ASSUME TypeOK, NEW k \in Faults, Fault(k)
  PROVE  /\ faults' \in [Faults -> 0..MaxFaults]
         /\ \A i \in Faults : faults'[i] = IF i = k THEN faults[i] + 1
                                           ELSE faults[i]
BY ConstantsAssumption DEF TypeOK, Fault, Faults

LEMMA KnownTyped ==
  ASSUME TypeOK, NEW p \in Procs
  PROVE  Known(p) \subseteq Settings
BY DEF TypeOK, Known

LEMMA StalledTyped ==
  ASSUME NEW j \in Jobs, NEW p \in Procs
  PROVE  Stalled(j, p) \in Jobs
<1>1. j.tries \in 0..Attempts /\ 1 \in 0..1
  BY DEF Jobs
<1> QED
  BY <1>1 DEF Jobs, Stalled

LEMMA LocksTyped ==
  ASSUME TypeOK, NEW p \in Procs, NEW W, LosesLocks(p, W)
  PROVE  /\ hjob' \in Jobs /\ bjob' \in Jobs /\ repeats' \in Nat
         /\ Waiting' + repeats <= Waiting + repeats'
         /\ BusJobOK => BusJobOK'
<1>1. Stalled(hjob, p) \in Jobs /\ Stalled(bjob, p) \in Jobs
  BY StalledTyped DEF TypeOK
<1>2. hjob' \in Jobs /\ bjob' \in Jobs /\ repeats' \in Nat
  BY <1>1 DEF LosesLocks, TypeOK
<1>3. Waiting' + repeats <= Waiting + repeats'
  BY <1>1 DEF LosesLocks, Stalled, Waiting, TypeOK, Jobs
<1>4. BusJobOK => BusJobOK'
  BY DEF LosesLocks, Stalled, BusJobOK, TypeOK, Jobs
<1> QED
  BY <1>2, <1>3, <1>4

LEMMA WorldTypes ==
  ASSUME TypeOK,
         \/ RedisDown \/ RedisUp \/ MqttDown \/ MqttUp \/ Toggle \/ Expire
         \/ Removal \/ \E p \in Procs : Connect(p)
  PROVE  TypeOK'
<1>1. CASE RedisDown
  BY <1>1, FaultTyped DEF RedisDown, TypeOK, Faults, counts
<1>2. CASE RedisUp
  BY <1>2 DEF RedisUp, TypeOK, counts
<1>3. CASE MqttDown
  BY <1>3, FaultTyped DEF MqttDown, TypeOK, Faults, counts
<1>4. CASE MqttUp
  BY <1>4 DEF MqttUp, TypeOK, counts
<1>5. CASE Toggle
  <2>1. settings' \in Settings
    BY <1>5 DEF Toggle, TypeOK, Settings
  <2> QED
    BY <2>1, <1>5, FaultTyped DEF Toggle, TypeOK, Faults, counts
<1>6. CASE Expire
  <2>1. memory' \in [Procs -> BOOLEAN] /\ claimed' \in BOOLEAN
    BY <1>6 DEF Expire, TypeOK
  <2> QED
    BY <2>1, <1>6, FaultTyped DEF Expire, TypeOK, Faults, counts, world
<1>7. CASE Removal
  <2>1. NoJob \in Jobs
    BY ConstantsAssumption DEF NoJob, Jobs
  <2>2. hjob' \in Jobs /\ bjob' \in Jobs
    BY <2>1, <1>7 DEF Removal, TypeOK
  <2> QED
    BY <2>2, <1>7, FaultTyped DEF Removal, TypeOK, Faults, counts, world
<1>8. ASSUME NEW p \in Procs, Connect(p) PROVE TypeOK'
  <2>1. open' \in [Procs -> SUBSET Links]
    BY <1>8 DEF Connect, TypeOK, Links
  <2> QED
    BY <2>1, <1>8 DEF Connect, TypeOK, counts
<1> QED
  BY <1>1, <1>2, <1>3, <1>4, <1>5, <1>6, <1>7, <1>8

(* A process loses its locks, a connection or its memory.                  *)
LEMMA LosesTypes ==
  ASSUME TypeOK, NEW p \in Procs,
         \/ Crash(p) \/ \E w \in {"handlers", "bus"} : Overrun(p, w)
         \/ \E l \in Lines : GiveUp(p, l)
  PROVE  TypeOK'
<1>1. CASE Crash(p)
  <2>1. Quiet \in Publications /\ AllOn \in Settings /\ NoTask \in Tasks
    BY DEF Quiet, Publications, AllOn, Settings, NoTask, Tasks
  <2>2. pub' \in [Publishers -> Publications] /\ task' \in [Publishers -> Tasks]
    BY <1>1, <2>1 DEF TypeOK, Crash
  <2>3. /\ cache' \in [Procs -> Settings] /\ memory' \in [Procs -> BOOLEAN]
        /\ open' \in [Procs -> SUBSET Links]
    BY <1>1, <2>1 DEF TypeOK, Crash, Links
  <2>4. hjob' \in Jobs /\ bjob' \in Jobs /\ repeats' \in Nat
    BY <1>1, LocksTyped DEF Crash
  <2>5. faults' \in [Faults -> 0..MaxFaults]
    BY <1>1, FaultTyped DEF Crash, Faults
  <2> QED
    BY <1>1, <2>2, <2>3, <2>4, <2>5 DEF TypeOK, Crash
<1>2. ASSUME NEW w \in {"handlers", "bus"}, Overrun(p, w) PROVE TypeOK'
  <2>1. hjob' \in Jobs /\ bjob' \in Jobs /\ repeats' \in Nat
    BY <1>2, LocksTyped DEF Overrun
  <2> QED
    BY <2>1, <1>2, FaultTyped DEF Overrun, TypeOK, Faults, world
<1>3. ASSUME NEW l \in Lines, GiveUp(p, l) PROVE TypeOK'
  <2>1. hjob' \in Jobs /\ bjob' \in Jobs /\ repeats' \in Nat
    BY <1>3, LocksTyped DEF GiveUp
  <2>2. open' \in [Procs -> SUBSET Links]
    BY <1>3 DEF GiveUp, TypeOK
  <2> QED
    BY <2>1, <2>2, <1>3, FaultTyped DEF GiveUp, TypeOK, Faults
<1> QED
  BY <1>1, <1>2, <1>3

(* A publication and its task take another step.                           *)
LEMMA PubTyped ==
  ASSUME TypeOK, NEW d \in Publishers,
         NEW label \in {"idle", "claim", "infra", "dispatch", "direct", "returned"}
  PROVE  [pub EXCEPT ![d].pc = label] \in [Publishers -> Publications]
<1>1. pub \in [Publishers -> Publications]
  BY DEF TypeOK
<1>2. \A q \in Publications : [q EXCEPT !.pc = label] \in Publications
  BY DEF Publications
<1> QED
  BY <1>1, <1>2

LEMMA GrantTyped ==
  ASSUME TypeOK, NEW d \in Publishers, Granted(d) \/ Duplicate(d)
  PROVE  pub' \in [Publishers -> Publications] /\ grants' \in Nat
<1>1. CASE Granted(d)
  <2>1. pub' = [pub EXCEPT ![d].pc = "infra"] /\ grants' = grants + 1
    BY <1>1 DEF Granted
  <2>2. [pub EXCEPT ![d].pc = "infra"] \in [Publishers -> Publications]
    BY PubTyped
  <2> QED
    BY <2>1, <2>2 DEF TypeOK
<1>2. CASE Duplicate(d)
  <2>1. pub' = [pub EXCEPT ![d].pc = "returned"] /\ grants' = grants
    BY <1>2 DEF Duplicate
  <2>2. [pub EXCEPT ![d].pc = "returned"] \in [Publishers -> Publications]
    BY PubTyped
  <2> QED
    BY <2>1, <2>2 DEF TypeOK
<1> QED
  BY <1>1, <1>2

LEMMA TaskTyped ==
  ASSUME TypeOK, NEW d \in Publishers,
         NEW label \in {"off", "enqueue", "start", "run"}
  PROVE  /\ [task EXCEPT ![d].pc = label] \in [Publishers -> Tasks]
         /\ [task EXCEPT ![d] = NoTask] \in [Publishers -> Tasks]
<1>1. task \in [Publishers -> Tasks]
  BY DEF TypeOK
<1>2. \A q \in Tasks : [q EXCEPT !.pc = label] \in Tasks
  BY DEF Tasks
<1>3. NoTask \in Tasks
  BY DEF NoTask, Tasks
<1> QED
  BY <1>1, <1>2, <1>3

LEMMA AddedTyped == \A j \in Jobs : Added(j) \in Jobs
BY DEF Jobs, Added

LEMMA PublishingTypes ==
  ASSUME TypeOK, NEW d \in Publishers, Placed(d),
         \/ Publishing(d) \/ ClaimReplyLost(d) \/ DispatchRefused(d)
         \/ \E p \in Procs : Publish(d, p)
  PROVE  TypeOK'
<1>1. ASSUME NEW p \in Procs, Publish(d, p) PROVE TypeOK'
  <2>1. [Quiet EXCEPT !.pc = "claim", !.at = p] \in Publications
    BY DEF Quiet, Publications, AllOn, Settings
  <2> QED
    BY <2>1, <1>1 DEF Publish, TypeOK, world, counts
<1>2. CASE ClaimInRedis(d)
  <2>1. pub' \in [Publishers -> Publications] /\ grants' \in Nat
    <3>1. Granted(d) \/ Duplicate(d)
      BY <1>2 DEF ClaimInRedis
    <3> QED
      BY <3>1, GrantTyped
  <2> QED
    BY <2>1, <1>2 DEF ClaimInRedis, TypeOK, world
<1>3. CASE ClaimReplyLost(d)
  BY <1>3, FaultTyped DEF ClaimReplyLost, TypeOK, Faults, counts
<1>4. CASE ClaimInMemory(d)
  <2>1. pub' \in [Publishers -> Publications] /\ grants' \in Nat
    <3>1. Granted(d) \/ Duplicate(d)
      BY <1>4 DEF ClaimInMemory
    <3> QED
      BY <3>1, GrantTyped
  <2>2. strays' \in Nat /\ memory' \in [Procs -> BOOLEAN]
    <3>1. strays' = strays \/ strays' = strays + 1
      BY <1>4 DEF ClaimInMemory
    <3>2. memory' \in [Procs -> BOOLEAN]
      BY <1>4 DEF ClaimInMemory, TypeOK
    <3> QED
      BY <3>1, <3>2 DEF TypeOK
  <2>3. faults' \in [Faults -> 0..MaxFaults]
    <3>1. faults' = faults \/ Fault("others")
      BY <1>4 DEF ClaimInMemory
    <3> QED
      BY <3>1, FaultTyped DEF TypeOK, Faults
  <2> QED
    BY <2>1, <2>2, <2>3, <1>4 DEF ClaimInMemory, TypeOK, world
<1>5. CASE ReadInfra(d)
  <2>1. pub[d].at \in Procs
    BY <1>5 DEF ReadInfra, Placed
  <2>2. PICK s \in Known(pub[d].at) :
          /\ cache' = [cache EXCEPT ![pub[d].at] = s]
          /\ pub' = [pub EXCEPT ![d].pc = "dispatch", ![d].infra = s]
          /\ task' = [task EXCEPT ![d] =
               [pc |-> IF s.redis THEN "enqueue" ELSE "start", at |-> pub[d].at]]
    BY <1>5 DEF ReadInfra
  <2>3. s \in Settings
    BY <2>1, KnownTyped
  <2>4. cache' \in [Procs -> Settings]
    BY <2>2, <2>3 DEF TypeOK
  <2>5. pub' \in [Publishers -> Publications]
    BY <2>2, <2>3 DEF TypeOK, Publications
  <2>6. task' \in [Publishers -> Tasks]
    BY <2>1, <2>2 DEF TypeOK, Tasks
  <2> QED
    BY <2>4, <2>5, <2>6, <1>5 DEF ReadInfra, TypeOK, world, counts
<1>6. CASE DispatchQueue(d)
  BY <1>6, PubTyped, AddedTyped DEF DispatchQueue, TypeOK, world, counts
<1>7. CASE DispatchRefused(d)
  BY <1>7, PubTyped, AddedTyped, FaultTyped
     DEF DispatchRefused, TypeOK, Faults, world, counts
<1>8. CASE DispatchNoQueue(d)
  BY <1>8, PubTyped DEF DispatchNoQueue, TypeOK, world, counts
<1>9. CASE Direct(d)
  <2>1. pub[d].at \in Procs
    BY <1>9 DEF Direct, Placed
  <2>2. cache' \in [Procs -> Settings] /\ told' \in BOOLEAN
    BY <2>1, <1>9, KnownTyped DEF Direct, TypeOK
  <2> QED
    BY <2>2, <1>9, PubTyped DEF Direct, TypeOK, world, counts
<1> QED
  BY <1>1, <1>2, <1>3, <1>4, <1>5, <1>6, <1>7, <1>8, <1>9 DEF Publishing

LEMMA HandlingTypes ==
  ASSUME TypeOK, NEW d \in Publishers, Handling(d) \/ ScheduleRefused(d)
  PROVE  TypeOK'
<1>1. CASE Schedule(d)
  <2>1. hjob' \in Jobs /\ task' \in [Publishers -> Tasks]
    BY <1>1, TaskTyped, AddedTyped DEF Schedule, TypeOK
  <2> QED
    BY <2>1, <1>1 DEF Schedule, TypeOK, world, counts
<1>2. CASE RunHere(d)
  <2>1. task' \in [Publishers -> Tasks] /\ runs' \in Nat
    <3>1. [task EXCEPT ![d].pc = "run"] \in [Publishers -> Tasks]
      BY TaskTyped
    <3> QED
      BY <3>1, <1>2 DEF RunHere, TypeOK
  <2> QED
    BY <2>1, <1>2 DEF RunHere, TypeOK, world
<1>3. CASE RunHereEnds(d)
  BY <1>3, TaskTyped DEF RunHereEnds, TypeOK, world, counts
<1>4. CASE ScheduleRefused(d)
  <2>1. /\ hjob' \in Jobs /\ task' \in [Publishers -> Tasks]
        /\ repeats' \in Nat
    <3>1. hjob' \in Jobs
      BY <1>4, AddedTyped DEF ScheduleRefused, TypeOK
    <3>2. task' \in [Publishers -> Tasks]
      BY <1>4, TaskTyped DEF ScheduleRefused
    <3>3. repeats' = repeats \/ repeats' = repeats + 1
      BY <1>4 DEF ScheduleRefused
    <3> QED
      BY <3>1, <3>2, <3>3 DEF TypeOK
  <2> QED
    BY <2>1, <1>4, FaultTyped DEF ScheduleRefused, TypeOK, Faults, world
<1>5. CASE ScheduleNoQueue(d)
  BY <1>5, TaskTyped DEF ScheduleNoQueue, TypeOK, world, counts
<1> QED
  BY <1>1, <1>2, <1>3, <1>4, <1>5 DEF Handling

LEMMA WorkingTypes ==
  ASSUME TypeOK, BusJobOK, NEW p \in Procs, Working(p)
  PROVE  TypeOK'
<1>1. CASE HandlerTake(p)
  <2>1. hjob' \in Jobs
    BY <1>1 DEF HandlerTake, TypeOK, Jobs
  <2> QED
    BY <2>1, <1>1 DEF HandlerTake, TypeOK, world
<1>2. CASE HandlerEnds(p)
  <2>1. hjob' \in Jobs
    BY <1>2 DEF HandlerEnds, TypeOK, Jobs
  <2> QED
    BY <2>1, <1>2 DEF HandlerEnds, TypeOK, world, counts
<1>3. CASE BusTake(p)
  <2>1. bjob' \in Jobs
    BY <1>3 DEF BusTake, TypeOK, Jobs
  <2> QED
    BY <2>1, <1>3 DEF BusTake, TypeOK, world, counts
<1>4. CASE BusEnds(p)
  <2>1. PICK s \in Known(p) :
          /\ cache' = [cache EXCEPT ![p] = s]
          /\ told' = (told \/ (s.mq /\ mqtt))
          /\ bjob' = IF ~s.mq \/ mqtt THEN [bjob EXCEPT !.st = "done", !.at = None]
                     ELSE [bjob EXCEPT !.at = None, !.tries = @ + 1,
                             !.st = IF bjob.tries + 1 < Attempts THEN "waiting"
                                    ELSE "failed"]
    BY <1>4 DEF BusEnds
  <2>2. bjob' \in Jobs
    <3>1. bjob \in Jobs
      BY DEF TypeOK
    <3>2. [bjob EXCEPT !.st = "done", !.at = None] \in Jobs
      BY <3>1 DEF Jobs
    <3>3. bjob.tries + 1 \in 0..Attempts
      BY <3>1, <1>4, ConstantsAssumption DEF BusEnds, BusJobOK, Jobs
    <3>4. ASSUME NEW label \in {"waiting", "failed"}
          PROVE  [bjob EXCEPT !.at = None, !.tries = @ + 1, !.st = label]
                   \in Jobs
      BY <3>1, <3>3 DEF Jobs
    <3> QED
      BY <2>1, <3>2, <3>4
  <2>3. cache' \in [Procs -> Settings] /\ told' \in BOOLEAN
    BY <2>1, KnownTyped DEF TypeOK
  <2> QED
    BY <2>2, <2>3, <1>4 DEF BusEnds, TypeOK, world, counts
<1> QED
  BY <1>1, <1>2, <1>3, <1>4 DEF Working

-----------------------------------------------------------------------------
(* Steps                                                                   *)

(* The sums of an account, before and after a step.                        *)
LEMMA Sums ==
  ASSUME NEW r \in Nat, NEW rr \in Nat, NEW w \in Nat, NEW ww \in Nat,
         NEW g \in Nat, NEW gg \in Nat, NEW p \in Nat, NEW pp \in Nat,
         NEW s \in Nat, NEW ss \in Nat, r + s + w <= g + p
  PROVE  /\ ss <= s /\ rr + ww + g + p <= r + w + gg + pp
              => rr + ss + ww <= gg + pp
         /\ ss <= s + 1 /\ rr + ww + 1 + g + p <= r + w + gg + pp
              => rr + ss + ww <= gg + pp
         /\ ss + 1 <= s /\ rr + ww + g + p <= r + w + 1 + gg + pp
              => rr + ss + ww <= gg + pp
OBVIOUS

LEMMA Changes ==
  ASSUME NEW r \in Nat, NEW w \in Nat, NEW ww \in Nat,
         NEW g \in Nat, NEW p \in Nat, NEW pp \in Nat
  PROVE  /\ ww <= w + 1 => r + ww + g + p <= r + w + 1 + g + p
         /\ ww + p <= w + pp => r + ww + g + p <= r + w + g + pp
         /\ ww \in 0..1 => ww + p <= w + (p + 1)
OBVIOUS

(* The three ways a step can settle what is owed.                          *)
LEMMA Account ==
  ASSUME Inv, TypeOK',
         \/ /\ Debtors' \subseteq Debtors
            /\ runs' + Waiting' + grants + repeats
                 <= runs + Waiting + grants' + repeats'
         \/ /\ \E d \in Publishers : Debtors' \subseteq Debtors \cup {d}
            /\ runs' + Waiting' + 1 + grants + repeats
                 <= runs + Waiting + grants' + repeats'
         \/ /\ \E d \in Debtors : Debtors' \subseteq Debtors \ {d}
            /\ runs' + Waiting' + grants + repeats
                 <= runs + Waiting + 1 + grants' + repeats'
  PROVE  Balance'
<1>1. Debtors \in SUBSET Publishers /\ Debtors' \in SUBSET Publishers
  BY DEF Debtors
<1>2. /\ runs \in Nat /\ runs' \in Nat /\ grants \in Nat /\ grants' \in Nat
      /\ Waiting \in Nat /\ Waiting' \in Nat
      /\ repeats \in Nat /\ repeats' \in Nat
  BY DEF Inv, TypeOK, Waiting, Jobs
<1> DEFINE S == Cardinality(Debtors)
           T == Cardinality(Debtors')
<1>3. /\ S \in Nat /\ T \in Nat
      /\ Debtors' \subseteq Debtors => T <= S
      /\ (\E d \in Publishers : Debtors' \subseteq Debtors \cup {d}) => T <= S + 1
      /\ (\E d \in Debtors : Debtors' \subseteq Debtors \ {d}) => T + 1 <= S
  BY <1>1, DebtCount
<1>4. runs + S + Waiting <= grants + repeats
  BY DEF Inv, Balance
<1> HIDE DEF S, T
<1>5. runs' + T + Waiting' <= grants' + repeats'
  <2>1. \/ /\ T <= S
           /\ runs' + Waiting' + grants + repeats
                <= runs + Waiting + grants' + repeats'
        \/ /\ T <= S + 1
           /\ runs' + Waiting' + 1 + grants + repeats
                <= runs + Waiting + grants' + repeats'
        \/ /\ T + 1 <= S
           /\ runs' + Waiting' + grants + repeats
                <= runs + Waiting + 1 + grants' + repeats'
    BY <1>3
  <2>2. S \in Nat /\ T \in Nat
    BY <1>3
  <2>3. /\ T <= S /\ runs' + Waiting' + grants + repeats
                       <= runs + Waiting + grants' + repeats'
             => runs' + T + Waiting' <= grants' + repeats'
        /\ T <= S + 1 /\ runs' + Waiting' + 1 + grants + repeats
                           <= runs + Waiting + grants' + repeats'
             => runs' + T + Waiting' <= grants' + repeats'
        /\ T + 1 <= S /\ runs' + Waiting' + grants + repeats
                           <= runs + Waiting + 1 + grants' + repeats'
             => runs' + T + Waiting' <= grants' + repeats'
    BY <2>2, <1>2, <1>4, Sums, Zenon
  <2> QED
    BY <2>1, <2>3, Zenon
<1> QED
  BY <1>5 DEF Balance, T

(* Steps of the world around the publications.                             *)
LEMMA WorldStep ==
  ASSUME Inv, RedisDown \/ RedisUp \/ MqttDown \/ MqttUp \/ Toggle
                \/ \E p \in Procs : Connect(p)
  PROVE  Inv'
<1>1. TypeOK'
  BY WorldTypes DEF Inv
<1>2. UNCHANGED <<claimed, pub, task, hjob, bjob, grants, strays, repeats, runs>>
  BY DEF RedisDown, RedisUp, MqttDown, MqttUp, Toggle, Connect, counts
<1>3. Balance'
  BY <1>2 DEF Inv, Balance, Debtors, Owes, Waiting
<1>4. BusJobOK' /\ \A d \in Publishers : TaskOK(d)' /\ Placed(d)'
  BY <1>2 DEF Inv, BusJobOK, TaskOK, Placed
<1>5. faults'["expiries"] = faults["expiries"]
  <2>1. faults' = faults \/ Fault("others")
    BY DEF RedisDown, RedisUp, MqttDown, MqttUp, Toggle, Connect
  <2> QED
    BY <2>1, FaultTyped DEF Inv, Faults
<1>6. OneGrant'
  BY <1>2, <1>5 DEF Inv, OneGrant
<1> QED
  BY <1>1, <1>3, <1>4, <1>6 DEF Inv

LEMMA ExpireStep == ASSUME Inv, Expire PROVE Inv'
<1>1. TypeOK'
  BY WorldTypes DEF Inv
<1>2. UNCHANGED <<pub, task, hjob, bjob, grants, strays, repeats, runs>>
  BY DEF Expire, counts
<1>3. Balance'
  BY <1>2 DEF Inv, Balance, Debtors, Owes, Waiting
<1>4. BusJobOK' /\ \A d \in Publishers : TaskOK(d)' /\ Placed(d)'
  BY <1>2 DEF Inv, BusJobOK, TaskOK, Placed
<1>5. faults'["expiries"] = faults["expiries"] + 1 /\ faults["expiries"] \in Nat
  BY FaultTyped DEF Expire, Inv, TypeOK, Faults
<1>6. grants \in Nat /\ strays \in Nat
  BY DEF Inv, TypeOK
<1>7. OneGrant'
  BY <1>2, <1>5, <1>6 DEF Inv, OneGrant
<1> QED
  BY <1>1, <1>3, <1>4, <1>7 DEF Inv

LEMMA RemovalStep == ASSUME Inv, Removal PROVE Inv'
<1>1. TypeOK'
  BY WorldTypes DEF Inv
<1>2. UNCHANGED <<claimed, pub, task, grants, strays, repeats, runs>>
  BY DEF Removal, counts
<1>3. Waiting' = Waiting
  BY DEF Removal, Finished, Waiting, NoJob
<1>4. Balance'
  BY <1>2, <1>3 DEF Inv, Balance, Debtors, Owes
<1>5. BusJobOK' /\ \A d \in Publishers : TaskOK(d)' /\ Placed(d)'
  BY <1>2, ConstantsAssumption DEF Inv, BusJobOK, TaskOK, Placed, Removal, NoJob
<1>6. faults'["expiries"] = faults["expiries"]
  BY FaultTyped DEF Removal, Inv, Faults
<1>7. OneGrant'
  BY <1>2, <1>6 DEF Inv, OneGrant
<1> QED
  BY <1>1, <1>4, <1>5, <1>7 DEF Inv

(* A process loses its locks, alone, with a connection or with its memory: *)
(* a job given back is one more execution, and one more repeat.            *)
LEMMA LosesStep ==
  ASSUME Inv, NEW p \in Procs,
         \/ Crash(p) \/ \E w \in {"handlers", "bus"} : Overrun(p, w)
         \/ \E l \in Lines : GiveUp(p, l)
  PROVE  Inv'
<1>1. TypeOK'
  BY LosesTypes DEF Inv
<1>2. \A d \in Publishers :
        /\ \/ pub'[d] = pub[d]
           \/ pub[d].at = p /\ pub[d].pc # "returned" /\ pub'[d] = Quiet
        /\ \/ task'[d] = task[d] /\ (Crash(p) => task[d].at # p)
           \/ task'[d] = NoTask
        /\ ~Crash(p) => pub'[d] = pub[d]
  BY DEF Crash, Overrun, GiveUp
<1>3. Quiet.pc = "idle" /\ NoTask.pc = "off"
  BY DEF Quiet, NoTask
<1>4. Debtors' \subseteq Debtors
  BY <1>2, <1>3 DEF Debtors, Owes
<1>5. /\ Waiting' + repeats <= Waiting + repeats'
      /\ BusJobOK'
  <2>1. \E W : LosesLocks(p, W)
    BY DEF Crash, Overrun, GiveUp
  <2> QED
    BY <2>1, LocksTyped DEF Inv
<1>6. UNCHANGED <<claimed, grants, strays, runs>>
  BY DEF Crash, Overrun, GiveUp
<1>7. Balance'
  <2>1. /\ runs \in Nat /\ grants \in Nat /\ Waiting \in 0..1 /\ Waiting' \in 0..1
        /\ repeats \in Nat /\ repeats' \in Nat
    BY <1>1 DEF Inv, TypeOK, Waiting
  <2>2. runs' + Waiting' + grants + repeats
          <= runs + Waiting + grants' + repeats'
    <3>1. runs' = runs /\ grants' = grants
      BY <1>6
    <3>2. Waiting \in Nat /\ Waiting' \in Nat
      BY <2>1
    <3> QED
      BY <3>1, <3>2, <1>5, <2>1, Changes
  <2> QED
    BY <1>1, <1>4, <2>2, Account
<1>8. \A d \in Publishers : TaskOK(d)' /\ Placed(d)'
  BY <1>2, <1>3 DEF Inv, TaskOK, Placed
<1>9. OneGrant'
  <2>1. Fault("crashes") \/ Fault("others")
    BY DEF Crash, Overrun, GiveUp
  <2>2. faults'["expiries"] = faults["expiries"]
    BY <2>1, FaultTyped DEF Inv, Faults
  <2> QED
    BY <1>6, <2>2 DEF Inv, OneGrant
<1> QED
  BY <1>1, <1>5, <1>7, <1>8, <1>9 DEF Inv

(* A publication moves on without a claim, and nothing is owed or paid.    *)
LEMMA PubStep ==
  ASSUME Inv, TypeOK', NEW d \in Publishers,
         UNCHANGED <<task, hjob, grants, strays, repeats, runs>>,
         faults'["expiries"] = faults["expiries"], BusJobOK',
         claimed => claimed',
         \A e \in Publishers : e # d => pub'[e] = pub[e],
         pub'[d].pc # "infra", Placed(d)',
         \/ task[d].pc = "off"
         \/ /\ pub'[d].pc \in {"dispatch", "direct", "returned"}
            /\ pub'[d].at = pub[d].at
  PROVE  Inv'
<1>1. Debtors' \subseteq Debtors /\ Waiting' = Waiting
  BY DEF Debtors, Owes, Waiting
<1>2. Balance'
  <2>1. /\ runs \in Nat /\ grants \in Nat /\ Waiting \in 0..1
        /\ repeats \in Nat
    BY DEF Inv, TypeOK, Waiting, Jobs
  <2> QED
    BY <1>1, <2>1, Account
<1>3. \A e \in Publishers : TaskOK(e)' /\ Placed(e)'
  BY DEF Inv, TaskOK, Placed
<1>4. OneGrant'
  <2>1. grants \in Nat /\ strays \in Nat /\ faults["expiries"] \in Nat
    BY DEF Inv, TypeOK, Faults
  <2> QED
    BY <2>1 DEF Inv, OneGrant
<1> QED
  BY <1>2, <1>3, <1>4 DEF Inv

(* What a publication at work says of itself and of the others.            *)
LEMMA PubMoves ==
  ASSUME TypeOK, NEW d \in Publishers,
         NEW label, pub' = [pub EXCEPT ![d].pc = label]
  PROVE  /\ pub'[d].pc = label /\ pub'[d].at = pub[d].at
         /\ \A e \in Publishers : e # d => pub'[e] = pub[e]
BY DEF TypeOK, Publications

LEMMA PublishStep ==
  ASSUME Inv, NEW d \in Publishers, NEW p \in Procs, Publish(d, p)
  PROVE  Inv'
<1>1. TypeOK'
  BY PublishingTypes DEF Inv
<1>2. pub'[d].pc = "claim" /\ pub'[d].at = p
  BY DEF Publish, Inv, TypeOK, Quiet
<1>3. \A e \in Publishers : e # d => pub'[e] = pub[e]
  BY DEF Publish, Inv, TypeOK
<1>4. task[d].pc = "off"
  BY DEF Publish, Inv, TaskOK
<1>5. UNCHANGED <<claimed, task, hjob, bjob, faults, grants, strays, repeats,
                  runs>>
  BY DEF Publish, counts
<1>6. Placed(d)' /\ BusJobOK'
  BY <1>2, <1>5 DEF Placed, Inv, BusJobOK
<1> QED
  BY <1>1, <1>2, <1>3, <1>4, <1>5, <1>6, PubStep

(* A claim refused, in Redis or in the memory of the process.              *)
LEMMA DuplicateStep ==
  ASSUME Inv, TypeOK', NEW d \in Publishers, Duplicate(d),
         claimed => claimed', faults'["expiries"] = faults["expiries"],
         UNCHANGED <<task, hjob, bjob, strays, repeats, runs>>
  PROVE  Inv'
<1>1. pub' = [pub EXCEPT ![d].pc = "returned"] /\ grants' = grants
  BY DEF Duplicate
<1>2. /\ pub'[d].pc = "returned" /\ pub'[d].at = pub[d].at
      /\ \A e \in Publishers : e # d => pub'[e] = pub[e]
  BY <1>1, PubMoves DEF Inv
<1>3. Placed(d)' /\ BusJobOK'
  BY <1>2 DEF Placed, Inv, BusJobOK
<1> QED
  BY <1>1, <1>2, <1>3, PubStep

(* A claim granted: one more claim and one more execution owed.            *)
LEMMA GrantedStep ==
  ASSUME Inv, TypeOK', NEW d \in Publishers, Granted(d), pub[d].pc = "claim",
         OneGrant', UNCHANGED <<task, hjob, bjob, repeats, runs>>
  PROVE  Inv'
<1>1. pub' = [pub EXCEPT ![d].pc = "infra"] /\ grants' = grants + 1
  BY DEF Granted
<1>2. /\ pub'[d].pc = "infra" /\ pub'[d].at = pub[d].at
      /\ \A e \in Publishers : e # d => pub'[e] = pub[e]
  BY <1>1, PubMoves DEF Inv
<1>3. Debtors' \subseteq Debtors \cup {d} /\ Waiting' = Waiting
  BY <1>2 DEF Debtors, Owes, Waiting
<1>4. Balance'
  <2>1. /\ runs \in Nat /\ grants \in Nat /\ Waiting \in 0..1
        /\ repeats \in Nat
    BY DEF Inv, TypeOK, Waiting, Jobs
  <2>2. runs' + Waiting' + 1 + grants + repeats
          <= runs + Waiting + grants' + repeats'
    BY <1>1, <1>3, <2>1
  <2> QED
    BY <1>3, <2>2, Account
<1>5. \A e \in Publishers : TaskOK(e)' /\ Placed(e)'
  BY <1>2 DEF Inv, TaskOK, Placed
<1>6. BusJobOK'
  BY DEF Inv, BusJobOK
<1> QED
  BY <1>4, <1>5, <1>6 DEF Inv

LEMMA ClaimStep ==
  ASSUME Inv, NEW d \in Publishers,
         ClaimInRedis(d) \/ ClaimInMemory(d) \/ ClaimReplyLost(d)
  PROVE  Inv'
<1>1. TypeOK'
  BY PublishingTypes DEF Inv, Publishing
<1>0. grants \in Nat /\ strays \in Nat /\ faults["expiries"] \in Nat
  BY DEF Inv, TypeOK, Faults
<1>2. CASE ClaimInRedis(d)
  <2>1. /\ claimed' /\ pub[d].pc = "claim"
        /\ UNCHANGED <<task, hjob, bjob, faults, strays, repeats, runs>>
    BY <1>2 DEF ClaimInRedis
  <2>2. CASE ~claimed /\ Granted(d)
    <3>1. OneGrant'
      BY <1>0, <2>1, <2>2 DEF Inv, OneGrant, Granted
    <3> QED
      BY <1>1, <2>1, <2>2, <3>1, GrantedStep
  <2>3. CASE Duplicate(d)
    BY <1>1, <2>1, <2>3, DuplicateStep
  <2> QED
    BY <1>2, <2>2, <2>3 DEF ClaimInRedis
<1>3. CASE ClaimInMemory(d)
  <2>1. /\ pub[d].pc = "claim"
        /\ UNCHANGED <<claimed, task, hjob, bjob, repeats, runs>>
    BY <1>3 DEF ClaimInMemory
  <2>2. faults'["expiries"] = faults["expiries"]
    <3>1. faults' = faults \/ Fault("others")
      BY <1>3 DEF ClaimInMemory
    <3> QED
      BY <3>1, FaultTyped DEF Inv, Faults
  <2>3. CASE Granted(d) /\ strays' = strays + 1
    <3>1. OneGrant'
      BY <1>0, <2>1, <2>2, <2>3 DEF Inv, OneGrant, Granted
    <3> QED
      BY <1>1, <2>1, <2>3, <3>1, GrantedStep
  <2>4. CASE Duplicate(d) /\ UNCHANGED strays
    BY <1>1, <2>1, <2>2, <2>4, DuplicateStep
  <2> QED
    BY <1>3, <2>3, <2>4 DEF ClaimInMemory
<1>4. CASE ClaimReplyLost(d)
  <2>1. UNCHANGED <<pub, task, hjob, bjob, grants, strays, repeats, runs>>
    BY <1>4 DEF ClaimReplyLost, counts
  <2>2. faults'["expiries"] = faults["expiries"] /\ claimed'
    BY <1>4, FaultTyped DEF ClaimReplyLost, Inv, Faults
  <2>3. OneGrant'
    BY <1>0, <2>1, <2>2 DEF Inv, OneGrant
  <2> QED
    BY <1>1, <2>1, <2>3 DEF Inv, Balance, Debtors, Owes, Waiting, BusJobOK,
                            TaskOK, Placed
<1> QED
  BY <1>2, <1>3, <1>4

LEMMA ReadInfraStep ==
  ASSUME Inv, NEW d \in Publishers, ReadInfra(d)
  PROVE  Inv'
<1>1. TypeOK'
  BY PublishingTypes DEF Inv, Publishing
<1>2. PICK s \in Known(pub[d].at) :
        /\ pub' = [pub EXCEPT ![d].pc = "dispatch", ![d].infra = s]
        /\ task' = [task EXCEPT ![d] =
             [pc |-> IF s.redis THEN "enqueue" ELSE "start", at |-> pub[d].at]]
  BY DEF ReadInfra
<1>3. /\ pub'[d].pc = "dispatch" /\ pub'[d].at = pub[d].at
      /\ task'[d].at = pub[d].at
      /\ \A e \in Publishers : e # d => pub'[e] = pub[e] /\ task'[e] = task[e]
  BY <1>2 DEF Inv, TypeOK, Publications
<1>4. /\ pub[d].pc = "infra"
      /\ UNCHANGED <<claimed, hjob, bjob, faults, grants, strays, repeats, runs>>
  BY DEF ReadInfra, counts
<1>5. Debtors' \subseteq Debtors /\ Waiting' = Waiting
  BY <1>3, <1>4 DEF Debtors, Owes, Waiting
<1>6. Balance'
  <2>1. /\ runs \in Nat /\ grants \in Nat /\ Waiting \in 0..1
        /\ repeats \in Nat
    BY DEF Inv, TypeOK, Waiting, Jobs
  <2> QED
    BY <1>1, <1>4, <1>5, <2>1, Account
<1>7. \A e \in Publishers : TaskOK(e)' /\ Placed(e)'
  BY <1>3, <1>4 DEF Inv, TaskOK, Placed
<1>8. OneGrant' /\ BusJobOK'
  BY <1>4 DEF Inv, OneGrant, BusJobOK
<1> QED
  BY <1>1, <1>6, <1>7, <1>8 DEF Inv

LEMMA DispatchStep ==
  ASSUME Inv, NEW d \in Publishers,
         \/ DispatchQueue(d) \/ DispatchRefused(d) \/ DispatchNoQueue(d)
         \/ Direct(d)
  PROVE  Inv'
<1>1. TypeOK'
  BY PublishingTypes DEF Inv, Publishing
<1>2. PICK label \in {"direct", "returned"} : pub' = [pub EXCEPT ![d].pc = label]
  BY DEF DispatchQueue, DispatchRefused, DispatchNoQueue, Direct
<1>3. /\ pub'[d].pc = label /\ pub'[d].at = pub[d].at
      /\ \A e \in Publishers : e # d => pub'[e] = pub[e]
  BY <1>2, PubMoves DEF Inv
<1>4. /\ pub[d].pc \in {"dispatch", "direct"}
      /\ UNCHANGED <<claimed, task, hjob, grants, strays, repeats, runs>>
  BY DEF DispatchQueue, DispatchRefused, DispatchNoQueue, Direct, counts
<1>5. faults'["expiries"] = faults["expiries"]
  BY FaultTyped DEF DispatchQueue, DispatchRefused, DispatchNoQueue, Direct,
                    Inv, Faults
<1>6. BusJobOK'
  BY DEF DispatchQueue, DispatchRefused, DispatchNoQueue, Direct, Added, Inv,
         BusJobOK, TypeOK, Jobs
<1>7. Placed(d)'
  BY <1>3, <1>4 DEF Inv, Placed
<1> QED
  BY <1>1, <1>3, <1>4, <1>5, <1>6, <1>7, PubStep

(* A task moves on: what it owes is queued, or begun, or still owed.       *)
LEMMA TaskStep ==
  ASSUME Inv, TypeOK', NEW d \in Publishers, Balance',
         UNCHANGED <<claimed, pub, bjob, grants, strays>>,
         faults'["expiries"] = faults["expiries"],
         \A e \in Publishers : e # d => task'[e] = task[e],
         task'[d].pc = "off" \/ (task[d].pc # "off" /\ task'[d].at = task[d].at)
  PROVE  Inv'
<1>1. \A e \in Publishers : TaskOK(e)' /\ Placed(e)'
  BY DEF Inv, TaskOK, Placed
<1>2. OneGrant' /\ BusJobOK'
  BY DEF Inv, OneGrant, BusJobOK
<1> QED
  BY <1>1, <1>2 DEF Inv

LEMMA TaskMoves ==
  ASSUME TypeOK, NEW d \in Publishers,
         NEW label, task' = [task EXCEPT ![d].pc = label]
  PROVE  /\ task'[d].pc = label /\ task'[d].at = task[d].at
         /\ \A e \in Publishers : e # d => task'[e] = task[e]
BY DEF TypeOK, Tasks

LEMMA Numbers ==
  ASSUME TypeOK
  PROVE  /\ runs \in Nat /\ grants \in Nat /\ Waiting \in 0..1
         /\ repeats \in Nat
BY DEF TypeOK, Waiting, Jobs

LEMMA HandlingStep ==
  ASSUME Inv, NEW d \in Publishers, Handling(d) \/ ScheduleRefused(d)
  PROVE  Inv'
<1>1. TypeOK'
  BY HandlingTypes DEF Inv
<1>2. runs \in Nat /\ grants \in Nat /\ Waiting \in 0..1 /\ repeats \in Nat
  BY Numbers DEF Inv
<1>3. pub[d].pc = "infra" => task[d].pc = "off"
  BY DEF Inv, TaskOK
<1>4. CASE Schedule(d)
  <2>1. task'[d] = NoTask /\ \A e \in Publishers : e # d => task'[e] = task[e]
    BY <1>4 DEF Schedule, Inv, TypeOK
  <2>2. /\ task[d].pc = "enqueue" /\ hjob' = Added(hjob)
        /\ UNCHANGED <<claimed, pub, bjob, faults, grants, strays, repeats, runs>>
    BY <1>4 DEF Schedule, counts
  <2>3. NoTask.pc = "off"
    BY DEF NoTask
  <2>4. d \in Debtors /\ Debtors' \subseteq Debtors \ {d}
    BY <1>3, <2>1, <2>2, <2>3 DEF Debtors, Owes
  <2>5. Waiting' <= Waiting + 1 /\ Waiting' \in 0..1 /\ repeats' = repeats
    BY <2>2 DEF Added, Waiting, Inv, TypeOK, Jobs
  <2>6. runs' + Waiting' + grants + repeats
          <= runs + Waiting + 1 + grants' + repeats'
    <3>1. runs' = runs /\ grants' = grants /\ repeats' = repeats
      BY <2>2
    <3>2. Waiting \in Nat /\ Waiting' \in Nat /\ Waiting' <= Waiting + 1
      BY <2>5, <1>2
    <3> QED
      BY <3>1, <3>2, <1>2, Changes
  <2>7. Balance'
    BY <1>1, <2>4, <2>6, Account
  <2> QED
    BY <1>1, <2>1, <2>2, <2>3, <2>7, TaskStep
<1>5. CASE RunHere(d)
  <2>1. /\ task'[d].pc = "run" /\ task'[d].at = task[d].at
        /\ \A e \in Publishers : e # d => task'[e] = task[e]
    BY <1>5, TaskMoves DEF RunHere, Inv
  <2>2. /\ task[d].pc = "start" /\ runs' = runs + 1
        /\ UNCHANGED <<claimed, pub, hjob, bjob, faults, grants, strays, repeats>>
    BY <1>5 DEF RunHere
  <2>3. d \in Debtors /\ Debtors' \subseteq Debtors \ {d} /\ Waiting' = Waiting
    BY <1>3, <2>1, <2>2 DEF Debtors, Owes, Waiting
  <2>4. runs' + Waiting' + grants + repeats
          <= runs + Waiting + 1 + grants' + repeats'
    BY <1>2, <2>2, <2>3
  <2>5. Balance'
    BY <1>1, <2>3, <2>4, Account
  <2> QED
    BY <1>1, <2>1, <2>2, <2>5, TaskStep
<1>6. CASE RunHereEnds(d)
  <2>1. task'[d] = NoTask /\ \A e \in Publishers : e # d => task'[e] = task[e]
    BY <1>6 DEF RunHereEnds, Inv, TypeOK
  <2>2. UNCHANGED <<claimed, pub, hjob, bjob, faults, grants, strays, repeats,
                    runs>>
    BY <1>6 DEF RunHereEnds, counts
  <2>3. NoTask.pc = "off"
    BY DEF NoTask
  <2>4. Debtors' \subseteq Debtors /\ Waiting' = Waiting
    BY <2>1, <2>2, <2>3 DEF Debtors, Owes, Waiting
  <2>5. Balance'
    BY <1>1, <1>2, <2>2, <2>4, Account
  <2> QED
    BY <1>1, <2>1, <2>2, <2>3, <2>5, TaskStep
<1>7. CASE ScheduleRefused(d)
  <2>1. /\ task'[d].pc = "start" /\ task'[d].at = task[d].at
        /\ \A e \in Publishers : e # d => task'[e] = task[e]
    BY <1>7, TaskMoves DEF ScheduleRefused, Inv
  <2>2. /\ task[d].pc = "enqueue" /\ hjob' \in {hjob, Added(hjob)}
        /\ repeats' = IF hjob' = hjob THEN repeats ELSE repeats + 1
        /\ UNCHANGED <<claimed, pub, bjob, grants, strays, runs>>
    BY <1>7 DEF ScheduleRefused
  <2>3. faults'["expiries"] = faults["expiries"]
    BY <1>7, FaultTyped DEF ScheduleRefused, Inv, Faults
  <2>4. Debtors' \subseteq Debtors
    BY <2>1, <2>2 DEF Debtors, Owes
  <2>5. runs' + Waiting' + grants + repeats <= runs + Waiting + grants' + repeats'
    <3>1. CASE hjob' = hjob
      BY <3>1, <1>2, <2>2 DEF Waiting
    <3>2. CASE hjob' # hjob
      <4>1. repeats' = repeats + 1 /\ runs' = runs /\ grants' = grants
        BY <3>2, <2>2
      <4>2. Waiting' \in 0..1
        BY DEF Waiting
      <4>3. Waiting' + repeats <= Waiting + repeats'
        <5>1. Waiting \in Nat /\ Waiting' \in Nat
          BY <4>2, <1>2
        <5> QED
          BY <4>1, <4>2, <5>1, <1>2, Changes
      <4>4. Waiting \in Nat /\ Waiting' \in Nat /\ repeats' \in Nat
        BY <4>1, <4>2, <1>2
      <4> QED
        BY <4>1, <4>3, <4>4, <1>2, Changes
    <3> QED
      BY <3>1, <3>2
  <2>6. Balance'
    BY <1>1, <2>4, <2>5, Account
  <2> QED
    BY <1>1, <2>1, <2>2, <2>3, <2>6, TaskStep
<1>8. CASE ScheduleNoQueue(d)
  <2>1. /\ task'[d].pc = "start" /\ task'[d].at = task[d].at
        /\ \A e \in Publishers : e # d => task'[e] = task[e]
    BY <1>8, TaskMoves DEF ScheduleNoQueue, Inv
  <2>2. /\ task[d].pc = "enqueue"
        /\ UNCHANGED <<claimed, pub, hjob, bjob, faults, grants, strays, repeats,
                       runs>>
    BY <1>8 DEF ScheduleNoQueue, counts
  <2>3. Debtors' \subseteq Debtors /\ Waiting' = Waiting
    BY <2>1, <2>2 DEF Debtors, Owes, Waiting
  <2>4. Balance'
    BY <1>1, <1>2, <2>2, <2>3, Account
  <2> QED
    BY <1>1, <2>1, <2>2, <2>4, TaskStep
<1> QED
  BY <1>4, <1>5, <1>6, <1>7, <1>8 DEF Handling

LEMMA WorkingStep ==
  ASSUME Inv, NEW p \in Procs, Working(p)
  PROVE  Inv'
<1>1. TypeOK'
  BY WorkingTypes DEF Inv
<1>2. UNCHANGED <<claimed, pub, task, faults, grants, strays, repeats>>
  BY DEF Working, HandlerTake, HandlerEnds, BusTake, BusEnds, counts
<1>3. Debtors' = Debtors
  BY <1>2 DEF Debtors, Owes
<1>4. /\ runs' + Waiting' <= runs + Waiting /\ repeats' = repeats
      /\ runs' \in Nat /\ Waiting' \in 0..1
  <2>1. CASE HandlerTake(p)
    BY <2>1 DEF HandlerTake, Waiting, Inv, TypeOK, Jobs
  <2>2. CASE HandlerEnds(p)
    BY <2>2 DEF HandlerEnds, Waiting, counts, Inv, TypeOK, Jobs
  <2>3. CASE BusTake(p) \/ BusEnds(p)
    BY <2>3 DEF BusTake, BusEnds, Waiting, counts, Inv, TypeOK
  <2> QED
    BY <2>1, <2>2, <2>3 DEF Working
<1>5. Balance'
  <2>1. runs \in Nat /\ grants \in Nat /\ Waiting \in 0..1 /\ repeats \in Nat
    BY Numbers DEF Inv
  <2>2. runs' + Waiting' + grants + repeats
          <= runs + Waiting + grants' + repeats'
    <3>1. grants' = grants /\ repeats' = repeats
      BY <1>2, <1>4
    <3>2. \A a, b, c, d, e, f \in Nat :
            a + b <= c + d => a + b + e + f <= c + d + e + f
      OBVIOUS
    <3>3. runs' + Waiting' <= runs + Waiting
      BY <1>4
    <3>4. Waiting \in Nat /\ runs \in Nat /\ grants \in Nat /\ repeats \in Nat
      BY <2>1
    <3>5. Waiting' \in Nat /\ runs' \in Nat
      BY <1>4
    <3> QED
      BY <3>1, <3>2, <3>3, <3>4, <3>5
  <2> QED
    BY <1>1, <1>3, <2>2, Account
<1>6. BusJobOK'
  <2>1. CASE HandlerTake(p) \/ HandlerEnds(p)
    BY <2>1 DEF HandlerTake, HandlerEnds, Inv, BusJobOK
  <2>2. CASE BusTake(p)
    BY <2>2 DEF BusTake, Inv, BusJobOK, TypeOK, Jobs
  <2>3. CASE BusEnds(p)
    <3>1. bjob \in Jobs
      BY DEF Inv, TypeOK
    <3>2. CASE bjob' = [bjob EXCEPT !.st = "done", !.at = None]
      BY <3>1, <3>2 DEF BusJobOK, Jobs
    <3>3. CASE bjob' = [bjob EXCEPT !.at = None, !.tries = @ + 1,
                          !.st = IF bjob.tries + 1 < Attempts THEN "waiting"
                                 ELSE "failed"]
      BY <3>1, <3>3 DEF BusJobOK, Jobs
    <3> QED
      BY <2>3, <3>2, <3>3 DEF BusEnds
  <2> QED
    BY <2>1, <2>2, <2>3 DEF Working
<1>7. OneGrant' /\ \A e \in Publishers : TaskOK(e)' /\ Placed(e)'
  BY <1>2 DEF Inv, OneGrant, TaskOK, Placed
<1> QED
  BY <1>1, <1>5, <1>6, <1>7 DEF Inv

LEMMA NextStep ==
  ASSUME Inv, [Next]_vars
  PROVE  Inv'
<1>1. CASE UNCHANGED vars
  BY <1>1 DEF vars, world, counts, Inv, TypeOK, Balance, Debtors, Owes, Waiting, BusJobOK,
              OneGrant, TaskOK, Placed
<1>2. CASE Next
  BY <1>2, WorldStep, ExpireStep, RemovalStep, LosesStep, WorkingStep, PublishStep, ClaimStep,
     ReadInfraStep, DispatchStep, HandlingStep DEF Next, Publishing
<1> QED
  BY <1>1, <1>2

THEOREM Invariance == Spec => []Inv
<1> QED
  BY InitInv, NextStep, PTL DEF Spec

-----------------------------------------------------------------------------
(* What the invariant says                                                 *)

(* Settings, publications, tasks and jobs keep their types.                *)
THEOREM EventTypes == Spec => []TypeOK
<1>1. Inv => TypeOK
  BY DEF Inv
<1> QED
  BY Invariance, <1>1, PTL

LEMMA Owed == ASSUME Inv PROVE runs <= grants + repeats
<1>1. Cardinality(Debtors) \in Nat
  BY DebtCount DEF Debtors
<1> QED
  BY <1>1, Numbers DEF Inv, Balance

(* Each execution of the handler stems from a claim of its own, or from a  *)
(* job given back or queued though its add was rejected, for any number of *)
(* publications and any faults.                                            *)
THEOREM ClaimedRuns == Spec => []RunsAreClaimed
<1>1. Inv => RunsAreClaimed
  BY Owed DEF RunsAreClaimed
<1> QED
  BY Invariance, <1>1, PTL

(* An event is handled once; beyond that only once per claim a process     *)
(* decided without Redis, per expiry of the key and per job that a second  *)
(* actor took over, however often and wherever it is published.            *)
THEOREM HandlesOnce == Spec => []HandledOnce
<1>1. ASSUME Inv PROVE HandledOnce
  <2>1. runs <= grants + repeats
    BY <1>1, Owed
  <2>2. grants <= 1 + strays + faults["expiries"]
    BY <1>1 DEF Inv, TypeOK, OneGrant, Faults
  <2>3. /\ runs \in Nat /\ grants \in Nat /\ strays \in Nat /\ repeats \in Nat
        /\ faults["expiries"] \in Nat
    BY <1>1 DEF Inv, TypeOK, Faults
  <2> QED
    BY <2>1, <2>2, <2>3 DEF HandledOnce
<1> QED
  BY Invariance, <1>1, PTL
=============================================================================
