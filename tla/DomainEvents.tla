---------------------------- MODULE DomainEvents ----------------------------
(***************************************************************************)
(* The publication of one domain event: the claim of its identity, the     *)
(* detached scheduling of the in-process handler, the dispatch to the bus, *)
(* and the workers of the two BullMQ queues.  The same event may be        *)
(* published several times (a webhook Stripe delivers again) and by any    *)
(* process.  Redis, the MQTT broker, the processes and each of their       *)
(* connections fail; a command of BullMQ waits for its connection to come  *)
(* back, until ioredis gives it up, and the claim does not.                *)
(***************************************************************************)
EXTENDS Naturals, FiniteSets

CONSTANTS
  Publishers,   \* calls of publish() with the same event id
  Procs,        \* API processes; each runs both workers
  Attempts,     \* attempts of a job of the queue domain-events
  MaxFaults,    \* bound: outages of Redis and of the MQTT broker, commands
                \* refused or left without a reply, connections given up,
                \* restarts, locks and keys that expire, jobs removed, changes
                \* of the infra settings by the administrator, all together
  None

ASSUME ConstantsAssumption ==
  /\ IsFiniteSet(Publishers) /\ IsFiniteSet(Procs) /\ Procs # {}
  /\ Attempts \in Nat \ {0}
  /\ MaxFaults \in Nat
  /\ None \notin Procs

Faults == {"crashes", "expiries", "others"}
Lines == {"queue", "handlers", "bus"}
Links == Lines \cup {"later"}
Settings == [redis: BOOLEAN, mq: BOOLEAN]
AllOn == [redis |-> TRUE, mq |-> TRUE]

VARIABLES
  redis,     \* whether Redis answers
  mqtt,      \* whether the broker is connected
  settings,  \* the infra runtime settings in the database
  cache,     \* process -> the settings it last read
  open,      \* process -> its BullMQ connections not given up: the one of
             \* both queues, those of its two workers; "later" before it
             \* has made any
  claimed,   \* the key of the event in Redis
  memory,    \* process -> the event is in the fallback map of the process
  pub,       \* publisher -> its call of publishEnvelope
  task,      \* publisher -> its detached scheduleInProcessHandler
  hjob,      \* the job of the queue domain-events-handlers
  bjob,      \* the job of the queue domain-events
  faults,    \* what the bounds count
  grants,    \* history: successful claims
  strays,    \* history: those among them a process decided on its own
  repeats,   \* history: executions handed to a second actor
  runs,      \* history: executions of the handler begun
  told       \* history: whether the event reached the broker

world == <<redis, mqtt, settings, open>>
counts == <<grants, strays, repeats, runs>>
vars == <<world, cache, claimed, memory, pub, task, hjob, bjob, faults, counts,
          told>>

Quiet == [pc |-> "idle", at |-> None, infra |-> AllOn]
NoTask == [pc |-> "off", at |-> None]
NoJob == [st |-> "none", at |-> None, tries |-> 0, stalls |-> 0]
Publications == [pc: {"idle", "claim", "infra", "dispatch", "direct", "returned"},
                 at: Procs \cup {None}, infra: Settings]
Tasks == [pc: {"off", "enqueue", "start", "run"}, at: Procs \cup {None}]
Jobs == [st: {"none", "waiting", "active", "done", "failed"},
         at: Procs \cup {None}, tries: 0..Attempts, stalls: 0..1]

TypeOK ==
  /\ redis \in BOOLEAN /\ mqtt \in BOOLEAN /\ claimed \in BOOLEAN
  /\ told \in BOOLEAN
  /\ settings \in Settings /\ cache \in [Procs -> Settings]
  /\ memory \in [Procs -> BOOLEAN] /\ open \in [Procs -> SUBSET Links]
  /\ pub \in [Publishers -> Publications] /\ task \in [Publishers -> Tasks]
  /\ hjob \in Jobs /\ bjob \in Jobs
  /\ faults \in [Faults -> 0..MaxFaults]
  /\ grants \in Nat /\ strays \in Nat /\ repeats \in Nat /\ runs \in Nat

Init ==
  /\ redis = TRUE /\ mqtt = TRUE /\ settings = AllOn
  /\ cache = [p \in Procs |-> AllOn] /\ open = [p \in Procs |-> Lines]
  /\ claimed = FALSE /\ memory = [p \in Procs |-> FALSE]
  /\ pub = [d \in Publishers |-> Quiet]
  /\ task = [d \in Publishers |-> NoTask]
  /\ hjob = NoJob /\ bjob = NoJob
  /\ faults = [k \in Faults |-> 0]
  /\ grants = 0 /\ strays = 0 /\ repeats = 0 /\ runs = 0 /\ told = FALSE

-----------------------------------------------------------------------------
(* Redis, the broker, the administrator and the processes                  *)

Fault(k) ==
  /\ faults["crashes"] + faults["expiries"] + faults["others"] < MaxFaults
  /\ faults' = [faults EXCEPT ![k] = @ + 1]

RedisDown ==
  /\ redis /\ redis' = FALSE
  /\ Fault("others")
  /\ UNCHANGED <<mqtt, settings, open, cache, claimed, memory, pub, task, hjob,
                 bjob, counts, told>>

RedisUp ==
  /\ ~redis /\ redis' = TRUE
  /\ UNCHANGED <<mqtt, settings, open, cache, claimed, memory, pub, task, hjob,
                 bjob, faults, counts, told>>

MqttDown ==
  /\ mqtt /\ mqtt' = FALSE
  /\ Fault("others")
  /\ UNCHANGED <<redis, settings, open, cache, claimed, memory, pub, task, hjob,
                 bjob, counts, told>>

MqttUp ==
  /\ ~mqtt /\ mqtt' = TRUE
  /\ UNCHANGED <<redis, settings, open, cache, claimed, memory, pub, task, hjob,
                 bjob, faults, counts, told>>

Toggle ==
  /\ settings' \in {[settings EXCEPT !.redis = ~@], [settings EXCEPT !.mq = ~@]}
  /\ Fault("others")
  /\ UNCHANGED <<redis, mqtt, open, cache, claimed, memory, pub, task, hjob,
                 bjob, counts, told>>

(* The key of the event lives 24 hours, in Redis and in a process's map.   *)
Expire ==
  /\ \/ claimed /\ claimed' = FALSE /\ UNCHANGED memory
     \/ \E p \in Procs : /\ memory[p] /\ memory' = [memory EXCEPT ![p] = FALSE]
                         /\ UNCHANGED claimed
  /\ Fault("expiries")
  /\ UNCHANGED <<world, cache, pub, task, hjob, bjob, counts, told>>

(* A queue keeps its last completed and failed jobs only.                  *)
Finished(j) == j.st \in {"done", "failed"}
Removal ==
  /\ \/ Finished(hjob) /\ hjob' = NoJob /\ UNCHANGED bjob
     \/ Finished(bjob) /\ bjob' = NoJob /\ UNCHANGED hjob
  /\ Fault("others")
  /\ UNCHANGED <<world, cache, claimed, memory, pub, task, counts, told>>

(* BullMQ gives back, once, an active job whose worker renews its lock no  *)
(* more, then fails it.                                                    *)
Stalled(j, p) ==
  IF j.st # "active" \/ j.at # p THEN j
  ELSE [st |-> IF j.stalls = 0 THEN "waiting" ELSE "failed",
        at |-> None, tries |-> j.tries, stalls |-> 1]

LosesLocks(p, workers) ==
  /\ hjob' = IF "handlers" \in workers THEN Stalled(hjob, p) ELSE hjob
  /\ bjob' = IF "bus" \in workers THEN Stalled(bjob, p) ELSE bjob
  /\ repeats' = IF hjob.st = "active" /\ hjob'.st = "waiting" THEN repeats + 1
                ELSE repeats

(* An outage or a busy process outlasts the lock: the job is given back    *)
(* while its worker is still at it.                                        *)
Overrun(p, w) ==
  /\ redis /\ LosesLocks(p, {w}) /\ <<hjob', bjob'>> # <<hjob, bjob>>
  /\ Fault("others")
  /\ UNCHANGED <<world, cache, claimed, memory, pub, task, grants, strays, runs,
                 told>>

(* ioredis gives a connection up after thirty attempts and the recovery    *)
(* quits one that is not ready; nothing replaces it in a queue or worker   *)
(* that exists.                                                            *)
GiveUp(p, l) ==
  /\ l \in open[p] /\ open' = [open EXCEPT ![p] = @ \ {l}]
  /\ LosesLocks(p, {l})
  /\ Fault("others")
  /\ UNCHANGED <<redis, mqtt, settings, cache, claimed, memory, pub, task,
                 grants, strays, runs, told>>

(* ensureBullQueues: a process started without Redis connects later.       *)
Connect(p) ==
  /\ "later" \in open[p] /\ redis
  /\ open' = [open EXCEPT ![p] = Lines]
  /\ UNCHANGED <<redis, mqtt, settings, cache, claimed, memory, pub, task, hjob,
                 bjob, faults, counts, told>>

(* A publication cut short is not answered: its producer publishes again.  *)
Crash(p) ==
  /\ Fault("crashes")
  /\ memory' = [memory EXCEPT ![p] = FALSE]
  /\ cache' = [cache EXCEPT ![p] = AllOn]
  /\ open' = [open EXCEPT ![p] = IF redis THEN Lines ELSE {"later"}]
  /\ pub' = [d \in Publishers |-> IF pub[d].at = p /\ pub[d].pc # "returned"
                                  THEN Quiet ELSE pub[d]]
  /\ task' = [d \in Publishers |-> IF task[d].at = p THEN NoTask ELSE task[d]]
  /\ LosesLocks(p, Lines)
  /\ UNCHANGED <<redis, mqtt, settings, claimed, grants, strays, runs, told>>

-----------------------------------------------------------------------------
(* publishEnvelope                                                         *)

Publish(d, p) ==
  /\ pub[d].pc = "idle"
  /\ pub' = [pub EXCEPT ![d] = [Quiet EXCEPT !.pc = "claim", !.at = p]]
  /\ UNCHANGED <<world, cache, claimed, memory, task, hjob, bjob, faults, counts,
                 told>>

Granted(d) ==
  /\ grants' = grants + 1
  /\ pub' = [pub EXCEPT ![d].pc = "infra"]
Duplicate(d) ==
  /\ pub' = [pub EXCEPT ![d].pc = "returned"]
  /\ UNCHANGED grants

(* Mutant: SET without NX.                                                 *)
ClaimAlways(d) ==
  /\ pub[d].pc = "claim" /\ redis
  /\ Granted(d) /\ claimed' = TRUE
  /\ UNCHANGED <<world, cache, memory, task, hjob, bjob, faults, strays,
                 repeats, runs, told>>

(* SET key NX EX.                                                          *)
ClaimInRedis(d) ==
  /\ pub[d].pc = "claim" /\ redis
  /\ IF claimed THEN Duplicate(d) ELSE Granted(d)
  /\ claimed' = TRUE
  /\ UNCHANGED <<world, cache, memory, task, hjob, bjob, faults, strays,
                 repeats, runs, told>>

(* The connection drops after the SET and before its reply; ioredis sends  *)
(* the command again, or gives up and the memory decides.                  *)
ClaimReplyLost(d) ==
  /\ pub[d].pc = "claim" /\ redis
  /\ claimed' = TRUE /\ redis' \in BOOLEAN
  /\ Fault("others")
  /\ UNCHANGED <<mqtt, settings, open, cache, memory, pub, task, hjob, bjob,
                 counts, told>>

(* No client, or an error of SET: the process decides on its own.  Without *)
(* an outage that is a fault of its connection alone.                      *)
ClaimInMemory(d) ==
  /\ pub[d].pc = "claim"
  /\ IF redis THEN Fault("others") ELSE UNCHANGED faults
  /\ IF memory[pub[d].at] THEN Duplicate(d) /\ UNCHANGED strays
     ELSE Granted(d) /\ strays' = strays + 1
  /\ memory' = [memory EXCEPT ![pub[d].at] = TRUE]
  /\ UNCHANGED <<world, cache, claimed, task, hjob, bjob, repeats, runs, told>>

(* readInfraSettings returns the cached settings for ten seconds, and to   *)
(* every caller while a refresh is under way.                              *)
Known(p) == {cache[p], settings}

(* handlersAsync: the handler is scheduled detached, on the queue unless   *)
(* Redis is switched off.                                                  *)
ReadInfra(d) ==
  /\ pub[d].pc = "infra"
  /\ \E s \in Known(pub[d].at) :
       /\ cache' = [cache EXCEPT ![pub[d].at] = s]
       /\ pub' = [pub EXCEPT ![d].pc = "dispatch", ![d].infra = s]
       /\ task' = [task EXCEPT ![d] =
            [pc |-> IF s.redis THEN "enqueue" ELSE "start", at |-> pub[d].at]]
  /\ UNCHANGED <<world, claimed, memory, hjob, bjob, faults, counts, told>>

(* Queue.add with the id of the event as the job's: an existing job wins.  *)
Added(j) == IF j.st = "none" THEN [j EXCEPT !.st = "waiting"] ELSE j

(* The connection of the queues in the process p; while it is retried, add *)
(* neither fails nor returns.                                              *)
Queues(p) == "queue" \in open[p]

(* dispatchEnvelopeToBus                                                   *)
DispatchQueue(d) ==
  /\ pub[d].pc = "dispatch" /\ pub[d].infra.redis
  /\ redis /\ Queues(pub[d].at)
  /\ bjob' = Added(bjob)
  /\ pub' = [pub EXCEPT ![d].pc = "returned"]
  /\ UNCHANGED <<world, cache, claimed, memory, task, hjob, faults, counts, told>>

(* An add rejected, though Redis may have done it: the broker, if it was   *)
(* connected before.                                                       *)
DispatchRefused(d) ==
  /\ pub[d].pc = "dispatch" /\ pub[d].infra.redis /\ redis
  /\ Fault("others")
  /\ bjob' \in {bjob, Added(bjob)}
  /\ \/ pub' = [pub EXCEPT ![d].pc = "returned"]
     \/ pub[d].infra.mq /\ pub' = [pub EXCEPT ![d].pc = "direct"]
  /\ UNCHANGED <<world, cache, claimed, memory, task, hjob, counts, told>>

DispatchNoQueue(d) ==
  /\ pub[d].pc = "dispatch"
  /\ ~pub[d].infra.redis \/ ~Queues(pub[d].at)
  /\ pub' = [pub EXCEPT ![d].pc =
       IF pub[d].infra.mq /\ mqtt THEN "direct" ELSE "returned"]
  /\ UNCHANGED <<world, cache, claimed, memory, task, hjob, bjob, faults, counts,
                 told>>

(* publishEnvelopeToMqtt reads the settings again; a failure is only       *)
(* logged.                                                                 *)
Direct(d) ==
  /\ pub[d].pc = "direct"
  /\ \E s \in Known(pub[d].at) :
       /\ cache' = [cache EXCEPT ![pub[d].at] = s]
       /\ told' = (told \/ (s.mq /\ mqtt))
  /\ pub' = [pub EXCEPT ![d].pc = "returned"]
  /\ UNCHANGED <<world, claimed, memory, task, hjob, bjob, faults, counts>>

-----------------------------------------------------------------------------
(* scheduleInProcessHandler and the queue domain-events-handlers           *)

(* Mutant: the handler is also run here once the job is queued.            *)
ScheduleAndRun(d) ==
  /\ task[d].pc = "enqueue" /\ redis /\ Queues(task[d].at)
  /\ hjob' = Added(hjob)
  /\ task' = [task EXCEPT ![d].pc = "start"]
  /\ UNCHANGED <<world, cache, claimed, memory, pub, bjob, faults, counts, told>>

Schedule(d) ==
  /\ task[d].pc = "enqueue" /\ redis /\ Queues(task[d].at)
  /\ hjob' = Added(hjob)
  /\ task' = [task EXCEPT ![d] = NoTask]
  /\ UNCHANGED <<world, cache, claimed, memory, pub, bjob, faults, counts, told>>

(* An add rejected: the handler runs in this process, and Redis may have   *)
(* done it all the same.                                                   *)
ScheduleRefused(d) ==
  /\ task[d].pc = "enqueue" /\ redis
  /\ Fault("others")
  /\ hjob' \in {hjob, Added(hjob)}
  /\ repeats' = IF hjob' = hjob THEN repeats ELSE repeats + 1
  /\ task' = [task EXCEPT ![d].pc = "start"]
  /\ UNCHANGED <<world, cache, claimed, memory, pub, bjob, grants, strays, runs,
                 told>>

(* Mutant: a queue that cannot be reached is only logged.                  *)
ScheduleDropped(d) ==
  /\ task[d].pc = "enqueue" /\ ~Queues(task[d].at)
  /\ task' = [task EXCEPT ![d] = NoTask]
  /\ UNCHANGED <<world, cache, claimed, memory, pub, hjob, bjob, faults, counts,
                 told>>

ScheduleNoQueue(d) ==
  /\ task[d].pc = "enqueue" /\ ~Queues(task[d].at)
  /\ task' = [task EXCEPT ![d].pc = "start"]
  /\ UNCHANGED <<world, cache, claimed, memory, pub, hjob, bjob, faults, counts,
                 told>>

RunHere(d) ==
  /\ task[d].pc = "start"
  /\ runs' = runs + 1
  /\ task' = [task EXCEPT ![d].pc = "run"]
  /\ UNCHANGED <<world, cache, claimed, memory, pub, hjob, bjob, faults, grants,
                 strays, repeats, told>>

(* runInProcessHandler swallows the error of the handler.                  *)
RunHereEnds(d) ==
  /\ task[d].pc = "run"
  /\ task' = [task EXCEPT ![d] = NoTask]
  /\ UNCHANGED <<world, cache, claimed, memory, pub, hjob, bjob, faults, counts,
                 told>>

(* The worker w of the process p has its connection.                       *)
Works(p, w) == redis /\ w \in open[p]

HandlerTake(p) ==
  /\ hjob.st = "waiting" /\ Works(p, "handlers")
  /\ hjob' = [hjob EXCEPT !.st = "active", !.at = p]
  /\ runs' = runs + 1
  /\ UNCHANGED <<world, cache, claimed, memory, pub, task, bjob, faults, grants,
                 strays, repeats, told>>

(* A handler that fails completes its job like one that succeeds.          *)
HandlerEnds(p) ==
  /\ hjob.st = "active" /\ hjob.at = p /\ Works(p, "handlers")
  /\ hjob' = [hjob EXCEPT !.st = "done", !.at = None]
  /\ UNCHANGED <<world, cache, claimed, memory, pub, task, bjob, faults, counts,
                 told>>

-----------------------------------------------------------------------------
(* The worker of the queue domain-events                                   *)

BusTake(p) ==
  /\ bjob.st = "waiting" /\ Works(p, "bus")
  /\ bjob' = [bjob EXCEPT !.st = "active", !.at = p]
  /\ UNCHANGED <<world, cache, claimed, memory, pub, task, hjob, faults, counts,
                 told>>

(* Mutant: a broker that is not connected is not an error.                 *)
BusEndsQuietly(p) ==
  /\ bjob.st = "active" /\ bjob.at = p /\ Works(p, "bus")
  /\ \E s \in Known(p) :
       /\ cache' = [cache EXCEPT ![p] = s]
       /\ told' = (told \/ (s.mq /\ mqtt))
       /\ bjob' = [bjob EXCEPT !.st = "done", !.at = None]
  /\ UNCHANGED <<world, claimed, memory, pub, task, hjob, faults, counts>>

(* Mutant: a job is tried again for ever.                                  *)
BusEndsNever(p) ==
  /\ bjob.st = "active" /\ bjob.at = p /\ Works(p, "bus")
  /\ \E s \in Known(p) :
       /\ cache' = [cache EXCEPT ![p] = s]
       /\ told' = (told \/ (s.mq /\ mqtt))
       /\ bjob' = IF ~s.mq \/ mqtt THEN [bjob EXCEPT !.st = "done", !.at = None]
                  ELSE [bjob EXCEPT !.at = None, !.tries = @ + 1,
                                    !.st = "waiting"]
  /\ UNCHANGED <<world, claimed, memory, pub, task, hjob, faults, counts>>

(* Switched off: done without a message.  Not connected: an error, tried   *)
(* again as many times as the job has attempts.                            *)
BusEnds(p) ==
  /\ bjob.st = "active" /\ bjob.at = p /\ Works(p, "bus")
  /\ \E s \in Known(p) :
       /\ cache' = [cache EXCEPT ![p] = s]
       /\ told' = (told \/ (s.mq /\ mqtt))
       /\ bjob' = IF ~s.mq \/ mqtt THEN [bjob EXCEPT !.st = "done", !.at = None]
                  ELSE [bjob EXCEPT !.at = None, !.tries = @ + 1,
                          !.st = IF bjob.tries + 1 < Attempts THEN "waiting"
                                 ELSE "failed"]
  /\ UNCHANGED <<world, claimed, memory, pub, task, hjob, faults, counts>>

-----------------------------------------------------------------------------
Publishing(d) ==
  \/ ClaimInRedis(d) \/ ClaimInMemory(d) \/ ReadInfra(d) \/ DispatchQueue(d)
  \/ DispatchNoQueue(d) \/ Direct(d)
Handling(d) ==
  Schedule(d) \/ ScheduleNoQueue(d) \/ RunHere(d) \/ RunHereEnds(d)
Working(p) ==
  HandlerTake(p) \/ HandlerEnds(p) \/ BusTake(p) \/ BusEnds(p)

Next ==
  \/ RedisDown \/ RedisUp \/ MqttDown \/ MqttUp \/ Toggle \/ Expire \/ Removal
  \/ \E p \in Procs :
       \/ Crash(p) \/ Connect(p) \/ Working(p)
       \/ \E w \in {"handlers", "bus"} : Overrun(p, w)
       \/ \E l \in Lines : GiveUp(p, l)
  \/ \E d \in Publishers :
       \/ Publishing(d) \/ Handling(d)
       \/ ClaimReplyLost(d) \/ DispatchRefused(d) \/ ScheduleRefused(d)
       \/ \E p \in Procs : Publish(d, p)

Spec == Init /\ [][Next]_vars

(* A process goes on with what it began, and a worker that has its         *)
(* connection takes what waits.  No fairness for Redis, nor for a          *)
(* connection given up.                                                    *)
FairSpec ==
  /\ Spec
  /\ \A d \in Publishers : WF_vars(Publishing(d)) /\ WF_vars(Handling(d))
  /\ \A p \in Procs : WF_vars(Working(p))

-----------------------------------------------------------------------------
(* Properties                                                              *)

(* However often and wherever an event is published, it is handled once;   *)
(* beyond that only once per claim a process decided without Redis, per    *)
(* expiry of the key and per execution handed to a second actor.           *)
HandledOnce == runs <= 1 + strays + faults["expiries"] + repeats

(* Each execution of the handler stems from a claim of its own, or from a  *)
(* job given back or queued though its add was rejected.                   *)
RunsAreClaimed == runs <= grants + repeats

(* Without a restart, an event claimed is handled: a queue that refuses,   *)
(* that is switched off or whose connection is given up falls back on the  *)
(* process, an outage only delays it, provided that one worker keeps its   *)
(* connection.                                                             *)
Served(w) == <>[]redis /\ \E p \in Procs : <>[](w \in open[p])
ClaimedIsHandled ==
  ([](faults["crashes"] = 0) /\ Served("handlers"))
    => ((grants > 0) ~> (runs > 0))

(* An event whose job reached the bus queue reaches a broker that is not   *)
(* switched off, unless it is unreachable at every attempt, provided that  *)
(* one worker keeps its connection.                                        *)
BusDelivers ==
  ([](settings.mq /\ \A p \in Procs : cache[p].mq) /\ Served("bus"))
    => ((bjob.st # "none") ~> (told \/ bjob.st = "failed"))
=============================================================================
