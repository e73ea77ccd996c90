--------------------------- MODULE QueueOperations ---------------------------
(***************************************************************************)
(* What an application asks of QueueService (queue.service.ts), FlowService*)
(* (flow.service.ts), WorkerRegistry (worker-registry.service.ts) and      *)
(* QueueEventsRegistry (queue-events-registry.service.ts) once the module  *)
(* is up.                                                                  *)
(*                                                                         *)
(* A call runs without interruption up to its one await: it is validated,  *)
(* the queue is looked up or constructed, and a command goes out on the    *)
(* Queue-role connection.  Redis executes commands in the order sent and   *)
(* may refuse one.  When the connection is lost, the commands without an   *)
(* answer, executed or not, are rejected or, as the client is configured,  *)
(* sent again; and every emitter emits an error.                           *)
(***************************************************************************)
EXTENDS Integers, Sequences, FiniteSets, Emitters

CONSTANTS Queues, Callers,
          Jobs,                \* what callers add: payload and options
          WithId,              \* the jobs whose options have a custom jobId
          Batches,             \* the lists of jobs given to enqueueBulk
          MaxBulk,             \* MAX_BULK_SIZE
          Repeats,             \* the schedules given to upsertJobScheduler
          WorkerOptions,       \* what a worker is registered with
          DefaultConcurrency, MaxConcurrency,
          Files,               \* the processor files of sandboxed workers
          Prefixes,            \* the values of the module's prefix option
          DefaultPrefix,       \* the library's, and BullMQ's, "bull"
          NaN, Undefined, None,
          MaxCalls, MaxFaults  \* bounds: calls made, faults of Redis

ASSUME OperationsAssumption ==
    /\ WithId \subseteq Jobs /\ Batches \subseteq Seq(Jobs)
    /\ MaxBulk \in Nat \ {0} /\ MaxConcurrency \in Nat
    /\ None \notin Callers \cup Queues
    /\ \A o \in WorkerOptions : o.concurrency \in Int \cup {NaN, Undefined}
                               /\ o.autorun \in BOOLEAN \cup {Undefined}
    /\ DefaultConcurrency \in 1 .. MaxConcurrency
    /\ \A f \in Files : f.url /\ f.protocol = "file:" => f.absolute

VARIABLES options,    \* prefix, flows, and queueOptions.settings.repeatStrategy
          cached,     \* #queues: queue -> key prefix of the cached Queue, or None
          observed,   \* #events: the queues with a cached QueueEvents
          worker,     \* queue -> its BullMQ Worker, or None
          fallback,   \* the emitters with a fallback error listener
          alive,      \* no error escaped to the process
          call,       \* caller -> its last call
          wire,       \* commands sent and not answered: whose, and executed?
          stored,     \* Redis: queue -> job -> how many copies wait
          kept,       \* Redis: queue -> its jobs with a jobId that a worker took and
                      \* that exist: they are active, or kept completed or failed
          scheduler,  \* Redis: queue -> the schedule of its job scheduler
          paused,     \* Redis: the paused queues
          executed,   \* history: the callers whose last call Redis executed
          calls, faults

redis == <<stored, kept, scheduler, paused, executed>>
emitters == <<cached, observed, worker, fallback>>
vars == <<options, emitters, alive, call, wire, redis, calls, faults>>

Options == [prefix : Prefixes, flows : BOOLEAN, repeatStrategy : BOOLEAN]
resolved == IF options.prefix = Undefined THEN DefaultPrefix ELSE options.prefix

(* The FlowProducer exists if and only if flows are enabled.                *)
producer == IF options.flows THEN resolved ELSE None

Emitting == {<<"queue", q>> : q \in {p \in Queues : cached[p] # None}}
            \cup {<<"worker", q>> : q \in {p \in Queues : worker[p] # None}}
            \cup {<<"events", q>> : q \in observed}
            \cup {<<"flow", n>> : n \in IF options.flows THEN {"*"} ELSE {}}

NoCall == [ask |-> [op |-> "none"], state |-> "none"]

Init ==
    /\ options \in Options
    /\ cached = [q \in Queues |-> None]
    /\ observed = {}
    /\ worker = [q \in Queues |-> None]
    /\ fallback = IF options.flows THEN {<<"flow", "*">>} ELSE {}
    /\ alive = TRUE
    /\ call = [c \in Callers |-> NoCall]
    /\ wire = << >>
    /\ stored = [q \in Queues |-> [j \in Jobs |-> 0]]
    /\ kept = [q \in Queues |-> {}]
    /\ scheduler = [q \in Queues |-> None]
    /\ paused = {}
    /\ executed = {}
    /\ calls = 0 /\ faults = 0

-----------------------------------------------------------------------------
(* A call.  Its record holds what was asked, and where it stands: "sent",   *)
(* "ok", the code of a QueueException, or "error" for Redis's own.          *)

Free(c) == alive /\ calls < MaxCalls /\ call[c].state # "sent"

Made(c, what, state) ==
    /\ call' = [call EXCEPT ![c] = [ask |-> what, state |-> state]]
    /\ executed' = executed \ {c}
    /\ calls' = calls + 1
    /\ UNCHANGED <<options, observed, worker, alive, stored, kept, scheduler, paused, faults>>

Send(c, what) == Made(c, what, "sent") /\ wire' = Append(wire, [caller |-> c, done |-> "no"])

Refuse(c, what, code) == Made(c, what, code) /\ UNCHANGED wire

getOrCreateQueue(q) ==
    /\ cached' = [cached EXCEPT ![q] = IF @ = None THEN resolved ELSE @]
    /\ fallback' = fallback \cup {<<"queue", q>>}

(* Each job is mapped to its name, data and, when it has them, its options. *)
AddOf(op, q, js) == [op |-> op, queue |-> q, jobs |-> js, opts |-> TRUE]

enqueue(c, q, j) ==
    /\ Free(c)
    /\ getOrCreateQueue(q)
    /\ Send(c, AddOf("add", q, <<j>>))

(* Mutant: the batch is mapped to BullMQ without the options of its jobs.   *)
enqueueBulkNamesOnly(c, q, js) ==
    /\ Free(c)
    /\ IF Len(js) > MaxBulk
       THEN Refuse(c, AddOf("addBulk", q, js), "BULK_ENQUEUE_FAILED") /\ UNCHANGED <<cached, fallback>>
       ELSE getOrCreateQueue(q) /\ Send(c, [AddOf("addBulk", q, js) EXCEPT !.opts = FALSE])

(* Mutant: the size is checked after the queue was looked up.               *)
enqueueBulkLate(c, q, js) ==
    /\ Free(c)
    /\ getOrCreateQueue(q)
    /\ IF Len(js) > MaxBulk
       THEN Refuse(c, AddOf("addBulk", q, js), "BULK_ENQUEUE_FAILED")
       ELSE Send(c, AddOf("addBulk", q, js))

enqueueBulk(c, q, js) ==
    /\ Free(c)
    /\ IF Len(js) > MaxBulk
       THEN Refuse(c, AddOf("addBulk", q, js), "BULK_ENQUEUE_FAILED") /\ UNCHANGED <<cached, fallback>>
       ELSE getOrCreateQueue(q) /\ Send(c, AddOf("addBulk", q, js))

(* Mutant: without a producer nothing is done, and nothing is thrown.       *)
addFlowQuietly(c, q, j) ==
    /\ Free(c)
    /\ IF producer = None
       THEN Refuse(c, AddOf("addFlow", q, <<j>>), "ok")
       ELSE Send(c, AddOf("addFlow", q, <<j>>))
    /\ UNCHANGED <<cached, fallback>>

(* FlowService.add and addBulk: a tree goes out through the producer, which *)
(* caches no Queue.                                                         *)
addFlow(c, q, j) ==
    /\ Free(c)
    /\ IF producer = None
       THEN Refuse(c, AddOf("addFlow", q, <<j>>), "FLOW_DISABLED")
       ELSE Send(c, AddOf("addFlow", q, <<j>>))
    /\ UNCHANGED <<cached, fallback>>

-----------------------------------------------------------------------------
(* Job schedulers.  A schedule is an object or not; a part of it is absent, *)
(* or of a kind the checks and BullMQ tell apart.  What else there is of it *)
(* (limit, offset, startDate) is passed on unexamined.                      *)

RepeatsOf == [object : BOOLEAN,
              pattern : {"absent", "blank", "unparseable", "cron"},
              every : {"absent", "positive", "zero", "fraction", "NaN"},
              endDate : {"absent", "future", "past", "unparseable"},
              tz : {"absent", "known", "unknown"},
              other : {"absent", "given"}]

ASSUME RepeatsAssumption == Repeats \subseteq RepeatsOf

validateJobSchedulerOptions(r) ==
    /\ r.object
    /\ (r.pattern = "absent") # (r.every = "absent")
    /\ r.pattern # "blank"
    /\ r.every \in {"absent", "positive"}
    /\ r.endDate \in {"absent", "future"}

(* BullMQ's parser reads the pattern in its time zone.                      *)
CronAtFault(r) == r.pattern = "unparseable" \/ r.tz = "unknown"

assertValidCron(r) == options.repeatStrategy \/ ~CronAtFault(r)

UpsertOf(q, r) == [op |-> "upsert", queue |-> q, repeat |-> r]

(* Mutant: only the structure is checked, and Redis is asked.               *)
upsertJobSchedulerNoCron(c, q, r) ==
    /\ Free(c)
    /\ IF ~validateJobSchedulerOptions(r)
       THEN Refuse(c, UpsertOf(q, r), "INVALID_REPEAT_OPTIONS") /\ UNCHANGED <<cached, fallback>>
       ELSE getOrCreateQueue(q) /\ Send(c, UpsertOf(q, r))

(* The queue is looked up before a cron pattern is checked; an interval is  *)
(* not.                                                                     *)
upsertJobScheduler(c, q, r) ==
    /\ Free(c)
    /\ IF ~validateJobSchedulerOptions(r)
       THEN Refuse(c, UpsertOf(q, r), "INVALID_REPEAT_OPTIONS") /\ UNCHANGED <<cached, fallback>>
       ELSE /\ getOrCreateQueue(q)
            /\ IF r.pattern = "absent" \/ assertValidCron(r) THEN Send(c, UpsertOf(q, r))
               ELSE Refuse(c, UpsertOf(q, r), "INVALID_REPEAT_OPTIONS")

(* Mutant: the promise of the command is not awaited.                       *)
passOnNotAwaited(c, q, op) ==
    /\ Free(c)
    /\ getOrCreateQueue(q)
    /\ Made(c, [op |-> op, queue |-> q], "ok")
    /\ wire' = Append(wire, [caller |-> c, done |-> "no"])

(* removeJobScheduler, pauseQueue, resumeQueue and cleanQueue pass one      *)
(* command on.                                                              *)
passOn(c, q, op) ==
    /\ Free(c)
    /\ getOrCreateQueue(q)
    /\ Send(c, [op |-> op, queue |-> q])

-----------------------------------------------------------------------------
(* Workers, registered in process or with a processor file.                 *)

(* A comparison with NaN is false.                                          *)
Below(n, bound) == n # NaN /\ n < bound

validateOptions(o) ==
    /\ o.concurrency # Undefined =>
          ~Below(o.concurrency, 1) /\ ~(o.concurrency # NaN /\ o.concurrency > MaxConcurrency)
    /\ o.limiter # Undefined => ~Below(o.limiter.max, 1) /\ ~Below(o.limiter.duration, 1)

validateProcessorFile(f) ==
    /\ IF f.url THEN f.protocol = "file:" ELSE f.absolute
    /\ f.extension \in {".js", ".cjs", ".mjs"}

(* Mutant: the key prefix is left to BullMQ.                                *)
buildBullOptionsBare(o) ==
    [concurrency |-> IF o.concurrency = Undefined THEN DefaultConcurrency ELSE o.concurrency,
     autorun |-> o.autorun # FALSE,
     prefix |-> DefaultPrefix,
     limiter |-> o.limiter]

buildBullOptions(o) ==
    [concurrency |-> IF o.concurrency = Undefined THEN DefaultConcurrency ELSE o.concurrency,
     autorun |-> o.autorun # FALSE,
     prefix |-> resolved,
     limiter |-> o.limiter]

(* The constructor of a BullMQ Worker refuses what is not a finite number.  *)
ConstructorThrows(o) == o.concurrency = NaN

(* The worker starts as it is constructed, unless autorun is off.           *)
Registered(q, o, file) ==
    /\ alive
    /\ worker[q] = None
    /\ validateOptions(o)
    /\ ~ConstructorThrows(buildBullOptions(o))
    /\ worker' = [worker EXCEPT ![q] = [asked |-> o, file |-> file,
                                       opts |-> buildBullOptions(o),
                                       running |-> buildBullOptions(o).autorun]]
    /\ fallback' = fallback \cup {<<"worker", q>>}
    /\ UNCHANGED <<options, cached, observed, alive, call, wire, redis, calls, faults>>

register(q, o) == Registered(q, o, None)
registerSandboxed(q, f, o) == validateProcessorFile(f) /\ Registered(q, o, f)

(* The application starts a worker it registered with autorun off.          *)
RunWorker(q) ==
    /\ alive
    /\ worker[q] # None /\ ~worker[q].running
    /\ worker' = [worker EXCEPT ![q].running = TRUE]
    /\ UNCHANGED <<options, cached, observed, fallback, alive, call, wire, redis, calls, faults>>

(* QueueEventsRegistry.                                                     *)
getOrCreate(q) ==
    /\ alive /\ q \notin observed
    /\ observed' = observed \cup {q}
    /\ fallback' = fallback \cup {<<"events", q>>}
    /\ UNCHANGED <<options, cached, worker, alive, call, wire, redis, calls, faults>>

-----------------------------------------------------------------------------
(* Redis and the connection.                                                *)

Adding == {"add", "addBulk", "addFlow"}
Times(j, js) == Cardinality({i \in DOMAIN js : js[i] = j})

(* A job whose custom jobId exists is not added again: it waits, or a       *)
(* worker took it and it is active or kept.                                 *)
Copies(j, cmd, before, taken) ==
    IF ~(cmd.opts /\ j \in WithId) THEN before + Times(j, cmd.jobs)
    ELSE IF taken \/ Times(j, cmd.jobs) = 0 \/ before > 0 THEN before
    ELSE 1

(* Redis runs a command.  cleanQueue removes jobs of one status that are    *)
(* old enough, up to a limit.                                               *)
Effect(cmd) ==
    /\ \/ /\ cmd.op \in Adding
          /\ stored' = [stored EXCEPT ![cmd.queue] =
                           [j \in Jobs |-> Copies(j, cmd, @[j], j \in kept[cmd.queue])]]
          /\ UNCHANGED kept
       \/ /\ cmd.op = "clean"
          /\ \E left \in [Jobs -> UNION {0 .. stored[cmd.queue][j] : j \in Jobs}],
                still \in SUBSET kept[cmd.queue] :
                /\ \A j \in Jobs : left[j] <= stored[cmd.queue][j]
                /\ stored' = [stored EXCEPT ![cmd.queue] = left]
                /\ kept' = [kept EXCEPT ![cmd.queue] = still]
       \/ cmd.op \notin Adding \cup {"clean"} /\ UNCHANGED <<stored, kept>>
    /\ scheduler' = CASE cmd.op = "upsert" -> [scheduler EXCEPT ![cmd.queue] = cmd.repeat]
                      [] cmd.op = "remove" -> [scheduler EXCEPT ![cmd.queue] = None]
                      [] OTHER -> scheduler
    /\ paused' = CASE cmd.op = "pause"  -> paused \cup {cmd.queue}
                   [] cmd.op = "resume" -> paused \ {cmd.queue}
                   [] OTHER -> paused

NextCommand(i) == i \in DOMAIN wire /\ \A k \in DOMAIN wire : wire[k].done = "no" <=> k >= i

RedisExecutes ==
    \E i \in DOMAIN wire :
        /\ NextCommand(i)
        /\ Effect(call[wire[i].caller].ask)
        /\ executed' = executed \cup {wire[i].caller}
        /\ wire' = [wire EXCEPT ![i].done = "yes"]
        /\ UNCHANGED <<options, emitters, alive, call, calls, faults>>

(* An error reply: out of memory, read only, a script error.                *)
RedisRefuses ==
    \E i \in DOMAIN wire :
        /\ NextCommand(i) /\ faults < MaxFaults
        /\ wire' = [wire EXCEPT ![i].done = "refused"]
        /\ faults' = faults + 1
        /\ UNCHANGED <<options, emitters, alive, call, redis, calls>>

(* How a failed command looks to the caller.                                *)
ErrorOf(ask) == IF ask.op = "addBulk" THEN "BULK_ENQUEUE_FAILED" ELSE "error"

Settled(c, state) == [call[c] EXCEPT !.state = state]

Answer ==
    /\ wire # << >> /\ Head(wire).done # "no"
    /\ LET c == Head(wire).caller
       IN  call' = [call EXCEPT ![c] =
                       Settled(c, IF Head(wire).done = "yes" THEN "ok" ELSE ErrorOf(call[c].ask))]
    /\ wire' = Tail(wire)
    /\ UNCHANGED <<options, emitters, alive, redis, calls, faults>>

(* The connection is lost and comes back.  Each emitter emits an error.     *)
ConnectionLost ==
    /\ alive /\ faults < MaxFaults
    /\ faults' = faults + 1
    /\ alive' \in {\A e \in Emitting : EmitError(e \in fallback, vh[1], vh[2]) = "returns" :
                      vh \in Values \X Handlers}
    /\ \/ /\ call' = [c \in Callers |-> IF \E i \in DOMAIN wire : wire[i].caller = c
                                        THEN Settled(c, ErrorOf(call[c].ask)) ELSE call[c]]
          /\ wire' = << >>
       \/ /\ wire' = [i \in DOMAIN wire |-> [wire[i] EXCEPT !.done = "no"]]
          /\ UNCHANGED call
    /\ UNCHANGED <<options, emitters, redis, calls>>

(* A running worker takes a job from under its prefix.  It and the          *)
(* QueueEvents of the queue tell their event handlers, which may do         *)
(* anything.                                                                *)
WorkerTakes(q, j) ==
    /\ alive
    /\ worker[q] # None /\ worker[q].running /\ worker[q].opts.prefix = resolved
    /\ q \notin paused /\ stored[q][j] > 0
    /\ stored' = [stored EXCEPT ![q][j] = @ - 1]
    /\ kept' = [kept EXCEPT ![q] = @ \cup ({j} \cap WithId)]
    /\ alive' \in {\A e \in Emitting \cap {<<"worker", q>>, <<"events", q>>} :
                       EmitEvent(e \in fallback, h) = "returns" : h \in Handlers}
    /\ UNCHANGED <<options, emitters, call, wire, scheduler, paused, executed, calls, faults>>

(* A finished job is removed as its retention says; its jobId is free.      *)
JobRemoved(q, j) ==
    /\ j \in kept[q]
    /\ kept' = [kept EXCEPT ![q] = @ \ {j}]
    /\ UNCHANGED <<options, emitters, alive, call, wire, stored, scheduler, paused, executed,
                   calls, faults>>

-----------------------------------------------------------------------------
Next ==
    \/ \E c \in Callers, q \in Queues :
          \/ \E j \in Jobs : enqueue(c, q, j) \/ addFlow(c, q, j)
          \/ \E js \in Batches : enqueueBulk(c, q, js)
          \/ \E r \in Repeats : upsertJobScheduler(c, q, r)
          \/ \E op \in {"remove", "pause", "resume", "clean"} : passOn(c, q, op)
    \/ \E q \in Queues, o \in WorkerOptions :
          register(q, o) \/ \E f \in Files : registerSandboxed(q, f, o)
    \/ \E q \in Queues : RunWorker(q) \/ getOrCreate(q)
    \/ RedisExecutes \/ RedisRefuses \/ Answer \/ ConnectionLost
    \/ \E q \in Queues, j \in Jobs : WorkerTakes(q, j) \/ JobRemoved(q, j)

Spec == Init /\ [][Next]_vars

-----------------------------------------------------------------------------
States == {"none", "sent", "ok", "error", "BULK_ENQUEUE_FAILED", "FLOW_DISABLED",
           "INVALID_REPEAT_OPTIONS"}

OpsTypeOK ==
    /\ options \in Options
    /\ cached \in [Queues -> (Prefixes \ {Undefined}) \cup {None, DefaultPrefix}]
    /\ observed \subseteq Queues
    /\ alive \in BOOLEAN
    /\ \A c \in Callers : call[c].state \in States
    /\ wire \in Seq([caller : Callers, done : {"no", "yes", "refused"}])
    /\ stored \in [Queues -> [Jobs -> Nat]]
    /\ kept \in [Queues -> SUBSET WithId]
    /\ scheduler \in [Queues -> RepeatsOf \cup {None}]
    /\ paused \subseteq Queues

(* A call that resolved took effect: Redis has executed its command, even   *)
(* if the connection was lost and the command sent again in between.        *)
ResolvedMeansDone == \A c \in Callers : call[c].state = "ok" => c \in executed

(* However often a caller retries a rejected call, or the client a command  *)
(* it got no answer to, a job with a custom jobId exists once: it does not  *)
(* wait twice, nor beside the copy a worker took, while that is kept.       *)
RetryAddsOnce ==
    \A q \in Queues, j \in WithId :
        stored[q][j] <= 1 /\ (j \in kept[q] => stored[q][j] = 0)

(* What BullMQ can run: a parseable pattern in a time zone there is (any,   *)
(* with a strategy of the consumer's own) or a positive interval, that has  *)
(* not ended.                                                               *)
Runnable(r) ==
    /\ r.object /\ r.endDate \in {"absent", "future"}
    /\ \/ /\ r.every = "absent" /\ r.pattern \in {"cron", "unparseable"}
          /\ options.repeatStrategy \/ (r.pattern = "cron" /\ r.tz # "unknown")
       \/ r.pattern = "absent" /\ r.every = "positive"

(* A caller is told INVALID_REPEAT_OPTIONS if and only if its schedule is   *)
(* to blame: a fault of Redis is never reported as a bad schedule, and no   *)
(* bad schedule reaches Redis.                                              *)
BlamesTheRightParty ==
    /\ \A c \in Callers : call[c].ask.op = "upsert" =>
          (call[c].state = "INVALID_REPEAT_OPTIONS" <=> ~Runnable(call[c].ask.repeat))
    /\ \A q \in Queues : scheduler[q] # None => Runnable(scheduler[q])

(* A refused call leaves no Queue behind that getAll() and the drain would  *)
(* visit, unless what was refused is its cron pattern or the time zone,     *)
(* which are checked after the queue was looked up.                         *)
RefusedCachesNothing ==
    [][\A q \in Queues : cached[q] = None /\ cached'[q] # None =>
          \E c \in Callers : /\ call'[c] # call[c] /\ call'[c].ask.queue = q
                             /\ \/ call'[c].state = "sent"
                                \/ call'[c].ask.op = "upsert" /\ CronAtFault(call'[c].ask.repeat)
      ]_vars

(* A registered worker takes the jobs that are added: queues, flow producer *)
(* and worker, whichever came first and however they were configured, use   *)
(* the same keys, and it runs unless the application asked for autorun off. *)
(* It runs a number of jobs between one and the limit, and a sandboxed one  *)
(* has a file Node executes.                                                *)
WorkersServeTheProducers ==
    \A q \in Queues : worker[q] # None =>
        LET w == worker[q]
        IN  /\ cached[q] \in {None, w.opts.prefix} /\ producer \in {None, w.opts.prefix}
            /\ w.running \/ w.asked.autorun = FALSE
            /\ w.opts.concurrency \in 1 .. MaxConcurrency
            /\ w.file # None => w.file.absolute /\ w.file.extension \in {".js", ".cjs", ".mjs"}

(* No lost connection and no failing event handler, whatever it throws,     *)
(* ends the process.                                                        *)
ProcessSurvives == alive

(* A call as its caller sees it, and whether Redis has executed it: it is   *)
(* refused before anything was sent, or fails because of Redis.             *)
RejectedByRedis(k) ==
    \/ k.state = "error"
    \/ k.state = "BULK_ENQUEUE_FAILED" /\ Len(k.ask.jobs) <= MaxBulk

StatusOf(k, done) ==
    CASE k.state = "none"   -> "idle"
      [] k.state = "sent"   -> IF done THEN "applied" ELSE "open"
      [] k.state = "ok"     -> "resolved"
      [] RejectedByRedis(k) -> "failed"
      [] OTHER              -> "refused"

callStatus == [c \in Callers |-> StatusOf(call[c], c \in executed)]
lastAsks == [c \in Callers |-> call[c].ask]

Contract == INSTANCE CallContract WITH
    asked <- lastAsks, status <- callStatus, waiting <- stored, schedule <- scheduler

(* Whatever is lost, refused, sent again or taken in between, the services  *)
(* keep the contract: each call is refused without effect, or takes effect  *)
(* as a whole before it resolves, or fails; and nothing else changes what   *)
(* Redis stores.                                                            *)
KeepsCallContract == Contract!Spec
=============================================================================
