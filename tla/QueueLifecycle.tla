--------------------------- MODULE QueueLifecycle ---------------------------
(***************************************************************************)
(* The shutdown sequence of src/server/lifecycle/                          *)
(* queue-lifecycle.service.ts together with all it acts on: the worker     *)
(* registry, the queue-events registry, the producer side and the jobs.    *)
(*                                                                         *)
(* `phase' is where the sequence stands; every `await' of the source is a  *)
(* point where requests, handlers, timers and other instances take steps.  *)
(*    "up"          before the application context closes                  *)
(*    "workers"     onModuleDestroy: closeWorkers                          *)
(*    "events"      closeQueueEvents                                       *)
(*    "connections" closeDuplicatedConnections                             *)
(*    "destroyed"   onModuleDestroy has returned, the HTTP server still up *)
(*    "drain"       onApplicationShutdown: drainQueuesIfRequested          *)
(*    "flow"        closeFlowProducer                                      *)
(*    "queues"      closeQueues                                            *)
(*    "teardown"    teardownConnection                                     *)
(*    "done"        the sequence is over                                   *)
(*    "dead"        the process was killed before                          *)
(***************************************************************************)
EXTENDS WorkerRegistry, QueueEventsRegistry, ProducerSide, JobBroker

CONSTANTS DrainOnShutdown,    \* options.shutdown.drainOnShutdown
          LateRegistration    \* do requests register while the context closes?

ASSUME LifecycleAssumption ==
    /\ DrainOnShutdown \in BOOLEAN
    /\ LateRegistration \in BOOLEAN
    /\ Queues \cap Workers = {}

VARIABLES phase,
          todo,      \* what the loop of the phase has left, or what a loop over
                      \* the queue cache has visited
          current,   \* the worker whose close() is raced with the timer
          forced,    \* the workers counted in forcedWorkers
          undrained  \* queues whose drain() failed and was reported

shutdownVars == <<phase, todo, current, forced, undrained>>
vars == <<registryVars, eventsVars, producerVars, jobVars, shutdownVars>>

Phases == {"up", "workers", "events", "connections", "destroyed", "drain",
           "flow", "queues", "teardown", "done", "dead"}

(* NestJS stops the HTTP server between the two hooks.                      *)
ServerUp == phase \in {"up", "workers", "events", "connections", "destroyed"}

TypeOK ==
    /\ RegistryTypeOK
    /\ EventsTypeOK
    /\ ProducerTypeOK
    /\ JobTypeOK
    /\ phase \in Phases
    /\ todo \subseteq Workers \cup Queues
    /\ current \in Workers \cup {None}
    /\ forced \subseteq Workers
    /\ undrained \subseteq Queues

Init ==
    /\ RegistryInit
    /\ EventsInit
    /\ ProducerInit
    /\ JobInit
    /\ phase = "up"
    /\ todo = {}
    /\ current = None
    /\ forced = {}
    /\ undrained = {}

-----------------------------------------------------------------------------
(* The next phase begins, with `work' for its loop.                         *)
Enter(next, work) ==
    /\ phase' = next
    /\ todo' = work
    /\ UNCHANGED <<current, forced, undrained>>

OnlyShutdown == UNCHANGED <<registryVars, eventsVars, producerVars, jobVars>>

(* Deliberately wrong variants of the steps below, each the effect of a     *)
(* plausible mistake.  No specification uses them; the model checker runs   *)
(* one in place of the right step to see that a property notices.           *)
BeginDestroyConnectionsFirst ==
    phase = "up" /\ Enter("connections", getConnections) /\ OnlyShutdown

WorkerForcedOnlyOnError ==   \* the timer is never armed
    /\ phase = "workers" /\ current # None
    /\ worker[current] = "stuck"
    /\ forced' = forced \cup {current}
    /\ current' = None
    /\ UNCHANGED <<phase, todo, undrained>>
    /\ OnlyShutdown

WorkersDoneAfterFirst ==
    phase = "workers" /\ current = None /\ Enter("events", {}) /\ OnlyShutdown

EventsDoneWorkersOnly ==
    /\ phase = "events"
    /\ \A q \in Queues : events[q] # "open"
    /\ Enter("connections", getConnections)
    /\ OnlyShutdown

EventsDoneNotForced ==       \* connections of forced workers are skipped
    /\ phase = "events"
    /\ \A q \in Queues : events[q] # "open"
    /\ Enter("connections", (getConnections \ forced) \cup ObservedQueues)
    /\ OnlyShutdown

ConnectionsDoneClosesQueues ==
    /\ phase = "connections" /\ todo = {}
    /\ Enter("destroyed", {})
    /\ queue' = [q \in Queues |-> IF queue[q] = "open" THEN "closed" ELSE queue[q]]
    /\ UNCHANGED <<registryVars, eventsVars, flow, client, jobVars>>

BeginShutdownTeardownFirst ==
    phase = "destroyed" /\ Enter("teardown", {}) /\ OnlyShutdown

BeginShutdownAlwaysDrains ==
    phase = "destroyed" /\ Enter("drain", {}) /\ OnlyShutdown

BeginShutdownDrainsCopy ==   \* the drain walks a copy of the cache
    /\ phase = "destroyed"
    /\ IF DrainOnShutdown THEN Enter("drain", Queues \ CachedQueues) ELSE Enter("flow", {})
    /\ OnlyShutdown

CloseFlowProducerThenCopy == \* closeAll() walks a copy of the cache
    /\ phase = "flow"
    /\ CloseFlow
    /\ Enter("queues", Queues \ CachedQueues)
    /\ UNCHANGED <<registryVars, eventsVars, jobVars>>

-----------------------------------------------------------------------------
(* onModuleDestroy, first step: getAll() copies the map and closeWorkers    *)
(* walks the copy, one worker after the other.                              *)
BeginDestroy ==
    phase = "up" /\ Enter("workers", getAll) /\ OnlyShutdown

(* closeWorkerWithTimeout: ask for the close and arm the timer.             *)
CloseWorker(w) ==
    /\ phase = "workers" /\ current = None
    /\ w \in todo
    /\ AskedToClose(w)
    /\ current' = w
    /\ todo' = todo \ {w}
    /\ UNCHANGED <<entries, name, conn, unreg, eventsVars, producerVars, jobVars,
                   phase, forced, undrained>>

(* The race ends: the close resolved, ...                                   *)
WorkerClosed ==
    /\ phase = "workers" /\ current # None
    /\ worker[current] = "closed"
    /\ current' = None
    /\ UNCHANGED <<phase, todo, forced, undrained>>
    /\ OnlyShutdown

(* ... or it rejected, or the drain budget elapsed first.  Either way the   *)
(* worker is counted and close(true) is called without awaiting it, which   *)
(* neither stops a handler nor closes the connection the worker was given.  *)
WorkerForced ==
    /\ phase = "workers" /\ current # None
    /\ worker[current] \in {"closing", "stuck"}
    /\ forced' = forced \cup {current}
    /\ current' = None
    /\ UNCHANGED <<phase, todo, undrained>>
    /\ OnlyShutdown

WorkersDone ==
    /\ phase = "workers" /\ current = None /\ todo = {}
    /\ Enter("events", {})
    /\ OnlyShutdown

-----------------------------------------------------------------------------
(* closeQueueEvents walks the live map; a close() that fails is swallowed.  *)
CloseOneEvents(q) ==
    /\ phase = "events"
    /\ CloseEvents(q)
    /\ UNCHANGED <<registryVars, producerVars, jobVars, shutdownVars>>

(* closeDuplicatedConnections copies both connection maps.                  *)
EventsDone ==
    /\ phase = "events"
    /\ \A q \in Queues : events[q] # "open"
    /\ Enter("connections", getConnections \cup ObservedQueues)
    /\ OnlyShutdown

(* Each connection is quit, or disconnected when the quit fails.            *)
QuitWorkerConnection(w) ==
    /\ phase = "connections"
    /\ w \in todo
    /\ todo' = todo \ {w}
    /\ conn' = [conn EXCEPT ![w] = "closed"]
    /\ UNCHANGED <<entries, worker, name, unreg, eventsVars, producerVars, jobVars,
                   phase, current, forced, undrained>>

QuitEventsConnection(q) ==
    /\ phase = "connections"
    /\ q \in todo
    /\ todo' = todo \ {q}
    /\ QuitEventsConn(q)
    /\ UNCHANGED <<registryVars, producerVars, jobVars, phase, current, forced, undrained>>

ConnectionsDone ==
    /\ phase = "connections" /\ todo = {}
    /\ Enter("destroyed", {})
    /\ OnlyShutdown

-----------------------------------------------------------------------------
(* NestJS (external) stops the HTTP server, its requests served, and calls  *)
(* onApplicationShutdown, which drains the queues only when asked to.       *)
BeginShutdown ==
    /\ phase = "destroyed"
    /\ Enter(IF DrainOnShutdown THEN "drain" ELSE "flow", {})
    /\ OnlyShutdown

(* The loops over the live queue cache, which also come to a queue cached   *)
(* meanwhile; `todo' holds the queues visited.                              *)
Visited(q) == q \in CachedQueues \cap todo

(* drainQueuesIfRequested: a drain() that fails is logged and the loop goes *)
(* on.                                                                      *)
DrainQueue(q) ==
    /\ phase = "drain"
    /\ q \in CachedQueues \ todo
    /\ todo' = todo \cup {q}
    /\ \/ Drain(q) /\ UNCHANGED undrained
       \/ undrained' = undrained \cup {q} /\ UNCHANGED jobVars
    /\ UNCHANGED <<registryVars, eventsVars, producerVars, phase, current, forced>>

DrainDone ==
    /\ phase = "drain"
    /\ CachedQueues \subseteq todo
    /\ Enter("flow", {})
    /\ OnlyShutdown

CloseFlowProducer ==
    /\ phase = "flow"
    /\ CloseFlow
    /\ Enter("queues", {})
    /\ UNCHANGED <<registryVars, eventsVars, jobVars>>

(* closeQueues: closeAll() walks the live map and then clears it.           *)
CloseOneQueue(q) ==
    /\ phase = "queues"
    /\ q \in CachedQueues \ todo
    /\ todo' = todo \cup {q}
    /\ CloseQueue(q)
    /\ UNCHANGED <<registryVars, eventsVars, jobVars, phase, current, forced, undrained>>

QueuesDone ==
    /\ phase = "queues"
    /\ CachedQueues \subseteq todo
    /\ ClearQueues
    /\ Enter("teardown", {})
    /\ UNCHANGED <<registryVars, eventsVars, jobVars>>

TeardownConnection ==
    /\ phase = "teardown"
    /\ Teardown
    /\ Enter("done", {})
    /\ UNCHANGED <<registryVars, eventsVars, jobVars>>

Shutdown ==
    \/ \E w \in Workers : CloseWorker(w) \/ QuitWorkerConnection(w)
    \/ \E q \in Queues : \/ CloseOneEvents(q) \/ QuitEventsConnection(q)
                         \/ DrainQueue(q) \/ CloseOneQueue(q)
    \/ WorkerClosed \/ WorkerForced \/ WorkersDone
    \/ EventsDone \/ ConnectionsDone
    \/ BeginShutdown \/ DrainDone
    \/ CloseFlowProducer \/ QueuesDone \/ TeardownConnection

-----------------------------------------------------------------------------
(* The rest of the process.                                                 *)
Alive == phase # "dead"

MayRegister == phase = "up" \/ (LateRegistration /\ ServerUp)

RegisterWorker(q, w) ==
    /\ MayRegister
    /\ Register(q, w) \/ RegisterSandboxed(q, w)
    /\ UNCHANGED <<eventsVars, producerVars, jobVars, shutdownVars>>

ObserveQueue(q) ==
    /\ MayRegister
    /\ GetOrCreateEvents(q)
    /\ UNCHANGED <<registryVars, producerVars, jobVars, shutdownVars>>

(* A request may unregister a worker at any time before the server stops;   *)
(* a call under way goes on after that.                                     *)
UnregisterWorker(c, q) ==
    /\ ServerUp
    /\ UnregisterCall(c, q) \/ UnregisterCallClosed(c, q)
    /\ UNCHANGED <<eventsVars, producerVars, jobVars, shutdownVars>>

UnregisterContinues(c) ==
    /\ Alive
    /\ UnregisterDeletes(c)
    /\ UNCHANGED <<eventsVars, producerVars, jobVars, shutdownVars>>

(* enqueue(), called by a request or by a handler that runs in the process, *)
(* also one whose worker was forced.  On a client that was quit the call    *)
(* fails after the cache has been filled.  `fresh' records the jobs added   *)
(* before the drain had come to their queue.                                *)
BeforeItsDrain(q) == ServerUp \/ (phase = "drain" /\ ~Visited(q))

Enqueue(j) ==
    /\ Alive
    /\ ServerUp \/ \E w \in Workers : HeldBy(w) # {}
    /\ job[j] = "new"
    /\ GetOrCreateQueue(JobQueue[j])
    /\ IF client = "open" THEN Add(j, BeforeItsDrain(JobQueue[j])) ELSE UNCHANGED jobVars
    /\ UNCHANGED <<flow, client, registryVars, eventsVars, shutdownVars>>

-----------------------------------------------------------------------------
(* BullMQ, external: what the workers of this process do.                   *)
TakeJob(w, j) ==
    /\ Alive
    /\ worker[w] = "running" /\ conn[w] = "open"
    /\ name[w] = JobQueue[j]
    /\ Take(w, j)
    /\ UNCHANGED <<registryVars, eventsVars, producerVars, shutdownVars>>

HandlerEnds(j) ==
    /\ Alive
    /\ \E w \in Workers : j \in HeldBy(w) /\ conn[w] = "open"
    /\ Acknowledge(j)
    /\ UNCHANGED <<registryVars, eventsVars, producerVars, shutdownVars>>

(* A graceful close waits for the jobs the worker holds.  A forced one need *)
(* not, and a job that can no longer be acknowledged keeps none from ending. *)
WorkerCloses(w) ==
    /\ Alive
    /\ \/ CloseResolves(w) /\ (HeldBy(w) = {} \/ conn[w] = "closed" \/ w \in forced)
       \/ CloseRejects(w)
    /\ UNCHANGED <<eventsVars, producerVars, jobVars, shutdownVars>>

(* BullMQ, external: what Redis and the other instances do.                 *)
StalledCheck(j) ==
    /\ \E w \in Workers : j \in HeldBy(w) /\ conn[w] = "closed"
    /\ Requeue(j)
    /\ UNCHANGED <<registryVars, eventsVars, producerVars, shutdownVars>>

OtherInstance(j) ==
    /\ Promote(j) \/ RunElsewhere(j)
    /\ UNCHANGED <<registryVars, eventsVars, producerVars, shutdownVars>>

(* The platform kills the process: its sockets are gone, nothing else runs. *)
Killed ==
    /\ phase \notin {"done", "dead"}
    /\ phase' = "dead"
    /\ conn' = [w \in Workers |-> IF conn[w] = "none" THEN "none" ELSE "closed"]
    /\ eventsConn' = [q \in Queues |-> IF eventsConn[q] = "none" THEN "none" ELSE "closed"]
    /\ UNCHANGED <<entries, worker, name, unreg, events, producerVars, jobVars,
                   todo, current, forced, undrained>>

-----------------------------------------------------------------------------
Next ==
    \/ BeginDestroy \/ Shutdown \/ Killed
    \/ \E q \in Queues : \/ ObserveQueue(q)
                         \/ \E w \in Workers : RegisterWorker(q, w)
                         \/ \E c \in Callers : UnregisterWorker(c, q)
    \/ \E c \in Callers : UnregisterContinues(c)
    \/ \E w \in Workers : WorkerCloses(w)
    \/ \E j \in Jobs : \/ Enqueue(j) \/ HandlerEnds(j) \/ StalledCheck(j) \/ OtherInstance(j)
                       \/ \E w \in Workers : TakeJob(w, j)

Spec == Init /\ [][Next]_vars

(* Fairness.  Redis answers, timers fire and NestJS goes on, so the         *)
(* sequence never rests; another instance polls the queues and runs the     *)
(* stalled-job check.  Nothing is assumed of handlers: one may never end.   *)
Fairness ==
    /\ WF_vars(Shutdown)
    /\ \A j \in Jobs : /\ WF_vars(StalledCheck(j))
                       /\ WF_vars(OtherInstance(j))

FairSpec == Spec /\ Fairness

-----------------------------------------------------------------------------
(* A request served while the context closes can still add jobs: until the  *)
(* HTTP server has stopped neither the Queue-role client, nor a cached      *)
(* queue, nor the flow producer is closed.                                  *)
RequestsCanEnqueue ==
    ServerUp => /\ client = "open"
                /\ flow # "closed"
                /\ \A q \in Queues : queue[q] \in {"none", "open"}

(* The client the consumer handed over in Mode A is never closed, in Mode B *)
(* the library's is closed last: after the flow producer and after every    *)
(* connection duplicated from it.                                           *)
ClientClosedLast ==
    client = "closed" =>
        /\ ~ModeA
        /\ flow # "open"
        /\ \A q \in Queues : eventsConn[q] # "open"
        /\ \A w \in Workers : conn[w] \notin {"open", "quitting"}

(* No connection is cut under a worker that was not asked to close and      *)
(* given its drain budget: the worker is closed, or it was forced.          *)
DrainedBeforeCut ==
    phase # "dead" =>
        \A w \in Workers : conn[w] \in {"quitting", "closed"} =>
            worker[w] \in {"closed", "thrown"} \/ w \in forced

(* When the sequence is over every connection and every QueueEvents the     *)
(* library opened is closed, and every worker was closed or forced.         *)
NothingLeftOpen ==
    phase = "done" =>
        /\ \A w \in Workers : /\ conn[w] \in {"none", "closed"}
                              /\ worker[w] # "running"
                              /\ worker[w] \in {"closing", "stuck"} => w \in forced
        /\ \A q \in Queues : events[q] # "open" /\ eventsConn[q] # "open"
        /\ ModeA \/ client = "closed"

(* With drainOnShutdown, a job that has waited since it was added before    *)
(* the drain came to its queue, by a request or by a handler that runs on   *)
(* while other queues are drained, is only left behind in a queue whose     *)
(* failed drain was reported.  A job added to a queue the loop is through   *)
(* with stays.                                                              *)
LateJobsAreDrained ==
    DrainOnShutdown /\ phase \in {"flow", "queues", "teardown", "done"} =>
        \A j \in fresh : JobQueue[j] \in undrained

(* Minimised duplication: the lock of a job is only lost to a stalled check *)
(* when its worker used up the drain budget, or the process was killed.     *)
OnlyForcedJobsRerun ==
    [][\A j \in Jobs :
           job[j] = "active" /\ job'[j] = "waiting" =>
               phase = "dead" \/ holder[j] \in forced]_vars

(* A queue leaves the cache only after its close() was called, also one     *)
(* that a handler cached while closeAll() was waiting for another.          *)
ClearedQueuesWereClosed ==
    [][\A q \in Queues : queue'[q] = "none" => queue[q] # "open"]_vars

(* The shutdown is bounded: once begun it ends, whatever the handlers do.   *)
ShutdownEnds == (phase = "workers") ~> (phase \in {"done", "dead"})

(* No accepted job is stranded by a shutdown: whatever state it was left    *)
(* in, it is run to an acknowledgement or was drained on request.           *)
JobsSurvive ==
    \A j \in Jobs :
        (phase \in {"done", "dead"} /\ job[j] \in Unfinished)
            ~> (job[j] \in {"completed", "removed"})

(* The library as a whole delivers at least once.                           *)
jobStatus == [j \in Jobs |-> CASE job[j] = "new" -> "new"
                               [] job[j] \in Unfinished -> "pending"
                               [] job[j] = "completed" -> "done"
                               [] job[j] = "removed" -> "dropped"]

ALO == INSTANCE AtLeastOnce WITH MayDrop <- DrainOnShutdown, status <- jobStatus

DeliversAtLeastOnce == ALO!Spec

-----------------------------------------------------------------------------
(* Statements of the documentation the sequence does not keep.              *)

(* "For each registered Worker, concurrently" the close is raced with the   *)
(* drain budget: when one budget is used up every worker has been asked.    *)
ClosedConcurrently ==
    phase = "workers" /\ forced # {} => \A w \in todo : worker[w] # "running"
=============================================================================
