------------------------ MODULE QueueLifecycleProofs ------------------------
(***************************************************************************)
(* Proofs about QueueLifecycle for any numbers of queues, workers, callers *)
(* and jobs, both connection modes, with and without drainOnShutdown, and  *)
(* whether or not requests register workers while the context closes: what *)
(* the requests and the registry keep true, and then what the shutdown     *)
(* sequence leaves behind: no connection cut under a working worker, no    *)
(* job run twice because of it, nothing open, no late job undrained.       *)
(*                                                                         *)
(* What the source itself cannot ensure is a hypothesis of the theorem     *)
(* that needs it: that nothing registers once the context closes           *)
(* (~LateRegistration), and that no two unregister() calls for one queue   *)
(* overlap (ExclusiveLifecycle).                                           *)
(***************************************************************************)
EXTENDS QueueLifecycle, WorkerRegistryProofs, TLAPS

(* A step of the sequence that only moves it on, or the registry step it    *)
(* makes, keeps the types: one lemma per component.                         *)
LEMMA EventsTyped ==
    ASSUME EventsTypeOK, NEW q \in Queues,
           GetOrCreateEvents(q) \/ CloseEvents(q) \/ QuitEventsConn(q)
    PROVE  EventsTypeOK'
  BY DEF EventsTypeOK, ObjectStates, GetOrCreateEvents, CloseEvents, QuitEventsConn

(* Every step of the producer side keeps it well typed.                     *)
LEMMA ProducerTyped ==
    ASSUME ProducerTypeOK,
           \/ \E q \in Queues : CloseQueue(q)
           \/ ClearQueues \/ CloseFlow \/ Teardown
    PROVE  ProducerTypeOK'
  BY DEF ProducerTypeOK, CloseQueue, ClearQueues, CloseFlow, Teardown

(* Every step of a job in Redis keeps the jobs well typed.                  *)
LEMMA JobTyped ==
    ASSUME JobTypeOK, NEW j \in Jobs,
           \/ \E r \in BOOLEAN : Add(j, r)
           \/ \E w \in Workers : Take(w, j)
           \/ Promote(j) \/ Acknowledge(j) \/ Requeue(j) \/ RunElsewhere(j)
    PROVE  JobTypeOK'
  BY DEF JobTypeOK, JobStates, Add, Take, Promote, Acknowledge, Requeue, RunElsewhere

(* So does a drain.                                                         *)
LEMMA DrainTyped ==
    ASSUME JobTypeOK, NEW q \in Queues, Drain(q)
    PROVE  JobTypeOK'
  BY DEF JobTypeOK, JobStates, Drain

(* A step that leaves a component alone keeps it well typed.                *)
LEMMA RegistryUnchanged == RegistryTypeOK /\ UNCHANGED registryVars => RegistryTypeOK'
  BY DEF RegistryTypeOK, registryVars

(* The same of the queue-events registry.                                   *)
LEMMA EventsUnchanged == EventsTypeOK /\ UNCHANGED eventsVars => EventsTypeOK'
  BY DEF EventsTypeOK, eventsVars

(* The same of the producer side.                                           *)
LEMMA ProducerUnchanged == ProducerTypeOK /\ UNCHANGED producerVars => ProducerTypeOK'
  BY DEF ProducerTypeOK, producerVars

(* The same of the jobs.                                                    *)
LEMMA JobUnchanged == JobTypeOK /\ UNCHANGED jobVars => JobTypeOK'
  BY DEF JobTypeOK, jobVars

(* The typing invariant holds initially.                                    *)
LEMMA TypeInit == Init => TypeOK
<1> SUFFICES ASSUME Init PROVE TypeOK
  OBVIOUS
<1>1. RegistryTypeOK
  BY InitTyped DEF Init
<1>2. EventsTypeOK
  BY DEF Init, EventsInit, EventsTypeOK, ObjectStates
<1>3. ProducerTypeOK
  BY DEF Init, ProducerInit, ProducerTypeOK
<1>4. JobTypeOK
  BY DEF Init, JobInit, JobTypeOK, JobStates
<1> QED
  BY <1>1, <1>2, <1>3, <1>4 DEF Init, TypeOK, Phases

(* The steps of the sequence itself.                                        *)
LEMMA ShutdownStepTyped == ASSUME TypeOK, BeginDestroy \/ Shutdown PROVE TypeOK'
<1> USE RegistryUnchanged, EventsUnchanged, ProducerUnchanged, JobUnchanged
<1> USE DEF TypeOK, Phases, Enter, OnlyShutdown
<1>1. CASE BeginDestroy
  BY <1>1 DEF BeginDestroy, getAll, RegistryTypeOK
<1>2. ASSUME NEW w \in Workers, CloseWorker(w) PROVE TypeOK'
  <2>1. RegistryTypeOK'
    BY <1>2 DEF CloseWorker, AskedToClose, RegistryTypeOK, WorkerStates
  <2> QED
    BY <1>2, <2>1 DEF CloseWorker
<1>3. ASSUME NEW w \in Workers, QuitWorkerConnection(w) PROVE TypeOK'
  <2>1. RegistryTypeOK'
    BY <1>3 DEF QuitWorkerConnection, RegistryTypeOK, ConnStates
  <2> QED
    BY <1>3, <2>1 DEF QuitWorkerConnection
<1>4. ASSUME NEW q \in Queues, CloseOneEvents(q) PROVE TypeOK'
  BY <1>4, EventsTyped DEF CloseOneEvents, shutdownVars
<1>5. ASSUME NEW q \in Queues, QuitEventsConnection(q) PROVE TypeOK'
  BY <1>5, EventsTyped DEF QuitEventsConnection
<1>6. ASSUME NEW q \in Queues, DrainQueue(q) PROVE TypeOK'
  BY <1>6, DrainTyped DEF DrainQueue
<1>7. ASSUME NEW q \in Queues, CloseOneQueue(q) PROVE TypeOK'
  BY <1>7, ProducerTyped DEF CloseOneQueue, shutdownVars
<1>8. CASE WorkerClosed
  BY <1>8 DEF WorkerClosed
<1>9. CASE WorkerForced
  BY <1>9 DEF WorkerForced
<1>10. CASE WorkersDone
  BY <1>10 DEF WorkersDone
<1>11. CASE EventsDone
  BY <1>11 DEF EventsDone, getConnections, getAll, ObservedQueues, RegistryTypeOK
<1>12. CASE ConnectionsDone
  BY <1>12 DEF ConnectionsDone
<1>13. CASE BeginShutdown
  BY <1>13 DEF BeginShutdown
<1>14. CASE DrainDone
  BY <1>14 DEF DrainDone
<1>15. CASE CloseFlowProducer
  BY <1>15, ProducerTyped DEF CloseFlowProducer
<1>16. CASE QueuesDone
  BY <1>16, ProducerTyped DEF QueuesDone
<1>17. CASE TeardownConnection
  BY <1>17, ProducerTyped DEF TeardownConnection
<1> QED
  BY <1>1, <1>2, <1>3, <1>4, <1>5, <1>6, <1>7, <1>8, <1>9, <1>10, <1>11, <1>12,
     <1>13, <1>14, <1>15, <1>16, <1>17 DEF Shutdown

(* The steps of requests, handlers, BullMQ and the platform.                *)
LEMMA ProcessStepTyped == ASSUME TypeOK, Next, ~BeginDestroy, ~Shutdown PROVE TypeOK'
<1> USE RegistryUnchanged, EventsUnchanged, ProducerUnchanged, JobUnchanged
<1> USE DEF TypeOK, Phases, shutdownVars
<1>1. ASSUME NEW q \in Queues, NEW w \in Workers, RegisterWorker(q, w) PROVE TypeOK'
  <2>1. RegistryTypeOK'
    BY <1>1, StepTyped DEF RegisterWorker, RegistryNext
  <2> QED
    BY <1>1, <2>1 DEF RegisterWorker
<1>2. ASSUME NEW q \in Queues, ObserveQueue(q) PROVE TypeOK'
  BY <1>2, EventsTyped DEF ObserveQueue
<1>3. ASSUME NEW q \in Queues, NEW c \in Callers, UnregisterWorker(c, q) PROVE TypeOK'
  <2>1. RegistryTypeOK'
    BY <1>3, StepTyped DEF UnregisterWorker, RegistryNext, UnregisterStep
  <2> QED
    BY <1>3, <2>1 DEF UnregisterWorker
<1>4. ASSUME NEW c \in Callers, UnregisterContinues(c) PROVE TypeOK'
  <2>1. RegistryTypeOK'
    BY <1>4, StepTyped DEF UnregisterContinues, RegistryNext, UnregisterStep
  <2> QED
    BY <1>4, <2>1 DEF UnregisterContinues
<1>5. ASSUME NEW w \in Workers, WorkerCloses(w) PROVE TypeOK'
  <2>1. RegistryTypeOK'
    BY <1>5, StepTyped DEF WorkerCloses, RegistryNext
  <2> QED
    BY <1>5, <2>1 DEF WorkerCloses
<1>6. ASSUME NEW j \in Jobs, Enqueue(j) PROVE TypeOK'
  <2>1. ProducerTypeOK'
    BY <1>6 DEF Enqueue, GetOrCreateQueue, ProducerTypeOK
  <2>2. CASE UNCHANGED jobVars
    BY <1>6, <2>1, <2>2 DEF Enqueue
  <2>3. CASE Add(j, BeforeItsDrain(JobQueue[j]))
    <3>1. fresh' \subseteq Jobs
      BY <2>3 DEF Add, JobTypeOK
    <3>2. job' \in [Jobs -> JobStates] /\ holder' = holder
      BY <2>3 DEF Add, JobTypeOK, JobStates
    <3>3. JobTypeOK'
      BY <3>1, <3>2 DEF JobTypeOK
    <3> QED
      BY <1>6, <2>1, <3>3 DEF Enqueue
  <2> QED
    BY <1>6, <2>2, <2>3 DEF Enqueue
<1>7. ASSUME NEW j \in Jobs, HandlerEnds(j) \/ StalledCheck(j) \/ OtherInstance(j)
      PROVE  TypeOK'
  BY <1>7, JobTyped DEF HandlerEnds, StalledCheck, OtherInstance
<1>8. ASSUME NEW j \in Jobs, NEW w \in Workers, TakeJob(w, j) PROVE TypeOK'
  BY <1>8, JobTyped DEF TakeJob
<1>9. CASE Killed
  <2>1. RegistryTypeOK'
    BY <1>9 DEF Killed, RegistryTypeOK, ConnStates
  <2>2. EventsTypeOK'
    BY <1>9 DEF Killed, EventsTypeOK, ObjectStates
  <2> QED
    BY <1>9, <2>1, <2>2 DEF Killed
<1> QED
  BY <1>1, <1>2, <1>3, <1>4, <1>5, <1>6, <1>7, <1>8, <1>9 DEF Next

(* Every step of the system preserves the typing invariant.                 *)
LEMMA TypeStep == TypeOK /\ [Next]_vars => TypeOK'
<1>1. CASE UNCHANGED vars
  BY <1>1, RegistryUnchanged, EventsUnchanged, ProducerUnchanged, JobUnchanged
     DEF vars, shutdownVars, TypeOK
<1> QED
  BY <1>1, ShutdownStepTyped, ProcessStepTyped

(* The whole system is always well typed.                                   *)
THEOREM Typing == Spec => []TypeOK
  BY TypeInit, TypeStep, PTL DEF Spec

-----------------------------------------------------------------------------
(* Requests can enqueue: inductive as it stands, because the phases in which *)
(* the server is up are never entered again and none of them closes anything *)
(* of the producer side.                                                     *)
LEMMA RequestsInit == Init => RequestsCanEnqueue
  BY ModeAssumption DEF Init, ProducerInit, RequestsCanEnqueue

(* A step that leaves the producer side alone and does not restart the server. *)
LEMMA RequestsUndisturbed ==
    RequestsCanEnqueue /\ UNCHANGED producerVars /\ (ServerUp' => ServerUp)
        => RequestsCanEnqueue'
  BY DEF RequestsCanEnqueue, producerVars

(* No step closes what a request needs while the server is up.              *)
LEMMA RequestsStep == TypeOK /\ RequestsCanEnqueue /\ [Next]_vars => RequestsCanEnqueue'
<1> SUFFICES ASSUME TypeOK, RequestsCanEnqueue, [Next]_vars PROVE RequestsCanEnqueue'
  OBVIOUS
<1>1. CASE UNCHANGED vars
  BY <1>1, RequestsUndisturbed DEF vars, shutdownVars, ServerUp
<1>2. CASE BeginDestroy
  BY <1>2, RequestsUndisturbed DEF BeginDestroy, Enter, OnlyShutdown, ServerUp
<1>3. CASE Killed
  BY <1>3 DEF Killed, ServerUp, RequestsCanEnqueue
<1>4. CASE Shutdown
  <2>1. CASE \E w \in Workers : CloseWorker(w) \/ QuitWorkerConnection(w)
    BY <2>1, RequestsUndisturbed
       DEF CloseWorker, AskedToClose, QuitWorkerConnection, producerVars, ServerUp
  <2>2. CASE \E q \in Queues : CloseOneEvents(q) \/ QuitEventsConnection(q) \/ DrainQueue(q)
    BY <2>2, RequestsUndisturbed
       DEF CloseOneEvents, QuitEventsConnection, DrainQueue, shutdownVars, ServerUp
  <2>3. CASE \E q \in Queues : CloseOneQueue(q)
    BY <2>3 DEF CloseOneQueue, shutdownVars, ServerUp, RequestsCanEnqueue
  <2>4. CASE WorkerClosed \/ WorkerForced
    BY <2>4, RequestsUndisturbed DEF WorkerClosed, WorkerForced, OnlyShutdown, ServerUp
  <2>5. CASE WorkersDone \/ EventsDone \/ ConnectionsDone \/ BeginShutdown \/ DrainDone
    BY <2>5, RequestsUndisturbed
       DEF WorkersDone, EventsDone, ConnectionsDone, BeginShutdown, DrainDone, Enter,
           OnlyShutdown, ServerUp
  <2>6. CASE CloseFlowProducer \/ QueuesDone \/ TeardownConnection
    BY <2>6 DEF CloseFlowProducer, QueuesDone, TeardownConnection, Enter, ServerUp,
                RequestsCanEnqueue
  <2> QED
    BY <1>4, <2>1, <2>2, <2>3, <2>4, <2>5, <2>6 DEF Shutdown
<1>5. ASSUME NEW j \in Jobs, Enqueue(j) PROVE RequestsCanEnqueue'
  BY <1>5 DEF Enqueue, GetOrCreateQueue, shutdownVars, ServerUp, RequestsCanEnqueue,
              TypeOK, ProducerTypeOK
<1>6. ASSUME NEW q \in Queues,
             \/ ObserveQueue(q)
             \/ \E w \in Workers : RegisterWorker(q, w)
             \/ \E c \in Callers : UnregisterWorker(c, q)
      PROVE  RequestsCanEnqueue'
  BY <1>6, RequestsUndisturbed
     DEF ObserveQueue, RegisterWorker, UnregisterWorker, shutdownVars, ServerUp
<1>7. ASSUME \/ \E c \in Callers : UnregisterContinues(c)
             \/ \E w \in Workers : WorkerCloses(w)
      PROVE  RequestsCanEnqueue'
  BY <1>7, RequestsUndisturbed DEF UnregisterContinues, WorkerCloses, shutdownVars, ServerUp
<1>8. ASSUME NEW j \in Jobs,
             \/ HandlerEnds(j) \/ StalledCheck(j) \/ OtherInstance(j)
             \/ \E w \in Workers : TakeJob(w, j)
      PROVE  RequestsCanEnqueue'
  BY <1>8, RequestsUndisturbed
     DEF HandlerEnds, StalledCheck, OtherInstance, TakeJob, shutdownVars, ServerUp
<1> QED
  BY <1>1, <1>2, <1>3, <1>4, <1>5, <1>6, <1>7, <1>8 DEF Next

(* A request served while the context closes can still add its jobs, for    *)
(* any numbers of queues, workers and jobs and any interleaving.            *)
THEOREM RequestsEnqueue == Spec => []RequestsCanEnqueue
<1>1. TypeOK /\ RequestsCanEnqueue /\ [Next]_vars => RequestsCanEnqueue'
  BY RequestsStep
<1> QED
  BY RequestsInit, <1>1, Typing, PTL DEF Spec

-----------------------------------------------------------------------------
(* The refinement of AtLeastOnce.  A queue is only drained when the options *)
(* ask for it, which is all a step needs to know to be allowed a Drop.      *)
DrainOnlyWhenAsked == phase = "drain" => DrainOnShutdown

(* The sequence does not begin in the drain.                                *)
LEMMA DrainAskedInit == Init => DrainOnlyWhenAsked
  BY DEF Init, DrainOnlyWhenAsked

(* Only drainOnShutdown leads it there.                                     *)
LEMMA DrainAskedStep == DrainOnlyWhenAsked /\ [Next]_vars => DrainOnlyWhenAsked'
<1> SUFFICES ASSUME DrainOnlyWhenAsked, [Next]_vars, phase' = "drain", phase # "drain"
             PROVE  DrainOnShutdown
  BY DEF DrainOnlyWhenAsked
<1>1. BeginDestroy \/ Shutdown \/ Killed
  BY DEF vars, Next, ObserveQueue, RegisterWorker, UnregisterWorker, UnregisterContinues,
         WorkerCloses, Enqueue, HandlerEnds, StalledCheck, OtherInstance, TakeJob, shutdownVars
<1>2. BeginShutdown
  BY <1>1 DEF BeginDestroy, Killed, Shutdown, Enter, CloseWorker, QuitWorkerConnection,
              CloseOneEvents, QuitEventsConnection, DrainQueue, CloseOneQueue, WorkerClosed,
              WorkerForced, WorkersDone, EventsDone, ConnectionsDone, DrainDone,
              CloseFlowProducer, QueuesDone, TeardownConnection, shutdownVars
<1> QED
  BY <1>2 DEF BeginShutdown, Enter

(* What a step can do to the jobs.                                          *)
JobStep ==
    \/ UNCHANGED jobVars
    \/ \E j \in Jobs : \/ Add(j, BeforeItsDrain(JobQueue[j]))
                       \/ Promote(j) \/ StalledCheck(j)
                       \/ \E w \in Workers : TakeJob(w, j)
                       \/ Acknowledge(j) \/ RunElsewhere(j)
    \/ phase = "drain" /\ \E q \in Queues : Drain(q)

(* Every step treats the jobs in one of these ways.                         *)
LEMMA StepOnJobs == [Next]_vars => JobStep
<1> SUFFICES ASSUME [Next]_vars PROVE JobStep
  OBVIOUS
<1>1. CASE Shutdown
  <2>1. CASE \E q \in Queues : DrainQueue(q)
    BY <2>1 DEF DrainQueue, JobStep
  <2>2. CASE ~ \E q \in Queues : DrainQueue(q)
    BY <1>1, <2>2
       DEF Shutdown, Enter, OnlyShutdown, CloseWorker, QuitWorkerConnection, CloseOneEvents,
           QuitEventsConnection, CloseOneQueue, WorkerClosed, WorkerForced, WorkersDone,
           EventsDone, ConnectionsDone, BeginShutdown, DrainDone, CloseFlowProducer,
           QueuesDone, TeardownConnection, JobStep
  <2> QED
    BY <2>1, <2>2
<1>2. ASSUME NEW j \in Jobs,
             \/ Enqueue(j) \/ HandlerEnds(j) \/ StalledCheck(j) \/ OtherInstance(j)
             \/ \E w \in Workers : TakeJob(w, j)
      PROVE  JobStep
  BY <1>2 DEF Enqueue, HandlerEnds, OtherInstance, JobStep
<1>3. CASE BeginDestroy \/ Killed
  BY <1>3 DEF BeginDestroy, Enter, OnlyShutdown, Killed, JobStep
<1>4. ASSUME NEW q \in Queues,
             \/ ObserveQueue(q)
             \/ \E w \in Workers : RegisterWorker(q, w)
             \/ \E c \in Callers : UnregisterWorker(c, q)
      PROVE  JobStep
  BY <1>4 DEF ObserveQueue, RegisterWorker, UnregisterWorker, JobStep
<1>5. ASSUME \/ \E c \in Callers : UnregisterContinues(c)
             \/ \E w \in Workers : WorkerCloses(w)
      PROVE  JobStep
  BY <1>5 DEF UnregisterContinues, WorkerCloses, JobStep
<1>6. CASE UNCHANGED vars
  BY <1>6 DEF vars, JobStep
<1>7. CASE Next
  BY <1>1, <1>2, <1>3, <1>4, <1>5, <1>7 DEF Next
<1> QED
  BY <1>6, <1>7

(* An initial state is one of the contract.                                 *)
LEMMA StatusInit == Init => ALO!Init
  BY DEF Init, JobInit, jobStatus, Unfinished, ALO!Init

(* A step is one of the contract, or leaves its variable alone.             *)
LEMMA StatusStep ==
    TypeOK /\ DrainOnlyWhenAsked /\ [Next]_vars => [ALO!Next]_jobStatus
<1> SUFFICES ASSUME JobTypeOK, DrainOnlyWhenAsked, JobStep PROVE [ALO!Next]_jobStatus
  BY StepOnJobs DEF TypeOK
<1> USE DEF JobTypeOK, JobStates, jobStatus, Unfinished
<1>1. CASE UNCHANGED jobVars
  BY <1>1 DEF jobVars
<1>2. ASSUME NEW j \in Jobs, Add(j, BeforeItsDrain(JobQueue[j])) PROVE ALO!Accept(j)
  BY <1>2 DEF Add, ALO!Accept
<1>3. ASSUME NEW j \in Jobs,
             Promote(j) \/ StalledCheck(j) \/ \E w \in Workers : TakeJob(w, j)
      PROVE  UNCHANGED jobStatus
  BY <1>3 DEF Promote, StalledCheck, Requeue, TakeJob, Take
<1>4. ASSUME NEW j \in Jobs, Acknowledge(j) \/ RunElsewhere(j) PROVE ALO!Complete(j)
  BY <1>4 DEF Acknowledge, RunElsewhere, ALO!Complete
<1>5. ASSUME phase = "drain", NEW q \in Queues, Drain(q) PROVE ALO!Next
  <2> DEFINE D == {j \in Jobs : JobQueue[j] = q /\ job[j] = "waiting"}
  <2>1. ALO!Drop(D)
    BY <1>5 DEF Drain, DrainOnlyWhenAsked, ALO!Drop
  <2>2. D \in SUBSET Jobs
    OBVIOUS
  <2> HIDE DEF D, jobStatus
  <2> QED
    BY <2>1, <2>2 DEF ALO!Next
<1> QED
  BY <1>1, <1>2, <1>3, <1>4, <1>5 DEF JobStep, ALO!Next

(* Whatever is registered, closed, forced, drained or killed, and in which  *)
(* order: a job that was accepted stays pending until an execution of it is *)
(* acknowledged, unless the options let the shutdown drain it.              *)
THEOREM AtLeastOnceDelivery == Spec => DeliversAtLeastOnce
<1>1. TypeOK /\ DrainOnlyWhenAsked /\ [Next]_vars => [ALO!Next]_jobStatus
  BY StatusStep
<1> QED
  BY StatusInit, <1>1, DrainAskedInit, DrainAskedStep, Typing, PTL
     DEF Spec, DeliversAtLeastOnce, ALO!Spec

-----------------------------------------------------------------------------
(* What the shutdown leaves behind.  Some of it needs that no two           *)
(* unregister() calls for one queue overlap.                                *)
ExclusiveLifecycle == Init /\ [][Next /\ Exclusive']_vars

(* The phases that follow the loops over the workers, over the QueueEvents  *)
(* and over the connections.                                                *)
AfterConnections == {"destroyed", "drain", "flow", "queues", "teardown", "done"}
AfterEvents == {"connections"} \cup AfterConnections
AfterWorkers == {"events"} \cup AfterEvents

(* A worker that was given its drain budget: it closed, or it was forced.   *)
Settled(w) == worker[w] \in {"closed", "thrown"} \/ w \in forced

-----------------------------------------------------------------------------
(* First invariant: the loop over the workers settles each registered one,  *)
(* so that the loop over the connections only cuts those of settled ones.   *)
LoopSettles ==
    /\ phase = "workers" => \A w \in getAll : w \in todo \/ w = current \/ Settled(w)
    /\ phase \in AfterWorkers => \A w \in getAll : Settled(w)

CutSettled ==
    phase = "connections" => \A w \in Workers : w \in todo => Settled(w)

(* close(true) is only called on a worker whose close() was asked for.      *)
ForcedWereAsked ==
    \A w \in forced : worker[w] \in {"closing", "stuck", "closed"}

SettledInv ==
    QuittersClosed /\ LoopSettles /\ CutSettled /\ ForcedWereAsked /\ DrainedBeforeCut

(* Second: a worker that closed without being forced has let its jobs end.  *)
HoldersWork ==
    phase # "dead" =>
        \A w \in Workers : HeldBy(w) # {} => Live(w) \/ w \in forced

(* Third: each loop leaves nothing behind for the phases that follow it.    *)
ConnectionsReleased ==
    /\ phase = "connections" =>
          \A w \in Workers : conn[w] \in {"open", "quitting"} => w \in todo
    /\ phase \in AfterConnections => \A w \in Workers : conn[w] \in {"none", "closed"}

EventsReleased ==
    /\ phase \in AfterEvents => \A q \in Queues : events[q] # "open"
    /\ phase = "connections" =>
          \A q \in Queues : eventsConn[q] = "open" => q \in todo
    /\ phase \in AfterConnections => \A q \in Queues : eventsConn[q] # "open"

ProducersReleased ==
    /\ phase \in {"queues", "teardown", "done"} => flow # "open"
    /\ client = "closed" => phase = "done" /\ ~ModeA
    /\ phase = "done" => ModeA \/ client = "closed"

(* Fourth: the loops over the queue cache.  What a loop has visited is      *)
(* cached, and the second one leaves nothing it has visited open.           *)
VisitedCached ==
    phase \in {"drain", "queues"} =>
        \A q \in Queues : q \in todo => queue[q] # "none"

VisitedClosed ==
    phase = "queues" => \A q \in Queues : q \in todo => queue[q] # "open"

VisitsInv == VisitedCached /\ VisitedClosed

(* Fifth: where the jobs are that were added in time for the drain.         *)
FreshWait == \A j \in fresh : job[j] = "waiting"

FreshCached ==
    ServerUp \/ phase = "drain" => \A j \in fresh : queue[JobQueue[j]] # "none"

VisitedDrained ==
    phase = "drain" => \A j \in fresh : JobQueue[j] \in todo => JobQueue[j] \in undrained

FreshInv == FreshWait /\ FreshCached /\ VisitedDrained /\ LateJobsAreDrained

-----------------------------------------------------------------------------
(* The steps of the process that are not of the sequence: calls of the      *)
(* registry, and steps that leave it as it is.                              *)
Registering ==
    MayRegister /\ \E q \in Queues, w \in Workers : Register(q, w) \/ RegisterSandboxed(q, w)

RegistryCall ==
    \/ Registering
    \/ \E w \in Workers : CloseResolves(w) \/ CloseRejects(w)
    \/ \E c \in Callers : UnregisterStep(c)

(* Neither kind moves the sequence on.                                      *)
LEMMA ProcessSteps ==
    ASSUME [Next]_vars, ~BeginDestroy, ~Shutdown, ~Killed
    PROVE  UNCHANGED shutdownVars /\ (RegistryCall \/ UNCHANGED registryVars)
<1>1. CASE UNCHANGED vars
  BY <1>1 DEF vars
<1>2. ASSUME NEW q \in Queues, NEW w \in Workers, RegisterWorker(q, w)
      PROVE  UNCHANGED shutdownVars /\ RegistryCall
  BY <1>2 DEF RegisterWorker, RegistryCall, Registering
<1>3. ASSUME NEW q \in Queues, NEW c \in Callers, UnregisterWorker(c, q)
      PROVE  UNCHANGED shutdownVars /\ RegistryCall
  BY <1>3 DEF UnregisterWorker, RegistryCall, UnregisterStep
<1>4. ASSUME NEW c \in Callers, UnregisterContinues(c)
      PROVE  UNCHANGED shutdownVars /\ RegistryCall
  BY <1>4 DEF UnregisterContinues, RegistryCall, UnregisterStep
<1>5. ASSUME NEW w \in Workers, WorkerCloses(w)
      PROVE  UNCHANGED shutdownVars /\ RegistryCall
  BY <1>5 DEF WorkerCloses, RegistryCall
<1>6. ASSUME \/ \E q \in Queues : ObserveQueue(q)
             \/ \E j \in Jobs : \/ Enqueue(j) \/ HandlerEnds(j) \/ StalledCheck(j)
                                \/ OtherInstance(j) \/ \E w \in Workers : TakeJob(w, j)
      PROVE  UNCHANGED shutdownVars /\ UNCHANGED registryVars
  BY <1>6 DEF ObserveQueue, Enqueue, HandlerEnds, StalledCheck, OtherInstance, TakeJob
<1> QED
  BY <1>1, <1>2, <1>3, <1>4, <1>5, <1>6 DEF Next

(* A call of the registry is one of its operations.                         *)
LEMMA CallIsNext == RegistryCall => RegistryNext
  BY DEF RegistryCall, Registering, RegistryNext

(* The steps of the sequence that leave registry, phase and loop alone.     *)
SilentStep == \E q \in Queues : CloseOneEvents(q)

(* They do.                                                                 *)
LEMMA SilentSteps == SilentStep => UNCHANGED <<registryVars, shutdownVars>>
  BY DEF SilentStep, CloseOneEvents

-----------------------------------------------------------------------------
(* The sequence has settled nothing before it begins.                       *)
LEMMA SettledInit == Init => SettledInv
  BY DEF Init, RegistryInit, SettledInv, QuittersClosed, LoopSettles, CutSettled,
         ForcedWereAsked, DrainedBeforeCut, AfterWorkers, AfterEvents, AfterConnections, Idle

(* What a call of the registry does to the workers: who was asked to close  *)
(* stays asked, who ended stays so, a connection is only quit for a worker  *)
(* that ended, and only a registration opens one or adds an entry.          *)
Asked(w) == worker[w] \in {"closing", "stuck", "closed"}
Ended(w) == worker[w] \in {"closed", "thrown"}

CallEffect ==
    /\ \A w \in Workers : Asked(w) => worker'[w] \in {"closing", "stuck", "closed"}
    /\ \A w \in Workers : Ended(w) => worker'[w] \in {"closed", "thrown"}
    /\ \A w \in Workers : conn'[w] \in {"quitting", "closed"} =>
          conn[w] \in {"quitting", "closed"} \/ worker'[w] \in {"closed", "thrown"}
    /\ \A w \in Workers : conn'[w] \in {"open", "quitting"} =>
          conn[w] \in {"open", "quitting"} \/ Registering
    /\ \A q \in Queues : entries'[q] \in {entries[q], None} \/ Registering

(* Each of its operations has this effect.                                  *)
LEMMA CallEffects ==
    ASSUME RegistryTypeOK, QuittersClosed, RegistryCall
    PROVE  CallEffect
<1> USE DEF RegistryTypeOK, CallEffect, Asked, Ended
<1>1. ASSUME NEW q \in Queues, NEW w \in Workers, MayRegister,
             Register(q, w) \/ RegisterSandboxed(q, w)
      PROVE  CallEffect
  <2>1. Registering
    BY <1>1 DEF Registering
  <2> QED
    BY <1>1, <2>1 DEF Register, RegisterSandboxed, Constructed, ConstructorThrew
<1>2. ASSUME NEW w \in Workers, CloseResolves(w)
      PROVE  CallEffect
  BY <1>2 DEF CloseResolves, QuitSent
<1>3. ASSUME NEW w \in Workers, CloseRejects(w)
      PROVE  CallEffect
  BY <1>3 DEF CloseRejects
<1>4. ASSUME NEW c \in Callers, NEW q \in Queues, UnregisterCall(c, q)
      PROVE  CallEffect
  BY <1>4 DEF UnregisterCall, AskedToClose
<1>5. ASSUME NEW c \in Callers, NEW q \in Queues, UnregisterCallClosed(c, q)
      PROVE  CallEffect
  BY <1>5 DEF UnregisterCallClosed, QuitSent
<1>6. ASSUME NEW c \in Callers, UnregisterDeletes(c)
      PROVE  CallEffect
  <2>1. worker[unreg[c].worker] = "closed"
    BY <1>6 DEF UnregisterDeletes, QuittersClosed
  <2> QED
    BY <1>6, <2>1 DEF UnregisterDeletes
<1> QED
  BY <1>1, <1>2, <1>3, <1>4, <1>5, <1>6 DEF RegistryCall, Registering, UnregisterStep

(* Once the context closes, no call adds an entry.                          *)
LEMMA CallsOnlyRemove ==
    ASSUME ~LateRegistration, CallEffect, phase # "up"
    PROVE  getAll' \subseteq getAll
  BY DEF CallEffect, Registering, MayRegister, getAll

(* So a call settles the worker whose connection it quits, and unsettles    *)
(* none.                                                                    *)
LEMMA CallSettles ==
    ASSUME ~LateRegistration, TypeOK, SettledInv, RegistryCall, UNCHANGED shutdownVars
    PROVE  SettledInv'
<1>1. CallEffect
  BY CallEffects DEF TypeOK, SettledInv
<1>2. \A w \in Workers : Settled(w) => Settled(w)'
  BY <1>1 DEF CallEffect, Settled, Ended, shutdownVars
<1>3. QuittersClosed'
  BY CallIsNext, StepQuitters DEF SettledInv, TypeOK
<1>4. LoopSettles'
  <2>1. CASE phase = "up"
    BY <2>1 DEF LoopSettles, shutdownVars, AfterWorkers, AfterEvents, AfterConnections
  <2>2. CASE phase # "up"
    <3>1. getAll' \subseteq getAll /\ getAll \subseteq Workers
      BY <1>1, <2>2, CallsOnlyRemove DEF getAll, TypeOK, RegistryTypeOK
    <3> QED
      BY <1>2, <3>1 DEF LoopSettles, SettledInv, shutdownVars
  <2> QED
    BY <2>1, <2>2
<1>5. CutSettled'
  BY <1>2 DEF CutSettled, SettledInv, shutdownVars
<1>6. ForcedWereAsked'
  BY <1>1 DEF CallEffect, ForcedWereAsked, Asked, SettledInv, TypeOK, shutdownVars
<1>7. DrainedBeforeCut'
  BY <1>1, <1>2 DEF CallEffect, DrainedBeforeCut, Settled, SettledInv, shutdownVars
<1> QED
  BY <1>3, <1>4, <1>5, <1>6, <1>7 DEF SettledInv

(* The steps of the sequence, the first of them included.                   *)
LEMMA ShutdownSettles ==
    ASSUME TypeOK, SettledInv, BeginDestroy \/ Shutdown
    PROVE  SettledInv'
<1> USE DEF SettledInv, AfterWorkers, AfterEvents, AfterConnections, TypeOK, RegistryTypeOK
<1>1. CASE BeginDestroy
  BY <1>1 DEF BeginDestroy, Enter, OnlyShutdown, registryVars, QuittersClosed, LoopSettles,
              CutSettled, ForcedWereAsked, DrainedBeforeCut, Settled, getAll
<1>2. ASSUME NEW w \in Workers, CloseWorker(w) PROVE SettledInv'
  <2>1. \A v \in Workers : Settled(v) => Settled(v)'
    BY <1>2 DEF CloseWorker, AskedToClose, Settled
  <2>2. QuittersClosed' /\ ForcedWereAsked'
    BY <1>2 DEF CloseWorker, AskedToClose, QuittersClosed, ForcedWereAsked
  <2>3. LoopSettles' /\ CutSettled' /\ DrainedBeforeCut'
    BY <1>2, <2>1 DEF CloseWorker, LoopSettles, CutSettled, DrainedBeforeCut, getAll, Settled
  <2> QED
    BY <2>2, <2>3
<1>3. ASSUME NEW w \in Workers, QuitWorkerConnection(w) PROVE SettledInv'
  <2>1. Settled(w)
    BY <1>3 DEF QuitWorkerConnection, CutSettled
  <2> QED
    BY <1>3, <2>1 DEF QuitWorkerConnection, QuittersClosed, LoopSettles, CutSettled,
                      ForcedWereAsked, DrainedBeforeCut, Settled, getAll
<1>4. ASSUME NEW q \in Queues, QuitEventsConnection(q) \/ DrainQueue(q) \/ CloseOneQueue(q)
      PROVE  SettledInv'
  BY <1>4 DEF QuitEventsConnection, DrainQueue, CloseOneQueue, registryVars, QuittersClosed, LoopSettles,
              CutSettled, ForcedWereAsked, DrainedBeforeCut, Settled, getAll
<1>5. CASE SilentStep
  BY <1>5, SilentSteps DEF registryVars, shutdownVars, QuittersClosed, LoopSettles, CutSettled,
                           ForcedWereAsked, DrainedBeforeCut, Settled, getAll
<1>6. CASE WorkerClosed
  BY <1>6 DEF WorkerClosed, OnlyShutdown, registryVars, QuittersClosed, LoopSettles, CutSettled,
              ForcedWereAsked, DrainedBeforeCut, Settled, getAll
<1>7. CASE WorkerForced
  BY <1>7 DEF WorkerForced, OnlyShutdown, registryVars, QuittersClosed, LoopSettles, CutSettled,
              ForcedWereAsked, DrainedBeforeCut, Settled, getAll
<1>8. CASE WorkersDone
  BY <1>8, NoneAssumption
     DEF WorkersDone, Enter, OnlyShutdown, registryVars, QuittersClosed, LoopSettles,
         CutSettled, ForcedWereAsked, DrainedBeforeCut, Settled, getAll
<1>9. CASE EventsDone
  BY <1>9, LifecycleAssumption
     DEF EventsDone, Enter, OnlyShutdown, registryVars, QuittersClosed, LoopSettles,
         CutSettled, ForcedWereAsked, DrainedBeforeCut, Settled, getAll, getConnections,
         ObservedQueues
<1>10. CASE \/ ConnectionsDone \/ BeginShutdown \/ DrainDone
            \/ CloseFlowProducer \/ QueuesDone \/ TeardownConnection
  BY <1>10 DEF ConnectionsDone, BeginShutdown, DrainDone, CloseFlowProducer, QueuesDone,
               TeardownConnection, Enter, OnlyShutdown, registryVars, QuittersClosed,
               LoopSettles, CutSettled, ForcedWereAsked, DrainedBeforeCut, Settled, getAll
<1> QED
  BY <1>1, <1>2, <1>3, <1>4, <1>5, <1>6, <1>7, <1>8, <1>9, <1>10 DEF Shutdown, SilentStep

(* Every step preserves the first invariant.                                *)
LEMMA SettledStep ==
    ASSUME ~LateRegistration
    PROVE  TypeOK /\ SettledInv /\ [Next]_vars => SettledInv'
<1> SUFFICES ASSUME TypeOK, SettledInv, [Next]_vars PROVE SettledInv'
  OBVIOUS
<1>1. CASE BeginDestroy \/ Shutdown
  BY <1>1, ShutdownSettles
<1>2. CASE Killed
  BY <1>2 DEF Killed, SettledInv, QuittersClosed, LoopSettles, CutSettled, ForcedWereAsked,
              DrainedBeforeCut, AfterWorkers, AfterEvents, AfterConnections
<1>3. CASE RegistryCall /\ UNCHANGED shutdownVars
  BY <1>3, CallSettles
<1>4. CASE UNCHANGED registryVars /\ UNCHANGED shutdownVars
  BY <1>4 DEF registryVars, shutdownVars, SettledInv, QuittersClosed, LoopSettles, CutSettled,
              ForcedWereAsked, DrainedBeforeCut, Settled, getAll
<1> QED
  BY <1>1, <1>2, <1>3, <1>4, ProcessSteps

(* So it always holds.                                                      *)
LEMMA SettledInvariant ==
    ASSUME ~LateRegistration
    PROVE  Spec => []SettledInv
<1>1. TypeOK /\ SettledInv /\ [Next]_vars => SettledInv'
  BY SettledStep
<1> QED
  BY SettledInit, <1>1, Typing, PTL DEF Spec

(* No connection is cut under a worker that was not asked to close and      *)
(* given its drain budget, however unregister() calls overlap each other    *)
(* and the shutdown.                                                        *)
THEOREM CutsFollowDrains ==
    ASSUME ~LateRegistration
    PROVE  Spec => []DrainedBeforeCut
<1>1. SettledInv => DrainedBeforeCut
  BY DEF SettledInv
<1> QED
  BY SettledInvariant, <1>1, PTL

-----------------------------------------------------------------------------
(* Second invariant: nobody holds a job at the start.                       *)
LEMMA HoldersInit == Init => HoldersWork
  BY DEF Init, JobInit, HoldersWork, HeldBy

(* Only a running worker comes to hold a job.                               *)
LEMMA HoldersShrink ==
    ASSUME JobTypeOK, [Next]_vars, NEW w \in Workers,
           \A j \in Jobs : ~TakeJob(w, j)
    PROVE  HeldBy(w)' \subseteq HeldBy(w)
<1> USE DEF HeldBy, JobTypeOK
<1>1. CASE UNCHANGED jobVars
  BY <1>1 DEF jobVars
<1>2. ASSUME NEW j \in Jobs,
             \/ Add(j, BeforeItsDrain(JobQueue[j])) \/ Promote(j) \/ StalledCheck(j)
             \/ Acknowledge(j) \/ RunElsewhere(j)
      PROVE  HeldBy(w)' \subseteq HeldBy(w)
  BY <1>2 DEF Add, Promote, StalledCheck, Requeue, Acknowledge, RunElsewhere
<1>3. ASSUME NEW j \in Jobs, NEW v \in Workers, TakeJob(v, j)
      PROVE  HeldBy(w)' \subseteq HeldBy(w)
  <2>1. v # w
    BY <1>3
  <2> QED
    BY <1>3, <2>1 DEF TakeJob, Take
<1>4. ASSUME NEW q \in Queues, Drain(q)
      PROVE  HeldBy(w)' \subseteq HeldBy(w)
  BY <1>4 DEF Drain
<1> QED
  BY StepOnJobs, <1>1, <1>2, <1>3, <1>4 DEF JobStep

(* A live worker stays so, unless its own close() resolves.                 *)
LEMMA LiveStays ==
    ASSUME RegistryTypeOK, [Next]_vars, NEW w \in Workers, Live(w),
           ~(WorkerCloses(w) /\ CloseResolves(w))
    PROVE  Live(w)'
<1> USE DEF RegistryTypeOK, Live
<1>1. CASE BeginDestroy \/ Shutdown
  <2>1. CASE \E v \in Workers : CloseWorker(v)
    BY <2>1 DEF CloseWorker, AskedToClose
  <2>2. CASE \A v \in Workers : ~CloseWorker(v)
    <3>1. UNCHANGED worker
      BY <1>1, <2>2
         DEF BeginDestroy, Shutdown, QuitWorkerConnection, CloseOneEvents,
             QuitEventsConnection, DrainQueue, CloseOneQueue, WorkerClosed, WorkerForced,
             WorkersDone, EventsDone, ConnectionsDone, BeginShutdown, DrainDone,
             CloseFlowProducer, QueuesDone, TeardownConnection, OnlyShutdown, registryVars
    <3> QED
      BY <3>1
  <2> QED
    BY <2>1, <2>2
<1>2. CASE Killed
  BY <1>2 DEF Killed
<1>3. ASSUME NEW v \in Workers, WorkerCloses(v) PROVE Live(w)'
  BY <1>3 DEF WorkerCloses, CloseResolves, CloseRejects
<1>4. ASSUME NEW q \in Queues, NEW v \in Workers, RegisterWorker(q, v) PROVE Live(w)'
  BY <1>4 DEF RegisterWorker, Register, RegisterSandboxed, Constructed, ConstructorThrew
<1>5. ASSUME NEW q \in Queues, NEW c \in Callers, UnregisterWorker(c, q) PROVE Live(w)'
  BY <1>5 DEF UnregisterWorker, UnregisterCall, UnregisterCallClosed, AskedToClose
<1>6. ASSUME NEW c \in Callers, UnregisterContinues(c) PROVE Live(w)'
  BY <1>6 DEF UnregisterContinues, UnregisterDeletes
<1>7. ASSUME \/ UNCHANGED vars
             \/ \E q \in Queues : ObserveQueue(q)
             \/ \E j \in Jobs : \/ Enqueue(j) \/ HandlerEnds(j) \/ StalledCheck(j)
                                \/ OtherInstance(j) \/ \E v \in Workers : TakeJob(v, j)
      PROVE  Live(w)'
  <2>1. UNCHANGED registryVars
    BY <1>7 DEF vars, ObserveQueue, Enqueue, HandlerEnds, StalledCheck, OtherInstance, TakeJob
  <2> QED
    BY <2>1 DEF registryVars
<1> QED
  BY <1>1, <1>2, <1>3, <1>4, <1>5, <1>6, <1>7 DEF Next

(* No worker is forgotten as forced, and no dead process revives.           *)
LEMMA ForcedStays ==
    [Next]_vars => forced \subseteq forced' /\ (phase = "dead" => phase' = "dead")
<1> SUFFICES ASSUME [Next]_vars
             PROVE  forced \subseteq forced' /\ (phase = "dead" => phase' = "dead")
  OBVIOUS
<1>1. CASE BeginDestroy \/ Shutdown
  BY <1>1 DEF BeginDestroy, Shutdown, Enter, CloseWorker, QuitWorkerConnection, CloseOneEvents,
              QuitEventsConnection, DrainQueue, CloseOneQueue, WorkerClosed, WorkerForced,
              WorkersDone, EventsDone, ConnectionsDone, BeginShutdown, DrainDone,
              CloseFlowProducer, QueuesDone, TeardownConnection, shutdownVars
<1>2. CASE Killed
  BY <1>2 DEF Killed
<1> QED
  BY <1>1, <1>2, ProcessSteps DEF shutdownVars

(* A worker that closes has ended its jobs, or was forced: a connection cut *)
(* before its close resolved was cut under a forced worker.                 *)
LEMMA HoldersStep ==
    TypeOK /\ DrainedBeforeCut /\ HoldersWork /\ [Next]_vars => HoldersWork'
<1> SUFFICES ASSUME TypeOK, DrainedBeforeCut, HoldersWork, [Next]_vars,
                    phase' # "dead", NEW w \in Workers, HeldBy(w)' # {}
             PROVE  Live(w)' \/ w \in forced'
  BY DEF HoldersWork
<1>1. phase # "dead" /\ forced \subseteq forced'
  BY ForcedStays
<1>2. CASE \E j \in Jobs : TakeJob(w, j)
  BY <1>2 DEF TakeJob, registryVars, Live
<1>3. CASE \A j \in Jobs : ~TakeJob(w, j)
  <2>1. HeldBy(w) # {}
    BY <1>3, HoldersShrink DEF TypeOK
  <2>2. Live(w) \/ w \in forced
    BY <1>1, <2>1 DEF HoldersWork
  <2>3. CASE WorkerCloses(w) /\ CloseResolves(w)
    <3>1. conn[w] = "closed" \/ w \in forced
      BY <2>1, <2>3 DEF WorkerCloses, CloseResolves, CloseRejects, TypeOK, RegistryTypeOK
    <3>2. w \in forced
      BY <1>1, <2>3, <3>1 DEF DrainedBeforeCut, CloseResolves
    <3> QED
      BY <1>1, <3>2
  <2>4. CASE ~(WorkerCloses(w) /\ CloseResolves(w))
    BY <1>1, <2>2, <2>4, LiveStays DEF TypeOK
  <2> QED
    BY <2>3, <2>4
<1> QED
  BY <1>2, <1>3

(* The lock of a job is only lost to a stalled check when its worker used   *)
(* up the drain budget or the process was killed: for any number of jobs    *)
(* and workers, a shutdown runs no other job a second time.                 *)
THEOREM OnlyForcedRerun ==
    ASSUME ~LateRegistration
    PROVE  Spec => OnlyForcedJobsRerun
<1> DEFINE Reruns == \A j \in Jobs : job[j] = "active" /\ job'[j] = "waiting" =>
                         phase = "dead" \/ holder[j] \in forced
<1>1. TypeOK /\ DrainedBeforeCut /\ HoldersWork /\ [Next]_vars => HoldersWork'
  BY HoldersStep
<1>2. TypeOK /\ DrainedBeforeCut /\ HoldersWork /\ [Next]_vars => [Reruns]_vars
  <2> SUFFICES ASSUME TypeOK, DrainedBeforeCut, HoldersWork, [Next]_vars, NEW j \in Jobs,
                      job[j] = "active", job'[j] = "waiting", phase # "dead"
               PROVE  holder[j] \in forced
    OBVIOUS
  <2>1. StalledCheck(j)
    <3>1. ~UNCHANGED jobVars
      BY DEF jobVars
    <3>2. \A q \in Queues : ~Drain(q)
      BY DEF Drain, TypeOK, JobTypeOK
    <3>3. \A k \in Jobs : /\ ~Add(k, BeforeItsDrain(JobQueue[k])) /\ ~Promote(k)
                          /\ ~Acknowledge(k) /\ ~RunElsewhere(k) /\ \A v \in Workers : ~TakeJob(v, k)
      BY DEF Add, Promote, Acknowledge, RunElsewhere, TakeJob, Take, TypeOK, JobTypeOK
    <3>4. PICK k \in Jobs : StalledCheck(k)
      BY StepOnJobs, <3>1, <3>2, <3>3 DEF JobStep
    <3>5. k = j
      BY <3>4 DEF StalledCheck, Requeue, TypeOK, JobTypeOK
    <3> QED
      BY <3>4, <3>5
  <2>2. PICK w \in Workers : j \in HeldBy(w) /\ conn[w] = "closed"
    BY <2>1 DEF StalledCheck
  <2>3. Live(w) \/ w \in forced
    BY <2>2 DEF HoldersWork
  <2>4. w \in forced
    BY <2>2, <2>3 DEF DrainedBeforeCut, Live
  <2> QED
    BY <2>2, <2>4 DEF HeldBy
<1> QED
  BY HoldersInit, <1>1, <1>2, Typing, CutsFollowDrains, PTL DEF Spec, OnlyForcedJobsRerun

-----------------------------------------------------------------------------
(* Third invariant.  The map keeps agreeing with the workers when the       *)
(* sequence asks a worker to close, when it cuts a connection and when the  *)
(* process is killed: none of them touches the map.                         *)
LEMMA MapAgrees ==
    ExclusiveInv /\ TypeOK /\ [Next /\ Exclusive']_vars => ExclusiveInv'
<1> SUFFICES ASSUME ExclusiveInv, TypeOK, [Next /\ Exclusive']_vars PROVE ExclusiveInv'
  OBVIOUS
<1>1. CASE RegistryCall
  <2>1. (Next /\ Exclusive') \/ UNCHANGED registryVars
    BY DEF vars
  <2> QED
    BY <1>1, <2>1, CallIsNext, StepExclusive
<1>2. CASE UNCHANGED registryVars
  BY <1>2, StepExclusive
<1>3. CASE Killed \/ \E w \in Workers : CloseWorker(w) \/ QuitWorkerConnection(w)
  <2>1. UNCHANGED <<entries, name, unreg>>
    BY <1>3 DEF Killed, CloseWorker, QuitWorkerConnection
  <2>2. \A w \in Workers : /\ Live(w)' => Live(w)
                           /\ worker'[w] \in {"unmade", "thrown"} => worker'[w] = worker[w]
                           /\ worker[w] = "closed" => worker'[w] = "closed"
                           /\ conn'[w] \in {"open", "quitting"} => conn'[w] = conn[w]
    BY <1>3 DEF Killed, CloseWorker, QuitWorkerConnection, AskedToClose, TypeOK,
                RegistryTypeOK, ConnStates, Live
  <2>3. RegistryTypeOK'
    BY TypeStep DEF TypeOK
  <2>4. QuittersClosed' /\ Exclusive'
    BY <2>1, <2>2 DEF ExclusiveInv, QuittersClosed, Exclusive, RegistryTypeOK, Frames, Idle
  <2>5. Agreement'
    BY <2>1, <2>2, NoneAssumption
       DEF ExclusiveInv, Agreement, FramesOwn, EntriesNamed, LiveTracked, OpenTracked,
           RegistryTypeOK
  <2> QED
    BY <2>3, <2>4, <2>5 DEF ExclusiveInv
<1>4. CASE BeginDestroy \/ Shutdown
  BY <1>2, <1>3, <1>4
     DEF BeginDestroy, Shutdown, CloseOneEvents, QuitEventsConnection, DrainQueue,
         CloseOneQueue, WorkerClosed, WorkerForced, WorkersDone, EventsDone, ConnectionsDone,
         BeginShutdown, DrainDone, CloseFlowProducer, QueuesDone, TeardownConnection,
         OnlyShutdown
<1> QED
  BY <1>1, <1>2, <1>3, <1>4, ProcessSteps

(* Every behaviour without overlapping calls is one of the system.          *)
LEMMA LifecycleIsSpec == ExclusiveLifecycle => Spec
<1>1. [Next /\ Exclusive']_vars => [Next]_vars
  OBVIOUS
<1> QED
  BY <1>1, PTL DEF ExclusiveLifecycle, Spec

(* With one caller of unregister(), as in the runs, nothing overlaps.       *)
LEMMA OneCaller ==
    ASSUME \A c, d \in Callers : c = d
    PROVE  Spec => ExclusiveLifecycle
<1>1. [Next]_vars => [Next /\ Exclusive']_vars
  BY DEF Exclusive
<1> QED
  BY <1>1, PTL DEF ExclusiveLifecycle, Spec

(* While no two unregister() calls for one queue overlap, it always does.   *)
LEMMA MapInvariant == ExclusiveLifecycle => []ExclusiveInv
<1>1. Init => ExclusiveInv
  BY InitExclusive DEF Init
<1>2. ExclusiveInv /\ TypeOK /\ [Next /\ Exclusive']_vars => ExclusiveInv'
  BY MapAgrees
<1> QED
  BY <1>1, <1>2, LifecycleIsSpec, Typing, PTL DEF ExclusiveLifecycle

(* The loop over the connections starts from the map, which knows every     *)
(* open one, and nothing opens another.                                     *)
LEMMA ConnectionsStep ==
    ASSUME ~LateRegistration
    PROVE  TypeOK /\ ExclusiveInv /\ ConnectionsReleased /\ [Next]_vars
               => ConnectionsReleased'
<1> SUFFICES ASSUME TypeOK, ExclusiveInv, ConnectionsReleased, [Next]_vars
             PROVE  ConnectionsReleased'
  OBVIOUS
<1> USE DEF ConnectionsReleased, AfterConnections, TypeOK, RegistryTypeOK, ConnStates
<1>1. CASE RegistryCall /\ UNCHANGED shutdownVars
  <2>1. CallEffect
    BY <1>1, CallEffects DEF ExclusiveInv
  <2>2. CASE phase = "up"
    BY <1>1, <2>2 DEF shutdownVars
  <2>3. CASE phase # "up"
    <3>1. \A w \in Workers :
              conn'[w] \in {"open", "quitting"} => conn[w] \in {"open", "quitting"}
      BY <2>1, <2>3 DEF CallEffect, Registering, MayRegister
    <3>2. conn' \in [Workers -> ConnStates]
      BY TypeStep
    <3> QED
      BY <1>1, <3>1, <3>2 DEF shutdownVars
  <2> QED
    BY <2>2, <2>3
<1>2. CASE UNCHANGED registryVars /\ UNCHANGED shutdownVars
  BY <1>2 DEF registryVars, shutdownVars
<1>3. CASE Killed
  BY <1>3 DEF Killed
<1>4. CASE EventsDone
  <2>1. \A w \in Workers : conn[w] \in {"open", "quitting"} => w \in getConnections
    BY NoneAssumption DEF ExclusiveInv, Agreement, OpenTracked, getConnections, getAll
  <2> QED
    BY <1>4, <2>1 DEF EventsDone, Enter, OnlyShutdown, registryVars
<1>5. ASSUME NEW w \in Workers, CloseWorker(w) \/ QuitWorkerConnection(w)
      PROVE  ConnectionsReleased'
  BY <1>5 DEF CloseWorker, QuitWorkerConnection
<1>6. ASSUME NEW q \in Queues, QuitEventsConnection(q) \/ DrainQueue(q) \/ CloseOneQueue(q)
      PROVE  ConnectionsReleased'
  BY <1>6, LifecycleAssumption
     DEF QuitEventsConnection, DrainQueue, CloseOneQueue, registryVars
<1>7. CASE SilentStep
  BY <1>7, SilentSteps DEF registryVars, shutdownVars
<1>8. CASE \/ BeginDestroy \/ WorkerClosed \/ WorkerForced \/ WorkersDone \/ ConnectionsDone
           \/ BeginShutdown \/ DrainDone \/ CloseFlowProducer \/ QueuesDone
           \/ TeardownConnection
  BY <1>8 DEF BeginDestroy, WorkerClosed, WorkerForced, WorkersDone, ConnectionsDone,
              BeginShutdown, DrainDone, CloseFlowProducer, QueuesDone, TeardownConnection,
              Enter, OnlyShutdown, registryVars
<1> QED
  BY <1>1, <1>2, <1>3, <1>4, <1>5, <1>6, <1>7, <1>8, ProcessSteps DEF Shutdown, SilentStep

(* What the other steps do to the events registry.                          *)
LEMMA EventsKept ==
    ASSUME [Next]_vars, ~Killed,
           \A q \in Queues : ~CloseOneEvents(q) /\ ~QuitEventsConnection(q) /\ ~ObserveQueue(q)
    PROVE  UNCHANGED eventsVars
<1>1. CASE BeginDestroy \/ Shutdown
  BY <1>1 DEF BeginDestroy, Shutdown, OnlyShutdown, CloseWorker, QuitWorkerConnection,
              DrainQueue, CloseOneQueue, WorkerClosed, WorkerForced, WorkersDone, EventsDone,
              ConnectionsDone, BeginShutdown, DrainDone, CloseFlowProducer, QueuesDone,
              TeardownConnection
<1> QED
  BY <1>1 DEF Next, vars, RegisterWorker, UnregisterWorker, UnregisterContinues, WorkerCloses,
              Enqueue, HandlerEnds, StalledCheck, OtherInstance, TakeJob

(* Both loops over the events registry visit all that is open, and nothing  *)
(* is observed once the context closes.                                     *)
LEMMA EventsStep ==
    ASSUME ~LateRegistration
    PROVE  TypeOK /\ EventsReleased /\ [Next]_vars => EventsReleased'
<1> SUFFICES ASSUME TypeOK, EventsReleased, [Next]_vars PROVE EventsReleased'
  OBVIOUS
<1> USE DEF EventsReleased, AfterEvents, AfterConnections, TypeOK, EventsTypeOK, ObjectStates
<1>1. ASSUME NEW q \in Queues, CloseOneEvents(q) PROVE EventsReleased'
  BY <1>1 DEF CloseOneEvents, CloseEvents, shutdownVars
<1>2. ASSUME NEW q \in Queues, QuitEventsConnection(q) PROVE EventsReleased'
  BY <1>2 DEF QuitEventsConnection, QuitEventsConn
<1>3. ASSUME NEW q \in Queues, ObserveQueue(q) PROVE EventsReleased'
  BY <1>3 DEF ObserveQueue, MayRegister, shutdownVars
<1>4. CASE Killed
  BY <1>4 DEF Killed
<1>5. CASE UNCHANGED eventsVars
  <2>1. CASE UNCHANGED shutdownVars
    BY <1>5, <2>1 DEF eventsVars, shutdownVars
  <2>2. CASE EventsDone
    BY <1>5, <2>2 DEF EventsDone, Enter, eventsVars, ObservedQueues
  <2>3. ASSUME NEW w \in Workers, CloseWorker(w) \/ QuitWorkerConnection(w)
        PROVE  EventsReleased'
    BY <1>5, <2>3, LifecycleAssumption DEF CloseWorker, QuitWorkerConnection, eventsVars
  <2>4. ASSUME NEW q \in Queues, DrainQueue(q) \/ CloseOneQueue(q) PROVE EventsReleased'
    BY <1>5, <2>4 DEF DrainQueue, CloseOneQueue, eventsVars
  <2>5. CASE \/ BeginDestroy \/ WorkerClosed \/ WorkerForced \/ WorkersDone \/ ConnectionsDone
             \/ BeginShutdown \/ DrainDone \/ CloseFlowProducer \/ QueuesDone
             \/ TeardownConnection
    BY <1>5, <2>5 DEF BeginDestroy, WorkerClosed, WorkerForced, WorkersDone, ConnectionsDone,
                      BeginShutdown, DrainDone, CloseFlowProducer, QueuesDone,
                      TeardownConnection, Enter, eventsVars
  <2> QED
    BY <1>1, <1>2, <1>4, <2>1, <2>2, <2>3, <2>4, <2>5, ProcessSteps, SilentSteps
       DEF Shutdown, SilentStep
<1> QED
  BY <1>1, <1>2, <1>3, <1>4, <1>5, EventsKept

(* The producer side is taken down in the order of the phases.              *)
LEMMA ProducersStep == TypeOK /\ ProducersReleased /\ [Next]_vars => ProducersReleased'
<1> SUFFICES ASSUME TypeOK, ProducersReleased, [Next]_vars PROVE ProducersReleased'
  OBVIOUS
<1> USE DEF ProducersReleased, TypeOK, ProducerTypeOK
<1>1. CASE UNCHANGED <<flow, client>> /\ UNCHANGED shutdownVars
  BY <1>1 DEF shutdownVars
<1>2. CASE CloseFlowProducer
  BY <1>2 DEF CloseFlowProducer, CloseFlow, Enter
<1>3. CASE QueuesDone
  BY <1>3 DEF QueuesDone, ClearQueues, Enter
<1>4. CASE TeardownConnection
  BY <1>4, ModeAssumption DEF TeardownConnection, Teardown, isOwned, Enter
<1>5. CASE Killed
  BY <1>5 DEF Killed, producerVars
<1>6. CASE \/ BeginDestroy \/ WorkerClosed \/ WorkerForced \/ WorkersDone \/ EventsDone
           \/ ConnectionsDone \/ BeginShutdown \/ DrainDone
           \/ \E w \in Workers : CloseWorker(w) \/ QuitWorkerConnection(w)
           \/ \E q \in Queues : \/ QuitEventsConnection(q) \/ DrainQueue(q)
                               \/ CloseOneQueue(q)
  BY <1>6 DEF BeginDestroy, WorkerClosed, WorkerForced, WorkersDone, EventsDone,
              ConnectionsDone, BeginShutdown, DrainDone, CloseWorker, QuitWorkerConnection,
              QuitEventsConnection, DrainQueue, CloseOneQueue, CloseQueue, Enter, OnlyShutdown,
              producerVars
<1>7. ASSUME NEW q \in Queues, CloseOneEvents(q)
      PROVE  UNCHANGED <<flow, client>> /\ UNCHANGED shutdownVars
  BY <1>7 DEF CloseOneEvents, producerVars
<1>8. ASSUME ~BeginDestroy, ~Shutdown, ~Killed
      PROVE  UNCHANGED <<flow, client>> /\ UNCHANGED shutdownVars
  <2>1. UNCHANGED <<flow, client>>
    BY <1>8 DEF Next, vars, ObserveQueue, RegisterWorker, UnregisterWorker,
                UnregisterContinues, WorkerCloses, Enqueue, HandlerEnds, StalledCheck,
                OtherInstance, TakeJob, producerVars
  <2> QED
    BY <1>8, <2>1, ProcessSteps
<1> QED
  BY <1>1, <1>2, <1>3, <1>4, <1>5, <1>6, <1>7, <1>8 DEF Shutdown

(* All three hold at the start.                                             *)
LEMMA ReleasedInit ==
    Init => ConnectionsReleased /\ EventsReleased /\ ProducersReleased
  BY ModeAssumption
     DEF Init, ProducerInit, ConnectionsReleased, EventsReleased, ProducersReleased,
         AfterEvents, AfterConnections

(* And always, while calls do not overlap and nothing registers late.       *)
LEMMA ReleasedInvariant ==
    ASSUME ~LateRegistration
    PROVE  ExclusiveLifecycle =>
               [](TypeOK /\ ExclusiveInv /\ ConnectionsReleased /\ EventsReleased
                  /\ ProducersReleased /\ SettledInv)
<1>1. TypeOK /\ ExclusiveInv /\ ConnectionsReleased /\ [Next]_vars => ConnectionsReleased'
  BY ConnectionsStep
<1>2. TypeOK /\ EventsReleased /\ [Next]_vars => EventsReleased'
  BY EventsStep
<1>3. TypeOK /\ ProducersReleased /\ [Next]_vars => ProducersReleased'
  BY ProducersStep
<1>4. Init => ConnectionsReleased /\ EventsReleased /\ ProducersReleased
  BY ReleasedInit
<1> QED
  BY <1>1, <1>2, <1>3, <1>4, LifecycleIsSpec, MapInvariant, Typing, SettledInvariant, PTL
     DEF Spec

(* The client the consumer handed over in Mode A is never closed; in Mode B *)
(* the library's is closed last, after the flow producer and after every    *)
(* connection duplicated from it.                                           *)
THEOREM ClientLast ==
    ASSUME ~LateRegistration
    PROVE  ExclusiveLifecycle => []ClientClosedLast
<1>1. TypeOK /\ ConnectionsReleased /\ EventsReleased /\ ProducersReleased => ClientClosedLast
  BY DEF TypeOK, EventsTypeOK, ObjectStates, ConnectionsReleased, EventsReleased,
         ProducersReleased, ClientClosedLast, AfterConnections
<1> QED
  BY <1>1, ReleasedInvariant, PTL

(* When the sequence is over every connection and every QueueEvents the     *)
(* library opened is closed, and every worker was closed or forced.         *)
THEOREM AllClosed ==
    ASSUME ~LateRegistration
    PROVE  ExclusiveLifecycle => []NothingLeftOpen
<1>1. ASSUME TypeOK, ExclusiveInv, ConnectionsReleased, EventsReleased, ProducersReleased,
             SettledInv, phase = "done"
      PROVE  NothingLeftOpen
  <2>1. ASSUME NEW w \in Workers, Live(w) PROVE w \in forced /\ worker[w] # "running"
    <3>1. w \in getAll
      BY <1>1, <2>1, NoneAssumption DEF ExclusiveInv, Agreement, LiveTracked, getAll
    <3>2. Settled(w)
      BY <1>1, <3>1
         DEF SettledInv, LoopSettles, AfterWorkers, AfterEvents, AfterConnections
    <3> QED
      BY <2>1, <3>2, <1>1 DEF Settled, Live, SettledInv, ForcedWereAsked
  <2>2. \A w \in Workers : conn[w] \in {"none", "closed"}
    BY <1>1 DEF ConnectionsReleased, AfterConnections
  <2>3. \A q \in Queues : events[q] # "open" /\ eventsConn[q] # "open"
    BY <1>1 DEF EventsReleased, AfterEvents, AfterConnections
  <2>4. ModeA \/ client = "closed"
    BY <1>1 DEF ProducersReleased
  <2> QED
    BY <2>1, <2>2, <2>3, <2>4 DEF NothingLeftOpen, Live
<1>2. TypeOK /\ ExclusiveInv /\ ConnectionsReleased /\ EventsReleased /\ ProducersReleased
      /\ SettledInv => NothingLeftOpen
  BY <1>1 DEF NothingLeftOpen
<1> QED
  BY <1>2, ReleasedInvariant, PTL

-----------------------------------------------------------------------------
(* Fifth invariant.                                                         *)
LEMMA FreshInit == Init => FreshInv
  BY DEF Init, JobInit, FreshInv, FreshWait, FreshCached, VisitedDrained, LateJobsAreDrained

(* What a cached queue can come to: it is visited by closeAll(), or the      *)
(* cache is cleared.                                                        *)
LEMMA CachedSteps ==
    ASSUME TypeOK, [Next]_vars, NEW q \in Queues, queue[q] # "none",
           ~CloseOneQueue(q), ~QueuesDone
    PROVE  queue'[q] = queue[q]
<1> USE DEF TypeOK, ProducerTypeOK
<1>1. ASSUME NEW r \in Queues, CloseOneQueue(r) PROVE queue'[q] = queue[q]
  BY <1>1 DEF CloseOneQueue, CloseQueue
<1>2. CASE (BeginDestroy \/ Shutdown) /\ \A r \in Queues : ~CloseOneQueue(r)
  BY <1>2 DEF BeginDestroy, Shutdown, Enter, OnlyShutdown, CloseWorker, QuitWorkerConnection,
              CloseOneEvents, QuitEventsConnection, DrainQueue,
              WorkerClosed, WorkerForced, WorkersDone, EventsDone, ConnectionsDone,
              BeginShutdown, DrainDone, CloseFlowProducer, CloseFlow,
              TeardownConnection, Teardown, producerVars
<1>3. ASSUME NEW j \in Jobs, Enqueue(j) PROVE queue'[q] = queue[q]
  BY <1>3 DEF Enqueue, GetOrCreateQueue
<1> QED
  BY <1>1, <1>2, <1>3 DEF Next, vars, ObserveQueue, RegisterWorker, UnregisterWorker,
                    UnregisterContinues, WorkerCloses, HandlerEnds, StalledCheck,
                    OtherInstance, TakeJob, Killed, producerVars

(* A queue that is cached stays so until the cache is cleared.              *)
LEMMA CachedStays ==
    ASSUME TypeOK, [Next]_vars, ~QueuesDone, NEW q \in Queues, queue[q] # "none"
    PROVE  queue'[q] # "none"
<1>1. CASE CloseOneQueue(q)
  BY <1>1 DEF CloseOneQueue, CloseQueue, TypeOK, ProducerTypeOK
<1> QED
  BY <1>1, CachedSteps

(* Every step preserves the fourth invariant: a loop begins with nothing    *)
(* visited, a visit is of a cached queue, and a queue cached meanwhile has  *)
(* not been visited.                                                        *)
LEMMA VisitsStep == TypeOK /\ VisitsInv /\ [Next]_vars => VisitsInv'
<1> SUFFICES ASSUME TypeOK, VisitsInv, [Next]_vars, NEW q \in Queues, q \in todo',
                    phase' \in {"drain", "queues"}
             PROVE  queue'[q] # "none" /\ (phase' = "queues" => queue'[q] # "open")
  BY DEF VisitsInv, VisitedCached, VisitedClosed
<1> USE DEF VisitsInv, VisitedCached, VisitedClosed
<1>1. CASE UNCHANGED shutdownVars
  <2>1. ~CloseOneQueue(q) /\ ~QueuesDone
    BY <1>1 DEF CloseOneQueue, QueuesDone, Enter, shutdownVars
  <2> QED
    BY <1>1, <2>1, CachedSteps DEF shutdownVars
<1>2. ASSUME NEW r \in Queues, DrainQueue(r)
      PROVE  queue'[q] # "none" /\ (phase' = "queues" => queue'[q] # "open")
  BY <1>2 DEF DrainQueue, CachedQueues, producerVars
<1>3. ASSUME NEW r \in Queues, CloseOneQueue(r)
      PROVE  queue'[q] # "none" /\ (phase' = "queues" => queue'[q] # "open")
  BY <1>3 DEF CloseOneQueue, CloseQueue, CachedQueues, TypeOK, ProducerTypeOK
<1>4. CASE \/ BeginDestroy \/ WorkerClosed \/ WorkerForced \/ WorkersDone \/ EventsDone
           \/ ConnectionsDone \/ BeginShutdown \/ DrainDone \/ CloseFlowProducer
           \/ QueuesDone \/ TeardownConnection \/ Killed
           \/ \E w \in Workers : CloseWorker(w) \/ QuitWorkerConnection(w)
           \/ \E r \in Queues : QuitEventsConnection(r)
  BY <1>4 DEF BeginDestroy, WorkerClosed, WorkerForced, WorkersDone, EventsDone,
              ConnectionsDone, BeginShutdown, DrainDone, CloseFlowProducer, QueuesDone,
              TeardownConnection, Killed, CloseWorker, QuitWorkerConnection,
              QuitEventsConnection, Enter
<1> QED
  BY <1>1, <1>2, <1>3, <1>4, ProcessSteps, SilentSteps DEF Shutdown, SilentStep

(* So it always holds.                                                      *)
LEMMA VisitsInvariant == Spec => []VisitsInv
<1>1. Init => VisitsInv
  BY DEF Init, VisitsInv, VisitedCached, VisitedClosed
<1> QED
  BY <1>1, VisitsStep, Typing, PTL DEF Spec

(* What joins the fresh jobs: only what is added before the drain has come  *)
(* to its queue, which is then cached.                                      *)
LEMMA FreshJoin ==
    ASSUME TypeOK, FreshWait, [Next]_vars, NEW j \in fresh', j \notin fresh
    PROVE  /\ j \in Jobs /\ BeforeItsDrain(JobQueue[j])
           /\ UNCHANGED shutdownVars /\ queue'[JobQueue[j]] # "none"
<1> USE DEF TypeOK, JobTypeOK
<1>1. ASSUME NEW k \in Jobs, Enqueue(k)
      PROVE  /\ j \in Jobs /\ BeforeItsDrain(JobQueue[j])
             /\ UNCHANGED shutdownVars /\ queue'[JobQueue[j]] # "none"
  <2>1. Add(k, BeforeItsDrain(JobQueue[k]))
    BY <1>1 DEF Enqueue, jobVars
  <2>2. BeforeItsDrain(JobQueue[k]) /\ k = j
    BY <2>1 DEF Add
  <2>3. queue'[JobQueue[k]] # "none"
    BY <1>1, JobQueueAssumption DEF Enqueue, GetOrCreateQueue, ProducerTypeOK
  <2> QED
    BY <1>1, <2>2, <2>3 DEF Enqueue
<1>2. CASE \A k \in Jobs : ~Enqueue(k)
  <2>1. fresh' \subseteq fresh
    <3>1. CASE \E q \in Queues : Drain(q)
      BY <3>1 DEF Drain
    <3>2. CASE \E k \in Jobs : \/ HandlerEnds(k) \/ StalledCheck(k) \/ OtherInstance(k)
                               \/ \E w \in Workers : TakeJob(w, k)
      BY <3>2 DEF HandlerEnds, Acknowledge, StalledCheck, Requeue, OtherInstance, Promote,
                  RunElsewhere, TakeJob, Take
    <3>3. CASE BeginDestroy \/ Shutdown \/ Killed
      BY <3>1, <3>3
         DEF BeginDestroy, Shutdown, Killed, OnlyShutdown, CloseWorker, QuitWorkerConnection,
             CloseOneEvents, QuitEventsConnection, DrainQueue, CloseOneQueue, WorkerClosed,
             WorkerForced, WorkersDone, EventsDone, ConnectionsDone, BeginShutdown, DrainDone,
             CloseFlowProducer, QueuesDone, TeardownConnection, jobVars
    <3> QED
      BY <1>2, <3>2, <3>3 DEF Next, vars, jobVars, ObserveQueue, RegisterWorker,
                              UnregisterWorker, UnregisterContinues, WorkerCloses
  <2> QED
    BY <2>1
<1> QED
  BY <1>1, <1>2

(* A fresh job is waiting: whoever takes it off the queue takes it off the  *)
(* fresh jobs.                                                              *)
LEMMA FreshWaitStep == TypeOK /\ FreshWait /\ [Next]_vars => FreshWait'
<1> SUFFICES ASSUME JobTypeOK, FreshWait, JobStep PROVE FreshWait'
  BY StepOnJobs DEF TypeOK
<1> USE DEF JobTypeOK, FreshWait
<1>1. CASE UNCHANGED jobVars
  BY <1>1 DEF jobVars
<1>2. ASSUME NEW k \in Jobs, Add(k, BeforeItsDrain(JobQueue[k])) PROVE FreshWait'
  BY <1>2 DEF Add
<1>3. ASSUME NEW k \in Jobs, Promote(k) \/ StalledCheck(k) \/ Acknowledge(k)
      PROVE  FreshWait'
  BY <1>3 DEF Promote, StalledCheck, Requeue, Acknowledge
<1>4. ASSUME NEW k \in Jobs, RunElsewhere(k) \/ \E w \in Workers : TakeJob(w, k)
      PROVE  FreshWait'
  BY <1>4 DEF RunElsewhere, TakeJob, Take
<1>5. ASSUME NEW q \in Queues, Drain(q) PROVE FreshWait'
  BY <1>5 DEF Drain
<1> QED
  BY <1>1, <1>2, <1>3, <1>4, <1>5 DEF JobStep

(* The loop of the drain: each queue it visits loses its fresh jobs, or its *)
(* failure is reported.                                                     *)
LEMMA FreshDrained ==
    ASSUME TypeOK, FreshInv, NEW q \in Queues, DrainQueue(q)
    PROVE  VisitedDrained'
<1> SUFFICES ASSUME NEW j \in fresh', JobQueue[j] \in todo'
             PROVE  JobQueue[j] \in undrained'
  BY DEF VisitedDrained
<1> USE DEF DrainQueue, FreshInv, VisitedDrained, TypeOK, JobTypeOK
<1>1. CASE Drain(q) /\ UNCHANGED undrained
  <2>1. j \in fresh /\ job[j] = "waiting" /\ job'[j] = "waiting"
    BY <1>1 DEF Drain, FreshWait
  <2>2. JobQueue[j] # q
    BY <1>1, <2>1 DEF Drain
  <2> QED
    BY <1>1, <2>1, <2>2
<1>2. CASE undrained' = undrained \cup {q} /\ UNCHANGED jobVars
  BY <1>2 DEF jobVars
<1> QED
  BY <1>1, <1>2

(* Every step preserves the fifth invariant: a fresh job is added to a      *)
(* queue the drain has still to come to, and the drain ends only when every *)
(* cached queue was visited.                                                *)
LEMMA FreshStep == TypeOK /\ VisitsInv /\ FreshInv /\ [Next]_vars => FreshInv'
<1> SUFFICES ASSUME TypeOK, VisitsInv, FreshInv, [Next]_vars PROVE FreshInv'
  OBVIOUS
<1>1. FreshWait'
  BY FreshWaitStep DEF FreshInv
<1>2. \A j \in fresh' : j \notin fresh =>
          /\ ServerUp \/ (phase = "drain" /\ JobQueue[j] \notin todo)
          /\ UNCHANGED shutdownVars /\ queue'[JobQueue[j]] # "none"
  <2> SUFFICES ASSUME NEW j \in fresh', j \notin fresh
               PROVE  /\ ServerUp \/ (phase = "drain" /\ JobQueue[j] \notin todo)
                      /\ UNCHANGED shutdownVars /\ queue'[JobQueue[j]] # "none"
    OBVIOUS
  <2>1. /\ j \in Jobs /\ BeforeItsDrain(JobQueue[j])
        /\ UNCHANGED shutdownVars /\ queue'[JobQueue[j]] # "none"
    BY FreshJoin DEF FreshInv
  <2> QED
    BY <2>1, JobQueueAssumption
       DEF BeforeItsDrain, Visited, CachedQueues, VisitsInv, VisitedCached
<1>3. CASE UNCHANGED shutdownVars
  <2> ~QueuesDone
    BY <1>3 DEF QueuesDone, Enter, shutdownVars
  <2>1. FreshCached'
    BY <1>2, <1>3, CachedStays, JobQueueAssumption
       DEF FreshCached, FreshInv, TypeOK, JobTypeOK, ServerUp, shutdownVars
  <2>2. VisitedDrained' /\ LateJobsAreDrained'
    BY <1>2, <1>3 DEF FreshInv, VisitedDrained, LateJobsAreDrained, ServerUp, shutdownVars
  <2> QED
    BY <1>1, <2>1, <2>2 DEF FreshInv
<1>4. CASE ~UNCHANGED shutdownVars
  <2>1. fresh' \subseteq fresh
    BY <1>2, <1>4
  <2>2. FreshCached'
    <3>1. BeginDestroy \/ Shutdown \/ Killed
      BY <1>4, ProcessSteps
    <3>2. ServerUp' \/ phase' = "drain" => ~QueuesDone /\ (ServerUp \/ phase = "drain")
      BY <3>1, <1>4 DEF BeginDestroy, Shutdown, Killed, Enter, CloseWorker, QuitWorkerConnection,
                  CloseOneEvents, QuitEventsConnection, DrainQueue, CloseOneQueue,
                  WorkerClosed, WorkerForced, WorkersDone, EventsDone, ConnectionsDone,
                  BeginShutdown, DrainDone, CloseFlowProducer, QueuesDone,
                  TeardownConnection, ServerUp
    <3> QED
      BY <2>1, <3>2, CachedStays, JobQueueAssumption
         DEF FreshCached, FreshInv, TypeOK, JobTypeOK
  <2>3. CASE \E q \in Queues : DrainQueue(q)
    <3>1. VisitedDrained'
      BY <2>3, FreshDrained
    <3>2. LateJobsAreDrained'
      BY <2>3 DEF DrainQueue, LateJobsAreDrained
    <3> QED
      BY <1>1, <2>2, <3>1, <3>2 DEF FreshInv
  <2>4. CASE DrainDone
    <3>1. \A j \in fresh : JobQueue[j] \in undrained
      BY <2>4, JobQueueAssumption
         DEF DrainDone, CachedQueues, FreshInv, FreshCached, VisitedDrained, TypeOK, JobTypeOK
    <3> QED
      BY <1>1, <2>1, <2>2, <2>4, <3>1
         DEF DrainDone, Enter, FreshInv, VisitedDrained, LateJobsAreDrained
  <2>5. CASE BeginShutdown
    BY <1>1, <2>1, <2>2, <2>5
       DEF BeginShutdown, Enter, FreshInv, VisitedDrained, LateJobsAreDrained
  <2>6. CASE CloseFlowProducer \/ QueuesDone \/ TeardownConnection
    BY <1>1, <2>1, <2>2, <2>6
       DEF CloseFlowProducer, QueuesDone, TeardownConnection, Enter, FreshInv,
           VisitedDrained, LateJobsAreDrained
  <2>7. CASE \/ BeginDestroy \/ Killed \/ WorkerClosed \/ WorkerForced \/ WorkersDone
             \/ EventsDone \/ ConnectionsDone
             \/ \E w \in Workers : CloseWorker(w) \/ QuitWorkerConnection(w)
             \/ \E q \in Queues : QuitEventsConnection(q)
    <3>1. phase' \in {"workers", "events", "connections", "destroyed", "dead"}
      BY <2>7 DEF BeginDestroy, Killed, WorkerClosed, WorkerForced, WorkersDone, EventsDone,
                  ConnectionsDone, CloseWorker, QuitWorkerConnection, QuitEventsConnection,
                  Enter
    <3> QED
      BY <1>1, <2>2, <3>1 DEF FreshInv, VisitedDrained, LateJobsAreDrained
  <2>8. CASE \E q \in Queues : CloseOneQueue(q)
    BY <1>1, <2>1, <2>2, <2>8
       DEF CloseOneQueue, FreshInv, VisitedDrained, LateJobsAreDrained
  <2> QED
    BY <1>4, <2>3, <2>4, <2>5, <2>6, <2>7, <2>8, ProcessSteps, SilentSteps
       DEF Shutdown, SilentStep
<1> QED
  BY <1>3, <1>4

(* With drainOnShutdown, a job that has waited since it was added before    *)
(* the drain came to its queue, by a request or by a handler that runs on   *)
(* while other queues are drained, is only left behind in a queue whose     *)
(* failed drain was reported.                                               *)
THEOREM LateJobsDrained == Spec => []LateJobsAreDrained
<1>1. TypeOK /\ VisitsInv /\ FreshInv /\ [Next]_vars => FreshInv'
  BY FreshStep
<1>2. FreshInv => LateJobsAreDrained
  BY DEF FreshInv
<1> QED
  BY FreshInit, <1>1, <1>2, Typing, VisitsInvariant, PTL DEF Spec

-----------------------------------------------------------------------------
(* A queue leaves the cache only after its close() was called, also one     *)
(* that a handler cached while closeAll() was waiting for another: the loop *)
(* ends only when every cached queue was visited.                           *)
THEOREM ClearedClosed == Spec => ClearedQueuesWereClosed
<1> DEFINE Cleared == \A q \in Queues : queue'[q] = "none" => queue[q] # "open"
<1>1. TypeOK /\ VisitsInv /\ [Next]_vars => [Cleared]_vars
  <2> SUFFICES ASSUME TypeOK, VisitsInv, [Next]_vars, NEW q \in Queues, queue'[q] = "none",
                      queue[q] # "none"
               PROVE  queue[q] # "open"
    OBVIOUS
  <2>1. QueuesDone
    BY CachedStays
  <2>2. q \in todo
    BY <2>1 DEF QueuesDone, CachedQueues
  <2> QED
    BY <2>1, <2>2 DEF QueuesDone, VisitsInv, VisitedClosed
<1> QED
  BY <1>1, Typing, VisitsInvariant, PTL DEF Spec, ClearedQueuesWereClosed
=============================================================================
