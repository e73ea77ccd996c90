----------------------------- MODULE Bootstrap -----------------------------
(***************************************************************************)
(* How the module starts: forRoot of src/server/bymax-queue.module.ts,     *)
(* ConnectionResolver.init of connection-resolver.service.ts, the service  *)
(* factories, and onModuleInit of processor-discovery.service.ts.          *)
(*                                                                         *)
(* `boot' is where the start stands:                                       *)
(*    "options"    forRoot validates the options                           *)
(*    "connect"    the ConnectionResolver factory calls init()             *)
(*    "wait"       waitReady: the owned client is not ready yet            *)
(*    "providers"  the services are constructed                            *)
(*    "hooks"      the onModuleInit hooks run, discovery among them        *)
(*    "up"         the application listens                                 *)
(*    "failed"     some step threw, NestJS gives up                        *)
(*                                                                         *)
(* A number of the options is an integer, NaN, or Undefined when absent.   *)
(***************************************************************************)
EXTENDS Integers, Sequences, JobDispatch

CONSTANTS Queues, Processors,
          Listening,         \* the classes with @OnQueueEvent listeners
          None, App,         \* no owner; a worker the application registers
          NaN, Undefined,
          DrainTimeouts,     \* the values of shutdown.drainTimeoutMs to try
          CacheTtls,         \* the values of metrics.cacheTtlMs to try
          DefaultDrain,      \* DEFAULT_SHUTDOWN_DRAIN_TIMEOUT_MS
          MaxDelay,          \* the longest delay of a Node timer, 2^31 - 1
          HandlerLists       \* the @Process entries a class may have

ASSUME BootstrapAssumption ==
    /\ Listening \subseteq Processors
    /\ {None, App} \cap Processors = {}
    /\ DrainTimeouts \cup CacheTtls \subseteq Int \cup {NaN, Undefined}
    /\ DefaultDrain \in 1 .. MaxDelay
    /\ HandlerLists \subseteq Seq(HandlerEntry)

VARIABLES options,     \* what the application passes to forRoot
          queueOf,     \* the queue each @Processor class names
          drain,       \* the resolved shutdown.drainTimeoutMs
          boot,
          status,      \* ioredis: the status of the Queue-role client
          usable,      \* the client was ready, or its probe was checked
          armed,       \* what waitReady has registered
          todo,        \* processors onModuleInit has not wired yet
          registered,  \* #registeredQueues of ProcessorDiscoveryService
          owner,       \* WorkerRegistry: queue -> whose worker
          opened,      \* QueueEventsRegistry: queue -> connections opened
          flow,        \* the FlowProducer exists
          handlers,    \* the @Process entries of the wired classes
          dispatcher   \* what buildDispatcher made of them

inputs == <<options, queueOf>>
connectionVars == <<status, usable, armed>>
wiringVars == <<todo, registered, owner, opened, flow, handlers, dispatcher>>
vars == <<inputs, drain, boot, connectionVars, wiringVars>>

Arms == {"client", "url", "options"}
Options == [connection : SUBSET Arms, urlParses : BOOLEAN,
            drainTimeoutMs : DrainTimeouts, cacheTtlMs : CacheTtls, flows : BOOLEAN]
Statuses == {"none", "wait", "connecting", "ready", "reconnecting", "end"}

BootTypeOK ==
    /\ options \in Options
    /\ queueOf \in [Processors -> Queues]
    /\ drain \in Int \cup {NaN, Undefined}
    /\ boot \in {"options", "connect", "wait", "providers", "hooks", "up", "failed"}
    /\ status \in Statuses
    /\ usable \in BOOLEAN
    /\ armed \subseteq {"ready", "error", "timer"}
    /\ todo \subseteq Processors
    /\ registered \subseteq Queues
    /\ owner \in [Queues -> Processors \cup {None, App}]
    /\ opened \in [Queues -> 0 .. 1]
    /\ flow \in BOOLEAN

(* The application's own client may be in any state when it is handed over. *)
ModeA == "client" \in options.connection

Init ==
    /\ options \in Options
    /\ queueOf \in [Processors -> Queues]
    /\ drain = Undefined
    /\ boot = "options"
    /\ status \in IF ModeA THEN Statuses \ {"none"} ELSE {"none"}
    /\ usable = FALSE
    /\ armed = {}
    /\ todo = {}
    /\ registered = {}
    /\ owner = [q \in Queues |-> None]
    /\ opened = [q \in Queues |-> 0]
    /\ flow = FALSE
    /\ handlers = [p \in Processors |-> << >>]
    /\ dispatcher = [p \in Processors |-> NoHandlers]

-----------------------------------------------------------------------------
(* A comparison with NaN or an absent value is false.                       *)
IsNumber(x) == x \notin {NaN, Undefined}

validateOptions(o) ==
    /\ o.connection # {}
    /\ "client" \in o.connection => o.connection = {"client"}
    /\ "url" \in o.connection => o.urlParses
    /\ ~ (IsNumber(o.drainTimeoutMs) /\ o.drainTimeoutMs <= 0)
    /\ ~ (IsNumber(o.cacheTtlMs) /\ o.cacheTtlMs < 0)

applyDefaults(x, fallback) == IF x = Undefined THEN fallback ELSE x

forRoot ==
    /\ boot = "options"
    /\ IF validateOptions(options)
       THEN boot' = "connect" /\ drain' = applyDefaults(options.drainTimeoutMs, DefaultDrain)
       ELSE boot' = "failed" /\ UNCHANGED drain
    /\ UNCHANGED <<inputs, connectionVars, wiringVars>>

(* init() in Mode A: the client must be usable, and a probe duplicated from *)
(* it, disconnected in any case, must have taken the override.              *)
initModeA ==
    /\ boot = "connect" /\ ModeA
    /\ \E honoured \in BOOLEAN :
           usable' = (status \in {"ready", "connecting"} /\ honoured)
    /\ boot' = IF usable' THEN "providers" ELSE "failed"
    /\ UNCHANGED <<inputs, drain, status, armed, wiringVars>>

(* Mutants: the timer is forgotten; the client is not waited for.           *)
initModeBNoTimer ==
    /\ boot = "connect" /\ ~ModeA
    /\ status' = "connecting"
    /\ armed' = {"ready", "error"}
    /\ boot' = "wait"
    /\ UNCHANGED <<inputs, drain, usable, wiringVars>>

initModeBNoWait ==
    /\ boot = "connect" /\ ~ModeA
    /\ status' = "connecting"
    /\ boot' = "providers"
    /\ UNCHANGED <<inputs, drain, usable, armed, wiringVars>>

(* init() in Mode B: the library's own client connects, and waitReady       *)
(* listens for what comes first.                                            *)
initModeB ==
    /\ boot = "connect" /\ ~ModeA
    /\ status' = "connecting"
    /\ armed' = {"ready", "error", "timer"}
    /\ boot' = "wait"
    /\ UNCHANGED <<inputs, drain, usable, wiringVars>>

(* Mutant: the callbacks leave each other registered.                       *)
SettlesNoCleanup(next) == boot' = next /\ UNCHANGED armed

(* Whichever callback runs first cleans the others up and settles the wait. *)
Settles(next) == boot' = next /\ armed' = {}

(* ioredis, external: the owned client connects or fails to, and retries,   *)
(* whether or not anyone listens any more.                                  *)
ClientReady ==
    /\ ~ModeA /\ status \in {"connecting", "reconnecting"}
    /\ status' = "ready"
    /\ IF "ready" \in armed THEN Settles("providers") /\ usable' = TRUE
                            ELSE UNCHANGED <<boot, armed, usable>>
    /\ UNCHANGED <<inputs, drain, wiringVars>>

ClientError ==
    /\ ~ModeA /\ status \in {"connecting", "reconnecting", "ready"}
    /\ status' = "reconnecting"
    /\ IF "error" \in armed THEN Settles("failed") ELSE UNCHANGED <<boot, armed>>
    /\ UNCHANGED <<inputs, drain, usable, wiringVars>>

ReadyTimeout ==
    /\ "timer" \in armed
    /\ Settles("failed")
    /\ UNCHANGED <<inputs, drain, status, usable, wiringVars>>

-----------------------------------------------------------------------------
(* NestJS constructs the services; FlowService opens its producer.          *)
ConstructServices ==
    /\ boot = "providers"
    /\ boot' = "hooks"
    /\ flow' = options.flows
    /\ todo' = Processors
    /\ UNCHANGED <<inputs, drain, connectionVars, registered, owner, opened,
                   handlers, dispatcher>>

(* Mutant: getOrCreate does not look the queue up.                          *)
openEvents(q) == opened' = [opened EXCEPT ![q] = @ + 1]

getOrCreateEvents(q) == opened' = [opened EXCEPT ![q] = 1]

(* The application's own hooks run before or after discovery, which is      *)
(* synchronous; so do its calls once it is up.                              *)
AppCalls == (boot = "hooks" /\ todo \in {Processors, {}}) \/ boot = "up"

AppRegisters(q) ==
    /\ AppCalls
    /\ owner[q] = None
    /\ owner' = [owner EXCEPT ![q] = App]
    /\ UNCHANGED <<inputs, drain, boot, connectionVars, todo, registered, opened,
                   flow, handlers, dispatcher>>

AppObserves(q) ==
    /\ AppCalls
    /\ getOrCreateEvents(q)
    /\ UNCHANGED <<inputs, drain, boot, connectionVars, todo, registered, owner,
                   flow, handlers, dispatcher>>

Fails == boot' = "failed"

(* Mutant: a second processor for a queue is skipped.                       *)
WireSkipped(p) ==
    /\ boot = "hooks" /\ p \in todo
    /\ queueOf[p] \in registered \/ owner[queueOf[p]] # None
    /\ todo' = todo \ {p}
    /\ UNCHANGED <<inputs, drain, boot, connectionVars, registered, owner, opened,
                   flow, handlers, dispatcher>>

(* wireProcessor throws when another processor or, in the registry's guard, *)
(* the application itself has the queue.                                    *)
WireRefused(p) ==
    /\ boot = "hooks" /\ p \in todo
    /\ queueOf[p] \in registered \/ owner[queueOf[p]] # None
    /\ Fails
    /\ registered' = registered \cup {queueOf[p]}
    /\ UNCHANGED <<inputs, drain, connectionVars, todo, owner, opened, flow,
                   handlers, dispatcher>>

(* Otherwise the worker is constructed, and the QueueEvents if a listener   *)
(* needs it; either constructor may throw.                                  *)
WireProcessor(p) ==
    LET q == queueOf[p]
    IN  /\ boot = "hooks" /\ p \in todo
        /\ q \notin registered /\ owner[q] = None
        /\ registered' = registered \cup {q}
        /\ \E list \in HandlerLists :
               /\ handlers' = [handlers EXCEPT ![p] = list]
               /\ dispatcher' = [dispatcher EXCEPT ![p] = buildDispatcher(list)]
        /\ \/ Fails /\ UNCHANGED <<owner, opened, todo>>
           \/ /\ owner' = [owner EXCEPT ![q] = p]
              /\ \/ p \in Listening /\ opened[q] = 0 /\ Fails /\ UNCHANGED <<opened, todo>>
                 \/ /\ IF p \in Listening THEN getOrCreateEvents(q) ELSE UNCHANGED opened
                    /\ todo' = todo \ {p}
                    /\ UNCHANGED boot
        /\ UNCHANGED <<inputs, drain, connectionVars, flow>>

HooksDone ==
    /\ boot = "hooks" /\ todo = {}
    /\ boot' = "up"
    /\ UNCHANGED <<inputs, drain, connectionVars, wiringVars>>

-----------------------------------------------------------------------------
Start ==
    \/ forRoot \/ initModeA \/ initModeB \/ ReadyTimeout
    \/ ConstructServices \/ HooksDone
    \/ \E p \in Processors : WireProcessor(p) \/ WireRefused(p)

Next ==
    \/ Start \/ ClientReady \/ ClientError
    \/ \E q \in Queues : AppRegisters(q) \/ AppObserves(q)

Spec == Init /\ [][Next]_vars

(* The event loop and its timers run; Redis may never answer.               *)
FairSpec == Spec /\ WF_vars(Start)

-----------------------------------------------------------------------------
(* The application only comes up with every processor wired to a worker of  *)
(* its own, which two processors of one queue, or a worker registered       *)
(* before discovery, cannot be.                                             *)
WiredWhenUp ==
    boot = "up" => \A p \in Processors : /\ owner[queueOf[p]] = p
                                         /\ p \in Listening => opened[queueOf[p]] = 1

(* No producer, worker or QueueEvents exists before the client was ready    *)
(* (Mode B) or its duplicate was found fit for blocking commands (Mode A).  *)
NothingBeforeUsable ==
    flow \/ (\E q \in Queues : owner[q] # None \/ opened[q] > 0) => usable

(* Once the wait is settled neither a listener nor the timer is left, which *)
(* would keep the process alive or fail a start that succeeded.             *)
WaitIsClean == armed # {} => boot = "wait"

(* A job goes to the handler its name was declared for, in every wired      *)
(* class, whatever the order and the number of the declarations.            *)
RoutedAsDeclared ==
    \A p \in Processors, n \in JobNames :
        Dispatch(dispatcher[p], n) = Declared(handlers[p], n)

(* The start is bounded: it succeeds or fails also when Redis stays silent. *)
StartEnds == <>(boot \in {"up", "failed"})

(* Node, external: setTimeout with a delay it cannot represent uses 1 ms.   *)
TimerDelay(x) == IF IsNumber(x) /\ x \in 1 .. MaxDelay THEN x ELSE 1

(* "Fails fast ... and never silently corrects a value": the drain timer of *)
(* a shutdown runs for the time the options ask for.  The code accepts NaN  *)
(* and what is too long for a timer, Infinity included.                     *)
DrainTimerAsConfigured == boot = "connect" => TimerDelay(drain) = drain
=============================================================================
