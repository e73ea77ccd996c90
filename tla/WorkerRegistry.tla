--------------------------- MODULE WorkerRegistry ---------------------------
(***************************************************************************)
(* The map of running workers kept by src/server/services/                 *)
(* worker-registry.service.ts: one BullMQ Worker per queue, each with a    *)
(* Redis connection of its own that the library duplicated and must close. *)
(*                                                                         *)
(* A worker and its duplicated connection are one entry of the source's    *)
(* #entries, so both are named by the same element of Workers: `worker'    *)
(* is the state of the BullMQ object, `conn' that of the connection.       *)
(*                                                                         *)
(* register() and registerSandboxed() run to completion without yielding   *)
(* and are single steps.  unregister() awaits twice, so a call is three    *)
(* steps, and any other operation may run between them.                    *)
(***************************************************************************)
EXTENDS Domain

CONSTANT Callers   \* concurrent callers of unregister()

VARIABLES entries,   \* #entries: queue name -> worker
          worker,    \* what the BullMQ worker is doing
          name,      \* worker.name: the queue a worker consumes
          conn,      \* the connection duplicated for the worker
          unreg      \* per caller: where its unregister() stands

registryVars == <<entries, worker, name, conn, unreg>>

-----------------------------------------------------------------------------
(* "unmade" is not constructed yet, "thrown" a constructor that failed,     *)
(* "stuck" a worker whose close() rejected: BullMQ keeps the first promise, *)
(* so every later close() of it rejects as well.                            *)
WorkerStates == {"unmade", "thrown", "running", "closing", "closed", "stuck"}
ConnStates == {"none", "open", "quitting", "closed"}

(* The frame of an unregister() call.  `queue' and `worker' are the         *)
(* parameter and the `entry' it read before its first await.                *)
Idle == [at |-> "idle", queue |-> None, worker |-> None]
Frames == {Idle} \cup [at : {"closing", "quitting"}, queue : Queues, worker : Workers]

RegistryTypeOK ==
    /\ entries \in [Queues -> Workers \cup {None}]
    /\ worker \in [Workers -> WorkerStates]
    /\ name \in [Workers -> Queues \cup {None}]
    /\ conn \in [Workers -> ConnStates]
    /\ unreg \in [Callers -> Frames]

RegistryInit ==
    /\ entries = [q \in Queues |-> None]
    /\ worker = [w \in Workers |-> "unmade"]
    /\ name = [w \in Workers |-> None]
    /\ conn = [w \in Workers |-> "none"]
    /\ unreg = [c \in Callers |-> Idle]

-----------------------------------------------------------------------------
(* Mutant: guardDuplicate is not called.                                    *)
NoDuplicateGuard(q) == TRUE

(* guardDuplicate: a name that is in the map is refused.                    *)
NotRegistered(q) == entries[q] = None

(* The constructor succeeded: the entry becomes visible.                    *)
Constructed(q, w) ==
    /\ worker' = [worker EXCEPT ![w] = "running"]
    /\ conn' = [conn EXCEPT ![w] = "open"]
    /\ name' = [name EXCEPT ![w] = q]
    /\ entries' = [entries EXCEPT ![q] = w]
    /\ UNCHANGED unreg

(* Mutant: the connection is not dropped when the constructor throws.       *)
ConstructorThrewLeaks(w) ==
    /\ worker' = [worker EXCEPT ![w] = "thrown"]
    /\ conn' = [conn EXCEPT ![w] = "open"]
    /\ UNCHANGED <<entries, name, unreg>>

(* The constructor threw: the connection already duplicated is dropped.     *)
ConstructorThrew(w) ==
    /\ worker' = [worker EXCEPT ![w] = "thrown"]
    /\ conn' = [conn EXCEPT ![w] = "closed"]
    /\ UNCHANGED <<entries, name, unreg>>

(* Both registrations check before they open anything; a call they refuse   *)
(* (duplicate name, invalid options, bad processor file) changes nothing.   *)
Register(q, w) ==
    /\ NotRegistered(q)
    /\ worker[w] = "unmade"
    /\ Constructed(q, w) \/ ConstructorThrew(w)

RegisterSandboxed(q, w) ==
    /\ NotRegistered(q)
    /\ worker[w] = "unmade"
    /\ Constructed(q, w) \/ ConstructorThrew(w)

-----------------------------------------------------------------------------
(* unregister(): read the entry and ask its worker to close.  Without an    *)
(* entry the call returns at once; on a stuck worker it rejects at once.    *)
(* On a worker another call closed already it goes on to quit.              *)
AskedToClose(w) ==
    worker' = [worker EXCEPT ![w] = IF @ = "running" THEN "closing" ELSE @]

QuitSent(w) ==
    conn' = [conn EXCEPT ![w] = IF @ = "open" THEN "quitting" ELSE @]

(* Mutants: the call does not return when there is no entry; it does not    *)
(* await the close.                                                         *)
UnregisterCallNoEntry(c, q) ==
    /\ unreg[c] = Idle
    /\ unreg' = [unreg EXCEPT ![c] = [at |-> "closing", queue |-> q,
                                      worker |-> entries[q]]]
    /\ UNCHANGED <<entries, worker, name, conn>>

UnregisterCallNoAwait(c, q) ==
    /\ unreg[c] = Idle
    /\ entries[q] # None
    /\ worker[entries[q]] \in {"running", "closing"}
    /\ AskedToClose(entries[q])
    /\ QuitSent(entries[q])
    /\ unreg' = [unreg EXCEPT ![c] = [at |-> "quitting", queue |-> q,
                                      worker |-> entries[q]]]
    /\ UNCHANGED <<entries, name>>

UnregisterCall(c, q) ==
    /\ unreg[c] = Idle
    /\ entries[q] # None
    /\ worker[entries[q]] \in {"running", "closing"}
    /\ AskedToClose(entries[q])
    /\ unreg' = [unreg EXCEPT ![c] = [at |-> "closing", queue |-> q,
                                      worker |-> entries[q]]]
    /\ UNCHANGED <<entries, name, conn>>

UnregisterCallClosed(c, q) ==
    /\ unreg[c] = Idle
    /\ entries[q] # None
    /\ worker[entries[q]] = "closed"
    /\ QuitSent(entries[q])
    /\ unreg' = [unreg EXCEPT ![c] = [at |-> "quitting", queue |-> q,
                                      worker |-> entries[q]]]
    /\ UNCHANGED <<entries, worker, name>>

(* The promise of a worker's close() (BullMQ, external) settles when its    *)
(* running jobs are done, or rejects, or never settles.  Every call that    *)
(* awaits it resumes before any other event of the process: on success it   *)
(* sends its quit(), on a rejection it rejects, and entry and connection    *)
(* stay as they are.                                                        *)
Awaits(c, w) == unreg[c].at = "closing" /\ unreg[c].worker = w

CloseResolves(w) ==
    /\ worker[w] = "closing"
    /\ worker' = [worker EXCEPT ![w] = "closed"]
    /\ IF \E c \in Callers : Awaits(c, w) THEN QuitSent(w) ELSE UNCHANGED conn
    /\ unreg' = [c \in Callers |->
                    IF Awaits(c, w) THEN [unreg[c] EXCEPT !.at = "quitting"] ELSE unreg[c]]
    /\ UNCHANGED <<entries, name>>

(* Mutant: unregister() swallows the rejection and goes on.                 *)
CloseRejectsSwallowed(w) ==
    /\ worker[w] = "closing"
    /\ worker' = [worker EXCEPT ![w] = "stuck"]
    /\ unreg' = [c \in Callers |->
                    IF Awaits(c, w) THEN [unreg[c] EXCEPT !.at = "quitting"] ELSE unreg[c]]
    /\ UNCHANGED <<entries, name, conn>>

CloseRejects(w) ==
    /\ worker[w] = "closing"
    /\ worker' = [worker EXCEPT ![w] = "stuck"]
    /\ unreg' = [c \in Callers |-> IF Awaits(c, w) THEN Idle ELSE unreg[c]]
    /\ UNCHANGED <<entries, name, conn>>

(* `await closeConnection(...)' returned, by quit() or by the disconnect()  *)
(* that follows a failed quit(): delete the entry of that queue NAME,       *)
(* whatever worker it holds by now.                                         *)
UnregisterDeletes(c) ==
    /\ unreg[c].at = "quitting"
    /\ conn' = [conn EXCEPT ![unreg[c].worker] = "closed"]
    /\ entries' = [entries EXCEPT ![unreg[c].queue] = None]
    /\ unreg' = [unreg EXCEPT ![c] = Idle]
    /\ UNCHANGED <<worker, name>>

UnregisterStep(c) ==
    \/ \E q \in Queues : UnregisterCall(c, q) \/ UnregisterCallClosed(c, q)
    \/ UnregisterDeletes(c)

-----------------------------------------------------------------------------
RegistryNext ==
    \/ \E q \in Queues, w \in Workers : Register(q, w) \/ RegisterSandboxed(q, w)
    \/ \E w \in Workers : CloseResolves(w) \/ CloseRejects(w)
    \/ \E c \in Callers : UnregisterStep(c)

RegistrySpec == RegistryInit /\ [][RegistryNext]_registryVars

(* The obligation the source leaves with its callers: no two unregister()   *)
(* calls for one queue overlap.                                             *)
Exclusive ==
    \A c, d \in Callers :
        c # d /\ unreg[c] # Idle /\ unreg[d] # Idle => unreg[c].queue # unreg[d].queue

ExclusiveSpec == RegistryInit /\ [][RegistryNext /\ Exclusive']_registryVars

-----------------------------------------------------------------------------
(* The workers and connections the shutdown sequence sees: getAll() and     *)
(* getConnections() copy the map.                                           *)
getAll == {entries[q] : q \in Queues} \ {None}
getConnections == getAll

Live(w) == worker[w] \in {"running", "closing", "stuck"}

(* A worker's connection is only quit once the worker's close() resolved:   *)
(* quitting it earlier would cut the acknowledgement of a running job.      *)
(* However unregister() calls overlap.                                      *)
QuitAfterClose ==
    \A w \in Workers : conn[w] \in {"quitting", "closed"} => worker[w] \in {"closed", "thrown"}

(* At most one live worker consumes a queue, the promise of guardDuplicate. *)
(* It has to hold across every interleaving of register and unregister.     *)
OneWorkerPerQueue ==
    \A v, w \in Workers : Live(v) /\ Live(w) /\ name[v] = name[w] => v = w

(* Every connection the library opened can be found by the shutdown         *)
(* sequence until it is released; a failed constructor leaves none open.    *)
OpenConnectionsTracked ==
    \A w \in Workers : conn[w] \in {"open", "quitting"} => w \in getConnections

(* An entry leaves the map only in the step that has released its own       *)
(* connection after closing its own worker.                                 *)
EntryLeavesReleased ==
    [][\A q \in Queues :
           entries[q] # None /\ entries'[q] # entries[q] =>
               /\ worker[entries[q]] = "closed"
               /\ conn'[entries[q]] = "closed"]_registryVars
=============================================================================
