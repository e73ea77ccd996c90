------------------------------ MODULE Benchmark ------------------------------
(***************************************************************************)
(* scripts/benchmark.mjs: a run fills a Redis that others use with keys    *)
(* under its own prefix, through pools of concurrent calls and through     *)
(* workers, and deletes them at the end, whatever happened.                *)
(*                                                                         *)
(* One pool and one burst stand for the run's many.  A key lies in a slot; *)
(* SCAN visits the slots in order.                                         *)
(***************************************************************************)
EXTENDS Integers, FiniteSets

CONSTANTS JobCount, \* CONCURRENT
          InFlight, \* IN_FLIGHT
          Slots     \* the slots of Redis: 1 .. Slots

ASSUME BenchmarkAssumption ==
    JobCount \in Nat /\ InFlight \in Nat \ {0} /\ Slots \in Nat \ {0}

VARIABLES benchPc, \* "idle", "pool", "burst", "cleanup", "quit", then how it ended
          next,    \* pool: the next index
          loop,    \* pool: loop -> "starts", "awaits" a task, "done" or "failed"
          ran,     \* history: how often an index was given to the task
          working, \* the worker of the burst runs
          keys,    \* Redis: the slots in which a key of this run lies
          cursor,  \* cleanup: the slot SCAN continues at
          late     \* history: the slots written to after SCAN had passed

benchVars == <<benchPc, next, loop, ran, working, keys, cursor, late>>
Loops == 1 .. InFlight

BenchIdle ==
    /\ benchPc = "idle" /\ next = 0 /\ loop = << >> /\ ran = << >> /\ working = FALSE
    /\ keys = {} /\ cursor = 1 /\ late = {}

BenchInit ==
    /\ benchPc = "pool"
    /\ next = 0
    /\ loop = [w \in Loops |-> "starts"]
    /\ ran = [i \in 0 .. JobCount - 1 |-> 0]
    /\ working = FALSE /\ keys = {} /\ cursor = 1 /\ late = {}

Write(slot) ==
    /\ keys' = keys \cup {slot}
    /\ late' = IF benchPc = "quit" \/ (benchPc = "cleanup" /\ slot < cursor)
               THEN late \cup {slot} ELSE late

-----------------------------------------------------------------------------
(* pool: each loop takes the next index and awaits the task, until there is *)
(* none left; the first that rejects ends the pool, the others run on.      *)
ProcessRuns == benchPc \notin {"idle", "ended", "failed", "keys left"}

TakeNext(w) ==
    /\ ProcessRuns /\ loop[w] = "starts"
    /\ IF next < JobCount
       THEN /\ loop' = [loop EXCEPT ![w] = "awaits"]
            /\ ran' = [ran EXCEPT ![next] = @ + 1]
            /\ next' = next + 1
       ELSE loop' = [loop EXCEPT ![w] = "done"] /\ UNCHANGED <<next, ran>>
    /\ UNCHANGED <<benchPc, working, keys, cursor, late>>

Awaiting(w) == ProcessRuns /\ loop[w] = "awaits"

TaskResolves(w) ==
    /\ Awaiting(w)
    /\ loop' = [loop EXCEPT ![w] = "starts"]
    /\ \E slot \in 1 .. Slots : Write(slot)
    /\ UNCHANGED <<benchPc, next, ran, working, cursor>>

(* The job may have been stored although the call rejects.                  *)
TaskRejects(w) ==
    /\ Awaiting(w)
    /\ loop' = [loop EXCEPT ![w] = "failed"]
    /\ benchPc' = IF benchPc = "pool" THEN "cleanup" ELSE benchPc
    /\ UNCHANGED <<keys, late>> \/ \E slot \in 1 .. Slots : Write(slot)
    /\ UNCHANGED <<next, ran, working, cursor>>

PoolResolves ==
    /\ benchPc = "pool" /\ \A w \in Loops : loop[w] = "done"
    /\ benchPc' = "burst"
    /\ working' = TRUE
    /\ UNCHANGED <<next, loop, ran, keys, cursor, late>>

(* burstDrain: the worker writes what it completes.                         *)
WorkerWrites ==
    /\ ProcessRuns /\ working
    /\ \E slot \in 1 .. Slots : Write(slot)
    /\ UNCHANGED <<benchPc, next, loop, ran, working, cursor>>

(* until: the burst is drained and app.close() has closed the worker, or    *)
(* two minutes are over and the throw leaves the worker as it is.           *)
until ==
    /\ benchPc = "burst"
    /\ benchPc' = "cleanup"
    /\ working' \in {FALSE, TRUE}
    /\ UNCHANGED <<next, loop, ran, keys, cursor, late>>

-----------------------------------------------------------------------------
(* Mutant: one SCAN, whatever cursor it returns.                            *)
cleanupOneScan ==
    /\ benchPc = "cleanup"
    /\ keys' = keys \ {cursor}
    /\ benchPc' = "quit"
    /\ UNCHANGED <<next, loop, ran, working, cursor, late>>

(* SCAN, then DEL of what it returned, until the cursor is 0 again.         *)
cleanup ==
    /\ benchPc = "cleanup"
    /\ keys' = keys \ {cursor}
    /\ IF cursor = Slots THEN benchPc' = "quit" /\ UNCHANGED cursor
       ELSE cursor' = cursor + 1 /\ UNCHANGED benchPc
    /\ UNCHANGED <<next, loop, ran, working, late>>

(* Redis fails the finally block: what is left stays.                       *)
CleanupRejects ==
    /\ benchPc = "cleanup" /\ benchPc' = "keys left"
    /\ UNCHANGED <<next, loop, ran, working, keys, cursor, late>>

Quit ==
    /\ benchPc = "quit"
    /\ benchPc' = (IF working \/ \E w \in Loops : loop[w] # "done" THEN "failed" ELSE "ended")
    /\ UNCHANGED <<next, loop, ran, working, keys, cursor, late>>

BenchNext ==
    \/ \E w \in Loops : TakeNext(w) \/ TaskResolves(w) \/ TaskRejects(w)
    \/ PoolResolves \/ WorkerWrites \/ until \/ cleanup \/ CleanupRejects \/ Quit

-----------------------------------------------------------------------------
(* A run that ends well has given each index to the task once and leaves no *)
(* key.  One that failed leaves only what the calls and the worker it did   *)
(* not wait for wrote behind the SCAN's back; a cleanup that Redis failed   *)
(* says so.                                                                 *)
RedisLeftAsFound ==
    /\ benchPc = "ended" => keys = {} /\ \A i \in DOMAIN ran : ran[i] = 1
    /\ benchPc = "failed" => keys \subseteq late
    /\ benchPc = "burst" => \A i \in DOMAIN ran : ran[i] = 1
=============================================================================
