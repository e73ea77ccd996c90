---------------------------- MODULE ScriptsProofs ----------------------------
(***************************************************************************)
(* Proofs about the benchmark, the file length gate, the bundle comments,  *)
(* the link check and the release workflow, as parts of Scripts: for any   *)
(* number of concurrent calls, of jobs and of slots of Redis, any number   *)
(* of requests merged, any bundles, any web, any versions, declarations    *)
(* and changelogs, and any number of commits, tags and runs.               *)
(***************************************************************************)
EXTENDS Scripts, SequenceTheorems, WellFoundedInduction, TLAPS

(* Each script moves by itself.                                             *)
LEMMA ScriptSteps ==
    ASSUME [Next]_scriptsVars
    PROVE  /\ script' = script
           /\ BenchNext \/ UNCHANGED benchVars
           /\ MutNext \/ UNCHANGED mutVars
           /\ (script = "check:file-length" /\ LengthsNext) \/ UNCHANGED lengthVars
           /\ ReleaseNext \/ UNCHANGED releaseVars
           /\ LinkNext \/ UNCHANGED linkVars
           /\ StripNext \/ UNCHANGED stripVars
<1>1. CASE UNCHANGED scriptsVars
  BY <1>1 DEF scriptsVars, benchVars, mutVars, lengthVars, releaseVars, linkVars, stripVars
<1>2. CASE Next
  BY <1>2 DEF Next, benchVars, mutVars, lengthVars, releaseVars, linkVars, stripVars
<1> QED
  BY <1>1, <1>2

-----------------------------------------------------------------------------
(* The benchmark.  Its loops take the indices in turn, and end when there   *)
(* is none left; a cleanup starts when all have ended or one has failed.    *)
LoopStates == {"starts", "awaits", "done", "failed"}
BenchPhases == {"pool", "burst", "cleanup", "quit", "ended", "failed", "keys left"}
AllDone == \A w \in Loops : loop[w] = "done"
SomeFailed == \E w \in Loops : loop[w] = "failed"

BenchTypeOK ==
    /\ benchPc \in BenchPhases
    /\ next \in 0 .. JobCount
    /\ loop \in [Loops -> LoopStates]
    /\ ran \in [0 .. JobCount - 1 -> Nat]
    /\ working \in BOOLEAN
    /\ keys \subseteq 1 .. Slots /\ late \subseteq 1 .. Slots
    /\ cursor \in 1 .. Slots

EachOnce ==
    /\ \A i \in 0 .. JobCount - 1 : ran[i] = IF i < next THEN 1 ELSE 0
    /\ \A w \in Loops : loop[w] = "done" => next = JobCount

PoolOver ==
    /\ benchPc = "burst" => AllDone
    /\ benchPc \in {"cleanup", "quit"} => AllDone \/ SomeFailed
    /\ benchPc = "ended" => AllDone /\ late = {}

(* Behind SCAN's cursor lie only the keys written after it had passed, by   *)
(* what the run does not wait for.                                          *)
ScannedClean ==
    /\ benchPc \in {"pool", "burst"} => cursor = 1 /\ late = {}
    /\ benchPc = "cleanup" => \A slot \in keys : slot >= cursor \/ slot \in late
    /\ benchPc \in {"quit", "ended", "failed"} => keys \subseteq late
    /\ late # {} => working \/ SomeFailed

BenchInv == BenchTypeOK /\ EachOnce /\ PoolOver /\ ScannedClean
BenchHolds == benchPc = "idle" \/ BenchInv

(* What a write leaves behind.                                              *)
LEMMA BenchWrite ==
    ASSUME BenchInv, NEW slot \in 1 .. Slots, Write(slot), UNCHANGED <<benchPc, cursor>>,
           working \/ SomeFailed \/ benchPc \in {"pool", "burst"},
           benchPc \notin {"ended", "failed", "keys left"}
    PROVE  /\ keys' \subseteq 1 .. Slots /\ late' \subseteq 1 .. Slots
           /\ benchPc \in {"pool", "burst"} => late' = {}
           /\ benchPc = "cleanup" => \A s \in keys' : s >= cursor \/ s \in late'
           /\ benchPc = "quit" => keys' \subseteq late'
           /\ late' # {} => working \/ SomeFailed
<1> USE DEF BenchInv, BenchTypeOK, ScannedClean, Write
<1>1. keys' = keys \cup {slot} /\ late' \in {late, late \cup {slot}}
  OBVIOUS
<1>2. CASE benchPc \in {"pool", "burst"}
  BY <1>1, <1>2
<1>3. CASE benchPc = "cleanup"
  <2>1. late' = IF slot < cursor THEN late \cup {slot} ELSE late
    BY <1>3
  <2> QED
    BY <1>1, <1>3, <2>1
<1>4. CASE benchPc = "quit"
  <2>1. late' = late \cup {slot}
    BY <1>4
  <2> QED
    BY <1>1, <1>4, <2>1
<1> QED
  BY <1>2, <1>3, <1>4 DEF BenchPhases

(* A loop takes the next index, or ends.                                    *)
LEMMA BenchTake == ASSUME BenchInv, NEW w \in Loops, TakeNext(w) PROVE BenchInv'
<1> USE BenchmarkAssumption DEF BenchInv
<1>1. UNCHANGED <<benchPc, working, keys, cursor, late>> /\ loop[w] = "starts"
  BY DEF TakeNext
<1>2. CASE next < JobCount
  <2>1. /\ loop' = [loop EXCEPT ![w] = "awaits"]
        /\ ran' = [ran EXCEPT ![next] = @ + 1]
        /\ next' = next + 1
    BY <1>2 DEF TakeNext
  <2>2. BenchTypeOK'
    BY <1>1, <1>2, <2>1 DEF BenchTypeOK, LoopStates
  <2>3. EachOnce'
    BY <1>1, <1>2, <2>1 DEF BenchTypeOK, EachOnce
  <2>4. (SomeFailed => SomeFailed') /\ ~AllDone
    BY <1>1, <2>1 DEF SomeFailed, AllDone, BenchTypeOK
  <2> QED
    BY <1>1, <2>2, <2>3, <2>4 DEF PoolOver, ScannedClean
<1>3. CASE ~(next < JobCount)
  <2>1. loop' = [loop EXCEPT ![w] = "done"] /\ UNCHANGED <<next, ran>>
    BY <1>3 DEF TakeNext
  <2>2. BenchTypeOK'
    BY <1>1, <2>1 DEF BenchTypeOK, LoopStates
  <2>3. EachOnce'
    BY <1>1, <1>3, <2>1 DEF BenchTypeOK, EachOnce
  <2>4. (SomeFailed => SomeFailed') /\ ~AllDone
    BY <1>1, <2>1 DEF SomeFailed, AllDone, BenchTypeOK
  <2> QED
    BY <1>1, <2>2, <2>3, <2>4 DEF PoolOver, ScannedClean
<1> QED
  BY <1>2, <1>3

(* A task resolves: its loop starts again.                                  *)
LEMMA BenchResolve == ASSUME BenchInv, NEW w \in Loops, TaskResolves(w) PROVE BenchInv'
<1> USE BenchmarkAssumption DEF BenchInv
<1>1. /\ UNCHANGED <<benchPc, next, ran, working, cursor>>
      /\ benchPc \notin {"ended", "failed", "keys left"}
      /\ loop[w] = "awaits" /\ loop' = [loop EXCEPT ![w] = "starts"]
  BY DEF TaskResolves, Awaiting, ProcessRuns
<1>2. (SomeFailed => SomeFailed') /\ ~AllDone
  BY <1>1 DEF SomeFailed, AllDone, BenchTypeOK
<1>3. working \/ SomeFailed \/ benchPc \in {"pool", "burst"}
  BY <1>1, <1>2 DEF PoolOver, BenchTypeOK, BenchPhases
<1>4. /\ keys' \subseteq 1 .. Slots /\ late' \subseteq 1 .. Slots
      /\ benchPc \in {"pool", "burst"} => late' = {}
      /\ benchPc = "cleanup" => \A s \in keys' : s >= cursor \/ s \in late'
      /\ benchPc = "quit" => keys' \subseteq late'
      /\ late' # {} => working \/ SomeFailed
  <2>1. PICK slot \in 1 .. Slots : Write(slot)
    BY DEF TaskResolves
  <2> QED
    BY <1>1, <1>3, <2>1, BenchWrite
<1>5. BenchTypeOK'
  BY <1>1, <1>4 DEF BenchTypeOK, LoopStates
<1>6. EachOnce'
  BY <1>1 DEF EachOnce, BenchTypeOK
<1> QED
  BY <1>1, <1>2, <1>4, <1>5, <1>6 DEF PoolOver, ScannedClean

(* A task rejects: its loop has failed, and the pool with it.               *)
LEMMA BenchReject == ASSUME BenchInv, NEW w \in Loops, TaskRejects(w) PROVE BenchInv'
<1> USE BenchmarkAssumption DEF BenchInv
<1>1. /\ UNCHANGED <<next, ran, working, cursor>>
      /\ benchPc \notin {"ended", "failed", "keys left"}
      /\ benchPc' = IF benchPc = "pool" THEN "cleanup" ELSE benchPc
      /\ loop[w] = "awaits" /\ loop' = [loop EXCEPT ![w] = "failed"]
  BY DEF TaskRejects, Awaiting, ProcessRuns
<1>2. SomeFailed' /\ ~AllDone
  BY <1>1 DEF SomeFailed, AllDone, BenchTypeOK
<1>3. benchPc # "burst"
  BY <1>2 DEF PoolOver
<1>4. /\ keys' \subseteq 1 .. Slots /\ late' \subseteq 1 .. Slots
      /\ benchPc = "pool" => late' = {}
      /\ benchPc = "cleanup" => \A s \in keys' : s >= cursor \/ s \in late'
      /\ benchPc = "quit" => keys' \subseteq late'
  <2>1. CASE UNCHANGED <<keys, late>>
    BY <2>1 DEF ScannedClean, BenchTypeOK
  <2>2. CASE \E slot \in 1 .. Slots : Write(slot)
    BY <2>2 DEF ScannedClean, BenchTypeOK, Write
  <2> QED
    BY <2>1, <2>2 DEF TaskRejects
<1>5. BenchTypeOK'
  BY <1>1, <1>4 DEF BenchTypeOK, LoopStates, BenchPhases
<1>6. EachOnce'
  BY <1>1 DEF EachOnce, BenchTypeOK
<1>7. PoolOver'
  BY <1>1, <1>2, <1>3, <1>5 DEF PoolOver, BenchTypeOK, BenchPhases
<1>8. ScannedClean'
  <2>1. CASE benchPc = "pool"
    <3>1. benchPc' = "cleanup" /\ cursor' = 1 /\ late' = {}
      BY <1>1, <1>4, <2>1 DEF ScannedClean
    <3> QED
      BY <1>5, <3>1 DEF ScannedClean, BenchTypeOK
  <2>2. CASE benchPc # "pool"
    <3>1. benchPc' = benchPc
      BY <1>1, <2>2
    <3> QED
      BY <1>1, <1>2, <1>3, <1>4, <2>2, <3>1 DEF ScannedClean
  <2> QED
    BY <2>1, <2>2
<1> QED
  BY <1>5, <1>6, <1>7, <1>8

(* The phases follow each other, the worker writes, and SCAN moves on.      *)
LEMMA BenchPhase ==
    ASSUME BenchInv, PoolResolves \/ WorkerWrites \/ until \/ cleanup \/ CleanupRejects \/ Quit
    PROVE  BenchInv'
<1> USE BenchmarkAssumption DEF BenchInv
<1>1. UNCHANGED <<next, loop, ran>> /\ (AllDone' <=> AllDone) /\ (SomeFailed' <=> SomeFailed)
  BY DEF PoolResolves, WorkerWrites, until, cleanup, CleanupRejects, Quit, AllDone, SomeFailed
<1>2. EachOnce'
  BY <1>1 DEF EachOnce
<1>3. CASE PoolResolves
  <2>1. AllDone /\ late = {}
    BY <1>3 DEF PoolResolves, AllDone, ScannedClean
  <2>2. BenchTypeOK'
    BY <1>1, <1>3 DEF PoolResolves, BenchTypeOK, BenchPhases
  <2> QED
    BY <1>1, <1>2, <1>3, <2>1, <2>2 DEF PoolResolves, PoolOver, ScannedClean
<1>4. CASE WorkerWrites
  <2>1. /\ UNCHANGED <<benchPc, working, cursor>> /\ working
        /\ benchPc \notin {"ended", "failed", "keys left"}
    BY <1>4 DEF WorkerWrites, ProcessRuns
  <2>2. /\ keys' \subseteq 1 .. Slots /\ late' \subseteq 1 .. Slots
        /\ benchPc \in {"pool", "burst"} => late' = {}
        /\ benchPc = "cleanup" => \A s \in keys' : s >= cursor \/ s \in late'
        /\ benchPc = "quit" => keys' \subseteq late'
    BY <1>4, <2>1, BenchWrite DEF WorkerWrites
  <2>3. BenchTypeOK'
    BY <1>1, <2>1, <2>2 DEF BenchTypeOK
  <2> QED
    BY <1>1, <1>2, <2>1, <2>2, <2>3 DEF PoolOver, ScannedClean
<1>5. CASE until
  <2>1. BenchTypeOK'
    BY <1>1, <1>5 DEF until, BenchTypeOK, BenchPhases
  <2>2. PoolOver' /\ late = {} /\ late' = {} /\ cursor' = 1 /\ benchPc' = "cleanup"
    BY <1>1, <1>5 DEF until, PoolOver, ScannedClean
  <2>3. ScannedClean'
    BY <2>1, <2>2 DEF ScannedClean, BenchTypeOK
  <2> QED
    BY <1>2, <2>1, <2>2, <2>3
<1>6. CASE cleanup
  <2>1. /\ benchPc = "cleanup" /\ UNCHANGED <<working, late>> /\ keys' = keys \ {cursor}
        /\ \/ cursor = Slots /\ benchPc' = "quit" /\ UNCHANGED cursor
           \/ cursor # Slots /\ cursor' = cursor + 1 /\ UNCHANGED benchPc
    BY <1>6 DEF cleanup
  <2>2. BenchTypeOK'
    <3>1. benchPc' \in BenchPhases
      BY <2>1 DEF BenchPhases
    <3>2. cursor \in 1 .. Slots /\ keys \subseteq 1 .. Slots
      BY DEF BenchTypeOK
    <3>3. cursor' \in 1 .. Slots
      BY <2>1, <3>2
    <3>4. keys' \subseteq 1 .. Slots
      BY <2>1, <3>2
    <3> QED
      BY <1>1, <2>1, <3>1, <3>3, <3>4 DEF BenchTypeOK
  <2>3. ScannedClean'
    BY <1>1, <2>1 DEF ScannedClean, BenchTypeOK
  <2>4. PoolOver'
    BY <1>1, <2>1 DEF PoolOver
  <2> QED
    BY <1>2, <2>2, <2>3, <2>4
<1>7. CASE CleanupRejects
  BY <1>1, <1>2, <1>7 DEF CleanupRejects, BenchTypeOK, BenchPhases, PoolOver, ScannedClean
<1>8. CASE Quit
  <2>1. /\ benchPc = "quit" /\ UNCHANGED <<working, keys, cursor, late>>
        /\ benchPc' = IF working \/ ~AllDone THEN "failed" ELSE "ended"
    BY <1>8 DEF Quit, AllDone
  <2>2. AllDone => ~SomeFailed
    BY DEF AllDone, SomeFailed
  <2>3. BenchTypeOK'
    BY <1>1, <2>1 DEF BenchTypeOK, BenchPhases
  <2>4. PoolOver'
    BY <1>1, <2>1, <2>2 DEF PoolOver, ScannedClean
  <2>5. ScannedClean'
    BY <1>1, <2>1 DEF ScannedClean
  <2> QED
    BY <1>2, <2>3, <2>4, <2>5
<1> QED
  BY <1>3, <1>4, <1>5, <1>6, <1>7, <1>8

(* The benchmark's invariant always holds.                                  *)
LEMMA BenchInvariant == Spec => []BenchHolds
<1>1. Init => BenchHolds
  <2>1. BenchInit => BenchInv
    <3> SUFFICES ASSUME BenchInit PROVE BenchInv
      OBVIOUS
    <3> USE BenchmarkAssumption DEF BenchInit, Loops
    <3>1. BenchTypeOK
      <4>1. ran \in [0 .. JobCount - 1 -> Nat] /\ loop \in [Loops -> LoopStates]
        BY DEF LoopStates
      <4>2. next \in 0 .. JobCount /\ cursor \in 1 .. Slots
        OBVIOUS
      <4>3. benchPc \in BenchPhases /\ working \in BOOLEAN /\ keys = {} /\ late = {}
        BY DEF BenchPhases
      <4> QED
        BY <4>1, <4>2, <4>3 DEF BenchTypeOK
    <3>2. EachOnce
      BY DEF EachOnce
    <3>3. PoolOver /\ ScannedClean
      BY DEF PoolOver, ScannedClean
    <3> QED
      BY <3>1, <3>2, <3>3 DEF BenchInv
  <2> QED
    BY <2>1 DEF Init, BenchHolds, BenchIdle
<1>2. BenchHolds /\ [Next]_scriptsVars => BenchHolds'
  <2> SUFFICES ASSUME BenchHolds, [Next]_scriptsVars PROVE BenchHolds'
    OBVIOUS
  <2>1. CASE UNCHANGED benchVars
    BY <2>1 DEF benchVars, BenchHolds, BenchInv, BenchTypeOK, EachOnce, PoolOver, ScannedClean,
                AllDone, SomeFailed
  <2>2. CASE BenchNext
    <3>1. benchPc # "idle"
      BY <2>2 DEF BenchNext, TakeNext, TaskResolves, TaskRejects, Awaiting, ProcessRuns,
                  PoolResolves, WorkerWrites, until, cleanup, CleanupRejects, Quit
    <3>2. BenchInv
      BY <3>1 DEF BenchHolds
    <3> QED
      BY <2>2, <3>2, BenchTake, BenchResolve, BenchReject, BenchPhase DEF BenchNext, BenchHolds
  <2> QED
    BY <2>1, <2>2, ScriptSteps
<1> QED
  BY <1>1, <1>2, PTL DEF Spec

(* A benchmark that ends well has given each index to the task once and     *)
(* leaves no key in Redis; one that failed leaves only what was written     *)
(* behind SCAN's back by what it did not wait for.                          *)
THEOREM BenchmarkCleansUp == Spec => []RedisLeftAsFound
<1>1. ASSUME BenchHolds PROVE RedisLeftAsFound
  <2>1. CASE benchPc = "idle"
    BY <2>1 DEF RedisLeftAsFound
  <2>2. CASE BenchInv
    <3>1. 1 \in Loops
      BY BenchmarkAssumption DEF Loops
    <3>2. AllDone => \A i \in DOMAIN ran : ran[i] = 1
      BY <2>2, <3>1, BenchmarkAssumption DEF BenchInv, AllDone, EachOnce, BenchTypeOK
    <3> QED
      BY <2>2, <3>2 DEF BenchInv, PoolOver, ScannedClean, RedisLeftAsFound
  <2> QED
    BY <1>1, <2>1, <2>2 DEF BenchHolds
<1> QED
  BY BenchInvariant, <1>1, PTL

-----------------------------------------------------------------------------
(* The file length gate.  An entry of main's baseline is the length of its  *)
(* file, and a file over the limit without one was changed unseen.          *)
EntryIsLength(t) ==
    \A f \in SourceFiles : t.baseline[f] # 0 => t.lengths[f] = t.baseline[f]

UnlistedApart ==
    \A f \in SourceFiles :
        main.baseline[f] = 0 /\ main.lengths[f] > Limit => f \in apart

(* What an open request was checked on and merges into: nothing was merged  *)
(* since, or entries were lowered and removed only.                         *)
Trees == [lengths : Lengths, baseline : Baselines \cup {NoBaseline}]
Checks == [base : Trees, lengths : Lengths, baseline : Baselines]

CheckedOn(r) ==
    /\ request[r] \in Checks
    /\ Passes([lengths |-> request[r].lengths, baseline |-> request[r].baseline],
              request[r].base)
    /\ main.baseline = NoBaseline => request[r].base = main
    /\ request[r].base.baseline # NoBaseline =>
          /\ EntryIsLength(request[r].base)
          /\ \A f \in SourceFiles : main.baseline[f] <= request[r].base.baseline[f]

LengthsInv ==
    /\ main \in Trees
    /\ main.baseline # NoBaseline => EntryIsLength(main) /\ UnlistedApart
    /\ request \in [Requests -> Checks \cup {NotOpen}]
    /\ \A r \in Requests : request[r] # NotOpen => CheckedOn(r)

LengthsHold ==
    /\ script # "check:file-length" => main = << >>
    /\ script = "check:file-length" => LengthsInv

(* No report of a kind means that no file is in the set it reports.         *)
LEMMA NoReport ==
    ASSUME NEW S, NEW kind, {<<f, kind>> : f \in S} = {}
    PROVE  S = {}
<1> SUFFICES ASSUME NEW f \in S PROVE FALSE
  OBVIOUS
<1>1. <<f, kind>> \in {<<g, kind>> : g \in S}
  OBVIOUS
<1> QED
  BY <1>1

(* What the gate lets pass: no entry above the base's, and every file over  *)
(* the limit as long as its entry.                                          *)
LEMMA PassingTree ==
    ASSUME NEW t \in [lengths : Lengths, baseline : Baselines], NEW base \in Trees,
           Passes(t, base), NEW f \in SourceFiles
    PROVE  /\ t.lengths[f] \in Nat /\ t.baseline[f] \in Nat
           /\ t.lengths[f] > Limit => t.baseline[f] = t.lengths[f]
           /\ t.baseline[f] # 0 => t.lengths[f] = t.baseline[f]
           /\ t.baseline[f] > Limit \/ t.baseline[f] = 0
           /\ base.baseline # NoBaseline => t.baseline[f] <= base.baseline[f]
<1> USE LengthsAssumption
<1> DEFINE long == oversize(t.lengths)
           listed == Listed(t.baseline)
<1>1. /\ t.lengths[f] \in Nat /\ t.baseline[f] \in Nat
      /\ t.baseline[f] > Limit \/ t.baseline[f] = 0
  BY DEF Lengths, Baselines
<1>2. (f \in long <=> t.lengths[f] > Limit) /\ (f \in listed <=> t.baseline[f] # 0)
  BY DEF oversize, Listed
<1>3. problemsOf(t.lengths, t.baseline) = {}
  BY DEF Passes
<1> HIDE DEF long, listed
<1>4. /\ {<<g, "unlisted">> : g \in long \ listed} = {}
      /\ {<<g, "grew">> : g \in {h \in long \cap listed : t.lengths[h] > t.baseline[h]}} = {}
      /\ {<<g, "shrank">> : g \in {h \in long \cap listed : t.lengths[h] < t.baseline[h]}} = {}
      /\ {<<g, "obsolete">> : g \in listed \ long} = {}
  <2>1. \A A, B, C, D : A \cup B \cup C \cup D = {} => A = {} /\ B = {} /\ C = {} /\ D = {}
    OBVIOUS
  <2> QED
    BY <1>3, <2>1, Zenon DEF problemsOf, long, listed
<1>5. long \ listed = {} /\ listed \ long = {}
  <2> DEFINE unlisted == long \ listed
             obsolete == listed \ long
  <2>1. /\ {<<g, "unlisted">> : g \in unlisted} = {}
        /\ {<<g, "obsolete">> : g \in obsolete} = {}
    BY <1>4
  <2> HIDE DEF unlisted, obsolete
  <2>2. unlisted = {} /\ obsolete = {}
    BY <2>1, NoReport
  <2> QED
    BY <2>2 DEF unlisted, obsolete
<1>6. /\ {h \in long \cap listed : t.lengths[h] > t.baseline[h]} = {}
      /\ {h \in long \cap listed : t.lengths[h] < t.baseline[h]} = {}
  BY <1>4, NoReport
<1>7. f \in long \cap listed => t.lengths[f] = t.baseline[f]
  BY <1>1, <1>6
<1>8. ASSUME base.baseline # NoBaseline PROVE t.baseline[f] <= base.baseline[f]
  <2>1. base.baseline[f] \in Nat /\ (f \in Listed(base.baseline) <=> base.baseline[f] # 0)
    BY <1>8 DEF Trees, Baselines, Listed
  <2>2. widening(t.baseline, base.baseline) = {}
    BY <1>8 DEF Passes
  <2>3. /\ {<<g, "new">> : g \in listed \ Listed(base.baseline)} = {}
        /\ {<<g, "raised">> : g \in {h \in listed \cap Listed(base.baseline) :
                                         t.baseline[h] > base.baseline[h]}} = {}
    <3>1. \A A, B : A \cup B = {} => A = {} /\ B = {}
      OBVIOUS
    <3> QED
      BY <2>2, <3>1, Zenon DEF widening, listed
  <2>4. /\ listed \ Listed(base.baseline) = {}
        /\ {h \in listed \cap Listed(base.baseline) : t.baseline[h] > base.baseline[h]} = {}
    BY <2>3, NoReport
  <2> QED
    BY <1>1, <1>2, <2>1, <2>4
<1> QED
  BY <1>1, <1>2, <1>5, <1>7, <1>8

(* What a merge makes of one file: its length and its entry.                *)
LEMMA MergedFile ==
    ASSUME LengthsInv, NEW r \in Requests, request[r] # NotOpen, ~Conflict(r),
           NEW f \in SourceFiles
    PROVE  LET mine == request[r]
               new  == Merged(r)
           IN  /\ main.baseline = NoBaseline =>
                     new.lengths[f] = mine.lengths[f] /\ new.baseline = mine.baseline
               /\ main.baseline # NoBaseline =>
                     /\ mine.base.baseline # NoBaseline
                     /\ new.lengths[f] =
                           main.lengths[f] + mine.lengths[f] - mine.base.lengths[f]
                     /\ new.baseline[f] = IF mine.baseline[f] # mine.base.baseline[f]
                                          THEN mine.baseline[f] ELSE main.baseline[f]
                     /\ mine.baseline[f] = mine.base.baseline[f]
                        \/ main.baseline[f] = mine.base.baseline[f]
<1>1. CheckedOn(r) /\ main \in Trees
  BY DEF LengthsInv
<1>2. main.lengths[f] \in Int /\ request[r].lengths[f] \in Int
      /\ request[r].base.lengths[f] \in Int
  BY <1>1, LengthsAssumption DEF CheckedOn, Checks, Trees, Lengths
<1>3. CASE main.baseline = NoBaseline
  BY <1>1, <1>2, <1>3 DEF CheckedOn, Merged
<1>4. CASE main.baseline # NoBaseline
  BY <1>1, <1>4 DEF Conflict, Merged
<1> QED
  BY <1>3, <1>4

(* After a merge an entry is the length of its file, and was not raised;    *)
(* and a file over the limit without one was changed unseen.                *)
LEMMA MergedHolds ==
    ASSUME LengthsInv, NEW r \in Requests, request[r] # NotOpen, ~Conflict(r),
           NEW f \in SourceFiles, main' = Merged(r),
           apart' = (apart \cup ChangedApart(r)) \ MergedAsChecked(r)
    PROVE  /\ main'.baseline[f] # 0 => main'.lengths[f] = main'.baseline[f]
           /\ main'.baseline[f] = 0 /\ main'.lengths[f] > Limit => f \in apart'
           /\ main.baseline # NoBaseline => main'.baseline[f] <= main.baseline[f]
<1> DEFINE mine == request[r]
           L == main.lengths[f]   E == main.baseline[f]
           m == mine.lengths[f]   e == mine.baseline[f]
           b == mine.base.lengths[f]   d == mine.base.baseline[f]
<1>1. /\ CheckedOn(r) /\ main \in Trees /\ mine \in Checks
      /\ mine.base \in Trees
      /\ main.baseline # NoBaseline => EntryIsLength(main) /\ UnlistedApart
  BY DEF LengthsInv, CheckedOn, Checks
<1>2. /\ m \in Nat /\ e \in Nat
      /\ m > Limit => e = m
      /\ e # 0 => m = e
      /\ mine.base.baseline # NoBaseline => e <= d
  <2> DEFINE t == [lengths |-> mine.lengths, baseline |-> mine.baseline]
  <2>1. t \in [lengths : Lengths, baseline : Baselines] /\ Passes(t, mine.base)
    BY <1>1 DEF CheckedOn, Checks
  <2> HIDE DEF t
  <2>2. /\ t.lengths[f] \in Nat /\ t.baseline[f] \in Nat
        /\ t.lengths[f] > Limit => t.baseline[f] = t.lengths[f]
        /\ t.baseline[f] # 0 => t.lengths[f] = t.baseline[f]
        /\ mine.base.baseline # NoBaseline => t.baseline[f] <= d
    BY <1>1, <2>1, PassingTree
  <2> QED
    BY <2>2 DEF t
<1>3. L \in Nat /\ b \in Nat /\ Limit \in Nat
  BY <1>1, LengthsAssumption DEF Trees, Lengths
<1>4. CASE main.baseline = NoBaseline
  <2>1. main'.lengths[f] = m /\ main'.baseline[f] = e
    BY <1>4, MergedFile
  <2> QED
    BY <1>2, <1>3, <1>4, <2>1
<1>5. CASE main.baseline # NoBaseline
  <2>1. /\ mine.base.baseline # NoBaseline
        /\ main'.lengths[f] = L + m - b
        /\ main'.baseline[f] = IF e # d THEN e ELSE E
        /\ e = d \/ E = d
    BY <1>5, MergedFile
  <2>2. E \in Nat /\ d \in Nat
    BY <1>1, <1>5, <2>1, LengthsAssumption DEF Trees, Baselines
  <2>3. /\ E # 0 => L = E
        /\ E = 0 /\ L > Limit => f \in apart
        /\ d # 0 => b = d
        /\ E <= d
    BY <1>1, <1>5, <2>1 DEF EntryIsLength, UnlistedApart, CheckedOn
  <2>4. /\ f \in ChangedApart(r) <=> b # L /\ b # m
        /\ f \in MergedAsChecked(r) <=> main'.lengths[f] = m /\ main'.baseline[f] = e
    BY DEF ChangedApart, MergedAsChecked
  <2>5. f \in apart' <=> (f \in apart \/ f \in ChangedApart(r)) /\ f \notin MergedAsChecked(r)
    OBVIOUS
  <2> HIDE DEF mine, L, E, m, e, b, d
  <2>6. main'.baseline[f] # 0 => main'.lengths[f] = main'.baseline[f]
    BY <1>2, <1>3, <2>1, <2>2, <2>3
  <2>7. main'.baseline[f] <= E
    BY <1>2, <2>1, <2>2
  <2>8. main'.baseline[f] = 0 /\ main'.lengths[f] > Limit => f \in apart'
    BY <1>2, <1>3, <2>1, <2>2, <2>3, <2>4, <2>5
  <2> QED
    BY <2>6, <2>7, <2>8 DEF E
<1> QED
  BY <1>4, <1>5

(* A merged tree is one, with a baseline.                                   *)
LEMMA MergedTree ==
    ASSUME LengthsInv, NEW r \in Requests, Merge(r)
    PROVE  main' \in Trees /\ main'.baseline # NoBaseline
<1>1. /\ request[r] # NotOpen /\ CheckedOn(r) /\ main \in Trees /\ ~Conflict(r)
      /\ main' = Merged(r)
      /\ \A f \in SourceFiles : Merged(r).lengths[f] \in 0 .. MaxLength
  BY DEF Merge, LengthsInv
<1>2. request[r].baseline \in Baselines /\ request[r].baseline # NoBaseline
  BY <1>1 DEF CheckedOn, Checks, Passes
<1>3. main'.lengths \in Lengths
  BY <1>1 DEF Merged, Lengths
<1>4. CASE request[r].base.baseline = NoBaseline
  <2>1. main'.baseline = request[r].baseline
    BY <1>1, <1>4 DEF Merged
  <2>2. main' = [lengths |-> main'.lengths, baseline |-> main'.baseline]
    BY <1>1 DEF Merged
  <2> QED
    BY <1>2, <1>3, <2>1, <2>2 DEF Trees
<1>5. CASE request[r].base.baseline # NoBaseline
  <2>1. main.baseline \in Baselines /\ main.baseline # NoBaseline
    BY <1>1, <1>5 DEF CheckedOn, Trees
  <2>2. main'.baseline \in Baselines
    <3>1. /\ DOMAIN main'.baseline = SourceFiles
          /\ main'.baseline =
                [f \in SourceFiles |->
                    IF request[r].baseline[f] # request[r].base.baseline[f]
                    THEN request[r].baseline[f] ELSE main.baseline[f]]
      BY <1>1, <1>5 DEF Merged
    <3> QED
      BY <1>2, <2>1, <3>1 DEF Baselines
  <2>3. main'.baseline # NoBaseline
    <3> SUFFICES ASSUME main'.baseline = << >> PROVE main.baseline = << >>
      BY <2>1 DEF NoBaseline
    <3>1. SourceFiles = {}
      BY <2>2 DEF Baselines
    <3> QED
      BY <2>1, <2>2, <3>1 DEF Baselines
  <2>4. main' = [lengths |-> main'.lengths, baseline |-> main'.baseline]
    BY <1>1 DEF Merged
  <2> QED
    BY <1>3, <2>2, <2>3, <2>4 DEF Trees
<1> QED
  BY <1>4, <1>5

(* What an open request was checked on stays true of it as main moves on.   *)
LEMMA CheckedStays ==
    ASSUME LengthsInv, NEW r \in Requests, Merge(r),
           NEW s \in Requests, s # r, request[s] # NotOpen
    PROVE  CheckedOn(s)'
<1>1. CheckedOn(s) /\ request' = [request EXCEPT ![r] = NotOpen] /\ main \in Trees
  BY DEF LengthsInv, Merge
<1>2. request'[s] = request[s]
  BY <1>1 DEF LengthsInv
<1>3. main'.baseline # NoBaseline /\ main' \in Trees
  BY MergedTree
<1>4. ASSUME request[s].base.baseline # NoBaseline
      PROVE  /\ EntryIsLength(request[s].base)
             /\ \A f \in SourceFiles : main'.baseline[f] <= request[s].base.baseline[f]
  <2>1. main.baseline # NoBaseline
    BY <1>1, <1>4 DEF CheckedOn
  <2>2. ASSUME NEW f \in SourceFiles
        PROVE  main'.baseline[f] <= request[s].base.baseline[f]
    <3>1. main'.baseline[f] <= main.baseline[f]
      BY <2>1, MergedHolds DEF Merge
    <3>2. main.baseline[f] <= request[s].base.baseline[f]
      BY <1>1, <1>4 DEF CheckedOn
    <3>3. /\ main.baseline[f] \in Int /\ main'.baseline[f] \in Int
          /\ request[s].base.baseline[f] \in Int
      BY <1>1, <1>3, <1>4, <2>1, LengthsAssumption DEF CheckedOn, Checks, Trees, Baselines
    <3> QED
      BY <3>1, <3>2, <3>3
  <2> QED
    BY <1>1, <1>4, <2>2 DEF CheckedOn
<1> QED
  BY <1>1, <1>2, <1>3, <1>4 DEF CheckedOn

(* Every step of the gate preserves its invariant, ...                      *)
LEMMA LengthsStep == ASSUME LengthsInv, LengthsNext PROVE LengthsInv'
<1>1. ASSUME NEW r \in Requests, Merge(r) PROVE LengthsInv'
  <2>1. main' \in Trees /\ main'.baseline # NoBaseline
    BY <1>1, MergedTree
  <2>2. EntryIsLength(main)' /\ UnlistedApart'
    BY <1>1, MergedHolds DEF Merge, EntryIsLength, UnlistedApart
  <2>3. request' = [request EXCEPT ![r] = NotOpen]
    BY <1>1 DEF Merge
  <2>4. request' \in [Requests -> Checks \cup {NotOpen}]
    BY <2>3 DEF LengthsInv
  <2>5. ASSUME NEW s \in Requests, request'[s] # NotOpen PROVE CheckedOn(s)'
    <3>1. s # r /\ request[s] # NotOpen
      BY <2>3, <2>5 DEF LengthsInv
    <3> QED
      BY <1>1, <3>1, CheckedStays
  <2> QED
    BY <2>1, <2>2, <2>4, <2>5 DEF LengthsInv
<1>2. ASSUME NEW r \in Requests, OpenRequest(r) PROVE LengthsInv'
  <2>1. PICK lengths \in Lengths, baseline \in Baselines :
            /\ Passes([lengths |-> lengths, baseline |-> baseline], main)
            /\ request' = [request EXCEPT ![r] =
                              [base |-> main, lengths |-> lengths, baseline |-> baseline]]
    BY <1>2 DEF OpenRequest
  <2> DEFINE mine == [base |-> main, lengths |-> lengths, baseline |-> baseline]
  <2>2. main' = main /\ apart' = apart /\ main \in Trees
    BY <1>2 DEF OpenRequest, LengthsInv
  <2>3. mine \in Checks
    BY <2>2 DEF Checks
  <2>4. request' = [request EXCEPT ![r] = mine]
    BY <2>1
  <2>5. /\ mine.base = main /\ mine.lengths = lengths /\ mine.baseline = baseline
    OBVIOUS
  <2> HIDE DEF mine
  <2>6. /\ request' \in [Requests -> Checks \cup {NotOpen}]
        /\ \A s \in Requests : request'[s] = IF s = r THEN mine ELSE request[s]
    BY <2>3, <2>4 DEF LengthsInv
  <2>7. CheckedOn(r)'
    <3>1. request'[r] = mine
      BY <2>6
    <3>2. main.baseline # NoBaseline =>
              \A f \in SourceFiles : main.baseline[f] <= main.baseline[f]
      BY <2>2, LengthsAssumption DEF Trees, Baselines
    <3> QED
      BY <2>1, <2>2, <2>3, <2>5, <3>1, <3>2 DEF CheckedOn, LengthsInv
  <2>8. ASSUME NEW s \in Requests, request'[s] # NotOpen PROVE CheckedOn(s)'
    BY <2>2, <2>6, <2>7, <2>8 DEF LengthsInv, CheckedOn
  <2> QED
    BY <2>2, <2>6, <2>8 DEF LengthsInv, UnlistedApart
<1> QED
  BY <1>1, <1>2 DEF LengthsNext

(* ... which always holds.                                                  *)
LEMMA LengthsInvariant == Spec => []LengthsHold
<1>1. Init => LengthsHold
  <2>1. LengthsInit => LengthsInv
    <3> SUFFICES ASSUME LengthsInit PROVE LengthsInv
      OBVIOUS
    <3>1. main \in Trees /\ main.baseline = NoBaseline
      BY DEF LengthsInit, Trees
    <3>2. request = [r \in Requests |-> NotOpen]
      BY DEF LengthsInit
    <3> QED
      BY <3>1, <3>2 DEF LengthsInv
  <2> QED
    BY <2>1 DEF Init, LengthsHold, LengthsIdle
<1>2. LengthsHold /\ [Next]_scriptsVars => LengthsHold'
  <2> SUFFICES ASSUME LengthsHold, [Next]_scriptsVars PROVE LengthsHold'
    OBVIOUS
  <2>1. CASE UNCHANGED lengthVars
    <3>1. script' = script
      BY ScriptSteps
    <3> QED
      BY <2>1, <3>1 DEF lengthVars, LengthsHold, LengthsInv, CheckedOn, UnlistedApart
  <2>2. CASE script = "check:file-length" /\ LengthsNext
    BY <2>2, LengthsStep, ScriptSteps DEF LengthsHold
  <2> QED
    BY <2>1, <2>2, ScriptSteps
<1> QED
  BY <1>1, <1>2, PTL DEF Spec

(* Requests that are checked side by side never add an entry to main's      *)
(* baseline nor raise one, for any files, lengths and number of merges; and *)
(* a file grows past its entry only by merges neither of whose checks saw   *)
(* the other.                                                               *)
THEOREM BaselineOnlyShrinks == Spec => OffendersOnlyShrink
<1> DEFINE Shrinks ==
        main # << >> /\ main.baseline # NoBaseline =>
          \A f \in SourceFiles :
              LET allowed == main'.baseline[f]
              IN  /\ allowed # 0 => allowed <= main.baseline[f]
                  /\ main'.lengths[f] > Limit /\ main'.lengths[f] > allowed => f \in apart'
<1>1. LengthsHold /\ [Next]_scriptsVars => [Shrinks]_main
  <2> SUFFICES ASSUME LengthsHold, [Next]_scriptsVars, main' # main,
                      main.baseline # NoBaseline, NEW f \in SourceFiles
               PROVE  LET allowed == main'.baseline[f]
                      IN  /\ allowed # 0 => allowed <= main.baseline[f]
                          /\ main'.lengths[f] > Limit /\ main'.lengths[f] > allowed
                             => f \in apart'
    OBVIOUS
  <2>1. LengthsInv /\ LengthsNext
    BY ScriptSteps DEF lengthVars, LengthsHold
  <2>2. PICK r \in Requests : Merge(r)
    BY <2>1 DEF LengthsNext, OpenRequest
  <2>3. /\ main'.baseline[f] # 0 => main'.lengths[f] = main'.baseline[f]
        /\ main'.baseline[f] = 0 /\ main'.lengths[f] > Limit => f \in apart'
        /\ main'.baseline[f] <= main.baseline[f]
    BY <2>1, <2>2, MergedHolds DEF Merge
  <2>4. main'.baseline[f] \in Nat /\ main'.lengths[f] \in Nat
    BY <2>1, <2>2, MergedTree, LengthsAssumption DEF Trees, Lengths, Baselines
  <2> QED
    BY <2>3, <2>4
<1> QED
  BY LengthsInvariant, <1>1, PTL DEF Spec, OffendersOnlyShrink

(* A set of natural numbers has a least one.                                *)
LEMMA LeastNumber ==
    ASSUME NEW S \in SUBSET Nat, S # {}
    PROVE  Min(S) \in S /\ \A n \in S : Min(S) <= n
<1>1. \E m \in S : \A n \in S : m <= n
  <2>1. PICK m \in S : \A n \in S : ~ (<<n, m>> \in OpToRel(<, Nat))
    BY WFMin, NatLessThanWellFounded
  <2>2. \A n \in S : ~(n < m)
    BY <2>1 DEF OpToRel
  <2> QED
    BY <2>2
<1> QED
  BY <1>1 DEF Min

-----------------------------------------------------------------------------
(* The link check.  Two ways of a link with the same method agree as far as *)
(* both go: at the least place where they differ, the same page would have  *)
(* redirected to two.                                                       *)
LEMMA WaysAgree ==
    ASSUME NEW l, NEW method, NEW n \in Nat, NEW m \in Nat, n <= m, NEW way, NEW other,
           IsWay(l, method, n, way), IsWay(l, method, m, other)
    PROVE  \A k \in 0 .. n : way[k] = other[k]
<1> DEFINE Differ == {k \in 0 .. n : way[k] # other[k]}
<1> SUFFICES ASSUME Differ # {} PROVE FALSE
  OBVIOUS
<1>1. /\ Min(Differ) \in 0 .. n /\ way[Min(Differ)] # other[Min(Differ)]
      /\ \A k \in 0 .. n : way[k] # other[k] => Min(Differ) <= k
  <2>1. Differ \in SUBSET Nat
    OBVIOUS
  <2>2. Min(Differ) \in Differ /\ \A k \in Differ : Min(Differ) <= k
    <3> HIDE DEF Differ
    <3> QED
      BY <2>1, LeastNumber
  <2> QED
    BY <2>2
<1> DEFINE d == Min(Differ)
<1> HIDE DEF d
<1>2. /\ d \in 0 .. n /\ way[d] # other[d]
      /\ \A k \in 0 .. n : way[k] # other[k] => d <= k
  BY <1>1 DEF d
<1>3. d # 0
  BY <1>2 DEF IsWay
<1>4. d - 1 \in 0 .. n /\ d \in 1 .. n /\ d \in 1 .. m
  BY <1>2, <1>3
<1>5. way[d - 1] = other[d - 1]
  BY <1>2, <1>4
<1>6. /\ site[way[d - 1]][method] = <<"redirect", way[d]>>
      /\ site[other[d - 1]][method] = <<"redirect", other[d]>>
  BY <1>4 DEF IsWay
<1>7. <<"redirect", way[d]>> = <<"redirect", other[d]>>
  BY <1>5, <1>6
<1> QED
  BY <1>2, <1>7

(* From a page that answers no redirect no way goes on, ...                 *)
LEMMA WayGoesOn ==
    ASSUME NEW l, NEW method, NEW n \in Nat, NEW m \in Nat, n < m, NEW way, NEW other,
           IsWay(l, method, n, way), IsWay(l, method, m, other)
    PROVE  /\ site[way[n]][method] = <<"redirect", other[n + 1]>>
           /\ other[n + 1] \in Urls \ Refused
           /\ RedirectTo(site[way[n]][method])
<1>1. way[n] = other[n]
  BY WaysAgree
<1>2. n + 1 \in 1 .. m /\ (n + 1) - 1 = n /\ n + 1 \in 0 .. m
  OBVIOUS
<1>3. site[other[n]][method] = <<"redirect", other[n + 1]>>
  BY <1>2 DEF IsWay
<1>4. other[n + 1] \in Urls \ Refused
  BY <1>2 DEF IsWay
<1> QED
  BY <1>1, <1>3, <1>4 DEF RedirectTo

(* ... so the link leads to that page alone; ...                            *)
LEMMA LeadsToOne ==
    ASSUME NEW l, NEW method, NEW n \in 0 .. MaxRedirects, NEW way,
           IsWay(l, method, n, way), ~RedirectTo(site[way[n]][method])
    PROVE  LeadsTo(l, method) = {site[way[n]][method][1]}
<1>1. MaxRedirects \in Nat /\ n \in Nat
  BY LinksAssumption
<1>2. ASSUME NEW m \in 0 .. MaxRedirects, NEW other, IsWay(l, method, m, other),
             ~RedirectTo(site[other[m]][method])
      PROVE  other[m] = way[n]
  <2>1. m \in Nat /\ n \in Nat
    BY <1>1
  <2>2. CASE n < m
    BY <1>2, <2>1, <2>2, WayGoesOn, Zenon
  <2>3. CASE m < n
    BY <1>2, <2>1, <2>3, WayGoesOn, Zenon
  <2>4. CASE m = n
    BY <1>1, <1>2, <2>4, WaysAgree
  <2> QED
    BY <2>1, <2>2, <2>3, <2>4
<1>3. way \in [0 .. n -> Urls \ Refused] /\ way[n] \in Urls \ Refused
  BY <1>1 DEF IsWay
<1> DEFINE Ends == {u \in Urls \ Refused :
              /\ ~RedirectTo(site[u][method])
              /\ \E m \in 0 .. MaxRedirects : \E other \in [0 .. m -> Urls \ Refused] :
                     IsWay(l, method, m, other) /\ other[m] = u}
<1>4. Ends = {way[n]}
  <2>1. way[n] \in Ends
    BY <1>3
  <2>2. \A u \in Ends : u = way[n]
    BY <1>2
  <2> QED
    BY <2>1, <2>2
<1>5. LeadsTo(l, method) = {site[u][method][1] : u \in Ends}
  BY DEF LeadsTo
<1> HIDE DEF Ends
<1> QED
  BY <1>4, <1>5

(* ... and nowhere from a page that redirects to what is not followed.      *)
LEMMA LeadsNowhere ==
    ASSUME NEW l, NEW method, NEW n \in 0 .. MaxRedirects, NEW way,
           IsWay(l, method, n, way), RedirectTo(site[way[n]][method]),
           \/ site[way[n]][method][2] \in Refused \cup {"unparsable"}
           \/ n + 1 > MaxRedirects
    PROVE  LeadsTo(l, method) = {}
<1>1. MaxRedirects \in Nat /\ n \in Nat /\ "unparsable" \notin Urls
  BY LinksAssumption
<1>2. ASSUME NEW m \in 0 .. MaxRedirects, NEW other, IsWay(l, method, m, other),
             ~RedirectTo(site[other[m]][method])
      PROVE  FALSE
  <2>1. m \in Nat /\ n \in Nat
    BY <1>1
  <2>2. CASE n < m
    <3>1. /\ site[way[n]][method] = <<"redirect", other[n + 1]>>
          /\ other[n + 1] \in Urls \ Refused
          /\ RedirectTo(site[way[n]][method])
      BY <1>2, <2>1, <2>2, WayGoesOn, Zenon
    <3>2. site[way[n]][method][2] = other[n + 1] /\ n + 1 <= MaxRedirects
      BY <1>1, <2>2, <3>1
    <3> QED
      BY <1>1, <3>1, <3>2
  <2>3. CASE m < n
    BY <1>2, <2>1, <2>3, WayGoesOn, Zenon
  <2>4. CASE m = n
    <3>1. way[n] = other[n]
      BY <1>1, <1>2, <2>4, WaysAgree
    <3> QED
      BY <1>2, <2>4, <3>1
  <2> QED
    BY <2>1, <2>2, <2>3, <2>4
<1> DEFINE Ends == {u \in Urls \ Refused :
              /\ ~RedirectTo(site[u][method])
              /\ \E m \in 0 .. MaxRedirects : \E other \in [0 .. m -> Urls \ Refused] :
                     IsWay(l, method, m, other) /\ other[m] = u}
<1>3. Ends = {}
  BY <1>2
<1>4. LeadsTo(l, method) = {site[u][method][1] : u \in Ends}
  BY DEF LeadsTo
<1> HIDE DEF Ends
<1> QED
  BY <1>3, <1>4

(* A way starts at the page requested in the link's place, and goes on to   *)
(* the page it redirects to.                                                *)
LEMMA WayStarts ==
    ASSUME NEW l, NEW method, links[l].probe \in Urls \ Refused
    PROVE  \E way \in [0 .. 0 -> Urls \ Refused] :
               IsWay(l, method, 0, way) /\ way[0] = links[l].probe
<1> DEFINE way == [k \in 0 .. 0 |-> links[l].probe]
<1>1. way \in [0 .. 0 -> Urls \ Refused] /\ way[0] = links[l].probe
  OBVIOUS
<1> HIDE DEF way
<1>2. IsWay(l, method, 0, way)
  BY <1>1 DEF IsWay
<1> QED
  BY <1>1, <1>2

LEMMA WayExtends ==
    ASSUME NEW l, NEW method, NEW n \in Nat, NEW way, IsWay(l, method, n, way),
           NEW target \in Urls \ Refused, site[way[n]][method] = <<"redirect", target>>
    PROVE  \E longer \in [0 .. n + 1 -> Urls \ Refused] :
               IsWay(l, method, n + 1, longer) /\ longer[n + 1] = target
<1> DEFINE longer == [k \in 0 .. n + 1 |-> IF k = n + 1 THEN target ELSE way[k]]
<1>1. way \in [0 .. n -> Urls \ Refused]
  BY DEF IsWay
<1>2. longer \in [0 .. n + 1 -> Urls \ Refused]
  <2>1. \A k \in 0 .. n + 1 : k # n + 1 => k \in 0 .. n
    OBVIOUS
  <2> QED
    BY <1>1, <2>1
<1>3. longer[n + 1] = target /\ \A k \in 0 .. n : longer[k] = way[k]
  OBVIOUS
<1> HIDE DEF longer
<1>4. ASSUME NEW k \in 1 .. n + 1
      PROVE  site[longer[k - 1]][method] = <<"redirect", longer[k]>>
  <2>1. CASE k = n + 1
    BY <1>3, <2>1
  <2>2. CASE k # n + 1
    <3>1. k \in 1 .. n /\ k \in 0 .. n /\ k - 1 \in 0 .. n
      BY <2>2
    <3> QED
      BY <1>3, <3>1 DEF IsWay
  <2> QED
    BY <2>1, <2>2
<1>5. longer[0] = links[l].probe
  BY <1>3 DEF IsWay
<1> QED
  BY <1>2, <1>3, <1>4, <1>5 DEF IsWay

(* The check of a link is on the way of its method; it turns to GET because *)
(* the link leads HEAD to a page that refuses it.  Its verdict is the truth,*)
(* or a note, and the exit status follows the verdicts.                     *)
OnItsWay(l) ==
    /\ check[l].method \in {"HEAD", "GET"} /\ check[l].hops \in 0 .. MaxRedirects
    /\ links[l].url \notin Refused
    /\ \E way \in [0 .. check[l].hops -> Urls \ Refused] :
           IsWay(l, check[l].method, check[l].hops, way) /\ way[check[l].hops] = check[l].url
    /\ check[l].method = "GET" => LeadsTo(l, "HEAD") \cap TryGet # {}

LinkStands(l) ==
    /\ check[l].verdict = "none" =>
           l \notin outages \cup turned /\ (check[l].method = "none" \/ OnItsWay(l))
    /\ check[l].verdict # "none" =>
           check[l].verdict = Deserved(l) /\ ~(l \in outages /\ l \in turned)

ExitFollows ==
    /\ gateExit \in {"running", "exit 0", "exit 1"}
    /\ gateExit # "running" => \A l \in DOMAIN check : check[l].verdict # "none"
    /\ gateExit = "exit 1" => \E l \in DOMAIN check : check[l].verdict = "failed"
    /\ gateExit = "exit 0" => \A l \in DOMAIN check : check[l].verdict # "failed"

LinksInv ==
    /\ site \in Sites /\ links \in Readmes /\ DOMAIN check = DOMAIN links
    /\ \A l \in DOMAIN links : LinkStands(l)
    /\ ExitFollows
    /\ requested \cap Refused = {}
LinksHold == LinksIdle \/ LinksInv

(* The web and the README stay what they are, and so do the ways.           *)
LEMMA WaysStay ==
    ASSUME NEW l, UNCHANGED <<site, links>>
    PROVE  /\ \A method, n, way : IsWay(l, method, n, way)' <=> IsWay(l, method, n, way)
           /\ \A method : LeadsTo(l, method)' = LeadsTo(l, method)
           /\ Truth(l)' = Truth(l)
<1>1. \A method, n, way : IsWay(l, method, n, way)' <=> IsWay(l, method, n, way)
  BY DEF IsWay
<1>2. \A method : LeadsTo(l, method)' = LeadsTo(l, method)
  BY DEF LeadsTo, IsWay
<1>3. Truth(l)' = Truth(l)
  BY <1>2 DEF Truth
<1> QED
  BY <1>1, <1>2, <1>3

(* The verdict of an answer, ...                                            *)
LEMMA VerdictOfAnswer ==
    ASSUME LinksInv, NEW l \in DOMAIN links, OnItsWay(l), ~RedirectTo(Answer(l)),
           ~(Answer(l)[1] \in TryGet /\ check[l].method = "HEAD")
    PROVE  Truth(l) = CASE Answer(l)[1] = "ok" -> "passed"
                        [] Answer(l)[1] = "404" /\ links[l].probe # links[l].url -> "note"
                        [] OTHER -> "failed"
<1>1. LeadsTo(l, check[l].method) = {Answer(l)[1]}
  <2>1. PICK way \in [0 .. check[l].hops -> Urls \ Refused] :
            IsWay(l, check[l].method, check[l].hops, way) /\ way[check[l].hops] = check[l].url
    BY DEF OnItsWay
  <2>2. check[l].hops \in 0 .. MaxRedirects
    BY DEF OnItsWay
  <2>3. LeadsTo(l, check[l].method) = {site[way[check[l].hops]][check[l].method][1]}
    BY <2>1, <2>2, LeadsToOne DEF Answer
  <2> QED
    BY <2>1, <2>3 DEF Answer
<1> DEFINE answers == IF LeadsTo(l, "HEAD") \cap TryGet # {} THEN LeadsTo(l, "GET")
                      ELSE LeadsTo(l, "HEAD")
<1>2. answers = {Answer(l)[1]}
  <2>1. CASE check[l].method = "GET"
    BY <1>1, <2>1 DEF OnItsWay
  <2>2. CASE check[l].method = "HEAD"
    BY <1>1, <2>2
  <2> QED
    BY <2>1, <2>2 DEF OnItsWay
<1>3. links[l].url \notin Refused
  BY DEF OnItsWay
<1>4. Truth(l) = IF "ok" \in answers THEN "passed"
                 ELSE IF "404" \in answers /\ links[l].probe # links[l].url THEN "note"
                 ELSE "failed"
  BY <1>3 DEF Truth
<1> HIDE DEF answers
<1> QED
  BY <1>2, <1>4

(* ... and of a redirect that is not followed.                              *)
LEMMA VerdictOfRedirect ==
    ASSUME LinksInv, NEW l \in DOMAIN links, OnItsWay(l), RedirectTo(Answer(l)),
           \/ Answer(l)[2] \in Refused \cup {"unparsable"}
           \/ check[l].hops + 1 > MaxRedirects
    PROVE  Truth(l) = "failed"
<1>1. LeadsTo(l, check[l].method) = {}
  <2>1. PICK way \in [0 .. check[l].hops -> Urls \ Refused] :
            IsWay(l, check[l].method, check[l].hops, way) /\ way[check[l].hops] = check[l].url
    BY DEF OnItsWay
  <2>2. check[l].hops \in 0 .. MaxRedirects
    BY DEF OnItsWay
  <2>3. /\ RedirectTo(site[way[check[l].hops]][check[l].method])
        /\ \/ site[way[check[l].hops]][check[l].method][2] \in Refused \cup {"unparsable"}
           \/ check[l].hops + 1 > MaxRedirects
    BY <2>1 DEF Answer
  <2> QED
    BY <2>1, <2>2, <2>3, LeadsNowhere
<1>2. (IF LeadsTo(l, "HEAD") \cap TryGet # {} THEN LeadsTo(l, "GET") ELSE LeadsTo(l, "HEAD")) = {}
  BY <1>1 DEF OnItsWay
<1> QED
  BY <1>2 DEF Truth

(* A link is refused for what it is, or for what is requested in its place. *)
LEMMA VerdictOfTarget ==
    ASSUME LinksInv, NEW l \in DOMAIN links, {links[l].url, links[l].probe} \cap Refused # {}
    PROVE  Truth(l) = "failed"
<1>1. CASE links[l].url \in Refused
  BY <1>1 DEF Truth
<1>2. CASE links[l].probe \in Refused
  <2>1. ASSUME NEW method, NEW n \in 0 .. MaxRedirects, NEW way, IsWay(l, method, n, way)
        PROVE  FALSE
    <3>1. 0 \in 0 .. n
      BY LinksAssumption
    <3>2. way[0] \in Urls \ Refused /\ way[0] = links[l].probe
      BY <2>1, <3>1 DEF IsWay
    <3> QED
      BY <1>2, <3>2
  <2>2. ASSUME NEW method PROVE LeadsTo(l, method) = {}
    <3> DEFINE Ends == {u \in Urls \ Refused :
                  /\ ~RedirectTo(site[u][method])
                  /\ \E m \in 0 .. MaxRedirects : \E other \in [0 .. m -> Urls \ Refused] :
                         IsWay(l, method, m, other) /\ other[m] = u}
    <3>1. Ends = {}
      BY <2>1
    <3>2. LeadsTo(l, method) = {site[u][method][1] : u \in Ends}
      BY DEF LeadsTo
    <3> HIDE DEF Ends
    <3> QED
      BY <3>1, <3>2
  <2> QED
    BY <2>2 DEF Truth
<1> QED
  BY <1>1, <1>2

(* A check over carries its verdict.                                        *)
LEMMA VerdictOfDone == ASSUME NEW verdict PROVE Done(verdict).verdict = verdict
BY Zenon DEF Done

(* Where a check stands depends on it, the web, the README and the history. *)
LEMMA StaysStanding ==
    ASSUME NEW l, LinkStands(l), UNCHANGED <<site, links>>, check'[l] = check[l],
           l \in outages' <=> l \in outages, l \in turned' <=> l \in turned
    PROVE  LinkStands(l)'
<1>1. /\ \A method, n, way : IsWay(l, method, n, way)' <=> IsWay(l, method, n, way)
      /\ LeadsTo(l, "HEAD")' = LeadsTo(l, "HEAD")
      /\ Truth(l)' = Truth(l)
  BY WaysStay
<1>2. OnItsWay(l) => OnItsWay(l)'
  BY <1>1 DEF OnItsWay
<1> QED
  BY <1>1, <1>2 DEF LinkStands, Deserved

(* A step of one check leaves the others where they were.                   *)
LEMMA OthersStand ==
    ASSUME LinksInv, NEW l \in DOMAIN check, NEW state, Becomes(l, state),
           check[l].verdict = "none", UNCHANGED <<gateExit, site, links>>,
           outages' \in {outages, outages \cup {l}}, turned' \in {turned, turned \cup {l}},
           requested' \in {requested, requested \cup {check[l].url}},
           requested' # requested => check[l].url \notin Refused,
           LinkStands(l)'
    PROVE  LinksInv'
<1>1. DOMAIN check' = DOMAIN check /\ \A k \in DOMAIN check : k # l => check'[k] = check[k]
  BY DEF Becomes
<1>2. ASSUME NEW k \in DOMAIN links, k # l PROVE LinkStands(k)'
  <2>1. LinkStands(k) /\ check'[k] = check[k] /\ (k \in outages' <=> k \in outages)
        /\ (k \in turned' <=> k \in turned)
    BY <1>1, <1>2 DEF LinksInv
  <2> QED
    BY <2>1, StaysStanding
<1>3. ExitFollows'
  BY <1>1 DEF LinksInv, ExitFollows
<1>4. requested' \cap Refused = {}
  BY DEF LinksInv
<1> QED
  BY <1>1, <1>2, <1>3, <1>4 DEF LinksInv

LEMMA TargetChecked ==
    ASSUME LinksInv, NEW l \in DOMAIN check, CheckTarget(l)
    PROVE  LinksInv'
<1>1. /\ l \in DOMAIN links /\ LinkStands(l) /\ check[l].verdict = "none"
      /\ l \notin outages \cup turned /\ UNCHANGED <<gateExit, site, links, requested, outages>>
  BY DEF LinksInv, LinkStands, CheckTarget
<1>2. /\ Truth(l)' = Truth(l)
      /\ \A method, n, way : IsWay(l, method, n, way)' <=> IsWay(l, method, n, way)
  BY <1>1, WaysStay
<1>3. CASE {links[l].url, links[l].probe} \cap Refused # {}
  <2>1. Becomes(l, Done("failed")) /\ check'[l] = Done("failed") /\ turned' = turned
    BY <1>3 DEF CheckTarget, Becomes
  <2>2. Truth(l) = "failed"
    BY <1>1, <1>3, VerdictOfTarget
  <2>3. check'[l].verdict = "failed"
    BY <2>1, VerdictOfDone
  <2>4. LinkStands(l)'
    BY <1>1, <1>2, <2>1, <2>2, <2>3 DEF LinkStands, Deserved
  <2> QED
    BY <1>1, <2>1, <2>4, OthersStand
<1>4. CASE TurnAway(l, {links[l].url, links[l].probe})
  <2>1. Becomes(l, Done("failed")) /\ check'[l] = Done("failed") /\ turned' = turned \cup {l}
    BY <1>4 DEF CheckTarget, TurnAway, Becomes
  <2>2. check'[l].verdict = "failed"
    BY <2>1, VerdictOfDone
  <2>3. LinkStands(l)'
    BY <1>1, <2>1, <2>2 DEF LinkStands, Deserved
  <2> QED
    BY <1>1, <2>1, <2>3, OthersStand
<1>5. CASE /\ {links[l].url, links[l].probe} \cap Refused = {}
           /\ Becomes(l, At(links[l].probe, "HEAD", 0)) /\ turned' = turned
  <2>1. Becomes(l, At(links[l].probe, "HEAD", 0)) /\ check'[l] = At(links[l].probe, "HEAD", 0)
    BY <1>5 DEF CheckTarget, Becomes
  <2>2. /\ check'[l].verdict = "none" /\ check'[l].method = "HEAD" /\ check'[l].hops = 0
        /\ check'[l].url = links[l].probe
    BY <2>1 DEF At
  <2>3. links[l].url \notin Refused /\ links[l].probe \in Urls \ Refused
    BY <1>1, <1>5, LinksAssumption DEF LinksInv
  <2>4. \E way \in [0 .. 0 -> Urls \ Refused] :
            IsWay(l, "HEAD", 0, way) /\ way[0] = links[l].probe
    BY <2>3, WayStarts
  <2>5. 0 \in 0 .. MaxRedirects
    BY LinksAssumption
  <2>6. OnItsWay(l)'
    BY <1>1, <1>2, <2>2, <2>3, <2>4, <2>5 DEF OnItsWay
  <2>7. LinkStands(l)'
    BY <1>1, <1>5, <2>2, <2>6 DEF LinkStands
  <2> QED
    BY <1>1, <1>5, <2>1, <2>7, OthersStand
<1> QED
  BY <1>3, <1>5, <1>4 DEF CheckTarget

(* What holds of a check about to send a request, ...                       *)
LEMMA BeforeRequest ==
    ASSUME LinksInv, NEW l \in DOMAIN check, Request(l)
    PROVE  /\ l \in DOMAIN links /\ OnItsWay(l) /\ check[l].verdict = "none"
           /\ l \notin outages \cup turned /\ UNCHANGED <<gateExit, site, links>> /\ Truth(l)' = Truth(l)
           /\ check[l].url \in Urls \ Refused /\ check[l].hops \in Nat
           /\ requested' = requested \cup {check[l].url}
<1>1. /\ l \in DOMAIN links /\ OnItsWay(l) /\ check[l].verdict = "none"
      /\ l \notin outages \cup turned /\ UNCHANGED <<gateExit, site, links>> /\ requested' = requested \cup {check[l].url}
  BY DEF LinksInv, LinkStands, Request
<1>2. Truth(l)' = Truth(l)
  BY <1>1, WaysStay
<1>3. check[l].hops \in Nat /\ check[l].hops \in 0 .. check[l].hops
  BY <1>1, LinksAssumption DEF OnItsWay
<1>4. check[l].url \in Urls \ Refused
  BY <1>1, <1>3 DEF OnItsWay
<1> QED
  BY <1>1, <1>2, <1>3, <1>4

(* ... and after it: what the verdict is, or that the way goes on.          *)
LEMMA RequestSent ==
    ASSUME LinksInv, NEW l \in DOMAIN check, fetchChecked(l) \/ TransportError(l)
    PROVE  LinksInv'
<1>1. /\ l \in DOMAIN links /\ OnItsWay(l) /\ check[l].verdict = "none"
      /\ l \notin outages \cup turned /\ UNCHANGED <<gateExit, site, links>> /\ Truth(l)' = Truth(l)
      /\ check[l].url \in Urls \ Refused /\ check[l].hops \in Nat
      /\ requested' = requested \cup {check[l].url}
  BY BeforeRequest DEF fetchChecked, TransportError
<1>2. ASSUME NEW state, Becomes(l, state) PROVE check'[l] = state
  BY <1>2 DEF Becomes
<1>3. ASSUME NEW verdict, Becomes(l, Done(verdict)), verdict # "none",
             \/ outages' = outages /\ turned' = turned /\ verdict = Truth(l)
             \/ outages' = outages /\ turned' = turned \cup {l} /\ verdict = "failed"
             \/ outages' = outages \cup {l} /\ turned' = turned /\ verdict = "note"
      PROVE  LinksInv'
  <2>1. check'[l].verdict = verdict
    BY <1>2, <1>3, VerdictOfDone
  <2>2. LinkStands(l)'
    BY <1>1, <1>3, <2>1 DEF LinkStands, Deserved
  <2> QED
    BY <1>1, <1>3, <2>2, OthersStand
<1>4. ASSUME NEW url \in Urls \ Refused, NEW method \in {"HEAD", "GET"},
             NEW hops \in 0 .. MaxRedirects, Becomes(l, At(url, method, hops)),
             outages' = outages, turned' = turned,
             method = "GET" => LeadsTo(l, "HEAD") \cap TryGet # {},
             \E way \in [0 .. hops -> Urls \ Refused] :
                 IsWay(l, method, hops, way) /\ way[hops] = url
      PROVE  LinksInv'
  <2>1. /\ check'[l].verdict = "none" /\ check'[l].method = method /\ check'[l].hops = hops
        /\ check'[l].url = url
    BY <1>2, <1>4 DEF At
  <2>2. /\ \A m, n, way : IsWay(l, m, n, way)' <=> IsWay(l, m, n, way)
        /\ LeadsTo(l, "HEAD")' = LeadsTo(l, "HEAD")
    BY <1>1, WaysStay
  <2>3. OnItsWay(l)'
    BY <1>1, <1>4, <2>1, <2>2 DEF OnItsWay
  <2>4. LinkStands(l)'
    BY <1>1, <1>4, <2>1, <2>3 DEF LinkStands
  <2> QED
    BY <1>1, <1>4, <2>4, OthersStand
<1>5. PICK way \in [0 .. check[l].hops -> Urls \ Refused] :
          IsWay(l, check[l].method, check[l].hops, way) /\ way[check[l].hops] = check[l].url
  BY <1>1 DEF OnItsWay
<1>6. CASE TransportError(l)
  BY <1>3, <1>6 DEF TransportError
<1>7. CASE fetchChecked(l) /\ RedirectTo(Answer(l)) /\ Follow(l)
  <2>1. outages' = outages
    BY <1>7 DEF fetchChecked
  <2>2. CASE \/ Answer(l)[2] = "unparsable" \/ Answer(l)[2] \in Refused
             \/ check[l].hops + 1 > MaxRedirects
    <3>1. Becomes(l, Done("failed")) /\ turned' = turned
      BY <1>7, <2>2 DEF Follow
    <3>2. Truth(l) = "failed"
      BY <1>1, <1>7, <2>2, VerdictOfRedirect
    <3> QED
      BY <1>3, <2>1, <3>1, <3>2
  <2>3. CASE TurnAway(l, {Answer(l)[2]})
    BY <1>3, <2>1, <2>3 DEF TurnAway
  <2>4. CASE /\ ~(\/ Answer(l)[2] = "unparsable" \/ Answer(l)[2] \in Refused
                 \/ check[l].hops + 1 > MaxRedirects)
             /\ Becomes(l, At(Answer(l)[2], check[l].method, check[l].hops + 1))
             /\ turned' = turned
    <3>1. Becomes(l, At(Answer(l)[2], check[l].method, check[l].hops + 1))
      BY <2>4
    <3>2. /\ Answer(l) \in STRING \X STRING
          /\ Answer(l)[2] \in Urls \cup Refused \cup {"unparsable"}
      BY <1>1, <1>7, LinksAssumption DEF Answer, LinksInv, OnItsWay
    <3>3. Answer(l) = <<"redirect", Answer(l)[2]>>
      BY <1>7, <3>2 DEF RedirectTo
    <3>4. Answer(l)[2] \in Urls \ Refused /\ check[l].hops + 1 \in 0 .. MaxRedirects
      BY <1>1, <2>4, <3>2, LinksAssumption
    <3>5. site[way[check[l].hops]][check[l].method] = <<"redirect", Answer(l)[2]>>
      BY <1>5, <3>3 DEF Answer
    <3>6. \E longer \in [0 .. check[l].hops + 1 -> Urls \ Refused] :
              /\ IsWay(l, check[l].method, check[l].hops + 1, longer)
              /\ longer[check[l].hops + 1] = Answer(l)[2]
      BY <1>1, <1>5, <3>4, <3>5, WayExtends
    <3>7. /\ check[l].method \in {"HEAD", "GET"}
          /\ check[l].method = "GET" => LeadsTo(l, "HEAD") \cap TryGet # {}
      BY <1>1 DEF OnItsWay
    <3> QED
      BY <1>4, <2>1, <2>4, <3>1, <3>4, <3>6, <3>7
  <2> QED
    BY <1>7, <2>2, <2>3, <2>4 DEF Follow
<1>8. CASE /\ fetchChecked(l) /\ Answer(l)[1] \in TryGet /\ check[l].method = "HEAD"
           /\ Becomes(l, At(links[l].probe, "GET", 0)) /\ turned' = turned
  <2>1. outages' = outages
    BY <1>8 DEF fetchChecked
  <2>2. 0 \in 0 .. MaxRedirects /\ 0 \in 0 .. check[l].hops
    BY <1>1, LinksAssumption
  <2>3. links[l].probe \in Urls \ Refused
    BY <1>5, <2>2 DEF IsWay
  <2>4. \E first \in [0 .. 0 -> Urls \ Refused] :
            IsWay(l, "GET", 0, first) /\ first[0] = links[l].probe
    BY <2>3, WayStarts
  <2>5. LeadsTo(l, "HEAD") \cap TryGet # {}
    <3>1. check[l].hops \in 0 .. MaxRedirects
      BY <1>1 DEF OnItsWay
    <3>2. Answer(l) = site[way[check[l].hops]]["HEAD"]
      BY <1>5, <1>8 DEF Answer
    <3>3. ~RedirectTo(Answer(l))
      BY <1>8 DEF RedirectTo, TryGet
    <3>4. LeadsTo(l, "HEAD") = {Answer(l)[1]}
      BY <1>5, <1>8, <3>1, <3>2, <3>3, LeadsToOne
    <3> QED
      BY <1>8, <3>4
  <2> QED
    BY <1>4, <1>8, <2>1, <2>2, <2>3, <2>4, <2>5
<1>9. CASE /\ fetchChecked(l) /\ ~RedirectTo(Answer(l)) /\ Judge(l) /\ turned' = turned
           /\ ~(Answer(l)[1] \in TryGet /\ check[l].method = "HEAD")
  <2>1. outages' = outages
    BY <1>9 DEF fetchChecked
  <2>2. Truth(l) = CASE Answer(l)[1] = "ok" -> "passed"
                     [] Answer(l)[1] = "404" /\ links[l].probe # links[l].url -> "note"
                     [] OTHER -> "failed"
    BY <1>1, <1>9, VerdictOfAnswer
  <2>3. Becomes(l, Done(Truth(l))) /\ Truth(l) # "none"
    BY <1>9, <2>2 DEF Judge
  <2> QED
    BY <1>3, <1>9, <2>1, <2>3
<1> QED
  BY <1>6, <1>7, <1>8, <1>9 DEF fetchChecked

(* Each link of the README gets the verdict its target deserves, or a note  *)
(* when a request of its went unanswered; the exit status follows, and what *)
(* every check refuses is never requested.  However the checks of the links are      *)
(* interleaved, and wherever the redirects lead.                            *)
THEOREM LinksAreJudged == Spec => []LinkVerdicts
<1>1. Init => LinksHold
  <2>1. LinksInit => LinksInv
    <3> SUFFICES ASSUME LinksInit PROVE LinksInv
      OBVIOUS
    <3>1. DOMAIN check = DOMAIN links
      BY DEF LinksInit
    <3>2. ASSUME NEW l \in DOMAIN links PROVE LinkStands(l)
      <4>1. check[l] = At(links[l].url, "none", 0) /\ l \notin outages \cup turned
        BY DEF LinksInit
      <4>2. check[l].verdict = "none" /\ check[l].method = "none"
        BY <4>1 DEF At
      <4> QED
        BY <4>1, <4>2 DEF LinkStands
    <3> QED
      BY <3>1, <3>2 DEF LinksInit, LinksInv, ExitFollows
  <2> QED
    BY <2>1 DEF Init, LinksHold
<1>2. LinksHold /\ [Next]_scriptsVars => LinksHold'
  <2> SUFFICES ASSUME LinksHold, [Next]_scriptsVars PROVE LinksHold'
    OBVIOUS
  <2>1. CASE UNCHANGED linkVars
    <3>1. LinksIdle => LinksIdle'
      BY <2>1 DEF linkVars, LinksIdle
    <3>2. LinksInv => LinksInv'
      <4>1. UNCHANGED <<gateExit, site, links, check, requested, outages, turned>>
        BY <2>1 DEF linkVars
      <4>2. LinksInv => \A l \in DOMAIN links : LinkStands(l)'
        BY <4>1, StaysStanding DEF LinksInv
      <4> QED
        BY <4>1, <4>2 DEF LinksInv, ExitFollows
    <3> QED
      BY <3>1, <3>2 DEF LinksHold
  <2>2. CASE LinkNext /\ LinksIdle
    BY <2>2 DEF LinkNext, LinksIdle, GateEnds
  <2>3. CASE LinkNext /\ LinksInv
    <3>1. CASE \E l \in DOMAIN check : CheckTarget(l) \/ fetchChecked(l) \/ TransportError(l)
      BY <2>3, <3>1, TargetChecked, RequestSent DEF LinksHold
    <3>2. CASE GateEnds
      <4>1. ExitFollows'
        BY <2>3, <3>2 DEF GateEnds, LinksInv, ExitFollows
      <4>2. UNCHANGED <<site, links, check, requested, outages, turned>>
        BY <3>2 DEF GateEnds
      <4>3. \A l \in DOMAIN links : LinkStands(l)'
        BY <2>3, <4>2, StaysStanding DEF LinksInv
      <4> QED
        BY <2>3, <4>1, <4>2, <4>3 DEF LinksInv, LinksHold
    <3> QED
      BY <2>3, <3>1, <3>2 DEF LinkNext
  <2> QED
    BY <2>1, <2>2, <2>3, ScriptSteps DEF LinksHold
<1>3. LinksHold => LinkVerdicts
  <2>1. LinksIdle => LinkVerdicts
    BY DEF LinksIdle, LinkVerdicts
  <2>2. LinksInv => LinkVerdicts
    <3> SUFFICES ASSUME LinksInv PROVE LinkVerdicts
      OBVIOUS
    <3>1. \A l \in DOMAIN links : check[l].verdict # "none" =>
              check[l].verdict = Deserved(l) /\ ~(l \in outages /\ l \in turned)
      BY DEF LinksInv, LinkStands
    <3>2. DOMAIN check = DOMAIN links /\ ExitFollows /\ requested \cap Refused = {}
      BY DEF LinksInv
    <3>3. gateExit = "exit 1" => \E l \in DOMAIN links : Truth(l) = "failed" \/ l \in turned
      BY <3>1, <3>2 DEF ExitFollows, Deserved
    <3>4. gateExit = "exit 0" =>
              \A l \in DOMAIN links : Truth(l) = "failed" \/ l \in turned => l \in outages
      BY <3>1, <3>2 DEF ExitFollows, Deserved
    <3> QED
      BY <3>1, <3>2, <3>3, <3>4 DEF LinkVerdicts
  <2> QED
    BY <2>1, <2>2 DEF LinksHold
<1> QED
  BY <1>1, <1>2, <1>3, PTL DEF Spec

-----------------------------------------------------------------------------
(* The changelog.  The first heading of a version, and how many lines stand *)
(* under it up to the next heading.                                         *)
StartOf(log, v) == Bounds(log, v).start
UnderStart(log, v) ==
    LET b == Bounds(log, v) IN IF b.end = 0 THEN Len(b.rest) ELSE b.end - 1

(* The start is the first line with the heading, ...                        *)
LEMMA StartIsFirst ==
    ASSUME NEW log \in Seq(Lines), NEW v, HasSection(log, v)
    PROVE  /\ StartOf(log, v) \in DOMAIN log /\ log[StartOf(log, v)] = <<"heading", v>>
           /\ \A k \in DOMAIN log : log[k] = <<"heading", v>> => StartOf(log, v) <= k
<1> DEFINE I == {i \in 1 .. Len(log) : log[i] = <<"heading", v>>}
<1>1. StartOf(log, v) = IF I # {} THEN Min(I) ELSE 0
  BY DEF StartOf, Bounds, SelectInSeq
<1>2. I # {} /\ StartOf(log, v) = Min(I)
  BY <1>1 DEF HasSection, StartOf
<1>3. I \in SUBSET Nat
  OBVIOUS
<1>4. StartOf(log, v) \in I /\ \A i \in I : StartOf(log, v) <= i
  <2> HIDE DEF I
  <2> QED
    BY <1>2, <1>3, LeastNumber
<1>5. DOMAIN log = 1 .. Len(log)
  OBVIOUS
<1> QED
  BY <1>4, <1>5

(* ... the lines after it are the rest, ...                                 *)
LEMMA RestOfLog ==
    ASSUME NEW log \in Seq(Lines), NEW v, HasSection(log, v)
    PROVE  LET rest == Bounds(log, v).rest
           IN  /\ rest \in Seq(Lines)
               /\ Len(rest) = Len(log) - StartOf(log, v)
               /\ \A k \in 1 .. Len(rest) : rest[k] = log[StartOf(log, v) + k]
<1> DEFINE s == StartOf(log, v)
<1>1. s \in 1 .. Len(log) /\ Len(log) \in Nat
  BY StartIsFirst
<1>2. Bounds(log, v).rest = SubSeq(log, s + 1, Len(log))
  BY DEF Bounds, StartOf
<1> HIDE DEF s
<1>3. /\ s + 1 \in Int /\ Len(log) \in Int
      /\ \A i \in s + 1 .. Len(log) : log[i] \in Lines
  BY <1>1
<1>4. /\ SubSeq(log, s + 1, Len(log)) \in Seq(Lines)
      /\ Len(SubSeq(log, s + 1, Len(log))) =
            IF s + 1 <= Len(log) THEN Len(log) - (s + 1) + 1 ELSE 0
      /\ \A i \in 1 .. Len(log) - (s + 1) + 1 :
            SubSeq(log, s + 1, Len(log))[i] = log[s + 1 + i - 1]
  BY <1>3, SubSeqProperties
<1>5. Len(SubSeq(log, s + 1, Len(log))) = Len(log) - s
  BY <1>1, <1>4
<1>6. \A k \in 1 .. Len(log) - s :
          SubSeq(log, s + 1, Len(log))[k] = log[s + k]
  BY <1>1, <1>4
<1> QED
  BY <1>2, <1>4, <1>5, <1>6 DEF s

(* ... and none up to the end of the section is a heading, the next one is. *)
LEMMA EndIsNext ==
    ASSUME NEW log \in Seq(Lines), NEW v, HasSection(log, v)
    PROVE  LET s == StartOf(log, v)
               n == UnderStart(log, v)
           IN  /\ n \in 0 .. Len(log) - s
               /\ \A k \in 1 .. n : ~IsHeading(log[s + k])
               /\ n < Len(log) - s => IsHeading(log[s + n + 1])
               /\ changelogSection(log, v) \in Seq(Lines)
               /\ Len(changelogSection(log, v)) = n
               /\ \A k \in 1 .. n : changelogSection(log, v)[k] = log[s + k]
<1> DEFINE s == StartOf(log, v)
           rest == Bounds(log, v).rest
           end == Bounds(log, v).end
           J == {k \in 1 .. Len(rest) : IsHeading(rest[k])}
<1>1. /\ rest \in Seq(Lines) /\ Len(rest) = Len(log) - s
      /\ \A k \in 1 .. Len(rest) : rest[k] = log[s + k]
      /\ s \in 1 .. Len(log) /\ Len(log) \in Nat /\ Len(rest) \in Nat
  BY RestOfLog, StartIsFirst
<1>2. end = IF J # {} THEN Min(J) ELSE 0
  BY DEF Bounds, SelectInSeq
<1>3. J \in SUBSET Nat /\ J \subseteq 1 .. Len(rest)
  OBVIOUS
<1>4. /\ UnderStart(log, v) = IF end = 0 THEN Len(rest) ELSE end - 1
      /\ changelogSection(log, v) = IF end = 0 THEN rest ELSE SubSeq(rest, 1, end - 1)
  BY DEF UnderStart, changelogSection
<1>5. CASE J = {}
  <2>1. end = 0
    BY <1>2, <1>5
  <2>2. \A k \in 1 .. Len(rest) : ~IsHeading(rest[k])
    BY <1>5
  <2> HIDE DEF s, rest, end, J
  <2>3. UnderStart(log, v) = Len(rest) /\ changelogSection(log, v) = rest
    BY <1>4, <2>1
  <2> QED
    BY <1>1, <2>2, <2>3 DEF s
<1>6. CASE J # {}
  <2>1. end \in J /\ \A k \in J : end <= k
    <3> HIDE DEF J
    <3> QED
      BY <1>2, <1>3, <1>6, LeastNumber
  <2>2. end \in 1 .. Len(rest) /\ IsHeading(rest[end])
    BY <2>1
  <2>3. \A k \in 1 .. end - 1 : ~IsHeading(rest[k])
    BY <1>1, <2>1, <2>2
  <2> HIDE DEF s, rest, end, J
  <2>4. /\ UnderStart(log, v) = end - 1
        /\ changelogSection(log, v) = SubSeq(rest, 1, end - 1)
    BY <1>4, <2>2
  <2>5. \A i \in 1 .. end - 1 : rest[i] \in Lines
    BY <1>1, <2>2
  <2>6. end - 1 \in Int
    BY <2>2
  <2>7. /\ SubSeq(rest, 1, end - 1) \in Seq(Lines)
        /\ Len(SubSeq(rest, 1, end - 1)) = IF 1 <= end - 1 THEN end - 1 - 1 + 1 ELSE 0
        /\ \A i \in 1 .. end - 1 - 1 + 1 : SubSeq(rest, 1, end - 1)[i] = rest[1 + i - 1]
    BY <2>5, <2>6, SubSeqProperties
  <2>8. /\ Len(SubSeq(rest, 1, end - 1)) = end - 1
        /\ \A i \in 1 .. end - 1 : SubSeq(rest, 1, end - 1)[i] = rest[i]
    BY <2>2, <2>7
  <2>9. /\ end - 1 \in 0 .. Len(log) - s
        /\ \A k \in 1 .. end - 1 : ~IsHeading(log[s + k]) /\ rest[k] = log[s + k]
        /\ IsHeading(log[s + (end - 1) + 1])
    BY <1>1, <2>2, <2>3
  <2> QED
    BY <2>4, <2>7, <2>8, <2>9 DEF s
<1> QED
  BY <1>5, <1>6

(* The section a gate or the workflow reads is the lines under the heading. *)
LEMMA SectionIsUnder ==
    ASSUME NEW log \in Seq(Lines), NEW v, HasSection(log, v)
    PROVE  /\ ToSet(changelogSection(log, v)) = {log[i] : i \in Under(log, v)}
           /\ changelogSection(log, v) # << >> => Under(log, v) # {}
<1> DEFINE s == StartOf(log, v)
           n == UnderStart(log, v)
           section == changelogSection(log, v)
<1>1. /\ s \in DOMAIN log /\ log[s] = <<"heading", v>> /\ DOMAIN log = 1 .. Len(log)
      /\ Len(log) \in Nat
      /\ \A k \in DOMAIN log : log[k] = <<"heading", v>> => s <= k
  BY StartIsFirst
<1>2. /\ n \in 0 .. Len(log) - s
      /\ \A k \in 1 .. n : ~IsHeading(log[s + k])
      /\ n < Len(log) - s => IsHeading(log[s + n + 1])
      /\ section \in Seq(Lines) /\ Len(section) = n
      /\ \A k \in 1 .. n : section[k] = log[s + k]
  BY EndIsNext
<1> HIDE DEF s, n, section
<1>3. DOMAIN section = 1 .. n
  BY <1>2
<1>4. ASSUME NEW k \in 1 .. n PROVE s + k \in Under(log, v)
  <2>1. s + k \in DOMAIN log /\ s \in 1 .. (s + k) - 1
    BY <1>1, <1>2
  <2>2. \A j \in 1 .. s - 1 : log[j] # <<"heading", v>>
    BY <1>1
  <2>3. \A j \in s + 1 .. s + k : ~IsHeading(log[j])
    <3> SUFFICES ASSUME NEW j \in s + 1 .. s + k PROVE ~IsHeading(log[j])
      OBVIOUS
    <3>1. j - s \in 1 .. n /\ s + (j - s) = j
      BY <1>1, <1>2
    <3> QED
      BY <1>2, <3>1
  <2> QED
    BY <1>1, <2>1, <2>2, <2>3 DEF Under
<1>5. ASSUME NEW i \in Under(log, v) PROVE i - s \in 1 .. n /\ s + (i - s) = i
  <2>1. PICK h \in 1 .. i - 1 : /\ log[h] = <<"heading", v>>
                                /\ \A k \in 1 .. h - 1 : log[k] # <<"heading", v>>
                                /\ \A k \in h + 1 .. i : ~IsHeading(log[k])
    BY DEF Under
  <2>2. i \in DOMAIN log
    BY DEF Under
  <2>3. h = s
    BY <1>1, <2>1, <2>2
  <2>4. ~(s + n + 1 \in h + 1 .. i)
    <3> SUFFICES ASSUME s + n + 1 \in h + 1 .. i PROVE FALSE
      OBVIOUS
    <3>1. n < Len(log) - s
      BY <1>1, <1>2, <2>2
    <3> QED
      BY <1>2, <2>1, <3>1
  <2> QED
    BY <1>1, <1>2, <2>1, <2>2, <2>3, <2>4
<1>6. ToSet(section) \subseteq {log[i] : i \in Under(log, v)}
  BY <1>2, <1>3, <1>4 DEF ToSet
<1>7. {log[i] : i \in Under(log, v)} \subseteq ToSet(section)
  <2> SUFFICES ASSUME NEW i \in Under(log, v) PROVE log[i] \in ToSet(section)
    OBVIOUS
  <2>1. i - s \in DOMAIN section /\ section[i - s] = log[i]
    BY <1>2, <1>3, <1>5
  <2> QED
    BY <2>1 DEF ToSet
<1>8. section # << >> => Under(log, v) # {}
  <2>1. section # << >> => 1 \in 1 .. n
    BY <1>2
  <2> QED
    BY <1>4, <2>1
<1> QED
  BY <1>6, <1>7, <1>8 DEF section

-----------------------------------------------------------------------------
(* What the gates establish, step by step, of the tag a run is about; main, *)
(* and the tags pushed meanwhile, do not change it.                         *)
TreesOfMain == [version : Versions, api : Apis, changelog : Seq(Lines) \ {<< >>}]
Later(step) ==
    CASE step = "verify"     -> Steps \ {"verify"}
      [] step = "extract"    -> {"prepublish", "surface", "publish", "github"}
      [] step = "prepublish" -> {"surface", "publish", "github"}

ReleaseTyped ==
    /\ relPc \in Steps \cup {"waiting"}
    /\ tree \in TreesOfMain
    /\ DOMAIN tagged \subseteq Versions
    /\ \A v \in DOMAIN tagged : tagged[v] \in TreesOfMain
    /\ DOMAIN npm \subseteq Versions
    /\ DOMAIN npm = {} => npm = << >>

GatesPassed ==
    /\ relPc \in Steps => running \in DOMAIN tagged /\ fetched \subseteq DOMAIN tagged
    /\ relPc \in Later("verify") => Checked.version = running
    /\ relPc \in Later("extract") =>
          /\ HasSection(Checked.changelog, running)
          /\ notes = changelogSection(Checked.changelog, running) /\ notes # << >>
    /\ relPc \in Later("prepublish") => fetched \subseteq documented(Checked.changelog)
    /\ relPc = "publish" => SurfacePasses(Checked)
    /\ relPc = "github" => running \in DOMAIN npm

ReleaseInv == ReleaseTyped /\ GatesPassed
ReleaseHolds == (relPc = "idle" /\ npm = << >> /\ published = << >>) \/ ReleaseInv

(* A line at its end makes a changelog that is not empty.                   *)
LEMMA LineAppended ==
    ASSUME NEW top \in Seq(Lines), NEW line \in Lines
    PROVE  top \o <<line>> \in Seq(Lines) \ {<< >>}
<1> DEFINE last == <<line>>
<1>1. last \in Seq(Lines) /\ Len(last) = 1
  OBVIOUS
<1> HIDE DEF last
<1>2. top \o last \in Seq(Lines) /\ Len(top \o last) = Len(top) + Len(last)
  BY <1>1, ConcatProperties, Zenon
<1>3. top \o last # << >>
  BY <1>1, <1>2, ConcatEqualIffEmpty
<1> QED
  BY <1>2, <1>3 DEF last

(* What a changelog gate that reports nothing has seen.                     *)
LEMMA GateSaw ==
    ASSUME NEW t, NEW visible, checkChangelog(t, visible) = {}
    PROVE  visible \subseteq documented(t.changelog)
<1>1. {<<v, "missing">> : v \in visible \ documented(t.changelog)} = {}
  <2> DEFINE missing == {<<v, "missing">> : v \in visible \ documented(t.changelog)}
  <2>1. checkChangelog(t, visible) # {<<t.version, "no heading">>}
    <3>1. <<t.version, "no heading">> \in {<<t.version, "no heading">>}
      OBVIOUS
    <3> QED
      BY <3>1
  <2>2. missing \subseteq checkChangelog(t, visible)
    BY <2>1 DEF checkChangelog
  <2> HIDE DEF missing
  <2>3. missing = {}
    BY <2>2
  <2> QED
    BY <2>3 DEF missing
<1> DEFINE D == visible \ documented(t.changelog)
<1>2. {<<v, "missing">> : v \in D} = {}
  BY <1>1
<1> HIDE DEF D
<1>3. D = {}
  BY <1>2, NoReport
<1> QED
  BY <1>3 DEF D

(* A version that is documented has a heading.                              *)
LEMMA DocumentedHeading ==
    ASSUME NEW log \in Seq(Lines), NEW w \in documented(log)
    PROVE  \E i \in DOMAIN log : log[i] = <<"heading", w>>
<1>1. PICK line \in ToSet(log) : IsHeading(line) /\ line[2] = w
  BY DEF documented
<1>2. PICK i \in DOMAIN log : log[i] = line
  BY <1>1 DEF ToSet
<1>3. line \in Lines
  BY <1>2
<1>4. line = <<"heading", w>>
  BY <1>1, <1>3 DEF Lines, IsHeading
<1> QED
  BY <1>2, <1>4

(* Main moves on, the first version is published, and tags are pushed.      *)
LEMMA MainMoves ==
    ASSUME ReleaseInv, Commit \/ FirstRelease \/ \E v \in Versions : PushTag(v)
    PROVE  ReleaseInv'
<1> USE DEF ReleaseInv
<1>1. CASE Commit
  <2>1. PICK v \in Versions, api \in Apis, body \in Bodies,
             below \in {tree.changelog, Tail(tree.changelog)} :
            tree' = [version |-> v, api |-> api,
                     changelog |-> <<<<"heading", v>>>> \o body \o below \o <<<<"link", v>>>>]
    BY <1>1 DEF Commit
  <2> DEFINE log == <<<<"heading", v>>>> \o body \o below \o <<<<"link", v>>>>
  <2>2. <<"heading", v>> \in Lines /\ <<"link", v>> \in Lines
    BY ReleaseAssumption DEF Lines
  <2>3. body \in Seq(Lines)
    BY ReleaseAssumption
  <2>4. below \in Seq(Lines)
    BY DEF ReleaseTyped, TreesOfMain
  <2>5. log \in Seq(Lines) /\ log # << >>
    <3>1. <<<<"heading", v>>>> \in Seq(Lines) /\ <<<<"link", v>>>> \in Seq(Lines)
      BY <2>2
    <3>2. <<<<"heading", v>>>> \o body \o below \in Seq(Lines)
      BY <2>3, <2>4, <3>1
    <3> QED
      BY <2>2, <3>2, LineAppended
  <2> HIDE DEF log
  <2>6. tree' = [version |-> v, api |-> api, changelog |-> log]
    BY <2>1 DEF log
  <2>7. tree' \in TreesOfMain
    BY <2>5, <2>6 DEF TreesOfMain
  <2>8. UNCHANGED <<relPc, tagged, npm, running, fetched, notes>>
    BY <1>1 DEF Commit
  <2> QED
    BY <2>7, <2>8 DEF ReleaseTyped, GatesPassed, Checked, SurfacePasses
<1>2. CASE FirstRelease
  <2>1. /\ UNCHANGED <<relPc, tree, tagged, running, fetched, notes>> /\ DOMAIN tagged = {}
        /\ npm' = With(npm, tree.version, tree.api)
    BY <1>2 DEF FirstRelease
  <2>2. relPc \notin Steps
    BY <2>1 DEF GatesPassed
  <2>3. DOMAIN npm' = DOMAIN npm \cup {tree.version} /\ tree.version \in Versions
    BY <2>1 DEF With, ReleaseTyped, TreesOfMain
  <2>4. ReleaseTyped'
    BY <2>1, <2>3 DEF ReleaseTyped
  <2> QED
    BY <2>1, <2>2, <2>4 DEF GatesPassed, Later, Steps
<1>3. ASSUME NEW v \in Versions, PushTag(v) PROVE ReleaseInv'
  <2>1. /\ UNCHANGED <<relPc, tree, npm, running, fetched, notes>> /\ v \notin DOMAIN tagged
        /\ tagged' = With(tagged, v, tree)
    BY <1>3 DEF PushTag
  <2>2. /\ DOMAIN tagged' = DOMAIN tagged \cup {v}
        /\ \A w \in DOMAIN tagged : tagged'[w] = tagged[w]
        /\ tagged'[v] = tree
    BY <2>1 DEF With
  <2>3. ReleaseTyped'
    BY <2>1, <2>2 DEF ReleaseTyped
  <2>4. relPc \in Steps => Checked' = Checked /\ running \in DOMAIN tagged
    BY <2>1, <2>2 DEF GatesPassed, Checked
  <2>5. relPc \in Steps => (SurfacePasses(Checked) => SurfacePasses(Checked)')
    BY <2>1, <2>4 DEF SurfacePasses
  <2>6. Later("verify") \subseteq Steps /\ Later("extract") \subseteq Steps
        /\ Later("prepublish") \subseteq Steps /\ {"publish", "github"} \subseteq Steps
    BY DEF Later, Steps
  <2>7. relPc \in Steps => GatesPassed'
    BY <2>1, <2>2, <2>4, <2>5 DEF GatesPassed
  <2>8. relPc \notin Steps => GatesPassed'
    BY <2>1, <2>6 DEF GatesPassed
  <2> QED
    BY <2>3, <2>7, <2>8
<1> QED
  BY <1>1, <1>2, <1>3

(* A run goes through its gates, one after the other.                       *)
LEMMA RunMoves ==
    ASSUME ReleaseInv,
           \/ \E v \in Versions : StartRun(v)
           \/ VerifyTag \/ ExtractNotes \/ PrepublishOnly \/ CheckSurface \/ Publish
           \/ CreateGitHubRelease \/ RunFails
    PROVE  ReleaseInv'
<1> USE DEF ReleaseInv
<1>1. ASSUME NEW v \in Versions, StartRun(v) PROVE ReleaseInv'
  <2>1. /\ relPc' = "verify" /\ running' = v /\ fetched' = DOMAIN tagged
        /\ v \in DOMAIN tagged /\ UNCHANGED <<tree, tagged, npm>>
    BY <1>1 DEF StartRun
  <2>2. ReleaseTyped'
    BY <2>1 DEF ReleaseTyped, Steps
  <2> QED
    BY <2>1, <2>2 DEF GatesPassed, Later, Steps
<1>2. ASSUME relPc' \in Steps \cup {"waiting"}, UNCHANGED <<tree, tagged, running, fetched>>
      PROVE  /\ npm' = npm => ReleaseTyped'
             /\ Checked' = Checked
  BY <1>2 DEF ReleaseTyped, Checked
<1>3. CASE VerifyTag
  <2>1. /\ relPc = "verify" /\ relPc' = "extract" /\ Checked.version = running
        /\ UNCHANGED <<tree, tagged, running, fetched, npm>>
    BY <1>3 DEF VerifyTag, StepTo, Rest
  <2> QED
    BY <1>2, <2>1 DEF GatesPassed, Later, Steps
<1>4. CASE ExtractNotes
  <2>1. /\ relPc = "extract" /\ relPc' = "prepublish"
        /\ HasSection(Checked.changelog, running)
        /\ notes' = changelogSection(Checked.changelog, running) /\ notes' # << >>
        /\ UNCHANGED <<tree, tagged, running, fetched, npm>>
    BY <1>4 DEF ExtractNotes, StepTo, Rest
  <2> QED
    BY <1>2, <2>1 DEF GatesPassed, Later, Steps
<1>5. CASE PrepublishOnly
  <2>1. /\ relPc = "prepublish" /\ relPc' = "surface" /\ UNCHANGED notes
        /\ UNCHANGED <<tree, tagged, running, fetched, npm>>
    BY <1>5 DEF PrepublishOnly, StepTo, Rest
  <2>2. PICK visible \in {fetched, DOMAIN tagged} : checkChangelog(Checked, visible) = {}
    BY <1>5 DEF PrepublishOnly
  <2>3. fetched \subseteq documented(Checked.changelog)
    BY <2>1, <2>2, GateSaw DEF GatesPassed, Steps
  <2> QED
    BY <1>2, <2>1, <2>3 DEF GatesPassed, Later, Steps
<1>6. CASE CheckSurface
  <2>1. /\ relPc = "surface" /\ relPc' = "publish" /\ SurfacePasses(Checked)
        /\ UNCHANGED notes
        /\ UNCHANGED <<tree, tagged, running, fetched, npm>>
    BY <1>6 DEF CheckSurface, StepTo, Rest
  <2>2. SurfacePasses(Checked)'
    BY <1>2, <2>1 DEF SurfacePasses, Steps
  <2> QED
    BY <1>2, <2>1, <2>2 DEF GatesPassed, Later, Steps
<1>7. CASE Publish
  <2>1. /\ relPc = "publish" /\ relPc' = "github" /\ UNCHANGED notes
        /\ UNCHANGED <<tree, tagged, running, fetched>>
        /\ \/ running \in DOMAIN npm /\ UNCHANGED npm
           \/ running \notin DOMAIN npm /\ npm' = With(npm, running, Checked.api)
    BY <1>7 DEF Publish, StepTo, Rest
  <2>2. running \in DOMAIN npm' /\ DOMAIN npm' \subseteq Versions
    BY <2>1 DEF With, ReleaseTyped, GatesPassed, Steps
  <2>3. ReleaseTyped'
    BY <2>1, <2>2 DEF ReleaseTyped, Steps
  <2> QED
    BY <1>2, <2>1, <2>2, <2>3 DEF GatesPassed, Later, Steps
<1>8. CASE CreateGitHubRelease \/ RunFails
  <2>1. relPc' = "waiting" /\ UNCHANGED <<tree, tagged, running, fetched, npm>>
    BY <1>8 DEF CreateGitHubRelease, RunFails, StepTo, Rest
  <2> QED
    BY <1>2, <2>1 DEF GatesPassed, Later, Steps
<1> QED
  BY <1>1, <1>3, <1>4, <1>5, <1>6, <1>7, <1>8

(* The invariant always holds.                                              *)
LEMMA ReleaseInvariant == Spec => []ReleaseHolds
<1>1. Init => ReleaseHolds
  <2>1. ReleaseInit => ReleaseInv
    <3> SUFFICES ASSUME ReleaseInit PROVE ReleaseInv
      OBVIOUS
    <3>1. PICK v \in Versions, api \in Apis, body \in Bodies :
              tree = [version |-> v, api |-> api,
                      changelog |-> <<<<"heading", v>>>> \o body \o <<<<"link", v>>>>]
      BY DEF ReleaseInit
    <3> DEFINE head == <<<<"heading", v>>>>
               log == head \o body \o <<<<"link", v>>>>
    <3>2. head \in Seq(Lines) /\ <<"link", v>> \in Lines
      <4>1. <<"heading", v>> \in Lines /\ <<"link", v>> \in Lines
        BY ReleaseAssumption DEF Lines
      <4> QED
        BY <4>1
    <3>3. body \in Seq(Lines)
      BY ReleaseAssumption
    <3>4. tree = [version |-> v, api |-> api, changelog |-> log]
      BY <3>1
    <3>5. head \o body \in Seq(Lines)
      BY <3>2, <3>3
    <3>6. log \in Seq(Lines) \ {<< >>}
      BY <3>2, <3>5, LineAppended
    <3> HIDE DEF log
    <3>7. tree \in TreesOfMain
      BY <3>4, <3>6 DEF TreesOfMain
    <3>8. ReleaseTyped
      BY <3>7 DEF ReleaseInit, ReleaseTyped
    <3> QED
      BY <3>8 DEF ReleaseInit, ReleaseInv, GatesPassed, Later, Steps
  <2> QED
    BY <2>1 DEF Init, ReleaseHolds, ReleaseIdle
<1>2. ReleaseHolds /\ [Next]_scriptsVars => ReleaseHolds'
  <2> SUFFICES ASSUME ReleaseHolds, [Next]_scriptsVars PROVE ReleaseHolds'
    OBVIOUS
  <2>1. CASE UNCHANGED releaseVars
    BY <2>1 DEF releaseVars, ReleaseHolds, ReleaseInv, ReleaseTyped, GatesPassed, Checked,
                SurfacePasses
  <2>2. CASE ReleaseNext
    <3>1. relPc # "idle"
      BY <2>2 DEF ReleaseNext, Commit, FirstRelease, PushTag, StartRun, VerifyTag, ExtractNotes,
                  PrepublishOnly, CheckSurface, Publish, CreateGitHubRelease, RunFails, Steps
    <3>2. ReleaseInv
      BY <3>1 DEF ReleaseHolds
    <3> QED
      BY <2>2, <3>2, MainMoves, RunMoves DEF ReleaseNext, ReleaseHolds
  <2> QED
    BY <2>1, <2>2, ScriptSteps
<1> QED
  BY <1>1, <1>2, PTL DEF Spec

(* The version published before is the highest below.                       *)
LEMMA PreviousIsHighest ==
    ASSUME NEW releases \in SUBSET (Nat \ {0}), NEW v \in Nat,
           NEW p \in releases, p < v, \A q \in releases : q < v => q <= p
    PROVE  previousVersion(releases, v) = p /\ p # 0
<1> DEFINE below == {q \in releases : q < v}
           Highest(x) == x \in below /\ \A q \in below : q <= x
<1>1. Highest(p)
  OBVIOUS
<1>2. \A x : Highest(x) => x = p
  <2> SUFFICES ASSUME NEW x, Highest(x) PROVE x = p
    OBVIOUS
  <2>1. x \in Nat /\ x <= p /\ p <= x
    BY <1>1
  <2> QED
    BY <2>1
<1>3. previousVersion(releases, v) = CHOOSE x : Highest(x)
  <2>1. previousVersion(releases, v) = CHOOSE x \in below : \A q \in below : q <= x
    BY <1>1 DEF previousVersion
  <2> QED
    BY <2>1
<1>4. previousVersion(releases, v) = p
  <2> HIDE DEF Highest
  <2>1. Highest(CHOOSE x : Highest(x))
    BY <1>1
  <2> QED
    BY <1>2, <1>3, <2>1
<1> QED
  BY <1>4

(* What the workflow publishes to npm is documented, ...                    *)
LEMMA PublishesDocumented ==
    ASSUME ReleaseInv, Publish, npm' # npm
    PROVE  /\ DOMAIN npm' \ DOMAIN npm = {running}
           /\ \A p \in DOMAIN npm :
                 /\ p < running /\ npm[p] # npm'[running]
                 /\ \A q \in DOMAIN npm : q < running => q <= p
                 => \E i \in Under(Checked.changelog, running) :
                        Checked.changelog[i][1] = "note"
           /\ \A w \in fetched : \E i \in DOMAIN Checked.changelog :
                 Checked.changelog[i] = <<"heading", w>>
<1> USE DEF ReleaseInv
<1>1. /\ relPc = "publish" /\ running \notin DOMAIN npm
      /\ npm' = With(npm, running, Checked.api)
  BY DEF Publish
<1>2. DOMAIN npm' \ DOMAIN npm = {running} /\ npm'[running] = Checked.api
  BY <1>1 DEF With
<1>3. /\ running \in Versions /\ DOMAIN npm \in SUBSET (Nat \ {0}) /\ running \in Nat
      /\ Checked \in TreesOfMain /\ Checked.version = running
      /\ fetched \subseteq documented(Checked.changelog)
      /\ HasSection(Checked.changelog, running) /\ SurfacePasses(Checked)
  BY <1>1, ReleaseAssumption DEF ReleaseTyped, GatesPassed, Later, Steps, Checked
<1>4. Checked.changelog \in Seq(Lines)
  BY <1>3 DEF TreesOfMain
<1>5. ASSUME NEW p \in DOMAIN npm, p < running,
             \A q \in DOMAIN npm : q < running => q <= p, npm[p] # npm'[running]
      PROVE  \E i \in Under(Checked.changelog, running) : Checked.changelog[i][1] = "note"
  <2>1. previousVersion(DOMAIN npm, running) = p /\ p # 0
    BY <1>3, <1>5, PreviousIsHighest
  <2>2. hasCompatibilityNote(changelogSection(Checked.changelog, running))
    BY <1>2, <1>3, <1>5, <2>1 DEF SurfacePasses, compareDist
  <2> DEFINE section == changelogSection(Checked.changelog, running)
  <2>3. PICK k \in DOMAIN section : section[k][1] = "note"
    BY <2>2 DEF hasCompatibilityNote
  <2>4. section[k] \in ToSet(section)
    BY DEF ToSet
  <2>5. ToSet(section) = {Checked.changelog[i] : i \in Under(Checked.changelog, running)}
    BY <1>3, <1>4, SectionIsUnder
  <2> HIDE DEF section
  <2>6. PICK i \in Under(Checked.changelog, running) : section[k] = Checked.changelog[i]
    BY <2>4, <2>5
  <2> QED
    BY <2>3, <2>6
<1>6. \A w \in fetched : \E i \in DOMAIN Checked.changelog :
          Checked.changelog[i] = <<"heading", w>>
  BY <1>3, <1>4, DocumentedHeading
<1> QED
  BY <1>2, <1>5, <1>6

(* ... and so is what it releases on GitHub.                                *)
LEMMA ReleaseRepeatsNotes ==
    ASSUME ReleaseInv, CreateGitHubRelease
    PROVE  /\ DOMAIN published' \ DOMAIN published = {running}
           /\ running \in DOMAIN npm
           /\ Under(Checked.changelog, running) # {}
           /\ ToSet(published'[running]) =
                 {Checked.changelog[i] : i \in Under(Checked.changelog, running)}
<1> USE DEF ReleaseInv
<1>1. /\ relPc = "github" /\ running \notin DOMAIN published
      /\ published' = With(published, running, notes)
  BY DEF CreateGitHubRelease
<1>2. DOMAIN published' \ DOMAIN published = {running} /\ published'[running] = notes
  BY <1>1 DEF With
<1>3. /\ running \in DOMAIN npm /\ Checked \in TreesOfMain
      /\ HasSection(Checked.changelog, running)
      /\ notes = changelogSection(Checked.changelog, running) /\ notes # << >>
  BY <1>1 DEF ReleaseTyped, GatesPassed, Later, Steps, Checked
<1>4. Checked.changelog \in Seq(Lines)
  BY <1>3 DEF TreesOfMain
<1>5. /\ ToSet(notes) = {Checked.changelog[i] : i \in Under(Checked.changelog, running)}
      /\ Under(Checked.changelog, running) # {}
  BY <1>3, <1>4, SectionIsUnder
<1> QED
  BY <1>2, <1>3, <1>5

(* Whatever is interrupted and repeated, and whatever main and its tags     *)
(* become meanwhile, what reaches npm through the workflow is documented,   *)
(* and what reaches GitHub repeats the changelog.                           *)
THEOREM PublishedIsDocumented == Spec => ReleasesAreDocumented
<1> DEFINE Documented ==
       /\ \A v \in DOMAIN npm' \ DOMAIN npm : npm # << >> =>
              LET log == tagged[v].changelog
                  before == {p \in DOMAIN npm : p < v}
              IN  /\ \A p \in before :
                         (\A q \in before : q <= p) /\ npm[p] # npm'[v]
                         => \E i \in Under(log, v) : log[i][1] = "note"
                  /\ \A w \in fetched : \E i \in DOMAIN log : log[i] = <<"heading", w>>
       /\ \A v \in DOMAIN published' \ DOMAIN published :
              /\ v \in DOMAIN npm
              /\ Under(tagged[v].changelog, v) # {}
              /\ ToSet(published'[v]) =
                    {tagged[v].changelog[i] : i \in Under(tagged[v].changelog, v)}
<1>1. ReleaseHolds /\ [Next]_scriptsVars => [Documented]_<<npm, published>>
  <2> SUFFICES ASSUME ReleaseHolds, [Next]_scriptsVars PROVE [Documented]_<<npm, published>>
    OBVIOUS
  <2>1. CASE UNCHANGED <<npm, published>>
    BY <2>1
  <2>2. CASE ReleaseInv /\ FirstRelease
    <3>1. published' = published /\ npm = << >>
      BY <2>2 DEF FirstRelease, ReleaseInv, ReleaseTyped
    <3> QED
      BY <3>1
  <2>3. CASE ReleaseInv /\ Publish /\ npm' # npm
    <3>1. published' = published
      BY <2>3 DEF Publish, Rest
    <3> QED
      BY <2>3, <3>1, PublishesDocumented DEF Checked
  <2>4. CASE ReleaseInv /\ CreateGitHubRelease
    <3>1. npm' = npm
      BY <2>4 DEF CreateGitHubRelease, Rest
    <3> QED
      BY <2>4, <3>1, ReleaseRepeatsNotes DEF Checked
  <2>5. CASE ReleaseNext
    <3>1. relPc # "idle"
      BY <2>5 DEF ReleaseNext, Commit, FirstRelease, PushTag, StartRun, VerifyTag, ExtractNotes,
                  PrepublishOnly, CheckSurface, Publish, CreateGitHubRelease, RunFails, Steps
    <3>2. ReleaseInv
      BY <3>1 DEF ReleaseHolds
    <3>3. \/ UNCHANGED <<npm, published>> \/ FirstRelease \/ (Publish /\ npm' # npm)
          \/ CreateGitHubRelease
      BY <2>5 DEF ReleaseNext, Commit, PushTag, StartRun, VerifyTag, ExtractNotes,
                  PrepublishOnly, CheckSurface, Publish, RunFails, Rest
    <3> QED
      BY <2>1, <2>2, <2>3, <2>4, <3>2, <3>3
  <2> QED
    BY <2>1, <2>5, ScriptSteps DEF releaseVars
<1> QED
  BY ReleaseInvariant, <1>1, PTL DEF Spec, ReleasesAreDocumented
=============================================================================
