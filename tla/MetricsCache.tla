---------------------------- MODULE MetricsCache ----------------------------
(***************************************************************************)
(* MetricsService of src/server/services/metrics.service.ts and getMetrics *)
(* of queue.service.ts: a cache of job counts with a time to live.         *)
(*                                                                         *)
(* get() looks the queue up, and on a miss awaits Redis before it stores   *)
(* and returns what came back; in between, other gets, invalidate() and    *)
(* the clock go on.  A snapshot is the version of the counts it read.  All *)
(* commands share one connection, so Redis reads, and ioredis answers, in  *)
(* the order they were sent; a command may also fail.                      *)
(*                                                                         *)
(* With metrics.enabled = false every operation throws and nothing here    *)
(* happens.                                                                *)
(***************************************************************************)
EXTENDS Integers, Sequences, FiniteSets, SequencesExt

CONSTANTS Queues, None,
          CacheTtlMs,     \* options.metrics.cacheTtlMs, in ticks
          MaxTime,        \* bound on the clock
          MaxVersion,     \* bound on the changes of a queue's counts
          MaxInFlight     \* bound on the commands in flight

ASSUME MetricsAssumption ==
    /\ CacheTtlMs \in Nat /\ MaxTime \in Nat
    /\ MaxVersion \in Nat /\ MaxInFlight \in Nat
    /\ IsFiniteSet(Queues)

VARIABLES now,      \* Date.now()
          counts,   \* Redis: the version of each queue's counts
          known,    \* the queues cached in QueueService
          cache,    \* queue -> None, or the snapshot and its expiresAt
          wire,     \* getJobCounts commands in flight, oldest first
          answer,   \* queue -> the snapshot last returned, and when
          floor,    \* queue -> the version when it was last invalidated
          overtaken \* the queues of which Redis had executed a command in flight

vars == <<now, counts, known, cache, wire, answer, floor, overtaken>>

Versions == 0 .. MaxVersion
Times == 0 .. MaxTime
Entry == [version : Versions, collectedAt : Times, expiresAt : Int]
Command == [queue : Queues, read : Versions \cup {None}]
Answer == [version : Versions, collectedAt : Times, at : Times]

ASSUME NoneIsNothing == None \notin Versions \cup Entry \cup Answer

MetricsTypeOK ==
    /\ now \in Times
    /\ counts \in [Queues -> Versions]
    /\ known \subseteq Queues
    /\ cache \in [Queues -> Entry \cup {None}]
    /\ wire \in Seq(Command)
    /\ answer \in [Queues -> Answer \cup {None}]
    /\ floor \in [Queues -> Versions]
    /\ overtaken \subseteq Queues

Init ==
    /\ now = 0
    /\ counts = [q \in Queues |-> 0]
    /\ known = {}
    /\ cache = [q \in Queues |-> None]
    /\ wire = << >>
    /\ answer = [q \in Queues |-> None]
    /\ floor = [q \in Queues |-> 0]
    /\ overtaken = {}

-----------------------------------------------------------------------------
(* Mutant: an entry, once there, is always good.                            *)
IsPresent(q) == cache[q] # None

IsFresh(q) == cache[q] # None /\ cache[q].expiresAt > now

FromCache(q) == [version |-> cache[q].version,
                 collectedAt |-> cache[q].collectedAt, at |-> now]

(* get() of every queue of S runs up to its first await: a fresh entry is   *)
(* the answer, otherwise QueueService caches the queue and the command goes *)
(* out.                                                                     *)
Ask(S) ==
    LET hits == {q \in S : IsFresh(q)}
    IN  \E misses \in SetToSeqs(S \ hits) :
        /\ answer' = [q \in Queues |-> IF q \in hits THEN FromCache(q) ELSE answer[q]]
        /\ known' = known \cup (S \ hits)
        /\ Len(wire) + Len(misses) <= MaxInFlight
        /\ wire' = wire \o [i \in DOMAIN misses |-> [queue |-> misses[i], read |-> None]]
        /\ UNCHANGED <<now, counts, cache, floor, overtaken>>

get(q) == Ask({q})

getAll == Ask(known)

(* Mutant: an entry that is there is renewed, and not replaced.             *)
FetchResolvesRenews ==
    /\ wire # << >> /\ Head(wire).read # None
    /\ LET q == Head(wire).queue
           v == Head(wire).read
       IN  /\ cache' = [cache EXCEPT ![q] =
                            IF @ # None THEN [@ EXCEPT !.expiresAt = now + CacheTtlMs]
                            ELSE [version |-> v, collectedAt |-> now,
                                  expiresAt |-> now + CacheTtlMs]]
           /\ answer' = [answer EXCEPT ![q] = [version |-> v, collectedAt |-> now,
                                               at |-> now]]
    /\ wire' = Tail(wire)
    /\ UNCHANGED <<now, counts, known, floor, overtaken>>

(* The answer arrives: it is stamped, stored and returned.                  *)
FetchResolves ==
    /\ wire # << >> /\ Head(wire).read # None
    /\ LET q == Head(wire).queue
           v == Head(wire).read
       IN  /\ cache' = [cache EXCEPT ![q] = [version |-> v, collectedAt |-> now,
                                             expiresAt |-> now + CacheTtlMs]]
           /\ answer' = [answer EXCEPT ![q] = [version |-> v, collectedAt |-> now,
                                               at |-> now]]
    /\ wire' = Tail(wire)
    /\ UNCHANGED <<now, counts, known, floor, overtaken>>

(* getJobCounts rejects: get() rejects with it and stores nothing.          *)
FetchRejects ==
    /\ wire # << >>
    /\ wire' = Tail(wire)
    /\ UNCHANGED <<now, counts, known, cache, answer, floor, overtaken>>

Executed == {wire[i].queue : i \in {k \in DOMAIN wire : wire[k].read # None}}

Invalidated(S) ==
    /\ floor' = [q \in Queues |-> IF q \in S THEN counts[q] ELSE floor[q]]
    /\ overtaken' = (overtaken \ S) \cup (S \cap Executed)
    /\ UNCHANGED <<now, counts, known, wire, answer>>

(* Mutant: without a name only one entry is dropped.                        *)
invalidateOne(S) ==
    /\ cache' = [cache EXCEPT ![CHOOSE q \in S : TRUE] = None]
    /\ Invalidated(S)

(* invalidate(q), and invalidate() for all of them.                         *)
invalidate(S) ==
    /\ cache' = [q \in Queues |-> IF q \in S THEN None ELSE cache[q]]
    /\ Invalidated(S)

-----------------------------------------------------------------------------
(* External: Redis executes the next command; jobs move; time passes.       *)
RedisReads ==
    \E i \in DOMAIN wire :
        /\ wire[i].read = None
        /\ \A k \in 1 .. i - 1 : wire[k].read # None
        /\ wire' = [wire EXCEPT ![i].read = counts[wire[i].queue]]
        /\ UNCHANGED <<now, counts, known, cache, answer, floor, overtaken>>

CountsChange(q) ==
    /\ counts[q] < MaxVersion
    /\ counts' = [counts EXCEPT ![q] = @ + 1]
    /\ UNCHANGED <<now, known, cache, wire, answer, floor, overtaken>>

Tick ==
    /\ now < MaxTime
    /\ now' = now + 1
    /\ UNCHANGED <<counts, known, cache, wire, answer, floor, overtaken>>

Next ==
    \/ \E q \in Queues : get(q) \/ invalidate({q}) \/ CountsChange(q)
    \/ getAll
    \/ invalidate(Queues)
    \/ FetchResolves \/ FetchRejects \/ RedisReads
    \/ Tick

Spec == Init /\ [][Next]_vars

-----------------------------------------------------------------------------
(* No answer is older than the time to live, however the gets, the answers  *)
(* of Redis and the clock interleave.                                       *)
AnswersAreFresh ==
    \A q \in Queues :
        answer[q] # None =>
            \/ answer[q].at = answer[q].collectedAt
            \/ answer[q].at < answer[q].collectedAt + CacheTtlMs

(* The counts a health check sees of a queue never go back in time: not     *)
(* when several gets miss at once, when one of them fails, or when a get is *)
(* served from the cache while a newer fetch is under way.                  *)
AnswersAdvance ==
    [][\A q \in Queues :
           answer[q] # None => answer'[q].version >= answer[q].version]_vars

(* After invalidate() the cache holds nothing read before it, unless a      *)
(* fetch was under way when it was called, and Redis had executed it.       *)
InvalidateHolds ==
    \A q \in Queues \ overtaken :
        cache[q] # None => cache[q].version >= floor[q]

(* "Invalidate the cache": nothing read before the call is served from the  *)
(* cache after it.  The code does not keep this: a get that awaited Redis   *)
(* while invalidate() ran stores what it read before, for a whole ttl.      *)
InvalidateForces ==
    \A q \in Queues : cache[q] # None => cache[q].version >= floor[q]
=============================================================================
