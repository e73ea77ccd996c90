------------------------- MODULE MetricsCacheProofs -------------------------
(***************************************************************************)
(* Proofs about MetricsCache, for any queues, time to live and bounds.     *)
(* Everything rests on the order of one connection: the commands in flight *)
(* that Redis has executed come before the others, and a later one read    *)
(* counts that are at least as new.                                        *)
(***************************************************************************)
EXTENDS MetricsCache, FiniteSetTheorems, SequenceTheorems, TLAPS

(* An entry expires a time to live after its counts were collected.         *)
EntriesExpire ==
    \A q \in Queues : cache[q] # None => cache[q].expiresAt = cache[q].collectedAt + CacheTtlMs

(* What is cached of a queue is what was last answered of it.               *)
CachedIsAnswered ==
    \A q \in Queues :
        cache[q] # None => answer[q] # None /\ answer[q].version = cache[q].version

(* Nothing is newer than the counts themselves.                             *)
NothingAhead ==
    \A q \in Queues :
        /\ floor[q] <= counts[q]
        /\ answer[q] # None => answer[q].version <= counts[q]

(* Redis executes the commands in the order they were sent.                 *)
ReadInOrder ==
    \A i, k \in DOMAIN wire :
        i < k /\ wire[k].read # None =>
            /\ wire[i].read # None
            /\ wire[i].queue = wire[k].queue => wire[i].read <= wire[k].read

(* What a command in flight has read is not older than the last answer, nor *)
(* than an invalidation it was not overtaken by.                            *)
ReadsAreCurrent ==
    \A i \in DOMAIN wire :
        LET q == wire[i].queue
        IN  wire[i].read # None =>
                /\ wire[i].read <= counts[q]
                /\ answer[q] # None => answer[q].version <= wire[i].read
                /\ q \notin overtaken => floor[q] <= wire[i].read

MetricsInv ==
    /\ MetricsTypeOK
    /\ EntriesExpire
    /\ AnswersAreFresh
    /\ CachedIsAnswered
    /\ NothingAhead
    /\ ReadInOrder
    /\ ReadsAreCurrent
    /\ InvalidateHolds

-----------------------------------------------------------------------------
(* A function on an initial segment of the numbers is a sequence.           *)
LEMMA FunctionIsSeq ==
    ASSUME NEW S, NEW n \in Nat, NEW f \in [1 .. n -> S]
    PROVE  f \in Seq(S)
<1>1. f = [i \in 1 .. n |-> f[i]] /\ \A i \in 1 .. n : f[i] \in S
  OBVIOUS
<1>2. [i \in 1 .. n |-> f[i]] \in Seq(S)
  BY <1>1
<1> QED
  BY <1>1, <1>2

(* A get, of one queue or of all, appends commands Redis has yet to execute. *)
LEMMA AskAppends ==
    ASSUME MetricsTypeOK, NEW S \in SUBSET Queues, Ask(S)
    PROVE  /\ wire' \in Seq(Command)
           /\ \A i \in DOMAIN wire : i \in DOMAIN wire' /\ wire'[i] = wire[i]
           /\ \A i \in DOMAIN wire' : i \in DOMAIN wire \/ wire'[i].read = None
<1> DEFINE hits == {q \in S : IsFresh(q)}
           Sent(m) == [i \in DOMAIN m |-> [queue |-> m[i], read |-> None]]
<1>1. PICK misses \in SetToSeqs(S \ hits) : wire' = wire \o Sent(misses)
  BY DEF Ask
<1>2. Cardinality(S \ hits) \in Nat
  BY MetricsAssumption, FS_Subset, FS_CardinalityType
<1>3. misses \in [1 .. Cardinality(S \ hits) -> S \ hits]
  BY DEF SetToSeqs
<1>4. Sent(misses) \in [1 .. Cardinality(S \ hits) -> Command]
  BY <1>3 DEF Command
<1>5. Sent(misses) \in Seq(Command)
  BY <1>2, <1>4, FunctionIsSeq
<1>6. wire \in Seq(Command)
  BY DEF MetricsTypeOK
<1>7. \A i \in DOMAIN Sent(misses) : Sent(misses)[i].read = None
  OBVIOUS
<1> HIDE DEF Sent
<1> QED
  BY <1>1, <1>5, <1>6, <1>7, ConcatProperties

(* An answer, whatever it says, takes the oldest command from the wire.     *)
LEMMA AnswerShifts ==
    ASSUME wire \in Seq(Command), wire # << >>, wire' = Tail(wire)
    PROVE  /\ wire' \in Seq(Command)
           /\ Head(wire) = wire[1] /\ 1 \in DOMAIN wire
           /\ DOMAIN wire \subseteq Nat
           /\ \A i \in DOMAIN wire' : i + 1 \in DOMAIN wire /\ wire'[i] = wire[i + 1]
  BY HeadTailProperties, LenProperties

(* Every command names a queue and has read a version, or nothing yet.      *)
LEMMA CommandsTyped ==
    ASSUME wire \in Seq(Command)
    PROVE  \A i \in DOMAIN wire :
               /\ i \in Nat /\ i >= 1
               /\ wire[i].queue \in Queues /\ wire[i].read \in Versions \cup {None}
<1> SUFFICES ASSUME NEW i \in DOMAIN wire
             PROVE  /\ i \in Nat /\ i >= 1
                    /\ wire[i].queue \in Queues /\ wire[i].read \in Versions \cup {None}
  OBVIOUS
<1>1. wire[i] \in Command /\ i \in Nat /\ i >= 1
  BY ElementOfSeq, LenProperties
<1> QED
  BY <1>1 DEF Command

(* Redis fills in what the oldest command it has not executed yet reads.    *)
LEMMA ReadFillsIn ==
    ASSUME MetricsTypeOK, RedisReads
    PROVE  /\ wire' \in Seq(Command) /\ DOMAIN wire' = DOMAIN wire
           /\ \E i \in DOMAIN wire :
                  /\ wire[i].read = None /\ \A k \in 1 .. i - 1 : wire[k].read # None
                  /\ wire'[i] = [queue |-> wire[i].queue, read |-> counts[wire[i].queue]]
                  /\ \A k \in DOMAIN wire : k # i => wire'[k] = wire[k]
<1>1. PICK i \in DOMAIN wire :
          /\ wire[i].read = None
          /\ \A k \in 1 .. i - 1 : wire[k].read # None
          /\ wire' = [wire EXCEPT ![i].read = counts[wire[i].queue]]
  BY DEF RedisReads
<1> DEFINE c == [queue |-> wire[i].queue, read |-> counts[wire[i].queue]]
<1>2. wire \in Seq(Command) /\ wire[i] \in Command
  BY DEF MetricsTypeOK
<1>3. c \in Command /\ [wire[i] EXCEPT !.read = counts[wire[i].queue]] = c
  BY <1>2 DEF Command, MetricsTypeOK
<1>4. wire' = [wire EXCEPT ![i] = c]
  BY <1>1, <1>3
<1> HIDE DEF c
<1>5. wire' \in Seq(Command)
  BY <1>2, <1>3, <1>4, ExceptSeq, LenProperties
<1>6. wire'[i] = c /\ \A k \in DOMAIN wire : k # i => wire'[k] = wire[k]
  BY <1>4
<1> QED
  BY <1>1, <1>4, <1>5, <1>6 DEF c

-----------------------------------------------------------------------------
(* The typing invariant holds initially.                                    *)
LEMMA InitTyped == Init => MetricsTypeOK
  BY MetricsAssumption DEF Init, MetricsTypeOK, Times, Versions

(* Every step preserves the typing invariant.                               *)
LEMMA StepTyped == MetricsTypeOK /\ [Next]_vars => MetricsTypeOK'
<1> SUFFICES ASSUME MetricsTypeOK, [Next]_vars
             PROVE  MetricsTypeOK'
  OBVIOUS
<1> USE MetricsAssumption DEF MetricsTypeOK
<1>1. ASSUME NEW S \in SUBSET Queues, Ask(S)
      PROVE  MetricsTypeOK'
  <2>1. wire' \in Seq(Command)
    BY <1>1, AskAppends
  <2>2. answer' \in [Queues -> Answer \cup {None}]
    BY <1>1 DEF Ask, IsFresh, FromCache, Entry, Answer
  <2> QED
    BY <1>1, <2>1, <2>2 DEF Ask
<1>2. CASE FetchResolves
  <2>1. wire # << >> /\ wire \in Seq(Command)
    BY <1>2 DEF FetchResolves
  <2>2. Head(wire) \in Command /\ wire' \in Seq(Command)
    BY <1>2, <2>1, HeadTailProperties DEF FetchResolves
  <2>3. Head(wire).queue \in Queues /\ Head(wire).read \in Versions
    BY <1>2, <2>2 DEF FetchResolves, Command
  <2>4. now + CacheTtlMs \in Int
    BY DEF Times
  <2> QED
    BY <1>2, <2>2, <2>3, <2>4 DEF FetchResolves, Entry, Answer
<1>3. CASE FetchRejects
  BY <1>3, HeadTailProperties DEF FetchRejects
<1>4. ASSUME NEW S \in SUBSET Queues, invalidate(S)
      PROVE  MetricsTypeOK'
  BY <1>4 DEF invalidate, Invalidated
<1>5. CASE RedisReads
  <2>1. wire' \in Seq(Command)
    BY <1>5, ReadFillsIn
  <2> QED
    BY <1>5, <2>1 DEF RedisReads
<1>6. ASSUME NEW q \in Queues, CountsChange(q)
      PROVE  MetricsTypeOK'
  BY <1>6 DEF CountsChange, Versions
<1>7. CASE Tick
  BY <1>7 DEF Tick, Times
<1>8. CASE UNCHANGED vars
  BY <1>8 DEF vars
<1> QED
  BY <1>1, <1>2, <1>3, <1>4, <1>5, <1>6, <1>7, <1>8 DEF Next, get, getAll

(* The cache is well typed whatever happens beside it.                      *)
THEOREM MetricsTyping == Spec => []MetricsTypeOK
  BY InitTyped, StepTyped, PTL DEF Spec

-----------------------------------------------------------------------------
(* The invariant holds initially.                                           *)
LEMMA InitInv == Init => MetricsInv
<1> SUFFICES ASSUME Init PROVE MetricsInv
  OBVIOUS
<1>1. MetricsTypeOK
  BY InitTyped
<1>2. EntriesExpire /\ AnswersAreFresh /\ CachedIsAnswered /\ InvalidateHolds
  BY DEF Init, EntriesExpire, AnswersAreFresh, CachedIsAnswered, InvalidateHolds
<1>3. NothingAhead
  BY DEF Init, NothingAhead
<1>4. ReadInOrder /\ ReadsAreCurrent
  BY DEF Init, ReadInOrder, ReadsAreCurrent
<1> QED
  BY <1>1, <1>2, <1>3, <1>4 DEF MetricsInv

(* A get answers from the cache, or sends a command that has read nothing.  *)
LEMMA AskInv ==
    ASSUME MetricsInv, MetricsTypeOK', NEW S \in SUBSET Queues, Ask(S)
    PROVE  MetricsInv'
<1>0. /\ wire' \in Seq(Command)
      /\ \A i \in DOMAIN wire : wire'[i] = wire[i]
      /\ \A i \in DOMAIN wire' : wire'[i].read # None => i \in DOMAIN wire
  <2>1. MetricsTypeOK
    BY DEF MetricsInv
  <2> QED
    BY <2>1, AskAppends
<1> USE NoneIsNothing DEF MetricsInv, MetricsTypeOK
<1>1. UNCHANGED <<now, counts, cache, floor, overtaken>>
  BY DEF Ask
<1>2. \A q \in Queues :
          \/ answer'[q] = answer[q]
          \/ IsFresh(q) /\ answer'[q] = FromCache(q)
  BY DEF Ask
<1>3. \A q \in Queues : IsFresh(q) =>
          /\ cache[q] # None /\ cache[q] \in Entry
          /\ FromCache(q) # None
          /\ answer[q] # None /\ FromCache(q).version = answer[q].version
  BY DEF IsFresh, FromCache, CachedIsAnswered, Entry, Answer
<1>4. \A q \in Queues :
          (answer'[q] # None <=> answer[q] # None) /\ answer'[q].version = answer[q].version
  BY <1>2, <1>3
<1>5. EntriesExpire' /\ InvalidateHolds'
  BY <1>1 DEF EntriesExpire, InvalidateHolds
<1>6. AnswersAreFresh'
  <2> SUFFICES ASSUME NEW q \in Queues, answer'[q] # None
               PROVE  \/ answer'[q].at = answer'[q].collectedAt
                      \/ answer'[q].at < answer'[q].collectedAt + CacheTtlMs
    BY DEF AnswersAreFresh
  <2>1. CASE answer'[q] = answer[q]
    BY <2>1 DEF AnswersAreFresh
  <2>2. CASE IsFresh(q) /\ answer'[q] = FromCache(q)
    <3>1. cache[q].expiresAt = cache[q].collectedAt + CacheTtlMs
      BY <2>2, <1>3 DEF EntriesExpire
    <3>2. now < cache[q].expiresAt
      BY <2>2, <1>3 DEF IsFresh, Entry, Times
    <3> QED
      BY <2>2, <3>1, <3>2 DEF FromCache
  <2> QED
    BY <1>2, <2>1, <2>2
<1>7. CachedIsAnswered' /\ NothingAhead'
  BY <1>1, <1>4 DEF CachedIsAnswered, NothingAhead
<1>8. /\ \A i \in DOMAIN wire : wire'[i] = wire[i] /\ wire[i].queue \in Queues
      /\ \A i \in DOMAIN wire' : wire'[i].read # None => i \in DOMAIN wire
      /\ \A k \in DOMAIN wire, i \in DOMAIN wire' : i < k => i \in DOMAIN wire
  <2>1. /\ wire \in Seq(Command)
        /\ DOMAIN wire = 1 .. Len(wire) /\ Len(wire) \in Nat
        /\ DOMAIN wire' = 1 .. Len(wire') /\ Len(wire') \in Nat
    BY <1>0
  <2>2. \A i \in DOMAIN wire : wire[i].queue \in Queues
    BY <2>1, CommandsTyped
  <2> HIDE DEF MetricsInv, MetricsTypeOK
  <2> QED
    BY <1>0, <2>1, <2>2
<1>9. ReadInOrder'
  BY <1>8 DEF ReadInOrder
<1>10. ReadsAreCurrent'
  <2> SUFFICES ASSUME NEW i \in DOMAIN wire', wire'[i].read # None
               PROVE  LET q == wire'[i].queue
                      IN  /\ wire'[i].read <= counts'[q]
                          /\ answer'[q] # None => answer'[q].version <= wire'[i].read
                          /\ q \notin overtaken' => floor'[q] <= wire'[i].read
    BY DEF ReadsAreCurrent
  <2>1. i \in DOMAIN wire /\ wire'[i] = wire[i] /\ wire[i].queue \in Queues
    BY <1>8
  <2> QED
    BY <1>1, <1>4, <2>1 DEF ReadsAreCurrent
<1> QED
  BY <1>5, <1>6, <1>7, <1>9, <1>10

(* An answer is as new as any before it, and is what is cached from then.   *)
LEMMA ResolveInv ==
    ASSUME MetricsInv, MetricsTypeOK', FetchResolves
    PROVE  MetricsInv'
<1> USE NoneIsNothing DEF MetricsInv, MetricsTypeOK
<1> DEFINE q0 == wire[1].queue
           v0 == wire[1].read
<1>1. /\ wire' \in Seq(Command)
      /\ Head(wire) = wire[1] /\ 1 \in DOMAIN wire
      /\ DOMAIN wire \subseteq Nat
      /\ \A i \in DOMAIN wire' : i + 1 \in DOMAIN wire /\ wire'[i] = wire[i + 1]
  BY AnswerShifts DEF FetchResolves
<1>2. q0 \in Queues /\ v0 \in Versions /\ v0 # None
  <2>1. wire[1] \in Command
    BY <1>1
  <2>2. v0 # None
    BY <1>1 DEF FetchResolves
  <2> QED
    BY <2>1, <2>2 DEF Command
<1>3. /\ cache' = [cache EXCEPT ![q0] = [version |-> v0, collectedAt |-> now,
                                          expiresAt |-> now + CacheTtlMs]]
      /\ answer' = [answer EXCEPT ![q0] = [version |-> v0, collectedAt |-> now, at |-> now]]
      /\ UNCHANGED <<now, counts, floor, overtaken>>
  BY <1>1 DEF FetchResolves
<1>4. /\ v0 <= counts[q0]
      /\ answer[q0] # None => answer[q0].version <= v0
      /\ q0 \notin overtaken => floor[q0] <= v0
  BY <1>1, <1>2 DEF ReadsAreCurrent
<1> HIDE DEF q0, v0
<1>5. EntriesExpire' /\ InvalidateHolds'
  BY <1>2, <1>3, <1>4 DEF EntriesExpire, InvalidateHolds
<1>6. AnswersAreFresh'
  BY <1>2, <1>3 DEF AnswersAreFresh
<1>7. CachedIsAnswered' /\ NothingAhead'
  <2>1. [version |-> v0, collectedAt |-> now, at |-> now] # None
    BY <1>2 DEF Answer, Times
  <2> QED
    BY <1>2, <1>3, <1>4, <2>1 DEF CachedIsAnswered, NothingAhead
<1>8. ReadInOrder'
  <2> SUFFICES ASSUME NEW i \in DOMAIN wire', NEW k \in DOMAIN wire',
                      i < k, wire'[k].read # None
               PROVE  /\ wire'[i].read # None
                      /\ wire'[i].queue = wire'[k].queue => wire'[i].read <= wire'[k].read
    BY DEF ReadInOrder
  <2>1. i \in Nat /\ k \in Nat /\ i + 1 < k + 1
    BY <1>1, LenProperties
  <2> QED
    BY <1>1, <2>1 DEF ReadInOrder
<1>9. ReadsAreCurrent'
  <2> SUFFICES ASSUME NEW i \in DOMAIN wire', wire'[i].read # None
               PROVE  LET q == wire'[i].queue
                      IN  /\ wire'[i].read <= counts'[q]
                          /\ answer'[q] # None => answer'[q].version <= wire'[i].read
                          /\ q \notin overtaken' => floor'[q] <= wire'[i].read
    BY DEF ReadsAreCurrent
  <2>1. /\ i \in Nat /\ 1 < i + 1
        /\ i + 1 \in DOMAIN wire /\ wire'[i] = wire[i + 1]
        /\ wire'[i].queue \in Queues
    <3>1. wire'[i] \in Command /\ i \in 1 .. Len(wire')
      BY <1>1, LenProperties
    <3> QED
      BY <1>1, <3>1 DEF Command
  <2>2. wire'[i].queue = q0 => v0 <= wire'[i].read
    BY <1>1, <2>1 DEF ReadInOrder, q0, v0
  <2>3. /\ wire'[i].read <= counts[wire'[i].queue]
        /\ answer[wire'[i].queue] # None => answer[wire'[i].queue].version <= wire'[i].read
        /\ wire'[i].queue \notin overtaken => floor[wire'[i].queue] <= wire'[i].read
    BY <2>1 DEF ReadsAreCurrent
  <2> QED
    BY <1>2, <1>3, <2>1, <2>2, <2>3
<1> QED
  BY <1>5, <1>6, <1>7, <1>8, <1>9

(* A failed fetch only takes its command from the wire.                     *)
LEMMA RejectInv ==
    ASSUME MetricsInv, MetricsTypeOK', FetchRejects
    PROVE  MetricsInv'
<1> USE DEF MetricsInv, MetricsTypeOK
<1>1. /\ \A i \in DOMAIN wire' : i + 1 \in DOMAIN wire /\ wire'[i] = wire[i + 1]
      /\ wire' \in Seq(Command)
      /\ UNCHANGED <<now, counts, cache, answer, floor, overtaken>>
  BY AnswerShifts DEF FetchRejects
<1>2. /\ EntriesExpire' /\ AnswersAreFresh' /\ InvalidateHolds'
      /\ CachedIsAnswered' /\ NothingAhead'
  BY <1>1 DEF EntriesExpire, AnswersAreFresh, InvalidateHolds, CachedIsAnswered, NothingAhead
<1>3. ReadInOrder'
  <2> SUFFICES ASSUME NEW i \in DOMAIN wire', NEW k \in DOMAIN wire',
                      i < k, wire'[k].read # None
               PROVE  /\ wire'[i].read # None
                      /\ wire'[i].queue = wire'[k].queue => wire'[i].read <= wire'[k].read
    BY DEF ReadInOrder
  <2>1. i \in Nat /\ k \in Nat /\ i + 1 < k + 1
    BY <1>1, LenProperties
  <2> QED
    BY <1>1, <2>1 DEF ReadInOrder
<1>4. ReadsAreCurrent'
  BY <1>1 DEF ReadsAreCurrent
<1> QED
  BY <1>2, <1>3, <1>4

(* An invalidation raises the floor to the present, which every command     *)
(* that Redis executes later respects.                                      *)
LEMMA InvalidateInv ==
    ASSUME MetricsInv, MetricsTypeOK', NEW S \in SUBSET Queues, invalidate(S)
    PROVE  MetricsInv'
<1> USE DEF MetricsInv, MetricsTypeOK
<1>1. /\ cache' = [q \in Queues |-> IF q \in S THEN None ELSE cache[q]]
      /\ floor' = [q \in Queues |-> IF q \in S THEN counts[q] ELSE floor[q]]
      /\ overtaken' = (overtaken \ S) \cup (S \cap Executed)
      /\ UNCHANGED <<now, counts, known, wire, answer>>
  BY DEF invalidate, Invalidated
<1>2. /\ EntriesExpire' /\ AnswersAreFresh' /\ InvalidateHolds' /\ CachedIsAnswered'
  BY <1>1 DEF EntriesExpire, AnswersAreFresh, InvalidateHolds, CachedIsAnswered
<1>3. NothingAhead'
  BY <1>1 DEF NothingAhead, Versions
<1>4. ReadInOrder'
  BY <1>1 DEF ReadInOrder
<1>5. ReadsAreCurrent'
  <2> SUFFICES ASSUME NEW i \in DOMAIN wire, wire[i].read # None
               PROVE  LET q == wire[i].queue
                      IN  /\ wire[i].read <= counts[q]
                          /\ answer[q] # None => answer[q].version <= wire[i].read
                          /\ q \notin overtaken' => floor'[q] <= wire[i].read
    BY <1>1 DEF ReadsAreCurrent
  <2>1. wire[i] \in Command
    OBVIOUS
  <2>2. wire[i].queue \in Executed /\ wire[i].queue \in Queues
    BY <2>1 DEF Executed, Command
  <2> QED
    BY <1>1, <2>2 DEF ReadsAreCurrent
<1> QED
  BY <1>2, <1>3, <1>4, <1>5

(* What Redis reads is the present, and it reads in order.                  *)
LEMMA ReadInv ==
    ASSUME MetricsInv, MetricsTypeOK', RedisReads
    PROVE  MetricsInv'
<1>1. PICK i \in DOMAIN wire :
          /\ wire[i].read = None
          /\ \A k \in 1 .. i - 1 : wire[k].read # None
          /\ wire'[i] = [queue |-> wire[i].queue, read |-> counts[wire[i].queue]]
          /\ \A k \in DOMAIN wire : k # i => wire'[k] = wire[k]
          /\ DOMAIN wire' = DOMAIN wire
  BY ReadFillsIn DEF MetricsInv
<1> USE NoneIsNothing DEF MetricsInv, MetricsTypeOK
<1>2. UNCHANGED <<now, counts, cache, answer, floor, overtaken>>
  BY DEF RedisReads
<1>3. /\ EntriesExpire' /\ AnswersAreFresh' /\ InvalidateHolds'
      /\ CachedIsAnswered' /\ NothingAhead'
  BY <1>2 DEF EntriesExpire, AnswersAreFresh, InvalidateHolds, CachedIsAnswered, NothingAhead
<1>4. /\ \A k \in DOMAIN wire : wire[k].queue \in Queues /\ wire[k].read \in Versions \cup {None}
      /\ \A k \in DOMAIN wire : k \in Nat /\ k >= 1
      /\ \A k \in DOMAIN wire : wire'[k].queue = wire[k].queue
  <2>1. wire \in Seq(Command)
    OBVIOUS
  <2>2. wire'[i].queue = wire[i].queue
    BY <1>1
  <2>3. \A k \in DOMAIN wire : wire'[k].queue = wire[k].queue
    BY <1>1, <2>2
  <2> HIDE DEF MetricsInv, MetricsTypeOK
  <2> QED
    BY <2>1, <2>3, CommandsTyped
<1>5. counts[wire[i].queue] \in Versions /\ counts[wire[i].queue] # None
  BY <1>4
<1>6. ReadInOrder'
  <2> SUFFICES ASSUME NEW j \in DOMAIN wire, NEW k \in DOMAIN wire,
                      j < k, wire'[k].read # None
               PROVE  /\ wire'[j].read # None
                      /\ wire[j].queue = wire[k].queue => wire'[j].read <= wire'[k].read
    BY <1>1, <1>4 DEF ReadInOrder
  <2>1. CASE k = i
    <3>1. wire[j].read # None /\ wire'[j] = wire[j]
      BY <1>1, <1>4, <2>1
    <3>2. wire[j].read <= counts[wire[j].queue]
      BY <3>1 DEF ReadsAreCurrent
    <3> QED
      BY <1>1, <2>1, <3>1, <3>2
  <2>2. CASE j = i
    BY <1>1, <1>4, <2>2 DEF ReadInOrder
  <2>3. CASE j # i /\ k # i
    BY <1>1, <2>3 DEF ReadInOrder
  <2> QED
    BY <2>1, <2>2, <2>3
<1>7. ReadsAreCurrent'
  <2> SUFFICES ASSUME NEW k \in DOMAIN wire, wire'[k].read # None
               PROVE  LET q == wire[k].queue
                      IN  /\ wire'[k].read <= counts[q]
                          /\ answer[q] # None => answer[q].version <= wire'[k].read
                          /\ q \notin overtaken => floor[q] <= wire'[k].read
    BY <1>1, <1>2, <1>4 DEF ReadsAreCurrent
  <2>1. CASE k = i
    BY <1>1, <1>4, <1>5, <2>1 DEF NothingAhead, Versions
  <2>2. CASE k # i
    BY <1>1, <2>2 DEF ReadsAreCurrent
  <2> QED
    BY <2>1, <2>2
<1> QED
  BY <1>3, <1>6, <1>7

(* Every step preserves the invariant.                                      *)
LEMMA StepInv == MetricsInv /\ [Next]_vars => MetricsInv'
<1> SUFFICES ASSUME MetricsInv, [Next]_vars
             PROVE  MetricsInv'
  OBVIOUS
<1>1. MetricsTypeOK'
  BY StepTyped DEF MetricsInv
<1>2. ASSUME NEW S \in SUBSET Queues, Ask(S)
      PROVE  MetricsInv'
  BY <1>1, <1>2, AskInv
<1>3. CASE FetchResolves
  BY <1>1, <1>3, ResolveInv
<1>4. CASE FetchRejects
  BY <1>1, <1>4, RejectInv
<1>5. ASSUME NEW S \in SUBSET Queues, invalidate(S)
      PROVE  MetricsInv'
  BY <1>1, <1>5, InvalidateInv
<1>6. CASE RedisReads
  BY <1>1, <1>6, ReadInv
<1>7. ASSUME NEW q \in Queues, CountsChange(q)
      PROVE  MetricsInv'
  <2> USE <1>1, <1>7 DEF CountsChange, MetricsInv
  <2>1. /\ EntriesExpire' /\ AnswersAreFresh' /\ CachedIsAnswered'
        /\ InvalidateHolds' /\ ReadInOrder'
    BY DEF EntriesExpire, AnswersAreFresh, CachedIsAnswered, InvalidateHolds, ReadInOrder
  <2>2. \A p \in Queues : counts[p] \in Int /\ counts'[p] \in Int /\ counts[p] <= counts'[p]
    BY DEF MetricsTypeOK, Versions
  <2>3. NothingAhead'
    <3> SUFFICES ASSUME NEW p \in Queues
                 PROVE  /\ floor[p] <= counts'[p]
                        /\ answer[p] # None => answer[p].version <= counts'[p]
      BY DEF NothingAhead
    <3>1. floor[p] \in Int /\ (answer[p] # None => answer[p].version \in Int)
      BY DEF MetricsTypeOK, Answer, Versions
    <3> QED
      BY <2>2, <3>1 DEF NothingAhead
  <2>4. ReadsAreCurrent'
    <3>1. wire \in Seq(Command)
      BY DEF MetricsTypeOK
    <3> SUFFICES ASSUME NEW i \in DOMAIN wire, wire[i].read # None
                 PROVE  LET p == wire[i].queue
                        IN  /\ wire[i].read <= counts'[p]
                            /\ answer[p] # None => answer[p].version <= wire[i].read
                            /\ p \notin overtaken => floor[p] <= wire[i].read
      BY DEF ReadsAreCurrent
    <3>2. wire[i].queue \in Queues /\ wire[i].read \in Int
      BY <3>1, CommandsTyped DEF Versions
    <3> QED
      BY <2>2, <3>2 DEF ReadsAreCurrent
  <2> QED
    BY <2>1, <2>3, <2>4
<1>8. CASE Tick
  BY <1>1, <1>8
     DEF Tick, MetricsInv, EntriesExpire, AnswersAreFresh, CachedIsAnswered, NothingAhead,
         ReadInOrder, ReadsAreCurrent, InvalidateHolds
<1>9. CASE UNCHANGED vars
  BY <1>1, <1>9
     DEF vars, MetricsInv, EntriesExpire, AnswersAreFresh, CachedIsAnswered, NothingAhead,
         ReadInOrder, ReadsAreCurrent, InvalidateHolds
<1>10. known \subseteq Queues
  BY DEF MetricsInv, MetricsTypeOK
<1> QED
  BY <1>2, <1>3, <1>4, <1>5, <1>6, <1>7, <1>8, <1>9, <1>10 DEF Next, get, getAll

(* So it is an invariant.                                                   *)
LEMMA InvHolds == Spec => []MetricsInv
  BY InitInv, StepInv, PTL DEF Spec

-----------------------------------------------------------------------------
(* No answer of get() or getAll() is older than the time to live.           *)
THEOREM AnswersFresh == Spec => []AnswersAreFresh
<1>1. MetricsInv => AnswersAreFresh
  BY DEF MetricsInv
<1> QED
  BY <1>1, InvHolds, PTL

(* invalidate() is only undone by a fetch Redis had executed before it.     *)
THEOREM InvalidationHolds == Spec => []InvalidateHolds
<1>1. MetricsInv => InvalidateHolds
  BY DEF MetricsInv
<1> QED
  BY <1>1, InvHolds, PTL

(* The counts answered of a queue never go back in time.                    *)
THEOREM AnswersNeverGoBack == Spec => AnswersAdvance
<1> DEFINE Advance == \A q \in Queues :
                          answer[q] # None => answer'[q].version >= answer[q].version
<1>1. MetricsInv /\ [Next]_vars => [Advance]_vars
  <2> SUFFICES ASSUME MetricsInv, Next,
                      NEW q \in Queues, answer[q] # None
               PROVE  answer'[q].version >= answer[q].version
    OBVIOUS
  <2>1. answer[q].version \in Int
    BY DEF MetricsInv, MetricsTypeOK, Answer, Versions
  <2>2. CASE answer'[q] = answer[q]
    BY <2>1, <2>2
  <2>3. ASSUME NEW S \in SUBSET Queues, Ask(S)
        PROVE  answer'[q].version >= answer[q].version
    <3>1. answer'[q] = answer[q] \/ (IsFresh(q) /\ answer'[q] = FromCache(q))
      BY <2>3 DEF Ask, MetricsInv, MetricsTypeOK
    <3>2. IsFresh(q) => FromCache(q).version = answer[q].version
      BY DEF IsFresh, FromCache, MetricsInv, CachedIsAnswered
    <3> QED
      BY <2>1, <3>1, <3>2
  <2>4. CASE FetchResolves
    <3>1. wire \in Seq(Command) /\ answer \in [Queues -> Answer \cup {None}]
      BY DEF MetricsInv, MetricsTypeOK
    <3>2. Head(wire) = wire[1] /\ 1 \in DOMAIN wire
      BY <2>4, <3>1, AnswerShifts DEF FetchResolves
    <3>3. answer'[q] = answer[q] \/ (wire[1].queue = q /\ answer'[q].version = wire[1].read)
      BY <2>4, <3>1, <3>2 DEF FetchResolves
    <3>4. /\ wire[1].read # None
          /\ wire[1].queue = q => answer[q].version <= wire[1].read
      BY <2>4, <3>2 DEF FetchResolves, MetricsInv, ReadsAreCurrent
    <3>5. wire[1].read \in Int
      BY <3>1, <3>2, <3>4, CommandsTyped DEF Versions
    <3> QED
      BY <2>1, <3>3, <3>4, <3>5
  <2>5. CASE UNCHANGED answer
    BY <2>2, <2>5
  <2>6. known \subseteq Queues
    BY DEF MetricsInv, MetricsTypeOK
  <2> QED
    BY <2>3, <2>4, <2>5, <2>6
       DEF Next, get, getAll, FetchRejects, invalidate, Invalidated, RedisReads,
           CountsChange, Tick
<1> QED
  BY <1>1, InvHolds, PTL DEF Spec, AnswersAdvance
=============================================================================
