----------------------- MODULE QueueOperationsProofs -----------------------
(***************************************************************************)
(* Proofs about QueueOperations for any queues, callers, jobs, batches,    *)
(* schedules, worker options, files and prefixes, and any number of calls  *)
(* and of faults of Redis or the connection.                               *)
(***************************************************************************)
EXTENDS QueueOperations, FiniteSetTheorems, SequenceTheorems, TLAPS

(* What a caller may have asked.                                            *)
PassedOn == {"remove", "pause", "resume", "clean"}
Adds == [op : Adding, queue : Queues, jobs : Seq(Jobs), opts : {TRUE}]
Upserts == [op : {"upsert"}, queue : Queues, repeat : Repeats]
Asks == Adds \cup Upserts \cup [op : PassedOn, queue : Queues] \cup {[op |-> "none"]}

CallsTyped == call \in [Callers -> [ask : Asks, state : States]]

(* Everything on the wire belongs to a call that waits for it, no two       *)
(* commands to one call, and what Redis has executed is recorded.           *)
WireOwned ==
    \A i \in DOMAIN wire :
        /\ call[wire[i].caller].state = "sent"
        /\ wire[i].done = "yes" => wire[i].caller \in executed

OneEach ==
    \A i, k \in DOMAIN wire : wire[i].caller = wire[k].caller => i = k

Commands == [caller : Callers, done : {"no", "yes", "refused"}]

WireInv ==
    wire \in Seq(Commands) /\ CallsTyped /\ WireOwned /\ OneEach /\ ResolvedMeansDone

(* Queues and workers were constructed with the prefix that was resolved,   *)
(* and a worker as it was asked for.                                        *)
BullOptions ==
    [concurrency : 1 .. MaxConcurrency, autorun : BOOLEAN, prefix : {resolved},
     limiter : {o.limiter : o \in WorkerOptions}]

Workers == [asked : WorkerOptions, file : Files \cup {None}, opts : BullOptions,
            running : BOOLEAN]

Sound(w) ==
    /\ w.running \/ w.asked.autorun = FALSE
    /\ w.file # None => validateProcessorFile(w.file)

PrefixesAgree ==
    /\ \A q \in Queues : cached[q] \in {None, resolved}
    /\ worker \in [Queues -> Workers \cup {None}]
    /\ \A q \in Queues : worker[q] # None => Sound(worker[q])

(* Every emitter has its fallback listener from its construction on.        *)
AllListened == Emitting \subseteq fallback

(* A schedule of the right shape was checked after its queue was looked up. *)
CheckedAfterLookup ==
    \A c \in Callers :
        call[c].ask.op = "upsert" /\ validateJobSchedulerOptions(call[c].ask.repeat) =>
            cached[call[c].ask.queue] = resolved

-----------------------------------------------------------------------------
(* What every operation of the services comes to: one call is recorded, its *)
(* command goes out or it is refused, and its queue may have been cached.   *)
SizeDecides(what, state) ==
    /\ what.op = "addBulk" => (state = "sent" <=> Len(what.jobs) <= MaxBulk)
    /\ state = "BULK_ENQUEUE_FAILED" => what.op = "addBulk"

Call(c, q, what, state) ==
    /\ call[c].state # "sent"
    /\ what \in Asks /\ what.op # "none" /\ state \in States \ {"none", "ok", "error"}
    /\ SizeDecides(what, state)
    /\ IF state = "sent" THEN Send(c, what) ELSE Refuse(c, what, state)
    /\ \/ UNCHANGED <<cached, fallback>>
       \/ /\ getOrCreateQueue(q)
          /\ what.queue = q
          /\ state # "sent" => /\ what.op = "upsert" /\ CronAtFault(what.repeat)
                               /\ validateJobSchedulerOptions(what.repeat)
    /\ what.op = "upsert" =>
          /\ state = "INVALID_REPEAT_OPTIONS" <=> ~Runnable(what.repeat)
          /\ validateJobSchedulerOptions(what.repeat) => what.queue = q /\ getOrCreateQueue(q)

CallStep == \E c \in Callers, q \in Queues, what \in Asks, state \in States :
                Call(c, q, what, state)

(* A call leaves alone what is not the caller's, the services' or the wire. *)
LEMMA CallFrame ==
    CallStep => UNCHANGED <<options, observed, worker, alive, stored, kept, scheduler, paused, faults>>
  BY DEF CallStep, Call, Send, Refuse, Made

(* A schedule is runnable if and only if it passes both checks.             *)
LEMMA ChecksDecide ==
    ASSUME NEW r \in RepeatsOf
    PROVE  Runnable(r) <=> /\ validateJobSchedulerOptions(r)
                           /\ r.pattern = "absent" \/ assertValidCron(r)
  BY DEF RepeatsOf, Runnable, validateJobSchedulerOptions, assertValidCron, CronAtFault

(* The calls that add jobs.                                                 *)
LEMMA AddCalls ==
    ASSUME NEW c \in Callers, NEW q \in Queues,
           \/ \E j \in Jobs : enqueue(c, q, j) \/ addFlow(c, q, j)
           \/ \E js \in Batches : enqueueBulk(c, q, js)
    PROVE  CallStep
<1> USE DEF Call, Free, States
<1>1. ASSUME NEW op \in Adding, NEW js \in Seq(Jobs)
      PROVE  /\ AddOf(op, q, js) \in Asks
             /\ AddOf(op, q, js).queue = q
             /\ AddOf(op, q, js).op = op /\ AddOf(op, q, js).jobs = js
             /\ AddOf(op, q, js).op \notin {"upsert", "none"}
  BY DEF AddOf, Adding, Asks, Adds
<1>2. ASSUME NEW j \in Jobs, enqueue(c, q, j) PROVE CallStep
  <2> DEFINE what == AddOf("add", q, <<j>>)
  <2>1. what \in Asks /\ what.queue = q /\ what.op = "add"
    <3>1. "add" \in Adding /\ <<j>> \in Seq(Jobs)
      BY DEF Adding
    <3> QED
      BY <1>1, <3>1, Zenon
  <2>2. Free(c) /\ getOrCreateQueue(q) /\ Send(c, what)
    BY <1>2 DEF enqueue
  <2> HIDE DEF what
  <2>3. SizeDecides(what, "sent") /\ what.op # "upsert"
    BY <2>1 DEF SizeDecides
  <2>4. Call(c, q, what, "sent")
    BY <2>1, <2>2, <2>3
  <2> QED
    BY <2>1, <2>4 DEF CallStep
<1>3. ASSUME NEW j \in Jobs, addFlow(c, q, j) PROVE CallStep
  <2> DEFINE what == AddOf("addFlow", q, <<j>>)
  <2>1. what \in Asks /\ what.queue = q /\ what.op = "addFlow"
    <3>1. "addFlow" \in Adding /\ <<j>> \in Seq(Jobs)
      BY DEF Adding
    <3> QED
      BY <1>1, <3>1, Zenon
  <2>2. /\ Free(c) /\ UNCHANGED <<cached, fallback>>
        /\ Send(c, what) \/ Refuse(c, what, "FLOW_DISABLED")
    BY <1>3 DEF addFlow
  <2> HIDE DEF what
  <2>3. SizeDecides(what, "sent") /\ SizeDecides(what, "FLOW_DISABLED") /\ what.op # "upsert"
    BY <2>1 DEF SizeDecides
  <2>4. Call(c, q, what, "sent") \/ Call(c, q, what, "FLOW_DISABLED")
    BY <2>1, <2>2, <2>3
  <2> QED
    BY <2>1, <2>4 DEF CallStep
<1>4. ASSUME NEW js \in Batches, enqueueBulk(c, q, js) PROVE CallStep
  <2>1. js \in Seq(Jobs)
    BY OperationsAssumption
  <2>3. /\ Len(js) > MaxBulk => SizeDecides(AddOf("addBulk", q, js), "BULK_ENQUEUE_FAILED")
        /\ ~(Len(js) > MaxBulk) => SizeDecides(AddOf("addBulk", q, js), "sent")
    <3>1. Len(js) > MaxBulk <=> ~(Len(js) <= MaxBulk)
      BY <2>1, OperationsAssumption
    <3> QED
      BY <1>1, <2>1, <3>1 DEF SizeDecides, Adding
  <2>2. \/ Call(c, q, AddOf("addBulk", q, js), "sent")
        \/ Call(c, q, AddOf("addBulk", q, js), "BULK_ENQUEUE_FAILED")
    BY <1>1, <1>4, <2>1, <2>3 DEF enqueueBulk, Adding
  <2> QED
    BY <1>1, <2>1, <2>2 DEF CallStep, Adding
<1> QED
  BY <1>2, <1>3, <1>4

(* The calls about schedulers, and those passed on.                         *)
LEMMA OtherCalls ==
    ASSUME NEW c \in Callers, NEW q \in Queues,
           \/ \E r \in Repeats : upsertJobScheduler(c, q, r)
           \/ \E op \in PassedOn : passOn(c, q, op)
    PROVE  CallStep
<1> USE DEF Call, Free, States
<1>1. ASSUME NEW r \in Repeats, upsertJobScheduler(c, q, r) PROVE CallStep
  <2>1. UpsertOf(q, r) \in Asks /\ UpsertOf(q, r).op = "upsert"
        /\ UpsertOf(q, r).queue = q /\ UpsertOf(q, r).repeat = r
    BY DEF UpsertOf, Asks, Upserts
  <2> DEFINE good == r.pattern = "absent" \/ assertValidCron(r)
  <2>2. Runnable(r) <=> validateJobSchedulerOptions(r) /\ good
    BY ChecksDecide, RepeatsAssumption
  <2>3. CASE ~validateJobSchedulerOptions(r)
    <3>1. Call(c, q, UpsertOf(q, r), "INVALID_REPEAT_OPTIONS")
      BY <1>1, <2>1, <2>2, <2>3 DEF upsertJobScheduler, SizeDecides
    <3> QED
      BY <2>1, <3>1 DEF CallStep
  <2>4. CASE validateJobSchedulerOptions(r) /\ good
    <3>1. Call(c, q, UpsertOf(q, r), "sent")
      BY <1>1, <2>1, <2>2, <2>4 DEF upsertJobScheduler, SizeDecides
    <3> QED
      BY <2>1, <3>1 DEF CallStep
  <2>5. CASE validateJobSchedulerOptions(r) /\ ~good
    <3>1. Call(c, q, UpsertOf(q, r), "INVALID_REPEAT_OPTIONS")
      BY <1>1, <2>1, <2>2, <2>5 DEF upsertJobScheduler, SizeDecides, assertValidCron
    <3> QED
      BY <2>1, <3>1 DEF CallStep
  <2> QED
    BY <2>3, <2>4, <2>5
<1>2. ASSUME NEW op \in PassedOn, passOn(c, q, op) PROVE CallStep
  <2> DEFINE what == [op |-> op, queue |-> q]
  <2>1. what \in Asks /\ what.op \in PassedOn /\ what.queue = q
    BY DEF Asks, PassedOn
  <2>2. Call(c, q, what, "sent")
    BY <1>2, <2>1 DEF passOn, PassedOn, SizeDecides
  <2> QED
    BY <2>1, <2>2 DEF CallStep
<1> QED
  BY <1>1, <1>2

(* What the step of a worker registration comes to.                         *)
RegisterStep ==
    \E q \in Queues, o \in WorkerOptions, f \in Files \cup {None} :
        Registered(q, o, f) /\ (f # None => validateProcessorFile(f))

RunStep == \E q \in Queues : RunWorker(q)
ObserveStep == \E q \in Queues : getOrCreate(q)
TakeStep == \E q \in Queues, j \in Jobs : WorkerTakes(q, j)
RemovedStep == \E q \in Queues, j \in Jobs : JobRemoved(q, j)

ObjectStep == RegisterStep \/ RunStep \/ ObserveStep
JobStep == TakeStep \/ RemovedStep
RedisStep == RedisExecutes \/ RedisRefuses \/ Answer \/ ConnectionLost

(* The kinds of step there are.                                             *)
LEMMA StepKinds ==
    [Next]_vars => CallStep \/ ObjectStep \/ JobStep \/ RedisStep \/ UNCHANGED vars
  BY AddCalls, OtherCalls DEF Next, PassedOn, RegisterStep, RunStep, ObserveStep, TakeStep,
                              RemovedStep, ObjectStep, JobStep, RedisStep, register,
                              registerSandboxed

(* Registrations touch neither calls nor jobs, what workers take touches no *)
(* object, and what Redis and the connection do neither.                    *)
LEMMA ObjectFrame ==
    ObjectStep => UNCHANGED <<options, cached, alive, call, wire, redis, calls, faults>>
  BY DEF ObjectStep, RegisterStep, RunStep, ObserveStep, Registered, RunWorker, getOrCreate

LEMMA JobFrame ==
    JobStep => UNCHANGED <<options, emitters, call, wire, scheduler, paused, executed, calls, faults>>
  BY DEF JobStep, TakeStep, RemovedStep, WorkerTakes, JobRemoved

LEMMA RedisFrame ==
    /\ RedisStep => UNCHANGED <<options, emitters, calls>>
    /\ RedisStep /\ ~RedisExecutes => UNCHANGED redis
    /\ RedisStep /\ ~ConnectionLost => UNCHANGED alive
  BY DEF RedisStep, RedisExecutes, RedisRefuses, Answer, ConnectionLost

(* No step changes what was configured.                                     *)
LEMMA OptionsStay == [Next]_vars => UNCHANGED options
  BY StepKinds, CallFrame, ObjectFrame, JobFrame, RedisFrame DEF vars

-----------------------------------------------------------------------------
(* The wire as a sequence.                                                  *)
(* Each of its commands is a caller's.                                      *)
LEMMA OnWire ==
    ASSUME wire \in Seq(Commands), NEW i \in DOMAIN wire
    PROVE  wire[i].caller \in Callers
<1>1. wire[i] \in Commands
  OBVIOUS
<1> QED
  BY <1>1 DEF Commands

(* A command is sent behind the others.                                     *)
LEMMA WireAppended ==
    ASSUME wire \in Seq(Commands), NEW c \in Callers,
           wire' = Append(wire, [caller |-> c, done |-> "no"])
    PROVE  /\ wire' \in Seq(Commands)
           /\ DOMAIN wire' = DOMAIN wire \cup {Len(wire) + 1}
           /\ Len(wire) + 1 \notin DOMAIN wire
           /\ wire'[Len(wire) + 1] = [caller |-> c, done |-> "no"]
           /\ \A i \in DOMAIN wire : wire'[i] = wire[i]
<1> [caller |-> c, done |-> "no"] \in Commands
  BY DEF Commands
<1> QED
  OBVIOUS

(* The first of them is answered and leaves.                                *)
LEMMA WireTail ==
    ASSUME wire \in Seq(Commands), wire # << >>, wire' = Tail(wire)
    PROVE  /\ wire' \in Seq(Commands)
           /\ 1 \in DOMAIN wire /\ Head(wire) = wire[1] /\ wire[1] \in Commands
           /\ \A i \in DOMAIN wire' : i + 1 \in DOMAIN wire /\ wire'[i] = wire[i + 1]
           /\ 1 \notin {i + 1 : i \in DOMAIN wire'}
  OBVIOUS

(* One of them is executed or refused, or all are sent again: it changes    *)
(* what is done and nothing else.                                           *)
LEMMA WireMarked ==
    ASSUME wire \in Seq(Commands), NEW i \in DOMAIN wire, NEW d \in {"no", "yes", "refused"},
           wire' = [wire EXCEPT ![i].done = d]
    PROVE  /\ wire' \in Seq(Commands)
           /\ DOMAIN wire' = DOMAIN wire
           /\ wire'[i] = [caller |-> wire[i].caller, done |-> d]
           /\ \A k \in DOMAIN wire : wire'[k].caller = wire[k].caller
                                     /\ (k # i => wire'[k] = wire[k])
<1>1. DOMAIN wire = 1 .. Len(wire) /\ Len(wire) \in Nat
  OBVIOUS
<1>2. wire \in [1 .. Len(wire) -> Commands]
  BY <1>1
<1>3. wire[i] \in Commands /\ wire'[i] = [wire[i] EXCEPT !.done = d]
  BY <1>2
<1>4. wire'[i] = [caller |-> wire[i].caller, done |-> d]
  BY <1>3 DEF Commands
<1>5. wire'[i] \in Commands
  BY <1>3, <1>4 DEF Commands
<1>6. wire' \in [1 .. Len(wire) -> Commands]
  BY <1>2, <1>5
<1>7. wire' \in Seq(Commands)
  BY <1>1, <1>6, SeqDef
<1>8. \A k \in DOMAIN wire : k # i => wire'[k] = wire[k]
  OBVIOUS
<1> QED
  BY <1>1, <1>4, <1>6, <1>7, <1>8

(* The same of the commands sent again.                                     *)
LEMMA WireResent ==
    ASSUME wire \in Seq(Commands), wire' = [i \in DOMAIN wire |-> [wire[i] EXCEPT !.done = "no"]]
    PROVE  /\ wire' \in Seq(Commands)
           /\ DOMAIN wire' = DOMAIN wire
           /\ \A i \in DOMAIN wire :
                 wire'[i].caller = wire[i].caller /\ wire'[i].done = "no"
<1>1. ASSUME NEW i \in DOMAIN wire
      PROVE  /\ wire'[i] \in Commands
             /\ wire'[i].caller = wire[i].caller /\ wire'[i].done = "no"
  <2>1. wire[i] \in Commands /\ wire'[i] = [wire[i] EXCEPT !.done = "no"]
    OBVIOUS
  <2>2. wire'[i] = [caller |-> wire[i].caller, done |-> "no"]
    BY <2>1 DEF Commands
  <2> QED
    BY <2>1, <2>2 DEF Commands
<1>2. DOMAIN wire = 1 .. Len(wire) /\ Len(wire) \in Nat
  OBVIOUS
<1>3. wire' \in [1 .. Len(wire) -> Commands]
  BY <1>1, <1>2
<1>4. wire' \in Seq(Commands)
  BY <1>2, <1>3, SeqDef
<1> QED
  BY <1>1, <1>4

-----------------------------------------------------------------------------
(* What the steps do to the calls.  A call made is typed, ...               *)
LEMMA CallRecorded ==
    ASSUME CallsTyped, NEW c \in Callers, NEW q \in Queues, NEW what \in Asks,
           NEW state \in States, Call(c, q, what, state)
    PROVE  /\ CallsTyped'
           /\ call'[c] = [ask |-> what, state |-> state]
           /\ \A d \in Callers : d # c => call'[d] = call[d]
<1>1. call' = [call EXCEPT ![c] = [ask |-> what, state |-> state]]
  BY DEF Call, Send, Refuse, Made
<1>2. [ask |-> what, state |-> state] \in [ask : Asks, state : States]
  OBVIOUS
<1> QED
  BY <1>1, <1>2 DEF CallsTyped

(* ... an answer settles the one call it is for, ...                        *)
LEMMA CallAnswered ==
    ASSUME CallsTyped, wire \in Seq(Commands), Answer
    PROVE  /\ CallsTyped'
           /\ wire # << >> /\ wire[1].caller \in Callers /\ wire' = Tail(wire)
           /\ \A c \in Callers : call'[c].ask = call[c].ask
           /\ \A c \in Callers : c # wire[1].caller => call'[c] = call[c]
           /\ call'[wire[1].caller].state =
                 IF wire[1].done = "yes" THEN "ok" ELSE ErrorOf(call[wire[1].caller].ask)
<1> DEFINE d == wire[1].caller
           s == IF wire[1].done = "yes" THEN "ok" ELSE ErrorOf(call[d].ask)
<1>1. wire # << >> /\ wire' = Tail(wire) /\ Head(wire) = wire[1] /\ d \in Callers
  BY WireTail DEF Answer, Commands
<1>2. s \in States
  BY DEF States, ErrorOf
<1>3. call' = [call EXCEPT ![d] = [call[d] EXCEPT !.state = s]]
  BY <1>1 DEF Answer, Settled
<1> HIDE DEF s, d
<1>4. call[d] \in [ask : Asks, state : States]
  BY <1>1 DEF CallsTyped
<1>5. [call[d] EXCEPT !.state = s] = [ask |-> call[d].ask, state |-> s]
  BY <1>4
<1>6. call' = [call EXCEPT ![d] = [ask |-> call[d].ask, state |-> s]]
  BY <1>3, <1>5
<1>7. CallsTyped'
  BY <1>1, <1>2, <1>4, <1>6 DEF CallsTyped
<1> QED
  BY <1>1, <1>6, <1>7 DEF CallsTyped, s, d

(* ... and a lost connection settles all that have no answer, or none.      *)
LEMMA CallsLost ==
    ASSUME CallsTyped, ConnectionLost
    PROVE  /\ CallsTyped'
           /\ \A c \in Callers : call'[c].ask = call[c].ask
           /\ \A c \in Callers :
                 \/ call'[c] = call[c]
                 \/ /\ call'[c].state \in {"error", "BULK_ENQUEUE_FAILED"}
                    /\ call'[c].state = ErrorOf(call[c].ask)
                    /\ \E i \in DOMAIN wire : wire[i].caller = c
           /\ \/ wire' = << >>
              \/ /\ wire' = [i \in DOMAIN wire |-> [wire[i] EXCEPT !.done = "no"]]
                 /\ UNCHANGED call
<1>1. CASE UNCHANGED call /\ wire' = [i \in DOMAIN wire |-> [wire[i] EXCEPT !.done = "no"]]
  BY <1>1 DEF CallsTyped
<1>2. CASE /\ call' = [c \in Callers |-> IF \E i \in DOMAIN wire : wire[i].caller = c
                                         THEN Settled(c, ErrorOf(call[c].ask)) ELSE call[c]]
           /\ wire' = << >>
  <2>1. ASSUME NEW c \in Callers
        PROVE  /\ Settled(c, ErrorOf(call[c].ask)) =
                     [ask |-> call[c].ask, state |-> ErrorOf(call[c].ask)]
               /\ call[c] \in [ask : Asks, state : States]
               /\ ErrorOf(call[c].ask) \in {"error", "BULK_ENQUEUE_FAILED"}
               /\ ErrorOf(call[c].ask) \in States
    BY DEF CallsTyped, Settled, ErrorOf, States
  <2>2. ASSUME NEW c \in Callers
        PROVE  \/ call'[c] = call[c]
               \/ /\ call'[c] = [ask |-> call[c].ask, state |-> ErrorOf(call[c].ask)]
                  /\ \E i \in DOMAIN wire : wire[i].caller = c
    BY <1>2, <2>1
  <2>3. ASSUME NEW c \in Callers PROVE call'[c] \in [ask : Asks, state : States]
    <3>1. [ask |-> call[c].ask, state |-> ErrorOf(call[c].ask)] \in [ask : Asks, state : States]
      BY <2>1
    <3> QED
      BY <2>1, <2>2, <3>1
  <2>4. CallsTyped'
    <3>1. call' \in [Callers -> [ask : Asks, state : States]]
      BY <1>2, <2>3
    <3> QED
      BY <3>1 DEF CallsTyped
  <2>5. ASSUME NEW c \in Callers
        PROVE  /\ call'[c].ask = call[c].ask
               /\ \/ call'[c] = call[c]
                  \/ /\ call'[c].state \in {"error", "BULK_ENQUEUE_FAILED"}
                     /\ call'[c].state = ErrorOf(call[c].ask)
                     /\ \E i \in DOMAIN wire : wire[i].caller = c
    <3>1. CASE call'[c] = call[c]
      BY <3>1
    <3>2. CASE call'[c] = [ask |-> call[c].ask, state |-> ErrorOf(call[c].ask)]
      <4>1. call'[c].ask = call[c].ask /\ call'[c].state = ErrorOf(call[c].ask)
        BY <3>2
      <4> QED
        BY <2>1, <2>2, <4>1
    <3> QED
      BY <2>2, <3>1, <3>2
  <2> QED
    BY <1>2, <2>4, <2>5
<1> QED
  BY <1>1, <1>2 DEF ConnectionLost

-----------------------------------------------------------------------------
(* First invariant: the wire and the calls that wait.                       *)
LEMMA WireInit == Init => WireInv
<1> SUFFICES ASSUME Init PROVE WireInv
  OBVIOUS
<1>1. NoCall \in [ask : Asks, state : States]
  BY DEF NoCall, Asks, States
<1>2. CallsTyped
  BY <1>1 DEF Init, CallsTyped
<1>3. wire = << >> /\ \A c \in Callers : call[c].state = "none"
  BY DEF Init, NoCall
<1> QED
  BY <1>2, <1>3 DEF WireInv, WireOwned, OneEach, ResolvedMeansDone

(* Only a caller that waits for nothing makes a call, so that its command   *)
(* is the only one of its own.                                              *)
LEMMA WireCall ==
    ASSUME WireInv, NEW c \in Callers, NEW q \in Queues, NEW what \in Asks,
           NEW state \in States, Call(c, q, what, state)
    PROVE  WireInv'
<1> USE DEF WireInv
<1>1. /\ CallsTyped'
      /\ call'[c] = [ask |-> what, state |-> state]
      /\ \A d \in Callers : d # c => call'[d] = call[d]
  BY CallRecorded
<1>2. executed' = executed \ {c} /\ call[c].state # "sent" /\ state # "ok"
  BY DEF Call, Send, Refuse, Made
<1>3. \A i \in DOMAIN wire : wire[i].caller \in Callers /\ wire[i].caller # c
  BY <1>2, OnWire DEF WireOwned
<1>4. ResolvedMeansDone'
  BY <1>1, <1>2 DEF ResolvedMeansDone
<1>5. CASE state = "sent"
  <2>1. wire' = Append(wire, [caller |-> c, done |-> "no"])
    BY <1>5 DEF Call, Send
  <2>2. /\ wire' \in Seq(Commands)
        /\ DOMAIN wire' = DOMAIN wire \cup {Len(wire) + 1}
        /\ Len(wire) + 1 \notin DOMAIN wire
        /\ wire'[Len(wire) + 1] = [caller |-> c, done |-> "no"]
        /\ \A i \in DOMAIN wire : wire'[i] = wire[i]
    BY <2>1, WireAppended
  <2>3. WireOwned'
    BY <1>1, <1>2, <1>3, <1>5, <2>2 DEF WireOwned
  <2>4. OneEach'
    BY <1>3, <2>2 DEF OneEach
  <2> QED
    BY <1>1, <1>4, <2>2, <2>3, <2>4
<1>6. CASE state # "sent"
  <2>1. wire' = wire
    BY <1>6 DEF Call, Refuse
  <2> QED
    BY <1>1, <1>2, <1>3, <1>4, <2>1 DEF WireOwned, OneEach
<1> QED
  BY <1>5, <1>6

(* Redis executes or refuses one command; the calls do not know yet.        *)
LEMMA WireRedis ==
    ASSUME WireInv, NEW i \in DOMAIN wire, NEW d \in {"no", "yes", "refused"},
           wire' = [wire EXCEPT ![i].done = d], UNCHANGED call, executed \subseteq executed',
           d = "yes" => wire[i].caller \in executed'
    PROVE  WireInv'
<1> USE DEF WireInv
<1>1. /\ wire' \in Seq(Commands)
      /\ DOMAIN wire' = DOMAIN wire
      /\ wire'[i] = [caller |-> wire[i].caller, done |-> d]
      /\ \A k \in DOMAIN wire : wire'[k].caller = wire[k].caller
                                /\ (k # i => wire'[k] = wire[k])
  BY WireMarked
<1>2. WireOwned'
  <2> SUFFICES ASSUME NEW k \in DOMAIN wire
               PROVE  /\ call[wire'[k].caller].state = "sent"
                      /\ wire'[k].done = "yes" => wire'[k].caller \in executed'
    BY <1>1 DEF WireOwned
  <2>1. CASE k = i
    BY <1>1, <2>1 DEF WireOwned
  <2>2. CASE k # i
    BY <1>1, <2>2 DEF WireOwned
  <2> QED
    BY <2>1, <2>2
<1>3. OneEach'
  BY <1>1 DEF OneEach
<1> QED
  BY <1>1, <1>2, <1>3 DEF CallsTyped, ResolvedMeansDone

(* An answer resolves a call only if Redis has executed its command.        *)
LEMMA WireAnswer == ASSUME WireInv, Answer PROVE WireInv'
<1> USE DEF WireInv
<1> DEFINE d == wire[1].caller
<1>1. /\ CallsTyped'
      /\ wire # << >> /\ d \in Callers /\ wire' = Tail(wire)
      /\ \A c \in Callers : c # d => call'[c] = call[c]
      /\ \A c \in Callers : call'[c].ask = call[c].ask
      /\ call'[d].state = IF wire[1].done = "yes" THEN "ok" ELSE ErrorOf(call[d].ask)
  BY CallAnswered
<1>2. /\ wire' \in Seq(Commands)
      /\ 1 \in DOMAIN wire
      /\ \A i \in DOMAIN wire' : i \in Int /\ i + 1 \in DOMAIN wire
                                 /\ i + 1 # 1 /\ wire'[i] = wire[i + 1]
  BY <1>1, WireTail
<1>3. executed' = executed
  BY DEF Answer, redis
<1> HIDE DEF d
<1>4. ASSUME NEW i \in DOMAIN wire' PROVE wire'[i].caller \in Callers /\ wire'[i].caller # d
  <2>1. i + 1 \in DOMAIN wire /\ i + 1 # 1 /\ wire'[i] = wire[i + 1]
    BY <1>2
  <2>2. wire[i + 1].caller \in Callers
    BY <2>1, OnWire
  <2>3. wire[i + 1].caller # d
    BY <1>2, <2>1 DEF OneEach, d
  <2> QED
    BY <2>1, <2>2, <2>3
<1>5. WireOwned'
  BY <1>1, <1>2, <1>3, <1>4 DEF WireOwned
<1>6. OneEach'
  <2> SUFFICES ASSUME NEW i \in DOMAIN wire', NEW k \in DOMAIN wire',
                      wire'[i].caller = wire'[k].caller
               PROVE  i = k
    BY DEF OneEach
  <2>1. i + 1 = k + 1
    BY <1>2 DEF OneEach
  <2> QED
    BY <1>2, <2>1
<1>7. ResolvedMeansDone'
  <2> SUFFICES ASSUME NEW c \in Callers, call'[c].state = "ok" PROVE c \in executed
    BY <1>3 DEF ResolvedMeansDone
  <2>1. CASE c # d
    BY <1>1, <2>1 DEF ResolvedMeansDone
  <2>2. CASE c = d
    <3>1. wire[1].done = "yes"
      BY <1>1, <2>2 DEF ErrorOf
    <3> QED
      BY <1>1, <1>2, <2>2, <3>1 DEF WireOwned, d
  <2> QED
    BY <2>1, <2>2
<1> QED
  BY <1>1, <1>2, <1>5, <1>6, <1>7

(* A lost connection rejects whatever is on the wire, or sends it again.    *)
LEMMA WireLost == ASSUME WireInv, ConnectionLost PROVE WireInv'
<1> USE DEF WireInv
<1>1. /\ CallsTyped'
      /\ \A c \in Callers : call'[c].ask = call[c].ask
      /\ \A c \in Callers :
            call'[c] = call[c] \/ call'[c].state \in {"error", "BULK_ENQUEUE_FAILED"}
      /\ \/ wire' = << >>
         \/ /\ wire' = [i \in DOMAIN wire |-> [wire[i] EXCEPT !.done = "no"]]
            /\ UNCHANGED call
  BY CallsLost
<1>2. executed' = executed
  BY DEF ConnectionLost, redis
<1>3. ResolvedMeansDone'
  BY <1>1, <1>2 DEF ResolvedMeansDone
<1>4. CASE wire' = << >>
  BY <1>1, <1>3, <1>4 DEF WireOwned, OneEach
<1>5. CASE UNCHANGED call /\ wire' = [i \in DOMAIN wire |-> [wire[i] EXCEPT !.done = "no"]]
  <2>1. /\ wire' \in Seq(Commands)
        /\ DOMAIN wire' = DOMAIN wire
        /\ \A i \in DOMAIN wire : wire'[i].caller = wire[i].caller /\ wire'[i].done = "no"
    BY <1>5, WireResent
  <2> QED
    BY <1>1, <1>3, <1>5, <2>1 DEF WireOwned, OneEach
<1> QED
  BY <1>1, <1>4, <1>5

(* Every step preserves the first invariant.                                *)
LEMMA WireStep == WireInv /\ [Next]_vars => WireInv'
<1> SUFFICES ASSUME WireInv, [Next]_vars PROVE WireInv'
  OBVIOUS
<1>1. CASE CallStep
  BY <1>1, WireCall DEF CallStep
<1>2. CASE UNCHANGED <<call, wire, executed>>
  BY <1>2 DEF WireInv, CallsTyped, WireOwned, OneEach, ResolvedMeansDone
<1>3. CASE RedisExecutes
  <2> PICK i \in DOMAIN wire : /\ Effect(call[wire[i].caller].ask)
                               /\ executed' = executed \cup {wire[i].caller}
                               /\ wire' = [wire EXCEPT ![i].done = "yes"]
                               /\ UNCHANGED call
    BY <1>3 DEF RedisExecutes
  <2> QED
    BY WireRedis
<1>4. CASE RedisRefuses
  <2> PICK i \in DOMAIN wire : /\ wire' = [wire EXCEPT ![i].done = "refused"]
                               /\ UNCHANGED <<call, executed>>
    BY <1>4 DEF RedisRefuses, redis
  <2> QED
    BY WireRedis
<1>5. CASE ObjectStep \/ JobStep \/ UNCHANGED vars
  BY <1>2, <1>5, ObjectFrame, JobFrame DEF vars, redis
<1> QED
  BY <1>1, <1>3, <1>4, <1>5, WireAnswer, WireLost, StepKinds DEF RedisStep

(* The first invariant always holds.                                        *)
LEMMA WireInvariant == Spec => []WireInv
  BY WireInit, WireStep, PTL DEF Spec

(* A call that resolved took effect: Redis has executed its command, even   *)
(* if the connection was lost, the command sent again or others refused in  *)
(* between, for any number of callers, calls and faults.                    *)
THEOREM ResolvedCallsAreDone == Spec => []ResolvedMeansDone
<1>1. WireInv => ResolvedMeansDone
  BY DEF WireInv
<1> QED
  BY WireInvariant, <1>1, PTL

-----------------------------------------------------------------------------
(* Second invariant: the objects the services constructed.                  *)
ObjectsInv == PrefixesAgree /\ AllListened /\ alive

(* What is thrown can be described, whatever it is, so that the guarded     *)
(* handler and the fallback listener return.                                *)
LEMMA ListenersReturn ==
    ASSUME NEW v \in Values, NEW h \in Handlers
    PROVE  /\ Report(v) = "returns"
           /\ guardListener(h) = "returns"
           /\ EmitError(TRUE, v, h) = "returns"
           /\ \A f \in BOOLEAN : EmitEvent(f, h) = "returns"
<1>1. \A u \in Values : Report(u) = "returns"
  BY DEF Report, describeError, Values
<1>2. h.value \in Values /\ h.ends \in {"returns", "throws", "rejects"}
  BY DEF Handlers
<1>3. guardListener(h) = "returns"
  BY <1>1, <1>2 DEF guardListener
<1>4. EmitError(TRUE, v, h) = "returns"
  BY <1>1, <1>3 DEF EmitError
<1>5. \A f \in BOOLEAN : EmitEvent(f, h) = "returns"
  BY <1>3 DEF EmitEvent
<1> QED
  BY <1>1, <1>3, <1>4, <1>5

(* Nothing is constructed at the start but the FlowProducer.                *)
LEMMA ObjectsInit == Init => ObjectsInv
<1> SUFFICES ASSUME Init PROVE ObjectsInv
  OBVIOUS
<1>1. PrefixesAgree /\ alive
  BY DEF Init, PrefixesAgree
<1>2. AllListened
  BY DEF Init, AllListened, Emitting
<1> QED
  BY <1>1, <1>2 DEF ObjectsInv

(* A call constructs at most a Queue, with the prefix and a listener.       *)
LEMMA ObjectsCall ==
    ASSUME ObjectsInv, NEW c \in Callers, NEW q \in Queues, NEW what \in Asks,
           NEW state \in States, Call(c, q, what, state), OpsTypeOK
    PROVE  ObjectsInv'
<1> USE DEF ObjectsInv
<1>1. UNCHANGED <<options, observed, worker, alive>>
  BY DEF Call, Send, Refuse, Made
<1>2. CASE UNCHANGED <<cached, fallback>>
  BY <1>1, <1>2 DEF PrefixesAgree, Workers, BullOptions, resolved, AllListened, Emitting
<1>3. CASE getOrCreateQueue(q)
  <2>1. PrefixesAgree'
    BY <1>1, <1>3 DEF getOrCreateQueue, PrefixesAgree, Workers, BullOptions, resolved, OpsTypeOK
  <2>2. Emitting' \subseteq Emitting \cup {<<"queue", q>>}
    BY <1>1, <1>3 DEF getOrCreateQueue, Emitting, OpsTypeOK
  <2>3. AllListened'
    BY <1>3, <2>2 DEF getOrCreateQueue, AllListened
  <2> QED
    BY <1>1, <2>1, <2>3
<1> QED
  BY <1>2, <1>3 DEF Call

(* The options a worker is constructed with are ones BullMQ can run.        *)
LEMMA OptionsBuilt ==
    ASSUME NEW o \in WorkerOptions, validateOptions(o), ~ConstructorThrows(buildBullOptions(o))
    PROVE  /\ buildBullOptions(o) \in BullOptions
           /\ buildBullOptions(o).autorun \/ o.autorun = FALSE
<1> DEFINE n == IF o.concurrency = Undefined THEN DefaultConcurrency ELSE o.concurrency
<1>1. n # NaN
  BY DEF ConstructorThrows, buildBullOptions
<1>2. n \in 1 .. MaxConcurrency
  BY <1>1, OperationsAssumption DEF validateOptions, Below
<1> DEFINE runs == o.autorun # FALSE
<1>3. /\ buildBullOptions(o) = [concurrency |-> n, autorun |-> runs,
                               prefix |-> resolved, limiter |-> o.limiter]
      /\ o.limiter \in {u.limiter : u \in WorkerOptions}
  BY DEF buildBullOptions
<1>4. runs \in BOOLEAN /\ (runs \/ o.autorun = FALSE)
  OBVIOUS
<1> HIDE DEF n, runs
<1>5. buildBullOptions(o) \in BullOptions
  BY <1>2, <1>3, <1>4 DEF BullOptions
<1>6. buildBullOptions(o).autorun = runs
  BY <1>3
<1> QED
  BY <1>4, <1>5, <1>6

(* A registration constructs a Worker that BullMQ can run.                  *)
LEMMA ObjectsRegister ==
    ASSUME ObjectsInv, NEW q \in Queues, NEW o \in WorkerOptions, NEW f \in Files \cup {None},
           Registered(q, o, f), f # None => validateProcessorFile(f)
    PROVE  ObjectsInv'
<1> USE DEF ObjectsInv
<1>1. UNCHANGED <<options, cached, observed, alive>>
  BY DEF Registered
<1> DEFINE b == buildBullOptions(o)
           w == [asked |-> o, file |-> f, opts |-> b, running |-> b.autorun]
<1>2. b \in BullOptions /\ (b.autorun \/ o.autorun = FALSE)
  BY OptionsBuilt DEF Registered
<1>3. worker' = [worker EXCEPT ![q] = w] /\ fallback' = fallback \cup {<<"worker", q>>}
  BY DEF Registered
<1> HIDE DEF b
<1>4. w \in Workers /\ Sound(w)
  BY <1>2 DEF Workers, BullOptions, Sound
<1> HIDE DEF w
<1>5. PrefixesAgree'
  BY <1>1, <1>3, <1>4 DEF PrefixesAgree, resolved, Workers, BullOptions
<1>6. Emitting' \subseteq Emitting \cup {<<"worker", q>>}
  BY <1>1, <1>3 DEF Emitting, PrefixesAgree
<1>7. AllListened'
  BY <1>3, <1>6 DEF AllListened
<1> QED
  BY <1>1, <1>5, <1>7

(* A worker started later is the same worker.                               *)
LEMMA ObjectsRun ==
    ASSUME ObjectsInv, NEW q \in Queues, RunWorker(q)
    PROVE  ObjectsInv'
<1> USE DEF ObjectsInv
<1>1. UNCHANGED <<options, cached, observed, fallback, alive>>
  BY DEF RunWorker
<1> DEFINE w == [worker[q] EXCEPT !.running = TRUE]
<1>2. worker[q] # None /\ worker[q] \in Workers /\ Sound(worker[q])
  BY DEF RunWorker, PrefixesAgree
<1>3. w \in Workers /\ Sound(w)
  BY <1>2 DEF Workers, Sound
<1>4. worker' = [worker EXCEPT ![q] = w]
  BY DEF RunWorker
<1> HIDE DEF w
<1>5. PrefixesAgree'
  BY <1>1, <1>3, <1>4 DEF PrefixesAgree, resolved, Workers, BullOptions
<1>6. Emitting' \subseteq Emitting
  BY <1>1, <1>2, <1>4 DEF Emitting, PrefixesAgree
<1>7. AllListened'
  BY <1>1, <1>6 DEF AllListened
<1> QED
  BY <1>1, <1>5, <1>7

(* QueueEvents get their listener as they are constructed.                  *)
LEMMA ObjectsObserve ==
    ASSUME ObjectsInv, NEW q \in Queues, getOrCreate(q)
    PROVE  ObjectsInv'
<1> USE DEF ObjectsInv
<1>1. UNCHANGED <<options, cached, worker, alive>>
  BY DEF getOrCreate
<1>2. PrefixesAgree'
  BY <1>1 DEF PrefixesAgree, resolved, Workers, BullOptions
<1>3. Emitting' \subseteq Emitting \cup {<<"events", q>>}
  BY <1>1 DEF Emitting, getOrCreate
<1>4. AllListened'
  BY <1>3 DEF AllListened, getOrCreate
<1> QED
  BY <1>1, <1>2, <1>4

(* Every step preserves the second invariant.                               *)
LEMMA ObjectsStep == OpsTypeOK /\ ObjectsInv /\ [Next]_vars => ObjectsInv'
<1> SUFFICES ASSUME OpsTypeOK, ObjectsInv, [Next]_vars PROVE ObjectsInv'
  OBVIOUS
<1>1. CASE CallStep
  BY <1>1, ObjectsCall DEF CallStep
<1>2. CASE ObjectStep
  BY <1>2, ObjectsRegister, ObjectsRun, ObjectsObserve
     DEF ObjectStep, RegisterStep, RunStep, ObserveStep
<1>3. CASE UNCHANGED <<options, emitters>> /\ alive'
  BY <1>3 DEF ObjectsInv, emitters, PrefixesAgree, Workers, BullOptions, resolved, AllListened,
              Emitting
<1>4. CASE TakeStep
  <2>1. PICK q \in Queues, h \in Handlers :
            alive' = \A e \in Emitting \cap {<<"worker", q>>, <<"events", q>>} :
                         EmitEvent(e \in fallback, h) = "returns"
    BY <1>4 DEF TakeStep, WorkerTakes
  <2>2. ASSUME NEW e PROVE EmitEvent(e \in fallback, h) = "returns"
    <3>1. (e \in fallback) \in BOOLEAN
      OBVIOUS
    <3> QED
      BY <3>1, ListenersReturn DEF Values
  <2>3. alive'
    BY <2>1, <2>2
  <2> QED
    BY <1>3, <1>4, <2>3, JobFrame DEF JobStep
<1>5. CASE ConnectionLost
  <2>0. PICK vh \in Values \X Handlers :
            alive' = \A e \in Emitting : EmitError(e \in fallback, vh[1], vh[2]) = "returns"
    BY <1>5 DEF ConnectionLost
  <2>1. PICK v \in Values, h \in Handlers :
            alive' = \A e \in Emitting : EmitError(e \in fallback, v, h) = "returns"
    BY <2>0
  <2>2. \A e \in Emitting : EmitError(e \in fallback, v, h) = "returns"
    <3> SUFFICES ASSUME NEW e \in Emitting PROVE EmitError(e \in fallback, v, h) = "returns"
      OBVIOUS
    <3>1. (e \in fallback) = TRUE
      BY DEF ObjectsInv, AllListened
    <3> QED
      BY <3>1, ListenersReturn
  <2> QED
    BY <1>3, <1>5, <2>1, <2>2 DEF ConnectionLost
<1>6. CASE RemovedStep \/ RedisExecutes \/ RedisRefuses \/ Answer \/ UNCHANGED vars
  BY <1>3, <1>6 DEF RemovedStep, JobRemoved, RedisExecutes, RedisRefuses, Answer, vars, emitters,
                    ObjectsInv
<1> QED
  BY <1>1, <1>2, <1>4, <1>5, <1>6, StepKinds DEF JobStep, RedisStep

-----------------------------------------------------------------------------
(* What Redis does with a command.  A job is in a list of jobs finitely     *)
(* often, ...                                                               *)
LEMMA TimesNat == ASSUME NEW js \in Seq(Jobs), NEW j PROVE Times(j, js) \in Nat
<1> DEFINE T == {i \in DOMAIN js : js[i] = j}
<1>1. T \subseteq 1 .. Len(js) /\ Len(js) \in Nat
  OBVIOUS
<1>2. IsFiniteSet(T)
  BY <1>1, FS_Interval, FS_Subset
<1>3. Cardinality(T) \in Nat
  BY <1>2, FS_CardinalityType
<1> QED
  BY <1>3 DEF Times

(* ... and with a custom jobId no more than one copy of it is kept.         *)
LEMMA CopiesOnce ==
    ASSUME NEW j \in Jobs, NEW cmd \in Adds, NEW before \in Nat, NEW taken \in BOOLEAN
    PROVE  /\ Copies(j, cmd, before, taken) \in Nat
           /\ j \in WithId /\ before <= 1 => Copies(j, cmd, before, taken) <= 1
           /\ j \in WithId /\ taken => Copies(j, cmd, before, taken) = before
<1>1. cmd.jobs \in Seq(Jobs) /\ cmd.opts = TRUE
  BY DEF Adds
<1>2. Times(j, cmd.jobs) \in Nat
  BY <1>1, TimesNat
<1> QED
  BY <1>1, <1>2 DEF Copies

StoredTyped ==
    stored \in [Queues -> [Jobs -> Nat]] /\ kept \in [Queues -> SUBSET WithId]

(* A custom jobId is one job's, in the counts of one queue.                 *)
Once(counts, taken) == \A j \in WithId : counts[j] <= 1 /\ (j \in taken => counts[j] = 0)

LEMMA RetryIsOnce == RetryAddsOnce <=> \A q \in Queues : Once(stored[q], kept[q])
  BY DEF RetryAddsOnce, Once

(* A step changes the jobs of one queue.                                    *)
LEMMA OneQueueChanges ==
    ASSUME StoredTyped, NEW q \in Queues, NEW counts \in [Jobs -> Nat], NEW taken \in SUBSET WithId,
           stored' = [stored EXCEPT ![q] = counts], kept' = [kept EXCEPT ![q] = taken],
           Once(stored[q], kept[q]) => Once(counts, taken)
    PROVE  StoredTyped' /\ (RetryAddsOnce => RetryAddsOnce')
<1>1. StoredTyped'
  BY DEF StoredTyped
<1>2. \A p \in Queues : /\ stored'[p] = IF p = q THEN counts ELSE stored[p]
                       /\ kept'[p] = IF p = q THEN taken ELSE kept[p]
  BY DEF StoredTyped
<1>3. ASSUME RetryAddsOnce PROVE RetryAddsOnce'
  <2>1. \A p \in Queues : Once(stored[p], kept[p])
    BY <1>3, RetryIsOnce
  <2>2. \A p \in Queues : Once(stored'[p], kept'[p])
    BY <1>2, <2>1 DEF Once
  <2> QED
    BY <2>2 DEF RetryAddsOnce, Once
<1> QED
  BY <1>1, <1>3

(* A command that adds jobs is typed as one, and names a queue.             *)
LEMMA AsksByOp ==
    ASSUME NEW cmd \in Asks
    PROVE  /\ cmd.op \in Adding => cmd \in Adds /\ cmd.queue \in Queues
           /\ cmd.op = "upsert" => cmd \in Upserts /\ cmd.queue \in Queues
                                   /\ cmd.repeat \in Repeats
           /\ cmd.op \in PassedOn => cmd.queue \in Queues
<1>1. CASE cmd \in Adds
  BY <1>1 DEF Adds, Adding, PassedOn
<1>2. CASE cmd \in Upserts
  BY <1>2 DEF Upserts, Adding, PassedOn
<1>3. CASE cmd \in [op : PassedOn, queue : Queues]
  BY <1>3 DEF Adding, PassedOn
<1>4. CASE cmd = [op |-> "none"]
  BY <1>4 DEF Adding, PassedOn
<1> QED
  BY <1>1, <1>2, <1>3, <1>4 DEF Asks

(* So executing any of them keeps the jobs typed and each jobId single.     *)
LEMMA EffectOnJobs ==
    ASSUME StoredTyped, NEW cmd \in Asks, Effect(cmd), WithId \subseteq Jobs
    PROVE  StoredTyped' /\ (RetryAddsOnce => RetryAddsOnce')
<1>1. CASE cmd.op \in Adding
  <2>1. cmd \in Adds /\ cmd.queue \in Queues
    BY <1>1, AsksByOp
  <2> DEFINE q == cmd.queue
             copies(j) == Copies(j, cmd, stored[q][j], j \in kept[q])
             counts == [j \in Jobs |-> copies(j)]
  <2>2. stored' = [stored EXCEPT ![q] = counts] /\ kept' = kept
    BY <1>1, <2>1 DEF Effect, Adding
  <2>3. \A j \in Jobs : stored[q][j] \in Nat /\ (j \in kept[q]) \in BOOLEAN
    BY <2>1 DEF StoredTyped
  <2>4. ASSUME NEW j \in Jobs
        PROVE  /\ copies(j) \in Nat
               /\ j \in WithId /\ stored[q][j] <= 1 => copies(j) <= 1
               /\ j \in WithId /\ j \in kept[q] => copies(j) = stored[q][j]
    BY <2>1, <2>3, CopiesOnce
  <2> HIDE DEF copies
  <2>5. counts \in [Jobs -> Nat] /\ \A j \in Jobs : counts[j] = copies(j)
    BY <2>4
  <2> HIDE DEF counts
  <2>6. Once(stored[q], kept[q]) => Once(counts, kept[q])
    <3> SUFFICES ASSUME Once(stored[q], kept[q]), NEW j \in WithId
                 PROVE  counts[j] <= 1 /\ (j \in kept[q] => counts[j] = 0)
      BY DEF Once
    <3>1. stored[q][j] <= 1 /\ (j \in kept[q] => stored[q][j] = 0) /\ j \in Jobs
      BY DEF Once
    <3>2. counts[j] = copies(j)
      BY <2>5, <3>1
    <3> QED
      BY <2>4, <3>1, <3>2
  <2>7. kept' = [kept EXCEPT ![q] = kept[q]] /\ kept[q] \in SUBSET WithId
    BY <2>1, <2>2 DEF StoredTyped
  <2> HIDE DEF q
  <2> QED
    BY <2>1, <2>2, <2>5, <2>6, <2>7, OneQueueChanges DEF q
<1>2. CASE cmd.op = "clean"
  <2>1. cmd.queue \in Queues
    BY <1>2, AsksByOp DEF PassedOn
  <2> DEFINE q == cmd.queue
  <2>2. PICK left \in [Jobs -> UNION {0 .. stored[q][j] : j \in Jobs}], still \in SUBSET kept[q] :
            /\ \A j \in Jobs : left[j] <= stored[q][j]
            /\ stored' = [stored EXCEPT ![q] = left]
            /\ kept' = [kept EXCEPT ![q] = still]
    BY <1>2 DEF Effect, Adding
  <2> HIDE DEF q
  <2>3. q \in Queues /\ \A j \in Jobs : stored[q][j] \in Nat
    BY <2>1 DEF StoredTyped, q
  <2>4. UNION {0 .. stored[q][j] : j \in Jobs} \subseteq Nat
    BY <2>3
  <2>5. left \in [Jobs -> Nat] /\ still \in SUBSET WithId
    BY <2>3, <2>4 DEF StoredTyped
  <2>6. Once(stored[q], kept[q]) => Once(left, still)
    BY <2>2, <2>3, <2>5 DEF Once
  <2> QED
    BY <2>2, <2>3, <2>5, <2>6, OneQueueChanges
<1>3. CASE cmd.op \notin Adding \cup {"clean"}
  <2>1. UNCHANGED <<stored, kept>>
    BY <1>3 DEF Effect
  <2> QED
    BY <2>1 DEF RetryAddsOnce, StoredTyped
<1> QED
  BY <1>1, <1>2, <1>3

(* It stores a schedule only of an upsert, and pauses queues.               *)
LEMMA EffectOnQueues ==
    ASSUME scheduler \in [Queues -> RepeatsOf \cup {None}], paused \subseteq Queues,
           NEW cmd \in Asks, Effect(cmd)
    PROVE  /\ scheduler' \in [Queues -> RepeatsOf \cup {None}]
           /\ paused' \subseteq Queues
           /\ \A q \in Queues : \/ scheduler'[q] \in {scheduler[q], None}
                                \/ cmd.op = "upsert" /\ scheduler'[q] = cmd.repeat
<1>1. CASE cmd.op = "upsert"
  <2>1. cmd.queue \in Queues /\ cmd.repeat \in RepeatsOf
    BY <1>1, AsksByOp, RepeatsAssumption
  <2>2. scheduler' = [scheduler EXCEPT ![cmd.queue] = cmd.repeat] /\ paused' = paused
    BY <1>1 DEF Effect
  <2> QED
    BY <1>1, <2>1, <2>2
<1>2. CASE cmd.op = "remove"
  <2>1. scheduler' = [scheduler EXCEPT ![cmd.queue] = None] /\ paused' = paused
    BY <1>2 DEF Effect
  <2> QED
    BY <2>1
<1>3. CASE cmd.op \notin {"upsert", "remove"}
  <2>1. scheduler' = scheduler
    BY <1>3 DEF Effect
  <2>2. cmd.op = "pause" => cmd.queue \in Queues
    BY AsksByOp DEF PassedOn
  <2>3. paused' \subseteq Queues
    BY <1>3, <2>2 DEF Effect
  <2> QED
    BY <2>1, <2>3
<1> QED
  BY <1>1, <1>2, <1>3

-----------------------------------------------------------------------------
(* The types.  Initially nothing is constructed, sent or stored.            *)
LEMMA TypesInit == Init => OpsTypeOK
<1> SUFFICES ASSUME Init PROVE OpsTypeOK
  OBVIOUS
<1>1. wire \in Seq([caller : Callers, done : {"no", "yes", "refused"}])
  BY DEF Init
<1>2. \A c \in Callers : call[c].state \in States
  BY DEF Init, NoCall, States
<1>3. stored \in [Queues -> [Jobs -> Nat]] /\ kept \in [Queues -> SUBSET WithId]
  BY DEF Init
<1> QED
  BY <1>1, <1>2, <1>3 DEF Init, OpsTypeOK

(* A job leaves the waiting ones when a worker takes it, and its jobId is   *)
(* in use until the job is removed.                                         *)
LEMMA TakenJobs ==
    ASSUME StoredTyped, WithId \subseteq Jobs, JobStep
    PROVE  StoredTyped' /\ (RetryAddsOnce => RetryAddsOnce')
<1>1. CASE TakeStep
  <2>1. PICK q \in Queues, j \in Jobs : WorkerTakes(q, j)
    BY <1>1 DEF TakeStep
  <2>2. stored[q] \in [Jobs -> Nat] /\ stored[q][j] \in Nat /\ stored[q][j] > 0
    BY <2>1 DEF StoredTyped, WorkerTakes
  <2> DEFINE left == [stored[q] EXCEPT ![j] = @ - 1]
             taken == kept[q] \cup ({j} \cap WithId)
  <2>3. left \in [Jobs -> Nat] /\ left[j] = stored[q][j] - 1
        /\ \A k \in Jobs : k # j => left[k] = stored[q][k]
    BY <2>2
  <2>4. stored' = [stored EXCEPT ![q] = left] /\ kept' = [kept EXCEPT ![q] = taken]
    BY <2>1 DEF WorkerTakes
  <2>5. taken \in SUBSET WithId
    BY DEF StoredTyped
  <2> HIDE DEF left
  <2>6. Once(stored[q], kept[q]) => Once(left, taken)
    <3> SUFFICES ASSUME Once(stored[q], kept[q]), NEW k \in WithId
                 PROVE  left[k] <= 1 /\ (k \in taken => left[k] = 0)
      BY DEF Once
    <3>1. stored[q][k] \in Nat /\ stored[q][k] <= 1 /\ (k \in kept[q] => stored[q][k] = 0)
      BY <2>2 DEF Once
    <3>2. CASE k = j
      BY <2>2, <2>3, <3>1, <3>2
    <3>3. CASE k # j
      BY <2>3, <3>1, <3>3
    <3> QED
      BY <3>2, <3>3
  <2> HIDE DEF taken
  <2> QED
    BY <2>3, <2>4, <2>5, <2>6, OneQueueChanges
<1>2. CASE RemovedStep
  <2>1. PICK q \in Queues, j \in Jobs : JobRemoved(q, j)
    BY <1>2 DEF RemovedStep
  <2>2. /\ stored' = [stored EXCEPT ![q] = stored[q]] /\ stored[q] \in [Jobs -> Nat]
        /\ kept' = [kept EXCEPT ![q] = kept[q] \ {j}] /\ kept[q] \ {j} \in SUBSET WithId
    BY <2>1 DEF JobRemoved, StoredTyped
  <2>3. Once(stored[q], kept[q]) => Once(stored[q], kept[q] \ {j})
    BY DEF Once
  <2> QED
    BY <2>2, <2>3, OneQueueChanges
<1> QED
  BY <1>1, <1>2 DEF JobStep

(* The command Redis executes is that of a call that waits for it.          *)
LEMMA CommandOfCall ==
    ASSUME WireInv, RedisExecutes
    PROVE  /\ \E c \in Callers : /\ call[c].state = "sent" /\ call[c].ask \in Asks
                                 /\ Effect(call[c].ask)
           /\ UNCHANGED <<options, emitters, alive, call, calls, faults>>
<1>1. PICK i \in DOMAIN wire : Effect(call[wire[i].caller].ask)
  BY DEF RedisExecutes
<1>2. wire[i].caller \in Callers /\ call[wire[i].caller].state = "sent"
  BY OnWire DEF WireInv, WireOwned
<1>3. call[wire[i].caller].ask \in Asks
  BY <1>2 DEF WireInv, CallsTyped
<1> QED
  BY <1>1, <1>2, <1>3 DEF RedisExecutes

(* The constructed objects and Redis's keys keep their types.               *)
LEMMA TypesStep ==
    ASSUME OpsTypeOK, WireInv, WireInv', ObjectsInv', [Next]_vars
    PROVE  OpsTypeOK'
<1>1. /\ wire' \in Seq([caller : Callers, done : {"no", "yes", "refused"}])
      /\ \A c \in Callers : call'[c].state \in States
  BY DEF WireInv, Commands, CallsTyped
<1>2. options' = options
  BY OptionsStay
<1>3. alive' \in BOOLEAN
  BY DEF ObjectsInv
<1>4. cached' \in [Queues -> (Prefixes \ {Undefined}) \cup {None, DefaultPrefix}]
  <2>1. CASE UNCHANGED cached
    BY <2>1 DEF OpsTypeOK
  <2>2. CASE CallStep
    <3>1. resolved \in (Prefixes \ {Undefined}) \cup {None, DefaultPrefix}
      BY DEF OpsTypeOK, Options, resolved
    <3>2. UNCHANGED cached \/ \E q \in Queues : getOrCreateQueue(q)
      BY <2>2 DEF CallStep, Call
    <3> QED
      BY <2>1, <3>1, <3>2 DEF OpsTypeOK, getOrCreateQueue
  <2> QED
    BY <2>1, <2>2, StepKinds, ObjectFrame, JobFrame, RedisFrame DEF vars, emitters
<1>5. /\ StoredTyped'
      /\ scheduler' \in [Queues -> RepeatsOf \cup {None}]
      /\ paused' \subseteq Queues
  <2>1. CASE UNCHANGED <<stored, kept, scheduler, paused>>
    BY <2>1 DEF OpsTypeOK, StoredTyped
  <2>2. CASE JobStep
    BY <2>2, TakenJobs, JobFrame, OperationsAssumption DEF OpsTypeOK, StoredTyped
  <2>3. CASE RedisExecutes
    <3>1. PICK cmd \in Asks : Effect(cmd)
      BY <2>3, CommandOfCall
    <3> QED
      BY <3>1, EffectOnJobs, EffectOnQueues, OperationsAssumption DEF OpsTypeOK, StoredTyped
  <2> QED
    BY <2>1, <2>2, <2>3, StepKinds, CallFrame, ObjectFrame, RedisFrame DEF vars, redis
<1>6. observed' \subseteq Queues
  <2>1. CASE UNCHANGED observed
    BY <2>1 DEF OpsTypeOK
  <2>2. CASE ObserveStep
    BY <2>2 DEF ObserveStep, getOrCreate, OpsTypeOK
  <2>3. CASE RegisterStep \/ RunStep
    BY <2>1, <2>3 DEF RegisterStep, Registered, RunStep, RunWorker
  <2> QED
    BY <2>1, <2>2, <2>3, StepKinds, CallFrame, JobFrame, RedisFrame DEF ObjectStep, vars, emitters
<1> QED
  BY <1>1, <1>2, <1>3, <1>4, <1>5, <1>6 DEF OpsTypeOK, StoredTyped

(* Types, commands and objects hold together.                               *)
OperationsInv == OpsTypeOK /\ WireInv /\ ObjectsInv

LEMMA OperationsInvariant == Spec => []OperationsInv
<1>1. Init => OperationsInv
  BY TypesInit, WireInit, ObjectsInit DEF OperationsInv
<1>2. OperationsInv /\ [Next]_vars => OperationsInv'
  BY TypesStep, WireStep, ObjectsStep DEF OperationsInv
<1> QED
  BY <1>1, <1>2, PTL DEF Spec

(* The state of the services and of Redis keeps its types.                  *)
THEOREM OpsTyping == Spec => []OpsTypeOK
<1>1. OperationsInv => OpsTypeOK
  BY DEF OperationsInv
<1> QED
  BY OperationsInvariant, <1>1, PTL

(* No lost connection, no failing command and no failing event handler,     *)
(* whatever it throws or rejects with, ends the process.                    *)
THEOREM TheProcessSurvives == Spec => []ProcessSurvives
<1>1. OperationsInv => ProcessSurvives
  BY DEF OperationsInv, ObjectsInv, ProcessSurvives
<1> QED
  BY OperationsInvariant, <1>1, PTL

(* Queues, flow producer and workers use the same keys, in whichever order  *)
(* they were constructed and whatever prefix was configured; every worker   *)
(* runs but those asked not to, a number of jobs BullMQ can run, and from a *)
(* file Node executes if from one.                                          *)
THEOREM ProducersAreServed == Spec => []WorkersServeTheProducers
<1>1. ASSUME OperationsInv PROVE WorkersServeTheProducers
  <2> USE <1>1 DEF OperationsInv, ObjectsInv
  <2> SUFFICES ASSUME NEW q \in Queues, worker[q] # None
               PROVE  /\ cached[q] \in {None, worker[q].opts.prefix}
                      /\ producer \in {None, worker[q].opts.prefix}
                      /\ worker[q].running \/ worker[q].asked.autorun = FALSE
                      /\ worker[q].opts.concurrency \in 1 .. MaxConcurrency
                      /\ worker[q].file # None =>
                            /\ worker[q].file.absolute
                            /\ worker[q].file.extension \in {".js", ".cjs", ".mjs"}
    BY DEF WorkersServeTheProducers
  <2>1. worker[q] \in Workers /\ Sound(worker[q])
    BY DEF PrefixesAgree
  <2>2. worker[q].opts \in BullOptions /\ worker[q].file \in Files \cup {None}
    BY <2>1 DEF Workers
  <2>3. worker[q].opts.prefix = resolved /\ worker[q].opts.concurrency \in 1 .. MaxConcurrency
    BY <2>2 DEF BullOptions
  <2>4. worker[q].file # None => /\ worker[q].file.absolute
                                 /\ worker[q].file.extension \in {".js", ".cjs", ".mjs"}
    BY <2>1, <2>2, OperationsAssumption DEF Sound, validateProcessorFile
  <2> QED
    BY <2>1, <2>3, <2>4 DEF PrefixesAgree, producer, Sound
<1> QED
  BY OperationsInvariant, <1>1, PTL

-----------------------------------------------------------------------------
(* However often a caller retries a rejected call, or the client a command  *)
(* it got no answer to, a job with a custom jobId exists once.              *)
LEMMA RetryStep ==
    ASSUME OperationsInv, RetryAddsOnce, [Next]_vars
    PROVE  RetryAddsOnce'
<1> USE DEF OperationsInv
<1>1. WithId \subseteq Jobs /\ StoredTyped
  BY OperationsAssumption DEF OpsTypeOK, StoredTyped
<1>2. CASE UNCHANGED <<stored, kept>>
  BY <1>2 DEF RetryAddsOnce
<1>3. CASE JobStep
  BY <1>1, <1>3, TakenJobs
<1>4. CASE RedisExecutes
  <2>1. PICK cmd \in Asks : Effect(cmd)
    BY <1>4, CommandOfCall
  <2> QED
    BY <1>1, <2>1, EffectOnJobs
<1> QED
  BY <1>2, <1>3, <1>4, StepKinds, CallFrame, ObjectFrame, RedisFrame DEF vars, redis

(* A custom jobId makes a retry safe until the job is removed: a job that   *)
(* has one does not wait twice, nor beside the copy a worker took, for any  *)
(* jobs, batches, callers and faults.                                       *)
THEOREM RetriesAddOnce == Spec => []RetryAddsOnce
<1>1. Init => RetryAddsOnce
  BY OperationsAssumption DEF Init, RetryAddsOnce
<1>2. OperationsInv /\ RetryAddsOnce /\ [Next]_vars => RetryAddsOnce'
  BY RetryStep
<1> QED
  BY OperationsInvariant, <1>1, <1>2, PTL DEF Spec

-----------------------------------------------------------------------------
(* Who is to blame.  A schedule stays as runnable as it was.                *)
LEMMA RunnableStays == ASSUME [Next]_vars, NEW r PROVE Runnable(r)' <=> Runnable(r)
<1>1. options' = options
  BY OptionsStay
<1> QED
  BY <1>1 DEF Runnable

(* A call whose schedule was not found to be at fault never is, and one     *)
(* refused for its schedule was not to be run.                              *)
Blamed(c) ==
    call[c].ask.op = "upsert" =>
        (call[c].state = "INVALID_REPEAT_OPTIONS" <=> ~Runnable(call[c].ask.repeat))

LEMMA BlamedStep ==
    ASSUME OperationsInv, [Next]_vars, NEW c \in Callers, Blamed(c)
    PROVE  Blamed(c)'
<1> USE DEF OperationsInv, WireInv
<1>1. CASE call'[c] = call[c]
  BY <1>1, RunnableStays DEF Blamed
<1>2. CASE /\ call'[c].ask = call[c].ask /\ call[c].state = "sent"
           /\ call[c].ask.op = "upsert" => call'[c].state \in {"ok", "error"}
  BY <1>2, RunnableStays DEF Blamed
<1>3. CASE CallStep
  <2>1. PICK d \in Callers, q \in Queues, what \in Asks, state \in States :
            Call(d, q, what, state)
    BY <1>3 DEF CallStep
  <2>2. /\ call'[d] = [ask |-> what, state |-> state]
        /\ c # d => call'[c] = call[c]
    BY <2>1, CallRecorded
  <2>3. CASE c = d
    <3>1. what.op = "upsert" => (state = "INVALID_REPEAT_OPTIONS" <=> ~Runnable(what.repeat))
      BY <2>1 DEF Call
    <3>2. call'[c].ask = what /\ call'[c].state = state
      BY <2>2, <2>3
    <3> QED
      BY <3>1, <3>2, RunnableStays DEF Blamed
  <2> QED
    BY <1>1, <2>2, <2>3
<1>4. CASE Answer
  <2>1. /\ call'[c].ask = call[c].ask
        /\ c # wire[1].caller => call'[c] = call[c]
        /\ call'[wire[1].caller].state =
              IF wire[1].done = "yes" THEN "ok" ELSE ErrorOf(call[wire[1].caller].ask)
        /\ wire # << >> /\ wire' = Tail(wire)
    BY <1>4, CallAnswered
  <2>2. call[wire[1].caller].state = "sent"
    BY <2>1, WireTail DEF WireOwned
  <2> QED
    BY <1>1, <1>2, <2>1, <2>2 DEF ErrorOf
<1>5. CASE ConnectionLost
  <2>1. /\ call'[c].ask = call[c].ask
        /\ \/ call'[c] = call[c]
           \/ /\ call'[c].state = ErrorOf(call[c].ask)
              /\ \E i \in DOMAIN wire : wire[i].caller = c
    BY <1>5, CallsLost
  <2>2. CASE \E i \in DOMAIN wire : wire[i].caller = c
    BY <1>1, <1>2, <2>1, <2>2 DEF WireOwned, ErrorOf
  <2> QED
    BY <1>1, <2>1, <2>2
<1> QED
  BY <1>1, <1>3, <1>4, <1>5, StepKinds, ObjectFrame, JobFrame
     DEF RedisStep, RedisExecutes, RedisRefuses, vars

(* Only a runnable schedule reaches Redis.                                  *)
SchedulersRun == \A q \in Queues : scheduler[q] # None => Runnable(scheduler[q])

LEMMA SchedulersStep ==
    ASSUME OperationsInv, [Next]_vars, \A c \in Callers : Blamed(c), SchedulersRun
    PROVE  SchedulersRun'
<1> USE DEF OperationsInv
<1>1. CASE UNCHANGED scheduler
  BY <1>1, RunnableStays DEF SchedulersRun
<1>2. CASE RedisExecutes
  <2>1. PICK c \in Callers : /\ call[c].state = "sent" /\ call[c].ask \in Asks
                             /\ Effect(call[c].ask)
    BY <1>2, CommandOfCall
  <2>2. call[c].ask.op = "upsert" => Runnable(call[c].ask.repeat)
    BY <2>1 DEF Blamed
  <2>3. ASSUME NEW q \in Queues
        PROVE  \/ scheduler'[q] \in {scheduler[q], None}
               \/ call[c].ask.op = "upsert" /\ scheduler'[q] = call[c].ask.repeat
    BY <2>1, EffectOnQueues DEF OpsTypeOK
  <2>4. ASSUME NEW q \in Queues, scheduler'[q] # None PROVE Runnable(scheduler'[q])
    BY <2>2, <2>3, <2>4 DEF SchedulersRun
  <2> QED
    BY <2>4, RunnableStays DEF SchedulersRun
<1> QED
  BY <1>1, <1>2, StepKinds, CallFrame, ObjectFrame, JobFrame, RedisFrame DEF vars, redis

(* A caller is told that its schedule is invalid if and only if it is, for  *)
(* any schedules, interleaving and faults, and none that is reaches Redis.  *)
THEOREM TheRightPartyIsBlamed == Spec => []BlamesTheRightParty
<1> DEFINE BlameInv == (\A c \in Callers : Blamed(c)) /\ SchedulersRun
<1>1. Init => BlameInv
  BY DEF Init, NoCall, Blamed, SchedulersRun
<1>2. OperationsInv /\ BlameInv /\ [Next]_vars => BlameInv'
  BY BlamedStep, SchedulersStep
<1>3. BlameInv => BlamesTheRightParty
  BY DEF Blamed, SchedulersRun, BlamesTheRightParty
<1> HIDE DEF BlameInv
<1> QED
  BY OperationsInvariant, <1>1, <1>2, <1>3, PTL DEF Spec

-----------------------------------------------------------------------------
(* What a refusal leaves behind.  A cached Queue stays cached.              *)
LEMMA CachedStays ==
    ASSUME OperationsInv, [Next]_vars, NEW q \in Queues, cached[q] = resolved
    PROVE  cached'[q] = resolved /\ resolved' = resolved
<1>1. options' = options
  BY OptionsStay
<1>2. UNCHANGED cached \/ \E p \in Queues : getOrCreateQueue(p)
  BY StepKinds, ObjectFrame, JobFrame, RedisFrame DEF CallStep, Call, vars, emitters
<1> QED
  BY <1>1, <1>2 DEF getOrCreateQueue, resolved, OperationsInv, OpsTypeOK

(* The queue of a schedule of the right shape is looked up with its call.   *)
LEMMA LookupStep ==
    ASSUME OperationsInv, [Next]_vars, CheckedAfterLookup
    PROVE  CheckedAfterLookup'
<1> USE DEF OperationsInv, WireInv
<1> SUFFICES ASSUME NEW c \in Callers, call'[c].ask.op = "upsert",
                    validateJobSchedulerOptions(call'[c].ask.repeat)
             PROVE  cached'[call'[c].ask.queue] = resolved'
  BY DEF CheckedAfterLookup, validateJobSchedulerOptions
<1>1. CASE call'[c].ask = call[c].ask
  <2>1. call[c].ask \in Asks /\ cached[call[c].ask.queue] = resolved
    BY <1>1 DEF CheckedAfterLookup, CallsTyped
  <2>2. call[c].ask.queue \in Queues
    BY <1>1, <2>1, AsksByOp
  <2> QED
    BY <1>1, <2>1, <2>2, CachedStays
<1>2. CASE CallStep
  <2>1. PICK d \in Callers, q \in Queues, what \in Asks, state \in States :
            Call(d, q, what, state)
    BY <1>2 DEF CallStep
  <2>2. /\ call'[d] = [ask |-> what, state |-> state]
        /\ c # d => call'[c] = call[c]
    BY <2>1, CallRecorded
  <2>3. CASE c = d
    <3>1. call'[c].ask = what
      BY <2>2, <2>3
    <3>2. what.queue = q /\ getOrCreateQueue(q)
      BY <2>1, <3>1 DEF Call
    <3>3. cached'[q] = resolved /\ options' = options
      BY <2>1, <3>2 DEF ObjectsInv, PrefixesAgree, OpsTypeOK, getOrCreateQueue, Call, Send,
                        Refuse, Made
    <3> QED
      BY <3>1, <3>2, <3>3 DEF resolved
  <2> QED
    BY <1>1, <2>2, <2>3
<1>3. CASE Answer
  BY <1>1, <1>3, CallAnswered
<1>4. CASE ConnectionLost
  BY <1>1, <1>4, CallsLost
<1> QED
  BY <1>1, <1>2, <1>3, <1>4, StepKinds, ObjectFrame, JobFrame
     DEF RedisStep, RedisExecutes, RedisRefuses, vars

(* Only a call that goes out, or one whose cron pattern or time zone is     *)
(* refused, leaves a new Queue behind, for any queues, callers and batches. *)
THEOREM RefusalsCacheNothing == Spec => RefusedCachesNothing
<1> DEFINE Accounted(q) ==
        cached[q] = None /\ cached'[q] # None =>
          \E c \in Callers :
              /\ call'[c] # call[c] /\ call'[c].ask.queue = q
              /\ \/ call'[c].state = "sent"
                 \/ call'[c].ask.op = "upsert" /\ CronAtFault(call'[c].ask.repeat)
<1>1. Init => CheckedAfterLookup
  BY DEF Init, NoCall, CheckedAfterLookup
<1>2. OperationsInv /\ CheckedAfterLookup /\ [Next]_vars => CheckedAfterLookup'
  BY LookupStep
<1>3. ASSUME OperationsInv, CheckedAfterLookup, [Next]_vars, NEW q \in Queues,
             cached[q] = None, cached'[q] # None
      PROVE  Accounted(q)
  <2> USE DEF OperationsInv, WireInv
  <2>1. CallStep
    BY <1>3, StepKinds, ObjectFrame, JobFrame, RedisFrame DEF vars, emitters
  <2>2. PICK c \in Callers, p \in Queues, what \in Asks, state \in States :
            Call(c, p, what, state)
    BY <2>1 DEF CallStep
  <2>3. call'[c] = [ask |-> what, state |-> state]
    BY <1>3, <2>2, CallRecorded
  <2>4. getOrCreateQueue(p) /\ what.queue = p
        /\ (state # "sent" => /\ what.op = "upsert" /\ CronAtFault(what.repeat)
                              /\ validateJobSchedulerOptions(what.repeat))
    BY <1>3, <2>2 DEF Call
  <2>5. p = q /\ resolved # None
    BY <1>3, <2>4 DEF getOrCreateQueue, OpsTypeOK
  <2>6. call'[c] # call[c]
    <3>1. CASE state = "sent"
      BY <2>2, <2>3, <3>1 DEF Call
    <3>2. CASE state # "sent"
      <4> SUFFICES ASSUME call[c].ask = what PROVE FALSE
        BY <2>3
      <4>1. what.op = "upsert" /\ validateJobSchedulerOptions(what.repeat)
        BY <2>4, <3>2
      <4>2. cached[q] = resolved
        BY <1>3, <2>4, <2>5, <4>1 DEF CheckedAfterLookup
      <4> QED
        BY <1>3, <2>5, <4>2
    <3> QED
      BY <3>1, <3>2
  <2> QED
    BY <2>3, <2>4, <2>5, <2>6
<1>4. OperationsInv /\ CheckedAfterLookup /\ [Next]_vars
      => [\A q \in Queues : Accounted(q)]_vars
  BY <1>3
<1> QED
  BY OperationsInvariant, <1>1, <1>2, <1>4, PTL DEF Spec, RefusedCachesNothing

-----------------------------------------------------------------------------
(* The contract of the calls.  How far a call is, by its state.             *)
LEMMA StatusCases ==
    ASSUME NEW k, NEW done
    PROVE  /\ k.state = "none" => StatusOf(k, done) = "idle"
           /\ k.state = "sent" => StatusOf(k, done) = IF done THEN "applied" ELSE "open"
           /\ k.state = "ok" => StatusOf(k, done) = "resolved"
           /\ k.state = "error" => StatusOf(k, done) = "failed"
           /\ k.state \in {"FLOW_DISABLED", "INVALID_REPEAT_OPTIONS"} =>
                 StatusOf(k, done) = "refused"
           /\ k.state = "BULK_ENQUEUE_FAILED" =>
                 StatusOf(k, done) = IF Len(k.ask.jobs) <= MaxBulk THEN "failed" ELSE "refused"
           /\ k.state \in States \ {"sent"} => StatusOf(k, done) \notin {"open", "applied"}
           /\ StatusOf(k, done) \in Contract!Statuses
  BY DEF StatusOf, RejectedByRedis, States, Contract!Statuses, Contract!InFlight

(* A call that was sent and fails has failed, and was not refused.          *)
LEMMA FailedStatus ==
    ASSUME NEW k, NEW ask, NEW done,
           k.ask = ask, k.state = ErrorOf(ask), SizeDecides(ask, "sent")
    PROVE  StatusOf(k, done) = "failed"
<1>1. CASE ask.op = "addBulk"
  <2>1. k.state = "BULK_ENQUEUE_FAILED" /\ Len(k.ask.jobs) <= MaxBulk
    BY <1>1 DEF ErrorOf, SizeDecides
  <2> QED
    BY <2>1, StatusCases
<1>2. CASE ask.op # "addBulk"
  <2>1. k.state = "error"
    BY <1>2 DEF ErrorOf
  <2> QED
    BY <2>1, StatusCases
<1> QED
  BY <1>1, <1>2

(* Only batches of a permitted size are on their way.                       *)
SentFit ==
    \A c \in Callers : call[c].state = "sent" =>
        SizeDecides(call[c].ask, "sent") /\ call[c].ask.op # "none"

LEMMA SentFitStep ==
    ASSUME OperationsInv, SentFit, [Next]_vars
    PROVE  SentFit'
<1> USE DEF OperationsInv, WireInv
<1> SUFFICES ASSUME NEW c \in Callers, call'[c].state = "sent"
             PROVE  SizeDecides(call'[c].ask, "sent") /\ call'[c].ask.op # "none"
  BY DEF SentFit, SizeDecides
<1>1. CASE call'[c] = call[c]
  BY <1>1 DEF SentFit
<1>2. CASE CallStep
  <2>1. PICK d \in Callers, q \in Queues, what \in Asks, state \in States :
            Call(d, q, what, state)
    BY <1>2 DEF CallStep
  <2>2. /\ call'[d] = [ask |-> what, state |-> state]
        /\ c # d => call'[c] = call[c]
    BY <2>1, CallRecorded
  <2>3. SizeDecides(what, state) /\ what.op # "none"
    BY <2>1 DEF Call
  <2> QED
    BY <1>1, <2>2, <2>3
<1>3. CASE Answer
  <2>1. c = wire[1].caller => call'[c].state # "sent"
    BY <1>3, CallAnswered DEF ErrorOf
  <2> QED
    BY <1>1, <1>3, <2>1, CallAnswered
<1>4. CASE ConnectionLost
  BY <1>1, <1>4, CallsLost
<1> QED
  BY <1>1, <1>2, <1>3, <1>4, StepKinds, ObjectFrame, JobFrame
     DEF RedisStep, RedisExecutes, RedisRefuses, vars

(* A job is in a list of jobs if and only if it is there at least once.     *)
LEMMA TimesPositive ==
    ASSUME NEW js \in Seq(Jobs), NEW j
    PROVE  IF \E i \in DOMAIN js : js[i] = j THEN Times(j, js) > 0 ELSE Times(j, js) = 0
<1> DEFINE T == {i \in DOMAIN js : js[i] = j}
<1>1. T \subseteq 1 .. Len(js) /\ Len(js) \in Nat
  OBVIOUS
<1>2. IsFiniteSet(T)
  BY <1>1, FS_Interval, FS_Subset
<1>3. Cardinality(T) \in Nat /\ (Cardinality(T) = 0 <=> T = {})
  BY <1>2, FS_CardinalityType, FS_EmptySet
<1>4. T = {} <=> ~ \E i \in DOMAIN js : js[i] = j
  OBVIOUS
<1> QED
  BY <1>3, <1>4 DEF Times

(* What Redis does with a command is what the contract promises of it.      *)
LEMMA EffectOnContract ==
    ASSUME OpsTypeOK, RetryAddsOnce, NEW cmd \in Asks, cmd.op # "none", Effect(cmd)
    PROVE  /\ Contract!JobsDone(cmd) /\ Contract!SettingsDone(cmd)
           /\ \A q \in Queues \ {cmd.queue} :
                 /\ stored'[q] = stored[q] /\ kept'[q] = kept[q] /\ scheduler'[q] = scheduler[q]
                 /\ q \in paused' <=> q \in paused
<1>1. cmd.queue \in Queues
  <2>1. cmd \in Adds => cmd.op \in Adding
    BY DEF Adds
  <2>2. cmd \in Upserts => cmd.op = "upsert"
    BY DEF Upserts
  <2>3. cmd \in [op : PassedOn, queue : Queues] => cmd.op \in PassedOn
    OBVIOUS
  <2>4. cmd # [op |-> "none"]
    OBVIOUS
  <2> QED
    BY <2>1, <2>2, <2>3, <2>4, AsksByOp DEF Asks
<1>2. /\ stored \in [Queues -> [Jobs -> Nat]] /\ kept \in [Queues -> SUBSET WithId]
      /\ scheduler \in [Queues -> RepeatsOf \cup {None}]
  BY DEF OpsTypeOK
<1>3. ASSUME NEW q \in Queues
      PROVE  /\ scheduler'[q] = CASE q = cmd.queue /\ cmd.op = "upsert" -> cmd.repeat
                                  [] q = cmd.queue /\ cmd.op = "remove" -> None
                                  [] OTHER -> scheduler[q]
  BY <1>1, <1>2 DEF Effect
<1>4. ASSUME NEW q \in Queues
      PROVE  q \in paused' <=> \/ q = cmd.queue /\ cmd.op = "pause"
                               \/ ~(q = cmd.queue /\ cmd.op = "resume") /\ q \in paused
  BY DEF Effect
<1>5. Contract!SettingsDone(cmd)
  <2>1. scheduler'[cmd.queue] = CASE cmd.op = "upsert" -> cmd.repeat
                                  [] cmd.op = "remove" -> None
                                  [] OTHER -> scheduler[cmd.queue]
    BY <1>1, <1>3
  <2>2. cmd.queue \in paused' <=> \/ cmd.op = "pause"
                                  \/ cmd.op # "resume" /\ cmd.queue \in paused
    BY <1>1, <1>4
  <2> QED
    BY <2>1, <2>2 DEF Contract!SettingsDone
<1>6. \A q \in Queues \ {cmd.queue} :
          scheduler'[q] = scheduler[q] /\ (q \in paused' <=> q \in paused)
  BY <1>3, <1>4
<1>7. \A q \in Queues \ {cmd.queue} : stored'[q] = stored[q] /\ kept'[q] = kept[q]
  BY <1>1, <1>2 DEF Effect
<1> DEFINE before(j) == stored[cmd.queue][j]
           after(j) == stored'[cmd.queue][j]
<1>8. CASE cmd.op \in Adding
  <2>1. cmd \in Adds /\ cmd.jobs \in Seq(Jobs) /\ cmd.opts = TRUE
    BY <1>8, AsksByOp DEF Adds
  <2>2. kept' = kept /\ cmd.op # "clean"
    BY <1>8 DEF Effect, Adding
  <2>3. ASSUME NEW j \in Jobs
        PROVE  CASE Contract!Brings(cmd, j) /\ j \in WithId ->
                        after(j) = IF j \in kept[cmd.queue] THEN 0 ELSE 1
                 [] Contract!Brings(cmd, j) /\ j \notin WithId -> after(j) > before(j)
                 [] OTHER -> after(j) = before(j)
    <3>1. after(j) = Copies(j, cmd, before(j), j \in kept[cmd.queue])
      BY <1>1, <1>2, <1>8 DEF Effect, Adding
    <3>2. before(j) \in Nat /\ Times(j, cmd.jobs) \in Nat
      BY <1>1, <1>2, <2>1, TimesNat
    <3>3. Contract!Brings(cmd, j) <=> \E i \in DOMAIN cmd.jobs : cmd.jobs[i] = j
      BY <1>8 DEF Contract!Brings, Adding
    <3>4. IF Contract!Brings(cmd, j) THEN Times(j, cmd.jobs) > 0 ELSE Times(j, cmd.jobs) = 0
      BY <2>1, <3>3, TimesPositive
    <3>5. j \in WithId => before(j) <= 1 /\ (j \in kept[cmd.queue] => before(j) = 0)
      BY <1>1 DEF RetryAddsOnce
    <3> HIDE DEF before, after
    <3>6. CASE ~Contract!Brings(cmd, j)
      BY <2>1, <3>1, <3>2, <3>4, <3>6 DEF Copies
    <3>7. CASE Contract!Brings(cmd, j) /\ j \notin WithId
      BY <2>1, <3>1, <3>2, <3>4, <3>7 DEF Copies
    <3>8. CASE Contract!Brings(cmd, j) /\ j \in WithId
      BY <2>1, <3>1, <3>2, <3>4, <3>5, <3>8 DEF Copies
    <3> QED
      BY <3>6, <3>7, <3>8
  <2>4. Contract!JobsDone(cmd)
    BY <2>2, <2>3 DEF Contract!JobsDone
  <2> QED
    BY <1>5, <1>6, <1>7, <2>4
<1>9. CASE cmd.op = "clean"
  <2>1. PICK left \in [Jobs -> UNION {0 .. stored[cmd.queue][j] : j \in Jobs}],
             still \in SUBSET kept[cmd.queue] :
            /\ \A j \in Jobs : left[j] <= stored[cmd.queue][j]
            /\ stored' = [stored EXCEPT ![cmd.queue] = left]
            /\ kept' = [kept EXCEPT ![cmd.queue] = still]
    BY <1>9 DEF Effect, Adding
  <2>2. \A j \in Jobs : ~Contract!Brings(cmd, j) /\ after(j) <= before(j)
    BY <1>1, <1>2, <1>9, <2>1 DEF Contract!Brings
  <2>3. kept'[cmd.queue] \subseteq kept[cmd.queue]
    BY <1>1, <1>2, <2>1
  <2>4. Contract!JobsDone(cmd)
    BY <1>9, <2>2, <2>3 DEF Contract!JobsDone
  <2> QED
    BY <1>5, <1>6, <1>7, <2>4
<1>10. CASE cmd.op \notin Adding \cup {"clean"}
  <2>1. UNCHANGED <<stored, kept>> /\ cmd.op # "clean"
    BY <1>10 DEF Effect
  <2>2. \A j \in Jobs : ~Contract!Brings(cmd, j)
    BY <1>10 DEF Contract!Brings, Adding
  <2>3. Contract!JobsDone(cmd)
    BY <2>1, <2>2 DEF Contract!JobsDone
  <2> QED
    BY <1>5, <1>6, <1>7, <2>3
<1> QED
  BY <1>8, <1>9, <1>10

(* A call is refused or opened, ...                                         *)
LEMMA ContractAsked ==
    ASSUME OperationsInv, CallStep
    PROVE  Contract!Next
<1> USE DEF OperationsInv, WireInv
<1>1. PICK c \in Callers, q \in Queues, what \in Asks, state \in States :
          Call(c, q, what, state)
  BY DEF CallStep
<1>2. /\ call'[c] = [ask |-> what, state |-> state]
      /\ \A d \in Callers : d # c => call'[d] = call[d]
  BY <1>1, CallRecorded
<1>3. /\ call[c].state \in States \ {"sent"} /\ executed' = executed \ {c}
      /\ state \in States \ {"none", "ok", "error"} /\ SizeDecides(what, state)
  BY <1>1 DEF Call, Send, Refuse, Made, CallsTyped
<1>4. callStatus'[c] = IF state = "sent" THEN "open" ELSE "refused"
  <2> DEFINE k == [ask |-> what, state |-> state]
  <2>1. callStatus'[c] = StatusOf(k, c \in executed') /\ c \notin executed'
    BY <1>2, <1>3 DEF callStatus
  <2>2. state = "BULK_ENQUEUE_FAILED" => ~(Len(what.jobs) <= MaxBulk)
    BY <1>3 DEF SizeDecides
  <2>3. k.ask = what /\ k.state = state
    OBVIOUS
  <2> HIDE DEF k
  <2>4. CASE state = "sent"
    BY <2>1, <2>3, <2>4, StatusCases
  <2>5. CASE state = "BULK_ENQUEUE_FAILED"
    BY <2>1, <2>2, <2>3, <2>5, StatusCases
  <2>6. CASE state \in {"FLOW_DISABLED", "INVALID_REPEAT_OPTIONS"}
    BY <2>1, <2>3, <2>6, StatusCases
  <2> QED
    BY <1>3, <2>4, <2>5, <2>6 DEF States
<1>5. \A d \in Callers \ {c} : callStatus'[d] = callStatus[d]
  BY <1>2, <1>3 DEF callStatus
<1>6. callStatus[c] \notin {"open", "applied"}
  BY <1>3, StatusCases DEF callStatus
<1>7. \E s \in {"open", "refused"} : callStatus' = [callStatus EXCEPT ![c] = s]
  <2>1. callStatus' = [callStatus EXCEPT ![c] = callStatus'[c]]
    BY <1>5 DEF callStatus
  <2> QED
    BY <1>4, <2>1
<1>8. \A d \in Callers \ {c} : lastAsks'[d] = lastAsks[d]
  BY <1>2 DEF lastAsks
<1>9. UNCHANGED <<stored, kept, scheduler, paused>>
  BY CallFrame
<1>10. Contract!Ask(c)
  BY <1>6, <1>7, <1>8, <1>9 DEF Contract!Ask, Contract!Becomes, Contract!InFlight, Contract!store
<1> QED
  BY <1>10 DEF Contract!Next

(* ... applied when Redis executes its command, ...                         *)
LEMMA ContractApplied ==
    ASSUME OperationsInv, RetryAddsOnce, SentFit, RedisExecutes
    PROVE  Contract!Next
<1> USE DEF OperationsInv, WireInv
<1>1. PICK i \in DOMAIN wire : /\ Effect(call[wire[i].caller].ask)
                               /\ executed' = executed \cup {wire[i].caller}
                               /\ UNCHANGED call
  BY DEF RedisExecutes
<1> DEFINE c == wire[i].caller
<1>2. c \in Callers /\ call[c].state = "sent" /\ call[c].ask \in Asks
  BY OnWire DEF WireOwned, CallsTyped
<1>3. callStatus[c] \in {"open", "applied"} /\ callStatus'[c] = "applied"
  BY <1>1, <1>2, StatusCases DEF callStatus
<1>4. \A d \in Callers \ {c} : callStatus'[d] = callStatus[d]
  BY <1>1 DEF callStatus
<1>5. callStatus' = [callStatus EXCEPT ![c] = "applied"]
  BY <1>3, <1>4 DEF callStatus
<1>6. lastAsks[c] = call[c].ask /\ UNCHANGED lastAsks
  BY <1>1, <1>2 DEF lastAsks
<1> HIDE DEF c
<1>7. call[c].ask.op # "none"
  BY <1>2 DEF SentFit
<1>8. /\ Contract!JobsDone(lastAsks[c]) /\ Contract!SettingsDone(lastAsks[c])
      /\ \A q \in Queues \ {lastAsks[c].queue} :
            /\ stored'[q] = stored[q] /\ kept'[q] = kept[q] /\ scheduler'[q] = scheduler[q]
            /\ q \in paused' <=> q \in paused
  BY <1>1, <1>2, <1>6, <1>7, EffectOnContract DEF c
<1>9. Contract!Apply(c)
  BY <1>3, <1>5, <1>6, <1>8 DEF Contract!Apply, Contract!Becomes, Contract!InFlight
<1> QED
  BY <1>2, <1>9 DEF Contract!Next

(* ... resolved or failed by an answer, ...                                 *)
LEMMA ContractAnswered ==
    ASSUME OperationsInv, SentFit, Answer
    PROVE  Contract!Next
<1> USE DEF OperationsInv, WireInv
<1> DEFINE d == wire[1].caller
<1>1. /\ wire # << >> /\ d \in Callers
      /\ \A c \in Callers : call'[c].ask = call[c].ask
      /\ \A c \in Callers : c # d => call'[c] = call[c]
      /\ call'[d].state = IF wire[1].done = "yes" THEN "ok" ELSE ErrorOf(call[d].ask)
  BY CallAnswered
<1>2. call[d].state = "sent" /\ (wire[1].done = "yes" => d \in executed)
  BY <1>1, WireTail DEF WireOwned
<1>3. UNCHANGED <<executed, stored, kept, scheduler, paused>>
  BY DEF Answer, redis
<1> HIDE DEF d
<1>4. UNCHANGED lastAsks /\ \A c \in Callers \ {d} : callStatus'[c] = callStatus[c]
  BY <1>1, <1>3 DEF lastAsks, callStatus
<1>5. callStatus' = [callStatus EXCEPT ![d] = callStatus'[d]]
  BY <1>4 DEF callStatus
<1>6. CASE wire[1].done = "yes"
  <2>1. callStatus[d] = "applied" /\ callStatus'[d] = "resolved"
    BY <1>1, <1>2, <1>6, StatusCases DEF callStatus
  <2>2. Contract!Resolve(d)
    BY <1>3, <1>4, <1>5, <2>1 DEF Contract!Resolve, Contract!Becomes, Contract!store
  <2> QED
    BY <1>1, <2>2 DEF Contract!Next
<1>7. CASE wire[1].done # "yes"
  <2>1. callStatus[d] \in Contract!InFlight
    BY <1>1, <1>2, StatusCases DEF callStatus, Contract!InFlight
  <2>2. callStatus'[d] = "failed"
    BY <1>1, <1>2, <1>7, FailedStatus DEF callStatus, SentFit
  <2>3. callStatus' \in [Callers -> Contract!Statuses]
    BY StatusCases DEF callStatus
  <2>4. Contract!Fail
    BY <1>3, <1>4, <2>1, <2>2, <2>3 DEF Contract!Fail, Contract!store
  <2> QED
    BY <2>4 DEF Contract!Next
<1> QED
  BY <1>6, <1>7

(* ... and failed, any number of them, by a lost connection.                *)
LEMMA ContractLost ==
    ASSUME OperationsInv, SentFit, ConnectionLost
    PROVE  Contract!Next
<1> USE DEF OperationsInv, WireInv
<1>1. /\ \A c \in Callers : call'[c].ask = call[c].ask
      /\ \A c \in Callers :
            \/ call'[c] = call[c]
            \/ /\ call'[c].state = ErrorOf(call[c].ask)
               /\ \E i \in DOMAIN wire : wire[i].caller = c
  BY CallsLost
<1>2. UNCHANGED <<executed, stored, kept, scheduler, paused>>
  BY DEF ConnectionLost, redis
<1>3. ASSUME NEW c \in Callers
      PROVE  \/ callStatus'[c] = callStatus[c]
             \/ callStatus[c] \in Contract!InFlight /\ callStatus'[c] = "failed"
  <2>1. CASE call'[c] = call[c]
    BY <1>2, <2>1 DEF callStatus
  <2>2. CASE /\ call'[c].state = ErrorOf(call[c].ask)
             /\ \E i \in DOMAIN wire : wire[i].caller = c
    <3>1. call[c].state = "sent"
      BY <2>2 DEF WireOwned
    <3>2. callStatus[c] \in Contract!InFlight
      BY <3>1, StatusCases DEF callStatus, Contract!InFlight
    <3>3. callStatus'[c] = "failed"
      BY <1>1, <2>2, <3>1, FailedStatus DEF callStatus, SentFit
    <3> QED
      BY <3>2, <3>3
  <2> QED
    BY <1>1, <2>1, <2>2
<1>4. callStatus' \in [Callers -> Contract!Statuses]
  BY StatusCases DEF callStatus
<1>5. UNCHANGED lastAsks
  BY <1>1 DEF lastAsks
<1>6. Contract!Fail
  BY <1>2, <1>3, <1>4, <1>5 DEF Contract!Fail, Contract!store
<1> QED
  BY <1>6 DEF Contract!Next

(* The services implement the contract of a call, for any callers, calls,   *)
(* interleaving, error replies and lost connections: whoever is refused     *)
(* changed nothing, whatever resolved took effect as a whole since it was   *)
(* asked, and nothing else changes what is stored.  A job with a custom     *)
(* jobId exists once after a call that brings it, waiting if no worker had  *)
(* taken it.                                                                *)
THEOREM TheContractIsKept == Spec => KeepsCallContract
<1>1. Init => Contract!Init /\ SentFit
  <2> SUFFICES ASSUME Init PROVE Contract!Init /\ SentFit
    OBVIOUS
  <2>1. \A c \in Callers : call[c].state = "none"
    BY DEF Init, NoCall
  <2>2. callStatus = [c \in Callers |-> "idle"]
    BY <2>1, StatusCases DEF callStatus
  <2> QED
    BY <2>1, <2>2 DEF Init, Contract!Init, SentFit
<1>2. ASSUME OperationsInv, RetryAddsOnce, SentFit, [Next]_vars
      PROVE  [Contract!Next]_(Contract!contract)
  <2>1. CASE UNCHANGED <<call, executed, stored, kept, scheduler, paused>>
    BY <2>1 DEF Contract!contract, Contract!store, callStatus, lastAsks
  <2>2. CASE ObjectStep \/ RedisRefuses \/ UNCHANGED vars
    BY <2>1, <2>2, ObjectFrame DEF RedisRefuses, vars, redis
  <2>3. CASE JobStep
    <3>1. PICK q \in Queues, j \in Jobs : WorkerTakes(q, j) \/ JobRemoved(q, j)
      BY <2>3 DEF JobStep, TakeStep, RemovedStep
    <3>2. UNCHANGED <<lastAsks, callStatus, scheduler, paused>>
      BY <2>3, JobFrame DEF lastAsks, callStatus
    <3>3. Contract!Take(q, j) \/ Contract!Forget(q, j)
      BY <3>1, <3>2 DEF WorkerTakes, Contract!Take, JobRemoved, Contract!Forget
    <3> QED
      BY <3>3 DEF Contract!Next
  <2> QED
    BY <1>2, <2>2, <2>3, ContractAsked, ContractApplied, ContractAnswered, ContractLost,
       StepKinds DEF RedisStep
<1>3. OperationsInv /\ SentFit /\ [Next]_vars => SentFit'
  BY SentFitStep
<1> QED
  BY OperationsInvariant, RetriesAddOnce, <1>1, <1>2, <1>3, PTL DEF Spec, KeepsCallContract, Contract!Spec
=============================================================================
