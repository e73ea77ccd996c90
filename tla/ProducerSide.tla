---------------------------- MODULE ProducerSide ----------------------------
(***************************************************************************)
(* What a request uses to add jobs: the Queue cache of                     *)
(* src/server/services/queue.service.ts, the FlowProducer of               *)
(* flow.service.ts, and the Queue-role client of                           *)
(* connection-resolver.service.ts that both run on.  The client is the     *)
(* consumer's own in Mode A and the library's in Mode B.                   *)
(***************************************************************************)
EXTENDS Domain

CONSTANTS ModeA,        \* connection mode: bring-your-own client
          FlowEnabled   \* options.flows.enabled

ASSUME ModeAssumption == ModeA \in BOOLEAN /\ FlowEnabled \in BOOLEAN

VARIABLES queue,    \* #queues: queue name -> the cached Queue: "none" if absent,
                    \* "failed" when its close() was rejected
          flow,     \* the FlowProducer, "none" when flows are disabled
          client    \* the Queue-role Redis client

producerVars == <<queue, flow, client>>

ProducerTypeOK ==
    /\ queue \in [Queues -> {"none", "open", "closed", "failed"}]
    /\ flow \in {"none", "open", "closed"}
    /\ client \in {"open", "closed"}

ProducerInit ==
    /\ queue = [q \in Queues |-> "none"]
    /\ flow = IF FlowEnabled THEN "open" ELSE "none"
    /\ client = "open"

CachedQueues == {q \in Queues : queue[q] # "none"}

(* getOrCreateQueue: the cached Queue whatever its state, or a new one on   *)
(* the current client, connected or not.                                    *)
GetOrCreateQueue(q) ==
    queue' = [queue EXCEPT ![q] = IF @ = "none" THEN "open" ELSE @]

(* One visit of closeAll(): a close() that is rejected is swallowed.        *)
CloseQueue(q) ==
    /\ \E result \in {"closed", "failed"} : queue' = [queue EXCEPT ![q] = result]
    /\ UNCHANGED <<flow, client>>

(* Its end: the cache is cleared, whatever it holds.                        *)
ClearQueues ==
    /\ queue' = [q \in Queues |-> "none"]
    /\ UNCHANGED <<flow, client>>

CloseFlow ==
    /\ flow' = IF flow = "open" THEN "closed" ELSE flow
    /\ UNCHANGED <<queue, client>>

(* teardown(): only a client the library owns is quit, or disconnected when *)
(* the quit fails.                                                          *)
isOwned == ~ModeA

Teardown ==
    /\ client' = IF isOwned THEN "closed" ELSE client
    /\ UNCHANGED <<queue, flow>>
=============================================================================
