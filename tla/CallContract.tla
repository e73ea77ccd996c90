---------------------------- MODULE CallContract ----------------------------
(***************************************************************************)
(* What QueueService and FlowService promise of the calls made of them,    *)
(* with no word of connections, commands or retries: a call is refused and *)
(* changes nothing, or it takes effect at least once, as a whole, before   *)
(* it resolves, or it fails, and then it may have taken effect or may yet. *)
(* Nothing but such an effect, a worker that takes a job and a job's       *)
(* removal once it has finished change what is stored.                     *)
(***************************************************************************)
EXTENDS Integers

CONSTANTS Callers, Queues, Jobs,
          WithId,              \* the jobs whose options have a custom jobId
          None

VARIABLES asked,     \* caller -> what it asked last
          status,    \* caller -> how far that call is
          waiting,   \* queue -> job -> how many copies of it wait
          kept,      \* queue -> its jobs with a jobId that were taken and exist
          schedule,  \* queue -> the schedule of its job scheduler, or None
          paused     \* the queues that give out no jobs

store == <<waiting, kept, schedule, paused>>
contract == <<asked, status, store>>

InFlight == {"open", "applied"}
Statuses == InFlight \cup {"idle", "resolved", "failed", "refused"}

Init ==
    /\ status = [c \in Callers |-> "idle"]
    /\ waiting = [q \in Queues |-> [j \in Jobs |-> 0]]
    /\ kept = [q \in Queues |-> {}]
    /\ schedule = [q \in Queues |-> None]
    /\ paused = {}

Becomes(c, s) == status' = [status EXCEPT ![c] = s]

(* A caller has one call at a time.                                         *)
Ask(c) ==
    /\ status[c] \notin InFlight
    /\ Becomes(c, "open") \/ Becomes(c, "refused")
    /\ \A d \in Callers \ {c} : asked'[d] = asked[d]
    /\ UNCHANGED store

Brings(ask, j) ==
    ask.op \in {"add", "addBulk", "addFlow"} /\ \E i \in DOMAIN ask.jobs : ask.jobs[i] = j

(* The jobs of a call all wait afterwards; one with a custom jobId exists   *)
(* afterwards, and once: it waits unless it was taken.  Cleaning a queue    *)
(* removes jobs of it.                                                      *)
JobsDone(ask) ==
    /\ \A j \in Jobs :
          LET before == waiting[ask.queue][j]
              after  == waiting'[ask.queue][j]
          IN  CASE Brings(ask, j) /\ j \in WithId -> after = IF j \in kept[ask.queue] THEN 0 ELSE 1
                [] Brings(ask, j) /\ j \notin WithId -> after > before
                [] ask.op = "clean" -> after <= before
                [] OTHER            -> after = before
    /\ kept'[ask.queue] \subseteq kept[ask.queue]
    /\ ask.op # "clean" => kept'[ask.queue] = kept[ask.queue]

SettingsDone(ask) ==
    /\ schedule'[ask.queue] = CASE ask.op = "upsert" -> ask.repeat
                                [] ask.op = "remove" -> None
                                [] OTHER -> schedule[ask.queue]
    /\ ask.queue \in paused' <=>
          (ask.op = "pause" \/ (ask.queue \in paused /\ ask.op # "resume"))

Apply(c) ==
    /\ \/ status[c] \in InFlight /\ Becomes(c, "applied")
       \/ status[c] = "failed" /\ UNCHANGED status
    /\ JobsDone(asked[c]) /\ SettingsDone(asked[c])
    /\ \A q \in Queues \ {asked[c].queue} :
          /\ waiting'[q] = waiting[q] /\ kept'[q] = kept[q] /\ schedule'[q] = schedule[q]
          /\ q \in paused' <=> q \in paused
    /\ UNCHANGED asked

Resolve(c) ==
    /\ status[c] = "applied" /\ Becomes(c, "resolved")
    /\ UNCHANGED <<asked, store>>

(* Any number of calls fail at a time.                                      *)
Fail ==
    /\ status' \in [Callers -> Statuses]
    /\ \A c \in Callers : \/ status'[c] = status[c]
                          \/ status[c] \in InFlight /\ status'[c] = "failed"
    /\ UNCHANGED <<asked, store>>

Take(q, j) ==
    /\ q \notin paused /\ waiting[q][j] > 0
    /\ waiting' = [waiting EXCEPT ![q][j] = @ - 1]
    /\ kept' = [kept EXCEPT ![q] = @ \cup ({j} \cap WithId)]
    /\ UNCHANGED <<asked, status, schedule, paused>>

(* A job that was taken is over and removed: its jobId may be used again.   *)
Forget(q, j) ==
    /\ j \in kept[q]
    /\ kept' = [kept EXCEPT ![q] = @ \ {j}]
    /\ UNCHANGED <<asked, status, waiting, schedule, paused>>

Next ==
    \/ \E c \in Callers : Ask(c) \/ Apply(c) \/ Resolve(c)
    \/ Fail
    \/ \E q \in Queues, j \in Jobs : Take(q, j) \/ Forget(q, j)

Spec == Init /\ [][Next]_contract
=============================================================================
