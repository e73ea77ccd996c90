------------------------------ MODULE JobBroker ------------------------------
(***************************************************************************)
(* The jobs in Redis as BullMQ keeps them, modelled from how the library   *)
(* uses BullMQ (BullMQ is a dependency, not part of the repository).  Each *)
(* job is added at most once, to the queue JobQueue[j].                    *)
(*                                                                         *)
(* A job under execution is "active" and held by a worker through a lock   *)
(* that the worker renews over its own connection.  While that connection  *)
(* is up the handler's end is acknowledged; when it is gone the lock       *)
(* lapses and the stalled-job check of any instance puts the job back.     *)
(***************************************************************************)
EXTENDS Domain

CONSTANTS Jobs,      \* the jobs that may be added, each once (a bound)
          JobQueue   \* the queue each of them goes to

ASSUME JobQueueAssumption == JobQueue \in [Jobs -> Queues]

VARIABLES job,     \* where each job stands
          holder,  \* the worker of this process that runs it
          fresh    \* jobs added in time for the drain, waiting ever since

jobVars == <<job, holder, fresh>>

JobStates == {"new", "delayed", "waiting", "active", "completed", "removed"}
Unfinished == {"delayed", "waiting", "active"}

JobTypeOK ==
    /\ job \in [Jobs -> JobStates]
    /\ holder \in [Jobs -> Workers \cup {None}]
    /\ fresh \subseteq Jobs

JobInit ==
    /\ job = [j \in Jobs |-> "new"]
    /\ holder = [j \in Jobs |-> None]
    /\ fresh = {}

HeldBy(w) == {j \in Jobs : job[j] = "active" /\ holder[j] = w}

(* Queue.add stores the job, for now or with a delay.                       *)
Add(j, inTime) ==
    /\ job[j] = "new"
    /\ \/ /\ job' = [job EXCEPT ![j] = "waiting"]
          /\ fresh' = IF inTime THEN fresh \cup {j} ELSE fresh
       \/ /\ job' = [job EXCEPT ![j] = "delayed"]
          /\ UNCHANGED fresh
    /\ UNCHANGED holder

Promote(j) ==
    /\ job[j] = "delayed"
    /\ job' = [job EXCEPT ![j] = "waiting"]
    /\ UNCHANGED <<holder, fresh>>

(* A worker of this process takes a job of its queue.                       *)
Take(w, j) ==
    /\ job[j] = "waiting"
    /\ job' = [job EXCEPT ![j] = "active"]
    /\ holder' = [holder EXCEPT ![j] = w]
    /\ fresh' = fresh \ {j}

(* The handler ends and its worker acknowledges the job.                    *)
Acknowledge(j) ==
    /\ job[j] = "active"
    /\ job' = [job EXCEPT ![j] = "completed"]
    /\ holder' = [holder EXCEPT ![j] = None]
    /\ UNCHANGED fresh

(* The stalled-job check puts a job back whose lock has lapsed.             *)
Requeue(j) ==
    /\ job[j] = "active"
    /\ job' = [job EXCEPT ![j] = "waiting"]
    /\ holder' = [holder EXCEPT ![j] = None]
    /\ UNCHANGED fresh

(* Another instance of the application runs a waiting job.                  *)
RunElsewhere(j) ==
    /\ job[j] = "waiting"
    /\ job' = [job EXCEPT ![j] = "completed"]
    /\ fresh' = fresh \ {j}
    /\ UNCHANGED holder

(* Queue.drain() removes the waiting jobs of one queue and no others.       *)
Drain(q) ==
    /\ job' = [j \in Jobs |-> IF JobQueue[j] = q /\ job[j] = "waiting"
                              THEN "removed" ELSE job[j]]
    /\ fresh' = {j \in fresh : job'[j] = "waiting"}
    /\ UNCHANGED holder
=============================================================================
