------------------------ MODULE QueueEventsRegistry ------------------------
(***************************************************************************)
(* src/server/services/queue-events-registry.service.ts: one QueueEvents   *)
(* per observed queue, each on a connection duplicated for it.  Entries    *)
(* are never removed; the shutdown sequence closes both kinds of object.   *)
(***************************************************************************)
EXTENDS Domain

VARIABLES events,      \* #events: queue name -> its QueueEvents
          eventsConn   \* #connections: queue name -> its connection

eventsVars == <<events, eventsConn>>

ObjectStates == {"none", "open", "closed"}

EventsTypeOK ==
    /\ events \in [Queues -> ObjectStates]
    /\ eventsConn \in [Queues -> ObjectStates]

EventsInit ==
    /\ events = [q \in Queues |-> "none"]
    /\ eventsConn = [q \in Queues |-> "none"]

(* A cached QueueEvents is returned as it is, closed or not.  A constructor *)
(* that throws has its connection dropped and leaves no entry.              *)
GetOrCreateEvents(q) ==
    /\ events[q] = "none"
    /\ events' = [events EXCEPT ![q] = "open"]
    /\ eventsConn' = [eventsConn EXCEPT ![q] = "open"]

CloseEvents(q) ==
    /\ events[q] = "open"
    /\ events' = [events EXCEPT ![q] = "closed"]
    /\ UNCHANGED eventsConn

QuitEventsConn(q) ==
    /\ eventsConn' = [eventsConn EXCEPT ![q] = "closed"]
    /\ UNCHANGED events

ObservedQueues == {q \in Queues : eventsConn[q] # "none"}
=============================================================================
