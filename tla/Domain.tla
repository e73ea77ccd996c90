------------------------------- MODULE Domain -------------------------------
(* The names every component shares.                                        *)

CONSTANTS Queues,    \* queue names
          Workers,   \* worker instances that may be constructed (a bound)
          None       \* no worker, no queue

ASSUME NoneAssumption == None \notin Queues \cup Workers
=============================================================================
