---------------------------- MODULE AtLeastOnce ----------------------------
(***************************************************************************)
(* What the library promises of a job it accepted: it stays pending, over  *)
(* any number of executions, until one is acknowledged; it is never        *)
(* dropped, unless the application asked for its queues to be drained.     *)
(***************************************************************************)
CONSTANTS Jobs, MayDrop

VARIABLE status

Init == status = [j \in Jobs |-> "new"]

Accept(j) == status[j] = "new" /\ status' = [status EXCEPT ![j] = "pending"]

Complete(j) == status[j] = "pending" /\ status' = [status EXCEPT ![j] = "done"]

Drop(D) ==
    /\ MayDrop
    /\ \A j \in D : status[j] = "pending"
    /\ status' = [j \in Jobs |-> IF j \in D THEN "dropped" ELSE status[j]]

Next ==
    \/ \E j \in Jobs : Accept(j) \/ Complete(j)
    \/ \E D \in SUBSET Jobs : Drop(D)

Spec == Init /\ [][Next]_status
=============================================================================
