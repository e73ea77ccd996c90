-------------------------- MODULE MCQueueLifecycle --------------------------
(* QueueLifecycle on small instances: job j1 goes to queue q1, any other to *)
(* q2, or all of them to q1.                                                *)
EXTENDS QueueLifecycle, TLC

CONSTANTS q1, q2, j1, j2

TwoQueues == [j \in Jobs |-> IF j = j1 THEN q1 ELSE q2]
OneQueue == [j \in Jobs |-> q1]

(* Workers are interchangeable, and so are the pairs of a queue and its job *)
(* when j1 and j2 are all the jobs.                                         *)
SwapQueues == q1 :> q2 @@ q2 :> q1 @@ j1 :> j2 @@ j2 :> j1
Symmetry == Permutations(Workers) \cup {SwapQueues}
=============================================================================
