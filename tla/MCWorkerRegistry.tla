-------------------------- MODULE MCWorkerRegistry --------------------------
(* WorkerRegistry on a small instance: two queues, enough workers to        *)
(* register a queue again after it was unregistered.                        *)
EXTENDS WorkerRegistry, TLC

Symmetry == Permutations(Queues) \cup Permutations(Workers) \cup Permutations(Callers)
=============================================================================
