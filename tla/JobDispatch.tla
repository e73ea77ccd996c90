---------------------------- MODULE JobDispatch ----------------------------
(***************************************************************************)
(* buildDispatcher of src/server/services/processor-discovery.service.ts:  *)
(* from the @Process entries of a class, in the order they were declared,  *)
(* to the handler of each job name.  A handler is the index of its entry,  *)
(* NoHandler stands for the promise rejected when none matches.            *)
(***************************************************************************)
EXTENDS Naturals, Sequences, SequencesExt

CONSTANTS JobNames,   \* job.name of the jobs that may arrive
          CatchAll    \* the jobName of an entry declared without one

NoHandler == 0

(* An entry's method may be missing, then it is skipped.                    *)
HandlerEntry == [jobName : JobNames \cup {CatchAll}, isFunction : BOOLEAN]

NoHandlers == [n \in JobNames \cup {CatchAll} |-> NoHandler]

(* Mutant: the first entry of a name is kept.                               *)
buildDispatcherKeepsFirst(handlers) ==
    FoldLeftDomain(LAMBDA table, i :
                       IF handlers[i].isFunction /\ table[handlers[i].jobName] = NoHandler
                       THEN [table EXCEPT ![handlers[i].jobName] = i] ELSE table,
                   NoHandlers, handlers)

buildDispatcher(handlers) ==
    FoldLeftDomain(LAMBDA table, i :
                       IF handlers[i].isFunction
                       THEN [table EXCEPT ![handlers[i].jobName] = i] ELSE table,
                   NoHandlers, handlers)

(* The function buildDispatcher returns, applied to a job.                  *)
Dispatch(table, name) ==
    IF table[name] # NoHandler THEN table[name] ELSE table[CatchAll]

(* What @Process promises of a job name: the handler declared last for it,  *)
(* else the catch-all declared last, else none.                             *)
Declared(handlers, name) ==
    LET For(n) == {i \in DOMAIN handlers : handlers[i].isFunction /\ handlers[i].jobName = n}
        LastOf(S) == CHOOSE i \in S : \A k \in S : k <= i
    IN  CASE For(name) # {} -> LastOf(For(name))
          [] For(name) = {} /\ For(CatchAll) # {} -> LastOf(For(CatchAll))
          [] OTHER -> NoHandler
=============================================================================
