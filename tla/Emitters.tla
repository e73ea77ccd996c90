------------------------------ MODULE Emitters ------------------------------
(***************************************************************************)
(* The listeners on the Queue, Worker, QueueEvents and FlowProducer the    *)
(* library constructs: the fallback of utils/attach-error-listener.ts, the *)
(* guarded @OnWorkerEvent and @OnQueueEvent handlers of                    *)
(* processor-discovery.service.ts, and utils/describe-error.ts they share. *)
(*                                                                         *)
(* A piece of code "returns", "throws" to its caller, or "rejects": it     *)
(* leaves a rejected promise that nobody awaits.                           *)
(***************************************************************************)

(* What may be thrown or emitted: an Error, a text, an object String()      *)
(* cannot render, an object whose message getter throws.                    *)
Values == {"error", "text", "noPrototype", "throwingGetter"}

Handlers == [ends : {"returns", "throws", "rejects"}, value : Values]

(* Mutant: the reading is not guarded.                                      *)
describeErrorUnguarded(v) ==
    IF v \in {"noPrototype", "throwingGetter"} THEN "throws" ELSE v

describeError(v) ==
    IF v \in {"noPrototype", "throwingGetter"} THEN "unknown error" ELSE v

(* The body of the fallback listener, and of guardListener's report.        *)
Report(v) == IF describeError(v) = "throws" THEN "throws" ELSE "returns"

(* The handler runs in a try and its promise has a catch: both report.      *)
guardListener(h) ==
    CASE h.ends = "returns" -> "returns"
      [] h.ends = "throws"  -> Report(h.value)
      [] h.ends = "rejects" -> IF Report(h.value) = "throws" THEN "rejects" ELSE "returns"

(* emit("error", v): it throws when nobody listens or a listener throws.    *)
EmitError(fallback, v, h) ==
    IF fallback /\ Report(v) = "returns" THEN guardListener(h) ELSE "throws"

(* Any other event reaches the consumer's handler only; what that throws,   *)
(* BullMQ emits as an error.                                                *)
EmitEvent(fallback, h) ==
    IF guardListener(h) = "throws" THEN EmitError(fallback, h.value, h) ELSE guardListener(h)
=============================================================================
