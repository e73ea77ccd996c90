---------------------------- MODULE MCBootstrap ----------------------------
(* Two processors, of one queue or of two; drain timeouts around the bounds *)
(* of the validation and of a Node timer; a cache time to live that is      *)
(* refused; up to two @Process entries.                                     *)
EXTENDS Bootstrap

CONSTANT other

Timeouts == {Undefined, -1, 0, 1, MaxDelay, MaxDelay + 1}
SmallTtls == {Undefined, -1}
SmallTimeouts == {NaN, Undefined, 0}
Entries == {e \in HandlerEntry : e.jobName # other}
UpToTwo == UNION {[1 .. n -> Entries] : n \in 0 .. 2}
=============================================================================
