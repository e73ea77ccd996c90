------------------------- MODULE MCQueueOperations -------------------------
(* An instance of QueueOperations: a schedule per rule of the validation,   *)
(* and a value on either side of each bound.                                *)
EXTENDS QueueOperations, TLC

CONSTANTS plain, tagged

MCJobs == {plain, tagged}
MCBatches == {<<tagged, plain>>, <<plain, tagged, plain>>}
Schedule(p, e, d) == [object |-> TRUE, pattern |-> p, every |-> e, endDate |-> d,
                      tz |-> "known", other |-> "given"]
MCRepeats == {Schedule("cron", "absent", "future"),
              [Schedule("absent", "positive", "absent") EXCEPT !.tz = "unknown"],
              Schedule("unparseable", "absent", "absent"), Schedule("blank", "absent", "absent"),
              Schedule("cron", "positive", "absent"), Schedule("absent", "NaN", "absent"),
              Schedule("cron", "absent", "past"),
              [Schedule("cron", "absent", "absent") EXCEPT !.tz = "unknown"],
              [Schedule("cron", "absent", "absent") EXCEPT !.object = FALSE]}
Worker(n, autorun, limiter) == [concurrency |-> n, autorun |-> autorun, limiter |-> limiter]
MCWorkerOptions == {Worker(n, Undefined, Undefined) : n \in {0, 1001, NaN}}
                   \cup {Worker(1000, FALSE, [max |-> 1, duration |-> NaN]),
                         Worker(Undefined, Undefined, Undefined),
                         Worker(Undefined, TRUE, [max |-> 1, duration |-> 0])}
File(url, protocol, absolute, extension) ==
    [url |-> url, protocol |-> protocol, absolute |-> absolute, extension |-> extension]
MCFiles == {File(TRUE, "file:", TRUE, ".mjs"), File(TRUE, "http:", FALSE, ".mjs"),
            File(FALSE, "", FALSE, ".js"), File(FALSE, "", TRUE, ".json")}
MCSymmetry == Permutations(Callers)
=============================================================================
