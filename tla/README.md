# A TLA+ model of nest-queue

`@bymax-one/nest-queue` is a NestJS module around BullMQ: it owns Redis
connections, workers, queue caches and a shutdown sequence, and leaves the jobs
themselves to BullMQ and Redis.  What can go wrong in it is a matter of *order*:
which connection is open when, which entry of a map is read before an `await` and
used after it, which timer wins.  Beside the library the repository holds the
scripts that guard and release it; they too leave something behind (a source file,
a bundle, keys in Redis, a version on npm) that must be right however they end.
The modules here model those parts, TLC checks them on small instances, and TLAPS
proves their safety results for every instance.

Paths below are relative to `src/src/server/`; `scripts/` and `release.yml` are
`src/scripts/` and `src/.github/workflows/release.yml`.

## 1. The system

| component | state | operations | what makes it correct |
|---|---|---|---|
| `WorkerRegistry` (`services/worker-registry.service.ts`) | `#entries`: queue name -> worker and its duplicated connection | `register`, `registerSandboxed`, `unregister` (two awaits), `getAll`, `getConnections` | one live worker per queue; every connection it opened is found until released; a connection is quit after its worker closed |
| `QueueEventsRegistry` (`services/queue-events-registry.service.ts`) | `#events`, `#connections` | `getOrCreate`, `getAll`, `getConnections` | one `QueueEvents` per queue, none forgotten |
| `QueueService` (`services/queue.service.ts`) | `#queues`, a cache of `Queue` objects on the shared client | `enqueue`, `enqueueBulk`, the job schedulers, `pause`, `resume`, `clean`, `getMetrics`, `getCachedQueues`, `closeAll` | usable until the HTTP server stopped; every cached queue is closed; a caller is told what happened, a retry adds nothing twice |
| `FlowService` (`services/flow.service.ts`) | the optional `FlowProducer` | `add`, `addBulk`, `close` | as `QueueService` |
| `ConnectionResolver` (`services/connection-resolver.service.ts`) | the Queue-role client: the application's (Mode A) or the library's (Mode B) | `init`, `getClient`, `isOwned`, `teardown` | nothing is opened on a client that is not usable; only an owned client is closed, and last |
| `QueueLifecycle` (`lifecycle/queue-lifecycle.service.ts`) | the forced-worker count | `onModuleDestroy`, `onApplicationShutdown` | bounded; drains before it cuts; leaves nothing open; loses no job |
| `ProcessorDiscoveryService` (`services/processor-discovery.service.ts`) | `#registeredQueues` | `onModuleInit`, `wireProcessor`, `buildDispatcher` | up means completely wired; a job reaches its handler |
| `MetricsService` (`services/metrics.service.ts`) | a cache of counts with a time to live | `get`, `getAll`, `invalidate` | never stale, never going back, invalidation holds |
| error listeners (`utils/attach-error-listener.ts`, `utils/describe-error.ts`, `guardListener`) | the listeners of every BullMQ object | attach, report, guard a handler | no error event and no failing handler ends the process |
| `BymaxQueueModule`, options (`bymax-queue.module.ts`, `config/`) | resolved options, provider order | `forRoot`, `forRootAsync`, `validateOptions`, `resolveOptions` | a bad option is refused, a good one takes effect |
| `scripts/mutate-const-tables.mjs` | a mutated source file on disk, the running command | mutate, run the tests, restore | the source is restored however the run ends; the exit status is true |
| `scripts/strip-bundle-comments.mjs` | the built bundles | strip, compare the programs, write | a bundle stays the program that was built |
| `scripts/check-file-length.mjs` with CI | the baseline of long files | check a tree, compare with the base branch | the baseline only shrinks |
| `scripts/check-published-surface.mjs` | one check per link, side by side | request, follow redirects, judge; check the changelog | a dead link fails, an outage does not |
| `scripts/check-api-surface.mjs`, `release.yml` | tags, npm, GitHub releases | the gates and steps of a release, run again after an interruption | what reaches npm is documented |
| `scripts/benchmark.mjs` | keys in a shared Redis | pools, bursts, cleanup | Redis is left as it was found |

Interaction.  Everything runs on one JavaScript thread: a handler runs from one
`await` to the next without interruption, and *any* other callback may run at an
`await`.  Workers and `QueueEvents` block on connections duplicated from the
Queue-role client; queues and the flow producer share that client.  NestJS calls
`onModuleInit`, later `onModuleDestroy`, then stops the HTTP server, then calls
`onApplicationShutdown`; so requests are still served during the first half of
the shutdown, and job handlers of forced workers run on during all of it.

Hard behaviours: requests, handlers and timers interleaved with the two shutdown
hooks; maps that are copied at some awaits and walked live at others; the drain
timer racing `worker.close()`; a close or drain that fails half way; the process
being killed; overlapping `unregister()` calls; metrics fetches that overlap with
an invalidation; three callbacks racing for the first connection; commands whose
answer is lost with the connection and which are sent, or called, again; and, in the
scripts, an interrupt while a mutated file is on disk, requests merged side by side,
a release run that stops half way.  The full list, each with its line and the
properties that cover it, is in `PROJECT.json` (`hazards`).

## 2. The modules

    Domain               names shared by the components
    WorkerRegistry       register / unregister, every await a step
    QueueEventsRegistry  the QueueEvents and their connections
    ProducerSide         queue cache, flow producer, Queue-role client
    JobBroker            external: the jobs in Redis as BullMQ keeps them
    QueueLifecycle       the shutdown; EXTENDS the four above
    AtLeastOnce          abstract: what the library promises of a job
    JobDispatch          buildDispatcher, a pure fold, and what it promises
    Bootstrap            forRoot, the first connection, discovery
    MetricsCache         MetricsService
    CallContract         abstract: what the services promise of a call
    Emitters             error events and guarded listeners, pure
    QueueOperations      queue, flow and registration calls; EXTENDS Emitters
    Positions            the positions in a text, in order
    MutationRun          scripts/mutate-const-tables.mjs
    BundleComments       scripts/strip-bundle-comments.mjs
    FileLengths          scripts/check-file-length.mjs and its CI step
    LinkCheck            the links of scripts/check-published-surface.mjs
    Release              release.yml with its changelog and API gates
    Benchmark            scripts/benchmark.mjs
    Scripts              one of the six at work; EXTENDS them
    MC...                instances for TLC

    WorkerRegistryProofs   typing, quits follow closes; one worker per queue
    QueueLifecycleProofs   typing, the refinement of AtLeastOnce, what the shutdown leaves
    MetricsCacheProofs     freshness, order, invalidation
    BootstrapProofs        wiring, the wait for the client, the dispatcher
    QueueOperationsProofs  calls, faults, retries, listeners, the refinement of CallContract
    ScriptsProofs          benchmark, file lengths, links, the release workflow
    MutationProofs         the mutants of a table and the run over them
    BundleProofs           the strip of the bundles; each EXTENDS the one before

A module keeps the names of the code: `register` is `Register`, `#entries` is
`entries`, `closeWorkerWithTimeout` is `CloseWorker` followed by `WorkerClosed` or
`WorkerForced`.  `PROJECT.json` maps every definition to its lines.

**WorkerRegistry.**  A BullMQ worker and its duplicated connection make one entry
and are named by one element of `Workers`.  Registration does not await and is one
step; `unregister()` is `UnregisterCall` (to the first await), `CloseResolves` or
`CloseRejects` (BullMQ; every caller that awaits that close resumes in the same
step, as microtasks do), and `UnregisterDeletes` (after the quit), which deletes
the entry *by name*.  A call that is refused (duplicate name, bad options, bad
processor file) changes nothing and is no step.  A rejected `close()` leaves the
worker "stuck": BullMQ memoises the promise, so later calls reject too.

**QueueLifecycle.**  `phase` is where the two hooks stand.  `todo` is what a loop
has left where the code walks a *copy* (workers, connections), or has visited where
it walks the *live* map (the drain and `closeAll()`: the iterator of a JavaScript map
comes to every entry that is added while it is walked, so both loops end only when
every cached queue was visited); the loop over `QueueEvents` walks a live map too and
needs neither.  `fresh` are the jobs added before the drain has come to their queue, by
a request or by a handler of a forced worker.  Requests register, observe, unregister and enqueue
while the server is up, handlers enqueue while the process lives.  `LateRegistration`
says whether requests still open workers or `QueueEvents` once the context closes.
`Killed` is the platform's SIGKILL at any moment.

**JobBroker** (external).  A job under execution is held by a worker.  If that
worker's connection is up, the end of the handler is acknowledged.  If it is gone,
the lock lapses and the stalled check of any instance requeues the job.

**MetricsCache.**  A snapshot is abstracted to the version of the counts it read.
`getJobCounts` commands go out on one connection: Redis executes them, and ioredis
answers, in the order sent.  `floor` and `overtaken` are history variables that
record what an `invalidate()` was entitled to expect.

**Bootstrap.**  Options are chosen from small sets, in every combination.
`armed` is what `waitReady` has registered; whichever callback comes first must
clean the others up.  The client keeps changing state afterwards.  `cacheTtlMs` is checked like the other
options.  Discovery is
synchronous, so the application's own registrations happen before or after it,
never in between.

**QueueOperations.**  A call runs to its one await: its arguments are checked, the
queue is looked up or constructed, one command goes out on the Queue-role
connection (`wire`).  `RedisExecutes`, `RedisRefuses` and `Answer` keep the order of
that connection.  `ConnectionLost` either rejects the commands that have no answer,
executed or not, or sends them again, and every emitter emits an error, with any
value and any consumer handler (`Emitters`).  A schedule is a record of the kinds the
validation and BullMQ tell apart (`limit`, `offset` and `startDate`, which nothing
examines, are one of its parts).  `kept` are the jobs with a `jobId` that a worker took and
that still exist, active or finished: `enqueue`'s comment says that adding such an id is
a no-op, and `JobRemoved` is when it may be used again.  `executed` is a history variable, the callers
whose last call Redis has executed; with the calls and what Redis stores it is
mapped to `CallContract`, which knows no connection: there a call is refused without
effect, or takes effect at least once and as a whole before it resolves, or fails, and
then may have taken effect or may yet.  Registering a
worker here is about its *options*: what is refused, concurrency and limiter, what BullMQ
is given, and whether the worker runs at once or, with `autorun` off, when the application
calls `run()` (`RunWorker`).  A `QueueEvents` (`getOrCreate`) is here as an emitter with
listeners.  The life of the registries' entries is `WorkerRegistry`'s and
`QueueEventsRegistry`'s.

**The scripts.**  Each module has its own variables, an `...Idle` state, and a
next-state relation whose steps end where the script awaits something or can be
stopped.  They share nothing with the library or with each other; `Scripts` lets one
of them run and keeps the others idle, so that one run of TLC covers the six.  What a
test run, the web, git, npm or GitHub answers is a choice.  The data are abstract: a
table is a sequence of brackets, commas, notes, names and numbers; a bundle a sequence
of tokens, blanks, breaks and kinds of comment; a changelog a sequence of headings,
notes, texts and link definitions; the declarations of a tree are one value.  The tables
are lists (`IsList`): entries with commas between them, notes anywhere, as those of any
file that compiles; `ListOf` is what a table means.  A bundle is written in two steps, as `writeFileSync` truncates the file and then writes:
killed in between it holds any beginning of its text (`torn`).  In a bundle a line comment ends
with its line (`IsBundle`), a comment over lines, kept or not, is a line break too, and
`Program` reads from it the tokens, which of them are fused, and before which a break
counts.  A host is what its lookups may find, which need not be the same each time; `turned` are
the links failed by a lookup that varies.  A link
leads to a page when there is a *way* to it, a function from 0 .. n to addresses each of
which redirects to the next (`IsWay`); that says the same as following redirects one by
one, and can be reasoned about.  `StripIsAccepted` is about the real strip, which must
never be refused; `BundlesKeepTheirProgram` holds of any strip, a broken one included,
because the comparison refuses it, of every bundle but those whose own write was cut off:
there the script's comment-free beginning of a bundle is taken for a stripped one.  In `FileLengths` the history `apart` records the files
two merged requests both changed: such a file may outgrow its entry, and nothing else may.

## 3. What is checked

| run | instance | shows |
|---|---|---|
| `registry` | 2 queues, 4 workers, 2 callers | with no two `unregister()` calls of one queue overlapping, map, workers and connections agree |
| `registry_stale_unregister` (violated) | 1 queue, 3 workers, 2 callers | overlapping calls put two live workers on one queue |
| `shutdown` | 2 queues, 2 workers, 2 jobs, Mode B, drain on, flows on | the safety of the whole shutdown |
| `shutdown_delivery` | 1 queue, 2 workers, 2 jobs, Mode A, no drain | liveness, and refinement of `AtLeastOnce` |
| `late_registration` (violated) | as `shutdown`, 1 queue, late registration | a worker registered during the shutdown stays open |
| `sequential_drain` (violated) | 2 queues | workers are closed one after the other, not concurrently |
| `metrics` | 2 queues, 2 commands in flight, ttl 2, clock to 3, 2 changes | freshness, monotonic answers, invalidation |
| `metrics_invalidate` (violated) | 1 queue | an overlapping fetch undoes an invalidation |
| `bootstrap` | 2 processors, 2 queues, up to 2 `@Process` entries | wiring, routing, the wait for ready, the start ends |
| `drain_timer` (violated) | timeouts around the bounds | a drain budget a Node timer cannot hold becomes 1 ms |
| `queue_operations` | 1 queue, 2 callers, 2 calls, 2 faults, a value on either side of each bound | a resolved call took effect, a retry adds no `jobId` that exists, errors blame whoever erred, a refused call leaves nothing but the queue of a bad cron pattern, workers run and use the producers' keys, no fault ends the process; refinement of `CallContract` |
| `scripts` | each script, see below | what a script leaves behind and what its exit status says, however it ends |

`shutdown` has a client of the library's own (Mode B); that the consumer's client of
Mode A is never closed is proved for both modes.  The types of `WorkerRegistry`,
`MetricsCache` and `QueueOperations` are proved and in no run.

Each property of a passing run has a mutant, a plausible slip in one mapped
definition under which TLC finds the property violated.

### Findings

1. `unregister()` deletes the entry by name after two awaits.  If a second call for
   the queue overlaps and the queue is registered again in between, the new worker
   loses its entry: it runs untracked, and a second one can be put beside it.
2. A worker or `QueueEvents` opened during `onModuleDestroy`, while requests are
   still served, is in none of the copies the sequence works on and is never closed.
3. The specification says workers are closed *concurrently*; the loop awaits one at
   a time, so the budgets add up.
4. `invalidate()` is undone by a fetch that was under way: what Redis read before the
   call is cached after it, for a whole time to live.
5. `drainTimeoutMs` above 2^31-1, or `Infinity`, is accepted and becomes a timer of
   1 ms, although validation "never silently corrects a value".

The lines and quotations are in `PROJECT.json` (`findings`).

Also seen while modelling, with no run of its own:

- `src/docs/technical_specification.md:1610` says the drain removes *delayed* jobs; the
  code does not ask for that, as its own comment says.  In `QueueLifecycle` delayed
  jobs survive a drain.
- A release that is interrupted before its GitHub release exists cannot be completed
  by running it again once a later tag was pushed: the changelog gate asks the tree of
  the earlier tag for a section of the later one.  (`release.yml:4` keeps the manual
  trigger for interrupted releases; it works while the tag is the newest.)
- The last section of a changelog is followed by the link definitions, which
  `releaseNotes` counts as part of it: an empty last section passes for a long one.
- A test command that cannot be started has neither exit status nor signal, and
  `mutate-const-tables.mjs:221` counts its mutant as killed, although "the judgement of each
  file's mutants is the command's verdict" (`:24`).  The command was started for the
  unmutated file, so it takes a failure in between.  `ExitTellsTheTruth` keeps account of
  those mutants (`unstarted`): nothing else goes unreported.
- When a call of the benchmark's pool rejects, the others go on writing while the cleanup
  scans: a failed run can leave keys in a Redis that is to be "left as it was found"
  (`benchmark.mjs:20`).  `RedisLeftAsFound` says which: those written behind the scan.
- A bundle whose write was cut off passes for stripped when the script runs again; only a
  new build replaces it.
- A release run answers for the tags its checkout fetched: one that is pushed meanwhile is
  judged by its own run.

### Bounds, and why they are enough

- *Workers, queues.*  The worst case of the registry is one queue unregistered twice
  and registered again in between, which takes two callers and two workers; the
  runs have more.  Two queues tell "this entry" from "every entry" and let a loop
  over copies and live maps see an insertion.  `Workers` bounds the number of
  constructions, since a worker object is never reused.
- *Jobs.*  Each job is added once.  Two let one be held by a forced worker while
  that worker's handler or a request adds the other.
- *Time.*  The drain and ready timers are nondeterministic: they may fire at any
  moment, which covers every budget.  Only the metrics clock is a counter; with a
  ttl of 2 and times to 3 an entry is fresh, about to expire, and expired.
- *Metrics commands.*  Two in flight are enough for an older answer to follow a
  newer one, were the order not kept.  `MaxInFlight`, `MaxTime` and `MaxVersion`
  occur in guards only, and the theorems hold for all of them.
- *Operations.*  One queue and two calls let a call follow or overlap another on the
  same queue and connection; two faults let a lost answer follow an error reply or
  another loss.  `MaxBulk` is 2 where the code has 1000: batches of 2 and 3 are on
  either side of it.  The schedules hold one instance per rule of the validation, the
  worker options one value on either side of each of their bounds.  The key prefix is one
  that was configured; the default one is left to the theorem.
- *Scripts.*  Tables: notes on either side of a comma, a trailing comma, a number that
  cannot be raised, an empty one; two files, so that one is restored before the next
  is touched.  Bundles: every sequence of up to three units between two ends.  Links:
  `MaxRedirects` is 2 for the 5 of the code, chains of 0 to 3 and a circle; two links
  side by side, one of which the registry stands in for.  File lengths: a `Limit` of 1,
  lengths to 3, two requests and three merges, so that a baseline is introduced,
  changed and changed again.  Releases: two versions, two surfaces, two commits
  besides the first, and any number of runs, each started from any tag.  Benchmark:
  four jobs for three loops, and three slots for SCAN to visit.
- *Symmetry* is used in the safety runs only: workers, callers, metrics queues, and
  a queue together with its job.

`CHECK_DEADLOCK FALSE` is set everywhere because each system really stops: a
registry whose workers are used up, a finished shutdown, a started application,
a clock at its bound, a script that has ended.

### Fairness

`shutdown_delivery` assumes weak fairness of the shutdown sequence as a whole (Redis
answers or the connection errors, timers fire, NestJS goes on), and per job of the
stalled check and of another instance that runs waiting jobs.  Nothing is assumed of
handlers, of `worker.close()` or of the kill: a handler may never end, and
`ShutdownEnds` holds because the drain timer is one of the steps of the sequence.
`bootstrap` assumes weak fairness of the library's own steps and its ready timer,
and nothing of Redis, which may stay silent.

## 4. What is proved

A theorem holds for any values of the constants that satisfy the assumptions named in
the modules: `None` is no queue and no worker, sets of options are what their names say,
batches and handler lists are sequences, bounds are natural numbers, the metrics queues
are finitely many.  No bound of section 3 is in a proof: `MaxCalls`, `MaxFaults`,
`MaxMerges`, `MaxCommits` and the like occur in guards only.

Each proof follows one pattern.  The property is seldom inductive, so the module of the
proof states a stronger invariant, as a conjunction of named parts with a comment each;
TLC checked the parts on the runs' instances first.  Then come one lemma for the initial
states and one for the steps, split by action or by what groups of actions have in
common, and a theorem that joins them.

**WorkerRegistryProofs.**  Typing and `QuitAfterClose` hold of `RegistrySpec`, however
calls overlap; the latter needs that a call that has sent its quit saw its worker closed
(`QuittersClosed`).  `OneWorkerPerQueue`, `OpenConnectionsTracked` and
`EntryLeavesReleased` hold of `ExclusiveSpec`, in which no two `unregister()` calls of one
queue overlap.  None is inductive: the deletion by name is only right because the entry
still holds the worker the call read, so the invariant (`ExclusiveInv`) says that a pending
call's entry is untouched, that every live worker is the entry of its own name, and that
open connections belong to entries.  Finding 1 shows the condition cannot be dropped.

**QueueLifecycleProofs.**  Typing; `RequestsCanEnqueue`, which is inductive as it stands,
because the producer side is only touched from the phase "flow" on; and
`DeliversAtLeastOnce`: with `jobStatus` as refinement mapping each step is a step of
`AtLeastOnce` or a stutter.  A drain maps to `Drop`, which the contract only allows with
`MayDrop`, so it needs the invariant that the sequence drains only when asked to.

What the shutdown leaves behind takes five more invariants, each about what a loop has
done once its phase is over and what it has done so far while it runs.

- `SettledInv`: every registered worker is still to be visited, being closed, or settled
  (closed or forced), so the loop over the connections only cuts those of settled ones.
  Gives `DrainedBeforeCut`, however `unregister()` calls overlap.
- `HoldersWork`: who holds a job is live or was forced, since a worker closes by itself
  only when its jobs have ended.  Gives `OnlyForcedJobsRerun`.
- `ConnectionsReleased`, `EventsReleased`, `ProducersReleased`: nothing a loop is through
  with is open.  A loop over a *copy* of the map only closes everything if the map knew
  everything, so this one rests on `ExclusiveInv`, shown to survive the steps of the
  sequence (`MapAgrees`).  Gives `ClientClosedLast` and `NothingLeftOpen`.
- `VisitsInv`: what a loop over the live map has visited is cached, and closed or failed
  once `closeAll()` has come by, whatever a handler caches meanwhile.  Gives
  `ClearedQueuesWereClosed`, since the map is cleared when every cached queue was visited.
- `FreshInv`: a fresh job waits in a queue that is cached, and if the drain has visited that
  queue, its drain has failed; a job that joins is not of a visited queue (`FreshJoin`).
  Gives `LateJobsAreDrained`, without hypotheses.  A job that is added to a queue *after*
  the drain has gone by stays; nothing in the repository says otherwise.

Two hypotheses are what the source leaves to its users.  `~LateRegistration`: nothing
registers once the context closes.  Finding 2 is what happens otherwise.
`ExclusiveLifecycle`: no two `unregister()` calls of one queue overlap; it is asked for
`ClientClosedLast` and `NothingLeftOpen` only, and TLC finds both violated with one queue,
two workers and two callers.  With one caller, as in `shutdown`, it always holds
(`OneCaller`), so that run checks exactly what the theorems say.

**MetricsCacheProofs.**  Typing, `AnswersAreFresh`, `InvalidateHolds` and
`AnswersAdvance`.  The invariant (`MetricsInv`) is about the wire: executed commands come
before the others and read ever newer counts (`ReadInOrder`), what they read is not older
than the last answer nor than an invalidation (`ReadsAreCurrent`), and what is cached is
what was answered last (`CachedIsAnswered`).

**BootstrapProofs.**  Typing, `NothingBeforeUsable`, `WaitIsClean` and `WiredWhenUp`.  The
invariant (`BootInv`) adds that the processors discovery is through with are wired
(`WiredSoFar`); no step takes a queue from its worker, since a worker is only given to a
queue that has none.  `RoutedAsDeclared` is about `buildDispatcher`, a fold over the
`@Process` entries.  The induction theorems of the library are out of the provers' reach,
so they are replaced by the fact that a set of numbers has a least one (`LeastNumber`,
from `WFMin` of the library): the least number at which a claim fails is not the first,
and the step before it leads to a contradiction.  The fold is *solved*: the function that
gives each set of positions its table satisfies the equation of the fold
(`TablesSolve`), and two solutions agree, as there is no smallest set on which they
differ (`OnlyTablesSolve`).

**QueueOperationsProofs.**  All properties of the run.

- `WireInv`: each command on the wire belongs to a call that waits for it, one to a call,
  and what Redis has executed is recorded.  It is kept by a lost connection because that
  either rejects the waiting calls or leaves their commands as they are.  Gives
  `ResolvedMeansDone`.
- `ObjectsInv`: queues and workers carry the resolved prefix and every emitter has its
  fallback listener from its construction on; with `ListenersReturn`, that a listener
  returns whatever was thrown at it, `WorkersServeTheProducers` and `ProcessSurvives`.  That
  a worker runs within the bounds, and from a file that was checked, is so from its
  registration on (`OptionsBuilt`, `ObjectsRegister`); no later step changes its options.
- `RetryAddsOnce` from the effect of each step on the jobs of one queue (`OneQueueChanges`,
  `EffectOnJobs`), by cases on whether a job of the batch waits already or was taken and
  still exists; `BlamesTheRightParty` from `ChecksDecide`,
  that a schedule passes both checks if and only if BullMQ can run it; `RefusedCachesNothing`
  from `CheckedAfterLookup`, which is where its exception, the cron pattern, comes from.
- `KeepsCallContract`, the refinement.  What a caller sees is a function of its call's
  state and of whether Redis executed its command (`StatusOf`), so `Answer` is `Resolve`
  only because `WireInv` records the execution; `RedisExecutes` is `Apply`
  (`EffectOnContract`), also for a call that failed while its command was still on the
  wire; a lost connection is `Fail` for any number of callers at once.  `enqueueBulk`
  throws BULK_ENQUEUE_FAILED both for a batch that is too large, without effect, and for one
  that Redis failed on; that only batches of a permitted size are sent (`SentFit`) tells a
  refused call from a failed one.

Every operation of the services is shown to be a `CallStep` (one call recorded, one
command sent or none, at most its own queue cached), so the proofs have one case for all.

**ScriptsProofs.**  A step of `Scripts` is a step of one script (`ScriptSteps`), so each
has an invariant of its own.

- Benchmark, `BenchInv`: the indices below `next` ran once, the others not (`EachOnce`);
  behind the cursor of SCAN lie only keys that were written after it had passed
  (`ScannedClean`).  Gives `RedisLeftAsFound`.
- File lengths, `LengthsInv`: the base of an open request has entries at least as high as
  main's, and a file above its entry was changed apart.  Gives `OffendersOnlyShrink`.
- Links, `LinksInv`: each check stands on the way of its link and method.  Two ways agree
  as far as both go (`WaysAgree`, at the least place they differ the same page would have
  redirected to two), so the page a check ends at is the one the link leads to, unless a
  lookup turned it away.  Gives `LinkVerdicts`, circles included.
- Release, `GatesPassed`: what the steps behind a run have established of the tag it is
  about; main, and the tags pushed meanwhile, do not change it.  Gives
  `ReleasesAreDocumented`, by lemmas on where the section of a version begins and ends.

**MutationProofs.**  `MutantsAreVariants` is about texts and holds of every list.  First
what `Sorted` does: it is ascending, and the only ascending sequence of its set
(`SortedAscends`, `SortedIsOne`).  Then where a cut begins and ends: the full start of an
entry is behind the comma or the bracket before it, notes included (`FullStartIs`), and the
list ends behind its last entry or trailing comma (`ListEndIs`).  A cut out of a list is a
list again if what it leaves side by side may stand side by side (`ShorterIsList`), and its
entries are those outside the cut, moved (`ShorterEntries`); so each removal means the
table without one entry (`EntryRemoved`), each bump the table with one number raised
(`NumberRaised`), and every entry has its mutants (`AllMutants`).  The run over the mutants
has `MutHolds` and `JudgedSoFar`: of the files it is through with every mutant was judged,
of the current one those that are neither on the disk nor left.  They give
`SourceRestored` and, with `MutantsAreVariants`, `ExitTellsTheTruth`, which is about each
mutant: it fails the tests, is printed, or its own command was not started (`Told`).

**BundleProofs.**  `BundlesKeepTheirProgram` holds whatever strip is applied, since what is
on disk *and what is about to be written* was compared (`StripHolds`).  That the real strip
is never refused is about what one removal does to a program.

- `Program` depends on the positions of the code, what stands next to what, and the
  breaks in between.  A rewriting that moves every unit of code, in order, fuses and
  separates none and keeps the breaks between them, keeps the program
  (`RewriteKeepsProgram`).
- Replacing a stretch without code by a shorter one is such a rewriting if it keeps two
  tokens apart and a break where one was (`SpliceRewrites`, `BreaksStay`); each case of
  `WithoutComment` (a comment that owned its line, one that shares it, one over lines that
  shares its first and last) is such a splice and leaves a bundle (`CommentGoes`).
- The strip is a recursive function over the comments from the last to the first.  It is
  shown to be well defined (`FoldExists`, `StripIsFold`), and by the least number at which
  it would fail, each result has the program of the source and, of its comments, those
  that are still to be removed, where they were (`CommentsGo`).  What is
  left has no comment to remove, and is not changed by a second strip (`StripWorks`,
  `NothingToStrip`).
- `HalfStripped`: each bundle on the disk is as built, as stripped, or the beginning of
  that, and a run that writes has still to write those that are not stripped.  Gives `StripIsAccepted`.

### Only model-checked

- Liveness (`ShutdownEnds`, `JobsSurvive`, `StartEnds`) and everything else that needs
  fairness: the prover has no rule for `ENABLED`.
- The violated runs, which refute and do not hold.

## 5. Abstractions, and what is left out

- The request and the settlement of one `quit()` are one step in the lifecycle's
  loop, where nothing can observe the difference; in `unregister()` they are two.
  `quit()` failing and falling back to `disconnect()` ends in the same state.
- The composed system has one caller of `unregister()`, so the condition of
  `ExclusiveSpec` holds in it.
- A forced worker is not killed: `close(true)` is not awaited and does not stop its
  handler, so a job may still be acknowledged until its connection is quit.
- Metrics calls are anonymous: what matters is what each queue's caller was told last.
- `waitReady` returning at once on a client that is already ready is not modelled;
  a client just constructed is not.
- Of a custom `jobId` the model knows whether its job waits, was taken and still exists, or
  is gone.  When a finished job is removed depends on options BullMQ keeps, so
  `JobRemoved` may happen at any time, an active job's included.
- A job without a `jobId` is its own at each call: a retry adds another, as it does in
  BullMQ.  That a job may run again after a stall is in `JobBroker`, not here.
- `NaN` passes the checks of a worker's limiter; what Redis makes of it is decided inside
  BullMQ's scripts.  `lockDuration` and `stalledInterval` are passed on as they are.
- The request that follows the lookup of a host name looks it up once more, unchecked, so a
  name whose lookups vary may be requested although one of them would have refused it.
  `LinkVerdicts` keeps only what every lookup refuses from being requested.

Not modelled:

- Error texts, logging, the freezing of the resolved options, types and re-exports:
  no behaviour a property could be about.  `forRootAsync` builds the same providers as
  `forRoot`, later.
- Retries, priorities, deduplication and flow trees: inside BullMQ.
- `scripts/readme-snippets.mjs`, `dogfood-smoke-test.mjs`, `check-mutation-directives.mjs`
  and `check-size.mjs`: each reads files or compiles text once, in order, and prints a
  verdict.  They keep no state, nothing can overlap, and what is left after abstracting
  the text is the verdict itself.  The same holds of the anchors and relative links in
  `check-published-surface.mjs`, the normalisation of declarations in
  `check-api-surface.mjs`, and the measurements of `benchmark.mjs`.
- The consumer application under `src/test`: an example, test code.

## 6. Plan

Done: the shutdown and everything it acts on, the start, the metrics cache, the
operations of the services and their contract, the error listeners, the scripts and the
release, and proofs of all their safety properties and of both refinements.  Next:

1. An abstract specification of the registry as a lock on queue names, and the proof that
   `WorkerRegistry` implements it under `ExclusiveSpec`; the same of `MetricsCache` and a
   cache that answers at once.
2. `Bootstrap` composed with `QueueLifecycle`: a shutdown signal during the start; the
   owned client that keeps reconnecting after `waitReady` rejected; a Redis that stays
   silent during `quit()`, which no timer bounds.
