# BugBashApplications: models and proofs

BugBashApplications holds load-and-check applications written against Redis
with its query engine. Each one writes documents, changes and expires them, and
searches for them at the same time, and decides from what the searches return
whether *the index* is wrong. The interesting question about such a program is
whether **its own** bookkeeping is right: a false alarm sends somebody after a
bug of the server that does not exist, and a check that forgets too early lets
a real one pass. This directory holds TLA+ models of that bookkeeping, the TLC
configurations that check them, and TLAPS proofs about all of them.

The server is the environment of every model. It is modelled from what the
client code relies on, as a server that *works*: a key past its expiry is gone
for every command and filtered from every search, a deleted document leaves the
index within a bounded time, a pipeline that is no transaction can stop
half-way. What a program reports about such a server is false by definition.
Only `ChaosMirror` also has a server that misbehaves, to ask whether the checks
would notice.

1. [The system](#1-the-system)
2. [The modules](#2-the-modules)
3. [The runs](#3-the-runs)
4. [What is proved](#4-what-is-proved)
5. [What the code does not keep](#5-what-the-code-does-not-keep)
6. [What is not modelled](#6-what-is-not-modelled)
7. [Plan](#7-plan)

To check a run, `tlc -config <run>.cfg <module>.tla`; to check the proofs of a
module, `tlapm <module>.tla`.

## 1. The system

The repository has seven use cases, and code for three of them (02 to 05 are
templates).

### chatstress (use case 06, Go): chat messages with retention tiers

One process. Goroutines share the server, an *oracle*, metrics and controls.

| component | state | operations | what makes it hard | correct if |
|---|---|---|---|---|
| oracle (`oracle/oracle.go`) | per shard a map key -> entry (`expireAt`, `deletedAt`, token), an atomic count, hit counts | `Add`, `Refresh`, `Edit`, `MarkDeleted`, `Check`, `LiveSample`, `ExpiredSample`, `RecordProbe`, `Prune` | called by all workers at once; every worker talks to the server first and to the oracle afterwards; two clocks | it charges the server with no hit it is not guilty of, forgets only entries that can no longer be returned, keeps its count |
| workload (`workload/workload.go`) | goroutines: ingesters, editor, deleter, slider, query workers, metric loop, gc loop; a supervisor with a list of query workers | `Run`, `ingester`, `querySupervisor`, `queryer`, `editor`, `deleter`, `slider`, `metricLoop`, `gcLoop` | resize, pause and shutdown overlap with operations in flight; replies get lost | no worker is lost, nobody works after the limiters close, `Run` returns |
| limiter (`workload/limiter.go`) | a channel of tokens, a goroutine that refills it | `Wait`, `Close` | a waiter outlives a pause or a shutdown | a waiter gets a permit or the context's end |
| client (`redisx/client.go`) | a connection pool | `IngestBatch`, `EditBody`, `Delete`, `Refresh`, `SearchLimit`, ... | pipelines that fail half-way, calls that ran though they fail | (part of the models of its callers) |
| control (`control/control.go`), dashboard (`web/server.go`) | atomics for rate, limit, timeout, concurrency, pause; a profile mix; the pool of queries | setters; `handleControl`, `regenPool` | two goroutines rebuild the pool; settings are read one after another | the pool in use matches the settings in use |
| metrics (`metrics/metrics.go`) | histogram of atomic buckets, counters, series, status, ring of queries | `RecordQuery`, `Snapshot`, `PercentileOf`, `AddSample`, `Plateau` | a snapshot is not atomic | no query is lost or counted twice between windows; the estimate means what it says |
| query generator, fuzz, data generator, configuration, report | a random source | build text, parse, format | | |

### bazaar (use case 07, Python): a marketplace

Separate **processes** that share the server and a directory of checkpoint and
event files. A document is a pure function of its id and version.

| component | state | operations | what makes it hard | correct if |
|---|---|---|---|---|
| loader (`load.py`) | per worker a range of ids, `doc_id`, a checkpoint file | `run_load`, `load_worker`, `_read_ckpt` | killed between execute and checkpoint, or inside `write_text`; a batch that ran in part | a checkpoint never promises what is not stored; done means loaded; at most a batch is redone |
| churn (`churn.py`) | per worker a stripe of ids, `k`, a checkpoint file | insert, update, relist, delete | the same, and two workers on one document | an id that was counted is not used again; stripes do not meet |
| verifier (`verify.py`) | the iteration's own document, a grace period | `lifecycle_probe`, `_poll`, `sample_probe` | the index lags, replies are slow, churn rewrites the sampled document | an event means that the index is wrong |
| orchestrator (`run.py`, `schema.py`) | the processes of a command, the indexes that exist | `setup`, `load`, `mixed`, `all`, `drop`, `report` | joins that do not ask how a process ended, an interrupt that reaches parts and not their children, commands in any order over kept keys and checkpoints | stored documents are searchable; a run reaches its report |
| statistics (`common.py` StatsWriter, `report.py`), query storm, monitor | per worker an open window and an appended file | `record`, `flush`, `close`, `report` | a worker dies with its window; orphans write while a report reads | a report counts every operation once |

### ride and tide (use case 01, Python): a product catalog

| component | state | operations | what makes it hard | correct if |
|---|---|---|---|---|
| store, commands (`store.py`, `app.py`, `catalog.py`, `embeddings.py`) | whether the server refuses RETURN (NOCONTENT mode) | `create_index`, `upsert`, `delete`, `count`, `knn`, ...; `seed`, `chaos`, `drop` | half of a command done when it is killed; an index that already holds something | (part of the models of its callers) |
| chaos runner (`chaos.py`) | a mirror: `products`, `vectors`; `next_id` | `seed`, `op_*`, `verify` | the mirror is changed in place before the write and again after it; numbers that earlier runs used | the mirror is the database between operations; no check accuses a sound index; every flaw can be found |
| bulk ingest (`scale_ingest.py`) | per writer its range, pipeline, `done`, errors; a queue; the parent's sums | `worker_main`, `main` | a failed batch is dropped, in part or whole; late messages; a killed writer | what is shown is stored; the parent ends |
| query stress (`stress_queries.py`) | the sums of a round | I1 to I6 | counts are read one by one while writers write | a round accuses no working index |
| second index, sweep (`bg_scan_test.py`, `verify_sweep.py`, `verify_dist.py`) | counts of the last poll, a sampled point | the poll loop, the bracket, spot checks; S1 to S5 | a background scan, live writes and holes at once | what is reported is a hole, or a scan under way |

`PROJECT.json` lists every component with its status, and every hazard with its
line and with the properties that would notice it.

## 2. The modules

| module | models | instances |
|---|---|---|
| `ChatOracle` | oracle and all workers that touch it, server, clocks | `MCChatOracle` |
| `ChatOracleProofs` | its theorems | |
| `WorkerPool` | the goroutines of `Runner.Run` | `MCWorkerPool` |
| `WorkerPoolProofs` | its theorems | |
| `QueryMetrics` | `RecordQuery`, the metric loop's windows, `PercentileOf` | `MCQueryMetrics` |
| `QueryMetricsProofs` | its theorem, with induction and sums over finite sets | |
| `BazaarLoad` | `load.py` | through `BazaarRun` |
| `BazaarRun` | `run.py`, `schema.py`, the statistics of `common.py` and `report.py`, around `BazaarLoad` | `MCBazaarRun` |
| `BazaarTally` | abstract: what the statistics of a run promise | implemented by `BazaarRun` |
| `BazaarRunProofs` | theorems about `BazaarLoad` and `BazaarRun` | |
| `BazaarChurn` | `churn.py` | `MCBazaarChurn` |
| `BazaarChurnProofs` | its theorems | |
| `BazaarVerify` | `verify.py` with an index that lags and churn beside it | `MCBazaarVerify` |
| `BazaarVerifyProofs` | its theorems | |
| `ScaleIngest` | `scale_ingest.py` | through `ScaleStress` |
| `ScaleStress` | the counts and lookups of `stress_queries.py` beside the writers of `ScaleIngest` | through `ScaleSweep` |
| `ScaleSweep` | `bg_scan_test.py` and `verify_sweep.py` beside the same writers | `MCScaleSweep` |
| `ScaleProofs` | theorems about `ScaleIngest`, `ScaleStress` and `ScaleSweep` | |
| `ChaosMirror` | `chaos.py`, with the parts of `store.py` and `app.py` it runs on | `MCChaosMirror` |
| `ChaosCatalog` | abstract: what a chaos run promises | implemented by `ChaosMirror` |
| `ChaosMirrorProofs` | theorems about `ChaosMirror`, the refinement among them | |

A definition keeps the name it has in the code where it has one; `map` in
`PROJECT.json` gives the lines each definition stands for. A definition that is
announced as *Mutant* and stands before the one it alters is a plausible bug in
that code; with it in place the property that `PROJECT.json` pairs it with is
violated.

### ChatOracle

State: the client clock `now` (what `time.Now().UnixMilli()` reads) and the
server clock `srv`; `doc[k]` is what server and index hold for message `k`
(`live`, `unlinked` but still searchable, or `none`) with its stored expiry;
`tracked`, `expireAt`, `deletedAt`, `count` are the oracle; `phase`, `owner`,
`ttl`, `after` follow a message from `IngestBatch` to `Oracle.Add`; `editor`,
`deleter`, `slider`, `query`, `pruner` are the program counters and locals of
the workers; `expiredHits`, `deletedHits`, `probeHits` are what the program
would report, by key.

An action is what a worker does between two points where another goroutine,
the server or a clock can act. A slide is `SlideSample` (`LiveSample`),
`SlideRun` (PEXPIRE runs), `SlideStamp` (`time.Now()` after the reply) and
`Refresh`; in between, a query can start, be answered and be checked hit by hit,
a delete can overtake, `Prune` can pass. A call fails before or after the server
ran it (`SlideMiss`, `SlideReplyLost`, `DeleteFail`, `IngestFail`).

Abstractions: `LiveSample` and `ExpiredSample` pick any entry that qualifies,
where the code tries a few random shards; each reads the clock just before it
takes the shard's lock, which is one step here. The insertion of `Add` and the
increment of the counter after it are one step. One shard holds one key: `Prune`
locks them one after another. The token of `Edit` decides none of the checks
modelled and is left out, as is the recall record. Pauses, limiters and the
context are left to `WorkerPool`: an operation may start at any time. `Active`
names the mutators that get a permit within the span of an instance; since
`limiter.go` bounds a rate only from above, any subset is possible.

Timing: `Prompt` bounds how long a slide, a delete and the de-indexing of a
document take; `Drift` how far the clocks are apart. The code has tolerances
instead (`skew_ms` 1000, `grace_ms` 1500 by default), and `Tolerances` is the
condition under which they are enough:

    2*Drift, SlideLag, DeleteLag + DeindexLag <= Skew
    2*Drift, SlideLag, DeindexLag <= Grace,  Grace > 0

All but one is what one expects. `DeleteLag + DeindexLag <= Skew` is not: the
comment at `oracle.go:177` gives a deleted document a *grace* to leave the
index, but `Check` tests the expiry first and with the *skew*, so a document
deleted shortly before its `expireAt` has only that (see section 5).

### WorkerPool

`pc[w]` is where goroutine `w` is: `top` of its loop, asleep in `sleepCtx` while
paused, at its limiter or in `paceQuery` (`pace`), in the operation (`op`).
`adjust` is one step, as the supervisor makes it without yielding:
`workers'` grows by new ids or loses its last ones, which join `cancelled`. The
supervisor's `select` between the ticker and the cancelled context is a free
choice, as in Go. `RunReturn` is the end of `wg.Wait()` with the limiters'
`Close`. The ghost `afterPause` counts operations begun since the last pause.

### QueryMetrics

`RecordQuery` is three steps (bucket, counter, slow counter), `metricLoop` one
load of the counters, one step per bucket of `Snapshot`, and the end of the
window. `PercentileOf` is an operator on counts; its float product is the exact
rational product here, which the two ranks in use (0.50, 0.99) do not tell
apart at the counts that occur. The ghosts `begun` and `windowed` remember the
buckets when a snapshot began and the sum of all windows.

### BazaarLoad

`stored` is the set of documents in the database, `ckpt[i]` the content of a
worker's checkpoint file (`NoCkpt` if missing or without a number: for both
`_read_ckpt` answers its default, the start of the range), `docId[i]` the local `doc_id`. A batch is sent, then executed
or failed after any part of it ran, then the file is opened (which empties it)
and written. `Kill` ends a worker at any of these points; `RunLoad` starts the
next session once all have ended.

### BazaarRun and BazaarTally

`BazaarRun` extends `BazaarLoad` with the process that starts it. `main` is what
the orchestrator does: at its prompt, in a load, in a mixed run, in a report, or
done with it. Each step of the loader carries along what it does to indexes
(`IndexWrite`) and statistics (`Record`, `Close`, `Lost`). `indexed` is what the
six indexes hold: they skip the initial scan, so a document that is written
before its index exists never gets in. A command that starts workers opens a run
directory, a new one or, with `--run-name`, an old one, whose files are appended
to. The workers of a mixed run are children of its four parts. `Interrupt(S)`
terminates the parts; the workers in `S` go on as orphans (`OrphanOf`) and write
to files of the same names, also beside the workers of the next run.

A worker's operations are counted, not told apart: `window[p]` is what process
`p` has not flushed, `file[w]` what its file holds. A report reads one file after
the other (`ReadFile`).

`BazaarTally` says what that amounts to: one count per worker that grows, that
loses something only with a worker which died, and a report that shows no more
than it. The refinement maps `counted[w]` to the file and all windows of `w`,
the orphan's included.

### BazaarChurn

`ver[d]` is the version stored, or `Gone`. Insert, update, relist, delete and
the checkpoint are steps of a worker process; the server runs an insert in a
step of its own, so that it can have run when the worker raises or is killed.
`acked` remembers the ids that a written checkpoint has counted, `inserts[d]`
how often the server inserted `d`.

### BazaarVerify

One verify worker, the document of its lifecycle probe (`own`) and the document
its sample probe picks (`base`). After a write the index may answer old or new
until it has caught up, at most `Lag` later. `age` is the time since the poll
or the pause began, `ansAge` since the server computed the last answer; both
stop counting where it no longer matters. `Churn` writes the sampled document at
any moment. Since `Lag` is less than the grace, whatever the worker reports is
false.

### ScaleIngest and ScaleStress

`stored` is the set of documents in the database, by writer and number. A writer
is in its `loop` with a pipeline to fill, in `execute` with a full one, in the
`flush` of the rest, or has ended. The server runs each HSET of a pipeline in
any order (`RunOne`), also after the writer gave up on it: what a failed
`execute()` has stored is any part of the batch. `queue[w]` holds the messages of
writer `w` that the parent has not received: a `multiprocessing.Queue` is fed by
a buffer in each process, so only one writer's messages keep their order, and a
killed writer takes along those its feeder thread has not written, which are its
last ones. Errors are of one kind, so that only the first is told to the
parent.

`ScaleStress` extends it with one stress process. A round is one step per count:
`total_before`, each category, `total_after` (with I1), `num_docs` (with I2), and
a lookup (I6). A query that fails skips the comparison. `Told` is what the user
knows who enables the lookups. Searches see what is stored at once; for the
counts `stored` can be read as what is searchable, since only its growth
matters. I3, I4 and I5 each test a single reply and are left out.

### ScaleSweep

`ScaleSweep` extends both with the tools that look at a second index. The state
of `idx:scan` is the `backlog` of documents that the background scan has yet to
reach; a write is in both indexes at once. `bg_scan_test.py` is one step per
FT.INFO that matters: a poll with its stall check, the poll that sees the scan
end, the three counts, the spot checks. A poll reads two FT.INFOs; the second is
only printed. `verify_sweep.py` is one step per count: S1 with its canary, each
sampled point in `idx:main` and then in `idx:scan`, the end with its blank alarm.
`said` is what the last step printed, `quiet` counts polls since `idx:scan` last
grew. An execution runs one tool; two of them could only read side by side.

### ChaosMirror and ChaosCatalog

State: the hashes and what the index holds of each document (`entry`), the
mirror's `products` and `vectors`, and the operation in progress. An operation is
the steps of the code: `op_*` chooses and changes the mirror's own dict in place,
`Upsert` is the HSET with the index's reaction, `MirrorUpsert` the assignment
after it; a delete likewise. `verify()` is six checks, each a step that takes any
product, since the code takes a random one. `Behave` and `Misbehave` are the
server: a sound index follows the hash, a flawed one loses an entry, or keeps the
old tags, the old vector, or a deleted document. Between runs there are `seed`,
`drop` and `chaos` with and without `--recreate`; each of them, and a run, can be
killed between any two steps. A product is its category, its price bucket, its
stock and its text, which decides the vector.

`ChaosCatalog` is what a run promises: a catalog in which one product changes at
a time, and alarms only where the index misbehaved or held something before. The
refinement maps the catalog to the hashes of the numbers this run has written.

## 3. The runs

"States" are distinct states. Every bound is a CONSTANT named in the module.

| run | shows | bounds, and why they are enough |
|---|---|---|
| `oracle_probe` | `ExpiryUpperBound`: outside a slide the oracle's expiry bounds the stored one. `NoFalseExpired`, `NoFalseDeleted`, `ProbeSound`: only keys that an edit re-created, or whose slide lost its reply, are ever charged falsely. `DeletedStays`: a slide overtaken by a delete does not revive the entry. | 1 message, each mutator once in flight, 1 query worker; all checks are per key, and a second worker of a kind has its own key or repeats the first. Skew = Grace = 2, Drift 1 meet `Tolerances` with equality; TTL 1 and a clock of 4 are ingest, a slide, expiry, and the skew after it. 1.8 M states |
| `oracle_cap` | `CountWithinCap`: the counter is the number of entries but for what a running `Prune` has not subtracted yet, and concurrent `Add`s exceed the cap by at most one per other ingester. `PruneForgetsOnlyDead`: no entry is dropped whose document a search can still return | 2 ingesters with batches of 2, 4 interchangeable keys, cap 1: both pass the unlocked test together, and one entry more would be seen; the pruner beside them. Slides and deletes beside `Prune` are left to the theorem `PrunedAreDead`. 1.3 M states |
| `pool_lifecycle` | `PoolInv`: the supervisor lists exactly the workers that are to run, every other one alive is cancelled (`PoolIsListed`), and when `Run` closes the limiters nobody is left (`DrainedBeforeClose`). `OneOperationAfterPause`. `ShutsDown`, `FollowsConcurrency`, `PauseIdles` (liveness) | a mutator, a loop, up to 2 query workers at a time and 4 ever, 3 changes in the dashboard: down, up, and a pause in between. 137 k states |
| `metrics_window` | `WindowInv`: torn snapshots lose and repeat no query (`EveryQueryInOneWindow`), the rate's counter never runs ahead of the windows' buckets (`RateBehindWindow`), and the bucket of an estimate leaves out less than one query of the share it is to cover (`EstimateWithinOne`) | 2 workers, 4 queries, 3 buckets with an overflow bucket, several windows. 2.5 M states |
| `load_resume` | of the loader `PromisesKept`: nothing is missing below a checkpoint (`CkptBehindStore`) nor when all workers are done (`DoneIsLoaded`); `ResumeRedoesOneBatch`: at most one batch is stored beyond a checkpoint unless the worker was killed inside `write_text`; `EventuallyLoaded` (liveness). Of the orchestrator `SearchableUnlessDropped`: a stored document is in its index unless an index was dropped; `ReportTrue`: no report counts more than was recorded (`NeverOverstates`), and the one that ends a run all of it, but for workers that died or were cut off (`ReportExact`); `ReportComes` (liveness): `all` and `mixed` end in their report. `TallySpec` is a refinement | 5 documents in batches of 2, one load worker, 2 workers of mixed runs with one operation each, 2 indexes; 1 failing batch, 1 kill or interrupt, 2 commands that start workers besides needed reloads: a run can meet the orphans of the one before. That several load workers divide the documents without gap or overlap is proved (section 4). 646 k states |
| `churn_ids` | `ChurnInv`: two workers never insert one id, nor a loaded one (`OneInserter`). `AckedNeverReused`: an id that a checkpoint counted is not inserted again, unless its worker was killed inside `write_text` | 2 workers, 2 inserts each, a loaded document, 1 failure, 2 stops or kills with a restart. 4.4 M states |
| `verify_probes` | `PollEventsNeedSlowReply`: a poll event needs an answer under way for longer than grace minus lag. `MissingNeedsChurn`: a missing document needs a write of churn after the first search. `ProbesEnd` (liveness) | grace 3, pause 3, lag 2: each grace is reached, missed by one, and passed. 20 k states |
| `ingest_stress` | `NeverOverstates`: what the parent shows as written is stored. `LossIsCounted`: done and the error count account together for every whole batch. `ParentNotStuck`: unless a writer is killed the parent gets all its messages. `CountsNeverAccuse`: no interleaving of writes makes a round report I1 or I2. `MissesAreHoles`: a document missed by I6 (`OnlyHolesMissed`), a missing canary and a blank index of the sweep (`AlarmsAreHoles`) belong to a writer that counts errors. `StallIsReal`: a stall is reported only of an index that has not grown for so many polls. `BgScanFair`: no writes make bg_scan's bracket report (`CountsConverge`), and what its spot checks miss is not in the database (`BackfillNotBlamed`). `AccusedOnlyWhileScanning`: a sweep accuses the second index only while its scan goes on. | 2 writers with 5 documents each: two whole batches and a rest; 1 failing batch, 2 writers crashed or killed; 2 categories, so that a writer can act before, between and after their counts; lookups below 2, so that they meet a hole of the first batch; a stall limit of 2. Without a tool both writers run. Beside a tool one writer runs and the other has ended before, with all it had to write (stress, sweep) or with nothing (bg_scan): these are states the ingest reaches (`MCInit`), chosen to keep the instance small; the theorems of section 4 have all writers beside every tool. 2.1 M states |
| `chaos_mirror` | `MirrorInv`: between operations mirror and hashes agree on every number this run has handed out (`MirrorIsDatabase`). `FlawIsVisible`: whatever a misbehaving index has wrong, some choice of the random picks reports it, unless two products have the same tag field wrong. `CatalogSpec` (refinement): an operation takes effect at once on one product; an alarm needs an index that misbehaved or, for checks of sums, one that held something before (`NoFalseAlarm`, `PointChecksExact`) | 2 numbers and a product of `seed`, 2 categories, one price bucket, seeds of 1 and 2, 2 misbehaviours, which can hide each other: a number is added, changed, deleted and added by the next run beside another one; checks are of one product or of sums, for which a second product can make up. 2.9 M states |
| `oracle_edit_ttl`, `metrics_percentile`, `churn_reuse` | section 5 | |

The types of all variables are checked along with them, as `TypeOK` or as a part
of the module's invariant (`RunTypeOK`, `SweepTypeOK`, `ChurnInv`, `PoolInv`,
`WindowInv`, `MirrorInv`). Deadlock is checked except in `load_resume`,
`churn_ids`, `churn_reuse`, `pool_lifecycle` and `ingest_stress`, where the
program really stops: a load whose commands are used up or an ingest that is done, a churn whose workers
have ended, and a run that has returned take no further step.

### Fairness

- `load_resume` (`RunFairSpec`): each load worker's steps, the joins, the end of
  each worker of a mixed run and the steps of a report are weakly fair. These are
  running processes whose calls return, and a mixed run with a `--duration`.
  `StartLoad` is weakly fair as well: somebody starts the load again after a
  kill ("rerun after any crash"), which is what the checkpoints are for. No
  fairness on failures, kills and interrupts, which are bounded, nor on the
  commands `setup`, `drop`, `mixed` and `report`.
- `verify_probes`: the steps of a probe and the clock are weakly fair
  (redis-py's `socket_timeout` ends every call); the index's catching up is
  strongly fair per document, since churn can overwrite a pending write. It is
  not used to end a poll: that is the clock's work.
- `pool_lifecycle`: every goroutine that can go on does (weak). A `select` that
  has the cancelled context and a ticker ready takes the context sooner or
  later (strong, for the supervisor and the loops): Go chooses uniformly.
  Limiters grant permits and calls end, by their own timeouts.

## 4. What is proved

TLAPS checks the following for every value of the constants that satisfies the
assumptions of the module. There is no assumption besides those and the ones
named.

**ChatOracle** (any number of messages, ingesters and query workers, any TTLs;
one editor, deleter, slider and pruner, as `Run` starts them).

- `TypeCorrect`: `TypeOK`.
- Under `Tolerances`: `ExpiredHitsAreReal`, `DeletedHitsAreReal`,
  `ProbesAreReal`, `ExpiryBounded` for `NoFalseExpired`, `NoFalseDeleted`,
  `ProbeSound`, `ExpiryUpperBound`.
- With a retention of at least the skew and the grace (`oracle.New`
  sets 30 s; nothing keeps a configured grace below it): `PrunedAreDead` for `PruneForgetsOnlyDead`.
- Without any timing assumption: `DeletedEntriesStay` for `DeletedStays`, and, for
  finitely many ingesters, `CounterIsCapped` for `CountWithinCap`. Its invariant
  `CountInv` counts the messages that have passed the cap test together with the
  entries; no ingester has two of them.

None of the invariants is inductive. `IInv` in `ChatOracleProofs` adds what
ties the three places together that a time passes through. `IngestInv` and
`SlideInv` bound the stored expiry by the clock that will be read, or was read,
after the reply. `BoundInv` is the heart: `expireAt` bounds the stored expiry,
*or* a slide is between PEXPIRE and `Refresh`, *or* a delete overtook the slide
and `expireAt` is at least later than the sample that led to it; this third case
is where `DeleteLag + DeindexLag <= Skew` is needed. `AnswerInv` says that a key
that was returned stays unobjectionable until `Check` gets to it, whatever
happens to its entry meanwhile; without it nothing would tie the old `t0` to the
entry read later. `ProbeInv` says that the document behind a probe is dead for
good. There is one lemma per action, and frame lemmas for the parts it leaves
alone.

**BazaarLoad** (any number of documents and workers, any batch size, any number
of failures and kills).

- `LoadTypeCorrect`, `CheckpointsAreHonest` (`CkptBehindStore`), `LoadedWhenDone`
  (`DoneIsLoaded`), `OneBatchRedone` (`ResumeRedoesOneBatch`).

The inductive invariant `LInv` has three parts per worker: `Below` (everything
below `docId`, and below the checkpoint, is stored), `Place` (`docId` is within
the range, or one past it), `Above` (what is stored beyond the checkpoint is at
most the batch under way). That all documents are stored when all workers are
done needs a fact about integer division, `RangesCover`: the ranges
`i*n \div w .. (i+1)*n \div w - 1` leave no document out. `RangesDisjoint` says that
one worker's batch is not another's.

- `PromisesAreKept` (`PromisesKept`) puts checkpoints and the end together.
- `SessionsEnd` and `RerunsGoOn` are what `EventuallyLoaded` rests on besides
  fairness. A worker has `StepsToDo`, five for each document ahead of it and a
  few; its every step makes them fewer unless a batch fails, and only a failure
  or a new session gives it more. And the id at which it would begin again
  (`Reached`) never moves back, unless it is killed inside `write_text`.

These are in `BazaarRunProofs`, beside those of the orchestrator that runs the loader.

**BazaarRun** (any number of load workers, parts, indexes, commands, kills and
interrupts).

- `RunImplementsLoader` is a refinement: whatever the orchestrator does, each step
  is one of `BazaarLoad` or leaves it alone. `RunKeepsPromises` takes over
  `PromisesKept` and `ResumeRedoesOneBatch`.
- `ReportNeverOverstates`, `ReportIsExact` and, from both, `ReportsAreTrue`
  (`ReportTrue`). `StatInv` says that what a file, the open windows and those of
  an orphan hold together is at most what the worker did; `ExactInv` that it is
  all of it unless the worker was hurt, for which it must be known who can still
  have a window: load workers in a load only, parts in a mixed run only, and
  orphans only of hurt parts.
- `RunImplementsTally` is the second refinement (`TallySpec`): files and windows
  behave as the one count per worker of `BazaarTally`.
- `LoadedIsSearchable` for `SearchableUnlessDropped`, by `IndexInv`: all indexes
  exist while a load runs.
- `RunTypeCorrect` (`RunTypeOK`).

**BazaarChurn** (any number of workers, ids, failures and restarts).

- `ChurnHolds` (`ChurnInv`) rests on `StripesDisjoint`: `OwnId(w, n)` is an id of
  no other worker, nor a loaded one. `CountedIdsStay` is the action property
  `AckedNeverReused`; its invariant `Counted` follows a counted id through the
  worker's `k`, the file, and the restart that reads it, with the exception of a
  file that a kill has left empty.

**BazaarVerify** (any grace, any pause, any lag below both).

- `VerifyTypeCorrect`, `PollsReportSlowReplies` (`PollEventsNeedSlowReply`) and
  `MissesNeedChurn` (`MissingNeedsChurn`). The invariant `VInv` ties the clocks
  together: a lag that is still open began with the poll (`OwnLag`), so a bad
  answer was given while the index could still lag (`BadAnswer`); and unless churn
  wrote it, a document that was missed once is stored and the pause is longer
  than what was left of its lag (`Missed`).

**WorkerPool** (any number of goroutines of each kind).

- `PoolHolds` (`PoolInv`) and `PauseIsPrompt` (`OneOperationAfterPause`). The
  invariant adds that the supervisor returns after its workers (`SupervisorLast`)
  and that a worker that waits for a permit has begun nothing since the pause
  (`Permits`).
- `NobodyWaitsForEverybody` and `WorkersWindDown` are what `ShutsDown` rests on
  besides fairness. Once the context is cancelled, somebody has a step until `Run`
  has returned: spelled out by places and guards (`SomebodyGoesOn`), since
  `ENABLED` cannot be used; it needs `MaxWorkers <= MaxIds`, so that the bound on
  ids does not keep the supervisor from its first workers. And each step of a
  worker takes it nearer to its end (`StepsLeft`), whatever is paused or resized
  meanwhile.

**QueryMetrics** (any finite number of query goroutines, any bounds, any ranks
that are shares).

- `WindowsLoseNothing` (`WindowInv`). The invariant `MInv` needs three facts that
  `WindowInv` does not say. `CounterBehind`: the buckets are ahead of the counter
  by exactly the goroutines between the two additions of `RecordQuery`.
  `Snapshot`: a bucket that was loaded lies between what it was when the snapshot
  began and what it is now, and the counter loaded before is at most the total at
  the beginning. `LastWindow`: what the last window ended with is no more than
  the buckets have, so that no delta is negative.
- `Total` and `Cumulated` are folds over a set of buckets, and `PercentileOf` a
  minimum. The library's induction theorems cannot be used here (they take an
  operator); `NumberInduction` and `SubsetInduction` say the same of a *set*, from
  the theorems about well-founded relations that need no operator (`WFMin`). With
  them `SumsExist` shows that the fold of the community modules is the function
  its recursive equation describes, and `SumIsMonotone` and `SumOfOneMore` follow.
  `EstimateOf` is the claim about the percentile, for any counts.

**ScaleIngest and ScaleStress** (any number of writers, documents and categories,
any batch size, any number of failures and crashes).

- `BracketHolds` for `CountsNeverAccuse`. The invariant `SInv` splits the stored
  documents at the category that is counted next: the sum so far is at most what
  is stored below it, and the first total is at most the sum plus what is stored
  from it on (`Bracket`). Of the writers it needs only that each of their steps
  adds documents (`WritersAdd`); a delete would break it, and I1 and I2 with it.
- `ShownIsStored` (`NeverOverstates`), `LossesAreCounted` (`LossIsCounted`) and
  `ParentEnds` (`ParentNotStuck`), from `IngestInv`. Per writer it says how far the
  range is dealt with: `Top` is the start plus `done` plus a batch for every
  error, and at least `done` numbers below it are stored; at the flush what is
  left is the remainder of the division (`RestIsLeft`), which takes an argument
  about multiples of the batch size. Of the messages it says that none is ahead of
  `done` and that an end is the last one. `finished` is the number of writers
  whose end is neither to come nor under way.

**ScaleSweep** (the same writers, beside any tool, any stall limit, slack and
number of points).

- `SweepTypeCorrect` (`SweepTypeOK`): `ToolTypes` beside the invariants below; the stall
  count starts again before it passes its limit.
- `SweepImplementsStress`: the tools only read, so the ingest and the stress behave
  as specified; `StressBesideSweeps` and `IngestBesideSweeps` follow.
- `StallsAreReal` (`StallIsReal`), `BracketBesideWrites` (`CountsConverge`) and
  `SpotsBlameNoScan` (`BackfillNotBlamed`), together `BgScanIsFair` (`BgScanFair`),
  and `SweepAccusesRunningScans` (`AccusedOnlyWhileScanning`), from `ScanInv`: what
  a tool remembers of an earlier count still bounds the present one.
- `MissesHaveCauses` (`MissesAreHoles`), from `HoleInv`: once the parent has shown
  enough, `done` stays enough, and a number below `done` that is not stored
  belongs to a writer with an error.

**ChaosMirror** (any number of products, categories, seeds, runs and kills).

- `MirrorHolds` (`MirrorInv`), `ChecksAreHonest` (`NoFalseAlarm` and
  `PointChecksExact`), and the refinement `ChaosImplementsCatalog` (`CatalogSpec`).
  The invariant `CInv` says where mirror and hash may differ in the middle of an
  operation (`Midway`), that a sound index follows the hashes this run has written
  (`Follows`), and that it holds nothing else if the run began on an empty one
  (`Alone`); the checks of sums need the last, those of one product do not.
- `FlawsCanBeFound` (`FlawIsVisible`), from `CInv`, by what is wrong about the
  product: a missing entry shows in its lookup, a ghost in the check of deleted
  numbers, a stale text in a distance. A stale tag is the hard case (`LoneTagShows`):
  a stranger can make up for it in the count of the tag. But if every product is
  found and the total is right as well, the index holds the run's products and
  nothing else, and the count is one short.

Only model-checked is liveness (`EventuallyLoaded`, `ReportComes`, `ShutsDown`,
`FollowsConcurrency`, `PauseIdles`, `ProbesEnd`): the provers have no means against
`ENABLED` and fairness. For two of them the theorems above state the part that
needs neither. Every safety property that a passing run checks is stated
by a theorem.

## 5. What the code does not keep

Three runs end in a violation; each checks what a comment or document says.

- `oracle_edit_ttl`. `EditBody` "rewrites a message body (... keeping its TTL)".
  It is a plain HSET: if the key expired or was unlinked since `LiveSample`,
  it makes a new hash with a body and no TTL. The oracle keeps the old
  `expireAt`, and every later hit of the document is counted against the server.
  This is the exception `revived` in the properties of `ChatOracle`.
- `metrics_percentile`. `PercentileOf` "returns an upper-bound estimate", but the
  rank `int64(p * total)` is rounded down. In a window with one query the rank is 0, the
  first bucket satisfies it, and both percentiles are shown as 0.25 ms.
- `churn_reuse`. A restarted run "never reuses an id"; it does if the
  worker ended between the insert and its checkpoint.

Other departures are stated as the exception or the side condition of a
property that holds: a slide whose reply is lost leaves the oracle behind the
server (`unacked`); a document deleted just before its expiry gets the skew and
not the grace (`Tolerances`); a worker killed inside `write_text` starts its
range or its stripe again (`torn`); a slow reply makes a `stale_hit` of an
answer given within the grace (`PollEventsNeedSlowReply`); churn that removes a
document, relists it and removes it again at the right moments makes
`missing_from_search` out of a working index (`MissingNeedsChurn`); the last,
partial batch of an ingest adds nothing to done, because `execute()` empties the
pipeline before its length is taken, and its failure is neither counted nor
echoed, though `scale_ingest.py:8` says so of every server error
(`LossIsCounted` speaks of whole batches); I6 reports documents that a failed batch left
out, which `verify_sweep.py:85` expects and skips (`MissesAreHoles`); its blank alarm
and its canary fire for such holes as well; a worker at its
limiter begins one more operation after a pause (`OneOperationAfterPause`),
though `control.go:69` says that all idle; `drop` keeps the checkpoints, so that the
next load writes nothing into the indexes `setup` creates anew
(`SearchableUnlessDropped`); a `chaos` without `--recreate` on an index that `seed`
or an earlier run has filled raises alarms about sums (`NoFalseAlarm`); with
NOCONTENT no check looks at a stale vector, and two products of which the index
has swapped the tags make up for each other in every count (both are exceptions of
`FlawIsVisible`; the second shows only with two misbehaviours); live writes make
`idx:scan` grow and so hide a scan that stands still from the stall check, which
`StallIsReal` does not forbid; a sweep counts a violation for a document that
the scan under way has not reached (`AccusedOnlyWhileScanning`).

## 6. What is not modelled

- The index itself, memory and disk formats: the server is the environment.
- Query text, documents, embeddings, random choices of data: pure construction.
- The footprint series and its linear fit, the ring of recent queries, the
  dashboard's pages: they feed the display and nothing else.
- The query generator, the query pool and its two rebuilders (`regenPool` of
  `workload.go` and of the dashboard): which text is in the pool decides no check;
  that the pool matches the settings is a hazard without a property.
- The monitor, the queries and the events of bazaar: they sample or write, and
  compare nothing. An interrupt of `load`, and the single-part commands, which are
  one part of `mixed`.
- A load with another number of workers or documents than the checkpoints were
  written for; two `verify` runs at once, whose probe ids are the same; other
  writers beside `chaos.py` or the query stress. Each is listed as a hazard.
- S2's comparison of fields, S3 to S5 of the sweep, `verify_dist.py` and I3 to I5 of
  the stress: each tests one reply against a document that is a pure function
  of its number.
- The recall probe, the token of `Edit`, `TopChannels`, the token bucket's arithmetic.

## 7. Plan

Done, in this order: the oracle, as the largest piece of reasoning in the
repository and the one whose errors look like somebody else's; the loader and
churn (the crash-recovery code), the verifier, the goroutines, the metrics, the
bulk ingest with its query stress; then the chaos runner with its catalog, the
orchestrator with the statistics around the loader and their tally, the second
index and the sweep beside the ingest; and the proofs of all of these.

Left:

1. `QueryControl` (`control.go`, `server.go`, `querygen.go`): settings, pool, and the
   two rebuilders of which the second wins.
2. The loader with a changed worker count between sessions: a checkpoint read
   against other bounds.
3. Probe ids over several runs of the verifier.
