# Formal models of deja

deja records every boundary call of a running service, replays the recording
byte-exactly against a candidate build, and turns what differs into a verdict
on the candidate. This directory holds TLA+ models of the parts of deja whose
correctness depends on orderings, failures and shared state, the TLC
configurations that check them, and TLAPS proofs about them. `PROJECT.json`
lists the runs, the mutants, the map from definitions to source lines, the
hazards and the findings; this file explains them.

Paths below are relative to `src/`. "The map" is the `map` of `PROJECT.json`.

- [1. The system](#1-the-system)
- [2. The modules](#2-the-modules)
- [3. The runs](#3-the-runs)
- [4. What the code does against its own word](#4-what-the-code-does-against-its-own-word)
- [5. The proofs](#5-the-proofs)
- [6. What is not modelled](#6-what-is-not-modelled)
- [7. Plan](#7-plan)

## 1. The system

    service under test                 S3                    orchestrator
    ------------------            -------------     ------------------------------
    macros (deja-derive)          landing objects    API: runs, recordings, deltas
    hook (deja-runtime) --writer-->   |              |           |           |
    context (deja-context)        compactor          scheduler  reconciler  ingest
                                  sealed sessions    |           |           ^
                                      |              v           v           |
                                      +---------> Job: runner, candidate ----+
                                                  (replay lookup, kernel)

| component | state | operations | what is hard | correct means |
|---|---|---|---|---|
| record writer, `deja-runtime/src/writer.rs` | bounded channel, `active` flag, batch, error streak, drop ledger, health counters | `record`, `flush`, `request_flush`, drop; worker loop | many callers against one worker, a full queue, a sink that fails or dies, a timer, a shutdown with a deadline | nothing is lost unnoticed, counters balance, per-caller order, no duplicates, nobody hangs |
| recording hook, `deja-runtime/src/lib.rs` | two global sequence counters, per-request counters, fork lineage | draw a number, build an event, hand it to the writer | concurrent tasks of one request | dense numbers per space, one event per call |
| correlation context and layer, `deja-context`, `correlation_layer.rs` | task- and thread-local correlation, span instances | enter, inherit, sample, close | spawned tasks, spans created after an await | all calls of a request carry its correlation |
| replay lookup, `deja-runtime/src/replay.rs`, `identity.rs`, `lookup/mod.rs` | lookup table by ranked loci, three occurrence sequences, claims | render the table, resolve a call | concurrent branches, weaker addresses as fall-backs, counters that recorder and replayer must advance alike | an event is served once, an unchanged candidate is answered, one change disturbs one call |
| compactor, `deja-compactor` | landing objects, seal objects, manifests in S3 | plan, readiness, list, collate, put, publish | late objects, stops between objects of one seal, two sealers at once | a manifest implies a whole seal, its coverage is exact, what landed is sealed |
| delivery certification, `deja-orchestrator/src/s3/mod.rs` | markers folded per instance | fold markers, find gaps | missing eof, ranges and counts that disagree | a session certified whole has no unexplained gap |
| run queue, `executor/{scheduler,reconcile,launch,k8s}.rs`, `api/runs.rs` | run rows, Jobs, launcher and watcher threads, passes over stale lists | create, launch, resume, watch, expire, reconcile, kill, restart | five parties settle one row; each acts on what it read earlier; restarts | capacity respected, first verdict wins, no invented success, every run settles |
| run ingest and re-point, `main.rs`, `lifecycle/store_ctx.rs`, `deja-store` | file record and store rows of each run, the `repoints` mutex | stage, recording and finish events; kill; re-point | retries, late and cancelled requests, two copies updated apart | both copies end equal, a verdict is final, a re-point is not erased |
| delta comparison, `divergence/delta.rs`, `behaviour_tree.rs` | none | three-way comparison of two runs of one tape | an absent address means three different things | nothing inherited is charged, nothing new is missed |
| delta verdicts and baselines, `main.rs` | verdict on the row, cached delta, restatement flags | settle, view, restate, re-point | verdicts computed from a baseline that has moved, lost wake-ups, last writer wins | the word on the row is that of the pair the row names |
| acknowledgements, `main.rs`, `divergence/acknowledgement.rs` | acknowledgements of a pull request | propose, confirm, withdraw, overlay on a delta | several versions of one change, two reviewers at once | nobody confirms his own proposal; a delta counts what was confirmed |
| boundary policies, `main.rs`, `policy.rs` | versions, one active | propose, activate | see section 6 | one active version |
| CD promotions, `cd.rs`, `main.rs` | promotions, control switch | admit, observe, hold | see section 6 | one promotion in flight |
| run lifecycle, `lifecycle/` | one run's processes and files | fetch, build, seed, replay, score | partial failure | stages in order, cleanup on every exit |
| replay driver, `deja-kernel` | recorded ingress calls | drive, wait, compare | see section 6 | every ingress driven once |
| divergence scoring, `divergence/mod.rs` | the pairs of one scoring: consumed events, order changes | pair served calls, pair the rest in queues, settle swaps, count | observations of concurrent branches in any order, served events another call wants, swapped twins, requests that moved between branches | an event is paired once, an unchanged candidate is clean, one change counts once, no loss goes uncounted |
| sessions and authentication, execution forest, event schema, macros, database instrumentation, facade, terminal UI, dashboard, config layers, code bundles | none of their own | see section 6 | | |

**How they interact.** Request threads call the hook, which draws a number from
a shared counter and hands the record to the writer over a bounded channel; the
sink carries records and markers to S3's landing area. The compactor turns
landing objects into sealed sessions. `POST /runs` inserts a row and starts a
thread that creates a suspended Job; the scheduler resumes it; the runner in
the Job pulls the session, renders the lookup table the candidate is answered
from, and pushes events over HTTP to the ingest; watcher, reconciler, scheduler
and an operator's kill settle the row when the runner does not. A run that
finishes is compared with its baseline; reviewers acknowledge what it is charged
with.

**Hazards.** `PROJECT.json` lists the hazards of this code with the properties
that would catch them. Those without a property say why none covers them.

## 2. The modules

| module | models |
|---|---|
| `RecordWriter` | `deja-runtime/src/writer.rs` and the sequence counters of the hook |
| `RecordLog` | the abstract specification the writer implements |
| `RunQueue` | scheduler, reconciler, launcher, watcher, kill, and the guarded row update |
| `RunIngest` | push-back, ingest handler, the two copies of a run, re-point |
| `DeltaRules` | the comparison of two runs of one tape, and the overlay of acknowledgements, as operators |
| `DeltaVerdict` (extends `DeltaRules`) | who computes a run's delta, when, and what lands on its row; decisions, re-points, restarts |
| `Collate` | what a set of landing objects becomes: runs, merge window, coverage |
| `SessionSeal` (extends `Collate`) | landing, sealers without a lock, the seal in the object store, the lifecycle rule |
| `ReplayLookup` | recording, the rendered table, and the candidate's calls against it |
| `CallPairing` (extends `ReplayLookup`) | the scorer: which recorded event each call is paired with, and what is charged, omitted or added |
| `...Proofs` | TLAPS proofs about the module of that name (eight of them; those about `DeltaRules` go through `MCDeltaRules`, its behaviour) |
| `MC...` | instances for TLC: symmetry sets, small trees, recordings and scripts |

Operators described as *variant* in a comment are not part of a specification:
each is a plausible bug in the operator that follows it, and `PROJECT.json`
names the property that catches it.

### RecordWriter

A step is one atomic operation on shared state: a channel operation, a load or
store of `active`, one lock of the drop ledger, one call of the sink. The
health counters are coarser: the adds and subtracts a thread makes next to such
an operation belong to its step (`FindFull` is the refused `try_send` with the
record taken back from `queued` and counted as dropped, `RecordGate` the load of
`active` with `attempted` and `queued`). So `StatsBalance` says nothing of a
snapshot read between two adds of one thread, which the code does not promise
to balance; no other property reads a counter.

| code | model |
|---|---|
| `SyncSender` / `Receiver` | `queue`, `receiver` (FALSE once the worker thread has returned) |
| a caller inside `record()` | `pc[c]`: `holding` (number drawn), `sending` (past the gate), `blocked` (blocking `send`), `dropping` (drop counted, ledger not yet locked) |
| a caller inside `flush()` | `flushing`, `awaiting`; a reply address whose receiver timed out becomes `Nobody` |
| `Drop` | `owner`; it starts only when no client is inside a call, since it needs the last reference |
| `writer_loop` | `wpc` and `job`: one action per receive, timeout, `write_batch`, `flush_sink`, drained message; `AfterWrite` and `AfterFlush` say where each kind of job goes next |
| `WorkerCtx` | `batch`, `errors`, `sinceFlush`, `wrote` (outcome of the job's write) |
| `DropLedger` | `ledger`; `claimed` is what `dropped` markers put on the wire |
| `WriterStats` | `stats`; the counters that no reader of the health snapshot relates to another one are left out |
| the sink | `sink` (what it took), `durable` (what a flush covered), `eof` |

`next` is the pair of counters in `lib.rs` (events, graph nodes): drawing a
number and handing over the record are separate steps, so two callers may
enqueue out of order, as in the code. `dropped` is a history variable, the
records `stats.dropped` counts, and so are `failed`, the batches the sink
refused, and `forgone`, the ranges a refused `dropped` marker took along; no
action reads them. Two threads of one writer
count as one client each; a thread spawn that fails leaves an inactive writer
(`Init`).

### RecordLog

A log to which each submitter's records are appended at most once and in
order, and from whose backlog records may be lost. Its backlog is a set with a
relation, `before`, that says which of two records of one submitter came first,
and a delivery is a batch that respects it. `RecordWriter!Tape` maps `log` to the
sink, `pending` to what is batched, queued or in a caller's hand and not dropped
(`InFlight`), and `before` to that way's order (`Ahead`: the batch before the
channel, the channel before the hand).

### RunQueue

Every action is one call of the store or of the Kubernetes API. `sched` and
`recon` hold what a pass has read and what it still has to apply, so a pass
acts on a list that may be stale. `Settle` is `update_run_state` with its
guard; everybody who settles uses it. `age` abstracts `now() - created_at` to
the two thresholds the code compares it with: 1 is past the orphan grace, 2
past the queue deadline. `SlowLaunch` says whether a launch may outlast the
orphan grace. `trouble` is what pods show and the Job does not (restarted
sidecar, init container that waits); pods and the Job controller are external
and modelled from what the code assumes of them.

Assumed of the deployment: one orchestrator process; the Job template sets
`activeDeadlineSeconds`; nobody else removes Jobs.

### RunIngest

One run. The runner's `StoreCtx::emit` sends its events one after the other,
each up to `Attempts` times; a request that timed out may leave its handler
running (`late`) or have it dropped at the step it had reached (`cancel`, with
the mutex it held). The handler reads the file record under the mutex, drops
what the V4 guard drops, writes the file, releases the mutex and then runs the
statements of `apply_run_event` one by one; a statement whose answer is lost has
taken effect and fails all the same. `Outside` is what a kill and the
reconciler do to the store's copy: the kill's thread is not its request's, so a
caller that hangs up does not stop it. `RepointReads/Writes/Stores` is the
re-point of a finished run's baseline, whose mutex is held throughout, and which
stops wherever the code can stop it: `RepointCut` (a caller that hangs up before
the record is written or between record and row, or a record that cannot be
written), `RepointRefused` (the row will not take the change, or its answer is
lost, and the record is put back), `RepointStuck` (and it cannot be put back),
and `Restarts`. `torn` is the history of those that left one copy on the old
baseline and one on the new. `seen`
is a history of the faults and outsiders that occurred, and `PushedThrough` says
by it in which executions a property about the pushes is owed: one run covers
the exact and the faulty executions, and each property names those it is about.

The recording's name and the file's other fields are left out: no property
tells their values apart.

### DeltaRules and DeltaVerdict

| code | model |
|---|---|
| `BehaviourTree` | `[rules, drove, entries]`: the canon, policy and schema it was built under (one value, since `three_way` refuses a pair that differs in any), the requests driven, and what was done at each address |
| `side_of`, `classify`, `Bucket::family`, `charges_y` | `SideOf`, `Classify`, `Family`, `ChargesY` |
| `three_way` | `Refuses`, `ThreeWay`; lanes, counts and wording are left out |
| `acknowledgement::apply` | `Speaks`, `Outranks`, `StateOf`, `RowState`, `Effective` |
| `settle_deltas_for`, `v1_delta`, `v1_propose_acknowledgements`, `restate_once` | the kinds of `task`; each is a sequence of reads and writes of what they share |
| `delta_for_run` | `Read` (cache or trees, and the cache written), `Overlay` (acknowledgements read), `Record` |
| `set_delta_verdict ... WHERE params.delta_against = $m` | `Lands` |
| `Restates::{begin, finish}` | `restates`, `Begin`, `Finish` |
| `acknowledgement_confirm` and `confirm_refusal` | `Confirm`: `Open`, `SecondPerson` |
| the tape's name and its report in `delta_between` | `TapeName`, `Report`: two names that differ are a mismatch (`NamedApart`), one name is not yet one tape |
| `runs_measured_against`, `runs_for_pull_request`, `run_params_for` that fail | `PassesOver`: the settlement or the restatement goes on without what it could not read |
| a tree, acknowledgements or a word that cannot be read or written | `ReadFails`, and the fault in `Overlay` and `Record` |
| a client that hangs up | `ClientGone` (view, proposal), `Cancel` (decision), `FinishCut` (finish), `RepointFails` (re-point) |
| `v1_repoint_baseline` | `RepointRecord`, `RepointRow` and the settlement it spawns; `RepointFails` where it stops between, the record put back or not |

A killed run is one whose row says failed beside a record that still says it
runs: it publishes nothing and cannot be re-pointed. `RecordOnly` is the
converse, a record with a verdict beside a row that has none or was killed. A run's report and its
ledger are published together, by its completion; computing a delta and caching
it is one step, since nobody observes the time between. `Tasks` is a bound on
the tasks at a time: the code has none. `outrun` and `dropped` are histories:
the rows last written with an answer already old or, when something was lost,
still to be written at that moment (`Missed`), and a decision whose restatement was never
asked for. A statement that fails in its answer only is folded into `Cancel` for a
decision. Left out: sign-in and typed names as sources
of a person, the `RESTATE_RUNS` limit on restated runs, revisions and hashes
older trees carry, rebuilding a tree in another comparison mode, and a failing
read of the two records in `delta_between`, for which the code skips the
comparison of names and goes by the reports.

### Collate and SessionSeal

| code | model |
|---|---|
| landing objects `landing/v1/...` | `recording.objects`, `landed`, `swept` |
| `locate_landing` | `Landing` |
| `collate_runs`, `merge_runs` | `Runs`, `Merged` (one `Taken` after the other from what `InWindow` holds) with `Live` and `Admitted`; `Events` sorts (`Sorted`) when the window was beaten |
| `MERGE_WINDOW` | the constant `Window`: `merge_runs` takes any, and 0 as 1 (`WindowAssumption`) |
| the coverage scan | `Scan` (one `Scanned` per event), `Gap`, `Accounted`, `Coverage` |
| `plan_in`, `seal_system_in` | `BeginPass`, `Plan` |
| `readiness_of`, `seal_decision` | `ReadManifest`, `ReadLanding`, `Current` |
| `compact_session_inner` | `List`, `Get`, and `TooLarge` for the budget the cron gives it |
| `write_seal` | `PutPart` once per part and for the index, then `Publish`; `Key` is `seal_id`, a hash of the events, which is taken to be injective |
| the `seal` and `compact` commands | `BeginByHand` |

A call of the store that fails and a sealer that is killed are one action,
`Stop`: what was put stays. The end markers are read and change only what is
*said* of a seal; the prefix two sessions share is left out. The byte budget
counts lines here (`Weight`, `Budget`); the `compact` and `seal` commands have
none. `seal_session`, a library entry nothing in the repository calls, collates
lines it is handed and publishes through the same `write_seal`: it has no action
of its own. `published` and `manifest.of` are histories. What every set of a
recording's objects collates to is computed once, in `Init`
(`Recording`): it is a function of constants. A sort is stated by places: the
element with n before it is at place n + 1 (`ByRank`). `SealAssumption` says what
recordings are made of: sequences of objects with finitely many records each.

### ReplayLookup

| code | model |
|---|---|
| `loci_for` | `Loci`: declared tag, span instance, span path, source, unlocated |
| `KeyStamper::stamp`, `ArgFreeStamper::stamp` | `Occurrence`, `ArgFreeOccurrence`: the counter of a scope is the number of earlier calls in it, as every call advances it whatever became of it |
| `render_lookup_table`, `arg_free_index` | `Rows` over `tape`, for "exact", "identity" and "any" arguments |
| `LookupTableHook::resolve` | `ExactRow`, `ByAddress`, `AddressRow`, `Answer`; `claimed` |
| `current_span_instance` | `place`: which twin's place in the order of creation a branch took |

Recorder and candidate are sequences of calls per branch, interleaved freely.
Keys of two correlations or two lineage buckets never meet, so there is one of
each. Hashes are taken to be injective. The identity of an argument is
in a table of its own (`"set"` in `ByIdentity`), so that it is nobody's argument
as it stands. `LookupAssumption` says what a call is made of (`CallType`) and that
programs are sequences of them. A tag used at several sites of
concurrent branches goes by arrival; the properties about whose row a call got
exempt tagged calls.

### CallPairing

The run of `ReplayLookup` goes on as it is (`Replaying`); when it is over, the
scorer reads it in passes. `pass` says which one, `at` the element it is at.

| code | model |
|---|---|
| the order of the observed tape | `observed`, one of `Streams`: an observation is written after its lookup, so another branch's may come between, but not a later one of its own branch |
| the events resolved calls claimed | `Owned` |
| calls answered by address, with the event they were served | `PairServed`, `ServedFree` |
| `ArgsFreePairing::take_twin`, `pairing_shape` | `PairTwin`, `Queue`, `Shape`, `OutOfOrder` |
| `consumed`, `paired_consumed` | `IsTaken` |
| the other half of an order change | `jumped` (indices into `twins`), `Explaining`, `Displace` |
| what is counted | `Changed`, `ServedUnpaired` (charged), `Omitted`, `Novel` (shown, not charged) |

Abstracted, here and so in what the properties claim: resolved calls returned
what was recorded, no declared clause and no approved noise excuses a request,
no subtree of the graph is absorbed, every event of the recording is on the
tape with its arguments (the queue of events of unknown shape is empty), every
call has a correlation, every boundary is one whose omission blocks, and no seed
gap cuts a correlation off: what the scorer would tolerate or call inconclusive
(`omission_is_blocking`) does not occur, so `Omitted` and `LossesAreCounted` speak
of blocking boundaries only.

The properties name what they need. With instances on the tape but twins that
took each other's place (`Unraced` fails), an unchanged candidate may be charged,
since a call whose row its twin took is answered by its address: `UnchangedIsClean`
exempts it. That no more is omitted than was lost needs `OneName`, that no call
got another event's value (`NoneByAddress`: such a call takes an event of
whatever shape), and `SameShape`: two arguments of one identity have one shape,
which byte strings that hold one document at two lengths have not. That a swap
is one change needs `OnlySwaps`: no queue with more than two events to pair and
none with set-like arguments; section 4 says what happens beyond.

## 3. The runs

Deadlock is checked in every run. The modules end in an explicit stuttering
action (`Finished`, `Quiet`, `Done`, `Rest`, `Stop`, `Scored`) guarded by "nothing is left
to do", so that a state in which somebody waits for ever is reported; in
`SessionSeal` a sealer may always be started.

### Record writer

| run | question | bounds, and why they are enough |
|---|---|---|
| `WriterFailOpen` | Under FailOpen with every fault of the sink: do the counters balance, does a live writer lose nothing in silence, does `flush` mean what it says, does the writer refine `RecordLog`? | 2 clients, 1 stream, 3 numbers, queue 1, batch 2, a streak of 2: the queue fills while the worker writes, batches mix both clients, one caller has two records on their way, write and flush of one job may together cross the streak |
| `WriterLedger` | Does every loss have a range, does a range name only what was lost, and is a shutdown whose last flush went through complete? | 2 clients on 2 streams of 2 numbers each, queue 1, batch 2, a streak of 2, failing writes, flushes and markers: two clients' records in one batch out of order and from both number spaces, drops before, during and after flushes, a coalesced range, a marker that is refused and a later one that goes through. Where the code's own imprecision bites (a failed batch of several sources, two streams with one number), the property says what is left of the promise instead of leaving the case out |
| `WriterLiveness` | Does every batch get written, every `record()` return, every drop end? | Block, 2 clients, 2 numbers, a sink that may die |

### Run queue

| run | question | bounds |
|---|---|---|
| `QueueSafety` | Is a success ever invented, a verdict ever flipped, a run failed before it is over? | 1 run up to the queue deadline, any 2 of all faults, a kill |
| `QueueSettles` | Do more Jobs run than the capacity admits, and does every run come to a verdict? | 2 runs, 1 slot, slow launches, any 1 failed API or store call or restart; 2 runs are what overruns 1 slot. The queue deadline is out of reach, so that the second run settles only if the slot comes back |

### Run ingest

| run | question | bounds |
|---|---|---|
| `Ingest` | If connections are at worst lost and retried, do store and file end equal, each stage once and closed? And with late, cancelled and failing requests, failing files, restarts, a kill and the reconciler: is the file's verdict final and does no event erase a re-point, or part what none left apart? | 2 handlers, 2 stages, 3 attempts, any 3 faults, both outsiders, 2 re-points: with fewer than 3 losses no event is given up, with 3 one may be; 2 handlers are a request and one that ran on behind its time-out; 2 re-points are one cut short and one that mends it |

### Deltas and acknowledgements

| run | question | bounds |
|---|---|---|
| `DeltaRules` | Whatever two runs did: is anything inherited or reproduced charged, anything new missed, and do the two directions mirror each other? | every pair of trees over one address with every value an entry can have, and an address of another request with few; 2 requests, 2 hashes, 2 versions of the rules. An address is classified by itself, so one with all values and one to count beside it are enough |
| `DeltaSafety` | Is the word on the row that of the row's own pair, was each acknowledgement decided, is no decision, finish or re-point forgotten, and does a loss leave no row untrue but those it touches? | 3 runs, of which `cand` is measured: against `base` it is charged, against `alike` it passes, and a side that failed refuses, so a word of a wrong pair shows. 2 tasks, an acknowledgement confirmed on an earlier version, a new one, 2 decisions (a second one while the first one's restatement runs), 1 re-point, and 1 fault of all: a client that hangs up anywhere, a restart, a read, listing or write that fails, a kill. Tapes that differ, by name or by report, are in no instance: one more pair that refuses costs a run more than TLC has time for, and the theorems cover it |
| `DeltaPending` | section 4 | 2 tasks, no fault |

### Sealing

| run | question | bounds |
|---|---|---|
| `SealSafety` | Does every manifest name whole parts, is its coverage exact, is a "current" seal right, and is what landed sealed in the end? | the cron and a sealer by hand; three recordings of 2 or 3 objects: one with a record two objects late (which beats the window of 2), one with duplicates, a marker-only object, a shed range that partly arrived and a graph node, one with two producers; part size 4, so that seals have one or two parts; a budget of 8 lines, which one recording passes with its last object, after a shorter seal may be in use, and the others never; 1 stop or sweep |

### Replay lookup

| run | question | bounds |
|---|---|---|
| `ReplayLookup` | Of the lookup: is an event served twice, is an unchanged candidate answered everywhere, does one changed call disturb another? Of the scorer: is an event paired once, is an unchanged candidate clean, does one change count once, is a loss ever uncounted, is a swap more than its order? | 2 twin branches and 6 recordings. Three of repeated calls, of distinct arguments and of set-like arguments written in two orders, with all candidates of up to 2 calls and 1 over four arguments; a call added to one side; a changed argument behind a tag both branches share, beside an entropy call; and the work of one twin done by the other in swapped order, with and without a changed argument, which is the shortest in which both halves of a swap, an event served to another call and a lost request meet. Every interleaving on both sides, every order of observations a race allows, spans raced or not, legacy tapes or not |
| `ReplayRace` | section 4 | the same recordings, unchanged |

All branches run in spans of one name. Calls are not paired across names: a
request that moves to a span of another name is an event omitted and a call
added, by design; `LossesAreCounted` and `ReorderingCountsOnce` name that premise
(`OneName`) where they need it.

### Fairness

`RecordWriter.Fairness`: the operating system schedules threads, calls of the
sink return, timers fire (weak fairness of the worker and of a caller past its
gate). The standard library's bounded channel serves blocked senders in the
order they queued, hence strong fairness for the two blocking sends, which are
enabled and disabled again as others take the room. Nothing obliges a client to
record, to flush, or the owner to drop.

`RunQueue.Fairness`: both loops are `loop { pass; sleep }`, threads are
scheduled, Jobs end (`activeDeadlineSeconds`), time passes. Each step of a pass
is fair by itself, since a pass is a straight line. Faults are finite
(`MaxFaults`): liveness is claimed only for executions in which the API server
and the store come back. Kills are not fair.

`SessionSeal.Fairness`: the quiet period passes when nothing lands, the cron
starts a pass whenever none runs, and a pass goes on until it ends or is
stopped. A sealer by hand is not fair, nor is any landing; stops are finite
(`MaxFaults`).

The other modules have safety properties only: nothing in the code obliges a
client to view a delta or a reviewer to decide, and `QuietRowsAreTrue` says in
terms of quiet states what the tasks owe the row.

## 4. What the code does against its own word

Two runs end in a counterexample; the finding in `PROJECT.json` quotes the
line of the repository it contradicts.

- `DeltaPending`: a run and its baseline finish close together. The run's own
  settlement sees a baseline that still runs and comes to "pending"; the
  baseline's settlement computes the delta and records it; then the "pending"
  lands over it, since `set_delta_verdict` compares the baseline and not the age
  of the answer. The row stays pending until somebody views it.
- `ReplayRace`: twins whose spans are created in another order than recorded.
  A call whose instance has no further row falls through to addresses whose
  rows its twin has claimed, and is missed, where the plain path alone would have
  answered every call.

Read off the code while modelling, and not kept as runs of their own:

- The eof marker, "everything before this landed", follows a final flush that
  failed; the lost record is neither at the sink nor named.
- Events and graph nodes are said to share one counter and have one each; the
  ledger stores bare numbers, so a dropped graph node's range names an event
  that landed.
- A process without a Kubernetes client logs that queued runs wait for the
  queue deadline to expire them; the pass that expires them is not running.
- A kill between the insert of the row and the creation of the Job deletes
  nothing, and the Job is created afterwards and stays.
- "The ingest is idempotent (terminal-guarded), so a duplicated delivery is a
  no-op" (`store_ctx.rs:250`). The push of a stage outlasts the runner's time-out
  and is sent again; the guard finds no verdict in either delivery, and the stage
  is recorded twice. `StagesOnce` is about losses, where the retry lands once.
- `seal_decision` compares two counts of objects: after the lifecycle rule
  removed some, a landing that grew as much counts as current. `CurrentIsCovered`
  and `LandedIsSealed` exempt swept landings.
- A landing that outgrows the budget after a first seal is refused in every later
  pass, as `pass.rs` says of any landing past it; the shorter seal stays in use.
  `LandedIsSealed` exempts it and `CurrentIsCovered` says that such a seal does not
  read as current.

Two were found by proofs that failed, and confirmed by TLC:

- A re-point is a write of the record, then of the row. A restart, a caller that
  hangs up, or a row and then a record that cannot be written leave
  the two naming different baselines (`torn` in `RunIngest`). A view settles the
  row for the baseline it names, but a restatement computes for the record's, and
  that does not land on a row that names another: later decisions do not reach
  the row. `BaselinesAgree` is stated of re-points that were not cut short,
  `QuietRowsAreTrue` of rows that are `Linked`.
- A run created against a baseline of another recording and never finished keeps
  "pending", though by the names alone its delta is refused: nothing computes it
  before the run's own finish. `Linked` names runs that ended.
- A jump is said to explain exactly one displaced call, "the second is the same
  change, not another" (`divergence/mod.rs:3621`). Three requests that went round
  have one jump and two displaced calls, of which the second counts, though it
  sent what was recorded. And the pair a jump excuses need not have diverged:
  with `y, y, x` recorded in one queue and `x, y, y` sent, a repeated request that
  did not move is paired with an equal event, is taken for the other half all the
  same, and the half that was displaced counts as a change of its own. So
  `ReorderingCountsOnce` claims this of queues with two events. Its queues
  exclude set-like arguments because the jump compares arguments as written and
  the divergence their identity: one written in another order does not jump.

Behaviour that contradicts no sentence squarely. An added call is charged or
not by when it comes: made while an event of its address is unclaimed it is
answered with it, and if that event's own call comes later, no event is left to
pair the added call with and it is charged as a value divergence; made after
that call it is missed, and an addition that is missed is shown and charged to
nothing. The code documents both arms, so `OneChangeCountsOnce` speaks of
calls that moved and not of added ones. Listed among the hazards: a
batch that is full when written is not flushed until the next message, since the
worker waits with a timeout only while it buffers something; one failed poll
other than a 404 fails a run whose Job is running; a launch slower than the
orphan grace is failed while its Job is about to be created; after a kill the
runner's next stage still opens in the store, and the deltas of the runs
measured against the killed one wait for a view.

## 5. The proofs

`RecordWriterProofs` proves for every set of clients and streams, every
capacity, batch size, flush threshold, policy, error streak and set of faults,
from `WriterAssumption` and that `Nobody` is not a record (`NobodyIsNoRecord`):

- `TypeCorrect`: `Spec => []TypeOK`, which includes that the queue keeps within
  its capacity.
- `DisabledStops`: `Spec => []DisabledWriterStops`. The property by itself is
  not inductive: a worker that returns to `receive` does so because its job was
  not fatal, and whether the writer is still active then depends on the write
  that job made before. `StopInv` adds that: an
  inactive writer's worker is draining or done, or in its final write, or in the
  flush of a shutdown or of its final job (which leave the loop whatever the
  outcome), or in the flush of a flush job whose write was fatal. That a
  *caller* may also disable the writer, on finding the channel closed, needs the
  conjunct that a writer without a receiver has a worker that is done.
- `StatsBalanced`: `Spec => []StatsBalance`. One lemma per party (`BalanceClient`,
  `BalanceWorker`) carries the balance through each action; `StopInv` is needed
  for the step in which a caller finds the channel closed and takes its record
  back from `queued`, after which the balance is an inequality, allowed only
  because the writer is inactive by then.
- `NothingLost`: `Spec => []NothingVanishes`. A record is `Located` while it is
  in a hand, in the channel, in the batch, in the sink or counted lost. It can
  slip away in one place only, when the worker leaves and the channel goes with
  it. `ShutdownIsLast` says why that is no loss while the writer is active: the
  worker left because it took the shutdown, only the owner sends that, after
  every client has given up its handle, so nothing is behind it.
- `FlushSettles`: `Spec => []FlushOkMeansSettled`. The channel is a queue, and
  whoever waits for an answer hands nothing over meanwhile. `FlushInv` follows
  the request: while it is in the channel everything of its caller is before it
  (`InOrder`), once it is taken nothing of its caller is in the channel, and
  after the write and the flush nothing is in the batch or unflushed either
  (`Settled`); an error in either loses the "ok".
- `TapeIsALog`: `Spec => ImplementsRecordLog`. `OrderInv` says that of two records
  of one caller and stream the one ahead has the smaller number, that what is at
  the sink is older than what is on its way, and that what was dropped is
  nowhere else. Each step of the writer does one of few things to the way a
  record takes (`LetsGo`, `HandsOver`, `Takes`, `Writes`, `FailsBatch`, ...), and
  each of those is a step of `RecordLog` or none: a lemma for each.
- `RangesAreTrue`, `EveryLossIsNamed`, `ShutdownIsComplete`: the drop ledger, for
  any callers, streams and faults. The exactness one would like is false with
  several callers: a failed batch is pushed as one range from its first record's
  number to its last, and a batch of several sources is in no order. What holds is
  that the range stays `Astride` of what the batch held, and the properties say so.
  `FailInv` is the reason it is exact for one source: what is in a failed batch
  is older than what the same source still has on its way, so no record it
  delivers later, or did before, lies inside. `LedgerInv` says that every number
  a range names was lost or lies inside a failed batch, and that a range that is
  upside down lies within one of several sources, which is what coalescing has to
  survive. A marker the sink refuses moves its ranges to `forgone`. `DoneInv` adds
  where the worker is when the owner has joined it.

`RunQueueProofs` proves for any number of runs, any capacity, any set of faults
and kills and either kind of launch, from `QueueAssumption` alone:

- `QueueTypeCorrect`: `Spec => []TypeOK`. The invariant, `TypeInv`, adds that a
  push under way has a verdict to push (`PushHasVerdict`): what arrives is what
  the runner came to, so the row stays typed.
- `VerdictsStand`: `Spec => FirstVerdictWins`. Every party settles through
  `Settle`, whose guard does not let a terminal row change; `SettleEffect` says
  so once and each action that settles cites it.
- `SuccessIsEarned`: `Spec => []CompletedIsEarned`. What a row says is somebody's
  word, given earlier: a Job that is complete, a watcher that is about to
  report, a pass whose plan holds a "completed" it has not applied yet.
  `EarnedInv` carries "the runner finished with success" through each of them;
  without the conjunct on plans (`EarnedPlan`) a pass that acts on a stale list
  breaks the induction.
- `CapacityHolds`: `Spec => []CapacityRespected`. A pass counts the free slots in
  one step and fills them in later ones, so the bound is not inductive:
  `CapacityInv` bounds the running Jobs *together with* the resumes a plan still
  holds (`Occupied`), and says that the reconciler plans none. That a plan holds
  no more resumes than there were slots is `FirstOnes`: of a finite set of
  numbers, those with fewer than k smaller members are at most k (the rank is an
  injection into 0..k-1). That nobody else resumes a Job is what the shape of the
  other actions gives; that a launch creates its Job suspended is used there.
- `FailuresAreReal`: `~SlowLaunch => (Spec => []FailedMeansOver)`, that is, for
  launches that end within the orphan grace (without that it is false: the run
  of a slow launch is failed as an orphan). The parties act on lists that are
  old by the time they act, so what they read has to stay true: `OverInv` says
  that, while no call failed, a Job that is gone was there once, its launcher
  has ended and it does not come back (`Calm`), and that a plan either deletes
  the Job before it fails the run or fails one that is over already
  (`PlanOver`). `Over` is stable, hence so is a plan made from an old list.

`RunIngestProofs` proves for any handlers, stages, attempts, outsiders, faults
and re-points, from `IngestAssumption` alone, the types and all five properties of the `Ingest`
run. Three invariants are built one on the other:

- `TypeInv` (`IngestTypeCorrect`) adds to the types that a handler at the store
  has a statement left and that what a party holds of the file is a file.
- `LockInv` (`BaselinesAlwaysAgree`) says what the holder of the mutex knows: a
  handler that has read the record holds the lock and its copy *is* the record,
  so the whole record it writes back changes no baseline; the re-point's
  copy likewise, and that copy names the row's baseline unless an earlier re-point
  was cut short (`torn`), so putting it back makes the two agree. `FileVerdictStands` needs the same: that copy had no verdict
  when the guard looked, and nobody else could have written one since.
- `PushInv` (`StagesRecordedOnce`, `CopiesEndEqual`, `SettledHasNoOpenStage`)
  relates, in the executions `PushedThrough` names, what the store has recorded
  to the event the runner is at and the statements its one handler still has to
  run; the properties are its instances at the end of an event.

`DeltaRulesProofs` proves the four properties of `DeltaRules` for any sets of
requests, hashes and rules, hence any pair of trees over the two addresses with
any values and identities, by lemmas about the operators: `Classify` mirrors
when its two sides are exchanged, what both list alike or both leave out is on
one side, and so is what `SameResult` identifies.

`DeltaVerdictProofs` proves for any runs, baselines, trees, people, decisions,
tasks and faults, from `DeltaAssumption` alone:

- `WordsNameTheirPair`. The row's word is written by tasks that read the pair
  earlier, so `DeltaInv` carries through each kind of task what it will write:
  `TaskInv` says that a word about to be recorded is earned by the pair the task
  holds, and `Lands` that it reaches the row only when the row names that pair;
  `RowInv` says it of rows and of cached documents. That a completed run stays
  completed makes "can be computed" stable.
- `AcknowledgedIsDecided`. `AckInv` says that identifiers are distinct and that
  no acknowledgement is confirmed by who proposed it. Among those that speak
  for a shape, `SomeoneSpeaksFirst` finds one that none outranks, by the
  well-foundedness of the naturals on their identifiers; it is the one
  `RowState` consults, and an "acknowledged" word is therefore a decision by
  somebody.
- `QuietRowsTellTheTruth`. A row may be wrong while somebody still has to write
  it, so `TruthInv` says that a row that does not say its delta is owed one
  (`Obliged`): it is under a re-point, a task is at its pair or has it ahead
  (`Promised`), a decision has not asked for its restatement yet, or the
  restatement at work was asked for another pass. Whatever changes a row's truth
  (a finish, a decision, a withdrawal, a re-point) has to leave one of them
  behind, and whatever discharges one has to write the truth. What is lost (a
  listing, a read, a write, a request, the process) discharges them too, and is
  excused for the rows that are untrue at that moment only (`MissedIsTrue`). A view
  or a proposal owes nothing, since its client may hang up. A restatement that
  is about to record something old is why `RestateSees` is needed.
- `DeltaTypeCorrect`.

`SessionSealProofs` proves for any sealers, recordings, merge window, part size
and faults, from `SealAssumption` and `WindowAssumption` alone:

- `SealTypeCorrect`.
- `SealsStayWhole`, by an invariant (`SealInv`) on the parts each sealer in the
  middle of a seal has put so far, and that a key determines its body, so a put
  never changes an object.
- `CurrentMeansCovered`, as a published manifest is of objects that have landed
  and, while none was swept, of as many means of all. Neither of these needs a
  fact about what a set of objects collates to.
- `WindowSuffices`: `Spec => []OneObjectLateIsMerged`. Each take of the merge adds
  one record that is not written yet, the least of the window (`TakenIsNext`),
  so the merge writes every record of the runs once (`MergedEmitsAll`). A run
  that is not admitted yet stands `Window` or more after the first live one, for
  `Window` runs before it are live (`TakenIsLeast`); under the premise
  (`Displaced`) what is taken therefore comes before *all* that is left, and the
  output stays in order.
- `CoverageExact`: `Spec => []CoverageIsExact`. Merged or sorted, the events are the
  objects' records in seal order (`EventsInSealOrder`). `ScanOK` is the invariant
  of the scan: the producers seen so far are listed in their order, each with
  the exact numbers of what was scanned. An event extends the last of them or
  starts a new one; that it cannot belong to an earlier one, and that its number
  is above all of its producer's, is what seal order gives, and what the code
  sorts again for when the window was beaten.
- `SealsReadBack`: every manifest ever published, read part after part, gives its
  objects' records, each once and in seal order. It joins `SealInv`, the order of
  the events and the cutting into parts (`PartsReach`, `BodyIs`: no event falls
  between two parts and none is in both).

What the recursive functions of `Collate` compute is followed step by step.
`Induction` is stated for a set of numbers instead of a predicate, so that it can
be cited, and rests on the least number of a set (`LeastNumber`). That the
function a `LET` chooses exists is proved by it first (`MergedTakes`, `ScanSteps`).

`ReplayLookupProofs` proves for any recordings, candidates, policies and
branches, from `LookupAssumption`:

- `EventsServedOnce`: `ServedInv` says that every event an exact answer served is
  claimed, and an exact answer takes an unclaimed row.
- `UnchangedCandidateIsAnswered` and `MovedCallIsAnsweredByAddress`, both from
  `AnswersInv`. `WeaveInv` says that tape and calls are weaves of their programs:
  each branch's calls in its order, none left out. `AlikeInv` is about a candidate
  that does what was recorded or moved some calls: each unmoved call was answered
  with an event at its `Home` locus (its tag, else its instance, else its path)
  that had as many of its scope before it on the tape as the call had among the
  calls (`Fits`). For the next call, that there is such an event follows by
  counting: the calls of the scope made so far are no more than those recorded
  there without it. That it is unclaimed: who claimed it stood elsewhere in the
  same scope. That no stronger locus gives a different row: there is none both
  sides know. A moved call's own args-free scope at its instance counts every
  call of its branch, so it stands where it stood.

`CallPairingProofs` proves for the same constants and any `Shape`:

- `ScorerReplays`: `PairSpec => Spec`. The scorer's steps leave the run alone, so
  every theorem about the lookup holds under it.
- `EventsPairedOnce`: `PairSpec => []PairedOnce`. `PairInv` says of each of the two
  lists that its events and its calls are distinct and that no event of it has
  an owner (`Apart`), that the lists have neither an event nor a call in common,
  and that the calls the current pass has paired are among those it has handled;
  since each observation is another call (`Streams`), the next one is not
  paired yet. Both passes add one pair at a time, which `OneMore` covers.

The other four follow from one invariant, `ScoreInv`: what each pass leaves behind.
A call answered by its address was paired with its event or that was taken
(`Sought`), one without an exact answer was paired or its queue is empty
(`Twinned`), and there is an injection from the displaced calls to jumps that are
used up and took what they sent (`Explains`).

- `UnchangedCandidateIsClean`: as many exact answers as there are events, by the
  lookup's theorem, own them all.
- `OneMovedCallIsOneChange`: all events but one are owned, and the one left is in
  the moved call's reach or in nobody's.
- `LossesAreNeverHidden`, by counting. Of the events of a request, those with a
  `Mated` call that sent the same, are no more than the calls that send it; so at
  least as many as were lost have no mate. Such an event is omitted, or some call
  `Pays` for it: the call it was paired with, or, where that is displaced, the one
  that jumped for it; and no call pays for two. `FewerOfEachInject` sums such
  bounds over all requests without induction, by joining the injections. The
  other direction is the same argument on kinds (operation and shape): where an
  event of a kind is left over, all calls of that kind have one.
- `SwappedRequestsAreOneChange` needs what `ScoreInv` has forgotten, how the
  queues stood when each twin was paired: `TurnInv` adds that each took the head of
  what was left then (`InTurn`), and that a jump is gone only when some displaced
  call used it (`UsedUp`).

Type invariants are proved for every constant by the theorems named
`...TypeCorrect`, and are not run as well.

The argument is the usual one: `Init` establishes the invariant, each action
preserves it (one step per action), and `PTL` lifts it to the temporal formula.

Only model-checked: all liveness (`BatchIsWritten`, `RecordReturns`,
`DropReturns`, `EveryRunSettles`, `LandedIsSealed`), which with `ENABLED` is out
of the prover's reach. Every invariant and action property a passing run checks
is a theorem.
`DisabledWriterStops` is proved and not run.

## 6. What is not modelled

Inside the modelled components:

- Writer: the secondaries of `CompositeSink`, whose errors are swallowed; the
  counters `enqueued`, `backpressure`, `flushes` and `write_errors`; the encoding
  of records and markers.
- Run queue: how a Job's manifest is built; diagnostics; the executor without a
  capacity, which launches Jobs unsuspended.
- Ingest: a file that is torn by a crash in the middle of its write.
- Delta verdicts, sealing, lookup: what section 2 names as left out.

Whole components:

- boundary policies: `propose` and `activate` are single guarded statements;
  the rest validates a document.
- CD promotions: the admission rules are independent checks before an insert,
  one promotion in flight is a unique index, each later step is one guarded
  UPDATE, and the deployment is an outside pipeline.
- delivery certification: folds the markers and gaps of a finished tape into a
  report; the coverage it reads is that of `Collate`.
- replay driver: drives one recorded request after the other over a socket.
- lifecycle of one run: only its events are modelled (`RunIngest`); building
  and seeding are processes and files.
- divergence scoring beyond the pairing: whether two results agree, HTTP
  bodies, declared clauses and approved noise, the graph's absorbed subtrees and
  the rendering of ledgers are rules about contents; what a run publishes of it
  is the input of `DeltaRules`.
- correlation context and layer: only what it gives a call, its span path and
  its instance; the rest is scoping of the host language.
- sessions and authentication: a signed cookie checked by each request alone;
  no state is shared.
- execution forest, event schema, facade: projections and data types.
- macros: code generation at compile time.
- database instrumentation: captures one call at a time and keeps nothing.
- terminal UI, dashboard: presentation.
- config layers, code bundles: files and archives.

The repository is far larger than what is modelled. Most of its lines are the
rules and fixtures of scoring, the processes of the lifecycle, presentation and
their tests; the modelled part is where several parties change shared state, or
where a verdict depends on a rule that can be stated apart from its data.

## 7. Plan

Done: the record writer and its abstract log; the run queue; the run ingest;
the deltas with their acknowledgements; sealing; the lookup; the pairing of
calls; proofs about each, and the refinement of `RecordLog` proved and, with
the merge and the coverage scan, every safety property the runs check.

What would come next, in this order:

1. An abstract `RunVerdict` (open, then one verdict for good) that `RunQueue`
   and the row of `RunIngest` both implement.
2. `DeliveryCertificate`: the writer's markers folded per instance, composed
   with the writer and with `Collate`.
3. The open substitute and execute tokens of the hook under cancellation.
