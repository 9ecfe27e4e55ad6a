# AutoMate in TLA+

AutoMate runs test suites on remote runners and shows what they found. This directory models the
parts of it in which several processes share state, or one process must survive its own end: the
durable execution queue with its leases, the run state that completions and events derive, the
spool in which a runner keeps what it has to deliver and the protocol that empties it, the
schedules, report deliveries and source syncs that run by the clock, and the realtime feed that
browsers follow.
Each module is checked by TLC on small instances, and the invariants that matter most are proved
with TLAPS for every value of the constants.

## The system

| Component | State it keeps | Operations | Model |
| --- | --- | --- | --- |
| Run state derivation (`packages/orchestration/src/phase-outcome.ts`, `apps/api/src/execution/execution-derivations.ts`) | none: pure functions | what a completion or an event makes of `phase`, `outcome`, `status` | `RunState`, `RunDerivation` |
| Durable execution queue (`apps/api/src/execution/drizzle-execution-store.ts` behind `routes/execution/`) | rows of `execution_jobs`, `runs`, `runners` | `createRun`, `claimJob`, `heartbeatRunner`, `appendEvents`, `completeJob`, `cancelRun`, `reapExpiredLeases`; also `retryRun`, `addArtifact`, approvals, the saved gate | `JobLease` (the first seven) |
| Job state machine (`packages/orchestration/src/state-machine.ts`, `job-state.ts`) | none: a table of edges | `canTransition` | `JobStateMachine` |
| Worker (`apps/worker/src`) | none of its own | `reapExpiredLeases`, the schedules' poll | the reaper in `JobLease`, the polls in `Schedules` |
| Runner process (`apps/runner/src`) | what it executes, its spool | tick, claim, execute, flush, dead-letter, restart under the same id | `JobLease` (leases), `RunnerDelivery` (events, completions, the flush loop) |
| Durable spool (`packages/runner-sdk/src/spool.ts`) | a queue in memory; a frame file, an acknowledgement file, a sequence file | `enqueue`, `ack`, `deadLetter`, `compact`, `open` | `Spool` |
| Outbox and feed (`packages/db/src/repositories/outbox-repository.ts`, `apps/api/src/infrastructure/drizzle-realtime-feed.ts`, `routes/events.ts`) | rows of `outbox_events`; one pump per workspace; one cursor per stream; `Last-Event-ID` in each browser | append in the writer's transaction, pump, subscribe, resume | `OutboxFeed` |
| Scheduler (`apps/worker/src/scheduler.ts`, `postgres-store.ts`) | `next_run_at` of each schedule, `next_sync_at` of each source | poll, skip, run once, catch up, queue a report, queue a sync | `Schedules` |
| Delivery sources (`apps/api/src/services/delivery-syncer.ts`) | rows of `delivery_syncs`, the cursors of `delivery_sources` | queue, claim, list, write, save the cursor, finish, requeue | `DeliverySync` |
| Report dispatcher (`apps/api/src/services/report-dispatcher.ts`) | rows of `report_deliveries` | claim a batch, send, write the outcome, retry | `ReportDispatch` |
| Runner registry and credentials (`routes/execution/runners.routes.ts`, `services/runner-control.ts`) | `runners` rows, token hashes | register, rotate, revoke | planned |
| Artifact store | objects, artifact rows | write bytes, then the row; discard | planned |
| Quality gate, QA score, quarantine, flakiness | results over runs | policies and statistics in SQL | not modelled |
| Reporter ingestion, dashboard, reporting, connectors, MCP and agent surfaces | what they read | reads, formatting, third-party calls | not modelled |
| Authentication, front ends, CLI, infrastructure, site | — | — | not modelled: no protocol the queue or the feed depends on |

How they interact. The API's handlers, the worker and the runners share nothing but the
database and HTTP. A runner polls `claimJob`, renews its leases with `heartbeatRunner`, streams
event batches to `appendEvents` and ends with `completeJob`; what it sends waits in its spool
until it is answered. `claimJob` reaps expired leases first; the worker's loop reaps as well,
with a statement of its own. Every change of a run inserts an outbox row in the transaction of
the change. The feed polls the outbox for the streams of a workspace and writes to browsers.
The worker's poll moves the pointers of schedules and queues runs, report deliveries and syncs; the
API processes claim the last two under leases of their own.

What is hard here:

* The store's handlers run at READ COMMITTED, read rows without locking them, and then update
  them by id. Whatever commits between the two is overwritten.
* A lease is a row in a table and a belief in a process. Both survive the other: a runner may
  be paused, die, come back under the same id, or never hear that it was granted a lease.
* A completion is sent until it is answered, so it is sent twice, and late.
* The spool changes several files, one after the other, and memory before or after them; the
  process may end between any two. Enqueues of several jobs and the flush loop share its files and
  nothing orders them.
* One retry counter serves every batch of a runner's spool, a batch may hold events of two leases,
  and a request the runner gave up on may still arrive.
* Several workers and API processes poll the same rows, and stop half way. A source's list is
  newest first and shifts while it is walked over several syncs.
* Outbox sequences are issued before their transactions commit, the pump awaits a page and
  each listener, and streams join and leave in between.

`PROJECT.json` lists each of these at its line, under `hazards`.

## Modules

| Module | Contents |
| --- | --- |
| `RunState` | the vocabularies and the pure functions: `DeriveRunState`, `CompletedRun`, `EventRunState`, `RunStatusFor`, `BrowserGateStatus` |
| `RunDerivation`, `MCRunDerivation` | every completion and event the API's schemas let through, one request each |
| `JobLease`, `MCJobLease` | the queue: rows, handlers, reapers, runner processes, the clock; composes `RunState` |
| `FencedLease` | abstract: a resource is granted when nobody holds it, with a token above all earlier ones |
| `JobStateMachine` | abstract: the contract's edges, seen through the stored states |
| `OutboxFeed`, `MCOutboxFeed` | the outbox of a workspace, its pump, its streams and their browsers |
| `Spool`, `MCSpool` | the runner's durable queue: memory, files, and every point where the process may end |
| `DurableQueue` | abstract: entries join at the end, leave when settled, or are marked dead; a restart changes nothing |
| `RunnerDelivery`, `MCRunnerDelivery` | events and completions from an execution through the spool and the flush loop to the API; composes `DurableQueue` |
| `Schedules`, `MCSchedules` | the worker's polls of run schedules, report schedules and delivery sources |
| `DeliverySync`, `MCDeliverySync` | the syncs of one source: queue, leases, walk and cursors |
| `ReportDispatch`, `MCReportDispatch` | the queued reports and the dispatchers that send them |
| `Subsequences` | what a filter keeps of a sequence, by positions; `RunnerDelivery`, `Spool` and `DurableQueue` filter with it |
| `RunDerivationProofs`, `JobLeaseProofs`, `SpoolProofs`, `OutboxFeedProofs`, `ScheduleProofs`, `ReportDispatchProofs`, `DeliverySyncProofs`, `RunnerDeliveryProofs` | the theorems |

### RunState and RunDerivation

Functions of the source keep their names. `None` stands for an absent optional member and for
SQL NULL. A completion keeps only the members the functions read; its summary is abstracted to
whether it recorded nothing (`empty`). `RunDerivation` feeds them every combination of the
vocabularies and of one word none of them knows, because a completion's `status` and an event's
payload are strings from outside.

### JobLease

A job has one row of `execution_jobs` and one of `runs`, so both are functions on `Jobs`. A
handler that reads before it writes is two actions, joined by an entry of `req` that remembers
what it read: `ClaimStart` (the scan of `reapExpiredLeases`), `ReapWrite` (one reaping
transaction per expired row), `ClaimCount`, `ClaimGrant`/`ClaimNone`; `CompleteRead`/`CompleteCommit`;
`AppendRead`/`AppendCommit`; `CancelRead`/`CancelCommit`. `createRun`, `heartbeatRunner` and the
worker's reaper, which locks what it scans, are one action each. One transaction's writes are one
step: a heartbeat and an event batch write one row of a job, every other transaction both of its
rows, and row locks order two of these, or the deadlock detector aborts one, which is that handler
never committing.

`exec` is what live processes execute and `spool` the completions they have to deliver;
`RunnerCrash` loses the first and keeps the second. `Faults` switches on what the environment
may do: `pause` (a lease runs out under a live owner), `lost_claim` (the answer to a claim is
lost), `restart`, `dead_letter`. `Overlap = FALSE` lets one handler run at a time.

Abstracted: a lease id is a fresh UUID, identified with the fencing token issued beside it; an
expiry is `live` or `past`; runners match every job; a batch of events is what it asks of the run
row, without the events that were already stored.

### Spool

A file is a sequence of frames; the header is one frame, so `committedBytes` and the limits count
frames, and `Torn` is what an interrupted write leaves of one. An operation is split at every await
of the file system. `Enqueue` to `Count` are `enqueue` with its torn-tail guard: the length is asked
for in `Stat`, compared in `Guard`, cut in `Truncate`, and memory learns of the frame only in
`Count`. `Ack` changes memory first, then `PersistAcknowledgements`, `PersistSequences` and
`CompactOrReturn` follow; `DeadLetter` and `Open` end in a compaction too: `Rename`, `Settle`,
`Clear`. An append whose handle was open when the file was replaced writes to the old one
(`unlinked`). `Crash` is any end of the process, `Open` the next start.

`Overlap` lets an enqueue run beside others and beside the flush loop, as they do in a runner
with several jobs; `ShortWrites` is a full disk; `TornTails` the values of the option `tornTail`,
which `apps/runner/src/main.ts` leaves at its default, `fail`. `seen` is history: the ids whose
enqueue resolved, whose ack was asked for and returned, whose mark returned. `Recoverable` is what a
restart would find, and the queue that `DurableQueue` speaks of.

Abstracted: sealing and keys, directory checks, frames above the size limit, and the order in which a
failing disk loses file contents against renames (a write that returned is on disk, as its `fsync`
asks). An entry's number is the last one plus one; numbers that a failed enqueue uses up are left
out.

### RunnerDelivery

An entry of the spool is its id, `[job, lease, kind, seq]`, and whether it is dead. `EmitEvent`,
`EmitTerminal` and `EmitCompletion` are the enqueues of `executeClaim`: a spool without room refuses
one, the number is used up all the same, and the execution goes on as a failure. `FlushStart`
fixes what is pending, `Batch` is the next run of events of one job, or one completion. Each
request is answered (`Delivered`, `Refused`), answered in vain (`AnswerLost`) or given up
(`RequestLost`), and then handled by the API at any later time (`LateRequest`). `Handled` is the
API's whole answer: the lease of the head entry, the events not stored yet, their sequence.
`Spend` is `retryOrDeadLetter` with its shared counter. Executions that enqueued wait for the next
flush to end, as `scheduleFlush` makes them. Which leases there are is left to `JobLease`: a
lease is granted or lost at any time. `Rejoin` lets a runner be granted a job it still executes.

### Schedules

A cron is a period and an instant a number, so `Following` is the next occurrence. A poll of a
worker is the list it read and its place in it: `SkipMissed`, `RunOnceMissed` and `CatchUpMissed`
treat one row of the list (the last, one occurrence of it), `PollNext` reads the next list, at the
instant of the first. `Advance` is the guarded UPDATE and `Enqueue` the transaction around it. What
a row queued is remembered as the window from its occurrence to the pointer it wrote, so that a
window says which missed occurrences it answers for. A throw (`Throws`) ends the poll, like the end
of the process.

### DeliverySync

Two of the four streams of a source stand for all: pull requests, which return to the front of
the list when they change, and deployments, which are undecided when they are first listed. A page
is one item, so a list of two items is walked over two syncs, and `SyncBounds` gives the items of a list
instants of their own: equal ones would share a page. `List` and `Write` are apart because
the list shifts between them; `Save` merges the cursor and renews the lease; `Finish`, `Fails` and
`Requeue` are the three ways a sync is written back, `Abandon` the discovery that the lease is
somebody else's. `Lapses` is a holder that is slower than its lease.

### ReportDispatch

`Claim` moves a batch to `sending` and into a dispatcher's hands. `Send` decides what happens to
the message and what the dispatcher learns of it, `Finish` writes that by the row's id. Channels,
rendering and secrets are abstracted to the outcome of a send: sent, refused but retryable, refused
for good, unknown. `Outlive` says whether a lease may lapse while its holder lives.

### OutboxFeed

Events are their sequences. `Insert` and `Commit` are apart because the identity column issues
the sequence at the INSERT. `PumpStart` fixes the cursor it reads after, `PumpRead` is the
query, `Deliver` hands the next event of the page to each subscription it is new to. A page is
any sequence for which `IsPage` holds (there is one), which states `ORDER BY sequence LIMIT n`
without sorting. A stream that resumes reads the retention floor in one step (`CheckRetention`)
and subscribes in another. A connection breaks before the server notices: until `Unsubscribe`
frames are written to it, their listener resolves, and they are lost; the browser resumes from
the last frame it received. A row's expiry counts from its event's own time, so rows expire in
any order. `got` and `excused` are history: what a client received, and what a refetch frame or
a first connection told it not to expect.

## Runs

| Run | Question | Bounds |
| --- | --- | --- |
| `derive` | Are the columns of any completion or event legal, and is green earned? | all words of the vocabularies and one unknown |
| `overlap` | What do the lease columns guarantee when handlers overlap and everything fails? | one job, two runners, two handlers in flight, two grants, one crash |
| `serial` | What does the queue guarantee when handlers do not overlap? | one job, first attempt 1 or 3, two verdicts, three grants, two batches |
| `live` | Does every job and run end? | two jobs, two runners of one slot, one of which may die for good, two attempts |
| `feed_many` | Is a client ever sent an event twice or out of order? | two clients, two writers, three events, pages of two, failing listeners, expiry |
| `feed_alone` | Is anything lost, does everything arrive? | one client, one writer, four events, pages of two, two drops |
| `spool` | Does the spool keep what it accepted, and settle it once, wherever the process ends? | two jobs, three entries, compaction above three frames, three process ends, short writes, both values of `tornTail` |
| `delivery` | What of a runner's events and completions reaches the API, and in which order? | two leases, of one job or of two, one event and the last one, one fault, one restart, two attempts |
| `stuck` | Does the spool drain? (a divergence, below) | two jobs, no event but the last, no fault |
| `schedules` | Is each occurrence answered, and once? | one row of each kind and policy, two workers, four instants, catch-ups of one, one crash |
| `sync` | Does a sync miss or repeat anything, and does it end? | two pull requests, two deployments, two processes, three instants, two mishaps or one lapsed lease |
| `dispatch` | Is each report sent, and once? | three deliveries in batches of two, two dispatchers, two attempts, one fault |

Why the bounds are enough. A stale write needs a reader, an overwriting handler and a third
party whose work is overwritten: two handlers in flight, the worker's reaper and the clock give
all of it, on one job, since handlers of different jobs touch different rows (only the slot
count spans jobs, and `live` has two). Two grants give an old and a new lease of one job;
three, with a first attempt of 1 or 3, reach the API reaper's limit from below and start at it.
Three events and pages of two give a second page and a hole in the middle of the sequences.
In the spool, two jobs interleave their numbers in one file, three entries leave one before and one
after the entry an operation settles, and three ends let a process die while it recovers from a
recovery. In `delivery`, two leases are what a mixed batch, a gap after a requeue and a shared budget
need, and one lost request is enough to be sent again, overtaken by its copy or handled after a
restart; with a second event its invariants and `DrainsAlone` hold as well, on 3,677,389 states.
In `schedules`, a row is due again before a slow worker comes to it, and a catch-up of two
occurrences is above the bound of one. In `sync`, the list of two can shift under a walk of two pages.
In `dispatch`, three deliveries leave one for the second dispatcher. The largest runs have 710,524
(`delivery`), 542,706 (`schedules`), 354,031 (`sync`) and 200,547 (`spool`) distinct states.

`overlap` checks `TypeOK`, `RunRowLegal`, `AttemptInStep`, the action property `LostLeaseStaysLost`
and the refinement `ImplementsFencedLease`. `serial` checks what fails when handlers overlap and holds when they do
not: `RunShowsVerdict`, `CancelStands`, `QueuedIsClaimable`, `CompletionFenced` and the
refinement `FollowsStateMachine`. The two runs together say where the code relies on handlers
not overlapping: the first set is safe on any deployment, the second only while no other handler
of the job commits between a handler's reads and its writes. `live` checks `RunEnds`.

`spool` checks `NoneLost`, `NotRedelivered`, `GuardIsSafe`, `SequencesSurvive` and the refinement
`ImplementsQueue`, with one operation at a time. `delivery` checks `AckedWereTaken`,
`CompletionAfterEvents`, `NoHoles`, `StoredUnderOwnLease` and `DrainsAlone`: what the spool forgets
the API took, in order and under its own lease, and the entries of one lease leave the spool.
`schedules` checks `AnsweredOnce`, `NothingAhead` and `Answered`; `sync` checks `SyncTypeOK`,
`NothingSkipped`, `SoleWriter`, `SyncEnds` and `DeploysArrive`; `dispatch` checks `DispatchTypeOK`,
`OneHand`, `SentOnce`, `EndStands` and `AllEnd`; `feed_many` checks `InOrder`, `feed_alone` `Lossless`
and `Reaches`, `derive` `ColumnsLegal`, `GreenNeedsEvidence` and `NoReclassifying`.

Deadlock is checked in `overlap`, `serial`, `live` and `feed_alone`. The others may stop: `derive` after
its one request, `feed_many` when all drops and events are used up with no stream open, `spool`,
`delivery` and `stuck` when nobody has anything left to write, `schedules` at the end of its clock,
`sync` and `dispatch` when every bound is used up.

### Fairness

`live` assumes `Fairness` of `JobLease`. A handler that started finishes (WF). A live runner's
tick polls for claims and flushes its spool again and again, while its requests compete with
others (SF). An execution ends, by its timeout at the latest (WF). The worker's loop reaps again
and again (SF). The lease of a dead runner runs out (WF). Nothing obliges anybody to create,
cancel, fail, heartbeat or send events.
`feed_alone` assumes that the pump's timer ticks while a stream is open, that its query returns,
and that listeners return. `delivery` and `stuck` assume that the flush loop goes on while the spool
holds something: the poll loop calls for it, and the client answers every request or times out.
`schedules` assumes that every worker polls on its interval (`worker.ts`) and that an API which
deleted a subscription goes on to delete its schedule. `sync` assumes that GitHub's limit resets, that
leases and back-offs pass, that the source's cadence goes on queueing, and that every process polls
and goes on with what it claimed; crashes, refusals and GitHub itself are free. `dispatch` assumes
that leases and back-offs pass and that every dispatcher polls and goes on.

## Where the code and the repository's words part

Shown by a run that TLC finds violated:

* `stuck`: `retryAttempts` is one counter of the service, and every batch that is taken resets it. A
  batch the API refuses beside one it takes is retried for ever; and since the refusal ends the
  flush before its acknowledgement, the other one is sent again each time. The comment at
  `apps/runner/src/runner-service.ts:695` says that a fixed budget is drained instead of looping
  forever. `DrainsAlone` shows that the entries of one lease do drain.

Shown by a checked run when its constants are changed as given:

* `serial` with `Overlap = TRUE` violates `FollowsStateMachine`: the API's reaper writes each job by
  id, so one that was completed or cancelled after the scan is put back on the queue
  (`docs/quality/property-invariants.json:16`: terminal job states absorb). It violates
  `CompletionFenced` too: `completeJob` checks the lease on a row it did not lock and updates by id, so
  a completion that was checked before its job was reaped and claimed again ends the new lease's job
  (`site/guide/concepts.md:24`: a runner that lost its lease cannot complete the job).
* `live` with `Faults = {"restart"}` violates `RunEnds`: `heartbeatRunner` renews every lease of the
  runner id, so a runner that dies and is back before its lease is reaped keeps renewing a lease it
  executes nothing under.
* `feed_alone` with `Faults = {"fail"}` violates `Lossless`: after a listener rejects an event, the pump
  goes on with the page, and the next success moves the cursor past it
  (`docs/adr/002-sse-over-a-durable-outbox.md:24`). With two writers it fails as well: of two open
  transactions the one with the later sequence commits first, the pump delivers it, and the earlier
  one is never read. With `Faults = {"expire"}` too: an event that expires before a live but lagging
  stream reads it is lost, and only a stream that opens is told to refetch.
* `spool` with `Overlap = TRUE` violates `NoneLost`: an enqueue appends to the file that a compaction is
  about to replace. It resolves, the entry is in memory, and no file holds it: a process that ends now
  has lost it (the comment at `packages/runner-sdk/src/spool.ts:586`).
* `delivery` with `Rejoin = TRUE` and `MaxEvents = 2` violates `StoredUnderOwnLease` and `NoHoles`: a runner whose lease ran out is granted
  the same job again, and events of both leases travel in one batch under the head entry's lease.
* `dispatch` with `Outlive = TRUE` violates `OneHand`, and `SentOnce` without any fault: `finish` writes
  by id and nothing renews the lease of a batch (`apps/api/src/services/report-dispatcher.ts:23`: each
  delivery is in exactly one dispatcher's hands).
* `sync` with `BatchSize = 1` violates `SoleWriter`: the holder of a lapsed lease that nobody has taken
  over passes the lease check and writes on, while a second sync of the source is claimed. `Claim`
  compares the lapsed time and the writes compare only the lease id. Batches of two take both rows; in
  the code the batch must be filled by other sources.

Read in the code while modelling, without a run of their own:

* A dispatch claim does not compare attempts, so a delivery that ends its process each time is
  claimed for ever; and a message whose outcome could not be written is written as failed although it
  arrived.
* The upserts of pull requests and deployments do not carry the lease, so a sync that was taken over
  still writes what it listed. `NothingSkipped` is therefore stated up to the first outlived lease;
  `delivery-syncer.ts:62` says such a sync writes nothing more. The lease of a later row of a batch is
  not renewed when its turn comes, and a rate limit does not stop a row that is already claimed.
* The loop of a catch-up stops before the last due occurrence, which the final advance then passes
  unanswered (`apps/worker/src/scheduler.ts:65`: one run per missed occurrence). `AnsweredOnce` asks
  under `catch_up` for at most one row per occurrence.
* A subscription is deleted before its schedule. If the API ends between the two, every poll throws at
  the orphan and reaches no later report and no delivery sync: `Answered` needs the deletion to be
  completed. A run schedule that throws, for its timezone or its workspace, stops what follows it in
  the same way (`apps/worker/src/postgres-store.ts:459`).
* A number that a full spool's refusal used up leaves a hole: the API refuses the events after it until
  the budget is spent. Dead letters count against the spool's limit.
* The slot count of `claimJob` is read outside the claiming transaction.
* A stream that opens while a page of another stream is being delivered is handed what is left of
  that page, and its cursor passes everything before it.
* `open` compacts acknowledged entries away without persisting the sequences they carried. After
  two process ends a number may be given again; `SequencesSurvive` is stated for one.
* With `tornTail` at its default, a torn tail makes `open` throw, and the runner does not start until
  somebody moves the file (`refused` in the model). The first enqueues of two jobs into an empty spool
  both write a header; a second header cannot be decoded, so a restart before the next compaction
  is refused as well.
* After a requeue the new runner numbers its events from 1, or from what its own spool remembers. The
  API answers 409 `sequence_gap`, the client throws, and the batch is dead-lettered when its budget is
  spent.
* The API's reaper requeues below attempt 3 whatever `maxAttempts` says, requeues a run that a
  `run.completed` event already ended, and ends a run without dating it; the worker's does none
  of the three.
* An event batch is accepted under a lease whose expiry has passed (`site/architecture.md:62`:
  every write is bounded by its lease).
* A completion refused for an expired lease is dropped by the runner, whose next heartbeat
  revives the lease: the job is then neither completed nor requeued.
* An event batch that commits after the reaper gives a queued job's run an outcome, and
  `runs_phase_outcome_check` then aborts every claim of it. With `Overlap = TRUE`,
  `QueuedIsClaimable` fails.
* A completion may ask for a phase that is not terminal. Its job is completed and its run is not
  over, so a later cancel rewrites the run; `RunShowsVerdict` is proved for terminal phases. And
  `run.completed` may make a run
  `passed` that recorded no test: the evidence rule is `completeJob`'s only.

## Proofs

Assumptions are the named `ASSUME`s of the modules: what the schemas let through, positive
attempts and page sizes, natural bounds.

`RunDerivationProofs`: `DeriveRunState` returns a pair of columns the database takes for every phase
and any claim (by cases on the phase), and so do `CompletedRun` and `EventRunState`.
`ColumnsStayLegal`, `GreenHasEvidence` and `NothingReclassified` carry this to whole requests, for any
words in a payload. A request is one step from a
fresh row, so the invariant (`RowInv`) is their conjunction and that the row is fresh until it is asked
for something.

`JobLeaseProofs`, for any number of jobs, runners, requests, attempts and grants, with handlers
overlapping or not:

* `TypeCorrect`: one step per action.
* The lease. `NextLeaseStep` classifies every step once: for each job the step keeps the lease
  columns, drops the lease, or grants the next one to a free queued job; and a step drops or
  grants for one job only. The inductive invariant `LeaseInv` is `TypeOK`, `LeaseRowLegal`,
  `TokenNamesOneRunner`, `HolderWasGranted` and `GrantsIssued` (no grant is ahead of its row's
  token). The last one is the strengthening: without it a new grant might repeat a token that
  history holds. `LeaseRowsLegal`, `TokensNameOneRunner`, `HoldersWereGranted`,
  `LostLeasesStayLost` and `LeaseRefinement` follow from the classification.
* The run row. `RunInv` is `TypeOK`, `RunRowLegal` and `AttemptInStep`; it rests on what
  `deriveRunState` returns (`CompletedRunLegal`). `AttemptInStep` is inductive since every reaper writes both rows.

The same module, under `OneAtATime` (`Overlap = FALSE`, and completions that name a terminal phase, as
the shipped runner's do), again for any number of jobs, runners and requests and every fault:
`RunsShowVerdicts`, `CancelsStand`, `QueuedAreClaimable`, `CompletionsFenced` and the refinement
`StateMachineFollowed`. `SerialInv` says two things more than the invariants above. `RowsAgree` relates
the two rows of a job (a recorded completion is what the run shows, a cancelled run has a cancelled
job, a queued job has a run without outcome). `ReadsHold` says that one request is in flight and that
what it has read is still so, which is exactly what overlapping handlers break. `RowStep` then bounds
every step: one job moves, along an edge, and a completion is recorded under the lease the row holds.

`SpoolProofs`, where the operations of a process do not overlap (`Overlap = FALSE`, as the `spool` run
has it), for any number of jobs, entries and process ends, any limits and compaction threshold, both values
of `tornTail` and writes that fail half way: `EnqueuedIsKept`, `SettledStaysSettled`, `CuttingIsSafe`,
`NumbersSurvive` and the refinement `FilesImplementQueue`. The four invariants are statements about
states at rest; `SpoolInv` (`SpoolHolds`) says what is so at every await, in three parts.

* `FileInv`: only the end of the file can be torn (`Shaped`), one operation is under way (`Alone`), and
  `committed` counts the whole frames of the file except between a rename and the step that settles it,
  or while the header is all there is (`LengthsFit`). So what the guard cuts is never a whole entry.
* `QueueInv`: the queue in memory is what a restart would find, but for the operation under way
  (`MemoryFollows` says how far each has come), a marked entry is dead on disk, and the id of a settled
  one is in the acknowledgement file until its frame is gone.
* `SequencesInv`: the highest number given to a job's event is in the sequence file or in a frame. After
  a second end it need not be: a number whose frame the compaction of `open` removed is nowhere until the next
  `ack`, hence "at most once" in `SequencesSurvive`.

`StepIsQueue` maps each step to the abstract queue: a write that reaches the disk is `Put`, the acknowledgement
file is `Settle`, the rename after a mark is `MarkDead`, and a compaction, a cut, a process end and a start leave
what a restart would find as it is. What a filter keeps (`WithoutElements`, `WithoutAppend`) is proved from the
positions it keeps, without induction.

`OutboxFeedProofs`, for any number of browsers and writers, any page size and every fault:
`FeedTypeCorrect`, `CursorsCoverClients` and `SentInOrder`. `FeedInv` adds that a stream being
opened resumes at or after its client's last frame, which needs the retention floor to be a
minimum (`LeastIsLeast`, from the well-foundedness of `<` on the naturals).
`LosslessAlone` proves `Lossless` for one browser, one writer at a time and no faults, whatever
the page size, the number of events and of dropped connections. `AloneInv` says why: an open
transaction's sequence is above all stored ones, the cursor of a connected browser is the last
sequence it received, and the page continues where the cursor is and leaves out nothing before
its own elements. Each of the three is what a divergence above breaks.

`ScheduleProofs`, for any schedules, policies, periods, workers and crashes: `NothingQueuedAhead` and
`EachAnsweredOnce`. `StoreInv` says of the store that the windows of a row are disjoint, end at or
before its pointer, and leave no instant out where the policy answers for everything. `PollInv` is the
strengthening: what a poll remembers of a row never runs ahead of the row's pointer (`Lags`), however
old the list it works on is, so the guarded UPDATE matches only a pointer that nobody has moved.

`ReportDispatchProofs`, under `LeasesLast` (`Outlive = FALSE`), for any number of dispatchers, deliveries,
attempts and faults: `DispatchTypeCorrect`, `InOneHand`, `SentOnceUnlessFault` and `EndsStand`.
`DispatchInv` adds that a held row is leased to one hand, with the attempts that hand read (`Leased`), and
that a row which may still be claimed has an attempt and an arrival to spare (`Counted`): a fault
pays for the claim that follows it.

`DeliverySyncProofs`, for any number of processes, syncs and items, any attempts, batch size and
look-back, any lists and every mishap: `SyncTyped`, `WriterIsAlone` and `WalkSkipsNothing`.

* `Ordered` says what a worker's list names (rows of the source, each with a lease it was given) and how
  the rows' states and attempts go together. A lease is named once (`NewLease` is one that no record of
  the row has, by a counting argument), so whoever presents a row's lease was given it last.
* `LeaseInv` is what `SoleWriter` needs: at most one list holds the lease of a running row. A claim with
  rows to spare beside a lapsed holder breaks it, so `WriterIsAlone` states `SoleWriter` where a claim takes
  every row whose turn it is (`BatchTakesAll`), and otherwise as long as no lease was outlived. Without
  either it is false, as shown above for `BatchSize = 1`.
* `WalkInv` is what `NothingSkipped` needs of a walk under way: everything up to the cursor is stored as it
  now is, and of what is up to the newest instant the walk has seen, whatever is not stored is on a page the
  walk still has to ask for, because an item that changes moves to the front of the list and what it passes
  moves back. Until the first outlived lease only the one walk moves the cursor.

`RunnerDeliveryProofs`, for any number of jobs, leases, events and entries, any batch size and budget,
whatever request, answer or acknowledgement fails and whenever the runner restarts.

* Every step is one of six kinds (`StepKinds`), and to the rows it is a claim or the handling of one
  batch (`RowSteps`); the proofs go by these instead of by action. `Picking` says of a filtered
  sequence what it keeps and in which order.
* `NothingForgotten` is `AckedWereTaken`. `DeliveryInv` adds that no lease is granted twice (`LeasesOnce`: no
  id that a queue, request, row or history names is of a lease above the last granted one) and that what
  a flush counts as sent was taken (`SentIsTaken`). What is taken stays taken, since rows only grow and
  a lost lease is not granted again.
* `CompletionComesLast` is `CompletionAfterEvents`. `OrderInv` adds that a flush holds the front of the queue
  (`PendingIsFront`: what is ahead of a pending entry is pending or dead) and that a completion is the
  last entry of its lease (`CompletionIsLast`: its execution is over, and stays over).
* `NumbersHaveNoHole`: the numbers of a run's events follow one another from those another runner sent,
  for every value of `Rejoin`.
* `EventsHaveNoHole` and `EventsUnderOwnLease` are `NoHoles`, which orders leases as well, and
  `StoredUnderOwnLease`, where `Rejoin = FALSE`. `OneExecution` is the strengthening: only the last granted
  lease of a job is executed, so the queue, what is pending and every request are in the order of their
  leases, and a batch whose first entry presents the lease the job holds is of that lease altogether.
  With `Rejoin = TRUE` both are false, as shown above.

`LeaseRowLegal`, `TokenNamesOneRunner`, `HolderWasGranted`, `FeedTypeOK` and `CursorCoversClient` are
proved and no longer part of a run. `OneAtATime`, `LeasesLast`, `Alone`, `Rejoin = FALSE` and, in the
spool, `Overlap = FALSE` are assumptions about the
deployment and not the code; the runs that check these properties make them too, and the section
above says what happens without them.

Only model-checked: everything under fairness (`RunEnds`, `Reaches`, `DrainsAlone`, `Answered`,
`SyncEnds`, `DeploysArrive`, `AllEnd`), which is out of the prover's reach. Every safety property of a
passing run is proved, under the assumptions that run makes.

## Not modelled, and the plan

Not modelled in `JobLease`: duplicate submissions and `retryRun` (which look up an idempotency
key before inserting), event sequences and deduplication, artifacts, approvals, the gate saved
after the transaction, capability and label matching with its window of 50 candidates, and the
worker's own claim and completion path, which `apps/worker/src/main.ts` never enables. Not
modelled in `OutboxFeed`: the polled stream of a feed without `subscribe`, the in-process bus and
its publish retries, a browser that reconnects before the server noticed that it was gone, and
several workspaces.

Not modelled in `RunnerDelivery`: artifacts, back-off delays, and who asked for a flush. Not modelled in
`DeliverySync`: the other two streams, webhooks that write items directly, and the sources that share
a batch. Not modelled in `ReportDispatch`: channels and rendering. A skipped schedule queues nothing,
so nothing is said of what it skips. The project keeps to a dozen runs and forty properties; what joins
it next replaces what the proofs have made redundant, as five invariants of the queue and the feed
were replaced here.

In this order:

1. `RunSubmission`: `createRun` and `retryRun` with one idempotency key submitted twice
   (`drizzle-execution-store.ts:629`).
2. `ArtifactStore`: bytes before the row that names them, and the compensation (`:1749`).
3. `RunnerRegistry`: token rotation with a lost answer (`runners.routes.ts:51`), and capability matching
   with its window of 50 candidates (`:1088`).
4. `OutboxFeed`: a statement of what retention promises a stream that lags.
5. Proofs: what of the spool's promises holds while operations overlap.
