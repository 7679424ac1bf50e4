# Portrait Engine: a TLA+ verification project

Portrait Engine turns an uploaded photo into an enhanced one. A client asks an
API for a job; PostgreSQL holds the job's state; a NATS JetStream work queue
says that there is work; worker processes claim the job, run an image pipeline
and store the result in an S3 bucket. The image work is ordinary sequential
code. What is hard is the coordination: four systems that fail independently,
any number of API and worker replicas, at-least-once delivery, retries, cancels
and shutdowns, held together by guarded `UPDATE ... WHERE status = ...`
statements. That coordination is what this project models.

## 1. Inventory

| Component (source) | State | Operations | Interacts with |
|---|---|---|---|
| State machine, errors (`internal/domain`) | none | `CanTransition`, `IsTerminal`, `Classify`, `IsCancellation` | everybody |
| Repository (`internal/repository`, `migrations`) | `jobs`, `attempts`, `processing_steps`, `artifacts`, `idempotency_keys` rows | `CreateJob`, `UpdateJobStatus`, `BeginAttempt`, `FinishAttempt`, `AddProcessingStep`, `AddArtifact`, `ListRequeueable` | called by service, handler, sweep |
| Service (`internal/jobs`) | none of its own; each request keeps what it read | `CreateUpload`, `CreateJob` (+ `enqueue`), `CancelJob` | repository, storage, publisher |
| Messaging (`internal/messaging`) | stream, delivery counts, pending acks | `Publish`, `Next`, `Ack`, `Nak`, `Term`, `Stop` | service and sweep publish, pool consumes |
| Pool (`internal/worker/pool.go`) | dispatcher, workers, channel, two contexts | `Run`, `process`, `handleWithRecovery` | consumer, handler |
| Handler (`internal/worker/handler.go`) | one attempt's locals and its cancel watcher | `Handle` | repository, storage, pipeline |
| Sweep (`internal/worker/requeue.go`) | none | `Sweep` at process start | repository, publisher |
| Pipeline, registry, image | one run's image, faces and step records | `Run`, the five processors, `Decode`, `Encode` | called by handler |
| Storage (`internal/storage`) | the bucket, presigned URLs | `PresignUpload`, `Stat`, `Get`, `Put`, the checks of uploads and ids | client, service, handler |
| Backoff (`internal/worker/retry.go`) | none | `backoff` | handler |
| API process (`cmd/api`, `internal/api`) | listener, requests in flight, connections to open and close | boot, serve, graceful and forced shutdown | service, pool, broker |
| Database connection (`repository/postgres.go`) | the connections of a process | `NewPool`, acquire, `Close` | every repository call |
| Config, observability | none | `Load`, `validate`, signals, tracing | boot |

Hard behaviours, and what correctness means there:

* **Claims.** The `QUEUED -> PROCESSING` guard is the only lock; a message may
  be delivered several times at once. No job may have two owners, and an owner
  must find its job as it left it, apart from a cancel.
* **Retries.** The walk `PROCESSING -> FAILED -> RETRYING -> QUEUED` is three
  statements, and two limits (`max_attempts`, `MaxDeliver`) bound it. Attempts
  must neither be exceeded nor given up early, and end states must be final.
* **Results.** Object, artifact row, attempt row and status are written by four
  calls that can each fail half-way. `COMPLETED` must imply all of them.
* **Losing work.** Between a database row and a queue message, an unfinished
  job must always be in somebody's hands.
* **Idempotent creation.** Racing requests with one key must get one job.
* **Cancel.** What the client is told must be true, and stay true.
* **Uploads.** What was admitted may not be what a worker reads, because the
  presigned URL outlives the check; a completed job must still be one whole
  enhancement of one object, and its row must describe what is in the bucket.
* **Two halves.** The service and the workers write the same column, each relying
  on what the other does not do.
* **API shutdown.** Between the status update of `enqueue` and its publish a
  request must not lose the broker, and closing the pool must not wait for ever.
* **Worker shutdown.** No send on a closed channel, nothing dropped, jobs spared until
  the timeout, and an end.

`PROJECT.json` lists each hazard at its line with the properties aimed at it.

## 2. Modules

| Module | Models |
|---|---|
| `JobStates` | `internal/domain`: statuses, transition table, error classes |
| `JobLifecycle` | the abstract specification: one job's status and attempt count |
| `JobWorker` | enqueue, stream, every step of `Handle`, settling, crash, restart, sweep |
| `JobService` | `CreateJob` and `CancelJob` against the database |
| `WorkerPool` | `Pool.Run` and its goroutines |
| `System` | `JobService` and `JobWorker` on one set of rows and one stream |
| `Attempt` | one upload, its admission, and `runPipeline` stage by stage, with backoff |
| `ApiServer` | `cmd/api`: boot, requests in flight, shutdown, deferred closes |
| `JobWorkerProofs`, `JobWorkerCalmProofs`, `JobServiceProofs`, `WorkerPoolProofs`, `AttemptProofs`, `ApiServerProofs`, `SystemProofs` | theorems and their proofs |
| `MC...` | the model values of the TLC instances |

Operators whose comment begins "Seeded fault" are deliberately wrong variants
of the definition that follows them. No specification uses them; putting one in
the place of its original must break the property `PROJECT.json` pairs it with.

### JobWorker

One action is one call on the database, the bucket or the queue; between two of
them any other actor may move. `pc[w]` is the line of `Handle` a worker is at:
`get` and `begin` (load and claim), `load`, `proc`, `put`, `art` (`runPipeline`),
`steps`, then `finok`/`complete` (`finalizeSuccess`) or `finerr`/`recheck` and
`fail` or `retry1..3` (`finalizeFailure`, `markFailed`, `scheduleRetry`), and
`ack`/`nak`/`term`, where the pool settles the delivery. `Owning` are the points
between the claim and the last status write.

* `status`, `attempts`, `lastErr`, `rows`, `artifact`, `blob` are the columns
  and objects the code writes. Errors are kept as the class the handler tells
  apart: permanent or not, around a context error or not.
* `stream` is the sequence of messages ever published, each ready, pending or
  gone, with its delivery count. `Publish` may be swallowed by the
  deduplication window, which the code sets to two minutes: with time left out,
  a second publish of a job may or may not be swallowed.
* A prefetched message waiting in the iterator's buffer behaves like a worker
  standing at `get`, so the buffer is not kept here (it is in `WorkerPool`).
* `Start` sweeps some subset of the `QUEUED` jobs: which ones are older than a
  minute is left open.
* A call that fails (`Fault`) may have taken effect or not; a failing
  `ctx` before the claim counts as such a fault. `ApiFault` is the same for
  the creating request, its process dying included. A crash clears the locals
  of all workers of a replica; their deliveries stay pending until AckWait.
* Left out: `next_retry_at`, which no code reads; the step rows and the backoff
  delay, which are in `Attempt` (`Nak` makes a message ready at some later time).

### JobService

A creating request goes through `stat`, `insert`, `claim`, `commit` or
`resolve` and `load`, then `enqueue`, `publish`, `reload`. Rows of an open
transaction are not in `status` or `keys`; the uncommitted key is `lock[k]`, and
another insert of it waits, as PostgreSQL makes `ON CONFLICT DO NOTHING` wait.
`CancelRead` and `CancelUpdate` are the two-try loop of `CancelJob`. `Work` is
what workers do to the status of a published job. The body of a request is its
hash; `requestHash` is taken to be injective.

### WorkerPool

`disp`, `wk` and `run` are the program counters of the dispatcher, the workers
and `Run`. `work` is unbuffered, so a send and its receive are one step.
`msg[m]` follows a delivery through the iterator's buffer to its outcome. A
handler may take for ever as long as its context is not done. The dispatcher's
branch on `procCtx.Done()` has no action: `Run` cancels `procCtx` only after
the dispatcher has ended, so the branch is dead, which `NoSendAfterClose` shows.

### System

`System` extends `JobService` and instantiates `JobWorker` on the same `status` and
adds the stream; the worker's program counter and fault count, whose names
`JobService` uses too, are `wpc` and `wfaults` here, and the composed actions are
`SysCreate`, `SysCancelJob`, `Handle`, `Deliver` and so on up to `SysNext`.
`SysCreate` couples the request's publish with the stream; a step of the queue or
of a worker leaves the requests alone. One variable decides nothing and only
records what the workers' view needs: `api`, how far the enqueue of a job has
come, over all its requests. `ServiceSpec` and `WorkerSpec` say that the
composition implements both parts: `JobService` reduced the workers to `Work`, the
five edges along which they may move the row of a queued job, and `JobWorker`
reduced all requests for a job to one `Enqueue` and `PublishJob`, and neither
reduction leaves out anything the other half does, replays, sweeps and cancels
included. For `JobWorker`, a row that is not committed yet is one that is not
enqueued (`Rows`).

### Attempt

One object, one job, one worker at a time, but every stage. A client PUTs
whatever it likes as long as the presigned URL lives; `CreateJob` looks at the
object there is then (`admitted`), the worker at the one there is later (`read`).
An image is its source, its size, the operations done to it, and the size at
which its faces were found. `CheckContext` and `RunStage` are the loop of
`Pipeline.Run`; `steps` are the records it makes and `saved` those of them that
`persistSteps` got into the database. `Backoff(n)` is the set of delays that
`backoff(n)` can return. `RunContract` ties this module to `JobWorker`: read
through `CoarsePC`, each of its steps is one of `JobWorker`'s actions for the same
part of `Handle`, or none.

### ApiServer

`main` is where `run()` is, from loading the configuration to the deferred
closes. A request is the sequence of calls its handler makes (`Calls`); a database
call takes a connection and gives it back, a publish needs the broker, and a call
whose context is done fails. `Drained` and `ForceClose` are the two ways out of
`srv.Shutdown`, `ServeFailed` the early return when the listener fails, which
waits for no handler. `ShutdownEnds` is about a shutdown by signal: after a failed
listener `pool.Close` waits for a call whose context nobody ends. `Calls` has the
calls of a handler that meets no conflict; `CancelJob`'s second try and the replay
and reload paths of `CreateJob` are `JobService`'s. `WriteTimeout` leaves a handler running whose answer nobody
will read. What the calls do to the rows is reduced to `row` and `published`.

### The abstract specification

`JobLifecycle` says what a client may rely on: a job's status moves one edge of
the state machine at a time, attempts are counted at claims and only there, no
claim goes beyond `max_attempts`, and a retry happens only while attempts remain.
`JobWorker` implements it with the same two variables (`LifecycleSpec`).

## 3. Runs

| Run | Instance | Shows |
|---|---|---|
| `adversity` | 1 job, 2 processes of 1 worker, 2 attempts, 3 deliveries; 1 crash, 1 fault, 1 expired AckWait, 1 panic | `TypeOK`, `SingleOwner`, `OwnerView`, `RetryBudget`, `AttemptLedger`, `ResultIntegrity`, `OutcomeIsFinal`, `LossExplained`, `LifecycleSpec` |
| `smooth` | 2 jobs, one unusable, 1 message naming no job, no crash, fault, expiry or panic; 2 attempts, 2 deliveries; fair | `NoOrphanedJob`, `FailureJustified`, `AttemptsRunOutFirst`, `EveryJobSettles`, `QueueDrains` |
| `idempotency` | 3 requests on 1 key with 2 bodies, 1 cancel, 2 faults, workers at will | `TypeOK`, `OneJobPerKey`, `SameKeySameJob`, `KeyBindsBody`, `PublishedOnce`, `CancelHolds` |
| `pool` | 2 workers, 4 deliveries, one unparseable, 1 error of `Next`, job timeout set; fair | `TypeOK`, `OneHolder`, `NoSendAfterClose`, `CleanReturn`, `SignalSparesJobs`, `ShutdownCompletes`, `QueueIsServed` |
| `system` | 2 requests on 1 key, 1 cancel, 1 worker, 2 attempts, 1 delivery per message; 1 failing call of a request, 1 crash with restart and sweep | `ServiceSpec`, `WorkerSpec` |
| `system_live` | 2 requests on 1 key, 1 worker, 1 attempt, 2 deliveries; 1 failing call, 1 crash, 1 expired AckWait, 1 panic; fair | `AcceptedSettles`, `SweepHeals`, `EveryRequestAnswered` |
| `attempt` | 1 upload, objects of every size around the limits, corrupt and faceless ones, 2 attempts, 1 failing artifact row, 1 failing step row | `CompletedIsWhole`, `StepAudit`, `AdmittedFits`, `BackoffInterval`, `RunContract` |
| `api_server` | a creating, a listing and a health request on 1 database connection, 1 failing call or panic; fair | `DrainLosesNothing`, `HalfEnqueueExplained`, `ShutdownEnds` |

Runs that end in a violation, each of something the repository says of itself
(the quotations are in `PROJECT.json`):

| Run | What happens |
|---|---|
| `lost_on_duplicate` | AckWait expires during an attempt, the duplicate is acked and takes the message with it; the attempt retries, its Nak brings nothing back |
| `sound_job_failed` | a storage error during `Decode` counts as permanent |
| `replay_not_healed` | after an enqueue whose update reported an error but went through (the shortest trace), or whose publish failed, a replay answers success and nobody publishes |
| `cancel_refused` | two conflicts in a row and a running job is refused as terminal; a claim that comes before the request's own publish is one of a message that a starting worker's sweep published, and with the publish first the refusal is the same |

Three more of that kind have no run of their own; change the instance and TLC
shows them. `NoJobIsLost` also fails with no expiry and one panic
(`MaxPanics = 1` in `LostOnDuplicate.cfg`): the recovered panic leaves the job
PROCESSING, and its redelivery is taken for a duplicate and acked.
`ShutdownCompletes` fails with `HasJobTimeout = FALSE`, which `handleWithRecovery`
allows: a delivery in the dispatcher's hand keeps `Run` from ever starting its
shutdown timer. And `AcceptedSettles` needs its exception for failing calls: that
is `replay_not_healed` again, seen from the client, until a worker restarts.

Some guarantees of the passing runs hold only within their bounds, and it is
worth knowing what the first step beyond does. `AckOnlyHandled`, that an ack is
decided on only for a job that has ended or is owned, is proved for the calm system
(section 4). With one database fault it fails: `markFailed` only logs the error of its update and the
delivery is acked, and a delivery nakked after a failed update is acked on
redelivery because the job is still PROCESSING. With two faults,
`AttemptsRunOutFirst` fails, even when MaxDeliver exceeds `max_attempts`:
deliveries that never reach a claim count too. With one error of `Next` the
dispatcher ends and the process idles, which is why `QueueIsServed` excepts it. And
`ResultIntegrity` says nothing of CANCELLED jobs, which keep an artifact row
that was written before the guard refused COMPLETED.

`LossExplained` is what can be said under all of these failures: which of them a
job that was left behind is due to. An expired AckWait and the duplicate it
brings can cost a QUEUED job its message, which a sweep makes good, but never
strand a claimed job, which no sweep looks for; only a crash, a failing call or a
panic does.

What the violation runs do not say: a job stranded in PROCESSING by a process
crash is a gap the repository's README declares, so no property claims the
opposite, and `smooth` states its guarantees for the crash-free system.

**Bounds.** One job suffices for the safety of a claim, because no action reads
two jobs; two workers in two processes give every race over one message, and one
each of crash, fault, expiry and panic in any order and at any step give the
combinations of a failed attempt with a late duplicate. Two attempts give a
retry and an exhausted retry. In `smooth` the deliveries equal the attempts,
which is the tightest configuration in which the queue can still work. Four
deliveries over two workers fill the workers and the dispatcher's hand and leave
one in the buffer. In `system` two requests on one key are what it takes to race,
to replay and to conflict; the second attempt of a retried job comes with a message
that a sweep published, after a failed publish or beside the message that is there
already. Redelivered, expired and panicking deliveries are in `system_live`, and
for two workers in `adversity`; `ImplementsService` and `ImplementsWorkers` prove
the refinement with all of them together. The sizes in
`attempt` run from zero to one past each limit, and the comparison of delays goes
past the attempt at which the cap bites. One connection for two requests that
need one makes them wait for each other in `api_server`. Symmetry is used only in
safety runs, over replicas that no constant tells apart. `CHECK_DEADLOCK FALSE` is set because a
system whose jobs have all ended, or whose pool has returned, rightly stops.

**Fairness.** `JobWorker`: a goroutine with a call to make makes it, JetStream
hands ready messages to idle workers and redelivers after AckWait, an orchestrator
restarts a dead worker, a request that was started is carried through. Cancels,
timeouts, errors and crashes are never owed. The pull consumer is taken to serve
some ready message when a worker is idle, not each particular one.
`JobService`: requests make their calls; workers owe nothing.
`System`: both, a sweep that was started goes on, and a worker process comes back.
`ApiServer`: `run()` goes on when it can, the shutdown timer fires, and a database
call returns once its context is done; a call whose context is live may hang.
`WorkerPool`: goroutines run, timers fire, a handler returns once its context is
done. A handler whose context is live owes nothing, so that termination really
rests on the timeouts.

## 4. Theorems

Proved for every set of jobs, workers, replicas, requests, keys, objects and
messages and every bound, from the assumptions on the constants alone:
`JobsAssumption`, `ConfigAssumption` (what `config.validate` enforces) and
`BoundAssumption`; `RequestAssumption`, `ServiceBounds`; `PoolAssumption`;
`LimitAssumption`, `ObjectAssumption`; `ServerAssumption`, `RoutesAssumption`;
`WorkerAssumption`.
Nothing says that replicas are disjoint or sets finite, except for the workers of
a pool. In each module the invariant (`IndInv`) was model-checked before it was
proved, and is split into parts for one worker, job, request or key, so that an
action has to be examined only for the parts it touches, and one or two framing
lemmas carry the others over. There is a lemma per action, or per group of
actions that do the same to the invariant.

`JobWorkerProofs`: `TypeCorrect`, `OwnerIsUnique`, `OwnerSeesOwnState`,
`AttemptsSuffice`, `LedgerCorrect`, `CompletedHasResult`, `OutcomesAreFinal` and
`Refinement`. `SingleOwner` alone is not inductive: that a second claim is
impossible rests on the status (`OwnerView`: an owned job is never QUEUED), that
on nobody else writing it (`SingleOwner`), and the attempt bound on both plus
`RetryBudget`. `ResultIntegrity` needs what the owner has already written when
it declares success, which is the last part of `WInv`. The refinement then shows
that each step is a step of one job's abstract life or none.

`JobWorkerCalmProofs`: `NoJobOrphaned`, `FailuresJustified` and
`DeliveriesSuffice`, the guarantees of `smooth`, `AcksAreSafe` (`AckOnlyHandled`)
and `NeverLost`, the one that
`lost_on_duplicate` breaks with a single expiry, under `Calm`: no crash, fault,
expiry or panic, and MaxDeliver at least `max_attempts`. They are false without
it (section 3). Storage and processor errors, timeouts, cancels and retries remain.
The argument follows the one message of a job (`OneMessage`). While it waits, its
delivery count equals `attempt_count` (`Waits`); from its delivery to the claim it is
one ahead, and after the claim they are equal again (`InHand`). So a job that
waits always has a delivery left, because it has an attempt left (`RetryBudget`);
and the decision a handler returns suits the status its last write left. The
invariant (`CalmInv`) is proved not only of a system in which nothing can fail but of
any system until something has (`Quiet`), which is `QuietOrphansNone`.
`LossesExplained` (`LossExplained`) adds two facts with fewer excuses: without a
failing call no request stops before its enqueue (`GivenUp`), and without a crash, a
failing call or a panic an owner that gives its job up leaves it finished, cancelled
or QUEUED (`Stranded`, `HandsOver`), duplicates or not. It needs MaxDeliver at least
`max_attempts`: otherwise the queue gives jobs up with nothing having failed.

`JobServiceProofs`: `TypeCorrect`, `OneRow`, `OneAnswer`, `BodyBound`,
`OnePublish`, `CancelIsFinal`. What makes them inductive: a lock on a key belongs
to a transaction at `commit` and excludes a stored key, a stored key names a
committed row made from the stored body (`KInv`); a request past the repository
holds the job of its key (`Bound`); whoever is at `publish` is alone and the first
(`JInv`). Everything else follows from what all steps have in common
(`RowsGrow`): rows and keys stay, and nothing returns to PENDING. `OnlyFaultsLose`
is the other side of `replay_not_healed`: as long as no call has failed, a job that
a client was told of is published, about to be, or cancelled. It needs two more
invariants: a success is always about a job past PENDING (`AnswerInv`), and without
a fault such a job was published by the request whose guarded update won, or is
about to be by it (`PublishInv`).

`WorkerPoolProofs`: `PoolTypeCorrect`, `DeliveryHasOneHolder`, `ChannelIsSafe`,
`ReturnIsClean` and `JobsOutliveTheSignal`, from the invariant that relates each
step of the shutdown sequence to what must have ended before it (`DrainOrder`).

`AttemptProofs`: `Whole`, `Audit`, `Fitting`, `Contract`, `BackoffExact`, `Delays`. The
image in hand is a function of the object read and of the number of steps recorded
(`After`), which makes the output of five stages the whole enhancement; a COMPLETED
job gets no further attempt, so that nothing overwrites what its last one stored.
`Contract` (`RunContract`) pairs each stage with the action of `JobWorker` that
stands for it: same outcome, same errors for the same causes, or no visible step.
`BackoffExact` compares `Backoff(n)` with the interval of the comment for every
attempt number `n`. The documented exponent has no bound, so `Doubled` is a
recursive function; that it exists, unfolds, and stays past the cap from the sixth
attempt on is shown by induction in the form "a nonempty set of numbers has a least
element" (`Least`). `Delays` (`BackoffInterval`) follows with the invariant that a
waiting job's delay was drawn for the attempt it has behind it (`DelayInv`).

`ApiServerProofs`: `CleanExit`, `HalfEnqueue`, from which resources are open in each
phase of `run()` (`PInv`) and who is to blame for what a request left behind
(`RInv`): a request is active only while the broker is open, or `run()` returns
with an error.

`SystemProofs`: the composition, for any requests, replicas, cancels and failures.
`ImplementsService` shows that a worker's step moves at most one row, along an edge
of `Work`, and touches nothing else a request reads. So `JobService`'s invariant
holds of the system (`ServiceInvariance`), and with it all that is proved of
requests, keys and cancels (`PromisesKept`). `ImplementsWorkers` uses that
invariant: whoever publishes a job is alone and the first, so that all requests for
it look like one `Enqueue` and one `PublishJob`. Its own invariant adds what the
queue and the workers hold (`QueueInv`: messages and claims only of jobs) and that
`api` tells the truth about requests (`ApiInv`), so that no worker ever has a row
whose status the mapping changes. `Proved` then instantiates the theorems about
`JobWorker` under the same mapping, with its assumptions on the constants proved:
`WorkersKeepOrder` and `OutcomesLast` state the owners', attempts', results' and end
states' guarantees for the whole system. `AcceptedNotLost` needs both halves: until
the first crash, expiry or panic, or failing call of a worker or of an enqueue, a job
that a client was told of and that has not ended has an owner, a message that will be
delivered, or a request about to publish it. After one call of an enqueue has failed
it is false, as `replay_not_healed` shows.

Only model-checked: liveness (`EveryJobSettles`, `QueueDrains`,
`EveryRequestAnswered`, `AcceptedSettles`, `SweepHeals`, `ShutdownCompletes`,
`QueueIsServed`, `ShutdownEnds`), which needs fairness and ENABLED and is out of
the prover's reach.

## 5. Not modelled

Pixel arithmetic, the face detector included: an operation is its name, and
a face is something that an object has or lacks. JSON, body limits, request ids,
error texts, logging and metrics, which no property above depends on.
Environment parsing: the constants stand for the parsed values, with the
assumptions that `config.validate` enforces. The boot of a worker process,
whose failures end it before it touches a job, and its metrics server. The
connection pool of the worker process: a call that waits for a connection is a
call that takes long (see the hazard at `repository/jobs.go:224`).

Time is abstracted throughout: a timeout may pass at any point, so nothing is
said about how long anything takes, and neither AckWait against the job timeout
nor the two-minute deduplication window is a number here.

## 6. Plan

Done: the worker system, the service, their composition, the pool, the attempt
with its pipeline, uploads and backoff, the API process; a proof of every
invariant, action property and refinement that a passing run checks.

1. The parts of `LossExplained` with fewer excuses for the composition, where a
   failing call of one request may be made good by a replay.
2. The worker's connection pool, with `BeginAttempt` holding one connection and
   asking for a second.
