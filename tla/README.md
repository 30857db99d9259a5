# TLA+ models of the inference server in this repository

The repository (FinBERT) holds three programs: the BERT training scripts in
Python (`bert/`, `bert-gpu/*.py`, with the repository's own data preparation in
`data/` and `data-engineering/`), and the TensorRT Inference Server with its
client library in `bert-gpu/tensorrt-inference-server/` (C++), which serves the
trained models. The scripts are sequential batch jobs; the server and its
clients are where threads, queues, callbacks and timeouts interact. The
specifications here are about the server and the C++ client.
Paths below are relative to `src/bert-gpu/tensorrt-inference-server/src/`.

## The system

| component | state | operations | what makes it correct | modelled in |
|---|---|---|---|---|
| Model life cycle (`core/model_repository_manager.cc`, `BackendLifeCycle`) | a `BackendInfo` per model version: state, postponed action, configuration, handle; release queue | `AsyncLoad`, `GetBackendHandle`, worker threads creating backends, callbacks of destroyed handles | one backend per version; the last load or unload asked for wins; a backend in use is never released | `BackendLifeCycle`, `ModelService` |
| Model repository (`Poll`, `PollAndUpdate`, `VersionsToLoad`) | `infos_`: configuration and modification time per model | poll, load/unload added, modified and deleted models | what is served follows what is on disk | `InferenceServer` |
| Server (`core/server.cc`, `servers/main.cc`) and its status (`core/server_status.cc`) | ready state, in-flight count, a status per model | `Init`, `Stop`, `Handle*`, signals | shutdown waits for requests and backends; readiness means that models are served | `InferenceServer` |
| Dynamic batcher (`core/dynamic_batch_scheduler.cc`) | one queue, a pending batch, idle runner count | `Enqueue`, runner threads, `GetDynamicBatch` | every request runs once, in FIFO batches of the allowed sizes and equal shapes; no runner sleeps while there is work | `DynamicBatcher` |
| Sequence batcher (`core/sequence_batch_scheduler.cc`) | correlation id to slot and backlog maps, ready slots, per-runner slot queues, idle timestamps | `Enqueue`, `ReleaseBatchSlot`, reaper thread, runner threads | a sequence keeps its slot; requests of a sequence run in order; slots are never lost or shared | `SequenceBatcher` |
| Ensemble scheduler (`core/ensemble_scheduler.cc`, `core/ensemble_utils.cc`) | tensors computed so far, in-flight steps, ensemble status | `Proceed`, step callbacks; consistency of ensembles | a step runs once, when its inputs exist; the request completes once | `EnsembleContext`, `EnsembleConfigs` |
| Providers (`core/provider.cc`, `core/label_provider.cc`) and backends (`backends/`, `custom/`) | blocks of an input, buffers of an output, the tensors of a batch | normalize, hand out inputs, gather, execute, scatter, finalize | a response is made of its own request's data; an error stays with its request | `InferRequest`, `BatchExecution`, `InferResponse` |
| Model configuration (`core/model_config*.cc`, `core/autofill.cc`, the backends' `autofill.cc`) | none: functions of files and messages | complete, validate, derive | what is derived is accepted; completing twice is completing once | `ModelConfig` |
| gRPC contexts (`nvrpc/`, `servers/grpc_server.cc`) | life cycle of each call and stream: outstanding operations, write queue | completion queue callbacks, request threads, shutdown | one response per request, in order; one `Finish`; no memory cleared in use | `GrpcContexts` |
| HTTP and gRPC endpoints (`servers/`) | ports and options | routing, health, profile, status, infer | both protocols reach the same model and say the same | `Endpoints` |
| Client library (`clients/c++/request*.cc`) | inputs and results of a request, the asynchronous requests of a context | set, serialize, transfer, read | what is read is what was set, whatever the pieces | `ClientRequests`, `PerfClient` |
| Performance client (`clients/c++/perf_client.cc`) | workers, shares of the load, timestamps | launch, spread, send, collect, measure | the load is the one reported; the client leaves when told to | `PerfClient`, `PerfMeasure` |

Interactions: a front end takes an `InferBackendHandle` from the life cycle and
calls `HandleInfer`, which calls the `Enqueue` of the model's scheduler; the
scheduler's threads give batches to a backend and call each request's
completion function, which releases the handle. An ensemble's scheduler makes
such calls itself, one per step, and its own completion function runs on the
threads of the models it calls. A poll of the repository, on the main thread,
loads and unloads models while requests hold handles; the last handle to go
destroys the backend, its scheduler and their threads. A gRPC context is driven
by one executor thread and by the threads on which its requests complete.

What is hard: the life cycle of a version is driven by the poll, by workers and
by whichever thread drops the last handle; the repository changes while a poll
reads it; runner threads share one queue and notify each other outside of the
lock; a request to a sequence model goes through two locks, and a reaper thread
goes through both in one order while scheduler threads do in the other; the
steps of an ensemble complete in any order on threads of other models; one
payload of a batch may fail while the others go on; reads, writes and
executions of a stream complete in any order, also after its client is gone.

## How the modules fit together

A component that can be proved about has its specification, a `Proofs` module
with its theorems, and an `MC` module that gives its constants values for TLC.
`ModelService` is the abstract specification of the life cycle:
`LifeCycleRefinement` shows that `BackendLifeCycle` implements it, and
`InferenceServer` is composed with it by INSTANCE. `BatchService` and `DataFlow`
are those of the dynamic batcher and of an ensemble's request: `DynamicBatcher`
and `EnsembleContext` hold the instance of them that they implement.
`BatchExecution` extends `InferRequest`; `EnsembleConfigs` extends
`EnsembleContext` and `ModelConfig`; `Endpoints` extends `ClientRequests`, so that the client's and the server's
half of a call meet in one assumption.

Sequential code without retained state is written as operators. What they
promise is stated in named ASSUMEs, quantified over small inputs, which TLC
evaluates in the run of the module that extends them:

| run | evaluates |
|---|---|
| `execution_batches` | `InferResponse`: `OutputsAgree`, `ClassesOfOutput`, `ClassesAreLargest` |
| `ensemble_dataflow` | `ModelConfig`: `BatchSizeAgrees`, `ReshapeKeepsSize`, `CompletedOnce`, `CompletionRefusals`, `FilledIsAccepted`, `ListedTensorsBatch`, `UnreadIsNamed`; `EnsembleConfigs`: `EnsemblesWellFounded` |
| `perf_load` | `ClientRequests`: `InputsReadBack`, `RefusalKeepsTotal`, `ResultsReadBack`, `OutcomesAgree`; `PerfMeasure`: `WindowCentred`, `PercentileMeasured`, `StableIsRecent`, `IdentifiersDiffer`; `Endpoints`: `PortsApart`, `EndpointsReached`, `HealthPortForgotten`, `TransportsAgree`, `SameModelAsked` |

### BackendLifeCycle

`BackendLifeCycle` (`core/model_repository_manager.cc:137-793`).

- State: `info` is `map_` with the `BackendInfo` of each version (state, next
  action, configuration, platform, backend); `loader` the main thread inside
  `AsyncLoad`, which handles one version per step; `workers` the threads in
  `CreateBackendHandle`; `destroying`, `retired`, `releaseQueue` and `releaser`
  follow a backend from its last handle to the release thread; `request` is
  what a request thread is doing and the handle it holds.
- Actions: `AsyncLoad`, `AsyncLoadUnload`, `AsyncLoadLoad` (with the early
  returns of `Load` and `Unload`), `CopyConfig` and `FinishCreate` (a worker
  before and after it builds, when it also calls `TriggerNextAction`),
  `OnDestroy` (the callback of a backend's deleter), `QueueForRelease`,
  `TakeReleased` and `ClearReleased` (the release thread), `GetVersion`,
  `GetLatest` with `ExamineVersion` per version and `EndScan`
  (`GetBackendHandle` locks one version after another), `CompleteRequest`.
- History: `wanted` and `outcome` record what was last asked of a version and
  how its last creation ended.
- Left out: the destructor of `BackendLifeCycle`, which runs when every other
  thread has let go of the manager. What `GetLiveBackendStates` and
  `GetVersionStates` report is in `InferenceServer`.

### ModelService and LifeCycleRefinement

`ModelService` is what the rest of the server relies on: a version is started,
served, drained of its users and stopped, one instance at a time, with the
configuration asked for last. There are no threads, locks or postponed actions.
The refinement maps a version's `asked` to the history of requests and the
configuration in `BackendInfo`; its `phase` to the state (a `LOADING` version
with a postponed action is `outdated`, `UNAVAILABLE` and `UNKNOWN` are `down`);
what it `serves` to the configuration of the handle while `READY`; and `uses`
to the handles requests hold. `ImplementsService == Service!FairSpec` is
checked as a property of `lifecycle_reloads`, fairness included.

### InferenceServer

The process (`servers/main.cc`, `core/server.cc`, `core/server_status.cc`, and
`Create`, `Poll`, `PollAndUpdate`, `UnloadAllModels` of
`core/model_repository_manager.cc`).

- State: `disk` is the repository, which changes between any two reads of a
  poll; `main` and `poll` are the main thread and the poll under way, a step
  per directory or file it reads; `infos`, `manager`, `state` (`ready_state_`),
  `status`, `exiting` are members of the code; `asked`, `phase`, `serves`,
  `uses` are `ModelService`; `req` a request from its lookup to its answer, and
  the gRPC call it came by, open until it is finished.
- Actions: `InitServer` and a poll, `ListRepository` (which may fail, and then
  nothing is read), `PollChild`/`PollConfig`/`PollEnd`, `InitForModel`,
  `LoadModel`, `UpdateConfigForModel`, `UnloadDeleted`, `EndUpdate` (the first
  poll hands over the manager) and `InitEnds` (`SERVER_READY`, a step of its
  own); `LoopTest`, `LoopWait` and `Signal` (the handler locks `exit_mu_`);
  `Stop`, `UnloadAllModels`, `ReadLive`, `ReadInflight`; `ShutdownGrpc`, from
  which on no call is accepted, and `Exit`, which waits until none is open;
  requests `Begin`, `Lookup`, `Admit`, `Count`, `Answer`, `Uncount`, `GiveUp`,
  `Record`, over HTTP or within `OpenCall` and `CloseCall`. Readiness test,
  counter and handle are separate steps, as in the code. A call here is open or
  not; how a stream comes to its end is in `GrpcContexts`.
- A model's contents are named by the stamp of their last change; a
  configuration has the stamp of what it was read from.
- Left out: the counters of the status; a version policy other than all
  versions; strict-mode switches of the command line.

### GrpcContexts

`nvrpc/` (`LifeCycleUnary.h`, `BidirectionalStreamingLifeCycle.h`,
`Executor.cc`, `Server.cc`) with the contexts of `servers/grpc_server.cc`.

- State per context: `life` (`m_NextState`, the live contexts and the write
  queue), `call` (the operations gRPC has not yet reported) and `client` (what
  its client still sends, half-closed, broken); `rpc` the requests; `exec` the
  executor thread between two locks of `m_QueueMutex`.
- Actions: one per state function and outcome (`StateInitializedDone`,
  `StateRequestDone`, `ReadFailed`, `StateResponseDone`, `WriteFailed`,
  `StateFinishedDone`), `ReadNext`, `WriteNext` and `Reset` for the second
  critical section of a handler, `CompleteExecution`, `Cancel`, `WriteFirst`
  on request threads, `ShutdownServer`, `ShutdownExecutor`.
- gRPC is external: an operation completes once, in any order with others. Its
  rules (one write at a time, one `Finish`, nothing after `Finish`) and the
  lifetime of memory are checked by `fault`, after which nothing happens.

### DynamicBatcher

`DynamicBatchScheduler` (`core/dynamic_batch_scheduler.cc`).

- `mode` is how the scheduler was set up, with batching or without, and held
  back by `TRTSERVER_DELAY_SCHEDULER` or not; it does not change.
- State: `queue`; `pending` (the size, count and shapes of the pending batch,
  which survive from one search to the next); `search` (the locals of
  `GetDynamicBatch`); each runner's position `pc` and `batch`; `notifying`,
  the `Enqueue` calls between the unlock and `notify_one`; `exit`.
- A critical section is one step, except `GetDynamicBatch`: `Join` and `Block`
  examine one request per step with the lock held.
- `Age` stands for the clock: the request at the front has waited for
  `pending_batch_delay_ns_`. The offsets in requests are history.
- `Destroy` requires that no request is queued or running: completion closures
  and callers hold handles, so the destructor cannot run before.
- `BatchService` is what all this amounts to: a queue from which a free runner
  takes the number of requests that is best given all that is queued
  (`Chosen`), in one step, and a service that ends when all is completed.
- Left out: statistics, the priority of the threads and the contents of requests.

### SequenceBatcher

`SequenceBatchScheduler` and `SequenceBatch`
(`core/sequence_batch_scheduler.cc`).

- State: `slotOf` (`sequence_to_batchslot_map_`), `backlogOf` and `backlog`
  (`sequence_to_backlog_map_`, `backlog_queues_`), `ready`
  (`ready_batch_slots_`, with multiplicity), the correlation timestamps as the
  set of sequences that may be idle, and per batcher its queues,
  `max_active_slot_` and active slots.
- `Enqueue` is two steps, since the scheduler's lock is given up before the
  batcher's is taken: `EnqueueToSlot` or `EnqueueToBacklog`, then `Deliver`.
  `RefillSlot`, `FreeSlot` and `ReleaseTooLate` are `ReleaseBatchSlot`, called
  by a scheduler thread that holds its batcher's lock. The reaper's scan
  (`StartScan` to `EndScan`) holds the scheduler's lock throughout and takes a
  batcher's in `EnqueueForceEnd`. `Destroy`, `DestroyMembers` and
  `DestroyBatcher` are the destructor, whose members go before the batchers.
- `Pipelined` says whether the next request of a sequence may be sent before
  `Enqueue` has returned for the previous one. It is FALSE in the runs: that is
  what synchronous callers and gRPC streams do. Asynchronous HTTP clients may
  do otherwise (the HTTP server has eight threads, `servers/main.cc:105`), and
  then an END can overtake the request before it.
- `Stalls` says whether a caller may be held between the two locks for as long
  as the idle limit (seconds by default); FALSE in the runs.
- Left out: `DelayScheduler` and the two environment variables that delay a
  scheduler for tests, the contents of control tensors (what an idle slot
  reads is in `BatchExecution`), statistics.

### EnsembleContext and EnsembleConfigs

`EnsembleScheduler` and `EnsembleContext` (`core/ensemble_scheduler.cc`), the
validation of an ensemble (`ValidateEnsembleSchedulingConfig`,
`core/model_config_utils.cc:495-676`), and in `EnsembleConfigs` the examination
of all ensembles of a repository (`core/ensemble_utils.cc`).

- `info` is one configuration of the set `Ensembles`: which tensors each step
  reads and writes. `Valid` is what validation accepts, with its data-flow
  check as the recursive function `Ready`.
- State: `data` (the tensors with data), `status`, `inflight`
  (`inflight_step_counter_`), `pending` (runs of steps prepared, and handed to
  their model or not); `runs` and `answers` are history.
- Actions: `Enqueue` (constructor and first `Proceed`), `Schedule` (a step is
  handed to `HandleInfer`, outside of `mutex_`), `Complete` (a step's
  completion function: `Succeed` with any subset of its outputs, `Fail`, or
  `Ignore` after the ensemble has failed). `PrepareSteps` and `GiveUp` contain
  `FinishEnsemble`, which answers the request.
- One request is enough: contexts share nothing but the configuration. The
  request may leave inputs out, because `NormalizeRequestHeader` compares the
  number of inputs and not their names.
- Left out: shapes, sizes and labels. That a size is wrong, a buffer missing,
  or a step not initialisable is a nondeterministic failure.
- `DataFlow` is the evaluation of the graph without counters or searches: a
  step is due when all it needs has data and was not due before, and the
  request is answered when nothing is active or at the first failure.
- `EnsembleConfigs` has a RECURSIVE operator (the examination follows the
  ensembles of an ensemble) and serves TLC's runs only.

### InferRequest, BatchExecution and InferResponse

One batch from its requests to their responses. `InferRequest` has the
normalization of a header (`NormalizeRequestHeader`), the split of an HTTP body
or a gRPC message into blocks per input, and the provider that hands them out.
`BatchExecution` (`backends/*/`, `custom/sdk`, `custom/identity`) is the rest of
the way: `CreateExecutionContexts` validates the model against its file, `Admit`
takes the requests, `Start` chooses the inputs (of the last payload for most
backends), `SetInput` gathers one input of all payloads, `Execute` is the
framework, `ReadOutput` scatters one output, and `Complete` answers. Each
backend has its own gathering and scattering operators. A tensor is the
sequence of its rows, and a row is a token that names the request, the input
and the row it was copied from, or that it is of nobody's data; a result names
the rows it was computed from. A buffer is its data and the set of places where
its blocks end, so that a read takes whole blocks however they were cut; the
position of a payload in a tensor is the number of rows of the payloads before
it (`Offset`, a cardinality, where the code adds up in a loop). An idle slot of
a sequence model is a payload with a header, normalized like any other, and no
body: it reads as many zeros as are asked for. `InferResponse` has where an output is stored
for HTTP, gRPC, an ensemble's step and an in-process caller, the classes made
of it, and the header that announces it.

Frameworks are functions of the rows they are given, which may fail or return
a shape nobody expects. Left out: device memory, CUDA streams and graphs, the
contents of rows.

### ModelConfig

Sizes and shapes (`core/model_config.cc`), completion and validation
(`core/model_config_utils.cc`) and autofill, as operators on configurations
whose absent fields are the empty sequence. What a framework reports about a
file it reads is an input.

### Endpoints and ClientRequests

`Endpoints` has the ports of the command line, the addresses a client builds
and the HTTP server takes apart, and what health, profile, status and infer
calls answer over either protocol. `ClientRequests` has the client library's
handling of data: inputs that are set by the user and read by the transport in
pieces of any size, results that arrive in pieces of any size, and the outcome
a call reports from what the transport and the server said.

### PerfClient and PerfMeasure

`PerfClient` is the performance client with the inference contexts of the
client library under it: the main thread (`Launch`, `Spread`, `Notify`,
`CheckHealth`, `Measure`, `Report`, `Quit`, `Wake`, `Join`), the workers of
ordinary and of sequence models (`Prepare`, `Send`, `Collect`, `Retire`,
`SendSequence`, `Poll`, `Destroy` ...), and per context the thread that
transfers requests over HTTP (`HttpAsyncTransfer`), unary gRPC
(`GrpcAsyncTransfer`) or a stream (`StreamAsyncTransfer`). The server answers
every request sooner or later, or ends a stream. It answers as executions end,
in any order; only the requests of a sequence execute in order (`Ordered`), and
those it refuses are answered ahead of them. A notification sent while its
thread tests the condition and does not yet sleep is lost; `missed` remembers
it. `PerfMeasure` is the arithmetic: window, latencies, percentile, stability.

## Runs

| run | instance | properties beside `IInv` | what it shows |
|---|---|---|---|
| `lifecycle_reloads` | one model, two versions, two configurations of different platforms, one request, three loads; fairness | `OneBackendPerVersion`, `ReadyServesCurrentConfig`, `LastRequestWins`, `LatestIsReady`, `EventuallySettles`, `ImplementsService` | one backend per version through postponed loads and unloads, versions settle as last asked, and the life cycle implements `ModelService` |
| `server_process` | two models of one version, one request, exit timeout 1, two changes or requests; fairness of the main thread only | `CleanStop`, `SafeOnceReady`, `ReadyMeansServing`, `NothingOverlooked`, `Terminates` | a stop reported as clean is clean, readiness is true, changes that race with a poll are seen by the next, a signal ends the process unless a gRPC call stays open |
| `grpc_streams` | a stream and a unary context, three requests, clients that half-close or break at any time; fairness | `WrittenInOrder`, `AnsweredBeforeFinish`, `CallsUsedRightly`, `Recycled` | responses in order of completion, nothing unanswered at an OK `Finish`, gRPC's rules kept unless a client broke, contexts serve again |
| `grpc_broken` (violation) | one stream, two requests | `NotClearedInExecution` | a write that fails while the next request has been read: memory is cleared under an executing request |
| `dynamic_batches` | two runners, one may fail; sizes 1 and 3, two shapes, three requests; once with batching (preferred sizes 2 and 4, delay, start delay 1), once without | `OncePerRequest`, `NoStrandedWork`, `FreshDecision`, `ImplementsService`, `Served`, `Exits` | no request lost or run twice, none stranded, the incremental search decides as a fresh one, the threads implement `BatchService`, everything served, the destructor returns |
| `sequence_slots` | one batcher with two slots that may fail to start, two correlation IDs, three requests, one of the IDs may become idle; fairness | `OneClaim`, `NoneOverlooked`, `Served`, `Exits` | slots are not leaked or shared, queues are not overlooked, requests past the backlog are served |
| `sequence_idle` | one batcher with one slot that may fail, two IDs that become idle, four requests; symmetry | `NotLost`, `NothingAfterEnd`, `SequenceIntegrity` | requests are not lost, and a sequence runs in order, through backlog and idle reaping |
| `sequence_deadlock` (violation) | one batcher with two slots, idle sequences; fairness | `IdleSlotsAreFreed` | reaper and scheduler thread block each other |
| `ensemble_dataflow` | the valid ensembles of four families of two and three steps, one or two inputs; fairness | `InputsSettled`, `NoneMissed`, `DeadlockExplained`, `ImplementsDataFlow`, `Responds` | a step runs on settled inputs, none is missed, the context implements `DataFlow`, every request is answered |
| `execution_batches` | batches of up to three payloads of fifteen kinds of request, on twenty-one models over every backend | `OwnResults`, `ErrorsStayLocal` | who succeeds gets the results of its own inputs, but for the deviations in `Excused`; who fails fails by its own fault or by what `BatchFault` blames on the whole batch |
| `execution_skipped` (violation) | the same, TensorRT | `SkippedPayloadsTakeNoRoom` | payloads behind one in error get rows of others |
| `perf_load` | six setups (HTTP, gRPC, stream; one or two workers; sequences), levels to 3, sequences of length 1 and 2; fairness | `LoadBounded`, `SequencesApart`, `Leaves` | the load is at most the level reported, sequences on a stream do not mix, though requests may be refused out of turn, the client leaves |

`lifecycle_reloads` and `sequence_idle` also check the inductive invariant
`IInv` of the component's proofs, which contains its `TypeOK`; where those of
the other components were checked is listed under Proofs. A pass of TLC is over all interleavings of an instance.

Why the bounds are enough to be interesting:

- Life cycle: the postponed action of a version is one variable, so a third
  load meets every combination of state and next action; two versions are what
  the search for the latest one needs.
- Server: two events let a repository change before and during a poll, or
  change once while a request runs; a second model makes a poll that fails at
  the first one, and readiness of one model while another loads.
- gRPC: three requests let a write be under way, a response wait in the queue
  and a request execute at once; with two, `grpc_broken` has its one in a write
  and one that executes.
- Dynamic batcher: three requests of sizes 1 and 3 step over, meet and exceed
  the preferred sizes 2 and 4, and two shapes split a batch; one runner can
  hold a batch, one wait with a timer, and the queue change in between.
- Sequence batcher: two IDs for one slot collect a sequence in the backlog;
  four requests let it grow there, be cut off by an END, and move to the slot
  while the next one arrives. Two slots of one batcher are what a slot given
  away twice, and the deadlock, need.
- Ensemble: three steps make chains, forks, joins and diamonds; a step
  with two outputs lets one completion make two steps ready, and two inputs and
  two outputs give requests and models something to omit. There is no bound on
  steps taken: an ensemble that keeps its inputs ends.
- Execution: with three payloads one may fail between two others, which is
  where offsets go wrong; the kinds cover batch sizes 1 and 2, blocks cut
  anywhere, inputs named twice, missing or reordered, strings too few, too many
  and cut, wrong sizes, outputs as raw values, as classes or unknown, and the
  null requests of idle slots.
- Performance client: two workers are what spreading a level that does not
  divide evenly needs, level 3 over two workers is uneven, and one level change
  lets a worker hold requests above its new share.

Bounds: `MaxLoads`, `MaxRequests`, `MaxEvents`, `MaxPasses` and `ExitTimeout`
bound calls and time; nothing else is capped, and the theorems hold for every
value of them. Symmetry is used for correlation IDs in the run without
liveness. Two runs restrict steps by an ACTION_CONSTRAINT. `SecondVersionOnce`
(`lifecycle_reloads`) lets only the first `AsyncLoad` load version 2: calls of
`AsyncLoad` are not fair, so this leaves behaviours out and adds none, and the
liveness checked is that of the behaviours left. `FirstShape`
(`dynamic_batches`) gives the first request the first of two interchangeable
shapes. `CHECK_DEADLOCK FALSE` stands where the system stops: a batch ends
(`execution_*`), the client has left or a thread slept through its wake-up
(`perf_load`), and the sequence batcher does deadlock (`sequence_*`, see
below); the other runs have an explicit step for a component at rest and check
deadlock.

## Fairness

A thread of the server that can take a step eventually takes one; nobody has
to send a request, poll, or destroy a scheduler.

- Life cycle: creations end, with or without success, requests complete, and
  callbacks run. `ModelService` promises as much: starts end, and what drains
  stops if its users let go.
- Server: the main thread runs and its waits end, which is all `Terminates`
  needs; requests, creations and gRPC calls may take for ever. The shutdown of
  gRPC waits without a deadline, so that `Terminates` does not say the process
  ends, but that if it does not, the main thread has come to that shutdown and
  one call stays open for ever.
- gRPC: a request that executes completes, and the executor goes on with what
  it began. `Handle(c)` is strongly fair: the completion queue hands out
  completed operations of all contexts in any order, but none is left in it for
  ever.
- Dynamic batcher: `PromptSpec` lets no waiting runner time out unless it has a
  timer set, so `Served` does not lean on the default timeout of 500 ms. `Exits`
  assumes in addition that waits end (`WaitsEnd`): the destructor's notification
  may fall between a runner's test of the flag and its wait, and the runner
  leaves only when the wait times out.
- Sequence batcher: weak fairness, but strong fairness of a scheduler thread
  that waits for the scheduler's lock in `ReleaseBatchSlot` (the reaper gives
  the lock up for the length of its wait between scans). `Served` is about
  requests past the backlog: the rest depends on the clients of the sequences
  that hold the slots. Both liveness properties of `sequence_slots` except the
  deadlock that `sequence_deadlock` shows.
- Ensemble: prepared steps are handed over, and every model answers what it is
  given, which is what `Served` shows of the schedulers.
- Performance client: every thread is scheduled and the server answers while a
  stream lasts. Condition variables are not fair: a notification that finds
  nobody asleep is lost, which `Leaves` has to except (`missed`).

## Proofs

The theorems hold for all constants that satisfy the named assumptions: any
number of models, versions, runners, batchers, slots, correlation IDs, steps,
streams, threads, requests, payloads and rows. Eight modules hold them, one per
component. Each proves `Init => IInv`, that every action keeps
`IInv` (one lemma per action or group of actions), and that `IInv` implies the
properties. PROJECT.json lists the results, the lemmas are in the modules.

The assumptions say what the code's types say (numbers are numbers, sets of
threads are finite, `None` is none of the values it stands beside);
`MaxThreads` of `PerfClient` only gives the set of threads a bound, any bound.
Two hypotheses say more, and stand in the theorems: `InputsKept` (ensembles)
and `Orderly` (sequences), see below.

- BackendLifeCycle: `IInv` is `TypeOK` with `StateInv` (which threads a version
  has in each state), `WorkerInv` (at most one worker per version, and what it
  builds), `BackendInv` (who holds a backend between creation and release),
  `WantedInv` (the next action is what was last asked), `ScanInv` and
  `LoaderInv` (what the two threads that hold locals between locks may assume).
  Ownership alone is not inductive: that a version has one backend rests on the
  one worker per version, which rests on the state. Proved:
  `OneBackendPerVersion`, `InUseIsLive`, `ReleasedIsUnused`,
  `ReadyServesCurrentConfig`, `PostponedIsTriggered`, `LastRequestWins`, and the
  action property `LatestIsReady`, which rests on `ScanInv`.
- LifeCycleRefinement, in `BackendLifeCycleProofs` too: `Spec => Service!Spec`,
  by a step simulation. One lemma per kind of step says which step of `ModelService` it is: an `AsyncLoad` is an
  `AskStart` or `AskStop` of its version whatever is postponed, the end of a
  creation a `Serve`, `Fail` or `Discard`, the callback of the last handle a
  `Drained`, a lookup that returns a backend a `Use`, a request's end a `Drop`;
  every other step is a stutter. `IInv` is needed where the code decides from
  one variable and the abstract step from another: that the backend created is
  of the configuration last asked for, and that a handle is dropped by the last
  of its users. The fairness in `ImplementsService` is liveness, and only
  model-checked.
- InferenceServer: `UsesInv` (a request between lookup and answer holds a
  version that serves or drains), `StopInv` (once every version was seen down,
  none starts), `ReadyInv`, `StatusInv` (a model has a status before it is
  loaded), and what a poll may rely on at each of its steps: `TimeInv` (what
  `infos_` has of a model is no older than the time noted with it),
  `SettledInv`, `ReadingInv` and `UpdatingInv` (for each model, whether it is
  done, to do, or served as `infos_` has it). The last four carry
  `NothingOverlooked` through a poll that reads directories one by one while
  they change. Proved: `CleanStop`, `SafeOnceReady`, `ReadyMeansServing`,
  `NothingOverlooked`.
- DynamicBatcher: `QueueInv` (the queue holds consecutive requests, with their
  offsets), `BatchInv`, `PendingInv` (the pending size is that of a prefix of
  the queue), `SearchInv` and `WakeInv` (a count of waiting runners and
  notifications on their way). Proved: `OncePerRequest`, `NoStrandedWork`,
  `BatchFits` and `FreshDecision`: the incremental search decides as one of the
  whole queue would. From the same lemma, `SearchDecides`, follows the
  refinement `ImplementsService`: an `Enqueue` is an arrival, the end of a search
  a dispatch of what `BatchService` chooses, never of nothing, a `Run` a
  completion, and `Destroy` closes a service that has completed every request;
  waits, notifications and the search itself are not seen. A search that
  postpones is not seen either: that it is right to is `FreshDecision`.
- SequenceBatcher: `IInv` has two parts. `BaseInv` holds whatever clients do:
  `ReleaseInv` (a thread that releases a slot holds its own lock), `QueuesInv`
  and `WholeInv` (a queue of the backlog holds one sequence from its START on),
  `BacklogConsistent` (a sequence has an entry in the map exactly when the last
  queue of its ID may still grow, and a slot is ready only when the backlog is
  empty), and `ClaimInv`, which says of each pair of claims on a slot that they
  exclude each other: counting claims is not inductive, which claim becomes
  which is. Proved from it: `TypeOK`, `BacklogConsistent`, `OneClaim`.
  `OrderInv` is for clients that send the next request of a sequence when
  `Enqueue` of the one before has returned, and are not held up in `Enqueue`
  for longer than the idle limit (`Orderly`, that is `Pipelined` and `Stalls`
  false, as in `sequence_slots` and `sequence_idle`). Without it two calls race
  for the lock of the batcher after they have left that of the scheduler, and
  the code makes no promise. Its parts: `SerialInv` (one request of an ID on
  its way at a time, to the slot of its sequence), `EmptyInv` (a slot that is
  released is empty), `ChainInv` (backlog, way, queue and slot hold consecutive
  requests of the sequence), `ActiveInv` and `PlaceInv`. Proved from it:
  `SequenceIntegrity`, `NothingAfterEnd`, `NoneOverlooked`, `NotLost`.
- EnsembleContext: `PendingInv` (runs in flight are told apart), `DataInv`
  (what has data was sent by the request or is of a completed step) and the
  properties themselves. That a step runs once needs `DataInv`: a step becomes
  ready again only if something it read is written again, and the writer of
  what has data is not in flight; two steps writing one tensor are refused by
  validation, and that no step writes an input is the hypothesis `InputsKept`.
  Proved: `InflightCounts`, `AnsweredOnce`, `StepsOnce`, `InputsSettled`,
  `NoneMissed`; the first two for every valid ensemble, without `InputsKept`.
  `DeadlockExplained` rests on two more invariants, `FedInv` (what was sent has
  data) and `StuckInv` (after an "unexpected deadlock" every step whose inputs
  have data was run, and an output is missing), and on what validation found:
  its check passes over the steps until nothing is added. If neither the
  request nor a model left a tensor out, take the first pass that reaches a
  tensor without data; the step that makes it had its inputs reached earlier,
  so they have data, so it was run, and its output has data after all.
  `ImplementsDataFlow` is the refinement, for ensembles that keep their inputs:
  what `GetNextSteps` finds from the tensors just updated is exactly what became
  due (`FoundAreDue`: no tensor is updated that had data, or a step that reads
  it would not have run once), and the counter is zero exactly when no step is
  active.
- GrpcContexts: per context, as long as nothing has been misused, `QuietInv`
  (a call nobody made is untouched), `OneWriter` (a write is under way, or the
  executor or one request thread is about to issue one), `LiveInv` (what
  executes is live) and `EndInv` (how far the stream of a client that did not
  break has come); `UnaryInv` for unary calls. `WrittenInOrder` needs
  `OneWriter`: the thread that puts a response in an empty queue is the writer,
  and every other finds the queue not empty. Proved: `WrittenInOrder`,
  `AnsweredBeforeFinish` and the action property `CallsUsedRightly`.
- PerfClient: `LoopInv` (what the locals of the two kinds of worker may be),
  `LaunchInv`, and for the contexts of a stream `InOrder` (the requests of a
  sequence that are not refused are answered in order), `Apart` and
  `HoldsSequence`: unless its worker leaves, a context holds the sequence being
  sent, the rest of one whose end was sent, or nothing. `Apart` needs `InOrder`:
  the request collected is the oldest only because it is the first answered. One
  that was refused may be collected ahead of others; its result is an error,
  and the worker leaves. Proved: `TypeOK`, `SequencesApart`.
  `LoadBounded` rests on a second invariant, `LInv`. The load is a sum over
  threads, and the shares in it are rewritten while the threads send, so no sum
  is kept; the invariant is about single requests. The requests of a level are
  dealt to its threads in turn, as cards are: the m-th of thread t is number
  t + (m - 1) * `Target` (`Granted`). A worker's share, what it holds, and what
  it may still send at its place in the loop stay among the requests that are
  its own by that count (`LoadInv`, `RequestsInv`), and levels only grow. So
  the requests in flight are different numbers up to the level, and the proof
  is an injection instead of a sum. The division of `Spread` gives each thread
  just its number of cards, because the threads of a level are all launched
  before it is spread (`LevelInv`).
- BatchExecution: both properties are about `done`, when nothing is left to
  compare with, so the invariant follows a payload's rows from its body to its
  response. `AdmissionInv`: a payload in the batch has a normalized header, and
  the buffers of its provider hold what was sent, cut anywhere (`Supplied`).
  `OrderInv`: the inputs are set in the order of the representative header;
  `FreshInv` and a part of `GatherInv`: an input that was not set is unread, so
  that a read starts at the first block. `GatherInv`: a payload without an error
  has, in every tensor, its own rows from its `Offset` on (`OwnTensor`), and a
  payload with an error has a fault. `ReadInv`: the same of what the framework
  returned (`OwnProduced`), and an output the payload asked for is still to be
  read or is in its result. `FinishInv`: the results are own, every error is the
  payload's or the batch's. The parts about gathering are only true when no
  input is set twice; when the last header names one twice, that header is not
  regular and the whole batch has a fault (`BadOrder`). Caffe2 runs even then, with
  the tensor set last; what keeps such a payload from succeeding is that its
  input was handed out the first time (`Spent`), so that reading it again is an
  error of every payload with a body (`CopiedOnce`), and a header that names no
  input twice names all of them (`DistinctNames`). The step that sets an
  input rests on `GatherFacts`: fixed-size rows by `CopyFixedFacts` for every
  backend, strings by `TfStringRows` and `OnnxStringRows`. The offsets need no
  induction: `Behind` is the number of elements of the set of rows before, and
  that ranges of different payloads are disjoint and fill the tensor follows from
  cardinalities of disjoint unions (`LaidRow`). Proved: `OwnResults`,
  `ErrorsStayLocal`, `TypeOK`. The assumptions are that the requests and models
  considered are requests and models (`KindsAreRequests`, `ModelsAreModels`),
  and names are apart (`NamesApart`). What `OwnResults` excuses and
  `ErrorsStayLocal` blames on the batch is what the code does (see below): with
  fewer excuses the invariant is not kept.

Every inductive invariant was checked by TLC before it was proved, two of them
in the runs above. The others, with the constants of the run unless said
otherwise:

| module | instance | distinct states |
|---|---|---|
| `GrpcContexts` | as `grpc_streams`; two streams | 32 245; 618 250 |
| `DynamicBatcher` | as `dynamic_batches` | 258 726 |
| `EnsembleContext` | as `ensemble_dataflow` | 38 020 |
| `InferenceServer` | as `server_process`; one model of two versions, three events | 513 092; 2 783 575 |
| `SequenceBatcher`, orderly | 2 IDs, 1 slot, 4 requests; 2 slots, 3 requests; 2 batchers, 3 requests; 2 slots, 4 requests; 3 IDs, 1 slot, 4 requests | 398 776; 145 592; 708 809; 1 363 763; 830 448 |
| `SequenceBatcher`, pipelined and stalled | 2 IDs, 1 slot, 4 requests; 2 slots, 3 requests | 4 689 427; 1 048 544 |
| `EnsembleContext`, `FedInv` and `StuckInv` | as `ensemble_dataflow` | 38 020 |
| `BatchExecution` | as `execution_batches` | 705 671 |
| `PerfClient` | as `perf_load` | 322 538 |
| `PerfClient`, `LInv` | as `perf_load`; sequences of length 1 over HTTP, two threads, levels to 3 | 322 538; 2 963 013 |

Only model-checked:

- liveness (`Served`, `Exits`, `Responds`, `EventuallySettles`, `Recycled`,
  `Terminates`, `Leaves`) and the fairness in `ImplementsService`: the proof
  system handles neither liveness under fairness nor ENABLED;
- the named assumptions of the modules of operators (`ModelConfig`,
  `EnsembleConfigs`, `InferResponse`, `ClientRequests`, `Endpoints`,
  `PerfMeasure`): what a fold or a recursive definition yields for every input
  is an induction over data, and the library's induction theorems cannot be
  instantiated by the provers at hand;
- the violated properties, which are about the code as it is.

## Where code and documents disagree

With a run:

- `sequence_deadlock`: the reaper takes a batcher's lock under the scheduler's
  (`core/sequence_batch_scheduler.cc:517`), a scheduler thread the scheduler's
  under its own (`:793`).
- `grpc_broken`: a write that fails while no request executes finishes the
  stream, though a `Read` may have delivered the next request already
  (`nvrpc/BidirectionalStreamingLifeCycle.h:297`, against the comment at 408).
- `execution_skipped`: TensorRT's output loop skips a payload in error without
  advancing its offset, its input loop does advance
  (`backends/tensorrt/plan_backend.cc:744`, against the comment at 636).

Observed while modelling, without a run of their own (a definition that states
the documented behaviour is named where the modules have one; TLC refutes it).

Life cycle and server:

- A model whose `config.pbtxt` changes platform is rebuilt with the old
  platform's factory (`platform_` is set once,
  `core/model_repository_manager.cc:306`, against `docs/model_repository.rst`;
  `CreatedOnItsPlatform`).
- The body of the release thread runs once, not in a loop
  (`core/model_repository_manager.cc:372-390`); backends unloaded later stay in
  the queue until shutdown (`DeferredIsDestroyed`).
- Strict readiness does not come back once a status has a version that is
  unloaded or does not exist (`servers/main.cc:174`; `ReadyWhenServing`).
- A poll that fails after it has replaced `infos_` forgets the models it had
  not come to (`core/model_repository_manager.cc:891`; `ChangesDetected`, which
  needs `MaxEvents` 3). A directory replaced by an older copy is not a change.
- The signal handler locks `exit_mu_`, which the interrupted main thread may
  hold (`servers/main.cc:620`; `SignalStops`); its notification may also come
  between the test of the flag and the wait, which then lasts its full length.
- `Create` failing after loads have begun destroys the life cycle under its
  detached workers; endpoints are started before `Init`, so that early calls
  meet no manager (`SafeOnceReady` says when that is over).
- `--exit-timeout-secs` bounds the wait for requests and models only: the gRPC
  server is shut down after it, without a deadline (`nvrpc/Server.cc:80`), and
  waits for every open call. A request that hangs, or an idle stream whose
  client does not close it, holds the process, against "after the timeout
  expires the server exits even if inferences are still in flight"
  (`servers/main.cc:211`; `TimeoutEnds`).
- Requests refused for want of readiness are counted as successes; health
  reports a server live that still initializes, against
  `docs/http_grpc_api.rst`.
- `StartMultipleHttpService` keeps the last status only, and a port that cannot
  be bound goes unnoticed; a `--http-health-port` given before `--http-port` is
  forgotten (`HealthPortForgotten`).
- While the server exits, health is `unhealthy` over HTTP and an error over
  gRPC (`TransportsAgree`); steps of an ensemble in flight are refused.
- `Status::FromTFError` maps `ALREADY_EXISTS` to `NOT_FOUND`.

Configuration:

- A group of kind AUTO that lists an absent device becomes a CPU group and is
  then refused (`CompletionRefusals`; `core/model_config.proto:92`).
- A SavedModel whose configuration lists its tensors gets batch size 1 whatever
  its signature (`ListedTensorsBatch`). Scalar tensors of models that do not
  batch, and TensorRT bindings without dimensions, are filled in and then
  refused (`FilledIsAccepted`). An ONNX model of an unsupported opset yields a
  configuration without tensors that validates.
- A specific version listed twice, and missing, is loaded all the same.

Scheduling:

- An ensemble in which a step writes an ensemble input (`s: x -> {x, y}`)
  passes validation, and never answers: the step is ready again each time it
  completes. An output with the name of an input hides the input, and the
  ensemble ends in "unexpected deadlock". `InputsKept` excludes both. The type
  of such an output is not examined either.
- Slots of a batcher whose backend failed to initialise stay in the ready
  queue (`core/sequence_batch_scheduler.cc:88`, against the comment at 645).
- A sequence is idle from the arrival of its last request, though requests may
  still be queued (`core/sequence_batch_scheduler.cc:486`, against
  `core/model_config.proto:481`).
- The scheduler's members are destroyed before the batchers that use them
  (`core/sequence_batch_scheduler.cc:113`).
- Iterators and references used after the element was erased
  (`core/sequence_batch_scheduler.cc:362`, `:517`) are taken to read what was
  there; the hazard list has them.

Execution (`Excused` and `BatchFault` in `BatchExecution` name those that
concern results and errors):

- TensorFlow: setting a string input overwrites the status of an earlier error,
  and skipping a payload misplaces the strings of those behind it; an output
  that one payload names wrongly fails the whole batch.
- ONNX: the strings of a payload in error run into the next one's; a payload
  with too few strings is filled up with empty ones; the vector of sizes is
  read at its back when it may be empty.
- TorchScript: a malformed input name is taken for index 0, and an exception of
  a model with several inputs is not caught. Caffe2: a blob keeps a pointer to
  a buffer already freed. An input of the model that the configuration does not
  name is not noticed at load by either GraphDef or Caffe2: every batch of the
  first fails, the second computes from what is left in its workspace.
- The header of the last payload stands for the batch, in the custom backend
  the shapes of the first; the buffer of null requests is clamped to 16 MB and
  may be resized while another thread reads it; the sequence batcher does not
  compare shapes of variable-size inputs.
- An output asked for as zero classes is announced as raw values that no body
  carries (`OutputsAgree`); the internal provider would make classes of
  unwritten memory (`ClassesOfOutput`), but steps never ask for any.

Clients:

- A wake-up may be lost when the level changes, at exit, and in the destructors
  of inference contexts (`missed`); a stream that the server ends leaves its
  waiting worker hanging; a request whose stream write fails stays in the list;
  `stats->emplace_back` of several threads is not locked.
- Sequences over HTTP or unary gRPC may overlap: `SequencesApart` is about
  streams.
- A refused `SetRaw` keeps the total size (`RefusalKeepsTotal`); both
  transports ignore an error of `PrepareForRequest`; an HTTP request's header
  has the identifier 0; a reply with status SUCCESS and a code other than 200
  is a success without results; `SendCommand` ignores the code.
- `Report` divides by a count that may be 0; fewer than three measurements are
  stable by default; timestamps from before the window stay until the next
  swap.

## Not modelled

- The sequence batcher's `DelayScheduler` and its environment variables, which
  exist for tests.
- The counters and timers of the status: sums under one mutex.
- Conversions of statuses, templates that register gRPC services, logging,
  metrics, profiling and file-system access: no state of their own, or input
  and output only. What a read may return is a choice in `InferenceServer` and
  `ModelConfig`.
- The client's synchronous `Run` and model-control contexts, its Python binding
  and the example programs: calls in sequence over what is modelled.
- Custom backends other than the identity library, TensorFlow operations and
  CUDA kernels: computations on one row.
- The Python programs (BERT training, corpus preparation, evaluation): batch
  jobs without concurrency or state kept between runs.
- Server QA, deployment charts and documents: the reference the findings quote.

## Plan

1. The client's synchronous calls and model control; the status counters.
2. The masking and splitting of the BERT data preparation as operators.
