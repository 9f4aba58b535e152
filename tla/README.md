# TLA+ models of the prime-rl pipeline

prime-rl trains a language model with asynchronous reinforcement learning. An
*orchestrator* process keeps many rollouts in flight against environment servers
and inference engines, collects them into batches and ships the batches to a
*trainer*; the trainer publishes each new policy, which the orchestrator's *weight
watcher* loads into the engines while rollouts go on. Both write checkpoints, and a
launcher restarts a run that was killed over the same directory. This directory holds
TLA+ models of that pipeline, the configurations that check them with TLC, and proofs
checked by TLAPS.

Paths below are relative to `src/prime_rl/`, line numbers are those of the
commit the models were written against. `PROJECT.json` maps each definition to its
lines, lists the runs, the mutated definitions that show each property can fail, the
hazards and the findings.

## 1. The system

| Component | State | Operations | Modelled in |
|---|---|---|---|
| `RolloutDispatcher` (`orchestrator/dispatcher.py`) | `groups`, `inflight`, `inflight_permits`, `out_q`, `mode`, `train_scheduling_disabled`, `dispatch_allowed`, `stopped` | `start`, `fill_inflight`, `try_schedule`, `schedule_group_rollout`, `acquire`/`release`, `handle_completed_rollout`, `emit_episode`, `on_version_pending`, `drop_group`, `cancel_inflight_*`, `stop` | `Dispatcher` |
| `Orchestrator` (`orchestrator/orchestrator.py`) | `progress.step`, `draining`, `stopped`, `version_advanced`, `consecutive_empty_batches` | `setup`, `start`, `main_loop`, `finalize_train_batch` (hold, empty batch, ship), `update_dispatch_gate`, `maybe_trigger_eval`, `maybe_save_ckpt`, observer hooks, `stop` | `Dispatcher` (as the actor M), `Pipeline` (hold), `MainLoop` (batches, evals, exit), `Resume` (checkpoints) |
| `TrainSink` (`orchestrator/train_sink.py`) | groups, `pending_batch`, `pending_tokens`, observation window, pre-filter statistics | `add`, `process_group`, `process_batch`, `reset_pre_filter_stats` | `TrainSink` |
| `EvalSource`, `EvalSink` (`orchestrator/eval_source.py`, `eval_sink.py`) | example queue, `first_trigger`; episodes per group and per epoch | `trigger`, `next_example`; `add`, `process_group`, `process_batch` | `EvalEpoch` |
| `WeightWatcher` (`orchestrator/watcher.py`) | `ckpt_step`, `update_lock`, `policy.version` | poll, `apply_policy_update`, `stop` | `Dispatcher` (inside `on_version_pending`), `Pipeline` |
| RL trainer (`trainer/rl/train.py`, `trainer/rl/broadcast/`, `trainer/utils.py`) | step, broadcast directories | wait for a batch, train, publish, `maybe_clean` | `Pipeline`, `Resume` |
| Packing (`trainer/batch.py`) | samples, bins, Karmarkar-Karp heap, partitions | `prepare_sample`, first-fit bins, `split_by_workload`, dummies, `balanced_partition` | `Packing` |
| Checkpoints (`orchestrator/ckpt.py`, `trainer/ckpt.py`, `utils/pathing.py`), `TrainSource` | step directories with two parts, data position | `save`, `load`, `maybe_clean`, `resolve_latest_ckpt_step`, `clean_future_steps`; `next_example`, `state_dict` | `Resume` |
| Micro-batch transport (`transport/`) | a file per step and rank; zmq sockets and READY set | `send`, `wait`, `receive` | `Resume` (filesystem only) |
| Launcher (`entrypoints/rl.py`) | the processes of a run | launch, clean, monitor, terminate | `Resume` |
| nixl broadcast, environments, samplers, algorithms, filters, metrics, inference servers, models, SFT, configuration | | | not modelled, see section 8 |

**How they interact.** Dispatcher, watcher and main loop are three tasks on one asyncio
event loop. They share the dispatcher's collections without locks; what protects
them is that a task is preempted only at an `await` that is not ready. The sinks and the
eval source belong to the main loop alone. Packing is one call in a thread, on data nobody
else touches. Orchestrator, trainer and launcher are processes, and meet on the
filesystem: micro-batch files, weight directories with a `STABLE` marker, checkpoints.

    env servers --run returns--> dispatcher --out_q--> main loop --batch--> trainer
                                    ^   ^                  |                  |
               on_version_pending   |   |  gate, mode,     |  version_advanced|
               (drop_group)         |   |  drain, stop     v                  |
                                  weight watcher  <---- published versions ---+

**What is hard about it.** Every `await` inside an operation that has read shared
state: the rate limiter between the permit check and the increment; a marker put that
waits for room in `out_q` while tasks of the same or the next stale group finish; the
hold, which stops the only consumer of `out_q`. Then the counting protocols (a group is
complete at `group_size` episodes, the run ends when everything counted is zero), whose
errors show as something that never happens; the quantities that are kept twice
(`pending_tokens` beside the queue, loads beside the partitions, the window beside the
batches); the two-process end of a run, where the trainer stops publishing two
versions early; and a run directory that outlives the processes, each of which can die
between any two of its writes. The list is `hazards` in `PROJECT.json`.

**What makes each component correct.**

- Dispatcher: every episode of a group exactly once on `out_q`; one permit per
  task and never more than `max_inflight_episodes`; no stale rollout left behind by
  a weight update, only live-sourced train rollouts cancelled by it; `groups` never
  leaks; nothing dispatched after the drain, nothing running after `stop`.
- Main loop: a held ship is released, a closed gate opens; an epoch that is due is triggered
  once and evaluated before the loop exits.
- Sinks: no survivor of a group is lost, repeated or overtaken on its way into batches; what
  the metrics of a batch are computed from is each rollout once; an epoch is whole.
- Packing: every sample is trained on once; the ranks' lists line up, or the
  collectives of a step hang; the loads stay close.
- Watcher and trainer: a version is loaded from a directory that exists; generation
  under a version number means generation from that version's weights; no trainer
  is stranded in a broadcast.
- Resume: the ranks train on one batch, and one of this attempt; what has been trained on is
  what has been shipped, over all attempts; a run that can be resumed stays resumable.

## 2. Modules

| Module | What it is |
|---|---|
| `EpisodeLedger` | Abstract specification: what the dispatcher's docstring promises the sinks |
| `Dispatcher` | The dispatcher and the three actors that touch its state; implements `EpisodeLedger` |
| `Pipeline` | Extends `Dispatcher` with the watcher around it, the hold, the trainer and its directories |
| `Groups` | What sinks, eval source and main loop know of groups, and the configuration of a run |
| `TrainSink` | The train sink: groups, queue, cut, window |
| `EvalEpoch` | Eval source and eval sink: the two ends of an epoch |
| `EpochLedger` | Abstract specification of epochs: triggered at most once, evaluated exactly once |
| `MainLoop` | The main loop over `TrainSink` and `EvalEpoch`, with `EpisodeLedger` for the dispatcher; implements `EpochLedger` |
| `Packing` | From a batch of samples to one list of micro-batches per rank |
| `Resume` | Launcher, orchestrator and trainer over a run directory, killed and launched again |
| `SeqUtils` | Sums and subsequences of sequences, by recursive functions that can be proved about |
| `MCDispatcher`, `MCPipeline`, `MCMainLoop`, `MCPacking` | Values for TLC: environments, group sizes, configurations, inputs, symmetry of group ids |
| `DispatcherProofs` | Proofs about `Dispatcher`: bookkeeping, sweep, account of episodes, refinement; who is cancelled, and drain and shutdown without a rate limit |
| `PipelineProofs` | Proofs about `Pipeline`: it implements `Dispatcher`; how a run ends |
| `SeqUtilsProofs` | Lemmas on sums, ranks and subsequences, prefixes, flattened sequences |
| `TrainSinkProofs` | Lemmas on `TrainSink`: filters, the cut, and what `Buffer` and `Finalize` keep |
| `MainLoopProofs` | Proofs about `MainLoop` with both sinks: queue, window, epochs, refinement |
| `PackingProofs` | Proofs about `Packing`: types, the ranks in step, the loads close |
| `PackingOnceProofs` | More of them: every sample at exactly one place; lengths, images, padding and loads accounted for |
| `ResumeProofs` | Proofs about `Resume`: types, no file of an earlier attempt is trained on; what is trained on is what was shipped, over all launches; a run stays resumable |

### Dispatcher

*Control.* Each actor has a program counter. `dpc` (dispatch loop): `fill` and `handle`
are inside run-to-await segments, `acquire` waits in the rate limiter, `put` for room
in `out_q`, `wait` in `asyncio.wait`. `wpc` (watcher, inside `on_version_pending`):
`drop` and `emit` are inside a segment, `put` waits for room, `cancel` in
`safe_cancel_all`. `mpc` (main loop): `get`; `train`/`eval`, an episode in a sink (the
sinks await); `drain`; `exit`; `stopping`; `stopped`. `LoopFree` says that no actor is
inside a segment; an action that resumes an actor at an await requires it, so
the interleavings are the event loop's and no finer. A `put` that finds room
continues without yielding, as `asyncio.Queue.put` does; a waiting `put` runs
before the getter that woke it gets again (`PutterReady`).

*Data.* A group id carries its environment, what is left to schedule and what was
emitted (`GroupState`); a task is a pair of group id and ordinal; `inflight` maps it
to its `off_policy_steps`. An episode is the group it belongs to, `result` or
`cancelled`, and that counter: whether a result is clean, errored or an exception
decides nothing here. Live, frozen and eval environments are told apart because the code
does. `ledger` and `abandoned` are history variables.

*Actions and code.* `ContinueGroup`, `OpenGroup`, `SwitchToTrain`, `FillReturn`:
`fill_inflight` with all it calls. `Acquired`: `acquire` returning late. `Wake`,
`HandleClaimed`, `HandleCompleted`, `PutResult`, `LoopTop`: the rest of `start`,
`handle_completed_rollout`, `emit_episode`. `VersionPending`, `DropClaim`,
`EmitMarker`, `PutMarker`, `DropEmitted`, `DropCancelled`: `on_version_pending`
and `drop_group`, with the claim phase as one step. `Get`, `BackToGet`, `Ship`,
`Drain`, `Exit`, `Interrupt`, `Stop`, `StopLoop`: the main loop as far as it touches
the dispatcher. `EnvReturns`: a run request is answered.

*What is left open*, so that the module stands alone: when a batch is complete, when
the watcher reaches its next step, and which version has been published
(`LastPublished` bounds it).

*Refinement.* `LedgerSafety` is `EpisodeLedger!Spec` under `env <- genv`,
`delivered <- ledger`: every step opens a group, delivers one episode of a group that is
owed one, gives up groups (drain, shutdown), or changes nothing.
`LedgerLiveness` is its `Served`.

### Pipeline

Adds the watcher outside `on_version_pending` (`upc`), the versions the engines have
loaded, the event `version_advanced`, the hold, and the trainer: steps trained, and
inside or outside an in-memory broadcast, and the broadcast directories. Each of its
steps is a step of `Dispatcher` with more guards, or leaves `Dispatcher`'s variables
alone. `Confirm` is `VersionPending` with the version found on disk; `MainStep` lets a ship
go only when it is not held; `TrainStep` trains the next shipped batch and publishes as
`broadcast_unused`, `maybe_clean` and the nccl handshake say.

### MainLoop, with Groups, TrainSink and EvalEpoch

`TrainSink` and `EvalEpoch` hold the state and the operations of one class each; neither
has a next-state relation of its own, because only the main loop calls them. `MainLoop`
composes them: it EXTENDS both and instantiates `EpisodeLedger` for the dispatcher,
so that a group, once opened, delivers its episodes one by one in any order among the
groups. This is the promise that `Dispatcher` is proved to keep.

A train rollout is what becomes of it (`fate`: errored, untrainable, dropped by a pre- or a
post-filter, kept) and its token counts; `Shape` is what an episode may consist of. `Add` is
`TrainSink.add`: `Buffer`, or `Finalize` with `process_group` and, if the queue is long
enough, `process_batch` (`Cut`, `ShipCohort`). `EvalAdd` is `EvalSink.add`; `Trigger`,
`RoundRobin` are the eval source. The main loop has the startup triggers (`StartRetrigger`,
`StartTrigger`), one action per kind of episode (`TrainArrives`, `EvalArrives`), and
`finalize_train_batch` as `StartDrain`, `EmptyBatch` or `ShipBatch`; `Exit` is the drained
loop. The configuration of a run (token or rollout batches, fresh or resumed,
`skip_first_step`, retrigger) is chosen in `Init` among `Configs`.

*Refinement.* `EpochSafety` is `EpochLedger!Spec` under `due <-` triggered and not
evaluated, `evaluated <- evaluated`.

### Packing

`prepare_batch` from its list of samples to `batches_per_gpu`, one action per iteration of its
loops: `Place` (first-fit, longest first), `StartSplit`, `Halve`, `EndSplit`
(`_expand_bins_by_splitting`), `FormGroups` (materialize, pad, dummies), then per
modality `Push` and `Merge` (`_karmarkar_karp`), `StartRefine`, `Swap`
(`_refine_by_swapping`) and `Assign`. `Prepared` is `prepare_sample` with the image-aware cut
of `_truncate_mm`. A sample is its length, the positions of its image placeholders and what
decides with which others it packs; the per-token streams are left out. Of equally good swaps
the code takes the first, the model any.

### Resume

The run directory (`orchPart`, `trainerPart`, `rollouts`, `broadcasts`) is what survives;
`Launch` resets the rest, resolves the step to resume from and removes what is stale.
`KillOrchestrator` and `KillTrainer` stop a process between any two steps; `Terminate` is
the launcher's monitor, until whose poll the other process goes on. The orchestrator loads its
part, waits for the weights, dispatches, ships a file per rank (`WriteRank`), and saves
(`SaveOrchestrator`, `FinalSave` in `start`'s `finally`, also after `Fail`). The trainer
loads, publishes the startup weights, receives rank by rank, trains, publishes, writes
its part in place (`StartSave`, `EndSave`) and removes old steps (`Clean`). A batch is one
task. `shipped`, and `tasks` and `sound` of a model, are history variables: `sound` is
false of a model that was loaded from a part written over an older one and killed in
the middle, or when the two parts of the step are not of the same run of steps.

## 3. Runs

| Run | Configuration | Shows |
|---|---|---|
| `dispatcher` | no rate limit, 3 groups, live, frozen and eval environment, `max_inflight` = `out_q` = 2, `max_steps` 2 | types, permits, conservation of episodes, stale sweep, no leak in `groups`, `is_idle`, shutdown, who may be cancelled, nothing dispatched after the drain |
| `dispatcher_limited` | rate limit, 2 groups, with fairness | the same conservation with rollouts waiting in the limiter; the refinement of `EpisodeLedger`, safety and liveness |
| `pipeline_mem` | in-memory broadcasts, 6 groups, `max_steps` 5, no evals | a held ship is released, the gate opens again and is open for the last batches, the trainer is not stranded |
| `pipeline_fs` | filesystem broadcasts, 4 groups, `max_steps` 3, evals, stale groups at every version | the gate opens again although markers wait on a full `out_q` while it is closed |
| `mainloop` | 3 configurations (tokens; rollouts, skipping the first eval; resumed with retrigger), 7 groups, 2 eval environments | the queue is FIFO and its token count right, the window has each rollout once, the epochs due are triggered once, are whole, never stranded, and evaluated when the drained loop exits; the refinement of `EpochLedger` |
| `packing` | every batch of up to 4 samples of 7 kinds, and 28 of 6 images; 2 workers | every sample at one place of one rank, the ranks in step, lengths and loads accounted for, loads close; with fairness, that packing ends |
| `resume` | 3 launches, 3 steps, 2 ranks, checkpoints every step, 2 kept | the ranks agree on a batch of this attempt; same history on both sides over all attempts; a resumable run stays resumable |
| `idle_means_drained` | `dispatcher`'s, with a rate limit | finding 2 |
| `stale_discarded` | `dispatcher`'s | finding 3 |
| `hold_satisfiable` | filesystem, 6 groups, `max_steps` 3 | finding 1 |
| `ahead_of_weights` | in-memory | finding 4 |
| `weights_on_disk` | filesystem, `max_steps` 3 | finding 5 |

### Bounds, and why they are enough

- *Group ids* bound the groups opened in a behaviour. Three groups allow a stale group
  being dropped, a second stale group still to be dropped, and a third that
  finishes or is opened meanwhile. `pipeline_mem` uses six, five shipped batches and the
  episode that starts the drain. `pipeline_fs` uses four: two shipped, which closes the gate,
  one on the full `out_q`, and one in flight that the first update makes stale.
- *Group size 2* (frozen: 1): partly scheduled, partly finished and complete groups.
  `Pipeline` uses 1, the groups being covered by `Dispatcher`'s runs.
- *`max_inflight_episodes`, `out_q`*: 2, or 1 in `Pipeline`. The code's queue holds at
  least 8; a short queue makes full queues and waiting puts common, and the
  assumption `OutQSize >= MaxInflight` is the one the code gives. The hold's deadlock does
  not depend on the size, only on a queue that gets full while nobody takes from it.
- *`max_off_policy_steps`* 0: every update makes what is in flight stale. In
  `pipeline_mem` it is 5, so that nothing is dropped and the run is about the hold alone.
- *`max_steps`*: with `TARGET_LAG` 1 the gate closes at the earliest when two batches have been
  shipped at v0, and a ship is held for the first time at the third batch: 3 has both. In memory
  the last two broadcasts are skipped, and from `max_steps - 2` shipped batches on
  the gate is open whatever the version: below 5 it would never close, and with 5 it closes at
  two shipped batches, and the exception is what keeps it open at five.
- *The hold's deadlock and the gate* (`GateReopens`): once the deadlock of finding 1 has happened
  the gate stays closed, too, so that the property excepts it. It needs a held ship, a full
  `out_q` and a stale task at once, which the instance of `pipeline_fs` is too small for: there
  the property says that nothing at all keeps the gate closed. A larger instance in which the
  deadlock does happen (three groups of 2, `max_inflight` = `out_q` = 2, no evals; 458623 states,
  too many for a routine run) was also explored: `GateReopens` holds, and without the
  exception it does not.
- *Eval triggers* enqueue at most as many examples as group ids are left (marked
  "bound" in `Ship`), so that the end of the ids is not mistaken for a stuck eval.
- *`mainloop`*: batches of 2 rollouts or 3 tokens, and an episode whose survivors have no
  samples or one with 2 tokens: batches of exactly, more and less than the size, a group
  that alone brings more than a batch, empty batches up to the limit (2; the code has 10).
  Train groups of size 1 and 2; two groups are open at once; evals of two environments
  with 2 and 1 examples, whose intervals meet or not at the steps of the three
  configurations, and whose epochs overlap.
- *`packing`*: `seq_len` 5, padding to a multiple of 2; text that fits, is cut, or has routed
  experts, an image that fits, and two images the second of which is cut in its middle.
  Four samples suffice for first-fit, splits and both modalities at once. They are too few for a
  swap: six images of different kinds, each a micro-batch of its own, with costs for which
  Karmarkar-Karp misses the best partition.
- *`resume`*: three launches are a run, a resume, and a resume of the resume, from an earlier
  step too; three steps let `keep_last` 2 remove one. Instances with 4 steps and
  interval 2, and with two tasks in flight, were also explored and pass; they take minutes.
- Symmetry of group ids is used in runs without liveness properties only. The two runs of
  `Pipeline` that have some let a fresh group take the first id that is left (`OrderedFairSpec`):
  the ids are interchangeable and no property tells them apart, so these are all behaviours up
  to the names.

Deadlock is checked in every run of `Dispatcher` and `Pipeline`: `Terminated` and
`PipelineDone` stutter in the states where nothing is left to run, and nowhere else.
`MainLoop`, `Packing` and `Resume` come to an end (the loop exits or the group ids
are used up, packing returns, launches are used up), so that their configurations do not check it;
that packing gets there is `PackingEnds`.

### Fairness

`FairSpec` and `PipelineFairSpec` assume: an actor that can run again and again, whenever
the loop is free, runs in the end (strong fairness, because an action is disabled while
another actor is in a segment; asyncio resumes ready callbacks in FIFO order); a run
request is answered some time (the environment client's timeouts make it so); the trainer
trains the batches it was given, and the engines finish an update. Nothing is
assumed of `Interrupt`, which need not happen. `FairSpec` of `Packing` is weak fairness
of `Next`: packing is one call that nothing interrupts. `MainLoop` and `Resume`
have safety properties only: what the main loop waits for is in `Dispatcher` and
`Pipeline`, and a process of `Resume` may be killed at any time. `HoldReleased` assumes no progress
of the held main loop itself, only that it runs when its event is set.

In `LedgerLiveness` a group is served or given up: the drain and shutdown give up
groups on purpose.

### Properties

They are stated at the end of each module, each with what it means for the
code. `EpisodesConserved` is the heart: what has been put and what some actor still
holds (not yet scheduled, waiting in the limiter, in flight, waiting for room,
markers still to emit) add up to the group size in every state. `Owed` names those
places, which no single line of the code knows.

In `MainLoop`, `admitted` and `finalized` are the histories that queue and window are compared
with: `QueueIsFIFO` and `ObservedOnce` say that what has left and what is still there,
put together, is exactly what was put in. `EpochsNeverStranded` is the one that fails when
source and sink disagree about the size of an epoch. In `Packing`, `LoadsClose` bounds the
difference of two ranks by the cost of micro-batches that are neighbours in the order of
cost, however many there are: a merge in the wrong order or a swap that
only looks good adds differences up. In `Resume`, `SameHistory` excepts, by `sound`, what the
code does not promise (below).

## 4. Findings

1. `hold_satisfiable`: the hold in `finalize_train_batch` and `drop_group` can wait for
   each other. The watcher confirms the version the hold waits for, but tells the dispatcher
   before it tells the orchestrator; the dispatcher puts markers on a full `out_q`, whose only
   consumer is the held main loop. The comment at the hold says "always satisfiable".
2. `idle_means_drained`: with `tasks_per_minute`, `is_idle` is true while the last rollout of
   an eval group waits in the rate limiter; a draining orchestrator exits without it.
3. `stale_discarded`: rollouts past `max_off_policy_steps` are documented as discarded; one
   that finishes while another group is being dropped is delivered.
4. `ahead_of_weights`: groups can be opened under a version number before the engines have
   paused for its weights, which the comment in `apply_policy_update` excludes.
5. `weights_on_disk`: the argument in `maybe_clean`'s docstring overlooks that a ship is
   released at publish confirmation: the trainer can remove a directory before it was loaded.

Other limits of the code are visible in the models and stated in the properties rather than as
findings:

- With a rate limit, a rollout waiting in the limiter starts after the drain or during `stop`
  (`NoTrainAfterDisable` and `NoOrphans` are checked without one). The drain emits no markers,
  so the docstring's "every dispatched episode eventually reaches `out_q`" holds of groups
  that are not given up (`abandoned`). `MainLoop` takes `is_idle` to be what it is without a
  rate limit.
- `MainLoop`: a batch whose rollouts all drop at the pre-filters is never formed, so the
  abort after ten empty batches does not see it. A resumed run triggers the step after the
  one resumed from again, also when the run before has evaluated it at its exit.
- `Packing`: a micro-batch can be padded past `seq_len` when `seq_len` is no multiple of
  the padding (`Accounted` says up to the next multiple); a sample that starts with an image
  longer than `seq_len` becomes one of length 0.
- `Resume`: a step directory counts as a checkpoint whatever is in it. After a forced exit of the
  orchestrator, or a crash between the two parts, the latest step may have one part
  only; a plain `--resume` then fails and an older step has to be named
  (`KeepsResumable` says that there is one, once there has been one). With `keep_last` 1 there may be none: the
  trainer removes the step before when the orchestrator has not yet written its
  part of the new one. After a resume from an earlier step, the checkpoints of the abandoned
  future stay, and the trainer part of a step saved again is written over the old one in
  place; `sound` is false of what is loaded from such a mixture.
- `Resume`: `broadcasts/step_R` of an earlier attempt survives `clean_future_steps`, so
  that the orchestrator's wait for the weights of the step it resumes from can end before the
  trainer has published them. They are the same weights unless the trainer's part was
  a different one.

## 5. Proofs

The theorems hold for every value of the constants that satisfies the assumptions of their
module: `EnvAssumption` and `BoundAssumption` (`Dispatcher`, `Pipeline`), `IntervalAssumption`
(`Pipeline`), `GroupAssumption`, `ConfigAssumption`, `ShapeAssumption`, `EvalAssumption` and
`LoopAssumption` (`MainLoop` and its parts), `PackingAssumption` and `ImagesAssumption`
(`Packing`), `ResumeAssumption`. TLC evaluates all of them in the runs. Most say of what kind a
constant is. Two say more: `GroupAssumption`, that no environment is configured twice
(the configuration validates it) and none for training and evaluation both (a group carries its
kind beside the name); and `ImagesAssumption`, that a sample has a placeholder for every token
of its images, which `_truncate_mm` relies on when it takes the patches per token to be the
same for all images.

| Theorem | Statement |
|---|---|
| *`DispatcherProofs`* | with or without a rate limit |
| `TypeCorrect` | `Spec => []TypeOK` |
| `PermitsSafe` | `Spec => []PermitsMatch` |
| `SweepComplete` | `Spec => []StaleSwept` |
| `EpisodesKept` | `Spec => []EpisodesConserved` |
| `GroupsNeverLeak` | `Spec => []GroupsOwe` |
| `ImplementsLedger` | `Spec => LedgerSafety`, the refinement of `EpisodeLedger` |
| `OnlyLiveCancelled` | `Spec => []OnlyLiveTrainCancelled` |
| `NoOrphansUnlimited` | `Spec => []NoOrphans`, if `~RateLimited` |
| `NoTrainAfterDisableUnlimited` | `Spec => NoTrainAfterDisable`, if `~RateLimited` |
| `IdleMeansDrainedUnlimited` | `Spec => []IdleMeansDrained`, if `~RateLimited` |
| *`PipelineProofs`* | |
| `ImplementsDispatcher` | `PipelineSpec => Spec` |
| `DispatcherInPipeline` | the first five theorems, with `PipelineSpec` for `Spec` |
| `PipelineTypeCorrect` | `PipelineSpec => []PipelineTypeOK`, if `TargetLag <= 1` |
| `TrainerNeverStranded` | `PipelineSpec => []NeverStranded`, if `TargetLag <= 1` |
| *`MainLoopProofs`* | for any environments, group sizes, examples, intervals and configurations |
| `MainTypes` | `MainSpec => []MainTypeOK` |
| `SinkIsFIFO` | `MainSpec => []QueueIsFIFO` |
| `SinkCountsTokens` | `MainSpec => []TokensMatch` |
| `BacklogIsBigGroup` | `MainSpec => []BacklogNeedsBigGroup` |
| `RolloutsObservedOnce` | `MainSpec => []ObservedOnce` |
| `StatsAreWindows` | `MainSpec => []PreStatsMatchWindow` |
| `EpochsTriggeredOnce` | `MainSpec => []TriggeredOnce` |
| `ReportsWhole` | `MainSpec => []EpochWhole` |
| `NoEpochStranded` | `MainSpec => []EpochsNeverStranded` |
| `DrainedRunEvaluated` | `MainSpec => []DrainedMeansEvaluated` |
| `EpochsImplementLedger` | `MainSpec => EpochSafety`, the refinement of `EpochLedger` |
| *`PackingProofs`* | for any batch and any number of ranks |
| `PackTypeCorrect` | `Spec => []PackTypeOK` |
| `RanksInStep` | `Spec => []SameShape` |
| `LoadsStayClose` | `Spec => []LoadsClose` |
| *`PackingOnceProofs`* | |
| `SamplesTrainedOnce` | `Spec => []EverySampleOnce` |
| `AccountsAgree` | `Spec => []Accounted` |
| *`ResumeProofs`* | for any number of steps, ranks and launches |
| `ResumeTypeCorrect` | `Spec => []ResumeTypeOK` |
| `RanksAlwaysAgree` | `Spec => []RanksAgree` |
| `HistoryKept` | `Spec => []SameHistory` |
| `StaysResumable` | `Spec => KeepsResumable` |

### Dispatcher and Pipeline

`Base` is the first inductive invariant. Types and permits alone are not
inductive: a start takes one permit more for one task more only if the task is new, so
`Base` adds `Numbered` (the ordinals of a group's tasks are below the next one to be
given out) and `Control` (how the program counters go with the data: a rollout is in the
limiter only while a permit is free and its group was opened; markers are owed only inside a
drop, and of a group that was opened). A few lemmas about finite sets and functions give what
a step does to the number of tasks.

`Accounts` is the second: for every group, delivered plus owed never exceeds its size
and equals it unless the group was given up; a group in `self.groups` has exactly its
missing rollouts still to come; and after shutdown nothing is owed (`Halted`). The
inequality is what makes the refinement go through also for groups that were given
up, of which `EpisodesConserved` says nothing: an episode is put only by an actor that
owed it. The proof has one lemma per group of actions, under each one step for what
the group's ledger gains and its owed places lose.

`StaleCovered` strengthens `StaleSwept` with the state inside a drop: every stale task in
flight belongs to a group in `wstale`, since a task is started with counter 0 and a
claim takes all tasks of a group.

`LiveOnly` strengthens `OnlyLiveTrainCancelled` with the groups a marker can still come from: those
in `wstale` and the one being dropped were sampled from the live policy.

The three theorems that assume `~RateLimited` rest on `Wound`: the dispatch loop is never in the
limiter, so `stop()` (which runs only at another actor's await) finds it where it cannot start
a task before it has looked at `stopped`. The assumption is needed: with a rate limit TLC
violates each of the three. `IdleMeansDrained` then is `EpisodesConserved` with every owed
place empty: nothing scheduled, in flight or in the limiter because the pipeline is idle; no
put waiting because a waiting put on an empty queue is the putter's turn (`PutterReady`);
no markers because `LiveOnly` says that the group being dropped is not an eval.

`PInv` (`PipelineTypeOK`, `Ending`, `Handshake`) is the invariant of `Pipeline`. The last batch
has shipped only when the policy had reached `max_steps - 1 - TARGET_LAG`; a run that is not
interrupted ends only after it; a broadcast under way is of a version the watcher has not
loaded, and never one of the last two. With `TARGET_LAG` at most 1 (the code's value)
these exclude a trainer that waits for a watcher that is gone.

### MainLoop and the sinks

`MainInv` has one part for each thing the loop and its sinks count.

`SinkInv` is of the train sink alone. `QueueIsFIFO` and `TokensMatch` hold because a finalized
group is appended at the end and a cohort is taken from the front (`CutFacts`, `LeftoverFacts`:
the cut is a prefix, the least that reaches the batch size), and the tokens of a
concatenation are the sum of its parts'. `BacklogNeedsBigGroup` is why one `process_batch` per
group is enough: a queue without a full batch, plus a group of at most one batch,
leaves less than a batch after one cut (`LeftoverNeedsBigGroup`).

`WindowInv` says when the statistics are those of the open window: always, except between the cut
of a batch with samples and the reset when it is shipped, and after the drain has begun.

`TriggerInv` gives the epochs triggered at each phase: those due up to the step before, or
with the present one, according to whether the startup trigger has run; so that the next
trigger fires epochs that were not fired before, and no environment twice.

`EpochsNeverStranded` and `EpochWhole` are one argument. `RowsInv`: every example of every epoch
triggered is in the queue or was given to exactly one group. `GroupsInv`: the sink has of a
group what has been delivered of it, each episode's traces once, until the group is complete. `BucketsInv`: the bucket
of an epoch holds the groups that are complete (`Done`), `group_size` episodes of
each; an epoch is evaluated when, and not before, `Done` is all its examples. An epoch not
evaluated therefore has an example that is not done, which is queued or in a group
that is still open; an epoch evaluated has every example, with all its episodes. This uses
what `EpisodeLedger` promises of the dispatcher: as many episodes as the group size,
not one more (`LedgerInv`).

The refinement `EpochsImplementLedger` needs the same: an epoch is evaluated only if it is due, and
a trigger adds only epochs that are new.

Queue, window and buckets are filtered, summed and flattened sequences. What is needed of
them (`SeqUtilsProofs`) is proved without induction over the data: a sum is a recursive function on the
positions, and two running sums are compared at the least position where they
differ (`LeastNat`, from `WellFoundedInduction`); a subsequence is indexed by the ranks of its
positions, and is determined by them.

### Packing

`Types` gives the types what they need to be inductive: samples are no longer than
`seq_len`, and the variables of one phase are empty in the others.

`SameShape` needs two things: that the lists in the Karmarkar-Karp states and in `parts` hold
micro-batches of the modality being distributed (`OfTheGroup`), and that all of them are of
one length (`Aligned`): a fresh state puts one micro-batch on every rank, a merge joins lists of
one length each, a swap exchanges two elements. So the lists of all ranks grow by as
many of one modality, group after group.

`LoadsClose` follows from `Balanced`: in every state on the heap the sums of two ranks differ by at
most `D`, the bound of the property. A fresh state takes the next micro-batches in
order of cost, which are neighbours; a merge pairs the largest with the smallest, so
differences of opposite sign are added (which is where the sort is needed); a swap is taken
only if it is better, and `BetterCloser` shows that a better pair is no further apart.
That the swaps come to an end is not part of it.

`EverySampleOnce` is two invariants: `SamplesOnce` (unplaced samples, bins, the two sides of a
split and micro-batches together have every sample once) and `ItemsOnce` (unranked
micro-batches, states, partitions and ranks together have every micro-batch once). They rest on
lemmas about where an element occurs in a list after lists are joined, reordered, or
exchange two elements. Where one would use induction over a list (the first bin that fits, the
largest of a set) a least counterexample serves here too.

`Accounted` relates quantities that the code keeps twice. `BinsFilled`: a bin's length is
the sum of its samples', which an addition keeps only because the sample is new to
the bin, and `Halve` only because a sample goes to one side: both are `SamplesOnce`. `AllPadded`:
padding adds less than a multiple. `LoadsSummed`: the totals of every Karmarkar-Karp state, and
the loads that swaps go by, are the costs of the lists they stand beside, through joins,
reorderings and exchanges. The images kept by `_truncate_mm` are those the remaining
placeholders ask for (`CutMatches`), since the cut is before the first placeholder of rank above
theirs.

### Resume

`RanksAgree` rests on three invariants. `Written`: the files of this attempt are those of the
steps shipped and, of the step being sent, those of the first ranks, all with the
batch being sent. `Cleaned`: of the steps the trainer has still to look at, no file is of
an earlier attempt. This is what `clean_future_steps` establishes; that it lasts needs that the
step to resume from only grows while the processes read it (`ResolvedGrows`), because
checkpoints are only added until the trainer has loaded. `Received`: what a
rank has taken is still on disk.

`SameHistory` says that model and orchestrator have one past, although each loads its own part.
`ShippedOnce` and `PartsOnce`: what is shipped, and what any checkpoint says was shipped, are as
many tasks as steps, none twice, none beyond the data position and none still in
flight; so a resumed orchestrator, which starts behind its saved position, repeats none. `Sent`: the files
of this attempt hold the tasks shipped. `Trained`: a model has as many tasks as steps.
`SameStart` and `SamePast` then follow the two processes through the resume: until the
orchestrator has loaded, the step resumed from cannot change (the trainer would first need a
batch, and a batch needs the orchestrator), and from then on what the trainer has loaded, or is about
to load, is a prefix of what is shipped, because a checkpoint the orchestrator adds meanwhile is
one of its own past.

`KeepsResumable` is about one action, the trainer's `Clean`, which removes the directories of a
step with both parts: the others only add to what can be loaded (`OthersKeep`). Of the steps kept
beside the trainer's own, the greatest is either the one resumed from or one saved by this
attempt (`Managed`). Its trainer part is whole; that its orchestrator part is there follows from
what is on disk: the orchestrator saves a step before it sends the next batch (`PartsSaved`), and
the trainer has trained on that one; and it runs only after it has loaded its part of
the step the trainer resumed from (`FromSaved`, `Begins`). With `keep_last` 1 the trainer's own
step is the only one kept, and of that the orchestrator's part may still be missing.

The invariants of `Dispatcher` and `Resume` were checked by TLC on the instances of the runs
before they were proved.

### Only model-checked

`LedgerLiveness`, `HoldReleased`, `GateReopens` and `PackingEnds`: liveness under fairness is
out of TLAPS' reach. Every invariant and every safety property that a passing run checks is
proved; `NoOrphans`, `NoTrainAfterDisable` and `IdleMeansDrained` without a rate limit, with
which they do not hold, and `NeverStranded` for `TARGET_LAG` at most 1, the code's value.

## 6. Running

    tlc -config MCDispatcher.cfg MCDispatcher
    tlc -config MCPipelineMem.cfg MCPipeline
    tlc -config MCMainLoop.cfg MCMainLoop
    tlc -config MCPacking.cfg MCPacking
    tlc -config Resume.cfg Resume
    tlapm DispatcherProofs.tla
    tlapm PipelineProofs.tla
    tlapm SeqUtilsProofs.tla
    tlapm TrainSinkProofs.tla
    tlapm MainLoopProofs.tla
    tlapm PackingProofs.tla
    tlapm PackingOnceProofs.tla
    tlapm ResumeProofs.tla

## 7. Plan

What is left, in this order:

1. The zmq transport in `Resume`: PUB/SUB with a high-water mark, the READY set, and the
   bound of the dispatch gate on the lead. The subscription and the READY message travel on
   different connections, so the model has to let either arrive first.
2. The nccl markers (`NCCL_READY`, `STABLE`) over restarts, and the nixl rendezvous, in
   `Pipeline` or `Resume`.
3. A watcher whose `update_weights` fails after its retries, in `Pipeline`.
4. Which weights a version directory holds, in `Resume`, so that the startup sync can be
   stated over attempts.

## 8. Not modelled

Inside modelled components: bench runs (no trainer, no hold), the LoRA model-name switch,
a run request that itself raises `CancelledError`, the ModelExpress rendezvous of
nixl (its transport counts as in-memory), the wall-clock teardown budget and `os._exit`,
metrics. `Pipeline` leaves out `Interrupt`: a forced exit may strand the trainer, as the code
accepts. `Packing` reduces the per-token streams to lengths and image positions, and leaves out the
sort of the indices inside each list that Karmarkar-Karp returns (no property depends on the order within
a list). `Resume` has the
filesystem transport and the filesystem broadcast only; a file is in place at once (the code
renames it) and a checkpoint part is whole or being written, without what
torch.distributed.checkpoint does inside; `keep_interval`, weight-only checkpoints,
`skip_progress` and multi-node launches are left out.

Not at all: environments and the verifiers library (external; a run is answered some
time), samplers, algorithms, filters and losses (numeric, no shared state: what they decide of a
rollout is a free choice in `TrainSink`), the nixl transfer (RDMA by a library), inference servers
(wrappers over vLLM), SFT (a sequential loop), metrics and logging, and
configuration (its constraints appear as assumptions on the constants).

Most of the repository's 44000 lines are of these kinds: model definitions and kernels, weight
conversion, optimizers and parallelism plans, configuration classes, patches of
vLLM, monitors. They have no control that a model checker could get wrong, and a
specification of them would repeat tensor code. The models therefore cover a small
share of the lines, and most of those that decide when something happens.
