------------------------------ MODULE Pipeline ------------------------------
(***************************************************************************)
(* The orchestrator around its dispatcher, and the trainer it feeds.       *)
(*                                                                         *)
(* Dispatcher leaves two things open: when the weight watcher gets to its  *)
(* next step and when a batch that waits for a policy version is shipped.  *)
(* This module adds both, and the trainer that closes the loop:            *)
(*                                                                         *)
(*   WeightWatcher.apply_policy_update (orchestrator/watcher.py): confirm  *)
(*   a published version, tell the observers, update the engines, tell     *)
(*   them again;                                                           *)
(*   the hold in Orchestrator.finalize_train_batch, which sleeps on        *)
(*   version_advanced (orchestrator/orchestrator.py);                      *)
(*   the training loop (trainer/rl/train.py), its broadcast directory and  *)
(*   maybe_clean (trainer/utils.py).                                       *)
(*                                                                         *)
(* Every step is a step of Dispatcher or leaves its state alone.           *)
(***************************************************************************)
EXTENDS Dispatcher

CONSTANTS
    CkptInterval    \* ckpt.interval of the trainer; 0 when it is not set

ASSUME IntervalAssumption == CkptInterval \in Nat

VARIABLES
    upc,        \* where apply_policy_update is
    loaded,     \* version of the weights in the engines
    advanced,   \* version_advanced.is_set()
    hold,       \* the ship being held
    tpc,        \* trainer: at its batch, or inside an in-memory broadcast
    trained,    \* steps the trainer has finished
    onDisk      \* broadcast directories with a STABLE marker

watchVars == <<upc, loaded>>
holdVars  == <<advanced, hold>>
trainVars == <<tpc, trained, onDisk>>
pipeVars  == <<watchVars, holdVars, trainVars>>
allVars   == <<vars, pipeVars>>

PipelineTypeOK ==
    /\ upc \in {"poll", "pending", "apply", "live", "off"} /\ loaded \in 0..MaxSteps
    /\ advanced \in BOOLEAN /\ hold \in {"none", "held", "release"}
    /\ tpc \in {"batch", "handshake"} /\ trained \in 0..MaxSteps
    /\ onDisk \subseteq 0..trained

\* Startup has synchronised the engines with the trainer's v0 broadcast.
PipelineInit ==
    /\ Init
    /\ upc = "poll" /\ loaded = 0
    /\ advanced = FALSE /\ hold = "none"
    /\ tpc = "batch" /\ trained = 0 /\ onDisk = {0}

-----------------------------------------------------------------------------
(* The watcher *)

Latest == CHOOSE v \in onDisk : \A w \in onDisk : w <= v

\* compute_next_ckpt_step found a later STABLE version: the policy carries its number
\* from here on, and dispatcher.on_version_pending starts.
Confirm ==
    /\ upc = "poll" /\ onDisk # {} /\ Latest > version
    /\ VersionPending /\ version' = Latest
    /\ upc' = "pending"
    /\ UNCHANGED <<loaded, holdVars, trainVars>>

NotifyMainSilent ==
    /\ upc = "pending" /\ wpc = "idle" /\ LoopFree
    /\ upc' = "apply"
    /\ UNCHANGED <<vars, loaded, holdVars, trainVars>>

\* dispatcher.on_version_pending has returned; orchestrator.on_version_pending.
NotifyMain ==
    /\ upc = "pending" /\ wpc = "idle" /\ LoopFree
    /\ upc' = "apply" /\ advanced' = TRUE
    /\ UNCHANGED <<vars, loaded, hold, trainVars>>

\* update_weights: pause, load, resume.  An in-memory broadcast ends with it.
Apply ==
    /\ upc = "apply" /\ LoopFree
    /\ upc' = "live" /\ loaded' = version
    /\ tpc' = "batch"
    /\ UNCHANGED <<vars, holdVars, trained, onDisk>>

LiveUngated ==
    /\ upc = "live" /\ LoopFree
    /\ upc' = "poll"
    /\ UNCHANGED <<vars, loaded, holdVars, trainVars>>

\* on_new_version of both observers.
Live ==
    /\ upc = "live" /\ LoopFree
    /\ upc' = "poll"
    /\ OnNewVersion \/ (gate = GateOpen(ships) /\ UNCHANGED vars)
    /\ UNCHANGED <<loaded, holdVars, trainVars>>

\* WeightWatcher.stop, after the dispatcher's: an apply under way is waited for.
StopWatcher ==
    /\ mpc = "stopped" /\ upc = "poll"
    /\ upc' = "off"
    /\ UNCHANGED <<vars, loaded, holdVars, trainVars>>

-----------------------------------------------------------------------------
(* The main loop, with the hold *)

\* The batch is complete and the policy is behind: clear the event and wait for it.
HoldShip ==
    /\ mpc = "train" /\ LoopFree /\ ~disabled /\ ships < MaxSteps
    /\ hold = "none" /\ ~PolicyReached
    /\ hold' = "held" /\ advanced' = FALSE
    /\ UNCHANGED <<vars, watchVars, trainVars>>

\* The event is set: clear it, look at the version again.
HoldWake ==
    /\ hold = "held" /\ advanced /\ LoopFree
    /\ advanced' = FALSE
    /\ hold' = IF PolicyReached THEN "release" ELSE "held"
    /\ UNCHANGED <<vars, watchVars, trainVars>>

MainStep ==
    /\ \/ hold = "none" /\ (Get \/ BackToGet \/ Drain \/ Exit \/ Stop \/ StopLoop)
       \/ hold # "held" /\ Ship
    /\ hold' = "none"
    /\ UNCHANGED <<watchVars, advanced, trainVars>>

-----------------------------------------------------------------------------
(* The trainer *)

\* maybe_clean after broadcasting v{s}: v{s-2} goes, unless it is on the interval.
Cleaned(s) ==
    LET candidate == IF s >= 2 THEN s - 2 ELSE 0
    IN  IF CkptInterval > 0 /\ candidate % CkptInterval = 0 THEN {} ELSE {candidate}

\* wait_for_batch: batch trained+1 has been shipped.
BatchTooEarly == trained <= ships
BatchArrived  == trained < ships

\* Train on the next shipped batch and broadcast the result: over the filesystem, or
\* in memory, where the broadcast waits for the watcher's apply and the last two are
\* skipped.
TrainStep ==
    /\ tpc = "batch" /\ BatchArrived
    /\ trained' = trained + 1
    /\ IF ~InMemory
       THEN tpc' = tpc /\ onDisk' = (onDisk \cup {trained'}) \ Cleaned(trained')
       ELSE IF trained' >= MaxSteps - 1
       THEN UNCHANGED <<tpc, onDisk>>
       ELSE tpc' = "handshake" /\ onDisk' = onDisk \cup {trained'}
    /\ UNCHANGED <<vars, watchVars, holdVars>>

-----------------------------------------------------------------------------
DispatchStep == (Dispatch \/ \E t \in Inflight : EnvReturns(t)) /\ UNCHANGED pipeVars

DropStep ==
    /\ (\E g \in Gid : DropClaim(g)) \/ EmitMarker \/ PutMarker \/ DropEmitted \/ DropCancelled
    /\ UNCHANGED pipeVars

WatcherStep == Confirm \/ DropStep \/ NotifyMain \/ Apply \/ Live \/ StopWatcher

PipelineDone == upc = "off" /\ trained = ships /\ UNCHANGED allVars

PipelineNext ==
    \/ DispatchStep \/ WatcherStep \/ TrainStep
    \/ HoldShip \/ HoldWake \/ MainStep \/ PipelineDone

PipelineSpec == PipelineInit /\ [][PipelineNext]_allVars

-----------------------------------------------------------------------------
(* Fairness.  Dispatcher's, and of the parties added here: the watcher polls and   *)
(* finishes what it started (the engines answer), the trainer trains the batches *)
(* it is given.  The main loop may hold forever: waking it is what is to be shown. *)

PipelineFairness ==
    /\ SF_allVars(Dispatch /\ UNCHANGED pipeVars)
    /\ SF_allVars((\E t \in Inflight : EnvReturns(t)) /\ UNCHANGED pipeVars)
    /\ SF_allVars(WatcherStep) /\ SF_allVars(TrainStep)
    /\ SF_allVars(HoldWake) /\ SF_allVars(MainStep)

PipelineFairSpec == PipelineSpec /\ PipelineFairness

-----------------------------------------------------------------------------
\* "Always satisfiable" (comment on the hold in finalize_train_batch): a held ship never
\* waits for a watcher that itself waits for the held main loop to take from out_q.
HoldSatisfiable ==
    ~(hold = "held" /\ ~advanced /\ upc = "pending" /\ wpc = "put" /\ Full)

\* "Nothing can generate under the new number from the old weights" (comment in
\* apply_policy_update): a group stamped with a version the engines do not run yet is
\* only opened while the engines are paused for the update.
AheadOfWeights ==
    [][\A g \in Opened' \ Opened : version # loaded => upc = "apply"]_allVars

\* "step - 2 is therefore safe to remove" (docstring of maybe_clean): the directory of
\* the version the engines are to load exists until they have loaded it.
WeightsOnDisk == upc \in {"pending", "apply"} => version \in onDisk

\* What the hold is for: when the orchestrator has drained and torn down its watcher,
\* no trainer is left inside an in-memory broadcast that needs it, now or later.
NeverStranded == upc = "off" => tpc = "batch" /\ (InMemory => trained >= MaxSteps - 2)

\* A held ship is released: the version it waits for is published by the trainer from
\* batches shipped earlier, and the wake-up is not lost between clear() and wait().
HoldReleased == (hold = "held") ~> (hold = "release")

\* A closed dispatch gate opens again, also at the end, where the trainer skips the last
\* in-memory broadcasts, and also when drop_group puts markers on a full out_q before
\* on_new_version gets its turn.  Only the circular wait of HoldSatisfiable keeps it closed.
GateReopens == ~gate ~> (gate \/ mpc = "stopped" \/ ~HoldSatisfiable)
=============================================================================
