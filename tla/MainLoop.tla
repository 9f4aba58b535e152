------------------------------- MODULE MainLoop -------------------------------
(***************************************************************************)
(* The main loop of the orchestrator                                       *)
(* (src/prime_rl/orchestrator/orchestrator.py: start, main_loop,           *)
(* finalize_train_batch, maybe_trigger_eval) with its two sinks and the    *)
(* eval source.                                                            *)
(*                                                                         *)
(* The dispatcher appears as what it promises, EpisodeLedger: a group once *)
(* opened delivers group_size episodes, in any order among the groups.     *)
(* That Dispatcher keeps this promise is shown in Dispatcher and           *)
(* DispatcherProofs; here the promise is what the sinks rely on.  The hold *)
(* of a ship and the trainer are in Pipeline: shipping is one step here.   *)
(*                                                                         *)
(* Groups are numbered in the order they are opened, which stands for      *)
(* their uuid4.                                                            *)
(***************************************************************************)
EXTENDS TrainSink, EvalEpoch

CONSTANTS
    None,               \* environment of a group id not used yet
    TrainGroups,        \* bound: groups opened, per train environment
    MaxOpen,            \* bound: groups open at once (max_inflight_episodes in the code)
    MaxEmpty            \* MAX_CONSECUTIVE_EMPTY_BATCHES

ASSUME LoopAssumption ==
    /\ Gid = 1..Cardinality(Gid)
    /\ None \notin TrainEnv \cup EvalEnv
    /\ TrainGroups \in [TrainEnv -> Nat] /\ MaxOpen \in Nat \ {0}
    /\ MaxEmpty \in Nat \ {0}

VARIABLES
    phase,          \* where the main loop is
    step,           \* progress.step
    draining,       \* draining
    emptyBatches,   \* consecutive_empty_batches
    \* the dispatcher, as EpisodeLedger has it
    env, delivered, abandoned,
    row,            \* the example an eval group was opened for
    \* history
    triggered,      \* epochs triggered, in order
    evaluated,      \* epochs evaluated, in order
    observed        \* number of rollouts in the windows of the batches shipped

ledgerVars == <<env, delivered, abandoned>>
loopVars == <<phase, step, draining, emptyBatches>>
epochVars == <<triggered, evaluated>>
historyVars == <<epochVars, observed>>
mainVars == <<config, sinkVars, evalVars, loopVars, ledgerVars, row, historyVars>>

L == INSTANCE EpisodeLedger WITH Env <- TrainEnv \cup EvalEnv

MainInit ==
    /\ config \in Configs
    /\ SinkInit /\ EvalInit
    /\ phase = "retrigger" /\ step = config.startStep
    /\ draining = FALSE /\ emptyBatches = 0
    /\ L!Init
    /\ row = [g \in Gid |-> None]
    /\ triggered = <<>> /\ evaluated = <<>> /\ observed = 0

-----------------------------------------------------------------------------
(* The dispatcher *)

Opened == {g \in Gid : env[g] # None}
IsOpen(g) == env[g] # None /\ delivered[g] < GroupSize[env[g]]
OpenNow == {g \in Gid : IsOpen(g) /\ g \notin abandoned}
NextGid(g) == g = Cardinality(Opened) + 1

MayOpen(g) == phase \notin {"stopped", "aborted"} /\ NextGid(g) /\ Cardinality(OpenNow) < MaxOpen

OpenTrain(g) ==
    /\ MayOpen(g) /\ ~draining
    /\ \E e \in TrainEnv :
        /\ Cardinality({h \in Opened : env[h] = e}) < TrainGroups[e]
        /\ L!Open(g) /\ env'[g] = e
    /\ UNCHANGED <<config, sinkVars, evalVars, loopVars, row, historyVars>>

OpenEval(g) ==
    /\ MayOpen(g) /\ NextExample
    /\ L!Open(g) /\ env'[g] = Head(evalQueue).env
    /\ row' = [row EXCEPT ![g] = Head(evalQueue)]
    /\ UNCHANGED <<config, sinkVars, evalSinkVars, loopVars, historyVars>>

-----------------------------------------------------------------------------
(* Startup and triggers *)

\* maybe_trigger_eval.
TriggerEval(s) ==
    /\ Trigger(s)
    /\ triggered' = triggered \o [i \in 1..Len(Fired(s)) |-> <<Fired(s)[i], s>>]

\* On resume, the epochs of the checkpoint's step once more if configured.
StartRetrigger ==
    /\ phase = "retrigger" /\ phase' = "startup"
    /\ IF config.retrigger /\ config.resumed THEN TriggerEval(step - 1)
       ELSE UNCHANGED <<sourceVars, triggered>>
    /\ UNCHANGED <<config, sinkVars, evalSinkVars, step, draining, emptyBatches, ledgerVars,
                   row, evaluated, observed>>

StartTrigger ==
    /\ phase = "startup" /\ phase' = "run"
    /\ TriggerEval(step)
    /\ UNCHANGED <<config, sinkVars, evalSinkVars, step, draining, emptyBatches, ledgerVars,
                   row, evaluated, observed>>

-----------------------------------------------------------------------------
(* main_loop: one episode *)

\* A train episode; a batch it completes is dropped while draining.
TrainArrives(g, shape) ==
    /\ phase = "run" /\ env[g] \in TrainEnv
    /\ L!Deliver(g) /\ Add(g, env[g], shape)
    /\ phase' = IF batch' # NoBatch /\ ~draining THEN "finalize" ELSE "run"
    /\ UNCHANGED <<config, evalVars, step, draining, emptyBatches, row, historyVars>>

\* An eval episode; finalize_eval_batch only reports.
EvalArrives(g, traces) ==
    /\ phase = "run" /\ env[g] \in EvalEnv
    /\ L!Deliver(g) /\ EvalAdd(g, row[g], traces)
    /\ evaluated' = IF evalBatch' = NoEvalBatch THEN evaluated
                    ELSE Append(evaluated, <<evalBatch'.env, evalBatch'.step>>)
    /\ UNCHANGED <<config, sinkVars, sourceVars, loopVars, row, triggered, observed>>

IdleWithoutEval == evalQueue = <<>>

\* The pipeline has drained: no eval work is left and nothing that is in flight is waited
\* for.  What the drain cancelled may or may not have reached out_q before it.
IsIdle == evalQueue = <<>> /\ OpenNow = {}

Exit ==
    /\ phase = "run" /\ draining /\ IsIdle
    /\ phase' = "stopped"
    /\ UNCHANGED <<config, sinkVars, evalVars, step, draining, emptyBatches, ledgerVars, row,
                   historyVars>>

-----------------------------------------------------------------------------
(* finalize_train_batch *)

\* One more batch after the last step: stop scheduling train groups, cancel those in flight.
StartDrain ==
    /\ phase = "finalize" /\ step > config.maxSteps
    /\ phase' = "run" /\ draining' = TRUE
    /\ abandoned' = abandoned \cup {g \in OpenNow : env[g] \in TrainEnv}
    /\ UNCHANGED <<config, sinkVars, evalVars, step, emptyBatches, env, delivered, row, historyVars>>

EmptyBatchOneMore ==
    /\ phase = "finalize" /\ step <= config.maxSteps /\ batch.samples = <<>>
    /\ emptyBatches' = emptyBatches + 1
    /\ phase' = IF emptyBatches' > MaxEmpty THEN "aborted" ELSE "run"
    /\ UNCHANGED <<config, sinkVars, evalVars, step, draining, ledgerVars, row, historyVars>>

\* A batch without samples is dropped; too many in a row end the run.
EmptyBatch ==
    /\ phase = "finalize" /\ step <= config.maxSteps /\ batch.samples = <<>>
    /\ emptyBatches' = emptyBatches + 1
    /\ phase' = IF emptyBatches' >= MaxEmpty THEN "aborted" ELSE "run"
    /\ UNCHANGED <<config, sinkVars, evalVars, step, draining, ledgerVars, row, historyVars>>

\* Ship: pack and send, advance the step, reset the statistics, trigger the evals due.
ShipBatch ==
    /\ phase = "finalize" /\ step <= config.maxSteps /\ batch.samples # <<>>
    /\ emptyBatches' = 0
    /\ step' = step + 1
    /\ phase' = "run"
    /\ ResetPreFilterStats
    /\ TriggerEval(step')
    /\ observed' = observed + Len(batch.rollouts)
    /\ UNCHANGED <<config, pendingGroups, pendingEpisodes, queueVars, windowVars, batch, evalSinkVars,
                   draining, ledgerVars, row, evaluated>>

MainNext ==
    \/ \E g \in Gid : OpenTrain(g) \/ OpenEval(g)
    \/ \E g \in Gid, shape \in Shape : TrainArrives(g, shape)
    \/ \E g \in Gid, traces \in Traces : EvalArrives(g, traces)
    \/ StartRetrigger \/ StartTrigger
    \/ StartDrain \/ EmptyBatch \/ ShipBatch \/ Exit

MainSpec == MainInit /\ [][MainNext]_mainVars

-----------------------------------------------------------------------------
(* Properties *)

MainTypeOK ==
    /\ SinkTypeOK
    /\ phase \in {"retrigger", "startup", "run", "finalize", "stopped", "aborted"}
    /\ step \in Nat /\ config.startStep <= step
    /\ step > config.startStep => step <= config.maxSteps + 1
    /\ draining \in BOOLEAN /\ emptyBatches \in 0..MaxEmpty
    /\ observed \in 0..Len(finalized)

\* Every rollout of a finalized group is in the window of exactly one shipped batch, or
\* still in the window: batches without samples leave theirs to the next one.  (The
\* batches that fall into the drain are dropped with their windows.)
ObservedOnce ==
    ~draining =>
        SubSeq(finalized, observed + 1, Len(finalized))
            = (IF phase = "finalize" /\ batch.samples # <<>> THEN batch.rollouts ELSE <<>>)
              \o pendingRollouts

\* Between batches, the pre-filter statistics are those of the rollouts in the window.
PreStatsMatchWindow ==
    phase = "run" /\ ~draining =>
        /\ preSeen = Len(Survivors(pendingRollouts))
        /\ preSeen - preDropped = Len(Admitted(pendingRollouts))

\* The epochs due up to the current step: all environments at the first step of a fresh run
\* unless skip_first_step; after that, and on resume, those whose interval divides the step;
\* on resume with retrigger also at the checkpoint's own step.
DueAt(s) ==
    IF s = 1 /\ ~config.resumed
    THEN IF config.skipFirstStep THEN {} ELSE EvalEnv
    ELSE {e \in EvalEnv : s % Interval[e] = 0}

FirstDue == config.startStep - IF config.resumed /\ config.retrigger THEN 1 ELSE 0

\* No epoch that is due is lost and none is triggered twice, at startup, on resume and after
\* every ship.
TriggeredOnce ==
    phase \notin {"retrigger", "startup"} =>
        /\ IsInjective(triggered)
        /\ ToSet(triggered) = {k \in EvalEnv \X (FirstDue..step) : k[1] \in DueAt(k[2])}

\* No episode of an epoch goes missing between source and sink: as soon as no eval work is
\* queued or in flight, every epoch triggered has been evaluated and the sink is empty.
EpochsNeverStranded ==
    evalQueue = <<>> /\ {g \in OpenNow : env[g] \in EvalEnv} = {} =>
        /\ ToSet(evaluated) = ToSet(triggered)
        /\ DOMAIN buckets = {} /\ \A g \in Gid : evalGroups[g] = <<>>

\* max_steps cuts no evaluation short: when the drained loop exits, every epoch triggered
\* has been evaluated.
DrainedMeansEvaluated == phase = "stopped" => ToSet(evaluated) = ToSet(triggered)

\* Source and sink implement the ledger of epochs: an epoch is evaluated once, and only after
\* it has been triggered.
Epochs == INSTANCE EpochLedger WITH
    Epoch     <- EvalEnv \X Nat,
    due       <- ToSet(triggered) \ ToSet(evaluated),
    evaluated <- evaluated

EpochSafety == Epochs!Spec
=============================================================================
