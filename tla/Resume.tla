------------------------------- MODULE Resume -------------------------------
(***************************************************************************)
(* Checkpoints and resume: the run directory that outlives the processes,  *)
(* and the launcher, the orchestrator and the trainer that are killed and  *)
(* launched again over it (src/prime_rl/entrypoints/rl.py,                 *)
(* orchestrator/ckpt.py, trainer/ckpt.py, transport/filesystem.py).        *)
(*                                                                         *)
(* A checkpoint of a step has two parts, written by two processes that do  *)
(* not wait for one another: the orchestrator's when it has sent the batch *)
(* of the step, the trainer's when it has trained on it.  Nothing says     *)
(* that a checkpoint is whole: a step that has a directory is one to       *)
(* resume from.  Either process may be killed at any point; the launcher   *)
(* then terminates the other one, which until then goes on.                *)
(*                                                                         *)
(* The transports are those of the filesystem: a file per step and rank    *)
(* for the micro-batches, a directory per version for the weights.  Tasks  *)
(* are numbered in the order in which TrainSource dispatches them; a batch *)
(* is one task.                                                            *)
(***************************************************************************)
EXTENDS Integers, Sequences, FiniteSets, SequencesExt

CONSTANTS
    MaxSteps,      \* max_steps
    Interval,      \* ckpt.interval
    KeepLast,      \* ckpt.keep_last
    Ranks,         \* data_world_size
    MaxInflight,   \* bound: tasks in flight
    MaxAttempts,   \* bound: launches of the run
    Latest,        \* a bare --resume
    None           \* no such file

\* The orchestrator's part of a checkpoint: how many tasks TrainSource has dispatched, and
\* (ghost) the tasks of the batches shipped.
OrchestratorPart == [position : Nat, shipped : Seq(Nat)]

\* A model is the tasks it has been trained on; the trainer's part has it, and whether it was
\* written whole, over another one.
Model == [tasks : Seq(Nat), sound : BOOLEAN]
TrainerPart == [step : Nat, model : Model, whole : BOOLEAN, over : BOOLEAN]

\* A rank file, of a batch, with the attempt (ghost) that wrote it.
Batch == [attempt : Nat, task : Nat]

ASSUME ResumeAssumption ==
    /\ MaxSteps \in Nat \ {0} /\ Interval \in Nat \ {0} /\ KeepLast \in Nat \ {0}
    /\ Ranks \in Nat \ {0} /\ MaxInflight \in Nat /\ MaxAttempts \in Nat
    /\ Latest \notin Nat /\ None \notin Nat \cup OrchestratorPart \cup TrainerPart \cup Batch

TargetLag == 1

VARIABLES
    \* the run directory
    orchPart,     \* checkpoints/step_N/orchestrator: data position, and (ghost) what was shipped
    trainerPart,  \* checkpoints/step_N/trainer: step and model, while being written not whole
    rollouts,     \* rollouts/step_N/rank_R.bin
    broadcasts,   \* versions with broadcasts/step_N/STABLE
    \* the launcher
    attempt, resume,
    \* the orchestrator
    orch,         \* where it is
    step,         \* progress.step
    position,     \* tasks that TrainSource has dispatched
    inflight,     \* tasks dispatched and not shipped
    sending,      \* the task of the batch being sent, and the rank files written
    shipped,      \* (ghost) the tasks of the batches shipped, back to the first step
    version,      \* policy.version
    \* the trainer
    trainer,      \* where it is
    from,         \* checkpoint_step, 0 from scratch
    tstep,        \* its progress.step
    model,        \* the tasks it has been trained on, and whether they are to be trusted
    got,          \* per rank, the batch received
    ckptSteps     \* ckpt_steps

disk == <<orchPart, trainerPart, rollouts, broadcasts>>
orchVars == <<orch, step, position, inflight, sending, shipped, version>>
trainerVars == <<trainer, from, tstep, model, got, ckptSteps>>
vars == <<disk, attempt, resume, orchVars, trainerVars>>

Step == 1..MaxSteps
Rank == 1..Ranks
Version == 0..MaxSteps

NoModel == [tasks |-> <<>>, sound |-> TRUE]
NoBatch == [r \in Rank |-> None]

Init ==
    /\ orchPart = [s \in Step |-> None] /\ trainerPart = [s \in Step |-> None]
    /\ rollouts = [s \in Step |-> NoBatch] /\ broadcasts = {}
    /\ attempt = 0 /\ resume = None
    /\ orch = "off" /\ step = 1 /\ position = 0 /\ inflight = {}
    /\ sending = [task |-> 0, files |-> 0] /\ shipped = <<>> /\ version = 0
    /\ trainer = "off" /\ from = 0 /\ tstep = 1 /\ model = NoModel /\ got = NoBatch
    /\ ckptSteps = {}

-----------------------------------------------------------------------------
(* The launcher *)

\* get_all_ckpt_steps: any directory counts, whatever is in it.
CkptSteps == {s \in Step : orchPart[s] # None \/ trainerPart[s] # None}

Greatest(S) == CHOOSE s \in S : \A t \in S : t <= s

\* The step to resume from, 0 from scratch.  The three processes each resolve it.
Resolved(arg) ==
    IF arg = None THEN 0
    ELSE IF arg # Latest THEN arg
    ELSE IF CkptSteps = {} THEN 0 ELSE Greatest(CkptSteps)

\* Only what lies past the next step is stale.
StaleFromNext(s) == IF s = 0 THEN 0 ELSE s + 2

\* clean_future_steps: what lies past the resume step is stale; from scratch, all.
StaleFrom(s) == IF s = 0 THEN 0 ELSE s + 1

\* The first launch starts from scratch; a run directory in use has to be resumed, from the
\* latest checkpoint or from one named.
Launch(arg) ==
    /\ orch = "off" /\ trainer = "off" /\ attempt < MaxAttempts
    /\ (attempt = 0) <=> (arg = None)
    /\ attempt' = attempt + 1 /\ resume' = arg
    /\ LET stale == StaleFrom(Resolved(arg))
       IN  /\ rollouts' = [s \in Step |-> IF s >= stale THEN NoBatch ELSE rollouts[s]]
           /\ broadcasts' = {v \in broadcasts : v < stale}
    /\ orch' = "setup" /\ step' = 1 /\ position' = 0 /\ inflight' = {}
    /\ sending' = [task |-> 0, files |-> 0] /\ shipped' = <<>> /\ version' = 0
    /\ trainer' = "setup" /\ from' = 0 /\ tstep' = 1 /\ model' = NoModel /\ got' = NoBatch
    /\ ckptSteps' = {}
    /\ UNCHANGED <<orchPart, trainerPart>>

Ended == {"dead", "done"}

\* One of them failed and the other is terminated, at once and without a last checkpoint; or
\* both are done.
Terminate ==
    /\ "dead" \in {orch, trainer} \/ {orch, trainer} = {"done"}
    /\ orch' = "off" /\ trainer' = "off"
    /\ UNCHANGED <<disk, attempt, resume, step, position, inflight, sending, shipped, version,
                   from, tstep, model, got, ckptSteps>>

\* A process dies where it is: out of memory, preempted, a node lost.
KillOrchestrator ==
    /\ orch \notin Ended \cup {"off"} /\ orch' = "dead"
    /\ UNCHANGED <<disk, attempt, resume, step, position, inflight, sending, shipped, version,
                   trainerVars>>

KillTrainer ==
    /\ trainer \notin Ended \cup {"off"} /\ trainer' = "dead"
    /\ UNCHANGED <<disk, attempt, resume, orchVars, from, tstep, model, got, ckptSteps>>

-----------------------------------------------------------------------------
(* The orchestrator *)

\* setup: the part of the checkpoint, which has to be there.
OrchestratorLoad ==
    /\ orch = "setup"
    /\ LET s == Resolved(resume) IN
        \/ /\ s = 0 /\ orch' = "sync"
           /\ UNCHANGED <<step, position, shipped>>
        \/ /\ s # 0 /\ orchPart[s] # None /\ orch' = "sync"
           /\ step' = s + 1 /\ position' = orchPart[s].position /\ shipped' = orchPart[s].shipped
        \/ /\ s # 0 /\ orchPart[s] = None /\ orch' = "dead"
           /\ UNCHANGED <<step, position, shipped>>
    /\ UNCHANGED <<disk, attempt, resume, inflight, sending, version, trainerVars>>

\* Wait for the weights of the step before, which an earlier attempt may have left.
Sync ==
    /\ orch = "sync" /\ (step - 1) \in broadcasts
    /\ orch' = "run" /\ version' = step - 1
    /\ UNCHANGED <<disk, attempt, resume, step, position, inflight, sending, shipped, trainerVars>>

\* The watcher applies the latest version.
Watch ==
    /\ orch \in {"run", "send", "sent"}
    /\ broadcasts # {} /\ Greatest(broadcasts) > version
    /\ version' = Greatest(broadcasts)
    /\ UNCHANGED <<disk, attempt, resume, orch, step, position, inflight, sending, shipped,
                   trainerVars>>

\* TrainSource advances when a task is dispatched, not when it is shipped.
Dispatch ==
    /\ orch \in {"run", "send"} /\ Cardinality(inflight) < MaxInflight
    /\ position' = position + 1 /\ inflight' = inflight \cup {position + 1}
    /\ UNCHANGED <<disk, attempt, resume, orch, step, sending, shipped, version, trainerVars>>

\* Also past the last step.
ShipPastLast(t) ==
    /\ orch = "run" /\ version >= step - 1 - TargetLag
    /\ orch' = "send" /\ sending' = [task |-> t, files |-> 0] /\ inflight' = inflight \ {t}
    /\ UNCHANGED <<disk, attempt, resume, step, position, shipped, version, trainerVars>>

\* The batch of a step is held until the trainer is near.
Ship(t) ==
    /\ orch = "run" /\ step <= MaxSteps /\ version >= step - 1 - TargetLag
    /\ orch' = "send" /\ sending' = [task |-> t, files |-> 0] /\ inflight' = inflight \ {t}
    /\ UNCHANGED <<disk, attempt, resume, step, position, shipped, version, trainerVars>>

\* _encode_and_write: one file per rank, each in place at once.  With the last one send
\* returns and the step is over.
WriteRank ==
    /\ orch = "send"
    /\ LET r == sending.files + 1 IN
        /\ rollouts' = [rollouts EXCEPT ![step][r] = [attempt |-> attempt, task |-> sending.task]]
        /\ sending' = [sending EXCEPT !.files = r]
        /\ IF r = Ranks
           THEN orch' = "sent" /\ step' = step + 1 /\ shipped' = Append(shipped, sending.task)
           ELSE UNCHANGED <<orch, step, shipped>>
    /\ UNCHANGED <<orchPart, trainerPart, broadcasts, attempt, resume, position, inflight, version,
                   trainerVars>>

\* The data position of the batch before.
PositionBefore == [position |-> Len(shipped) - 1, shipped |-> shipped]

\* What the orchestrator saves.
Progress == [position |-> position, shipped |-> shipped]

\* maybe_save_ckpt: the last step is left to the exit.
SaveOrchestrator ==
    /\ orch = "sent" /\ orch' = "run"
    /\ orchPart' = IF step - 1 < MaxSteps /\ (step - 1) % Interval = 0
                   THEN [orchPart EXCEPT ![step - 1] = Progress] ELSE orchPart
    /\ UNCHANGED <<trainerPart, rollouts, broadcasts, attempt, resume, step, position, inflight,
                   sending, shipped, version, trainerVars>>

\* start's finally clause saves the last step shipped, whatever ended the main loop.
FinalSave ==
    orchPart' = IF step > 1 THEN [orchPart EXCEPT ![step - 1] = Progress] ELSE orchPart

\* Past the last step the pipeline is drained.
Finish ==
    /\ orch = "run" /\ step > MaxSteps
    /\ FinalSave /\ orch' = "done"
    /\ UNCHANGED <<trainerPart, rollouts, broadcasts, attempt, resume, step, position, inflight,
                   sending, shipped, version, trainerVars>>

\* An exception in the main loop, or an interrupt.
Fail ==
    /\ orch \in {"run", "send", "sent"}
    /\ FinalSave /\ orch' = "dead"
    /\ UNCHANGED <<trainerPart, rollouts, broadcasts, attempt, resume, step, position, inflight,
                   sending, shipped, version, trainerVars>>

-----------------------------------------------------------------------------
(* The trainer *)

\* Checkpoints past a step that is named are no longer the manager's.
TrainerSetup ==
    /\ trainer = "setup" /\ trainer' = "load"
    /\ from' = Resolved(resume)
    /\ ckptSteps' = IF resume \in Step THEN {s \in CkptSteps : s <= resume} ELSE CkptSteps
    /\ UNCHANGED <<disk, attempt, resume, orchVars, tstep, model, got>>

\* A part that is being written is not loaded, except over an older one: its metadata is that
\* of the older one, and the shards are of both.
Loadable(s) == trainerPart[s] # None /\ (trainerPart[s].whole \/ trainerPart[s].over)

\* A model is sound when it is from one save and the orchestrator's part is of the same run of
\* steps.
IsSound(s) ==
    /\ trainerPart[s].whole /\ trainerPart[s].model.sound
    /\ orchPart[s] # None /\ orchPart[s].shipped = trainerPart[s].model.tasks

\* The checkpoint finished its step: training goes on with the next one.
TrainerLoad ==
    /\ trainer = "load"
    /\ \/ /\ from = 0 /\ trainer' = "start"
          /\ UNCHANGED <<tstep, model>>
       \/ /\ from # 0 /\ Loadable(from) /\ trainer' = "start"
          /\ tstep' = trainerPart[from].step + 1
          /\ model' = [trainerPart[from].model EXCEPT !.sound = IsSound(from)]
       \/ /\ from # 0 /\ ~Loadable(from) /\ trainer' = "dead"
          /\ UNCHANGED <<tstep, model>>
    /\ UNCHANGED <<disk, attempt, resume, orchVars, from, got, ckptSteps>>

StartupBroadcast ==
    /\ trainer = "start" /\ trainer' = "wait"
    /\ broadcasts' = broadcasts \cup {tstep - 1}
    /\ UNCHANGED <<orchPart, trainerPart, rollouts, attempt, resume, orchVars, from, tstep, model,
                   got, ckptSteps>>

\* Every rank waits for its own file.
Receive(r) ==
    /\ trainer = "wait" /\ tstep \in Step /\ got[r] = None /\ rollouts[tstep][r] # None
    /\ got' = [got EXCEPT ![r] = rollouts[tstep][r]]
    /\ UNCHANGED <<disk, attempt, resume, orchVars, trainer, from, tstep, model, ckptSteps>>

\* A step, which takes all ranks.
Train ==
    /\ trainer = "wait" /\ \A r \in Rank : got[r] # None
    /\ trainer' = "publish" /\ got' = NoBatch
    /\ model' = [model EXCEPT !.tasks = Append(@, got[1].task)]
    /\ UNCHANGED <<disk, attempt, resume, orchVars, from, tstep, ckptSteps>>

IsLastStep == tstep = MaxSteps

\* Where the loop goes after a step.
NextStep ==
    IF IsLastStep THEN trainer' = "done" /\ UNCHANGED tstep
    ELSE trainer' = "wait" /\ tstep' = tstep + 1

\* Publish the weights and remove those of two steps ago, unless a checkpoint's.
Broadcast ==
    /\ trainer = "publish"
    /\ LET old == IF tstep > 2 THEN tstep - 2 ELSE 0
       IN  broadcasts' = (broadcasts \cup {tstep}) \ (IF old % Interval = 0 THEN {} ELSE {old})
    /\ IF IsLastStep \/ tstep % Interval = 0
       THEN trainer' = "save" /\ UNCHANGED tstep ELSE NextStep
    /\ UNCHANGED <<orchPart, trainerPart, rollouts, attempt, resume, orchVars, from, model, got,
                   ckptSteps>>

\* The trainer's part while it is written, in place, and when it is.
Part(whole) ==
    [step |-> tstep, model |-> model, whole |-> whole,
     over |-> trainerPart[tstep] # None /\ (trainerPart[tstep].whole \/ trainerPart[tstep].over)]

StartSave ==
    /\ trainer = "save" /\ trainer' = "saving"
    /\ trainerPart' = [trainerPart EXCEPT ![tstep] = Part(FALSE)]
    /\ UNCHANGED <<orchPart, rollouts, broadcasts, attempt, resume, orchVars, from, tstep, model,
                   got, ckptSteps>>

EndSave ==
    /\ trainer = "saving" /\ trainer' = "clean"
    /\ trainerPart' = [trainerPart EXCEPT ![tstep] = Part(TRUE)]
    /\ ckptSteps' = ckptSteps \cup {tstep}
    /\ UNCHANGED <<orchPart, rollouts, broadcasts, attempt, resume, orchVars, from, tstep, model, got>>

\* One fewer than keep_last.
KeptOneFewer(steps) == {s \in steps : Cardinality({t \in steps : t > s}) < KeepLast - 1}

\* The last keep_last of them.
Kept(steps) == {s \in steps : Cardinality({t \in steps : t > s}) < KeepLast}

\* maybe_clean removes the directory of a step, and so both parts.
Clean ==
    /\ trainer = "clean" /\ NextStep
    /\ LET gone == ckptSteps \ Kept(ckptSteps)
       IN  /\ orchPart' = [s \in Step |-> IF s \in gone THEN None ELSE orchPart[s]]
           /\ trainerPart' = [s \in Step |-> IF s \in gone THEN None ELSE trainerPart[s]]
    /\ ckptSteps' = Kept(ckptSteps)
    /\ UNCHANGED <<rollouts, broadcasts, attempt, resume, orchVars, from, model, got>>

Next ==
    \/ \E arg \in CkptSteps \cup {Latest, None} : Launch(arg)
    \/ Terminate \/ KillOrchestrator \/ KillTrainer
    \/ OrchestratorLoad \/ Sync \/ Watch \/ Dispatch
    \/ \E t \in inflight : Ship(t)
    \/ WriteRank \/ SaveOrchestrator \/ Finish \/ Fail
    \/ TrainerSetup \/ TrainerLoad \/ StartupBroadcast
    \/ \E r \in Rank : Receive(r)
    \/ Train \/ Broadcast \/ StartSave \/ EndSave \/ Clean

Spec == Init /\ [][Next]_vars

-----------------------------------------------------------------------------
(* Properties *)

ResumeTypeOK ==
    /\ \A s \in Step : orchPart[s] # None => orchPart[s] \in OrchestratorPart
    /\ \A s \in Step : trainerPart[s] # None =>
        trainerPart[s] \in [step : {s}, model : Model, whole : BOOLEAN, over : BOOLEAN]
    /\ \A s \in Step, r \in Rank : rollouts[s][r] # None => rollouts[s][r] \in Batch
    /\ broadcasts \subseteq Version
    /\ orch \in {"off", "setup", "sync", "run", "send", "sent"} \cup Ended
    /\ step \in 1..(MaxSteps + 1) /\ position \in Nat /\ inflight \subseteq 1..position
    /\ shipped \in Seq(Nat) /\ version \in Version
    /\ trainer \in {"off", "setup", "load", "start", "wait", "publish", "save", "saving", "clean"}
                       \cup Ended
    /\ from \in Version /\ tstep \in 1..(MaxSteps + 1) /\ model \in Model
    /\ \A r \in Rank : got[r] # None => got[r] \in Batch
    /\ ckptSteps \subseteq Step

\* The ranks of a step train on one batch, and on one that this attempt has sent: never on a
\* file that an earlier attempt left, whole or in part, for a step trained again.
RanksAgree ==
    \A r \in Rank : got[r] # None =>
        /\ got[r].attempt = attempt
        /\ \A q \in Rank : got[q] # None => got[q] = got[r]

\* What the trainer has been trained on is what the orchestrator has shipped, from the first
\* step on and over all attempts, as many tasks as steps and no task twice; as long as every
\* checkpoint resumed from had parts that were written whole and by the same run of steps.
SameHistory ==
    trainer \in {"wait", "publish", "save", "saving", "clean"}
        /\ orch \in {"sync", "run", "send", "sent", "done"} /\ model.sound =>
        /\ IsPrefix(model.tasks, shipped)
        /\ \A i, j \in DOMAIN model.tasks : model.tasks[i] = model.tasks[j] => i = j
        /\ Len(model.tasks) = IF trainer = "wait" THEN tstep - 1 ELSE tstep

\* A step to resume from: both processes load their part.
Resumable(s) == orchPart[s] # None /\ Loadable(s)

\* A run that could be resumed from some step always can, wherever its processes are killed;
\* with a keep_last of two or more.
KeepsResumable ==
    [][ KeepLast > 1 /\ (\E s \in Step : Resumable(s)) => \E s \in Step : Resumable(s)' ]_vars
=============================================================================
