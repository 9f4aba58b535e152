----------------------------- MODULE Dispatcher -----------------------------
(***************************************************************************)
(* The rollout dispatcher of the orchestrator                              *)
(* (src/prime_rl/orchestrator/dispatcher.py) with the three asyncio actors *)
(* that touch its state:                                                   *)
(*                                                                         *)
(*   D  the dispatch loop, RolloutDispatcher.start;                        *)
(*   W  the weight watcher, inside RolloutDispatcher.on_version_pending;   *)
(*   M  the orchestrator's main loop, which takes episodes off out_q,      *)
(*      ships batches, drains at max_steps and stops the dispatcher.       *)
(*                                                                         *)
(* All three run on one event loop: an actor is preempted only where it    *)
(* awaits something that is not ready.  A pc value names either such a     *)
(* suspension point or, when it is listed in LoopFree, a point inside a    *)
(* run-to-await segment; nothing else runs until the segment ends.         *)
(*                                                                         *)
(* An episode is abstracted to the group it belongs to, how it ended and   *)
(* the off-policy counter it carries.  Whether a finished run produced a   *)
(* clean trace, an errored one or an exception changes nothing here: each  *)
(* is emitted once by handle_completed_rollout, as a "result".             *)
(***************************************************************************)
EXTENDS Integers, Sequences, FiniteSets, Functions

CONSTANTS
    Gid,                \* group ids (uuid4): their number bounds the groups opened
    TrainEnv,           \* train environments
    FrozenEnv,          \* those of them whose sampler is a frozen model
    EvalEnv,            \* eval environments
    None,               \* "no group", and the environment of a group id not used yet
    GroupSize,          \* env.config.group_size, per environment
    EvalEpochs,         \* what an eval trigger enqueues: environments of its examples
    MaxInflight,        \* max_inflight_episodes
    OutQSize,           \* maxsize of out_q: max(8, max_inflight) in the code
    MaxOffPolicySteps,  \* max_off_policy_steps
    RateLimited,        \* TRUE when tasks_per_minute is set
    MaxSteps,           \* max_steps: batches shipped before the drain
    TargetLag,          \* TARGET_LAG, 1 in the code
    InMemory            \* TRUE for the nccl and nixl weight transports

Env == TrainEnv \cup EvalEnv

ASSUME EnvAssumption ==
    /\ FrozenEnv \subseteq TrainEnv
    /\ TrainEnv \cap EvalEnv = {}
    /\ None \notin Env \cup Gid
    /\ GroupSize \in [Env -> Nat \ {0}]
    /\ EvalEpochs \subseteq Seq(EvalEnv) \ {<<>>}

\* OutQSize >= MaxInflight is what max(8, max_inflight) gives for every setting;
\* max_inflight_episodes >= 1 is the config's own constraint.
ASSUME BoundAssumption ==
    /\ MaxInflight \in Nat \ {0}
    /\ OutQSize \in Nat /\ OutQSize >= MaxInflight
    /\ MaxOffPolicySteps \in Nat
    /\ RateLimited \in BOOLEAN
    /\ MaxSteps \in Nat \ {0} /\ TargetLag \in Nat /\ InMemory \in BOOLEAN

VARIABLES
    \* groups
    genv,       \* environment of every group id (GroupState.env_name, InflightRollout.env_name)
    groups,     \* keys of self.groups
    toSched,    \* GroupState.rollouts_to_schedule
    emitted,    \* GroupState.emitted
    \* tasks: <<group, ordinal>>
    inflight,   \* self.inflight: task -> InflightRollout.off_policy_steps
    finished,   \* in-flight tasks whose env run has returned
    permits,    \* inflight_permits
    outQ,       \* out_q
    \* scheduling switches
    mode,       \* DispatcherMode
    gate,       \* dispatch_allowed.is_set()
    disabled,   \* train_scheduling_disabled
    evalQueue,  \* EvalSource.queue
    \* D
    dpc,
    dgid,       \* group whose rollout waits in the rate limiter
    todo,       \* tasks of done still to handle
    dput,       \* episode of a put that waits for room
    \* W
    version,    \* policy.version
    wpc,
    wstale,     \* groups on_version_pending still has to drop
    wgid,       \* group drop_group is at
    wowed,      \* markers it has still to emit
    wcancel,    \* it has tasks to cancel
    \* M
    mpc,
    ships,      \* progress.step - 1: the batches shipped
    \* history
    ledger,     \* episodes of a group put on out_q so far
    abandoned   \* groups given up without markers: the drain at max_steps, shutdown

groupVars  == <<genv, groups, toSched, emitted>>
taskVars   == <<inflight, finished, permits>>
switchVars == <<mode, gate, disabled, evalQueue>>
dVars      == <<dpc, dgid, todo, dput>>
wVars      == <<version, wpc, wstale, wgid, wowed, wcancel>>
mVars      == <<mpc, ships>>
vars == <<groupVars, taskVars, outQ, switchVars, dVars, wVars, mVars, ledger, abandoned>>

Task == Gid \X Nat
Item == [gid : Gid, outcome : {"result", "cancelled"}, off : Nat]
Result(g, o) == [gid |-> g, outcome |-> "result", off |-> o]
Cancelled(g) == [gid |-> g, outcome |-> "cancelled", off |-> 0]
NoItem       == Result(None, 0)

Size(g)      == GroupSize[genv[g]]
Opened       == {g \in Gid : genv[g] # None}
IsTrain(g)   == genv[g] \in TrainEnv
IsEval(g)    == genv[g] \in EvalEnv
IsLive(g)    == genv[g] \in TrainEnv \ FrozenEnv
Inflight     == DOMAIN inflight
TasksOf(g)   == {t \in Inflight : t[1] = g}
Unscheduled(g) == IF g \in groups THEN toSched[g] ELSE 0
Stopping     == mpc \in {"stopping", "stopped"}

-----------------------------------------------------------------------------
(* Derived state of the dispatcher *)

EvalQueued  == evalQueue # <<>>
EvalHasWork == evalQueue # <<>> \/ \E g \in groups : IsEval(g) /\ toSched[g] > 0

IsIdle == Inflight = {} /\ ~EvalHasWork /\ outQ = <<>>

\* No actor is inside a run-to-await segment.
LoopFree == dpc \notin {"fill", "handle"} /\ wpc \notin {"drop", "emit"}

FullLate == Len(outQ) > OutQSize
Full     == Len(outQ) >= OutQSize

\* asyncio.Queue.get wakes one waiting put, which runs before the getter does again.
PutterReady == (dpc = "put" \/ wpc = "put") /\ ~Full

Put(item) ==
    /\ outQ' = Append(outQ, item)
    /\ ledger' = [ledger EXCEPT ![item.gid] = @ + 1]

\* self.release(), once per task.
KeepPermits(tasks) == permits
Release(tasks)     == permits - Cardinality(tasks)

\* update_dispatch_gate with s batches shipped; the last in-memory broadcasts never
\* come, so the final batch is let through without them.
GateOpenOnLead(s) == s <= version + TargetLag
GateOpen(s) == s <= version + TargetLag \/ (InMemory /\ s + 2 >= MaxSteps)

\* The trainer has trained at most the batches shipped, and skips the final
\* TARGET_LAG + 1 in-memory broadcasts.
LastPublished == IF InMemory /\ ships > MaxSteps - 2 THEN MaxSteps - 2 ELSE ships

-----------------------------------------------------------------------------
GroupsOK ==
    /\ genv \in [Gid -> Env \cup {None}]
    /\ groups \subseteq Opened
    /\ toSched \in [Gid -> Nat] /\ emitted \in [Gid -> Nat]

TasksOK ==
    /\ Inflight \subseteq Task /\ IsFiniteSet(Inflight)
    /\ \A t \in Inflight : inflight[t] \in Nat
    /\ finished \subseteq Inflight
    /\ permits \in Nat

QueueOK ==
    /\ outQ \in Seq(Item) /\ Len(outQ) <= OutQSize
    /\ ledger \in [Gid -> Nat] /\ abandoned \subseteq Gid

SwitchesOK ==
    /\ mode \in {"train", "eval"} /\ gate \in BOOLEAN /\ disabled \in BOOLEAN
    /\ evalQueue \in Seq(EvalEnv)

DispatchOK ==
    /\ dpc \in {"fill", "acquire", "wait", "handle", "put", "done"}
    /\ dgid \in Gid \cup {None} /\ todo \subseteq Task /\ dput \in Item \cup {NoItem}
    /\ dpc = "acquire" <=> dgid \in Gid
    /\ dpc = "put" <=> dput \in Item

WatchOK ==
    /\ version \in 0..MaxSteps
    /\ wpc \in {"idle", "drop", "emit", "put", "cancel"}
    /\ wstale \subseteq Gid /\ wgid \in Gid \cup {None}
    /\ wowed \in Nat /\ wcancel \in BOOLEAN

MainOK ==
    /\ mpc \in {"get", "train", "eval", "drain", "exit", "stopping", "stopped"}
    /\ ships \in 0..MaxSteps

TypeOK ==
    GroupsOK /\ TasksOK /\ QueueOK /\ SwitchesOK /\ DispatchOK /\ WatchOK /\ MainOK

\* The startup eval, when one fires, is enqueued before the loops first run.
Init ==
    /\ genv = [g \in Gid |-> None] /\ groups = {}
    /\ toSched = [g \in Gid |-> 0] /\ emitted = [g \in Gid |-> 0]
    /\ inflight = [t \in {} |-> 0] /\ finished = {} /\ permits = 0
    /\ outQ = <<>>
    /\ \/ mode = "train" /\ evalQueue = <<>>
       \/ mode = "eval"  /\ evalQueue \in EvalEpochs
    /\ gate = TRUE /\ disabled = FALSE
    /\ dpc = "fill" /\ dgid = None /\ todo = {} /\ dput = NoItem
    /\ version = 0 /\ wpc = "idle" /\ wstale = {} /\ wgid = None
    /\ wowed = 0 /\ wcancel = FALSE
    /\ mpc = "get" /\ ships = 0
    /\ ledger = [g \in Gid |-> 0] /\ abandoned = {}

-----------------------------------------------------------------------------
(* D: fill_inflight, try_schedule, schedule_group_rollout, acquire.        *)
(* One segment: the only await in it is the rate limiter's, in acquire().  *)

Kind(g) == IF IsTrain(g) THEN "train" ELSE "eval"

\* Groups try_schedule continues before it opens a fresh one.
Continuable(kind) == {g \in groups : Kind(g) = kind /\ toSched[g] > 0}

\* Environments next_fresh_group may draw from: the train source is endless and
\* picks at random, the eval source is a queue.
FreshEnvs(kind) ==
    IF kind = "train" THEN TrainEnv
    ELSE IF evalQueue = <<>> THEN {} ELSE {Head(evalQueue)}

\* fill_inflight gets past its permit, mode and gate checks to try_schedule(mode).
MayScheduleDraining ==
    /\ dpc = "fill" /\ permits < MaxInflight
    /\ mode = "train" => gate
    /\ mode = "eval" => EvalHasWork

MayScheduleOneMore ==
    /\ dpc = "fill" /\ permits <= MaxInflight
    /\ mode = "train" => gate /\ ~disabled
    /\ mode = "eval" => EvalHasWork

MaySchedule ==
    /\ dpc = "fill" /\ permits < MaxInflight
    /\ mode = "train" => gate /\ ~disabled
    /\ mode = "eval" => EvalHasWork

\* acquire() took the permit: create the task and record it in self.inflight.
Start(g, ordinal) ==
    /\ inflight' = [t \in Inflight \cup {<<g, ordinal>>} |->
                       IF t = <<g, ordinal>> THEN 0 ELSE inflight[t]]
    /\ permits' = permits + 1
    /\ UNCHANGED finished

\* schedule_group_rollout: the group owes one rollout less from here on, even if
\* the rate limiter then makes acquire() wait.
IssueRollout(g, size, owed) ==
    /\ toSched' = [toSched EXCEPT ![g] = owed - 1]
    /\ \/ Start(g, size - owed + 1) /\ UNCHANGED <<dpc, dgid>>
       \/ RateLimited /\ dpc' = "acquire" /\ dgid' = g /\ UNCHANGED taskVars
    /\ UNCHANGED <<outQ, mode, gate, disabled, todo, dput, wVars, mVars, ledger, abandoned>>

ContinueGroup(g) ==
    /\ MaySchedule /\ g \in Continuable(mode)
    /\ IssueRollout(g, Size(g), toSched[g])
    /\ UNCHANGED <<genv, groups, emitted, evalQueue>>

OpenGroup(g) ==
    /\ MaySchedule /\ Continuable(mode) = {} /\ g \notin Opened
    /\ \E e \in FreshEnvs(mode) :
          /\ genv' = [genv EXCEPT ![g] = e]
          /\ groups' = groups \cup {g}
          /\ IssueRollout(g, GroupSize[e], GroupSize[e])
    /\ evalQueue' = IF mode = "eval" THEN Tail(evalQueue) ELSE evalQueue
    /\ UNCHANGED emitted

AcquiredIfAlive ==
    /\ dpc = "acquire" /\ LoopFree
    /\ IF dgid \in groups THEN Start(dgid, Size(dgid) - toSched[dgid]) ELSE UNCHANGED taskVars
    /\ dpc' = "fill" /\ dgid' = None
    /\ UNCHANGED <<groupVars, outQ, switchVars, todo, dput, wVars, mVars, ledger, abandoned>>

\* The rate limiter lets a waiting acquire() through; fill_inflight goes round.
Acquired ==
    /\ dpc = "acquire" /\ LoopFree
    /\ Start(dgid, Size(dgid) - toSched[dgid])
    /\ dpc' = "fill" /\ dgid' = None
    /\ UNCHANGED <<groupVars, outQ, switchVars, todo, dput, wVars, mVars, ledger, abandoned>>

\* PREFER_EVAL with the eval source and every eval group dispatched.
SwitchToTrain ==
    /\ dpc = "fill" /\ permits < MaxInflight /\ mode = "eval" /\ ~EvalHasWork
    /\ mode' = "train"
    /\ UNCHANGED <<groupVars, taskVars, outQ, gate, disabled, evalQueue, dVars, wVars, mVars,
                   ledger, abandoned>>

\* fill_inflight returns and start() waits: for a task, or 0.1 s when none is in
\* flight.  (The last disjunct is the bound on group ids.)
FillReturn ==
    /\ dpc = "fill"
    /\ \/ permits >= MaxInflight
       \/ mode = "train" /\ (~gate \/ disabled)
       \/ mode = "train" /\ Continuable("train") = {} /\ Opened = Gid
    /\ dpc' = "wait"
    /\ UNCHANGED <<groupVars, taskVars, outQ, switchVars, dgid, todo, dput, wVars, mVars,
                   ledger, abandoned>>

-----------------------------------------------------------------------------
(* D: the rest of the loop of start(), handle_completed_rollout, emit_episode *)

\* asyncio.wait returns the tasks of its snapshot that are done (none after a
\* timeout).  The snapshot holds everything still in flight: only D adds to it.
Wake ==
    /\ dpc = "wait" /\ LoopFree
    /\ dpc' = "handle" /\ todo' = finished
    /\ UNCHANGED <<groupVars, taskVars, outQ, switchVars, dgid, dput, wVars, mVars, ledger, abandoned>>

HandleClaimedEmits(t) ==
    /\ dpc = "handle" /\ t \in todo \ Inflight
    /\ todo' = todo \ {t}
    /\ Put(Result(t[1], 0))
    /\ UNCHANGED <<groupVars, taskVars, switchVars, dpc, dgid, dput, wVars, mVars, abandoned>>

\* A task another actor has claimed meanwhile: pop() finds nothing.
HandleClaimed(t) ==
    /\ dpc = "handle" /\ t \in todo \ Inflight
    /\ todo' = todo \ {t}
    /\ UNCHANGED <<groupVars, taskVars, outQ, switchVars, dpc, dgid, dput, wVars, mVars,
                   ledger, abandoned>>

\* emit_episode is about to count the last episode the group owes.
LastOwedLate(g) == emitted[g] + 1 > Size(g)
LastOwed(g)     == emitted[g] + 1 >= Size(g)

\* Pop the task, release its permit, count the episode in its group (gone if it was
\* dropped meanwhile), forget the group when nothing is owed, and put the episode.
HandleCompleted(t) ==
    LET g == t[1] IN
    /\ dpc = "handle" /\ t \in todo \cap Inflight
    /\ todo' = todo \ {t}
    /\ inflight' = Restrict(inflight, Inflight \ {t})
    /\ finished' = finished \ {t}
    /\ permits' = Release({t})
    /\ emitted' = IF g \in groups THEN [emitted EXCEPT ![g] = @ + 1] ELSE emitted
    /\ groups' = IF g \in groups /\ LastOwed(g) THEN groups \ {g} ELSE groups
    /\ IF Full
       THEN dpc' = "put" /\ dput' = Result(g, inflight[t]) /\ UNCHANGED <<outQ, ledger>>
       ELSE Put(Result(g, inflight[t])) /\ UNCHANGED <<dpc, dput>>
    /\ UNCHANGED <<genv, toSched, switchVars, dgid, wVars, mVars, abandoned>>

\* A put that waited for room goes through.
PutResult ==
    /\ dpc = "put" /\ LoopFree /\ ~Full
    /\ Put(dput) /\ dput' = NoItem /\ dpc' = "handle"
    /\ UNCHANGED <<groupVars, taskVars, switchVars, dgid, todo, wVars, mVars, abandoned>>

LoopTopUnstopped ==
    /\ dpc = "handle" /\ todo = {} /\ dpc' = "fill"
    /\ UNCHANGED <<groupVars, taskVars, outQ, switchVars, dgid, todo, dput, wVars, mVars,
                   ledger, abandoned>>

\* All of done handled: back to `while not self.stopped.is_set()`.
LoopTop ==
    /\ dpc = "handle" /\ todo = {}
    /\ dpc' = IF Stopping THEN "done" ELSE "fill"
    /\ UNCHANGED <<groupVars, taskVars, outQ, switchVars, dgid, todo, dput, wVars, mVars,
                   ledger, abandoned>>

\* An env server answers a run request, with an episode or an error.
EnvReturns(t) ==
    /\ t \in Inflight \ finished /\ LoopFree
    /\ finished' = finished \cup {t}
    /\ UNCHANGED <<groupVars, inflight, permits, outQ, switchVars, dVars, wVars, mVars, ledger, abandoned>>

-----------------------------------------------------------------------------
(* W: on_version_pending, drop_group *)

\* Frozen-sourced rollouts and evals never age.
AgedTrain == {t \in Inflight : IsTrain(t[1])}
Aged      == {t \in Inflight : IsLive(t[1])}

\* Past max_off_policy_steps once its counter is bumped.
TurnsStaleLate(t) == t \in Aged /\ inflight[t] > MaxOffPolicySteps
TurnsStale(t)     == t \in Aged /\ inflight[t] + 1 > MaxOffPolicySteps

\* The watcher has confirmed a later version - at most the last one the trainer
\* can have published - and policy.version carries it.  Age every in-flight
\* live-sourced train rollout; collect the groups to drop.
VersionPending ==
    /\ wpc = "idle" /\ LoopFree /\ mpc # "stopped"
    /\ version' \in (version + 1)..LastPublished
    /\ inflight' = [t \in Inflight |-> IF t \in Aged THEN inflight[t] + 1 ELSE inflight[t]]
    /\ wstale' = {t[1] : t \in {u \in Inflight : TurnsStale(u)}}
    /\ wpc' = IF wstale' = {} THEN "idle" ELSE "drop"
    /\ UNCHANGED <<groupVars, finished, permits, outQ, switchVars, dVars, wgid, wowed, wcancel, mVars,
                   ledger, abandoned>>

\* What drop_group takes out of flight: every task of the group, also when the group
\* itself is gone (a rollout that waited in the rate limiter while it was dropped).
ClaimsIfAlive(g) == IF g \in groups THEN TasksOf(g) ELSE {}
Claims(g)        == TasksOf(g)

\* It owes the sink one marker per task claimed and per rollout never scheduled.
MarkersClaimed(g) == Cardinality(Claims(g))
Markers(g)        == Cardinality(Claims(g)) + Unscheduled(g)

\* drop_group, its claim phase: forget the group and take its tasks out of flight
\* without yielding.  (From here on nothing reads emitted[g].)
DropClaim(g) ==
    /\ wpc = "drop" /\ g \in wstale
    /\ wstale' = wstale \ {g} /\ wgid' = g /\ wpc' = "emit"
    /\ groups' = groups \ {g}
    /\ inflight' = Restrict(inflight, Inflight \ Claims(g))
    /\ finished' = finished \ Claims(g)
    /\ permits' = Release(Claims(g))
    /\ wowed' = Markers(g)
    /\ wcancel' = (Claims(g) # {})
    /\ UNCHANGED <<genv, toSched, emitted, outQ, switchVars, dVars, version, mVars, ledger, abandoned>>

\* One marker; the put waits when out_q is full.
EmitMarker ==
    /\ wpc = "emit" /\ wowed > 0
    /\ IF Full
       THEN wpc' = "put" /\ UNCHANGED <<outQ, ledger, wowed>>
       ELSE Put(Cancelled(wgid)) /\ wowed' = wowed - 1 /\ UNCHANGED wpc
    /\ UNCHANGED <<groupVars, taskVars, switchVars, dVars, version, wstale, wgid, wcancel, mVars, abandoned>>

PutMarker ==
    /\ wpc = "put" /\ LoopFree /\ ~Full
    /\ Put(Cancelled(wgid)) /\ wowed' = wowed - 1 /\ wpc' = "emit"
    /\ UNCHANGED <<groupVars, taskVars, switchVars, dVars, version, wstale, wgid, wcancel, mVars, abandoned>>

NextStaleGroup ==
    /\ wgid' = None /\ wcancel' = FALSE
    /\ wpc' = IF wstale = {} THEN "idle" ELSE "drop"

\* All markers are out: safe_cancel_all awaits the tasks claimed, if there are any.
DropEmitted ==
    /\ wpc = "emit" /\ wowed = 0
    /\ IF wcancel THEN wpc' = "cancel" /\ UNCHANGED <<wgid, wcancel>> ELSE NextStaleGroup
    /\ UNCHANGED <<groupVars, taskVars, outQ, switchVars, dVars, version, wstale, wowed, mVars,
                   ledger, abandoned>>

DropCancelled ==
    /\ wpc = "cancel" /\ LoopFree
    /\ NextStaleGroup
    /\ UNCHANGED <<groupVars, taskVars, outQ, switchVars, dVars, version, wstale, wowed, mVars,
                   ledger, abandoned>>

-----------------------------------------------------------------------------
(* M: the main loop of orchestrator.py, as far as it touches the dispatcher *)

\* out_q.get(), at the head of the main loop: the episode goes to a sink.
Get ==
    /\ mpc = "get" /\ LoopFree /\ ~PutterReady /\ outQ # <<>>
    /\ outQ' = Tail(outQ) /\ mpc' = Kind(Head(outQ).gid)
    /\ UNCHANGED <<groupVars, taskVars, switchVars, dVars, wVars, ships, ledger, abandoned>>

\* The sink returned no batch, or the batch had no samples, or it was an eval batch;
\* or the cancelled tasks of a drain are gone.
BackToGet ==
    /\ mpc \in {"train", "eval", "drain"} /\ LoopFree /\ mpc' = "get"
    /\ UNCHANGED <<groupVars, taskVars, outQ, switchVars, dVars, wVars, ships, ledger, abandoned>>

\* The policy has reached required_version = v{step-1-TARGET_LAG}: batch ships+1 may go.
ShipFreely    == TRUE
PolicyReached == version >= ships - TargetLag

\* finalize_train_batch from the end of the send on: batch ships+1 was held until
\* PolicyReached; update_dispatch_gate; maybe_trigger_eval.
Ship ==
    /\ mpc = "train" /\ LoopFree /\ ~disabled /\ ships < MaxSteps
    /\ PolicyReached
    /\ ships' = ships + 1 /\ mpc' = "get"
    /\ gate' = GateOpen(ships')
    /\ \/ /\ mode' = "eval"
          /\ \E epoch \in EvalEpochs :
                /\ Len(evalQueue) + Len(epoch) <= Cardinality(Gid \ Opened)  \* bound
                /\ evalQueue' = evalQueue \o epoch
       \/ UNCHANGED <<evalQueue, mode>>
    /\ UNCHANGED <<groupVars, taskVars, outQ, disabled, dVars, wVars, ledger, abandoned>>

\* on_new_version, once the engines run the new weights.
OnNewVersion ==
    /\ wpc = "idle" /\ LoopFree /\ gate # GateOpen(ships)
    /\ gate' = GateOpen(ships)
    /\ UNCHANGED <<groupVars, taskVars, outQ, mode, disabled, evalQueue, dVars, wVars, mVars,
                   ledger, abandoned>>

\* finalize_train_batch past max_steps: disable_train_scheduling, then
\* cancel_inflight_train_rollouts, which emits no markers and forgets the groups it
\* took a task from.  A train group with nothing in flight stays, never to be
\* scheduled again.
Drain ==
    LET cancelled == {t \in Inflight : IsTrain(t[1])}
        dropped   == {t[1] : t \in cancelled}
        partial   == {g \in groups : IsTrain(g)}
    IN
    /\ mpc = "train" /\ LoopFree /\ ~disabled /\ ships = MaxSteps
    /\ mpc' = "drain" /\ disabled' = TRUE
    /\ inflight' = Restrict(inflight, Inflight \ cancelled)
    /\ finished' = finished \ cancelled
    /\ permits' = Release(cancelled)
    /\ groups' = groups \ dropped
    /\ abandoned' = abandoned \cup dropped \cup partial
    /\ UNCHANGED <<genv, toSched, emitted, outQ, mode, gate, evalQueue, dVars, wVars, ships, ledger>>

\* "Pipeline drained, exiting main loop".
Exit ==
    /\ mpc = "get" /\ LoopFree /\ ~PutterReady /\ disabled /\ IsIdle
    /\ mpc' = "exit"
    /\ UNCHANGED <<groupVars, taskVars, outQ, switchVars, dVars, wVars, ships, ledger, abandoned>>

\* The main loop raises: a signal, or an error such as ten empty batches in a row.
Interrupt ==
    /\ mpc \in {"get", "train", "eval", "drain"} /\ LoopFree
    /\ mpc' = "exit"
    /\ UNCHANGED <<groupVars, taskVars, outQ, switchVars, dVars, wVars, ships, ledger, abandoned>>

\* RolloutDispatcher.stop up to its first await: set stopped, cancel_inflight_rollouts.
Stop ==
    /\ mpc = "exit" /\ LoopFree
    /\ mpc' = "stopping"
    /\ permits' = Release(Inflight)
    /\ inflight' = Restrict(inflight, {}) /\ finished' = {}
    /\ groups' = {}
    /\ abandoned' = Gid
    /\ UNCHANGED <<genv, toSched, emitted, outQ, switchVars, dVars, wVars, ships, ledger>>

\* The rest of stop: the cancelled tasks are gone, safe_cancel ends the dispatch loop.
StopLoop ==
    /\ mpc = "stopping" /\ LoopFree
    /\ mpc' = "stopped"
    /\ dpc' = "done" /\ dgid' = None /\ todo' = {} /\ dput' = NoItem
    /\ UNCHANGED <<groupVars, taskVars, outQ, switchVars, wVars, ships, ledger, abandoned>>

\* Nothing is left to run.
Terminated ==
    /\ mpc = "stopped" /\ wpc \in {"idle", "put"} /\ UNCHANGED vars

-----------------------------------------------------------------------------
Dispatch ==
    \/ \E g \in Gid : ContinueGroup(g) \/ OpenGroup(g)
    \/ Acquired \/ SwitchToTrain \/ FillReturn \/ Wake
    \/ \E t \in todo : HandleClaimed(t) \/ HandleCompleted(t)
    \/ PutResult \/ LoopTop

Watch ==
    \/ VersionPending
    \/ \E g \in Gid : DropClaim(g)
    \/ EmitMarker \/ PutMarker \/ DropEmitted \/ DropCancelled

MainLoop == Get \/ BackToGet \/ Ship \/ Drain \/ Exit \/ Stop \/ StopLoop

Next ==
    \/ Dispatch \/ Watch \/ MainLoop \/ OnNewVersion \/ Interrupt \/ Terminated
    \/ \E t \in Inflight : EnvReturns(t)

Spec == Init /\ [][Next]_vars
-----------------------------------------------------------------------------
(* Fairness.  asyncio resumes callbacks in FIFO order: an actor whose await is  *)
(* ready again and again, whenever the loop is free, runs in the end - strong   *)
(* fairness of each actor.  Assumed of others: an env server answers run        *)
(* requests, the trainer publishes while it has batches it has not published.   *)

Fairness ==
    /\ SF_vars(Dispatch) /\ SF_vars(Watch) /\ SF_vars(MainLoop) /\ SF_vars(OnNewVersion)
    /\ SF_vars(\E t \in Inflight : EnvReturns(t))

FairSpec == Spec /\ Fairness

-----------------------------------------------------------------------------
(* What a group still owes the sinks *)

B2N(b) == IF b THEN 1 ELSE 0

MarkersLeft(g) == IF wgid = g THEN wowed ELSE 0

Owed(g) ==
    Unscheduled(g)
    + B2N(dgid = g)                 \* waiting in the rate limiter
    + Cardinality(TasksOf(g))       \* in flight
    + B2N(dput.gid = g)             \* waiting for room in out_q
    + MarkersLeft(g)                \* markers of a drop under way

\* Every episode of every group reaches out_q exactly once: what has been put and
\* what some actor still holds always add up to the group size, whatever the loop,
\* drop_group and a full queue interleave to.  Groups given up at the drain or at
\* shutdown excepted: no marker is emitted for those.
EpisodesConserved ==
    \A g \in Opened \ abandoned : ledger[g] + Owed(g) = Size(g)

\* A permit is held per task in flight and by nothing else, and max_inflight_episodes
\* is never exceeded, although four methods release permits and acquire() may wait
\* between the check of available_permits and the increment.
PermitsMatch ==
    permits = Cardinality(Inflight) /\ permits <= MaxInflight

\* Once on_version_pending has returned, nothing in flight is past
\* max_off_policy_steps: whatever was scheduled or finished while drop_group waited,
\* no stale task was missed.
StaleSwept ==
    wpc = "idle" => \A t \in Inflight : inflight[t] <= MaxOffPolicySteps

\* self.groups does not leak: an entry there still owes an episode that something
\* will emit (a rollout to schedule, one waiting in the rate limiter, a task).
GroupsOwe ==
    mpc # "stopped" => \A g \in groups :
        /\ emitted[g] < Size(g)
        /\ emitted[g] + toSched[g] + B2N(dgid = g) + Cardinality(TasksOf(g)) = Size(g)

\* is_idle, read where the draining main loop reads it, means the evals have fully
\* drained: every episode of every eval group opened has been through out_q.
IdleMeansDrained ==
    mpc = "get" /\ LoopFree /\ ~PutterReady /\ disabled /\ IsIdle
        => \A g \in Opened : IsEval(g) => ledger[g] = Size(g)

\* stop() leaves nothing running: no task in flight, no permit held.
NoOrphans ==
    mpc = "stopped" => Inflight = {} /\ permits = 0

\* Off-policy cancellation only ever hits train groups sampled from the live policy:
\* evals and frozen-sourced train rollouts are allowed to finish.
OnlyLiveTrainCancelled ==
    \A i \in DOMAIN outQ : outQ[i].outcome = "cancelled" => IsLive(outQ[i].gid)

\* A rollout that saw more than max_off_policy_steps weight updates is discarded: it
\* never reaches the sink as a result.
StaleDiscarded ==
    \A i \in DOMAIN outQ :
        outQ[i].outcome = "result" /\ IsLive(outQ[i].gid) => outQ[i].off <= MaxOffPolicySteps

\* After disable_train_scheduling no train rollout is dispatched any more.
NoTrainAfterDisable ==
    [][disabled => \A t \in Inflight' \ Inflight : ~(genv'[t[1]] \in TrainEnv)]_vars

-----------------------------------------------------------------------------
(* The dispatcher implements the ledger of its module docstring *)

Ledger == INSTANCE EpisodeLedger WITH env <- genv, delivered <- ledger

\* Exactly once, then eventually: each step puts at most one more episode of a group
\* that still owes one, and every group opened is served in full or given up.
LedgerSafety   == Ledger!Spec
LedgerLiveness == Ledger!Served
=============================================================================
