--------------------------- MODULE PipelineProofs ---------------------------
(***************************************************************************)
(* Proofs about Pipeline: it is a Dispatcher, so that what is proved of    *)
(* the dispatcher holds inside it; and a run that ends by itself leaves no *)
(* trainer inside a broadcast.                                             *)
(***************************************************************************)
EXTENDS Pipeline, DispatcherProofs

\* What the last ship has waited for, and what ends a run that is not interrupted.
Ending ==
    /\ ships = MaxSteps => version >= MaxSteps - 1 - TargetLag
    /\ disabled => ships = MaxSteps
    /\ mpc \in {"exit", "stopping", "stopped"} => disabled
    /\ upc = "off" => mpc = "stopped" /\ tpc = "batch"

\* In-memory versions: all are below the trainer's step, the latest is on disk, and a
\* broadcast under way is of a version that the watcher has not finished loading.
Handshake ==
    /\ trained <= ships
    /\ InMemory =>
          /\ version <= trained
          /\ \E last \in onDisk : onDisk \subseteq 0..last
    /\ tpc = "handshake" =>
          /\ InMemory /\ trained <= MaxSteps - 2
          /\ version >= trained => upc \in {"pending", "apply"}

PInv == PipelineTypeOK /\ Ending /\ Handshake

-----------------------------------------------------------------------------
(* The pipeline is a dispatcher *)

\* Each step of the pipeline is a step of Dispatcher or leaves its variables alone.
LEMMA PipelineStep == [PipelineNext]_allVars => [Next]_vars
<1>. SUFFICES ASSUME [PipelineNext]_allVars PROVE [Next]_vars
  OBVIOUS
<1>1. CASE DispatchStep
  BY <1>1 DEF DispatchStep, Next
<1>2. CASE WatcherStep
  BY <1>2 DEF WatcherStep, Confirm, DropStep, NotifyMain, Apply, Live, StopWatcher, Next, Watch
<1>3. CASE TrainStep \/ HoldShip \/ HoldWake
  BY <1>3 DEF TrainStep, HoldShip, HoldWake
<1>4. CASE MainStep
  BY <1>4 DEF MainStep, Next, MainLoop
<1>5. CASE PipelineDone \/ UNCHANGED allVars
  BY <1>5 DEF PipelineDone, allVars
<1>. QED BY <1>1, <1>2, <1>3, <1>4, <1>5 DEF PipelineNext

\* The watcher, the hold and the trainer only restrict what the dispatcher and the main loop
\* do: the whole pipeline implements Dispatcher.
THEOREM ImplementsDispatcher == PipelineSpec => Spec
<1>1. PipelineInit => Init
  BY DEF PipelineInit
<1>. QED BY <1>1, PipelineStep, PTL DEF PipelineSpec, Spec

\* What is proved of the dispatcher on its own holds inside the pipeline.
THEOREM DispatcherInPipeline ==
    PipelineSpec => [](TypeOK /\ PermitsMatch /\ StaleSwept /\ EpisodesConserved /\ GroupsOwe)
BY ImplementsDispatcher, TypeCorrect, PermitsSafe, SweepComplete, EpisodesKept, GroupsNeverLeak, PTL

-----------------------------------------------------------------------------
(* How a run ends *)

\* Steps of the dispatcher's actors that leave versions, ships and the drain alone.
LEMMA DispatchQuiet ==
    Dispatch \/ (\E t \in Inflight : EnvReturns(t)) => UNCHANGED <<version, ships, mpc, disabled>>
<1>1. CASE Dispatch
  BY <1>1 DEF Dispatch, ContinueGroup, OpenGroup, IssueRollout, Acquired, SwitchToTrain, FillReturn, Wake,
     HandleClaimed, HandleCompleted, PutResult, LoopTop, mVars, wVars, switchVars
<1>2. CASE \E t \in Inflight : EnvReturns(t)
  BY <1>2 DEF EnvReturns, mVars, wVars, switchVars
<1>. QED BY <1>1, <1>2

\* PInv depends on the dispatcher through four of its variables only.
LEMMA PInvQuiet ==
    ASSUME PInv, UNCHANGED <<version, ships, mpc, disabled>>, UNCHANGED pipeVars PROVE PInv'
BY DEF PInv, PipelineTypeOK, Ending, Handshake, pipeVars, watchVars, holdVars, trainVars

\* The steps of the watcher keep PInv: a version is confirmed only when the trainer has
\* published it, and a broadcast ends with the update that loads it.
LEMMA PInvWatcher ==
    ASSUME TargetLag <= 1, Base, Base', PInv, WatcherStep PROVE PInv'
<1>1. version \in 0..MaxSteps /\ ships \in 0..MaxSteps /\ MaxSteps \in Nat /\ TargetLag \in Nat
  BY BoundAssumption DEF Base, TypeOK, WatchOK, MainOK
<1>2. CASE Confirm
  <2>1. /\ version' \in Nat /\ version' > version /\ version' = Latest
        /\ upc = "poll" /\ upc' = "pending"
        /\ UNCHANGED <<ships, mpc, disabled, loaded, holdVars, trainVars>>
    BY <1>1, <1>2 DEF Confirm, VersionPending, Base, TypeOK, WatchOK, mVars, switchVars
  <2>2. InMemory => version' <= trained'
    <3>. SUFFICES ASSUME InMemory PROVE version' <= trained
      BY <2>1 DEF trainVars
    <3>1. onDisk \subseteq 0..trained /\ trained \in Nat
      BY DEF PInv, PipelineTypeOK
    <3>2. PICK last \in onDisk : onDisk \subseteq 0..last
      BY DEF PInv, Handshake
    <3>3. \A w \in onDisk : w <= last
      BY <3>1, <3>2
    <3>4. Latest \in onDisk
      BY <3>3 DEF Latest
    <3>. QED BY <2>1, <3>1, <3>4
  <2>3. PipelineTypeOK'
    BY <2>1 DEF PInv, PipelineTypeOK, holdVars, trainVars
  <2>4. Ending'
    BY <1>1, <2>1 DEF PInv, Ending, trainVars
  <2>5. Handshake'
    BY <1>1, <2>1, <2>2 DEF PInv, Handshake, trainVars
  <2>. QED BY <2>3, <2>4, <2>5 DEF PInv
<1>3. CASE DropStep
  <2>1. UNCHANGED <<version, ships, mpc, disabled>>
    BY <1>3 DEF DropStep, DropClaim, EmitMarker, PutMarker, DropEmitted, DropCancelled, mVars, switchVars
  <2>. QED BY <1>3, <2>1, PInvQuiet DEF DropStep
<1>4. CASE NotifyMain
  BY <1>4 DEF NotifyMain, PInv, PipelineTypeOK, Ending, Handshake, vars, wVars, mVars, switchVars, trainVars
<1>5. CASE Apply
  BY <1>1, <1>5 DEF Apply, PInv, PipelineTypeOK, Ending, Handshake, vars, wVars, mVars, switchVars, holdVars
<1>6. CASE Live
  <2>1. UNCHANGED <<version, ships, mpc, disabled>>
    BY <1>6 DEF Live, OnNewVersion, vars, wVars, mVars, switchVars
  <2>2. upc = "live" /\ upc' = "poll" /\ UNCHANGED <<loaded, holdVars, trainVars>>
    BY <1>6 DEF Live
  <2>. QED BY <2>1, <2>2 DEF PInv, PipelineTypeOK, Ending, Handshake, holdVars, trainVars
<1>7. CASE StopWatcher
  <2>1. /\ UNCHANGED <<version, ships, mpc, disabled>>
        /\ UNCHANGED <<loaded, holdVars, trainVars>>
        /\ mpc = "stopped" /\ upc = "poll" /\ upc' = "off"
    BY <1>7 DEF StopWatcher, vars, wVars, mVars, switchVars
  <2>2. tpc = "batch"
    <3>. SUFFICES ASSUME tpc = "handshake" PROVE FALSE
      BY DEF PInv, PipelineTypeOK
    <3>1. ships = MaxSteps /\ version >= MaxSteps - 1 - TargetLag
      BY <2>1 DEF PInv, Ending
    <3>2. trained <= MaxSteps - 2 /\ ~(version >= trained) /\ trained \in Nat
      BY <2>1 DEF PInv, Handshake, PipelineTypeOK
    <3>. QED BY <1>1, <3>1, <3>2
  <2>. QED BY <1>1, <2>1, <2>2 DEF PInv, PipelineTypeOK, Ending, Handshake, holdVars, trainVars
<1>. QED BY <1>2, <1>3, <1>4, <1>5, <1>6, <1>7 DEF WatcherStep

\* So do the steps of the main loop: the last batch ships once the policy has reached the
\* version it requires, and the loop leaves by itself only after that.
LEMMA PInvMain == Base /\ Base' /\ PInv /\ MainStep => PInv'
<1>. SUFFICES ASSUME Base, Base', PInv, MainStep PROVE PInv'
  OBVIOUS
<1>1. version \in 0..MaxSteps /\ ships \in 0..MaxSteps /\ MaxSteps \in Nat /\ TargetLag \in Nat
  BY BoundAssumption DEF Base, TypeOK, WatchOK, MainOK
<1>2. hold' = "none" /\ UNCHANGED <<watchVars, advanced, trainVars>>
  BY DEF MainStep
<1>3. PipelineTypeOK'
  BY <1>2 DEF PInv, PipelineTypeOK, watchVars, trainVars
<1>4. upc # "off" \/ mpc = "stopped"
  BY DEF PInv, Ending
<1>5. CASE Ship
  <2>1. /\ ships' = ships + 1 /\ mpc = "train" /\ mpc' = "get" /\ ~disabled
        /\ version >= ships - TargetLag /\ UNCHANGED <<version, disabled>>
    BY <1>5 DEF Ship, PolicyReached, wVars
  <2>2. Ending'
    BY <1>1, <1>2, <1>4, <2>1 DEF PInv, Ending, watchVars, trainVars
  <2>3. Handshake'
    BY <1>1, <1>2, <2>1 DEF PInv, Handshake, PipelineTypeOK, watchVars, trainVars
  <2>. QED BY <1>3, <2>2, <2>3 DEF PInv
<1>6. ASSUME UNCHANGED <<version, ships>> PROVE Handshake'
  BY <1>2, <1>6 DEF PInv, Handshake, watchVars, trainVars
<1>7. CASE Get \/ BackToGet
  <2>1. mpc # "stopped" /\ mpc' \in {"get", "train", "eval"} /\ UNCHANGED <<version, ships, disabled>>
    BY <1>7 DEF Get, BackToGet, Kind, wVars, switchVars
  <2>2. Ending'
    BY <1>2, <2>1 DEF PInv, Ending, watchVars, trainVars
  <2>. QED BY <1>3, <1>6, <2>1, <2>2 DEF PInv
<1>8. CASE Drain
  <2>1. mpc = "train" /\ mpc' = "drain" /\ ships = MaxSteps /\ UNCHANGED <<version, ships>>
    BY <1>8 DEF Drain, wVars
  <2>2. Ending'
    BY <1>2, <2>1 DEF PInv, Ending, watchVars, trainVars
  <2>. QED BY <1>3, <1>6, <2>1, <2>2 DEF PInv
<1>9. CASE Exit \/ Stop \/ StopLoop
  <2>1. /\ disabled \/ mpc \in {"exit", "stopping"}
        /\ mpc # "stopped" /\ UNCHANGED <<version, ships, disabled>>
    BY <1>9 DEF Exit, Stop, StopLoop, wVars, switchVars
  <2>2. Ending'
    BY <1>2, <2>1 DEF PInv, Ending, watchVars, trainVars
  <2>. QED BY <1>3, <1>6, <2>1, <2>2 DEF PInv
<1>. QED BY <1>5, <1>7, <1>8, <1>9 DEF MainStep

\* And those of the trainer: it opens no broadcast of the last two versions, which the
\* watcher may not be there to load.
LEMMA PInvTrainer ==
    ASSUME TargetLag <= 1, Base, PInv, TrainStep PROVE PInv'
<1>1. version \in 0..MaxSteps /\ ships \in 0..MaxSteps /\ MaxSteps \in Nat /\ trained \in Nat /\ TargetLag \in Nat
  BY BoundAssumption DEF Base, TypeOK, WatchOK, MainOK, PInv, PipelineTypeOK
<1>2. /\ trained' = trained + 1 /\ trained < ships
      /\ UNCHANGED <<version, ships, mpc, disabled, upc, loaded, advanced, hold>>
  BY DEF TrainStep, BatchArrived, vars, wVars, mVars, switchVars, watchVars, holdVars
<1>3. onDisk' \subseteq onDisk \cup {trained'}
  BY DEF TrainStep
<1>4. PipelineTypeOK'
  BY <1>1, <1>2, <1>3 DEF TrainStep, PInv, PipelineTypeOK
<1>5. CASE tpc' = "batch"
  <2>1. Ending'
    BY <1>2, <1>5 DEF PInv, Ending
  <2>2. InMemory => \E last \in onDisk' : onDisk' \subseteq 0..last
    <3>. HAVE InMemory
    <3>1. UNCHANGED onDisk
      BY <1>5 DEF TrainStep
    <3>. QED BY <3>1 DEF PInv, Handshake
  <2>3. Handshake'
    BY <1>1, <1>2, <1>5, <2>2 DEF PInv, Handshake
  <2>. QED BY <1>4, <2>1, <2>3 DEF PInv
<1>6. CASE tpc' = "handshake"
  <2>1. InMemory /\ trained' < MaxSteps - 1 /\ onDisk' = onDisk \cup {trained'}
    BY <1>1, <1>2, <1>6 DEF TrainStep
  <2>2. InMemory => version' <= trained /\ trained < trained'
    BY <1>1, <1>2 DEF PInv, Handshake
  <2>3. upc # "off"
    <3>1. upc = "off" => ships = MaxSteps /\ version >= MaxSteps - 1 - TargetLag
      BY DEF PInv, Ending
    <3>. QED BY <1>1, <1>2, <2>1, <2>2, <3>1
  <2>4. Ending'
    BY <1>2, <2>3 DEF PInv, Ending
  <2>5. trained' \in onDisk' /\ onDisk' \subseteq 0..trained'
    BY <1>4, <2>1 DEF PipelineTypeOK
  <2>6. Handshake'
    BY <1>1, <1>2, <2>1, <2>2, <2>5 DEF PInv, Handshake
  <2>. QED BY <1>4, <2>4, <2>6 DEF PInv
<1>. QED BY <1>4, <1>5, <1>6 DEF PipelineTypeOK

\* No step breaks PInv.
LEMMA PInvNext ==
    ASSUME TargetLag <= 1 PROVE Base /\ Base' /\ PInv /\ [PipelineNext]_allVars => PInv'
<1>. SUFFICES ASSUME Base, Base', PInv, [PipelineNext]_allVars PROVE PInv'
  OBVIOUS
<1>1. CASE DispatchStep
  BY <1>1, DispatchQuiet, PInvQuiet DEF DispatchStep
<1>2. CASE HoldShip \/ HoldWake
  <2>1. /\ advanced' \in BOOLEAN /\ hold' \in {"none", "held", "release"}
        /\ UNCHANGED <<version, ships, mpc, disabled>> /\ UNCHANGED <<watchVars, trainVars>>
    BY <1>2 DEF HoldShip, HoldWake, vars, wVars, mVars, switchVars
  <2>. QED BY <2>1 DEF PInv, PipelineTypeOK, Ending, Handshake, watchVars, trainVars
<1>3. CASE PipelineDone \/ UNCHANGED allVars
  BY <1>3, PInvQuiet DEF PipelineDone, allVars, vars, wVars, mVars, switchVars
<1>. QED BY <1>1, <1>2, <1>3, PInvWatcher, PInvMain, PInvTrainer DEF PipelineNext

\* PInv is an invariant when a batch runs at most one version ahead, as TARGET_LAG says.
THEOREM PipelineInvariant == ASSUME TargetLag <= 1 PROVE PipelineSpec => []PInv
<1>1. PipelineInit => PInv
  <2>. SUFFICES ASSUME PipelineInit PROVE PInv
    OBVIOUS
  <2>1. MaxSteps \in Nat \ {0} /\ TargetLag \in Nat
    BY BoundAssumption
  <2>2. /\ version = 0 /\ ships = 0 /\ mpc = "get" /\ disabled = FALSE
        /\ upc = "poll" /\ loaded = 0 /\ advanced = FALSE /\ hold = "none"
        /\ tpc = "batch" /\ trained = 0 /\ onDisk = {0}
    BY DEF PipelineInit, Init
  <2>3. PipelineTypeOK
    <3>1. 0 \in 0..MaxSteps /\ {0} \subseteq 0..0
      BY <2>1
    <3>. QED BY <2>2, <3>1 DEF PipelineTypeOK
  <2>4. Ending
    BY <2>1, <2>2 DEF Ending
  <2>5. Handshake
    BY <2>2 DEF Handshake
  <2>. QED BY <2>3, <2>4, <2>5 DEF PInv
<1>2. PipelineSpec => []Base
  BY ImplementsDispatcher, BaseInvariant, PTL
<1>3. Base /\ Base' /\ PInv /\ [PipelineNext]_allVars => PInv'
  BY PInvNext
<1>. QED BY <1>1, <1>2, <1>3, PTL DEF PipelineSpec

\* The variables of the pipeline keep their types; in particular nothing is on disk that the
\* trainer has not finished.
THEOREM PipelineTypeCorrect == ASSUME TargetLag <= 1 PROVE PipelineSpec => []PipelineTypeOK
<1>1. PInv => PipelineTypeOK
  BY DEF PInv
<1>. QED BY <1>1, PipelineInvariant, PTL

\* When the orchestrator has drained and its watcher is gone, the trainer is at its batch and
\* no broadcast it still makes needs the watcher: the hold, which lets the last batch go only
\* when the policy has reached the version it requires, is what makes this so.
THEOREM TrainerNeverStranded == ASSUME TargetLag <= 1 PROVE PipelineSpec => []NeverStranded
<1>1. Base /\ PInv => NeverStranded
  <2>. SUFFICES ASSUME Base, PInv, upc = "off"
                PROVE  tpc = "batch" /\ (InMemory => trained >= MaxSteps - 2)
    BY DEF NeverStranded
  <2>1. tpc = "batch" /\ ships = MaxSteps /\ version >= MaxSteps - 1 - TargetLag
    BY DEF PInv, Ending
  <2>2. InMemory => version <= trained
    BY DEF PInv, Handshake
  <2>3. version \in Nat /\ trained \in Nat /\ MaxSteps \in Nat /\ TargetLag \in Nat
    BY BoundAssumption DEF Base, TypeOK, WatchOK, PInv, PipelineTypeOK
  <2>. QED BY <2>1, <2>2, <2>3
<1>2. PipelineSpec => []Base
  BY ImplementsDispatcher, BaseInvariant, PTL
<1>. QED BY <1>1, <1>2, PipelineInvariant, PTL
=============================================================================
