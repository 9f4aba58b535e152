----------------------------- MODULE ResumeProofs -----------------------------
(***************************************************************************)
(* Proofs about Resume, for any number of steps, ranks and launches: what  *)
(* an attempt that was killed leaves behind is never trained on; over any  *)
(* number of launches the model has been trained on what was shipped, and  *)
(* a run stays resumable.                                                  *)
(***************************************************************************)
EXTENDS Resume, FiniteSetTheorems, WellFoundedInduction, TLAPS

Types ==
    /\ attempt \in Nat /\ resume \in Step \cup {Latest, None}
    /\ orchPart \in [Step -> OrchestratorPart \cup {None}]
    /\ trainerPart \in [Step -> TrainerPart \cup {None}]
    /\ \A s \in Step : trainerPart[s] # None => trainerPart[s].step = s
    /\ rollouts \in [Step -> [Rank -> Batch \cup {None}]]
    /\ broadcasts \subseteq Version
    /\ orch \in {"off", "setup", "sync", "run", "send", "sent"} \cup Ended
    /\ step \in 1..(MaxSteps + 1) /\ position \in Nat /\ inflight \subseteq 1..position
    /\ sending \in [task : Nat, files : Nat]
    /\ shipped \in Seq(Nat) /\ version \in Version
    /\ trainer \in {"off", "setup", "load", "start", "wait", "publish", "save", "saving", "clean"}
                       \cup Ended
    /\ from \in Version /\ tstep \in 1..(MaxSteps + 1) /\ model \in Model
    /\ got \in [Rank -> Batch \cup {None}]
    /\ ckptSteps \subseteq Step

\* What the places of the two processes say of their variables.
Places ==
    /\ orch = "setup" => inflight = {}
    /\ orch = "send" => step \in Step
    /\ trainer \in {"setup", "load"} => tstep = 1
    /\ trainer \in {"publish", "save", "saving", "clean"} => tstep \in Step
    /\ trainer \in {"setup", "load", "start", "publish", "save", "saving", "clean"} => got = NoBatch
    /\ \A r \in Rank : got[r] # None => tstep \in Step

\* A file of the attempt under way.
Own(s, r) == rollouts[s][r] # None /\ rollouts[s][r].attempt = attempt

\* The files of the attempt under way are those of the steps it has shipped and the first ones
\* of the step it is sending.
Written ==
    /\ \A s \in Step, r \in Rank : rollouts[s][r] # None => rollouts[s][r].attempt <= attempt
    /\ orch = "setup" => \A s \in Step, r \in Rank : ~Own(s, r)
    /\ orch \in {"sync", "run", "send", "sent"} =>
        \A s \in Step, r \in Rank : Own(s, r) =>
            \/ s < step
            \/ /\ orch = "send" /\ s = step /\ r <= sending.files
               /\ rollouts[s][r] = [attempt |-> attempt, task |-> sending.task]
    /\ \A s \in Step : \A q, r \in Rank : Own(s, q) /\ Own(s, r) => rollouts[s][q] = rollouts[s][r]

\* No file of an earlier attempt is left where the trainer will look.
Cleaned ==
    \A s \in Step, r \in Rank : rollouts[s][r] # None =>
        /\ trainer = "setup" /\ s > Resolved(resume) => Own(s, r)
        /\ trainer = "load" /\ s > from => Own(s, r)
        /\ trainer \in {"start", "wait", "publish", "save", "saving", "clean"} /\ s >= tstep => Own(s, r)

\* What a rank has received is still on disk, and of the attempt under way.
Received ==
    \A r \in Rank : got[r] # None =>
        tstep \in Step /\ Own(tstep, r) /\ got[r] = rollouts[tstep][r]

-----------------------------------------------------------------------------
(* The greatest of a set of steps *)

\* CHOOSE finds the greatest.
LEMMA GreatestIs ==
    ASSUME NEW S \in SUBSET Version, S # {}
    PROVE  Greatest(S) \in S /\ \A t \in S : t <= Greatest(S)
<1>. DEFINE D == {MaxSteps - s : s \in S}
<1>1. MaxSteps \in Nat /\ S \subseteq 0..MaxSteps
  BY ResumeAssumption DEF Version
<1>2. D \subseteq Nat /\ D # {}
  <2>1. ASSUME NEW s \in S PROVE MaxSteps - s \in Nat
    BY <1>1
  <2>. QED BY <2>1
<1>3. PICK n \in D : \A m \in D : ~(<<m, n>> \in OpToRel(<, Nat))
  <2>. HIDE DEF D
  <2>. QED BY <1>2, NatLessThanWellFounded, WFMin, Zenon
<1>4. \A m \in D : ~(m < n)
  <2>. HIDE DEF D
  <2>. QED BY <1>2, <1>3, Zenon DEF OpToRel
<1>5. PICK s \in S : n = MaxSteps - s
  OBVIOUS
<1>6. ASSUME NEW t \in S PROVE t <= s
  <2>1. MaxSteps - t \in D
    OBVIOUS
  <2>2. ~(MaxSteps - t < MaxSteps - s)
    BY <1>4, <1>5, <2>1
  <2>3. t \in Nat /\ s \in Nat
    BY <1>1
  <2>. QED BY <1>1, <2>2, <2>3
<1>. QED BY <1>6 DEF Greatest

\* The step to resume from is one, or 0.
LEMMA ResolvedTyped ==
    ASSUME Types, NEW arg \in Step \cup {Latest, None}
    PROVE  Resolved(arg) \in Version
<1>1. CkptSteps \subseteq Version /\ Step \subseteq Version /\ 0 \in Version
  BY ResumeAssumption DEF CkptSteps, Step, Version
<1>2. CASE arg = Latest /\ arg # None /\ CkptSteps # {}
  BY <1>1, <1>2, GreatestIs DEF Resolved
<1>. QED BY <1>1, <1>2 DEF Resolved

\* It only grows while no checkpoint is removed.
LEMMA ResolvedGrows ==
    ASSUME Types, resume' = resume, CkptSteps \subseteq CkptSteps'
    PROVE  Resolved(resume)' \in Int /\ Resolved(resume)' >= Resolved(resume)
<1>. DEFINE LastOf(S) == IF S = {} THEN 0 ELSE Greatest(S)
<1>1. CkptSteps \subseteq Version /\ CkptSteps' \subseteq Version /\ Step \subseteq Nat
  BY ResumeAssumption DEF CkptSteps, Step, Version
<1>2. ASSUME NEW A, NEW B, A \subseteq B, B \subseteq Version
      PROVE  LastOf(B) \in Int /\ LastOf(B) >= LastOf(A)
  <2>1. B # {} => Greatest(B) \in B /\ \A t \in B : t <= Greatest(B)
    BY <1>2, GreatestIs
  <2>2. A # {} => Greatest(A) \in A
    BY <1>2, GreatestIs
  <2>3. \A t \in B : t \in Int /\ t >= 0
    BY <1>2 DEF Version
  <2>. QED BY <1>2, <2>1, <2>2, <2>3
<1>3. LastOf(CkptSteps') \in Int /\ LastOf(CkptSteps') >= LastOf(CkptSteps)
  BY <1>1, <1>2
<1>4. CASE resume = Latest /\ resume # None
  BY <1>3, <1>4 DEF Resolved
<1>5. CASE resume = None \/ resume # Latest
  BY <1>1, <1>5 DEF Resolved, Types
<1>. QED BY <1>4, <1>5

-----------------------------------------------------------------------------
(* Types *)

\* The first launch finds an empty run directory.
LEMMA TypesInit == Init => Types /\ Places
BY ResumeAssumption DEF Init, Types, Places, NoBatch, NoModel, Version, Model, Ended

\* The launcher.
LEMMA LauncherTypes ==
    ASSUME Types, Places,
           (\E arg \in CkptSteps \cup {Latest, None} : Launch(arg)) \/ Terminate
             \/ KillOrchestrator \/ KillTrainer
    PROVE  Types' /\ Places'
<1>1. ASSUME NEW arg \in CkptSteps \cup {Latest, None}, Launch(arg) PROVE Types' /\ Places'
  <2>1. rollouts' \in [Step -> [Rank -> Batch \cup {None}]]
    BY <1>1 DEF Launch, Types, NoBatch
  <2>2. broadcasts' \subseteq Version
    BY <1>1 DEF Launch, Types
  <2>. QED BY <1>1, <2>1, <2>2, ResumeAssumption
           DEF Launch, Types, Places, NoBatch, NoModel, Version, Model, Ended, CkptSteps
<1>2. CASE Terminate
  BY <1>2 DEF Terminate, disk, Types, Places, Ended
<1>3. CASE KillOrchestrator
  BY <1>3 DEF KillOrchestrator, disk, trainerVars, Types, Places, Ended
<1>4. CASE KillTrainer
  BY <1>4 DEF KillTrainer, disk, orchVars, Types, Places, Ended
<1>. QED BY <1>1, <1>2, <1>3, <1>4

\* The orchestrator: a step that is sent is one to train, and a part saved is a position and a
\* list of tasks.
LEMMA OrchestratorTypes ==
    ASSUME Types, Places,
           OrchestratorLoad \/ Sync \/ Watch \/ Dispatch \/ (\E t \in inflight : Ship(t))
             \/ WriteRank \/ SaveOrchestrator \/ Finish \/ Fail
    PROVE  Types' /\ Places'
<1>0. MaxSteps \in Nat /\ Step = 1..MaxSteps /\ Version = 0..MaxSteps
  BY ResumeAssumption DEF Step, Version
<1>1. CASE OrchestratorLoad
  <2>1. Resolved(resume) \in Version
    BY ResolvedTyped DEF Types
  <2>2. Resolved(resume) # 0 => Resolved(resume) \in Step
    BY <1>0, <2>1
  <2>. DEFINE s == Resolved(resume)
  <2>3. s # 0 /\ orchPart[s] # None => orchPart[s] \in OrchestratorPart
    BY <2>2 DEF Types
  <2>. HIDE DEF s
  <2>4. position' \in Nat /\ shipped' \in Seq(Nat) /\ step' \in 1..(MaxSteps + 1)
    BY <1>0, <1>1, <2>2, <2>3 DEF OrchestratorLoad, Types, OrchestratorPart, s
  <2>. QED BY <1>1, <2>4 DEF OrchestratorLoad, disk, trainerVars, Types, Places, Ended
<1>2. CASE Sync
  BY <1>0, <1>2 DEF Sync, disk, trainerVars, Types, Places, Ended
<1>3. CASE Watch
  <2>1. Greatest(broadcasts) \in Version
    BY <1>3, GreatestIs DEF Watch, Types
  <2>. QED BY <1>3, <2>1 DEF Watch, disk, trainerVars, Types, Places, Ended
<1>4. CASE Dispatch
  <2>1. inflight' \subseteq 1..position' /\ position' \in Nat
    BY <1>4 DEF Dispatch, Types
  <2>. QED BY <1>4, <2>1 DEF Dispatch, disk, trainerVars, Types, Places, Ended
<1>5. ASSUME NEW t \in inflight, Ship(t) PROVE Types' /\ Places'
  <2>1. sending' \in [task : Nat, files : Nat] /\ inflight' \subseteq 1..position /\ step \in Step
    <3>1. inflight \subseteq 1..position /\ position \in Nat /\ step \in 1..(MaxSteps + 1)
      BY DEF Types
    <3>2. step <= MaxSteps /\ sending' = [task |-> t, files |-> 0] /\ inflight' = inflight \ {t}
      BY <1>5 DEF Ship
    <3>3. t \in Nat
      BY <1>5, <3>1
    <3>. QED BY <1>0, <3>1, <3>2, <3>3
  <2>. QED BY <1>5, <2>1 DEF Ship, disk, trainerVars, Types, Places, Ended
<1>6. CASE WriteRank
  <2>. DEFINE r == sending.files + 1
              file == [attempt |-> attempt, task |-> sending.task]
  <2>1. file \in Batch /\ r \in Nat /\ step \in Step
    BY <1>6 DEF WriteRank, Types, Places, Batch
  <2>2. rollouts' = [rollouts EXCEPT ![step][r] = file] /\ sending' = [sending EXCEPT !.files = r]
    BY <1>6 DEF WriteRank
  <2>3. rollouts' \in [Step -> [Rank -> Batch \cup {None}]]
    <3>. HIDE DEF file, r
    <3>. QED BY <2>1, <2>2 DEF Types
  <2>4. sending' \in [task : Nat, files : Nat]
    BY <2>1, <2>2 DEF Types
  <2>5. step' \in 1..(MaxSteps + 1) /\ shipped' \in Seq(Nat) /\ (orch' = "send" => step' \in Step)
        /\ orch' \in {"send", "sent"}
    <3>1. CASE r = Ranks
      <4>1. Append(shipped, sending.task) \in Seq(Nat)
        BY DEF Types
      <4>2. orch' = "sent" /\ step' = step + 1 /\ shipped' = Append(shipped, sending.task)
        BY <1>6, <3>1 DEF WriteRank
      <4>. QED BY <1>0, <2>1, <4>1, <4>2
    <3>2. CASE r # Ranks
      BY <1>0, <1>6, <2>1, <3>2 DEF WriteRank, Types
    <3>. QED BY <3>1, <3>2
  <2>. QED BY <1>6, <2>3, <2>4, <2>5 DEF WriteRank, trainerVars, Types, Places, Ended
<1>. DEFINE progress == [position |-> position, shipped |-> shipped]
<1>7. progress \in OrchestratorPart
  BY DEF Types, OrchestratorPart
<1>8. FinalSave => orchPart' \in [Step -> OrchestratorPart \cup {None}]
  <2>. HIDE DEF progress
  <2>. QED BY <1>7 DEF FinalSave, Progress, progress, Types
<1>9. CASE SaveOrchestrator
  <2>1. orchPart' \in [Step -> OrchestratorPart \cup {None}]
    <3>. HIDE DEF progress
    <3>. QED BY <1>7, <1>9 DEF SaveOrchestrator, Progress, progress, Types
  <2>. QED BY <1>9, <2>1 DEF SaveOrchestrator, trainerVars, Types, Places, Ended
<1>10. CASE Finish \/ Fail
  BY <1>8, <1>10 DEF Finish, Fail, trainerVars, Types, Places, Ended
<1>. QED BY <1>1, <1>2, <1>3, <1>4, <1>5, <1>6, <1>9, <1>10

\* The trainer: a checkpoint part is of the step it is saved at, and a step after the load is
\* one more than the part says.
LEMMA TrainerTypes ==
    ASSUME Types, Places,
           TrainerSetup \/ TrainerLoad \/ StartupBroadcast \/ (\E r \in Rank : Receive(r))
             \/ Train \/ Broadcast \/ StartSave \/ EndSave \/ Clean
    PROVE  Types' /\ Places'
<1>0. MaxSteps \in Nat /\ Step = 1..MaxSteps /\ Version = 0..MaxSteps
  BY ResumeAssumption DEF Step, Version
<1>1. CASE TrainerSetup
  <2>1. from' \in Version /\ ckptSteps' \subseteq Step
    BY <1>1, ResolvedTyped DEF TrainerSetup, Types, CkptSteps
  <2>. QED BY <1>1, <2>1 DEF TrainerSetup, disk, orchVars, Types, Places, Ended
<1>2. CASE TrainerLoad
  <2>1. tstep' \in 1..(MaxSteps + 1) /\ model' \in Model /\ (trainer' # "dead" => trainer' = "start")
    <3>1. CASE from # 0 /\ Loadable(from)
      <4>1. from \in Step /\ trainerPart[from] # None
        BY <1>0, <3>1 DEF Types, Loadable
      <4>2. trainerPart[from] \in TrainerPart /\ trainerPart[from].step = from
        BY <4>1 DEF Types
      <4>3. IsSound(from) \in BOOLEAN
        BY DEF IsSound
      <4>4. [trainerPart[from].model EXCEPT !.sound = IsSound(from)] \in Model
        BY <4>2, <4>3 DEF TrainerPart, Model
      <4>. QED BY <1>0, <1>2, <3>1, <4>1, <4>2, <4>4 DEF TrainerLoad
    <3>2. CASE ~(from # 0 /\ Loadable(from))
      BY <1>2, <3>2 DEF TrainerLoad, Types
    <3>. QED BY <3>1, <3>2
  <2>2. trainer' \in {"start", "dead"}
    BY <1>2 DEF TrainerLoad
  <2>3. got' = got /\ got = NoBatch /\ \A r \in Rank : got[r] = None
    BY <1>2 DEF TrainerLoad, Places, NoBatch
  <2>. QED BY <1>2, <2>1, <2>2, <2>3 DEF TrainerLoad, disk, orchVars, Types, Places, Ended
<1>3. CASE StartupBroadcast
  <2>1. broadcasts' \subseteq Version
    BY <1>0, <1>3 DEF StartupBroadcast, Types
  <2>. QED BY <1>3, <2>1 DEF StartupBroadcast, orchVars, Types, Places, Ended
<1>4. ASSUME NEW r \in Rank, Receive(r) PROVE Types' /\ Places'
  <2>1. got' \in [Rank -> Batch \cup {None}]
    BY <1>4 DEF Receive, Types
  <2>. QED BY <1>4, <2>1 DEF Receive, disk, orchVars, Types, Places, Ended
<1>5. CASE Train
  <2>1. 1 \in Rank
    BY ResumeAssumption DEF Rank
  <2>2. got[1] \in Batch /\ got[1] # None
    BY <1>5, <2>1 DEF Train, Types
  <2>3. model' \in Model /\ got' = NoBatch /\ tstep \in Step
    <3>1. Append(model.tasks, got[1].task) \in Seq(Nat)
      BY <2>2 DEF Types, Model, Batch
    <3>. QED BY <1>5, <2>1, <2>2, <3>1 DEF Train, Types, Places, Model
  <2>4. NoBatch \in [Rank -> Batch \cup {None}] /\ \A r \in Rank : NoBatch[r] = None
    BY DEF NoBatch
  <2>. QED BY <1>5, <2>3, <2>4 DEF Train, disk, orchVars, Types, Places, Ended
<1>6. ASSUME NextStep, tstep \in Step
      PROVE  /\ tstep' \in 1..(MaxSteps + 1) /\ trainer' \in {"wait", "done"}
  BY <1>0, <1>6 DEF NextStep, IsLastStep, Types
<1>7. got = NoBatch => \A r \in Rank : got[r] = None
  BY DEF NoBatch
<1>8. CASE Broadcast
  <2>1. tstep \in Step /\ got = NoBatch
    BY <1>8 DEF Broadcast, Places
  <2>2. broadcasts' \subseteq Version
    <3>1. broadcasts' \subseteq broadcasts \cup {tstep}
      BY <1>8 DEF Broadcast
    <3>2. tstep \in Version
      BY <1>0, <2>1
    <3>. QED BY <3>1, <3>2 DEF Types
  <2>3. /\ tstep' \in 1..(MaxSteps + 1)
        /\ trainer' \in {"wait", "done"} \/ (trainer' = "save" /\ tstep' = tstep)
    BY <1>6, <1>8, <2>1 DEF Broadcast, Types
  <2>. QED BY <1>7, <1>8, <2>1, <2>2, <2>3 DEF Broadcast, orchVars, Types, Places, Ended
<1>9. ASSUME NEW b \in BOOLEAN, tstep \in Step PROVE Part(b) \in TrainerPart /\ Part(b).step = tstep
  BY <1>9 DEF Part, TrainerPart, Types
<1>10. ASSUME NEW b \in BOOLEAN, tstep \in Step,
              trainerPart' = [trainerPart EXCEPT ![tstep] = Part(b)]
       PROVE  /\ trainerPart' \in [Step -> TrainerPart \cup {None}]
              /\ \A s \in Step : trainerPart'[s] # None => trainerPart'[s].step = s
  BY <1>9, <1>10 DEF Types
<1>11. CASE StartSave
  BY <1>10, <1>11 DEF StartSave, orchVars, Types, Places, Ended
<1>12. CASE EndSave
  BY <1>10, <1>12 DEF EndSave, orchVars, Types, Places, Ended
<1>13. CASE Clean
  <2>1. tstep \in Step /\ got = NoBatch
    BY <1>13 DEF Clean, Places
  <2>2. /\ orchPart' \in [Step -> OrchestratorPart \cup {None}] /\ trainerPart' \in [Step -> TrainerPart \cup {None}]
        /\ \A s \in Step : trainerPart'[s] # None => trainerPart'[s].step = s
    BY <1>13 DEF Clean, Types
  <2>3. ckptSteps' \subseteq Step
    BY <1>13 DEF Clean, Kept, Types
  <2>. QED BY <1>6, <1>7, <1>13, <2>1, <2>2, <2>3 DEF Clean, orchVars, Types, Places, Ended
<1>. QED BY <1>1, <1>2, <1>3, <1>4, <1>5, <1>8, <1>11, <1>12, <1>13

\* Every step, one case per process.
LEMMA TypesNext == Types /\ Places /\ [Next]_vars => Types' /\ Places'
<1>1. CASE UNCHANGED vars
  BY <1>1 DEF vars, disk, orchVars, trainerVars, Types, Places
<1>2. Next => (Types /\ Places => Types' /\ Places')
  BY LauncherTypes, OrchestratorTypes, TrainerTypes DEF Next
<1>. QED BY <1>1, <1>2

\* Every variable and everything on disk keeps its type, through kills and launches.
THEOREM ResumeTypeCorrect == Spec => []ResumeTypeOK
<1>1. Types => ResumeTypeOK
  BY DEF Types, ResumeTypeOK, OrchestratorPart, TrainerPart
<1>. QED BY <1>1, TypesInit, TypesNext, PTL DEF Spec

-----------------------------------------------------------------------------
(* Files of this attempt and of earlier ones *)

OrchestratorStep ==
    OrchestratorLoad \/ Sync \/ Watch \/ Dispatch \/ (\E t \in inflight : Ship(t))
      \/ WriteRank \/ SaveOrchestrator \/ Finish \/ Fail \/ KillOrchestrator

TrainerStep ==
    TrainerSetup \/ TrainerLoad \/ StartupBroadcast \/ (\E r \in Rank : Receive(r))
      \/ Train \/ Broadcast \/ StartSave \/ EndSave \/ Clean \/ KillTrainer

\* The orchestrator leaves the trainer alone, and files other than the one it writes.
LEMMA OrchestratorFrame ==
    ASSUME OrchestratorStep
    PROVE  /\ UNCHANGED <<attempt, resume, trainerVars, trainerPart>>
           /\ WriteRank \/ UNCHANGED rollouts
BY DEF OrchestratorStep, OrchestratorLoad, Sync, Watch, Dispatch, Ship, WriteRank, SaveOrchestrator,
       Finish, Fail, KillOrchestrator, disk

\* The trainer leaves the orchestrator and its files alone.
LEMMA TrainerFrame ==
    ASSUME TrainerStep
    PROVE  UNCHANGED <<attempt, resume, orchVars, rollouts>>
BY DEF TrainerStep, TrainerSetup, TrainerLoad, StartupBroadcast, Receive, Train, Broadcast,
       StartSave, EndSave, Clean, KillTrainer, disk

\* The orchestrator adds checkpoints and removes none.
LEMMA CkptStepsGrow ==
    ASSUME Types, OrchestratorStep
    PROVE  CkptSteps \subseteq CkptSteps'
<1>1. Progress \in OrchestratorPart /\ None \notin OrchestratorPart
  BY ResumeAssumption DEF Progress, Types, OrchestratorPart
<1>2. \/ orchPart' = orchPart \/ orchPart' = [orchPart EXCEPT ![step - 1] = Progress]
  BY DEF OrchestratorStep, OrchestratorLoad, Sync, Watch, Dispatch, Ship, WriteRank,
         SaveOrchestrator, Finish, Fail, FinalSave, KillOrchestrator, disk
<1>3. ASSUME NEW s \in Step, orchPart[s] # None PROVE orchPart'[s] # None
  BY <1>1, <1>2, <1>3 DEF Types
<1>. QED BY <1>3, OrchestratorFrame DEF CkptSteps

\* A launch has a number no file has; a rank file is the next one of the step being sent, and
\* its batch is that of the files before it.
LEMMA WrittenNext ==
    ASSUME Types, Places, Written, [Next]_vars
    PROVE  Written'
<1>1. CASE \E arg \in CkptSteps \cup {Latest, None} : Launch(arg)
  <2>1. /\ attempt' = attempt + 1 /\ attempt \in Nat /\ orch' = "setup"
        /\ \A s \in Step, r \in Rank : rollouts'[s][r] = None \/ rollouts'[s][r] = rollouts[s][r]
    BY <1>1 DEF Launch, Types, NoBatch
  <2>2. \A s \in Step, r \in Rank : rollouts[s][r] # None =>
            rollouts[s][r].attempt \in Nat /\ rollouts[s][r].attempt <= attempt
    BY DEF Types, Batch, Written
  <2>3. \A s \in Step, r \in Rank : rollouts'[s][r] # None =>
            rollouts'[s][r].attempt \in Nat /\ rollouts'[s][r].attempt <= attempt
    BY <2>1, <2>2
  <2>4. \A s \in Step, r \in Rank : ~Own(s, r)'
    BY <2>1, <2>3 DEF Own
  <2>5. \A s \in Step, r \in Rank : rollouts'[s][r] # None => rollouts'[s][r].attempt <= attempt'
    BY <2>1, <2>3
  <2>. QED BY <2>1, <2>4, <2>5 DEF Written
<1>2. CASE WriteRank
  <2>. DEFINE f == sending.files + 1
              file == [attempt |-> attempt, task |-> sending.task]
  <2>1. /\ orch = "send" /\ attempt' = attempt
        /\ rollouts' = [rollouts EXCEPT ![step][f] = file]
        /\ sending' = [sending EXCEPT !.files = f]
        /\ \/ orch' = "sent" /\ step' = step + 1
           \/ orch' = "send" /\ step' = step
    BY <1>2 DEF WriteRank
  <2>2. /\ file.attempt = attempt /\ f \in Nat /\ f > sending.files /\ step \in Step
        /\ attempt \in Nat /\ sending'.files = f /\ sending'.task = sending.task
    BY <2>1 DEF Types, Places
  <2>3. ASSUME NEW s \in Step, NEW r \in Rank
        PROVE  rollouts'[s][r] = IF s = step /\ r = f THEN file ELSE rollouts[s][r]
    <3>. HIDE DEF file, f
    <3>. QED BY <2>1, <2>3 DEF Types
  <2>4. ASSUME NEW s \in Step, NEW r \in Rank, Own(s, r)'
        PROVE  \/ s < step /\ Own(s, r) /\ rollouts'[s][r] = rollouts[s][r]
               \/ s = step /\ r <= f /\ rollouts'[s][r] = file
    <3>1. CASE s = step /\ r = f
      BY <2>2, <2>3, <3>1 DEF Rank
    <3>2. CASE ~(s = step /\ r = f)
      <4>1. rollouts'[s][r] = rollouts[s][r] /\ Own(s, r)
        BY <2>1, <2>3, <2>4, <3>2 DEF Own
      <4>2. s < step \/ (s = step /\ r <= sending.files /\ rollouts[s][r] = file)
        BY <2>1, <4>1 DEF Written
      <4>. QED BY <2>2, <4>1, <4>2 DEF Rank, Types
    <3>. QED BY <3>1, <3>2
  <2>5. \A s \in Step, r \in Rank : rollouts'[s][r] # None => rollouts'[s][r].attempt <= attempt'
    <3>. HIDE DEF file
    <3>. QED BY <2>1, <2>2, <2>3 DEF Written
  <2>6. \A s \in Step : \A q, r \in Rank : Own(s, q)' /\ Own(s, r)' => rollouts'[s][q] = rollouts'[s][r]
    <3>. HIDE DEF file, f
    <3>1. \A s \in Step : ~(s < step /\ s = step)
      BY DEF Types, Step
    <3>. QED BY <2>4, <3>1 DEF Written
  <2>7. ASSUME NEW s \in Step, NEW r \in Rank, Own(s, r)'
        PROVE  \/ s < step'
               \/ /\ orch' = "send" /\ s = step' /\ r <= sending'.files
                  /\ rollouts'[s][r] = [attempt |-> attempt', task |-> sending'.task]
    <3>1. CASE orch' = "sent"
      BY <2>1, <2>4, <2>7, <3>1 DEF Types, Step
    <3>2. CASE orch' = "send"
      BY <2>1, <2>2, <2>4, <2>7, <3>2
    <3>. QED BY <2>1, <3>1, <3>2
  <2>. QED BY <2>1, <2>5, <2>6, <2>7 DEF Written
<1>3. ASSUME UNCHANGED <<attempt, rollouts>>,
             orch' = "setup" => orch = "setup",
             orch' \in {"sync", "run", "send", "sent"} =>
                \A s \in Step, r \in Rank : Own(s, r) =>
                    \/ s < step'
                    \/ /\ orch' = "send" /\ s = step' /\ r <= sending'.files
                       /\ rollouts[s][r] = [attempt |-> attempt, task |-> sending'.task]
      PROVE  Written'
  BY <1>3 DEF Written, Own
<1>4. CASE UNCHANGED <<attempt, rollouts, orch, step, sending>>
  BY <1>3, <1>4 DEF Written
<1>5. CASE OrchestratorLoad \/ Sync \/ SaveOrchestrator \/ \E t \in inflight : Ship(t)
  <2>1. /\ UNCHANGED <<attempt, rollouts>> /\ orch' # "setup"
        /\ orch = "setup" \/ (orch \in {"sync", "sent", "run"} /\ step' = step)
    BY <1>5 DEF OrchestratorLoad, Sync, SaveOrchestrator, Ship, disk
  <2>2. \A s \in Step, r \in Rank : Own(s, r) => s < step'
    BY <2>1 DEF Written
  <2>. QED BY <1>3, <2>1, <2>2
<1>6. CASE Terminate \/ KillOrchestrator \/ Finish \/ Fail
  BY <1>3, <1>6 DEF Terminate, KillOrchestrator, Finish, Fail, disk
<1>7. CASE Watch \/ Dispatch
  BY <1>4, <1>7 DEF Watch, Dispatch, disk
<1>8. CASE TrainerStep
  BY <1>4, <1>8, TrainerFrame DEF orchVars
<1>9. CASE UNCHANGED vars
  BY <1>4, <1>9 DEF vars, disk, orchVars
<1>. QED BY <1>1, <1>2, <1>5, <1>6, <1>7, <1>8, <1>9 DEF Next, TrainerStep

\* clean_future_steps leaves no file past the step resumed from.
LEMMA CleanedLaunch ==
    ASSUME Types, NEW arg \in CkptSteps \cup {Latest, None}, Launch(arg)
    PROVE  Cleaned'
<1>1. /\ trainer' = "setup" /\ resume' = arg
      /\ rollouts' = [s \in Step |-> IF s >= StaleFrom(Resolved(arg)) THEN NoBatch ELSE rollouts[s]]
      /\ UNCHANGED <<orchPart, trainerPart>>
  BY DEF Launch
<1>2. Resolved(resume)' = Resolved(arg)
  BY <1>1 DEF Resolved, CkptSteps
<1>3. Resolved(arg) \in Version
  BY ResolvedTyped DEF CkptSteps
<1>4. ASSUME NEW s \in Step, NEW r \in Rank, s > Resolved(arg) PROVE rollouts'[s][r] = None
  <2>1. s >= StaleFrom(Resolved(arg))
    BY <1>3, <1>4 DEF StaleFrom, Step, Version
  <2>. QED BY <1>1, <2>1 DEF NoBatch
<1>. QED BY <1>1, <1>2, <1>4 DEF Cleaned

\* The orchestrator writes files of its own attempt only; a checkpoint it adds can only raise
\* the step resumed from.
LEMMA CleanedOrchestrator ==
    ASSUME Types, Places, Cleaned, OrchestratorStep
    PROVE  Cleaned'
<1>1. UNCHANGED <<attempt, resume, trainer, from, tstep>>
  BY OrchestratorFrame DEF trainerVars
<1>2. Resolved(resume)' \in Int /\ Resolved(resume)' >= Resolved(resume)
  BY <1>1, CkptStepsGrow, ResolvedGrows
<1>3. ASSUME NEW s \in Step, NEW r \in Rank, rollouts'[s][r] # None
      PROVE  Own(s, r)' \/ rollouts'[s][r] = rollouts[s][r]
  <2>1. CASE WriteRank
    <3>. DEFINE f == sending.files + 1
                file == [attempt |-> attempt, task |-> sending.task]
    <3>1. rollouts' = [rollouts EXCEPT ![step][f] = file] /\ file.attempt = attempt
      BY <2>1 DEF WriteRank
    <3>2. rollouts'[s][r] = rollouts[s][r] \/ rollouts'[s][r] = file
      <4>. HIDE DEF file, f
      <4>. QED BY <3>1 DEF Types
    <3>. QED BY <1>1, <1>3, <3>1, <3>2 DEF Own
  <2>2. CASE UNCHANGED rollouts
    BY <2>2
  <2>. QED BY <2>1, <2>2, OrchestratorFrame
<1>4. ASSUME NEW s \in Step, NEW r \in Rank, rollouts'[s][r] # None, ~Own(s, r)'
      PROVE  rollouts[s][r] # None /\ ~Own(s, r)
  BY <1>1, <1>3, <1>4 DEF Own
<1>5. \A s \in Step : s > Resolved(resume)' => s > Resolved(resume)
  <2>1. Resolved(resume) \in Version /\ Step \subseteq Int
    <3>1. resume \in Step \cup {Latest, None}
      BY DEF Types
    <3>2. Resolved(resume) \in Version
      BY <3>1, ResolvedTyped
    <3>. QED BY <3>2 DEF Step
  <2>. QED BY <1>2, <2>1 DEF Version
<1>. QED BY <1>1, <1>4, <1>5 DEF Cleaned

\* The trainer starts looking one past the step it resumed from, and from there only goes on.
LEMMA CleanedTrainer ==
    ASSUME Types, Places, Cleaned, TrainerStep
    PROVE  Cleaned'
<1>0. UNCHANGED <<attempt, resume, rollouts>> /\ \A s \in Step, r \in Rank : Own(s, r)' = Own(s, r)
  BY TrainerFrame DEF Own
<1>1. CASE TrainerSetup
  BY <1>0, <1>1 DEF TrainerSetup, Cleaned
<1>2. CASE TrainerLoad
  <2>1. trainer = "load" /\ trainer' \in {"start", "dead"}
    BY <1>2 DEF TrainerLoad
  <2>2. trainer' = "start" => \A s \in Step : s >= tstep' => s > from
    <3>1. CASE from = 0
      BY <1>2, <3>1 DEF Step
    <3>2. CASE from # 0 /\ Loadable(from)
      <4>1. from \in Step /\ trainerPart[from] # None
        BY <3>2 DEF Types, Loadable, Step, Version
      <4>2. tstep' = from + 1
        BY <1>2, <3>2, <4>1 DEF TrainerLoad, Types
      <4>. QED BY <4>1, <4>2 DEF Step
    <3>. QED BY <1>2, <3>1, <3>2 DEF TrainerLoad
  <2>. QED BY <1>0, <2>1, <2>2 DEF Cleaned
<1>3. ASSUME trainer \in {"start", "wait", "publish", "save", "saving", "clean"}, tstep' >= tstep,
             trainer' \notin {"setup", "load"}
      PROVE  Cleaned'
  <2>1. tstep \in Int /\ tstep' \in Int
    <3>1. Types'
      BY TypesNext DEF TrainerStep, Next
    <3>. QED BY <3>1 DEF Types
  <2>2. \A s \in Step : s >= tstep' => s >= tstep
    BY <1>3, <2>1 DEF Step
  <2>. QED BY <1>0, <1>3, <2>2 DEF Cleaned
<1>4. CASE StartupBroadcast \/ Train \/ StartSave \/ EndSave \/ \E r \in Rank : Receive(r)
  <2>1. /\ tstep' = tstep /\ trainer \in {"start", "wait", "publish", "save", "saving"}
        /\ trainer' \in {"wait", "publish", "saving", "clean"}
    BY <1>4 DEF StartupBroadcast, Train, StartSave, EndSave, Receive
  <2>2. tstep' >= tstep
    BY <2>1 DEF Types
  <2>. QED BY <1>3, <2>1, <2>2
<1>5. CASE Broadcast \/ Clean
  BY <1>3, <1>5 DEF Broadcast, Clean, NextStep, Types
<1>6. CASE KillTrainer
  BY <1>6 DEF KillTrainer, Cleaned
<1>. QED BY <1>1, <1>2, <1>4, <1>5, <1>6 DEF TrainerStep

\* Every step: those of the launcher and of the two processes.
LEMMA CleanedNext ==
    ASSUME Types, Places, Cleaned, [Next]_vars
    PROVE  Cleaned'
<1>1. CASE Terminate
  BY <1>1 DEF Terminate, Cleaned
<1>2. CASE UNCHANGED vars
  BY <1>2 DEF vars, disk, trainerVars, Cleaned, Own, Resolved, CkptSteps
<1>. QED BY <1>1, <1>2, CleanedLaunch, CleanedOrchestrator, CleanedTrainer
         DEF Next, OrchestratorStep, TrainerStep

\* A rank takes the file of its step; the orchestrator no longer writes a step of which a file
\* has been taken.
LEMMA ReceivedNext ==
    ASSUME Types, Places, Written, Cleaned, Received, [Next]_vars
    PROVE  Received'
<1>1. ASSUME \A r \in Rank : got'[r] = None PROVE Received'
  BY <1>1 DEF Received
<1>2. CASE \E arg \in CkptSteps \cup {Latest, None} : Launch(arg)
  BY <1>1, <1>2 DEF Launch, NoBatch
<1>3. ASSUME UNCHANGED <<got, tstep, attempt, rollouts>> PROVE Received'
  BY <1>3 DEF Received, Own
<1>4. CASE OrchestratorStep
  <2>1. CASE UNCHANGED rollouts
    BY <1>3, <1>4, <2>1, OrchestratorFrame DEF trainerVars
  <2>2. CASE WriteRank
    <3>. DEFINE f == sending.files + 1
                file == [attempt |-> attempt, task |-> sending.task]
    <3>1. rollouts' = [rollouts EXCEPT ![step][f] = file] /\ orch = "send" /\ UNCHANGED <<attempt, got, tstep>>
      BY <2>2 DEF WriteRank, trainerVars
    <3>2. ASSUME NEW r \in Rank, got[r] # None
          PROVE  rollouts'[tstep][r] = rollouts[tstep][r]
      <4>1. tstep \in Step /\ Own(tstep, r)
        BY <3>2 DEF Received
      <4>2. tstep < step \/ (tstep = step /\ r <= sending.files)
        BY <3>1, <4>1 DEF Written
      <4>3. ~(tstep = step /\ r = f)
        BY <4>1, <4>2 DEF Types, Step, Rank
      <4>. HIDE DEF file, f
      <4>. QED BY <3>1, <4>1, <4>3 DEF Types
    <3>. QED BY <3>1, <3>2 DEF Received, Own
  <2>. QED BY <1>4, <2>1, <2>2, OrchestratorFrame
<1>5. ASSUME NEW q \in Rank, Receive(q) PROVE Received'
  <2>1. /\ got' = [got EXCEPT ![q] = rollouts[tstep][q]] /\ tstep \in Step /\ trainer = "wait"
        /\ rollouts[tstep][q] # None /\ UNCHANGED <<tstep, attempt, rollouts>>
    BY <1>5 DEF Receive, disk
  <2>2. Own(tstep, q)
    BY <2>1 DEF Cleaned, Step
  <2>3. \A r \in Rank : got'[r] = IF r = q THEN rollouts[tstep][q] ELSE got[r]
    BY <2>1 DEF Types
  <2>. QED BY <2>1, <2>2, <2>3 DEF Received, Own
<1>6. CASE TrainerSetup \/ StartSave \/ EndSave \/ KillTrainer
  BY <1>3, <1>6 DEF TrainerSetup, StartSave, EndSave, KillTrainer, disk
<1>7. CASE TrainerLoad \/ StartupBroadcast \/ Train \/ Broadcast \/ Clean
  BY <1>1, <1>7 DEF TrainerLoad, StartupBroadcast, Train, Broadcast, Clean, Places, NoBatch
<1>8. CASE Terminate \/ UNCHANGED vars
  BY <1>3, <1>8 DEF Terminate, vars, disk, trainerVars
<1>. QED BY <1>2, <1>4, <1>5, <1>6, <1>7, <1>8 DEF Next, OrchestratorStep

\* The ranks of a step train on one batch, sent by this attempt: clean_future_steps removes what
\* earlier attempts left for the steps to come, for any number of launches and kills; and a file
\* of this attempt is not written twice.
THEOREM RanksAlwaysAgree == Spec => []RanksAgree
<1>1. Init => Types /\ Places /\ Written /\ Cleaned /\ Received
  BY TypesInit DEF Init, Written, Cleaned, Received, Own, NoBatch
<1>2. Types /\ Places /\ Written /\ Cleaned /\ Received /\ [Next]_vars
        => (Types /\ Places /\ Written /\ Cleaned /\ Received)'
  BY TypesNext, WrittenNext, CleanedNext, ReceivedNext
<1>3. Written /\ Received => RanksAgree
  BY DEF Written, Received, RanksAgree, Own
<1>. QED BY <1>1, <1>2, <1>3, PTL DEF Spec

-----------------------------------------------------------------------------
(* Sequences of tasks *)

Unique(s) == \A i, j \in 1..Len(s) : s[i] = s[j] => i = j

Prefix(s, t) == Len(s) <= Len(t) /\ \A i \in 1..Len(s) : s[i] = t[i]

\* One more task.
LEMMA Longer ==
    ASSUME NEW s \in Seq(Nat), NEW x \in Nat
    PROVE  /\ Append(s, x) \in Seq(Nat) /\ Len(Append(s, x)) = Len(s) + 1 /\ Len(s) \in Nat
           /\ \A i \in 1..Len(s) : Append(s, x)[i] = s[i]
           /\ Append(s, x)[Len(s) + 1] = x
           /\ \A i \in 1..(Len(s) + 1) : i \in 1..Len(s) \/ i = Len(s) + 1
OBVIOUS

\* A prefix stays one of what grows.
LEMMA PrefixGrows ==
    ASSUME NEW s \in Seq(Nat), NEW t \in Seq(Nat), NEW x \in Nat, Prefix(s, t)
    PROVE  Prefix(s, Append(t, x))
BY Longer DEF Prefix

\* A prefix grows by what follows it.
LEMMA PrefixFollows ==
    ASSUME NEW s \in Seq(Nat), NEW t \in Seq(Nat), Prefix(s, t), Len(s) < Len(t)
    PROVE  Prefix(Append(s, t[Len(s) + 1]), t)
<1>1. t[Len(s) + 1] \in Nat /\ Len(s) \in Nat /\ Len(t) \in Nat
  OBVIOUS
<1>. DEFINE x == t[Len(s) + 1]
<1>2. /\ Len(Append(s, x)) = Len(s) + 1
      /\ \A i \in 1..Len(s) : Append(s, x)[i] = s[i]
      /\ Append(s, x)[Len(s) + 1] = x
      /\ \A i \in 1..(Len(s) + 1) : i \in 1..Len(s) \/ i = Len(s) + 1
  BY <1>1, Longer
<1>. QED BY <1>1, <1>2 DEF Prefix

-----------------------------------------------------------------------------
(* What is shipped is shipped once *)

\* Tasks shipped are as many as steps, no two the same, and behind the data position; the batch
\* being sent is of none of them.
ShippedOnce ==
    /\ Len(shipped) = step - 1 /\ Unique(shipped)
    /\ \A i \in 1..Len(shipped) : shipped[i] <= position /\ shipped[i] \notin inflight
    /\ orch = "send" =>
        /\ sending.files < Ranks /\ sending.task <= position /\ sending.task \notin inflight
        /\ \A i \in 1..Len(shipped) : shipped[i] # sending.task
    /\ orch = "sent" => step > 1

\* The same of what a checkpoint says was shipped.
PartOnce(part, s) ==
    /\ Len(part.shipped) = s /\ Unique(part.shipped)
    /\ \A i \in 1..s : part.shipped[i] <= part.position

PartsOnce == \A s \in Step : orchPart[s] # None => PartOnce(orchPart[s], s)

\* Checkpoints are written with what has been shipped, or removed.
LEMMA PartsOnceNext ==
    ASSUME Types, Places, ShippedOnce, PartsOnce, [Next]_vars
    PROVE  PartsOnce'
<1>1. \/ \A s \in Step : orchPart'[s] = orchPart[s] \/ orchPart'[s] = None
      \/ step > 1 /\ orchPart' = [orchPart EXCEPT ![step - 1] = Progress]
      \/ orchPart' = [orchPart EXCEPT ![step - 1] = Progress] /\ orch = "sent" /\ step - 1 < MaxSteps
  BY DEF Next, Launch, Terminate, KillOrchestrator, KillTrainer, OrchestratorLoad, Sync, Watch,
         Dispatch, Ship, WriteRank, SaveOrchestrator, Finish, Fail, FinalSave, TrainerSetup,
         TrainerLoad, StartupBroadcast, Receive, Train, Broadcast, StartSave, EndSave, Clean, vars,
         disk
<1>2. PartOnce(Progress, step - 1)
  BY DEF ShippedOnce, PartOnce, Progress
<1>3. \A s \in Step : orchPart'[s] # None => orchPart'[s] = orchPart[s] \/ (s = step - 1 /\ orchPart'[s] = Progress)
  BY <1>1 DEF Types
<1>. QED BY <1>2, <1>3 DEF PartsOnce

\* Tasks are numbered as they are dispatched, and leave the tasks in flight when they are sent.
LEMMA ShippedOnceNext ==
    ASSUME Types, Places, ShippedOnce, PartsOnce, [Next]_vars
    PROVE  ShippedOnce'
<1>1. CASE \E arg \in CkptSteps \cup {Latest, None} : Launch(arg)
  BY <1>1 DEF Launch, ShippedOnce, Unique
<1>2. ASSUME UNCHANGED <<step, position, inflight, sending, shipped>>, orch' = orch \/ orch' \notin {"send", "sent"}
      PROVE  ShippedOnce'
  BY <1>2 DEF ShippedOnce
<1>3. CASE Terminate \/ KillOrchestrator \/ Sync \/ Watch \/ SaveOrchestrator \/ Finish \/ Fail
           \/ UNCHANGED vars
  BY <1>2, <1>3 DEF Terminate, KillOrchestrator, Sync, Watch, SaveOrchestrator, Finish, Fail, vars,
     orchVars, Ended
<1>4. CASE TrainerStep
  BY <1>2, <1>4, TrainerFrame DEF orchVars
<1>5. CASE OrchestratorLoad
  <2>. DEFINE s == Resolved(resume)
  <2>1. CASE s = 0 \/ orchPart[s] = None
    BY <1>2, <1>5, <2>1 DEF OrchestratorLoad
  <2>2. CASE s # 0 /\ orchPart[s] # None
    <3>1. s \in Version
      BY ResolvedTyped DEF Types
    <3>2. s \in Step /\ orchPart[s] \in OrchestratorPart /\ PartOnce(orchPart[s], s)
      BY <2>2, <3>1 DEF Version, Step, Types, PartsOnce
    <3>3. /\ step' = s + 1 /\ position' = orchPart[s].position /\ shipped' = orchPart[s].shipped
          /\ inflight' = {} /\ orch' = "sync"
      BY <1>5, <2>2 DEF OrchestratorLoad, Places
    <3>. HIDE DEF s
    <3>. QED BY <3>2, <3>3 DEF ShippedOnce, PartOnce, Step
  <2>. QED BY <2>1, <2>2
<1>6. CASE Dispatch
  <2>1. /\ position' = position + 1 /\ inflight' = inflight \cup {position + 1} /\ position \in Nat
        /\ UNCHANGED <<orch, step, sending, shipped>> /\ shipped \in Seq(Nat)
        /\ orch = "send" => sending.task \in Nat
    BY <1>6 DEF Dispatch, Types
  <2>2. \A i \in 1..Len(shipped) : shipped[i] \in Nat
    BY <2>1
  <2>. QED BY <2>1, <2>2 DEF ShippedOnce
<1>7. ASSUME NEW t \in inflight, Ship(t) PROVE ShippedOnce'
  <2>1. /\ orch' = "send" /\ sending' = [task |-> t, files |-> 0] /\ inflight' = inflight \ {t}
        /\ UNCHANGED <<step, position, shipped>>
    BY <1>7 DEF Ship
  <2>2. t \in 1..position
    BY DEF Types
  <2>3. 0 < Ranks
    BY ResumeAssumption
  <2>. QED BY <2>1, <2>2, <2>3 DEF ShippedOnce
<1>8. CASE WriteRank
  <2>. DEFINE f == sending.files + 1
  <2>1. /\ sending' = [sending EXCEPT !.files = f] /\ UNCHANGED <<position, inflight>> /\ orch = "send"
        /\ \/ f = Ranks /\ orch' = "sent" /\ step' = step + 1 /\ shipped' = Append(shipped, sending.task)
           \/ f # Ranks /\ UNCHANGED <<orch, step, shipped>>
    BY <1>8 DEF WriteRank
  <2>2. /\ sending \in [task : Nat, files : Nat] /\ Ranks \in Nat /\ sending.files < Ranks
        /\ shipped \in Seq(Nat) /\ step \in Int
    BY <2>1, ResumeAssumption DEF Types, ShippedOnce
  <2>3. sending'.task = sending.task /\ sending'.files = f /\ (f # Ranks => f < Ranks)
    BY <2>1, <2>2
  <2>4. CASE f # Ranks
    BY <2>1, <2>3, <2>4 DEF ShippedOnce
  <2>5. CASE f = Ranks
    <3>1. orch' = "sent" /\ step' = step + 1 /\ shipped' = Append(shipped, sending.task)
      BY <2>1, <2>5
    <3>2. /\ Len(shipped') = Len(shipped) + 1
          /\ \A i \in 1..Len(shipped) : shipped'[i] = shipped[i]
          /\ shipped'[Len(shipped) + 1] = sending.task
          /\ \A i \in 1..(Len(shipped) + 1) : i \in 1..Len(shipped) \/ i = Len(shipped) + 1
      BY <2>2, <3>1, Longer
    <3>3. Unique(shipped')
      BY <2>1, <3>2 DEF ShippedOnce, Unique
    <3>4. \A i \in 1..Len(shipped') : shipped'[i] <= position /\ shipped'[i] \notin inflight
      BY <2>1, <3>2 DEF ShippedOnce
    <3>5. Len(shipped') = step' - 1
      BY <2>2, <3>1, <3>2 DEF ShippedOnce
    <3>6. step \in 1..(MaxSteps + 1)
      BY DEF Types
    <3>7. step' > 1
      BY <3>1, <3>6
    <3>. QED BY <2>1, <3>1, <3>3, <3>4, <3>5, <3>7 DEF ShippedOnce
  <2>. QED BY <2>4, <2>5
<1>. QED BY <1>1, <1>3, <1>4, <1>5, <1>6, <1>7, <1>8 DEF Next, TrainerStep

-----------------------------------------------------------------------------
(* What is received is what was shipped *)

\* The orchestrator has loaded its part and runs.
Active == {"sync", "run", "send", "sent", "done"}

\* The files of this attempt are those of the batches shipped, step by step.
Sent ==
    orch \in Active => \A s \in Step, r \in Rank : Own(s, r) =>
        /\ s < step => rollouts[s][r].task = shipped[s]
        /\ orch = "done" => s < step

\* A file has the task of the batch being sent, which is appended with the last one.
LEMMA SentNext ==
    ASSUME Types, Places, Written, ShippedOnce, Sent, [Next]_vars
    PROVE  Sent'
<1>1. ASSUME UNCHANGED <<attempt, rollouts, step, shipped>>, orch' \in Active => orch \in Active,
             orch' = "done" => orch \in {"run", "done"}
      PROVE  Sent'
  <2>1. orch = "run" => \A s \in Step, r \in Rank : Own(s, r) => s < step
    BY DEF Written
  <2>. QED BY <1>1, <2>1 DEF Sent, Own
<1>2. CASE \E arg \in CkptSteps \cup {Latest, None} : Launch(arg)
  BY <1>2 DEF Launch, Sent, Active
<1>3. CASE OrchestratorLoad
  <2>1. orch = "setup" /\ UNCHANGED <<attempt, rollouts>>
    BY <1>3 DEF OrchestratorLoad, disk
  <2>. QED BY <2>1 DEF Written, Sent, Own
<1>4. CASE \/ Terminate \/ KillOrchestrator \/ Sync \/ Watch \/ Dispatch \/ SaveOrchestrator \/ Finish
           \/ Fail \/ (\E t \in inflight : Ship(t)) \/ UNCHANGED vars
  BY <1>1, <1>4 DEF Terminate, KillOrchestrator, Sync, Watch, Dispatch, SaveOrchestrator, Finish, Fail,
     Ship, vars, disk, orchVars, Active, Ended
<1>5. CASE TrainerStep
  BY <1>1, <1>5, TrainerFrame DEF orchVars, Active
<1>6. CASE WriteRank
  <2>. DEFINE f == sending.files + 1
              file == [attempt |-> attempt, task |-> sending.task]
  <2>1. /\ orch = "send" /\ attempt' = attempt /\ orch' \in {"send", "sent"}
        /\ rollouts' = [rollouts EXCEPT ![step][f] = file]
        /\ \/ step' = step + 1 /\ shipped' = Append(shipped, sending.task)
           \/ step' = step /\ shipped' = shipped
    BY <1>6 DEF WriteRank
  <2>2. /\ step \in Step /\ shipped \in Seq(Nat) /\ Len(shipped) = step - 1 /\ sending.task \in Nat
    BY <2>1 DEF Types, Places, ShippedOnce
  <2>3. \A s \in Step : s < step => shipped'[s] = shipped[s]
    <3>1. \A s \in Step : s < step => s \in 1..Len(shipped)
      BY <2>2 DEF Step
    <3>2. shipped' = shipped \/ \A i \in 1..Len(shipped) : shipped'[i] = shipped[i]
      BY <2>1, <2>2, Longer
    <3>. QED BY <3>1, <3>2
  <2>4. step' = step + 1 => shipped'[step] = sending.task
    <3>1. Append(shipped, sending.task)[Len(shipped) + 1] = sending.task
      BY <2>2, Longer
    <3>2. Len(shipped) + 1 = step /\ step + 1 # step
      BY <2>2 DEF Step
    <3>. QED BY <2>1, <3>1, <3>2
  <2>5. \A s \in Step, r \in Rank :
            rollouts'[s][r] = IF s = step /\ r = f THEN file ELSE rollouts[s][r]
    <3>. HIDE DEF file, f
    <3>. QED BY <2>1 DEF Types
  <2>6. ASSUME NEW s \in Step, NEW r \in Rank, Own(s, r)', s < step'
        PROVE  rollouts'[s][r].task = shipped'[s]
    <3>1. CASE s < step
      <4>1. s # step
        BY <2>2, <3>1 DEF Step
      <4>2. rollouts'[s][r] = rollouts[s][r] /\ Own(s, r)
        BY <2>1, <2>5, <2>6, <4>1 DEF Own
      <4>. QED BY <2>1, <2>3, <3>1, <4>2 DEF Sent, Active
    <3>2. CASE ~(s < step)
      <4>1. s = step /\ step' = step + 1
        BY <2>1, <2>2, <2>6, <3>2 DEF Step
      <4>2. CASE r = f
        BY <2>4, <2>5, <4>1, <4>2
      <4>3. CASE r # f
        <5>1. rollouts'[s][r] = rollouts[s][r] /\ Own(s, r)
          BY <2>1, <2>5, <2>6, <4>3 DEF Own
        <5>2. rollouts[s][r] = [attempt |-> attempt, task |-> sending.task]
          BY <2>1, <3>2, <5>1 DEF Written
        <5>. QED BY <2>4, <4>1, <5>1, <5>2
      <4>. QED BY <4>2, <4>3
    <3>. QED BY <3>1, <3>2
  <2>. QED BY <2>1, <2>6 DEF Sent
<1>. QED BY <1>2, <1>3, <1>4, <1>5, <1>6 DEF Next, TrainerStep

\* When every rank has a batch, the orchestrator has shipped it, and it is that of the step.
LEMMA AllReceived ==
    ASSUME Types, Places, Written, Sent, Received, ShippedOnce, \A r \in Rank : got[r] # None
    PROVE  /\ orch # "setup" /\ tstep \in Step /\ got[1].task \in Nat
           /\ orch \in Active => tstep < step /\ got[1].task = shipped[tstep]
<1>1. 1 \in Rank /\ Ranks \in Rank
  BY ResumeAssumption DEF Rank
<1>2. /\ tstep \in Step /\ Own(tstep, 1) /\ Own(tstep, Ranks) /\ got[1] = rollouts[tstep][1]
      /\ got[1].task \in Nat
  BY <1>1 DEF Received, Types, Batch
<1>3. orch # "setup"
  BY <1>1, <1>2 DEF Written
<1>4. orch \in Active => tstep < step
  <2>1. orch = "done" => tstep < step
    BY <1>1, <1>2 DEF Sent, Active
  <2>2. orch = "send" => sending.files < Ranks /\ sending.files \in Nat /\ Ranks \in Nat
    BY ResumeAssumption DEF ShippedOnce, Types
  <2>3. orch \in {"sync", "run", "send", "sent"} => tstep < step
    BY <1>1, <1>2, <2>2 DEF Written
  <2>. QED BY <2>1, <2>3 DEF Active
<1>. QED BY <1>1, <1>2, <1>3, <1>4 DEF Sent

-----------------------------------------------------------------------------
(* What has been trained on is as many tasks as steps *)

Trained ==
    /\ \A s \in Step : trainerPart[s] # None => Len(trainerPart[s].model.tasks) = s
    /\ trainer \in {"setup", "load"} => model = NoModel
    /\ trainer \in {"start", "wait"} => Len(model.tasks) = tstep - 1
    /\ trainer \in {"publish", "save", "saving", "clean"} => Len(model.tasks) = tstep

\* A step appends its batch; a checkpoint has the model of its step.
LEMMA TrainedNext ==
    ASSUME Types, Places, Written, Sent, Received, ShippedOnce, Trained, [Next]_vars
    PROVE  Trained'
<1>1. CASE \E arg \in CkptSteps \cup {Latest, None} : Launch(arg)
  BY <1>1 DEF Launch, Trained
<1>2. ASSUME UNCHANGED <<trainerPart, tstep, model>>,
             \/ trainer' = trainer \/ trainer' \in {"off", "dead", "done"}
             \/ (trainer = "setup" /\ trainer' = "load")
             \/ (trainer = "start" /\ trainer' = "wait")
      PROVE  Trained'
  BY <1>2 DEF Trained
<1>3. CASE \/ Terminate \/ KillTrainer \/ TrainerSetup \/ StartupBroadcast
           \/ (\E r \in Rank : Receive(r)) \/ UNCHANGED vars
  BY <1>2, <1>3 DEF Terminate, KillTrainer, TrainerSetup, StartupBroadcast, Receive, vars, disk,
     trainerVars
<1>8. CASE OrchestratorStep
  BY <1>2, <1>8, OrchestratorFrame DEF trainerVars
<1>4. CASE TrainerLoad
  <2>1. trainer = "load" /\ tstep = 1 /\ model = NoModel /\ trainerPart' = trainerPart
    BY <1>4 DEF TrainerLoad, Places, Trained, disk
  <2>2. CASE from = 0
    BY <1>4, <2>1, <2>2 DEF TrainerLoad, Trained, NoModel
  <2>3. CASE from # 0 /\ Loadable(from)
    <3>1. from \in Step /\ trainerPart[from] # None
      BY <2>3 DEF Loadable, Types, Version, Step
    <3>2. /\ trainerPart[from].step = from /\ Len(trainerPart[from].model.tasks) = from
          /\ trainerPart[from].model \in Model
      BY <3>1 DEF Types, Trained, TrainerPart
    <3>3. /\ trainer' = "start" /\ tstep' = from + 1
          /\ model' = [trainerPart[from].model EXCEPT !.sound = IsSound(from)]
      BY <1>4, <2>3, <3>2 DEF TrainerLoad
    <3>4. model'.tasks = trainerPart[from].model.tasks
      BY <3>2, <3>3 DEF Model
    <3>. QED BY <2>1, <3>1, <3>2, <3>3, <3>4 DEF Trained, Step
  <2>4. CASE from # 0 /\ ~Loadable(from)
    BY <1>4, <2>1, <2>4 DEF TrainerLoad, Trained
  <2>. QED BY <2>2, <2>3, <2>4
<1>5. CASE Train
  <2>1. /\ trainer = "wait" /\ trainer' = "publish" /\ UNCHANGED <<trainerPart, tstep>>
        /\ model' = [model EXCEPT !.tasks = Append(@, got[1].task)]
        /\ model \in Model
    BY <1>5 DEF Train, disk, Types
  <2>2. got[1].task \in Nat
    BY <1>5, AllReceived DEF Train
  <2>3. Len(model'.tasks) = Len(model.tasks) + 1
    BY <2>1, <2>2, Longer DEF Model
  <2>4. tstep \in Int
    BY DEF Types
  <2>. QED BY <2>1, <2>3, <2>4 DEF Trained
<1>6. CASE StartSave \/ EndSave
  <2>1. /\ trainer \in {"save", "saving"} /\ trainer' \in {"saving", "clean"} /\ UNCHANGED <<tstep, model>>
        /\ \E whole \in BOOLEAN : trainerPart' = [trainerPart EXCEPT ![tstep] = Part(whole)]
    BY <1>6 DEF StartSave, EndSave
  <2>2. \A whole \in BOOLEAN : Part(whole).model = model
    BY DEF Part
  <2>3. \A s \in Step : trainerPart'[s] # None =>
            trainerPart'[s] = trainerPart[s] \/ (s = tstep /\ trainerPart'[s].model = model)
    BY <2>1, <2>2 DEF Types
  <2>. QED BY <2>1, <2>3 DEF Trained
<1>7. CASE Broadcast \/ Clean
  <2>1. /\ trainer \in {"publish", "clean"} /\ model' = model /\ tstep \in Nat
        /\ \/ trainer' = "save" /\ tstep' = tstep
           \/ trainer' = "done" \/ (trainer' = "wait" /\ tstep' = tstep + 1)
    BY <1>7 DEF Broadcast, Clean, NextStep, Types
  <2>2. \A s \in Step : trainerPart'[s] = trainerPart[s] \/ trainerPart'[s] = None
    BY <1>7 DEF Broadcast, Clean, Types
  <2>. QED BY <2>1, <2>2 DEF Trained
<1>. QED BY <1>1, <1>3, <1>4, <1>5, <1>6, <1>7, <1>8 DEF Next, OrchestratorStep

-----------------------------------------------------------------------------
(* Both processes resume from one past *)

\* Until the orchestrator has loaded its part no checkpoint is written, so that it will load
\* that of the step the trainer has resumed from; a model to be trusted is of that part's past.
SameStart ==
    orch = "setup" =>
        /\ trainer \notin {"publish", "save", "saving", "clean"}
        /\ trainer = "load" => from = Resolved(resume)
        /\ trainer \in {"start", "wait"} /\ model.sound =>
            IF Resolved(resume) = 0 THEN model.tasks = <<>>
            ELSE orchPart[Resolved(resume)] # None
                    /\ orchPart[Resolved(resume)].shipped = model.tasks

\* The step whose part the trainer is about to load.
Loading(s) == (trainer = "setup" /\ s = Resolved(resume)) \/ (trainer = "load" /\ s = from)

\* Once it has, what the trainer loads or has been trained on is a prefix of what is shipped.
SamePast ==
    orch \in Active =>
        /\ \A s \in Step : Loading(s) /\ orchPart[s] # None => Prefix(orchPart[s].shipped, shipped)
        /\ trainer \in {"start", "wait", "publish", "save", "saving", "clean"} /\ model.sound =>
            Prefix(model.tasks, shipped)

\* While both parts of all checkpoints stay as they are, so does the step resumed from.
LEMMA SameResolved ==
    ASSUME UNCHANGED <<orchPart, trainerPart, resume>>
    PROVE  Resolved(resume)' = Resolved(resume)
BY DEF Resolved, CkptSteps

\* A model is loaded as it was saved, and trusted only if the orchestrator's part is of its past.
LEMMA LoadedModel ==
    ASSUME Types, Trained, TrainerLoad, trainer' = "start", model'.sound
    PROVE  IF from = 0 THEN model'.tasks = <<>>
           ELSE from \in Step /\ orchPart[from] # None /\ orchPart[from].shipped = model'.tasks
<1>1. CASE from = 0
  BY <1>1 DEF TrainerLoad, Trained, NoModel
<1>2. CASE from # 0
  <2>1. Loadable(from)
    BY <1>2 DEF TrainerLoad
  <2>2. from \in Step /\ trainerPart[from] # None
    BY <1>2, <2>1 DEF Loadable, Types, Version, Step
  <2>3. trainerPart[from].model \in Model
    BY <2>2 DEF Types, TrainerPart
  <2>4. model' = [trainerPart[from].model EXCEPT !.sound = IsSound(from)]
    BY <1>2, <2>1 DEF TrainerLoad
  <2>5. model'.sound = IsSound(from) /\ model'.tasks = trainerPart[from].model.tasks
    BY <2>3, <2>4 DEF Model
  <2>. QED BY <1>2, <2>2, <2>5 DEF IsSound
<1>. QED BY <1>1, <1>2

\* The orchestrator's setup.
LEMMA SameStartNext ==
    ASSUME Types, Places, Written, Sent, Received, ShippedOnce, Trained, SameStart, [Next]_vars
    PROVE  SameStart'
<1>1. CASE \E arg \in CkptSteps \cup {Latest, None} : Launch(arg)
  BY <1>1 DEF Launch, SameStart
<1>2. ASSUME orch' # "setup" PROVE SameStart'
  BY <1>2 DEF SameStart
<1>3. ASSUME UNCHANGED <<orchPart, trainerPart, resume, orch, from, model>>,
             trainer' = trainer \/ trainer' \in {"off", "dead"} \/ (trainer = "start" /\ trainer' = "wait")
      PROVE  SameStart'
  BY <1>3, SameResolved DEF SameStart
<1>4. CASE OrchestratorStep
  <2>1. orch' # "setup" \/ (orch = "setup" /\ UNCHANGED vars)
    BY <1>4 DEF OrchestratorStep, OrchestratorLoad, Sync, Watch, Dispatch, Ship, WriteRank,
       SaveOrchestrator, Finish, Fail, KillOrchestrator
  <2>. QED BY <1>2, <1>3, <2>1 DEF vars, disk, orchVars, trainerVars
<1>5. CASE Terminate \/ KillTrainer \/ StartupBroadcast \/ (\E r \in Rank : Receive(r)) \/ UNCHANGED vars
  BY <1>2, <1>3, <1>5 DEF Terminate, KillTrainer, StartupBroadcast, Receive, vars, disk, orchVars,
     trainerVars
<1>6. CASE TrainerSetup
  <2>1. trainer' = "load" /\ from' = Resolved(resume) /\ UNCHANGED <<orchPart, trainerPart, resume>>
    BY <1>6 DEF TrainerSetup, disk
  <2>. QED BY <2>1, SameResolved DEF SameStart
<1>7. CASE TrainerLoad
  <2>1. trainer = "load" /\ trainer' \in {"start", "dead"} /\ UNCHANGED <<orchPart, trainerPart, resume, orch, from>>
    BY <1>7 DEF TrainerLoad, disk, orchVars
  <2>2. orch = "setup" => from = Resolved(resume)
    BY <2>1 DEF SameStart
  <2>. QED BY <1>7, <2>1, <2>2, LoadedModel, SameResolved DEF SameStart
<1>8. CASE Train
  <2>1. orch # "setup" /\ orch' = orch
    BY <1>8, AllReceived DEF Train, orchVars
  <2>. QED BY <1>2, <2>1
<1>9. CASE Broadcast \/ StartSave \/ EndSave \/ Clean
  <2>1. trainer \in {"publish", "save", "saving", "clean"} /\ orch' = orch
    BY <1>9 DEF Broadcast, StartSave, EndSave, Clean, orchVars
  <2>. QED BY <1>2, <2>1 DEF SameStart
<1>. QED BY <1>1, <1>4, <1>5, <1>6, <1>7, <1>8, <1>9 DEF Next, OrchestratorStep

\* The checkpoint that the orchestrator writes is one of what it has shipped, and only it can
\* become the step to resume from.
LEMMA LoadingSaved ==
    ASSUME Types, trainerPart' = trainerPart, UNCHANGED <<resume, trainer, from>>, NEW u \in Step,
           orchPart' = [orchPart EXCEPT ![u] = Progress], NEW s \in Step, Loading(s)', s # u,
           orchPart'[s] # None
    PROVE  Loading(s) /\ orchPart'[s] = orchPart[s]
<1>1. orchPart'[s] = orchPart[s]
  BY DEF Types
<1>2. CASE trainer # "setup"
  BY <1>1, <1>2 DEF Loading
<1>3. CASE trainer = "setup"
  <2>1. s = Resolved(resume)'
    BY <1>3 DEF Loading
  <2>2. CASE resume = Latest /\ resume # None
    <3>1. s \in CkptSteps /\ CkptSteps \subseteq Version /\ CkptSteps' \subseteq Version
      BY <1>1 DEF CkptSteps, Version, Step
    <3>2. CkptSteps \subseteq CkptSteps'
      <4>1. Progress \in OrchestratorPart
        BY DEF Types, Progress, OrchestratorPart
      <4>2. Progress # None
        BY <4>1, ResumeAssumption
      <4>. QED BY <4>2 DEF CkptSteps, Types
    <3>3. CkptSteps' # {} /\ CkptSteps # {}
      BY <3>1, <3>2
    <3>4. s = Greatest(CkptSteps')
      BY <2>1, <2>2, <3>3 DEF Resolved
    <3>5. \A t \in CkptSteps : t <= s
      BY <3>1, <3>2, <3>3, <3>4, GreatestIs
    <3>6. Greatest(CkptSteps) \in CkptSteps /\ s <= Greatest(CkptSteps)
      BY <3>1, <3>3, GreatestIs
    <3>7. s = Greatest(CkptSteps)
      <4>. DEFINE g == Greatest(CkptSteps)
      <4>1. g \in Version /\ g <= s /\ s <= g
        BY <3>1, <3>5, <3>6
      <4>2. s = g
        <5>. HIDE DEF g
        <5>. QED BY <4>1 DEF Version, Step
      <4>. QED BY <4>2
    <3>. QED BY <1>1, <1>3, <2>2, <3>3, <3>7 DEF Loading, Resolved
  <2>3. CASE ~(resume = Latest /\ resume # None)
    BY <1>1, <1>3, <2>1, <2>3 DEF Loading, Resolved
  <2>. QED BY <2>2, <2>3
<1>. QED BY <1>2, <1>3

\* What is shipped only grows, and what is trained on follows it.
LEMMA SamePastNext ==
    ASSUME Types, Places, Written, Sent, Received, ShippedOnce, Trained, SameStart, SamePast,
           [Next]_vars
    PROVE  SamePast'
<1>0. \A s \in Step : orchPart[s] # None => orchPart[s].shipped \in Seq(Nat)
  BY DEF Types, OrchestratorPart
<1>1. CASE \E arg \in CkptSteps \cup {Latest, None} : Launch(arg)
  BY <1>1 DEF Launch, SamePast, Active
<1>2. ASSUME UNCHANGED <<orchPart, trainerPart, resume, shipped, from>>,
             orch' \in Active => orch \in Active,
             \/ UNCHANGED <<trainer, model>>
             \/ trainer' \in {"off", "dead"}
             \/ trainer = "start" /\ trainer' = "wait" /\ model' = model
      PROVE  SamePast'
  BY <1>2, SameResolved DEF SamePast, Loading
<1>3. CASE \/ Terminate \/ KillOrchestrator \/ Sync \/ Watch \/ Dispatch
           \/ (\E t \in inflight : Ship(t)) \/ KillTrainer \/ StartupBroadcast
           \/ (\E r \in Rank : Receive(r)) \/ UNCHANGED vars
  BY <1>2, <1>3 DEF Terminate, KillOrchestrator, Sync, Watch, Dispatch, Ship, KillTrainer,
     StartupBroadcast, Receive, vars, disk, orchVars, trainerVars, Active, Ended
<1>4. CASE OrchestratorLoad
  <2>. DEFINE R == Resolved(resume)
  <2>1. /\ orch = "setup" /\ UNCHANGED <<orchPart, trainerPart, resume, trainer, from, model>>
        /\ R \in Version /\ R' = R
    BY <1>4, ResolvedTyped, SameResolved DEF OrchestratorLoad, disk, trainerVars, Types
  <2>2. CASE R = 0
    <3>1. shipped' = shipped
      BY <1>4, <2>2 DEF OrchestratorLoad
    <3>2. \A s \in Step : ~Loading(s)'
      BY <2>1, <2>2 DEF Loading, SameStart, Step
    <3>3. trainer \in {"start", "wait", "publish", "save", "saving", "clean"} /\ model.sound => model.tasks = <<>>
      BY <2>1, <2>2 DEF SameStart
    <3>4. Prefix(<<>>, shipped)
      BY DEF Prefix, Types
    <3>. HIDE DEF R
    <3>. QED BY <2>1, <3>1, <3>2, <3>3, <3>4 DEF SamePast
  <2>3. CASE R # 0 /\ orchPart[R] # None
    <3>1. R \in Step /\ shipped' = orchPart[R].shipped
      BY <1>4, <2>1, <2>3 DEF OrchestratorLoad, Version, Step
    <3>2. \A s \in Step : Loading(s)' => s = R
      BY <2>1 DEF Loading, SameStart
    <3>3. trainer \in {"start", "wait", "publish", "save", "saving", "clean"} /\ model.sound => model.tasks = shipped'
      BY <2>1, <2>3, <3>1 DEF SameStart
    <3>4. Prefix(shipped', shipped')
      BY <1>0, <2>3, <3>1 DEF Prefix
    <3>. HIDE DEF R
    <3>. QED BY <2>1, <3>1, <3>2, <3>3, <3>4 DEF SamePast
  <2>4. CASE R # 0 /\ orchPart[R] = None
    BY <1>4, <2>4 DEF OrchestratorLoad, SamePast, Active
  <2>. QED BY <2>2, <2>3, <2>4
<1>5. CASE WriteRank
  <2>1. /\ UNCHANGED <<orchPart, trainerPart, resume, trainer, from, model>> /\ orch = "send"
        /\ shipped' = shipped \/ shipped' = Append(shipped, sending.task)
    BY <1>5 DEF WriteRank, trainerVars
  <2>2. \A s \in Step : Loading(s)' <=> Loading(s)
    BY <2>1, SameResolved DEF Loading
  <2>3. shipped \in Seq(Nat) /\ sending.task \in Nat /\ model.tasks \in Seq(Nat)
    BY DEF Types, Model
  <2>4. \A p \in Seq(Nat) : Prefix(p, shipped) => Prefix(p, shipped')
    BY <2>1, <2>3, PrefixGrows
  <2>. QED BY <1>0, <2>1, <2>2, <2>3, <2>4 DEF SamePast, Active
<1>6. CASE SaveOrchestrator \/ Finish
  <2>1. /\ UNCHANGED <<trainerPart, resume, trainer, from, model, shipped>> /\ orch \in Active
        /\ \/ orchPart' = orchPart
           \/ step - 1 \in Step /\ orchPart' = [orchPart EXCEPT ![step - 1] = Progress]
    <3>1. step \in 1..(MaxSteps + 1) /\ MaxSteps \in Nat
      BY ResumeAssumption DEF Types
    <3>2. step > 1 => step - 1 \in Step
      BY <3>1 DEF Step
    <3>3. CASE SaveOrchestrator
      <4>1. step > 1
        BY <3>3 DEF SaveOrchestrator, ShippedOnce
      <4>. QED BY <3>2, <3>3, <4>1 DEF SaveOrchestrator, trainerVars, Active
    <3>4. CASE Finish
      BY <3>2, <3>4 DEF Finish, FinalSave, trainerVars, Active
    <3>. QED BY <1>6, <3>3, <3>4
  <2>2. CASE orchPart' = orchPart
    BY <1>2, <2>1, <2>2
  <2>3. CASE step - 1 \in Step /\ orchPart' = [orchPart EXCEPT ![step - 1] = Progress]
    <3>1. orchPart'[step - 1].shipped = shipped
      BY <2>3 DEF Types, Progress
    <3>2. Prefix(shipped, shipped)
      BY DEF Prefix, Types
    <3>3. ASSUME NEW s \in Step, Loading(s)', orchPart'[s] # None
          PROVE  Prefix(orchPart'[s].shipped, shipped)
      <4>1. CASE s = step - 1
        BY <3>1, <3>2, <4>1
      <4>2. CASE s # step - 1
        <5>1. Loading(s) /\ orchPart'[s] = orchPart[s]
          BY <2>1, <2>3, <3>3, <4>2, LoadingSaved
        <5>. QED BY <2>1, <3>3, <5>1 DEF SamePast
      <4>. QED BY <4>1, <4>2
    <3>. QED BY <2>1, <3>3 DEF SamePast
  <2>. QED BY <2>1, <2>2, <2>3
<1>7. CASE Fail
  BY <1>7 DEF Fail, SamePast, Active
<1>8. CASE TrainerSetup
  <2>1. /\ trainer = "setup" /\ trainer' = "load" /\ from' = Resolved(resume)
        /\ UNCHANGED <<orchPart, orch, shipped>>
    BY <1>8 DEF TrainerSetup, disk, orchVars
  <2>2. \A s \in Step : Loading(s)' => Loading(s)
    BY <2>1 DEF Loading
  <2>. QED BY <2>1, <2>2 DEF SamePast
<1>9. CASE TrainerLoad
  <2>1. /\ trainer = "load" /\ trainer' \in {"start", "dead"}
        /\ UNCHANGED <<orchPart, orch, shipped, from>>
    BY <1>9 DEF TrainerLoad, disk, orchVars
  <2>2. ASSUME trainer' = "start", model'.sound, orch \in Active PROVE Prefix(model'.tasks, shipped)
    <3>1. CASE from = 0
      <4>1. model'.tasks = <<>>
        BY <1>9, <2>2, <3>1, LoadedModel
      <4>. QED BY <4>1 DEF Prefix, Types
    <3>2. CASE from # 0
      <4>1. from \in Step /\ orchPart[from] # None /\ orchPart[from].shipped = model'.tasks
        BY <1>9, <2>2, <3>2, LoadedModel
      <4>2. Loading(from)
        BY <2>1 DEF Loading
      <4>. QED BY <2>2, <4>1, <4>2 DEF SamePast
    <3>. QED BY <3>1, <3>2
  <2>. QED BY <2>1, <2>2 DEF SamePast, Loading
<1>10. CASE Train
  <2>1. /\ trainer = "wait" /\ trainer' = "publish" /\ UNCHANGED <<orchPart, orch, shipped>>
        /\ model' = [model EXCEPT !.tasks = Append(@, got[1].task)]
        /\ model \in Model /\ Len(model.tasks) = tstep - 1
    BY <1>10 DEF Train, disk, orchVars, Types, Trained
  <2>2. ASSUME orch \in Active, model.sound
        PROVE  Prefix(Append(model.tasks, got[1].task), shipped)
    <3>1. tstep \in Step /\ tstep < step /\ got[1].task = shipped[tstep]
      BY <1>10, <2>2, AllReceived DEF Train
    <3>2. Prefix(model.tasks, shipped)
      BY <2>1, <2>2 DEF SamePast
    <3>3. Len(model.tasks) < Len(shipped) /\ Len(model.tasks) + 1 = tstep
      BY <2>1, <3>1 DEF ShippedOnce, Types, Step
    <3>4. model.tasks \in Seq(Nat) /\ shipped \in Seq(Nat)
      BY DEF Types, Model
    <3>. QED BY <3>1, <3>2, <3>3, <3>4, PrefixFollows
  <2>3. model'.sound = model.sound /\ model'.tasks = Append(model.tasks, got[1].task)
    BY <2>1 DEF Model
  <2>. QED BY <2>1, <2>2, <2>3 DEF SamePast, Loading
<1>11. CASE Broadcast \/ StartSave \/ EndSave \/ Clean
  <2>1. /\ UNCHANGED <<orch, shipped, model>> /\ trainer \in {"publish", "save", "saving", "clean"}
        /\ trainer' \notin {"setup", "load"}
    BY <1>11 DEF Broadcast, StartSave, EndSave, Clean, NextStep, orchVars
  <2>. QED BY <2>1 DEF SamePast, Loading
<1>. QED BY <1>1, <1>3, <1>4, <1>5, <1>6, <1>7, <1>8, <1>9, <1>10, <1>11 DEF Next

-----------------------------------------------------------------------------
(* The history of the model *)

History ==
    /\ Types /\ Places /\ Written /\ Cleaned /\ Received
    /\ ShippedOnce /\ PartsOnce /\ Sent /\ Trained /\ SameStart /\ SamePast

\* It holds of the empty run directory.
LEMMA HistoryInit == Init => History
<1>. SUFFICES ASSUME Init PROVE History
  OBVIOUS
<1>1. Types /\ Places
  BY TypesInit
<1>2. Written /\ Cleaned /\ Received
  BY DEF Init, Written, Cleaned, Received, Own, NoBatch
<1>3. ShippedOnce /\ PartsOnce /\ Sent
  BY DEF Init, ShippedOnce, Unique, PartsOnce, Sent, Active
<1>4. Trained /\ SameStart /\ SamePast
  BY DEF Init, Trained, SameStart, SamePast, Active
<1>. QED BY <1>1, <1>2, <1>3, <1>4 DEF History

\* And is kept by every step.
LEMMA HistoryNext == History /\ [Next]_vars => History'
BY TypesNext, WrittenNext, CleanedNext, ReceivedNext, PartsOnceNext, ShippedOnceNext, SentNext,
   TrainedNext, SameStartNext, SamePastNext DEF History

\* Over all launches, whatever is killed when, a model to be trusted has been trained on what was
\* shipped, from the first step on, in order, without a gap, and on no task twice.
THEOREM HistoryKept == Spec => []SameHistory
<1>1. History => SameHistory
  <2>. SUFFICES ASSUME History,
                       trainer \in {"wait", "publish", "save", "saving", "clean"},
                       orch \in {"sync", "run", "send", "sent", "done"}, model.sound
                PROVE  /\ IsPrefix(model.tasks, shipped)
                       /\ \A i, j \in DOMAIN model.tasks : model.tasks[i] = model.tasks[j] => i = j
                       /\ Len(model.tasks) = IF trainer = "wait" THEN tstep - 1 ELSE tstep
    BY DEF SameHistory
  <2>1. Prefix(model.tasks, shipped) /\ Unique(shipped)
    BY DEF History, SamePast, Active, ShippedOnce
  <2>2. model.tasks \in Seq(Nat) /\ shipped \in Seq(Nat)
    BY DEF History, Types, Model
  <2>3. IsPrefix(model.tasks, shipped)
    <3>1. Len(model.tasks) <= Len(shipped) /\ \A i \in 1..Len(model.tasks) : model.tasks[i] = shipped[i]
      BY <2>1 DEF Prefix
    <3>2. SubSeq(model.tasks, 1, Len(model.tasks)) = SubSeq(shipped, 1, Len(model.tasks))
      BY <2>2, <3>1
    <3>. QED BY <3>1, <3>2 DEF IsPrefix
  <2>4. \A i, j \in DOMAIN model.tasks : model.tasks[i] = model.tasks[j] => i = j
    <3>1. DOMAIN model.tasks = 1..Len(model.tasks) /\ \A i \in 1..Len(model.tasks) : i \in 1..Len(shipped)
      BY <2>1, <2>2 DEF Prefix
    <3>. QED BY <2>1, <3>1 DEF Prefix, Unique
  <2>5. Len(model.tasks) = IF trainer = "wait" THEN tstep - 1 ELSE tstep
    BY DEF History, Trained
  <2>. QED BY <2>3, <2>4, <2>5
<1>. QED BY <1>1, HistoryInit, HistoryNext, PTL DEF Spec

-----------------------------------------------------------------------------
(* Which checkpoints have both parts *)

\* The places at which the trainer has its checkpoint.
Loaded == {"start", "wait", "publish", "save", "saving", "clean"}

\* A step that the trainer has saved and removed.
Gone(p) == p \notin ckptSteps /\ p < tstep

\* The orchestrator has saved its part of a step of the interval, unless it has been removed.
Saved(p) == p % Interval = 0 => orchPart[p] # None \/ Gone(p)

\* Both processes start from one step: nothing is written before both have loaded.
Begins ==
    /\ attempt = 0 => CkptSteps = {} /\ orch = "off" /\ trainer = "off"
    /\ trainer = "setup" /\ resume = None =>
        CkptSteps = {} /\ broadcasts = {} /\ orch \notin {"run", "send", "sent", "done"}
    /\ trainer = "setup" /\ resume \in Step => resume \in CkptSteps
    /\ orch = "setup" /\ trainer \in {"load", "start", "wait"} => from = Resolved(resume)
    /\ orch \in {"setup", "sync"} => \A s \in Step : ~Own(s, 1)

\* The orchestrator saves the part of a step before it sends the batch of the next.
PartsSaved ==
    \A p \in Step : Own(p, 1) =>
        /\ (\E s \in Step : p < s /\ Own(s, 1)) => Saved(p)
        /\ orch \in {"run", "send"} /\ p < step /\ p < MaxSteps => Saved(p)
        /\ orch = "sent" /\ p < step - 1 => Saved(p)

\* Once it runs, the step that the trainer resumes from has the orchestrator's part.
FromSaved ==
    orch \in Active \/ (\E s \in Step : Own(s, 1)) =>
        /\ trainer = "setup" /\ Resolved(resume) # 0 => orchPart[Resolved(resume)] # None
        /\ trainer \in {"load"} \cup Loaded /\ from \in ckptSteps => orchPart[from] # None

\* The steps that the trainer's manager knows are the one resumed from, older ones, and those of
\* this attempt, whose parts are whole; older ones are removed first.
Managed ==
    /\ trainer \in {"load"} \cup Loaded => \A p \in ckptSteps : p <= from => from \in ckptSteps
    /\ trainer = "load" => \A p \in ckptSteps : p <= from
    /\ trainer \in Loaded =>
        /\ from < tstep
        /\ from \in ckptSteps => Loadable(from)
        /\ \A p \in ckptSteps : p > from =>
            /\ p < tstep \/ (p = tstep /\ trainer = "clean")
            /\ Own(p, 1) /\ trainerPart[p] # None /\ trainerPart[p].whole
            /\ p < MaxSteps => p % Interval = 0
    /\ trainer \in {"publish", "save", "saving", "clean"} => Own(tstep, 1)
    /\ trainer \in {"save", "saving"} => tstep = MaxSteps \/ tstep % Interval = 0
    /\ trainer = "clean" => tstep \in ckptSteps

\* The first rank file of the step being sent is the only one that is new.
LEMMA OrchestratorWrites ==
    ASSUME Types, Places, OrchestratorStep
    PROVE  /\ \A s \in Step : Own(s, 1) => Own(s, 1)'
           /\ \A s \in Step : Own(s, 1)' => Own(s, 1) \/ (WriteRank /\ s = step)
           /\ \A s \in Step : orchPart[s] # None => orchPart'[s] # None
<1>1. Progress \in OrchestratorPart /\ None \notin OrchestratorPart /\ None \notin Nat /\ 1 \in Rank
  BY ResumeAssumption DEF Progress, Types, OrchestratorPart, Rank
<1>2. \/ orchPart' = orchPart \/ orchPart' = [orchPart EXCEPT ![step - 1] = Progress]
  BY DEF OrchestratorStep, OrchestratorLoad, Sync, Watch, Dispatch, Ship, WriteRank,
         SaveOrchestrator, Finish, Fail, FinalSave, KillOrchestrator, disk
<1>3. \A s \in Step : orchPart[s] # None => orchPart'[s] # None
  <2>. HIDE DEF Progress
  <2>. QED BY <1>1, <1>2 DEF Types, Progress
<1>4. CASE UNCHANGED rollouts
  BY <1>3, <1>4, OrchestratorFrame DEF Own
<1>5. CASE WriteRank
  <2>. DEFINE f == sending.files + 1
              file == [attempt |-> attempt, task |-> sending.task]
  <2>1. rollouts' = [rollouts EXCEPT ![step][f] = file] /\ attempt' = attempt /\ step \in Step
    BY <1>5 DEF WriteRank, Places
  <2>2. file \in Batch /\ file.attempt = attempt
    BY DEF Types, Batch
  <2>3. None \notin Batch
    BY ResumeAssumption
  <2>4. \A s \in Step : rollouts'[s][1] = rollouts[s][1] \/ (s = step /\ rollouts'[s][1] = file)
    <3>. HIDE DEF file, f
    <3>. QED BY <1>1, <2>1 DEF Types
  <2>. HIDE DEF file, f
  <2>. QED BY <1>3, <1>5, <2>1, <2>2, <2>3, <2>4 DEF Own
<1>. QED BY <1>4, <1>5, OrchestratorFrame

\* The step to resume from changes only for one that the orchestrator has saved its part of.
LEMMA ResolvedSaved ==
    ASSUME Types, Places, OrchestratorStep, Resolved(resume)' # 0
    PROVE  \/ Resolved(resume)' = Resolved(resume)
           \/ Resolved(resume)' \in Step /\ orchPart'[Resolved(resume)'] # None
<1>1. UNCHANGED <<resume, trainerPart>> /\ CkptSteps \subseteq CkptSteps'
  BY OrchestratorFrame, CkptStepsGrow
<1>2. CASE resume = Latest /\ resume # None
  <2>. DEFINE s == Greatest(CkptSteps')
  <2>1. CkptSteps \subseteq Version /\ CkptSteps' \subseteq Version
    BY DEF CkptSteps, Version, Step
  <2>2. CkptSteps' # {} /\ Resolved(resume)' = s
    BY <1>1, <1>2 DEF Resolved
  <2>3. s \in CkptSteps' /\ \A t \in CkptSteps' : t <= s
    BY <2>1, <2>2, GreatestIs
  <2>4. CASE orchPart'[s] # None
    BY <2>2, <2>3, <2>4 DEF CkptSteps
  <2>5. CASE orchPart'[s] = None
    <3>1. s \in CkptSteps
      BY <1>1, <2>3, <2>5 DEF CkptSteps
    <3>2. Greatest(CkptSteps) \in CkptSteps /\ s <= Greatest(CkptSteps) /\ Greatest(CkptSteps) <= s
      BY <1>1, <2>1, <2>3, <3>1, GreatestIs
    <3>3. s = Greatest(CkptSteps)
      <4>. DEFINE g == Greatest(CkptSteps)
      <4>1. s \in Version /\ g \in Version /\ s <= g /\ g <= s
        BY <2>1, <3>1, <3>2
      <4>2. s = g
        <5>. HIDE DEF g, s
        <5>. QED BY <4>1 DEF Version
      <4>. QED BY <4>2
    <3>. HIDE DEF s
    <3>. QED BY <1>2, <2>2, <3>1, <3>3 DEF Resolved
  <2>. QED BY <2>4, <2>5
<1>3. CASE ~(resume = Latest /\ resume # None)
  BY <1>1, <1>3 DEF Resolved
<1>. QED BY <1>2, <1>3

\* The first launch finds nothing; nothing is written before both have loaded.
LEMMA BeginsNext ==
    ASSUME Types, Places, Written, Sent, Received, ShippedOnce, SameStart, Begins, [Next]_vars
    PROVE  Begins'
<1>1. CASE \E arg \in CkptSteps \cup {Latest, None} : Launch(arg)
  <2>1. PICK arg \in CkptSteps \cup {Latest, None} : Launch(arg)
    BY <1>1
  <2>2. /\ attempt' = attempt + 1 /\ attempt \in Nat /\ resume' = arg /\ trainer' = "setup" /\ orch' = "setup"
        /\ UNCHANGED <<orchPart, trainerPart>> /\ ((attempt = 0) <=> (arg = None))
        /\ broadcasts' = {v \in broadcasts : v < StaleFrom(Resolved(arg))}
        /\ \A s \in Step : rollouts'[s] = NoBatch \/ rollouts'[s] = rollouts[s]
    BY <2>1 DEF Launch, Types
  <2>3. CkptSteps' = CkptSteps
    BY <2>2 DEF CkptSteps
  <2>4. arg = None => CkptSteps = {} /\ broadcasts' = {}
    <3>1. StaleFrom(Resolved(None)) = 0
      BY DEF StaleFrom, Resolved
    <3>2. \A v \in broadcasts : ~(v < 0)
      BY DEF Types, Version
    <3>3. arg = None => CkptSteps = {} /\ broadcasts' = {v \in broadcasts : v < 0}
      BY <2>2, <3>1 DEF Begins
    <3>. QED BY <3>2, <3>3
  <2>5. arg \in Step => arg \in CkptSteps
    BY ResumeAssumption DEF Step
  <2>6. \A s \in Step : ~Own(s, 1)'
    <3>1. 1 \in Rank
      BY ResumeAssumption DEF Rank
    <3>2. \A s \in Step : rollouts[s][1] # None => rollouts[s][1].attempt \in Nat /\ rollouts[s][1].attempt <= attempt
      BY <3>1 DEF Types, Batch, Written
    <3>. QED BY <2>2, <3>1, <3>2 DEF Own, NoBatch
  <2>. QED BY <2>2, <2>3, <2>4, <2>5, <2>6 DEF Begins
<1>2. CASE OrchestratorStep
  <2>1. UNCHANGED <<attempt, resume, trainerVars, trainerPart>> /\ CkptSteps \subseteq CkptSteps'
    BY <1>2, OrchestratorFrame, CkptStepsGrow
  <2>2. orch # "off" /\ orch' \notin {"off", "setup"}
    BY <1>2 DEF OrchestratorStep, OrchestratorLoad, Sync, Watch, Dispatch, Ship, WriteRank,
       SaveOrchestrator, Finish, Fail, KillOrchestrator
  <2>3. trainer = "setup" /\ resume = None =>
            UNCHANGED <<orchPart, broadcasts>> /\ orch' \notin {"run", "send", "sent", "done"}
    BY <1>2 DEF Begins, OrchestratorStep, OrchestratorLoad, Sync, Watch, Dispatch, Ship, WriteRank,
       SaveOrchestrator, Finish, Fail, KillOrchestrator, disk
  <2>4. orch' = "sync" => orch = "setup" /\ ~WriteRank
    BY <1>2, <2>2 DEF OrchestratorStep, OrchestratorLoad, Sync, Watch, Dispatch, Ship, WriteRank,
       SaveOrchestrator, Finish, Fail, KillOrchestrator
  <2>5. orch' = "sync" => \A s \in Step : ~Own(s, 1)'
    BY <1>2, <2>4, OrchestratorWrites DEF Begins
  <2>6. trainer = "setup" /\ resume = None => CkptSteps' = {}
    BY <2>1, <2>3 DEF Begins, CkptSteps
  <2>. QED BY <2>1, <2>2, <2>3, <2>5, <2>6 DEF Begins, trainerVars
<1>3. ASSUME UNCHANGED <<attempt, resume, rollouts, orchPart, trainerPart, orch>>, trainer' # "setup", trainer # "off",
             orch = "setup" /\ trainer' \in {"load", "start", "wait"} => from' = Resolved(resume)
      PROVE  Begins'
  <2>1. Resolved(resume)' = Resolved(resume) /\ CkptSteps' = CkptSteps
    BY <1>3, SameResolved DEF CkptSteps
  <2>. QED BY <1>3, <2>1 DEF Begins, Own
<1>4. CASE TrainerSetup \/ TrainerLoad \/ StartupBroadcast \/ KillTrainer \/ \E r \in Rank : Receive(r)
  BY <1>3, <1>4 DEF TrainerSetup, TrainerLoad, StartupBroadcast, KillTrainer, Receive, disk, orchVars,
     Begins, Ended
<1>5. ASSUME orch # "setup", attempt # 0, trainer' \notin {"off", "setup"},
             UNCHANGED <<attempt, resume, rollouts, orch>>
      PROVE  Begins'
  BY <1>5 DEF Begins, Own
<1>6. CASE Train \/ Broadcast \/ StartSave \/ EndSave \/ Clean
  <2>1. /\ trainer \in {"wait", "publish", "save", "saving", "clean"} /\ trainer' \notin {"off", "setup"}
        /\ UNCHANGED <<attempt, resume, rollouts, orch>>
    BY <1>6 DEF Train, Broadcast, StartSave, EndSave, Clean, NextStep, disk, orchVars
  <2>2. attempt # 0
    BY <2>1 DEF Begins
  <2>3. orch # "setup"
    BY <1>6, <2>1, AllReceived DEF Train, Broadcast, StartSave, EndSave, Clean, SameStart
  <2>. QED BY <1>5, <2>1, <2>2, <2>3
<1>7. CASE Terminate
  <2>1. /\ orch' = "off" /\ trainer' = "off" /\ UNCHANGED <<orchPart, trainerPart, attempt>>
    BY <1>7 DEF Terminate, disk
  <2>. QED BY <2>1 DEF Begins, CkptSteps
<1>8. CASE UNCHANGED vars
  BY <1>8, SameResolved DEF vars, disk, orchVars, trainerVars, Begins, CkptSteps, Own
<1>. QED BY <1>1, <1>2, <1>4, <1>6, <1>7, <1>8 DEF Next, OrchestratorStep

\* The trainer's step is the greatest it has saved, and is not removed.
LEMMA LastKept ==
    ASSUME Types, Places, Managed, trainer = "clean"
    PROVE  /\ tstep \in Step /\ tstep \in ckptSteps /\ tstep \in Kept(ckptSteps)
           /\ \A p \in ckptSteps : p <= tstep
<1>1. tstep \in Step /\ tstep \in ckptSteps /\ from < tstep
  BY DEF Places, Managed, Loaded
<1>2. ASSUME NEW p \in ckptSteps PROVE p <= tstep
  <2>1. p \in Int /\ tstep \in Int /\ from \in Int
    BY <1>1 DEF Types, Step, Version
  <2>2. CASE p > from
    <3>1. p < tstep \/ p = tstep
      BY <2>2 DEF Managed, Loaded
    <3>. QED BY <2>1, <3>1
  <2>3. CASE ~(p > from)
    BY <1>1, <2>1, <2>3
  <2>. QED BY <2>2, <2>3
<1>3. {t \in ckptSteps : t > tstep} = {}
  <2>1. \A t \in ckptSteps : t \in Int
    BY DEF Types, Step
  <2>2. \A t \in ckptSteps : ~(t > tstep)
    BY <1>1, <1>2, <2>1 DEF Step
  <2>. QED BY <2>2
<1>4. tstep \in Kept(ckptSteps)
  <2>1. Cardinality({t \in ckptSteps : t > tstep}) = 0
    BY <1>3, FS_EmptySet
  <2>. QED BY <1>1, <2>1, ResumeAssumption DEF Kept
<1>. QED BY <1>1, <1>2, <1>4

\* What is saved stays saved, or is removed by the trainer after it has saved the step.
LEMMA SavedStays ==
    ASSUME Types, Types', NEW p \in Step, Saved(p), tstep' >= tstep,
           orchPart[p] # None => orchPart'[p] # None \/ Gone(p)',
           p \in ckptSteps' => p \in ckptSteps \/ ~(p < tstep)
    PROVE  Saved(p)'
<1>1. p < tstep => p < tstep'
  BY DEF Types, Step
<1>. QED BY <1>1 DEF Saved, Gone

\* The trainer removes steps before its own.
LEMMA TrainerKeepsSaved ==
    ASSUME Types, Types', Places, Managed, TrainerStep, NEW p \in Step, Saved(p)
    PROVE  Saved(p)'
<1>0. tstep' \in 1..(MaxSteps + 1) /\ tstep \in 1..(MaxSteps + 1)
  BY DEF Types
<1>1. CASE UNCHANGED <<orchPart, ckptSteps>> /\ tstep' >= tstep
  BY <1>1, SavedStays
<1>2. CASE \/ KillTrainer \/ StartupBroadcast \/ (\E r \in Rank : Receive(r)) \/ Train \/ Broadcast
           \/ StartSave
  <2>1. UNCHANGED <<orchPart, ckptSteps>> /\ (tstep' = tstep \/ tstep' = tstep + 1)
    BY <1>2 DEF KillTrainer, StartupBroadcast, Receive, Train, Broadcast, StartSave, NextStep, disk
  <2>. QED BY <1>0, <1>1, <2>1
<1>3. CASE TrainerSetup
  <2>1. UNCHANGED <<orchPart, tstep>> /\ tstep = 1
    BY <1>3 DEF TrainerSetup, disk, Places
  <2>2. ~(p < tstep)
    BY <2>1 DEF Step
  <2>. QED BY <1>0, <2>1, <2>2, SavedStays
<1>4. CASE TrainerLoad
  <2>1. UNCHANGED <<orchPart, ckptSteps>> /\ tstep = 1
    BY <1>4 DEF TrainerLoad, disk, Places
  <2>. QED BY <1>0, <1>1, <2>1
<1>5. CASE EndSave
  <2>1. UNCHANGED <<orchPart, tstep>> /\ ckptSteps' = ckptSteps \cup {tstep}
    BY <1>5 DEF EndSave
  <2>2. p \in ckptSteps' => p \in ckptSteps \/ ~(p < tstep)
    BY <1>0, <2>1
  <2>. QED BY <1>0, <2>1, <2>2, SavedStays
<1>6. CASE Clean
  <2>1. trainer = "clean" /\ ckptSteps' = Kept(ckptSteps) /\ Kept(ckptSteps) \subseteq ckptSteps /\ tstep' >= tstep
    BY <1>0, <1>6 DEF Clean, NextStep, Kept
  <2>2. ASSUME orchPart[p] # None, orchPart'[p] = None PROVE Gone(p)'
    <3>1. p \in ckptSteps \ Kept(ckptSteps)
      BY <1>6, <2>2 DEF Clean
    <3>2. p <= tstep /\ p # tstep
      BY <2>1, <3>1, LastKept
    <3>3. p < tstep'
      BY <1>0, <2>1, <3>2 DEF Step
    <3>. QED BY <2>1, <3>1, <3>3 DEF Gone
  <2>. QED BY <2>1, <2>2, SavedStays
<1>. QED BY <1>2, <1>3, <1>4, <1>5, <1>6 DEF TrainerStep

\* A part is saved between two batches that are sent.
LEMMA PartsSavedNext ==
    ASSUME Types, Types', Places, Written, Begins, Begins', PartsSaved, Managed, [Next]_vars
    PROVE  PartsSaved'
<1>1. CASE \E arg \in CkptSteps \cup {Latest, None} : Launch(arg)
  <2>1. orch' = "setup"
    BY <1>1 DEF Launch
  <2>. QED BY <2>1 DEF Begins, PartsSaved
<1>2. CASE Terminate \/ UNCHANGED vars
  BY <1>2 DEF Terminate, vars, disk, orchVars, trainerVars, PartsSaved, Own, Saved, Gone
<1>3. CASE TrainerStep
  <2>1. UNCHANGED <<orch, step>> /\ \A s \in Step : Own(s, 1)' = Own(s, 1)
    BY <1>3, TrainerFrame DEF orchVars, Own
  <2>2. \A p \in Step : Saved(p) => Saved(p)'
    BY <1>3, TrainerKeepsSaved
  <2>. QED BY <2>1, <2>2 DEF PartsSaved
<1>4. CASE OrchestratorStep
  <2>1. UNCHANGED <<ckptSteps, tstep, attempt>>
    BY <1>4, OrchestratorFrame DEF trainerVars
  <2>2. \A p \in Step : Saved(p) => Saved(p)'
    BY <1>4, <2>1, OrchestratorWrites DEF Saved, Gone
  <2>3. CASE WriteRank
    <3>1. /\ orch = "send" /\ step \in Step
          /\ \/ orch' = "send" /\ step' = step
             \/ orch' = "sent" /\ step' = step + 1
      BY <2>3 DEF WriteRank, Places
    <3>2. ASSUME NEW s \in Step, Own(s, 1)' PROVE s < step \/ s = step
      <4>1. 1 \in Rank
        BY ResumeAssumption DEF Rank
      <4>. QED BY <1>4, <3>1, <3>2, <4>1, OrchestratorWrites DEF Written
    <3>3. ASSUME NEW p \in Step, Own(p, 1)', p < step PROVE Saved(p)'
      <4>1. p # step /\ p < MaxSteps
        BY <3>1, <3>3, ResumeAssumption DEF Step
      <4>2. Own(p, 1)
        BY <1>4, <3>3, <4>1, OrchestratorWrites
      <4>. QED BY <2>2, <3>1, <3>3, <4>1, <4>2 DEF PartsSaved
    <3>4. \A p \in Step, s \in Step : p < s /\ Own(s, 1)' => p < step
      BY <3>1, <3>2 DEF Step
    <3>5. \A p \in Step : (orch' = "send" /\ p < step') \/ (orch' = "sent" /\ p < step' - 1) => p < step
      BY <3>1 DEF Step
    <3>. QED BY <3>1, <3>3, <3>4, <3>5 DEF PartsSaved
  <2>4. ASSUME UNCHANGED rollouts
        PROVE  /\ \A s \in Step : Own(s, 1)' = Own(s, 1)
               /\ \A p \in Step : Own(p, 1)' /\ (\E s \in Step : p < s /\ Own(s, 1)') => Saved(p)'
    <3>1. \A s \in Step : Own(s, 1)' = Own(s, 1)
      BY <2>1, <2>4 DEF Own
    <3>. QED BY <2>2, <3>1 DEF PartsSaved
  <2>5. CASE OrchestratorLoad \/ Finish \/ Fail \/ KillOrchestrator
    <3>1. orch' \notin {"run", "send", "sent"} /\ UNCHANGED rollouts
      BY <2>5 DEF OrchestratorLoad, Finish, Fail, KillOrchestrator, disk
    <3>. QED BY <2>4, <3>1 DEF PartsSaved
  <2>6. CASE Sync
    <3>1. orch = "sync" /\ orch' = "run" /\ UNCHANGED rollouts
      BY <2>6 DEF Sync, disk
    <3>. QED BY <2>4, <3>1 DEF PartsSaved, Begins
  <2>7. CASE Watch \/ Dispatch \/ \E t \in inflight : Ship(t)
    <3>1. UNCHANGED <<step, rollouts>> /\ (orch' = orch \/ (orch = "run" /\ orch' = "send"))
      BY <2>7 DEF Watch, Dispatch, Ship, disk
    <3>. QED BY <2>2, <2>4, <3>1 DEF PartsSaved
  <2>8. CASE SaveOrchestrator
    <3>1. /\ orch = "sent" /\ orch' = "run" /\ UNCHANGED <<step, rollouts>>
          /\ orchPart' = IF step - 1 < MaxSteps /\ (step - 1) % Interval = 0
                         THEN [orchPart EXCEPT ![step - 1] = Progress] ELSE orchPart
      BY <2>8 DEF SaveOrchestrator
    <3>2. ASSUME NEW p \in Step, Own(p, 1)', p < step, p < MaxSteps PROVE Saved(p)'
      <4>1. CASE p < step - 1
        BY <2>2, <2>4, <3>1, <3>2, <4>1 DEF PartsSaved
      <4>2. CASE ~(p < step - 1)
        <5>1. p = step - 1
          BY <3>2, <4>2 DEF Types, Step
        <5>2. p % Interval = 0 => orchPart'[p] = Progress
          BY <3>1, <3>2, <5>1 DEF Types
        <5>3. Progress # None
          BY ResumeAssumption DEF Progress, OrchestratorPart, Types
        <5>. QED BY <5>2, <5>3 DEF Saved
      <4>. QED BY <4>1, <4>2
    <3>. QED BY <2>4, <3>1, <3>2 DEF PartsSaved
  <2>. QED BY <1>4, <2>3, <2>5, <2>6, <2>7, <2>8 DEF OrchestratorStep
<1>. QED BY <1>1, <1>2, <1>3, <1>4 DEF Next, OrchestratorStep, TrainerStep

\* The step resumed from has the orchestrator's part when it matters.
LEMMA FromSavedNext ==
    ASSUME Types, Types', Places, SameStart, Begins, Begins', Managed, FromSaved, [Next]_vars
    PROVE  FromSaved'
<1>1. CASE \E arg \in CkptSteps \cup {Latest, None} : Launch(arg)
  <2>1. orch' = "setup"
    BY <1>1 DEF Launch
  <2>. QED BY <2>1 DEF Begins, FromSaved, Active
<1>2. CASE Terminate
  <2>1. trainer' = "off"
    BY <1>2 DEF Terminate
  <2>. QED BY <2>1 DEF FromSaved, Loaded
<1>3. CASE UNCHANGED vars
  BY <1>3, SameResolved DEF vars, disk, orchVars, trainerVars, FromSaved, Own
<1>4. CASE OrchestratorStep
  <2>1. UNCHANGED <<resume, trainer, from, ckptSteps>> /\ \A s \in Step : orchPart[s] # None => orchPart'[s] # None
    BY <1>4, OrchestratorFrame, OrchestratorWrites DEF trainerVars
  <2>2. ckptSteps \subseteq Step /\ Resolved(resume) \in Version
    BY ResolvedTyped DEF Types
  <2>3. Resolved(resume) # 0 => Resolved(resume) \in Step
    BY <2>2 DEF Version, Step
  <2>4. ASSUME orch \in Active \/ \E s \in Step : Own(s, 1) PROVE FromSaved'
    <3>1. trainer = "setup" /\ Resolved(resume)' # 0 => orchPart'[Resolved(resume)'] # None
      <4>1. CASE Resolved(resume)' = Resolved(resume)
        BY <2>1, <2>3, <2>4, <4>1 DEF FromSaved
      <4>2. CASE Resolved(resume)' # Resolved(resume)
        BY <1>4, <4>2, ResolvedSaved
      <4>. QED BY <4>1, <4>2
    <3>2. trainer \in {"load"} \cup Loaded /\ from \in ckptSteps => orchPart'[from] # None
      BY <2>1, <2>2, <2>4 DEF FromSaved
    <3>. QED BY <2>1, <3>1, <3>2 DEF FromSaved
  <2>5. CASE OrchestratorLoad
    <3>1. /\ orch = "setup" /\ UNCHANGED <<orchPart, trainerPart, rollouts, attempt>>
          /\ orch' = "dead" \/ Resolved(resume) = 0 \/ orchPart[Resolved(resume)] # None
      BY <2>5 DEF OrchestratorLoad, disk
    <3>2. \A s \in Step : ~Own(s, 1)'
      BY <3>1 DEF Begins, Own
    <3>3. Resolved(resume)' = Resolved(resume)
      BY <2>1, <3>1, SameResolved
    <3>4. trainer \in {"load"} \cup Loaded => from = Resolved(resume)
      BY <3>1 DEF Begins, SameStart, Loaded
    <3>5. 0 \notin ckptSteps
      BY <2>2 DEF Step
    <3>. HIDE DEF Loaded
    <3>. QED BY <2>1, <3>1, <3>2, <3>3, <3>4, <3>5 DEF FromSaved, Active
  <2>6. CASE orch \notin Active /\ ~OrchestratorLoad
    <3>1. orch = "setup" /\ orch' = "dead" /\ UNCHANGED <<attempt, rollouts>>
      BY <1>4, <2>6 DEF OrchestratorStep, Sync, Watch, Dispatch, Ship, WriteRank, SaveOrchestrator,
         Finish, Fail, KillOrchestrator, Active, Ended, Types, disk
    <3>. QED BY <3>1 DEF Begins, FromSaved, Own, Active
  <2>. QED BY <2>4, <2>5, <2>6
<1>5. CASE TrainerStep
  <2>1. UNCHANGED <<resume, orch>> /\ \A s \in Step : Own(s, 1)' = Own(s, 1)
    BY <1>5, TrainerFrame DEF orchVars, Own
  <2>2. CASE TrainerSetup
    <3>1. trainer = "setup" /\ trainer' = "load" /\ from' = Resolved(resume) /\ orchPart' = orchPart
      BY <2>2 DEF TrainerSetup, disk
    <3>2. 0 \notin ckptSteps'
      BY DEF Types, Step
    <3>. QED BY <2>1, <3>1, <3>2 DEF FromSaved
  <2>3. CASE \/ TrainerLoad \/ StartupBroadcast \/ (\E r \in Rank : Receive(r)) \/ Train \/ Broadcast
             \/ StartSave
    <3>1. UNCHANGED <<orchPart, from, ckptSteps>> /\ trainer \in {"load"} \cup Loaded /\ trainer' # "setup"
      BY <2>3 DEF TrainerLoad, StartupBroadcast, Receive, Train, Broadcast, StartSave, NextStep, disk,
         Loaded
    <3>. HIDE DEF Loaded
    <3>. QED BY <2>1, <3>1 DEF FromSaved
  <2>4. CASE EndSave
    <3>1. /\ UNCHANGED <<orchPart, from>> /\ ckptSteps' = ckptSteps \cup {tstep} /\ trainer' = "clean"
          /\ trainer \in Loaded
      BY <2>4 DEF EndSave, Loaded
    <3>2. from # tstep
      BY <3>1 DEF Managed, Types, Version
    <3>. HIDE DEF Loaded
    <3>. QED BY <2>1, <3>1, <3>2 DEF FromSaved
  <2>5. CASE Clean
    <3>1. /\ from' = from /\ ckptSteps' = Kept(ckptSteps) /\ Kept(ckptSteps) \subseteq ckptSteps
          /\ trainer' # "setup" /\ trainer \in Loaded /\ ckptSteps \subseteq Step
          /\ \A s \in Step : s \in Kept(ckptSteps) => orchPart'[s] = orchPart[s]
      BY <2>5 DEF Clean, NextStep, Kept, Loaded, Types
    <3>. HIDE DEF Loaded
    <3>. QED BY <2>1, <3>1 DEF FromSaved
  <2>6. CASE KillTrainer
    BY <2>6 DEF KillTrainer, FromSaved, Loaded
  <2>. QED BY <1>5, <2>2, <2>3, <2>4, <2>5, <2>6 DEF TrainerStep
<1>. QED BY <1>1, <1>2, <1>3, <1>4, <1>5 DEF Next, OrchestratorStep, TrainerStep

\* Older steps are removed first.
LEMMA KeptUpward ==
    ASSUME Types, NEW p \in Kept(ckptSteps), NEW q \in ckptSteps, p <= q
    PROVE  q \in Kept(ckptSteps)
<1>. DEFINE after(s) == {t \in ckptSteps : t > s}
<1>1. IsFiniteSet(ckptSteps)
  <2>1. IsFiniteSet(Step)
    BY FS_Interval, ResumeAssumption DEF Step
  <2>. QED BY <2>1, FS_Subset DEF Types
<1>2. \A s : IsFiniteSet(after(s)) /\ Cardinality(after(s)) \in Nat
  <2>. TAKE s
  <2>1. after(s) \in SUBSET ckptSteps
    OBVIOUS
  <2>. HIDE DEF after
  <2>2. IsFiniteSet(after(s))
    BY <1>1, <2>1, FS_Subset
  <2>. QED BY <2>2, FS_CardinalityType
<1>3. after(q) \in SUBSET after(p)
  <2>1. ckptSteps \subseteq Int /\ p \in ckptSteps
    BY DEF Types, Step, Kept
  <2>2. \A t \in ckptSteps : t > q => t > p
    BY <2>1
  <2>. QED BY <2>2
<1>4. Cardinality(after(q)) <= Cardinality(after(p))
  <2>. HIDE DEF after
  <2>. QED BY <1>2, <1>3, FS_Subset
<1>5. Cardinality(after(p)) < KeepLast
  BY DEF Kept
<1>6. Cardinality(after(q)) < KeepLast
  <2>. HIDE DEF after
  <2>. QED BY <1>2, <1>4, <1>5, ResumeAssumption
<1>. QED BY <1>6 DEF Kept

\* A launch resumes from a step that has a checkpoint, or there is none.
LEMMA SetupManaged ==
    ASSUME Types, Begins, TrainerSetup
    PROVE  \A p \in ckptSteps' : p <= from' /\ from' \in ckptSteps'
<1>1. /\ from' = Resolved(resume)
      /\ ckptSteps' = IF resume \in Step THEN {s \in CkptSteps : s <= resume} ELSE CkptSteps
  BY DEF TrainerSetup
<1>2. CkptSteps \subseteq Version
  BY DEF CkptSteps, Step, Version
<1>3. CASE resume = None
  <2>1. CkptSteps = {} /\ resume \notin Step
    BY <1>3, ResumeAssumption DEF Begins, TrainerSetup, Step
  <2>. QED BY <1>1, <2>1
<1>4. CASE resume \in Step
  <2>1. resume \in CkptSteps /\ resume # None /\ resume # Latest /\ resume \in Int
    BY <1>4, ResumeAssumption DEF Begins, TrainerSetup, Step
  <2>. QED BY <1>1, <1>4, <2>1 DEF Resolved
<1>5. CASE resume # None /\ resume \notin Step
  <2>1. resume = Latest
    BY <1>5 DEF Types
  <2>. QED BY <1>1, <1>2, <1>5, <2>1, GreatestIs DEF Resolved
<1>. QED BY <1>3, <1>4, <1>5

\* The trainer keeps account of its own checkpoints.
LEMMA ManagedNext ==
    ASSUME Types, Types', Places, Received, Begins, Managed, [Next]_vars
    PROVE  Managed'
<1>0. MaxSteps \in Nat /\ Step = 1..MaxSteps /\ 1 \in Rank
  BY ResumeAssumption DEF Step, Rank
<1>1. ASSUME trainer' \in {"off", "dead", "done", "setup"} PROVE Managed'
  BY <1>1 DEF Managed, Loaded
<1>2. ASSUME UNCHANGED <<trainer, from, tstep, ckptSteps, trainerPart>>,
             \A s \in Step : Own(s, 1) => Own(s, 1)'
      PROVE  Managed'
  <2>1. ckptSteps \subseteq Step /\ (trainer \in {"publish", "save", "saving", "clean"} => tstep \in Step)
    BY DEF Types, Places
  <2>. QED BY <1>2, <2>1 DEF Managed, Loadable, Loaded
<1>3. CASE (\E arg \in CkptSteps \cup {Latest, None} : Launch(arg)) \/ Terminate \/ KillTrainer
  BY <1>1, <1>3 DEF Launch, Terminate, KillTrainer
<1>4. CASE OrchestratorStep
  BY <1>2, <1>4, OrchestratorFrame, OrchestratorWrites DEF trainerVars
<1>5. CASE UNCHANGED vars
  BY <1>2, <1>5 DEF vars, disk, trainerVars, Own
<1>6. CASE TrainerSetup
  <2>1. trainer' = "load"
    BY <1>6 DEF TrainerSetup
  <2>. QED BY <1>6, <2>1, SetupManaged DEF Managed, Loaded
<1>7. ASSUME TrainerStep
      PROVE  \A s \in Step : Own(s, 1)' = Own(s, 1)
  BY <1>7, TrainerFrame DEF Own
<1>8. CASE TrainerLoad
  <2>1. /\ trainer = "load" /\ UNCHANGED <<from, ckptSteps, trainerPart>>
        /\ trainer' \in {"start", "dead"}
    BY <1>8 DEF TrainerLoad, disk
  <2>2. ASSUME trainer' = "start" PROVE from < tstep' /\ (from # 0 => Loadable(from))
    <3>1. CASE from = 0
      BY <1>8, <3>1 DEF TrainerLoad, Places
    <3>2. CASE from # 0
      <4>1. Loadable(from) /\ tstep' = trainerPart[from].step + 1
        BY <1>8, <2>2, <3>2 DEF TrainerLoad
      <4>2. from \in Step /\ trainerPart[from].step = from
        BY <3>2, <4>1 DEF Types, Loadable, Version, Step
      <4>. QED BY <1>0, <4>1, <4>2
    <3>. QED BY <3>1, <3>2
  <2>3. 0 \notin ckptSteps /\ ckptSteps \subseteq Int /\ from \in Int
    BY <1>0 DEF Types, Version
  <2>4. \A p \in ckptSteps : ~(p > from)
    BY <2>1, <2>3 DEF Managed
  <2>. QED BY <1>1, <2>1, <2>2, <2>3, <2>4 DEF Managed, Loadable, Loaded
<1>9. CASE StartupBroadcast \/ (\E r \in Rank : Receive(r))
  <2>1. trainer \in {"start", "wait"} /\ trainer' = "wait" /\ UNCHANGED <<from, tstep, ckptSteps, trainerPart>>
    BY <1>9 DEF StartupBroadcast, Receive, disk
  <2>2. \A s \in Step : Own(s, 1)' = Own(s, 1)
    BY <1>7, <1>9 DEF TrainerStep
  <2>3. ckptSteps \subseteq Step
    BY DEF Types
  <2>. QED BY <2>1, <2>2, <2>3 DEF Managed, Loadable, Loaded
<1>10. CASE Train
  <2>1. trainer = "wait" /\ trainer' = "publish" /\ UNCHANGED <<from, tstep, ckptSteps, trainerPart>>
    BY <1>10 DEF Train, disk
  <2>2. \A s \in Step : Own(s, 1)' = Own(s, 1)
    BY <1>7, <1>10 DEF TrainerStep
  <2>3. ckptSteps \subseteq Step
    BY DEF Types
  <2>4. tstep \in Step /\ Own(tstep, 1)
    BY <1>0, <1>10 DEF Train, Received
  <2>. QED BY <2>1, <2>2, <2>3, <2>4 DEF Managed, Loadable, Loaded
<1>11. CASE Broadcast
  <2>1. /\ trainer = "publish" /\ UNCHANGED <<from, ckptSteps, trainerPart>>
        /\ \/ trainer' = "save" /\ tstep' = tstep /\ (tstep = MaxSteps \/ tstep % Interval = 0)
           \/ trainer' = "done"
           \/ trainer' = "wait" /\ tstep' = tstep + 1
    BY <1>11 DEF Broadcast, NextStep, IsLastStep
  <2>2. \A s \in Step : Own(s, 1)' = Own(s, 1)
    BY <1>7, <1>11 DEF TrainerStep
  <2>3. ckptSteps \subseteq Step /\ tstep \in Step /\ from \in Int
    BY <2>1 DEF Types, Places, Version
  <2>4. CASE trainer' = "save"
    BY <2>1, <2>2, <2>3, <2>4 DEF Managed, Loadable, Loaded
  <2>5. CASE trainer' = "wait"
    <3>1. tstep' = tstep + 1
      BY <2>1, <2>5
    <3>2. from < tstep' /\ \A p \in ckptSteps : p > from => p < tstep'
      BY <1>0, <2>1, <2>3, <3>1 DEF Managed, Loaded
    <3>. QED BY <2>1, <2>2, <2>3, <2>5, <3>2 DEF Managed, Loadable, Loaded
  <2>. QED BY <1>1, <2>1, <2>4, <2>5
<1>12. CASE StartSave \/ EndSave
  <2>1. /\ trainer \in {"save", "saving"} /\ UNCHANGED <<from, tstep>> /\ tstep \in Step /\ from < tstep
        /\ ckptSteps \subseteq Step /\ from \in Version
    BY <1>12 DEF StartSave, EndSave, Managed, Loaded, Places, Types
  <2>2. \A s \in Step : Own(s, 1)' = Own(s, 1)
    BY <1>7, <1>12 DEF TrainerStep
  <2>3. \A s \in Step : s # tstep => trainerPart'[s] = trainerPart[s]
    BY <1>12 DEF StartSave, EndSave, Types
  <2>4. \A p \in ckptSteps : p # tstep /\ (p > from => p < tstep)
    BY <1>0, <2>1 DEF Managed, Loaded
  <2>5. from \in ckptSteps => from \in Step /\ from # tstep
    BY <2>1, <2>4
  <2>6. CASE StartSave
    <3>1. trainer' = "saving" /\ ckptSteps' = ckptSteps
      BY <2>6 DEF StartSave
    <3>. QED BY <2>1, <2>2, <2>3, <2>4, <2>5, <3>1 DEF Managed, Loadable, Loaded
  <2>7. CASE EndSave
    <3>1. trainer' = "clean" /\ ckptSteps' = ckptSteps \cup {tstep} /\ trainerPart'[tstep] = Part(TRUE)
      BY <2>1, <2>7 DEF EndSave, Types
    <3>2. Part(TRUE).whole /\ Part(TRUE) \in TrainerPart /\ Part(TRUE) # None
      <4>1. Part(TRUE) \in TrainerPart
        BY <2>1 DEF Part, TrainerPart, Types, Step
      <4>. QED BY <4>1, ResumeAssumption DEF Part
    <3>3. ~(tstep <= from) /\ Own(tstep, 1) /\ (tstep < MaxSteps => tstep % Interval = 0)
      BY <1>0, <2>1 DEF Managed, Version
    <3>. QED BY <2>1, <2>2, <2>3, <2>4, <2>5, <3>1, <3>2, <3>3 DEF Managed, Loadable, Loaded
  <2>. QED BY <1>12, <2>6, <2>7
<1>13. CASE Clean
  <2>1. /\ trainer = "clean" /\ from' = from /\ ckptSteps' = Kept(ckptSteps) /\ Kept(ckptSteps) \subseteq ckptSteps
        /\ trainer' = "done" \/ (trainer' = "wait" /\ tstep' = tstep + 1)
        /\ \A s \in Kept(ckptSteps) : s \in Step => trainerPart'[s] = trainerPart[s]
    BY <1>13 DEF Clean, NextStep, Kept
  <2>2. \A s \in Step : Own(s, 1)' = Own(s, 1)
    BY <1>7, <1>13 DEF TrainerStep
  <2>3. ckptSteps \subseteq Step /\ tstep \in Step /\ from \in Version
    BY <2>1 DEF Types, Places
  <2>4. ASSUME trainer' = "wait" PROVE from < tstep' /\ \A p \in ckptSteps : p > from => p < tstep'
    BY <1>0, <2>1, <2>3, <2>4 DEF Managed, Loaded, Version
  <2>5. \A p \in ckptSteps' : p <= from => from \in ckptSteps'
    BY <2>1, KeptUpward DEF Managed, Loaded
  <2>. QED BY <1>1, <2>1, <2>2, <2>3, <2>4, <2>5 DEF Managed, Loadable, Loaded
<1>. QED BY <1>3, <1>4, <1>5, <1>6, <1>8, <1>9, <1>10, <1>11, <1>12, <1>13 DEF Next, OrchestratorStep

-----------------------------------------------------------------------------
(* A run that can be resumed *)

Recoverable == History /\ Begins /\ PartsSaved /\ FromSaved /\ Managed

\* It holds of the empty run directory.
LEMMA RecoverableInit == Init => Recoverable
<1>. SUFFICES ASSUME Init PROVE Recoverable
  OBVIOUS
<1>1. CkptSteps = {}
  BY DEF Init, CkptSteps
<1>2. 1 \in Rank
  BY ResumeAssumption DEF Rank
<1>3. \A s \in Step : ~Own(s, 1)
  BY <1>2 DEF Init, Own, NoBatch
<1>. QED BY <1>1, <1>3, HistoryInit
         DEF Init, Recoverable, Begins, PartsSaved, FromSaved, Managed, Loaded, Active

\* And is kept by every step.
LEMMA RecoverableNext == Recoverable /\ [Next]_vars => Recoverable'
<1>. SUFFICES ASSUME Recoverable, [Next]_vars PROVE Recoverable'
  OBVIOUS
<1>1. History'
  BY HistoryNext DEF Recoverable
<1>2. Types /\ Places /\ Written /\ Sent /\ Received /\ ShippedOnce /\ SameStart /\ Types'
  BY <1>1 DEF Recoverable, History
<1>3. Begins'
  BY <1>2, BeginsNext DEF Recoverable
<1>4. PartsSaved'
  BY <1>2, <1>3, PartsSavedNext DEF Recoverable
<1>5. FromSaved' /\ Managed'
  BY <1>2, <1>3, FromSavedNext, ManagedNext DEF Recoverable
<1>. QED BY <1>1, <1>3, <1>4, <1>5 DEF Recoverable

\* Only a removal can take a step to resume from away: a part written over another one can be
\* loaded until it is whole if that one could.
LEMMA OthersKeep ==
    ASSUME Types, Places, [Next]_vars, ~Clean, NEW s \in Step, Resumable(s)
    PROVE  Resumable(s)'
<1>1. orchPart'[s] # None
  <2>1. CASE OrchestratorStep
    BY <2>1, OrchestratorWrites DEF Resumable
  <2>2. CASE ~OrchestratorStep
    <3>1. orchPart' = orchPart
      BY <2>2 DEF Next, OrchestratorStep, Launch, Terminate, KillTrainer, TrainerSetup, TrainerLoad,
         StartupBroadcast, Receive, Train, Broadcast, StartSave, EndSave, vars, disk
    <3>. QED BY <3>1 DEF Resumable
  <2>. QED BY <2>1, <2>2
<1>2. CASE StartSave \/ EndSave
  <2>1. PICK whole \in BOOLEAN : trainerPart' = [trainerPart EXCEPT ![tstep] = Part(whole)]
    BY <1>2 DEF StartSave, EndSave
  <2>2. tstep \in Step
    BY <1>2 DEF StartSave, EndSave, Places
  <2>3. CASE s = tstep
    <3>1. Part(whole).over
      BY <2>3 DEF Resumable, Loadable, Part
    <3>2. Part(whole) \in TrainerPart
      BY <2>2 DEF Part, TrainerPart, Types, Step
    <3>3. trainerPart'[s] = Part(whole)
      BY <2>1, <2>3 DEF Types
    <3>. QED BY <1>1, <3>1, <3>2, <3>3, ResumeAssumption DEF Resumable, Loadable
  <2>4. CASE s # tstep
    BY <1>1, <2>1, <2>4 DEF Types, Resumable, Loadable
  <2>. QED BY <2>3, <2>4
<1>3. CASE UNCHANGED trainerPart
  BY <1>1, <1>3 DEF Resumable, Loadable
<1>4. StartSave \/ EndSave \/ UNCHANGED trainerPart
  BY DEF Next, Launch, Terminate, KillOrchestrator, KillTrainer, OrchestratorLoad, Sync, Watch,
     Dispatch, Ship, WriteRank, SaveOrchestrator, Finish, Fail, TrainerSetup, TrainerLoad,
     StartupBroadcast, Receive, Train, Broadcast, vars, disk
<1>. QED BY <1>2, <1>3, <1>4

\* A removal keeps the trainer's step and the greatest one before it, which has both parts.
LEMMA CleanKeeps ==
    ASSUME Recoverable, Clean, KeepLast > 1, NEW s \in Step, Resumable(s)
    PROVE  \E p \in Step : Resumable(p)'
<1>. DEFINE before == ckptSteps \ {tstep}
            p == Greatest(before)
<1>0. Types /\ Places /\ Managed /\ PartsSaved /\ FromSaved
  BY DEF Recoverable, History
<1>1. trainer = "clean" /\ tstep \in Step /\ Own(tstep, 1) /\ from \in Version
  BY <1>0, LastKept DEF Clean, Managed, Types
<1>2. ASSUME NEW q \in Step, q \notin ckptSteps \/ q \in Kept(ckptSteps), Resumable(q)
      PROVE  Resumable(q)'
  <2>1. orchPart'[q] = orchPart[q] /\ trainerPart'[q] = trainerPart[q]
    BY <1>2 DEF Clean
  <2>. QED BY <1>2, <2>1 DEF Resumable, Loadable
<1>3. CASE s \notin ckptSteps \/ s \in Kept(ckptSteps)
  BY <1>2, <1>3
<1>4. CASE s \in ckptSteps /\ s \notin Kept(ckptSteps)
  <2>1. before \subseteq Version /\ before \subseteq Step /\ before # {}
    BY <1>0, <1>4, LastKept, <1>1 DEF Types, Step, Version
  <2>2. p \in before /\ \A t \in before : t <= p
    <3>. HIDE DEF before
    <3>. QED BY <2>1, GreatestIs
  <2>. HIDE DEF p
  <2>3. p \in Step /\ p \in ckptSteps /\ p # tstep /\ p < tstep
    BY <1>0, <1>1, <2>1, <2>2, LastKept DEF Step
  <2>4. p \in Kept(ckptSteps)
    <3>1. {t \in ckptSteps : t > p} = {tstep}
      <4>1. \A t \in ckptSteps : t > p => t = tstep
        BY <2>1, <2>2, <2>3 DEF Step
      <4>. QED BY <1>0, <1>1, <2>3, <4>1, LastKept DEF Step
    <3>2. Cardinality({t \in ckptSteps : t > p}) = 1
      BY <3>1, FS_Singleton
    <3>. QED BY <2>3, <3>2 DEF Kept
  <2>5. CASE p > from
    <3>1. Own(p, 1) /\ trainerPart[p] # None /\ trainerPart[p].whole /\ p % Interval = 0
      <4>1. p < MaxSteps
        BY <1>1, <2>3, ResumeAssumption DEF Step
      <4>. QED BY <1>0, <1>1, <2>3, <2>5, <4>1 DEF Managed, Loaded
    <3>2. orchPart[p] # None
      BY <1>0, <1>1, <2>3, <3>1 DEF PartsSaved, Saved, Gone
    <3>3. Resumable(p)
      BY <3>1, <3>2 DEF Resumable, Loadable
    <3>. QED BY <1>2, <2>3, <2>4, <3>3
  <2>6. CASE ~(p > from)
    <3>1. p <= from /\ from \in ckptSteps /\ from < tstep
      BY <1>0, <1>1, <2>3, <2>6 DEF Managed, Loaded, Step, Version
    <3>2. p = from
      BY <1>1, <2>2, <2>3, <3>1 DEF Step, Version
    <3>3. orchPart[from] # None
      BY <1>0, <1>1, <3>1 DEF FromSaved, Loaded
    <3>4. Loadable(from)
      BY <1>0, <1>1, <3>1 DEF Managed, Loaded
    <3>5. Resumable(p)
      BY <3>2, <3>3, <3>4 DEF Resumable
    <3>. QED BY <1>2, <2>3, <2>4, <3>5
  <2>. QED BY <2>5, <2>6
<1>. QED BY <1>3, <1>4

\* Wherever the processes are killed, and however often, a run that could be resumed from some step
\* still can be, if two checkpoints or more are kept.
THEOREM StaysResumable == Spec => KeepsResumable
<1>1. ASSUME Recoverable, [Next]_vars, KeepLast > 1, NEW s \in Step, Resumable(s)
      PROVE  \E p \in Step : Resumable(p)'
  <2>1. Types /\ Places
    BY <1>1 DEF Recoverable, History
  <2>2. CASE Clean
    BY <1>1, <2>2, CleanKeeps
  <2>3. CASE ~Clean
    BY <1>1, <2>1, <2>3, OthersKeep
  <2>. QED BY <2>2, <2>3
<1>2. Recoverable /\ [Next]_vars =>
        [KeepLast > 1 /\ (\E s \in Step : Resumable(s)) => \E s \in Step : Resumable(s)']_vars
  BY <1>1
<1>. QED BY <1>2, RecoverableInit, RecoverableNext, PTL DEF Spec, KeepsResumable
=============================================================================
