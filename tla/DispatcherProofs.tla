-------------------------- MODULE DispatcherProofs --------------------------
(***************************************************************************)
(* Proofs about Dispatcher, for every value of its constants.  First the   *)
(* invariant of the bookkeeping, Base; then, on top of it, the             *)
(* conservation of episodes, Accounts; the sweep of stale rollouts; and    *)
(* who is cancelled by a weight update, and what holds of the drain and of *)
(* shutdown when no rate limit is set.                                     *)
(***************************************************************************)
EXTENDS Dispatcher, FiniteSetTheorems, TLAPS

\* How the pc of the watcher goes with the state of the drop under way, and what a
\* rollout waiting in the rate limiter may count on.
Control ==
    /\ dgid # None => dgid \in Opened /\ permits < MaxInflight
    /\ wpc \in {"idle", "drop"} => wgid = None /\ wowed = 0
    /\ wpc \in {"emit", "put", "cancel"} => wgid \in Opened
    /\ wpc = "put" => wowed > 0
    /\ wpc = "cancel" => wowed = 0
    /\ wstale \subseteq Opened /\ (wpc = "idle" => wstale = {})

\* Tasks are numbered in the order their group schedules them: the next number is free.
Numbered ==
    /\ \A g \in Opened : toSched[g] <= Size(g)
    /\ \A t \in Inflight :
          t[1] \in Opened /\ t[2] <= Size(t[1]) - toSched[t[1]] - B2N(dgid = t[1])

Base == TypeOK /\ PermitsMatch /\ Control /\ Numbered

\* A group not opened has no history; one that is owes at most what it has not delivered,
\* and exactly that unless it was given up.
Account(g) ==
    /\ g \notin Opened => ledger[g] = 0 /\ emitted[g] = 0 /\ dput.gid # g
    /\ g \in Opened =>
          /\ ledger[g] + Owed(g) <= Size(g)
          /\ g \notin abandoned => ledger[g] + Owed(g) = Size(g)

\* What self.groups says a group still owes agrees with its tasks.
Owes(g) ==
    g \in groups =>
        /\ emitted[g] < Size(g)
        /\ emitted[g] + toSched[g] + B2N(dgid = g) + Cardinality(TasksOf(g)) = Size(g)

\* Shutdown gives every group up; afterwards the dispatch loop does not run.
Halted ==
    /\ Stopping => abandoned = Gid
    /\ mpc = "stopped" => dpc = "done"

Accounts == Halted /\ \A g \in Gid : Account(g) /\ (mpc # "stopped" => Owes(g))

\* While on_version_pending is dropping, every task past the bound is of a group still
\* to be dropped.
StaleCovered == \A t \in Inflight : inflight[t] > MaxOffPolicySteps => t[1] \in wstale

-----------------------------------------------------------------------------
(* Operators *)

\* B2N counts.
LEMMA B2NType == \A b \in BOOLEAN : B2N(b) \in {0, 1} /\ (b => B2N(b) = 1) /\ (~b => B2N(b) = 0)
BY DEF B2N

\* The tasks of a group are finitely many.
LEMMA TasksFinite ==
    ASSUME IsFiniteSet(Inflight), NEW g
    PROVE  /\ IsFiniteSet(TasksOf(g)) /\ Cardinality(TasksOf(g)) \in Nat
           /\ TasksOf(g) \subseteq Inflight
<1>1. TasksOf(g) \in SUBSET Inflight
  BY DEF TasksOf
<1>2. IsFiniteSet(TasksOf(g))
  BY <1>1, FS_Subset
<1>. QED BY <1>1, <1>2, FS_CardinalityType

\* release() once per task gives back what the tasks held.
LEMMA ReleaseMatches ==
    ASSUME IsFiniteSet(Inflight), permits = Cardinality(Inflight),
           NEW S, S \subseteq Inflight
    PROVE  /\ Release(S) = Cardinality(Inflight \ S)
           /\ Release(S) \in Nat /\ Release(S) <= permits
           /\ IsFiniteSet(Inflight \ S)
<1>1. IsFiniteSet(Inflight \ S) /\ Cardinality(Inflight \ S) = Cardinality(Inflight) - Cardinality(Inflight \cap S)
  BY FS_Difference
<1>2. Inflight \cap S = S
  OBVIOUS
<1>3. Cardinality(Inflight \ S) \in Nat
  BY <1>1, FS_CardinalityType
<1>4. Cardinality(Inflight \ S) <= Cardinality(Inflight)
  BY FS_Subset, Inflight \ S \in SUBSET Inflight
<1>. QED BY <1>1, <1>2, <1>3, <1>4 DEF Release

\* A task with a fresh number takes one more permit.
LEMMA StartCounts ==
    ASSUME IsFiniteSet(Inflight), permits = Cardinality(Inflight),
           NEW g, NEW k, <<g, k>> \notin Inflight, Start(g, k)
    PROVE  /\ Inflight' = Inflight \cup {<<g, k>>}
           /\ IsFiniteSet(Inflight') /\ permits' = Cardinality(Inflight')
           /\ permits' = permits + 1
<1>1. Inflight' = Inflight \cup {<<g, k>>} /\ permits' = permits + 1
  BY DEF Start, Inflight
<1>. QED BY <1>1, FS_AddElement

-----------------------------------------------------------------------------
(* Bookkeeping *)

LEMMA BaseInit == Init => Base
<1>. SUFFICES ASSUME Init PROVE Base
  OBVIOUS
<1>1. Inflight = {} /\ IsFiniteSet(Inflight) /\ Cardinality(Inflight) = 0
  BY FS_EmptySet DEF Init, Inflight
<1>2. Opened = {}
  BY EnvAssumption DEF Init, Opened
<1>3. TypeOK
  <2>1. GroupsOK
    BY EnvAssumption DEF Init, GroupsOK
  <2>2. TasksOK
    BY <1>1 DEF Init, TasksOK
  <2>3. QueueOK
    BY BoundAssumption DEF Init, QueueOK
  <2>4. SwitchesOK
    <3>1. EvalEpochs \subseteq Seq(EvalEnv)
      BY EnvAssumption
    <3>2. <<>> \in Seq(EvalEnv)
      OBVIOUS
    <3>. QED BY <3>1, <3>2 DEF Init, SwitchesOK
  <2>5. DispatchOK
    <3>1. NoItem \notin Item
      BY EnvAssumption DEF NoItem, Result, Item
    <3>2. None \notin Gid
      BY EnvAssumption
    <3>. QED BY <3>1, <3>2 DEF Init, DispatchOK
  <2>6. 0 \in 0..MaxSteps
    BY BoundAssumption
  <2>7. WatchOK
    BY <2>6 DEF Init, WatchOK
  <2>8. MainOK
    BY <2>6 DEF Init, MainOK
  <2>. QED BY <2>1, <2>2, <2>3, <2>4, <2>5, <2>7, <2>8 DEF TypeOK
<1>4. PermitsMatch
  BY <1>1, BoundAssumption DEF Init, PermitsMatch
<1>5. Control
  BY DEF Init, Control
<1>6. Numbered
  BY <1>1, <1>2 DEF Numbered
<1>. QED BY <1>3, <1>4, <1>5, <1>6 DEF Base

\* schedule_group_rollout, on a group continued or just opened.
LEMMA IssueBase ==
    ASSUME Base, NEW g \in Gid, NEW size \in Nat, NEW owed \in Nat,
           0 < owed, owed <= size, MaySchedule, IssueRollout(g, size, owed),
           genv' \in [Gid -> Env \cup {None}], genv'[g] # None, GroupSize[genv'[g]] = size,
           \A h \in Gid \ {g} : genv'[h] = genv[h],
           groups' \subseteq groups \cup {g}, emitted' = emitted,
           evalQueue' \in Seq(EvalEnv),
           \A t \in Inflight : t[1] = g => t[2] <= size - owed
    PROVE  Base'
<1> DEFINE k == size - owed + 1
<1>1. TypeOK /\ PermitsMatch /\ Control /\ Numbered
  BY DEF Base
<1>2. dgid = None /\ None \notin Gid
  BY <1>1, EnvAssumption DEF TypeOK, DispatchOK, MaySchedule
<1>3. Opened' = Opened \cup {g}
  BY <1>1 DEF TypeOK, GroupsOK, Opened
<1>4. toSched' = [toSched EXCEPT ![g] = owed - 1]
  BY DEF IssueRollout
<1>5. k \in Nat /\ <<g, k>> \notin Inflight /\ <<g, k>> \in Task
  BY DEF Task
<1>6. GroupsOK'
  BY <1>1, <1>3, <1>4 DEF TypeOK, GroupsOK
<1>7. QueueOK' /\ SwitchesOK' /\ MainOK'
  BY <1>1 DEF TypeOK, QueueOK, SwitchesOK, MainOK, IssueRollout, mVars
<1>8. WatchOK'
  BY <1>1 DEF TypeOK, WatchOK, IssueRollout, wVars
<1>9. \A h \in Opened' : h # g => h \in Opened /\ Size(h)' = Size(h) /\ toSched'[h] = toSched[h]
  BY <1>1, <1>3, <1>4 DEF TypeOK, GroupsOK, Opened, Size
<1>10. Size(g)' = size /\ toSched'[g] = owed - 1
  BY <1>1, <1>4 DEF TypeOK, GroupsOK, Size
<1>11. \A h \in Opened' : toSched'[h] <= Size(h)'
  BY <1>1, <1>9, <1>10 DEF Numbered
<1>12. CASE Start(g, k) /\ UNCHANGED <<dpc, dgid>>
  <2>1. /\ Inflight' = Inflight \cup {<<g, k>>} /\ IsFiniteSet(Inflight')
        /\ permits' = Cardinality(Inflight') /\ permits' = permits + 1
    BY <1>1, <1>5, <1>12, StartCounts DEF TypeOK, TasksOK, PermitsMatch
  <2>2. TasksOK'
    BY <1>1, <1>5, <1>12, <2>1 DEF TypeOK, TasksOK, Start
  <2>3. PermitsMatch'
    BY <1>1, <2>1, BoundAssumption DEF TypeOK, TasksOK, PermitsMatch, MaySchedule
  <2>4. DispatchOK'
    BY <1>1, <1>12 DEF TypeOK, DispatchOK, IssueRollout
  <2>5. Control'
    BY <1>1, <1>2, <1>3, <1>12 DEF Control, IssueRollout, wVars
  <2>6. Numbered'
    <3>. SUFFICES ASSUME NEW t \in Inflight'
                  PROVE  t[1] \in Opened' /\ t[2] <= (Size(t[1]) - toSched[t[1]] - B2N(dgid = t[1]))'
      BY <1>11 DEF Numbered
    <3>1. CASE t = <<g, k>>
      BY <1>2, <1>3, <1>10, <1>12, <3>1 DEF B2N
    <3>2. CASE t \in Inflight /\ t[1] = g
      BY <1>1, <1>2, <1>3, <1>10, <1>12, <3>2 DEF B2N, TypeOK, TasksOK, Task
    <3>3. CASE t \in Inflight /\ t[1] # g
      BY <1>1, <1>2, <1>3, <1>9, <1>12, <3>3 DEF Numbered
    <3>. QED BY <2>1, <3>1, <3>2, <3>3
  <2>. QED BY <1>6, <1>7, <1>8, <2>2, <2>3, <2>4, <2>5, <2>6 DEF Base, TypeOK
<1>13. CASE RateLimited /\ dpc' = "acquire" /\ dgid' = g /\ UNCHANGED taskVars
  <2>1. Inflight' = Inflight /\ permits' = permits
    BY <1>13 DEF taskVars, Inflight
  <2>2. TasksOK' /\ PermitsMatch'
    BY <1>1, <1>13, <2>1 DEF TypeOK, TasksOK, PermitsMatch, taskVars
  <2>3. DispatchOK'
    BY <1>1, <1>2, <1>13 DEF TypeOK, DispatchOK, IssueRollout, MaySchedule
  <2>4. Control'
    BY <1>1, <1>3, <1>13, <2>1 DEF Control, IssueRollout, wVars, MaySchedule
  <2>5. Numbered'
    <3>. SUFFICES ASSUME NEW t \in Inflight
                  PROVE  t[1] \in Opened' /\ t[2] <= (Size(t[1]) - toSched[t[1]] - B2N(dgid = t[1]))'
      BY <1>11, <2>1 DEF Numbered
    <3>1. CASE t[1] = g
      BY <1>1, <1>3, <1>10, <1>13, <3>1 DEF B2N, TypeOK, TasksOK, Task
    <3>2. CASE t[1] # g
      <4>1. t[1] \in Opened /\ t[1] \in Gid
        BY <1>1 DEF Numbered, Opened
      <4>2. B2N(dgid = t[1]) = 0 /\ B2N(dgid = t[1])' = 0
        BY <1>2, <1>13, <3>2, <4>1 DEF B2N
      <4>. QED BY <1>1, <1>3, <1>9, <3>2, <4>1, <4>2 DEF Numbered
    <3>. QED BY <3>1, <3>2
  <2>. QED BY <1>6, <1>7, <1>8, <2>2, <2>3, <2>4, <2>5 DEF Base, TypeOK
<1>. QED BY <1>12, <1>13 DEF IssueRollout

\* A step that starts and ends no task keeps the books.
LEMMA KeepBooks ==
    ASSUME Base, UNCHANGED <<genv, toSched, dgid>>, UNCHANGED taskVars,
           emitted' \in [Gid -> Nat], groups' \subseteq groups
    PROVE  /\ GroupsOK' /\ TasksOK' /\ PermitsMatch' /\ Numbered'
           /\ Opened' = Opened /\ permits' = permits
<1>1. Opened' = Opened /\ Inflight' = Inflight /\ permits' = permits /\ inflight' = inflight
      /\ finished' = finished
  BY DEF Opened, Inflight, taskVars
<1>2. \A g \in Gid : Size(g)' = Size(g) /\ B2N(dgid = g)' = B2N(dgid = g)
  BY DEF Size
<1>3. GroupsOK' /\ TasksOK' /\ PermitsMatch'
  BY <1>1 DEF Base, TypeOK, GroupsOK, TasksOK, PermitsMatch
<1>4. Numbered'
  BY <1>1, <1>2 DEF Base, Numbered, Opened
<1>. QED BY <1>1, <1>3, <1>4

\* So does a step that takes a set of tasks out of flight and releases their permits.
LEMMA RemoveBooks ==
    ASSUME Base, NEW S, S \subseteq Inflight, UNCHANGED <<genv, toSched, dgid>>,
           inflight' = Restrict(inflight, Inflight \ S), finished' = finished \ S,
           permits' = Release(S),
           emitted' \in [Gid -> Nat], groups' \subseteq groups
    PROVE  /\ GroupsOK' /\ TasksOK' /\ PermitsMatch' /\ Numbered'
           /\ Opened' = Opened /\ permits' <= permits /\ Inflight' = Inflight \ S
           /\ \A t \in Inflight' : inflight'[t] = inflight[t]
<1>1. Opened' = Opened /\ Inflight' = Inflight \ S
  BY DEF Opened, Inflight, Restrict
<1>2. \A t \in Inflight' : inflight'[t] = inflight[t]
  BY <1>1 DEF Restrict
<1>3. \A g \in Gid : Size(g)' = Size(g) /\ B2N(dgid = g)' = B2N(dgid = g)
  BY DEF Size
<1>4. IsFiniteSet(Inflight') /\ permits' = Cardinality(Inflight') /\ permits' \in Nat /\ permits' <= permits
  BY <1>1, ReleaseMatches DEF Base, TypeOK, TasksOK, PermitsMatch
<1>5. GroupsOK' /\ TasksOK'
  BY <1>1, <1>2, <1>4 DEF Base, TypeOK, GroupsOK, TasksOK
<1>6. PermitsMatch'
  BY <1>4, BoundAssumption DEF Base, PermitsMatch, TypeOK, TasksOK
<1>7. Numbered'
  BY <1>1, <1>3 DEF Base, Numbered, Opened
<1>. QED BY <1>1, <1>2, <1>4, <1>5, <1>6, <1>7

LEMMA PutQueue ==
    ASSUME QueueOK, NEW item \in Item, ~Full, Put(item), UNCHANGED abandoned
    PROVE  QueueOK'
<1>1. outQ' = Append(outQ, item) /\ outQ' \in Seq(Item) /\ Len(outQ') = Len(outQ) + 1
  BY DEF QueueOK, Put
<1>2. Len(outQ') <= OutQSize
  BY <1>1, BoundAssumption DEF Full, QueueOK
<1>3. item.gid \in Gid /\ ledger' \in [Gid -> Nat]
  BY DEF QueueOK, Put, Item
<1>. QED BY <1>1, <1>2, <1>3 DEF QueueOK

LEMMA BaseDispatch ==
    ASSUME Base, Dispatch PROVE Base'
<1>1. TypeOK /\ PermitsMatch /\ Control /\ Numbered
  BY DEF Base
<1>2. GroupsOK /\ TasksOK /\ QueueOK /\ SwitchesOK /\ DispatchOK /\ WatchOK /\ MainOK
  BY <1>1 DEF TypeOK
<1>3. None \notin Gid /\ NoItem \notin Item
  BY EnvAssumption DEF NoItem, Result, Item
<1>4. ASSUME NEW g \in Gid, ContinueGroup(g) PROVE Base'
  <2>1. g \in groups /\ g \in Opened /\ toSched[g] > 0 /\ MaySchedule
    BY <1>2, <1>4 DEF ContinueGroup, Continuable, GroupsOK
  <2>2. Size(g) \in Nat /\ toSched[g] \in Nat /\ toSched[g] <= Size(g)
    BY <1>1, <1>2, <2>1, EnvAssumption DEF Size, GroupsOK, Opened, Numbered
  <2>3. genv' = genv /\ groups' = groups /\ emitted' = emitted /\ evalQueue' = evalQueue
        /\ IssueRollout(g, Size(g), toSched[g])
    BY <1>4 DEF ContinueGroup
  <2>4. \A t \in Inflight : t[1] = g => t[2] <= Size(g) - toSched[g]
    BY <1>1, <1>2, <2>2 DEF Numbered, B2N, TasksOK, Task
  <2>5. genv[g] # None /\ GroupSize[genv[g]] = Size(g)
    BY <2>1 DEF Opened, Size
  <2>. QED BY <1>2, <2>1, <2>2, <2>3, <2>4, <2>5, IssueBase DEF GroupsOK, SwitchesOK
<1>5. ASSUME NEW g \in Gid, OpenGroup(g) PROVE Base'
  <2>1. MaySchedule /\ g \notin Opened
    BY <1>5 DEF OpenGroup
  <2>2. PICK e \in FreshEnvs(mode) :
           /\ genv' = [genv EXCEPT ![g] = e] /\ groups' = groups \cup {g}
           /\ IssueRollout(g, GroupSize[e], GroupSize[e])
    BY <1>5 DEF OpenGroup
  <2>3. e \in Env /\ (mode = "eval" => evalQueue # <<>>)
    BY <1>2 DEF FreshEnvs, SwitchesOK, Env
  <2>4. e # None /\ GroupSize[e] \in Nat /\ GroupSize[e] > 0
    BY <2>3, EnvAssumption
  <2>5. evalQueue' \in Seq(EvalEnv) /\ emitted' = emitted
    BY <1>2, <1>5, <2>3 DEF OpenGroup, SwitchesOK
  <2>6. \A t \in Inflight : t[1] # g
    BY <1>1, <2>1 DEF Numbered
  <2>7. /\ genv' \in [Gid -> Env \cup {None}] /\ genv'[g] = e
        /\ \A h \in Gid \ {g} : genv'[h] = genv[h]
    BY <1>2, <2>2, <2>3 DEF GroupsOK
  <2>8. groups' \subseteq groups \cup {g}
    BY <2>2
  <2>9. \A t \in Inflight : t[1] = g => t[2] <= GroupSize[e] - GroupSize[e]
    BY <2>6
  <2>. QED BY <2>1, <2>2, <2>4, <2>5, <2>7, <2>8, <2>9, IssueBase
<1>6. CASE Acquired
  <2>1. dgid \in Gid /\ dgid \in Opened /\ permits < MaxInflight /\ dpc = "acquire"
    BY <1>1, <1>2, <1>3, <1>6 DEF Acquired, DispatchOK, Control
  <2> DEFINE k == Size(dgid) - toSched[dgid]
  <2>2. Size(dgid) \in Nat /\ toSched[dgid] \in Nat /\ k \in Nat
    BY <1>1, <1>2, <2>1, EnvAssumption DEF Size, GroupsOK, Opened, Numbered
  <2>3. <<dgid, k>> \notin Inflight /\ <<dgid, k>> \in Task
    BY <1>1, <2>1, <2>2 DEF Numbered, B2N, Task
  <2>4. /\ Inflight' = Inflight \cup {<<dgid, k>>} /\ IsFiniteSet(Inflight')
        /\ permits' = Cardinality(Inflight') /\ permits' = permits + 1
    BY <1>1, <1>2, <1>6, <2>3, StartCounts DEF TasksOK, PermitsMatch, Acquired
  <2>5. UNCHANGED <<genv, toSched, emitted, groups>> /\ Opened' = Opened
    BY <1>6 DEF Acquired, groupVars, Opened
  <2>6. TasksOK' /\ GroupsOK'
    BY <1>2, <1>6, <2>3, <2>4, <2>5 DEF TasksOK, GroupsOK, Acquired, Start
  <2>7. PermitsMatch'
    BY <1>1, <1>2, <2>1, <2>4, BoundAssumption DEF PermitsMatch, TasksOK
  <2>8. QueueOK' /\ SwitchesOK' /\ MainOK'
    BY <1>2, <1>6 DEF QueueOK, SwitchesOK, MainOK, Acquired, mVars, switchVars
  <2>9. WatchOK'
    BY <1>2, <1>6 DEF WatchOK, Acquired, wVars
  <2>10. DispatchOK'
    BY <1>2, <1>3, <1>6, <2>1 DEF DispatchOK, Acquired
  <2>11. Control'
    BY <1>1, <1>6, <2>5 DEF Control, Acquired, wVars
  <2>12. Numbered'
    <3>1. dgid' = None
      BY <1>6 DEF Acquired
    <3>. SUFFICES ASSUME NEW t \in Inflight'
                  PROVE  t[1] \in Opened /\ t[2] <= Size(t[1]) - toSched[t[1]]
      <4>1. \A t \in Inflight' : t[1] \in Opened => B2N(dgid = t[1])' = 0
        BY <1>3, <3>1 DEF B2N, Opened
      <4>2. \A g \in Opened : Size(g) \in Nat /\ toSched[g] \in Nat
        BY <1>2, EnvAssumption DEF GroupsOK, Opened, Size
      <4>. QED BY <1>1, <2>5, <4>1, <4>2 DEF Numbered, Size
    <3>2. CASE t = <<dgid, k>>
      BY <2>1, <2>2, <3>2
    <3>3. CASE t \in Inflight
      <4>1. t[2] <= Size(t[1]) - toSched[t[1]] - B2N(dgid = t[1]) /\ t[1] \in Opened
        BY <1>1, <3>3 DEF Numbered
      <4>2. Size(t[1]) \in Nat /\ toSched[t[1]] \in Nat /\ t[2] \in Nat
        BY <1>2, <3>3, <4>1, EnvAssumption DEF GroupsOK, Opened, Size, TasksOK, Task
      <4>. QED BY <4>1, <4>2 DEF B2N
    <3>. QED BY <2>4, <3>2, <3>3
  <2>. QED BY <2>6, <2>7, <2>8, <2>9, <2>10, <2>11, <2>12 DEF Base, TypeOK
<1>7. ASSUME UNCHANGED <<groupVars, taskVars, outQ, dgid, dput, wVars, mVars, ledger, abandoned>>,
             SwitchesOK', DispatchOK'
      PROVE  Base'
  <2>1. GroupsOK' /\ TasksOK' /\ PermitsMatch' /\ Numbered' /\ Opened' = Opened /\ permits' = permits
    BY <1>2, <1>7, KeepBooks DEF groupVars, GroupsOK
  <2>2. QueueOK' /\ WatchOK' /\ MainOK'
    BY <1>2, <1>7 DEF QueueOK, WatchOK, MainOK, wVars, mVars
  <2>3. Control'
    BY <1>1, <1>7, <2>1 DEF Control, wVars
  <2>. QED BY <1>7, <2>1, <2>2, <2>3 DEF Base, TypeOK
<1>8. CASE SwitchToTrain
  BY <1>2, <1>7, <1>8 DEF SwitchToTrain, SwitchesOK, DispatchOK, dVars
<1>9. CASE FillReturn
  BY <1>2, <1>7, <1>9 DEF FillReturn, SwitchesOK, DispatchOK, switchVars
<1>10. CASE Wake
  <2>1. SwitchesOK' /\ todo' \subseteq Task
    BY <1>2, <1>10 DEF Wake, SwitchesOK, switchVars, TasksOK
  <2>2. DispatchOK'
    BY <1>2, <1>10, <2>1 DEF Wake, DispatchOK
  <2>. QED BY <1>7, <1>10, <2>1, <2>2 DEF Wake
<1>11. CASE LoopTop
  BY <1>2, <1>7, <1>11 DEF LoopTop, SwitchesOK, DispatchOK, switchVars
<1>12. ASSUME NEW t \in todo, HandleClaimed(t) PROVE Base'
  BY <1>2, <1>7, <1>12 DEF HandleClaimed, SwitchesOK, DispatchOK, switchVars
<1>13. ASSUME NEW t \in todo, HandleCompleted(t) PROVE Base'
  <2>1. /\ dpc = "handle" /\ t \in Inflight /\ t[1] \in Gid /\ dput = NoItem
        /\ Result(t[1], inflight[t]) \in Item
    BY <1>2, <1>13 DEF HandleCompleted, DispatchOK, TasksOK, Task, Item, Result
  <2>2. emitted' \in [Gid -> Nat] /\ groups' \subseteq groups
    BY <1>2, <1>13, <2>1 DEF HandleCompleted, GroupsOK
  <2>3. /\ UNCHANGED <<genv, toSched, dgid>> /\ inflight' = Restrict(inflight, Inflight \ {t})
        /\ finished' = finished \ {t} /\ permits' = Release({t})
    BY <1>13 DEF HandleCompleted
  <2>4. GroupsOK' /\ TasksOK' /\ PermitsMatch' /\ Numbered' /\ Opened' = Opened /\ permits' <= permits
    BY <2>1, <2>2, <2>3, RemoveBooks
  <2>5. SwitchesOK' /\ WatchOK' /\ MainOK'
    BY <1>2, <1>13 DEF HandleCompleted, SwitchesOK, WatchOK, MainOK, switchVars, wVars, mVars
  <2>6. Control'
    BY <1>1, <1>2, <1>3, <1>13, <2>1, <2>4, BoundAssumption
       DEF Control, DispatchOK, TasksOK, HandleCompleted, wVars
  <2>7. QueueOK' /\ DispatchOK'
    <3>1. CASE Full
      BY <1>2, <1>13, <2>1, <3>1 DEF HandleCompleted, QueueOK, DispatchOK
    <3>2. CASE ~Full
      BY <1>2, <1>13, <2>1, <3>2, PutQueue DEF HandleCompleted, DispatchOK
    <3>. QED BY <3>1, <3>2
  <2>. QED BY <2>4, <2>5, <2>6, <2>7 DEF Base, TypeOK
<1>14. CASE PutResult
  <2>1. dput \in Item
    BY <1>2, <1>14 DEF PutResult, DispatchOK
  <2>2. GroupsOK' /\ TasksOK' /\ PermitsMatch' /\ Numbered' /\ Opened' = Opened /\ permits' = permits
    BY <1>2, <1>14, KeepBooks DEF PutResult, groupVars, GroupsOK
  <2>3. QueueOK'
    BY <1>2, <1>14, <2>1, PutQueue DEF PutResult
  <2>4. SwitchesOK' /\ WatchOK' /\ MainOK' /\ DispatchOK'
    BY <1>2, <1>3, <1>14 DEF PutResult, SwitchesOK, WatchOK, MainOK, DispatchOK, switchVars, wVars, mVars
  <2>5. Control'
    BY <1>1, <1>14, <2>2 DEF Control, PutResult, wVars
  <2>. QED BY <2>2, <2>3, <2>4, <2>5 DEF Base, TypeOK
<1>. QED
  BY <1>4, <1>5, <1>6, <1>8, <1>9, <1>10, <1>11, <1>12, <1>13, <1>14 DEF Dispatch

LEMMA BaseWatch ==
    ASSUME Base, Watch PROVE Base'
<1>1. TypeOK /\ PermitsMatch /\ Control /\ Numbered
  BY DEF Base
<1>2. GroupsOK /\ TasksOK /\ QueueOK /\ SwitchesOK /\ DispatchOK /\ WatchOK /\ MainOK
  BY <1>1 DEF TypeOK
<1>3. None \notin Gid
  BY EnvAssumption
<1>4. CASE VersionPending
  <2>1. UNCHANGED <<groupVars, finished, permits, outQ, switchVars, dVars, wgid, wowed, wcancel,
                    mVars, ledger, abandoned>>
    BY <1>4 DEF VersionPending
  <2>2. Opened' = Opened
    BY <2>1 DEF Opened, groupVars
  <2>3. /\ Inflight' = Inflight
        /\ \A t \in Inflight : inflight'[t] = IF t \in Aged THEN inflight[t] + 1 ELSE inflight[t]
    BY <1>4 DEF VersionPending, Inflight
  <2>4. TasksOK' /\ GroupsOK' /\ PermitsMatch'
    BY <1>1, <1>2, <2>1, <2>2, <2>3 DEF TasksOK, GroupsOK, PermitsMatch, groupVars
  <2>5. Numbered'
    BY <1>1, <2>1, <2>2, <2>3 DEF Numbered, groupVars, dVars, Size, B2N
  <2>6. QueueOK' /\ SwitchesOK' /\ DispatchOK' /\ MainOK'
    BY <1>2, <2>1 DEF QueueOK, SwitchesOK, DispatchOK, MainOK, switchVars, dVars, mVars
  <2>7. wstale' \subseteq Opened /\ wpc = "idle" /\ wpc' \in {"idle", "drop"}
        /\ (wpc' = "idle" => wstale' = {})
    BY <1>1, <1>4 DEF VersionPending, TurnsStale, Aged, Numbered
  <2>8. WatchOK'
    <3>1. ships <= MaxSteps /\ ships \in Nat /\ version \in Nat
      BY <1>2, BoundAssumption DEF MainOK, WatchOK
    <3>2. LastPublished <= MaxSteps /\ LastPublished \in Int
      BY <3>1, BoundAssumption DEF LastPublished
    <3>3. version' \in 0..MaxSteps
      BY <1>4, <3>1, <3>2, BoundAssumption DEF VersionPending
    <3>. QED BY <1>2, <2>1, <2>7, <3>3 DEF WatchOK, Opened
  <2>9. Control'
    BY <1>1, <2>1, <2>2, <2>7 DEF Control, dVars
  <2>. QED BY <2>4, <2>5, <2>6, <2>8, <2>9 DEF Base, TypeOK
<1>5. ASSUME NEW g \in Gid, DropClaim(g) PROVE Base'
  <2>1. Claims(g) \subseteq Inflight /\ Cardinality(Claims(g)) \in Nat
    BY <1>2, TasksFinite DEF Claims, TasksOK
  <2>2. /\ UNCHANGED <<genv, toSched, dgid>> /\ inflight' = Restrict(inflight, Inflight \ Claims(g))
        /\ finished' = finished \ Claims(g) /\ permits' = Release(Claims(g))
        /\ emitted' \in [Gid -> Nat] /\ groups' \subseteq groups
    BY <1>2, <1>5 DEF DropClaim, dVars, GroupsOK
  <2>3. GroupsOK' /\ TasksOK' /\ PermitsMatch' /\ Numbered' /\ Opened' = Opened /\ permits' <= permits
    BY <2>1, <2>2, RemoveBooks
  <2>4. QueueOK' /\ SwitchesOK' /\ DispatchOK' /\ MainOK'
    BY <1>2, <1>5 DEF DropClaim, QueueOK, SwitchesOK, DispatchOK, MainOK, switchVars, dVars, mVars
  <2>5. wowed' \in Nat /\ wcancel' \in BOOLEAN
    BY <1>2, <1>5, <2>1 DEF DropClaim, Markers, Unscheduled, GroupsOK
  <2>6. WatchOK'
    BY <1>2, <1>5, <2>5 DEF DropClaim, WatchOK
  <2>7. permits' \in Nat /\ permits \in Nat
    BY <1>2, <2>3 DEF TasksOK
  <2>8. Control'
    BY <1>1, <1>5, <2>3, <2>7, BoundAssumption DEF Control, DropClaim, dVars
  <2>. QED BY <2>3, <2>4, <2>6, <2>8 DEF Base, TypeOK
<1>6. ASSUME UNCHANGED <<groupVars, taskVars, switchVars, dVars, mVars, version>>,
             QueueOK', WatchOK', wstale' = wstale,
             wpc' \in {"idle", "drop"} => wgid' = None /\ wowed' = 0,
             wpc' \in {"emit", "put", "cancel"} => wgid' \in Opened,
             wpc' = "put" => wowed' > 0, wpc' = "cancel" => wowed' = 0,
             wpc' = "idle" => wstale = {}
      PROVE  Base'
  <2>1. GroupsOK' /\ TasksOK' /\ PermitsMatch' /\ Numbered' /\ Opened' = Opened /\ permits' = permits
    BY <1>2, <1>6, KeepBooks DEF groupVars, dVars, GroupsOK
  <2>2. SwitchesOK' /\ DispatchOK' /\ MainOK'
    BY <1>2, <1>6 DEF SwitchesOK, DispatchOK, MainOK, switchVars, dVars, mVars
  <2>3. Control'
    BY <1>1, <1>6, <2>1 DEF Control, dVars
  <2>. QED BY <1>6, <2>1, <2>2, <2>3 DEF Base, TypeOK
<1>7. ASSUME wpc \in {"emit", "put"}
      PROVE  Cancelled(wgid) \in Item /\ wgid \in Opened
  BY <1>1, <1>7 DEF Control, Cancelled, Item, Opened
<1>8. CASE EmitMarker
  <2>1. CASE Full
    BY <1>1, <1>2, <1>6, <1>8, <2>1 DEF EmitMarker, Control, WatchOK, QueueOK
  <2>2. CASE ~Full
    <3>1. QueueOK'
      BY <1>2, <1>7, <1>8, <2>2, PutQueue DEF EmitMarker
    <3>. QED BY <1>1, <1>2, <1>6, <1>8, <2>2, <3>1 DEF EmitMarker, Control, WatchOK
  <2>. QED BY <2>1, <2>2
<1>9. CASE PutMarker
  <2>1. QueueOK'
    BY <1>2, <1>7, <1>9, PutQueue DEF PutMarker
  <2>. QED BY <1>1, <1>2, <1>6, <1>9, <2>1 DEF PutMarker, Control, WatchOK
<1>10. CASE DropEmitted
  <2>1. QueueOK'
    BY <1>2, <1>10 DEF DropEmitted, QueueOK
  <2>. QED BY <1>1, <1>2, <1>6, <1>10, <2>1 DEF DropEmitted, NextStaleGroup, Control, WatchOK
<1>11. CASE DropCancelled
  <2>1. QueueOK'
    BY <1>2, <1>11 DEF DropCancelled, QueueOK
  <2>. QED BY <1>1, <1>2, <1>6, <1>11, <2>1 DEF DropCancelled, NextStaleGroup, Control, WatchOK
<1>. QED BY <1>4, <1>5, <1>8, <1>9, <1>10, <1>11 DEF Watch

LEMMA BaseMain ==
    ASSUME Base, MainLoop \/ OnNewVersion \/ Interrupt PROVE Base'
<1>1. TypeOK /\ PermitsMatch /\ Control /\ Numbered
  BY DEF Base
<1>2. GroupsOK /\ TasksOK /\ QueueOK /\ SwitchesOK /\ DispatchOK /\ WatchOK /\ MainOK
  BY <1>1 DEF TypeOK
<1>3. None \notin Gid /\ NoItem \notin Item
  BY EnvAssumption DEF NoItem, Result, Item
<1>4. ASSUME UNCHANGED <<groupVars, taskVars, dVars, wVars>>, QueueOK', SwitchesOK', MainOK'
      PROVE  Base'
  <2>1. GroupsOK' /\ TasksOK' /\ PermitsMatch' /\ Numbered' /\ Opened' = Opened /\ permits' = permits
    BY <1>2, <1>4, KeepBooks DEF groupVars, dVars, GroupsOK
  <2>2. DispatchOK' /\ WatchOK'
    BY <1>2, <1>4 DEF DispatchOK, WatchOK, dVars, wVars
  <2>3. Control'
    BY <1>1, <1>4, <2>1 DEF Control, dVars, wVars
  <2>. QED BY <1>4, <2>1, <2>2, <2>3 DEF Base, TypeOK
<1>5. ASSUME NEW S, S \subseteq Inflight, UNCHANGED <<genv, toSched, dVars, outQ, ledger, wVars>>,
             inflight' = Restrict(inflight, Inflight \ S), finished' = finished \ S,
             permits' = Release(S), emitted' = emitted, groups' \subseteq groups,
             abandoned' \subseteq Gid, SwitchesOK', MainOK'
      PROVE  Base'
  <2>1. GroupsOK' /\ TasksOK' /\ PermitsMatch' /\ Numbered' /\ Opened' = Opened /\ permits' <= permits
    BY <1>2, <1>5, RemoveBooks DEF dVars, GroupsOK
  <2>2. QueueOK' /\ DispatchOK' /\ WatchOK'
    BY <1>2, <1>5 DEF QueueOK, DispatchOK, WatchOK, dVars, wVars
  <2>3. permits' \in Nat /\ permits \in Nat
    BY <1>2, <2>1 DEF TasksOK
  <2>4. Control'
    BY <1>1, <1>5, <2>1, <2>3, BoundAssumption DEF Control, dVars, wVars
  <2>. QED BY <1>5, <2>1, <2>2, <2>4 DEF Base, TypeOK
<1>6. CASE Get
  <2>1. QueueOK'
    BY <1>2, <1>6, BoundAssumption DEF Get, QueueOK
  <2>2. mpc' \in {"train", "eval"}
    BY <1>6 DEF Get, Kind
  <2>. QED BY <1>2, <1>4, <1>6, <2>1, <2>2 DEF Get, SwitchesOK, MainOK, switchVars
<1>7. CASE BackToGet
  BY <1>2, <1>4, <1>7 DEF BackToGet, QueueOK, SwitchesOK, MainOK, switchVars
<1>8. CASE Ship
  <2>1. gate' \in BOOLEAN
    BY <1>8 DEF Ship, GateOpen
  <2>2. mode' \in {"train", "eval"} /\ evalQueue' \in Seq(EvalEnv)
    <3>1. CASE UNCHANGED <<evalQueue, mode>>
      BY <1>2, <3>1 DEF SwitchesOK
    <3>2. CASE mode' = "eval" /\ \E epoch \in EvalEpochs : evalQueue' = evalQueue \o epoch
      BY <1>2, <3>2, EnvAssumption DEF SwitchesOK
    <3>. QED BY <1>8, <3>1, <3>2 DEF Ship
  <2>3. SwitchesOK'
    BY <1>2, <1>8, <2>1, <2>2 DEF Ship, SwitchesOK
  <2>4. QueueOK' /\ MainOK'
    BY <1>2, <1>8, BoundAssumption DEF Ship, QueueOK, MainOK
  <2>. QED BY <1>4, <1>8, <2>3, <2>4 DEF Ship
<1>9. CASE OnNewVersion
  <2>1. gate' \in BOOLEAN
    BY <1>9 DEF OnNewVersion, GateOpen
  <2>. QED BY <1>2, <1>4, <1>9, <2>1 DEF OnNewVersion, QueueOK, SwitchesOK, MainOK, mVars
<1>10. CASE Drain
  <2> DEFINE S == {t \in Inflight : IsTrain(t[1])}
  <2>1. {t[1] : t \in S} \subseteq Gid /\ {g \in groups : IsTrain(g)} \subseteq Gid
    BY <1>1, <1>2 DEF GroupsOK, Numbered, Opened
  <2>2. abandoned' \subseteq Gid
    BY <1>2, <1>10, <2>1 DEF Drain, QueueOK
  <2>3. SwitchesOK' /\ MainOK'
    BY <1>2, <1>10 DEF Drain, SwitchesOK, MainOK
  <2>. QED BY <1>5, <1>10, <2>2, <2>3 DEF Drain
<1>11. CASE Exit \/ Interrupt
  BY <1>2, <1>4, <1>11 DEF Exit, Interrupt, QueueOK, SwitchesOK, MainOK, switchVars
<1>12. CASE Stop
  <2>1. SwitchesOK' /\ MainOK' /\ abandoned' \subseteq Gid /\ finished' = finished \ Inflight
    BY <1>2, <1>12 DEF Stop, SwitchesOK, MainOK, switchVars, TasksOK
  <2>2. inflight' = Restrict(inflight, Inflight \ Inflight)
    BY <1>12, Inflight \ Inflight = {} DEF Stop
  <2>. QED BY <1>5, <1>12, <2>1, <2>2 DEF Stop
<1>13. CASE StopLoop
  <2>1. UNCHANGED <<genv, toSched, emitted, groups, inflight, finished, permits>> /\ dgid' = None
    BY <1>13 DEF StopLoop, groupVars, taskVars
  <2>2. Opened' = Opened /\ Inflight' = Inflight
    BY <2>1 DEF Opened, Inflight
  <2>3. GroupsOK' /\ TasksOK' /\ PermitsMatch'
    BY <1>1, <1>2, <2>1, <2>2 DEF GroupsOK, TasksOK, PermitsMatch
  <2>4. QueueOK' /\ SwitchesOK' /\ WatchOK' /\ MainOK'
    BY <1>2, <1>13 DEF StopLoop, QueueOK, SwitchesOK, WatchOK, MainOK, switchVars, wVars
  <2>5. DispatchOK'
    BY <1>3, <1>13 DEF StopLoop, DispatchOK
  <2>6. Control'
    BY <1>1, <1>13, <2>2 DEF Control, StopLoop, wVars
  <2>7. Numbered'
    <3>1. \A g \in Opened : /\ Size(g) \in Nat /\ Size(g)' = Size(g) /\ toSched[g] \in Nat
                            /\ B2N(dgid = g) \in Nat /\ B2N(dgid = g)' = 0
      BY <1>2, <1>3, <2>1, EnvAssumption DEF GroupsOK, Opened, Size, B2N
    <3>2. \A t \in Inflight : t[2] \in Nat
      BY <1>2 DEF TasksOK, Task
    <3>. QED BY <1>1, <2>1, <2>2, <3>1, <3>2 DEF Numbered
  <2>. QED BY <2>3, <2>4, <2>5, <2>6, <2>7 DEF Base, TypeOK
<1>. QED BY <1>6, <1>7, <1>8, <1>9, <1>10, <1>11, <1>12, <1>13 DEF MainLoop

LEMMA BaseNext == Base /\ [Next]_vars => Base'
<1>. SUFFICES ASSUME Base, [Next]_vars PROVE Base'
  OBVIOUS
<1>1. GroupsOK /\ TasksOK /\ QueueOK /\ SwitchesOK /\ DispatchOK /\ WatchOK /\ MainOK
  BY DEF Base, TypeOK
<1>2. CASE vars' = vars
  BY <1>2 DEF vars, groupVars, taskVars, switchVars, dVars, wVars, mVars, Base, TypeOK, GroupsOK,
     TasksOK, QueueOK, SwitchesOK, DispatchOK, WatchOK, MainOK, PermitsMatch, Control, Numbered,
     Opened, Inflight, Size
<1>3. ASSUME NEW t \in Inflight, EnvReturns(t) PROVE Base'
  <2>1. UNCHANGED <<inflight, permits, groupVars>> /\ Inflight' = Inflight /\ Opened' = Opened
    BY <1>3 DEF EnvReturns, Inflight, Opened, groupVars
  <2>2. TasksOK' /\ GroupsOK'
    BY <1>1, <1>3, <2>1 DEF EnvReturns, TasksOK, GroupsOK, groupVars
  <2>3. QueueOK' /\ SwitchesOK' /\ DispatchOK' /\ WatchOK' /\ MainOK'
    BY <1>1, <1>3 DEF EnvReturns, QueueOK, SwitchesOK, DispatchOK, WatchOK, MainOK,
       switchVars, dVars, wVars, mVars
  <2>4. PermitsMatch' /\ Control' /\ Numbered'
    BY <1>3, <2>1 DEF EnvReturns, Base, PermitsMatch, Control, Numbered, dVars, wVars, groupVars, Size
  <2>. QED BY <2>2, <2>3, <2>4 DEF Base, TypeOK
<1>. QED BY <1>2, <1>3, BaseDispatch, BaseWatch, BaseMain DEF Next, Terminated

\* Tasks, permits and program counters go together in every reachable state.
THEOREM BaseInvariant == Spec => []Base
BY BaseInit, BaseNext, PTL DEF Spec

\* Type correctness of the dispatcher.
THEOREM TypeCorrect == Spec => []TypeOK
BY BaseInvariant, PTL DEF Base

\* Permits are never leaked, released twice or overdrawn, with and without the rate
\* limiter (fill_inflight, acquire, release).
THEOREM PermitsSafe == Spec => []PermitsMatch
BY BaseInvariant, PTL DEF Base

-----------------------------------------------------------------------------
(* Off-policy sweep *)

\* A step that ends tasks, or starts one with its counter at 0, keeps StaleCovered as
\* long as it leaves wstale alone.
LEMMA CoverKept ==
    ASSUME StaleCovered, wstale' = wstale,
           \A t \in Inflight' : \/ t \in Inflight /\ inflight'[t] = inflight[t]
                                \/ inflight'[t] = 0
    PROVE  StaleCovered'
BY BoundAssumption DEF StaleCovered

LEMMA StartKeepsCounters ==
    ASSUME NEW g, NEW k, Start(g, k)
    PROVE  \A t \in Inflight' : \/ t \in Inflight /\ inflight'[t] = inflight[t]
                                \/ inflight'[t] = 0
BY DEF Start, Inflight

LEMMA RestrictKeepsCounters ==
    ASSUME NEW S, inflight' = Restrict(inflight, S), S \subseteq Inflight
    PROVE  \A t \in Inflight' : t \in Inflight /\ inflight'[t] = inflight[t]
BY DEF Restrict, Inflight

LEMMA StaleNext == Base /\ StaleCovered /\ [Next]_vars => StaleCovered'
<1>. SUFFICES ASSUME Base, StaleCovered, [Next]_vars PROVE StaleCovered'
  OBVIOUS
<1>1. ASSUME wstale' = wstale, UNCHANGED inflight PROVE StaleCovered'
  BY <1>1 DEF StaleCovered, Inflight
<1>2. CASE vars' = vars
  BY <1>1, <1>2 DEF vars, taskVars, wVars
<1>3. CASE Dispatch
  <2>1. wstale' = wstale
    BY <1>3 DEF Dispatch, ContinueGroup, OpenGroup, IssueRollout, Acquired, SwitchToTrain, FillReturn,
       Wake, HandleClaimed, HandleCompleted, PutResult, LoopTop, wVars
  <2>2. ASSUME NEW g \in Gid, ContinueGroup(g) \/ OpenGroup(g) PROVE StaleCovered'
    <3>1. (\E k : Start(g, k)) \/ UNCHANGED inflight
      BY <2>2 DEF ContinueGroup, OpenGroup, IssueRollout, taskVars
    <3>. QED BY <1>1, <2>1, <3>1, CoverKept, StartKeepsCounters
  <2>3. CASE Acquired
    BY <2>1, <2>3, CoverKept, StartKeepsCounters DEF Acquired
  <2>4. ASSUME NEW t \in todo, HandleCompleted(t) PROVE StaleCovered'
    BY <2>1, <2>4, CoverKept, RestrictKeepsCounters DEF HandleCompleted
  <2>5. ASSUME SwitchToTrain \/ FillReturn \/ Wake \/ PutResult \/ LoopTop
               \/ \E t \in todo : HandleClaimed(t)
        PROVE  StaleCovered'
    BY <1>1, <2>1, <2>5 DEF SwitchToTrain, FillReturn, Wake, PutResult, LoopTop, HandleClaimed, taskVars
  <2>. QED BY <1>3, <2>2, <2>3, <2>4, <2>5 DEF Dispatch
<1>4. CASE VersionPending
  <2>1. /\ Inflight' = Inflight
        /\ \A t \in Inflight : inflight'[t] = IF t \in Aged THEN inflight[t] + 1 ELSE inflight[t]
        /\ wstale' = {t[1] : t \in {u \in Inflight : TurnsStale(u)}}
    BY <1>4 DEF VersionPending, Inflight
  <2>2. \A t \in Inflight : inflight[t] <= MaxOffPolicySteps
    BY <1>4, BoundAssumption DEF VersionPending, Base, Control, StaleCovered, TypeOK, TasksOK
  <2>. SUFFICES ASSUME NEW t \in Inflight, inflight'[t] > MaxOffPolicySteps
                PROVE  t[1] \in wstale'
    BY <2>1 DEF StaleCovered
  <2>3. inflight[t] \in Nat
    BY DEF Base, TypeOK, TasksOK
  <2>4. TurnsStale(t)
    BY <2>1, <2>2, <2>3, BoundAssumption DEF TurnsStale
  <2>. QED BY <2>1, <2>4
<1>5. ASSUME NEW g \in Gid, DropClaim(g) PROVE StaleCovered'
  <2>1. /\ inflight' = Restrict(inflight, Inflight \ TasksOf(g)) /\ wstale' = wstale \ {g}
    BY <1>5 DEF DropClaim, Claims
  <2>2. \A t \in Inflight' : t \in Inflight /\ t[1] # g /\ inflight'[t] = inflight[t]
    BY <2>1 DEF Restrict, Inflight, TasksOf
  <2>. QED BY <2>1, <2>2 DEF StaleCovered
<1>6. CASE EmitMarker \/ PutMarker \/ DropEmitted \/ DropCancelled
  BY <1>1, <1>6 DEF EmitMarker, PutMarker, DropEmitted, DropCancelled, taskVars
<1>7. CASE MainLoop
  <2>1. wstale' = wstale
    BY <1>7 DEF MainLoop, Get, BackToGet, Ship, Drain, Exit, Stop, StopLoop, wVars
  <2>2. CASE Drain
    BY <2>1, <2>2, CoverKept, RestrictKeepsCounters DEF Drain
  <2>3. CASE Stop
    BY <2>1, <2>3, CoverKept, RestrictKeepsCounters DEF Stop
  <2>4. CASE Get \/ BackToGet \/ Ship \/ Exit \/ StopLoop
    BY <1>1, <2>1, <2>4 DEF Get, BackToGet, Ship, Exit, StopLoop, taskVars
  <2>. QED BY <1>7, <2>2, <2>3, <2>4 DEF MainLoop
<1>8. CASE OnNewVersion \/ Interrupt \/ Terminated \/ \E t \in Inflight : EnvReturns(t)
  BY <1>1, <1>8 DEF OnNewVersion, Interrupt, Terminated, EnvReturns, vars, taskVars, wVars
<1>. QED BY <1>2, <1>3, <1>4, <1>5, <1>6, <1>7, <1>8 DEF Next, Watch

\* on_version_pending misses no stale task: not one scheduled, finished or released by
\* the rate limiter while drop_group waits for room in out_q.
THEOREM SweepComplete == Spec => []StaleSwept
<1>1. Init => StaleCovered
  BY DEF Init, StaleCovered, Inflight
<1>2. Base /\ StaleCovered => StaleSwept
  BY BoundAssumption DEF Base, TypeOK, TasksOK, Control, StaleCovered, StaleSwept
<1>. QED BY <1>1, <1>2, StaleNext, BaseInvariant, PTL DEF Spec

-----------------------------------------------------------------------------
(* Conservation of episodes *)

LEMMA Parts ==
    ASSUME Base, NEW h \in Gid
    PROVE  /\ Unscheduled(h) \in Nat /\ toSched[h] \in Nat /\ emitted[h] \in Nat /\ ledger[h] \in Nat
           /\ B2N(dgid = h) \in Nat /\ B2N(dput.gid = h) \in Nat /\ MarkersLeft(h) \in Nat
           /\ IsFiniteSet(TasksOf(h)) /\ Cardinality(TasksOf(h)) \in Nat
           /\ Owed(h) \in Nat
           /\ h \in Opened => Size(h) \in Nat
<1>1. GroupsOK /\ TasksOK /\ QueueOK /\ WatchOK
  BY DEF Base, TypeOK
<1>2. Unscheduled(h) \in Nat /\ toSched[h] \in Nat /\ emitted[h] \in Nat /\ ledger[h] \in Nat
  BY <1>1 DEF GroupsOK, QueueOK, Unscheduled
<1>3. B2N(dgid = h) \in Nat /\ B2N(dput.gid = h) \in Nat /\ MarkersLeft(h) \in Nat
  BY <1>1 DEF B2N, MarkersLeft, WatchOK
<1>4. IsFiniteSet(TasksOf(h)) /\ Cardinality(TasksOf(h)) \in Nat
  BY <1>1, TasksFinite DEF TasksOK
<1>5. h \in Opened => Size(h) \in Nat
  BY <1>1, EnvAssumption DEF GroupsOK, Opened, Size
<1>. QED BY <1>2, <1>3, <1>4, <1>5 DEF Owed

LEMMA PartsNext ==
    ASSUME Base', NEW h \in Gid
    PROVE  /\ Unscheduled(h)' \in Nat /\ ledger'[h] \in Nat
           /\ B2N(dgid = h)' \in Nat /\ B2N(dput.gid = h)' \in Nat /\ MarkersLeft(h)' \in Nat
           /\ Cardinality(TasksOf(h))' \in Nat
           /\ Owed(h)' \in Nat
<1>1. GroupsOK' /\ TasksOK' /\ QueueOK' /\ WatchOK'
  BY DEF Base, TypeOK
<1>2. Unscheduled(h)' \in Nat /\ ledger'[h] \in Nat
  BY <1>1 DEF GroupsOK, QueueOK, Unscheduled
<1>3. B2N(dgid = h)' \in Nat /\ B2N(dput.gid = h)' \in Nat /\ MarkersLeft(h)' \in Nat
  BY <1>1 DEF B2N, MarkersLeft, WatchOK
<1>4. TasksOf(h)' \in SUBSET Inflight' /\ IsFiniteSet(Inflight')
  BY <1>1 DEF TasksOf, TasksOK
<1>5. Cardinality(TasksOf(h)') \in Nat
  BY <1>4, FS_Subset, FS_CardinalityType
<1>. QED BY <1>2, <1>3, <1>5 DEF Owed

\* A step that does not touch group h keeps its account.
LEMMA Untouched ==
    ASSUME NEW h \in Gid, Account(h), Owes(h), UNCHANGED <<genv, toSched>>,
           emitted'[h] = emitted[h], ledger'[h] = ledger[h],
           h \in groups' <=> h \in groups, dgid' = h <=> dgid = h, dput'.gid = h <=> dput.gid = h,
           TasksOf(h)' = TasksOf(h), MarkersLeft(h)' = MarkersLeft(h), abandoned \subseteq abandoned'
    PROVE  Account(h)' /\ Owes(h)'
<1>1. Size(h)' = Size(h) /\ (h \in Opened' <=> h \in Opened) /\ Unscheduled(h)' = Unscheduled(h)
  BY DEF Size, Opened, Unscheduled
<1>2. B2N(dgid = h)' = B2N(dgid = h) /\ B2N(dput.gid = h)' = B2N(dput.gid = h)
  BY DEF B2N
<1>3. Owed(h)' = Owed(h)
  BY <1>1, <1>2 DEF Owed
<1>. QED BY <1>1, <1>2, <1>3 DEF Account, Owes

\* A step that moves an episode of group h from one holder to the next keeps its account
\* in balance; one that loses some is allowed when the group is given up.
LEMMA Moved ==
    ASSUME NEW h \in Gid, Account(h), h \in Opened, UNCHANGED genv, abandoned \subseteq abandoned',
           ledger[h] + Owed(h) \in Nat, ledger'[h] + Owed(h)' \in Nat, Size(h) \in Nat,
           \/ ledger'[h] + Owed(h)' = ledger[h] + Owed(h)
           \/ h \in abandoned' /\ ledger'[h] + Owed(h)' <= ledger[h] + Owed(h)
    PROVE  Account(h)'
<1>1. Size(h)' = Size(h) /\ h \in Opened'
  BY DEF Size, Opened
<1>. QED BY <1>1 DEF Account

\* A step that touches no task, group or episode keeps every account.
LEMMA Quiet ==
    ASSUME Accounts, UNCHANGED <<groupVars, dgid, ledger, abandoned, wgid, wowed>>,
           Inflight' = Inflight, dput' = dput, mpc' # "stopped" => mpc # "stopped"
    PROVE  \A h \in Gid : Account(h)' /\ (mpc' # "stopped" => Owes(h)')
<1>. SUFFICES ASSUME NEW h \in Gid PROVE Account(h)' /\ (mpc' # "stopped" => Owes(h)')
  OBVIOUS
<1>1. TasksOf(h)' = TasksOf(h) /\ MarkersLeft(h)' = MarkersLeft(h)
  BY DEF TasksOf, MarkersLeft
<1>2. Size(h)' = Size(h) /\ (h \in Opened' <=> h \in Opened) /\ Unscheduled(h)' = Unscheduled(h)
      /\ B2N(dgid = h)' = B2N(dgid = h) /\ B2N(dput.gid = h)' = B2N(dput.gid = h)
  BY DEF Size, Opened, Unscheduled, groupVars, B2N
<1>3. Owed(h)' = Owed(h)
  BY <1>1, <1>2 DEF Owed
<1>4. Account(h)'
  BY <1>2, <1>3 DEF Accounts, Account, groupVars
<1>5. mpc # "stopped" => Owes(h)'
  BY <1>1, <1>2 DEF Accounts, Owes, groupVars
<1>. QED BY <1>4, <1>5

LEMMA CountStarted ==
    ASSUME IsFiniteSet(Inflight), NEW g, NEW k, <<g, k>> \notin Inflight,
           Inflight' = Inflight \cup {<<g, k>>}
    PROVE  /\ Cardinality(TasksOf(g))' = Cardinality(TasksOf(g)) + 1
           /\ \A h : h # g => TasksOf(h)' = TasksOf(h)
<1>1. TasksOf(g)' = TasksOf(g) \cup {<<g, k>>} /\ <<g, k>> \notin TasksOf(g)
  BY DEF TasksOf
<1>2. \A h : h # g => TasksOf(h)' = TasksOf(h)
  BY DEF TasksOf
<1>3. IsFiniteSet(TasksOf(g))
  BY TasksFinite
<1>. QED BY <1>1, <1>2, <1>3, FS_AddElement

LEMMA CountEnded ==
    ASSUME IsFiniteSet(Inflight), NEW t \in Inflight, Inflight' = Inflight \ {t}
    PROVE  /\ Cardinality(TasksOf(t[1]))' = Cardinality(TasksOf(t[1])) - 1
           /\ Cardinality(TasksOf(t[1])) > 0
           /\ \A h : h # t[1] => TasksOf(h)' = TasksOf(h)
<1>1. TasksOf(t[1])' = TasksOf(t[1]) \ {t} /\ t \in TasksOf(t[1])
  BY DEF TasksOf
<1>2. \A h : h # t[1] => TasksOf(h)' = TasksOf(h)
  BY DEF TasksOf
<1>3. IsFiniteSet(TasksOf(t[1])) /\ Cardinality(TasksOf(t[1])) \in Nat
  BY TasksFinite
<1>4. Cardinality(TasksOf(t[1])) # 0
  BY <1>1, <1>3, FS_EmptySet
<1>5. Cardinality(TasksOf(t[1]) \ {t}) = Cardinality(TasksOf(t[1])) - 1
  BY <1>1, <1>3, FS_RemoveElement
<1>. QED BY <1>1, <1>2, <1>3, <1>4, <1>5

LEMMA AccountsDispatch ==
    ASSUME Base, Base', Accounts, Dispatch
    PROVE  \A h \in Gid : Account(h)' /\ (mpc' # "stopped" => Owes(h)')
<1>1. None \notin Gid /\ NoItem.gid = None /\ (dput \in Item => dput.gid \in Gid)
  BY EnvAssumption DEF NoItem, Result, Item
<1>2. GroupsOK /\ TasksOK /\ QueueOK /\ DispatchOK /\ WatchOK
  BY DEF Base, TypeOK
<1>3. dpc # "done" /\ mpc' = mpc /\ UNCHANGED wVars
  BY DEF Dispatch, MaySchedule, ContinueGroup, OpenGroup, IssueRollout, Acquired, SwitchToTrain, FillReturn,
     Wake, HandleClaimed, HandleCompleted, PutResult, LoopTop, mVars
<1>4. mpc # "stopped" /\ (\A h \in Gid : Account(h) /\ Owes(h))
  BY <1>3 DEF Accounts, Halted
<1>5. \A h \in Gid : MarkersLeft(h)' = MarkersLeft(h)
  BY <1>3 DEF MarkersLeft, wVars
<1>6. ASSUME NEW g \in Gid, g \in Opened, g \in groups, toSched[g] > 0, ContinueGroup(g),
             NEW h \in Gid
      PROVE  Account(h)' /\ Owes(h)'
  <2> DEFINE k == Size(g) - toSched[g] + 1
  <2>1. /\ UNCHANGED <<genv, groups, emitted, ledger, dput, abandoned>> /\ dpc = "fill"
        /\ toSched' = [toSched EXCEPT ![g] = toSched[g] - 1]
        /\ (Start(g, k) /\ dgid' = dgid) \/ (dgid' = g /\ UNCHANGED taskVars)
    BY <1>6 DEF ContinueGroup, IssueRollout, MaySchedule
  <2>2. dgid = None
    BY <1>1, <1>2, <2>1 DEF DispatchOK
  <2>3. <<g, k>> \notin Inflight
    BY <1>2, <1>6, EnvAssumption DEF Base, Numbered, B2N, GroupsOK, Opened, Size
  <2>4. \/ /\ dgid' = None /\ Cardinality(TasksOf(g))' = Cardinality(TasksOf(g)) + 1
           /\ \A x : x # g => TasksOf(x)' = TasksOf(x)
        \/ /\ dgid' = g /\ \A x : TasksOf(x)' = TasksOf(x)
    <3>1. CASE Start(g, k) /\ dgid' = dgid
      BY <1>2, <2>2, <2>3, <3>1, StartCounts, CountStarted DEF TasksOK, Base, PermitsMatch
    <3>2. CASE dgid' = g /\ UNCHANGED taskVars
      BY <3>2 DEF taskVars, TasksOf, Inflight
    <3>. QED BY <2>1, <3>1, <3>2
  <2>5. CASE h = g
    <3>1. B2N(dgid = g) = 0 /\ B2N(dgid = g)' + Cardinality(TasksOf(g))' = Cardinality(TasksOf(g)) + 1
      BY <1>1, <2>2, <2>4, Parts DEF B2N
    <3>2. Unscheduled(g) = toSched[g] /\ Unscheduled(g)' = toSched[g] - 1 /\ toSched'[g] = toSched[g] - 1
      BY <1>2, <1>6, <2>1 DEF Unscheduled, GroupsOK
    <3>3. B2N(dput.gid = g)' = B2N(dput.gid = g)
      BY <2>1 DEF B2N
    <3>4. Owed(g)' = Owed(g)
      BY <1>5, <3>1, <3>2, <3>3, Parts, PartsNext DEF Owed
    <3>5. Account(g)'
      BY <1>4, <1>6, <2>1, <3>4, Parts, Moved
    <3>6. Owes(g)'
      <4>1. Size(g)' = Size(g) /\ emitted'[g] = emitted[g] /\ Size(g) \in Nat
        BY <1>6, <2>1, Parts DEF Size
      <4>2. emitted[g] < Size(g)
            /\ emitted[g] + toSched[g] + B2N(dgid = g) + Cardinality(TasksOf(g)) = Size(g)
        BY <1>4, <1>6 DEF Owes
      <4>3. (emitted[g] + toSched[g] + B2N(dgid = g) + Cardinality(TasksOf(g)))' = Size(g)
        BY <3>1, <3>2, <4>1, <4>2, Parts, PartsNext
      <4>. QED BY <4>1, <4>2, <4>3 DEF Owes
    <3>. QED BY <2>5, <3>5, <3>6
  <2>6. CASE h # g
    <3>1. TasksOf(h)' = TasksOf(h) /\ (dgid' = h <=> dgid = h)
      BY <1>1, <2>2, <2>4, <2>6
    <3>2. toSched'[h] = toSched[h]
      BY <1>2, <2>1, <2>6 DEF GroupsOK
    <3>. QED BY <1>4, <1>5, <2>1, <3>1, <3>2 DEF Untouched, Account, Owes, Owed, Unscheduled, Size, Opened, B2N
  <2>. QED BY <2>5, <2>6
<1>7. ASSUME NEW g \in Gid, OpenGroup(g), NEW h \in Gid
      PROVE  Account(h)' /\ Owes(h)'
  <2>1. g \notin Opened /\ dpc = "fill"
    BY <1>7 DEF OpenGroup, MaySchedule
  <2>2. PICK e \in FreshEnvs(mode) :
           /\ genv' = [genv EXCEPT ![g] = e] /\ groups' = groups \cup {g}
           /\ IssueRollout(g, GroupSize[e], GroupSize[e])
    BY <1>7 DEF OpenGroup
  <2>3. e \in Env /\ e # None /\ GroupSize[e] \in Nat /\ GroupSize[e] > 0
    BY <1>2, <1>7, EnvAssumption DEF FreshEnvs, Env, OpenGroup, Base, TypeOK, SwitchesOK
  <2> DEFINE k == GroupSize[e] - GroupSize[e] + 1
  <2>4. /\ UNCHANGED <<emitted, ledger, dput, abandoned>>
        /\ toSched' = [toSched EXCEPT ![g] = GroupSize[e] - 1]
        /\ (Start(g, k) /\ dgid' = dgid) \/ (dgid' = g /\ UNCHANGED taskVars)
    BY <1>7, <2>2 DEF OpenGroup, IssueRollout
  <2>5. dgid = None
    BY <1>1, <1>2, <2>1 DEF DispatchOK
  <2>6. \A t \in Inflight : t[1] # g
    BY <2>1 DEF Base, Numbered
  <2>7. TasksOf(g) = {} /\ Cardinality(TasksOf(g)) = 0
    BY <2>6, FS_EmptySet DEF TasksOf
  <2>8. \/ /\ dgid' = None /\ Cardinality(TasksOf(g))' = 1
           /\ \A x : x # g => TasksOf(x)' = TasksOf(x)
        \/ /\ dgid' = g /\ \A x : TasksOf(x)' = TasksOf(x)
    <3>1. CASE Start(g, k) /\ dgid' = dgid
      <4>1. <<g, k>> \notin Inflight
        BY <2>6
      <4>2. Inflight' = Inflight \cup {<<g, k>>}
        BY <1>2, <3>1, <4>1, StartCounts DEF TasksOK, Base, PermitsMatch
      <4>3. /\ Cardinality(TasksOf(g))' = Cardinality(TasksOf(g)) + 1
            /\ \A x : x # g => TasksOf(x)' = TasksOf(x)
        BY <1>2, <4>1, <4>2, CountStarted DEF TasksOK
      <4>. QED BY <2>5, <2>7, <3>1, <4>3
    <3>2. CASE dgid' = g /\ UNCHANGED taskVars
      BY <3>2 DEF taskVars, TasksOf, Inflight
    <3>. QED BY <2>4, <3>1, <3>2
  <2>9. CASE h = g
    <3>1. B2N(dgid = g)' + Cardinality(TasksOf(g))' = 1
      BY <1>1, <2>7, <2>8 DEF B2N
    <3>2. /\ genv'[g] = e /\ g \in Opened' /\ Size(g)' = GroupSize[e]
          /\ toSched'[g] = GroupSize[e] - 1 /\ Unscheduled(g)' = GroupSize[e] - 1
      BY <1>2, <2>2, <2>3, <2>4 DEF GroupsOK, Opened, Size, Unscheduled
    <3>3. B2N(dput.gid = g)' = 0 /\ ledger'[g] = 0 /\ emitted'[g] = 0
      BY <1>4, <2>1, <2>4 DEF Account, B2N
    <3>4. wgid # g /\ MarkersLeft(g) = 0
      BY <1>1, <1>2, <2>1 DEF Base, Control, MarkersLeft, WatchOK
    <3>5. Owed(g)' = GroupSize[e]
      BY <1>5, <2>3, <3>1, <3>2, <3>3, <3>4, PartsNext DEF Owed
    <3>6. Account(g)'
      BY <2>3, <3>2, <3>3, <3>5 DEF Account
    <3>7. Owes(g)'
      BY <2>3, <3>1, <3>2, <3>3, PartsNext DEF Owes
    <3>. QED BY <2>9, <3>6, <3>7
  <2>10. CASE h # g
    <3>1. TasksOf(h)' = TasksOf(h) /\ (dgid' = h <=> dgid = h) /\ (h \in groups' <=> h \in groups)
      BY <1>1, <2>2, <2>5, <2>8, <2>10
    <3>2. toSched'[h] = toSched[h] /\ genv'[h] = genv[h]
      BY <1>2, <2>2, <2>4, <2>10 DEF GroupsOK
    <3>3. /\ Size(h)' = Size(h) /\ (h \in Opened' <=> h \in Opened) /\ Unscheduled(h)' = Unscheduled(h)
          /\ B2N(dgid = h)' = B2N(dgid = h) /\ B2N(dput.gid = h)' = B2N(dput.gid = h)
      BY <2>4, <3>1, <3>2 DEF Size, Opened, Unscheduled, B2N
    <3>4. Owed(h)' = Owed(h)
      BY <1>5, <3>1, <3>3 DEF Owed
    <3>. QED BY <1>4, <2>4, <3>1, <3>2, <3>3, <3>4 DEF Account, Owes
  <2>. QED BY <2>9, <2>10
<1>8. ASSUME Acquired, NEW g \in Gid, dgid = g, NEW h \in Gid PROVE Account(h)' /\ Owes(h)'
  <2> DEFINE k == Size(g) - toSched[g]
  <2>1. /\ UNCHANGED <<genv, groups, toSched, emitted, ledger, dput, abandoned>>
        /\ dgid' = None /\ Start(g, k)
    BY <1>8 DEF Acquired, groupVars
  <2>2. g \in Opened /\ Size(g) \in Nat /\ toSched[g] \in Nat
    BY <1>1, <1>2, <1>8, EnvAssumption DEF Base, Control, GroupsOK, Opened, Size
  <2>3. <<g, k>> \notin Inflight
    BY <1>8, <2>2 DEF Base, Numbered, B2N
  <2>4. Inflight' = Inflight \cup {<<g, k>>}
    BY <1>2, <2>1, <2>3, StartCounts DEF TasksOK, Base, PermitsMatch
  <2>5. /\ Cardinality(TasksOf(g))' = Cardinality(TasksOf(g)) + 1
        /\ \A x : x # g => TasksOf(x)' = TasksOf(x)
    BY <1>2, <2>3, <2>4, CountStarted DEF TasksOK
  <2>6. CASE h = g
    <3>1. B2N(dgid = g) = 1 /\ B2N(dgid = g)' = 0
      BY <1>1, <1>8, <2>1 DEF B2N
    <3>2. Unscheduled(g)' = Unscheduled(g) /\ B2N(dput.gid = g)' = B2N(dput.gid = g) /\ Size(g)' = Size(g)
      BY <2>1 DEF Unscheduled, B2N, Size
    <3>3. Owed(g)' = Owed(g)
      BY <1>5, <2>5, <3>1, <3>2, Parts DEF Owed
    <3>4. Account(g)'
      BY <1>4, <2>1, <2>2, <3>3, Parts, Moved
    <3>5. Owes(g)'
      BY <1>4, <2>1, <2>5, <3>1, <3>2, Parts DEF Owes
    <3>. QED BY <2>6, <3>4, <3>5
  <2>7. CASE h # g
    <3>1. TasksOf(h)' = TasksOf(h) /\ (dgid' = h <=> dgid = h)
      BY <1>1, <1>8, <2>1, <2>5, <2>7
    <3>. QED BY <1>4, <1>5, <2>1, <3>1, Untouched
  <2>. QED BY <2>6, <2>7
<1>9. ASSUME NEW t \in todo, HandleCompleted(t), NEW g \in Gid, t[1] = g, NEW h \in Gid
      PROVE  Account(h)' /\ Owes(h)'
  <2>1. /\ UNCHANGED <<genv, toSched, dgid, abandoned>> /\ dpc = "handle" /\ t \in Inflight
        /\ Inflight' = Inflight \ {t}
        /\ emitted' = IF g \in groups THEN [emitted EXCEPT ![g] = @ + 1] ELSE emitted
        /\ groups' = IF g \in groups /\ LastOwed(g) THEN groups \ {g} ELSE groups
        /\ \/ dput' = Result(g, inflight[t]) /\ UNCHANGED ledger
           \/ ledger' = [ledger EXCEPT ![g] = @ + 1] /\ UNCHANGED dput
    BY <1>9 DEF HandleCompleted, Put, Result, Restrict, Inflight
  <2>2. dput = NoItem /\ dgid = None /\ g \in Opened
    BY <1>1, <1>2, <1>9, <2>1 DEF DispatchOK, Base, Numbered
  <2>3. /\ Cardinality(TasksOf(g))' = Cardinality(TasksOf(g)) - 1 /\ Cardinality(TasksOf(g)) > 0
        /\ \A x : x # g => TasksOf(x)' = TasksOf(x)
    BY <1>2, <1>9, <2>1, CountEnded DEF TasksOK
  <2>4. /\ B2N(dput.gid = g) = 0 /\ B2N(dgid = g) = 0 /\ B2N(dgid = g)' = 0 /\ Size(g)' = Size(g)
    BY <1>1, <2>1, <2>2 DEF B2N, Size
  <2>5. CASE h = g
    <3>1. B2N(dput.gid = g)' + ledger'[g] = ledger[g] + 1
      BY <1>1, <1>2, <2>1, <2>2, Parts DEF B2N, Result, QueueOK
    <3>2. Unscheduled(g)' = Unscheduled(g)
      <4>1. CASE g \in groups /\ LastOwed(g)
        <5>1. toSched[g] = 0
          BY <1>4, <2>3, <2>4, <4>1, Parts DEF Owes, LastOwed
        <5>. QED BY <2>1, <4>1, <5>1 DEF Unscheduled
      <4>2. CASE ~(g \in groups /\ LastOwed(g))
        BY <2>1, <4>2 DEF Unscheduled
      <4>. QED BY <4>1, <4>2
    <3>3. ledger'[g] + Owed(g)' = ledger[g] + Owed(g)
      BY <1>5, <2>3, <2>4, <3>1, <3>2, Parts, PartsNext DEF Owed
    <3>4. Account(g)'
      BY <1>4, <2>1, <2>2, <3>3, Parts, Moved
    <3>5. Owes(g)'
      <4>. SUFFICES ASSUME g \in groups' PROVE Owes(g)'
        BY DEF Owes
      <4>1. g \in groups /\ ~LastOwed(g) /\ emitted'[g] = emitted[g] + 1
        BY <1>2, <2>1 DEF GroupsOK
      <4>2. emitted'[g] < Size(g)
        BY <4>1, <2>2, Parts DEF LastOwed
      <4>. QED BY <1>4, <2>1, <2>3, <2>4, <4>1, <4>2, Parts DEF Owes
    <3>. QED BY <2>5, <3>4, <3>5
  <2>6. CASE h # g
    <3>1. /\ emitted'[h] = emitted[h] /\ ledger'[h] = ledger[h] /\ (h \in groups' <=> h \in groups)
          /\ (dput'.gid = h <=> dput.gid = h) /\ TasksOf(h)' = TasksOf(h)
      BY <1>1, <1>2, <2>1, <2>2, <2>3, <2>6 DEF GroupsOK, QueueOK, Result
    <3>. QED BY <1>4, <1>5, <2>1, <3>1, Untouched
  <2>. QED BY <2>5, <2>6
<1>10. ASSUME PutResult, NEW g \in Gid, dput.gid = g, NEW h \in Gid PROVE Account(h)' /\ Owes(h)'
  <2>1. /\ UNCHANGED <<genv, groups, toSched, emitted, dgid, abandoned>> /\ dput' = NoItem
        /\ Inflight' = Inflight /\ ledger' = [ledger EXCEPT ![g] = @ + 1]
    BY <1>10 DEF PutResult, Put, groupVars, taskVars, Inflight
  <2>2. TasksOf(h)' = TasksOf(h) /\ B2N(dgid = h)' = B2N(dgid = h) /\ Size(h)' = Size(h)
        /\ Unscheduled(h)' = Unscheduled(h)
    BY <2>1 DEF TasksOf, B2N, Size, Unscheduled
  <2>3. CASE h = g
    <3>1. B2N(dput.gid = g) = 1 /\ B2N(dput.gid = g)' = 0 /\ ledger'[g] = ledger[g] + 1 /\ g \in Opened
      BY <1>1, <1>2, <1>4, <1>10, <2>1 DEF B2N, QueueOK, Account
    <3>2. ledger'[g] + Owed(g)' = ledger[g] + Owed(g)
      BY <1>5, <2>2, <2>3, <3>1, Parts DEF Owed
    <3>3. Account(g)'
      BY <1>4, <2>1, <3>1, <3>2, Parts, Moved
    <3>4. Owes(g)'
      BY <1>4, <2>1, <2>2, <2>3 DEF Owes
    <3>. QED BY <2>3, <3>3, <3>4
  <2>4. CASE h # g
    <3>1. ledger'[h] = ledger[h] /\ (dput'.gid = h <=> dput.gid = h)
      BY <1>1, <1>2, <1>10, <2>1, <2>4 DEF QueueOK
    <3>. QED BY <1>4, <1>5, <2>1, <2>2, <3>1, Untouched
  <2>. QED BY <2>3, <2>4
<1>11. ASSUME SwitchToTrain \/ FillReturn \/ Wake \/ LoopTop \/ \E t \in todo : HandleClaimed(t)
       PROVE  \A h \in Gid : Account(h)' /\ (mpc' # "stopped" => Owes(h)')
  <2>1. UNCHANGED <<groupVars, dgid, ledger, abandoned, wgid, wowed, dput, inflight>>
    BY <1>3, <1>11 DEF SwitchToTrain, FillReturn, Wake, LoopTop, HandleClaimed, taskVars, dVars, wVars
  <2>. QED BY <1>4, <2>1, Quiet DEF Inflight
<1>12. Acquired => dgid \in Gid
  BY <1>2 DEF Acquired, DispatchOK
<1>13. PutResult => dput.gid \in Gid
  BY <1>1, <1>2 DEF PutResult, DispatchOK
<1>14. \A t \in todo : t[1] \in Gid
  BY <1>2 DEF DispatchOK, Task
<1>15. \A g \in Gid : ContinueGroup(g) => g \in Opened /\ g \in groups /\ toSched[g] > 0
  BY <1>2 DEF ContinueGroup, Continuable, GroupsOK
<1>. QED BY <1>6, <1>7, <1>8, <1>9, <1>10, <1>11, <1>12, <1>13, <1>14, <1>15 DEF Dispatch

LEMMA AccountsWatch ==
    ASSUME Base, Base', Accounts, Watch
    PROVE  \A h \in Gid : Account(h)' /\ (mpc' # "stopped" => Owes(h)')
<1>1. None \notin Gid
  BY EnvAssumption
<1>2. GroupsOK /\ TasksOK /\ QueueOK /\ WatchOK
  BY DEF Base, TypeOK
<1>3. mpc' = mpc /\ UNCHANGED <<genv, toSched, emitted, dVars, abandoned>>
  BY DEF Watch, VersionPending, DropClaim, EmitMarker, PutMarker, DropEmitted, DropCancelled,
     groupVars, mVars
<1>4. ASSUME NEW h \in Gid
      PROVE  Account(h) /\ (mpc # "stopped" => Owes(h)) /\ B2N(dgid = h)' = B2N(dgid = h)
             /\ B2N(dput.gid = h)' = B2N(dput.gid = h) /\ Size(h)' = Size(h)
  BY <1>3 DEF Accounts, dVars, B2N, Size
<1>5. CASE VersionPending
  <2>1. UNCHANGED <<groupVars, dgid, ledger, abandoned, wgid, wowed, dput>> /\ Inflight' = Inflight
    BY <1>5 DEF VersionPending, dVars, Inflight
  <2>. QED BY <1>3, <2>1, Quiet
<1>6. ASSUME NEW g \in Gid, DropClaim(g), NEW h \in Gid
      PROVE  Account(h)' /\ (mpc' # "stopped" => Owes(h)')
  <2>1. /\ wgid = None /\ wgid' = g /\ g \in Opened /\ groups' = groups \ {g} /\ ledger' = ledger
        /\ Inflight' = Inflight \ TasksOf(g)
        /\ wowed' = Cardinality(TasksOf(g)) + Unscheduled(g)
    BY <1>6 DEF DropClaim, Base, Control, Claims, Markers, Restrict, Inflight
  <2>2. MarkersLeft(h) = 0
    BY <1>1, <2>1 DEF MarkersLeft
  <2>3. CASE h = g
    <3>1. MarkersLeft(g)' = Cardinality(TasksOf(g)) + Unscheduled(g) /\ Unscheduled(g)' = 0
      BY <2>1 DEF MarkersLeft, Unscheduled
    <3>2. Cardinality(TasksOf(g))' = 0
      <4>1. TasksOf(g)' = {}
        BY <2>1 DEF TasksOf
      <4>. QED BY <4>1, FS_EmptySet
    <3>3. Owed(g)' = Owed(g)
      BY <1>4, <2>2, <2>3, <3>1, <3>2, Parts DEF Owed
    <3>4. Account(g)'
      BY <1>3, <1>4, <2>1, <3>3, Parts, Moved
    <3>5. Owes(g)'
      BY <2>1 DEF Owes
    <3>. QED BY <2>3, <3>4, <3>5
  <2>4. CASE h # g
    <3>1. TasksOf(h)' = TasksOf(h)
      BY <2>1, <2>4 DEF TasksOf
    <3>2. MarkersLeft(h)' = MarkersLeft(h) /\ Unscheduled(h)' = Unscheduled(h)
      BY <1>3, <2>1, <2>2, <2>4 DEF MarkersLeft, Unscheduled
    <3>3. Owed(h)' = Owed(h) /\ (h \in Opened' <=> h \in Opened) /\ (h \in groups' <=> h \in groups)
      BY <1>3, <1>4, <2>1, <2>4, <3>1, <3>2 DEF Owed, Opened
    <3>. QED BY <1>3, <1>4, <2>1, <3>1, <3>3 DEF Account, Owes, dVars
  <2>. QED BY <2>3, <2>4
<1>7. ASSUME UNCHANGED <<groups, taskVars>>, NEW h \in Gid,
             ledger'[h] + MarkersLeft(h)' = ledger[h] + MarkersLeft(h),
             ledger'[h] # ledger[h] => h \in Opened
      PROVE  Account(h)' /\ (mpc' # "stopped" => Owes(h)')
  <2>1. TasksOf(h)' = TasksOf(h) /\ Unscheduled(h)' = Unscheduled(h) /\ (h \in Opened' <=> h \in Opened)
        /\ UNCHANGED <<dgid, dput>>
    BY <1>3, <1>7 DEF TasksOf, Unscheduled, Opened, taskVars, Inflight, dVars
  <2>2. ledger'[h] + Owed(h)' = ledger[h] + Owed(h)
    BY <1>4, <1>7, <2>1, Parts, PartsNext DEF Owed
  <2>3. Account(h)'
    BY <1>3, <1>4, <1>7, <2>1, <2>2 DEF Account
  <2>4. mpc # "stopped" => Owes(h)'
    BY <1>3, <1>4, <1>7, <2>1 DEF Owes
  <2>. QED BY <1>3, <2>3, <2>4
<1>8. ASSUME EmitMarker \/ PutMarker, NEW h \in Gid
      PROVE  Account(h)' /\ (mpc' # "stopped" => Owes(h)')
  <2>1. wgid \in Opened /\ wgid \in Gid /\ wowed \in Nat /\ UNCHANGED <<groups, taskVars, wgid>>
    BY <1>2, <1>8 DEF EmitMarker, PutMarker, Base, Control, WatchOK, Opened, groupVars
  <2>2. \/ UNCHANGED <<ledger, wowed>>
        \/ wowed' = wowed - 1 /\ ledger' = [ledger EXCEPT ![wgid] = @ + 1]
    BY <1>8 DEF EmitMarker, PutMarker, Put, Cancelled
  <2>3. ledger'[h] + MarkersLeft(h)' = ledger[h] + MarkersLeft(h)
    <3>1. ledger[h] \in Nat /\ wowed \in Nat /\ wgid' = wgid
      BY <1>2, <2>1 DEF QueueOK
    <3>2. CASE UNCHANGED <<ledger, wowed>>
      BY <3>1, <3>2 DEF MarkersLeft
    <3>3. CASE wowed' = wowed - 1 /\ ledger' = [ledger EXCEPT ![wgid] = @ + 1] /\ h = wgid
      <4>1. ledger'[h] = ledger[h] + 1
        BY <1>2, <3>3 DEF QueueOK
      <4>2. MarkersLeft(h) = wowed /\ MarkersLeft(h)' = wowed - 1
        BY <3>1, <3>3 DEF MarkersLeft
      <4>. QED BY <3>1, <4>1, <4>2
    <3>4. CASE wowed' = wowed - 1 /\ ledger' = [ledger EXCEPT ![wgid] = @ + 1] /\ h # wgid
      BY <1>2, <3>1, <3>4 DEF MarkersLeft, QueueOK
    <3>. QED BY <2>2, <3>2, <3>3, <3>4
  <2>4. ledger'[h] # ledger[h] => h \in Opened
    BY <1>2, <2>1, <2>2 DEF QueueOK
  <2>. QED BY <1>7, <2>1, <2>3, <2>4
<1>9. ASSUME DropEmitted \/ DropCancelled, NEW h \in Gid
      PROVE  Account(h)' /\ (mpc' # "stopped" => Owes(h)')
  <2>1. wowed = 0 /\ UNCHANGED <<groups, taskVars, ledger, wowed>>
    BY <1>9 DEF DropEmitted, DropCancelled, Base, Control, groupVars
  <2>2. MarkersLeft(h)' = MarkersLeft(h)
    BY <2>1 DEF MarkersLeft
  <2>. QED BY <1>7, <2>1, <2>2
<1>. QED BY <1>5, <1>6, <1>8, <1>9 DEF Watch

LEMMA AccountsMain ==
    ASSUME Base, Base', Accounts, MainLoop \/ OnNewVersion \/ Interrupt
    PROVE  \A h \in Gid : Account(h)' /\ (mpc' # "stopped" => Owes(h)')
<1>1. None \notin Gid /\ NoItem.gid = None
  BY EnvAssumption DEF NoItem, Result
<1>2. GroupsOK /\ TasksOK /\ QueueOK
  BY DEF Base, TypeOK
<1>3. UNCHANGED <<genv, toSched, emitted, ledger, wgid, wowed>>
  BY DEF MainLoop, Get, BackToGet, Ship, Drain, Exit, Stop, StopLoop, OnNewVersion, Interrupt,
     groupVars, wVars
<1>4. CASE Get \/ BackToGet \/ Ship \/ Exit \/ OnNewVersion \/ Interrupt
  <2>1. \/ UNCHANGED <<groupVars, dgid, ledger, abandoned, wgid, wowed, dput, inflight>> /\ mpc # "stopped"
        \/ UNCHANGED <<groupVars, dgid, ledger, abandoned, wgid, wowed, dput, inflight, mpc>>
    BY <1>3, <1>4 DEF Get, BackToGet, Ship, Exit, OnNewVersion, Interrupt, taskVars, dVars, mVars
  <2>. QED BY <2>1, Quiet DEF Inflight
<1>5. ASSUME NEW h \in Gid, NEW S, S \subseteq Inflight, Inflight' = Inflight \ S,
             UNCHANGED dVars, groups' \subseteq groups, abandoned \subseteq abandoned',
             h \in groups \ groups' => h \in abandoned',
             h \in {t[1] : t \in S} => h \in abandoned' /\ h \notin groups',
             mpc # "stopped"
      PROVE  Account(h)' /\ Owes(h)'
  <2>1. Account(h) /\ Owes(h) /\ MarkersLeft(h)' = MarkersLeft(h) /\ dgid' = dgid /\ dput' = dput
    BY <1>3, <1>5 DEF Accounts, MarkersLeft, dVars
  <2>2. TasksOf(h)' \in SUBSET TasksOf(h)
    BY <1>5 DEF TasksOf
  <2>3. Cardinality(TasksOf(h)') <= Cardinality(TasksOf(h))
    BY <1>2, <2>2, TasksFinite, FS_Subset DEF TasksOK
  <2>4. CASE h \notin {t[1] : t \in S} /\ (h \in groups' <=> h \in groups)
    <3>1. TasksOf(h)' = TasksOf(h)
      BY <1>5, <2>4 DEF TasksOf
    <3>. QED BY <1>3, <1>5, <2>1, <2>4, <3>1, Untouched
  <2>5. CASE h \in abandoned' /\ h \notin groups'
    <3>1. Unscheduled(h)' = 0 /\ B2N(dgid = h)' = B2N(dgid = h) /\ B2N(dput.gid = h)' = B2N(dput.gid = h)
      BY <2>1, <2>5 DEF Unscheduled, B2N
    <3>2. Owed(h)' <= Owed(h)
      BY <2>1, <2>3, <3>1, Parts, PartsNext DEF Owed
    <3>3. h \in Opened => Account(h)'
      BY <1>3, <1>5, <2>1, <2>5, <3>2, Parts, PartsNext, Moved
    <3>4. h \notin Opened => Account(h)'
      BY <1>3, <2>1 DEF Account, Opened
    <3>. QED BY <2>5, <3>3, <3>4 DEF Owes
  <2>. QED BY <1>5, <2>4, <2>5
<1>6. CASE Drain
  <2> DEFINE S == {t \in Inflight : IsTrain(t[1])}
  <2>1. /\ Inflight' = Inflight \ S /\ UNCHANGED dVars /\ groups' = groups \ {t[1] : t \in S}
        /\ abandoned' = abandoned \cup {t[1] : t \in S} \cup {g \in groups : IsTrain(g)}
        /\ mpc # "stopped"
    BY <1>6 DEF Drain, Restrict, Inflight
  <2>. QED BY <1>5, <2>1
<1>7. CASE Stop
  <2>1. /\ Inflight' = Inflight \ Inflight /\ UNCHANGED dVars /\ groups' = {} /\ abandoned' = Gid
        /\ mpc # "stopped"
    BY <1>7 DEF Stop, Restrict, Inflight
  <2>. QED BY <1>2, <1>5, <2>1 DEF QueueOK
<1>8. CASE StopLoop
  <2>. SUFFICES ASSUME NEW h \in Gid PROVE Account(h)'
    BY <1>8 DEF StopLoop
  <2>1. /\ abandoned = Gid /\ abandoned' = Gid /\ dgid' = None /\ dput' = NoItem /\ groups' = groups
        /\ TasksOf(h)' = TasksOf(h) /\ Account(h)
    BY <1>8 DEF StopLoop, Accounts, Halted, Stopping, groupVars, taskVars, TasksOf, Inflight
  <2>2. B2N(dgid = h)' = 0 /\ B2N(dput.gid = h)' = 0 /\ Unscheduled(h)' = Unscheduled(h)
        /\ MarkersLeft(h)' = MarkersLeft(h)
    BY <1>1, <1>3, <2>1 DEF B2N, Unscheduled, MarkersLeft
  <2>3. Owed(h)' <= Owed(h)
    BY <2>1, <2>2, Parts DEF Owed
  <2>4. h \in Opened => Account(h)'
    BY <1>3, <2>1, <2>3, Parts, PartsNext, Moved
  <2>5. h \notin Opened => Account(h)'
    BY <1>1, <1>3, <2>1 DEF Account, Opened
  <2>. QED BY <2>4, <2>5
<1>. QED BY <1>4, <1>6, <1>7, <1>8 DEF MainLoop

LEMMA HaltedNext ==
    ASSUME Base, Halted, Next PROVE Halted'
<1>1. CASE Dispatch
  <2>1. dpc # "done" /\ UNCHANGED <<mpc, abandoned>>
    BY <1>1 DEF Dispatch, MaySchedule, ContinueGroup, OpenGroup, IssueRollout, Acquired, SwitchToTrain,
       FillReturn, Wake, HandleClaimed, HandleCompleted, PutResult, LoopTop, mVars
  <2>. QED BY <2>1 DEF Halted, Stopping
<1>2. CASE Watch \/ OnNewVersion \/ \E t \in Inflight : EnvReturns(t)
  <2>1. UNCHANGED <<mpc, abandoned, dpc>>
    BY <1>2 DEF Watch, VersionPending, DropClaim, EmitMarker, PutMarker, DropEmitted, DropCancelled,
       OnNewVersion, EnvReturns, mVars, dVars
  <2>. QED BY <2>1 DEF Halted, Stopping
<1>3. CASE Get \/ BackToGet \/ Ship \/ Drain \/ Exit \/ Interrupt
  BY <1>3 DEF Get, BackToGet, Ship, Drain, Exit, Interrupt, Kind, Halted, Stopping
<1>4. CASE Stop
  BY <1>4 DEF Stop, Halted, Stopping
<1>5. CASE StopLoop
  BY <1>5 DEF StopLoop, Halted, Stopping
<1>6. CASE Terminated
  BY <1>6 DEF Terminated, vars, mVars, dVars, Halted, Stopping
<1>. QED BY <1>1, <1>2, <1>3, <1>4, <1>5, <1>6 DEF Next, MainLoop

LEMMA AccountsInit == Init => Accounts
<1>. SUFFICES ASSUME Init PROVE Accounts
  OBVIOUS
<1>1. Halted
  BY DEF Init, Halted, Stopping
<1>2. Opened = {}
  BY EnvAssumption DEF Init, Opened
<1>3. dput.gid \notin Gid
  BY EnvAssumption DEF Init, NoItem, Result
<1>4. \A g \in Gid : Account(g) /\ Owes(g)
  BY <1>2, <1>3 DEF Init, Account, Owes
<1>. QED BY <1>1, <1>4 DEF Accounts

LEMMA AccountsNext == Base /\ Base' /\ Accounts /\ [Next]_vars => Accounts'
<1>. SUFFICES ASSUME Base, Base', Accounts, [Next]_vars PROVE Accounts'
  OBVIOUS
<1>1. CASE vars' = vars
  <2>1. UNCHANGED <<groupVars, dgid, ledger, abandoned, wgid, wowed, dput, inflight, mpc, dpc>>
    BY <1>1 DEF vars, taskVars, dVars, wVars, mVars
  <2>2. Halted'
    BY <2>1 DEF Accounts, Halted, Stopping
  <2>. QED BY <2>1, <2>2, Quiet DEF Inflight, Accounts
<1>2. CASE Next
  <2>1. Halted'
    BY <1>2, HaltedNext DEF Accounts
  <2>2. ASSUME NEW t \in Inflight, EnvReturns(t)
        PROVE  \A h \in Gid : Account(h)' /\ (mpc' # "stopped" => Owes(h)')
    <3>1. UNCHANGED <<groupVars, dgid, ledger, abandoned, wgid, wowed, dput, inflight, mpc>>
      BY <2>2 DEF EnvReturns, dVars, wVars, mVars
    <3>. QED BY <3>1, Quiet DEF Inflight
  <2>3. CASE Terminated
    BY <1>1, <2>3 DEF Terminated, Accounts
  <2>. QED BY <1>2, <2>1, <2>2, <2>3, AccountsDispatch, AccountsWatch, AccountsMain DEF Next, Accounts
<1>. QED BY <1>1, <1>2

\* Every group's account balances: what it has delivered, what some actor still owes and
\* what self.groups says of it.
THEOREM AccountsInvariant == Spec => []Accounts
BY AccountsInit, AccountsNext, BaseInvariant, PTL DEF Spec

\* Every episode of a group is delivered or still held by exactly one actor: none is lost
\* and none doubled between the dispatch loop, drop_group and a full out_q.
THEOREM EpisodesKept == Spec => []EpisodesConserved
<1>1. Accounts => EpisodesConserved
  BY DEF Accounts, Account, EpisodesConserved, Opened
<1>. QED BY <1>1, AccountsInvariant, PTL

\* self.groups holds no group that owes nothing.
THEOREM GroupsNeverLeak == Spec => []GroupsOwe
<1>1. Base /\ Accounts => GroupsOwe
  BY DEF Base, TypeOK, GroupsOK, Opened, Accounts, Owes, GroupsOwe
<1>. QED BY <1>1, AccountsInvariant, BaseInvariant, PTL

-----------------------------------------------------------------------------
(* The dispatcher implements EpisodeLedger *)

\* An episode someone holds for an opened group is one the ledger still lets through.
LEMMA MayDeliver ==
    ASSUME Base, Accounts, NEW g \in Gid, g \in Opened, Owed(g) > 0,
           UNCHANGED <<genv, abandoned>>, ledger' = [ledger EXCEPT ![g] = @ + 1]
    PROVE  Ledger!Next
<1>1. ledger[g] + Owed(g) <= Size(g) /\ genv[g] # None
  BY DEF Accounts, Account, Opened
<1>2. ledger[g] < GroupSize[genv[g]]
  BY <1>1, Parts DEF Size
<1>3. Ledger!Deliver(g)
  BY <1>1, <1>2 DEF Ledger!Deliver
<1>. QED BY <1>3 DEF Ledger!Next

LEMMA LedgerStep == Base /\ Accounts /\ [Next]_vars => [Ledger!Next]_(Ledger!vars)
<1>. SUFFICES ASSUME Base, Accounts, [Next]_vars
              PROVE  Ledger!Next \/ UNCHANGED <<genv, ledger, abandoned>>
  BY DEF Ledger!vars
<1>1. GroupsOK /\ TasksOK /\ QueueOK /\ DispatchOK /\ WatchOK
  BY DEF Base, TypeOK
<1>2. None \notin Gid
  BY EnvAssumption
<1>3. CASE vars' = vars \/ Terminated
  BY <1>3 DEF vars, groupVars, Terminated
<1>4. ASSUME NEW g \in Gid, OpenGroup(g) PROVE Ledger!Next
  <2>1. PICK e \in Env : genv' = [genv EXCEPT ![g] = e]
    <3>1. FreshEnvs(mode) \subseteq Env
      BY DEF FreshEnvs, Env, Base, TypeOK, SwitchesOK
    <3>. QED BY <1>4, <3>1 DEF OpenGroup
  <2>2. genv[g] = None /\ UNCHANGED <<ledger, abandoned>>
    BY <1>4 DEF OpenGroup, Opened, IssueRollout
  <2>3. Ledger!Open(g)
    BY <2>1, <2>2 DEF Ledger!Open
  <2>. QED BY <2>3 DEF Ledger!Next
<1>5. ASSUME NEW t \in todo, HandleCompleted(t) PROVE Ledger!Next \/ UNCHANGED <<genv, ledger, abandoned>>
  <2>1. t \in Inflight /\ t[1] \in Gid /\ t[1] \in Opened /\ UNCHANGED <<genv, abandoned>>
        /\ (UNCHANGED ledger \/ ledger' = [ledger EXCEPT ![t[1]] = @ + 1])
    BY <1>1, <1>5 DEF HandleCompleted, Put, Result, TasksOK, Task, Base, Numbered
  <2>2. Cardinality(TasksOf(t[1])) > 0
    <3>1. t \in TasksOf(t[1])
      BY <2>1 DEF TasksOf
    <3>. QED BY <2>1, <3>1, Parts, FS_EmptySet
  <2>3. Owed(t[1]) > 0
    BY <2>1, <2>2, Parts DEF Owed
  <2>. QED BY <2>1, <2>3, MayDeliver
<1>6. CASE PutResult
  <2>1. /\ dput.gid \in Gid /\ UNCHANGED <<genv, abandoned>>
        /\ ledger' = [ledger EXCEPT ![dput.gid] = @ + 1]
    BY <1>1, <1>6 DEF PutResult, Put, DispatchOK, Item, groupVars
  <2>2. dput.gid \in Opened
    BY <2>1 DEF Accounts, Account
  <2>3. B2N(dput.gid = dput.gid) = 1
    BY DEF B2N
  <2>4. Owed(dput.gid) > 0
    BY <2>1, <2>3, Parts DEF Owed
  <2>. QED BY <2>1, <2>2, <2>4, MayDeliver
<1>7. CASE EmitMarker \/ PutMarker
  <2>1. wgid \in Opened /\ wgid \in Gid /\ wowed > 0 /\ UNCHANGED <<genv, abandoned>>
        /\ (UNCHANGED ledger \/ ledger' = [ledger EXCEPT ![wgid] = @ + 1])
    BY <1>7 DEF EmitMarker, PutMarker, Put, Cancelled, Base, Control, Opened, groupVars
  <2>2. MarkersLeft(wgid) > 0
    BY <2>1 DEF MarkersLeft
  <2>3. Owed(wgid) > 0
    BY <2>1, <2>2, Parts DEF Owed
  <2>. QED BY <2>1, <2>3, MayDeliver
<1>8. CASE Drain \/ Stop
  <2>1. abandoned' \in SUBSET Gid /\ abandoned \subseteq abandoned' /\ UNCHANGED <<genv, ledger>>
    <3>1. CASE Drain
      <4>1. {t[1] : t \in {u \in Inflight : IsTrain(u[1])}} \subseteq Gid /\ groups \subseteq Gid
        BY <1>1 DEF Base, Numbered, Opened, GroupsOK
      <4>. QED BY <1>1, <3>1, <4>1 DEF Drain, QueueOK
    <3>2. CASE Stop
      BY <1>1, <3>2 DEF Stop, QueueOK
    <3>. QED BY <1>8, <3>1, <3>2
  <2>2. Ledger!GiveUp
    BY <2>1 DEF Ledger!GiveUp
  <2>. QED BY <2>2 DEF Ledger!Next
<1>9. ASSUME NEW g \in Gid, ContinueGroup(g) \/ DropClaim(g) PROVE UNCHANGED <<genv, ledger, abandoned>>
  BY <1>9 DEF ContinueGroup, IssueRollout, DropClaim
<1>10. ASSUME \/ Acquired \/ SwitchToTrain \/ FillReturn \/ Wake \/ LoopTop
              \/ VersionPending \/ DropEmitted \/ DropCancelled
              \/ Get \/ BackToGet \/ Ship \/ Exit \/ StopLoop \/ OnNewVersion \/ Interrupt
              \/ \E t \in todo : HandleClaimed(t)
              \/ \E t \in Inflight : EnvReturns(t)
       PROVE  UNCHANGED <<genv, ledger, abandoned>>
  BY <1>10 DEF Acquired, SwitchToTrain, FillReturn, Wake, LoopTop, VersionPending, DropEmitted,
     DropCancelled, Get, BackToGet, Ship, Exit, StopLoop, OnNewVersion, Interrupt, HandleClaimed,
     EnvReturns, groupVars
<1>. QED BY <1>3, <1>4, <1>5, <1>6, <1>7, <1>8, <1>9, <1>10 DEF Next, Dispatch, Watch, MainLoop

\* The dispatcher implements its docstring's emit-everything contract: each step puts at
\* most one episode, of a group that still owes one.
THEOREM ImplementsLedger == Spec => LedgerSafety
<1>1. Init => Ledger!Init
  BY DEF Init, Ledger!Init
<1>. QED BY <1>1, LedgerStep, BaseInvariant, AccountsInvariant, PTL DEF Spec, LedgerSafety, Ledger!Spec

-----------------------------------------------------------------------------
(* Cancellation, drain and shutdown *)

\* Only groups sampled from the live policy are stale, dropped, and have markers queued.
LiveOnly ==
    /\ \A g \in wstale : IsLive(g)
    /\ wgid # None => IsLive(wgid)
    /\ OnlyLiveTrainCancelled
    /\ dput.outcome = "result"

\* Before shutdown only train groups are given up.
TrainGivenUp == ~Stopping => \A g \in abandoned : IsTrain(g)

\* Without a rate limit acquire() never waits, so that stop() finds the dispatch loop
\* where it schedules nothing any more.
Wound ==
    /\ dpc # "acquire"
    /\ Stopping => Inflight = {} /\ dpc # "fill"

-----------------------------------------------------------------------------
(* Who may be cancelled *)

\* The environment of a group never changes once it is opened.
LEMMA EnvKept == Base /\ Next => \A g \in Opened : genv'[g] = genv[g]
<1>. SUFFICES ASSUME Base, Next PROVE \A g \in Opened : genv'[g] = genv[g]
  OBVIOUS
<1>1. ASSUME NEW g \in Gid, OpenGroup(g) PROVE \A h \in Opened : genv'[h] = genv[h]
  BY <1>1 DEF OpenGroup, Opened, Base, TypeOK, GroupsOK
<1>2. ASSUME \/ \E g \in Gid : ContinueGroup(g)
             \/ Acquired \/ SwitchToTrain \/ FillReturn \/ Wake \/ PutResult \/ LoopTop
             \/ \E t \in todo : HandleClaimed(t) \/ HandleCompleted(t)
      PROVE  genv' = genv
  BY <1>2 DEF ContinueGroup, Acquired, SwitchToTrain, FillReturn, Wake, PutResult, LoopTop,
     HandleClaimed, HandleCompleted, groupVars
<1>3. CASE Watch
  BY <1>3 DEF Watch, VersionPending, DropClaim, EmitMarker, PutMarker, DropEmitted, DropCancelled, groupVars
<1>4. CASE MainLoop
  BY <1>4 DEF MainLoop, Get, BackToGet, Ship, Drain, Exit, Stop, StopLoop, groupVars
<1>5. CASE OnNewVersion \/ Interrupt \/ Terminated \/ \E t \in Inflight : EnvReturns(t)
  BY <1>5 DEF OnNewVersion, Interrupt, Terminated, EnvReturns, vars, groupVars
<1>. QED BY <1>1, <1>2, <1>3, <1>4, <1>5 DEF Next, Dispatch

\* A group that is live stays so.
LEMMA LiveKept == Base /\ [Next]_vars => \A g \in Gid : IsLive(g) => IsLive(g)'
<1>. SUFFICES ASSUME Base, [Next]_vars, NEW g \in Gid, IsLive(g) PROVE IsLive(g)'
  OBVIOUS
<1>1. g \in Opened
  BY EnvAssumption DEF IsLive, Opened, Env
<1>2. CASE Next
  BY <1>1, <1>2, EnvKept DEF IsLive
<1>3. CASE vars' = vars
  BY <1>3 DEF vars, groupVars, IsLive
<1>. QED BY <1>2, <1>3

\* Putting a marker of a live group, or taking from the head, keeps the queue's markers live.
LEMMA QueuePut ==
    ASSUME Base, OnlyLiveTrainCancelled, \A g \in Gid : IsLive(g) => IsLive(g)',
           NEW item \in Item, item.outcome = "cancelled" => IsLive(item.gid), Put(item)
    PROVE  OnlyLiveTrainCancelled'
<1>1. outQ \in Seq(Item) /\ outQ' = Append(outQ, item) /\ item.gid \in Gid
  BY DEF Put, Base, TypeOK, QueueOK, Item
<1>. SUFFICES ASSUME NEW i \in DOMAIN outQ', outQ'[i].outcome = "cancelled"
              PROVE  IsLive(outQ[i].gid)'
  BY DEF OnlyLiveTrainCancelled
<1>2. CASE i = Len(outQ) + 1
  <2>1. outQ'[i] = item
    BY <1>1, <1>2
  <2>2. IsLive(item.gid)'
    BY <1>1, <2>1
  <2>. QED BY <2>1, <2>2 DEF IsLive
<1>3. CASE i # Len(outQ) + 1
  <2>1. i \in DOMAIN outQ /\ outQ'[i] = outQ[i] /\ outQ[i] \in Item
    BY <1>1, <1>3
  <2>2. IsLive(outQ[i].gid) /\ outQ[i].gid \in Gid
    BY <2>1 DEF OnlyLiveTrainCancelled, Item
  <2>. QED BY <2>1, <2>2 DEF IsLive
<1>. QED BY <1>2, <1>3

LEMMA QueueGet ==
    ASSUME Base, OnlyLiveTrainCancelled, \A g \in Gid : IsLive(g) => IsLive(g)',
           UNCHANGED outQ \/ (outQ # <<>> /\ outQ' = Tail(outQ))
    PROVE  OnlyLiveTrainCancelled'
<1>1. outQ \in Seq(Item)
  BY DEF Base, TypeOK, QueueOK
<1>. SUFFICES ASSUME NEW i \in DOMAIN outQ', outQ'[i].outcome = "cancelled"
              PROVE  IsLive(outQ[i].gid)'
  BY DEF OnlyLiveTrainCancelled
<1>2. PICK j \in DOMAIN outQ : outQ'[i] = outQ[j] /\ outQ[j] \in Item
  <2>1. CASE UNCHANGED outQ
    BY <1>1, <2>1
  <2>2. CASE outQ # <<>> /\ outQ' = Tail(outQ)
    <3>1. i + 1 \in DOMAIN outQ /\ outQ'[i] = outQ[i + 1]
      BY <1>1, <2>2
    <3>. QED BY <1>1, <3>1
  <2>. QED BY <2>1, <2>2
<1>3. IsLive(outQ[j].gid) /\ outQ[j].gid \in Gid
  BY <1>2 DEF OnlyLiveTrainCancelled, Item
<1>. QED BY <1>2, <1>3 DEF IsLive

\* No step breaks LiveOnly: stale groups are collected from live tasks only.
LEMMA LiveOnlyNext == Base /\ Base' /\ LiveOnly /\ [Next]_vars => LiveOnly'
<1>. SUFFICES ASSUME Base, Base', LiveOnly, [Next]_vars PROVE LiveOnly'
  OBVIOUS
<1>1. \A g \in Gid : IsLive(g) => IsLive(g)'
  BY LiveKept
<1>2. OnlyLiveTrainCancelled /\ wstale \subseteq Gid /\ wgid \in Gid \cup {None} /\ dput.outcome = "result"
  BY DEF LiveOnly, Base, TypeOK, WatchOK
<1>3. ASSUME UNCHANGED <<wstale, wgid, dput>>, OnlyLiveTrainCancelled' PROVE LiveOnly'
  BY <1>1, <1>2, <1>3 DEF LiveOnly
<1>4. ASSUME UNCHANGED <<wstale, wgid, dput, outQ>> PROVE LiveOnly'
  BY <1>1, <1>2, <1>3, <1>4, QueueGet
<1>5. CASE vars' = vars \/ Terminated
  BY <1>4, <1>5 DEF vars, Terminated, dVars, wVars
<1>6. ASSUME NEW t \in todo, HandleCompleted(t) PROVE LiveOnly'
  <2>1. t[1] \in Gid /\ inflight[t] \in Nat
    BY <1>6 DEF HandleCompleted, Base, TypeOK, TasksOK, Task
  <2>2. Result(t[1], inflight[t]) \in Item /\ Result(t[1], inflight[t]).outcome = "result"
    BY <2>1 DEF Result, Item
  <2>3. OnlyLiveTrainCancelled'
    BY <1>1, <1>2, <1>6, <2>2, QueuePut, QueueGet DEF HandleCompleted
  <2>4. UNCHANGED <<wstale, wgid>> /\ dput'.outcome = "result"
    BY <1>2, <1>6, <2>2 DEF HandleCompleted, wVars
  <2>. QED BY <1>1, <1>2, <2>3, <2>4 DEF LiveOnly
<1>7. CASE PutResult
  <2>1. dput \in Item
    BY <1>7 DEF PutResult, Base, TypeOK, DispatchOK
  <2>2. OnlyLiveTrainCancelled'
    BY <1>1, <1>2, <1>7, <2>1, QueuePut DEF PutResult
  <2>3. UNCHANGED <<wstale, wgid>> /\ dput'.outcome = "result"
    BY <1>7 DEF PutResult, wVars, NoItem, Result
  <2>. QED BY <1>1, <1>2, <2>2, <2>3 DEF LiveOnly
<1>8. CASE VersionPending
  <2>1. UNCHANGED <<outQ, wgid, dput>> /\ wstale' = {t[1] : t \in {u \in Inflight : TurnsStale(u)}}
    BY <1>8 DEF VersionPending, dVars
  <2>2. \A g \in wstale' : IsLive(g) /\ g \in Gid
    BY <2>1 DEF TurnsStale, Aged, Base, TypeOK, TasksOK, Task
  <2>. QED BY <1>1, <1>2, <2>1, <2>2, QueueGet DEF LiveOnly
<1>9. ASSUME NEW g \in Gid, DropClaim(g) PROVE LiveOnly'
  <2>1. UNCHANGED <<outQ, dput>> /\ wgid' = g /\ g \in wstale /\ wstale' \subseteq wstale
    BY <1>9 DEF DropClaim, dVars
  <2>. QED BY <1>1, <1>2, <2>1, QueueGet DEF LiveOnly
<1>10. CASE EmitMarker \/ PutMarker
  <2>1. UNCHANGED <<wstale, wgid, dput>> /\ (UNCHANGED outQ \/ Put(Cancelled(wgid)))
    BY <1>10 DEF EmitMarker, PutMarker, dVars
  <2>2. wgid \in Gid /\ IsLive(wgid)
    BY <1>10, EnvAssumption DEF EmitMarker, PutMarker, Base, Control, Opened, LiveOnly
  <2>3. Cancelled(wgid) \in Item /\ Cancelled(wgid).gid = wgid
    BY <2>2 DEF Cancelled, Item
  <2>. QED BY <1>1, <1>2, <1>3, <2>1, <2>2, <2>3, QueuePut, QueueGet
<1>11. CASE DropEmitted \/ DropCancelled
  <2>1. UNCHANGED <<wstale, dput, outQ>> /\ wgid' \in {wgid, None}
    BY <1>11 DEF DropEmitted, DropCancelled, NextStaleGroup, dVars
  <2>. QED BY <1>1, <1>2, <2>1, QueueGet DEF LiveOnly
<1>12. CASE Get
  <2>1. UNCHANGED <<wstale, wgid, dput>> /\ outQ # <<>> /\ outQ' = Tail(outQ)
    BY <1>12 DEF Get, dVars, wVars
  <2>. QED BY <1>1, <1>2, <1>3, <2>1, QueueGet
<1>13. CASE StopLoop
  <2>1. UNCHANGED <<wstale, wgid, outQ>> /\ dput'.outcome = "result"
    BY <1>13 DEF StopLoop, wVars, NoItem, Result
  <2>. QED BY <1>1, <1>2, <2>1, QueueGet DEF LiveOnly
<1>14. ASSUME \/ \E g \in Gid : ContinueGroup(g) \/ OpenGroup(g)
              \/ Acquired \/ SwitchToTrain \/ FillReturn \/ Wake \/ LoopTop
              \/ \E t \in todo : HandleClaimed(t)
              \/ \E t \in Inflight : EnvReturns(t)
              \/ BackToGet \/ Ship \/ Drain \/ Exit \/ Stop \/ OnNewVersion \/ Interrupt
       PROVE  LiveOnly'
  <2>1. UNCHANGED <<wstale, wgid, dput, outQ>>
    BY <1>14 DEF ContinueGroup, OpenGroup, IssueRollout, Acquired, SwitchToTrain, FillReturn, Wake, LoopTop,
       HandleClaimed, EnvReturns, BackToGet, Ship, Drain, Exit, Stop, OnNewVersion, Interrupt, dVars, wVars
  <2>. QED BY <1>4, <2>1
<1>. QED BY <1>5, <1>6, <1>7, <1>8, <1>9, <1>10, <1>11, <1>12, <1>13, <1>14
         DEF Next, Dispatch, Watch, MainLoop

\* LiveOnly is an invariant.
LEMMA LiveOnlyInvariant == Spec => []LiveOnly
<1>1. Init => LiveOnly
  BY DEF Init, LiveOnly, OnlyLiveTrainCancelled, NoItem, Result
<1>. QED BY <1>1, LiveOnlyNext, BaseInvariant, PTL DEF Spec

\* A weight update cancels rollouts of groups sampled from the live policy and no others:
\* no eval and no frozen-sourced train rollout ends as a Cancelled marker.
THEOREM OnlyLiveCancelled == Spec => []OnlyLiveTrainCancelled
<1>1. LiveOnly => OnlyLiveTrainCancelled
  BY DEF LiveOnly
<1>. QED BY <1>1, LiveOnlyInvariant, PTL

-----------------------------------------------------------------------------
(* Without a rate limit: shutdown *)

\* No step breaks Wound: tasks start in the segment of fill_inflight only, which stop()
\* cannot interrupt.
LEMMA WoundNext ==
    ASSUME ~RateLimited PROVE Base /\ Wound /\ [Next]_vars => Wound'
<1>. SUFFICES ASSUME Base, Wound, [Next]_vars PROVE Wound'
  OBVIOUS
<1>1. ASSUME NEW g \in Gid, ContinueGroup(g) \/ OpenGroup(g) PROVE Wound'
  <2>1. dpc = "fill" /\ dpc' = dpc /\ mpc' = mpc
    BY <1>1 DEF ContinueGroup, OpenGroup, MaySchedule, IssueRollout, mVars
  <2>. QED BY <2>1 DEF Wound, Stopping
<1>2. CASE Acquired \/ FillReturn \/ SwitchToTrain
  BY <1>2 DEF Acquired, FillReturn, SwitchToTrain, Wound, Stopping, mVars, dVars, taskVars, Inflight
<1>3. ASSUME inflight' = inflight, dpc' # "acquire", dpc' # "fill", UNCHANGED mVars PROVE Wound'
  BY <1>3 DEF Wound, Stopping, mVars, Inflight
<1>4. CASE Wake \/ PutResult \/ \E t \in todo : HandleClaimed(t)
  BY <1>3, <1>4 DEF Wake, PutResult, HandleClaimed, taskVars
<1>5. ASSUME NEW t \in todo, HandleCompleted(t) PROVE Wound'
  <2>1. t \in Inflight /\ mpc' = mpc /\ dpc' \in {"put", "handle"}
    BY <1>5 DEF HandleCompleted, mVars
  <2>. QED BY <2>1 DEF Wound, Stopping
<1>6. CASE LoopTop
  <2>1. inflight' = inflight /\ mpc' = mpc /\ dpc' = IF Stopping THEN "done" ELSE "fill"
    BY <1>6 DEF LoopTop, taskVars, mVars
  <2>. QED BY <2>1 DEF Wound, Stopping, Inflight
<1>7. ASSUME dpc' = dpc, mpc' = mpc, Inflight' \subseteq Inflight PROVE Wound'
  BY <1>7 DEF Wound, Stopping
<1>8. ASSUME \/ EmitMarker \/ PutMarker \/ DropEmitted \/ DropCancelled
             \/ OnNewVersion \/ Terminated \/ vars' = vars
      PROVE  Wound'
  BY <1>7, <1>8 DEF EmitMarker, PutMarker, DropEmitted, DropCancelled, OnNewVersion, Terminated, vars,
     taskVars, dVars, mVars, Inflight
<1>9. CASE VersionPending \/ (\E g \in Gid : DropClaim(g)) \/ (\E t \in Inflight : EnvReturns(t))
  BY <1>7, <1>9 DEF VersionPending, DropClaim, EnvReturns, Restrict, dVars, mVars, Inflight
<1>10. ASSUME dpc' = dpc, ~Stopping', Wound PROVE Wound'
  BY <1>10 DEF Wound
<1>11. CASE Get \/ BackToGet \/ Ship \/ Drain \/ Exit \/ Interrupt
  <2>1. mpc' \in {"get", "train", "eval", "drain", "exit"} /\ dpc' = dpc
    BY <1>11 DEF Get, BackToGet, Ship, Drain, Exit, Interrupt, Kind, dVars
  <2>. QED BY <1>10, <2>1 DEF Stopping
<1>12. CASE Stop
  <2>1. Inflight' = {}
    BY <1>12 DEF Stop, Restrict, Inflight
  <2>. QED BY <1>12, <2>1 DEF Stop, Wound, LoopFree, dVars
<1>13. CASE StopLoop
  BY <1>13 DEF StopLoop, Wound, Stopping, taskVars, Inflight
<1>. QED BY <1>1, <1>2, <1>4, <1>5, <1>6, <1>8, <1>9, <1>11, <1>12, <1>13
         DEF Next, Dispatch, Watch, MainLoop

\* Without a rate limit stop() finds the dispatch loop where it starts nothing any more.
LEMMA WoundInvariant == ASSUME ~RateLimited PROVE Spec => []Wound
<1>1. Init => Wound
  BY DEF Init, Wound, Stopping
<1>2. Base /\ Wound /\ [Next]_vars => Wound'
  BY WoundNext
<1>. QED BY <1>1, <1>2, BaseInvariant, PTL DEF Spec

\* With no rate limit set, stop() leaves no task in flight and no permit held: nothing is
\* started between cancel_inflight_rollouts and the cancellation of the dispatch loop.
THEOREM NoOrphansUnlimited == ASSUME ~RateLimited PROVE Spec => []NoOrphans
<1>1. Base /\ Wound => NoOrphans
  <2>. SUFFICES ASSUME Base, Wound, mpc = "stopped" PROVE Inflight = {} /\ permits = 0
    BY DEF NoOrphans
  <2>1. Inflight = {}
    BY DEF Wound, Stopping
  <2>2. Cardinality({}) = 0
    BY FS_EmptySet
  <2>. QED BY <2>1, <2>2 DEF Base, PermitsMatch
<1>. QED BY <1>1, BaseInvariant, WoundInvariant, PTL

-----------------------------------------------------------------------------
(* Without a rate limit: the drain at max_steps *)

\* Only the dispatch loop adds tasks, and once train scheduling is disabled only of evals.
LEMMA DisabledStep ==
    ASSUME Base, Wound, Next, disabled, NEW t \in Inflight' \ Inflight
    PROVE  genv'[t[1]] \notin TrainEnv
<1>1. ASSUME NEW g \in Gid, ContinueGroup(g) \/ OpenGroup(g) PROVE genv'[t[1]] \notin TrainEnv
  <2>1. mode = "eval"
    BY <1>1 DEF ContinueGroup, OpenGroup, MaySchedule, Base, TypeOK, SwitchesOK
  <2>2. genv'[g] \notin TrainEnv
    <3>1. CASE ContinueGroup(g)
      BY <2>1, <3>1 DEF ContinueGroup, Continuable, Kind, IsTrain
    <3>2. CASE OpenGroup(g)
      <4>1. PICK e \in FreshEnvs("eval") : genv' = [genv EXCEPT ![g] = e]
        BY <2>1, <3>2 DEF OpenGroup
      <4>2. e \in EvalEnv
        BY <4>1 DEF FreshEnvs, Base, TypeOK, SwitchesOK
      <4>. QED BY <4>1, <4>2, EnvAssumption DEF Base, TypeOK, GroupsOK
    <3>. QED BY <1>1, <3>1, <3>2
  <2>3. PICK size, owed : IssueRollout(g, size, owed)
    BY <1>1 DEF ContinueGroup, OpenGroup
  <2>4. Inflight' \subseteq Inflight \cup {<<g, size - owed + 1>>}
    BY <2>3 DEF IssueRollout, Start, taskVars, Inflight
  <2>. QED BY <2>2, <2>4
<1>2. CASE Acquired
  BY <1>2 DEF Acquired, Wound
<1>3. ASSUME \/ SwitchToTrain \/ FillReturn \/ Wake \/ PutResult \/ LoopTop
             \/ \E u \in todo : HandleClaimed(u) \/ HandleCompleted(u)
             \/ Watch \/ MainLoop \/ OnNewVersion \/ Interrupt \/ Terminated
             \/ \E u \in Inflight : EnvReturns(u)
      PROVE  Inflight' \subseteq Inflight
  <2>1. CASE \/ SwitchToTrain \/ FillReturn \/ Wake \/ PutResult \/ LoopTop
             \/ \E u \in todo : HandleClaimed(u) \/ HandleCompleted(u)
    BY <2>1 DEF SwitchToTrain, FillReturn, Wake, PutResult, LoopTop, HandleClaimed, HandleCompleted,
       Restrict, taskVars, Inflight
  <2>2. CASE Watch
    BY <2>2 DEF Watch, VersionPending, DropClaim, EmitMarker, PutMarker, DropEmitted, DropCancelled,
       Restrict, taskVars, Inflight
  <2>3. CASE MainLoop
    BY <2>3 DEF MainLoop, Get, BackToGet, Ship, Drain, Exit, Stop, StopLoop, Restrict, taskVars, Inflight
  <2>4. CASE OnNewVersion \/ Interrupt \/ Terminated \/ \E u \in Inflight : EnvReturns(u)
    BY <2>4 DEF OnNewVersion, Interrupt, Terminated, EnvReturns, vars, taskVars, Inflight
  <2>. QED BY <1>3, <2>1, <2>2, <2>3, <2>4
<1>. QED BY <1>1, <1>2, <1>3 DEF Next, Dispatch

\* With no rate limit set, no train rollout is dispatched after disable_train_scheduling.
THEOREM NoTrainAfterDisableUnlimited == ASSUME ~RateLimited PROVE Spec => NoTrainAfterDisable
<1>1. Base /\ Wound /\ [Next]_vars
          => [disabled => \A t \in Inflight' \ Inflight : ~(genv'[t[1]] \in TrainEnv)]_vars
  BY DisabledStep
<1>. QED BY <1>1, BaseInvariant, WoundInvariant, PTL DEF Spec, NoTrainAfterDisable

\* Before shutdown only the drain gives groups up, and only train groups.
LEMMA GivenUpNext == Base /\ TrainGivenUp /\ [Next]_vars => TrainGivenUp'
<1>. SUFFICES ASSUME Base, TrainGivenUp, [Next]_vars PROVE TrainGivenUp'
  OBVIOUS
<1>1. \A g \in Gid : IsTrain(g) => IsTrain(g)'
  <2>. SUFFICES ASSUME NEW g \in Gid, IsTrain(g) PROVE IsTrain(g)'
    OBVIOUS
  <2>1. g \in Opened
    BY EnvAssumption DEF IsTrain, Opened, Env
  <2>2. genv'[g] = genv[g]
    BY <2>1, EnvKept DEF vars, groupVars
  <2>. QED BY <2>2 DEF IsTrain
<1>2. abandoned \subseteq Gid
  BY DEF Base, TypeOK, QueueOK
<1>3. ASSUME abandoned' = abandoned, Stopping => Stopping' PROVE TrainGivenUp'
  BY <1>1, <1>2, <1>3 DEF TrainGivenUp
<1>4. CASE Drain
  <2>1. abandoned' \subseteq abandoned \cup {g \in Gid : IsTrain(g)} /\ ~Stopping
    BY <1>4 DEF Drain, Base, TypeOK, TasksOK, Task, GroupsOK, Opened, Stopping
  <2>. QED BY <1>1, <1>2, <2>1 DEF TrainGivenUp
<1>5. CASE Stop
  BY <1>5 DEF Stop, TrainGivenUp, Stopping
<1>6. CASE Get \/ BackToGet \/ Ship \/ Exit \/ StopLoop \/ Interrupt
  BY <1>3, <1>6 DEF Get, BackToGet, Ship, Exit, StopLoop, Interrupt, Stopping
<1>7. CASE Dispatch
  <2>1. abandoned' = abandoned /\ mpc' = mpc
    BY <1>7 DEF Dispatch, ContinueGroup, OpenGroup, IssueRollout, Acquired, SwitchToTrain, FillReturn, Wake,
       HandleClaimed, HandleCompleted, PutResult, LoopTop, mVars
  <2>. QED BY <1>3, <2>1 DEF Stopping
<1>8. CASE Watch
  <2>1. abandoned' = abandoned /\ mpc' = mpc
    BY <1>8 DEF Watch, VersionPending, DropClaim, EmitMarker, PutMarker, DropEmitted, DropCancelled, mVars
  <2>. QED BY <1>3, <2>1 DEF Stopping
<1>9. CASE OnNewVersion \/ Terminated \/ (\E t \in Inflight : EnvReturns(t)) \/ vars' = vars
  <2>1. abandoned' = abandoned /\ mpc' = mpc
    BY <1>9 DEF OnNewVersion, Terminated, EnvReturns, vars, mVars
  <2>. QED BY <1>3, <2>1 DEF Stopping
<1>. QED BY <1>4, <1>5, <1>6, <1>7, <1>8, <1>9 DEF Next, MainLoop

\* With no rate limit set, a pipeline found idle has put every eval episode it opened.
THEOREM IdleMeansDrainedUnlimited == ASSUME ~RateLimited PROVE Spec => []IdleMeansDrained
<1>1. Base /\ Accounts /\ LiveOnly /\ Wound /\ TrainGivenUp => IdleMeansDrained
  <2>. SUFFICES ASSUME Base, Accounts, LiveOnly, Wound, TrainGivenUp,
                       mpc = "get", ~PutterReady, IsIdle,
                       NEW g \in Opened, IsEval(g)
                PROVE  ledger[g] = Size(g)
    BY DEF IdleMeansDrained
  <2>1. g \in Gid /\ ~IsTrain(g)
    BY EnvAssumption DEF Opened, IsEval, IsTrain
  <2>2. ledger[g] + Owed(g) = Size(g)
    <3>1. g \notin abandoned
      BY <2>1 DEF TrainGivenUp, Stopping
    <3>. QED BY <2>1, <3>1 DEF Accounts, Account
  <2>3. Unscheduled(g) = 0
    BY <2>1 DEF Unscheduled, IsIdle, EvalHasWork, Base, TypeOK, GroupsOK
  <2>4. B2N(dgid = g) = 0
    BY <2>1 DEF B2N, Wound, Base, TypeOK, DispatchOK
  <2>5. Cardinality(TasksOf(g)) = 0
    <3>1. TasksOf(g) = {}
      BY DEF TasksOf, IsIdle
    <3>. QED BY <3>1, FS_EmptySet
  <2>6. B2N(dput.gid = g) = 0
    <3>1. Len(outQ) = 0 /\ ~Full
      BY BoundAssumption DEF IsIdle, Full
    <3>2. dput = NoItem
      BY <3>1 DEF PutterReady, Base, TypeOK, DispatchOK
    <3>3. dput.gid # g
      BY <2>1, <3>2, EnvAssumption DEF NoItem, Result
    <3>. QED BY <3>3 DEF B2N
  <2>7. MarkersLeft(g) = 0
    <3>1. wgid # g
      BY <2>1, EnvAssumption DEF LiveOnly, IsLive, IsTrain
    <3>. QED BY <3>1 DEF MarkersLeft
  <2>8. ledger[g] \in Nat
    BY <2>1 DEF Base, TypeOK, QueueOK
  <2>. QED BY <2>2, <2>3, <2>4, <2>5, <2>6, <2>7, <2>8 DEF Owed
<1>2. Init => TrainGivenUp
  BY DEF Init, TrainGivenUp
<1>3. Spec => []TrainGivenUp
  BY <1>2, GivenUpNext, BaseInvariant, PTL DEF Spec
<1>. QED BY <1>1, <1>3, BaseInvariant, AccountsInvariant, LiveOnlyInvariant, WoundInvariant, PTL
=============================================================================
