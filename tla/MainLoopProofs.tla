---------------------------- MODULE MainLoopProofs ----------------------------
(***************************************************************************)
(* Proofs about the orchestrator's main loop, for every set of             *)
(* environments, every group size, every number of examples and every      *)
(* configuration: the queue and the window of the train sink, the epochs   *)
(* of the eval source and the eval sink, and the epochs' ledger, which     *)
(* source and sink implement together.                                     *)
(***************************************************************************)
EXTENDS MainLoop, TrainSinkProofs

-----------------------------------------------------------------------------
(* The eval source *)

EpochSet == EvalEnv \X Nat

Row == [env : EvalEnv, example : Nat \ {0}, step : Nat]

KeyOf(r) == <<r.env, r.step>>

\* The rows of the examples of some epochs.
RowsOf(epochs) == {r \in Row : KeyOf(r) \in epochs /\ r.example <= Examples[r.env]}

\* A trigger fires each environment it fires once.
LEMMA FiredFacts ==
    ASSUME NEW s \in Nat
    PROVE  /\ Fired(s) \in Seq(EvalEnv) /\ IsInjective(Fired(s))
           /\ ToSet(Fired(s)) = {e \in EvalEnv : ~(firstTrigger /\ config.skipFirstStep)
                                                 /\ (firstTrigger \/ s % Interval[e] = 0)}
<1>1. EvalEnvs \in Seq(EvalEnv) /\ IsInjective(EvalEnvs) /\ EvalEnv = {EvalEnvs[i] : i \in DOMAIN EvalEnvs}
      /\ DOMAIN EvalEnvs = 1..Len(EvalEnvs)
  BY GroupAssumption DEF EvalEnv, ToSet
<1>2. CASE firstTrigger /\ config.skipFirstStep
  <2>1. Fired(s) = <<>>
    BY <1>2 DEF Fired
  <2>2. <<>> \in Seq(EvalEnv) /\ IsInjective(<<>>) /\ ToSet(<<>>) = {}
    BY DEF IsInjective, ToSet
  <2>. QED BY <1>2, <2>1, <2>2
<1>3. CASE ~(firstTrigger /\ config.skipFirstStep)
  <2>. DEFINE due == {i \in DOMAIN EvalEnvs : firstTrigger \/ s % Interval[EvalEnvs[i]] = 0}
  <2>1. Fired(s) = SubsequenceAt(EvalEnvs, due)
    BY <1>3 DEF Fired
  <2>2. due \in SUBSET (1..Len(EvalEnvs))
    BY <1>1
  <2>3. {EvalEnvs[i] : i \in due} = {e \in EvalEnv : firstTrigger \/ s % Interval[e] = 0}
    BY <1>1
  <2>. HIDE DEF due
  <2>4. /\ SubsequenceAt(EvalEnvs, due) \in Seq(EvalEnv) /\ IsInjective(SubsequenceAt(EvalEnvs, due))
        /\ ToSet(SubsequenceAt(EvalEnvs, due)) = {EvalEnvs[i] : i \in due}
    BY <1>1, <2>2, SubsequenceFacts
  <2>. QED BY <1>3, <2>1, <2>3, <2>4
<1>. QED BY <1>2, <1>3

\* A round has the n-th example of every fired environment that has one.
LEMMA RoundFacts ==
    ASSUME NEW fired \in Seq(EvalEnv), IsInjective(fired), NEW s \in Nat, NEW n \in Nat \ {0}
    PROVE  /\ Round(fired, s, n) \in Seq(Row) /\ IsInjective(Round(fired, s, n))
           /\ ToSet(Round(fired, s, n))
                = {r \in Row : r.env \in ToSet(fired) /\ r.step = s /\ r.example = n
                               /\ n <= Examples[r.env]}
<1>. DEFINE at == {i \in DOMAIN fired : Examples[fired[i]] >= n}
            having == SubsequenceAt(fired, at)
            round == Round(fired, s, n)
<1>0. DOMAIN fired = 1..Len(fired) /\ \A e \in EvalEnv : Examples[e] \in Nat
  BY EvalAssumption
<1>1. at \in SUBSET (1..Len(fired)) /\ ToSet(fired) \subseteq EvalEnv
  BY ElementsOf
<1>2. {fired[i] : i \in at} = {e \in ToSet(fired) : Examples[e] >= n}
  BY DEF ToSet
<1>. HIDE DEF at
<1>3. having \in Seq(EvalEnv) /\ IsInjective(having) /\ ToSet(having) = {fired[i] : i \in at}
  BY <1>1, SubsequenceFacts
<1>4. round = [i \in 1..Len(having) |-> [env |-> having[i], example |-> n, step |-> s]]
  BY DEF Round, at
<1>. HIDE DEF having, round
<1>5. DOMAIN having = 1..Len(having) /\ Len(having) \in Nat /\ \A i \in 1..Len(having) : having[i] \in EvalEnv
  BY <1>3, ElementOfSeq
<1>6. round \in Seq(Row) /\ DOMAIN round = 1..Len(having)
  BY <1>4, <1>5 DEF Row
<1>7. IsInjective(round)
  BY <1>3, <1>4, <1>5, <1>6 DEF IsInjective
<1>8. ASSUME NEW r \in ToSet(round)
      PROVE  r \in Row /\ r.env \in ToSet(fired) /\ r.step = s /\ r.example = n /\ n <= Examples[r.env]
  <2>1. PICK i \in 1..Len(having) : r = [env |-> having[i], example |-> n, step |-> s]
    BY <1>4, <1>6 DEF ToSet
  <2>2. having[i] \in ToSet(having) /\ having[i] \in EvalEnv
    BY <1>5 DEF ToSet
  <2>3. having[i] \in ToSet(fired) /\ Examples[having[i]] >= n
    BY <2>2, <1>2, <1>3
  <2>. QED BY <2>1, <2>2, <2>3, <1>0 DEF Row
<1>9. ASSUME NEW r \in Row, r.env \in ToSet(fired), r.step = s, r.example = n, n <= Examples[r.env]
      PROVE  r \in ToSet(round)
  <2>1. Examples[r.env] >= n
    BY <1>9, <1>0 DEF Row
  <2>2. r.env \in ToSet(having)
    BY <2>1, <1>2, <1>3, <1>9
  <2>3. PICK i \in 1..Len(having) : r.env = having[i]
    BY <2>2, <1>5 DEF ToSet
  <2>4. r = [env |-> having[i], example |-> n, step |-> s]
    BY <2>3, <1>9 DEF Row
  <2>. QED BY <2>4, <1>4, <1>6 DEF ToSet
<1>. QED BY <1>6, <1>7, <1>8, <1>9 DEF round

\* The round-robin of an epoch queues every example of every fired environment, once.
LEMMA RoundRobinFacts ==
    ASSUME NEW fired \in Seq(EvalEnv), IsInjective(fired), NEW s \in Nat
    PROVE  /\ RoundRobin(fired, s) \in Seq(Row) /\ IsInjective(RoundRobin(fired, s))
           /\ ToSet(RoundRobin(fired, s)) = RowsOf(ToSet(fired) \X {s})
<1>. DEFINE sizes == {0} \cup {Examples[e] : e \in ToSet(fired)}
            longest == Max(sizes)
            rounds == [n \in 1..longest |-> Round(fired, s, n)]
<1>0. ToSet(fired) \subseteq EvalEnv /\ \A e \in EvalEnv : Examples[e] \in Nat \ {0}
  BY ElementsOf, EvalAssumption
<1>1. longest \in Nat /\ \A e \in ToSet(fired) : Examples[e] <= longest
  <2>. DEFINE counts == [i \in 1..Len(fired) |-> Examples[fired[i]]]
  <2>1. counts \in Seq(Nat) /\ Len(counts) = Len(fired)
    <3>1. \A i \in 1..Len(fired) : Examples[fired[i]] \in Nat
      BY <1>0, ElementOfSeq
    <3>. QED BY <3>1
  <2>2. \A e \in ToSet(fired) : Examples[e] <= SeqSum(counts)
    <3>. TAKE e \in ToSet(fired)
    <3>1. PICK i \in 1..Len(fired) : e = fired[i]
      BY DEF ToSet
    <3>2. counts[i] = Examples[e] /\ i \in 1..Len(counts)
      BY <3>1, <2>1
    <3>. HIDE DEF counts
    <3>. QED BY <2>1, <3>2, SumAtLeast
  <2>. HIDE DEF counts
  <2>3. SeqSum(counts) \in Nat
    BY <2>1, SumTyped
  <2>4. sizes \in SUBSET Nat /\ sizes # {} /\ \A x \in sizes : x <= SeqSum(counts)
    BY <1>0, <2>2, <2>3
  <2>. HIDE DEF sizes
  <2>5. Max(sizes) \in sizes /\ \A x \in sizes : x <= Max(sizes)
    BY <2>3, <2>4, MaxFacts
  <2>. QED BY <2>4, <2>5 DEF sizes
<1>. HIDE DEF longest
<1>2. \A n \in 1..longest : /\ rounds[n] \in Seq(Row) /\ IsInjective(rounds[n])
                            /\ ToSet(rounds[n]) = {r \in Row : r.env \in ToSet(fired) /\ r.step = s
                                                     /\ r.example = n /\ n <= Examples[r.env]}
  BY RoundFacts
<1>3. rounds \in Seq(Seq(Row)) /\ Len(rounds) = longest
  <2>1. rounds \in [1..longest -> Seq(Row)]
    BY <1>2
  <2>2. rounds \in Seq(Seq(Row))
    BY <1>1, <2>1, SeqDef
  <2>. QED BY <1>1, <2>1, <2>2
<1>4. RoundRobin(fired, s) = FlattenSeq(rounds)
  BY DEF RoundRobin, longest
<1>. HIDE DEF rounds
<1>5. \A i, j \in 1..Len(rounds) : i # j => ToSet(rounds[i]) \cap ToSet(rounds[j]) = {}
  BY <1>2, <1>3
<1>6. /\ FlattenSeq(rounds) \in Seq(Row) /\ IsInjective(FlattenSeq(rounds))
      /\ ToSet(FlattenSeq(rounds)) = UNION {ToSet(rounds[i]) : i \in 1..Len(rounds)}
  BY <1>2, <1>3, <1>5, FlattenFacts
<1>7. UNION {ToSet(rounds[i]) : i \in 1..longest} = RowsOf(ToSet(fired) \X {s})
  <2>1. ASSUME NEW n \in 1..longest, NEW r \in ToSet(rounds[n])
        PROVE  r \in RowsOf(ToSet(fired) \X {s})
    BY <1>2, <2>1 DEF RowsOf, KeyOf
  <2>2. ASSUME NEW r \in RowsOf(ToSet(fired) \X {s})
        PROVE  \E n \in 1..longest : r \in ToSet(rounds[n])
    <3>1. /\ r \in Row /\ r.env \in ToSet(fired) /\ r.step = s /\ r.example <= Examples[r.env]
          /\ r.example \in Nat \ {0}
      BY DEF RowsOf, KeyOf, Row
    <3>2. r.example \in 1..longest
      BY <3>1, <1>0, <1>1
    <3>. QED BY <3>1, <3>2, <1>2
  <2>. QED BY <2>1, <2>2
<1>. QED BY <1>3, <1>4, <1>6, <1>7

\* The epochs a trigger fires, in the order of the environments.
FiredEpochs(s) == [i \in 1..Len(Fired(s)) |-> <<Fired(s)[i], s>>]

\* They are epochs of that step, one for each environment fired.
LEMMA FiredEpochsFacts ==
    ASSUME NEW s \in Nat
    PROVE  /\ FiredEpochs(s) \in Seq(EpochSet) /\ IsInjective(FiredEpochs(s))
           /\ ToSet(FiredEpochs(s)) = ToSet(Fired(s)) \X {s}
<1>. DEFINE fired == Fired(s)
<1>1. fired \in Seq(EvalEnv) /\ IsInjective(fired)
  BY FiredFacts
<1>2. FiredEpochs(s) = [i \in 1..Len(fired) |-> <<fired[i], s>>]
  BY DEF FiredEpochs
<1>. HIDE DEF fired
<1>3. DOMAIN fired = 1..Len(fired) /\ Len(fired) \in Nat /\ \A i \in 1..Len(fired) : fired[i] \in EvalEnv
  BY <1>1, ElementOfSeq
<1>4. FiredEpochs(s) \in [1..Len(fired) -> EpochSet]
  BY <1>2, <1>3 DEF EpochSet
<1>5. FiredEpochs(s) \in Seq(EpochSet) /\ DOMAIN FiredEpochs(s) = 1..Len(fired)
  BY <1>3, <1>4, SeqDef
<1>6. IsInjective(FiredEpochs(s))
  BY <1>1, <1>2, <1>3, <1>5 DEF IsInjective
<1>7. ToSet(FiredEpochs(s)) = ToSet(fired) \X {s}
  <2>1. ASSUME NEW k \in ToSet(FiredEpochs(s))
        PROVE  k \in ToSet(fired) \X {s}
    <3>1. PICK i \in 1..Len(fired) : k = <<fired[i], s>>
      BY <1>2, <1>5 DEF ToSet
    <3>2. fired[i] \in ToSet(fired)
      BY <1>3 DEF ToSet
    <3>. QED BY <3>1, <3>2
  <2>2. ASSUME NEW k \in ToSet(fired) \X {s}
        PROVE  k \in ToSet(FiredEpochs(s))
    <3>1. PICK i \in 1..Len(fired) : k[1] = fired[i]
      BY <1>3 DEF ToSet
    <3>2. k = <<fired[i], s>>
      BY <3>1
    <3>. QED BY <3>2, <1>2, <1>5 DEF ToSet
  <2>. QED BY <2>1, <2>2
<1>. QED BY <1>5, <1>6, <1>7 DEF fired

-----------------------------------------------------------------------------
(* The parts of the invariant *)

\* The pre-filter statistics are those of the window.
StatsMatch ==
    /\ preSeen = Len(Survivors(pendingRollouts))
    /\ preSeen - preDropped = Len(Admitted(pendingRollouts))

\* A batch with samples is about to be shipped.
Shipping == phase = "finalize" /\ batch.samples # <<>>

\* Where the main loop is, and what it knows there of the window and of the statistics.
LoopInv ==
    /\ phase \in {"retrigger", "startup", "run", "finalize", "stopped", "aborted"}
    /\ step \in Nat /\ config.startStep <= step
    /\ step > config.startStep => step <= config.maxSteps + 1
    /\ draining \in BOOLEAN /\ emptyBatches \in 0..MaxEmpty
    /\ phase # "aborted" => emptyBatches < MaxEmpty
    /\ phase = "finalize" => ~draining /\ batch # NoBatch
    /\ phase = "stopped" => draining

WindowInv ==
    /\ observed \in 0..Len(finalized)
    /\ ObservedOnce
    /\ Shipping => pendingRollouts = <<>>
    /\ phase # "aborted" /\ ~draining /\ ~Shipping => StatsMatch

\* The epochs due up to step n.
DueBy(n) == {k \in EvalEnv \X (FirstDue..n) : k[1] \in DueAt(k[2])}

TriggerInv ==
    /\ triggered \in Seq(EpochSet) /\ IsInjective(triggered)
    /\ phase = "retrigger" => triggered = <<>>
    /\ phase = "startup" => ToSet(triggered) = DueBy(step - 1)
    /\ phase \notin {"retrigger", "startup"} => ToSet(triggered) = DueBy(step)
    /\ phase \in {"retrigger", "startup"} => step = config.startStep
    /\ firstTrigger = (phase \in {"retrigger", "startup"} /\ ~config.resumed)

\* The dispatcher's promise: no group delivers before it is opened, or more than group_size.
LedgerInv ==
    /\ env \in [Gid -> TrainEnv \cup EvalEnv \cup {None}] /\ delivered \in [Gid -> Nat]
    /\ abandoned \subseteq {g \in Gid : env[g] # None}
    /\ \A g \in Gid : IF env[g] = None THEN delivered[g] = 0 ELSE delivered[g] <= GroupSize[env[g]]

EvalGids == {g \in Gid : env[g] \in EvalEnv}

\* Every example of every epoch triggered is in the queue or was given to one group.
RowsInv ==
    /\ evalQueue \in Seq(Row) /\ IsInjective(evalQueue)
    /\ row \in [Gid -> Row \cup {None}]
    /\ \A g \in EvalGids : row[g] \in Row /\ row[g].env = env[g] /\ row[g] \notin ToSet(evalQueue)
    /\ \A g, h \in EvalGids : row[g] = row[h] => g = h
    /\ ToSet(evalQueue) \cup {row[g] : g \in EvalGids} = RowsOf(ToSet(triggered))
    /\ abandoned \cap EvalGids = {}

EvalRollout == [example : Nat, episode : Nat, part : Nat]

\* The examples and episodes that some eval rollouts come from.
Pairs(q) == {<<r.example, r.episode>> : r \in ToSet(q)}

\* q holds rollouts of exactly these episodes of these examples, and nothing twice.
Holds(q, examples, episodes) ==
    q \in Seq(EvalRollout) /\ IsInjective(q) /\ Pairs(q) = examples \X episodes

\* The sink's groups hold what has been delivered of the groups in flight.
GroupsInv ==
    /\ evalEpisodes \in [Gid -> Nat] /\ evalGroups \in [Gid -> Seq(EvalRollout)]
    /\ \A g \in Gid : g \notin EvalGids => evalEpisodes[g] = 0
    /\ \A g \in EvalGids :
          evalEpisodes[g] = IF delivered[g] = GroupSize[env[g]] THEN 0 ELSE delivered[g]
    /\ \A g \in Gid : evalEpisodes[g] = 0 => evalGroups[g] = <<>>
    /\ \A g \in EvalGids : Holds(evalGroups[g], {row[g].example}, 1..evalEpisodes[g])

\* The examples of an epoch whose group has delivered everything.
DoneGids(k) == {g \in EvalGids : KeyOf(row[g]) = k /\ delivered[g] = GroupSize[env[g]]}
Done(k) == {row[g].example : g \in DoneGids(k)}

\* The sink's buckets hold the epochs that are not evaluated yet, as far as they are done;
\* the epochs evaluated are those that are done.
BucketInv(k) ==
    /\ Done(k) # 1..Examples[k[1]]
    /\ ValueAt(bucketEpisodes, k, 0) = Cardinality(Done(k)) * GroupSize[k[1]]
    /\ Holds(ValueAt(buckets, k, <<>>), Done(k), 1..GroupSize[k[1]])

BucketsInv ==
    /\ DOMAIN buckets \subseteq EpochSet /\ DOMAIN bucketEpisodes \subseteq EpochSet
    /\ evaluated \in Seq(EpochSet) /\ IsInjective(evaluated) /\ ToSet(evaluated) \subseteq ToSet(triggered)
    /\ \A k \in ToSet(evaluated) : Done(k) = 1..Examples[k[1]]
    /\ \A k \in EpochSet \ ToSet(evaluated) : BucketInv(k)
    /\ \A k \in DOMAIN buckets : Done(k) # {} /\ k \notin ToSet(evaluated)
    /\ \A k \in DOMAIN bucketEpisodes : k \notin ToSet(evaluated)

MainInv ==
    /\ config \in Configs
    /\ SinkInv /\ LoopInv /\ WindowInv /\ TriggerInv /\ LedgerInv
    /\ RowsInv /\ GroupsInv /\ BucketsInv /\ EpochWhole

-----------------------------------------------------------------------------
(* Opening groups and delivering their episodes *)

\* Group sizes are positive, and no group id is used for a train and an eval environment.
LEMMA EnvFacts ==
    /\ \A e \in TrainEnv \cup EvalEnv : GroupSize[e] \in Nat \ {0}
    /\ TrainEnv \cap EvalEnv = {} /\ None \notin TrainEnv \cup EvalEnv
    /\ \A e \in EvalEnv : Examples[e] \in Nat \ {0}
BY GroupAssumption, LoopAssumption, EvalAssumption

\* Opening a group: it delivers nothing yet, and every other group stays as it is.
LEMMA OpenLedger ==
    ASSUME LedgerInv, NEW g \in Gid, L!Open(g)
    PROVE  /\ LedgerInv' /\ env[g] = None /\ delivered[g] = 0
           /\ delivered' = delivered /\ abandoned' = abandoned
           /\ env' = [env EXCEPT ![g] = env'[g]] /\ env'[g] \in TrainEnv \cup EvalEnv
           /\ \A h \in Gid \ {g} : env'[h] = env[h]
<1>1. PICK e \in TrainEnv \cup EvalEnv : env' = [env EXCEPT ![g] = e]
  BY DEF L!Open
<1>2. env[g] = None /\ delivered' = delivered /\ abandoned' = abandoned
  BY DEF L!Open
<1>3. env'[g] = e /\ \A h \in Gid \ {g} : env'[h] = env[h]
  BY <1>1 DEF LedgerInv
<1>4. delivered[g] = 0
  BY <1>2 DEF LedgerInv
<1>5. LedgerInv'
  BY <1>1, <1>2, <1>3, <1>4, EnvFacts DEF LedgerInv
<1>. QED BY <1>1, <1>2, <1>3, <1>4, <1>5

\* Delivering an episode of an open group.
LEMMA DeliverLedger ==
    ASSUME LedgerInv, NEW g \in Gid, L!Deliver(g)
    PROVE  /\ LedgerInv' /\ env[g] # None /\ delivered[g] < GroupSize[env[g]]
           /\ env' = env /\ abandoned' = abandoned
           /\ delivered' = [delivered EXCEPT ![g] = delivered[g] + 1]
<1>1. /\ env[g] # None /\ delivered[g] < GroupSize[env[g]] /\ env' = env /\ abandoned' = abandoned
      /\ delivered' = [delivered EXCEPT ![g] = delivered[g] + 1]
  BY DEF L!Deliver
<1>2. env[g] \in TrainEnv \cup EvalEnv /\ GroupSize[env[g]] \in Nat /\ delivered[g] \in Nat
  BY <1>1, EnvFacts DEF LedgerInv
<1>3. LedgerInv'
  BY <1>1, <1>2 DEF LedgerInv
<1>. QED BY <1>1, <1>3

-----------------------------------------------------------------------------
(* Queued examples *)

\* Steps that touch neither the queue nor the eval groups.
LEMMA RowsKept ==
    ASSUME RowsInv, UNCHANGED <<evalQueue, row, triggered>>, EvalGids' = EvalGids,
           \A g \in EvalGids : env'[g] = env[g], abandoned' \cap EvalGids = {}
    PROVE  RowsInv'
BY DEF RowsInv

\* The head of the queue becomes the row of a new group.
LEMMA RowsOpened ==
    ASSUME RowsInv, NEW g \in Gid, g \notin EvalGids, NextExample, UNCHANGED triggered,
           row' = [row EXCEPT ![g] = Head(evalQueue)], EvalGids' = EvalGids \cup {g},
           env'[g] = Head(evalQueue).env, \A h \in EvalGids : env'[h] = env[h],
           abandoned' = abandoned, g \notin abandoned
    PROVE  RowsInv'
<1>. DEFINE head == Head(evalQueue)
<1>1. evalQueue \in Seq(Row) /\ IsInjective(evalQueue) /\ evalQueue # <<>> /\ evalQueue' = Tail(evalQueue)
  BY DEF RowsInv, NextExample
<1>2. /\ head \in ToSet(evalQueue) /\ evalQueue' \in Seq(Row) /\ IsInjective(evalQueue')
      /\ ToSet(evalQueue') = ToSet(evalQueue) \ {head}
  BY <1>1, HeadTailFacts
<1>3. head \in Row
  BY <1>1, <1>2, ElementsOf
<1>. HIDE DEF head
<1>4. row' \in [Gid -> Row \cup {None}] /\ row'[g] = head /\ \A h \in EvalGids : row'[h] = row[h]
  BY <1>3 DEF RowsInv, head
<1>5. \A h \in EvalGids : row[h] # head
  BY <1>2 DEF RowsInv
<1>6. {row'[h] : h \in EvalGids'} = {row[h] : h \in EvalGids} \cup {head}
  BY <1>4
<1>7. ToSet(evalQueue') \cup {row'[h] : h \in EvalGids'} = RowsOf(ToSet(triggered))
  <2>1. ToSet(evalQueue) \cup {row[h] : h \in EvalGids} = RowsOf(ToSet(triggered))
    BY DEF RowsInv
  <2>. QED BY <2>1, <1>2, <1>6
<1>8. \A h \in EvalGids' : row'[h] \in Row /\ row'[h].env = env'[h] /\ row'[h] \notin ToSet(evalQueue')
  <2>1. ASSUME NEW h \in EvalGids
        PROVE  row'[h] \in Row /\ row'[h].env = env'[h] /\ row'[h] \notin ToSet(evalQueue')
    BY <1>2, <1>4 DEF RowsInv
  <2>2. row'[g] \in Row /\ row'[g].env = env'[g] /\ row'[g] \notin ToSet(evalQueue')
    BY <1>2, <1>3, <1>4 DEF head
  <2>. QED BY <2>1, <2>2
<1>9. \A h, i \in EvalGids' : row'[h] = row'[i] => h = i
  BY <1>4, <1>5 DEF RowsInv
<1>10. abandoned' \cap EvalGids' = {}
  BY DEF RowsInv
<1>. QED BY <1>1, <1>2, <1>4, <1>7, <1>8, <1>9, <1>10 DEF RowsInv

\* A trigger queues the rows of epochs that were not triggered before.
LEMMA RowsTriggered ==
    ASSUME RowsInv, triggered \in Seq(EpochSet), IsInjective(triggered),
           NEW s \in Nat, TriggerEval(s), \A k \in ToSet(triggered) : k[2] < s,
           UNCHANGED <<row, env, abandoned>>
    PROVE  /\ RowsInv' /\ triggered' \in Seq(EpochSet) /\ IsInjective(triggered')
           /\ ToSet(triggered') = ToSet(triggered) \cup (ToSet(Fired(s)) \X {s})
           /\ firstTrigger' = FALSE
<1>. DEFINE rows == RoundRobin(Fired(s), s)
            new == FiredEpochs(s)
<1>1. Fired(s) \in Seq(EvalEnv) /\ IsInjective(Fired(s))
  BY FiredFacts
<1>2. rows \in Seq(Row) /\ IsInjective(rows) /\ ToSet(rows) = RowsOf(ToSet(Fired(s)) \X {s})
  BY <1>1, RoundRobinFacts
<1>3. new \in Seq(EpochSet) /\ IsInjective(new) /\ ToSet(new) = ToSet(Fired(s)) \X {s}
  BY FiredEpochsFacts
<1>4. /\ evalQueue' = evalQueue \o rows /\ triggered' = triggered \o new /\ firstTrigger' = FALSE
  BY DEF TriggerEval, Trigger, FiredEpochs
<1>. HIDE DEF rows, new
<1>5. ToSet(triggered) \cap ToSet(new) = {}
  <2>1. ToSet(triggered) \subseteq EpochSet
    BY ElementsOf
  <2>2. \A k \in ToSet(new) : k[2] = s
    BY <1>3
  <2>3. \A k \in ToSet(triggered) : k[2] # s
    BY <2>1 DEF EpochSet
  <2>. QED BY <2>2, <2>3
<1>6. triggered' \in Seq(EpochSet) /\ IsInjective(triggered')
  BY <1>3, <1>4, <1>5, InjectiveConcat
<1>7. ToSet(triggered') = ToSet(triggered) \cup ToSet(new)
  BY <1>3, <1>4, ToSetConcat
<1>8. RowsOf(ToSet(triggered')) = RowsOf(ToSet(triggered)) \cup ToSet(rows)
  BY <1>2, <1>3, <1>7 DEF RowsOf
<1>9. RowsOf(ToSet(triggered)) \cap ToSet(rows) = {}
  BY <1>2, <1>3, <1>5 DEF RowsOf
<1>10. /\ evalQueue \in Seq(Row) /\ IsInjective(evalQueue)
       /\ ToSet(evalQueue) \cup {row[g] : g \in EvalGids} = RowsOf(ToSet(triggered))
  BY DEF RowsInv
<1>11. ToSet(evalQueue) \cap ToSet(rows) = {} /\ \A g \in EvalGids : row[g] \notin ToSet(rows)
  BY <1>9, <1>10
<1>12. evalQueue' \in Seq(Row) /\ IsInjective(evalQueue') /\ ToSet(evalQueue') = ToSet(evalQueue) \cup ToSet(rows)
  <2>1. evalQueue \in Seq(Row) /\ rows \in Seq(Row)
    BY <1>2, <1>10
  <2>2. evalQueue \o rows \in Seq(Row)
    BY <2>1
  <2>3. IsInjective(evalQueue \o rows)
    BY <2>1, <1>2, <1>10, <1>11, InjectiveConcat
  <2>4. ToSet(evalQueue \o rows) = ToSet(evalQueue) \cup ToSet(rows)
    BY <2>1, ToSetConcat
  <2>. QED BY <2>2, <2>3, <2>4, <1>4, Zenon
<1>13. EvalGids' = EvalGids
  BY DEF EvalGids
<1>14. RowsInv'
  <2>1. ToSet(evalQueue') \cup {row'[g] : g \in EvalGids'} = RowsOf(ToSet(triggered'))
    BY <1>8, <1>10, <1>12, <1>13
  <2>2. \A g \in EvalGids' : row'[g] \notin ToSet(evalQueue')
    BY <1>11, <1>12, <1>13 DEF RowsInv
  <2>. QED BY <2>1, <2>2, <1>12, <1>13 DEF RowsInv
<1>. QED BY <1>3, <1>4, <1>6, <1>7, <1>14

-----------------------------------------------------------------------------
(* Groups and buckets *)

\* Nothing holds the rollouts of no episodes.
LEMMA HoldsNothing ==
    /\ \A examples : Holds(<<>>, examples, 1..0)
    /\ \A episodes : Holds(<<>>, {}, episodes)
    /\ \A q, examples : Holds(q, examples, {}) => q = <<>>
<1>1. <<>> \in Seq(EvalRollout) /\ IsInjective(<<>>) /\ Pairs(<<>>) = {}
  BY DEF IsInjective, Pairs, ToSet
<1>2. 1..0 = {}
  OBVIOUS
<1>3. ASSUME NEW q, NEW examples, Holds(q, examples, {})
      PROVE  q = <<>>
  <2>1. q \in Seq(EvalRollout) /\ Pairs(q) = {}
    BY <1>3 DEF Holds
  <2>2. ToSet(q) = {}
    BY <2>1 DEF Pairs
  <2>. QED BY <2>1, <2>2, ElementsOf
<1>. QED BY <1>1, <1>2, <1>3 DEF Holds

\* What two sequences hold together, if they have no episode of an example in common.
LEMMA HoldsConcat ==
    ASSUME NEW q, NEW r, NEW X1, NEW E1, NEW X2, NEW E2,
           Holds(q, X1, E1), Holds(r, X2, E2), (X1 \X E1) \cap (X2 \X E2) = {}
    PROVE  /\ q \o r \in Seq(EvalRollout) /\ IsInjective(q \o r)
           /\ Pairs(q \o r) = (X1 \X E1) \cup (X2 \X E2)
<1>1. /\ q \in Seq(EvalRollout) /\ IsInjective(q) /\ Pairs(q) = X1 \X E1
      /\ r \in Seq(EvalRollout) /\ IsInjective(r) /\ Pairs(r) = X2 \X E2
  BY DEF Holds
<1>2. ToSet(q) \cap ToSet(r) = {}
  <2>1. ASSUME NEW x \in ToSet(q), x \in ToSet(r)
        PROVE  FALSE
    <3>1. <<x.example, x.episode>> \in Pairs(q) /\ <<x.example, x.episode>> \in Pairs(r)
      BY <2>1 DEF Pairs
    <3>2. <<x.example, x.episode>> \in X1 \X E1 /\ <<x.example, x.episode>> \in X2 \X E2
      BY <1>1, <3>1, Zenon
    <3>. QED BY <3>2
  <2>. QED BY <2>1
<1>3. ToSet(q \o r) = ToSet(q) \cup ToSet(r)
  BY <1>1, ToSetConcat
<1>4. IsInjective(q \o r)
  BY <1>1, <1>2, InjectiveConcat
<1>5. Pairs(q \o r) = Pairs(q) \cup Pairs(r)
  BY <1>3 DEF Pairs
<1>. QED BY <1>1, <1>4, <1>5

\* The rollouts of one episode.
LEMMA NthEvalEpisodeFacts ==
    ASSUME NEW g, NEW r \in Row, NEW traces \in Traces, evalEpisodes[g] \in Nat
    PROVE  Holds(NthEvalEpisode(g, r, traces), {r.example}, {evalEpisodes[g] + 1})
<1>. DEFINE n == evalEpisodes[g] + 1
            q == NthEvalEpisode(g, r, traces)
<1>1. traces \in Nat \ {0} /\ r.example \in Nat /\ n \in Nat
  BY EvalAssumption DEF Row
<1>2. q = [i \in 1..traces |-> [example |-> r.example, episode |-> n, part |-> i]]
  BY DEF NthEvalEpisode
<1>. HIDE DEF n, q
<1>3. q \in [1..traces -> EvalRollout]
  BY <1>1, <1>2 DEF EvalRollout
<1>4. q \in Seq(EvalRollout) /\ DOMAIN q = 1..traces
  BY <1>1, <1>3, SeqDef
<1>5. IsInjective(q)
  BY <1>2, <1>4 DEF IsInjective
<1>6. Pairs(q) = {<<r.example, n>>}
  <2>1. \A x \in ToSet(q) : <<x.example, x.episode>> = <<r.example, n>>
    BY <1>2, <1>4 DEF ToSet
  <2>2. q[1] \in ToSet(q)
    BY <1>1, <1>4 DEF ToSet
  <2>. QED BY <2>1, <2>2 DEF Pairs
<1>7. {<<r.example, n>>} = {r.example} \X {n}
  OBVIOUS
<1>. QED BY <1>4, <1>5, <1>6, <1>7 DEF Holds, q, n

\* Steps that neither deliver an eval episode nor open an eval group.
LEMMA GroupsKept ==
    ASSUME GroupsInv, UNCHANGED <<evalEpisodes, evalGroups, row>>, EvalGids' = EvalGids,
           \A g \in EvalGids : env'[g] = env[g] /\ delivered'[g] = delivered[g]
    PROVE  GroupsInv'
BY DEF GroupsInv

\* A group that is opened has delivered nothing.
LEMMA GroupsOpened ==
    ASSUME GroupsInv, LedgerInv, NEW g \in Gid, g \notin EvalGids, EvalGids' = EvalGids \cup {g},
           env'[g] \in EvalEnv, delivered[g] = 0, delivered' = delivered,
           \A h \in EvalGids : env'[h] = env[h] /\ row'[h] = row[h],
           UNCHANGED <<evalEpisodes, evalGroups>>
    PROVE  GroupsInv'
<1>1. evalEpisodes[g] = 0 /\ evalGroups[g] = <<>> /\ GroupSize[env'[g]] # 0
  BY EnvFacts DEF GroupsInv
<1>2. Holds(evalGroups'[g], {row'[g].example}, 1..evalEpisodes'[g])
  BY <1>1, HoldsNothing
<1>3. \A h \in EvalGids' :
        evalEpisodes'[h] = IF delivered'[h] = GroupSize[env'[h]] THEN 0 ELSE delivered'[h]
  <2>1. evalEpisodes'[g] = 0 /\ delivered'[g] = 0 /\ evalEpisodes' = evalEpisodes
    BY <1>1
  <2>2. \A h \in EvalGids :
          evalEpisodes'[h] = IF delivered'[h] = GroupSize[env'[h]] THEN 0 ELSE delivered'[h]
    BY <2>1 DEF GroupsInv
  <2>. QED BY <2>1, <2>2
<1>4. \A h \in EvalGids' : Holds(evalGroups'[h], {row'[h].example}, 1..evalEpisodes'[h])
  BY <1>2 DEF GroupsInv
<1>5. /\ evalEpisodes' \in [Gid -> Nat] /\ evalGroups' \in [Gid -> Seq(EvalRollout)]
      /\ \A h \in Gid : h \notin EvalGids' => evalEpisodes'[h] = 0
      /\ \A h \in Gid : evalEpisodes'[h] = 0 => evalGroups'[h] = <<>>
  BY DEF GroupsInv
<1>. QED BY <1>3, <1>4, <1>5 DEF GroupsInv

\* Steps in which no eval group delivers its last episode, and the sink is left alone.
LEMMA BucketsKept ==
    ASSUME BucketsInv, UNCHANGED <<buckets, bucketEpisodes, evaluated>>,
           ToSet(triggered) \subseteq ToSet(triggered'), \A k : Done(k)' = Done(k)
    PROVE  BucketsInv'
<1>1. \A k : BucketInv(k) => BucketInv(k)'
  BY DEF BucketInv
<1>. QED BY <1>1 DEF BucketsInv

\* No epoch is done further when the eval groups and what they delivered stay.
LEMMA DoneKept ==
    ASSUME EvalGids' = EvalGids,
           \A g \in EvalGids : env'[g] = env[g] /\ row'[g] = row[g] /\ delivered'[g] = delivered[g]
    PROVE  \A k : Done(k)' = Done(k)
<1>1. \A k : DoneGids(k)' = DoneGids(k)
  BY DEF DoneGids
<1>2. \A k : \A g \in DoneGids(k) : row'[g] = row[g]
  BY DEF DoneGids
<1>. QED BY <1>1, <1>2 DEF Done

\* Nor when a group is opened.
LEMMA DoneOpened ==
    ASSUME NEW g \in Gid, g \notin EvalGids, EvalGids' = EvalGids \cup {g},
           env'[g] \in EvalEnv, delivered[g] = 0, delivered' = delivered,
           \A h \in EvalGids : env'[h] = env[h] /\ row'[h] = row[h]
    PROVE  \A k : Done(k)' = Done(k)
<1>1. GroupSize[env'[g]] # 0
  BY EnvFacts
<1>2. \A k : DoneGids(k)' = DoneGids(k)
  BY <1>1 DEF DoneGids
<1>3. \A k : \A h \in DoneGids(k) : row'[h] = row[h]
  BY DEF DoneGids
<1>. QED BY <1>2, <1>3 DEF Done

-----------------------------------------------------------------------------
(* An eval episode is delivered *)

\* What is done of an epoch is a part of its examples; nothing is done of an epoch that was
\* not triggered.
LEMMA DoneFacts ==
    ASSUME RowsInv, NEW k \in EpochSet
    PROVE  /\ Done(k) \subseteq 1..Examples[k[1]] /\ IsFiniteSet(Done(k)) /\ Cardinality(Done(k)) \in Nat
           /\ Done(k) # {} => k \in ToSet(triggered)
           /\ Done(k) = 1..Examples[k[1]] <=> Cardinality(Done(k)) >= Examples[k[1]]
<1>. DEFINE all == 1..Examples[k[1]]
<1>1. Examples[k[1]] \in Nat /\ Examples[k[1]] >= 1
  BY EnvFacts DEF EpochSet
<1>2. ASSUME NEW g \in DoneGids(k)
      PROVE  row[g].example \in all /\ k \in ToSet(triggered)
  <2>1. row[g] \in RowsOf(ToSet(triggered)) /\ KeyOf(row[g]) = k
    BY DEF DoneGids, RowsInv
  <2>2. row[g] \in Row /\ k \in ToSet(triggered) /\ row[g].example <= Examples[row[g].env] /\ row[g].env = k[1]
    BY <2>1 DEF RowsOf, KeyOf
  <2>. QED BY <2>2, <1>1 DEF Row
<1>3. Done(k) \subseteq all /\ (Done(k) # {} => k \in ToSet(triggered))
  BY <1>2 DEF Done
<1>4. IsFiniteSet(all) /\ Cardinality(all) = Examples[k[1]]
  <2>. DEFINE m == Examples[k[1]]
  <2>1. m \in Nat /\ m >= 1
    BY <1>1
  <2>. HIDE DEF m
  <2>2. IsFiniteSet(1..m) /\ Cardinality(1..m) = m
    BY <2>1, FS_Interval
  <2>. QED BY <2>2 DEF m
<1>. HIDE DEF all
<1>5. IsFiniteSet(Done(k)) /\ Cardinality(Done(k)) \in Nat /\ Cardinality(Done(k)) <= Cardinality(all)
      /\ (Cardinality(Done(k)) = Cardinality(all) => Done(k) = all)
  BY <1>3, <1>4, FS_Subset, FS_CardinalityType
<1>6. Done(k) = all <=> Cardinality(Done(k)) >= Examples[k[1]]
  <2>1. Done(k) = all => Cardinality(Done(k)) = Cardinality(all)
    BY Zenon
  <2>. QED BY <2>1, <1>1, <1>4, <1>5
<1>. QED BY <1>3, <1>5, <1>6 DEF all

\* An eval group delivers an episode.
Delivers(g) ==
    /\ g \in EvalGids /\ delivered[g] < GroupSize[env[g]]
    /\ env' = env /\ row' = row /\ delivered' = [delivered EXCEPT ![g] = delivered[g] + 1]

\* The example of a group whose episode arrives is not done yet; it is done with the last one.
LEMMA DoneDelivered ==
    ASSUME LedgerInv, RowsInv, NEW g \in EvalGids, Delivers(g), NEW k, k = KeyOf(row[g])
    PROVE  /\ EvalGids' = EvalGids
           /\ k \in EpochSet /\ k \in ToSet(triggered) /\ k[1] = env[g]
           /\ row[g].example \in 1..Examples[k[1]] /\ row[g].example \notin Done(k)
           /\ \A j : j # k => Done(j)' = Done(j)
           /\ Done(k)' = IF delivered[g] + 1 = GroupSize[env[g]]
                         THEN Done(k) \cup {row[g].example} ELSE Done(k)
<1>. USE DEF Delivers
<1>1. EvalGids' = EvalGids
  BY DEF EvalGids
<1>2. g \in Gid /\ row[g] \in Row /\ row[g] \in RowsOf(ToSet(triggered)) /\ row[g].env = env[g]
  BY DEF EvalGids, RowsInv
<1>3. k \in EpochSet /\ k \in ToSet(triggered) /\ k[1] = env[g] /\ row[g].example \in 1..Examples[k[1]]
  BY <1>2, EnvFacts DEF RowsOf, KeyOf, EpochSet, Row
<1>4. row[g].example \notin Done(k)
  <2>1. ASSUME NEW h \in DoneGids(k), row[h].example = row[g].example
        PROVE  FALSE
    <3>1. h \in EvalGids /\ row[h] \in Row /\ KeyOf(row[h]) = k /\ delivered[h] = GroupSize[env[h]]
      BY DEF DoneGids, RowsInv
    <3>2. row[h] = row[g]
      BY <1>2, <2>1, <3>1 DEF Row, KeyOf
    <3>3. h = g
      BY <3>1, <3>2 DEF RowsInv
    <3>. QED BY <3>1, <3>3, <1>2 DEF LedgerInv
  <2>. QED BY <2>1 DEF Done
<1>5. /\ delivered'[g] = delivered[g] + 1 /\ delivered[g] \in Nat
      /\ \A h \in EvalGids \ {g} : delivered'[h] = delivered[h]
  BY <1>2 DEF LedgerInv, EvalGids
<1>6. \A j : j # k => DoneGids(j)' = DoneGids(j)
  <2>. SUFFICES ASSUME NEW j, j # k
               PROVE  DoneGids(j)' = DoneGids(j)
    OBVIOUS
  <2>. QED BY <1>1, <1>5 DEF DoneGids
<1>7. g \notin DoneGids(k) /\ GroupSize[env[g]] \in Nat
  BY <1>5, <1>2, EnvFacts DEF DoneGids, EvalGids
<1>8. DoneGids(k)' = IF delivered[g] + 1 = GroupSize[env[g]] THEN DoneGids(k) \cup {g} ELSE DoneGids(k)
  <2>1. \A h \in EvalGids \ {g} : h \in DoneGids(k)' <=> h \in DoneGids(k)
    BY <1>1, <1>5 DEF DoneGids
  <2>2. g \in DoneGids(k)' <=> delivered[g] + 1 = GroupSize[env[g]]
    BY <1>1, <1>5 DEF DoneGids
  <2>3. DoneGids(k) \subseteq EvalGids /\ DoneGids(k)' \subseteq EvalGids
    BY <1>1 DEF DoneGids
  <2>4. CASE delivered[g] + 1 = GroupSize[env[g]]
    BY <2>1, <2>2, <2>3, <2>4
  <2>5. CASE delivered[g] + 1 # GroupSize[env[g]]
    BY <2>1, <2>2, <2>3, <2>5, <1>7
  <2>. QED BY <2>4, <2>5
<1>9. \A j : j # k => Done(j)' = Done(j)
  BY <1>6 DEF Done
<1>10. Done(k)' = IF delivered[g] + 1 = GroupSize[env[g]] THEN Done(k) \cup {row[g].example} ELSE Done(k)
  BY <1>8 DEF Done
<1>. QED BY <1>1, <1>3, <1>4, <1>9, <1>10

\* What the sink has of a group once the episode has been added.
GroupWith(g, traces) == evalGroups[g] \o NthEvalEpisode(g, row[g], traces)

\* The group holds the episodes delivered, the new one among them.
LEMMA GroupWithFacts ==
    ASSUME LedgerInv, RowsInv, GroupsInv, NEW g \in EvalGids, delivered[g] < GroupSize[env[g]],
           NEW traces \in Traces
    PROVE  /\ evalEpisodes[g] = delivered[g] /\ delivered[g] \in Nat /\ GroupSize[env[g]] \in Nat
           /\ Holds(GroupWith(g, traces), {row[g].example}, 1..delivered[g] + 1)
<1>. DEFINE n == delivered[g]
            X == {row[g].example}
            nth == NthEvalEpisode(g, row[g], traces)
<1>1. g \in Gid /\ n \in Nat /\ GroupSize[env[g]] \in Nat /\ evalEpisodes[g] = n /\ row[g] \in Row
  BY EnvFacts DEF EvalGids, LedgerInv, RowsInv, GroupsInv
<1>2. Holds(nth, X, {n + 1})
  BY <1>1, NthEvalEpisodeFacts
<1>3. Holds(evalGroups[g], X, 1..n)
  BY <1>1 DEF GroupsInv
<1>. HIDE DEF nth, X
<1>4. (X \X (1..n)) \cap (X \X {n + 1}) = {}
  BY <1>1
<1>5. (X \X (1..n)) \cup (X \X {n + 1}) = X \X (1..n + 1)
  <2>1. (1..n) \cup {n + 1} = 1..n + 1
    BY <1>1
  <2>. HIDE DEF n
  <2>2. (X \X (1..n)) \cup (X \X {n + 1}) = X \X ((1..n) \cup {n + 1})
    OBVIOUS
  <2>. QED BY <2>1, <2>2, Zenon
<1>6. GroupWith(g, traces) = evalGroups[g] \o nth
  BY DEF GroupWith, nth
<1>. DEFINE q == evalGroups[g]
            older == 1..n
            newest == {n + 1}
<1>7. Holds(q, X, older) /\ Holds(nth, X, newest) /\ (X \X older) \cap (X \X newest) = {}
  BY <1>2, <1>3, <1>4
<1>. HIDE DEF q, older, newest
<1>8. /\ q \o nth \in Seq(EvalRollout) /\ IsInjective(q \o nth)
      /\ Pairs(q \o nth) = (X \X older) \cup (X \X newest)
  BY <1>7, HoldsConcat
<1>9. Pairs(q \o nth) = X \X (1..n + 1)
  BY <1>5, <1>8, Zenon DEF older, newest
<1>10. Holds(GroupWith(g, traces), X, 1..n + 1)
  BY <1>6, <1>8, <1>9, Zenon DEF Holds, q
<1>. QED BY <1>1, <1>10 DEF X

\* The sink's groups after an episode.
LEMMA GroupsDelivered ==
    ASSUME LedgerInv, RowsInv, GroupsInv, NEW g \in EvalGids, Delivers(g),
           NEW traces \in Traces, EvalAdd(g, row[g], traces)
    PROVE  GroupsInv'
<1>. USE DEF Delivers
<1>. DEFINE last == delivered[g] + 1 = GroupSize[env[g]]
<1>1. /\ evalEpisodes[g] = delivered[g] /\ delivered[g] \in Nat /\ GroupSize[env[g]] \in Nat
      /\ Holds(GroupWith(g, traces), {row[g].example}, 1..delivered[g] + 1)
  BY GroupWithFacts
<1>2. row[g].env = env[g] /\ g \in Gid /\ EvalGids' = EvalGids
  BY DEF RowsInv, EvalGids
<1>3. last <=> evalEpisodes[g] + 1 >= GroupSize[row[g].env]
  BY <1>1, <1>2
<1>4. /\ evalGroups' = [evalGroups EXCEPT ![g] = IF last THEN <<>> ELSE GroupWith(g, traces)]
      /\ evalEpisodes' = [evalEpisodes EXCEPT ![g] = IF last THEN 0 ELSE @ + 1]
  BY <1>3 DEF EvalAdd, GroupWith
<1>. HIDE DEF last
<1>5. GroupWith(g, traces) \in Seq(EvalRollout)
  BY <1>1 DEF Holds
<1>6. evalEpisodes' \in [Gid -> Nat] /\ evalGroups' \in [Gid -> Seq(EvalRollout)]
  BY <1>1, <1>2, <1>4, <1>5 DEF GroupsInv
<1>7. /\ evalEpisodes'[g] = (IF last THEN 0 ELSE delivered[g] + 1)
      /\ evalGroups'[g] = (IF last THEN <<>> ELSE GroupWith(g, traces))
      /\ delivered'[g] = delivered[g] + 1
  BY <1>1, <1>2, <1>4 DEF GroupsInv, LedgerInv
<1>8. \A h \in Gid \ {g} : evalEpisodes'[h] = evalEpisodes[h] /\ evalGroups'[h] = evalGroups[h]
                           /\ delivered'[h] = delivered[h]
  BY <1>4 DEF GroupsInv, LedgerInv
<1>9. \A h \in Gid : h \notin EvalGids' => evalEpisodes'[h] = 0
  BY <1>2, <1>8 DEF GroupsInv
<1>10. \A h \in Gid : evalEpisodes'[h] = 0 => evalGroups'[h] = <<>>
  BY <1>1, <1>7, <1>8 DEF GroupsInv
<1>11. \A h \in EvalGids' :
         evalEpisodes'[h] = IF delivered'[h] = GroupSize[env'[h]] THEN 0 ELSE delivered'[h]
  <2>1. evalEpisodes'[g] = IF delivered'[g] = GroupSize[env'[g]] THEN 0 ELSE delivered'[g]
    BY <1>7 DEF last
  <2>2. \A h \in EvalGids \ {g} :
          evalEpisodes'[h] = IF delivered'[h] = GroupSize[env'[h]] THEN 0 ELSE delivered'[h]
    BY <1>8 DEF GroupsInv, EvalGids
  <2>. QED BY <2>1, <2>2, <1>2
<1>12. \A h \in EvalGids' : Holds(evalGroups'[h], {row'[h].example}, 1..evalEpisodes'[h])
  <2>1. Holds(evalGroups'[g], {row'[g].example}, 1..evalEpisodes'[g])
    BY <1>1, <1>7, HoldsNothing
  <2>2. \A h \in EvalGids \ {g} : Holds(evalGroups'[h], {row'[h].example}, 1..evalEpisodes'[h])
    BY <1>8 DEF GroupsInv, EvalGids
  <2>. QED BY <2>1, <2>2, <1>2
<1>. QED BY <1>6, <1>9, <1>10, <1>11, <1>12 DEF GroupsInv

\* The smaller of two multiples has the smaller factor.
LEMMA Multiples ==
    ASSUME NEW a \in Nat, NEW b \in Nat, NEW c \in Nat \ {0}
    PROVE  a * c >= b * c <=> a >= b
<1>1. a >= b => a * c >= b * c
  <2>. SUFFICES ASSUME a >= b
               PROVE  a * c >= b * c
    OBVIOUS
  <2>. DEFINE d == a - b
  <2>1. d \in Nat /\ a = b + d
    OBVIOUS
  <2>. HIDE DEF d
  <2>2. d * c \in Nat /\ b * c \in Nat /\ (b + d) * c = b * c + d * c
    BY <2>1
  <2>. QED BY <2>1, <2>2
<1>2. ~(a >= b) => ~(a * c >= b * c)
  <2>. SUFFICES ASSUME ~(a >= b)
               PROVE  ~(a * c >= b * c)
    OBVIOUS
  <2>. DEFINE d == b - a - 1
  <2>1. d \in Nat /\ b = a + d + 1
    OBVIOUS
  <2>. HIDE DEF d
  <2>2. d * c \in Nat /\ a * c \in Nat /\ (a + d + 1) * c = a * c + d * c + c
    BY <2>1
  <2>. QED BY <2>1, <2>2
<1>. QED BY <1>1, <1>2

\* The keys of a dict after an entry is set or removed.
LEMMA EntryKeys ==
    ASSUME NEW f, NEW k, NEW v
    PROVE  /\ DOMAIN WithEntry(f, k, v) = DOMAIN f \cup {k}
           /\ DOMAIN Restrict(f, DOMAIN f \ {k}) = DOMAIN f \ {k}
BY DEF WithEntry, Restrict

\* An epoch's report is not mistaken for none.
LEMMA ReportIsNotNone ==
    ASSUME NEW x, NEW y, NEW z
    PROVE  [env |-> x, step |-> y, rollouts |-> z] # NoEvalBatch
<1>. DEFINE report == [env |-> x, step |-> y, rollouts |-> z]
<1>1. DOMAIN report = {"env", "step", "rollouts"}
  OBVIOUS
<1>2. DOMAIN <<>> = {}
  OBVIOUS
<1>. QED BY <1>1, <1>2 DEF NoEvalBatch

\* Epochs other than the delivering group's are as far as they were.
LEMMA OtherBuckets ==
    ASSUME NEW j, Done(j)' = Done(j), BucketInv(j),
           ValueAt(bucketEpisodes', j, 0) = ValueAt(bucketEpisodes, j, 0),
           ValueAt(buckets', j, <<>>) = ValueAt(buckets, j, <<>>)
    PROVE  BucketInv(j)'
BY DEF BucketInv

\* An episode that does not complete its group: the epoch is as far as it was.
LEMMA BucketsUnlessComplete ==
    ASSUME LedgerInv, RowsInv, GroupsInv, BucketsInv, NEW g \in EvalGids, Delivers(g),
           delivered[g] + 1 < GroupSize[env[g]],
           NEW traces \in Traces, EvalAdd(g, row[g], traces), triggered' = triggered
    PROVE  /\ evalBatch' = NoEvalBatch
           /\ evaluated' = evaluated => BucketsInv'
<1>. PICK k : k = KeyOf(row[g])
  OBVIOUS
<1>0. /\ evalEpisodes[g] = delivered[g] /\ delivered[g] \in Nat /\ GroupSize[env[g]] \in Nat
      /\ delivered[g] < GroupSize[env[g]]
  <2>1. delivered[g] \in Nat /\ GroupSize[env[g]] \in Nat
    BY EnvFacts DEF EvalGids, LedgerInv, Delivers
  <2>. QED BY <2>1 DEF GroupsInv, Delivers
<1>1. /\ k \in EpochSet /\ k \in ToSet(triggered) /\ k[1] = env[g]
      /\ row[g].example \in 1..Examples[k[1]] /\ row[g].example \notin Done(k)
      /\ \A j : j # k => Done(j)' = Done(j)
      /\ Done(k)' = IF delivered[g] + 1 = GroupSize[env[g]] THEN Done(k) \cup {row[g].example} ELSE Done(k)
  BY <1>0, DoneDelivered
<1>2. \A j : Done(j)' = Done(j)
  BY <1>0, <1>1
<1>3. k \notin ToSet(evaluated)
  BY <1>1 DEF BucketsInv
<1>4. BucketInv(k)
  BY <1>1, <1>3 DEF BucketsInv
<1>. DEFINE count == ValueAt(bucketEpisodes, k, 0)
<1>5. count = Cardinality(Done(k)) * GroupSize[k[1]] /\ ~(count + 0 >= EpochSize(k[1])) /\ count + 0 = count
  <2>1. Cardinality(Done(k)) \in Nat /\ ~(Cardinality(Done(k)) >= Examples[k[1]])
    BY <1>1, <1>4, DoneFacts DEF BucketInv
  <2>2. Examples[k[1]] \in Nat /\ GroupSize[k[1]] \in Nat \ {0}
    BY <1>1, EnvFacts DEF EpochSet
  <2>3. count = Cardinality(Done(k)) * GroupSize[k[1]]
    BY <1>4 DEF BucketInv
  <2>4. ~(Cardinality(Done(k)) * GroupSize[k[1]] >= Examples[k[1]] * GroupSize[k[1]])
    BY <2>1, <2>2, Multiples
  <2>. QED BY <2>1, <2>2, <2>3, <2>4 DEF EpochSize
<1>6. k = <<row[g].env, row[g].step>> /\ row[g].env = k[1] /\ ~(evalEpisodes[g] + 1 >= GroupSize[row[g].env])
  BY <1>0, <1>1 DEF KeyOf
<1>. HIDE DEF count
<1>7. evalBatch' = NoEvalBatch /\ buckets' = buckets /\ bucketEpisodes' = WithEntry(bucketEpisodes, k, count)
  BY <1>5, <1>6 DEF EvalAdd, count
<1>. USE DEF Delivers
<1>8. ASSUME evaluated' = evaluated
      PROVE  BucketsInv'
  <2>1. \A j : ValueAt(bucketEpisodes', j, 0) = ValueAt(bucketEpisodes, j, 0)
    <3>1. ValueAt(bucketEpisodes', k, 0) = ValueAt(bucketEpisodes, k, 0)
      BY <1>7 DEF count, ValueAt, WithEntry
    <3>2. ASSUME NEW j, j # k
          PROVE  ValueAt(bucketEpisodes', j, 0) = ValueAt(bucketEpisodes, j, 0)
      BY <1>7, <3>2 DEF ValueAt, WithEntry
    <3>. QED BY <3>1, <3>2, Zenon
  <2>2. DOMAIN bucketEpisodes' = DOMAIN bucketEpisodes \cup {k}
    BY <1>7, EntryKeys
  <2>3. \A j \in EpochSet \ ToSet(evaluated') : BucketInv(j)'
    <3>. SUFFICES ASSUME NEW j \in EpochSet \ ToSet(evaluated)
                 PROVE  BucketInv(j)'
      BY <1>8
    <3>1. BucketInv(j)
      BY DEF BucketsInv
    <3>. QED BY <3>1, <1>2, <1>7, <2>1, OtherBuckets
  <2>. QED BY <1>1, <1>2, <1>3, <1>7, <1>8, <2>2, <2>3 DEF BucketsInv
<1>. QED BY <1>7, <1>8

\* The bucket of a group that completes holds the group's example as well.
LEMMA BucketWithFacts ==
    ASSUME NEW b, NEW q, NEW X, NEW x, NEW E, Holds(b, X, E), Holds(q, {x}, E), x \notin X
    PROVE  Holds(b \o q, X \cup {x}, E)
<1>1. (X \X E) \cap ({x} \X E) = {}
  OBVIOUS
<1>2. b \o q \in Seq(EvalRollout) /\ IsInjective(b \o q) /\ Pairs(b \o q) = (X \X E) \cup ({x} \X E)
  BY <1>1, HoldsConcat
<1>3. (X \X E) \cup ({x} \X E) = (X \cup {x}) \X E
  OBVIOUS
<1>4. Pairs(b \o q) = (X \cup {x}) \X E
  BY <1>2, <1>3, Zenon
<1>. QED BY <1>2, <1>4 DEF Holds

\* The sink's bucket of a group's epoch once the completed group has been moved to it.
BucketWith(g, traces) == ValueAt(buckets, KeyOf(row[g]), <<>>) \o GroupWith(g, traces)

\* The episode that completes a group: the epoch is one example further, and is returned if
\* that was its last one.
LEMMA BucketsWhenComplete ==
    ASSUME LedgerInv, RowsInv, GroupsInv, BucketsInv, NEW g \in EvalGids, Delivers(g),
           delivered[g] + 1 = GroupSize[env[g]],
           NEW traces \in Traces, EvalAdd(g, row[g], traces), triggered' = triggered
    PROVE  \/ evalBatch' = NoEvalBatch /\ (evaluated' = evaluated => BucketsInv')
           \/ \E k \in EpochSet :
                /\ evalBatch' # NoEvalBatch /\ evalBatch'.env = k[1] /\ evalBatch'.step = k[2]
                /\ Holds(evalBatch'.rollouts, 1..Examples[k[1]], 1..GroupSize[k[1]])
                /\ k \in ToSet(triggered) /\ k \notin ToSet(evaluated)
                /\ evaluated' = Append(evaluated, k) => BucketsInv'
<1>. PICK k : k = KeyOf(row[g])
  OBVIOUS
<1>. DEFINE n == GroupSize[k[1]]
            count == ValueAt(bucketEpisodes, k, 0)
<1>0. /\ evalEpisodes[g] = delivered[g] /\ delivered[g] \in Nat /\ GroupSize[env[g]] \in Nat
      /\ delivered[g] < GroupSize[env[g]]
      /\ Holds(GroupWith(g, traces), {row[g].example}, 1..delivered[g] + 1)
  <2>1. delivered[g] \in Nat /\ GroupSize[env[g]] \in Nat
    BY EnvFacts DEF EvalGids, LedgerInv
  <2>2. delivered[g] < GroupSize[env[g]]
    BY <2>1
  <2>. QED BY <2>1, <2>2, GroupWithFacts DEF Delivers
<1>1. /\ k \in EpochSet /\ k \in ToSet(triggered) /\ k[1] = env[g]
      /\ row[g].example \in 1..Examples[k[1]] /\ row[g].example \notin Done(k)
      /\ \A j : j # k => Done(j)' = Done(j)
      /\ Done(k)' = Done(k) \cup {row[g].example}
  BY <1>0, DoneDelivered
<1>2. k \notin ToSet(evaluated) /\ BucketInv(k)
  BY <1>1 DEF BucketsInv
<1>3. /\ k = <<row[g].env, row[g].step>> /\ row[g].env = k[1] /\ row[g].step = k[2]
      /\ evalEpisodes[g] + 1 >= GroupSize[row[g].env] /\ evalEpisodes[g] + 1 = n
  BY <1>0, <1>1 DEF KeyOf
<1>4. Holds(BucketWith(g, traces), Done(k) \cup {row[g].example}, 1..n)
  <2>1. Holds(ValueAt(buckets, k, <<>>), Done(k), 1..n)
    BY <1>2 DEF BucketInv
  <2>2. Holds(GroupWith(g, traces), {row[g].example}, 1..n)
    BY <1>0, <1>3
  <2>. HIDE DEF n
  <2>3. Holds(ValueAt(buckets, k, <<>>) \o GroupWith(g, traces), Done(k) \cup {row[g].example}, 1..n)
    BY <1>1, <2>1, <2>2, BucketWithFacts
  <2>. QED BY <2>3, Zenon DEF BucketWith
<1>5. /\ Cardinality(Done(k)) \in Nat /\ IsFiniteSet(Done(k)) /\ Done(k) \subseteq 1..Examples[k[1]]
      /\ Cardinality(Done(k) \cup {row[g].example}) = Cardinality(Done(k)) + 1
      /\ Examples[k[1]] \in Nat /\ n \in Nat \ {0}
  BY <1>1, DoneFacts, FS_AddElement, EnvFacts DEF EpochSet
<1>6. /\ count + n = (Cardinality(Done(k)) + 1) * n
      /\ count + n >= EpochSize(k[1]) <=> Cardinality(Done(k)) + 1 >= Examples[k[1]]
  <2>. DEFINE done == Cardinality(Done(k))
              all == Examples[k[1]]
  <2>1. count = done * n /\ EpochSize(k[1]) = all * n
    BY <1>2 DEF BucketInv, EpochSize
  <2>2. done \in Nat /\ done + 1 \in Nat /\ all \in Nat /\ n \in Nat \ {0}
    BY <1>5
  <2>. HIDE DEF done, all, n, count
  <2>3. (done + 1) * n = done * n + n
    BY <2>2
  <2>4. (done + 1) * n >= all * n <=> done + 1 >= all
    BY <2>2, Multiples
  <2>5. count + n = (done + 1) * n /\ (count + n >= EpochSize(k[1]) <=> done + 1 >= all)
    BY <2>1, <2>3, <2>4
  <2>. QED BY <2>5 DEF done, all
<1>7. Done(k) \cup {row[g].example} = 1..Examples[k[1]] <=> Cardinality(Done(k)) + 1 >= Examples[k[1]]
  <2>. DEFINE all == 1..Examples[k[1]]
              done == Done(k) \cup {row[g].example}
  <2>1. IsFiniteSet(all) /\ Cardinality(all) = Examples[k[1]]
    <3>. DEFINE m == Examples[k[1]]
    <3>1. m \in Nat
      BY <1>5
    <3>. HIDE DEF m
    <3>2. IsFiniteSet(1..m) /\ Cardinality(1..m) = m
      BY <3>1, FS_Interval
    <3>. QED BY <3>2 DEF m
  <2>2. done \subseteq all
    BY <1>1, <1>5
  <2>3. Cardinality(done) = Cardinality(Done(k)) + 1
    BY <1>5
  <2>. HIDE DEF all, done
  <2>4. Cardinality(done) <= Cardinality(all) /\ (Cardinality(done) = Cardinality(all) => done = all)
    BY <2>1, <2>2, FS_Subset
  <2>5. done = all => Cardinality(done) = Cardinality(all)
    BY Zenon
  <2>6. done = all <=> Cardinality(Done(k)) + 1 >= Examples[k[1]]
    BY <1>5, <2>1, <2>3, <2>4, <2>5
  <2>. QED BY <2>6 DEF all, done
<1>8. /\ buckets' = IF count + n >= EpochSize(k[1]) THEN Restrict(buckets, DOMAIN buckets \ {k})
                    ELSE WithEntry(buckets, k, BucketWith(g, traces))
      /\ bucketEpisodes' = IF count + n >= EpochSize(k[1])
                           THEN Restrict(bucketEpisodes, DOMAIN bucketEpisodes \ {k})
                           ELSE WithEntry(bucketEpisodes, k, count + n)
      /\ evalBatch' = IF count + n >= EpochSize(k[1])
                      THEN [env |-> row[g].env, step |-> row[g].step, rollouts |-> BucketWith(g, traces)]
                      ELSE NoEvalBatch
  BY <1>3 DEF EvalAdd, BucketWith, GroupWith
<1>. HIDE DEF count, n
<1>9. CASE ~(count + n >= EpochSize(k[1]))
  <2>1. /\ buckets' = WithEntry(buckets, k, BucketWith(g, traces)) /\ evalBatch' = NoEvalBatch
        /\ bucketEpisodes' = WithEntry(bucketEpisodes, k, count + n)
    BY <1>8, <1>9
  <2>2. BucketInv(k)'
    <3>1. Done(k)' # 1..Examples[k[1]]
      BY <1>1, <1>6, <1>7, <1>9
    <3>2. ValueAt(bucketEpisodes', k, 0) = count + n /\ ValueAt(buckets', k, <<>>) = BucketWith(g, traces)
      BY <2>1 DEF ValueAt, WithEntry
    <3>3. ValueAt(bucketEpisodes', k, 0) = Cardinality(Done(k)') * GroupSize[k[1]]
      BY <1>1, <1>5, <1>6, <3>2 DEF n
    <3>4. Holds(ValueAt(buckets', k, <<>>), Done(k)', 1..GroupSize[k[1]])
      BY <1>1, <1>4, <3>2, Zenon DEF n
    <3>. QED BY <3>1, <3>3, <3>4 DEF BucketInv
  <2>3. ASSUME evaluated' = evaluated
        PROVE  BucketsInv'
    <3>1. DOMAIN buckets' = DOMAIN buckets \cup {k} /\ DOMAIN bucketEpisodes' = DOMAIN bucketEpisodes \cup {k}
      BY <2>1, EntryKeys
    <3>2. \A j \in EpochSet \ ToSet(evaluated') : BucketInv(j)'
      <4>. SUFFICES ASSUME NEW j \in EpochSet \ ToSet(evaluated), j # k
                   PROVE  BucketInv(j)'
        BY <2>2, <2>3
      <4>1. BucketInv(j) /\ Done(j)' = Done(j)
        BY <1>1 DEF BucketsInv
      <4>2. /\ ValueAt(bucketEpisodes', j, 0) = ValueAt(bucketEpisodes, j, 0)
            /\ ValueAt(buckets', j, <<>>) = ValueAt(buckets, j, <<>>)
        BY <2>1 DEF ValueAt, WithEntry
      <4>. QED BY <4>1, <4>2, OtherBuckets
    <3>3. \A j \in DOMAIN buckets' : Done(j)' # {} /\ j \notin ToSet(evaluated')
      <4>1. Done(k)' # {}
        BY <1>1
      <4>2. \A j \in DOMAIN buckets : Done(j) # {} /\ j \notin ToSet(evaluated)
        BY DEF BucketsInv
      <4>. QED BY <4>1, <4>2, <3>1, <2>3, <1>1, <1>2
    <3>4. \A j \in ToSet(evaluated') : Done(j)' = 1..Examples[j[1]]
      <4>1. \A j \in ToSet(evaluated) : Done(j) = 1..Examples[j[1]]
        BY DEF BucketsInv
      <4>. QED BY <4>1, <2>3, <1>1, <1>2
    <3>. QED BY <3>1, <3>2, <3>3, <3>4, <1>1, <1>2, <2>3 DEF BucketsInv
  <2>. QED BY <2>1, <2>3
<1>10. CASE count + n >= EpochSize(k[1])
  <2>1. /\ buckets' = Restrict(buckets, DOMAIN buckets \ {k})
        /\ bucketEpisodes' = Restrict(bucketEpisodes, DOMAIN bucketEpisodes \ {k})
        /\ evalBatch' = [env |-> row[g].env, step |-> row[g].step, rollouts |-> BucketWith(g, traces)]
    BY <1>8, <1>10
  <2>2. /\ evalBatch' # NoEvalBatch /\ evalBatch'.env = k[1] /\ evalBatch'.step = k[2]
        /\ evalBatch'.rollouts = BucketWith(g, traces)
    BY <2>1, <1>3, ReportIsNotNone
  <2>3. Done(k) \cup {row[g].example} = 1..Examples[k[1]]
    BY <1>6, <1>7, <1>10
  <2>4. Holds(evalBatch'.rollouts, 1..Examples[k[1]], 1..GroupSize[k[1]])
    BY <1>4, <2>2, <2>3, Zenon DEF n
  <2>5. ASSUME evaluated' = Append(evaluated, k)
        PROVE  BucketsInv'
    <3>1. /\ DOMAIN buckets' = DOMAIN buckets \ {k}
          /\ DOMAIN bucketEpisodes' = DOMAIN bucketEpisodes \ {k}
      BY <2>1, EntryKeys
    <3>2. evaluated \in Seq(EpochSet) /\ IsInjective(evaluated) /\ ToSet(evaluated) \subseteq ToSet(triggered)
      BY DEF BucketsInv
    <3>3. /\ evaluated' \in Seq(EpochSet) /\ IsInjective(evaluated')
          /\ ToSet(evaluated') = ToSet(evaluated) \cup {k}
      <4>1. Append(evaluated, k) \in Seq(EpochSet)
        BY <3>2, <1>1
      <4>2. IsInjective(Append(evaluated, k)) /\ ToSet(Append(evaluated, k)) = ToSet(evaluated) \cup {k}
        BY <3>2, <1>1, <1>2, AppendFacts
      <4>. QED BY <4>1, <4>2, <2>5, Zenon
    <3>4. \A j \in EpochSet \ ToSet(evaluated') : BucketInv(j)'
      <4>. SUFFICES ASSUME NEW j \in EpochSet \ ToSet(evaluated), j # k
                   PROVE  BucketInv(j)'
        BY <3>3
      <4>1. BucketInv(j) /\ Done(j)' = Done(j)
        BY <1>1 DEF BucketsInv
      <4>2. /\ ValueAt(bucketEpisodes', j, 0) = ValueAt(bucketEpisodes, j, 0)
            /\ ValueAt(buckets', j, <<>>) = ValueAt(buckets, j, <<>>)
        BY <2>1 DEF ValueAt, Restrict
      <4>. QED BY <4>1, <4>2, OtherBuckets
    <3>5. \A j \in DOMAIN buckets' : Done(j)' # {} /\ j \notin ToSet(evaluated')
      <4>1. \A j \in DOMAIN buckets : Done(j) # {} /\ j \notin ToSet(evaluated)
        BY DEF BucketsInv
      <4>. QED BY <4>1, <3>1, <3>3, <1>1
    <3>6. \A j \in ToSet(evaluated') : Done(j)' = 1..Examples[j[1]]
      <4>1. \A j \in ToSet(evaluated) : Done(j) = 1..Examples[j[1]]
        BY DEF BucketsInv
      <4>2. Done(k)' = 1..Examples[k[1]]
        BY <1>1, <2>3
      <4>3. ASSUME NEW j \in ToSet(evaluated), j # k
            PROVE  Done(j)' = 1..Examples[j[1]]
        BY <4>1, <4>3, <1>1
      <4>. QED BY <4>2, <4>3, <3>3
    <3>. QED BY <3>1, <3>2, <3>3, <3>4, <3>5, <3>6, <1>1 DEF BucketsInv
  <2>. QED BY <2>2, <2>4, <2>5, <1>1, <1>2
<1>. QED BY <1>9, <1>10

\* An eval episode arrives: groups, buckets and the report that may come of it.
LEMMA EvalDelivered ==
    ASSUME LedgerInv, RowsInv, GroupsInv, BucketsInv, NEW g \in EvalGids, Delivers(g),
           NEW traces \in Traces, EvalAdd(g, row[g], traces), triggered' = triggered,
           evaluated' = IF evalBatch' = NoEvalBatch THEN evaluated
                        ELSE Append(evaluated, <<evalBatch'.env, evalBatch'.step>>)
    PROVE  /\ GroupsInv' /\ BucketsInv' /\ EpochWhole'
           /\ evaluated' = evaluated \/ \E k \in ToSet(triggered) \ ToSet(evaluated) : evaluated' = Append(evaluated, k)
<1>1. GroupsInv'
  BY GroupsDelivered DEF Delivers
<1>2. delivered[g] \in Nat /\ GroupSize[env[g]] \in Nat /\ delivered[g] < GroupSize[env[g]]
  BY EnvFacts DEF EvalGids, LedgerInv, Delivers
<1>3. \/ evalBatch' = NoEvalBatch /\ (evaluated' = evaluated => BucketsInv')
      \/ \E k \in EpochSet :
           /\ evalBatch' # NoEvalBatch /\ evalBatch'.env = k[1] /\ evalBatch'.step = k[2]
           /\ Holds(evalBatch'.rollouts, 1..Examples[k[1]], 1..GroupSize[k[1]])
           /\ k \in ToSet(triggered) /\ k \notin ToSet(evaluated)
           /\ evaluated' = Append(evaluated, k) => BucketsInv'
  <2>1. CASE delivered[g] + 1 < GroupSize[env[g]]
    BY <2>1, BucketsUnlessComplete
  <2>2. CASE delivered[g] + 1 = GroupSize[env[g]]
    BY <2>2, BucketsWhenComplete
  <2>. QED BY <1>2, <2>1, <2>2
<1>4. CASE evalBatch' = NoEvalBatch
  <2>1. BucketsInv'
    BY <1>3, <1>4
  <2>. QED BY <1>1, <1>4, <2>1 DEF EpochWhole
<1>5. CASE evalBatch' # NoEvalBatch
  <2>1. PICK k \in EpochSet :
           /\ evalBatch'.env = k[1] /\ evalBatch'.step = k[2]
           /\ Holds(evalBatch'.rollouts, 1..Examples[k[1]], 1..GroupSize[k[1]])
           /\ k \in ToSet(triggered) /\ k \notin ToSet(evaluated)
           /\ evaluated' = Append(evaluated, k) => BucketsInv'
    BY <1>3, <1>5
  <2>2. <<evalBatch'.env, evalBatch'.step>> = k
    BY <2>1 DEF EpochSet
  <2>3. evaluated' = Append(evaluated, k)
    BY <1>5, <2>2
  <2>4. EpochWhole'
    BY <2>1 DEF EpochWhole, Holds, Pairs
  <2>. QED BY <1>1, <2>1, <2>3, <2>4
<1>. QED BY <1>4, <1>5

-----------------------------------------------------------------------------
(* Epochs that are due *)

\* A run that is not resumed starts at step 1.
LEMMA ConfigFacts ==
    ASSUME config \in Configs
    PROVE  /\ config.startStep \in Nat \ {0} /\ config.maxSteps \in Nat \ {0}
           /\ config.resumed \in BOOLEAN /\ config.retrigger \in BOOLEAN /\ config.skipFirstStep \in BOOLEAN
           /\ ~config.resumed => config.startStep = 1
           /\ FirstDue \in Nat /\ FirstDue <= config.startStep
           /\ FirstDue = IF config.resumed /\ config.retrigger THEN config.startStep - 1 ELSE config.startStep
BY ConfigAssumption DEF FirstDue

\* trigger fires the environments that are due.
LEMMA FiredIsDue ==
    ASSUME NEW s \in Nat, firstTrigger = (s = 1 /\ ~config.resumed)
    PROVE  ToSet(Fired(s)) = DueAt(s)
<1>1. ToSet(Fired(s)) = {e \in EvalEnv : ~(firstTrigger /\ config.skipFirstStep)
                                          /\ (firstTrigger \/ s % Interval[e] = 0)}
  BY FiredFacts
<1>2. CASE s = 1 /\ ~config.resumed
  BY <1>1, <1>2 DEF DueAt
<1>3. CASE ~(s = 1 /\ ~config.resumed)
  BY <1>1, <1>3 DEF DueAt
<1>. QED BY <1>2, <1>3

\* The epochs due by a step are those due before it and those due at it.
LEMMA DueFacts ==
    ASSUME config \in Configs, config' = config
    PROVE  /\ \A n : DueBy(n)' = DueBy(n)
           /\ \A n \in Int : n < FirstDue => DueBy(n) = {}
           /\ \A n \in Nat : FirstDue <= n => DueBy(n) = DueBy(n - 1) \cup (DueAt(n) \X {n})
           /\ \A n \in Int : \A k \in DueBy(n) : k[2] <= n
<1>1. \A n : DueBy(n)' = DueBy(n)
  BY DEF DueBy, DueAt, FirstDue
<1>2. FirstDue \in Nat
  BY ConfigFacts
<1>3. \A n : DueAt(n) \subseteq EvalEnv
  BY DEF DueAt
<1>4. ASSUME NEW n \in Nat, FirstDue <= n
      PROVE  DueBy(n) = DueBy(n - 1) \cup (DueAt(n) \X {n})
  <2>1. ASSUME NEW k \in DueBy(n)
        PROVE  k \in DueBy(n - 1) \cup (DueAt(n) \X {n})
    <3>1. k \in EvalEnv \X (FirstDue..n) /\ k[1] \in DueAt(k[2])
      BY DEF DueBy
    <3>2. CASE k[2] = n
      BY <3>1, <3>2
    <3>3. CASE k[2] # n
      <4>1. k[2] \in FirstDue..n - 1
        BY <1>2, <3>1, <3>3
      <4>. QED BY <3>1, <4>1 DEF DueBy
    <3>. QED BY <3>2, <3>3
  <2>2. ASSUME NEW k \in DueBy(n - 1)
        PROVE  k \in DueBy(n)
    BY <1>2 DEF DueBy
  <2>3. ASSUME NEW k \in DueAt(n) \X {n}
        PROVE  k \in DueBy(n)
    BY <1>2, <1>3, <1>4 DEF DueBy
  <2>. QED BY <2>1, <2>2, <2>3
<1>5. \A n \in Int : n < FirstDue => DueBy(n) = {}
  BY <1>2 DEF DueBy
<1>6. \A n \in Int : \A k \in DueBy(n) : k[2] <= n
  BY <1>2 DEF DueBy
<1>. QED BY <1>1, <1>4, <1>5, <1>6

-----------------------------------------------------------------------------
(* What actions leave alone *)

(* What the invariant says of the train sink survives a step of the eval side. *)
LEMMA SinkSideKept ==
    ASSUME config \in Configs, SinkInv, LoopInv, WindowInv, UNCHANGED <<config, sinkVars, loopVars, observed>>
    PROVE  SinkInv' /\ LoopInv' /\ WindowInv'
<1>1. preSeen' \in Nat /\ preDropped' \in Nat
  BY DEF SinkInv, SinkTypeOK, sinkVars
<1>2. SinkInv'
  BY <1>1, SinkKept DEF sinkVars
<1>3. LoopInv'
  BY DEF LoopInv, loopVars, sinkVars
<1>4. WindowInv'
  BY DEF WindowInv, ObservedOnce, StatsMatch, Shipping, loopVars, sinkVars, windowVars, Survivors, Admitted
<1>. QED BY <1>2, <1>3, <1>4

\* Steps of the loop and of the train side.
LEMMA EvalSideKept ==
    ASSUME RowsInv, GroupsInv, BucketsInv, EpochWhole,
           UNCHANGED <<evalQueue, evalSinkVars, row, triggered, evaluated>>,
           EvalGids' = EvalGids, \A g \in EvalGids : env'[g] = env[g] /\ delivered'[g] = delivered[g],
           abandoned' \cap EvalGids = {}
    PROVE  RowsInv' /\ GroupsInv' /\ BucketsInv' /\ EpochWhole'
<1>1. /\ UNCHANGED <<evalQueue, row, triggered>> /\ UNCHANGED <<evalEpisodes, evalGroups, row>>
      /\ UNCHANGED <<buckets, bucketEpisodes, evaluated>> /\ evalBatch' = evalBatch
  BY DEF evalSinkVars
<1>2. \A k : Done(k)' = Done(k)
  BY <1>1, DoneKept
<1>3. RowsInv'
  BY <1>1, RowsKept
<1>4. GroupsInv'
  BY <1>1, GroupsKept
<1>5. BucketsInv'
  BY <1>1, <1>2, BucketsKept
<1>. QED BY <1>1, <1>3, <1>4, <1>5 DEF EpochWhole

\* Steps that trigger nothing.
LEMMA TriggerKept ==
    ASSUME config \in Configs, TriggerInv, UNCHANGED <<config, firstTrigger, triggered, step>>,
           phase' = phase \/ {phase, phase'} \cap {"retrigger", "startup"} = {}
    PROVE  TriggerInv'
<1>1. \A n : DueBy(n)' = DueBy(n)
  BY DueFacts
<1>2. phase \in {"retrigger", "startup"} <=> phase' \in {"retrigger", "startup"}
  OBVIOUS
<1>. QED BY <1>1, <1>2 DEF TriggerInv

\* A trigger: the due epochs' rows are queued, nothing else of the eval side changes.
LEMMA TriggerKeeps ==
    ASSUME config \in Configs, config' = config, triggered \in Seq(EpochSet), IsInjective(triggered),
           RowsInv, GroupsInv, BucketsInv, EpochWhole,
           NEW s \in Nat, FirstDue <= s, firstTrigger = (s = 1 /\ ~config.resumed),
           ToSet(triggered) = DueBy(s - 1), TriggerEval(s),
           UNCHANGED <<evalSinkVars, row, evaluated, ledgerVars>>
    PROVE  /\ RowsInv' /\ GroupsInv' /\ BucketsInv' /\ EpochWhole'
           /\ triggered' \in Seq(EpochSet) /\ IsInjective(triggered')
           /\ ToSet(triggered') = DueBy(s) /\ firstTrigger' = FALSE
<1>1. \A k \in ToSet(triggered) : k[2] < s
  <2>1. \A k \in DueBy(s - 1) : k[2] <= s - 1
    BY DueFacts
  <2>2. \A k \in ToSet(triggered) : k \in EvalEnv \X Nat
    BY ElementsOf DEF EpochSet
  <2>. QED BY <2>1, <2>2
<1>2. UNCHANGED <<row, env, abandoned>>
  BY DEF ledgerVars
<1>3. /\ RowsInv' /\ triggered' \in Seq(EpochSet) /\ IsInjective(triggered')
      /\ ToSet(triggered') = ToSet(triggered) \cup (ToSet(Fired(s)) \X {s})
      /\ firstTrigger' = FALSE
  BY <1>1, <1>2, RowsTriggered
<1>4. ToSet(Fired(s)) = DueAt(s)
  BY FiredIsDue
<1>5. DueBy(s) = DueBy(s - 1) \cup (DueAt(s) \X {s})
  BY DueFacts
<1>6. ToSet(triggered') = DueBy(s)
  <2>1. ToSet(triggered') = ToSet(triggered) \cup (DueAt(s) \X {s})
    BY <1>3, <1>4, Zenon
  <2>. QED BY <2>1, <1>5, Zenon
<1>7. EvalGids' = EvalGids /\ \A g \in EvalGids : env'[g] = env[g] /\ row'[g] = row[g] /\ delivered'[g] = delivered[g]
  BY DEF EvalGids, ledgerVars
<1>8. \A k : Done(k)' = Done(k)
  BY <1>7, DoneKept
<1>9. UNCHANGED <<evalEpisodes, evalGroups, row>> /\ UNCHANGED <<buckets, bucketEpisodes, evaluated>>
  BY DEF evalSinkVars
<1>10. GroupsInv'
  BY <1>7, <1>9, GroupsKept
<1>11. ToSet(triggered) \subseteq ToSet(triggered')
  BY <1>3
<1>12. BucketsInv'
  BY <1>8, <1>9, <1>11, BucketsKept
<1>. QED BY <1>3, <1>6, <1>10, <1>12 DEF EpochWhole, evalSinkVars

-----------------------------------------------------------------------------
(* The actions *)

(* The dispatcher opening a train group. *)
LEMMA OpenTrainKeeps ==
    ASSUME MainInv, NEW g \in Gid, OpenTrain(g)
    PROVE  MainInv'
<1>1. /\ config \in Configs /\ SinkInv /\ LoopInv /\ WindowInv /\ TriggerInv /\ LedgerInv
      /\ RowsInv /\ GroupsInv /\ BucketsInv /\ EpochWhole
  BY DEF MainInv
<1>2. /\ L!Open(g) /\ env'[g] \in TrainEnv
      /\ UNCHANGED <<config, sinkVars, evalVars, loopVars, row, historyVars>>
  BY DEF OpenTrain
<1>3. /\ LedgerInv' /\ env[g] = None /\ abandoned' = abandoned /\ delivered' = delivered
      /\ \A h \in Gid \ {g} : env'[h] = env[h]
  BY <1>1, <1>2, OpenLedger
<1>4. SinkInv' /\ LoopInv' /\ WindowInv'
  BY <1>1, <1>2, SinkSideKept DEF historyVars
<1>5. EvalGids' = EvalGids /\ \A h \in EvalGids : env'[h] = env[h]
  BY <1>2, <1>3, EnvFacts DEF EvalGids
<1>6. RowsInv' /\ GroupsInv' /\ BucketsInv' /\ EpochWhole'
  <2>1. UNCHANGED <<evalQueue, evalSinkVars, row, triggered, evaluated>>
    BY <1>2 DEF historyVars, epochVars, evalVars, sourceVars
  <2>2. abandoned' \cap EvalGids = {}
    BY <1>1, <1>3 DEF RowsInv
  <2>. QED BY <1>1, <1>3, <1>5, <2>1, <2>2, EvalSideKept
<1>7. TriggerInv'
  BY <1>1, <1>2, TriggerKept DEF historyVars, epochVars, evalVars, sourceVars, loopVars
<1>. QED BY <1>1, <1>2, <1>3, <1>4, <1>6, <1>7 DEF MainInv

(* The dispatcher opening an eval group of an epoch that is under way. *)
LEMMA OpenEvalKeeps ==
    ASSUME MainInv, NEW g \in Gid, OpenEval(g)
    PROVE  MainInv'
<1>1. /\ config \in Configs /\ SinkInv /\ LoopInv /\ WindowInv /\ TriggerInv /\ LedgerInv
      /\ RowsInv /\ GroupsInv /\ BucketsInv /\ EpochWhole
  BY DEF MainInv
<1>2. /\ L!Open(g) /\ env'[g] = Head(evalQueue).env /\ NextExample
      /\ row' = [row EXCEPT ![g] = Head(evalQueue)]
      /\ UNCHANGED <<config, sinkVars, evalSinkVars, loopVars, historyVars>> /\ firstTrigger' = firstTrigger
  BY DEF OpenEval, NextExample
<1>3. /\ LedgerInv' /\ env[g] = None /\ delivered[g] = 0 /\ abandoned' = abandoned /\ delivered' = delivered
      /\ \A h \in Gid \ {g} : env'[h] = env[h]
  BY <1>1, <1>2, OpenLedger
<1>4. SinkInv' /\ LoopInv' /\ WindowInv'
  BY <1>1, <1>2, SinkSideKept DEF historyVars
<1>5. env'[g] \in EvalEnv
  <2>1. Head(evalQueue) \in Row
    <3>1. evalQueue \in Seq(Row) /\ evalQueue # <<>>
      BY <1>1, <1>2 DEF RowsInv, NextExample
    <3>. QED BY <3>1
  <2>. QED BY <1>2, <2>1 DEF Row
<1>6. g \notin EvalGids /\ EvalGids' = EvalGids \cup {g} /\ \A h \in EvalGids : env'[h] = env[h]
  BY <1>3, <1>5, EnvFacts DEF EvalGids
<1>7. \A h \in EvalGids : row'[h] = row[h]
  BY <1>2, <1>6 DEF EvalGids
<1>8. UNCHANGED <<triggered, evaluated, evalEpisodes, evalGroups, buckets, bucketEpisodes, evalBatch, step, phase>>
  BY <1>2 DEF historyVars, epochVars, evalSinkVars, loopVars
<1>9. RowsInv'
  <2>1. g \notin abandoned
    BY <1>1, <1>3 DEF LedgerInv
  <2>. QED BY <1>1, <1>2, <1>3, <1>6, <1>8, <2>1, RowsOpened
<1>10. GroupsInv'
  BY <1>1, <1>3, <1>5, <1>6, <1>7, <1>8, GroupsOpened
<1>11. BucketsInv'
  <2>1. \A k : Done(k)' = Done(k)
    BY <1>3, <1>5, <1>6, <1>7, DoneOpened
  <2>. QED BY <1>1, <1>8, <2>1, BucketsKept
<1>12. TriggerInv'
  BY <1>1, <1>2, <1>8, TriggerKept
<1>. QED BY <1>1, <1>2, <1>3, <1>4, <1>8, <1>9, <1>10, <1>11, <1>12 DEF MainInv, EpochWhole

(* A finished train rollout handled by the main loop. *)
LEMMA TrainArrivesKeeps ==
    ASSUME MainInv, NEW g \in Gid, NEW shape \in Shape, TrainArrives(g, shape)
    PROVE  MainInv'
<1>1. /\ config \in Configs /\ SinkInv /\ LoopInv /\ WindowInv /\ TriggerInv /\ LedgerInv
      /\ RowsInv /\ GroupsInv /\ BucketsInv /\ EpochWhole
  BY DEF MainInv
<1>2. /\ phase = "run" /\ env[g] \in TrainEnv /\ L!Deliver(g) /\ Add(g, env[g], shape)
      /\ phase' = IF batch' # NoBatch /\ ~draining THEN "finalize" ELSE "run"
      /\ UNCHANGED <<config, evalVars, step, draining, emptyBatches, row, historyVars>>
  BY DEF TrainArrives
<1>3. /\ LedgerInv' /\ env' = env /\ abandoned' = abandoned
      /\ delivered' = [delivered EXCEPT ![g] = delivered[g] + 1]
  BY <1>1, <1>2, DeliverLedger
<1>4. SinkInv'
  BY <1>1, <1>2, AddKeeps
<1>5. LoopInv'
  BY <1>1, <1>2 DEF LoopInv
<1>6. /\ EvalGids' = EvalGids /\ g \notin EvalGids
      /\ \A h \in EvalGids : env'[h] = env[h] /\ delivered'[h] = delivered[h]
  BY <1>1, <1>2, <1>3, EnvFacts DEF EvalGids, LedgerInv
<1>7. RowsInv' /\ GroupsInv' /\ BucketsInv' /\ EpochWhole'
  <2>1. UNCHANGED <<evalQueue, evalSinkVars, row, triggered, evaluated>>
    BY <1>2 DEF historyVars, epochVars, evalVars, sourceVars
  <2>2. abandoned' \cap EvalGids = {}
    BY <1>1, <1>3 DEF RowsInv
  <2>. QED BY <1>1, <1>3, <1>6, <2>1, <2>2, EvalSideKept
<1>8. TriggerInv'
  BY <1>1, <1>2, TriggerKept DEF historyVars, epochVars, evalVars, sourceVars
<1>9. WindowInv'
  <2>0. observed' = observed /\ draining' = draining
    BY <1>2 DEF historyVars
  <2>1. /\ finalized \in Seq(Rollout) /\ pendingRollouts \in Seq(Rollout) /\ observed \in 0..Len(finalized)
        /\ preSeen \in Nat /\ preDropped \in Nat
    BY <1>1 DEF SinkInv, SinkTypeOK, WindowInv
  <2>2. ~draining => After(finalized, observed) = pendingRollouts /\ StatsMatch
    BY <1>1, <1>2, <2>1 DEF WindowInv, ObservedOnce, Shipping, After
  <2>3. \/ batch' = NoBatch /\ UNCHANGED <<preSeen, preDropped, pendingRollouts, finalized>>
        \/ \E group \in Seq(Rollout) :
             /\ finalized' = finalized \o group
             /\ preSeen' = preSeen + Len(Survivors(group))
             /\ preDropped' = preDropped + Len(Survivors(group)) - Len(Admitted(group))
             /\ \/ batch' = NoBatch /\ pendingRollouts' = pendingRollouts \o group
                \/ /\ batch' # NoBatch /\ batch'.rollouts = pendingRollouts \o group
                   /\ pendingRollouts' = IF batch'.samples = <<>> THEN pendingRollouts \o group ELSE <<>>
    BY <1>1, <1>2, AddWindow
  <2>4. CASE batch' = NoBatch /\ UNCHANGED <<preSeen, preDropped, pendingRollouts, finalized>>
    <3>1. phase' = "run"
      BY <1>2, <2>4
    <3>. QED BY <1>1, <1>2, <2>0, <2>4, <3>1 DEF WindowInv, ObservedOnce, StatsMatch, Shipping, Survivors, Admitted
  <2>5. ASSUME NEW group \in Seq(Rollout),
               finalized' = finalized \o group,
               preSeen' = preSeen + Len(Survivors(group)),
               preDropped' = preDropped + Len(Survivors(group)) - Len(Admitted(group)),
               \/ batch' = NoBatch /\ pendingRollouts' = pendingRollouts \o group
               \/ /\ batch' # NoBatch /\ batch'.rollouts = pendingRollouts \o group
                  /\ pendingRollouts' = IF batch'.samples = <<>> THEN pendingRollouts \o group ELSE <<>>
        PROVE  WindowInv'
    <3>. DEFINE window == pendingRollouts \o group
    <3>1. Len(finalized') = Len(finalized) + Len(group) /\ Len(group) \in Nat /\ observed \in 0..Len(finalized')
      BY <2>1, <2>5
    <3>2. ~draining => After(finalized', observed) = window
      BY <2>1, <2>2, <2>5, AfterConcat
    <3>3. /\ Len(Survivors(window)) = Len(Survivors(pendingRollouts)) + Len(Survivors(group))
          /\ Len(Admitted(window)) = Len(Admitted(pendingRollouts)) + Len(Admitted(group))
      BY <2>1, <2>5, SurvivorsConcat
    <3>4. window \in Seq(Rollout)
      BY <2>1, <2>5
    <3>. HIDE DEF window
    <3>5. window \o <<>> = window /\ <<>> \o window = window
      BY <3>4
    <3>6. /\ Len(Survivors(group)) \in Nat /\ Len(Survivors(pendingRollouts)) \in Nat
          /\ Len(Admitted(group)) \in Nat /\ Len(Admitted(pendingRollouts)) \in Nat
      BY <2>1, <2>5, SurvivorsFacts
    <3>7. ~draining => preSeen' = Len(Survivors(window)) /\ preSeen' - preDropped' = Len(Admitted(window))
      <4>. SUFFICES ASSUME ~draining
                   PROVE  preSeen' = Len(Survivors(window)) /\ preSeen' - preDropped' = Len(Admitted(window))
        OBVIOUS
      <4>1. preSeen = Len(Survivors(pendingRollouts)) /\ preSeen - preDropped = Len(Admitted(pendingRollouts))
        BY <2>2 DEF StatsMatch
      <4>2. /\ preSeen' = preSeen + Len(Survivors(group)) /\ preSeen \in Nat /\ preDropped \in Nat
            /\ preDropped' = preDropped + Len(Survivors(group)) - Len(Admitted(group))
        BY <2>1, <2>5
      <4>. DEFINE a == Len(Survivors(group))
                  b == Len(Admitted(group))
      <4>3. a \in Nat /\ b \in Nat /\ preSeen' = preSeen + a /\ preDropped' = preDropped + a - b
        BY <3>6, <4>2
      <4>4. Len(Survivors(window)) = preSeen + a /\ Len(Admitted(window)) = preSeen - preDropped + b
        BY <3>3, <4>1
      <4>. HIDE DEF a, b
      <4>. QED BY <4>2, <4>3, <4>4
    <3>8. CASE draining
      <4>1. phase' = "run"
        BY <1>2, <3>8
      <4>. QED BY <2>0, <3>1, <3>8, <4>1 DEF WindowInv, ObservedOnce, Shipping
    <3>9. CASE ~draining /\ batch' = NoBatch
      <4>1. phase' = "run" /\ pendingRollouts' = window
        BY <1>2, <2>5, <3>9 DEF window
      <4>2. ObservedOnce'
        BY <2>0, <3>2, <3>5, <3>9, <4>1 DEF ObservedOnce, After
      <4>3. StatsMatch'
        BY <3>7, <3>9, <4>1 DEF StatsMatch
      <4>. QED BY <2>0, <3>1, <4>1, <4>2, <4>3 DEF WindowInv, Shipping
    <3>10. CASE ~draining /\ batch' # NoBatch /\ batch'.samples = <<>>
      <4>1. phase' = "finalize" /\ pendingRollouts' = window
        BY <1>2, <2>5, <3>10 DEF window
      <4>2. ObservedOnce'
        BY <2>0, <3>2, <3>5, <3>10, <4>1 DEF ObservedOnce, After
      <4>3. StatsMatch'
        BY <3>7, <3>10, <4>1 DEF StatsMatch
      <4>. QED BY <2>0, <3>1, <3>10, <4>1, <4>2, <4>3 DEF WindowInv, Shipping
    <3>11. CASE ~draining /\ batch' # NoBatch /\ batch'.samples # <<>>
      <4>1. phase' = "finalize" /\ pendingRollouts' = <<>> /\ batch'.rollouts = window
        BY <1>2, <2>5, <3>11 DEF window
      <4>2. ObservedOnce'
        BY <2>0, <3>2, <3>5, <3>11, <4>1 DEF ObservedOnce, After
      <4>. QED BY <2>0, <3>1, <3>11, <4>1, <4>2 DEF WindowInv, Shipping
    <3>. QED BY <3>8, <3>9, <3>10, <3>11
  <2>. QED BY <2>3, <2>4, <2>5
<1>. QED BY <1>1, <1>2, <1>3, <1>4, <1>5, <1>7, <1>8, <1>9 DEF MainInv

(* A finished eval rollout handled by the main loop. *)
LEMMA EvalArrivesKeeps ==
    ASSUME MainInv, NEW g \in Gid, NEW traces \in Traces, EvalArrives(g, traces)
    PROVE  MainInv'
<1>1. /\ config \in Configs /\ SinkInv /\ LoopInv /\ WindowInv /\ TriggerInv /\ LedgerInv
      /\ RowsInv /\ GroupsInv /\ BucketsInv /\ EpochWhole
  BY DEF MainInv
<1>2. /\ env[g] \in EvalEnv /\ L!Deliver(g) /\ EvalAdd(g, row[g], traces)
      /\ evaluated' = IF evalBatch' = NoEvalBatch THEN evaluated
                      ELSE Append(evaluated, <<evalBatch'.env, evalBatch'.step>>)
      /\ UNCHANGED <<config, sinkVars, sourceVars, loopVars, row, triggered, observed>>
  BY DEF EvalArrives
<1>3. /\ LedgerInv' /\ delivered[g] < GroupSize[env[g]] /\ env' = env /\ abandoned' = abandoned
      /\ delivered' = [delivered EXCEPT ![g] = delivered[g] + 1]
  BY <1>1, <1>2, DeliverLedger
<1>4. g \in EvalGids /\ Delivers(g) /\ EvalGids' = EvalGids
  BY <1>2, <1>3 DEF EvalGids, Delivers
<1>5. GroupsInv' /\ BucketsInv' /\ EpochWhole'
  BY <1>1, <1>2, <1>4, EvalDelivered
<1>6. SinkInv' /\ LoopInv' /\ WindowInv'
  BY <1>1, <1>2, SinkSideKept
<1>7. TriggerInv'
  BY <1>1, <1>2, TriggerKept DEF sourceVars, loopVars
<1>8. RowsInv'
  <2>1. UNCHANGED <<evalQueue, row, triggered>> /\ abandoned' \cap EvalGids = {}
    BY <1>1, <1>2, <1>3 DEF sourceVars, RowsInv
  <2>2. \A h \in EvalGids : env'[h] = env[h]
    BY <1>3
  <2>. QED BY <1>1, <1>4, <2>1, <2>2, RowsKept
<1>. QED BY <1>1, <1>2, <1>3, <1>5, <1>6, <1>7, <1>8 DEF MainInv

(* The epochs a resumed run triggers again at the checkpoint's step. *)
LEMMA StartRetriggerKeeps ==
    ASSUME MainInv, StartRetrigger
    PROVE  MainInv'
<1>1. /\ config \in Configs /\ SinkInv /\ LoopInv /\ WindowInv /\ TriggerInv /\ LedgerInv
      /\ RowsInv /\ GroupsInv /\ BucketsInv /\ EpochWhole
  BY DEF MainInv
<1>2. /\ phase = "retrigger" /\ phase' = "startup" /\ step' = step
      /\ IF config.retrigger /\ config.resumed THEN TriggerEval(step - 1)
         ELSE UNCHANGED <<sourceVars, triggered>>
      /\ UNCHANGED <<config, sinkVars, evalSinkVars, draining, emptyBatches, ledgerVars, row, evaluated, observed>>
  BY DEF StartRetrigger
<1>3. SinkInv' /\ LedgerInv'
  <2>1. preSeen' \in Nat /\ preDropped' \in Nat
    BY <1>1, <1>2 DEF SinkInv, SinkTypeOK, sinkVars
  <2>. QED BY <1>1, <1>2, <2>1, SinkKept DEF LedgerInv, ledgerVars, sinkVars
<1>4. LoopInv' /\ WindowInv'
  BY <1>1, <1>2 DEF LoopInv, WindowInv, ObservedOnce, StatsMatch, Shipping, sinkVars, windowVars, Survivors, Admitted
<1>5. /\ triggered = <<>> /\ step = config.startStep /\ firstTrigger = ~config.resumed
      /\ triggered \in Seq(EpochSet) /\ IsInjective(triggered)
  BY <1>1, <1>2 DEF TriggerInv
<1>6. ToSet(triggered) = {}
  BY <1>5, ElementsOf
<1>7. CASE config.retrigger /\ config.resumed
  <2>1. step - 1 \in Nat /\ FirstDue = step - 1
    BY <1>1, <1>5, <1>7, ConfigFacts
  <2>2. firstTrigger = (step - 1 = 1 /\ ~config.resumed)
    BY <1>5, <1>7
  <2>3. DueBy(step - 1 - 1) = {}
    BY <1>1, <1>2, <2>1, DueFacts
  <2>4. TriggerEval(step - 1)
    BY <1>2, <1>7
  <2>. DEFINE s == step - 1
  <2>5. /\ s \in Nat /\ FirstDue <= s /\ firstTrigger = (s = 1 /\ ~config.resumed)
        /\ ToSet(triggered) = DueBy(s - 1) /\ TriggerEval(s)
    BY <1>6, <2>1, <2>2, <2>3, <2>4
  <2>. HIDE DEF s
  <2>6. /\ RowsInv' /\ GroupsInv' /\ BucketsInv' /\ EpochWhole'
        /\ triggered' \in Seq(EpochSet) /\ IsInjective(triggered')
        /\ ToSet(triggered') = DueBy(s) /\ firstTrigger' = FALSE
    BY <1>1, <1>2, <1>5, <2>5, TriggerKeeps
  <2>7. TriggerInv'
    <3>1. \A n : DueBy(n)' = DueBy(n)
      BY <1>1, <1>2, DueFacts
    <3>. QED BY <1>2, <1>5, <1>7, <2>6, <3>1 DEF TriggerInv, s
  <2>. QED BY <1>1, <1>2, <1>3, <1>4, <2>6, <2>7 DEF MainInv
<1>8. CASE ~(config.retrigger /\ config.resumed)
  <2>1. step - 1 \in Int /\ step - 1 < FirstDue
    BY <1>1, <1>5, <1>8, ConfigFacts
  <2>2. DueBy(step - 1) = {}
    BY <1>1, <1>2, <2>1, DueFacts
  <2>3. UNCHANGED <<sourceVars, triggered>>
    BY <1>2, <1>8
  <2>4. TriggerInv'
    <3>1. \A n : DueBy(n)' = DueBy(n)
      BY <1>1, <1>2, DueFacts
    <3>2. ToSet(triggered') = DueBy(step' - 1)
      BY <1>2, <1>6, <2>2, <2>3
    <3>. QED BY <1>1, <1>2, <1>5, <2>3, <3>1, <3>2 DEF TriggerInv, sourceVars
  <2>5. RowsInv' /\ GroupsInv' /\ BucketsInv' /\ EpochWhole'
    <3>1. EvalGids' = EvalGids /\ \A g \in EvalGids : env'[g] = env[g] /\ delivered'[g] = delivered[g]
      BY <1>2 DEF EvalGids, ledgerVars
    <3>2. UNCHANGED <<evalQueue, evalSinkVars, row, triggered, evaluated>>
      BY <1>2, <2>3 DEF sourceVars
    <3>3. abandoned' \cap EvalGids = {}
      BY <1>1, <1>2 DEF RowsInv, ledgerVars
    <3>. QED BY <1>1, <3>1, <3>2, <3>3, EvalSideKept
  <2>. QED BY <1>1, <1>2, <1>3, <1>4, <2>4, <2>5 DEF MainInv
<1>. QED BY <1>7, <1>8

(* The epochs of the first step of the run. *)
LEMMA StartTriggerKeeps ==
    ASSUME MainInv, StartTrigger
    PROVE  MainInv'
<1>1. /\ config \in Configs /\ SinkInv /\ LoopInv /\ WindowInv /\ TriggerInv /\ LedgerInv
      /\ RowsInv /\ GroupsInv /\ BucketsInv /\ EpochWhole
  BY DEF MainInv
<1>2. /\ phase = "startup" /\ phase' = "run" /\ step' = step /\ TriggerEval(step)
      /\ UNCHANGED <<config, sinkVars, evalSinkVars, draining, emptyBatches, ledgerVars, row, evaluated, observed>>
  BY DEF StartTrigger
<1>3. SinkInv' /\ LedgerInv'
  <2>1. preSeen' \in Nat /\ preDropped' \in Nat
    BY <1>1, <1>2 DEF SinkInv, SinkTypeOK, sinkVars
  <2>. QED BY <1>1, <1>2, <2>1, SinkKept DEF LedgerInv, ledgerVars, sinkVars
<1>4. LoopInv' /\ WindowInv'
  BY <1>1, <1>2 DEF LoopInv, WindowInv, ObservedOnce, StatsMatch, Shipping, sinkVars, windowVars, Survivors, Admitted
<1>5. /\ ToSet(triggered) = DueBy(step - 1) /\ step = config.startStep /\ firstTrigger = ~config.resumed
      /\ triggered \in Seq(EpochSet) /\ IsInjective(triggered)
  BY <1>1, <1>2 DEF TriggerInv
<1>6. step \in Nat /\ FirstDue <= step /\ firstTrigger = (step = 1 /\ ~config.resumed)
  BY <1>1, <1>5, ConfigFacts
<1>7. /\ RowsInv' /\ GroupsInv' /\ BucketsInv' /\ EpochWhole'
      /\ triggered' \in Seq(EpochSet) /\ IsInjective(triggered')
      /\ ToSet(triggered') = DueBy(step) /\ firstTrigger' = FALSE
  BY <1>1, <1>2, <1>5, <1>6, TriggerKeeps
<1>8. TriggerInv'
  <2>1. \A n : DueBy(n)' = DueBy(n)
    BY <1>1, <1>2, DueFacts
  <2>. QED BY <1>2, <1>7, <2>1 DEF TriggerInv
<1>. QED BY <1>1, <1>2, <1>3, <1>4, <1>7, <1>8 DEF MainInv

(* The main loop shipping a batch, advancing the step and triggering epochs. *)
LEMMA ShipBatchKeeps ==
    ASSUME MainInv, ShipBatch
    PROVE  MainInv'
<1>1. /\ config \in Configs /\ SinkInv /\ LoopInv /\ WindowInv /\ TriggerInv /\ LedgerInv
      /\ RowsInv /\ GroupsInv /\ BucketsInv /\ EpochWhole
  BY DEF MainInv
<1>2. /\ phase = "finalize" /\ step <= config.maxSteps /\ batch.samples # <<>>
      /\ emptyBatches' = 0 /\ step' = step + 1 /\ phase' = "run" /\ ResetPreFilterStats
      /\ TriggerEval(step + 1) /\ observed' = observed + Len(batch.rollouts)
      /\ UNCHANGED <<config, pendingGroups, pendingEpisodes, queueVars, windowVars, batch, evalSinkVars,
                     draining, ledgerVars, row, evaluated>>
  BY DEF ShipBatch
<1>3. SinkInv' /\ LedgerInv'
  <2>1. preSeen' \in Nat /\ preDropped' \in Nat
    BY <1>2 DEF ResetPreFilterStats
  <2>. QED BY <1>1, <1>2, <2>1, SinkKept DEF LedgerInv, ledgerVars
<1>4. ~draining /\ batch # NoBatch /\ step \in Nat /\ config.startStep <= step
  BY <1>1, <1>2 DEF LoopInv
<1>5. LoopInv'
  BY <1>1, <1>2, <1>4, ConfigFacts, LoopAssumption DEF LoopInv
<1>6. WindowInv'
  <2>1. /\ finalized \in Seq(Rollout) /\ observed \in 0..Len(finalized) /\ pendingRollouts = <<>>
        /\ batch.rollouts \in Seq(Rollout)
    BY <1>1, <1>2, <1>4 DEF SinkInv, SinkTypeOK, WindowInv, Shipping
  <2>2. After(finalized, observed) = batch.rollouts \o <<>>
    BY <1>1, <1>2, <1>4, <2>1 DEF WindowInv, ObservedOnce, Shipping, After
  <2>3. <<>> \in Seq(Rollout)
    OBVIOUS
  <2>4. observed + Len(batch.rollouts) \in 0..Len(finalized)
        /\ After(finalized, observed + Len(batch.rollouts)) = <<>>
    <3>1. After(finalized, observed) = batch.rollouts
      BY <2>1, <2>2
    <3>2. Len(batch.rollouts) = Len(finalized) - observed
      BY <2>1, <3>1, AfterFacts
    <3>3. After(finalized, Len(finalized)) = <<>>
      BY <2>1 DEF After
    <3>. QED BY <2>1, <3>2, <3>3
  <2>5. finalized' = finalized /\ pendingRollouts' = <<>> /\ preSeen' = 0 /\ preDropped' = 0 /\ draining' = draining
    BY <1>2, <2>1 DEF windowVars, ResetPreFilterStats
  <2>6. ObservedOnce'
    BY <1>2, <2>4, <2>5 DEF ObservedOnce, After
  <2>7. StatsMatch'
    <3>1. Len(Survivors(<<>>)) = 0 /\ Len(Admitted(<<>>)) = 0
      <4>1. SurvivorsAt(<<>>) = {} /\ AdmittedAt(<<>>) = {}
        BY DEF SurvivorsAt, AdmittedAt
      <4>2. Len(Survivors(<<>>)) = Cardinality({}) /\ Len(Admitted(<<>>)) = Cardinality({})
        BY <2>3, <4>1, SurvivorsFacts
      <4>. QED BY <4>2, FS_EmptySet
    <3>. QED BY <2>5, <3>1 DEF StatsMatch
  <2>. QED BY <1>2, <2>4, <2>5, <2>6, <2>7 DEF WindowInv, Shipping
<1>7. /\ ToSet(triggered) = DueBy(step) /\ firstTrigger = FALSE
      /\ triggered \in Seq(EpochSet) /\ IsInjective(triggered)
  BY <1>1, <1>2 DEF TriggerInv
<1>. DEFINE s == step + 1
<1>8. /\ s \in Nat /\ FirstDue <= s /\ firstTrigger = (s = 1 /\ ~config.resumed) /\ s - 1 = step
  <2>1. config.startStep >= 1 /\ config.startStep \in Nat /\ FirstDue <= config.startStep /\ FirstDue \in Nat
    BY <1>1, ConfigFacts
  <2>2. step >= 1
    BY <1>4, <2>1
  <2>3. s \in Nat /\ FirstDue <= s /\ s - 1 = step /\ s # 1
    BY <1>4, <2>1, <2>2
  <2>. HIDE DEF s
  <2>4. firstTrigger = (s = 1 /\ ~config.resumed)
    BY <1>7, <2>3, Zenon
  <2>. QED BY <2>3, <2>4
<1>9. ToSet(triggered) = DueBy(s - 1) /\ TriggerEval(s)
  BY <1>2, <1>7, <1>8
<1>. HIDE DEF s
<1>10. /\ RowsInv' /\ GroupsInv' /\ BucketsInv' /\ EpochWhole'
       /\ triggered' \in Seq(EpochSet) /\ IsInjective(triggered')
       /\ ToSet(triggered') = DueBy(s) /\ firstTrigger' = FALSE
  BY <1>1, <1>2, <1>7, <1>8, <1>9, TriggerKeeps
<1>11. TriggerInv'
  <2>1. \A n : DueBy(n)' = DueBy(n)
    BY <1>1, <1>2, DueFacts
  <2>2. step' = s
    BY <1>2 DEF s
  <2>. QED BY <1>2, <1>10, <2>1, <2>2 DEF TriggerInv
<1>. QED BY <1>1, <1>2, <1>3, <1>5, <1>6, <1>10, <1>11 DEF MainInv

\* The steps of the loop that leave both sinks alone: the drain, a batch without samples, the
\* exit.
LEMMA LoopStepKeeps ==
    ASSUME MainInv, StartDrain \/ EmptyBatch \/ Exit
    PROVE  MainInv'
<1>1. /\ config \in Configs /\ SinkInv /\ LoopInv /\ WindowInv /\ TriggerInv /\ LedgerInv
      /\ RowsInv /\ GroupsInv /\ BucketsInv /\ EpochWhole
  BY DEF MainInv
<1>2. /\ UNCHANGED <<config, sinkVars, evalVars, step, env, delivered, row, historyVars>>
      /\ phase \in {"run", "finalize"} /\ phase' \in {"run", "aborted", "stopped"}
  BY DEF StartDrain, EmptyBatch, Exit, ledgerVars
<1>3. SinkInv'
  <2>1. preSeen' \in Nat /\ preDropped' \in Nat
    BY <1>1, <1>2 DEF SinkInv, SinkTypeOK, sinkVars
  <2>. QED BY <1>1, <1>2, <2>1, SinkKept DEF sinkVars
<1>4. LoopInv'
  <2>1. CASE StartDrain
    BY <1>1, <1>2, <2>1 DEF LoopInv, StartDrain
  <2>2. CASE EmptyBatch
    BY <1>1, <1>2, <2>2, LoopAssumption DEF LoopInv, EmptyBatch
  <2>3. CASE Exit
    BY <1>1, <1>2, <2>3 DEF LoopInv, Exit
  <2>. QED BY <2>1, <2>2, <2>3
<1>5. WindowInv'
  <2>0. UNCHANGED <<batch, preSeen, preDropped, pendingRollouts, finalized, observed>>
    BY <1>2 DEF sinkVars, windowVars, historyVars
  <2>1. CASE StartDrain
    BY <1>1, <2>0, <2>1 DEF WindowInv, ObservedOnce, Shipping, StartDrain
  <2>2. CASE EmptyBatch
    BY <1>1, <2>0, <2>2 DEF WindowInv, ObservedOnce, StatsMatch, Shipping, EmptyBatch, Survivors, Admitted
  <2>3. CASE Exit
    BY <1>1, <2>0, <2>3 DEF WindowInv, ObservedOnce, Shipping, Exit
  <2>. QED BY <2>1, <2>2, <2>3
<1>6. abandoned' \subseteq abandoned \cup {g \in Gid : env[g] \in TrainEnv}
  BY DEF StartDrain, EmptyBatch, Exit, ledgerVars, OpenNow
<1>7. LedgerInv'
  BY <1>1, <1>2, <1>6, EnvFacts DEF LedgerInv
<1>8. TriggerInv'
  BY <1>1, <1>2, TriggerKept DEF evalVars, sourceVars, historyVars, epochVars
<1>9. RowsInv' /\ GroupsInv' /\ BucketsInv' /\ EpochWhole'
  <2>1. EvalGids' = EvalGids /\ \A g \in EvalGids : env'[g] = env[g] /\ delivered'[g] = delivered[g]
    BY <1>2 DEF EvalGids
  <2>2. UNCHANGED <<evalQueue, evalSinkVars, row, triggered, evaluated>>
    BY <1>2 DEF evalVars, sourceVars, historyVars, epochVars
  <2>3. abandoned' \cap EvalGids = {}
    BY <1>1, <1>6, EnvFacts DEF RowsInv, EvalGids
  <2>. QED BY <1>1, <2>1, <2>2, <2>3, EvalSideKept
<1>. QED BY <1>1, <1>2, <1>3, <1>4, <1>5, <1>7, <1>8, <1>9 DEF MainInv

-----------------------------------------------------------------------------
(* The invariant *)

(* The initial states satisfy the invariant. *)
LEMMA MainInvInit == MainInit => MainInv
<1>. SUFFICES ASSUME MainInit
             PROVE  MainInv
  OBVIOUS
<1>1. /\ config \in Configs /\ SinkInit /\ EvalInit /\ phase = "retrigger" /\ step = config.startStep
      /\ draining = FALSE /\ emptyBatches = 0 /\ L!Init /\ row = [g \in Gid |-> None]
      /\ triggered = <<>> /\ evaluated = <<>> /\ observed = 0
  BY DEF MainInit
<1>2. SinkInv
  BY <1>1, SinkInitInv
<1>3. LoopInv
  <2>1. config.startStep \in Nat /\ MaxEmpty \in Nat \ {0}
    BY <1>1, ConfigFacts, LoopAssumption
  <2>2. step \in Nat /\ config.startStep <= step /\ ~(step > config.startStep)
    BY <1>1, <2>1
  <2>3. emptyBatches \in 0..MaxEmpty /\ emptyBatches < MaxEmpty
    BY <1>1, <2>1
  <2>. QED BY <1>1, <2>2, <2>3 DEF LoopInv
<1>4. <<>> \in Seq(Rollout) /\ <<>> \in Seq(EpochSet) /\ <<>> \in Seq(Row) /\ IsInjective(<<>>) /\ ToSet(<<>>) = {}
  BY DEF IsInjective, ToSet
<1>5. WindowInv
  <2>1. finalized = <<>> /\ pendingRollouts = <<>> /\ preSeen = 0 /\ preDropped = 0
    BY <1>1 DEF SinkInit
  <2>2. Len(Survivors(<<>>)) = 0 /\ Len(Admitted(<<>>)) = 0
    <3>1. SurvivorsAt(<<>>) = {} /\ AdmittedAt(<<>>) = {}
      BY DEF SurvivorsAt, AdmittedAt
    <3>2. Len(Survivors(<<>>)) = Cardinality({}) /\ Len(Admitted(<<>>)) = Cardinality({})
      BY <1>4, <3>1, SurvivorsFacts
    <3>. QED BY <3>2, FS_EmptySet
  <2>3. StatsMatch
    BY <2>1, <2>2 DEF StatsMatch
  <2>4. ObservedOnce
    <3>1. SubSeq(<<>>, 0 + 1, Len(<<>>)) = <<>> /\ <<>> \o <<>> = <<>>
      OBVIOUS
    <3>. QED BY <1>1, <2>1, <3>1 DEF ObservedOnce
  <2>. QED BY <1>1, <2>1, <2>3, <2>4 DEF WindowInv, Shipping
<1>6. TriggerInv
  BY <1>1, <1>4 DEF TriggerInv, EvalInit
<1>7. LedgerInv
  BY <1>1 DEF LedgerInv, L!Init
<1>8. EvalGids = {} /\ \A k : Done(k) = {}
  <2>1. EvalGids = {}
    BY <1>1, EnvFacts DEF EvalGids, L!Init
  <2>. QED BY <2>1 DEF Done, DoneGids
<1>9. RowsInv
  <2>1. RowsOf(ToSet(triggered)) = {}
    BY <1>1, <1>4 DEF RowsOf
  <2>. QED BY <1>1, <1>4, <1>8, <2>1 DEF RowsInv, EvalInit
<1>10. GroupsInv
  BY <1>1, <1>8 DEF GroupsInv, EvalInit
<1>11. BucketsInv
  <2>1. DOMAIN buckets = {} /\ DOMAIN bucketEpisodes = {} /\ ToSet(evaluated) = {}
    BY <1>1, <1>4 DEF EvalInit
  <2>2. ASSUME NEW k \in EpochSet
        PROVE  BucketInv(k)
    <3>1. ValueAt(bucketEpisodes, k, 0) = 0 /\ ValueAt(buckets, k, <<>>) = <<>>
      BY <2>1 DEF ValueAt
    <3>2. Done(k) = {} /\ Cardinality(Done(k)) = 0
      BY <1>8, FS_EmptySet
    <3>3. GroupSize[k[1]] \in Nat /\ Examples[k[1]] \in Nat \ {0}
      BY EnvFacts DEF EpochSet
    <3>4. 1 \in 1..Examples[k[1]] /\ 0 * GroupSize[k[1]] = 0
      BY <3>3
    <3>5. Done(k) # 1..Examples[k[1]]
      BY <3>2, <3>4
    <3>6. ValueAt(bucketEpisodes, k, 0) = Cardinality(Done(k)) * GroupSize[k[1]]
      BY <3>1, <3>2, <3>4
    <3>7. Holds(ValueAt(buckets, k, <<>>), Done(k), 1..GroupSize[k[1]])
      BY <3>1, <3>2, HoldsNothing, Zenon
    <3>. QED BY <3>5, <3>6, <3>7 DEF BucketInv
  <2>. QED BY <1>1, <1>4, <2>1, <2>2 DEF BucketsInv
<1>. QED BY <1>1, <1>2, <1>3, <1>5, <1>6, <1>7, <1>9, <1>10, <1>11 DEF MainInv, EpochWhole, EvalInit

\* Nothing changes when the system stutters.
LEMMA StutterKeeps ==
    ASSUME MainInv, UNCHANGED mainVars
    PROVE  MainInv'
<1>1. /\ config \in Configs /\ SinkInv /\ LoopInv /\ WindowInv /\ TriggerInv /\ LedgerInv
      /\ RowsInv /\ GroupsInv /\ BucketsInv /\ EpochWhole
  BY DEF MainInv
<1>2. UNCHANGED <<config, sinkVars, loopVars, ledgerVars, evalSinkVars, row, triggered, evaluated, observed,
                  evalQueue, firstTrigger>>
  BY DEF mainVars, historyVars, epochVars, evalVars, sourceVars
<1>3. SinkInv' /\ LoopInv' /\ WindowInv'
  BY <1>1, <1>2, SinkSideKept
<1>4. TriggerInv'
  BY <1>1, <1>2, TriggerKept DEF loopVars
<1>5. LedgerInv'
  BY <1>1, <1>2 DEF LedgerInv, ledgerVars
<1>6. RowsInv' /\ GroupsInv' /\ BucketsInv' /\ EpochWhole'
  <2>1. EvalGids' = EvalGids /\ \A g \in EvalGids : env'[g] = env[g] /\ delivered'[g] = delivered[g]
    BY <1>2 DEF EvalGids, ledgerVars
  <2>2. abandoned' \cap EvalGids = {}
    BY <1>1, <1>2 DEF RowsInv, ledgerVars
  <2>. QED BY <1>1, <1>2, <2>1, <2>2, EvalSideKept
<1>. QED BY <1>1, <1>2, <1>3, <1>4, <1>5, <1>6 DEF MainInv

\* Every step preserves the invariant.
LEMMA MainInvNext == MainInv /\ [MainNext]_mainVars => MainInv'
<1>. SUFFICES ASSUME MainInv, [MainNext]_mainVars
             PROVE  MainInv'
  OBVIOUS
<1>1. ASSUME NEW g \in Gid, OpenTrain(g) \/ OpenEval(g)
      PROVE  MainInv'
  BY <1>1, OpenTrainKeeps, OpenEvalKeeps
<1>2. ASSUME NEW g \in Gid, NEW shape \in Shape, TrainArrives(g, shape)
      PROVE  MainInv'
  BY <1>2, TrainArrivesKeeps
<1>3. ASSUME NEW g \in Gid, NEW traces \in Traces, EvalArrives(g, traces)
      PROVE  MainInv'
  BY <1>3, EvalArrivesKeeps
<1>4. CASE StartRetrigger
  BY <1>4, StartRetriggerKeeps
<1>5. CASE StartTrigger
  BY <1>5, StartTriggerKeeps
<1>6. CASE StartDrain \/ EmptyBatch \/ Exit
  BY <1>6, LoopStepKeeps
<1>7. CASE ShipBatch
  BY <1>7, ShipBatchKeeps
<1>8. CASE UNCHANGED mainVars
  BY <1>8, StutterKeeps
<1>. QED BY <1>1, <1>2, <1>3, <1>4, <1>5, <1>6, <1>7, <1>8 DEF MainNext

\* MainInv holds in every reachable state.
THEOREM MainInvariant == MainSpec => []MainInv
<1>1. MainInit => MainInv
  BY MainInvInit
<1>2. MainInv /\ [MainNext]_mainVars => MainInv'
  BY MainInvNext
<1>. QED BY <1>1, <1>2, PTL DEF MainSpec

-----------------------------------------------------------------------------
(* What the invariant says *)

\* With no eval work left every row of a triggered epoch is in a complete group: the epoch is
\* done, and a bucket of an epoch that is done is gone.
LEMMA NothingStranded == MainInv => EpochsNeverStranded
<1>. SUFFICES ASSUME MainInv, evalQueue = <<>>, {g \in OpenNow : env[g] \in EvalEnv} = {}
             PROVE  /\ ToSet(evaluated) = ToSet(triggered)
                    /\ DOMAIN buckets = {} /\ \A g \in Gid : evalGroups[g] = <<>>
  BY DEF EpochsNeverStranded
<1>1. LedgerInv /\ TriggerInv /\ RowsInv /\ GroupsInv /\ BucketsInv
  BY DEF MainInv
<1>2. \A g \in EvalGids : delivered[g] = GroupSize[env[g]]
  <2>. SUFFICES ASSUME NEW g \in EvalGids
               PROVE  delivered[g] = GroupSize[env[g]]
    OBVIOUS
  <2>1. g \in Gid /\ env[g] \in EvalEnv /\ env[g] # None /\ g \notin abandoned
    BY <1>1, EnvFacts DEF EvalGids, RowsInv
  <2>2. ~IsOpen(g)
    BY <2>1 DEF OpenNow
  <2>3. delivered[g] \in Nat /\ GroupSize[env[g]] \in Nat /\ delivered[g] <= GroupSize[env[g]]
    BY <1>1, <2>1, EnvFacts DEF LedgerInv
  <2>. QED BY <2>1, <2>2, <2>3 DEF IsOpen
<1>3. ToSet(triggered) \subseteq EpochSet
  BY <1>1, ElementsOf DEF TriggerInv
<1>4. ToSet(evalQueue) = {}
  BY <1>1, ElementsOf DEF RowsInv
<1>5. {row[g] : g \in EvalGids} = RowsOf(ToSet(triggered))
  BY <1>1, <1>4 DEF RowsInv
<1>6. \A k \in ToSet(triggered) : Done(k) = 1..Examples[k[1]]
  <2>. SUFFICES ASSUME NEW k \in ToSet(triggered)
               PROVE  Done(k) = 1..Examples[k[1]]
    OBVIOUS
  <2>1. k \in EpochSet /\ Done(k) \subseteq 1..Examples[k[1]] /\ Examples[k[1]] \in Nat
    BY <1>1, <1>3, DoneFacts, EnvFacts DEF EpochSet
  <2>2. ASSUME NEW n \in 1..Examples[k[1]]
        PROVE  n \in Done(k)
    <3>. DEFINE r == [env |-> k[1], example |-> n, step |-> k[2]]
    <3>1. r \in RowsOf(ToSet(triggered)) /\ KeyOf(r) = k /\ r.example = n
      BY <2>1 DEF RowsOf, Row, KeyOf, EpochSet
    <3>. HIDE DEF r
    <3>2. PICK g \in EvalGids : row[g] = r
      BY <1>5, <3>1
    <3>. QED BY <1>2, <3>1, <3>2 DEF Done, DoneGids
  <2>. QED BY <2>1, <2>2
<1>7. ToSet(evaluated) = ToSet(triggered)
  <2>1. ToSet(evaluated) \subseteq ToSet(triggered)
    BY <1>1 DEF BucketsInv
  <2>2. ASSUME NEW k \in ToSet(triggered), k \notin ToSet(evaluated)
        PROVE  FALSE
    BY <1>1, <1>3, <1>6, <2>2 DEF BucketsInv, BucketInv
  <2>. QED BY <2>1, <2>2
<1>8. DOMAIN buckets = {}
  <2>. SUFFICES ASSUME NEW k \in DOMAIN buckets
               PROVE  FALSE
    OBVIOUS
  <2>1. k \in EpochSet /\ Done(k) # {} /\ k \notin ToSet(evaluated)
    BY <1>1 DEF BucketsInv
  <2>2. k \in ToSet(triggered)
    BY <1>1, <2>1, DoneFacts
  <2>. QED BY <1>7, <2>1, <2>2
<1>9. \A g \in Gid : evalGroups[g] = <<>>
  <2>1. \A g \in EvalGids : evalEpisodes[g] = 0
    BY <1>1, <1>2 DEF GroupsInv
  <2>. QED BY <1>1, <2>1 DEF GroupsInv
<1>. QED BY <1>7, <1>8, <1>9

\* Between batches the window is what is not yet observed; the statistics are the window's.
LEMMA PartsOfMainInv ==
    MainInv => /\ MainTypeOK /\ QueueIsFIFO /\ TokensMatch /\ BacklogNeedsBigGroup
               /\ ObservedOnce /\ PreStatsMatchWindow /\ TriggeredOnce /\ EpochWhole
<1>. SUFFICES ASSUME MainInv
             PROVE  /\ MainTypeOK /\ QueueIsFIFO /\ TokensMatch /\ BacklogNeedsBigGroup
                    /\ ObservedOnce /\ PreStatsMatchWindow /\ TriggeredOnce /\ EpochWhole
  OBVIOUS
<1>1. MainTypeOK
  BY DEF MainInv, MainTypeOK, SinkInv, LoopInv, WindowInv
<1>2. QueueIsFIFO /\ TokensMatch /\ BacklogNeedsBigGroup
  BY DEF MainInv, SinkInv
<1>3. ObservedOnce /\ EpochWhole
  BY DEF MainInv, WindowInv
<1>4. PreStatsMatchWindow
  BY DEF MainInv, WindowInv, PreStatsMatchWindow, StatsMatch, Shipping
<1>5. TriggeredOnce
  BY DEF MainInv, TriggerInv, TriggeredOnce, DueBy
<1>. QED BY <1>1, <1>2, <1>3, <1>4, <1>5

\* The state of the loop and of the train sink has its type; the step never passes the one
\* after max_steps, and no more rollouts are observed than were finalized.
THEOREM MainTypes == MainSpec => []MainTypeOK
<1>1. MainInv => MainTypeOK
  BY PartsOfMainInv
<1>. QED BY <1>1, MainInvariant, PTL

\* What has left pending_batch in cohorts, followed by what is in it, is what was appended to
\* it: nothing that survived its group is lost, repeated or overtaken.
THEOREM SinkIsFIFO == MainSpec => []QueueIsFIFO
<1>1. MainInv => QueueIsFIFO
  BY PartsOfMainInv
<1>. QED BY <1>1, MainInvariant, PTL

\* pending_tokens, counted up by process_group and down by process_batch, is at any time the
\* token count of pending_batch.
THEOREM SinkCountsTokens == MainSpec => []TokensMatch
<1>1. MainInv => TokensMatch
  BY PartsOfMainInv
<1>. QED BY <1>1, MainInvariant, PTL

\* A batch is left over in pending_batch only after a group that alone brought more than one.
THEOREM BacklogIsBigGroup == MainSpec => []BacklogNeedsBigGroup
<1>1. MainInv => BacklogNeedsBigGroup
  BY PartsOfMainInv
<1>. QED BY <1>1, MainInvariant, PTL

\* Every rollout of a finalized group is in the window of exactly one shipped batch, or still
\* in the window.
THEOREM RolloutsObservedOnce == MainSpec => []ObservedOnce
<1>1. MainInv => ObservedOnce
  BY PartsOfMainInv
<1>. QED BY <1>1, MainInvariant, PTL

\* The pre-filter statistics, reset with each ship, are those of the window.
THEOREM StatsAreWindows == MainSpec => []PreStatsMatchWindow
<1>1. MainInv => PreStatsMatchWindow
  BY PartsOfMainInv
<1>. QED BY <1>1, MainInvariant, PTL

\* The epochs triggered are the ones due, each once: at startup, on resume, after every ship.
THEOREM EpochsTriggeredOnce == MainSpec => []TriggeredOnce
<1>1. MainInv => TriggeredOnce
  BY PartsOfMainInv
<1>. QED BY <1>1, MainInvariant, PTL

\* The report of an epoch has every example group_size times and nothing twice.
THEOREM ReportsWhole == MainSpec => []EpochWhole
<1>1. MainInv => EpochWhole
  BY PartsOfMainInv
<1>. QED BY <1>1, MainInvariant, PTL

\* When no eval work is queued or in flight, every epoch triggered has been evaluated.
THEOREM NoEpochStranded == MainSpec => []EpochsNeverStranded
BY MainInvariant, NothingStranded, PTL

\* The drained loop exits only with every epoch evaluated.
THEOREM DrainedRunEvaluated == MainSpec => []DrainedMeansEvaluated
<1>1. MainInit => DrainedMeansEvaluated
  BY DEF MainInit, DrainedMeansEvaluated
<1>2. MainInv /\ DrainedMeansEvaluated /\ [MainNext]_mainVars => DrainedMeansEvaluated'
  <2>. SUFFICES ASSUME MainInv, DrainedMeansEvaluated, [MainNext]_mainVars
               PROVE  DrainedMeansEvaluated'
    OBVIOUS
  <2>1. CASE Exit
    <3>1. evalQueue = <<>> /\ OpenNow = {} /\ UNCHANGED <<triggered, evaluated>>
      BY <2>1 DEF Exit, IsIdle, historyVars, epochVars
    <3>2. ToSet(evaluated) = ToSet(triggered)
      BY <3>1, NothingStranded DEF EpochsNeverStranded
    <3>. QED BY <3>1, <3>2 DEF DrainedMeansEvaluated
  <2>2. ASSUME NEW g \in Gid, OpenTrain(g) \/ OpenEval(g)
        PROVE  DrainedMeansEvaluated'
    BY <2>2 DEF OpenTrain, OpenEval, MayOpen, loopVars, DrainedMeansEvaluated
  <2>3. ASSUME NEW g \in Gid, NEW shape \in Shape, TrainArrives(g, shape)
        PROVE  DrainedMeansEvaluated'
    BY <2>3 DEF TrainArrives, DrainedMeansEvaluated
  <2>4. ASSUME NEW g \in Gid, NEW traces \in Traces, EvalArrives(g, traces)
        PROVE  DrainedMeansEvaluated'
    BY <2>4 DEF EvalArrives, loopVars, DrainedMeansEvaluated
  <2>5. CASE StartRetrigger \/ StartTrigger \/ StartDrain \/ EmptyBatch \/ ShipBatch
    BY <2>5 DEF StartRetrigger, StartTrigger, StartDrain, EmptyBatch, ShipBatch, DrainedMeansEvaluated
  <2>6. CASE UNCHANGED mainVars
    BY <2>6 DEF mainVars, loopVars, historyVars, epochVars, DrainedMeansEvaluated
  <2>. QED BY <2>1, <2>2, <2>3, <2>4, <2>5, <2>6 DEF MainNext
<1>. QED BY <1>1, <1>2, MainInvariant, PTL DEF MainSpec

-----------------------------------------------------------------------------
(* Source and sink implement the ledger of epochs *)

\* A step triggers more epochs, or evaluates one that is due, or does neither.
LEMMA EpochStep ==
    ASSUME MainInv, [MainNext]_mainVars
    PROVE  \/ evaluated' = evaluated /\ ToSet(triggered) \subseteq ToSet(triggered')
           \/ /\ triggered' = triggered
              /\ \E k \in ToSet(triggered) \ ToSet(evaluated) : evaluated' = Append(evaluated, k)
<1>1. config \in Configs /\ TriggerInv /\ LoopInv /\ LedgerInv /\ RowsInv /\ GroupsInv /\ BucketsInv
  BY DEF MainInv
<1>2. ASSUME NEW s \in Nat, TriggerEval(s)
      PROVE  ToSet(triggered) \subseteq ToSet(triggered')
  <2>1. triggered' = triggered \o FiredEpochs(s)
    BY <1>2 DEF TriggerEval, FiredEpochs
  <2>2. triggered \in Seq(EpochSet) /\ FiredEpochs(s) \in Seq(EpochSet)
    BY <1>1, FiredEpochsFacts DEF TriggerInv
  <2>3. ToSet(triggered \o FiredEpochs(s)) = ToSet(triggered) \cup ToSet(FiredEpochs(s))
    BY <2>2, ToSetConcat
  <2>. QED BY <2>1, <2>3
<1>3. step \in Nat
  BY <1>1 DEF LoopInv
<1>4. CASE StartRetrigger
  <2>1. phase = "retrigger" /\ evaluated' = evaluated
    BY <1>4 DEF StartRetrigger
  <2>2. step - 1 \in Nat
    BY <1>1, <2>1, ConfigFacts DEF TriggerInv
  <2>. QED BY <1>2, <1>4, <2>1, <2>2 DEF StartRetrigger
<1>5. CASE StartTrigger
  BY <1>2, <1>3, <1>5 DEF StartTrigger
<1>6. CASE ShipBatch
  <2>1. step + 1 \in Nat /\ TriggerEval(step + 1) /\ evaluated' = evaluated
    BY <1>3, <1>6 DEF ShipBatch
  <2>. QED BY <1>2, <2>1
<1>7. ASSUME NEW g \in Gid, NEW traces \in Traces, EvalArrives(g, traces)
      PROVE  /\ triggered' = triggered
             /\ \/ evaluated' = evaluated
                \/ \E k \in ToSet(triggered) \ ToSet(evaluated) : evaluated' = Append(evaluated, k)
  <2>1. /\ env[g] \in EvalEnv /\ L!Deliver(g) /\ EvalAdd(g, row[g], traces) /\ triggered' = triggered
        /\ evaluated' = IF evalBatch' = NoEvalBatch THEN evaluated
                        ELSE Append(evaluated, <<evalBatch'.env, evalBatch'.step>>)
        /\ row' = row
    BY <1>7 DEF EvalArrives
  <2>2. g \in EvalGids /\ Delivers(g)
    BY <1>1, <2>1, DeliverLedger DEF EvalGids, Delivers
  <2>. QED BY <1>1, <2>1, <2>2, EvalDelivered
<1>8. ASSUME NEW g \in Gid, OpenTrain(g) \/ OpenEval(g)
      PROVE  triggered' = triggered /\ evaluated' = evaluated
  BY <1>8 DEF OpenTrain, OpenEval, historyVars, epochVars
<1>9. ASSUME NEW g \in Gid, NEW shape \in Shape, TrainArrives(g, shape)
      PROVE  triggered' = triggered /\ evaluated' = evaluated
  BY <1>9 DEF TrainArrives, historyVars, epochVars
<1>10. CASE StartDrain \/ EmptyBatch \/ Exit
  BY <1>10 DEF StartDrain, EmptyBatch, Exit, historyVars, epochVars
<1>11. CASE UNCHANGED mainVars
  BY <1>11 DEF mainVars, historyVars, epochVars
<1>. QED BY <1>4, <1>5, <1>6, <1>7, <1>8, <1>9, <1>10, <1>11 DEF MainNext

\* EvalSource and EvalSink, with the dispatcher between them, implement the ledger of epochs:
\* an epoch is evaluated at most once, and only after it has been triggered.
THEOREM EpochsImplementLedger == MainSpec => EpochSafety
<1>1. MainInit => Epochs!Init
  <2>. SUFFICES ASSUME MainInit
               PROVE  Epochs!Init
    OBVIOUS
  <2>1. triggered = <<>> /\ evaluated = <<>>
    BY DEF MainInit
  <2>2. ToSet(triggered) \ ToSet(evaluated) = {}
    BY <2>1 DEF ToSet
  <2>. QED BY <2>1, <2>2 DEF Epochs!Init
<1>2. MainInv /\ MainInv' /\ [MainNext]_mainVars => [Epochs!Next]_Epochs!vars
  <2>. SUFFICES ASSUME MainInv, MainInv', [MainNext]_mainVars
               PROVE  Epochs!Next
    OBVIOUS
  <2>1. /\ ToSet(evaluated) \subseteq ToSet(triggered) /\ evaluated \in Seq(EpochSet)
        /\ ToSet(triggered) \subseteq EpochSet /\ ToSet(triggered') \subseteq EpochSet
    <3>1. triggered \in Seq(EpochSet) /\ triggered' \in Seq(EpochSet)
      BY DEF MainInv, TriggerInv
    <3>2. ToSet(triggered) \subseteq EpochSet /\ ToSet(triggered') \subseteq EpochSet
      BY <3>1, ElementsOf
    <3>. QED BY <3>2 DEF MainInv, BucketsInv
  <2>2. CASE evaluated' = evaluated /\ ToSet(triggered) \subseteq ToSet(triggered')
    <3>1. ToSet(evaluated') = ToSet(evaluated)
      BY <2>2, Zenon
    <3>. DEFINE due == ToSet(triggered) \ ToSet(evaluated)
                later == ToSet(triggered') \ ToSet(evaluated')
    <3>2. due \subseteq later /\ \A k \in later \ due : k \in EpochSet \ ToSet(evaluated)
      BY <2>1, <2>2, <3>1
    <3>3. Epochs!Trigger
      <4>1. Epochs!ToSet(evaluated) = ToSet(evaluated)
        BY DEF ToSet, Epochs!ToSet
      <4>. QED BY <2>2, <3>2, <4>1, Zenon DEF Epochs!Trigger, EpochSet
    <3>. QED BY <3>3 DEF Epochs!Next
  <2>3. ASSUME NEW k \in ToSet(triggered) \ ToSet(evaluated), triggered' = triggered,
               evaluated' = Append(evaluated, k)
        PROVE  Epochs!Next
    <3>1. ToSet(Append(evaluated, k)) = ToSet(evaluated) \cup {k}
      BY <2>1, AppendFacts
    <3>2. ToSet(triggered') \ ToSet(evaluated') = (ToSet(triggered) \ ToSet(evaluated)) \ {k}
      BY <2>3, <3>1
    <3>3. Epochs!Evaluate
      BY <2>3, <3>2 DEF Epochs!Evaluate
    <3>. QED BY <3>3 DEF Epochs!Next
  <2>. QED BY <2>2, <2>3, EpochStep
<1>. QED BY <1>1, <1>2, MainInvariant, PTL DEF MainSpec, EpochSafety, Epochs!Spec
=============================================================================
