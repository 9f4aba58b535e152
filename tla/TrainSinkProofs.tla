--------------------------- MODULE TrainSinkProofs ---------------------------
(***************************************************************************)
(* Proofs about the train sink: what one call of add does to the queue, to *)
(* its token count and to the observation window, for every batch size,    *)
(* every group size and every content of an episode.  MainLoopProofs       *)
(* carries the results over to the orchestrator's main loop.               *)
(***************************************************************************)
EXTENDS TrainSink, SeqUtilsProofs

-----------------------------------------------------------------------------
(* Rollouts *)

\* Exactly one of the batch sizes counts.
LEMMA BatchSizes ==
    ASSUME config \in Configs
    PROVE  BatchSize \in Nat /\ TokenBatchSize \in Nat /\ (BatchSize = 0) # (TokenBatchSize = 0)
BY ConfigAssumption DEF BatchSize, TokenBatchSize

\* Every rollout counts for at least one token.
LEMMA PayloadPositive ==
    ASSUME NEW r \in Rollout
    PROVE  PayloadTokens(r) \in Nat \ {0}
BY DEF Rollout, PayloadTokens

\* The token costs of a sequence of rollouts.
Costs(q) == [i \in DOMAIN q |-> PayloadTokens(q[i])]

\* Token costs are naturals, one for each rollout, and their sum is the token count.
LEMMA CostsFacts ==
    ASSUME NEW q \in Seq(Rollout)
    PROVE  /\ Costs(q) \in Seq(Nat) /\ Costs(q) \in Seq(Int) /\ Len(Costs(q)) = Len(q)
           /\ \A i \in 1..Len(q) : Costs(q)[i] = PayloadTokens(q[i]) /\ Costs(q)[i] >= 1
           /\ Tokens(q) = SeqSum(Costs(q)) /\ Tokens(q) \in Nat
<1>1. DOMAIN q = 1..Len(q) /\ Len(q) \in Nat
  OBVIOUS
<1>2. \A i \in 1..Len(q) : PayloadTokens(q[i]) \in Nat \ {0}
  BY ElementOfSeq, PayloadPositive
<1>3. Costs(q) = [i \in 1..Len(q) |-> PayloadTokens(q[i])]
  BY <1>1 DEF Costs
<1>4. Costs(q) \in Seq(Nat) /\ Len(Costs(q)) = Len(q)
  BY <1>1, <1>2, <1>3
<1>5. Costs(q) \in Seq(Int)
  BY <1>4
<1>6. Tokens(q) = SeqSum(Costs(q)) /\ Tokens(q) \in Nat
  BY <1>4, SumTyped DEF Tokens, Costs
<1>. QED BY <1>1, <1>2, <1>3, <1>4, <1>5, <1>6

\* The token count of two queues, one behind the other.
LEMMA TokensConcat ==
    ASSUME NEW q \in Seq(Rollout), NEW r \in Seq(Rollout)
    PROVE  Tokens(q \o r) = Tokens(q) + Tokens(r)
<1>. DEFINE u == q \o r
<1>1. /\ u \in Seq(Rollout) /\ Len(u) = Len(q) + Len(r) /\ Len(q) \in Nat /\ Len(r) \in Nat
      /\ \A i \in 1..Len(q) + Len(r) : u[i] = IF i <= Len(q) THEN q[i] ELSE r[i - Len(q)]
  BY ConcatProperties
<1>. HIDE DEF u
<1>2. ASSUME NEW s \in Seq(Rollout)
      PROVE  /\ Costs(s) \in Seq(Int) /\ Len(Costs(s)) = Len(s) /\ Tokens(s) = SeqSum(Costs(s))
             /\ \A i \in 1..Len(s) : Costs(s)[i] = PayloadTokens(s[i])
  BY CostsFacts
<1>3. /\ Costs(u) \in Seq(Int) /\ Costs(q) \in Seq(Int) /\ Costs(r) \in Seq(Int)
      /\ Len(Costs(u)) = Len(Costs(q)) + Len(Costs(r))
  BY <1>1, <1>2
<1>4. \A i \in 1..Len(Costs(q)) : Costs(u)[i] = Costs(q)[i]
  <2>. TAKE i \in 1..Len(Costs(q))
  <2>1. i \in 1..Len(q) /\ i \in 1..Len(u) /\ u[i] = q[i]
    BY <1>1, <1>2
  <2>. QED BY <2>1, <1>1, <1>2
<1>5. \A i \in 1..Len(Costs(r)) : Costs(u)[Len(Costs(q)) + i] = Costs(r)[i]
  <2>. TAKE i \in 1..Len(Costs(r))
  <2>0. i \in 1..Len(r)
    BY <1>2
  <2>1. i \in 1..Len(r) /\ Len(q) + i \in 1..Len(u) /\ Len(q) + i \in 1..Len(q) + Len(r)
        /\ ~(Len(q) + i <= Len(q)) /\ (Len(q) + i) - Len(q) = i
    BY <1>1, <2>0
  <2>2. u[Len(q) + i] = r[i]
    BY <2>1, <1>1
  <2>. QED BY <2>1, <2>2, <1>1, <1>2
<1>6. SeqSum(Costs(u)) = SeqSum(Costs(q)) + SeqSum(Costs(r))
  BY <1>3, <1>4, <1>5, SumJoined
<1>. QED BY <1>1, <1>2, <1>6 DEF u

\* A queue counts for at least one token per rollout; the empty queue for none.
LEMMA TokensEmpty ==
    /\ Tokens(<<>>) = 0
    /\ \A q \in Seq(Rollout) : Tokens(q) = 0 => q = <<>>
<1>1. Tokens(<<>>) = 0
  <2>1. <<>> \in Seq(Rollout)
    OBVIOUS
  <2>2. Tokens(<<>>) = SeqSum(Costs(<<>>)) /\ Costs(<<>>) \in Seq(Int) /\ Len(Costs(<<>>)) = 0
    BY <2>1, CostsFacts
  <2>3. Costs(<<>>) = <<>>
    BY <2>2, EmptySeq
  <2>. QED BY <2>2, <2>3, SumEmpty
<1>2. ASSUME NEW q \in Seq(Rollout), q # <<>>
      PROVE  Tokens(q) # 0
  <2>1. 1 \in 1..Len(q)
    BY <1>2, EmptySeq
  <2>2. /\ Costs(q) \in Seq(Nat) /\ Len(Costs(q)) = Len(q) /\ Costs(q)[1] >= 1
        /\ Tokens(q) = SeqSum(Costs(q)) /\ Tokens(q) \in Nat
    BY <2>1, CostsFacts
  <2>3. Costs(q)[1] <= SeqSum(Costs(q)) /\ Costs(q)[1] \in Nat
    <3>. DEFINE c == Costs(q)
    <3>1. c \in Seq(Nat) /\ 1 \in 1..Len(c)
      BY <2>1, <2>2
    <3>. HIDE DEF c
    <3>2. c[1] <= SeqSum(c) /\ c[1] \in Nat
      BY <3>1, SumAtLeast, ElementOfSeq
    <3>. QED BY <3>2 DEF c
  <2>. QED BY <2>2, <2>3
<1>. QED BY <1>1, <1>2

-----------------------------------------------------------------------------
(* Groups *)

\* The rollouts of an episode are rollouts of its group; there is one at least.
LEMMA NthEpisodeFacts ==
    ASSUME NEW g \in Gid, pendingEpisodes[g] \in Nat, NEW shape \in Shape
    PROVE  NthEpisode(g, shape) \in Seq(Rollout) /\ \A r \in ToSet(NthEpisode(g, shape)) : r.group = g
<1>1. shape \in Seq([fate : Fate, payload : Nat, total : Nat \ {0}])
  BY ShapeAssumption
<1>2. Len(shape) \in Nat /\ \A i \in 1..Len(shape) : shape[i] \in [fate : Fate, payload : Nat, total : Nat \ {0}]
  <2>. DEFINE Part == [fate : Fate, payload : Nat, total : Nat \ {0}]
  <2>1. shape \in Seq(Part)
    BY <1>1
  <2>. HIDE DEF Part
  <2>2. Len(shape) \in Nat /\ \A i \in 1..Len(shape) : shape[i] \in Part
    BY <2>1, ElementOfSeq
  <2>. QED BY <2>2 DEF Part
<1>3. \A i \in 1..Len(shape) : NthEpisode(g, shape)[i] \in Rollout /\ NthEpisode(g, shape)[i].group = g
  BY <1>2 DEF NthEpisode, Rollout
<1>4. NthEpisode(g, shape) \in [1..Len(shape) -> Rollout]
  BY <1>3 DEF NthEpisode
<1>5. NthEpisode(g, shape) \in Seq(Rollout) /\ DOMAIN NthEpisode(g, shape) = 1..Len(shape)
  BY <1>2, <1>4, SeqDef
<1>. QED BY <1>3, <1>5 DEF ToSet

\* The positions of the survivors and of the admitted rollouts of a group.
SurvivorsAt(q) == {i \in DOMAIN q : IsSurvivor(q[i])}
AdmittedAt(q) == {i \in DOMAIN q : IsAdmitted(q[i])}

\* Survivors and admitted rollouts are rollouts of the group.
LEMMA SurvivorsFacts ==
    ASSUME NEW q \in Seq(Rollout)
    PROVE  /\ Survivors(q) \in Seq(Rollout) /\ Len(Survivors(q)) = Cardinality(SurvivorsAt(q))
           /\ Admitted(q) \in Seq(Rollout) /\ Len(Admitted(q)) = Cardinality(AdmittedAt(q))
           /\ ToSet(Admitted(q)) \subseteq ToSet(q)
           /\ Len(Admitted(q)) \in Nat /\ Len(Survivors(q)) \in Nat
           /\ Len(Admitted(q)) <= Len(Survivors(q))
<1>1. DOMAIN q = 1..Len(q) /\ Len(q) \in Nat
  OBVIOUS
<1>2. SurvivorsAt(q) \in SUBSET (1..Len(q)) /\ AdmittedAt(q) \in SUBSET (1..Len(q))
  BY <1>1 DEF SurvivorsAt, AdmittedAt
<1>3. Survivors(q) \in Seq(Rollout) /\ Len(Survivors(q)) = Cardinality(SurvivorsAt(q))
  BY <1>2, SubsequenceFacts DEF Survivors, SurvivorsAt
<1>4. /\ Admitted(q) \in Seq(Rollout) /\ Len(Admitted(q)) = Cardinality(AdmittedAt(q))
      /\ ToSet(Admitted(q)) = {q[i] : i \in AdmittedAt(q)}
  BY <1>2, SubsequenceFacts DEF Admitted, AdmittedAt
<1>5. ToSet(Admitted(q)) \subseteq ToSet(q)
  BY <1>4 DEF AdmittedAt, ToSet
<1>6. AdmittedAt(q) \in SUBSET SurvivorsAt(q)
  BY DEF AdmittedAt, SurvivorsAt, IsAdmitted
<1>7. /\ IsFiniteSet(SurvivorsAt(q)) /\ Cardinality(SurvivorsAt(q)) \in Nat
      /\ Cardinality(AdmittedAt(q)) \in Nat
  BY <1>1, <1>2, RankFacts
<1>8. Cardinality(AdmittedAt(q)) <= Cardinality(SurvivorsAt(q))
  BY <1>6, <1>7, FS_Subset
<1>. QED BY <1>3, <1>4, <1>5, <1>7, <1>8

\* The positions at which a sequence has an element of P.
Where(q, P) == {i \in DOMAIN q : q[i] \in P}

\* Where a concatenation has an element with a given property.
LEMMA PositionsConcat ==
    ASSUME NEW q \in Seq(Rollout), NEW r \in Seq(Rollout), NEW P
    PROVE  Where(q \o r, P) = BothPositions(Len(q), Where(q, P), Where(r, P))
<1>. DEFINE u == q \o r
            I == {i \in DOMAIN q : q[i] \in P}
            J == {i \in DOMAIN r : r[i] \in P}
<1>1. /\ DOMAIN u = 1..Len(q) + Len(r) /\ DOMAIN q = 1..Len(q) /\ DOMAIN r = 1..Len(r)
      /\ Len(q) \in Nat /\ Len(r) \in Nat
      /\ \A i \in 1..Len(q) + Len(r) : u[i] = IF i <= Len(q) THEN q[i] ELSE r[i - Len(q)]
  BY ConcatProperties
<1>. HIDE DEF u
<1>2. ASSUME NEW i \in DOMAIN u, u[i] \in P
      PROVE  i \in I \cup {Len(q) + j : j \in J}
  <2>1. CASE i <= Len(q)
    BY <2>1, <1>1, <1>2
  <2>2. CASE ~(i <= Len(q))
    <3>1. i - Len(q) \in 1..Len(r) /\ Len(q) + (i - Len(q)) = i
      BY <2>2, <1>1
    <3>2. i - Len(q) \in J
      BY <3>1, <2>2, <1>1, <1>2
    <3>. QED BY <3>1, <3>2
  <2>. QED BY <2>1, <2>2
<1>3. ASSUME NEW i \in I
      PROVE  i \in DOMAIN u /\ u[i] \in P
  <2>1. i \in 1..Len(q) /\ i \in 1..Len(q) + Len(r) /\ i <= Len(q)
    BY <1>1
  <2>. QED BY <2>1, <1>1
<1>4. ASSUME NEW j \in J
      PROVE  Len(q) + j \in DOMAIN u /\ u[Len(q) + j] \in P
  <2>1. /\ Len(q) + j \in 1..Len(q) + Len(r) /\ ~(Len(q) + j <= Len(q))
        /\ (Len(q) + j) - Len(q) = j
    BY <1>1
  <2>. QED BY <2>1, <1>1
<1>5. {i \in DOMAIN u : u[i] \in P} = I \cup {Len(q) + j : j \in J}
  BY <1>2, <1>3, <1>4
<1>. QED BY <1>5 DEF u, Where, BothPositions

\* How often a property holds in a concatenation.
LEMMA CountInConcat ==
    ASSUME NEW q \in Seq(Rollout), NEW r \in Seq(Rollout), NEW P
    PROVE  /\ Cardinality(Where(q \o r, P)) = Cardinality(Where(q, P)) + Cardinality(Where(r, P))
           /\ Cardinality(Where(q, P)) \in Nat /\ Cardinality(Where(r, P)) \in Nat
<1>1. /\ Len(q) \in Nat /\ Len(r) \in Nat
      /\ Where(q, P) \in SUBSET (1..Len(q)) /\ Where(r, P) \in SUBSET (1..Len(r))
  BY DEF Where
<1>2. Where(q \o r, P) = BothPositions(Len(q), Where(q, P), Where(r, P))
  BY PositionsConcat
<1>3. /\ Cardinality(Where(q, P)) \in Nat /\ Cardinality(Where(r, P)) \in Nat
      /\ IsFiniteSet(Where(r, P))
  BY <1>1, RankFacts
<1>4. Where(q, P) \subseteq 1..Len(q) /\ Where(r, P) \subseteq Nat \ {0}
  BY <1>1
<1>5. Cardinality(Where(q \o r, P)) = Cardinality(Where(q, P)) + Cardinality(Where(r, P))
  BY <1>1, <1>2, <1>3, <1>4, CountConcat
<1>. QED BY <1>3, <1>5

\* The survivors of two groups, one behind the other in the window.
LEMMA SurvivorsConcat ==
    ASSUME NEW q \in Seq(Rollout), NEW r \in Seq(Rollout)
    PROVE  /\ Len(Survivors(q \o r)) = Len(Survivors(q)) + Len(Survivors(r))
           /\ Len(Admitted(q \o r)) = Len(Admitted(q)) + Len(Admitted(r))
<1>. DEFINE survivors == {x \in Rollout : IsSurvivor(x)}
            admitting == {x \in Rollout : IsAdmitted(x)}
<1>1. \A s \in Seq(Rollout) : SurvivorsAt(s) = Where(s, survivors) /\ AdmittedAt(s) = Where(s, admitting)
  <2>. TAKE s \in Seq(Rollout)
  <2>1. \A i \in DOMAIN s : s[i] \in Rollout
    OBVIOUS
  <2>. QED BY <2>1 DEF SurvivorsAt, AdmittedAt, Where
<1>. HIDE DEF survivors, admitting
<1>2. q \o r \in Seq(Rollout)
  OBVIOUS
<1>3. /\ Cardinality(SurvivorsAt(q \o r)) = Cardinality(SurvivorsAt(q)) + Cardinality(SurvivorsAt(r))
      /\ Cardinality(AdmittedAt(q \o r)) = Cardinality(AdmittedAt(q)) + Cardinality(AdmittedAt(r))
  <2>1. \A P : Cardinality(Where(q \o r, P)) = Cardinality(Where(q, P)) + Cardinality(Where(r, P))
    BY CountInConcat
  <2>. QED BY <1>1, <1>2, <2>1, Zenon
<1>. QED BY <1>2, <1>3, SurvivorsFacts

-----------------------------------------------------------------------------
(* What a group brought *)

\* What the rollouts of a group in a queue cost.
GroupCosts(g, q) == [i \in DOMAIN q |-> IF q[i].group = g THEN PayloadTokens(q[i]) ELSE 0]
GroupTokens(g, q) == SeqSum(GroupCosts(g, q))

\* The rollouts of a group.
OfGroup(g) == {r \in Rollout : r.group = g}

\* What a group brought grows with what is admitted: by all of it if it is the group's.
LEMMA GroupTokensConcat ==
    ASSUME NEW g, NEW q \in Seq(Rollout), NEW r \in Seq(Rollout)
    PROVE  /\ GroupTokens(g, q) \in Nat /\ GroupTokens(g, r) \in Nat
           /\ GroupTokens(g, q \o r) = GroupTokens(g, q) + GroupTokens(g, r)
           /\ (\A x \in ToSet(r) : x.group = g) => GroupTokens(g, r) = Tokens(r)
<1>. DEFINE u == q \o r
<1>1. /\ u \in Seq(Rollout) /\ Len(u) = Len(q) + Len(r) /\ Len(q) \in Nat /\ Len(r) \in Nat
      /\ \A i \in 1..Len(q) + Len(r) : u[i] = IF i <= Len(q) THEN q[i] ELSE r[i - Len(q)]
  BY ConcatProperties
<1>. HIDE DEF u
<1>2. ASSUME NEW s \in Seq(Rollout)
      PROVE  /\ GroupCosts(g, s) \in Seq(Nat) /\ GroupCosts(g, s) \in Seq(Int)
             /\ Len(GroupCosts(g, s)) = Len(s) /\ GroupTokens(g, s) \in Nat
             /\ \A i \in 1..Len(s) :
                    GroupCosts(g, s)[i] = IF s[i].group = g THEN PayloadTokens(s[i]) ELSE 0
  <2>1. DOMAIN s = 1..Len(s) /\ Len(s) \in Nat
    OBVIOUS
  <2>2. \A i \in 1..Len(s) : (IF s[i].group = g THEN PayloadTokens(s[i]) ELSE 0) \in Nat
    BY ElementOfSeq, PayloadPositive
  <2>3. GroupCosts(g, s) = [i \in 1..Len(s) |-> IF s[i].group = g THEN PayloadTokens(s[i]) ELSE 0]
    BY <2>1 DEF GroupCosts
  <2>4. GroupCosts(g, s) \in Seq(Nat) /\ Len(GroupCosts(g, s)) = Len(s)
    BY <2>1, <2>2, <2>3
  <2>5. GroupCosts(g, s) \in Seq(Int)
    BY <2>4
  <2>6. GroupTokens(g, s) \in Nat
    BY <2>4, SumTyped DEF GroupTokens
  <2>. QED BY <2>1, <2>2, <2>3, <2>4, <2>5, <2>6
<1>3. /\ GroupCosts(g, u) \in Seq(Int) /\ GroupCosts(g, q) \in Seq(Int)
      /\ GroupCosts(g, r) \in Seq(Int)
      /\ Len(GroupCosts(g, u)) = Len(GroupCosts(g, q)) + Len(GroupCosts(g, r))
  BY <1>1, <1>2
<1>4. \A i \in 1..Len(GroupCosts(g, q)) : GroupCosts(g, u)[i] = GroupCosts(g, q)[i]
  <2>. TAKE i \in 1..Len(GroupCosts(g, q))
  <2>0. Len(GroupCosts(g, q)) = Len(q)
    BY <1>2
  <2>1. i \in 1..Len(q) /\ i \in 1..Len(u) /\ u[i] = q[i]
    BY <1>1, <2>0
  <2>. QED BY <2>1, <1>1, <1>2
<1>5. \A i \in 1..Len(GroupCosts(g, r)) :
          GroupCosts(g, u)[Len(GroupCosts(g, q)) + i] = GroupCosts(g, r)[i]
  <2>. TAKE i \in 1..Len(GroupCosts(g, r))
  <2>0. i \in 1..Len(r)
    BY <1>2
  <2>1. i \in 1..Len(r) /\ Len(q) + i \in 1..Len(u) /\ Len(q) + i \in 1..Len(q) + Len(r)
        /\ ~(Len(q) + i <= Len(q)) /\ (Len(q) + i) - Len(q) = i
    BY <1>1, <2>0
  <2>2. u[Len(q) + i] = r[i]
    BY <2>1, <1>1
  <2>. QED BY <2>1, <2>2, <1>1, <1>2
<1>6. GroupTokens(g, u) = GroupTokens(g, q) + GroupTokens(g, r)
  BY <1>3, <1>4, <1>5, SumJoined DEF GroupTokens
<1>7. ASSUME \A x \in ToSet(r) : x.group = g
      PROVE  GroupTokens(g, r) = Tokens(r)
  <2>1. DOMAIN r = 1..Len(r) /\ \A i \in 1..Len(r) : r[i].group = g
    BY <1>7 DEF ToSet
  <2>2. GroupCosts(g, r) = Costs(r)
    BY <2>1 DEF GroupCosts, Costs
  <2>. QED BY <2>2, CostsFacts DEF GroupTokens
<1>. QED BY <1>1, <1>2, <1>6, <1>7 DEF u

\* The same for the number of rollouts.
LEMMA GroupRolloutsConcat ==
    ASSUME NEW g, NEW q \in Seq(Rollout), NEW r \in Seq(Rollout)
    PROVE  /\ Cardinality(Where(q, OfGroup(g))) \in Nat
           /\ Cardinality(Where(q \o r, OfGroup(g))) >= Cardinality(Where(q, OfGroup(g)))
           /\ Cardinality(Where(q \o r, OfGroup(g))) \in Nat
           /\ (\A x \in ToSet(r) : x.group = g) => Cardinality(Where(q \o r, OfGroup(g))) >= Len(r)
<1>1. /\ Cardinality(Where(q \o r, OfGroup(g)))
           = Cardinality(Where(q, OfGroup(g))) + Cardinality(Where(r, OfGroup(g)))
      /\ Cardinality(Where(q, OfGroup(g))) \in Nat /\ Cardinality(Where(r, OfGroup(g))) \in Nat
  BY CountInConcat
<1>2. ASSUME \A x \in ToSet(r) : x.group = g
      PROVE  Cardinality(Where(r, OfGroup(g))) = Len(r)
  <2>1. DOMAIN r = 1..Len(r) /\ Len(r) \in Nat /\ \A i \in 1..Len(r) : r[i] \in Rollout /\ r[i].group = g
    BY <1>2, ElementOfSeq DEF ToSet
  <2>2. Where(r, OfGroup(g)) = 1..Len(r)
    BY <2>1 DEF Where, OfGroup
  <2>0. \A n \in Nat : Cardinality(1..n) = n
    BY FS_Interval
  <2>3. Cardinality(1..Len(r)) = Len(r)
    BY <2>0, <2>1
  <2>. QED BY <2>2, <2>3, Zenon
<1>. QED BY <1>1, <1>2

-----------------------------------------------------------------------------
(* Cutting a cohort *)

\* A cut is in the queue; a queue that is ready is cut at a whole batch.
LEMMA CutFacts ==
    ASSUME config \in Configs, NEW q \in Seq(Rollout)
    PROVE  /\ Cut(q) \in 0..Len(q)
           /\ BatchSize > 0 /\ Len(q) >= BatchSize => Cut(q) = BatchSize
           /\ BatchSize = 0 /\ Tokens(q) >= TokenBatchSize =>
                  Tokens(SubSeq(q, 1, Cut(q))) >= TokenBatchSize
<1>1. /\ BatchSize \in Nat /\ TokenBatchSize \in Nat /\ Len(q) \in Nat
      /\ (BatchSize = 0) # (TokenBatchSize = 0)
  BY BatchSizes
<1>2. CASE BatchSize > 0
  <2>1. Cut(q) = IF Len(q) < BatchSize THEN Len(q) ELSE BatchSize
    BY <1>2 DEF Cut
  <2>. QED BY <2>1, <1>1, <1>2
<1>3. CASE ~(BatchSize > 0)
  <2>. DEFINE reaching == {i \in 1..Len(q) : Tokens(SubSeq(q, 1, i)) >= TokenBatchSize}
  <2>1. Cut(q) = IF reaching = {} THEN Len(q) ELSE Min(reaching)
    BY <1>3 DEF Cut
  <2>2. reaching # {} => Min(reaching) \in reaching
    <3>1. reaching \in SUBSET Nat
      OBVIOUS
    <3>. HIDE DEF reaching
    <3>. QED BY <3>1, MinFacts
  <2>3. ASSUME Tokens(q) >= TokenBatchSize
        PROVE  Len(q) \in reaching
    <3>1. SubSeq(q, 1, Len(q)) = q
      BY SubSeqFull
    <3>2. Len(q) # 0
      <4>. SUFFICES ASSUME Len(q) = 0 PROVE FALSE
        OBVIOUS
      <4>1. q = <<>>
        BY EmptySeq
      <4>2. Tokens(q) = 0
        BY <4>1, TokensEmpty
      <4>. QED BY <4>2, <2>3, <1>1, <1>3
    <3>3. Tokens(SubSeq(q, 1, Len(q))) >= TokenBatchSize
      BY <3>1, <2>3, Zenon
    <3>. QED BY <3>2, <3>3, <1>1
  <2>4. Cut(q) \in 0..Len(q)
    <3>1. reaching \subseteq 1..Len(q)
      OBVIOUS
    <3>. HIDE DEF reaching
    <3>2. CASE reaching = {}
      <4>1. Cut(q) = Len(q)
        BY <2>1, <3>2, Zenon
      <4>. QED BY <4>1, <1>1
    <3>3. CASE reaching # {}
      <4>1. Cut(q) = Min(reaching) /\ Min(reaching) \in 1..Len(q)
        BY <2>1, <2>2, <3>1, <3>3, Zenon
      <4>. QED BY <4>1, <1>1
    <3>. QED BY <3>2, <3>3
  <2>5. ASSUME Tokens(q) >= TokenBatchSize
        PROVE  Tokens(SubSeq(q, 1, Cut(q))) >= TokenBatchSize
    <3>1. Cut(q) \in reaching
      <4>. HIDE DEF reaching
      <4>. QED BY <2>1, <2>2, <2>3, <2>5
    <3>. QED BY <3>1
  <2>. QED BY <2>4, <2>5, <1>1, <1>3
<1>. QED BY <1>2, <1>3

\* A queue is its cohort and its leftover, and so are its length and its token count.
LEMMA LeftoverFacts ==
    ASSUME config \in Configs, NEW q \in Seq(Rollout)
    PROVE  LET cohort == SubSeq(q, 1, Cut(q))
           IN  /\ cohort \in Seq(Rollout) /\ Leftover(q) \in Seq(Rollout)
               /\ q = cohort \o Leftover(q)
               /\ Len(q) = Len(cohort) + Len(Leftover(q)) /\ Len(cohort) = Cut(q)
               /\ Tokens(q) = Tokens(cohort) + Tokens(Leftover(q))
<1>. DEFINE k == Cut(q)
            cohort == SubSeq(q, 1, k)
            left == Leftover(q)
<1>1. k \in 0..Len(q)
  BY CutFacts
<1>2. left = After(q, k)
  BY DEF Leftover, After
<1>. HIDE DEF k, left
<1>3. /\ cohort \in Seq(Rollout) /\ left \in Seq(Rollout) /\ cohort \o left = q
      /\ Len(cohort) = k /\ Len(left) = Len(q) - k /\ Len(q) \in Nat
  <2>1. /\ SubSeq(q, 1, k) \in Seq(Rollout) /\ After(q, k) \in Seq(Rollout)
        /\ SubSeq(q, 1, k) \o After(q, k) = q
        /\ Len(SubSeq(q, 1, k)) = k /\ Len(After(q, k)) = Len(q) - k
    BY <1>1, AfterFacts
  <2>2. Len(q) \in Nat
    OBVIOUS
  <2>. QED BY <1>2, <2>1, <2>2, Zenon
<1>. HIDE DEF cohort
<1>4. Tokens(cohort \o left) = Tokens(cohort) + Tokens(left)
  BY <1>3, TokensConcat
<1>5. Tokens(q) = Tokens(cohort) + Tokens(left)
  BY <1>3, <1>4, Zenon
<1>6. Len(q) = Len(cohort) + Len(left)
  BY <1>1, <1>3
<1>. QED BY <1>3, <1>5, <1>6, Zenon DEF k, left, cohort

-----------------------------------------------------------------------------
(* The invariant of the sink *)

\* What is buffered for a group are rollouts of the group.
GroupsOwnTheirs == \A g \in Gid : \A r \in ToSet(pendingGroups[g]) : r.group = g

SinkInv == SinkTypeOK /\ QueueIsFIFO /\ TokensMatch /\ BacklogNeedsBigGroup /\ GroupsOwnTheirs

\* Some group alone brought more than one batch into adm.
BigGroup(adm) ==
    \E g \in Gid :
        IF BatchSize > 0 THEN Cardinality(Where(adm, OfGroup(g))) > BatchSize
        ELSE GroupTokens(g, adm) > TokenBatchSize

\* BigGroup says of the admitted rollouts what BacklogNeedsBigGroup says.
LEMMA BigGroupIs ==
    ASSUME NEW adm \in Seq(Rollout)
    PROVE  \A g : /\ {i \in DOMAIN adm : adm[i].group = g} = Where(adm, OfGroup(g))
                  /\ SeqSum([i \in DOMAIN adm |-> IF adm[i].group = g THEN PayloadTokens(adm[i]) ELSE 0])
                       = GroupTokens(g, adm)
<1>1. \A i \in DOMAIN adm : adm[i] \in Rollout
  OBVIOUS
<1>. QED BY <1>1 DEF Where, OfGroup, GroupTokens, GroupCosts

\* A cohort is cut off a queue: should the leftover still be a batch, the backlog was one
\* before or the group that came is a big one.
LEMMA LeftoverNeedsBigGroup ==
    ASSUME config \in Configs, NEW g \in Gid, NEW old \in Seq(Rollout), NEW new \in Seq(Rollout),
           NEW adm \in Seq(Rollout), \A r \in ToSet(new) : r.group = g,
           Ready(old, Tokens(old)) => BigGroup(adm),
           Ready(old \o new, Tokens(old \o new)),
           Ready(Leftover(old \o new), Tokens(Leftover(old \o new)))
    PROVE  BigGroup(adm \o new)
<1>. DEFINE q == old \o new
            cohort == SubSeq(q, 1, Cut(q))
            left == Leftover(q)
<1>0. BatchSize \in Nat /\ TokenBatchSize \in Nat /\ (BatchSize = 0) # (TokenBatchSize = 0)
  BY BatchSizes
<1>1. /\ q \in Seq(Rollout) /\ Len(q) = Len(old) + Len(new) /\ Len(old) \in Nat /\ Len(new) \in Nat
      /\ Tokens(q) = Tokens(old) + Tokens(new)
  BY TokensConcat
<1>2. Tokens(old) \in Nat /\ Tokens(new) \in Nat
  BY CostsFacts
<1>. HIDE DEF q
<1>3. /\ cohort \in Seq(Rollout) /\ left \in Seq(Rollout) /\ Len(q) = Len(cohort) + Len(left)
      /\ Len(cohort) = Cut(q) /\ Tokens(q) = Tokens(cohort) + Tokens(left)
  BY <1>1, LeftoverFacts
<1>4. /\ Ready(q, Tokens(q)) /\ Ready(left, Tokens(left))
  BY DEF q
<1>5. /\ BatchSize > 0 /\ Len(q) >= BatchSize => Cut(q) = BatchSize
      /\ BatchSize = 0 /\ Tokens(q) >= TokenBatchSize => Tokens(cohort) >= TokenBatchSize
  BY <1>1, CutFacts
<1>. HIDE DEF cohort, left
<1>6. Tokens(cohort) \in Nat /\ Tokens(left) \in Nat /\ Len(left) \in Nat
  BY <1>3, CostsFacts
<1>7. CASE BatchSize > 0
  <2>1. CASE Len(old) >= BatchSize
    <3>1. PICK h \in Gid : Cardinality(Where(adm, OfGroup(h))) > BatchSize
      BY <1>7, <2>1 DEF Ready, BigGroup
    <3>2. /\ Cardinality(Where(adm \o new, OfGroup(h))) >= Cardinality(Where(adm, OfGroup(h)))
          /\ Cardinality(Where(adm \o new, OfGroup(h))) \in Nat
          /\ Cardinality(Where(adm, OfGroup(h))) \in Nat
      BY GroupRolloutsConcat
    <3>3. Cardinality(Where(adm \o new, OfGroup(h))) > BatchSize
      BY <3>1, <3>2, <1>0
    <3>. QED BY <3>3, <1>7 DEF BigGroup
  <2>2. CASE ~(Len(old) >= BatchSize)
    <3>1. Len(q) >= BatchSize /\ Len(left) >= BatchSize
      BY <1>4, <1>7 DEF Ready
    <3>2. Len(new) > BatchSize
      BY <3>1, <2>2, <1>0, <1>1, <1>3, <1>5, <1>6, <1>7
    <3>3. /\ Cardinality(Where(adm \o new, OfGroup(g))) >= Len(new)
          /\ Cardinality(Where(adm \o new, OfGroup(g))) \in Nat
      BY GroupRolloutsConcat
    <3>4. Cardinality(Where(adm \o new, OfGroup(g))) > BatchSize
      BY <3>2, <3>3, <1>0, <1>1
    <3>. QED BY <3>4, <1>7 DEF BigGroup
  <2>. QED BY <2>1, <2>2
<1>8. CASE ~(BatchSize > 0)
  <2>0. BatchSize = 0
    BY <1>0, <1>8
  <2>1. CASE Tokens(old) >= TokenBatchSize
    <3>1. PICK h \in Gid : GroupTokens(h, adm) > TokenBatchSize
      BY <1>8, <2>1 DEF Ready, BigGroup
    <3>2. /\ GroupTokens(h, adm \o new) = GroupTokens(h, adm) + GroupTokens(h, new)
          /\ GroupTokens(h, adm) \in Nat /\ GroupTokens(h, new) \in Nat
      BY GroupTokensConcat
    <3>3. GroupTokens(h, adm \o new) > TokenBatchSize
      BY <3>1, <3>2, <1>0
    <3>. QED BY <3>3, <1>8 DEF BigGroup
  <2>2. CASE ~(Tokens(old) >= TokenBatchSize)
    <3>1. Tokens(q) >= TokenBatchSize /\ Tokens(left) >= TokenBatchSize
      BY <1>4, <1>8 DEF Ready
    <3>2. Tokens(cohort) >= TokenBatchSize
      BY <3>1, <2>0, <1>5
    <3>3. Tokens(new) > TokenBatchSize
      BY <3>1, <3>2, <2>2, <1>0, <1>1, <1>2, <1>3, <1>6
    <3>4. /\ GroupTokens(g, adm \o new) = GroupTokens(g, adm) + GroupTokens(g, new)
          /\ GroupTokens(g, adm) \in Nat /\ GroupTokens(g, new) = Tokens(new)
      BY GroupTokensConcat
    <3>5. GroupTokens(g, adm \o new) > TokenBatchSize
      BY <3>3, <3>4, <1>0, <1>2
    <3>. QED BY <3>5, <1>8 DEF BigGroup
  <2>. QED BY <2>1, <2>2
<1>. QED BY <1>7, <1>8

\* The empty sink satisfies the invariant.
LEMMA SinkInitInv ==
    ASSUME config \in Configs, SinkInit
    PROVE  SinkInv
<1>1. /\ BatchSize \in Nat /\ TokenBatchSize \in Nat /\ (BatchSize = 0) # (TokenBatchSize = 0)
  BY BatchSizes
<1>2. <<>> \in Seq(Rollout) /\ Len(<<>>) = 0 /\ ToSet(<<>>) = {}
  BY DEF ToSet
<1>3. SinkTypeOK /\ GroupsOwnTheirs
  BY <1>2 DEF SinkInit, SinkTypeOK, GroupsOwnTheirs
<1>4. QueueIsFIFO
  BY SubSeqEmpty DEF SinkInit, QueueIsFIFO
<1>5. TokensMatch
  BY TokensEmpty DEF SinkInit, TokensMatch
<1>6. BacklogNeedsBigGroup
  BY <1>1 DEF SinkInit, BacklogNeedsBigGroup, Ready
<1>. QED BY <1>3, <1>4, <1>5, <1>6 DEF SinkInv

\* Steps that leave the sink's queues alone.
LEMMA SinkKept ==
    ASSUME SinkInv, UNCHANGED <<config, pendingGroups, pendingEpisodes, queueVars, windowVars, batch>>,
           preSeen' \in Nat, preDropped' \in Nat
    PROVE  SinkInv'
<1>1. SinkTypeOK'
  BY DEF SinkInv, SinkTypeOK, queueVars, windowVars
<1>2. QueueIsFIFO' /\ TokensMatch' /\ GroupsOwnTheirs'
  BY DEF SinkInv, QueueIsFIFO, TokensMatch, GroupsOwnTheirs, queueVars, BatchSize
<1>3. BacklogNeedsBigGroup'
  BY DEF SinkInv, BacklogNeedsBigGroup, BroughtRollouts, BroughtTokens, Ready, queueVars, BatchSize,
         TokenBatchSize
<1>. QED BY <1>1, <1>2, <1>3 DEF SinkInv

\* What the queue knows of itself, without primes.
LEMMA QueueFacts ==
    ASSUME config \in Configs, SinkInv
    PROVE  /\ pendingBatch = After(admitted, released)
           /\ pendingTokens = IF BatchSize > 0 THEN 0 ELSE Tokens(pendingBatch)
           /\ Ready(pendingBatch, Tokens(pendingBatch)) => BigGroup(admitted)
           /\ \A q : Ready(q, IF BatchSize > 0 THEN 0 ELSE Tokens(q)) <=> Ready(q, Tokens(q))
<1>1. pendingBatch = After(admitted, released)
  BY DEF SinkInv, QueueIsFIFO, After
<1>2. pendingTokens = IF BatchSize > 0 THEN 0 ELSE Tokens(pendingBatch)
  BY DEF SinkInv, TokensMatch
<1>3. \A q : Ready(q, IF BatchSize > 0 THEN 0 ELSE Tokens(q)) <=> Ready(q, Tokens(q))
  BY DEF Ready
<1>4. admitted \in Seq(Rollout)
  BY DEF SinkInv, SinkTypeOK
<1>5. Ready(pendingBatch, pendingTokens) => BigGroup(admitted)
  BY <1>4, BigGroupIs DEF SinkInv, BacklogNeedsBigGroup, BroughtRollouts, BroughtTokens, BigGroup
<1>. QED BY <1>1, <1>2, <1>3, <1>5

\* A complete group: what is in it, what it adds to the queue, and the queue it makes.
LEMMA GroupFacts ==
    ASSUME config \in Configs, SinkInv, NEW g \in Gid, NEW shape \in Shape
    PROVE  LET group == pendingGroups[g] \o NthEpisode(g, shape)
               new   == Admitted(group)
               q     == pendingBatch \o new
           IN  /\ group \in Seq(Rollout) /\ \A r \in ToSet(group) : r.group = g
               /\ new \in Seq(Rollout) /\ \A r \in ToSet(new) : r.group = g
               /\ q \in Seq(Rollout) /\ q = After(admitted \o new, released)
               /\ admitted \o new \in Seq(Rollout) /\ released \in 0..Len(admitted \o new)
               /\ pendingTokens + (IF BatchSize > 0 THEN 0 ELSE Tokens(new))
                    = IF BatchSize > 0 THEN 0 ELSE Tokens(q)
<1>1. /\ pendingGroups[g] \in Seq(Rollout) /\ pendingEpisodes[g] \in Nat
      /\ pendingBatch \in Seq(Rollout) /\ admitted \in Seq(Rollout) /\ released \in 0..Len(admitted)
      /\ \A r \in ToSet(pendingGroups[g]) : r.group = g
  BY DEF SinkInv, SinkTypeOK, GroupsOwnTheirs
<1>. DEFINE old == pendingGroups[g]
            episode == NthEpisode(g, shape)
            group == old \o episode
            new == Admitted(group)
<1>2. episode \in Seq(Rollout) /\ \A r \in ToSet(episode) : r.group = g
  BY <1>1, NthEpisodeFacts
<1>3. old \in Seq(Rollout) /\ \A r \in ToSet(old) : r.group = g
  BY <1>1
<1>4. group \in Seq(Rollout) /\ \A r \in ToSet(group) : r.group = g
  <2>. HIDE DEF old, episode
  <2>1. old \o episode \in Seq(Rollout)
    BY <1>2, <1>3
  <2>2. ToSet(old \o episode) = ToSet(old) \cup ToSet(episode)
    BY <1>2, <1>3, ToSetConcat
  <2>. QED BY <1>2, <1>3, <2>1, <2>2
<1>. HIDE DEF group
<1>5. new \in Seq(Rollout) /\ \A r \in ToSet(new) : r.group = g
  BY <1>4, SurvivorsFacts
<1>. HIDE DEF new
<1>6. /\ pendingBatch \o new \in Seq(Rollout) /\ admitted \o new \in Seq(Rollout)
      /\ released \in 0..Len(admitted \o new)
  BY <1>1, <1>5
<1>7. After(admitted \o new, released) = After(admitted, released) \o new
  BY <1>1, <1>5, AfterConcat
<1>8. pendingBatch \o new = After(admitted \o new, released)
  BY <1>7, QueueFacts
<1>9. pendingTokens + (IF BatchSize > 0 THEN 0 ELSE Tokens(new))
        = IF BatchSize > 0 THEN 0 ELSE Tokens(pendingBatch \o new)
  BY <1>1, <1>5, QueueFacts, TokensConcat
<1>. QED BY <1>4, <1>5, <1>6, <1>8, <1>9, Zenon DEF new, group, old, episode

\* An episode that does not complete its group.
LEMMA BufferKeeps ==
    ASSUME config \in Configs, config' = config, SinkInv, NEW g \in Gid, NEW e, NEW shape \in Shape,
           Buffer(g, e, NthEpisode(g, shape))
    PROVE  SinkInv'
<1>. DEFINE group == pendingGroups[g] \o NthEpisode(g, shape)
<1>1. group \in Seq(Rollout) /\ \A r \in ToSet(group) : r.group = g
  BY GroupFacts
<1>. HIDE DEF group
<1>2. /\ pendingGroups' = [pendingGroups EXCEPT ![g] = group]
      /\ pendingEpisodes' = [pendingEpisodes EXCEPT ![g] = @ + 1] /\ batch' = NoBatch
      /\ UNCHANGED <<preSeen, preDropped, queueVars, windowVars>>
  BY DEF Buffer, group
<1>3. SinkTypeOK'
  BY <1>1, <1>2 DEF SinkInv, SinkTypeOK, queueVars, windowVars
<1>4. GroupsOwnTheirs'
  BY <1>1, <1>2 DEF SinkInv, SinkTypeOK, GroupsOwnTheirs
<1>5. QueueIsFIFO' /\ TokensMatch' /\ BacklogNeedsBigGroup'
  BY <1>2 DEF SinkInv, QueueIsFIFO, TokensMatch, BacklogNeedsBigGroup, BroughtRollouts, BroughtTokens,
              Ready, queueVars, BatchSize, TokenBatchSize
<1>. QED BY <1>3, <1>4, <1>5 DEF SinkInv

\* A batch is not the absence of one.
LEMMA BatchIsNotNone ==
    ASSUME NEW x, NEW y, NEW z
    PROVE  [rollouts |-> x, cohort |-> y, samples |-> z] # NoBatch
<1>1. "rollouts" \in DOMAIN [rollouts |-> x, cohort |-> y, samples |-> z]
  OBVIOUS
<1>2. DOMAIN NoBatch = {}
  BY DEF NoBatch
<1>. QED BY <1>1, <1>2

\* The samples of a cohort are rollouts; it has none exactly when no rollout has any.
LEMMA SamplesFacts ==
    ASSUME NEW cohort \in Seq(Rollout)
    PROVE  LET samples == SubsequenceAt(cohort, {i \in DOMAIN cohort : HasSamples(cohort[i])})
           IN  /\ samples \in Seq(Rollout)
               /\ samples = <<>> <=> ~ \E r \in ToSet(cohort) : HasSamples(r)
<1>. DEFINE having == {i \in DOMAIN cohort : HasSamples(cohort[i])}
<1>1. having \in SUBSET (1..Len(cohort))
  OBVIOUS
<1>2. having = {} <=> ~ \E r \in ToSet(cohort) : HasSamples(r)
  BY DEF ToSet
<1>. HIDE DEF having
<1>3. SubsequenceAt(cohort, having) \in Seq(Rollout) /\ (SubsequenceAt(cohort, having) = <<>> <=> having = {})
  BY <1>1, SubsequenceFacts
<1>. QED BY <1>2, <1>3, Zenon DEF having

\* The episode that completes its group.
LEMMA FinalizeKeeps ==
    ASSUME config \in Configs, config' = config, SinkInv, NEW g \in Gid, NEW e, NEW shape \in Shape,
           Finalize(g, e, NthEpisode(g, shape))
    PROVE  SinkInv'
<1>. DEFINE group == pendingGroups[g] \o NthEpisode(g, shape)
            new == Admitted(group)
            q == pendingBatch \o new
            tokens == pendingTokens + IF BatchSize > 0 THEN 0 ELSE Tokens(new)
            window == pendingRollouts \o group
            cohort == SubSeq(q, 1, Cut(q))
            left == Leftover(q)
<1>0. BatchSize \in Nat /\ TokenBatchSize \in Nat /\ (BatchSize = 0) # (TokenBatchSize = 0)
  BY BatchSizes
<1>1. /\ group \in Seq(Rollout) /\ new \in Seq(Rollout) /\ \A r \in ToSet(new) : r.group = g
      /\ q \in Seq(Rollout) /\ q = After(admitted \o new, released)
      /\ admitted \o new \in Seq(Rollout) /\ released \in 0..Len(admitted \o new)
      /\ tokens = IF BatchSize > 0 THEN 0 ELSE Tokens(q)
  BY GroupFacts
<1>2. /\ pendingGroups' = [pendingGroups EXCEPT ![g] = <<>>]
      /\ pendingEpisodes' = [pendingEpisodes EXCEPT ![g] = 0]
      /\ preSeen' = preSeen + Len(Survivors(group))
      /\ preDropped' = preDropped + Len(Survivors(group)) - Len(new)
      /\ admitted' = admitted \o new /\ finalized' = finalized \o group
      /\ IF Ready(q, tokens) THEN ShipCohort(q, tokens, window) ELSE Keep(q, tokens, window)
  BY DEF Finalize, WindowWith
<1>3. /\ Len(Survivors(group)) \in Nat /\ Len(new) \in Nat /\ Len(new) <= Len(Survivors(group))
  BY <1>1, SurvivorsFacts
<1>4. /\ cohort \in Seq(Rollout) /\ left \in Seq(Rollout) /\ q = cohort \o left
      /\ Len(q) = Len(cohort) + Len(left) /\ Tokens(q) = Tokens(cohort) + Tokens(left)
  BY <1>1, LeftoverFacts
<1>5. Ready(q, tokens) <=> Ready(q, Tokens(q))
  BY <1>1, QueueFacts, Zenon
<1>6. Ready(pendingBatch, Tokens(pendingBatch)) => BigGroup(admitted)
  BY QueueFacts
<1>7. /\ pendingBatch \in Seq(Rollout) /\ admitted \in Seq(Rollout) /\ finalized \in Seq(Rollout)
      /\ pendingRollouts \in Seq(Rollout) /\ preSeen \in Nat /\ preDropped \in Nat
      /\ pendingGroups \in [Gid -> Seq(Rollout)] /\ pendingEpisodes \in [Gid -> Nat]
  BY DEF SinkInv, SinkTypeOK
<1>8. /\ window \in Seq(Rollout) /\ finalized' \in Seq(Rollout) /\ admitted' \in Seq(Rollout)
      /\ preSeen' \in Nat /\ preDropped' \in Nat
  <2>. HIDE DEF group, new
  <2>1. finalized' \in Seq(Rollout) /\ window \in Seq(Rollout)
    BY <1>1, <1>2, <1>7
  <2>2. admitted' \in Seq(Rollout)
    BY <1>1, <1>2
  <2>3. preSeen' \in Nat /\ preDropped' \in Nat
    BY <1>2, <1>3, <1>7
  <2>. QED BY <2>1, <2>2, <2>3
<1>9. Ready(q, tokens) /\ Ready(left, Tokens(left)) => BigGroup(admitted \o new)
  <2>. HIDE DEF group, new, tokens
  <2>. QED BY <1>1, <1>5, <1>6, <1>7, LeftoverNeedsBigGroup
<1>. HIDE DEF group, new, q, tokens, window, left
<1>10. Tokens(cohort) \in Nat /\ Tokens(left) \in Nat /\ Tokens(q) \in Nat
  BY <1>1, <1>4, CostsFacts
<1>11. pendingGroups' \in [Gid -> Seq(Rollout)] /\ pendingEpisodes' \in [Gid -> Nat] /\ GroupsOwnTheirs'
  <2>1. <<>> \in Seq(Rollout) /\ ToSet(<<>>) = {}
    BY DEF ToSet
  <2>. QED BY <2>1, <1>2, <1>7 DEF SinkInv, GroupsOwnTheirs
<1>12. BigGroup(admitted \o new) <=>
         \E h \in Gid : IF BatchSize > 0 THEN BroughtRollouts(h)' > BatchSize
                        ELSE BroughtTokens(h)' > TokenBatchSize
  <2>. DEFINE adm == admitted \o new
  <2>1. adm \in Seq(Rollout) /\ admitted' = adm
    BY <1>1, <1>2
  <2>. HIDE DEF adm
  <2>2. \A h : /\ BroughtRollouts(h)' = Cardinality(Where(adm, OfGroup(h)))
               /\ BroughtTokens(h)' = GroupTokens(h, adm)
    BY <2>1, BigGroupIs DEF BroughtRollouts, BroughtTokens
  <2>3. BigGroup(adm) <=>
          \E h \in Gid : IF BatchSize > 0 THEN BroughtRollouts(h)' > BatchSize
                         ELSE BroughtTokens(h)' > TokenBatchSize
    BY <2>2 DEF BigGroup
  <2>. QED BY <2>3 DEF adm
<1>13. BatchSize' = BatchSize /\ TokenBatchSize' = TokenBatchSize
  BY DEF BatchSize, TokenBatchSize
<1>14. CASE Ready(q, tokens)
  <2>. DEFINE samples == SubsequenceAt(cohort, {i \in DOMAIN cohort : HasSamples(cohort[i])})
  <2>1. /\ batch' = [rollouts |-> window, cohort |-> cohort, samples |-> samples]
        /\ pendingBatch' = left /\ released' = released + Len(cohort)
        /\ pendingTokens' = IF BatchSize > 0 THEN tokens ELSE tokens - Tokens(cohort)
        /\ pendingRollouts' = WindowAfter(window, cohort)
    BY <1>2, <1>14 DEF ShipCohort, Running, left
  <2>. HIDE DEF cohort
  <2>2. samples \in Seq(Rollout)
    BY <1>4, SamplesFacts
  <2>. HIDE DEF samples
  <2>3. pendingRollouts' \in Seq(Rollout)
    BY <1>8, <2>1 DEF WindowAfter
  <2>4. released + Len(cohort) \in 0..Len(admitted \o new) /\ After(admitted \o new, released + Len(cohort)) = left
    <3>. DEFINE adm == admitted \o new
    <3>1. adm \in Seq(Rollout) /\ released \in 0..Len(adm) /\ Joins(After(adm, released), cohort, left)
      BY <1>1, <1>4 DEF Joins
    <3>. HIDE DEF adm
    <3>2. cohort \in Seq(Rollout) /\ left \in Seq(Rollout)
      BY <1>4
    <3>3. released + Len(cohort) \in 0..Len(adm) /\ After(adm, released + Len(cohort)) = left
      BY <3>1, <3>2, AfterAfter
    <3>. QED BY <3>3 DEF adm
  <2>5. pendingTokens' = IF BatchSize > 0 THEN 0 ELSE Tokens(left)
    <3>1. CASE BatchSize > 0
      BY <3>1, <2>1, <1>1
    <3>2. CASE ~(BatchSize > 0)
      <4>1. tokens = Tokens(q) /\ pendingTokens' = tokens - Tokens(cohort)
        BY <3>2, <2>1, <1>1
      <4>2. Tokens(q) = Tokens(cohort) + Tokens(left)
        BY <1>4
      <4>. QED BY <3>2, <4>1, <4>2, <1>10
    <3>. QED BY <3>1, <3>2
  <2>6. SinkTypeOK'
    <3>1. pendingTokens' \in Nat
      BY <2>5, <1>10
    <3>2. batch' \in [rollouts : Seq(Rollout), cohort : Seq(Rollout), samples : Seq(Rollout)]
      BY <2>1, <2>2, <1>4, <1>8
    <3>3. pendingBatch' \in Seq(Rollout) /\ released' \in 0..Len(admitted')
      BY <2>1, <2>4, <1>2, <1>4
    <3>. QED BY <3>1, <3>2, <3>3, <2>3, <1>8, <1>11 DEF SinkTypeOK
  <2>7. QueueIsFIFO'
    <3>1. After(admitted', released') = pendingBatch'
      BY <2>1, <2>4, <1>2, Zenon
    <3>. QED BY <3>1 DEF QueueIsFIFO, After
  <2>8. TokensMatch'
    BY <2>1, <2>5, <1>13 DEF TokensMatch
  <2>9. BacklogNeedsBigGroup'
    <3>1. Ready(pendingBatch, pendingTokens)' => Ready(left, Tokens(left))
      BY <2>1, <2>5, <1>13 DEF Ready
    <3>2. Ready(pendingBatch, pendingTokens)' =>
            \E h \in Gid : IF BatchSize > 0 THEN BroughtRollouts(h)' > BatchSize
                           ELSE BroughtTokens(h)' > TokenBatchSize
      BY <3>1, <1>9, <1>12, <1>14
    <3>. QED BY <3>2, <1>13 DEF BacklogNeedsBigGroup
  <2>. QED BY <2>6, <2>7, <2>8, <2>9, <1>11 DEF SinkInv
<1>15. CASE ~Ready(q, tokens)
  <2>1. /\ batch' = NoBatch /\ pendingBatch' = q /\ pendingTokens' = tokens
        /\ pendingRollouts' = window /\ released' = released
    BY <1>2, <1>15 DEF Keep
  <2>2. SinkTypeOK'
    <3>1. pendingTokens' \in Nat
      BY <2>1, <1>1, <1>10
    <3>2. pendingBatch' \in Seq(Rollout) /\ released' \in 0..Len(admitted')
      BY <2>1, <1>1, <1>2
    <3>. QED BY <3>1, <3>2, <2>1, <1>8, <1>11 DEF SinkTypeOK
  <2>3. QueueIsFIFO'
    BY <2>1, <1>1, <1>2 DEF QueueIsFIFO, After
  <2>4. TokensMatch'
    BY <2>1, <1>1, <1>13 DEF TokensMatch
  <2>5. BacklogNeedsBigGroup'
    BY <2>1, <1>13, <1>15 DEF BacklogNeedsBigGroup, Ready
  <2>. QED BY <2>2, <2>3, <2>4, <2>5, <1>11 DEF SinkInv
<1>. QED BY <1>14, <1>15

\* A call of add keeps the invariant.
LEMMA AddKeeps ==
    ASSUME config \in Configs, config' = config, SinkInv, NEW g \in Gid, NEW e, NEW shape \in Shape,
           Add(g, e, shape)
    PROVE  SinkInv'
BY BufferKeeps, FinalizeKeeps DEF Add

\* What a call of add does to the window and to the pre-filter statistics.
LEMMA AddWindow ==
    ASSUME config \in Configs, SinkInv, NEW g \in Gid, NEW e, NEW shape \in Shape, Add(g, e, shape)
    PROVE  \/ batch' = NoBatch /\ UNCHANGED <<preSeen, preDropped, pendingRollouts, finalized>>
           \/ \E group \in Seq(Rollout) :
                /\ finalized' = finalized \o group
                /\ preSeen' = preSeen + Len(Survivors(group))
                /\ preDropped' = preDropped + Len(Survivors(group)) - Len(Admitted(group))
                /\ \/ batch' = NoBatch /\ pendingRollouts' = pendingRollouts \o group
                   \/ /\ batch' # NoBatch /\ batch'.rollouts = pendingRollouts \o group
                      /\ pendingRollouts' = IF batch'.samples = <<>> THEN pendingRollouts \o group ELSE <<>>
<1>. DEFINE group == pendingGroups[g] \o NthEpisode(g, shape)
            new == Admitted(group)
            q == pendingBatch \o new
            tokens == pendingTokens + IF BatchSize > 0 THEN 0 ELSE Tokens(new)
            window == pendingRollouts \o group
            cohort == SubSeq(q, 1, Cut(q))
<1>1. group \in Seq(Rollout) /\ q \in Seq(Rollout)
  BY GroupFacts
<1>2. CASE Buffer(g, e, NthEpisode(g, shape))
  BY <1>2 DEF Buffer, windowVars
<1>3. CASE Finalize(g, e, NthEpisode(g, shape))
  <2>1. /\ preSeen' = preSeen + Len(Survivors(group))
        /\ preDropped' = preDropped + Len(Survivors(group)) - Len(new)
        /\ finalized' = finalized \o group
        /\ IF Ready(q, tokens) THEN ShipCohort(q, tokens, window) ELSE Keep(q, tokens, window)
    BY <1>3 DEF Finalize, WindowWith
  <2>2. cohort \in Seq(Rollout)
    <3>. HIDE DEF q
    <3>. QED BY <1>1, LeftoverFacts
  <2>3. CASE Ready(q, tokens)
    <3>. DEFINE samples == SubsequenceAt(cohort, {i \in DOMAIN cohort : HasSamples(cohort[i])})
    <3>1. /\ batch' = [rollouts |-> window, cohort |-> cohort, samples |-> samples]
          /\ pendingRollouts' = WindowAfter(window, cohort)
      BY <2>1, <2>3 DEF ShipCohort
    <3>. HIDE DEF cohort, group
    <3>2. samples = <<>> <=> ~ \E r \in ToSet(cohort) : HasSamples(r)
      BY <2>2, SamplesFacts
    <3>. HIDE DEF samples
    <3>3. batch' # NoBatch /\ batch'.rollouts = window /\ batch'.samples = samples
      BY <3>1, BatchIsNotNone
    <3>4. pendingRollouts' = IF samples = <<>> THEN window ELSE <<>>
      BY <3>1, <3>2 DEF WindowAfter
    <3>. QED BY <1>1, <2>1, <3>3, <3>4
  <2>4. CASE ~Ready(q, tokens)
    <3>1. batch' = NoBatch /\ pendingRollouts' = window
      BY <2>1, <2>4 DEF Keep
    <3>. HIDE DEF group
    <3>. QED BY <1>1, <2>1, <3>1
  <2>. QED BY <2>3, <2>4
<1>. QED BY <1>2, <1>3 DEF Add
=============================================================================
