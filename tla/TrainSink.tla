------------------------------ MODULE TrainSink ------------------------------
(***************************************************************************)
(* The train sink of the orchestrator                                      *)
(* (src/prime_rl/orchestrator/train_sink.py): episodes are buffered until  *)
(* their group is complete, the survivors of a complete group queue up in  *)
(* pending_batch, and when the queue reaches the batch size (counted in    *)
(* rollouts or in tokens) a cohort is cut off its head.  Beside the queue  *)
(* the sink keeps the observation window: the rollouts of every group      *)
(* finalized since the last batch that had samples.                        *)
(*                                                                         *)
(* A rollout is abstracted to what becomes of it (its fate), the tokens of *)
(* the samples built from it and the tokens of its whole trace.  Only the  *)
(* main loop calls the sink, one call at a time, and no other task touches *)
(* its state: add is one step, although it awaits the algorithms.          *)
(***************************************************************************)
EXTENDS Groups

CONSTANT
    Shape   \* what an episode may consist of: sequences of rollouts

Fate == {"errored", "untrainable", "pre_filtered", "post_filtered", "kept"}

ASSUME ShapeAssumption ==
    Shape \subseteq Seq([fate : Fate, payload : Nat, total : Nat \ {0}]) \ {<<>>}

Rollout ==
    [group : Gid, episode : Nat, part : Nat, fate : Fate, payload : Nat, total : Nat \ {0}]

VARIABLES
    pendingGroups,    \* pending_groups: group -> rollouts that have arrived
    pendingEpisodes,  \* pending_group_episodes
    pendingRollouts,  \* pending_rollouts, the observation window
    pendingBatch,     \* pending_batch
    pendingTokens,    \* pending_tokens
    preSeen,          \* pre_filter_seen
    preDropped,       \* pre_filter_dropped
    batch,            \* what add has returned: a TrainBatch, or <<>> for None
    \* history
    admitted,         \* every rollout ever appended to pending_batch
    finalized,        \* every rollout ever put into the window
    released          \* number of rollouts that have left pending_batch in a cohort

queueVars  == <<pendingBatch, pendingTokens, admitted, released>>
windowVars == <<pendingRollouts, finalized>>
sinkVars   == <<pendingGroups, pendingEpisodes, preSeen, preDropped, batch,
                queueVars, windowVars>>

NoBatch == <<>>

SinkInit ==
    /\ pendingGroups = [g \in Gid |-> <<>>] /\ pendingEpisodes = [g \in Gid |-> 0]
    /\ pendingRollouts = <<>> /\ pendingBatch = <<>> /\ pendingTokens = 0
    /\ preSeen = 0 /\ preDropped = 0
    /\ batch = NoBatch
    /\ admitted = <<>> /\ finalized = <<>> /\ released = 0

-----------------------------------------------------------------------------
(* Rollouts and queues *)

\* The token cost of a rollout's samples; a rollout without samples counts its trace.
PayloadTokens(r) == IF r.payload # 0 THEN r.payload ELSE r.total

Tokens(q) == SeqSum([i \in DOMAIN q |-> PayloadTokens(q[i])])

\* Neither errored nor untrainable: what the algorithm scores and the pre-filters see.
IsSurvivor(r) == r.fate \notin {"errored", "untrainable"}

IsAdmitted(r) == IsSurvivor(r) /\ r.fate # "pre_filtered"

\* A rollout of the cohort contributes samples to the batch.
HasSamples(r) == r.fate = "kept" /\ r.payload # 0

NthEpisode(g, shape) ==
    [i \in 1..Len(shape) |->
        [group |-> g, episode |-> pendingEpisodes[g] + 1, part |-> i, fate |-> shape[i].fate,
         payload |-> shape[i].payload, total |-> shape[i].total]]

\* Where process_batch cuts: at batch_size rollouts, or after the rollout with which the
\* running token count reaches token_batch_size.
Cut(q) ==
    IF BatchSize > 0
    THEN IF Len(q) < BatchSize THEN Len(q) ELSE BatchSize
    ELSE LET reaching == {i \in 1..Len(q) : Tokens(SubSeq(q, 1, i)) >= TokenBatchSize}
         IN  IF reaching = {} THEN Len(q) ELSE Min(reaching)

Ready(q, tokens) == IF BatchSize > 0 THEN Len(q) >= BatchSize ELSE tokens >= TokenBatchSize

-----------------------------------------------------------------------------
(* add *)

\* An episode of a group that is not complete yet.
Buffer(g, e, rollouts) ==
    /\ pendingEpisodes[g] + 1 < GroupSize[e]
    /\ pendingGroups' = [pendingGroups EXCEPT ![g] = @ \o rollouts]
    /\ pendingEpisodes' = [pendingEpisodes EXCEPT ![g] = @ + 1]
    /\ batch' = NoBatch
    /\ UNCHANGED <<preSeen, preDropped, queueVars, windowVars>>

Survivors(group) == SubsequenceAt(group, {i \in DOMAIN group : IsSurvivor(group[i])})
Admitted(group) == SubsequenceAt(group, {i \in DOMAIN group : IsAdmitted(group[i])})

\* process_group: the whole group enters the window, whatever becomes of its rollouts.
WindowWith(group) == pendingRollouts \o group

LeftoverLost(q) == <<>>

\* Overflow stays for the next batch.
Leftover(q) == SubSeq(q, Cut(q) + 1, Len(q))

RunningConfigured(cohort) == TokenBatchSize

RunningForgotten(cohort) == 0

\* The token count that leaves pending_tokens with a cohort.
Running(cohort) == Tokens(cohort)

AlwaysNewWindow(window, cohort) == <<>>

\* The window goes with a batch that has samples.
WindowAfter(window, cohort) == IF \E r \in ToSet(cohort) : HasSamples(r) THEN <<>> ELSE window

\* process_batch: cut a cohort off the queue.
ShipCohort(q, tokens, window) ==
    LET cohort == SubSeq(q, 1, Cut(q))
    IN  /\ batch' = [rollouts |-> window, cohort |-> cohort,
                     samples |-> SubsequenceAt(cohort, {i \in DOMAIN cohort : HasSamples(cohort[i])})]
        /\ pendingBatch' = Leftover(q)
        /\ pendingTokens' = IF BatchSize > 0 THEN tokens ELSE tokens - Running(cohort)
        /\ released' = released + Len(cohort)
        /\ pendingRollouts' = WindowAfter(window, cohort)

Keep(q, tokens, window) ==
    /\ batch' = NoBatch
    /\ pendingBatch' = q /\ pendingTokens' = tokens /\ pendingRollouts' = window
    /\ UNCHANGED released

\* The group_size-th episode: finalize the group, and ship if the queue is long enough.
Finalize(g, e, rollouts) ==
    LET group    == pendingGroups[g] \o rollouts
        survived == Survivors(group)
        new      == Admitted(group)
        q        == pendingBatch \o new
        tokens   == pendingTokens + IF BatchSize > 0 THEN 0 ELSE Tokens(new)
        window   == WindowWith(group)
    IN  /\ pendingEpisodes[g] + 1 >= GroupSize[e]
        /\ pendingGroups' = [pendingGroups EXCEPT ![g] = <<>>]
        /\ pendingEpisodes' = [pendingEpisodes EXCEPT ![g] = 0]
        /\ preSeen' = preSeen + Len(survived)
        /\ preDropped' = preDropped + Len(survived) - Len(new)
        /\ admitted' = admitted \o new
        /\ finalized' = finalized \o group
        /\ IF Ready(q, tokens) THEN ShipCohort(q, tokens, window) ELSE Keep(q, tokens, window)

\* add(episode) of an environment's group.
Add(g, e, shape) ==
    LET rollouts == NthEpisode(g, shape)
    IN  Buffer(g, e, rollouts) \/ Finalize(g, e, rollouts)

ResetSeenOnly == preSeen' = 0 /\ UNCHANGED preDropped

\* reset_pre_filter_stats, after a ship.
ResetPreFilterStats == preSeen' = 0 /\ preDropped' = 0

-----------------------------------------------------------------------------
(* Properties *)

SinkTypeOK ==
    /\ pendingGroups \in [Gid -> Seq(Rollout)] /\ pendingEpisodes \in [Gid -> Nat]
    /\ pendingRollouts \in Seq(Rollout) /\ pendingBatch \in Seq(Rollout)
    /\ pendingTokens \in Nat /\ preSeen \in Nat /\ preDropped \in Nat
    /\ batch = NoBatch \/ batch \in [rollouts : Seq(Rollout), cohort : Seq(Rollout),
                                    samples : Seq(Rollout)]
    /\ admitted \in Seq(Rollout) /\ finalized \in Seq(Rollout)
    /\ released \in 0..Len(admitted)

\* Nothing that survived its group is lost, repeated or overtaken: what has left the queue
\* in cohorts, followed by the queue, is what process_group appended (process_batch: "Overflow
\* stays for the next batch").
QueueIsFIFO == pendingBatch = SubSeq(admitted, released + 1, Len(admitted))

\* pending_tokens, kept beside the queue, is the token count of the queue.
TokensMatch == pendingTokens = IF BatchSize > 0 THEN 0 ELSE Tokens(pendingBatch)

\* What a group brought into the queue, in rollouts and in tokens.
BroughtRollouts(g) == Cardinality({i \in DOMAIN admitted : admitted[i].group = g})
BroughtTokens(g) ==
    SeqSum([i \in DOMAIN admitted |->
            IF admitted[i].group = g THEN PayloadTokens(admitted[i]) ELSE 0])

\* add ships at most one batch per finalized group, so that a batch may be left over in the
\* queue; but only after a group that alone brought more than one batch.
BacklogNeedsBigGroup ==
    Ready(pendingBatch, pendingTokens) =>
        \E g \in Gid :
            IF BatchSize > 0 THEN BroughtRollouts(g) > BatchSize ELSE BroughtTokens(g) > TokenBatchSize
=============================================================================
