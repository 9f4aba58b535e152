------------------------------ MODULE EvalEpoch ------------------------------
(***************************************************************************)
(* The two ends of an eval epoch in the orchestrator:                      *)
(*                                                                         *)
(*   EvalSource (orchestrator/eval_source.py) queues the examples of every *)
(*   environment that is due at a step;                                    *)
(*   EvalSink (orchestrator/eval_sink.py) collects the episodes into       *)
(*   groups, the groups into one bucket per environment and step, and      *)
(*   returns the bucket when it holds every episode of the epoch.          *)
(*                                                                         *)
(* In between an example travels through the dispatcher as a group.  A     *)
(* rollout is abstracted to the example and the episode it comes from.     *)
(***************************************************************************)
EXTENDS Groups, Functions

CONSTANTS
    Examples,       \* len(env.examples)
    Interval,       \* env.config.interval
    Traces          \* how many traces an eval episode may have

ASSUME EvalAssumption ==
    /\ \A e \in EvalEnv : Examples[e] \in Nat \ {0}
    /\ \A e \in EvalEnv : Interval[e] \in Nat \ {0}
    /\ Traces \subseteq Nat \ {0}

VARIABLES
    firstTrigger,    \* first_trigger
    evalQueue,       \* queue: rows [env, example, step]
    evalGroups,      \* EvalSink.pending_groups: group -> rollouts
    evalEpisodes,    \* EvalSink.pending_group_episodes
    buckets,         \* pending_batches: <<env, step>> -> rollouts
    bucketEpisodes,  \* pending_batch_episodes
    evalBatch        \* what EvalSink.add has returned: an EvalBatch, or <<>> for None

sourceVars == <<firstTrigger, evalQueue>>
evalSinkVars == <<evalGroups, evalEpisodes, buckets, bucketEpisodes, evalBatch>>
evalVars == <<sourceVars, evalSinkVars>>

NoEvalBatch == <<>>

EvalInit ==
    /\ firstTrigger = ~config.resumed
    /\ evalQueue = <<>>
    /\ evalGroups = [g \in Gid |-> <<>>] /\ evalEpisodes = [g \in Gid |-> 0]
    /\ buckets = <<>> /\ bucketEpisodes = <<>>
    /\ evalBatch = NoEvalBatch

-----------------------------------------------------------------------------
(* EvalSource *)

\* The environments trigger(step) fires.
Fired(step) ==
    IF firstTrigger /\ config.skipFirstStep THEN <<>>
    ELSE SubsequenceAt(EvalEnvs,
            {i \in DOMAIN EvalEnvs : firstTrigger \/ step % Interval[EvalEnvs[i]] = 0})

\* One round of zip_longest: the n-th example of every fired environment that has one.
Round(fired, step, n) ==
    LET having == SubsequenceAt(fired, {i \in DOMAIN fired : Examples[fired[i]] >= n})
    IN  [i \in 1..Len(having) |-> [env |-> having[i], example |-> n, step |-> step]]

RoundsOfShortest(fired, step) ==
    LET sizes == {Examples[e] : e \in ToSet(fired)}
    IN  IF sizes = {} THEN <<>>
        ELSE FlattenSeq([n \in 1..Min(sizes) |-> Round(fired, step, n)])

\* The rows of an epoch, round-robin over the fired environments.
RoundRobin(fired, step) ==
    LET longest == Max({0} \cup {Examples[e] : e \in ToSet(fired)})
    IN  FlattenSeq([n \in 1..longest |-> Round(fired, step, n)])

TriggerUntilFired(step) ==
    /\ firstTrigger' = (firstTrigger /\ Fired(step) = <<>>)
    /\ evalQueue' = evalQueue \o RoundRobin(Fired(step), step)

\* trigger(step): the first call uses first_trigger up, whatever it fires.
Trigger(step) ==
    /\ firstTrigger' = FALSE
    /\ evalQueue' = evalQueue \o RoundRobin(Fired(step), step)

NextExample == evalQueue # <<>> /\ evalQueue' = Tail(evalQueue) /\ UNCHANGED firstTrigger

-----------------------------------------------------------------------------
(* EvalSink *)

EpochSizeOneExample(e) == GroupSize[e]

\* Episodes of one epoch of an environment (batch_size_for).
EpochSize(e) == Examples[e] * GroupSize[e]

\* A dict entry that may not be there yet (defaultdict), and a dict with an entry set.
ValueAt(f, k, default) == IF k \in DOMAIN f THEN f[k] ELSE default
WithEntry(f, k, value) == [x \in DOMAIN f \cup {k} |-> IF x = k THEN value ELSE f[x]]

NthEvalEpisode(g, row, traces) ==
    [i \in 1..traces |-> [example |-> row.example, episode |-> evalEpisodes[g] + 1, part |-> i]]

\* add(episode): buffer it; the group_size-th of a group moves the group to its bucket, and
\* a bucket that holds the epoch is popped and returned.
EvalAdd(g, row, traces) ==
    LET key      == <<row.env, row.step>>
        group    == evalGroups[g] \o NthEvalEpisode(g, row, traces)
        complete == evalEpisodes[g] + 1 >= GroupSize[row.env]
        bucket   == ValueAt(buckets, key, <<>>) \o IF complete THEN group ELSE <<>>
        count    == ValueAt(bucketEpisodes, key, 0)
                      + IF complete THEN evalEpisodes[g] + 1 ELSE 0
        whole    == count >= EpochSize(row.env)
    IN  /\ evalGroups' = [evalGroups EXCEPT ![g] = IF complete THEN <<>> ELSE group]
        /\ evalEpisodes' = [evalEpisodes EXCEPT ![g] = IF complete THEN 0 ELSE @ + 1]
        /\ buckets' = IF whole THEN Restrict(buckets, DOMAIN buckets \ {key})
                      ELSE IF complete THEN WithEntry(buckets, key, bucket) ELSE buckets
        /\ bucketEpisodes' = IF whole THEN Restrict(bucketEpisodes, DOMAIN bucketEpisodes \ {key})
                             ELSE WithEntry(bucketEpisodes, key, count)
        /\ evalBatch' = IF whole THEN [env |-> row.env, step |-> row.step, rollouts |-> bucket]
                        ELSE NoEvalBatch

-----------------------------------------------------------------------------
(* Properties *)

\* A returned epoch holds every example group_size times and nothing twice, however the
\* epochs of an environment overlap and however many traces an episode has.
EpochWhole ==
    evalBatch # NoEvalBatch =>
        LET e == evalBatch.env
        IN  /\ {<<r.example, r.episode>> : r \in ToSet(evalBatch.rollouts)}
                 = (1..Examples[e]) \X (1..GroupSize[e])
            /\ IsInjective(evalBatch.rollouts)
=============================================================================
