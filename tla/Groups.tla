-------------------------------- MODULE Groups --------------------------------
(***************************************************************************)
(* What the sinks, the eval source and the main loop know of groups, and   *)
(* the configuration they are built with.  A run has one configuration:    *)
(* config is chosen among Configs at startup and never changes.            *)
(***************************************************************************)
EXTENDS Integers, Sequences, SequencesExt, FiniteSets, SeqUtils

CONSTANTS
    Gid,        \* group ids (uuid4)
    TrainEnv,   \* train environments
    EvalEnvs,   \* eval environments, in configured order
    GroupSize,  \* env.config.group_size, per environment
    Configs     \* the configurations to run with

VARIABLE config

BatchSize == config.batchSize            \* batch_size; 0 when token_batch_size is set
TokenBatchSize == config.tokenBatchSize  \* token_batch_size; 0 when batch_size is set

EvalEnv == ToSet(EvalEnvs)

\* Names are unique within each kind (validate_unique_env_names); a group also knows its kind,
\* so a train and an eval environment are different even under one name.
ASSUME GroupAssumption ==
    /\ EvalEnvs \in Seq(EvalEnv) /\ IsInjective(EvalEnvs)
    /\ TrainEnv \cap EvalEnv = {}
    /\ GroupSize \in [TrainEnv \cup EvalEnv -> Nat \ {0}]

\* Exactly one of the two batch sizes is set (the assertion in TrainSink.__init__); a run
\* starts at step 1 unless it is resumed, then at the step after the checkpoint's.
ASSUME ConfigAssumption ==
    \A c \in Configs :
        /\ c.batchSize \in Nat /\ c.tokenBatchSize \in Nat
        /\ (c.batchSize = 0) # (c.tokenBatchSize = 0)
        /\ c.startStep \in Nat \ {0} /\ (c.startStep > 1 => c.resumed)
        /\ c.maxSteps \in Nat \ {0}
        /\ {c.resumed, c.retrigger, c.skipFirstStep} \subseteq BOOLEAN
=============================================================================
