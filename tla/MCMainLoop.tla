----------------------------- MODULE MCMainLoop -----------------------------
(* Small instances of MainLoop for TLC. *)
EXTENDS MainLoop, TLC

CONSTANTS tr, ts, ea, eb

MCEvalEnvs    == <<ea, eb>>
MCGroupSize   == (tr :> 1) @@ (ts :> 2) @@ (ea :> 1) @@ (eb :> 2)
MCTrainGroups == (tr :> 2) @@ (ts :> 1)
MCExamples    == (ea :> 2) @@ (eb :> 1)
MCInterval    == (ea :> 3) @@ (eb :> 2)

\* A fresh run that counts tokens; one that counts rollouts and skips the first eval; and
\* one resumed after step 2, with both evals of its first and last steps due.
MCConfigs ==
    { [batchSize |-> 0, tokenBatchSize |-> 3, startStep |-> 1, maxSteps |-> 1,
       resumed |-> FALSE, retrigger |-> FALSE, skipFirstStep |-> FALSE],
      [batchSize |-> 2, tokenBatchSize |-> 0, startStep |-> 1, maxSteps |-> 1,
       resumed |-> FALSE, retrigger |-> FALSE, skipFirstStep |-> TRUE],
      [batchSize |-> 0, tokenBatchSize |-> 3, startStep |-> 3, maxSteps |-> 3,
       resumed |-> TRUE, retrigger |-> TRUE, skipFirstStep |-> FALSE] }

Part(fate, payload, total) == [fate |-> fate, payload |-> payload, total |-> total]

\* An episode with one clean rollout, and one whose two survivors give no samples.
MCShape ==
    { <<Part("kept", 2, 2), Part("errored", 0, 1)>>,
      <<Part("pre_filtered", 1, 1), Part("untrainable", 0, 1),
        Part("post_filtered", 1, 1), Part("kept", 0, 2)>> }
=============================================================================
