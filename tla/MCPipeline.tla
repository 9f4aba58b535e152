----------------------------- MODULE MCPipeline -----------------------------
(* Small instances of Pipeline for TLC. *)
EXTENDS Pipeline, TLC

CONSTANTS g1, g2, g3, g4, g5, g6, live, frozen, ev

MCGroupSize  == [e \in Env |-> 1]
MCEvalEpochs == {<<ev>>}
Symmetry == Permutations(Gid)

\* Group ids are interchangeable (uuid4), but TLC's symmetry reduction is not sound for liveness:
\* here a fresh group takes the first id that is left.  Up to the names of the ids these
\* are the behaviours of PipelineFairSpec.
IdOrder   == <<g1, g2, g3, g4, g5, g6>>
FirstLeft == \A i \in 2..6 : IdOrder[i] \in Opened' => IdOrder[i - 1] \in Opened'

OrderedFairSpec == PipelineInit /\ [][PipelineNext /\ FirstLeft]_allVars /\ PipelineFairness
=============================================================================
