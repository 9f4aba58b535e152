---------------------------- MODULE MCDispatcher ----------------------------
(* Small instances of Dispatcher for TLC. *)
EXTENDS Dispatcher, TLC

CONSTANTS g1, g2, g3, live, frozen, ev

MCGroupSize  == [e \in Env |-> IF e = frozen THEN 1 ELSE 2]
MCEvalEpochs == {<<ev>>}

\* Group ids are interchangeable (uuid4).
Symmetry == Permutations(Gid)
=============================================================================
