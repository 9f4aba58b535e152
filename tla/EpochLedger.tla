----------------------------- MODULE EpochLedger -----------------------------
(***************************************************************************)
(* What EvalSource and EvalSink promise together: an epoch, one            *)
(* environment at one step, is triggered at most once and then evaluated   *)
(* exactly once, on nothing but the episodes of that epoch.                *)
(***************************************************************************)
EXTENDS Sequences, SequencesExt

CONSTANT Epoch

VARIABLES
    due,        \* epochs triggered and not evaluated
    evaluated   \* epochs evaluated, in order

vars == <<due, evaluated>>

Init == due = {} /\ evaluated = <<>>

\* A trigger may fire several environments.
Trigger ==
    /\ due \subseteq due' /\ \A k \in due' \ due : k \in Epoch \ ToSet(evaluated)
    /\ UNCHANGED evaluated

Evaluate ==
    \E k \in due : due' = due \ {k} /\ evaluated' = Append(evaluated, k)

Next == Trigger \/ Evaluate

Spec == Init /\ [][Next]_vars
=============================================================================
