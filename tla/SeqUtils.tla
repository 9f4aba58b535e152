------------------------------- MODULE SeqUtils -------------------------------
(***************************************************************************)
(* Sums and subsequences.  The community modules have both, as folds and   *)
(* as SelectSeq, which take an operator; these take none and recurse on a  *)
(* function at most, so that facts about them can be proved                *)
(* (SeqUtilsProofs).                                                       *)
(***************************************************************************)
EXTENDS Integers, Sequences, FiniteSets

\* The sum of a sequence of integers.
SeqSum(s) ==
    LET upTo[n \in 0..Len(s)] == IF n = 0 THEN 0 ELSE upTo[n - 1] + s[n]
    IN  upTo[Len(s)]

\* Of the positions I of a sequence, the one that has k - 1 others before it.
NthPosition(I, k) == CHOOSE i \in I : Cardinality({j \in I : j <= i}) = k

\* The elements of s at the positions I, in order.
SubsequenceAt(s, I) == [k \in 1..Cardinality(I) |-> s[NthPosition(I, k)]]
=============================================================================
