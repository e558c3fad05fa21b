-------------------------------- MODULE Ranks --------------------------------
(***************************************************************************)
(* Sorting.  The sorted list of a set is given by ranks and not by a       *)
(* choice among its permutations, so that it can be reasoned about.        *)
(***************************************************************************)
EXTENDS Integers, FiniteSets

\* The elements of a set in an order: each after as many as come before it.
Ranked(set, Before(_, _)) ==
    [i \in 1..Cardinality(set) |->
        CHOOSE e \in set : Cardinality({d \in set : Before(d, e)}) = i - 1]

\* A set of numbers, the smallest first or the largest.
Rising(set) == Ranked(set, <)
Falling(set) == Ranked(set, >)
=============================================================================
