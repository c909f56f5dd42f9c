------------------------------- MODULE Picking -------------------------------
(***************************************************************************)
(* Parts of a sequence chosen by their positions.                          *)
(***************************************************************************)
EXTENDS Integers, Sequences, FiniteSets

\* What s holds at the given positions, in its order: SelectSeq, without its
\* recursion.
Picked(s, positions) ==
    [i \in 1..Cardinality(positions) |->
        s[CHOOSE p \in positions : Cardinality({q \in positions : q <= p}) = i]]

\* The elements of s that are in S, in their order.
Kept(s, S) == Picked(s, {i \in DOMAIN s : s[i] \in S})
=============================================================================
