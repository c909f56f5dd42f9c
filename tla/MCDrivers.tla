----------------------------- MODULE MCDrivers -----------------------------
(* A small instance of Drivers for TLC.                                    *)
EXTENDS Drivers, TLC

\* An agent that offers both one-time options, and one that cannot refuse.
MCOffers == {{"allow", "reject"}, {"allow"}}

Symmetry == Permutations(Prompts) \cup Permutations(Requests)
=============================================================================
