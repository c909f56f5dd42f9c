------------------------------ MODULE MCCodex ------------------------------
(* A small instance of CodexDriver for TLC: two approvals, of which one can  *)
(* be pending, two inputs, one of them for the terminal only, or a question. *)
EXTENDS CodexDriver

CONSTANTS a1, a2, n1, n2, q1

MCPlans == {{a1, a2}, {n1, n2}, {q1}}
=============================================================================
