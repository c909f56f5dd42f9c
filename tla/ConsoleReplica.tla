--------------------------- MODULE ConsoleReplica ---------------------------
(***************************************************************************)
(* What the console stream promises a surface, whatever connections and    *)
(* Bridges come and go: its copy is always one that the Bridge published,  *)
(* and it never goes back while that Bridge instance lives.                *)
(***************************************************************************)
EXTENDS Naturals, Sequences

CONSTANTS
    Console,   \* what a console may show
    Blank      \* what it shows before anything is published

VARIABLES
    source,    \* the Bridge instance, counted
    published, \* what this instance published: number n at position n + 1
    copy       \* the surface's: of which instance, at which number, showing what

Init ==
    /\ source = 1
    /\ published = <<Blank>>
    /\ copy = [source |-> 0, seq |-> 0, console |-> Blank]

Publish ==
    /\ \E console \in Console : published' = Append(published, console)
    /\ UNCHANGED <<source, copy>>

Restart ==
    /\ source' = source + 1
    /\ published' = <<Blank>>
    /\ UNCHANGED copy

Learn ==
    /\ \E n \in DOMAIN published :
         /\ copy.source = source => copy.seq <= n - 1
         /\ copy' = [source |-> source, seq |-> n - 1, console |-> published[n]]
    /\ UNCHANGED <<source, published>>

Next == Publish \/ Restart \/ Learn

Spec == Init /\ [][Next]_<<source, published, copy>>
=============================================================================
