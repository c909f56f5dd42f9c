---------------------------- MODULE MCBridgeCore ----------------------------
(* Small instances of BridgeCore for TLC.                                  *)
EXTENDS BridgeCore, TLC

CONSTANTS k1, k2, alice, bob

Cmd(kind, target, issuer, key, expires, approval) ==
    [kind |-> kind, target |-> target, issuer |-> issuer, key |-> key,
     expires |-> expires, approval |-> approval]

\* Two decisions on one approval by different clients, and a prompt.
MCCommands == {Cmd("submit_prompt", k1, alice, 1, 3, 0),
               Cmd("approve", k1, alice, 2, 3, 1),
               Cmd("reject", k1, bob, 1, 4, 1)}

\* A prompt and its duplicates, and a decision.
LiveCommands == {Cmd("submit_prompt", k1, alice, 1, 4, 0),
                 Cmd("approve", k1, alice, 2, 3, 1)}

LivePeers == {<<alice, "operator">>}

MCPeers == {<<alice, "operator">>, <<bob, "device">>}

Question == [ref |-> 2, kind |-> "input", expires |-> 3, answerable |-> TRUE,
             blocking |-> FALSE]

MCRequests == {[ref |-> 1, kind |-> "approval", expires |-> 3,
                answerable |-> TRUE, blocking |-> TRUE]}

MCCapabilities == {[rejectsWhileBusy |-> FALSE, allows |-> Kinds]}

\* A session's approval and question.
RequestRequests == {[r EXCEPT !.expires = 2] : r \in MCRequests} \cup {Question}

\* A vendor that turns out to refuse prompts while busy, and notifies only.
RequestCapabilities == MCCapabilities \cup
    {[rejectsWhileBusy |-> TRUE, allows |-> {"interrupt", "answer"}]}

\* Either session may have the focus, and a decision in flight.
SessionCommands == {Cmd("focus", k1, alice, 1, 3, 0), Cmd("focus", k2, alice, 2, 3, 0),
                    Cmd("approve", k1, alice, 3, 3, 1)}

Symmetry == Permutations(Conns)
=============================================================================
