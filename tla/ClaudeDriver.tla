---------------------------- MODULE ClaudeDriver ----------------------------
(***************************************************************************)
(* The Claude driver, adapters/claude/deskhelm_claude_adapter/driver.py    *)
(* (ClaudeSession). Claude takes prompts while it is busy and works them   *)
(* off in order; its results do not say which prompt they are for.         *)
(***************************************************************************)
EXTENDS VendorSession

ClaudeFinishTurnKeepingRequests(s) ==                       \* faulty
    [s EXCEPT !.turn = None, !.interrupting = FALSE, !.told.turn = None]

\* Requests still pending are cancelled: Claude no longer waits for them.
ClaudeFinishTurn(s) ==
    [Settle(s, s.pending) EXCEPT !.turn = None, !.interrupting = FALSE, !.told.turn = None]

ClaudeSubmit(p) ==
    /\ link = Idle /\ outcome[p] = "none"
    /\ IF ~Alive
       THEN Reports(p, "undelivered") /\ UNCHANGED <<session, link>>
       ELSE /\ link' = [at |-> "submit", prompt |-> p, starts |-> session.turn = None]
            /\ session' = IF session.turn = None THEN Started(session, p) ELSE session
            /\ UNCHANGED outcome
    /\ UNCHANGED <<flavor, vendor, stdout, answers>>

ClaudeSubmitWrite ==
    /\ link.at = "submit"
    /\ link' = Idle
    /\ IF Alive
       THEN /\ vendor' = [vendor EXCEPT !.work = Append(@, link.prompt), !.got = @ \cup {link.prompt}]
            /\ Reports(link.prompt, "accepted")
            /\ UNCHANGED session
       ELSE /\ IF link.starts /\ session.turn = link.prompt
               THEN session' = ClaudeFinishTurn(session)
               ELSE UNCHANGED session
            /\ Reports(link.prompt, "undelivered")
            /\ UNCHANGED vendor
    /\ UNCHANGED <<flavor, stdout, answers>>

InterruptsAnyway == TRUE                                     \* faulty

\* The turn may have ended since the interrupt was written.
Interrupts == session.turn # None

\* The request to interrupt is written here and recorded in the next step.
ClaudeInterrupt ==
    /\ link = Idle /\ Alive
    /\ link' = [at |-> "interrupt"]
    /\ UNCHANGED <<flavor, session, vendor, stdout, answers, outcome>>

ClaudeInterruptRecord ==
    /\ link.at = "interrupt"
    /\ session' = [session EXCEPT !.interrupting = Interrupts]
    /\ link' = Idle
    /\ UNCHANGED <<flavor, vendor, stdout, answers, outcome>>

DeclinedLater(s, r, allow) == s                              \* faulty

\* A refusal is noted before it is written, so that the tool's result cannot come first.
DeclinedFirst(s, r, allow) == IF allow THEN s ELSE [s EXCEPT !.declined = @ \cup {r}]

ClaudeRespond(r, allow) ==
    /\ link = Idle /\ r \in session.told.shown /\ outcome[r] = "none"
    /\ IF r \notin session.pending
       THEN Reports(r, "undelivered") /\ UNCHANGED <<session, link>>
       ELSE /\ link' = [at |-> "respond", request |-> r, allow |-> allow]
            /\ session' = DeclinedFirst(session, r, allow)
            /\ UNCHANGED outcome
    /\ UNCHANGED <<flavor, vendor, stdout, answers>>

-----------------------------------------------------------------------------
(* The reader                                                              *)

ClaudeRefusesLate(s, m) ==                                   \* faulty
    m.about # "tool" \/ Cardinality(s.pending) > MaxPending

\* Questions and unknown requests are refused, and approvals past the limit.
ClaudeRefuses(s, m) ==
    m.about # "tool" \/ Cardinality(s.pending) >= MaxPending

ClaudeControlRequest(s, m) ==
    IF ~ClaudeRefuses(s, m) THEN Open(s, m.request, m.options)
    ELSE IF m.about = "other" THEN s
    ELSE [s EXCEPT !.declined = @ \cup {m.request}]

\* _feed: what one message does.
ClaudeFeed(s, m) ==
    CASE m.kind = "ready"  -> Ready(s)
      [] m.kind = "ask"    -> ClaudeControlRequest(s, m)
      [] m.kind = "tool"   -> ToolEnds(s, m)
      [] m.kind = "result" -> ClaudeFinishTurn(s)
      [] OTHER             -> s

ClaudeExpireKeeping(s) == [s EXCEPT !.declined = @ \cup Expired(s)]     \* faulty

\* _expire: decline the tools, tell Claude, tell the Bridge.
ClaudeExpire(s) == [Settle(s, Expired(s)) EXCEPT !.declined = @ \cup Expired(s)]

\* What the reader writes while it reads m: refusals, then expiries.
ClaudeAnswers(m, fed) ==
    LET refused == IF m.kind = "ask" /\ ClaudeRefuses(session, m) THEN {m.request} ELSE {}
        says    == IF m.kind = "ask" /\ m.about = "other" THEN "error" ELSE "deny"
        first   == Written(refused, "driver", says)
    IN  [r \in Requests |-> IF r \in Expired(fed) THEN Written(Expired(fed), "driver", "deny")[r]
                            ELSE first[r]]

ClaudeRead ==
    /\ stdout # <<>>
    /\ LET m   == Head(stdout)
           fed == ClaudeFeed(session, m)
       IN  /\ session' = ClaudeExpire(fed)
           /\ answers' = ClaudeAnswers(m, fed)
    /\ stdout' = Tail(stdout)
    /\ UNCHANGED <<flavor, link, vendor, outcome>>

\* An idle half second is an empty batch.
ClaudeIdle ==
    /\ stdout = <<>> /\ vendor.up /\ Expired(session) # {}
    /\ session' = ClaudeExpire(session)
    /\ answers' = Written(Expired(session), "driver", "deny")
    /\ UNCHANGED <<flavor, link, vendor, stdout, outcome>>

ClaudeEnded ==
    /\ stdout = <<>> /\ ~vendor.up /\ ~session.told.ended
    /\ session' = [(IF session.turn = None THEN session ELSE ClaudeFinishTurn(session))
                     EXCEPT !.told.ended = TRUE]
    /\ UNCHANGED <<flavor, link, vendor, stdout, answers, outcome>>

ClaudeNext ==
    /\ flavor = "claude"
    /\ \/ \E p \in Prompts : ClaudeSubmit(p)
       \/ ClaudeSubmitWrite \/ ClaudeInterrupt \/ ClaudeInterruptRecord
       \/ \E r \in Requests, allow \in BOOLEAN : ClaudeRespond(r, allow)
       \/ ClaudeRead \/ ClaudeIdle \/ ClaudeEnded
=============================================================================
