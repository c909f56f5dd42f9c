----------------------------- MODULE AcpDriver -----------------------------
(***************************************************************************)
(* The Agent Client Protocol driver,                                       *)
(* adapters/acp/deskhelm_acp_adapter/driver.py (AcpSession), with the Grok *)
(* flavor. An agent takes one prompt at a time, answers it by its id, and  *)
(* wants every permission request of a prompt answered before it ends.     *)
(***************************************************************************)
EXTENDS VendorSession

\* _finish_turn: what is still pending is answered cancelled (see AcpAnswers).
AcpFinishTurn(s) ==
    [Settle(s, s.pending) EXCEPT !.turn = None, !.interrupting = FALSE, !.declined = {},
                                 !.told.turn = None]

AcpSubmit(p) ==
    /\ link = Idle /\ outcome[p] = "none"
    /\ IF ~session.ready \/ session.turn # None
       THEN /\ Reports(p, IF ~session.ready THEN "undelivered" ELSE "unsupported")
            /\ UNCHANGED <<session, link>>
       ELSE /\ link' = [at |-> "submit", prompt |-> p, starts |-> TRUE]
            /\ session' = Started(session, p)
            /\ UNCHANGED outcome
    /\ UNCHANGED <<flavor, vendor, stdout, answers>>

AcpSubmitLost(s) == s                                        \* faulty

\* The prompt did not reach the agent: its turn is over.
AcpSubmitFails(s) == IF s.turn = link.prompt THEN AcpFinishTurn(s) ELSE s

AcpSubmitWrite ==
    /\ link.at = "submit"
    /\ link' = Idle
    /\ IF Alive
       THEN /\ vendor' = [vendor EXCEPT !.work = Append(@, link.prompt), !.got = @ \cup {link.prompt}]
            /\ Reports(link.prompt, "accepted")
            /\ UNCHANGED session
       ELSE /\ session' = AcpSubmitFails(session)
            /\ Reports(link.prompt, "undelivered")
            /\ UNCHANGED vendor
    /\ UNCHANGED <<flavor, stdout, answers>>

\* session/cancel is written here, and recorded in the next step.
AcpInterrupt ==
    /\ link = Idle /\ session.ready /\ Alive
    /\ link' = [at |-> "interrupt"]
    /\ UNCHANGED <<flavor, session, vendor, stdout, answers, outcome>>

AcpInterruptRecord ==
    /\ link.at = "interrupt"
    /\ session' = [Settle(session, session.pending) EXCEPT !.interrupting = session.turn # None]
    /\ answers' = Written(session.pending, "driver", "cancelled")
    /\ link' = Idle
    /\ UNCHANGED <<flavor, vendor, stdout, outcome>>

\* select_option: only a one-time option of the wanted kind
AcpOption(r, allow) == (IF allow THEN "allow" ELSE "reject") \in session.options[r]

AcpRespond(r, allow) ==
    /\ link = Idle /\ r \in session.told.shown /\ outcome[r] = "none"
    /\ IF r \notin session.pending \/ ~AcpOption(r, allow)
       THEN /\ Reports(r, IF r \notin session.pending THEN "undelivered" ELSE "unsupported")
            /\ UNCHANGED <<session, link>>
       ELSE /\ link' = [at |-> "respond", request |-> r, allow |-> allow]
            /\ session' = IF allow THEN session ELSE [session EXCEPT !.declined = @ \cup {r}]
            /\ UNCHANGED outcome
    /\ UNCHANGED <<flavor, vendor, stdout, answers>>

-----------------------------------------------------------------------------
(* The reader                                                              *)

\* _permission; another request of the agent is answered with an error.
AcpRefuses(s, m) == m.about = "other" \/ Cardinality(s.pending) >= MaxPending

AcpPermission(s, m) ==
    IF ~AcpRefuses(s, m) THEN Open(s, m.request, m.options)
    ELSE IF m.about = "other" THEN s
    ELSE [s EXCEPT !.declined = @ \cup {m.request}]

\* Only the answer to the present prompt ends its turn.
AcpFinished(s, m) == m.kind = "result" /\ m.prompt = s.turn

\* Grok in always-approve mode answers its own permission requests.
AcpExtension(s, m) ==
    [s EXCEPT !.answerable = ~m.on, !.told.answerable = ~m.on]

AcpFeed(s, m) ==
    CASE m.kind = "ready" -> Ready(s)
      [] m.kind = "yolo"  -> AcpExtension(s, m)
      [] m.kind = "ask"   -> AcpPermission(s, m)
      [] m.kind = "tool"  -> ToolEnds(s, m)
      [] AcpFinished(s, m) -> AcpFinishTurn(s)
      [] OTHER            -> s

AcpExpire(s) == [Settle(s, Expired(s)) EXCEPT !.declined = @ \cup Expired(s)]

\* A refusal takes the one-time option if there is one, and cancels otherwise.
AcpRefusal(r, options) == IF "reject" \in options THEN "deny" ELSE "cancelled"

\* With the present answers, those to what has expired in s.
AcpExpiries(s) ==
    [r \in Requests |->
        IF r \in Expired(s)
        THEN Written({r}, "driver", AcpRefusal(r, s.options[r]))[r] ELSE answers[r]]

AcpAnswersOverflowIgnored(m, fed) ==                         \* faulty
    CASE m.kind = "ask" /\ m.about = "other" -> Written({m.request}, "driver", "error")
      [] AcpFinished(session, m)             -> Written(session.pending, "driver", "cancelled")
      [] OTHER                               -> AcpExpiries(fed)

\* What the reader writes while it reads m.
AcpAnswers(m, fed) ==
    LET expiries == AcpExpiries(fed)
        refusal  == IF m.about = "other" THEN "error" ELSE AcpRefusal(m.request, m.options)
    IN  IF m.kind = "ask" /\ AcpRefuses(session, m)
        THEN [expiries EXCEPT ![m.request] = Written({m.request}, "driver", refusal)[m.request]]
        ELSE IF AcpFinished(session, m) THEN Written(session.pending, "driver", "cancelled")
        ELSE expiries

\* A session that was not created stops the process.
AcpRead ==
    /\ stdout # <<>>
    /\ LET m   == Head(stdout)
           fed == AcpFeed(session, m)
       IN  /\ session' = AcpExpire(fed)
           /\ answers' = AcpAnswers(m, fed)
           /\ vendor' = [vendor EXCEPT !.closed = @ \/ m.kind = "refused"]
    /\ stdout' = Tail(stdout)
    /\ UNCHANGED <<flavor, link, outcome>>

AcpIdle ==
    /\ stdout = <<>> /\ vendor.up /\ Expired(session) # {}
    /\ session' = AcpExpire(session)
    /\ answers' = AcpExpiries(session)
    /\ UNCHANGED <<flavor, link, vendor, stdout, outcome>>

AcpEnded ==
    /\ stdout = <<>> /\ ~vendor.up /\ ~session.told.ended
    /\ session' = [(IF session.turn = None THEN session ELSE AcpFinishTurn(session))
                     EXCEPT !.told.ended = TRUE]
    /\ UNCHANGED <<flavor, link, vendor, stdout, answers, outcome>>

AcpNext ==
    /\ flavor = "acp"
    /\ \/ \E p \in Prompts : AcpSubmit(p)
       \/ AcpSubmitWrite \/ AcpInterrupt \/ AcpInterruptRecord
       \/ \E r \in Requests, allow \in BOOLEAN : AcpRespond(r, allow)
       \/ AcpRead \/ AcpIdle \/ AcpEnded
=============================================================================
