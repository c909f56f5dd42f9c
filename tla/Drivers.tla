------------------------------ MODULE Drivers ------------------------------
(***************************************************************************)
(* A host with one of the two line drivers, and what both promise the      *)
(* Bridge and the vendor.                                                  *)
(***************************************************************************)
EXTENDS ClaudeDriver, AcpDriver

Next == VendorNext \/ ClaudeNext \/ AcpNext

Spec == Init /\ [][Next]_vars

TypeOK ==
    /\ flavor \in {"claude", "acp"}
    /\ session \in Session
    /\ Cardinality(session.pending) <= MaxPending
    /\ link \in Effect \cup {Idle}
    /\ vendor \in Vendor
    /\ stdout \in Seq(Message)
    /\ answers \in [Requests -> Seq(Answer)]
    /\ outcome \in [Prompts \cup Requests -> Outcomes]

\* Whatever thread ends a turn or a request, the Bridge is told: what it makes
\* of the facts is what the driver holds (_finish_turn, _settle, _ended).
FactsTrue ==
    /\ session.told.turn = session.turn
    /\ session.told.ready = session.ready
    /\ session.told.answerable = session.answerable
    /\ session.told.open = session.pending

\* "An unanswered request would stall Claude": a request of the prompt the
\* vendor is working on that the reader has read is pending or answered, even
\* when the limit is reached, the window passes or the user decides meanwhile.
InPipe(r) == \E i \in 1..Len(stdout) : stdout[i].kind = "ask" /\ stdout[i].request = r
Stalls(r) == /\ vendor.work # <<>> /\ vendor.asked[r] = Head(vendor.work)
             /\ answers[r] = <<>> /\ ~InPipe(r) /\ Alive
NoStall == \A r \in Requests : Stalls(r) => r \in session.pending

\* An outcome says what happened at the vendor: accepted is written there,
\* undelivered and unsupported mean that nothing was, whatever the reader did
\* to the request or the turn between the two halves of the effect.
UserAnswered(r) == \E i \in 1..Len(answers[r]) : answers[r][i].by = "user"
OutcomeTrue ==
    /\ \A p \in Prompts : outcome[p] # "none" => (outcome[p] = "accepted") = (p \in vendor.got)
    /\ \A r \in Requests : outcome[r] # "none" /\ link.at # "forget" =>
         (outcome[r] = "accepted") = UserAnswered(r)

\* A tool that was refused never reads as failed: the refusal is noted before
\* the vendor hears of it, by whichever thread.
RefusedReadsDeclined ==
    \A r \in Requests : session.told.tools[r] = "failed" => Verdict(r) # "deny"

\* Two threads may answer one request, the user's decision and the reader's
\* expiry or cancellation, but neither answers it twice.
OncePerThread ==
    \A r \in Requests : \A i, j \in 1..Len(answers[r]) :
        answers[r][i].by = answers[r][j].by => i = j

\* An interrupt marks the turn it was sent in or none: when that turn ends
\* between the write and the record, the next is not reported interrupted.
InterruptSpent == session.interrupting => session.turn # None

\* A turn the Bridge shows has a prompt the vendor owes a result for; a prompt
\* that was reported undelivered or unsupported leaves no turn behind.
Undelivered(p) == outcome[p] \in {"undelivered", "unsupported"}
TurnOwed ==
    session.turn # None =>
        /\ ~Undelivered(session.turn)
        /\ \/ link.at = "submit"
           \/ vendor.work # <<>>
           \/ \E i \in 1..Len(stdout) : stdout[i].kind = "result"
           \/ ~Alive

-----------------------------------------------------------------------------
(* What the run checks: these, by subject                                  *)

\* What the Bridge makes of the facts is what the driver holds, within its limits.
Published == TypeOK /\ FactsTrue

\* A request the vendor waits on is pending or was answered, once by each thread, and shown as it was
\* answered, whichever of user, expiry, limit and end of turn came first.
RequestsAnswered == NoStall /\ OncePerThread /\ RefusedReadsDeclined

\* A turn that is shown is owed an end, and an interrupt is about the turn it was sent in.
TurnsKept == TurnOwed /\ InterruptSpent
=============================================================================
