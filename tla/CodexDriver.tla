---------------------------- MODULE CodexDriver ----------------------------
(* The Codex driver (adapters/codex/deskhelm_codex_adapter/driver.py) over *)
(* its adapter: the host link's thread performs effects, the adapter's      *)
(* connection thread publishes events, a watcher settles inputs.  An effect *)
(* passes through the driver's lock and the adapter's in turn, and holds    *)
(* neither in between.  The facts are the changes of dr.                    *)
EXTENDS AppServer

VARIABLES
    dr,      \* the driver's fields
    link,    \* the effect the link's thread performs
    outcome, \* what the effect of a prompt came to
    told,    \* prompts reported failed
    answers  \* prompts handed over as the answer to an input
driverVars == <<dr, link, outcome, told, answers>>
vars == <<adapterVars, driverVars>>

Native == "native"          \* a turn no command opened
Free == [op |-> "none", cmd |-> None, pc |-> "free", inputs |-> {}, before |-> 0, answered |-> FALSE]

Init ==
    /\ AdapterInit
    /\ dr = [turn |-> None, pending |-> None, open |-> {}, attention |-> FALSE]
    /\ link = Free
    /\ outcome = [p \in Prompts |-> None]
    /\ told = {} /\ answers = {}

----------------------------------------------------------------------------
(* The driver's handlers, as operators on its fields.                       *)

OpenTurn(d, opener) == [d EXCEPT !.turn = opener]

EnsureTurn(d) ==
    IF d.turn # None THEN d
    ELSE IF d.pending # None THEN [OpenTurn(d, d.pending) EXCEPT !.pending = None]
    ELSE OpenTurn(d, Native)

\* What Codex waits on ends with the turn; its other questions stay.
FinishTurn(d) ==
    [d EXCEPT !.turn = None, !.attention = FALSE, !.open = @ \cap Questions]

Settle(d, asks) == [d EXCEPT !.open = @ \ asks]

\* A question Codex does not wait on opens no turn.
Opened(d, ask) ==
    IF ask \in d.open THEN d
    ELSE [(IF ask \in Questions THEN d ELSE EnsureTurn(d)) EXCEPT !.open = @ \cup {ask}]

\* A refused control ends the turn only when it names the command that opened
\* it or is about to; otherwise it is a notice.
Opener(d) == IF d.turn # None THEN d.turn ELSE d.pending
Failure(d, cmd) == IF cmd # None /\ cmd = Opener(d) THEN FinishTurn(EnsureTurn(d)) ELSE d

OnEvent(d, e) ==
    CASE e.kind = "item" -> EnsureTurn(d)
      [] e.kind = "opened" -> Opened(d, e.ref)
      [] e.kind \in {"resolved", "answered"} -> Settle(d, {e.ref})
      [] e.kind = "attention" ->
            [(IF e.val THEN EnsureTurn(d) ELSE d) EXCEPT !.attention = e.val]
      [] e.kind = "ended" -> FinishTurn(d)
      [] e.kind = "failed" -> Failure(d, e.ref)

----------------------------------------------------------------------------
(* The connection thread publishes; the watcher looks.                      *)

Publish ==
    /\ todo # <<>>
    /\ LET e == Head(todo)
       IN  /\ dr' = OnEvent(dr, e)
           /\ told' = IF e.kind = "failed" THEN told \cup ({e.ref} \cap Prompts) ELSE told
    /\ todo' = Tail(todo)
    /\ UNCHANGED <<ad, out, in, cx, expired, mishaps, link, outcome, answers>>

\* Its three looks, at the driver, the adapter and the driver again, are one
\* step: an input that is gone does not come back.
Watch ==
    /\ LET a == [ad EXCEPT !.inputs = Live(ad)]
           gone == IF dr.open \cap Inputs # {} /\ a.inputs = {} THEN dr.open \cap Inputs ELSE {}
           d == Settle(dr, gone \cup expired)
       IN  /\ d # dr
           /\ dr' = d
           /\ ad' = IF dr.open \cap Inputs # {} THEN a ELSE ad
    /\ UNCHANGED <<out, in, todo, cx, expired, mishaps, link, outcome, told, answers>>

----------------------------------------------------------------------------
(* The link's thread performs an effect.                                    *)

\* An adapter operation takes effect: its message is queued, the call says
\* whether it was refused.
Takes(op) ==
    /\ ad' = op.ad
    /\ out' = IF op.msg = NoMsg THEN out ELSE Append(out, op.msg)

Submit(p) ==
    /\ link = Free /\ outcome[p] = None
    /\ LET inputs == dr.open \cap Inputs
       IN  link' = [Free EXCEPT !.op = "submit", !.cmd = p, !.inputs = inputs,
                                !.pc = IF inputs = {} THEN "adapter" ELSE "before"]
    /\ dr' = IF dr.turn = None /\ dr.pending = None THEN [dr EXCEPT !.pending = p] ELSE dr
    /\ UNCHANGED <<adapterVars, outcome, told, answers>>

CountBefore ==
    /\ link.pc = "before"
    /\ ad' = [ad EXCEPT !.inputs = Live(ad)]
    /\ link' = [link EXCEPT !.pc = "adapter", !.before = Cardinality(Live(ad))]
    /\ UNCHANGED <<out, in, todo, cx, expired, mishaps, dr, outcome, told, answers>>

Hand ==
    /\ link.op = "submit" /\ link.pc = "adapter"
    /\ LET op == SubmitPrompt(ad, link.cmd)
       IN  /\ Takes(op)
           /\ link' = [link EXCEPT !.pc = IF op.ok THEN "publish" ELSE "refused"]
           /\ answers' = IF op.msg.kind = "answer" THEN answers \cup {link.cmd} ELSE answers
    /\ UNCHANGED <<in, todo, cx, expired, mishaps, dr, outcome, told>>

\* The accepted prompt is published before the adapter returns.
PublishPrompt ==
    /\ link.pc = "publish"
    /\ dr' = EnsureTurn(dr)
    /\ link' = [link EXCEPT !.pc = IF link.before = 1 THEN "after" ELSE "accepted"]
    /\ UNCHANGED <<adapterVars, outcome, told, answers>>

CountAfter ==
    /\ link.pc = "after"
    /\ ad' = [ad EXCEPT !.inputs = Live(ad)]
    /\ link' = [link EXCEPT !.pc = "accepted", !.answered = (Live(ad) = {})]
    /\ UNCHANGED <<out, in, todo, cx, expired, mishaps, dr, outcome, told, answers>>

Submitted ==
    /\ link.pc \in {"accepted", "refused"} /\ link.op = "submit"
    /\ LET d == IF dr.pending # link.cmd THEN dr
                ELSE IF link.pc = "accepted" /\ dr.turn = None
                THEN OpenTurn([dr EXCEPT !.pending = None], link.cmd)
                ELSE [dr EXCEPT !.pending = None]
       IN  dr' = IF link.answered THEN Settle(d, link.inputs) ELSE d
    /\ link' = Free
    /\ outcome' = [outcome EXCEPT ![link.cmd] = IF link.pc = "accepted" THEN "accepted"
                                                ELSE "undelivered"]
    /\ UNCHANGED <<adapterVars, told, answers>>

\* One interrupt at a time.
PerformInterrupt ==
    /\ link = Free /\ Call("interrupt", Stop) \notin ad.calls
    /\ Takes(Interrupt(ad))
    /\ UNCHANGED <<in, todo, cx, expired, mishaps, driverVars>>

\* A decision or an answer: looked up in the driver, given to the adapter,
\* and taken off the driver when that accepts.
Respond(ask) ==
    /\ link = Free /\ ask \in dr.open \ Multi
    /\ link' = [Free EXCEPT !.op = "respond", !.cmd = ask, !.pc = "adapter"]
    /\ UNCHANGED <<adapterVars, dr, outcome, told, answers>>

Decide ==
    /\ link.op = "respond" /\ link.pc = "adapter"
    /\ LET op == IF link.cmd \in Approvals THEN DecideApproval(ad, link.cmd)
                 ELSE AnswerInput(ad, link.cmd)
       IN  /\ Takes(op)
           /\ link' = IF op.ok THEN [link EXCEPT !.pc = "pop"] ELSE Free
    /\ UNCHANGED <<in, todo, cx, expired, mishaps, dr, outcome, told, answers>>

Pop ==
    /\ link.pc = "pop"
    /\ dr' = Settle(dr, {link.cmd})
    /\ link' = Free
    /\ UNCHANGED <<adapterVars, outcome, told, answers>>

Link ==
    \/ \E p \in Prompts : Submit(p)
    \/ CountBefore \/ Hand \/ PublishPrompt \/ CountAfter \/ Submitted
    \/ PerformInterrupt \/ Decide \/ Pop
    \/ \E ask \in Asks \cup Questions : Respond(ask)

Next ==
    \/ (Codex \/ Adapter) /\ UNCHANGED driverVars
    \/ Publish \/ Watch \/ Link

Spec == Init /\ [][Next]_vars

----------------------------------------------------------------------------
(* Properties.                                                              *)

Reported == told \cup {todo[i].ref : i \in {j \in DOMAIN todo : todo[j].kind = "failed"}}
Carries(m, p) == (m.kind \in {"start", "steer"} /\ m.ref = p) \/ (m.kind = "answer" /\ m.val = p)
Commanded(c) == \E call \in ad.calls : call.cmd = c

\* The adapter's tables stay within their limits, whatever Codex sends and
\* however much is in flight, and it is subscribed only to what it is attached
\* to.
TypeOK ==
    /\ dr.turn \in {None, Native} \cup Prompts /\ dr.pending \in {None} \cup Prompts
    /\ dr.open \subseteq Asks \cup Questions
    /\ ad.calls \subseteq Calls /\ InFlight(ad) <= MaxCalls /\ Len(out) <= MaxOut
    /\ Cardinality(ad.approvals) <= MaxApprovals
    /\ ad.subscribed => ad.attached

\* Codex is given a prompt at most once, although a steer that came too late
\* is sent again as a new turn (ADR 0041).
PromptOnce == \A p \in Prompts : cx.got[p] <= 1

\* A prompt that was undelivered never reaches Codex; one that was accepted has
\* reached it, is on its way, or its failure has been reported - whether the
\* connection broke, Codex refused it or no answer came.  A prompt handed over
\* as the answer to an input is the exception: Codex may have stopped waiting.
OutcomeTrue ==
    \A p \in Prompts :
        /\ outcome[p] = "undelivered" =>
              cx.got[p] = 0 /\ ~Commanded(p) /\ \A i \in DOMAIN out : ~Carries(out[i], p)
        /\ outcome[p] = "accepted" /\ p \notin answers =>
              cx.got[p] = 1 \/ Commanded(p) \/ p \in Reported

\* Once its events are published, every approval the driver shows is one the
\* adapter can still answer, or has expired, or is being taken off; and it
\* shows that Codex waits only while the adapter holds that it does.
InStep ==
    todo = <<>> =>
        /\ dr.open \cap Approvals \subseteq
              ad.approvals \cup expired \cup (IF link.pc = "pop" THEN {link.cmd} ELSE {})
        /\ dr.attention => ad.waiting

\* The turn submission that makes every other prompt undelivered, and stops
\* the adapter from subscribing, lasts no longer than its request.
SubmissionInFlight == ad.submission # None => Call("start", ad.submission) \in ad.calls

\* When nothing is under way and Codex runs no turn, the driver shows none
\* (ADR 0044: what is still running stops when its turn ends).
TurnsEnd ==
    (/\ todo = <<>> /\ in = <<>> /\ out = <<>> /\ link = Free
     /\ ad.subscribed /\ ad.calls = {} /\ cx.turn = 0 /\ ad.active = 0)
        => dr.turn = None

\* The driver shows no approval and no attention that the adapter has given up, and the adapter
\* holds nothing beyond its limits and no submission beyond its request.
Consistent == TypeOK /\ InStep /\ SubmissionInFlight
=============================================================================
