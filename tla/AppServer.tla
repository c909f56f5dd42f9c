----------------------------- MODULE AppServer -----------------------------
(* The adapter that speaks to a Codex app-server                           *)
(* (adapters/codex/deskhelm_codex_adapter/app_server.py), its connection    *)
(* thread, and the app-server as the adapter sees it.  Each action is a     *)
(* section under the adapter's lock; the events a section leads to are      *)
(* published after it, one by one, from todo.  The operations the driver    *)
(* calls (SubmitPrompt, ...) are operators from the adapter's state to the  *)
(* state they leave; CodexDriver takes the steps.  One Codex thread exists: *)
(* the choice among several, the managed terminal's proxy (see TuiProxy),   *)
(* the catalog and the wording of items are left out.                       *)
EXTENDS Naturals, FiniteSets, Sequences, SequencesExt

CONSTANTS
    Prompts,    \* prompts of surfaces, each also its command's id
    Stop,       \* the command id of an interrupt
    Approvals,  \* approvals Codex may ask for
    Inputs,     \* structured inputs Codex may ask for and waits on
    Multi,      \* those with a secret or more than one question
    Questions,  \* questions Codex may ask without waiting
    None,
    MaxTurns,   \* turns Codex runs
    Plans,      \* the sets of requests and questions Codex may come up with
    MaxOut,     \* max_outbound_messages
    MaxCalls,   \* max_pending_requests
    MaxApprovals,  \* max_pending_approvals
    MaxIn,      \* unread messages at which Codex waits before it acts again
    MaxMishaps  \* connections lost, threads closed, requests that lapse or time out

\* The adapter refuses limits below one (__post_init__).
ASSUME AdapterAssumption ==
    /\ Multi \subseteq Inputs /\ Plans \subseteq SUBSET (Approvals \cup Inputs \cup Questions)
    /\ {MaxTurns, MaxIn, MaxMishaps} \subseteq Nat
    /\ {MaxOut, MaxCalls, MaxApprovals} \subseteq Nat \ {0}

Asks == Approvals \cup Inputs
Texts == Prompts \cup Questions     \* a question stands for the reply to it
Setup == {"initialize", "list", "resume"}

\* A prompt has a command's id, a question an item's and an approval a request's.
ASSUME NamesAssumption ==
    /\ Questions \cap (Prompts \cup Asks) = {}
    /\ Stop \notin Prompts
    /\ None \notin Prompts \cup Setup \cup {"accepted", "undelivered"}

VARIABLES
    ad,      \* the adapter's fields
    out,     \* _outbound
    in,      \* messages from Codex not yet received
    todo,    \* events the connection thread has yet to publish
    cx,      \* Codex: its thread, turn and open requests
    expired, \* requests whose time is over
    mishaps  \* those that happened
adapterVars == <<ad, out, in, todo, cx, expired, mishaps>>

Msg(kind, ref, val) == [kind |-> kind, ref |-> ref, val |-> val]
Call(kind, cmd) == [kind |-> kind, cmd |-> cmd]

Down == [up |-> FALSE, initialized |-> FALSE, attached |-> FALSE, subscribed |-> FALSE,
         resume |-> FALSE, active |-> 0, submission |-> None, setup |-> None,
         calls |-> {}, approvals |-> {}, inputs |-> {}, questions |-> {},
         answered |-> {}, waiting |-> FALSE]

AdapterInit ==
    /\ ad = Down
    /\ out = <<>> /\ in = <<>> /\ todo = <<>>
    /\ cx = [thread |-> "fresh", turn |-> 0, turns |-> 0, asks |-> {}, asked |-> {},
              sub |-> FALSE, got |-> [x \in Texts |-> 0]]
    /\ expired = {} /\ mishaps = 0

----------------------------------------------------------------------------
(* What the adapter's helpers do.                                           *)

Full == Len(out) >= MaxOut
Matches(a) == a.attached \/ a.resume
Live(a) == a.inputs \ expired       \* after _purge_user_inputs_locked

\* A request is refused when too many are unanswered or the queue is full.
InFlight(a) == Cardinality(a.calls) + (IF a.setup = None THEN 0 ELSE 1)
RoomAnyway(a) == a.up /\ ~Full       \* fault: the bound is not checked
Room(a) == a.up /\ InFlight(a) < MaxCalls /\ ~Full

\* Each operation gives the state it leaves, the message it queues (none if
\* NoMsg) and whether it was refused.
NoMsg == Msg("none", None, 0)
Refused(a) == [ad |-> a, msg |-> NoMsg, ok |-> FALSE]
Queued(a, m) == [ad |-> a, msg |-> m, ok |-> TRUE]

\* A text steers the active turn, or starts one.
SendUserText(a, text) ==
    IF a.submission # None \/ ~Room(a) THEN Refused(a)
    ELSE IF a.active # 0
    THEN Queued([a EXCEPT !.calls = @ \cup {Call("steer", text)}], Msg("steer", text, a.active))
    ELSE Queued([a EXCEPT !.calls = @ \cup {Call("start", text)}, !.submission = text],
                Msg("start", text, 0))

RequireAttached(a) == a.up /\ a.initialized /\ a.attached

\* A prompt answers the only pending input, when that has one plain question.
SubmitPrompt(a0, p) ==
    LET a == [a0 EXCEPT !.inputs = Live(a0)]
    IN  IF ~RequireAttached(a0) THEN Refused(a0)
        ELSE IF a.inputs = {} THEN SendUserText(a, p)
        ELSE IF Cardinality(a.inputs) # 1 \/ a.inputs \cap Multi # {} \/ Full THEN Refused(a)
        ELSE Queued([a EXCEPT !.inputs = {}], Msg("answer", CHOOSE n \in a.inputs : TRUE, p))

AnswerInput(a0, ask) ==
    LET a == [a0 EXCEPT !.inputs = Live(a0), !.questions = @ \ expired]
        sent == SendUserText(a, ask)
    IN  IF ~RequireAttached(a0) THEN Refused(a0)
        ELSE IF ask \in a.questions
        THEN IF sent.ok THEN [sent EXCEPT !.ad.questions = @ \ {ask}, !.ad.answered = @ \cup {ask}]
                        ELSE sent
        ELSE IF ask \notin a.inputs \/ Full THEN Refused(a)
        ELSE Queued([a EXCEPT !.inputs = @ \ {ask}], Msg("answer", ask, None))

Interrupt(a) ==
    IF ~RequireAttached(a) \/ a.active = 0 \/ ~Room(a) THEN Refused(a)
    ELSE Queued([a EXCEPT !.calls = @ \cup {Call("interrupt", Stop)}],
                Msg("interrupt", Stop, a.active))

DecideApproval(a, ask) ==
    IF ask \notin a.approvals \ expired \/ ~a.up \/ Full THEN Refused(a)
    ELSE Queued([a EXCEPT !.approvals = @ \ {ask}], Msg("answer", ask, None))

----------------------------------------------------------------------------
(* Codex, as far as the adapter can tell.                                   *)

\* Items, turns and requests go to subscribed connections, status changes to all.
Tell(msgs, subscribed) == IF subscribed THEN msgs ELSE <<>>
Waiting(asks) == asks \cap Approvals # {}
Status(before, after) ==
    IF Waiting(before) = Waiting(after) THEN <<>> ELSE <<Msg("status", None, Waiting(after))>>

Result(call, val) == Msg("result", call, val)
Error(call, why) == Msg("error", call, why)

\* What Codex may make of a message, and what it sends back.
Reply(c, m) ==
    LET call == Call(m.kind, m.ref)
        started == [c EXCEPT !.turn = c.turns + 1, !.turns = @ + 1, !.thread = "stored",
                             !.got[m.ref] = @ + 1]
        begun == Tell(<<Msg("started", None, c.turns + 1)>>, c.sub)
        ended == [c EXCEPT !.turn = 0, !.asks = {}]
        answered == [c EXCEPT !.asks = @ \ {m.ref},
                              !.got = [x \in Texts |-> IF x = m.val THEN @[x] + 1 ELSE @[x]]]
        With(c1, msgs) == [cx |-> c1, msgs |-> msgs]
    IN  CASE m.kind = "initialize" -> {With(c, <<Result(call, 0)>>)}
          [] m.kind = "list" -> {With(c, <<Result(call, IF c.thread = "none" THEN 0 ELSE 1)>>)}
          [] m.kind = "resume" ->
                {IF c.thread = "stored"
                 THEN With([c EXCEPT !.sub = TRUE], <<Msg("resumed", c.turn, Waiting(c.asks))>>)
                 ELSE With(c, <<Error(call, IF c.thread = "fresh" THEN "rollout" ELSE "other")>>)}
          [] m.kind = "start" ->
                {With(c, <<Error(call, "other")>>)} \cup
                (IF c.turn # 0 \/ c.turns = MaxTurns THEN {}
                 ELSE {With(started, <<Result(call, c.turns + 1)>> \o begun),
                       With(started, begun \o <<Result(call, c.turns + 1)>>)})
          [] m.kind = "steer" ->
                IF c.turn = m.val THEN {With([c EXCEPT !.got[m.ref] = @ + 1], <<Result(call, 0)>>)}
                ELSE {With(c, <<Error(call, IF c.turn = 0 THEN "idle" ELSE "other")>>)}
          [] m.kind = "interrupt" ->
                {IF c.turn = m.val
                 THEN With(ended, <<Result(call, 0)>> \o Status(c.asks, {}) \o
                                  Tell(<<Msg("completed", None, "interrupted")>>, c.sub))
                 ELSE With(c, <<Error(call, "other")>>)}
          [] m.kind = "answer" ->
                {IF m.ref \in c.asks
                 THEN With(answered, Tell(<<Msg("resolved", m.ref, 0)>>, c.sub)
                                     \o Status(c.asks, answered.asks))
                 ELSE With(c, <<>>)}
          [] OTHER -> {With(c, <<>>)}

Mishap == mishaps < MaxMishaps /\ mishaps' = mishaps + 1

CodexSays(c, msgs) ==
    /\ Len(in) < MaxIn
    /\ cx' = c
    /\ in' = IF ad.up THEN in \o msgs ELSE in
    /\ UNCHANGED <<ad, out, todo, expired, mishaps>>

\* The terminal starts a turn.
CodexStarts ==
    /\ cx.turn = 0 /\ cx.turns < MaxTurns /\ cx.thread # "none"
    /\ CodexSays([cx EXCEPT !.turn = cx.turns + 1, !.turns = @ + 1, !.thread = "stored"],
                 Tell(<<Msg("started", None, cx.turns + 1)>>, cx.sub))

CodexWorks ==
    /\ cx.turn # 0 /\ cx.sub /\ in = <<>>
    /\ CodexSays(cx, <<Msg("item", None, 0)>>)

Planned(ask) == \E plan \in Plans : cx.asked \cup {ask} \subseteq plan

\* An approval or an input; the status may change before or after it.
CodexAsks(ask) ==
    /\ cx.turn # 0 /\ ask \in Asks \ cx.asked /\ Planned(ask)
    /\ LET c == [cx EXCEPT !.asks = @ \cup {ask}, !.asked = @ \cup {ask}]
           request == Tell(<<Msg("ask", ask, 0)>>, cx.sub)
           status == Status(cx.asks, c.asks)
       IN  CodexSays(c, request \o status) \/ CodexSays(c, status \o request)

\* A question it does not wait on is an item, and so is the terminal's reply.
CodexQuestions(q) ==
    /\ cx.turn # 0 /\ cx.sub /\ q \in Questions \ cx.asked /\ Planned(q)
    /\ CodexSays([cx EXCEPT !.asked = @ \cup {q}], <<Msg("question", q, 0)>>)

CodexReplied(q) ==
    /\ cx.turn # 0 /\ cx.sub /\ q \in Questions \cap cx.asked /\ cx.got[q] = 0
    /\ CodexSays([cx EXCEPT !.got[q] = 1], <<Msg("replied", q, 0)>>)

\* The terminal answers, or the request lapses.
CodexResolves(ask) ==
    /\ ask \in cx.asks
    /\ LET c == [cx EXCEPT !.asks = @ \ {ask}]
       IN  CodexSays(c, Tell(<<Msg("resolved", ask, 0)>>, cx.sub) \o Status(cx.asks, c.asks))

CodexEnds(how) ==
    /\ cx.turn # 0
    /\ CodexSays([cx EXCEPT !.turn = 0, !.asks = {}],
                 Status(cx.asks, {}) \o Tell(<<Msg("completed", None, how)>>, cx.sub))

\* The terminal leaves the thread, and comes back to it.
CodexCloses ==
    /\ cx.turn = 0 /\ cx.thread # "none" /\ Mishap
    /\ Len(in) < MaxIn
    /\ cx' = [cx EXCEPT !.thread = "none", !.sub = FALSE]
    /\ in' = in \o Tell(<<Msg("closed", None, 0)>>, cx.sub)
    /\ UNCHANGED <<ad, out, todo, expired>>

CodexOpens ==
    /\ cx.thread = "none"
    /\ CodexSays([cx EXCEPT !.thread = "stored"], <<>>)

Elapse(ask) ==
    /\ ask \in cx.asked \ expired
    /\ expired' = expired \cup {ask} /\ Mishap
    /\ UNCHANGED <<ad, out, in, todo, cx>>

Codex ==
    \/ CodexStarts \/ CodexWorks \/ CodexCloses \/ CodexOpens
    \/ \E ask \in Asks : CodexAsks(ask) \/ CodexResolves(ask)
    \/ \E q \in Questions : CodexQuestions(q) \/ CodexReplied(q)
    \/ \E how \in {"completed", "failed"} : CodexEnds(how)
    \/ \E ask \in Asks \cup Questions : Elapse(ask)

----------------------------------------------------------------------------
(* The connection thread.  It takes the next message once everything the    *)
(* last one led to is published.                                             *)

Event(kind, ref, val) == [kind |-> kind, ref |-> ref, val |-> val]
Resolved(asks) == SetToSeq({Event("resolved", ask, 0) : ask \in asks})
Failed(cmds, code) == SetToSeq({Event("failed", cmd, code) : cmd \in cmds})
AttentionKept(a) == <<>>             \* fault: the driver is not told
AttentionOff(a) == IF a.waiting THEN <<Event("attention", None, FALSE)>> ELSE <<>>
StartsOnly(calls) == {call.cmd : call \in {c \in calls : c.kind = "start"}}  \* fault
Commands(calls) == {call.cmd : call \in calls}

\* The connection is gone: what was in flight failed, what was open is closed.
Lost(a) ==
    /\ ad' = [Down EXCEPT !.resume = a.attached \/ a.resume,
                          !.questions = a.questions, !.answered = a.answered]
    /\ todo' = AttentionOff(a) \o Resolved(a.approvals)
               \o Failed(Commands(a.calls), "codex_connection_lost")
    /\ out' = <<>> /\ in' = <<>>
    /\ cx' = [cx EXCEPT !.sub = FALSE]

Idle == todo = <<>>

Connect ==
    /\ Idle /\ ~ad.up
    /\ ad' = [ad EXCEPT !.up = TRUE, !.setup = "initialize"]
    /\ out' = <<Msg("initialize", None, 0)>>
    /\ UNCHANGED <<in, todo, cx, expired, mishaps>>

Break ==
    /\ Idle /\ ad.up /\ Mishap
    /\ Lost(ad)
    /\ UNCHANGED expired

\* _schedule_discovery: resume until subscribed, but not while a turn is being
\* submitted; a queue with no room ends the connection.
Discover ==
    /\ Idle /\ ad.initialized /\ ad.setup = None /\ ad.submission = None
    /\ ~(ad.attached /\ ad.subscribed)
    /\ UNCHANGED <<expired, mishaps>>
    /\ \/ ~Room(ad) /\ Lost(ad)
       \/ /\ Room(ad)
          /\ LET kind == IF Matches(ad) THEN "resume" ELSE "list"
             IN  ad' = [ad EXCEPT !.setup = kind] /\ out' = Append(out, Msg(kind, None, 0))
          /\ UNCHANGED <<in, todo, cx>>

\* Codex takes the message at once; how late it answers is how long the
\* answer stays in "in".
Flush ==
    /\ Idle /\ ad.up /\ out # <<>>
    /\ out' = Tail(out)
    /\ \E r \in Reply(cx, Head(out)) : cx' = r.cx /\ in' = in \o r.msgs
    /\ UNCHANGED <<ad, todo, expired, mishaps>>

\* The call a response answers; a late one finds none.
Pending(call) == IF call.kind \in Setup THEN ad.setup = call.kind ELSE call \in ad.calls
Without(a, call) == IF call.kind \in Setup THEN [a EXCEPT !.setup = None]
                    ELSE [a EXCEPT !.calls = @ \ {call}]

\* Each handler leaves the adapter in a and has events to publish; Queues adds
\* a message.
Leaves(a, events) == ad' = a /\ todo' = events /\ UNCHANGED <<out, cx>>
Queues(a, m) == ad' = a /\ todo' = <<>> /\ out' = Append(out, m) /\ UNCHANGED cx

StillPending(a, call) == a            \* fault: the submission is not cleared
Settled(a, call) ==
    IF call.kind = "start" /\ a.submission = call.cmd THEN [a EXCEPT !.submission = None] ELSE a

HandleResult(call, val) ==
    LET a == Without(ad, call)
    IN  CASE ~Pending(call) -> Leaves(ad, <<>>) /\ in' = Tail(in)
          [] Pending(call) /\ call.kind = "initialize" ->
                Leaves([a EXCEPT !.initialized = TRUE], <<>>) /\ in' = Tail(in)
          [] Pending(call) /\ call.kind = "list" ->
                /\ Leaves(IF val = 1 THEN [a EXCEPT !.attached = TRUE, !.subscribed = FALSE,
                                                    !.resume = TRUE] ELSE a, <<>>)
                /\ in' = Tail(in)
          [] Pending(call) /\ call.kind = "start" ->
                \* A different active turn raises, which ends the connection.
                IF ad.active \notin {0, val} THEN Lost(a)
                ELSE Leaves(Settled([a EXCEPT !.active = val], call), <<>>) /\ in' = Tail(in)
          [] OTHER -> Leaves(a, <<>>) /\ in' = Tail(in)

\* A steer that found no turn is sent again, once, as the start of one.
RetryIdleSteer(call) ==
    LET a == [Without(ad, call) EXCEPT !.active = 0]
        start == Call("start", call.cmd)
    IN  IF a.submission = None /\ Room(a)
        THEN Queues([a EXCEPT !.calls = @ \cup {start}, !.submission = call.cmd],
                    Msg("start", call.cmd, 0))
        ELSE Leaves(a, Failed({call.cmd}, "codex_control_failed"))

HandleError(call, why) ==
    LET a == Without(ad, call)
    IN  CASE ~Pending(call) -> Leaves(ad, <<>>) /\ in' = Tail(in)
          [] Pending(call) /\ call.kind = "resume" /\ why = "rollout" ->
                Leaves([a EXCEPT !.attached = TRUE, !.subscribed = FALSE], <<>>) /\ in' = Tail(in)
          [] Pending(call) /\ call.kind \in Setup /\ why # "rollout" -> Lost(a)
          [] Pending(call) /\ call.kind = "steer" /\ why = "idle" ->
                RetryIdleSteer(call) /\ in' = Tail(in)
          [] OTHER -> /\ Leaves(Settled(a, call), Failed({call.cmd}, "codex_control_failed"))
                      /\ in' = Tail(in)

\* A status that changes what is known is an event.
StatusEvents(a, waiting) ==
    IF waiting = a.waiting THEN <<>> ELSE <<Event("attention", None, waiting)>>

HandleResumed(turn, waiting) ==
    LET a == [ad EXCEPT !.setup = None, !.attached = TRUE, !.subscribed = TRUE, !.resume = TRUE,
                        !.active = IF @ = 0 THEN turn ELSE @]
    IN  IF ad.setup # "resume" THEN Leaves(ad, <<>>)
        ELSE Leaves([a EXCEPT !.waiting = waiting], StatusEvents(a, waiting))

HandleStarted(turn) ==
    Leaves(IF Matches(ad)
           THEN [ad EXCEPT !.subscribed = TRUE, !.active = turn, !.submission = None]
           ELSE ad, <<>>)

HandleCompleted(how) ==
    IF ~ad.attached THEN Leaves(ad, <<>>)
    ELSE Leaves([ad EXCEPT !.subscribed = TRUE, !.active = 0, !.submission = None,
                           !.inputs = {}, !.approvals = {}, !.waiting = FALSE],
                AttentionOff(ad) \o Resolved(ad.approvals) \o <<Event("ended", None, how)>>)

\* An approval too many is declined.
HandleApproval(a, ask) ==
    IF Cardinality(a.approvals) < MaxApprovals
    THEN /\ Leaves([a EXCEPT !.approvals = @ \cup {ask}, !.waiting = TRUE],
                   <<Event("opened", ask, 0)>>)
         /\ in' = Tail(in)
    ELSE IF Full THEN Lost(a)
    ELSE Queues(a, Msg("answer", ask, None)) /\ in' = Tail(in)

HandleInput(a, ask) ==
    /\ Leaves([a EXCEPT !.inputs = @ \cup {ask}], <<Event("opened", ask, 0)>>)
    /\ in' = Tail(in)

HandleAsk(ask) ==
    LET a == [ad EXCEPT !.subscribed = TRUE]
    IN  IF ask \in Approvals THEN HandleApproval(a, ask) ELSE HandleInput(a, ask)

HandleResolved(ask) ==
    Leaves(IF Matches(ad)
           THEN [ad EXCEPT !.subscribed = TRUE, !.approvals = @ \ {ask}, !.inputs = @ \ {ask}]
           ELSE ad,
           IF Matches(ad) /\ ask \in ad.approvals THEN Resolved({ask}) ELSE <<>>)

\* The reply DeskHelm sent is not an answer from the terminal.
HandleReplied(q) ==
    IF q \in ad.answered THEN Leaves([ad EXCEPT !.answered = @ \ {q}], <<>>)
    ELSE Leaves([ad EXCEPT !.questions = @ \ {q}],
                IF q \in ad.questions THEN <<Event("answered", q, 0)>>
                ELSE <<Event("item", None, 0)>>)

\* Items are shown for the attached thread only; a question is an item.
HandleItem(m) ==
    CASE ~ad.attached -> Leaves(ad, <<>>)
      [] ad.attached /\ m.kind = "item" -> Leaves(ad, <<Event("item", None, 0)>>)
      [] ad.attached /\ m.kind = "question" ->
            Leaves([ad EXCEPT !.questions = @ \cup {m.ref}], <<Event("opened", m.ref, 0)>>)
      [] ad.attached /\ m.kind = "replied" -> HandleReplied(m.ref)

HandleStatus(waiting) ==
    IF Matches(ad) THEN Leaves([ad EXCEPT !.waiting = waiting], StatusEvents(ad, waiting))
    ELSE Leaves(ad, <<>>)

HandleClosed ==
    IF ad.attached
    THEN Leaves([ad EXCEPT !.attached = FALSE, !.subscribed = FALSE, !.resume = FALSE,
                           !.active = 0, !.waiting = FALSE], AttentionOff(ad))
    ELSE Leaves(ad, <<>>)

HandleNotification(m) ==
    /\ in' = Tail(in)
    /\ CASE m.kind = "resumed" -> HandleResumed(m.ref, m.val)
         [] m.kind = "started" -> HandleStarted(m.val)
         [] m.kind = "completed" -> HandleCompleted(m.val)
         [] m.kind = "resolved" -> HandleResolved(m.ref)
         [] m.kind = "status" -> HandleStatus(m.val)
         [] m.kind = "closed" -> HandleClosed
         [] OTHER -> HandleItem(m)

Handle ==
    /\ Idle /\ ad.up /\ in # <<>>
    /\ LET m == Head(in)
       IN  CASE m.kind = "result" -> HandleResult(m.ref, m.val)
             [] m.kind = "error" -> HandleError(m.ref, m.val)
             [] m.kind = "ask" -> HandleAsk(m.ref)
             [] OTHER -> HandleNotification(m)
    /\ UNCHANGED <<expired, mishaps>>

\* Fault: a text that got no answer in time is sent again.
TimeOutResent(call) ==
    /\ Idle /\ ad.up /\ Pending(call) /\ Mishap
    /\ \A i \in DOMAIN out : Call(out[i].kind, out[i].ref) # call
    /\ IF call.kind = "steer" THEN RetryIdleSteer(call) ELSE Lost(Without(ad, call))
    /\ in' = IF call.kind = "steer" THEN in ELSE <<>>
    /\ UNCHANGED expired

\* A request unanswered for too long; it has been sent by then.
TimeOut(call) ==
    /\ Idle /\ ad.up /\ Pending(call) /\ Mishap
    /\ \A i \in DOMAIN out : Call(out[i].kind, out[i].ref) # call
    /\ IF call.kind \in Setup
       THEN Lost(Without(ad, call))
       ELSE /\ Leaves(Settled(Without(ad, call), call), Failed({call.cmd}, "codex_control_timeout"))
            /\ UNCHANGED in
    /\ UNCHANGED expired

Purge ==
    /\ Idle /\ ad.inputs \cap expired # {}
    /\ ad' = [ad EXCEPT !.inputs = Live(ad)]
    /\ UNCHANGED <<out, in, todo, cx, expired, mishaps>>

Calls == {Call(kind, None) : kind \in Setup} \cup {Call(kind, x) : kind \in {"start", "steer"}, x \in Texts}
         \cup {Call("interrupt", Stop)}

Adapter ==
    \/ Connect \/ Break \/ Discover \/ Flush \/ Handle \/ Purge
    \/ \E call \in Calls : TimeOut(call)

=============================================================================
