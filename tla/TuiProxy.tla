------------------------------ MODULE TuiProxy ------------------------------
(***************************************************************************)
(* The proxy between the Codex terminal and its app-server                 *)
(* (codex/tui_proxy.py), and the adapter's half of an approval             *)
(* (_decide_approval and the _handle_proxied_... callbacks of              *)
(* codex/app_server.py). The terminal and a surface may both answer an     *)
(* approval; the proxy lets one answer through.                            *)
(*                                                                         *)
(* Three threads meet here. The connection thread goes round four phases   *)
(* (the decisions, the upstream messages, one message of the terminal, the *)
(* expiries) and runs the adapter's callbacks without the proxy's lock.    *)
(* The link thread decides under the adapter's lock, then the proxy's,     *)
(* then the adapter's. The reader fills the bounded queue of events.       *)
(*                                                                         *)
(* The socket to the terminal and the way upstream are immediate; what     *)
(* Codex and the terminal send waits in up and down. Only the primary      *)
(* connection is modelled: an auxiliary one only forwards. The decision,   *)
(* the permissions and the rest of a message are abstracted.               *)
(***************************************************************************)
EXTENDS Integers, Sequences, FiniteSets, SequencesExt

CONSTANTS
    Requests,   \* JSON-RPC ids of approval requests; Codex may use one again
    None,
    MaxPending, \* max_pending_approvals
    MaxQueued   \* max_queued_events

CONSTANTS       \* bounds of the model
    MaxAsks,    \* messages that ask
    MaxLinks    \* connections of the terminal

ASSUME ProxyAssumption ==
    /\ {MaxPending, MaxQueued, MaxAsks, MaxLinks} \subseteq Nat \ {0}
    /\ IsFiniteSet(Requests)

\* The k-th message that asks r gets a token of its own if it is tracked.
Tokens == Requests \X (1..MaxAsks)

VARIABLES
    asks,       \* Codex: by id, how often it asked
    stage,      \* Codex: the request of an id; "waiting" to be asked again
    up,         \* what Codex sent and the connection thread has not handled
    down,       \* the terminal's answers not yet read, by the ask they meant
    prompts,    \* the asks the terminal shows
    links,      \* connections so far
    phase,      \* of the connection thread; "down" without a connection
    pending,    \* _pending_by_token
    suppressed, \* _suppressed_by_rpc
    decisions,  \* the bounded queue of voice decisions
    late,       \* tokens whose approval has expired
    opening,    \* the callback that opens a token is due, or has raised
    telling,    \* callbacks that resolve a token are due
    leaving,    \* the same, of the thread of the connection before
    known,      \* the adapter's _approvals_by_rpc
    link,       \* the decision the link thread is at, or has last reported
    sent,       \* history: tokens whose decision went upstream
    keyed       \* history: asks whose answer of the terminal went upstream

codex    == <<asks, stage>>
terminal == <<down, prompts>>
records  == <<pending, suppressed>>
history  == <<sent, keyed>>
vars == <<codex, up, terminal, links, phase, records, decisions, late, opening,
          telling, leaving, known, link, history>>

Id(t) == t[1]
Asked == {t \in Tokens : t[2] <= asks[Id(t)]}

Message    == [kind : {"ask"}, token : Tokens] \cup [kind : {"resolved"}, id : Requests]
Suppressed == [token : Tokens, resolved : BOOLEAN, seen : BOOLEAN, notified : BOOLEAN]
Link       == [at : {"resolve", "forget"}, token : Tokens]
Outcome    == [at : {"accepted", "undelivered", "refused"}, token : Tokens]
Idle       == [at |-> "idle"]
OpenCall   == [token : Tokens, raised : BOOLEAN]

Init ==
    /\ asks = [r \in Requests |-> 0]
    /\ stage = [r \in Requests |-> "over"]
    /\ up = <<>> /\ down = <<>> /\ prompts = {}
    /\ links = 0 /\ phase = "down"
    /\ pending = {} /\ suppressed = {} /\ decisions = <<>> /\ late = {}
    /\ opening = None /\ telling = {} /\ leaving = {} /\ known = {} /\ link = Idle
    /\ sent = {} /\ keyed = {}

Records(r) == {s \in suppressed : Id(s.token) = r}
Others(r)  == suppressed \ Records(r)
Pends(r)   == {t \in pending : Id(t) = r}

-----------------------------------------------------------------------------
(* Codex and the terminal                                                  *)

\* Codex asks: a new request, perhaps with the id of an earlier one, or, on a
\* new connection, one that is still open.
CodexAsks(r) ==
    /\ phase # "down" /\ Len(up) < MaxQueued
    /\ Cardinality(Asked) < MaxAsks /\ stage[r] \in {"over", "waiting"}
    /\ asks' = [asks EXCEPT ![r] = @ + 1]
    /\ stage' = [stage EXCEPT ![r] = "open"]
    /\ up' = Append(up, [kind |-> "ask", token |-> <<r, asks[r] + 1>>])
    /\ UNCHANGED <<terminal, links, phase, records, decisions, late, opening, telling, leaving, known, link, history>>

\* Codex says that a request is over: it was answered, or its turn ended.
CodexResolves(r) ==
    /\ phase # "down" /\ Len(up) < MaxQueued /\ stage[r] \in {"open", "answered"}
    /\ stage' = [stage EXCEPT ![r] = "over"]
    /\ up' = Append(up, [kind |-> "resolved", id |-> r])
    /\ UNCHANGED <<asks, terminal, links, phase, records, decisions, late, opening, telling, leaving, known, link, history>>

\* An answer reaches Codex; only the first to an open request counts.
Hears(r) == [stage EXCEPT ![r] = IF @ = "open" THEN "answered" ELSE @]

\* The user answers a prompt in the terminal.
TerminalAnswers(t) ==
    /\ t \in prompts
    /\ prompts' = prompts \ {t}
    /\ down' = Append(down, t)
    /\ UNCHANGED <<codex, up, links, phase, records, decisions, late, opening, telling, leaving, known, link, history>>

\* An approval passes its expires_at.
Lateness(t) ==
    /\ t \in (pending \cup {s.token : s \in suppressed}) \ late
    /\ late' = late \cup {t}
    /\ UNCHANGED <<codex, up, terminal, links, phase, records, decisions, opening, telling, leaving, known, link, history>>

-----------------------------------------------------------------------------
(* The connection thread                                                   *)

\* _serve_accepted_connection, for the connection that is the primary one
Connect ==
    /\ phase = "down" /\ links < MaxLinks
    /\ links' = links + 1
    /\ phase' = "decisions"
    /\ UNCHANGED <<codex, up, terminal, records, decisions, late, opening, telling, leaving, known, link, history>>

\* The thread is in its loop and owes no callback.
Free == phase # "down" /\ opening = None /\ telling = {}

\* The rest of _process_one_event: a decision goes out on the connection that
\* owns the request.
SendDecision ==
    /\ Free /\ phase = "decisions" /\ decisions # <<>>
    /\ decisions' = Tail(decisions)
    /\ sent' = sent \cup {Head(decisions)}
    /\ stage' = Hears(Id(Head(decisions)))
    /\ UNCHANGED <<asks, up, terminal, links, phase, records, late, opening, telling, leaving, known, link, keyed>>

\* An approval is shown in the terminal, and tracked unless it is a copy of
\* one that is pending or just decided, or there are too many.
Copy(r) == \/ Pends(r) # {}
           \/ \E s \in Records(r) : ~s.resolved /\ s.token \notin late
TrackedAnyway(r) == ~Copy(r)                                                     \* faulty
Tracked(r) == ~Copy(r) /\ Cardinality(pending) < MaxPending

HandleAsk(t) ==
    /\ prompts' = prompts \cup {t}
    /\ suppressed' = IF \E s \in Records(Id(t)) : s.resolved \/ s.token \in late
                     THEN Others(Id(t)) ELSE suppressed
    /\ IF Tracked(Id(t))
       THEN pending' = pending \cup {t} /\ opening' = [token |-> t, raised |-> FALSE]
       ELSE UNCHANGED <<pending, opening>>
    /\ UNCHANGED telling

DropRecord(s) == {}                                                              \* faulty

\* A decided request that Codex says is over is kept for the late answer of
\* the terminal, unless that has come already.
AfterResolved(s) ==
    IF s.seen THEN {} ELSE {[s EXCEPT !.resolved = TRUE, !.notified = TRUE]}

HandleResolved(r) ==
    /\ prompts' = {t \in prompts : Id(t) # r}
    /\ pending' = pending \ Pends(r)
    /\ suppressed' = Others(r) \cup UNION {AfterResolved(s) : s \in Records(r)}
    /\ telling' = Pends(r) \cup {s.token : s \in {x \in Records(r) : ~x.notified}}
    /\ UNCHANGED opening

HandleUpstream ==
    /\ Free /\ phase = "events" /\ up # <<>>
    /\ up' = Tail(up)
    /\ LET m == Head(up)
       IN  IF m.kind = "ask" THEN HandleAsk(m.token) ELSE HandleResolved(m.id)
    /\ UNCHANGED <<codex, down, links, phase, decisions, late, leaving, known, link, history>>

Forwards(t) ==
    /\ keyed' = keyed \cup {t}
    /\ stage' = Hears(Id(t))

\* The terminal answers: the first answer is forwarded and the adapter told,
\* one that a decision has overtaken is dropped.
HandleTerminal ==
    /\ Free /\ phase = "terminal" /\ down # <<>>
    /\ LET t == Head(down)
           r == Id(t)
       IN  /\ down' = Tail(down)
           /\ pending' = pending \ Pends(r)
           /\ telling' = Pends(r)
           /\ IF Pends(r) = {} /\ Records(r) # {}
              THEN /\ suppressed' = Others(r) \cup
                        {[s EXCEPT !.seen = TRUE] : s \in {x \in Records(r) : ~x.resolved}}
                   /\ UNCHANGED <<keyed, stage>>
              ELSE Forwards(t) /\ UNCHANGED suppressed
    /\ phase' = "expire"
    /\ UNCHANGED <<asks, up, prompts, links, decisions, late, opening, leaving, known, link, sent>>

\* _expire_pending
Unnotified(S) == {s.token : s \in {x \in S : ~x.notified}}

NothingExpired == {}                                                             \* faulty
ExpiredPending == pending \cap late

Expire ==
    /\ Free /\ phase = "expire"
    /\ LET lapsed == {s \in suppressed : s.token \in late}
       IN  /\ pending' = pending \ ExpiredPending
           /\ suppressed' = suppressed \ lapsed
           /\ telling' = ExpiredPending \cup Unnotified(lapsed)
    /\ phase' = "decisions"
    /\ UNCHANGED <<codex, up, terminal, links, decisions, late, opening, leaving, known, link, history>>

\* A phase ends when it finds nothing (more) to do.
NextPhase ==
    /\ Free
    /\ \/ phase = "decisions" /\ decisions = <<>> /\ phase' = "events"
       \/ phase = "events" /\ phase' = "terminal"
       \/ phase = "terminal" /\ down = <<>> /\ phase' = "expire"
    /\ UNCHANGED <<codex, up, terminal, links, records, decisions, late, opening, telling, leaving, known, link, history>>

UnresolvedDecided == Unnotified(suppressed)                                      \* faulty

\* What nobody has been told of when the connection goes
Unresolved == pending \cup Unnotified(suppressed)

\* The terminal or Codex hangs up, or the proxy is closed: _clear_connection.
Break ==
    /\ Free
    /\ stage' = [r \in Requests |-> IF stage[r] \in {"open", "waiting"} THEN "waiting" ELSE "over"]
    /\ phase' = "down" /\ up' = <<>> /\ down' = <<>> /\ prompts' = {}
    /\ pending' = {} /\ suppressed' = {} /\ decisions' = <<>>
    /\ leaving' = leaving \cup Unresolved
    /\ UNCHANGED <<asks, links, late, opening, telling, known, link, history>>

\* on_approval_request: the adapter takes the request, or ignores one of
\* another thread or too many. It may raise, before or after.
TellOpened ==
    /\ opening # None /\ ~opening.raised
    /\ \/ opening' = None
       \/ opening' = [opening EXCEPT !.raised = TRUE]
    /\ \/ UNCHANGED known
       \/ Cardinality(known) < MaxPending /\ known' = known \cup {opening.token}
    /\ UNCHANGED <<codex, up, terminal, links, phase, records, decisions, late, telling, leaving, link, history>>

\* Then the proxy gives the token up, unless a decision has taken it by now.
GiveUp ==
    /\ opening # None /\ opening.raised
    /\ opening' = None
    /\ pending' = pending \ {opening.token}
    /\ telling' = pending \cap {opening.token}
    /\ UNCHANGED <<codex, up, terminal, links, phase, suppressed, decisions, late, leaving, known, link, history>>

\* on_approval_resolved
TellResolved(t) ==
    /\ t \in telling \cup leaving
    /\ telling' = telling \ {t}
    /\ leaving' = leaving \ {t}
    /\ known' = known \ {t}
    /\ UNCHANGED <<codex, up, terminal, links, phase, records, decisions, late, opening, link, history>>

-----------------------------------------------------------------------------
(* The link thread                                                         *)

Busy == link.at \in {"resolve", "forget"}

\* The adapter looks the approval up. It expires there no sooner than here.
Decide(t) ==
    /\ ~Busy /\ t \in known
    /\ \E at \in {"resolve"} \cup (IF t \in late THEN {"refused"} ELSE {}) :
         link' = [at |-> at, token |-> t]
    /\ UNCHANGED <<codex, up, terminal, links, phase, records, decisions, late, opening, telling, leaving, known, history>>

Ends(outcome) == link' = [link EXCEPT !.at = outcome]

\* resolve_approval: the token leaves the pending ones, its id is suppressed
\* and the decision queued, all or nothing.
Refusal(t) ==
    IF t \notin pending THEN "refused"
    ELSE IF \/ Records(Id(t)) = {} /\ Cardinality(suppressed) >= MaxPending
            \/ Len(decisions) >= MaxPending
         THEN "undelivered"
         ELSE "none"

Resolve ==
    /\ link.at = "resolve"
    /\ LET t == link.token
       IN  IF Refusal(t) = "none"
           THEN /\ pending' = pending \ {t}
                /\ suppressed' = Others(Id(t)) \cup
                     {[token |-> t, resolved |-> FALSE, seen |-> FALSE, notified |-> FALSE]}
                /\ decisions' = Append(decisions, t)
                /\ Ends("forget")
           ELSE /\ Ends(Refusal(t))
                /\ UNCHANGED <<records, decisions>>
    /\ UNCHANGED <<codex, up, terminal, links, phase, late, opening, telling, leaving, known, history>>

KeepsRecord(t) == known                                                          \* faulty

\* _forget_approval_locked
Forgotten(t) == known \ {t}

Forget ==
    /\ link.at = "forget"
    /\ known' = Forgotten(link.token)
    /\ Ends("accepted")
    /\ UNCHANGED <<codex, up, terminal, links, phase, records, decisions, late, opening, telling, leaving, history>>

ConnectionStep ==
    \/ SendDecision \/ HandleUpstream \/ HandleTerminal \/ Expire \/ NextPhase
    \/ TellOpened \/ GiveUp \/ \E t \in Tokens : TellResolved(t)

LinkStep == Resolve \/ Forget

Next ==
    \/ \E r \in Requests : CodexAsks(r) \/ CodexResolves(r)
    \/ \E t \in Tokens : TerminalAnswers(t) \/ Lateness(t) \/ Decide(t)
    \/ Connect \/ Break
    \/ ConnectionStep \/ LinkStep

\* Threads run and the clock advances; nobody has to answer, connect or hang up.
Spec == /\ Init /\ [][Next]_vars
        /\ WF_vars(ConnectionStep) /\ WF_vars(LinkStep)
        /\ WF_vars(\E t \in leaving : TellResolved(t))
        /\ WF_vars(\E t \in Tokens : Lateness(t))

TypeOK ==
    /\ asks \in [Requests -> 0..MaxAsks]
    /\ stage \in [Requests -> {"open", "answered", "waiting", "over"}]
    /\ up \in Seq(Message) /\ Len(up) <= MaxQueued
    /\ down \in Seq(Tokens) /\ prompts \subseteq Tokens /\ links \in 0..MaxLinks
    /\ phase \in {"down", "decisions", "events", "terminal", "expire"}
    /\ pending \subseteq Tokens /\ Cardinality(pending) <= MaxPending
    /\ suppressed \subseteq Suppressed /\ Cardinality(suppressed) <= MaxPending
    /\ \A r \in Requests : Cardinality(Pends(r)) + Cardinality(Records(r)) <= 1
    /\ decisions \in Seq(Tokens) /\ Len(decisions) <= MaxPending
    /\ late \subseteq Tokens /\ opening \in OpenCall \cup {None} /\ telling \cup leaving \subseteq Tokens
    /\ known \subseteq Tokens /\ Cardinality(known) <= MaxPending
    /\ link \in Link \cup Outcome \cup {Idle}
    /\ sent \subseteq Tokens /\ keyed \subseteq Tokens

\* Codex gets one answer to what it asked, the surface's or the terminal's,
\* whichever comes first, unless the record that holds the late one back has
\* expired or serves several requests of one id.
OneAnswer == \A t \in sent \cap keyed : t \in late \/ asks[Id(t)] > 1

\* ADR 0033: a voice-first response cannot leak the terminal's late duplicate
\* into the app-server, even when it arrives after serverRequest/resolved.
NoLeak == \A t \in sent \cap keyed : t \in late

\* The adapter holds no approval that nobody is going to take from it: the
\* proxy has it too, or a callback is due, or the link thread is forgetting it.
InStep ==
    \A t \in known :
        \/ t \in pending \cup Unnotified(suppressed) \cup telling \cup leaving
        \/ link.at = "forget" /\ link.token = t

\* A decision that was not accepted does not reach Codex all the same.
OutcomeTrue ==
    link.at \in {"undelivered", "refused"} => link.token \notin sent \cup ToSet(decisions)

\* Every approval a surface can decide is some time taken back from it, by an
\* answer, by Codex, by the clock or by the end of the connection.
Released == \A t \in Tokens : t \in known ~> t \notin known

\* The adapter's, the proxy's and the link thread's view of an approval fit together between the
\* three locks it passes, within their limits.
Consistent == TypeOK /\ InStep /\ OutcomeTrue
=============================================================================
