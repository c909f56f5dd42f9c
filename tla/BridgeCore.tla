----------------------------- MODULE BridgeCore -----------------------------
(***************************************************************************)
(* The single-threaded Bridge core, bridge/deskhelm_core/core.py (Core).   *)
(* The server feeds it one input at a time -- a new connection, a frame, a *)
(* closed socket, a clock tick -- so every action below is one complete    *)
(* input: the handler and every helper it calls.                           *)
(*                                                                         *)
(* The core leases each session to one host connection, dispatches client  *)
(* commands to that host as effects, keeps a receipt per command so that a *)
(* duplicate is not dispatched again, and reserves the approval ticket a   *)
(* decision names until the host reports what became of it.                *)
(*                                                                         *)
(* Abstracted: what a prompt, a message or a question says; the projection *)
(* the console and interaction streams carry; the numbering of facts (a    *)
(* gap, like every frame that breaks a rule, is Leave); command results    *)
(* that change nothing, such as not_permitted or target_not_found.         *)
(***************************************************************************)
EXTENDS Integers, FiniteSets, Functions

CONSTANTS
    Conns,       \* connection ids; one is used again only after it is gone
    Keys,        \* session keys
    Clients,     \* client ids, the issuers of commands
    Peers,       \* the clients that connect, each with its tier
    Commands,    \* the command envelopes clients may send
    Requests,    \* the requests a vendor may open
    Capabilities,\* the capability matrices a host may report
    None

CONSTANTS        \* CoreLimits
    MaxSessions, MaxHosts, MaxClients, MaxReceipts, MaxTickets,
    Retention,   \* receipt_retention_ms
    Deadline,    \* effect_deadline_ms
    TTL          \* disconnected_ttl_ms

CONSTANTS        \* bounds of the model, not of the code
    MaxNow,      \* the last instant
    MaxId,       \* ids _new_id may mint
    MaxWaits     \* results one connection may wait for on one receipt

Decisions == {"approve", "reject", "answer"}
Kinds     == {"focus", "submit_prompt", "interrupt", "configure_session"} \cup Decisions
Tiers     == {"operator", "voice", "device", "observer"}
Activities == {"starting", "idle", "working", "waiting_approval", "waiting_input"}
Codes     == {"none", "focused", "dispatched", "dispatch_failed"}

\* A command is its own fingerprint: SHA-256 over the whole envelope.
Command == [kind : Kinds, target : Keys, issuer : Clients, key : Nat,
            expires : Nat, approval : Nat]
Request == [ref : Nat, kind : {"approval", "input"}, expires : Nat,
            answerable : BOOLEAN, blocking : BOOLEAN]
\* allows: the command kinds whose effect the vendor can perform.
Capability == [rejectsWhileBusy : BOOLEAN, allows : SUBSET Kinds]

ASSUME BridgeAssumption ==
    /\ None \notin Conns /\ None \notin Keys /\ None \notin Clients /\ None \notin Tiers
    /\ Peers \subseteq Clients \X Tiers
    /\ Commands \subseteq Command
    /\ Requests \subseteq Request
    /\ IsFiniteSet(Requests)
    /\ Capabilities \subseteq Capability
    /\ {MaxSessions, MaxHosts, MaxClients, MaxReceipts, MaxTickets, Retention,
        Deadline, TTL, MaxNow, MaxId, MaxWaits} \subseteq Nat

VARIABLES
    now,       \* int(time.time() * 1000), read once per input
    conns,     \* _connections
    sessions,  \* _sessions
    focus,     \* _focus
    receipts,  \* _receipts, by scope
    inFlight,  \* _in_flight
    counter,   \* _counter
    spent,     \* history: commands whose effect the vendor may have got
    outlived   \* history: blocking tickets that were reserved when a turn ended

vars == <<now, conns, sessions, focus, receipts, inFlight, counter, spent, outlived>>

Scopes == Clients \X Nat
Scope(cmd) == <<cmd.issuer, cmd.key>>
UsedScopes == {Scope(cmd) : cmd \in Commands}

Connection == [role : {"none", "host", "client"}, client : Clients \cup {None},
               tier : Tiers \cup {None}, session : Keys \cup {None}]
Gone       == [role |-> "gone"]
Fresh      == [role |-> "none", client |-> None, tier |-> None, session |-> None]

Ticket     == [id : Nat, request : Requests, reserved : BOOLEAN, resolved : BOOLEAN]
Session    == [life : {"active", "disconnected"}, owner : Conns \cup {None},
               caps : Capabilities, activity : Activities, ready : BOOLEAN,
               turn : BOOLEAN, attention : BOOLEAN, tickets : SUBSET Ticket,
               decided : SUBSET [id : Nat, expires : Nat], since : Nat]
NoSession  == [life |-> "absent"]

Receipt    == [cmd : Commands, until : Nat, result : Codes, waiters : [Conns -> Nat]]
NoReceipt  == [result |-> "absent"]
Nobody     == [c \in Conns |-> 0]

Flight     == [id : Nat, cmd : Commands, deadline : Nat,
               host : Conns \cup {None}]

TypeOK ==
    /\ now \in Nat
    /\ conns \in [Conns -> Connection \cup {Gone}]
    /\ sessions \in [Keys -> Session \cup {NoSession}]
    /\ focus \in Keys \cup {None}
    /\ receipts \in [UsedScopes -> Receipt \cup {NoReceipt}]
    /\ inFlight \subseteq Flight
    /\ counter \in Nat
    /\ spent \subseteq Commands
    /\ outlived \subseteq Nat

Init ==
    /\ now = 1
    /\ conns = [c \in Conns |-> Gone]
    /\ sessions = [k \in Keys |-> NoSession]
    /\ focus = None
    /\ receipts = [s \in UsedScopes |-> NoReceipt]
    /\ inFlight = {}
    /\ counter = 0
    /\ spent = {}
    /\ outlived = {}

-----------------------------------------------------------------------------
(* Helpers: each is the code's function on one record or table.            *)

LaterIgnoringExpiry(a, b) == b                              \* faulty

Later(a, b) == IF a > b THEN a ELSE b

\* _TIER_COMMANDS
TierCommands(tier) ==
    CASE tier = "operator" -> Kinds
      [] tier = "voice"    -> {"submit_prompt", "approve", "reject"}
      [] tier = "device"   -> {"focus", "interrupt", "approve", "reject"}
      [] OTHER             -> {}

Live(k)      == sessions[k] # NoSession
Active(k)    == Live(k) /\ sessions[k].life = "active"
Tickets(k)   == IF Live(k) THEN sessions[k].tickets ELSE {}
FlightsOf(k) == {f \in inFlight : f.cmd.target = k}
Pending(s)   == receipts[s] # NoReceipt /\ receipts[s].result = "none"

\* _recompute: the activity is derived from the rest of the record.
Derived(s) ==
    LET inputs == {t \in s.tickets : t.request.kind = "input"}
    IN  IF s.attention \/ inputs # s.tickets            THEN "waiting_approval"
        ELSE IF \E t \in inputs : t.request.blocking     THEN "waiting_input"
        ELSE IF s.turn                                   THEN "working"
        ELSE IF inputs # {}                              THEN "waiting_input"
        ELSE IF s.ready                                  THEN "idle"
        ELSE                                                  "starting"
Recompute(s) == [s EXCEPT !.activity = Derived(s)]

NewTicket(id, req) ==
    [id |-> id, request |-> req, reserved |-> FALSE, resolved |-> FALSE]

\* _open_ticket ignores a request it already holds or that has expired.
Opens(tickets, req) ==
    /\ \A t \in tickets : t.request.ref # req.ref
    /\ Cardinality(tickets) < MaxTickets
    /\ req.expires > now

Decide(tickets) == {[id |-> t.id, expires |-> t.request.expires] : t \in tickets}

SettleTicketsStayingReserved(s, flights, delivered) ==                \* faulty
    LET over == {t \in s.tickets : (delivered \/ t.resolved) /\ \E f \in flights :
                    f.cmd.kind \in Decisions /\ f.cmd.approval = t.id}
    IN  Recompute([s EXCEPT !.tickets = @ \ over, !.decided = @ \cup Decide(over)])

SettleTicketsNotRecomputed(s, flights, delivered) ==                  \* faulty
    LET over == {t \in s.tickets : (delivered \/ t.resolved) /\ \E f \in flights :
                    f.cmd.kind \in Decisions /\ f.cmd.approval = t.id}
    IN  [s EXCEPT !.tickets = @ \ over, !.decided = @ \cup Decide(over)]

\* _settle on the ticket a settled flight names: delivered or resolved by the
\* vendor it is decided, otherwise it may be decided again.
SettleTickets(s, flights, delivered) ==
    LET named == {t \in s.tickets : \E f \in flights :
                     f.cmd.kind \in Decisions /\ f.cmd.approval = t.id}
        over  == {t \in named : delivered \/ t.resolved}
        back  == {[t EXCEPT !.reserved = FALSE] : t \in named \ over}
    IN  IF named = {} THEN s
        ELSE Recompute([s EXCEPT !.tickets = (@ \ named) \cup back,
                                 !.decided = @ \cup Decide(over)])

SettleReceiptsKeepingUndelivered(table, flights, code, delivered) ==  \* faulty
    [s \in UsedScopes |->
        IF table[s] = NoReceipt \/ \A f \in flights : Scope(f.cmd) # s THEN table[s]
        ELSE IF delivered THEN [table[s] EXCEPT !.result = code, !.waiters = Nobody]
        ELSE table[s]]

SettleReceiptsUnanswered(table, flights, code, delivered) ==          \* faulty
    [s \in UsedScopes |->
        IF table[s] = NoReceipt \/ \A f \in flights : Scope(f.cmd) # s THEN table[s]
        ELSE IF delivered THEN [table[s] EXCEPT !.result = code]
        ELSE NoReceipt]

\* _settle on the receipts: every waiter is answered; only a delivered
\* result is kept.
SettleReceipts(table, flights, code, delivered) ==
    [s \in UsedScopes |->
        IF table[s] = NoReceipt \/ \A f \in flights : Scope(f.cmd) # s THEN table[s]
        ELSE IF delivered THEN [table[s] EXCEPT !.result = code, !.waiters = Nobody]
        ELSE NoReceipt]

WithoutWaiterOnce(table, c) ==                                        \* faulty
    [s \in UsedScopes |->
        IF table[s] = NoReceipt THEN NoReceipt
        ELSE [table[s] EXCEPT !.waiters[c] = @ - 1]]

\* The waiters half of _forget.
WithoutWaiter(table, c) ==
    [s \in UsedScopes |->
        IF table[s] = NoReceipt THEN NoReceipt
        ELSE [table[s] EXCEPT !.waiters[c] = 0]]

\* Focus clears with the session it names.
FocusKept(lost) == focus                                              \* faulty
FocusWithout(lost) == IF focus \in lost THEN None ELSE focus

WithSessionsKept(removed) == conns                                    \* faulty

\* No connection keeps the key of a removed session.
WithoutSessions(removed) ==
    [c \in Conns |-> IF conns[c] # Gone /\ conns[c].session \in removed
                     THEN [conns[c] EXCEPT !.session = None] ELSE conns[c]]

\* What _forget leaves of a session whose host is gone.
Orphan(s) ==
    Recompute([s EXCEPT !.owner = None, !.life = "disconnected", !.since = now,
                        !.tickets = {}, !.attention = FALSE, !.turn = FALSE])

-----------------------------------------------------------------------------
(* Connections.                                                            *)

Connect(c) ==
    /\ conns[c] = Gone
    /\ conns' = [conns EXCEPT ![c] = Fresh]
    /\ UNCHANGED <<now, sessions, focus, receipts, inFlight, counter, spent, outlived>>

\* The owner's connection, or NoSession's lack of one.
Owns(c, k) == k # None /\ Live(k) /\ sessions[k].owner = c

\* disconnect and _refuse: the connection is forgotten, and a session it owns
\* is orphaned with its effects answered dispatch_failed.
Leave(c) ==
    LET k       == conns[c].session
        owned   == Owns(c, k)
        flights == IF owned THEN FlightsOf(k) ELSE {}
    IN  /\ conns[c] # Gone
        /\ conns' = [conns EXCEPT ![c] = Gone]
        /\ inFlight' = inFlight \ flights
        /\ receipts' = SettleReceipts(WithoutWaiter(receipts, c), flights,
                                      "dispatch_failed", TRUE)
        /\ sessions' = IF owned
                       THEN [sessions EXCEPT ![k] = Orphan(SettleTickets(@, flights, TRUE))]
                       ELSE sessions
        /\ focus' = IF owned THEN FocusWithout({k}) ELSE focus
        /\ UNCHANGED <<now, counter, spent, outlived>>

\* _hello: a role whose connections are at their limit is refused.
Hello(c, state, limit) ==
    /\ conns[c] = Fresh
    /\ IF Cardinality({d \in Conns : conns[d].role = state.role}) >= limit
       THEN Leave(c)
       ELSE /\ conns' = [conns EXCEPT ![c] = state]
            /\ UNCHANGED <<now, sessions, focus, receipts, inFlight, counter, spent,
                           outlived>>

HostHello(c) == Hello(c, [Fresh EXCEPT !.role = "host"], MaxHosts)

ClientHello(c, client, tier) ==
    Hello(c, [Fresh EXCEPT !.role = "client", !.client = client, !.tier = tier],
          MaxClients)

-----------------------------------------------------------------------------
(* Hosts.                                                                  *)

\* _session_open: the reports of a first or a replacement host.  A session
\* open elsewhere, a second session, or one too many refuses the connection.
Refuses(c, k) ==
    \/ conns[c].session # None
    \/ Active(k)
    \/ ~Live(k) /\ Cardinality({j \in Keys : Live(j)}) >= MaxSessions

Opened(c, k, caps, tickets) ==
    LET base == IF Live(k) THEN sessions[k]
                ELSE [life |-> "active", owner |-> None, caps |-> caps,
                      activity |-> "starting", ready |-> FALSE, turn |-> FALSE,
                      attention |-> FALSE, tickets |-> {}, decided |-> {}, since |-> 0]
    IN  Recompute([base EXCEPT !.owner = c, !.caps = caps, !.life = "active",
                               !.since = 0, !.ready = FALSE, !.attention = FALSE,
                               !.tickets = tickets])

\* A driver reports its open requests from a table by provider ref, at most
\* MAX_OPEN_REQUESTS of them.
Reportable(requests) ==
    /\ Cardinality(requests) <= MaxTickets
    /\ \A q, r \in requests : q.ref = r.ref => q = r

SessionOpen(c, k, caps, requests) ==
    /\ conns[c].role = "host"
    /\ Reportable(requests)
    /\ IF Refuses(c, k) THEN Leave(c)
       ELSE LET open == {r \in requests : r.expires > now}
                last == counter + Cardinality(open)
            IN  /\ last <= MaxId
                /\ \E id \in Bijection(open, (counter + 1) .. last) :
                     sessions' = [sessions EXCEPT ![k] =
                         Opened(c, k, caps, {NewTicket(id[r], r) : r \in open})]
                /\ counter' = last
                /\ conns' = [conns EXCEPT ![c].session = k]
                /\ UNCHANGED <<now, focus, receipts, inFlight, spent, outlived>>

\* The frames of a host that owns its session; any other host frame breaks
\* a rule (Leave).
Reports(c, k) == conns[c].role = "host" /\ conns[c].session = k /\ Owns(c, k)

\* Every fact but session_ended ends in _recompute.
Fact(k, record) ==
    /\ sessions' = [sessions EXCEPT ![k] = Recompute(record)]
    /\ UNCHANGED <<now, conns, focus, receipts, inFlight, spent>>

Ready(c, k) ==
    /\ Reports(c, k)
    /\ Fact(k, [sessions[k] EXCEPT !.ready = TRUE])
    /\ UNCHANGED <<counter, outlived>>

TurnStarted(c, k) ==
    /\ Reports(c, k)
    /\ Fact(k, [sessions[k] EXCEPT !.ready = TRUE, !.turn = TRUE])
    /\ UNCHANGED <<counter, outlived>>

RequestOpened(c, k, req) ==
    /\ Reports(c, k)
    /\ Opens(sessions[k].tickets, req)
    /\ counter < MaxId
    /\ counter' = counter + 1
    /\ Fact(k, [sessions[k] EXCEPT !.tickets = @ \cup {NewTicket(counter', req)}])
    /\ UNCHANGED outlived

\* A ticket whose decision is in flight only remembers that the vendor ended it
\* (resolved_by).
RequestResolved(c, k, t) ==
    /\ Reports(c, k)
    /\ t \in Tickets(k)
    /\ Fact(k, IF t.reserved
               THEN [sessions[k] EXCEPT !.tickets =
                        (@ \ {t}) \cup {[t EXCEPT !.resolved = TRUE]}]
               ELSE [sessions[k] EXCEPT !.tickets = @ \ {t},
                                        !.decided = @ \cup Decide({t})])
    /\ UNCHANGED <<counter, outlived>>

\* The turn's open requests go with it, but not those it does not wait on and
\* not those whose decision is in flight.
TurnTerminal(c, k) ==
    LET stays(t) == t.reserved \/ ~t.request.blocking
    IN  /\ Reports(c, k)
        /\ Fact(k, [sessions[k] EXCEPT !.turn = FALSE, !.attention = FALSE,
                                       !.tickets = {t \in @ : stays(t)}])
        /\ outlived' = outlived \cup {t.id : t \in {u \in sessions[k].tickets :
                                                     u.reserved /\ u.request.blocking}}
        /\ UNCHANGED counter

Status(c, k, attention) ==
    /\ Reports(c, k)
    /\ Fact(k, [sessions[k] EXCEPT !.attention = attention])
    /\ UNCHANGED <<counter, outlived>>

Capable(c, k, caps) ==
    /\ Reports(c, k)
    /\ Fact(k, [sessions[k] EXCEPT !.caps = caps])
    /\ UNCHANGED <<counter, outlived>>

\* _effect_result: the effect was accepted, or nothing of it reached the vendor
\* (undelivered, unsupported).  A result for an effect already settled, or for another
\* session, is ignored.
EffectResult(c, k, f, delivered) ==
    /\ Reports(c, k)
    /\ f \in FlightsOf(k)
    /\ inFlight' = inFlight \ {f}
    /\ sessions' = [sessions EXCEPT ![k] = SettleTickets(@, {f}, delivered)]
    /\ receipts' = SettleReceipts(receipts, {f}, "dispatched", delivered)
    /\ spent' = IF delivered THEN spent ELSE spent \ {f.cmd}
    /\ UNCHANGED <<now, conns, focus, counter, outlived>>

\* _remove_session, for session_close and the session_ended fact: the session
\* and its effects go, the connection stays.
SessionEnd(c, k) ==
    /\ Reports(c, k)
    /\ inFlight' = inFlight \ FlightsOf(k)
    /\ receipts' = SettleReceipts(receipts, FlightsOf(k), "dispatch_failed", TRUE)
    /\ sessions' = [sessions EXCEPT ![k] = NoSession]
    /\ focus' = FocusWithout({k})
    /\ conns' = WithoutSessions({k})
    /\ UNCHANGED <<now, counter, spent, outlived>>

-----------------------------------------------------------------------------
(* Clients.  A command that is refused changes nothing and is no action.   *)

\* The checks of _command up to the receipt.
Admitted(c, cmd) ==
    /\ conns[c].role = "client"
    /\ conns[c].client = cmd.issuer
    /\ now < cmd.expires
    /\ cmd.kind \in TierCommands(conns[c].tier)

\* A duplicate of a command in flight waits for the same result.
AwaitResult(c, cmd) ==
    LET s == Scope(cmd)
    IN  /\ Admitted(c, cmd)
        /\ Pending(s)
        /\ receipts[s].cmd = cmd
        /\ receipts[s].waiters[c] < MaxWaits
        /\ receipts' = [receipts EXCEPT ![s].waiters[c] = @ + 1]
        /\ UNCHANGED <<now, conns, sessions, focus, inFlight, counter, spent, outlived>>

\* The checks of _command from the receipt to the plan.
Accepts(c, cmd) ==
    /\ Admitted(c, cmd)
    /\ receipts[Scope(cmd)] = NoReceipt
    /\ Active(cmd.target)
    /\ Cardinality({s \in UsedScopes : receipts[s] # NoReceipt}) < MaxReceipts

Keep(cmd, result, waiters) ==
    [receipts EXCEPT ![Scope(cmd)] =
        [cmd |-> cmd, until |-> Later(cmd.expires, now + Retention),
         result |-> result, waiters |-> waiters]]

Focus(c, cmd) ==
    /\ cmd.kind = "focus"
    /\ Accepts(c, cmd)
    /\ focus' = cmd.target
    /\ receipts' = Keep(cmd, "focused", Nobody)
    /\ UNCHANGED <<now, conns, sessions, inFlight, counter, spent, outlived>>

DecidableTwice(s, cmd) ==                                             \* faulty
    /\ \A d \in s.decided : d.id # cmd.approval
    /\ \E t \in s.tickets : t.id = cmd.approval /\ t.request.expires > now

\* _plan_effect, when it plans an effect.
Decidable(s, cmd) ==
    /\ \A d \in s.decided : d.id # cmd.approval
    /\ \E t \in s.tickets :
         /\ t.id = cmd.approval
         /\ t.request.kind = IF cmd.kind = "answer" THEN "input" ELSE "approval"
         /\ t.request.expires > now
         /\ ~t.reserved
         /\ t.request.answerable

Busy == {"working", "waiting_approval", "waiting_input"}

Planned(s, cmd) ==
    IF cmd.kind = "submit_prompt" THEN ~(s.caps.rejectsWhileBusy /\ s.activity \in Busy)
    ELSE /\ cmd.kind \in s.caps.allows
         /\ cmd.kind \in Decisions => Decidable(s, cmd)

Reserve(tickets, id) ==
    {IF t.id = id THEN [t EXCEPT !.reserved = TRUE] ELSE t : t \in tickets}

Dispatch(c, cmd) ==
    LET k == cmd.target
    IN  /\ cmd.kind # "focus"
        /\ Accepts(c, cmd)
        /\ Planned(sessions[k], cmd)
        /\ counter < MaxId
        /\ counter' = counter + 1
        /\ receipts' = Keep(cmd, "none", [Nobody EXCEPT ![c] = 1])
        /\ inFlight' = inFlight \cup {[id |-> counter', cmd |-> cmd,
                          deadline |-> now + Deadline, host |-> sessions[k].owner]}
        /\ sessions' = IF cmd.kind \in Decisions
                       THEN [sessions EXCEPT ![k].tickets = Reserve(@, cmd.approval)]
                       ELSE sessions
        /\ spent' = spent \cup {cmd}
        /\ UNCHANGED <<now, conns, focus, outlived>>

-----------------------------------------------------------------------------
(* Time.                                                                   *)

Advance ==
    /\ now < MaxNow
    /\ now' = now + 1
    /\ UNCHANGED <<conns, sessions, focus, receipts, inFlight, counter, spent, outlived>>

\* The session part of tick: unreserved expired tickets and old decisions go.
Expire(s) ==
    LET kept == {t \in s.tickets : t.reserved \/ t.request.expires > now}
        aged == [s EXCEPT !.tickets = kept,
                          !.decided = {d \in @ : d.expires > now}]
    IN  IF kept = s.tickets THEN aged ELSE Recompute(aged)

LapsedWhileActive(k) == Active(k) /\ now - sessions[k].since >= TTL  \* faulty

Lapsed(k) == Live(k) /\ sessions[k].life = "disconnected" /\ now - sessions[k].since >= TTL

Tick ==
    LET removed == {k \in Keys : Lapsed(k)}
        late    == {f \in inFlight : f.deadline <= now \/ f.cmd.target \in removed}
        settled == SettleReceipts(receipts, late, "dispatch_failed", TRUE)
    IN  /\ inFlight' = inFlight \ late
        /\ sessions' = [k \in Keys |->
                          IF ~Live(k) \/ k \in removed THEN NoSession
                          ELSE Expire(SettleTickets(sessions[k], late \cap FlightsOf(k), TRUE))]
        /\ receipts' = [s \in UsedScopes |->
                          IF settled[s] # NoReceipt /\ settled[s].result # "none"
                                /\ settled[s].until <= now
                          THEN NoReceipt ELSE settled[s]]
        /\ focus' = FocusWithout(removed)
        /\ conns' = WithoutSessions(removed)
        /\ UNCHANGED <<now, counter, spent, outlived>>

-----------------------------------------------------------------------------

HostStep(c) ==
    \/ HostHello(c)
    \/ \E k \in Keys :
         \/ \E caps \in Capabilities, requests \in SUBSET Requests :
              SessionOpen(c, k, caps, requests)
         \/ Ready(c, k)
         \/ TurnStarted(c, k)
         \/ \E req \in Requests : RequestOpened(c, k, req)
         \/ \E t \in Tickets(k) : RequestResolved(c, k, t)
         \/ TurnTerminal(c, k)
         \/ \E attention \in BOOLEAN : Status(c, k, attention)
         \/ \E caps \in Capabilities : Capable(c, k, caps)
         \/ \E f \in inFlight, delivered \in BOOLEAN : EffectResult(c, k, f, delivered)
         \/ SessionEnd(c, k)

ClientStep(c) ==
    \/ \E peer \in Peers : ClientHello(c, peer[1], peer[2])
    \/ \E cmd \in Commands : AwaitResult(c, cmd) \/ Focus(c, cmd) \/ Dispatch(c, cmd)

Next ==
    \/ \E c \in Conns : Connect(c) \/ Leave(c) \/ HostStep(c) \/ ClientStep(c)
    \/ Advance
    \/ Tick

Spec == Init /\ [][Next]_vars

\* The core thread ticks whatever the traffic (server.py, _core_loop), and
\* time passes.  Nothing is assumed of hosts and clients.
Fairness == WF_vars(Advance) /\ WF_vars(Tick)

FairSpec == Spec /\ Fairness

-----------------------------------------------------------------------------
(* What the core promises.                                                 *)

\* A session is leased to exactly one live host connection or to none: every
\* active session's owner points back at it, and a connection that names a
\* session owns it (_session_open, _forget and _remove_session agree).
Lease ==
    /\ \A k \in Keys : Active(k) =>
         /\ sessions[k].owner \in Conns
         /\ conns[sessions[k].owner] # Gone
         /\ conns[sessions[k].owner].session = k
    /\ \A k \in Keys : Live(k) /\ ~Active(k) => sessions[k].owner = None
    /\ \A c \in Conns : conns[c] # Gone /\ conns[c].session # None =>
         conns[c].role = "host" /\ Owns(c, conns[c].session)

\* Each receipt without a result is owed one by exactly one effect, which the
\* session's present owner was sent; nobody waits on any other receipt.  A
\* receipt that lost its effect would keep its waiters forever.
Accounted ==
    /\ \A f \in inFlight :
         /\ Pending(Scope(f.cmd)) /\ receipts[Scope(f.cmd)].cmd = f.cmd
         /\ Active(f.cmd.target) /\ sessions[f.cmd.target].owner = f.host
    /\ \A s \in UsedScopes : Pending(s) => \E f \in inFlight : Scope(f.cmd) = s
    /\ \A f, g \in inFlight : Scope(f.cmd) = Scope(g.cmd) => f = g
    /\ \A s \in UsedScopes, c \in Conns :
         receipts[s] # NoReceipt /\ receipts[s].waiters[c] > 0 =>
             Pending(s) /\ conns[c] # Gone

\* A ticket is reserved exactly while one decision on it is in flight, and a
\* decided approval is never pending again.
Reserved ==
    /\ \A k \in Keys : \A t \in Tickets(k) :
         /\ t.reserved <=> \E f \in FlightsOf(k) :
                               f.cmd.kind \in Decisions /\ f.cmd.approval = t.id
         /\ t.resolved => t.reserved
         /\ \A d \in sessions[k].decided : d.id # t.id
    /\ \A f, g \in inFlight :
         /\ f.cmd.kind \in Decisions => \E t \in Tickets(f.cmd.target) : t.id = f.cmd.approval
         /\ f.cmd.kind \in Decisions /\ g.cmd.kind \in Decisions
                /\ f.cmd.approval = g.cmd.approval => f = g

\* Focus never outlives the session it names.
FocusActive == focus # None => Active(focus)

\* The cached activity is what the rest of the record derives, so no handler
\* forgets _recompute.
ActivityFresh == \A k \in Keys : Live(k) => sessions[k].activity = Derived(sessions[k])

\* No command is dispatched while an earlier effect of the same command may
\* have reached the vendor, however it is duplicated and whatever receipts
\* the tick has dropped.
DispatchOnce ==
    [][\A f \in inFlight' \ inFlight : f.cmd \notin spent]_vars

\* No approval gets a second decision unless the first provably never reached
\* the vendor, whoever sends it and whatever became of the session meanwhile.
DecideOnce ==
    [][\A f \in inFlight' \ inFlight, cmd \in spent :
         f.cmd.kind \in Decisions /\ cmd.kind \in Decisions
            => f.cmd.approval # cmd.approval]_vars

\* A host connection opens exactly one session and ends with it
\* (protocol/deskhelm-v2.md, "Hosts" and "Effects").
OneSessionPerConnection ==
    [][\A c \in Conns :
         conns[c] # Gone /\ conns[c].session # None
            => conns'[c] = Gone \/ conns'[c].session = conns[c].session]_vars

\* "When a turn ends, its open requests are cancelled, except those that are
\* not blocking" (protocol/deskhelm-v2.md): no request its turn should have
\* taken along is open for a decision.
TurnEndCancels ==
    \A k \in Keys : \A t \in Tickets(k) :
        t.id \in outlived /\ t.request.blocking => t.reserved
\* Every client that waits for the result of a dispatched command gets it or
\* leaves, though the host says nothing, leaves or is replaced.
Answered ==
    \A c \in Conns, s \in UsedScopes :
        LET waits == receipts[s] # NoReceipt /\ receipts[s].waiters[c] > 0
        IN  waits /\ (\E f \in inFlight : Scope(f.cmd) = s /\ f.deadline <= MaxNow) ~> ~waits

\* A disconnected session is reopened or removed: none is kept forever.
NoneLingers ==
    \A k \in Keys :
        LET orphan == Live(k) /\ ~Active(k)
        IN  orphan /\ sessions[k].since + TTL <= MaxNow ~> ~orphan
=============================================================================
