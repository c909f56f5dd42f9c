-------------------------- MODULE BridgeCoreProofs --------------------------
(***************************************************************************)
(* What TLAPS proves of the bridge core, for any sessions, hosts, commands *)
(* and limits: the lease has one owner, a focus nobody else holds, the     *)
(* activity says what the session waits for, every effect in flight has    *)
(* its receipt, a command is dispatched once, a ticket is reserved while,  *)
(* and only while, one decision on it is in flight, and no approval is     *)
(* decided twice.                                                          *)
(***************************************************************************)
EXTENDS BridgeCore, TLAPS, FiniteSetTheorems

-----------------------------------------------------------------------------
(* The helpers keep the types of the records and tables they work on.      *)

\* _recompute only replaces the activity.
LEMMA RecomputeType ==
    ASSUME NEW s \in Session
    PROVE  /\ Recompute(s) \in Session
           /\ Derived(s) \in Activities
BY DEF Recompute, Derived, Session, Activities

\* Two records of a session with the same lease.
SameLease(s, t) == s.life = t.life /\ s.owner = t.owner

\* The tickets a set of flights decides, and what settling makes of them.
Named(s, flights) == {t \in s.tickets : \E f \in flights :
                         f.cmd.kind \in Decisions /\ f.cmd.approval = t.id}
Over(s, flights, delivered) == {t \in Named(s, flights) : delivered \/ t.resolved}
Back(s, flights, delivered) ==
    {[t EXCEPT !.reserved = FALSE] : t \in Named(s, flights) \ Over(s, flights, delivered)}
SettledRecord(s, flights, delivered) ==
    [s EXCEPT !.tickets = (@ \ Named(s, flights)) \cup Back(s, flights, delivered),
              !.decided = @ \cup Decide(Over(s, flights, delivered))]

\* A settled ticket is decided or released; the rest of the record stays.
LEMMA SettledRecordShape ==
    ASSUME NEW s \in Session, NEW flights \in SUBSET Flight, NEW delivered \in BOOLEAN
    PROVE  /\ SettledRecord(s, flights, delivered) \in Session
           /\ SameLease(SettledRecord(s, flights, delivered), s)
           /\ SettleTickets(s, flights, delivered) =
                 IF Named(s, flights) = {} THEN s
                 ELSE Recompute(SettledRecord(s, flights, delivered))
<1> DEFINE named == Named(s, flights)
           over  == Over(s, flights, delivered)
           back  == Back(s, flights, delivered)
           after == SettledRecord(s, flights, delivered)
<1>1. s.tickets \subseteq Ticket /\ s.decided \subseteq [id : Nat, expires : Nat]
  BY DEF Session
<1>2. back \subseteq Ticket
  BY <1>1 DEF Back, Named, Ticket
<1>3. Decide(over) \subseteq [id : Nat, expires : Nat]
  <2>1. \A t \in Ticket : t.id \in Nat /\ t.request.expires \in Nat
    BY BridgeAssumption DEF Ticket, Request
  <2> QED BY <1>1, <2>1 DEF Decide, Over, Named
<1>4. after \in Session /\ SameLease(after, s)
  <2>1. (s.tickets \ named) \cup back \in SUBSET Ticket
    BY <1>1, <1>2
  <2>2. s.decided \cup Decide(over) \in SUBSET [id : Nat, expires : Nat]
    BY <1>1, <1>3
  <2> HIDE DEF named, over, back
  <2>3. after = [s EXCEPT !.tickets = (@ \ named) \cup back, !.decided = @ \cup Decide(over)]
    BY DEF SettledRecord, named, over, back
  <2> HIDE DEF after
  <2> QED BY <2>1, <2>2, <2>3 DEF Session, SameLease
<1>5. SettleTickets(s, flights, delivered) = IF named = {} THEN s ELSE Recompute(after)
  BY DEF SettleTickets, SettledRecord, Named, Over, Back
<1> QED BY <1>4, <1>5

LEMMA SettleTicketsType ==
    ASSUME NEW s \in Session, NEW flights \in SUBSET Flight, NEW delivered \in BOOLEAN
    PROVE  SettleTickets(s, flights, delivered) \in Session
BY SettledRecordShape, RecomputeType

\* Settling flights answers or drops receipts and leaves the table a table.
LEMMA SettleReceiptsType ==
    ASSUME NEW table \in [UsedScopes -> Receipt \cup {NoReceipt}],
           NEW flights, NEW code \in Codes, NEW delivered \in BOOLEAN
    PROVE  SettleReceipts(table, flights, code, delivered)
               \in [UsedScopes -> Receipt \cup {NoReceipt}]
<1>1. Nobody \in [Conns -> Nat]
  BY DEF Nobody
<1> QED BY <1>1 DEF SettleReceipts, Receipt

LEMMA WithoutWaiterType ==
    ASSUME NEW table \in [UsedScopes -> Receipt \cup {NoReceipt}], NEW c \in Conns
    PROVE  WithoutWaiter(table, c) \in [UsedScopes -> Receipt \cup {NoReceipt}]
<1> SUFFICES ASSUME NEW s \in UsedScopes, table[s] # NoReceipt
             PROVE  [table[s] EXCEPT !.waiters[c] = 0] \in Receipt
  BY DEF WithoutWaiter
<1>1. table[s] \in Receipt
  OBVIOUS
<1>2. [table[s].waiters EXCEPT ![c] = 0] \in [Conns -> Nat]
  BY <1>1 DEF Receipt
<1> QED BY <1>1, <1>2 DEF Receipt

LEMMA OrphanType ==
    ASSUME now \in Nat, NEW s \in Session
    PROVE  Orphan(s) \in Session
<1> DEFINE after == [s EXCEPT !.owner = None, !.life = "disconnected", !.since = now,
                              !.tickets = {}, !.attention = FALSE, !.turn = FALSE]
<1>1. after \in Session
  BY DEF Session
<1> QED BY <1>1, RecomputeType DEF Orphan

LEMMA ExpireType ==
    ASSUME NEW s \in Session
    PROVE  Expire(s) \in Session
<1> DEFINE kept == {t \in s.tickets : t.reserved \/ t.request.expires > now}
           aged == [s EXCEPT !.tickets = kept,
                             !.decided = {d \in @ : d.expires > now}]
<1>1. aged \in Session
  BY DEF Session
<1> QED BY <1>1, RecomputeType DEF Expire

LEMMA WithoutSessionsType ==
    ASSUME conns \in [Conns -> Connection \cup {Gone}], NEW removed
    PROVE  WithoutSessions(removed) \in [Conns -> Connection \cup {Gone}]
BY DEF WithoutSessions, Connection

-----------------------------------------------------------------------------
(* Type correctness.                                                       *)

LEMMA TypeInit == Init => TypeOK
BY DEF Init, TypeOK, UsedScopes

\* A connection that leaves takes its session's effects and tickets along.
LEMMA LeaveType ==
    ASSUME TypeOK, NEW c \in Conns, Leave(c)
    PROVE  TypeOK'
<1> DEFINE k       == conns[c].session
           owned   == Owns(c, k)
           flights == IF owned THEN FlightsOf(k) ELSE {}
<1>1. flights \subseteq Flight /\ flights \subseteq inFlight
  BY DEF FlightsOf, TypeOK
<1>2. conns' \in [Conns -> Connection \cup {Gone}]
  BY DEF Leave, TypeOK
<1>3. inFlight' \subseteq Flight
  BY DEF Leave, TypeOK
<1>4. receipts' \in [UsedScopes -> Receipt \cup {NoReceipt}]
  <2>1. WithoutWaiter(receipts, c) \in [UsedScopes -> Receipt \cup {NoReceipt}]
    BY WithoutWaiterType DEF TypeOK
  <2>2. receipts' = SettleReceipts(WithoutWaiter(receipts, c), flights, "dispatch_failed", TRUE)
    BY DEF Leave
  <2> QED BY <2>1, <2>2, SettleReceiptsType DEF Codes
<1>5. sessions' \in [Keys -> Session \cup {NoSession}]
  <2>1. CASE owned
    <3>1. k \in Keys /\ sessions[k] \in Session
      BY <2>1 DEF Owns, Live, TypeOK, Leave, Connection
    <3>2. SettleTickets(sessions[k], flights, TRUE) \in Session
      BY <3>1, <1>1, SettleTicketsType
    <3>3. Orphan(SettleTickets(sessions[k], flights, TRUE)) \in Session
      BY <3>2, OrphanType DEF TypeOK
    <3>4. sessions' = [sessions EXCEPT ![k] = Orphan(SettleTickets(sessions[k], flights, TRUE))]
      BY <2>1 DEF Leave
    <3> QED BY <3>3, <3>4 DEF TypeOK
  <2>2. CASE ~owned
    BY <2>2 DEF Leave, TypeOK
  <2> QED BY <2>1, <2>2
<1>6. focus' \in Keys \cup {None}
  BY DEF Leave, FocusWithout, TypeOK
<1> QED BY <1>2, <1>3, <1>4, <1>5, <1>6 DEF Leave, TypeOK

LEMMA HelloType ==
    ASSUME TypeOK, NEW c \in Conns, NEW state \in Connection, NEW limit,
           Hello(c, state, limit)
    PROVE  TypeOK'
<1>1. CASE Leave(c)
  BY <1>1, LeaveType
<1>2. CASE conns' = [conns EXCEPT ![c] = state]
           /\ UNCHANGED <<now, sessions, focus, receipts, inFlight, counter, spent, outlived>>
  BY <1>2 DEF TypeOK
<1> QED BY <1>1, <1>2 DEF Hello

\* New tickets are fresh ids for requests the host reports.
LEMMA SessionOpenType ==
    ASSUME TypeOK, NEW c \in Conns, NEW k \in Keys, NEW caps \in Capabilities,
           NEW requests \in SUBSET Requests, SessionOpen(c, k, caps, requests)
    PROVE  TypeOK'
<1>1. CASE Refuses(c, k)
  BY <1>1, LeaveType DEF SessionOpen
<1>2. CASE ~Refuses(c, k)
  <2> DEFINE open == {r \in requests : r.expires > now}
             last == counter + Cardinality(open)
  <2>1. Cardinality(open) \in Nat
    BY BridgeAssumption, FS_Subset, FS_CardinalityType
  <2>2. PICK id \in Bijection(open, (counter + 1) .. last) :
           sessions' = [sessions EXCEPT ![k] =
                         Opened(c, k, caps, {NewTicket(id[r], r) : r \in open})]
    BY <1>2 DEF SessionOpen
  <2> DEFINE fresh == {NewTicket(id[r], r) : r \in open}
  <2>3. \A r \in open : id[r] \in Nat
    <3>1. id \in [open -> (counter + 1) .. last]
      BY DEF Bijection, Injection, Surjection
    <3> QED BY <3>1, <2>1 DEF TypeOK
  <2>4. fresh \in SUBSET Ticket
    <3>1. \A r \in open : NewTicket(id[r], r) \in Ticket
      BY <2>3 DEF NewTicket, Ticket
    <3> QED BY <3>1
  <2>5. Opened(c, k, caps, fresh) \in Session
    <3> DEFINE base == IF Live(k) THEN sessions[k]
                ELSE [life |-> "active", owner |-> None, caps |-> caps,
                      activity |-> "starting", ready |-> FALSE, turn |-> FALSE,
                      attention |-> FALSE, tickets |-> {}, decided |-> {}, since |-> 0]
               after == [base EXCEPT !.owner = c, !.caps = caps, !.life = "active",
                               !.since = 0, !.ready = FALSE, !.attention = FALSE,
                               !.tickets = fresh]
    <3>1. base \in Session
      BY DEF Live, TypeOK, Session, Activities
    <3>2. after \in Session
      <4> HIDE DEF base, fresh
      <4> QED BY <3>1, <2>4 DEF Session
    <3> QED BY <3>2, RecomputeType DEF Opened
  <2>6. sessions' \in [Keys -> Session \cup {NoSession}]
    <3> HIDE DEF fresh
    <3> QED BY <2>2, <2>5 DEF TypeOK, fresh
  <2>7. conns' \in [Conns -> Connection \cup {Gone}]
    <3>1. conns[c] \in Connection
      BY DEF SessionOpen, TypeOK, Gone
    <3>2. conns' = [conns EXCEPT ![c].session = k]
      BY <1>2 DEF SessionOpen
    <3>3. [conns[c] EXCEPT !.session = k] \in Connection
      BY <3>1 DEF Connection
    <3> QED BY <3>2, <3>3 DEF TypeOK
  <2>8. counter' \in Nat /\ UNCHANGED <<now, focus, receipts, inFlight, spent, outlived>>
    BY <1>2, <2>1 DEF SessionOpen, TypeOK
  <2> QED BY <2>6, <2>7, <2>8 DEF TypeOK
<1> QED BY <1>1, <1>2

\* A fact leaves a session behind whatever it changes of it.
LEMMA FactType ==
    ASSUME TypeOK, NEW k \in Keys, NEW record \in Session, Fact(k, record)
    PROVE  /\ sessions' \in [Keys -> Session \cup {NoSession}]
           /\ UNCHANGED <<now, conns, focus, receipts, inFlight, spent>>
BY RecomputeType DEF Fact, TypeOK

LEMMA ReportsType ==
    ASSUME TypeOK, NEW c \in Conns, NEW k \in Keys, Reports(c, k)
    PROVE  sessions[k] \in Session /\ Tickets(k) = sessions[k].tickets
BY DEF Reports, Owns, Live, TypeOK, Tickets

\* The facts that change a session's record.
Facts(c, k) ==
    \/ Ready(c, k)
    \/ TurnStarted(c, k)
    \/ \E req \in Requests : RequestOpened(c, k, req)
    \/ \E t \in Tickets(k) : RequestResolved(c, k, t)
    \/ TurnTerminal(c, k)
    \/ \E attention \in BOOLEAN : Status(c, k, attention)
    \/ \E caps \in Capabilities : Capable(c, k, caps)

\* Each fact leaves a well-typed record under the same lease.
LEMMA FactRecord ==
    ASSUME TypeOK, NEW c \in Conns, NEW k \in Keys, Facts(c, k)
    PROVE  /\ Reports(c, k)
           /\ \E record \in Session : Fact(k, record) /\ SameLease(record, sessions[k])
           /\ counter' \in Nat
           /\ outlived' \subseteq Nat
<1> DEFINE old    == sessions[k]
           Result == /\ \E record \in Session : Fact(k, record) /\ SameLease(record, old)
                     /\ counter' \in Nat
                     /\ outlived' \subseteq Nat
<1>0. Reports(c, k) /\ old \in Session /\ Tickets(k) = old.tickets
      /\ old.tickets \subseteq Ticket /\ old.decided \subseteq [id : Nat, expires : Nat]
  <2>1. Reports(c, k)
    BY DEF Facts, Ready, TurnStarted, RequestOpened, RequestResolved, TurnTerminal, Status,
           Capable
  <2> QED BY <2>1, ReportsType DEF Session
<1> SUFFICES Result
  BY <1>0
<1>1. CASE Ready(c, k)
  <2> DEFINE after == [old EXCEPT !.ready = TRUE]
  <2>1. after \in Session /\ SameLease(after, old)
    BY <1>0 DEF Session, SameLease
  <2> QED BY <2>1, <1>1 DEF Ready, TypeOK
<1>2. CASE TurnStarted(c, k)
  <2> DEFINE after == [old EXCEPT !.ready = TRUE, !.turn = TRUE]
  <2>1. after \in Session /\ SameLease(after, old)
    BY <1>0 DEF Session, SameLease
  <2> QED BY <2>1, <1>2 DEF TurnStarted, TypeOK
<1>3. ASSUME NEW req \in Requests, RequestOpened(c, k, req)
      PROVE  Result
  <2> DEFINE after == [old EXCEPT !.tickets = @ \cup {NewTicket(counter', req)}]
  <2>1. counter' \in Nat
    BY <1>3 DEF RequestOpened, TypeOK
  <2>2. NewTicket(counter', req) \in Ticket
    BY <2>1 DEF NewTicket, Ticket
  <2>3. after \in Session /\ SameLease(after, old)
    BY <1>0, <2>2 DEF Session, SameLease
  <2>4. Fact(k, after) /\ outlived' = outlived
    BY <1>3 DEF RequestOpened
  <2> QED BY <2>1, <2>3, <2>4 DEF TypeOK
<1>4. ASSUME NEW t \in Tickets(k), RequestResolved(c, k, t)
      PROVE  Result
  <2> DEFINE marked == [old EXCEPT !.tickets = (@ \ {t}) \cup {[t EXCEPT !.resolved = TRUE]}]
             closed == [old EXCEPT !.tickets = @ \ {t}, !.decided = @ \cup Decide({t})]
  <2>0. t \in Ticket
    BY <1>0, <1>4 DEF Session
  <2>1. t \in Ticket /\ [t EXCEPT !.resolved = TRUE] \in Ticket
    BY <2>0 DEF Ticket
  <2>2. Decide({t}) \subseteq [id : Nat, expires : Nat]
    BY <2>1, BridgeAssumption DEF Ticket, Request, Decide
  <2>3. marked \in Session /\ SameLease(marked, old)
    BY <1>0, <2>1 DEF Session, SameLease
  <2>4. closed \in Session /\ SameLease(closed, old)
    BY <1>0, <2>2 DEF Session, SameLease
  <2>5. Fact(k, IF t.reserved THEN marked ELSE closed) /\ UNCHANGED <<counter, outlived>>
    BY <1>4 DEF RequestResolved
  <2> HIDE DEF marked, closed
  <2> QED BY <2>3, <2>4, <2>5 DEF TypeOK
<1>5. CASE TurnTerminal(c, k)
  <2> DEFINE kept  == {t \in old.tickets : t.reserved \/ ~t.request.blocking}
             after == [old EXCEPT !.turn = FALSE, !.attention = FALSE, !.tickets = kept]
             ids   == {t.id : t \in {u \in old.tickets : u.reserved /\ u.request.blocking}}
  <2>1. after \in Session /\ SameLease(after, old)
    BY <1>0 DEF Session, SameLease
  <2>2. ids \subseteq Nat
    BY <1>0 DEF Ticket
  <2>3. Fact(k, after) /\ counter' = counter /\ outlived' = outlived \cup ids
    BY <1>5 DEF TurnTerminal
  <2> HIDE DEF after, ids
  <2> QED BY <2>1, <2>2, <2>3 DEF TypeOK
<1>6. ASSUME NEW attention \in BOOLEAN, Status(c, k, attention)
      PROVE  Result
  <2> DEFINE after == [old EXCEPT !.attention = attention]
  <2>1. after \in Session /\ SameLease(after, old)
    BY <1>0 DEF Session, SameLease
  <2> QED BY <2>1, <1>6 DEF Status, TypeOK
<1>7. ASSUME NEW caps \in Capabilities, Capable(c, k, caps)
      PROVE  Result
  <2> DEFINE after == [old EXCEPT !.caps = caps]
  <2>1. after \in Session /\ SameLease(after, old)
    BY <1>0 DEF Session, SameLease
  <2> QED BY <2>1, <1>7 DEF Capable, TypeOK
<1> HIDE DEF Result
<1> QED BY <1>1, <1>2, <1>3, <1>4, <1>5, <1>6, <1>7 DEF Facts

LEMMA FactsType ==
    ASSUME TypeOK, NEW c \in Conns, NEW k \in Keys, Facts(c, k)
    PROVE  TypeOK'
BY FactRecord, FactType DEF TypeOK

LEMMA EffectResultType ==
    ASSUME TypeOK, NEW c \in Conns, NEW k \in Keys, NEW f \in inFlight,
           NEW delivered \in BOOLEAN, EffectResult(c, k, f, delivered)
    PROVE  TypeOK'
<1>1. sessions[k] \in Session /\ {f} \in SUBSET Flight
  BY ReportsType DEF EffectResult, TypeOK
<1>2. SettleTickets(sessions[k], {f}, delivered) \in Session
  BY <1>1, SettleTicketsType
<1>3. sessions' \in [Keys -> Session \cup {NoSession}]
  BY <1>2 DEF EffectResult, TypeOK
<1>4. receipts' \in [UsedScopes -> Receipt \cup {NoReceipt}]
  BY SettleReceiptsType DEF EffectResult, TypeOK, Codes
<1> QED BY <1>3, <1>4 DEF EffectResult, TypeOK

LEMMA SessionEndType ==
    ASSUME TypeOK, NEW c \in Conns, NEW k \in Keys, SessionEnd(c, k)
    PROVE  TypeOK'
<1>1. receipts' \in [UsedScopes -> Receipt \cup {NoReceipt}]
  BY SettleReceiptsType DEF SessionEnd, TypeOK, Codes
<1>2. conns' \in [Conns -> Connection \cup {Gone}]
  BY WithoutSessionsType DEF SessionEnd, TypeOK
<1>3. focus' \in Keys \cup {None}
  BY DEF SessionEnd, FocusWithout, TypeOK
<1> QED BY <1>1, <1>2, <1>3 DEF SessionEnd, TypeOK

LEMMA KeepType ==
    ASSUME TypeOK, NEW cmd \in Commands, NEW result \in Codes,
           NEW waiters \in [Conns -> Nat]
    PROVE  Keep(cmd, result, waiters) \in [UsedScopes -> Receipt \cup {NoReceipt}]
<1>1. Later(cmd.expires, now + Retention) \in Nat
  BY BridgeAssumption DEF Later, Command, TypeOK
<1> QED BY <1>1 DEF Keep, Receipt, TypeOK

LEMMA ClientsType ==
    ASSUME TypeOK, NEW c \in Conns, NEW cmd \in Commands,
           AwaitResult(c, cmd) \/ Focus(c, cmd) \/ Dispatch(c, cmd)
    PROVE  TypeOK'
<1>0. Scope(cmd) \in UsedScopes
  BY DEF UsedScopes
<1>1. CASE AwaitResult(c, cmd)
  <2> DEFINE s == Scope(cmd)
             more == [receipts[s] EXCEPT !.waiters[c] = @ + 1]
  <2>1. receipts[s] \in Receipt
    BY <1>0, <1>1 DEF AwaitResult, Pending, TypeOK
  <2>2. [receipts[s].waiters EXCEPT ![c] = @ + 1] \in [Conns -> Nat]
    BY <2>1 DEF Receipt
  <2>3. more \in Receipt
    BY <2>1, <2>2 DEF Receipt
  <2> QED BY <1>1, <2>3 DEF AwaitResult, TypeOK
<1>2. CASE Focus(c, cmd)
  <2>1. Nobody \in [Conns -> Nat] /\ "focused" \in Codes
    BY DEF Nobody, Codes
  <2>2. cmd.target \in Keys
    BY BridgeAssumption DEF Command
  <2> QED BY <1>2, <2>1, <2>2, KeepType DEF Focus, TypeOK
<1>3. CASE Dispatch(c, cmd)
  <2> DEFINE k == cmd.target
             flight == [id |-> counter', cmd |-> cmd, deadline |-> now + Deadline,
                        host |-> sessions[k].owner]
  <2>1. k \in Keys /\ sessions[k] \in Session
    BY <1>3, BridgeAssumption DEF Command, Dispatch, Accepts, Active, Live, TypeOK
  <2>2. counter' \in Nat
    BY <1>3 DEF Dispatch, TypeOK
  <2>3. flight \in Flight
    BY <2>1, <2>2, BridgeAssumption DEF Flight, Session, TypeOK
  <2>4. receipts' \in [UsedScopes -> Receipt \cup {NoReceipt}]
    <3>1. [Nobody EXCEPT ![c] = 1] \in [Conns -> Nat] /\ "none" \in Codes
      BY DEF Nobody, Codes
    <3> QED BY <1>3, <3>1, KeepType DEF Dispatch
  <2>5. sessions' \in [Keys -> Session \cup {NoSession}]
    <3>1. Reserve(sessions[k].tickets, cmd.approval) \in SUBSET Ticket
      <4>1. sessions[k].tickets \subseteq Ticket
        BY <2>1 DEF Session
      <4> QED BY <4>1 DEF Reserve, Ticket
    <3>2. [sessions[k] EXCEPT !.tickets = Reserve(@, cmd.approval)] \in Session
      BY <2>1, <3>1 DEF Session
    <3> QED BY <1>3, <2>1, <3>2 DEF Dispatch, TypeOK
  <2>6. inFlight' \subseteq Flight
    BY <1>3, <2>3 DEF Dispatch, TypeOK
  <2> QED BY <1>3, <2>2, <2>4, <2>5, <2>6 DEF Dispatch, TypeOK
<1> QED BY <1>1, <1>2, <1>3

LEMMA TickType ==
    ASSUME TypeOK, Tick
    PROVE  TypeOK'
<1> DEFINE removed == {k \in Keys : Lapsed(k)}
           late    == {f \in inFlight : f.deadline <= now \/ f.cmd.target \in removed}
           settled == SettleReceipts(receipts, late, "dispatch_failed", TRUE)
<1>1. settled \in [UsedScopes -> Receipt \cup {NoReceipt}]
  BY SettleReceiptsType DEF TypeOK, Codes
<1>2. receipts' \in [UsedScopes -> Receipt \cup {NoReceipt}]
  <2> HIDE DEF settled
  <2>1. receipts' = [s \in UsedScopes |->
                       IF settled[s] # NoReceipt /\ settled[s].result # "none"
                             /\ settled[s].until <= now
                       THEN NoReceipt ELSE settled[s]]
    BY DEF Tick, settled
  <2> QED BY <1>1, <2>1
<1>3. ASSUME NEW k \in Keys, Live(k)
      PROVE  Expire(SettleTickets(sessions[k], late \cap FlightsOf(k), TRUE)) \in Session
  <2>1. sessions[k] \in Session
    BY <1>3 DEF Live, TypeOK
  <2>2. late \cap FlightsOf(k) \in SUBSET Flight
    BY DEF TypeOK
  <2> QED BY <2>1, <2>2, SettleTicketsType, ExpireType
<1>4. sessions' \in [Keys -> Session \cup {NoSession}]
  <2>1. sessions' = [k \in Keys |->
                       IF ~Live(k) \/ k \in removed THEN NoSession
                       ELSE Expire(SettleTickets(sessions[k], late \cap FlightsOf(k), TRUE))]
    BY DEF Tick
  <2> HIDE DEF removed, late
  <2> QED BY <2>1, <1>3
<1>5. conns' \in [Conns -> Connection \cup {Gone}]
  BY WithoutSessionsType DEF Tick, TypeOK
<1>6. focus' \in Keys \cup {None}
  BY DEF Tick, FocusWithout, TypeOK
<1>7. inFlight' \subseteq Flight
  BY DEF Tick, TypeOK
<1> QED BY <1>2, <1>4, <1>5, <1>6, <1>7 DEF Tick, TypeOK

LEMMA TypeStep == TypeOK /\ [Next]_vars => TypeOK'
<1> SUFFICES ASSUME TypeOK, [Next]_vars
             PROVE  TypeOK'
  OBVIOUS
<1> USE BridgeAssumption
<1>1. ASSUME NEW c \in Conns, Connect(c)
      PROVE  TypeOK'
  BY <1>1 DEF Connect, Fresh, Connection, TypeOK
<1>2. ASSUME NEW c \in Conns, HostStep(c)
      PROVE  TypeOK'
  <2>1. CASE HostHello(c)
    <3>1. [Fresh EXCEPT !.role = "host"] \in Connection
      BY DEF Fresh, Connection
    <3> QED BY <2>1, <3>1, HelloType DEF HostHello
  <2>2. ASSUME NEW k \in Keys, NEW caps \in Capabilities, NEW requests \in SUBSET Requests,
               SessionOpen(c, k, caps, requests)
        PROVE  TypeOK'
    BY <2>2, SessionOpenType
  <2>3. ASSUME NEW k \in Keys, NEW f \in inFlight, NEW delivered \in BOOLEAN,
               EffectResult(c, k, f, delivered)
        PROVE  TypeOK'
    BY <2>3, EffectResultType
  <2>4. ASSUME NEW k \in Keys, SessionEnd(c, k)
        PROVE  TypeOK'
    BY <2>4, SessionEndType
  <2> QED BY <1>2, <2>1, <2>2, <2>3, <2>4, FactsType DEF HostStep, Facts
<1>3. ASSUME NEW c \in Conns, ClientStep(c)
      PROVE  TypeOK'
  <2>1. ASSUME NEW peer \in Peers, ClientHello(c, peer[1], peer[2])
        PROVE  TypeOK'
    <3>1. [Fresh EXCEPT !.role = "client", !.client = peer[1], !.tier = peer[2]] \in Connection
      BY DEF Fresh, Connection
    <3> QED BY <2>1, <3>1, HelloType DEF ClientHello
  <2> QED BY <1>3, <2>1, ClientsType DEF ClientStep
<1>4. CASE Advance
  BY <1>4 DEF Advance, TypeOK
<1>5. CASE UNCHANGED vars
  BY <1>5 DEF vars, TypeOK
<1> QED BY <1>1, <1>2, <1>3, <1>4, <1>5, LeaveType, TickType DEF Next

\* The records and tables of the core keep their shape: the type invariant.
THEOREM TypeCorrect == Spec => []TypeOK
BY TypeInit, TypeStep, PTL DEF Spec

-----------------------------------------------------------------------------
(* What the helpers leave of a session's record.                           *)

LEMMA RecomputeKeeps ==
    ASSUME NEW s \in Session
    PROVE  /\ SameLease(Recompute(s), s)
           /\ Recompute(s).tickets = s.tickets
           /\ Recompute(s).decided = s.decided
BY DEF Recompute, Session, SameLease

LEMMA SettleTicketsLease ==
    ASSUME NEW s \in Session, NEW flights \in SUBSET Flight, NEW delivered \in BOOLEAN
    PROVE  SameLease(SettleTickets(s, flights, delivered), s)
<1> DEFINE after == SettledRecord(s, flights, delivered)
<1>1. after \in Session /\ SameLease(after, s)
      /\ SettleTickets(s, flights, delivered) = IF Named(s, flights) = {} THEN s
                                                ELSE Recompute(after)
  BY SettledRecordShape
<1> HIDE DEF after
<1>2. SameLease(Recompute(after), after)
  BY <1>1, RecomputeKeeps
<1> QED BY <1>1, <1>2 DEF SameLease

LEMMA ExpireLease ==
    ASSUME NEW s \in Session
    PROVE  SameLease(Expire(s), s)
BY DEF Expire, Recompute, Session, SameLease

-----------------------------------------------------------------------------
(* The lease and the focus.                                                *)

Leased == TypeOK /\ Lease /\ FocusActive

\* An action that moves no connection between sessions, and no session between
\* owners, leaves the lease and the focus alone.
LEMMA LeaseUnmoved ==
    ASSUME Leased, conns' = conns, focus' = focus, sessions' \in [Keys -> Session \cup {NoSession}],
           \A k \in Keys : IF Live(k) THEN Live(k)' /\ SameLease(sessions'[k], sessions[k])
                           ELSE ~Live(k)'
    PROVE  Lease' /\ FocusActive'
<1> USE BridgeAssumption
<1>1. \A k \in Keys : Active(k)' <=> Active(k)
  BY DEF Active, Live, SameLease
<1>2. \A k \in Keys, c \in Conns : Owns(c, k)' <=> Owns(c, k)
  BY DEF Owns, Live, SameLease
<1>3. FocusActive'
  BY <1>1 DEF FocusActive, Leased, TypeOK
<1>4. Lease'
  <2>1. ASSUME NEW k \in Keys, Active(k)'
        PROVE  /\ sessions'[k].owner \in Conns
               /\ conns'[sessions'[k].owner] # Gone
               /\ conns'[sessions'[k].owner].session = k
    BY <1>1, <2>1 DEF Lease, Leased, Active, Live, SameLease
  <2>2. ASSUME NEW k \in Keys, Live(k)', ~Active(k)'
        PROVE  sessions'[k].owner = None
    BY <1>1, <2>2 DEF Lease, Leased, Live, SameLease
  <2>3. ASSUME NEW c \in Conns, conns'[c] # Gone, conns'[c].session # None
        PROVE  conns'[c].role = "host" /\ Owns(c, conns[c].session)'
    <3>1. conns[c].session \in Keys
      BY <2>3 DEF Leased, TypeOK, Connection
    <3> QED BY <1>2, <2>3, <3>1 DEF Lease, Leased
  <2> QED BY <2>1, <2>2, <2>3 DEF Lease
<1> QED BY <1>3, <1>4

LEMMA LeaseConnect ==
    ASSUME Leased, NEW c \in Conns, Connect(c)
    PROVE  Lease' /\ FocusActive'
<1> USE BridgeAssumption
<1>1. UNCHANGED <<sessions, focus>> /\ conns[c] = Gone /\ conns' = [conns EXCEPT ![c] = Fresh]
  BY DEF Connect
<1>2. Fresh # Gone /\ Fresh.session = None
  BY DEF Fresh, Gone
<1>3. FocusActive'
  BY <1>1 DEF Leased, FocusActive, Active, Live
<1>4. Lease'
  BY <1>1, <1>2 DEF Leased, TypeOK, Lease, Active, Live, Owns
<1> QED BY <1>3, <1>4

\* The session of a connection that leaves is orphaned, and no other is.
LEMMA LeaseLeave ==
    ASSUME Leased, NEW c \in Conns, Leave(c)
    PROVE  Lease' /\ FocusActive'
<1> USE BridgeAssumption
<1> DEFINE k       == conns[c].session
           owned   == Owns(c, k)
           flights == IF owned THEN FlightsOf(k) ELSE {}
           left    == Orphan(SettleTickets(sessions[k], flights, TRUE))
<1>1. conns' = [conns EXCEPT ![c] = Gone] /\ conns[c] # Gone
  BY DEF Leave
<1>2. conns[c] \in Connection
  BY <1>1 DEF Leased, TypeOK
<1>3. CASE owned
  <2>1. k \in Keys /\ sessions[k] \in Session /\ sessions[k].owner = c
    BY <1>2, <1>3 DEF Owns, Live, Leased, TypeOK, Connection
  <2>2. flights \in SUBSET Flight
    BY DEF FlightsOf, Leased, TypeOK
  <2>3. left \in Session /\ left.life = "disconnected" /\ left.owner = None
    <3>1. SettleTickets(sessions[k], flights, TRUE) \in Session
      BY <2>1, <2>2, SettleTicketsType
    <3>2. ASSUME NEW s \in Session
          PROVE  Orphan(s).life = "disconnected" /\ Orphan(s).owner = None
      BY <3>2 DEF Orphan, Recompute, Session
    <3> HIDE DEF k, flights
    <3> QED BY <3>1, <3>2, OrphanType DEF Leased, TypeOK
  <2>4. sessions' = [sessions EXCEPT ![k] = left] /\ focus' = IF focus = k THEN None ELSE focus
    BY <1>3 DEF Leave, FocusWithout
  <2> HIDE DEF left, k, flights
  <2>5. \A j \in Keys : j # k => sessions'[j] = sessions[j]
    BY <2>4 DEF Leased, TypeOK
  <2>6. sessions'[k] = left /\ left # NoSession
    BY <2>1, <2>3, <2>4 DEF Leased, TypeOK, NoSession
  <2>7. FocusActive'
    BY <2>4, <2>5 DEF Leased, FocusActive, Active, Live
  <2>8. ASSUME NEW j \in Keys, Active(j)'
        PROVE  /\ sessions'[j].owner \in Conns
               /\ conns'[sessions'[j].owner] # Gone
               /\ conns'[sessions'[j].owner].session = j
    <3>1. j # k /\ Active(j) /\ sessions'[j] = sessions[j]
      BY <2>3, <2>5, <2>6, <2>8 DEF Active, Live
    <3>2. sessions[j].owner # c
      BY <3>1, <1>3 DEF Leased, Lease, k
    <3> QED BY <3>1, <3>2, <1>1 DEF Leased, Lease, TypeOK
  <2>9. ASSUME NEW j \in Keys, Live(j)', ~Active(j)'
        PROVE  sessions'[j].owner = None
    BY <2>3, <2>5, <2>6, <2>9 DEF Leased, Lease, Active, Live
  <2>10. ASSUME NEW d \in Conns, conns'[d] # Gone, conns'[d].session # None
         PROVE  conns'[d].role = "host" /\ Owns(d, conns[d].session)'
    <3>1. d # c /\ conns'[d] = conns[d] /\ conns[d] # Gone
      BY <1>1, <2>10 DEF Leased, TypeOK
    <3>2. conns[d].role = "host" /\ Owns(d, conns[d].session)
      BY <2>10, <3>1 DEF Leased, Lease
    <3>3. conns[d].session # k /\ conns[d].session \in Keys
      BY <3>1, <3>2, <2>1, <2>10 DEF Owns, Leased, TypeOK, Connection
    <3> QED BY <3>1, <3>2, <3>3, <2>5 DEF Owns, Live
  <2> QED BY <2>7, <2>8, <2>9, <2>10 DEF Lease
<1>4. CASE ~owned
  <2>1. UNCHANGED <<sessions, focus>>
    BY <1>4 DEF Leave
  <2>2. \A j \in Keys : Active(j) => sessions[j].owner # c
    BY <1>4 DEF Leased, Lease, Active, Owns
  <2> HIDE DEF k, owned
  <2>3. FocusActive'
    BY <2>1 DEF Leased, FocusActive, Active, Live
  <2>4. Lease'
    BY <1>1, <2>1, <2>2 DEF Leased, TypeOK, Lease, Active, Live, Owns
  <2> QED BY <2>3, <2>4
<1> QED BY <1>3, <1>4

LEMMA LeaseHello ==
    ASSUME Leased, NEW c \in Conns, NEW state \in Connection, state.session = None, NEW limit,
           Hello(c, state, limit)
    PROVE  Lease' /\ FocusActive'
<1> USE BridgeAssumption
<1>1. CASE Leave(c)
  BY <1>1, LeaseLeave
<1>2. CASE conns' = [conns EXCEPT ![c] = state] /\ UNCHANGED <<sessions, focus>>
  <2>1. conns[c] = Fresh
    BY DEF Hello
  <2>2. \A j \in Keys : Active(j) => sessions[j].owner # c
    BY <2>1 DEF Leased, Lease, Fresh
  <2>3. FocusActive'
    BY <1>2 DEF Leased, FocusActive, Active, Live
  <2>4. Lease'
    BY <1>2, <2>2 DEF Leased, TypeOK, Lease, Active, Live, Owns
  <2> QED BY <2>3, <2>4
<1> QED BY <1>1, <1>2 DEF Hello

\* A host that opens a session had none, and the session had no host.
LEMMA LeaseSessionOpen ==
    ASSUME Leased, NEW c \in Conns, NEW k \in Keys, NEW caps \in Capabilities,
           NEW requests \in SUBSET Requests, SessionOpen(c, k, caps, requests)
    PROVE  Lease' /\ FocusActive'
<1> USE BridgeAssumption
<1>1. CASE Refuses(c, k)
  BY <1>1, LeaseLeave DEF SessionOpen
<1>2. CASE ~Refuses(c, k)
  <2>1. PICK tickets : sessions' = [sessions EXCEPT ![k] = Opened(c, k, caps, tickets)]
    BY <1>2 DEF SessionOpen
  <2>2. /\ conns' = [conns EXCEPT ![c].session = k]
        /\ focus' = focus
        /\ conns[c].role = "host" /\ conns[c].session = None
        /\ ~Active(k)
    BY <1>2 DEF SessionOpen, Refuses
  <2>3. conns[c] \in Connection
    BY <2>2 DEF Leased, TypeOK, Gone
  <2>4. sessions'[k] = Opened(c, k, caps, tickets) /\ \A j \in Keys : j # k => sessions'[j] = sessions[j]
    BY <2>1 DEF Leased, TypeOK
  <2>5. sessions'[k].life = "active" /\ sessions'[k].owner = c /\ sessions'[k] # NoSession
    <3> DEFINE base == IF Live(k) THEN sessions[k]
                ELSE [life |-> "active", owner |-> None, caps |-> caps,
                      activity |-> "starting", ready |-> FALSE, turn |-> FALSE,
                      attention |-> FALSE, tickets |-> {}, decided |-> {}, since |-> 0]
               after == [base EXCEPT !.owner = c, !.caps = caps, !.life = "active",
                               !.since = 0, !.ready = FALSE, !.attention = FALSE,
                               !.tickets = tickets]
    <3>1. base \in Session
      BY DEF Leased, Live, TypeOK, Session, Activities
    <3>2. after.life = "active" /\ after.owner = c
      <4> HIDE DEF base
      <4> QED BY <3>1 DEF Session
    <3>3. sessions'[k] = [after EXCEPT !.activity = Derived(after)]
      BY <2>4 DEF Opened, Recompute
    <3>4. sessions'[k].life = "active" /\ sessions'[k].owner = c
      <4> HIDE DEF base
      <4> QED BY <3>1, <3>2, <3>3 DEF Session
    <3> HIDE DEF base, after
    <3>5. sessions'[k] # NoSession
      <4>1. sessions'[k] \in Session \cup {NoSession}
        BY SessionOpenType DEF Leased, TypeOK
      <4> QED BY <3>4, <4>1 DEF NoSession
    <3> QED BY <3>4, <3>5
  <2>6. /\ conns'[c] = [conns[c] EXCEPT !.session = k]
        /\ \A d \in Conns : d # c => conns'[d] = conns[d]
    BY <2>2 DEF Leased, TypeOK
  <2>7. conns'[c] # Gone /\ conns'[c].session = k /\ conns'[c].role = "host"
    BY <2>2, <2>3, <2>6 DEF Connection, Gone
  <2>8. FocusActive'
    BY <2>2, <2>4, <2>5 DEF Leased, TypeOK, FocusActive, Active, Live
  <2>9. ASSUME NEW j \in Keys, Active(j)'
        PROVE  /\ sessions'[j].owner \in Conns
               /\ conns'[sessions'[j].owner] # Gone
               /\ conns'[sessions'[j].owner].session = j
    <3>1. CASE j = k
      BY <3>1, <2>5, <2>7
    <3>2. CASE j # k
      <4>1. Active(j) /\ sessions'[j] = sessions[j]
        BY <3>2, <2>4, <2>9 DEF Active, Live
      <4>2. sessions[j].owner \in Conns /\ sessions[j].owner # c
        BY <4>1, <2>2 DEF Leased, Lease
      <4> QED BY <4>1, <4>2, <2>6 DEF Leased, Lease
    <3> QED BY <3>1, <3>2
  <2>10. ASSUME NEW j \in Keys, Live(j)', ~Active(j)'
         PROVE  sessions'[j].owner = None
    <3>1. j # k /\ sessions'[j] = sessions[j]
      BY <2>4, <2>5, <2>10 DEF Active, Live
    <3> QED BY <3>1, <2>10 DEF Leased, Lease, Active, Live
  <2>11. ASSUME NEW d \in Conns, conns'[d] # Gone, conns'[d].session # None
         PROVE  conns'[d].role = "host" /\ Owns(d, conns[d].session)'
    <3>1. CASE d = c
      BY <3>1, <2>5, <2>7 DEF Owns, Live
    <3>2. CASE d # c
      <4>1. conns'[d] = conns[d] /\ conns[d].role = "host" /\ Owns(d, conns[d].session)
        BY <3>2, <2>6, <2>11 DEF Leased, Lease
      <4>2. conns[d].session \in Keys
        BY <2>11, <4>1 DEF Leased, TypeOK, Connection
      <4>3. conns[d].session # k
        BY <4>1, <2>2 DEF Owns, Leased, Lease, Live
      <4> QED BY <4>1, <4>2, <4>3, <2>4 DEF Owns, Live
    <3> QED BY <3>1, <3>2
  <2> QED BY <2>8, <2>9, <2>10, <2>11 DEF Lease
<1> QED BY <1>1, <1>2

\* A fact, a result and a dispatched command change records and move nothing.
LEMMA LeaseRecord ==
    ASSUME Leased, TypeOK', NEW k \in Keys, NEW record \in Session, Live(k),
           sessions' = [sessions EXCEPT ![k] = record], SameLease(record, sessions[k]),
           conns' = conns, focus' = focus
    PROVE  Lease' /\ FocusActive'
<1>1. \A j \in Keys : IF Live(j) THEN Live(j)' /\ SameLease(sessions'[j], sessions[j])
                      ELSE ~Live(j)'
  BY DEF Leased, TypeOK, Live, SameLease, Session, NoSession
<1> QED BY <1>1, LeaseUnmoved DEF TypeOK

LEMMA LeaseFact ==
    ASSUME Leased, TypeOK', NEW c \in Conns, NEW k \in Keys, Reports(c, k),
           NEW record \in Session, Fact(k, record), SameLease(record, sessions[k])
    PROVE  Lease' /\ FocusActive'
<1>1. Recompute(record) \in Session /\ SameLease(Recompute(record), sessions[k])
  BY RecomputeType, RecomputeKeeps DEF SameLease
<1> QED BY <1>1, LeaseRecord DEF Fact, Reports, Owns

LEMMA LeaseFacts ==
    ASSUME Leased, NEW c \in Conns, NEW k \in Keys, Facts(c, k)
    PROVE  Lease' /\ FocusActive'
BY FactRecord, FactsType, LeaseFact DEF Leased

LEMMA LeaseEffectResult ==
    ASSUME Leased, NEW c \in Conns, NEW k \in Keys, NEW f \in inFlight,
           NEW delivered \in BOOLEAN, EffectResult(c, k, f, delivered)
    PROVE  Lease' /\ FocusActive'
<1> DEFINE record == SettleTickets(sessions[k], {f}, delivered)
<1>1. Reports(c, k) /\ sessions[k] \in Session /\ Live(k) /\ {f} \in SUBSET Flight
  BY ReportsType DEF EffectResult, Reports, Owns, Leased, TypeOK
<1>2. record \in Session /\ SameLease(record, sessions[k])
  BY <1>1, SettleTicketsType, SettleTicketsLease
<1>3. /\ sessions' = [sessions EXCEPT ![k] = record]
      /\ conns' = conns /\ focus' = focus
  BY DEF EffectResult
<1>4. TypeOK'
  BY EffectResultType DEF Leased
<1> HIDE DEF record
<1> QED BY <1>1, <1>2, <1>3, <1>4, LeaseRecord

\* Removed sessions leave no connection that names them, and no focus.
LEMMA LeaseRemoved ==
    ASSUME Leased, TypeOK', NEW removed \in SUBSET Keys,
           conns' = WithoutSessions(removed), focus' = FocusWithout(removed),
           \A k \in removed : sessions'[k] = NoSession,
           \A k \in Keys \ removed :
               IF Live(k) THEN Live(k)' /\ SameLease(sessions'[k], sessions[k]) ELSE ~Live(k)'
    PROVE  Lease' /\ FocusActive'
<1> USE BridgeAssumption
<1>1. \A d \in Conns : conns[d] # Gone =>
         conns'[d] = IF conns[d].session \in removed
                     THEN [conns[d] EXCEPT !.session = None] ELSE conns[d]
  BY DEF WithoutSessions
<1>2. \A d \in Conns : conns[d] # Gone /\ conns[d].session \notin removed => conns'[d] = conns[d]
  BY <1>1
<1>3. \A d \in Conns : conns[d] = Gone => conns'[d] = Gone
  BY DEF WithoutSessions
<1>4. \A d \in Conns : conns[d] # Gone /\ conns[d].session \in removed => conns'[d].session = None
  BY <1>1 DEF Leased, TypeOK, Connection
<1>5. FocusActive'
  BY DEF FocusWithout, Leased, FocusActive, TypeOK, Active, Live, SameLease
<1>6. ASSUME NEW j \in Keys, Active(j)'
      PROVE  /\ sessions'[j].owner \in Conns
             /\ conns'[sessions'[j].owner] # Gone
             /\ conns'[sessions'[j].owner].session = j
  <2>1. j \notin removed /\ Active(j) /\ sessions'[j].owner = sessions[j].owner
    BY <1>6 DEF Active, Live, SameLease
  <2> QED BY <2>1, <1>2 DEF Leased, Lease
<1>7. ASSUME NEW j \in Keys, Live(j)', ~Active(j)'
      PROVE  sessions'[j].owner = None
  BY <1>7 DEF Leased, Lease, Active, Live, SameLease
<1>8. ASSUME NEW d \in Conns, conns'[d] # Gone, conns'[d].session # None
      PROVE  conns'[d].role = "host" /\ Owns(d, conns[d].session)'
  <2>1. conns[d] # Gone /\ conns[d].session \notin removed /\ conns'[d] = conns[d]
    BY <1>2, <1>3, <1>4, <1>8
  <2>2. conns[d].role = "host" /\ Owns(d, conns[d].session)
    BY <2>1, <1>8 DEF Leased, Lease
  <2>3. conns[d].session \in Keys
    BY <2>1, <1>8 DEF Leased, TypeOK, Connection
  <2> QED BY <2>1, <2>2, <2>3 DEF Owns, Live, SameLease
<1> QED BY <1>5, <1>6, <1>7, <1>8 DEF Lease

LEMMA LeaseSessionEnd ==
    ASSUME Leased, NEW c \in Conns, NEW k \in Keys, SessionEnd(c, k)
    PROVE  Lease' /\ FocusActive'
<1>1. /\ conns' = WithoutSessions({k}) /\ focus' = FocusWithout({k})
      /\ sessions' = [sessions EXCEPT ![k] = NoSession]
  BY DEF SessionEnd
<1>2. sessions'[k] = NoSession /\ \A j \in Keys \ {k} : sessions'[j] = sessions[j]
  BY <1>1 DEF Leased, TypeOK
<1>3. TypeOK'
  BY SessionEndType DEF Leased
<1> QED BY <1>1, <1>2, <1>3, LeaseRemoved DEF SameLease, Live

LEMMA LeaseTick ==
    ASSUME Leased, Tick
    PROVE  Lease' /\ FocusActive'
<1> DEFINE removed == {k \in Keys : Lapsed(k)}
           late    == {f \in inFlight : f.deadline <= now \/ f.cmd.target \in removed}
<1>1. conns' = WithoutSessions(removed) /\ focus' = FocusWithout(removed)
  BY DEF Tick
<1>2. sessions' = [k \in Keys |->
                     IF ~Live(k) \/ k \in removed THEN NoSession
                     ELSE Expire(SettleTickets(sessions[k], late \cap FlightsOf(k), TRUE))]
  BY DEF Tick
<1>3. TypeOK'
  BY TickType DEF Leased
<1>4. ASSUME NEW k \in Keys, Live(k), k \notin removed
      PROVE  Live(k)' /\ SameLease(sessions'[k], sessions[k])
  <2> DEFINE settled == SettleTickets(sessions[k], late \cap FlightsOf(k), TRUE)
  <2>1. sessions[k] \in Session /\ late \cap FlightsOf(k) \in SUBSET Flight
    BY <1>4 DEF Live, Leased, TypeOK
  <2>2. settled \in Session /\ SameLease(settled, sessions[k])
    BY <2>1, SettleTicketsType, SettleTicketsLease
  <2>3. sessions'[k] = Expire(settled)
    BY <1>2, <1>4
  <2> HIDE DEF settled
  <2>4. Expire(settled) \in Session /\ SameLease(Expire(settled), settled)
    BY <2>2, ExpireType, ExpireLease
  <2> QED BY <2>2, <2>3, <2>4 DEF SameLease, Live, Session, NoSession
<1>5. \A k \in removed : sessions'[k] = NoSession
  BY <1>2
<1>6. \A k \in Keys \ removed : ~Live(k) => ~Live(k)'
  BY <1>2 DEF Live
<1> HIDE DEF removed
<1>7. removed \in SUBSET Keys
  BY DEF removed
<1> QED BY <1>1, <1>3, <1>4, <1>5, <1>6, <1>7, LeaseRemoved

LEMMA LeaseClients ==
    ASSUME Leased, NEW c \in Conns, NEW cmd \in Commands,
           AwaitResult(c, cmd) \/ Focus(c, cmd) \/ Dispatch(c, cmd)
    PROVE  Lease' /\ FocusActive'
<1> USE BridgeAssumption
<1>1. CASE AwaitResult(c, cmd)
  BY <1>1 DEF AwaitResult, Leased, TypeOK, Lease, FocusActive, Active, Live, Owns
<1>2. CASE Focus(c, cmd)
  <2>1. focus' = cmd.target /\ Active(cmd.target) /\ UNCHANGED <<conns, sessions>>
    BY <1>2 DEF Focus, Accepts
  <2> QED BY <2>1 DEF Leased, TypeOK, Lease, FocusActive, Active, Live, Owns
<1>3. CASE Dispatch(c, cmd)
  <2> DEFINE k == cmd.target
             tickets == Reserve(sessions[k].tickets, cmd.approval)
             record  == [sessions[k] EXCEPT !.tickets = tickets]
  <2>1. k \in Keys /\ Live(k) /\ sessions[k] \in Session /\ TypeOK'
    BY <1>3, ClientsType DEF Command, Dispatch, Accepts, Active, Live, Leased, TypeOK
  <2>2. conns' = conns /\ focus' = focus
    BY <1>3 DEF Dispatch
  <2>3. CASE cmd.kind \in Decisions
    <3>1. sessions' = [sessions EXCEPT ![k] = record]
      BY <1>3, <2>3 DEF Dispatch
    <3>2. sessions'[k] = record /\ record # NoSession /\ SameLease(record, sessions[k])
      BY <2>1, <3>1 DEF Leased, TypeOK, SameLease, Session, NoSession
    <3>3. record \in Session
      BY <2>1, <3>2 DEF TypeOK
    <3> HIDE DEF record
    <3> QED BY <2>1, <2>2, <3>1, <3>2, <3>3, LeaseRecord
  <2>4. CASE cmd.kind \notin Decisions
    <3>1. sessions' = sessions
      BY <1>3, <2>4 DEF Dispatch
    <3> QED BY <2>2, <3>1 DEF Leased, TypeOK, Lease, FocusActive, Active, Live, Owns
  <2> QED BY <2>3, <2>4
<1> QED BY <1>1, <1>2, <1>3

LEMMA LeaseStep == Leased /\ [Next]_vars => Lease' /\ FocusActive'
<1> SUFFICES ASSUME Leased, [Next]_vars
             PROVE  Lease' /\ FocusActive'
  OBVIOUS
<1> USE BridgeAssumption
<1>1. ASSUME NEW c \in Conns, HostStep(c)
      PROVE  Lease' /\ FocusActive'
  <2>1. CASE HostHello(c)
    <3>1. [Fresh EXCEPT !.role = "host"] \in Connection
          /\ [Fresh EXCEPT !.role = "host"].session = None
      BY DEF Fresh, Connection
    <3> QED BY <2>1, <3>1, LeaseHello DEF HostHello
  <2>2. ASSUME NEW k \in Keys, NEW caps \in Capabilities, NEW requests \in SUBSET Requests,
               SessionOpen(c, k, caps, requests)
        PROVE  Lease' /\ FocusActive'
    BY <2>2, LeaseSessionOpen
  <2> QED BY <1>1, <2>1, <2>2, LeaseFacts, LeaseEffectResult, LeaseSessionEnd DEF HostStep, Facts
<1>2. ASSUME NEW c \in Conns, ClientStep(c)
      PROVE  Lease' /\ FocusActive'
  <2>1. ASSUME NEW peer \in Peers, ClientHello(c, peer[1], peer[2])
        PROVE  Lease' /\ FocusActive'
    <3> DEFINE state == [Fresh EXCEPT !.role = "client", !.client = peer[1], !.tier = peer[2]]
    <3>1. state \in Connection /\ state.session = None
      BY DEF Fresh, Connection
    <3> QED BY <2>1, <3>1, LeaseHello DEF ClientHello
  <2> QED BY <1>2, <2>1, LeaseClients DEF ClientStep
<1>3. CASE Advance \/ UNCHANGED vars
  BY <1>3 DEF Advance, vars, Leased, TypeOK, Lease, FocusActive, Active, Live, Owns
<1> QED BY <1>1, <1>2, <1>3, LeaseConnect, LeaseLeave, LeaseTick DEF Next

LEMMA LeaseInit == Init => Lease /\ FocusActive
BY DEF Init, Lease, FocusActive, Active, Live

\* At most one live host connection holds a session's lease, and the session
\* and the connection agree on it.
THEOREM LeaseCorrect == Spec => []Lease
<1>1. Init => Leased
  BY TypeInit, LeaseInit DEF Leased
<1>2. Leased /\ [Next]_vars => Leased'
  BY TypeStep, LeaseStep DEF Leased
<1>3. Leased => Lease
  BY DEF Leased
<1> QED BY <1>1, <1>2, <1>3, PTL DEF Spec

\* Focus names an active session or none.
THEOREM FocusCorrect == Spec => []FocusActive
<1>1. Init => Leased
  BY TypeInit, LeaseInit DEF Leased
<1>2. Leased /\ [Next]_vars => Leased'
  BY TypeStep, LeaseStep DEF Leased
<1>3. Leased => FocusActive
  BY DEF Leased
<1> QED BY <1>1, <1>2, <1>3, PTL DEF Spec

-----------------------------------------------------------------------------
(* The cached activity.                                                    *)

IsFresh(s) == s.activity = Derived(s)

LEMMA RecomputeFresh ==
    ASSUME NEW s \in Session
    PROVE  IsFresh(Recompute(s))
BY DEF IsFresh, Recompute, Derived, Session

\* What a record derives depends on its flags and on the kinds of its tickets.
LEMMA DerivedSame ==
    ASSUME NEW s, NEW t,
           s.attention = t.attention, s.turn = t.turn, s.ready = t.ready,
           \A u \in s.tickets : \E v \in t.tickets : u.request = v.request,
           \A v \in t.tickets : \E u \in s.tickets : u.request = v.request
    PROVE  Derived(s) = Derived(t)
<1> DEFINE In(r) == {u \in r.tickets : u.request.kind = "input"}
<1>1. In(s) # s.tickets <=> In(t) # t.tickets
  <2>1. In(s) # s.tickets <=> \E u \in s.tickets : u.request.kind # "input"
    OBVIOUS
  <2>2. In(t) # t.tickets <=> \E v \in t.tickets : v.request.kind # "input"
    OBVIOUS
  <2> QED BY <2>1, <2>2
<1>2. In(s) = {} <=> In(t) = {}
  OBVIOUS
<1>3. (\E u \in In(s) : u.request.blocking) <=> (\E v \in In(t) : v.request.blocking)
  OBVIOUS
<1> QED BY <1>1, <1>2, <1>3 DEF Derived

LEMMA SettleTicketsFresh ==
    ASSUME NEW s \in Session, NEW flights \in SUBSET Flight, NEW delivered \in BOOLEAN, IsFresh(s)
    PROVE  IsFresh(SettleTickets(s, flights, delivered))
BY SettledRecordShape, RecomputeFresh

LEMMA ExpireFresh ==
    ASSUME NEW s \in Session, IsFresh(s)
    PROVE  IsFresh(Expire(s))
<1> DEFINE kept == {t \in s.tickets : t.reserved \/ t.request.expires > now}
           aged == [s EXCEPT !.tickets = kept,
                             !.decided = {d \in @ : d.expires > now}]
<1>1. aged \in Session
  BY DEF Session
<1>2. CASE kept = s.tickets
  <2>1. aged.activity = s.activity /\ aged.tickets = s.tickets /\ aged.attention = s.attention
        /\ aged.turn = s.turn /\ aged.ready = s.ready
    BY <1>2 DEF Session
  <2> HIDE DEF aged
  <2>2. Derived(aged) = Derived(s)
    BY <2>1, DerivedSame
  <2>3. IsFresh(aged)
    BY <2>1, <2>2 DEF IsFresh
  <2> QED BY <2>3, <1>2 DEF Expire, aged
<1>3. CASE kept # s.tickets
  BY <1>1, <1>3, RecomputeFresh DEF Expire
<1> QED BY <1>2, <1>3

\* A reserved ticket counts as it did.
LEMMA ReserveFresh ==
    ASSUME NEW s \in Session, NEW id, IsFresh(s)
    PROVE  IsFresh([s EXCEPT !.tickets = Reserve(@, id)])
<1> DEFINE after == [s EXCEPT !.tickets = Reserve(@, id)]
<1>1. after.tickets = Reserve(s.tickets, id) /\ after.attention = s.attention
      /\ after.turn = s.turn /\ after.ready = s.ready /\ after.activity = s.activity
  BY DEF Session
<1>2. s.tickets \subseteq Ticket
  BY DEF Session
<1>3. \A t \in s.tickets : (IF t.id = id THEN [t EXCEPT !.reserved = TRUE] ELSE t).request = t.request
  BY <1>2 DEF Ticket
<1>4. \A u \in s.tickets : \E v \in after.tickets : v.request = u.request
  BY <1>1, <1>3 DEF Reserve
<1>5. \A v \in after.tickets : \E u \in s.tickets : v.request = u.request
  BY <1>1, <1>3 DEF Reserve
<1> HIDE DEF after
<1>6. Derived(after) = Derived(s)
  BY <1>1, <1>4, <1>5, DerivedSame
<1> QED BY <1>1, <1>6 DEF IsFresh, after

Fresher == TypeOK /\ ActivityFresh

\* One record replaced by one that is fresh.
LEMMA FreshRecord ==
    ASSUME Fresher, NEW k \in Keys, NEW record, IsFresh(record),
           sessions' = [sessions EXCEPT ![k] = record]
    PROVE  ActivityFresh'
BY DEF Fresher, TypeOK, ActivityFresh, IsFresh, Live, Derived

LEMMA FreshUnchanged ==
    ASSUME Fresher, sessions' = sessions
    PROVE  ActivityFresh'
BY DEF Fresher, ActivityFresh, Live, Derived

LEMMA FreshLeave ==
    ASSUME Fresher, NEW c \in Conns, Leave(c)
    PROVE  ActivityFresh'
<1> DEFINE k       == conns[c].session
           flights == IF Owns(c, k) THEN FlightsOf(k) ELSE {}
           settled == SettleTickets(sessions[k], flights, TRUE)
<1>1. CASE Owns(c, k)
  <2>1. k \in Keys /\ sessions[k] \in Session
    BY <1>1 DEF Leave, Owns, Live, Fresher, TypeOK, Connection
  <2>2. flights \in SUBSET Flight
    BY DEF FlightsOf, Fresher, TypeOK
  <2>3. sessions' = [sessions EXCEPT ![k] = Orphan(settled)]
    BY <1>1 DEF Leave
  <2>4. settled \in Session
    BY <2>1, <2>2, SettleTicketsType
  <2> HIDE DEF settled, k
  <2>5. IsFresh(Orphan(settled))
    <3> DEFINE after == [settled EXCEPT !.owner = None, !.life = "disconnected", !.since = now,
                              !.tickets = {}, !.attention = FALSE, !.turn = FALSE]
    <3>1. after \in Session
      BY <2>4 DEF Session, Fresher, TypeOK
    <3> QED BY <3>1, RecomputeFresh DEF Orphan
  <2> QED BY <2>1, <2>3, <2>5, FreshRecord
<1>2. CASE ~Owns(c, k)
  BY <1>2, FreshUnchanged DEF Leave
<1> QED BY <1>1, <1>2

LEMMA FreshSessionOpen ==
    ASSUME Fresher, NEW c \in Conns, NEW k \in Keys, NEW caps \in Capabilities,
           NEW requests \in SUBSET Requests, SessionOpen(c, k, caps, requests)
    PROVE  ActivityFresh'
<1>1. CASE Refuses(c, k)
  BY <1>1, FreshLeave DEF SessionOpen
<1>2. CASE ~Refuses(c, k)
  <2>1. PICK tickets : sessions' = [sessions EXCEPT ![k] = Opened(c, k, caps, tickets)]
    BY <1>2 DEF SessionOpen
  <2> DEFINE base == IF Live(k) THEN sessions[k]
                ELSE [life |-> "active", owner |-> None, caps |-> caps,
                      activity |-> "starting", ready |-> FALSE, turn |-> FALSE,
                      attention |-> FALSE, tickets |-> {}, decided |-> {}, since |-> 0]
             after == [base EXCEPT !.owner = c, !.caps = caps, !.life = "active",
                               !.since = 0, !.ready = FALSE, !.attention = FALSE,
                               !.tickets = tickets]
  <2>2. base \in Session
    BY DEF Fresher, Live, TypeOK, Session, Activities
  <2>3. Opened(c, k, caps, tickets) = Recompute(after)
    BY DEF Opened
  <2>4. IsFresh(Recompute(after))
    <3> HIDE DEF base
    <3> QED BY <2>2 DEF IsFresh, Recompute, Derived, Session
  <2> HIDE DEF after
  <2> QED BY <2>1, <2>3, <2>4, FreshRecord
<1> QED BY <1>1, <1>2

LEMMA FreshFacts ==
    ASSUME Fresher, NEW c \in Conns, NEW k \in Keys, Facts(c, k)
    PROVE  ActivityFresh'
<1>1. PICK record \in Session : Fact(k, record)
  BY FactRecord DEF Fresher
<1>2. sessions' = [sessions EXCEPT ![k] = Recompute(record)]
  BY <1>1 DEF Fact
<1> QED BY <1>1, <1>2, RecomputeFresh, FreshRecord

LEMMA FreshEffectResult ==
    ASSUME Fresher, NEW c \in Conns, NEW k \in Keys, NEW f \in inFlight,
           NEW delivered \in BOOLEAN, EffectResult(c, k, f, delivered)
    PROVE  ActivityFresh'
<1>1. sessions[k] \in Session /\ {f} \in SUBSET Flight /\ IsFresh(sessions[k])
  BY ReportsType DEF EffectResult, Reports, Owns, Fresher, TypeOK, ActivityFresh, IsFresh
<1>2. IsFresh(SettleTickets(sessions[k], {f}, delivered))
  BY <1>1, SettleTicketsFresh
<1> QED BY <1>2, FreshRecord DEF EffectResult

LEMMA FreshTick ==
    ASSUME Fresher, Tick
    PROVE  ActivityFresh'
<1> DEFINE removed == {k \in Keys : Lapsed(k)}
           late    == {f \in inFlight : f.deadline <= now \/ f.cmd.target \in removed}
<1>1. sessions' = [k \in Keys |->
                     IF ~Live(k) \/ k \in removed THEN NoSession
                     ELSE Expire(SettleTickets(sessions[k], late \cap FlightsOf(k), TRUE))]
  BY DEF Tick
<1>2. ASSUME NEW k \in Keys, Live(k), k \notin removed
      PROVE  IsFresh(sessions'[k])
  <2> DEFINE settled == SettleTickets(sessions[k], late \cap FlightsOf(k), TRUE)
  <2>1. sessions[k] \in Session /\ late \cap FlightsOf(k) \in SUBSET Flight /\ IsFresh(sessions[k])
    BY <1>2 DEF Live, Fresher, TypeOK, ActivityFresh, IsFresh
  <2>2. settled \in Session /\ IsFresh(settled)
    BY <2>1, SettleTicketsType, SettleTicketsFresh
  <2>3. sessions'[k] = Expire(settled)
    BY <1>1, <1>2
  <2> HIDE DEF settled
  <2> QED BY <2>2, <2>3, ExpireFresh
<1>3. ASSUME NEW k \in Keys, ~Live(k) \/ k \in removed
      PROVE  ~Live(k)'
  BY <1>1, <1>3 DEF Live
<1> HIDE DEF removed
<1> QED BY <1>2, <1>3 DEF ActivityFresh, IsFresh, Live, Derived

LEMMA FreshDispatch ==
    ASSUME Fresher, NEW c \in Conns, NEW cmd \in Commands, Dispatch(c, cmd)
    PROVE  ActivityFresh'
<1> DEFINE k == cmd.target
<1>1. k \in Keys /\ sessions[k] \in Session /\ IsFresh(sessions[k])
  BY BridgeAssumption
     DEF Command, Dispatch, Accepts, Active, Live, Fresher, TypeOK, ActivityFresh, IsFresh
<1>2. IsFresh([sessions[k] EXCEPT !.tickets = Reserve(@, cmd.approval)])
  BY <1>1, ReserveFresh
<1>3. CASE cmd.kind \in Decisions
  BY <1>1, <1>2, <1>3, FreshRecord DEF Dispatch
<1>4. CASE cmd.kind \notin Decisions
  BY <1>4, FreshUnchanged DEF Dispatch
<1> QED BY <1>3, <1>4

LEMMA FreshStep == Fresher /\ [Next]_vars => ActivityFresh'
<1> SUFFICES ASSUME Fresher, [Next]_vars
             PROVE  ActivityFresh'
  OBVIOUS
<1>1. ASSUME NEW c \in Conns, HostStep(c)
      PROVE  ActivityFresh'
  <2>1. CASE HostHello(c)
    BY <2>1, FreshLeave, FreshUnchanged DEF HostHello, Hello
  <2>2. ASSUME NEW k \in Keys, SessionEnd(c, k)
        PROVE  ActivityFresh'
    BY <2>2 DEF SessionEnd, Fresher, TypeOK, ActivityFresh, Live, Derived
  <2> QED BY <1>1, <2>1, <2>2, FreshSessionOpen, FreshFacts, FreshEffectResult DEF HostStep, Facts
<1>2. ASSUME NEW c \in Conns, ClientStep(c)
      PROVE  ActivityFresh'
  BY <1>2, FreshLeave, FreshUnchanged, FreshDispatch
     DEF ClientStep, ClientHello, Hello, AwaitResult, Focus
<1>3. CASE Advance \/ UNCHANGED vars \/ \E c \in Conns : Connect(c)
  BY <1>3, FreshUnchanged DEF Advance, vars, Connect
<1> QED BY <1>1, <1>2, <1>3, FreshLeave, FreshTick DEF Next

\* The activity every surface shows is the one the record's turn, requests and
\* flags derive, after every handler.
THEOREM ActivityCorrect == Spec => []ActivityFresh
<1>1. Init => Fresher
  BY TypeInit DEF Fresher, Init, ActivityFresh, Live
<1>2. Fresher /\ [Next]_vars => Fresher'
  BY TypeStep, FreshStep DEF Fresher
<1>3. Fresher => ActivityFresh
  BY DEF Fresher
<1> QED BY <1>1, <1>2, <1>3, PTL DEF Spec

-----------------------------------------------------------------------------
(* Receipts and effects in flight.                                         *)

\* Accounted, of a table of receipts and a set of flights: each open receipt has
\* its one flight and each flight its receipt.
Booked(table, flights) ==
    /\ \A f \in flights : /\ table[Scope(f.cmd)] # NoReceipt
                          /\ table[Scope(f.cmd)].result = "none"
                          /\ table[Scope(f.cmd)].cmd = f.cmd
    /\ \A s \in UsedScopes : table[s] # NoReceipt /\ table[s].result = "none" =>
                                 \E f \in flights : Scope(f.cmd) = s
    /\ \A f, g \in flights : Scope(f.cmd) = Scope(g.cmd) => f = g

\* Only an open receipt is waited for, by connections that are there.
Awaited(table, there) ==
    \A s \in UsedScopes, c \in Conns :
        table[s] # NoReceipt /\ table[s].waiters[c] > 0 =>
            table[s].result = "none" /\ c \in there

\* Each flight was sent to the present owner of an active session.
Hosted(flights, table) ==
    \A f \in flights : /\ table[f.cmd.target] # NoSession
                       /\ table[f.cmd.target].life = "active"
                       /\ table[f.cmd.target].owner = f.host

There == {c \in Conns : conns[c] # Gone}

LEMMA AccountedParts ==
    Accounted <=> Booked(receipts, inFlight) /\ Awaited(receipts, There) /\ Hosted(inFlight, sessions)
BY DEF Accounted, Booked, Awaited, Hosted, There, Pending, Active, Live

LEMMA AccountedPartsNext ==
    Accounted' <=> /\ Booked(receipts', inFlight')
                   /\ Awaited(receipts', There')
                   /\ Hosted(inFlight', sessions')
BY DEF Accounted, Booked, Awaited, Hosted, There, Pending, Active, Live

Receipts == [UsedScopes -> Receipt \cup {NoReceipt}]

\* Settled flights take their open receipts along.
LEMMA BookedSettled ==
    ASSUME NEW table \in Receipts, NEW flights \in SUBSET Flight, NEW done \in SUBSET flights,
           NEW code \in Codes \ {"none"}, NEW delivered \in BOOLEAN, NEW there,
           Booked(table, flights), Awaited(table, there)
    PROVE  /\ Booked(SettleReceipts(table, done, code, delivered), flights \ done)
           /\ Awaited(SettleReceipts(table, done, code, delivered), there)
<1> DEFINE after == SettleReceipts(table, done, code, delivered)
<1>1. \A f \in flights : Scope(f.cmd) \in UsedScopes
  BY DEF UsedScopes, Flight
<1>2. ASSUME NEW s \in UsedScopes, \A f \in done : Scope(f.cmd) # s
      PROVE  after[s] = table[s]
  BY <1>2 DEF SettleReceipts
<1>3. ASSUME NEW s \in UsedScopes, NEW f \in done, Scope(f.cmd) = s, after[s] # NoReceipt
      PROVE  after[s].result = code /\ after[s].waiters = Nobody
  <2>1. table[s] # NoReceipt /\ after[s] = [table[s] EXCEPT !.result = code, !.waiters = Nobody]
    BY <1>3 DEF SettleReceipts
  <2>2. table[s] \in Receipt
    BY <2>1 DEF Receipts
  <2> QED BY <2>1, <2>2 DEF Receipt
<1> HIDE DEF after
<1>4. Booked(after, flights \ done)
  <2>1. ASSUME NEW f \in flights \ done
        PROVE  after[Scope(f.cmd)] = table[Scope(f.cmd)]
    BY <1>1, <1>2, <2>1 DEF Booked
  <2>2. ASSUME NEW s \in UsedScopes, after[s] # NoReceipt, after[s].result = "none"
        PROVE  \E f \in flights \ done : Scope(f.cmd) = s
    <3>1. \A f \in done : Scope(f.cmd) # s
      BY <1>3, <2>2
    <3> QED BY <3>1, <1>2, <2>2 DEF Booked
  <2> QED BY <2>1, <2>2 DEF Booked
<1>5. Awaited(after, there)
  <2> SUFFICES ASSUME NEW s \in UsedScopes, NEW c \in Conns, after[s] # NoReceipt,
                      after[s].waiters[c] > 0
               PROVE  after[s].result = "none" /\ c \in there
    BY DEF Awaited
  <2>1. \A f \in done : Scope(f.cmd) # s
    BY <1>3 DEF Nobody
  <2> QED BY <2>1, <1>2 DEF Awaited
<1> QED BY <1>4, <1>5 DEF after

\* A connection that leaves waits for nothing.
LEMMA BookedWithoutWaiter ==
    ASSUME NEW table \in Receipts, NEW flights \in SUBSET Flight, NEW c \in Conns, NEW there,
           Booked(table, flights), Awaited(table, there)
    PROVE  /\ WithoutWaiter(table, c) \in Receipts
           /\ Booked(WithoutWaiter(table, c), flights)
           /\ Awaited(WithoutWaiter(table, c), there \ {c})
<1> DEFINE after == WithoutWaiter(table, c)
<1>1. \A f \in flights : Scope(f.cmd) \in UsedScopes
  BY DEF UsedScopes, Flight
<1>2. ASSUME NEW s \in UsedScopes
      PROVE  IF table[s] = NoReceipt THEN after[s] = NoReceipt
             ELSE /\ after[s] # NoReceipt
                  /\ after[s].result = table[s].result
                  /\ after[s].cmd = table[s].cmd
                  /\ after[s].waiters = [table[s].waiters EXCEPT ![c] = 0]
                  /\ table[s].waiters \in [Conns -> Nat]
  <2>1. table[s] # NoReceipt => table[s] \in Receipt
    BY DEF Receipts
  <2>2. table[s] # NoReceipt => after[s] = [table[s] EXCEPT !.waiters[c] = 0]
    BY DEF WithoutWaiter
  <2>3. table[s] = NoReceipt => after[s] = NoReceipt
    BY DEF WithoutWaiter
  <2>4. after \in Receipts
    BY WithoutWaiterType DEF Receipts
  <2>5. table[s] # NoReceipt =>
           /\ after[s].result = table[s].result
           /\ after[s].cmd = table[s].cmd
           /\ after[s].waiters = [table[s].waiters EXCEPT ![c] = 0]
           /\ table[s].waiters \in [Conns -> Nat]
    <3> HIDE DEF after
    <3> QED BY <2>1, <2>2 DEF Receipt
  <2>6. table[s] # NoReceipt => after[s] # NoReceipt
    <3> HIDE DEF after
    <3> QED BY <2>1, <2>2 DEF Receipt, NoReceipt
  <2> HIDE DEF after
  <2> QED BY <2>3, <2>5, <2>6
<1>3. after \in Receipts
  BY WithoutWaiterType DEF Receipts
<1> HIDE DEF after
<1>4. Booked(after, flights)
  BY <1>1, <1>2 DEF Booked
<1>5. Awaited(after, there \ {c})
  <2> SUFFICES ASSUME NEW s \in UsedScopes, NEW d \in Conns, after[s] # NoReceipt,
                      after[s].waiters[d] > 0
               PROVE  after[s].result = "none" /\ d \in there \ {c}
    BY DEF Awaited
  <2>1. table[s] # NoReceipt /\ after[s].result = table[s].result
        /\ after[s].waiters = [table[s].waiters EXCEPT ![c] = 0]
        /\ table[s].waiters \in [Conns -> Nat]
    BY <1>2
  <2>2. d # c /\ table[s].waiters[d] > 0
    BY <2>1
  <2> QED BY <2>1, <2>2 DEF Awaited
<1> QED BY <1>3, <1>4, <1>5 DEF after

\* A receipt that has its result may be dropped.
LEMMA BookedDropped ==
    ASSUME NEW table \in Receipts, NEW after \in Receipts, NEW flights \in SUBSET Flight, NEW there,
           Booked(table, flights), Awaited(table, there),
           \A s \in UsedScopes : \/ after[s] = table[s]
                                 \/ after[s] = NoReceipt /\ table[s].result # "none"
    PROVE  Booked(after, flights) /\ Awaited(after, there)
<1>1. \A f \in flights : Scope(f.cmd) \in UsedScopes
  BY DEF UsedScopes, Flight
<1> QED BY <1>1 DEF Booked, Awaited

Sound == Leased /\ Accounted

\* Flights stay with the sessions that keep their lease.
LEMMA HostedKept ==
    ASSUME Sound, NEW flights \in SUBSET inFlight, NEW table,
           \A f \in flights : /\ table[f.cmd.target] # NoSession
                              /\ SameLease(table[f.cmd.target], sessions[f.cmd.target])
    PROVE  Hosted(flights, table)
<1>1. Hosted(inFlight, sessions)
  BY AccountedParts DEF Sound
<1> QED BY <1>1 DEF Hosted, SameLease

\* An action that leaves the receipts and the flights alone, and the lease of
\* every active session.
LEMMA AccountedRest ==
    ASSUME Sound, receipts' = receipts, inFlight' = inFlight, There \subseteq There',
           \A k \in Keys : Active(k) => Live(k)' /\ SameLease(sessions'[k], sessions[k])
    PROVE  Accounted'
<1>1. \A f \in inFlight : Active(f.cmd.target) /\ f.cmd.target \in Keys
  BY BridgeAssumption DEF Sound, Accounted, Leased, TypeOK, Flight, Command
<1>2. Hosted(inFlight, sessions')
  BY <1>1, HostedKept DEF Live
<1>3. Booked(receipts, inFlight) /\ Awaited(receipts, There)
  BY AccountedParts DEF Sound
<1>4. Awaited(receipts', There')
  BY <1>3 DEF Awaited
<1> QED BY <1>2, <1>3, <1>4, AccountedPartsNext

LEMMA AccountedConnect ==
    ASSUME Sound, NEW c \in Conns, Connect(c)
    PROVE  Accounted'
<1>1. There \subseteq There'
  BY DEF Connect, There, Fresh, Gone, Sound, Leased, TypeOK
<1> QED BY <1>1, AccountedRest DEF Connect, Active, Live, SameLease

\* The effects of the session a connection leaves behind go with it, and so
\* does its own waiting.
LEMMA AccountedLeave ==
    ASSUME Sound, NEW c \in Conns, Leave(c)
    PROVE  Accounted'
<1> DEFINE k       == conns[c].session
           owned   == Owns(c, k)
           flights == IF owned THEN FlightsOf(k) ELSE {}
           left    == WithoutWaiter(receipts, c)
           code    == "dispatch_failed"
<1>1. /\ receipts' = SettleReceipts(left, flights, code, TRUE)
      /\ inFlight' = inFlight \ flights
      /\ conns' = [conns EXCEPT ![c] = Gone]
  BY DEF Leave
<1>2. Booked(receipts, inFlight) /\ Awaited(receipts, There)
  BY AccountedParts DEF Sound
<1>3. receipts \in Receipts /\ inFlight \in SUBSET Flight /\ flights \in SUBSET inFlight
      /\ code \in Codes \ {"none"}
  BY DEF Sound, Leased, TypeOK, Receipts, FlightsOf, Codes
<1>4. There' = There \ {c}
  BY <1>1 DEF There, Sound, Leased, TypeOK
<1>5. ASSUME NEW f \in inFlight \ flights
      PROVE  sessions'[f.cmd.target] = sessions[f.cmd.target]
  <2>1. CASE owned
    <3>1. f.cmd.target # k
      BY <1>5, <2>1 DEF FlightsOf
    <3>2. \E s : sessions' = [sessions EXCEPT ![k] = s]
      BY <2>1 DEF Leave
    <3> HIDE DEF k
    <3>3. f.cmd.target \in Keys
      BY BridgeAssumption, <1>3, <1>5 DEF Flight, Command
    <3> QED BY <3>1, <3>2, <3>3 DEF Sound, Leased, TypeOK
  <2>2. CASE ~owned
    BY <2>2 DEF Leave
  <2> QED BY <2>1, <2>2
<1> HIDE DEF left, flights, code
<1>6. left \in Receipts /\ Booked(left, inFlight) /\ Awaited(left, There \ {c})
  BY <1>2, <1>3, BookedWithoutWaiter DEF left
<1>7. Booked(receipts', inFlight') /\ Awaited(receipts', There')
  BY <1>1, <1>3, <1>4, <1>6, BookedSettled
<1>8. Hosted(inFlight', sessions')
  <2>1. \A f \in inFlight \ flights : /\ sessions'[f.cmd.target] # NoSession
                                      /\ SameLease(sessions'[f.cmd.target], sessions[f.cmd.target])
    BY <1>5 DEF Sound, Accounted, Active, Live, SameLease
  <2>2. inFlight \ flights \in SUBSET inFlight
    OBVIOUS
  <2> QED BY <2>1, <2>2, <1>1, HostedKept
<1> QED BY <1>7, <1>8, AccountedPartsNext

LEMMA AccountedHello ==
    ASSUME Sound, NEW c \in Conns, NEW state \in Connection, NEW limit, Hello(c, state, limit)
    PROVE  Accounted'
<1>1. CASE Leave(c)
  BY <1>1, AccountedLeave
<1>2. CASE conns' = [conns EXCEPT ![c] = state] /\ UNCHANGED <<sessions, receipts, inFlight>>
  <2>1. There \subseteq There'
    BY <1>2 DEF There, Connection, Gone, Sound, Leased, TypeOK
  <2> QED BY <1>2, <2>1, AccountedRest DEF Active, Live, SameLease
<1> QED BY <1>1, <1>2 DEF Hello

\* A session is opened where there was none, or none active: no effect of it
\* is in flight.
LEMMA AccountedSessionOpen ==
    ASSUME Sound, NEW c \in Conns, NEW k \in Keys, NEW caps \in Capabilities,
           NEW requests \in SUBSET Requests, SessionOpen(c, k, caps, requests)
    PROVE  Accounted'
<1>1. CASE Refuses(c, k)
  BY <1>1, AccountedLeave DEF SessionOpen
<1>2. CASE ~Refuses(c, k)
  <2>1. PICK record : sessions' = [sessions EXCEPT ![k] = record]
    BY <1>2 DEF SessionOpen
  <2>2. ~Active(k) /\ conns' = [conns EXCEPT ![c].session = k] /\ conns[c].role = "host"
        /\ UNCHANGED <<receipts, inFlight>>
    BY <1>2 DEF SessionOpen, Refuses
  <2>3. \A j \in Keys : Active(j) => Live(j)' /\ SameLease(sessions'[j], sessions[j])
    BY <2>1, <2>2 DEF Active, Live, SameLease, Sound, Leased, TypeOK
  <2>4. There \subseteq There'
    <3>1. conns[c] \in Connection
      BY <2>2 DEF Sound, Leased, TypeOK, Gone
    <3>2. [conns[c] EXCEPT !.session = k] # Gone
      BY <3>1 DEF Connection, Gone
    <3> QED BY <2>2, <3>2 DEF There, Sound, Leased, TypeOK
  <2> QED BY <2>2, <2>3, <2>4, AccountedRest
<1> QED BY <1>1, <1>2

LEMMA AccountedFacts ==
    ASSUME Sound, NEW c \in Conns, NEW k \in Keys, Facts(c, k)
    PROVE  Accounted'
<1>1. PICK record \in Session : Fact(k, record) /\ SameLease(record, sessions[k])
  BY FactRecord DEF Sound, Leased
<1>2. /\ sessions' = [sessions EXCEPT ![k] = Recompute(record)]
      /\ UNCHANGED <<conns, receipts, inFlight>>
  BY <1>1 DEF Fact
<1>3. Recompute(record) \in Session /\ SameLease(Recompute(record), sessions[k])
  BY <1>1, RecomputeType, RecomputeKeeps DEF SameLease
<1>4. \A j \in Keys : Active(j) => Live(j)' /\ SameLease(sessions'[j], sessions[j])
  BY <1>2, <1>3 DEF Active, Live, SameLease, Session, NoSession, Sound, Leased, TypeOK
<1>5. There \subseteq There'
  BY <1>2 DEF There
<1> QED BY <1>2, <1>4, <1>5, AccountedRest

\* The receipts and flights an action settles, when every other flight's
\* session keeps its lease.
LEMMA AccountedSettled ==
    ASSUME Sound, NEW done \in SUBSET inFlight, NEW code \in Codes \ {"none"},
           NEW delivered \in BOOLEAN,
           inFlight' = inFlight \ done, receipts' \in Receipts,
           \A s \in UsedScopes :
               LET settled == SettleReceipts(receipts, done, code, delivered)[s]
               IN  \/ receipts'[s] = settled
                   \/ receipts'[s] = NoReceipt /\ settled.result # "none",
           There \subseteq There',
           \A f \in inFlight \ done :
               /\ sessions'[f.cmd.target] # NoSession
               /\ SameLease(sessions'[f.cmd.target], sessions[f.cmd.target])
    PROVE  Accounted'
<1> DEFINE settled == SettleReceipts(receipts, done, code, delivered)
<1>1. Booked(receipts, inFlight) /\ Awaited(receipts, There)
  BY AccountedParts DEF Sound
<1>2. receipts \in Receipts /\ inFlight \in SUBSET Flight /\ inFlight \ done \in SUBSET Flight
  BY DEF Sound, Leased, TypeOK, Receipts
<1>3. Booked(settled, inFlight \ done) /\ Awaited(settled, There)
  BY <1>1, <1>2, BookedSettled
<1>4. settled \in Receipts
  BY <1>2, SettleReceiptsType DEF Receipts
<1>5. Booked(receipts', inFlight') /\ Awaited(receipts', There)
  BY <1>2, <1>3, <1>4, BookedDropped
<1>6. Awaited(receipts', There')
  BY <1>5 DEF Awaited
<1>7. Hosted(inFlight', sessions')
  BY HostedKept
<1> QED BY <1>5, <1>6, <1>7, AccountedPartsNext

LEMMA AccountedEffectResult ==
    ASSUME Sound, NEW c \in Conns, NEW k \in Keys, NEW f \in inFlight,
           NEW delivered \in BOOLEAN, EffectResult(c, k, f, delivered)
    PROVE  Accounted'
<1> DEFINE record == SettleTickets(sessions[k], {f}, delivered)
           settled == SettleReceipts(receipts, {f}, "dispatched", delivered)
<1>1. sessions[k] \in Session /\ {f} \in SUBSET Flight /\ {f} \in SUBSET inFlight
  BY ReportsType DEF EffectResult, Sound, Leased, TypeOK
<1>2. record \in Session /\ SameLease(record, sessions[k])
  BY <1>1, SettleTicketsType, SettleTicketsLease
<1>3. /\ sessions' = [sessions EXCEPT ![k] = record]
      /\ receipts' = settled
      /\ inFlight' = inFlight \ {f}
      /\ conns' = conns
  BY DEF EffectResult
<1> HIDE DEF record
<1>4. \A g \in inFlight : /\ sessions'[g.cmd.target] # NoSession
                          /\ SameLease(sessions'[g.cmd.target], sessions[g.cmd.target])
  <2>1. \A g \in inFlight : Active(g.cmd.target)
    BY DEF Sound, Accounted
  <2>2. record # NoSession
    BY <1>2 DEF Session, NoSession
  <2> QED BY <2>1, <2>2, <1>2, <1>3 DEF Active, Live, SameLease, Sound, Leased, TypeOK
<1>5. receipts' \in Receipts
  BY EffectResultType DEF Sound, Leased, TypeOK, Receipts
<1>6. There \subseteq There' /\ "dispatched" \in Codes \ {"none"}
  BY <1>3 DEF There, Codes
<1> HIDE DEF settled
<1>7. \A s \in UsedScopes : receipts'[s] = settled[s]
  BY <1>3
<1> QED BY <1>1, <1>3, <1>4, <1>5, <1>6, <1>7, AccountedSettled DEF settled

\* A connection is there still when its session is removed.
LEMMA ThereWithoutSessions ==
    ASSUME TypeOK, NEW removed, conns' = WithoutSessions(removed)
    PROVE  There \subseteq There'
<1> SUFFICES ASSUME NEW c \in There PROVE conns'[c] # Gone
  BY DEF There
<1>1. conns[c] \in Connection
  BY DEF There, TypeOK
<1>2. [conns[c] EXCEPT !.session = None] # Gone
  BY <1>1 DEF Connection, Gone
<1> QED BY <1>1, <1>2 DEF WithoutSessions, There

LEMMA AccountedSessionEnd ==
    ASSUME Sound, NEW c \in Conns, NEW k \in Keys, SessionEnd(c, k)
    PROVE  Accounted'
<1> DEFINE done == FlightsOf(k)
           settled == SettleReceipts(receipts, done, "dispatch_failed", TRUE)
<1>1. /\ sessions' = [sessions EXCEPT ![k] = NoSession]
      /\ receipts' = settled
      /\ inFlight' = inFlight \ done
      /\ conns' = WithoutSessions({k})
  BY DEF SessionEnd
<1>2. \A g \in inFlight \ done : /\ sessions'[g.cmd.target] # NoSession
                                 /\ SameLease(sessions'[g.cmd.target], sessions[g.cmd.target])
  <2>1. \A g \in inFlight \ done : g.cmd.target # k /\ Active(g.cmd.target)
    BY DEF Sound, Accounted, FlightsOf
  <2> QED BY <2>1, <1>1 DEF Active, Live, SameLease, Sound, Leased, TypeOK
<1>3. receipts' \in Receipts
  BY SessionEndType DEF Sound, Leased, TypeOK, Receipts
<1>4. There \subseteq There' /\ "dispatch_failed" \in Codes \ {"none"}
  BY <1>1, ThereWithoutSessions DEF Sound, Leased, Codes
<1>5. done \in SUBSET inFlight
  BY DEF FlightsOf
<1> HIDE DEF settled, done
<1>6. \A s \in UsedScopes : receipts'[s] = settled[s]
  BY <1>1
<1> QED BY <1>1, <1>2, <1>3, <1>4, <1>5, <1>6, AccountedSettled DEF settled

LEMMA AccountedTick ==
    ASSUME Sound, Tick
    PROVE  Accounted'
<1> DEFINE removed == {k \in Keys : Lapsed(k)}
           late    == {f \in inFlight : f.deadline <= now \/ f.cmd.target \in removed}
           settled == SettleReceipts(receipts, late, "dispatch_failed", TRUE)
<1>1. /\ inFlight' = inFlight \ late
      /\ conns' = WithoutSessions(removed)
      /\ sessions' = [k \in Keys |->
                     IF ~Live(k) \/ k \in removed THEN NoSession
                     ELSE Expire(SettleTickets(sessions[k], late \cap FlightsOf(k), TRUE))]
  BY DEF Tick
<1>2. receipts' = [s \in UsedScopes |->
                     IF settled[s] # NoReceipt /\ settled[s].result # "none"
                           /\ settled[s].until <= now
                     THEN NoReceipt ELSE settled[s]]
  BY DEF Tick
<1>3. late \in SUBSET inFlight
  OBVIOUS
<1>4. ASSUME NEW g \in inFlight \ late
      PROVE  /\ sessions'[g.cmd.target] # NoSession
             /\ SameLease(sessions'[g.cmd.target], sessions[g.cmd.target])
  <2> DEFINE k == g.cmd.target
             record == SettleTickets(sessions[k], late \cap FlightsOf(k), TRUE)
  <2>1. k \in Keys /\ k \notin removed /\ Active(k)
    BY BridgeAssumption, <1>4 DEF Sound, Accounted, Leased, TypeOK, Flight, Command
  <2>2. sessions[k] \in Session /\ late \cap FlightsOf(k) \in SUBSET Flight
    BY <2>1 DEF Active, Live, Sound, Leased, TypeOK
  <2>3. record \in Session /\ SameLease(record, sessions[k])
    BY <2>2, SettleTicketsType, SettleTicketsLease
  <2>4. sessions'[k] = Expire(record)
    BY <1>1, <2>1 DEF Active
  <2> HIDE DEF record
  <2>5. Expire(record) \in Session /\ SameLease(Expire(record), record)
    BY <2>3, ExpireType, ExpireLease
  <2> QED BY <2>3, <2>4, <2>5 DEF SameLease, Session, NoSession
<1>5. receipts' \in Receipts
  BY TickType DEF Sound, Leased, TypeOK, Receipts
<1>6. There \subseteq There' /\ "dispatch_failed" \in Codes \ {"none"}
  BY <1>1, ThereWithoutSessions DEF Sound, Leased, Codes
<1> HIDE DEF settled, late
<1>7. \A s \in UsedScopes : \/ receipts'[s] = settled[s]
                            \/ receipts'[s] = NoReceipt /\ settled[s].result # "none"
  BY <1>2
<1>8. inFlight' = inFlight \ late
  BY <1>1
<1>9. \A g \in inFlight \ late : /\ sessions'[g.cmd.target] # NoSession
                                 /\ SameLease(sessions'[g.cmd.target], sessions[g.cmd.target])
  BY <1>4
<1> HIDE DEF removed
<1> QED BY <1>3, <1>5, <1>6, <1>7, <1>8, <1>9, AccountedSettled DEF settled

\* The receipt a command leaves; every other stays.
LEMMA KeepShape ==
    ASSUME TypeOK, NEW cmd \in Commands, NEW result \in Codes, NEW waiters \in [Conns -> Nat],
           NEW table, table = Keep(cmd, result, waiters)
    PROVE  /\ table[Scope(cmd)] # NoReceipt
           /\ table[Scope(cmd)].cmd = cmd
           /\ table[Scope(cmd)].until = Later(cmd.expires, now + Retention)
           /\ table[Scope(cmd)].result = result
           /\ table[Scope(cmd)].waiters = waiters
           /\ \A s \in UsedScopes : s # Scope(cmd) => table[s] = receipts[s]
<1> DEFINE receipt == [cmd |-> cmd, until |-> Later(cmd.expires, now + Retention),
                       result |-> result, waiters |-> waiters]
<1>1. table = [receipts EXCEPT ![Scope(cmd)] = receipt] /\ Scope(cmd) \in UsedScopes
  BY DEF Keep, UsedScopes
<1>2. receipt # NoReceipt
  BY DEF NoReceipt
<1> QED BY <1>1, <1>2 DEF TypeOK

LEMMA AccountedClients ==
    ASSUME Sound, NEW c \in Conns, NEW cmd \in Commands,
           AwaitResult(c, cmd) \/ Focus(c, cmd) \/ Dispatch(c, cmd)
    PROVE  Accounted'
<1> DEFINE s == Scope(cmd)
<1>0. s \in UsedScopes /\ TypeOK /\ \A f \in inFlight : Scope(f.cmd) \in UsedScopes
  BY DEF UsedScopes, Sound, Leased, TypeOK, Flight
<1>1. Booked(receipts, inFlight) /\ Awaited(receipts, There) /\ Hosted(inFlight, sessions)
  BY AccountedParts DEF Sound
<1>2. conns' = conns /\ There' = There /\ c \in There
  BY DEF AwaitResult, Focus, Dispatch, Accepts, Admitted, There, Gone
<1>3. CASE AwaitResult(c, cmd)
  <2>1. /\ receipts[s] # NoReceipt /\ receipts[s].result = "none"
        /\ receipts' = [receipts EXCEPT ![s].waiters[c] = @ + 1]
        /\ UNCHANGED <<inFlight, sessions>>
    BY <1>3 DEF AwaitResult, Pending
  <2>2. receipts[s] \in Receipt
    BY <1>0, <2>1 DEF TypeOK
  <2> DEFINE more == [receipts[s] EXCEPT !.waiters[c] = @ + 1]
  <2>3. more.result = "none" /\ more.cmd = receipts[s].cmd /\ more # NoReceipt
    BY <2>1, <2>2 DEF Receipt, NoReceipt
  <2>4. receipts'[s] = more /\ \A r \in UsedScopes : r # s => receipts'[r] = receipts[r]
    BY <1>0, <2>1 DEF TypeOK
  <2> HIDE DEF more, s
  <2>5. Booked(receipts', inFlight')
    BY <1>0, <1>1, <2>1, <2>3, <2>4 DEF Booked
  <2>6. Awaited(receipts', There')
    <3> SUFFICES ASSUME NEW r \in UsedScopes, NEW d \in Conns, receipts'[r] # NoReceipt,
                        receipts'[r].waiters[d] > 0
                 PROVE  receipts'[r].result = "none" /\ d \in There
      BY <1>2 DEF Awaited
    <3>1. CASE r # s
      BY <3>1, <1>1, <2>4 DEF Awaited
    <3>2. CASE r = s /\ d = c
      BY <3>2, <1>2, <2>3, <2>4
    <3>3. CASE r = s /\ d # c
      <4>1. more.waiters = [receipts[s].waiters EXCEPT ![c] = @ + 1]
            /\ receipts[s].waiters \in [Conns -> Nat]
        BY <2>2 DEF more, Receipt
      <4>2. more.waiters[d] = receipts[s].waiters[d]
        BY <3>3, <4>1
      <4> QED BY <3>3, <4>2, <1>0, <1>1, <2>1, <2>3, <2>4 DEF Awaited
    <3> QED BY <3>1, <3>2, <3>3
  <2> QED BY <1>1, <2>1, <2>5, <2>6, AccountedPartsNext
<1>4. CASE Focus(c, cmd)
  <2>1. /\ receipts[s] = NoReceipt
        /\ receipts' = Keep(cmd, "focused", Nobody)
        /\ UNCHANGED <<inFlight, sessions>>
    BY <1>4 DEF Focus, Accepts
  <2>2. Nobody \in [Conns -> Nat] /\ "focused" \in Codes
    BY DEF Nobody, Codes
  <2>3. receipts'[s].result = "focused" /\ receipts'[s].waiters = Nobody
        /\ \A r \in UsedScopes : r # s => receipts'[r] = receipts[r]
    BY <1>0, <2>1, <2>2, KeepShape
  <2> HIDE DEF s
  <2>4. Booked(receipts', inFlight')
    BY <1>0, <1>1, <2>1, <2>3 DEF Booked
  <2>5. Awaited(receipts', There')
    BY <1>1, <1>2, <2>3 DEF Awaited, Nobody
  <2> QED BY <1>1, <2>1, <2>4, <2>5, AccountedPartsNext
<1>5. CASE Dispatch(c, cmd)
  <2> DEFINE k == cmd.target
             flight == [id |-> counter', cmd |-> cmd, deadline |-> now + Deadline,
                        host |-> sessions[k].owner]
             mine == [Nobody EXCEPT ![c] = 1]
  <2>1. /\ receipts[s] = NoReceipt /\ Active(k)
        /\ receipts' = Keep(cmd, "none", mine)
        /\ inFlight' = inFlight \cup {flight}
    BY <1>5 DEF Dispatch, Accepts
  <2>2. mine \in [Conns -> Nat] /\ "none" \in Codes /\ \A d \in Conns : mine[d] > 0 => d = c
    BY DEF Nobody, Codes
  <2> HIDE DEF mine
  <2>3. receipts'[s].result = "none" /\ receipts'[s].waiters = mine /\ receipts'[s].cmd = cmd
        /\ receipts'[s] # NoReceipt
        /\ \A r \in UsedScopes : r # s => receipts'[r] = receipts[r]
    BY <1>0, <2>1, <2>2, KeepShape
  <2>4. flight.cmd = cmd /\ flight.host = sessions[k].owner
    OBVIOUS
  <2> HIDE DEF flight
  <2>5. \A f \in inFlight : Scope(f.cmd) # s
    BY <1>1, <2>1 DEF Booked
  <2>6. Booked(receipts', inFlight')
    <3> HIDE DEF k
    <3>1. \A f \in inFlight' : f = flight \/ f \in inFlight
      BY <2>1
    <3>2. Scope(flight.cmd) = s
      BY <2>4
    <3> HIDE DEF s
    <3> QED BY <1>0, <1>1, <2>1, <2>3, <2>4, <2>5, <3>1, <3>2 DEF Booked
  <2>7. Awaited(receipts', There')
    <3> HIDE DEF s
    <3> QED BY <1>1, <1>2, <2>2, <2>3 DEF Awaited
  <2>8. Hosted(inFlight', sessions')
    <3>1. \A j \in Keys : Active(j) => /\ sessions'[j] # NoSession
                                       /\ SameLease(sessions'[j], sessions[j])
      <4>1. k \in Keys /\ sessions[k] \in Session
        BY <2>1, BridgeAssumption DEF Command, Active, Live, Sound, Leased, TypeOK
      <4>2. TypeOK'
        BY <1>0, <1>5, ClientsType
      <4> DEFINE record == [sessions[k] EXCEPT !.tickets = Reserve(@, cmd.approval)]
      <4>3. record # NoSession /\ SameLease(record, sessions[k])
        BY <4>1 DEF Session, NoSession, SameLease
      <4>4. sessions' = sessions \/ sessions' = [sessions EXCEPT ![k] = record]
        BY <1>5 DEF Dispatch
      <4> HIDE DEF record
      <4> QED BY <1>0, <4>1, <4>3, <4>4 DEF Active, Live, SameLease, TypeOK
    <3>2. \A f \in inFlight' : f.cmd.target \in Keys
      BY <1>0, <2>1, <2>4, BridgeAssumption DEF TypeOK, Flight, Command
    <3>3. flight.cmd.target = k
      BY <2>4
    <3> HIDE DEF k
    <3> QED BY <1>1, <2>1, <2>4, <3>1, <3>2, <3>3 DEF Hosted, Active, Live, SameLease
  <2> QED BY <2>6, <2>7, <2>8, AccountedPartsNext
<1> QED BY <1>3, <1>4, <1>5

LEMMA AccountedStep == Sound /\ [Next]_vars => Accounted'
<1> SUFFICES ASSUME Sound, [Next]_vars
             PROVE  Accounted'
  OBVIOUS
<1>1. ASSUME NEW c \in Conns, HostStep(c)
      PROVE  Accounted'
  <2>1. CASE HostHello(c)
    <3>1. [Fresh EXCEPT !.role = "host"] \in Connection
      BY DEF Fresh, Connection
    <3> QED BY <2>1, <3>1, AccountedHello DEF HostHello
  <2> QED BY <1>1, <2>1, AccountedSessionOpen, AccountedFacts, AccountedEffectResult,
             AccountedSessionEnd DEF HostStep, Facts
<1>2. ASSUME NEW c \in Conns, ClientStep(c)
      PROVE  Accounted'
  <2>1. ASSUME NEW peer \in Peers, ClientHello(c, peer[1], peer[2])
        PROVE  Accounted'
    <3>1. [Fresh EXCEPT !.role = "client", !.client = peer[1], !.tier = peer[2]] \in Connection
      BY BridgeAssumption DEF Fresh, Connection
    <3> QED BY <2>1, <3>1, AccountedHello DEF ClientHello
  <2> QED BY <1>2, <2>1, AccountedClients DEF ClientStep
<1>3. CASE Advance \/ UNCHANGED vars
  <2>1. UNCHANGED <<conns, sessions, receipts, inFlight>>
    BY <1>3 DEF Advance, vars
  <2> QED BY <2>1, AccountedRest DEF There, Active, Live, SameLease
<1> QED BY <1>1, <1>2, <1>3, AccountedConnect, AccountedLeave, AccountedTick DEF Next

LEMMA SoundInit == Init => Sound
<1> SUFFICES ASSUME Init PROVE Accounted
  BY TypeInit, LeaseInit DEF Sound, Leased
<1> QED BY DEF Init, Accounted, Pending

LEMMA SoundStep == Sound /\ [Next]_vars => Sound'
BY TypeStep, LeaseStep, AccountedStep DEF Sound, Leased

\* No open receipt loses its effect, no effect its receipt or the host it was
\* sent to, and nobody waits for a result that was given.
THEOREM AccountedCorrect == Spec => []Accounted
<1>1. Sound => Accounted
  BY DEF Sound
<1> QED BY <1>1, SoundInit, SoundStep, PTL DEF Spec

-----------------------------------------------------------------------------
(* A command is dispatched once.                                           *)

\* A receipt answers for its command at least as long as the command may be
\* sent, and a command whose effect the vendor may have got has its receipt
\* for as long as it may be sent.
Ledger ==
    /\ \A s \in UsedScopes : receipts[s] # NoReceipt =>
         Scope(receipts[s].cmd) = s /\ receipts[s].cmd.expires <= receipts[s].until
    /\ \A f \in inFlight : f.cmd \in spent
    /\ \A cmd \in spent : now < cmd.expires =>
         receipts[Scope(cmd)] # NoReceipt /\ receipts[Scope(cmd)].cmd = cmd

Booking == Sound /\ Ledger

SameReceipt(a, b) ==
    \/ a = NoReceipt /\ b = NoReceipt
    \/ a # NoReceipt /\ b # NoReceipt /\ a.cmd = b.cmd /\ a.until = b.until

\* A receipt that is answered, and one that loses a waiter, is the same receipt.
LEMMA SettledSame ==
    ASSUME NEW table \in Receipts, NEW flights, NEW code \in Codes, NEW s \in UsedScopes
    PROVE  SameReceipt(SettleReceipts(table, flights, code, TRUE)[s], table[s])
<1> DEFINE after == SettleReceipts(table, flights, code, TRUE)
<1>1. after \in Receipts
  BY SettleReceiptsType DEF Receipts
<1>2. CASE table[s] = NoReceipt
  BY <1>2 DEF SettleReceipts, SameReceipt
<1>3. CASE table[s] # NoReceipt
  <2>1. table[s] \in Receipt
    BY <1>3 DEF Receipts
  <2>2. after[s] = table[s] \/ after[s] = [table[s] EXCEPT !.result = code, !.waiters = Nobody]
    BY <1>3 DEF SettleReceipts
  <2> HIDE DEF after
  <2>3. after[s].cmd = table[s].cmd /\ after[s].until = table[s].until /\ after[s] # NoReceipt
    BY <1>3, <2>1, <2>2 DEF Receipt, NoReceipt
  <2> QED BY <1>3, <2>3 DEF SameReceipt, after
<1> QED BY <1>2, <1>3

LEMMA WithoutWaiterSame ==
    ASSUME NEW table \in Receipts, NEW c \in Conns, NEW s \in UsedScopes
    PROVE  SameReceipt(WithoutWaiter(table, c)[s], table[s])
<1> DEFINE after == WithoutWaiter(table, c)
<1>1. CASE table[s] = NoReceipt
  BY <1>1 DEF WithoutWaiter, SameReceipt
<1>2. CASE table[s] # NoReceipt
  <2>1. table[s] \in Receipt
    BY <1>2 DEF Receipts
  <2>2. after[s] = [table[s] EXCEPT !.waiters[c] = 0]
    BY <1>2 DEF WithoutWaiter
  <2> HIDE DEF after
  <2>3. after[s].cmd = table[s].cmd /\ after[s].until = table[s].until /\ after[s] # NoReceipt
    BY <2>1, <2>2 DEF Receipt, NoReceipt
  <2> QED BY <1>2, <2>3 DEF SameReceipt, after
<1> QED BY <1>1, <1>2

\* The clock and the receipts may only move so: a receipt keeps its command, or
\* goes once it has outlived it.
LEMMA LedgerKept ==
    ASSUME Booking, spent' = spent, inFlight' \subseteq inFlight,
           now' \in {now, now + 1},
           \A s \in UsedScopes : \/ SameReceipt(receipts'[s], receipts[s])
                                 \/ receipts'[s] = NoReceipt /\ receipts[s] # NoReceipt
                                    /\ receipts[s].until <= now
    PROVE  Ledger'
<1>1. now \in Nat /\ \A cmd \in Commands : cmd.expires \in Nat /\ Scope(cmd) \in UsedScopes
  BY BridgeAssumption DEF Booking, Sound, Leased, TypeOK, Command, UsedScopes
<1>2. spent \subseteq Commands
  BY DEF Booking, Sound, Leased, TypeOK
<1>3. \A s \in UsedScopes : receipts[s] # NoReceipt =>
         receipts[s].until \in Nat /\ receipts[s].cmd \in Commands
  BY DEF Booking, Sound, Leased, TypeOK, Receipt
<1>4. ASSUME NEW s \in UsedScopes, receipts'[s] # NoReceipt
      PROVE  Scope(receipts'[s].cmd) = s /\ receipts'[s].cmd.expires <= receipts'[s].until
  BY <1>4 DEF SameReceipt, Booking, Ledger
<1>5. ASSUME NEW cmd \in spent, now' < cmd.expires
      PROVE  receipts'[Scope(cmd)] # NoReceipt /\ receipts'[Scope(cmd)].cmd = cmd
  <2> DEFINE s == Scope(cmd)
  <2>1. now < cmd.expires
    BY <1>1, <1>2, <1>5
  <2>2. s \in UsedScopes /\ receipts[s] # NoReceipt /\ receipts[s].cmd = cmd
        /\ cmd.expires <= receipts[s].until
    BY <2>1, <1>1, <1>2 DEF Booking, Ledger
  <2>3. ~(receipts[s].until <= now)
    <3> HIDE DEF s
    <3> QED BY <2>1, <2>2, <1>1, <1>2, <1>3
  <2> QED BY <2>2, <2>3 DEF SameReceipt
<1> QED BY <1>4, <1>5 DEF Ledger, Booking

LEMMA LedgerSame ==
    ASSUME Booking, UNCHANGED <<spent, receipts, inFlight>>, now' \in {now, now + 1}
    PROVE  Ledger'
BY LedgerKept DEF SameReceipt

LEMMA LedgerLeave ==
    ASSUME Booking, NEW c \in Conns, Leave(c)
    PROVE  Ledger'
<1> DEFINE left == WithoutWaiter(receipts, c)
<1>1. PICK flights : /\ receipts' = SettleReceipts(left, flights, "dispatch_failed", TRUE)
                     /\ inFlight' = inFlight \ flights /\ spent' = spent /\ now' = now
  BY DEF Leave
<1>2. receipts \in Receipts /\ "dispatch_failed" \in Codes
  BY DEF Booking, Sound, Leased, TypeOK, Receipts, Codes
<1>3. left \in Receipts /\ \A s \in UsedScopes : SameReceipt(left[s], receipts[s])
  BY <1>2, WithoutWaiterType, WithoutWaiterSame DEF Receipts
<1> HIDE DEF left
<1>4. \A s \in UsedScopes : SameReceipt(receipts'[s], left[s])
  BY <1>1, <1>2, <1>3, SettledSame
<1>5. \A s \in UsedScopes : SameReceipt(receipts'[s], receipts[s])
  BY <1>3, <1>4 DEF SameReceipt
<1> QED BY <1>1, <1>5, LedgerKept

\* Only an effect that never reached the vendor gives its command back.
LEMMA LedgerEffectResult ==
    ASSUME Booking, NEW c \in Conns, NEW k \in Keys, NEW f \in inFlight,
           NEW delivered \in BOOLEAN, EffectResult(c, k, f, delivered)
    PROVE  Ledger'
<1>1. receipts \in Receipts /\ "dispatched" \in Codes /\ spent \subseteq Commands
      /\ \A g \in inFlight : g.cmd \in Commands
  BY DEF Booking, Sound, Leased, TypeOK, Receipts, Codes, Flight
<1>2. /\ receipts' = SettleReceipts(receipts, {f}, "dispatched", delivered)
      /\ inFlight' = inFlight \ {f} /\ now' = now
      /\ spent' = IF delivered THEN spent ELSE spent \ {f.cmd}
  BY DEF EffectResult
<1>3. CASE delivered
  <2>1. \A s \in UsedScopes : SameReceipt(receipts'[s], receipts[s])
    BY <1>1, <1>2, <1>3, SettledSame
  <2> QED BY <2>1, <1>2, <1>3, LedgerKept
<1>4. CASE ~delivered
  <2> DEFINE s == Scope(f.cmd)
  <2>1. /\ s \in UsedScopes /\ receipts[s] # NoReceipt /\ receipts[s].cmd = f.cmd
        /\ \A g \in inFlight \ {f} : Scope(g.cmd) # s
    BY <1>1 DEF Booking, Sound, Accounted, Pending, UsedScopes
  <2>2. \A r \in UsedScopes : receipts'[r] = IF r = s THEN NoReceipt ELSE receipts[r]
    BY <1>2, <1>4, <2>1 DEF SettleReceipts
  <2>3. \A cmd \in Commands : Scope(cmd) \in UsedScopes
    BY DEF UsedScopes
  <2>4. \A g \in inFlight' : g.cmd \in spent'
    BY <1>2, <1>4, <2>1 DEF Booking, Ledger
  <2>5. ASSUME NEW cmd \in spent', now < cmd.expires
        PROVE  receipts'[Scope(cmd)] # NoReceipt /\ receipts'[Scope(cmd)].cmd = cmd
    <3>1. cmd \in spent /\ cmd # f.cmd
      BY <1>2, <1>4, <2>5
    <3>2. receipts[Scope(cmd)] # NoReceipt /\ receipts[Scope(cmd)].cmd = cmd
      BY <3>1, <2>5 DEF Booking, Ledger
    <3>3. Scope(cmd) # s /\ Scope(cmd) \in UsedScopes
      BY <3>1, <3>2, <2>1, <2>3, <1>1
    <3> HIDE DEF s
    <3> QED BY <3>2, <3>3, <2>2
  <2> QED BY <1>2, <2>2, <2>4, <2>5 DEF Booking, Ledger
<1> QED BY <1>3, <1>4

LEMMA LedgerSessionEnd ==
    ASSUME Booking, NEW c \in Conns, NEW k \in Keys, SessionEnd(c, k)
    PROVE  Ledger'
<1>1. receipts \in Receipts /\ "dispatch_failed" \in Codes
  BY DEF Booking, Sound, Leased, TypeOK, Receipts, Codes
<1>2. \A s \in UsedScopes : SameReceipt(receipts'[s], receipts[s])
  BY <1>1, SettledSame DEF SessionEnd
<1> QED BY <1>2, LedgerKept DEF SessionEnd

LEMMA LedgerTick ==
    ASSUME Booking, Tick
    PROVE  Ledger'
<1> DEFINE removed == {k \in Keys : Lapsed(k)}
           late    == {f \in inFlight : f.deadline <= now \/ f.cmd.target \in removed}
           settled == SettleReceipts(receipts, late, "dispatch_failed", TRUE)
<1>1. /\ receipts' = [s \in UsedScopes |->
                     IF settled[s] # NoReceipt /\ settled[s].result # "none"
                           /\ settled[s].until <= now
                     THEN NoReceipt ELSE settled[s]]
      /\ inFlight' = inFlight \ late /\ spent' = spent /\ now' = now
  BY DEF Tick
<1>2. receipts \in Receipts /\ "dispatch_failed" \in Codes
  BY DEF Booking, Sound, Leased, TypeOK, Receipts, Codes
<1>3. \A s \in UsedScopes : SameReceipt(settled[s], receipts[s])
  BY <1>2, SettledSame
<1> HIDE DEF settled, late
<1>4. \A s \in UsedScopes : \/ SameReceipt(receipts'[s], receipts[s])
                            \/ receipts'[s] = NoReceipt /\ receipts[s] # NoReceipt
                               /\ receipts[s].until <= now
  BY <1>1, <1>3 DEF SameReceipt
<1> QED BY <1>1, <1>4, LedgerKept

LEMMA LedgerClients ==
    ASSUME Booking, NEW c \in Conns, NEW cmd \in Commands,
           AwaitResult(c, cmd) \/ Focus(c, cmd) \/ Dispatch(c, cmd)
    PROVE  /\ Ledger'
           /\ Dispatch(c, cmd) => cmd \notin spent
<1> DEFINE s == Scope(cmd)
<1>1. s \in UsedScopes /\ TypeOK /\ now \in Nat /\ spent \subseteq Commands /\ Retention \in Nat
      /\ \A a \in Commands : Scope(a) \in UsedScopes /\ a.expires \in Nat
  BY BridgeAssumption DEF UsedScopes, Command, Booking, Sound, Leased, TypeOK
<1>2. CASE AwaitResult(c, cmd)
  <2>1. /\ receipts[s] # NoReceipt
        /\ receipts' = [receipts EXCEPT ![s].waiters[c] = @ + 1]
        /\ UNCHANGED <<inFlight, spent, now>>
    BY <1>2 DEF AwaitResult, Pending
  <2>2. receipts[s] \in Receipt
    BY <1>1, <2>1 DEF TypeOK
  <2> DEFINE more == [receipts[s] EXCEPT !.waiters[c] = @ + 1]
  <2>3. SameReceipt(more, receipts[s])
    BY <2>1, <2>2 DEF Receipt, NoReceipt, SameReceipt
  <2>4. receipts'[s] = more /\ \A r \in UsedScopes : r # s => receipts'[r] = receipts[r]
    BY <1>1, <2>1 DEF TypeOK
  <2> HIDE DEF more, s
  <2>5. \A r \in UsedScopes : SameReceipt(receipts'[r], receipts[r])
    BY <2>3, <2>4 DEF SameReceipt
  <2>6. Ledger'
    BY <2>1, <2>5, LedgerKept
  <2>7. Dispatch(c, cmd) => cmd \notin spent
    BY <2>1, <1>1 DEF Dispatch, Accepts, s
  <2> QED BY <2>6, <2>7
<1>3. ASSUME NEW result \in Codes, NEW waiters \in [Conns -> Nat], Accepts(c, cmd),
             receipts' = Keep(cmd, result, waiters), now' = now,
             \/ inFlight' = inFlight /\ spent' = spent
             \/ /\ spent' = spent \cup {cmd}
                /\ \A f \in inFlight' : f \in inFlight \/ f.cmd = cmd
      PROVE  Ledger' /\ cmd \notin spent
  <2>1. receipts[s] = NoReceipt /\ now < cmd.expires
    BY <1>3 DEF Accepts, Admitted
  <2>2. /\ receipts'[s] # NoReceipt /\ receipts'[s].cmd = cmd
        /\ receipts'[s].until = Later(cmd.expires, now + Retention)
        /\ \A r \in UsedScopes : r # s => receipts'[r] = receipts[r]
    BY <1>1, <1>3, KeepShape
  <2>3. cmd.expires <= receipts'[s].until
    <3> HIDE DEF s
    <3> QED BY <1>1, <2>2 DEF Later
  <2>4. cmd \notin spent
    BY <2>1 DEF Booking, Ledger
  <2>5. \A r \in UsedScopes : receipts'[r] # NoReceipt =>
           Scope(receipts'[r].cmd) = r /\ receipts'[r].cmd.expires <= receipts'[r].until
    BY <2>2, <2>3 DEF Booking, Ledger
  <2>6. \A f \in inFlight' : f.cmd \in spent'
    BY <1>3 DEF Booking, Ledger
  <2>7. ASSUME NEW a \in spent', now < a.expires
        PROVE  receipts'[Scope(a)] # NoReceipt /\ receipts'[Scope(a)].cmd = a
    <3>1. CASE a = cmd
      BY <2>2, <3>1
    <3>2. CASE a \in spent
      <4>1. receipts[Scope(a)] # NoReceipt /\ receipts[Scope(a)].cmd = a /\ Scope(a) \in UsedScopes
        BY <1>1, <2>7, <3>2 DEF Booking, Ledger
      <4>2. Scope(a) # s
        BY <2>1, <4>1
      <4> QED BY <2>2, <4>1, <4>2
    <3> QED BY <1>3, <3>1, <3>2
  <2> QED BY <1>3, <2>4, <2>5, <2>6, <2>7 DEF Ledger
<1>4. CASE Focus(c, cmd)
  <2>1. Nobody \in [Conns -> Nat] /\ "focused" \in Codes
    BY DEF Nobody, Codes
  <2> QED BY <1>3, <1>4, <2>1 DEF Focus
<1>5. CASE Dispatch(c, cmd)
  <2> DEFINE mine == [Nobody EXCEPT ![c] = 1]
  <2>1. mine \in [Conns -> Nat] /\ "none" \in Codes
    BY DEF Nobody, Codes
  <2>2. /\ Accepts(c, cmd) /\ receipts' = Keep(cmd, "none", mine) /\ now' = now
        /\ spent' = spent \cup {cmd}
        /\ \A f \in inFlight' : f \in inFlight \/ f.cmd = cmd
    BY <1>5 DEF Dispatch
  <2> HIDE DEF mine
  <2> QED BY <1>3, <2>1, <2>2
<1> QED BY <1>2, <1>4, <1>5

LEMMA LedgerStep == Booking /\ [Next]_vars => Ledger'
<1> SUFFICES ASSUME Booking, [Next]_vars
             PROVE  Ledger'
  OBVIOUS
<1>1. ASSUME NEW c \in Conns, HostStep(c)
      PROVE  Ledger'
  <2>1. CASE HostHello(c)
    BY <2>1, LedgerLeave, LedgerSame DEF HostHello, Hello
  <2>2. ASSUME NEW k \in Keys, NEW caps \in Capabilities, NEW requests \in SUBSET Requests,
               SessionOpen(c, k, caps, requests)
        PROVE  Ledger'
    BY <2>2, LedgerLeave, LedgerSame DEF SessionOpen
  <2>3. ASSUME NEW k \in Keys, Facts(c, k)
        PROVE  Ledger'
    <3>1. UNCHANGED <<spent, receipts, inFlight, now>>
      BY <2>3, FactRecord DEF Fact, Booking, Sound, Leased
    <3> QED BY <3>1, LedgerSame
  <2> QED BY <1>1, <2>1, <2>2, <2>3, LedgerEffectResult, LedgerSessionEnd DEF HostStep, Facts
<1>2. ASSUME NEW c \in Conns, ClientStep(c)
      PROVE  Ledger'
  <2>1. ASSUME NEW peer \in Peers, ClientHello(c, peer[1], peer[2])
        PROVE  Ledger'
    BY <2>1, LedgerLeave, LedgerSame DEF ClientHello, Hello
  <2> QED BY <1>2, <2>1, LedgerClients DEF ClientStep
<1>3. CASE Advance \/ UNCHANGED vars \/ \E c \in Conns : Connect(c)
  BY <1>3, LedgerSame DEF Advance, vars, Connect
<1> QED BY <1>1, <1>2, <1>3, LedgerLeave, LedgerTick DEF Next

\* The command of a new flight is one Dispatch accepted.
LEMMA NewFlight ==
    ASSUME TypeOK, [Next]_vars, NEW f \in inFlight' \ inFlight
    PROVE  \E c \in Conns, cmd \in Commands : Dispatch(c, cmd) /\ f.cmd = cmd
<1>1. ASSUME NEW c \in Conns, Leave(c)
      PROVE  inFlight' \subseteq inFlight
  BY <1>1 DEF Leave
<1>2. ASSUME NEW c \in Conns, HostStep(c)
      PROVE  inFlight' \subseteq inFlight
  <2>1. ASSUME NEW k \in Keys, Facts(c, k)
        PROVE  inFlight' = inFlight
    BY <2>1, FactRecord DEF Fact
  <2> QED BY <1>1, <1>2, <2>1
          DEF HostStep, Facts, HostHello, Hello, SessionOpen, EffectResult, SessionEnd
<1>3. ASSUME NEW c \in Conns, ClientStep(c)
      PROVE  \E cmd \in Commands : Dispatch(c, cmd) /\ f.cmd = cmd
  <2>1. PICK cmd \in Commands : Dispatch(c, cmd)
    BY <1>1, <1>3 DEF ClientStep, ClientHello, Hello, AwaitResult, Focus
  <2>2. f.cmd = cmd
    BY <2>1 DEF Dispatch
  <2> QED BY <2>1, <2>2
<1> QED BY <1>1, <1>2, <1>3 DEF Next, Connect, Advance, Tick, vars

LEMMA BookingInit == Init => Booking
BY SoundInit DEF Booking, Ledger, Init

LEMMA BookingStep == Booking /\ [Next]_vars => Booking'
BY SoundStep, LedgerStep DEF Booking

\* A command is never dispatched while an earlier effect of it may have reached
\* the vendor: the receipt that stops the duplicate outlives the command.
THEOREM DispatchedOnce == Spec => DispatchOnce
<1>1. Booking /\ [Next]_vars => [\A f \in inFlight' \ inFlight : f.cmd \notin spent]_vars
  <2> SUFFICES ASSUME Booking, [Next]_vars, NEW f \in inFlight' \ inFlight
               PROVE  f.cmd \notin spent
    OBVIOUS
  <2>1. PICK c \in Conns, cmd \in Commands : Dispatch(c, cmd) /\ f.cmd = cmd
    BY NewFlight DEF Booking, Sound, Leased
  <2> QED BY <2>1, LedgerClients
<1> QED BY <1>1, BookingInit, BookingStep, PTL DEF Spec, DispatchOnce

-----------------------------------------------------------------------------
(* One session: its tickets, its decisions and its flights.                *)

Decides(f, id) == f.cmd.kind \in Decisions /\ f.cmd.approval = id

\* Reserved, of one session's record and the flights to its host.
WellKept(s, flights) ==
    /\ \A t \in s.tickets : /\ t.reserved <=> \E f \in flights : Decides(f, t.id)
                            /\ t.resolved => t.reserved
                            /\ \A d \in s.decided : d.id # t.id
                            /\ \A u \in s.tickets : u.id = t.id => u = t
    /\ \A f \in flights : f.cmd.kind \in Decisions =>
                              \E t \in s.tickets : t.id = f.cmd.approval
    /\ \A f, g \in flights : f.cmd.kind \in Decisions /\ Decides(g, f.cmd.approval) => f = g

\* No ticket is new, and what is decided was a ticket or was decided.
Inherits(after, s) ==
    /\ \A t \in after.tickets : \E u \in s.tickets : u.id = t.id
    /\ \A d \in after.decided : \/ \E e \in s.decided : e.id = d.id
                                \/ \E u \in s.tickets : u.id = d.id

LEMMA RecomputeWellKept ==
    ASSUME NEW s \in Session, NEW old \in Session, NEW flights,
           WellKept(s, flights), Inherits(s, old)
    PROVE  WellKept(Recompute(s), flights) /\ Inherits(Recompute(s), old)
BY RecomputeKeeps DEF WellKept, Inherits

\* Settling some of a session's flights keeps the rest in step; a delivered
\* decision takes its ticket along.
LEMMA SettleWellKept ==
    ASSUME NEW s \in Session, NEW flights \in SUBSET Flight, NEW done \in SUBSET flights,
           NEW delivered \in BOOLEAN, WellKept(s, flights)
    PROVE  /\ WellKept(SettleTickets(s, done, delivered), flights \ done)
           /\ Inherits(SettleTickets(s, done, delivered), s)
           /\ delivered => \A f \in done, t \in SettleTickets(s, done, delivered).tickets :
                               ~Decides(f, t.id)
<1> DEFINE named == Named(s, done)
           over  == Over(s, done, delivered)
           back  == Back(s, done, delivered)
           after == SettledRecord(s, done, delivered)
<1>1. s.tickets \subseteq Ticket /\ done \in SUBSET Flight
  BY DEF Session
<1>2. /\ after \in Session
      /\ SettleTickets(s, done, delivered) = IF named = {} THEN s ELSE Recompute(after)
  BY <1>1, SettledRecordShape
<1>3. \A t \in s.tickets : t \in named <=> \E f \in done : Decides(f, t.id)
  BY DEF Named, Decides
<1>4. CASE named = {}
  <2>1. \A t \in s.tickets, f \in done : ~Decides(f, t.id)
    BY <1>3, <1>4
  <2>2. WellKept(s, flights \ done)
    BY <2>1 DEF WellKept
  <2>3. Inherits(s, s)
    BY DEF Inherits
  <2> QED BY <1>2, <1>4, <2>1, <2>2, <2>3
<1>5. CASE named # {}
  <2>1. after.tickets = (s.tickets \ named) \cup back /\ after.decided = s.decided \cup Decide(over)
    BY DEF SettledRecord, Session
  <2>2. over \subseteq named /\ named \subseteq s.tickets
        /\ \A t \in named \ over : ~delivered /\ ~t.resolved
    BY DEF Over, Named
  <2>3. \A d \in Decide(over) : \E u \in over : d.id = u.id
    BY DEF Decide
  <2>4. \A t \in back : \E u \in named \ over : t.id = u.id /\ ~t.reserved /\ ~t.resolved
                                                /\ t = [u EXCEPT !.reserved = FALSE]
    BY <1>1, <2>2 DEF Back, Ticket
  <2> HIDE DEF named, over, back, after
  <2>5. \A t \in after.tickets : \E u \in s.tickets : u.id = t.id
    BY <2>1, <2>2, <2>4
  <2>6. Inherits(after, s)
    BY <2>1, <2>2, <2>3, <2>5 DEF Inherits
  <2>7. ASSUME NEW t \in after.tickets
        PROVE  /\ t.reserved <=> \E f \in flights \ done : Decides(f, t.id)
               /\ t.resolved => t.reserved
    <3>1. CASE t \in s.tickets \ named
      BY <1>3, <3>1 DEF WellKept
    <3>2. CASE t \in back
      <4>1. PICK u \in named \ over : t.id = u.id /\ ~t.reserved /\ ~t.resolved
        BY <2>4, <3>2
      <4>2. PICK g \in done : Decides(g, u.id)
        BY <1>3, <2>2, <4>1
      <4>3. \A f \in flights : Decides(f, t.id) => f = g
        BY <4>1, <4>2 DEF WellKept, Decides
      <4> QED BY <4>1, <4>2, <4>3
    <3> QED BY <3>1, <3>2, <2>1
  <2>8. ASSUME NEW t \in after.tickets
        PROVE  \A u \in after.tickets : u.id = t.id => u = t
    <3> SUFFICES ASSUME NEW u \in after.tickets, u.id = t.id
                 PROVE  u = t
      OBVIOUS
    <3>1. CASE t \in s.tickets \ named /\ u \in s.tickets \ named
      BY <3>1 DEF WellKept
    <3>2. CASE t \in back /\ u \in back
      <4>1. PICK v \in named \ over : t.id = v.id /\ t = [v EXCEPT !.reserved = FALSE]
        BY <2>4, <3>2
      <4>2. PICK w \in named \ over : u.id = w.id /\ u = [w EXCEPT !.reserved = FALSE]
        BY <2>4, <3>2
      <4>3. v = w
        BY <2>2, <4>1, <4>2 DEF WellKept
      <4> QED BY <4>1, <4>2, <4>3
    <3>3. ASSUME NEW a \in s.tickets \ named, NEW b \in back, a.id = b.id
          PROVE  FALSE
      BY <2>2, <2>4, <3>3 DEF WellKept
    <3> QED BY <2>1, <3>1, <3>2, <3>3
  <2>9. ASSUME NEW t \in after.tickets, NEW d \in after.decided
         PROVE  d.id # t.id
    <3>1. PICK u \in s.tickets : u.id = t.id /\ u \notin over
      <4>1. CASE t \in s.tickets \ named
        BY <4>1, <2>2
      <4>2. CASE t \in back
        BY <4>2, <2>2, <2>4
      <4> QED BY <2>1, <4>1, <4>2
    <3>2. CASE d \in s.decided
      BY <3>1, <3>2 DEF WellKept
    <3>3. CASE d \in Decide(over)
      BY <3>1, <3>3, <2>2, <2>3 DEF WellKept
    <3> QED BY <2>1, <3>2, <3>3
  <2>10. ASSUME NEW f \in flights \ done, f.cmd.kind \in Decisions
         PROVE  \E t \in after.tickets : t.id = f.cmd.approval
    <3>1. PICK t \in s.tickets : t.id = f.cmd.approval
      BY <2>10 DEF WellKept
    <3>2. t \notin named
      BY <1>3, <2>10, <3>1 DEF WellKept, Decides
    <3> QED BY <2>1, <3>1, <3>2
  <2>11. WellKept(after, flights \ done)
    BY <2>7, <2>8, <2>9, <2>10 DEF WellKept
  <2>12. ASSUME delivered, NEW f \in done, NEW t \in after.tickets
         PROVE  ~Decides(f, t.id)
    <3>1. back = {}
      BY <2>2, <2>4, <2>12
    <3> QED BY <1>3, <2>1, <3>1
  <2>13. Recompute(after).tickets = after.tickets
    BY <1>2, RecomputeKeeps
  <2> QED BY <1>2, <1>5, <2>6, <2>11, <2>12, <2>13, RecomputeWellKept
<1> QED BY <1>4, <1>5

\* A tick drops no reserved ticket.
LEMMA ExpireWellKept ==
    ASSUME NEW s \in Session, NEW flights, WellKept(s, flights)
    PROVE  WellKept(Expire(s), flights) /\ Inherits(Expire(s), s)
           /\ Expire(s).tickets \subseteq s.tickets
<1> DEFINE kept == {t \in s.tickets : t.reserved \/ t.request.expires > now}
           aged == [s EXCEPT !.tickets = kept,
                             !.decided = {d \in @ : d.expires > now}]
<1>1. aged \in Session /\ aged.tickets = kept /\ aged.decided \subseteq s.decided
  BY DEF Session
<1>2. Inherits(aged, s)
  BY <1>1 DEF Inherits
<1>3. WellKept(aged, flights)
  <2>1. kept \subseteq s.tickets /\ \A t \in s.tickets : t.reserved => t \in kept
    OBVIOUS
  <2> HIDE DEF kept, aged
  <2>2. \A f \in flights : f.cmd.kind \in Decisions => \E t \in kept : t.id = f.cmd.approval
    BY <2>1 DEF WellKept, Decides
  <2> QED BY <1>1, <2>1, <2>2 DEF WellKept
<1>4. Expire(s) = aged \/ Expire(s) = Recompute(aged)
  BY DEF Expire
<1> HIDE DEF aged
<1>5. WellKept(Recompute(aged), flights) /\ Inherits(Recompute(aged), s)
      /\ Recompute(aged).tickets = aged.tickets
  BY <1>1, <1>2, <1>3, RecomputeWellKept, RecomputeKeeps
<1> QED BY <1>1, <1>2, <1>3, <1>4, <1>5

-----------------------------------------------------------------------------
(* The desk of open approvals.                                             *)

Vouched(cmd, flights) == \E f \in flights : f.cmd = cmd

\* Reserved, made inductive: ids are minted by the counter and one ticket has
\* each, and a decision the vendor may have got, while its ticket is open, is in
\* flight.
Desk ==
    /\ \A k \in Keys : Live(k) =>
         /\ WellKept(sessions[k], FlightsOf(k))
         /\ \A t \in sessions[k].tickets : t.id <= counter
         /\ \A d \in sessions[k].decided : d.id <= counter
    /\ \A j, k \in Keys : \A t \in Tickets(j), u \in Tickets(k) : t.id = u.id => j = k
    /\ \A cmd \in spent : cmd.kind \in Decisions =>
         /\ cmd.approval <= counter
         /\ \A k \in Keys : \A t \in Tickets(k) :
              t.id = cmd.approval => Vouched(cmd, inFlight)

Deciding == Booking /\ Desk

LEMMA DecidingTypes ==
    ASSUME Deciding
    PROVE  /\ counter \in Nat /\ spent \subseteq Commands /\ inFlight \subseteq Flight
           /\ sessions \in [Keys -> Session \cup {NoSession}]
           /\ \A f \in inFlight : f.cmd \in Commands /\ f.cmd.target \in Keys
           /\ \A cmd \in Commands : cmd.approval \in Nat /\ cmd.target \in Keys
           /\ \A k \in Keys : /\ FlightsOf(k) \in SUBSET Flight
                              /\ Live(k) => /\ sessions[k] \in Session
                                            /\ Tickets(k) = sessions[k].tickets
                                            /\ \A t \in sessions[k].tickets : t.id \in Nat
                                            /\ \A d \in sessions[k].decided : d.id \in Nat
                              /\ ~Live(k) => Tickets(k) = {} /\ FlightsOf(k) = {}
<1>1. TypeOK /\ Accounted
  BY DEF Deciding, Booking, Sound, Leased
<1>2. \A f \in inFlight : f.cmd \in Commands
  BY <1>1 DEF TypeOK, Flight
<1>3. \A cmd \in Commands : cmd.approval \in Nat /\ cmd.target \in Keys
  BY BridgeAssumption DEF Command
<1>4. ASSUME NEW k \in Keys, Live(k)
      PROVE  /\ sessions[k] \in Session
             /\ \A t \in sessions[k].tickets : t.id \in Nat
             /\ \A d \in sessions[k].decided : d.id \in Nat
  <2>1. sessions[k] \in Session
    BY <1>1, <1>4 DEF TypeOK, Live
  <2> QED BY <2>1 DEF Session, Ticket
<1>5. ASSUME NEW k \in Keys, ~Live(k)
      PROVE  FlightsOf(k) = {}
  BY <1>1, <1>5 DEF Accounted, FlightsOf, Active
<1> QED BY <1>1, <1>2, <1>3, <1>4, <1>5 DEF TypeOK, FlightsOf, Tickets

\* A flight's decision concerns a ticket of its own session only.
LEMMA OwnTicket ==
    ASSUME Deciding, NEW f \in inFlight, NEW k \in Keys, NEW t \in Tickets(k), Decides(f, t.id)
    PROVE  f \in FlightsOf(k)
<1>1. Live(f.cmd.target) /\ f.cmd.target \in Keys /\ f \in FlightsOf(f.cmd.target)
  BY DecidingTypes DEF Deciding, Booking, Sound, Accounted, Active, FlightsOf
<1>2. PICK u \in Tickets(f.cmd.target) : u.id = f.cmd.approval
  BY <1>1 DEF Deciding, Desk, WellKept, Decides, Tickets
<1>3. f.cmd.target = k
  BY <1>1, <1>2 DEF Deciding, Desk, Decides
<1> QED BY <1>1, <1>3

\* An action that settles flights and opens nothing.
LEMMA DeskSettled ==
    ASSUME Deciding, NEW done \in SUBSET inFlight,
           inFlight' = inFlight \ done, spent' \subseteq spent, counter' = counter,
           \A k \in Keys : sessions'[k] # NoSession =>
               /\ Live(k)
               /\ WellKept(sessions'[k], FlightsOf(k) \ done)
               /\ Inherits(sessions'[k], sessions[k])
               /\ \A f \in done \cap FlightsOf(k), t \in sessions'[k].tickets :
                      Decides(f, t.id) => f.cmd \notin spent'
    PROVE  Desk'
<1>1. \A k \in Keys : FlightsOf(k)' = FlightsOf(k) \ done
  BY DEF FlightsOf
<1>2. \A k \in Keys : \A t \in Tickets(k)' : t \in sessions'[k].tickets /\ Live(k)' /\ Live(k)
  BY DEF Tickets, Live
<1>3. \A k \in Keys : \A t \in Tickets(k)' : \E u \in Tickets(k) : u.id = t.id
  BY <1>2 DEF Inherits, Tickets, Live
<1>4. ASSUME NEW k \in Keys, Live(k)'
      PROVE  /\ WellKept(sessions[k], FlightsOf(k))'
             /\ \A t \in sessions'[k].tickets : t.id <= counter
             /\ \A d \in sessions'[k].decided : d.id <= counter
  <2>1. Live(k) /\ Inherits(sessions'[k], sessions[k])
    BY <1>4 DEF Live
  <2>2. /\ \A t \in sessions[k].tickets : t.id <= counter
        /\ \A d \in sessions[k].decided : d.id <= counter
    BY <2>1 DEF Deciding, Desk
  <2>3. WellKept(sessions'[k], FlightsOf(k)')
    BY <1>1, <1>4 DEF Live
  <2> QED BY <2>1, <2>2, <2>3 DEF Inherits, WellKept, FlightsOf
<1>5. \A j, k \in Keys : \A t \in Tickets(j)', u \in Tickets(k)' : t.id = u.id => j = k
  BY <1>3 DEF Deciding, Desk
<1>6. ASSUME NEW cmd \in spent', cmd.kind \in Decisions, NEW k \in Keys, NEW t \in Tickets(k)',
             t.id = cmd.approval
      PROVE  Vouched(cmd, inFlight')
  <2>1. PICK u \in Tickets(k) : u.id = t.id
    BY <1>3
  <2>2. PICK f \in inFlight : f.cmd = cmd
    BY <1>6, <2>1 DEF Deciding, Desk, Vouched
  <2>3. Decides(f, t.id)
    BY <1>6, <2>2 DEF Decides
  <2>4. f \in FlightsOf(k)
    BY <2>1, <2>3, OwnTicket
  <2>5. f \notin done
    BY <1>2, <1>6, <2>2, <2>3, <2>4 DEF Live
  <2> QED BY <2>2, <2>5 DEF Vouched
<1>7. \A cmd \in spent' : cmd.kind \in Decisions => cmd.approval <= counter'
  BY DEF Deciding, Desk
<1> QED BY <1>4, <1>5, <1>6, <1>7 DEF Desk

LEMMA DeskSame ==
    ASSUME Deciding, UNCHANGED <<sessions, inFlight, counter, spent>>
    PROVE  Desk'
<1>1. \A k \in Keys : sessions'[k] # NoSession =>
         /\ Live(k)
         /\ WellKept(sessions'[k], FlightsOf(k) \ {})
         /\ Inherits(sessions'[k], sessions[k])
  BY DEF Live, Deciding, Desk, WellKept, Inherits
<1>2. {} \in SUBSET inFlight /\ inFlight' = inFlight \ {} /\ spent' \subseteq spent
      /\ counter' = counter
  OBVIOUS
<1>3. \A k \in Keys : sessions'[k] # NoSession =>
         \A f \in {} \cap FlightsOf(k), t \in sessions'[k].tickets :
             Decides(f, t.id) => f.cmd \notin spent'
  OBVIOUS
<1> QED BY <1>1, <1>2, <1>3, DeskSettled

\* One session's record changes, others keep theirs, some of its flights are
\* settled.
LEMMA DeskRecord ==
    ASSUME Deciding, NEW k \in Keys, NEW record \in Session \cup {NoSession}, NEW done \in SUBSET FlightsOf(k),
           sessions' = [sessions EXCEPT ![k] = record],
           inFlight' = inFlight \ done, spent' \subseteq spent, counter' = counter,
           record # NoSession =>
               /\ Live(k)
               /\ WellKept(record, FlightsOf(k) \ done)
               /\ Inherits(record, sessions[k])
               /\ \A f \in done, t \in record.tickets : Decides(f, t.id) => f.cmd \notin spent'
    PROVE  Desk'
<1>1. done \in SUBSET inFlight
  BY DEF FlightsOf
<1>2. sessions'[k] = record /\ \A j \in Keys : j # k => sessions'[j] = sessions[j]
  BY DecidingTypes
<1>3. ASSUME NEW j \in Keys, sessions'[j] # NoSession
      PROVE  /\ Live(j)
             /\ WellKept(sessions'[j], FlightsOf(j) \ done)
             /\ Inherits(sessions'[j], sessions[j])
             /\ \A f \in done \cap FlightsOf(j), t \in sessions'[j].tickets :
                    Decides(f, t.id) => f.cmd \notin spent'
  <2>1. CASE j = k
    BY <1>2, <1>3, <2>1 DEF Live
  <2>2. CASE j # k
    <3>1. sessions'[j] = sessions[j] /\ Live(j)
      BY <1>2, <1>3, <2>2 DEF Live
    <3>2. FlightsOf(j) \ done = FlightsOf(j) /\ done \cap FlightsOf(j) = {}
      BY <2>2 DEF FlightsOf
    <3>3. WellKept(sessions[j], FlightsOf(j)) /\ Inherits(sessions[j], sessions[j])
      BY <3>1 DEF Deciding, Desk, Inherits
    <3> QED BY <3>1, <3>2, <3>3
  <2> QED BY <2>1, <2>2
<1> QED BY <1>1, <1>3, DeskSettled

-----------------------------------------------------------------------------
(* The actions.                                                            *)

LEMMA DeskLeave ==
    ASSUME Deciding, NEW c \in Conns, Leave(c)
    PROVE  Desk'
<1> DEFINE k       == conns[c].session
           flights == FlightsOf(k)
           settled == SettleTickets(sessions[k], flights, TRUE)
<1>1. counter' = counter /\ spent' = spent
  BY DEF Leave
<1>2. CASE Owns(c, k)
  <2>1. k \in Keys /\ Live(k)
    BY <1>2 DEF Leave, Owns, Deciding, Booking, Sound, Leased, TypeOK, Connection
  <2>2. sessions[k] \in Session /\ flights \in SUBSET Flight /\ WellKept(sessions[k], flights)
    BY <2>1, DecidingTypes DEF Deciding, Desk
  <2>3. sessions' = [sessions EXCEPT ![k] = Orphan(settled)] /\ inFlight' = inFlight \ flights
    BY <1>2 DEF Leave
  <2>4. settled \in Session /\ Inherits(settled, sessions[k])
    BY <2>2, SettleTicketsType, SettleWellKept
  <2> HIDE DEF settled
  <2>5. Orphan(settled) \in Session /\ Orphan(settled).tickets = {}
        /\ Orphan(settled).decided = settled.decided
    <3>1. now \in Nat
      BY DEF Deciding, Booking, Sound, Leased, TypeOK
    <3> QED BY <2>4, <3>1, OrphanType DEF Orphan, Recompute, Session
  <2>6. Inherits(Orphan(settled), sessions[k])
    BY <2>4, <2>5 DEF Inherits
  <2>7. WellKept(Orphan(settled), flights \ flights)
    BY <2>5 DEF WellKept
  <2>8. \A f \in flights, t \in Orphan(settled).tickets : Decides(f, t.id) => f.cmd \notin spent'
    BY <2>5
  <2> HIDE DEF k
  <2> QED BY <1>1, <2>1, <2>3, <2>5, <2>6, <2>7, <2>8, DeskRecord
<1>3. CASE ~Owns(c, k)
  <2>1. sessions' = sessions /\ inFlight' = inFlight
    BY <1>3 DEF Leave
  <2> QED BY <1>1, <2>1, DeskSame
<1> QED BY <1>2, <1>3

\* A decision the vendor did not get may be taken again; any other ends its
\* ticket.
LEMMA DeskEffectResult ==
    ASSUME Deciding, NEW c \in Conns, NEW k \in Keys, NEW f \in inFlight,
           NEW delivered \in BOOLEAN, EffectResult(c, k, f, delivered)
    PROVE  Desk'
<1> DEFINE record == SettleTickets(sessions[k], {f}, delivered)
<1>1. /\ sessions' = [sessions EXCEPT ![k] = record]
      /\ inFlight' = inFlight \ {f} /\ counter' = counter
      /\ spent' = IF delivered THEN spent ELSE spent \ {f.cmd}
      /\ Live(k) /\ {f} \in SUBSET FlightsOf(k)
  BY DEF EffectResult, Reports, Owns
<1>2. sessions[k] \in Session /\ FlightsOf(k) \in SUBSET Flight
      /\ WellKept(sessions[k], FlightsOf(k)) /\ {f} \in SUBSET Flight
  BY <1>1, DecidingTypes DEF Deciding, Desk
<1>3. /\ record \in Session
      /\ WellKept(record, FlightsOf(k) \ {f})
      /\ Inherits(record, sessions[k])
      /\ delivered => \A t \in record.tickets : ~Decides(f, t.id)
  BY <1>1, <1>2, SettleTicketsType, SettleWellKept
<1>4. \A g \in {f}, t \in record.tickets : Decides(g, t.id) => g.cmd \notin spent'
  BY <1>1, <1>3
<1>5. spent' \subseteq spent
  BY <1>1
<1> HIDE DEF record
<1> QED BY <1>1, <1>3, <1>4, <1>5, DeskRecord

LEMMA DeskSessionEnd ==
    ASSUME Deciding, NEW c \in Conns, NEW k \in Keys, SessionEnd(c, k)
    PROVE  Desk'
<1>1. /\ sessions' = [sessions EXCEPT ![k] = NoSession]
      /\ inFlight' = inFlight \ FlightsOf(k) /\ counter' = counter /\ spent' \subseteq spent
  BY DEF SessionEnd
<1> QED BY <1>1, DeskRecord

LEMMA DeskTick ==
    ASSUME Deciding, Tick
    PROVE  Desk'
<1> DEFINE removed == {k \in Keys : Lapsed(k)}
           late    == {f \in inFlight : f.deadline <= now \/ f.cmd.target \in removed}
<1>1. /\ inFlight' = inFlight \ late /\ counter' = counter /\ spent' \subseteq spent
      /\ late \in SUBSET inFlight
  BY DEF Tick
<1>2. sessions' = [k \in Keys |->
                     IF ~Live(k) \/ k \in removed THEN NoSession
                     ELSE Expire(SettleTickets(sessions[k], late \cap FlightsOf(k), TRUE))]
  BY DEF Tick
<1> HIDE DEF late, removed
<1>3. ASSUME NEW k \in Keys, sessions'[k] # NoSession
      PROVE  /\ Live(k)
             /\ WellKept(sessions'[k], FlightsOf(k) \ late)
             /\ Inherits(sessions'[k], sessions[k])
             /\ \A f \in late \cap FlightsOf(k), t \in sessions'[k].tickets : ~Decides(f, t.id)
  <2> DEFINE done == late \cap FlightsOf(k)
             settled == SettleTickets(sessions[k], done, TRUE)
  <2>1. Live(k) /\ sessions'[k] = Expire(settled)
    BY <1>2, <1>3
  <2>2. /\ sessions[k] \in Session /\ FlightsOf(k) \in SUBSET Flight
        /\ WellKept(sessions[k], FlightsOf(k))
    BY <2>1, DecidingTypes DEF Deciding, Desk
  <2>3. done \in SUBSET FlightsOf(k) /\ done \in SUBSET Flight
    BY <2>2
  <2> HIDE DEF done
  <2>4. /\ settled \in Session
        /\ WellKept(settled, FlightsOf(k) \ done)
        /\ Inherits(settled, sessions[k])
        /\ \A f \in done, t \in settled.tickets : ~Decides(f, t.id)
    BY <2>2, <2>3, SettleTicketsType, SettleWellKept
  <2> HIDE DEF settled
  <2>5. /\ WellKept(Expire(settled), FlightsOf(k) \ done)
        /\ Inherits(Expire(settled), settled)
        /\ Expire(settled).tickets \subseteq settled.tickets
    BY <2>4, ExpireWellKept
  <2>6. FlightsOf(k) \ done = FlightsOf(k) \ late
    BY DEF done
  <2>7. Inherits(Expire(settled), sessions[k])
    BY <2>4, <2>5 DEF Inherits
  <2>8. \A f \in late \cap FlightsOf(k), t \in Expire(settled).tickets : ~Decides(f, t.id)
    BY <2>4, <2>5 DEF done
  <2> QED BY <2>1, <2>5, <2>6, <2>7, <2>8
<1> QED BY <1>1, <1>3, DeskSettled DEF late

\* A session gets tickets of fresh ids.
LEMMA DeskOpened ==
    ASSUME Deciding, NEW k \in Keys, NEW record \in Session,
           sessions' = [sessions EXCEPT ![k] = record],
           inFlight' = inFlight, spent' = spent, counter' \in Nat, counter <= counter',
           WellKept(record, FlightsOf(k)),
           \A t \in record.tickets : \/ \E u \in Tickets(k) : u.id = t.id
                                     \/ counter < t.id /\ t.id <= counter',
           \A d \in record.decided : d.id <= counter
    PROVE  Desk'
<1>1. record # NoSession
  BY DEF Session, NoSession
<1>2. sessions'[k] = record /\ \A j \in Keys : j # k => sessions'[j] = sessions[j]
  BY DecidingTypes
<1>3. \A j \in Keys : FlightsOf(j)' = FlightsOf(j)
  BY DEF FlightsOf
<1>4. counter \in Nat /\ \A t \in record.tickets : t.id \in Nat
  BY DecidingTypes DEF Session, Ticket
<1>5. \A j \in Keys : \A t \in Tickets(j) : t.id \in Nat /\ t.id <= counter
  BY DecidingTypes DEF Deciding, Desk
<1>6. \A j \in Keys : Tickets(j)' = IF j = k THEN record.tickets ELSE Tickets(j)
  BY <1>1, <1>2 DEF Tickets, Live
<1>7. ASSUME NEW j \in Keys, NEW t \in Tickets(j)'
      PROVE  \/ t.id <= counter /\ \E u \in Tickets(j) : u.id = t.id
             \/ counter < t.id /\ t.id <= counter' /\ j = k
  BY <1>5, <1>6, <1>7
<1>8. ASSUME NEW j \in Keys, Live(j)'
      PROVE  /\ WellKept(sessions[j], FlightsOf(j))'
             /\ \A t \in sessions'[j].tickets : t.id <= counter'
             /\ \A d \in sessions'[j].decided : d.id <= counter'
  <2>1. WellKept(sessions'[j], FlightsOf(j)')
    BY <1>2, <1>3, <1>8 DEF Live, Deciding, Desk
  <2>2. \A t \in Tickets(j)' : t.id \in Nat /\ t.id <= counter'
    BY <1>4, <1>5, <1>6, <1>7
  <2>3. \A d \in sessions'[j].decided : d.id \in Nat /\ d.id <= counter
    BY <1>2, <1>8, DecidingTypes DEF Live, Deciding, Desk, Session
  <2>4. \A t \in sessions'[j].tickets : t.id <= counter'
    BY <2>2, <1>8 DEF Tickets
  <2>5. \A d \in sessions'[j].decided : d.id <= counter'
    BY <2>3, <1>4
  <2> QED BY <2>1, <2>4, <2>5 DEF WellKept, FlightsOf
<1>9. ASSUME NEW i \in Keys, NEW j \in Keys, NEW t \in Tickets(i)', NEW u \in Tickets(j)', t.id = u.id
      PROVE  i = j
  <2>1. t.id \in Nat
    BY <1>4, <1>5, <1>6
  <2> QED BY <1>4, <1>7, <1>9, <2>1 DEF Deciding, Desk
<1>10. ASSUME NEW cmd \in spent', cmd.kind \in Decisions
       PROVE  /\ cmd.approval <= counter'
              /\ \A j \in Keys : \A t \in Tickets(j)' :
                   t.id = cmd.approval => Vouched(cmd, inFlight')
  <2>1. cmd.approval \in Nat /\ cmd.approval <= counter
    BY <1>10, DecidingTypes DEF Deciding, Desk
  <2>2. ASSUME NEW j \in Keys, NEW t \in Tickets(j)', t.id = cmd.approval
        PROVE  Vouched(cmd, inFlight)
    <3>1. PICK u \in Tickets(j) : u.id = t.id
      BY <1>4, <1>7, <2>1, <2>2
    <3> QED BY <1>10, <2>2, <3>1 DEF Deciding, Desk
  <2> QED BY <1>4, <2>1, <2>2
<1> QED BY <1>8, <1>9, <1>10 DEF Desk

LEMMA DeskRequestOpened ==
    ASSUME Deciding, NEW c \in Conns, NEW k \in Keys, NEW req \in Requests,
           RequestOpened(c, k, req)
    PROVE  Desk'
<1> DEFINE ticket == NewTicket(counter', req)
           after  == [sessions[k] EXCEPT !.tickets = @ \cup {ticket}]
<1>1. /\ sessions' = [sessions EXCEPT ![k] = Recompute(after)]
      /\ inFlight' = inFlight /\ spent' = spent /\ counter' = counter + 1 /\ Live(k)
  BY DEF RequestOpened, Fact, Reports, Owns
<1>2. /\ sessions[k] \in Session /\ WellKept(sessions[k], FlightsOf(k)) /\ counter \in Nat
      /\ \A t \in sessions[k].tickets : t.id \in Nat /\ t.id <= counter
      /\ \A d \in sessions[k].decided : d.id \in Nat /\ d.id <= counter
      /\ Tickets(k) = sessions[k].tickets
  BY <1>1, DecidingTypes DEF Deciding, Desk
<1>3. ticket \in Ticket /\ ticket.id = counter + 1 /\ ~ticket.reserved /\ ~ticket.resolved
  BY <1>1, <1>2 DEF NewTicket, Ticket
<1> HIDE DEF ticket
<1>4. after \in Session /\ after.tickets = sessions[k].tickets \cup {ticket}
      /\ after.decided = sessions[k].decided
  BY <1>2, <1>3 DEF Session
<1> HIDE DEF after
<1>5. \A f \in FlightsOf(k) : ~Decides(f, ticket.id)
  BY <1>2, <1>3 DEF WellKept, Decides
<1>6. \A t \in sessions[k].tickets : t.id # ticket.id
  BY <1>2, <1>3
<1>7. \A d \in sessions[k].decided : d.id # ticket.id
  BY <1>2, <1>3
<1>8. WellKept(after, FlightsOf(k))
  BY <1>2, <1>3, <1>4, <1>5, <1>6, <1>7 DEF WellKept
<1>9. Recompute(after) \in Session /\ Recompute(after).tickets = after.tickets
      /\ Recompute(after).decided = after.decided
  BY <1>4, RecomputeType, RecomputeKeeps
<1>10. WellKept(Recompute(after), FlightsOf(k))
  BY <1>8, <1>9 DEF WellKept
<1>11. \A t \in Recompute(after).tickets : \/ \E u \in Tickets(k) : u.id = t.id
                                           \/ counter < t.id /\ t.id <= counter'
  BY <1>1, <1>2, <1>3, <1>4, <1>9
<1>12. counter' \in Nat /\ counter <= counter'
  BY <1>1, <1>2
<1>13. \A d \in Recompute(after).decided : d.id <= counter
  BY <1>2, <1>4, <1>9
<1> QED BY <1>1, <1>9, <1>10, <1>11, <1>12, <1>13, DeskOpened

\* A fact that opens nothing: it may close or mark a ticket, never one whose
\* decision is in flight.
LEMMA DeskFact ==
    ASSUME Deciding, NEW c \in Conns, NEW k \in Keys, Facts(c, k),
           \A req \in Requests : ~RequestOpened(c, k, req)
    PROVE  Desk'
<1> DEFINE s == sessions[k]
<1>0. Live(k)
  BY FactRecord DEF Reports, Owns, Deciding, Booking, Sound, Leased
<1>1. /\ s \in Session /\ WellKept(s, FlightsOf(k)) /\ Tickets(k) = s.tickets
      /\ s.tickets \subseteq Ticket /\ s.decided \subseteq [id : Nat, expires : Nat]
  BY <1>0, DecidingTypes DEF Deciding, Desk, Session
<1>2. ASSUME NEW record \in Session, Fact(k, record), counter' = counter,
             WellKept(record, FlightsOf(k)), Inherits(record, s)
      PROVE  Desk'
  <2>1. /\ sessions' = [sessions EXCEPT ![k] = Recompute(record)]
        /\ inFlight' = inFlight \ {} /\ spent' \subseteq spent /\ counter' = counter
    BY <1>2 DEF Fact
  <2>2. Recompute(record) \in Session /\ WellKept(Recompute(record), FlightsOf(k) \ {})
        /\ Inherits(Recompute(record), s)
    <3>1. FlightsOf(k) \ {} = FlightsOf(k)
      OBVIOUS
    <3> QED BY <1>1, <1>2, <3>1, RecomputeType, RecomputeWellKept
  <2>3. {} \in SUBSET FlightsOf(k)
        /\ \A f \in {}, t \in Recompute(record).tickets : Decides(f, t.id) => f.cmd \notin spent'
    OBVIOUS
  <2> HIDE DEF s
  <2> QED BY <1>0, <2>1, <2>2, <2>3, DeskRecord DEF s
<1>3. ASSUME NEW record \in Session, record.tickets = s.tickets, record.decided = s.decided
      PROVE  WellKept(record, FlightsOf(k)) /\ Inherits(record, s)
  BY <1>1, <1>3 DEF WellKept, Inherits
<1>4. ASSUME NEW record \in Session, NEW kept \in SUBSET s.tickets,
             \A t \in s.tickets : t.reserved => t \in kept,
             record.tickets = kept, record.decided = s.decided
      PROVE  WellKept(record, FlightsOf(k)) /\ Inherits(record, s)
  <2>1. \A f \in FlightsOf(k) : f.cmd.kind \in Decisions => \E t \in kept : t.id = f.cmd.approval
    BY <1>1, <1>4 DEF WellKept, Decides
  <2> QED BY <1>1, <1>4, <2>1 DEF WellKept, Inherits
<1>5. CASE Ready(c, k)
  <2> DEFINE after == [s EXCEPT !.ready = TRUE]
  <2>1. after \in Session /\ after.tickets = s.tickets /\ after.decided = s.decided
    BY <1>1 DEF Session
  <2>2. Fact(k, after) /\ counter' = counter
    BY <1>5 DEF Ready
  <2> HIDE DEF after
  <2> QED BY <1>2, <1>3, <2>1, <2>2
<1>6. CASE TurnStarted(c, k)
  <2> DEFINE after == [s EXCEPT !.ready = TRUE, !.turn = TRUE]
  <2>1. after \in Session /\ after.tickets = s.tickets /\ after.decided = s.decided
    BY <1>1 DEF Session
  <2>2. Fact(k, after) /\ counter' = counter
    BY <1>6 DEF TurnStarted
  <2> HIDE DEF after
  <2> QED BY <1>2, <1>3, <2>1, <2>2
<1>7. ASSUME NEW t \in Tickets(k), RequestResolved(c, k, t)
      PROVE  Desk'
  <2> DEFINE mark   == [t EXCEPT !.resolved = TRUE]
             marked == [s EXCEPT !.tickets = (@ \ {t}) \cup {mark}]
             closed == [s EXCEPT !.tickets = @ \ {t}, !.decided = @ \cup Decide({t})]
  <2>1. t \in s.tickets /\ t \in Ticket /\ counter' = counter
        /\ Fact(k, IF t.reserved THEN marked ELSE closed)
    BY <1>1, <1>7 DEF RequestResolved
  <2>2. mark \in Ticket /\ mark.id = t.id /\ mark.resolved = TRUE /\ mark.reserved = t.reserved
    BY <2>1 DEF Ticket
  <2>3. CASE t.reserved
    <3> HIDE DEF mark
    <3>1. marked \in Session /\ marked.tickets = (s.tickets \ {t}) \cup {mark}
          /\ marked.decided = s.decided
      BY <1>1, <2>2 DEF Session
    <3> HIDE DEF marked
    <3>2. Inherits(marked, s)
      BY <2>1, <2>2, <3>1 DEF Inherits
    <3>3. \A f \in FlightsOf(k) : f.cmd.kind \in Decisions =>
             \E u \in marked.tickets : u.id = f.cmd.approval
      BY <1>1, <2>2, <3>1 DEF WellKept
    <3>4. ASSUME NEW u \in marked.tickets
          PROVE  /\ u.reserved <=> \E f \in FlightsOf(k) : Decides(f, u.id)
                 /\ u.resolved => u.reserved
                 /\ \A d \in marked.decided : d.id # u.id
                 /\ \A v \in marked.tickets : v.id = u.id => v = u
      <4>1. CASE u \in s.tickets \ {t}
        <5>1. u.id # t.id
          BY <1>1, <2>1, <4>1 DEF WellKept
        <5> QED BY <1>1, <2>2, <3>1, <4>1, <5>1 DEF WellKept
      <4>2. CASE u = mark
        <5>1. \A v \in s.tickets : v.id = t.id => v = t
          BY <1>1, <2>1 DEF WellKept
        <5>2. \E f \in FlightsOf(k) : Decides(f, t.id)
          BY <1>1, <2>1, <2>3 DEF WellKept
        <5>3. \A d \in s.decided : d.id # t.id
          BY <1>1, <2>1 DEF WellKept
        <5> QED BY <2>2, <2>3, <3>1, <4>2, <5>1, <5>2, <5>3
      <4> QED BY <3>1, <4>1, <4>2
    <3>5. WellKept(marked, FlightsOf(k))
      BY <1>1, <3>3, <3>4 DEF WellKept
    <3> QED BY <1>2, <2>1, <2>3, <3>1, <3>2, <3>5
  <2>4. CASE ~t.reserved
    <3>1. Decide({t}) \subseteq [id : Nat, expires : Nat] /\ \A d \in Decide({t}) : d.id = t.id
      BY <2>1, BridgeAssumption DEF Ticket, Request, Decide
    <3>2. closed \in Session /\ closed.tickets = s.tickets \ {t}
          /\ closed.decided = s.decided \cup Decide({t})
      BY <1>1, <3>1 DEF Session
    <3> HIDE DEF closed
    <3>3. Inherits(closed, s)
      BY <2>1, <3>1, <3>2 DEF Inherits
    <3>4. \A f \in FlightsOf(k) : ~Decides(f, t.id)
      BY <1>1, <2>1, <2>4 DEF WellKept
    <3>5. \A f \in FlightsOf(k) : f.cmd.kind \in Decisions =>
             \E u \in closed.tickets : u.id = f.cmd.approval
      BY <1>1, <3>2, <3>4 DEF WellKept, Decides
    <3>6. ASSUME NEW u \in closed.tickets
          PROVE  /\ u.reserved <=> \E f \in FlightsOf(k) : Decides(f, u.id)
                 /\ u.resolved => u.reserved
                 /\ \A d \in closed.decided : d.id # u.id
                 /\ \A v \in closed.tickets : v.id = u.id => v = u
      <4>1. u \in s.tickets /\ u.id # t.id
        BY <1>1, <2>1, <3>2 DEF WellKept
      <4> QED BY <1>1, <3>1, <3>2, <4>1 DEF WellKept
    <3>7. WellKept(closed, FlightsOf(k))
      BY <1>1, <3>5, <3>6 DEF WellKept
    <3> QED BY <1>2, <2>1, <2>4, <3>2, <3>3, <3>7
  <2> QED BY <2>3, <2>4
<1>8. CASE TurnTerminal(c, k)
  <2> DEFINE kept  == {t \in s.tickets : t.reserved \/ ~t.request.blocking}
             after == [s EXCEPT !.turn = FALSE, !.attention = FALSE, !.tickets = kept]
  <2>1. after \in Session /\ after.tickets = kept /\ after.decided = s.decided
    BY <1>1 DEF Session
  <2>2. kept \in SUBSET s.tickets /\ \A t \in s.tickets : t.reserved => t \in kept
    OBVIOUS
  <2>3. Fact(k, after) /\ counter' = counter
    BY <1>8 DEF TurnTerminal
  <2> HIDE DEF after, kept
  <2> QED BY <1>2, <1>4, <2>1, <2>2, <2>3
<1>9. ASSUME NEW attention \in BOOLEAN, Status(c, k, attention)
      PROVE  Desk'
  <2> DEFINE after == [s EXCEPT !.attention = attention]
  <2>1. after \in Session /\ after.tickets = s.tickets /\ after.decided = s.decided
    BY <1>1 DEF Session
  <2>2. Fact(k, after) /\ counter' = counter
    BY <1>9 DEF Status
  <2> HIDE DEF after
  <2> QED BY <1>2, <1>3, <2>1, <2>2
<1>10. ASSUME NEW caps \in Capabilities, Capable(c, k, caps)
       PROVE  Desk'
  <2> DEFINE after == [s EXCEPT !.caps = caps]
  <2>1. after \in Session /\ after.tickets = s.tickets /\ after.decided = s.decided
    BY <1>1 DEF Session
  <2>2. Fact(k, after) /\ counter' = counter
    BY <1>10 DEF Capable
  <2> HIDE DEF after
  <2> QED BY <1>2, <1>3, <2>1, <2>2
<1> QED BY <1>5, <1>6, <1>7, <1>8, <1>9, <1>10 DEF Facts

\* A host that opens a session starts with tickets of its own.
LEMMA DeskSessionOpen ==
    ASSUME Deciding, NEW c \in Conns, NEW k \in Keys, NEW caps \in Capabilities,
           NEW requests \in SUBSET Requests, SessionOpen(c, k, caps, requests)
    PROVE  Desk'
<1>1. CASE Refuses(c, k)
  BY <1>1, DeskLeave DEF SessionOpen
<1>2. CASE ~Refuses(c, k)
  <2> DEFINE open == {r \in requests : r.expires > now}
             last == counter + Cardinality(open)
  <2>1. Cardinality(open) \in Nat /\ counter \in Nat
    BY BridgeAssumption, FS_Subset, FS_CardinalityType, DecidingTypes
  <2>2. PICK id \in Bijection(open, (counter + 1) .. last) :
           sessions' = [sessions EXCEPT ![k] =
                         Opened(c, k, caps, {NewTicket(id[r], r) : r \in open})]
    BY <1>2 DEF SessionOpen
  <2>3. counter' = last /\ inFlight' = inFlight /\ spent' = spent /\ ~Active(k)
    BY <1>2 DEF SessionOpen, Refuses
  <2> DEFINE fresh == {NewTicket(id[r], r) : r \in open}
             base == IF Live(k) THEN sessions[k]
                ELSE [life |-> "active", owner |-> None, caps |-> caps,
                      activity |-> "starting", ready |-> FALSE, turn |-> FALSE,
                      attention |-> FALSE, tickets |-> {}, decided |-> {}, since |-> 0]
             after == [base EXCEPT !.owner = c, !.caps = caps, !.life = "active",
                               !.since = 0, !.ready = FALSE, !.attention = FALSE,
                               !.tickets = fresh]
  <2>4. /\ \A r \in open : id[r] \in (counter + 1) .. last
        /\ \A q, r \in open : id[q] = id[r] => q = r
    BY DEF Bijection, Injection, Surjection, IsInjective
  <2>5. \A t \in fresh : /\ t \in Ticket /\ counter < t.id /\ t.id <= last
                         /\ ~t.reserved /\ ~t.resolved
                         /\ \A u \in fresh : u.id = t.id => u = t
    <3> HIDE DEF open, last
    <3>1. last \in Nat
      BY <2>1 DEF last
    <3>2. \A r \in open : id[r] \in Nat /\ counter < id[r] /\ id[r] <= last
      BY <2>1, <2>4, <3>1
    <3>3. open \subseteq Requests
      BY DEF open
    <3>4. \A r \in open : NewTicket(id[r], r) \in Ticket
      BY <3>2, <3>3 DEF NewTicket, Ticket
    <3>5. \A t \in fresh : \E r \in open : t = NewTicket(id[r], r)
      OBVIOUS
    <3>6. \A r \in open : LET t == NewTicket(id[r], r)
                         IN  t.id = id[r] /\ ~t.reserved /\ ~t.resolved
      BY DEF NewTicket
    <3> HIDE DEF fresh
    <3>7. \A t \in fresh : t \in Ticket /\ counter < t.id /\ t.id <= last
                          /\ ~t.reserved /\ ~t.resolved
      BY <3>2, <3>4, <3>5, <3>6
    <3>8. \A t, u \in fresh : u.id = t.id => u = t
      BY <2>4, <3>5, <3>6
    <3> QED BY <3>7, <3>8
  <2> HIDE DEF fresh
  <2>6. base \in Session /\ \A d \in base.decided : d.id \in Nat /\ d.id <= counter
    <3>1. CASE Live(k)
      BY <3>1, DecidingTypes DEF Deciding, Desk
    <3>2. CASE ~Live(k)
      BY <3>2 DEF Session, Activities
    <3> QED BY <3>1, <3>2
  <2> HIDE DEF base
  <2>7. after \in Session /\ after.tickets = fresh /\ after.decided = base.decided
    <3>1. fresh \in SUBSET Ticket
      BY <2>5
    <3> QED BY <2>6, <3>1 DEF Session
  <2>8. Opened(c, k, caps, fresh) = Recompute(after)
    BY DEF Opened, base
  <2> HIDE DEF after
  <2>9. FlightsOf(k) = {}
    BY <2>3 DEF Deciding, Booking, Sound, Accounted, FlightsOf
  <2>10. Recompute(after) \in Session /\ Recompute(after).tickets = fresh
         /\ Recompute(after).decided = base.decided
    BY <2>7, RecomputeType, RecomputeKeeps
  <2> DEFINE record == Recompute(after)
  <2> HIDE DEF record
  <2>11. record \in Session /\ record.tickets = fresh /\ record.decided = base.decided
    BY <2>10 DEF record
  <2>12. \A t \in fresh, d \in base.decided : d.id # t.id
    <3> HIDE DEF open, last
    <3>1. \A t \in fresh : t.id \in Nat
      BY <2>5 DEF Ticket
    <3> QED BY <2>1, <2>5, <2>6, <3>1
  <2>13. WellKept(record, FlightsOf(k))
    <3> HIDE DEF open, last
    <3> QED BY <2>5, <2>9, <2>11, <2>12 DEF WellKept
  <2>14. sessions' = [sessions EXCEPT ![k] = record]
    BY <2>2, <2>8 DEF fresh, record
  <2>15. \A t \in record.tickets : counter < t.id /\ t.id <= counter'
    BY <2>3, <2>5, <2>11
  <2>16. counter' \in Nat /\ counter <= counter' /\ \A d \in record.decided : d.id <= counter
    BY <2>1, <2>3, <2>6, <2>11
  <2> HIDE DEF open, last
  <2> QED BY <2>3, <2>11, <2>13, <2>14, <2>15, <2>16, DeskOpened
<1> QED BY <1>1, <1>2

\* A decision takes a ticket nobody is deciding, and reserves it.
LEMMA DispatchFresh ==
    ASSUME Deciding, NEW c \in Conns, NEW cmd \in Commands, Dispatch(c, cmd),
           cmd.kind \in Decisions
    PROVE  /\ \E t \in sessions[cmd.target].tickets : t.id = cmd.approval /\ ~t.reserved
           /\ \A a \in spent : a.kind \in Decisions => a.approval # cmd.approval
<1> DEFINE k == cmd.target
<1>1. Live(k) /\ k \in Keys /\ Planned(sessions[k], cmd)
  BY DecidingTypes DEF Dispatch, Accepts, Active
<1>2. cmd.kind # "submit_prompt"
  BY DEF Decisions
<1>3. PICK t \in sessions[k].tickets : t.id = cmd.approval /\ ~t.reserved
  BY <1>1, <1>2 DEF Planned, Decidable
<1>4. ASSUME NEW a \in spent, a.kind \in Decisions, a.approval = cmd.approval
      PROVE  FALSE
  <2>1. t \in Tickets(k)
    BY <1>1 DEF Tickets
  <2>2. PICK f \in inFlight : f.cmd = a
    BY <1>1, <1>3, <1>4, <2>1 DEF Deciding, Desk, Vouched
  <2>3. Decides(f, t.id)
    BY <1>3, <1>4, <2>2 DEF Decides
  <2>4. f \in FlightsOf(k)
    BY <1>1, <2>1, <2>3, OwnTicket
  <2> QED BY <1>1, <1>3, <2>3, <2>4 DEF Deciding, Desk, WellKept
<1> QED BY <1>3, <1>4

LEMMA DeskDispatch ==
    ASSUME Deciding, NEW c \in Conns, NEW cmd \in Commands, Dispatch(c, cmd)
    PROVE  Desk'
<1> DEFINE k == cmd.target
           flight == [id |-> counter', cmd |-> cmd, deadline |-> now + Deadline,
                      host |-> sessions[k].owner]
           reserved == [sessions[k] EXCEPT !.tickets = Reserve(@, cmd.approval)]
           record == IF cmd.kind \in Decisions THEN reserved ELSE sessions[k]
<1>1. /\ inFlight' = inFlight \cup {flight} /\ flight.cmd = cmd
      /\ counter' = counter + 1 /\ spent' = spent \cup {cmd}
      /\ Live(k) /\ k \in Keys
      /\ sessions' = IF cmd.kind \in Decisions
                       THEN [sessions EXCEPT ![k].tickets = Reserve(@, cmd.approval)]
                       ELSE sessions
  BY DecidingTypes DEF Dispatch, Accepts, Active
<1>2. /\ sessions[k] \in Session /\ WellKept(sessions[k], FlightsOf(k))
      /\ sessions[k].tickets \subseteq Ticket /\ counter \in Nat
      /\ sessions \in [Keys -> Session \cup {NoSession}]
  BY <1>1, DecidingTypes DEF Deciding, Desk, Session
<1>3. sessions'[k] = record /\ \A j \in Keys : j # k => sessions'[j] = sessions[j]
  BY <1>1, <1>2
<1> HIDE DEF flight
<1>4. FlightsOf(k)' = FlightsOf(k) \cup {flight} /\ \A j \in Keys : j # k => FlightsOf(j)' = FlightsOf(j)
  BY <1>1 DEF FlightsOf
<1>5. record \in Session /\ record.decided = sessions[k].decided
  <2>1. Reserve(sessions[k].tickets, cmd.approval) \in SUBSET Ticket
    BY <1>2 DEF Reserve, Ticket
  <2> QED BY <1>2, <2>1 DEF Session
<1>6. /\ \A t \in record.tickets : \E u \in sessions[k].tickets : u.id = t.id
      /\ WellKept(record, FlightsOf(k) \cup {flight})
  <2>1. CASE cmd.kind \notin Decisions
    <3>1. record = sessions[k] /\ \A t \in record.tickets : ~Decides(flight, t.id)
      BY <1>1, <2>1 DEF Decides
    <3>2. \A f \in FlightsOf(k) \cup {flight} : f.cmd.kind \in Decisions => f \in FlightsOf(k)
      BY <1>1, <2>1
    <3> HIDE DEF record
    <3>3. WellKept(record, FlightsOf(k) \cup {flight})
      BY <1>2, <3>1, <3>2 DEF WellKept, Decides
    <3> QED BY <3>1, <3>3
  <2>2. CASE cmd.kind \in Decisions
    <3> DEFINE old == sessions[k].tickets
               mark(u) == IF u.id = cmd.approval THEN [u EXCEPT !.reserved = TRUE] ELSE u
    <3>1. PICK t \in old : t.id = cmd.approval /\ ~t.reserved
      BY <2>2, DispatchFresh
    <3>2. record.tickets = {mark(u) : u \in old}
      BY <1>2, <2>2 DEF Reserve, Session
    <3>3. \A u \in old : /\ mark(u).id = u.id /\ mark(u).resolved = u.resolved
                         /\ u.id # cmd.approval => mark(u) = u
                         /\ u.id = cmd.approval => mark(u).reserved
      BY <1>2 DEF Ticket
    <3> HIDE DEF mark, record
    <3>4. \A v \in record.tickets : \E u \in old : v = mark(u)
      BY <3>2
    <3>5. \A u \in old : mark(u) \in record.tickets
      BY <3>2
    <3>6. \A f \in FlightsOf(k) : ~Decides(f, cmd.approval)
      BY <1>2, <3>1 DEF WellKept
    <3>7. Decides(flight, cmd.approval) /\ \A id : Decides(flight, id) => id = cmd.approval
      BY <1>1, <2>2 DEF Decides
    <3>8. \A v \in record.tickets : \E u \in old : u.id = v.id
      BY <3>3, <3>4
    <3>9. ASSUME NEW v \in record.tickets
          PROVE  /\ v.reserved <=> \E f \in FlightsOf(k) \cup {flight} : Decides(f, v.id)
                 /\ v.resolved => v.reserved
                 /\ \A d \in record.decided : d.id # v.id
                 /\ \A w \in record.tickets : w.id = v.id => w = v
      <4>1. PICK u \in old : v = mark(u)
        BY <3>4
      <4>2. /\ u.reserved <=> \E f \in FlightsOf(k) : Decides(f, u.id)
            /\ u.resolved => u.reserved
            /\ \A d \in sessions[k].decided : d.id # u.id
            /\ \A w \in old : w.id = u.id => w = u
        BY <1>2 DEF WellKept
      <4>3. \A w \in record.tickets : w.id = v.id => w = v
        BY <3>3, <3>4, <4>1, <4>2
      <4>4. \A d \in record.decided : d.id # v.id
        BY <1>5, <3>3, <4>1, <4>2
      <4>5. CASE u.id = cmd.approval
        <5>1. v.reserved /\ v.id = cmd.approval
          BY <3>3, <4>1, <4>5
        <5> QED BY <3>7, <4>3, <4>4, <5>1
      <4>6. CASE u.id # cmd.approval
        <5>1. v = u /\ ~Decides(flight, u.id)
          BY <3>3, <3>7, <4>1, <4>6
        <5> QED BY <4>2, <4>3, <4>4, <5>1
      <4> QED BY <4>5, <4>6
    <3>10. \A f \in FlightsOf(k) \cup {flight} : f.cmd.kind \in Decisions =>
              \E v \in record.tickets : v.id = f.cmd.approval
      <4>1. \A f \in FlightsOf(k) : f.cmd.kind \in Decisions =>
              \E v \in old : v.id = f.cmd.approval
        BY <1>2 DEF WellKept
      <4> QED BY <1>1, <3>1, <3>3, <3>5, <4>1
    <3>11. \A f, g \in FlightsOf(k) \cup {flight} :
              f.cmd.kind \in Decisions /\ Decides(g, f.cmd.approval) => f = g
      <4>1. \A f, g \in FlightsOf(k) : f.cmd.kind \in Decisions /\ Decides(g, f.cmd.approval) => f = g
        BY <1>2 DEF WellKept
      <4>2. \A f \in FlightsOf(k) : f.cmd.kind \in Decisions => f.cmd.approval # cmd.approval
        BY <3>6 DEF Decides
      <4> QED BY <1>1, <3>6, <3>7, <4>1, <4>2
    <3> QED BY <3>8, <3>9, <3>10, <3>11 DEF WellKept
  <2> QED BY <2>1, <2>2
<1> HIDE DEF record
<1>7. record # NoSession
  BY <1>5 DEF Session, NoSession
<1>8. \A j \in Keys : \A t \in Tickets(j)' : \E u \in Tickets(j) : u.id = t.id
  <2>1. Tickets(k)' = record.tickets /\ Tickets(k) = sessions[k].tickets
    BY <1>1, <1>3, <1>7 DEF Tickets, Live
  <2>2. \A j \in Keys : j # k => Tickets(j)' = Tickets(j)
    BY <1>3 DEF Tickets, Live
  <2> QED BY <1>6, <2>1, <2>2
<1>9. \A j \in Keys : \A t \in Tickets(j) : t.id \in Nat /\ t.id <= counter
  BY DecidingTypes DEF Deciding, Desk
<1>10. ASSUME NEW j \in Keys, Live(j)'
       PROVE  /\ WellKept(sessions[j], FlightsOf(j))'
              /\ \A t \in sessions'[j].tickets : t.id <= counter'
              /\ \A d \in sessions'[j].decided : d.id <= counter'
  <2>1. WellKept(sessions'[j], FlightsOf(j)')
    BY <1>3, <1>4, <1>6, <1>10 DEF Live, Deciding, Desk
  <2>2. \A t \in Tickets(j)' : t.id <= counter'
    BY <1>1, <1>2, <1>8, <1>9
  <2>3. \A t \in sessions'[j].tickets : t.id <= counter'
    BY <1>10, <2>2 DEF Tickets
  <2>4. Live(j) /\ sessions'[j].decided = sessions[j].decided
    BY <1>1, <1>3, <1>5, <1>10 DEF Live
  <2>5. \A d \in sessions[j].decided : d.id \in Nat /\ d.id <= counter
    BY <2>4, DecidingTypes DEF Deciding, Desk
  <2>6. \A d \in sessions'[j].decided : d.id <= counter'
    BY <1>1, <1>2, <2>4, <2>5
  <2> QED BY <2>1, <2>3, <2>6 DEF WellKept, FlightsOf
<1>11. \A i, j \in Keys : \A t \in Tickets(i)', u \in Tickets(j)' : t.id = u.id => i = j
  BY <1>8 DEF Deciding, Desk
<1>12. ASSUME NEW a \in spent', a.kind \in Decisions
       PROVE  /\ a.approval <= counter'
              /\ \A j \in Keys : \A t \in Tickets(j)' :
                   t.id = a.approval => Vouched(a, inFlight')
  <2>1. CASE a = cmd
    <3>1. PICK t \in sessions[k].tickets : t.id = cmd.approval
      BY <1>12, <2>1, DispatchFresh
    <3>2. t.id \in Nat /\ t.id <= counter
      BY <1>1, <1>9, <3>1 DEF Tickets
    <3>3. Vouched(cmd, inFlight')
      BY <1>1 DEF Vouched
    <3>4. a.approval <= counter'
      BY <1>1, <1>2, <2>1, <3>1, <3>2
    <3>5. Vouched(a, inFlight')
      BY <2>1, <3>3
    <3> QED BY <3>4, <3>5
  <2>2. CASE a \in spent
    <3>1. a.approval \in Nat /\ a.approval <= counter
      BY <1>12, <2>2, DecidingTypes DEF Deciding, Desk
    <3>2. ASSUME NEW j \in Keys, NEW t \in Tickets(j)', t.id = a.approval
          PROVE  Vouched(a, inFlight')
      <4>1. Vouched(a, inFlight)
        BY <1>8, <1>12, <2>2, <3>2 DEF Deciding, Desk
      <4> QED BY <1>1, <4>1 DEF Vouched
    <3>3. a.approval <= counter'
      BY <1>1, <1>2, <3>1
    <3> QED BY <3>2, <3>3
  <2> QED BY <1>1, <2>1, <2>2
<1> QED BY <1>10, <1>11, <1>12 DEF Desk

LEMMA DeskStep == Deciding /\ [Next]_vars => Desk'
<1> SUFFICES ASSUME Deciding, [Next]_vars
             PROVE  Desk'
  OBVIOUS
<1>1. ASSUME NEW c \in Conns, HostStep(c)
      PROVE  Desk'
  <2>1. CASE HostHello(c)
    BY <2>1, DeskLeave, DeskSame DEF HostHello, Hello
  <2>2. ASSUME NEW k \in Keys, Facts(c, k)
        PROVE  Desk'
    BY <2>2, DeskFact, DeskRequestOpened
  <2> QED BY <1>1, <2>1, <2>2, DeskSessionOpen, DeskEffectResult, DeskSessionEnd
          DEF HostStep, Facts
<1>2. ASSUME NEW c \in Conns, ClientStep(c)
      PROVE  Desk'
  <2>1. ASSUME NEW peer \in Peers, ClientHello(c, peer[1], peer[2])
        PROVE  Desk'
    BY <2>1, DeskLeave, DeskSame DEF ClientHello, Hello
  <2>2. ASSUME NEW cmd \in Commands, AwaitResult(c, cmd) \/ Focus(c, cmd)
        PROVE  Desk'
    BY <2>2, DeskSame DEF AwaitResult, Focus
  <2> QED BY <1>2, <2>1, <2>2, DeskDispatch DEF ClientStep
<1>3. CASE Advance \/ UNCHANGED vars \/ \E c \in Conns : Connect(c)
  BY <1>3, DeskSame DEF Advance, vars, Connect
<1> QED BY <1>1, <1>2, <1>3, DeskLeave, DeskTick DEF Next

LEMMA DecidingInit == Init => Deciding
BY BookingInit DEF Deciding, Desk, Init, Live, Tickets

LEMMA DecidingStep == Deciding /\ [Next]_vars => Deciding'
BY BookingStep, DeskStep DEF Deciding

\* A ticket is reserved while, and only while, exactly one decision on it is in
\* flight, and a decided approval is not open.
THEOREM ReservedCorrect == Spec => []Reserved
<1>1. Deciding => Reserved
  <2> SUFFICES ASSUME Deciding PROVE Reserved
    OBVIOUS
  <2>1. ASSUME NEW k \in Keys, NEW t \in Tickets(k)
        PROVE  /\ t.reserved <=> \E f \in FlightsOf(k) :
                               f.cmd.kind \in Decisions /\ f.cmd.approval = t.id
               /\ t.resolved => t.reserved
               /\ \A d \in sessions[k].decided : d.id # t.id
    BY <2>1 DEF Deciding, Desk, WellKept, Decides, Tickets
  <2>2. ASSUME NEW f \in inFlight, f.cmd.kind \in Decisions
        PROVE  \E t \in Tickets(f.cmd.target) : t.id = f.cmd.approval
    <3>1. f.cmd.target \in Keys /\ Live(f.cmd.target) /\ f \in FlightsOf(f.cmd.target)
      BY DecidingTypes DEF Deciding, Booking, Sound, Accounted, Active, FlightsOf
    <3> QED BY <2>2, <3>1 DEF Deciding, Desk, WellKept, Tickets
  <2>3. ASSUME NEW f \in inFlight, NEW g \in inFlight, f.cmd.kind \in Decisions,
               g.cmd.kind \in Decisions, f.cmd.approval = g.cmd.approval
        PROVE  f = g
    <3> DEFINE k == f.cmd.target
    <3>1. k \in Keys /\ Live(k)
      BY DecidingTypes DEF Deciding, Booking, Sound, Accounted, Active
    <3>2. PICK t \in Tickets(k) : t.id = f.cmd.approval
      BY <2>2, <2>3
    <3>3. f \in FlightsOf(k) /\ g \in FlightsOf(k) /\ Decides(g, f.cmd.approval)
      BY <2>3, <3>1, <3>2, OwnTicket DEF Decides
    <3> QED BY <2>3, <3>1, <3>3 DEF Deciding, Desk, WellKept
  <2> QED BY <2>1, <2>2, <2>3 DEF Reserved
<1> QED BY <1>1, DecidingInit, DecidingStep, PTL DEF Spec

\* No approval gets a second decision unless the host said that nothing of the
\* first reached the vendor.
THEOREM DecidedOnce == Spec => DecideOnce
<1>1. Deciding /\ [Next]_vars =>
         [\A f \in inFlight' \ inFlight, cmd \in spent :
            f.cmd.kind \in Decisions /\ cmd.kind \in Decisions
               => f.cmd.approval # cmd.approval]_vars
  <2> SUFFICES ASSUME Deciding, [Next]_vars, NEW f \in inFlight' \ inFlight, NEW a \in spent,
                      f.cmd.kind \in Decisions, a.kind \in Decisions
               PROVE  f.cmd.approval # a.approval
    OBVIOUS
  <2>1. PICK c \in Conns, cmd \in Commands : Dispatch(c, cmd) /\ f.cmd = cmd
    BY NewFlight DEF Deciding, Booking, Sound, Leased
  <2> QED BY <2>1, DispatchFresh
<1> QED BY <1>1, DecidingInit, DecidingStep, PTL DEF Spec, DecideOnce
=============================================================================
