------------------------------ MODULE HostLink ------------------------------
(***************************************************************************)
(* A host's connection to the Bridge, bridge/deskhelm_host/link.py         *)
(* (BridgeLink), between a driver and the session the core leases to it.   *)
(*                                                                         *)
(* The link's thread connects, opens the session with the state the driver *)
(* reports, serves effects and starts again when the connection is gone.   *)
(* Driver threads emit facts at any time; emit and the end of the          *)
(* handshake exclude each other by the link's lock. A connection is a FIFO *)
(* each way: the Bridge reads what was sent before it sees the end.        *)
(*                                                                         *)
(* The driver is any that keeps a turn and open requests and emits each    *)
(* change with it; the core's side is _session_open, _fact, _effect_result *)
(* and _forget for one session. Abstracted: the catalog, the content of    *)
(* facts, the back-off, effects other than a prompt.                       *)
(***************************************************************************)
EXTENDS Integers, Sequences, FiniteSets

CONSTANTS
    Conns,      \* connections; one is used again when both ends have closed it
    Requests,   \* requests the vendor may open
    Async,      \* those it does not wait on, which outlive their turn
    Effects,    \* effects the Bridge may send
    None

CONSTANTS       \* bounds of the model
    MaxFacts,   \* changes of the driver's state
    MaxBreaks   \* connections broken by either end, and Bridges restarted

ASSUME LinkAssumption ==
    /\ None \notin Conns \cup Effects /\ Async \subseteq Requests
    /\ {MaxFacts, MaxBreaks} \subseteq Nat

VARIABLES
    driver,     \* the driver's session state
    link,       \* BridgeLink, and what its thread is doing
    chan,       \* the connections
    sess,       \* the core's session
    fate,       \* what became of each effect
    performed,  \* history: what the driver answered to each effect
    missed,     \* history: a fact was dropped after the state was read
    spent       \* bounds: driver changes and breaks so far

vars == <<driver, link, chan, sess, fate, performed, missed, spent>>

State   == [ready : BOOLEAN, turn : BOOLEAN, attention : BOOLEAN, open : SUBSET Requests]
Nothing == [ready |-> FALSE, turn |-> FALSE, attention |-> FALSE, open |-> {}]

Change == [kind : {"ready", "turn_started", "turn_terminal"}]
          \cup [kind : {"status"}, on : BOOLEAN]
          \cup [kind : {"request_opened", "request_resolved"}, request : Requests]

Frame == [type : {"hello", "hello_ok", "opened", "rejected", "close"}]
         \cup [type : {"session_open"}, open : SUBSET Requests]
         \cup [type : {"fact"}, seq : Nat, fact : Change]
         \cup [type : {"effect"}, effect : Effects]
         \cup [type : {"result"}, effect : Effects, outcome : {"accepted", "unsupported"}]

Closed  == [host |-> FALSE, bridge |-> FALSE, up |-> <<>>, down |-> <<>>]
Away    == [at |-> "down", conn |-> None, state |-> Nothing, seq |-> 0, effect |-> None]
Removed == [life |-> "absent", owner |-> None, seq |-> 0, state |-> Nothing]

TypeOK ==
    /\ driver \in State
    /\ link \in [at : {"down", "hello", "opening", "open", "perform", "stopped"},
                 conn : Conns \cup {None}, state : State, seq : Nat,
                 effect : Effects \cup {None}, stop : BOOLEAN,
                 outcome : {"accepted", "unsupported", "unknown"}]
    /\ chan \in [Conns -> [host : BOOLEAN, bridge : BOOLEAN, up : Seq(Frame), down : Seq(Frame)]]
    /\ sess \in [life : {"absent", "active", "disconnected"}, owner : Conns \cup {None},
                 seq : Nat, state : State]
    /\ (sess.life = "active") = (sess.owner # None)
    /\ fate \in [Effects -> {"none", "sent", "accepted", "unsupported", "failed"}]
    /\ performed \in [Effects -> Seq({"accepted", "unsupported", "unknown"})]
    /\ missed \in BOOLEAN

Init ==
    /\ driver = Nothing
    /\ link = [at |-> "down", conn |-> None, state |-> Nothing, seq |-> 0, effect |-> None,
               stop |-> FALSE, outcome |-> "unknown"]
    /\ chan = [c \in Conns |-> Closed]
    /\ sess = Removed
    /\ fate = [e \in Effects |-> "none"]
    /\ performed = [e \in Effects |-> <<>>]
    /\ missed = FALSE
    /\ spent = [facts |-> 0, breaks |-> 0]

-----------------------------------------------------------------------------
(* Frames and facts                                                        *)

\* sendall of frames by the host on c; a closed connection takes none.
SentUp(ch, c, frames) ==
    IF ch[c].host /\ ch[c].bridge THEN [ch EXCEPT ![c].up = @ \o frames] ELSE ch
SentDown(ch, c, frames) ==
    IF ch[c].host /\ ch[c].bridge THEN [ch EXCEPT ![c].down = @ \o frames] ELSE ch

\* What a fact says of the session. The end of a turn takes the requests the vendor waits on with it
\* (at the core unless a decision is in flight: no effect here is one).
Applied(s, f) ==
    CASE f.kind = "ready"            -> [s EXCEPT !.ready = TRUE]
      [] f.kind = "turn_started"     -> [s EXCEPT !.turn = TRUE]
      [] f.kind = "turn_terminal"    -> [s EXCEPT !.turn = FALSE, !.attention = FALSE, !.open = @ \cap Async]
      [] f.kind = "status"           -> [s EXCEPT !.attention = f.on]
      [] f.kind = "request_opened"   -> [s EXCEPT !.open = @ \cup {f.request}]
      [] f.kind = "request_resolved" -> [s EXCEPT !.open = @ \ {f.request}]

Numbered(facts, seq) ==
    [i \in 1..Len(facts) |-> [type |-> "fact", seq |-> seq + i, fact |-> facts[i]]]

ReportNothing(s) == <<>>                                     \* faulty

\* The state as facts, once the session is open. Its requests went with session_open.
Report(s) ==
    (IF s.ready THEN <<[kind |-> "ready"]>> ELSE <<>>) \o
    (IF s.turn THEN <<[kind |-> "turn_started"]>> ELSE <<>>) \o
    (IF s.attention THEN <<[kind |-> "status", on |-> TRUE]>> ELSE <<>>)

Opened == link.at \in {"open", "perform"}

\* emit: f is sent on the open session, and dropped otherwise.
EmitNumberingStale(f) == link.seq                             \* faulty

EmitNumbering(f) == link.seq + 1

Emit(f) ==
    IF Opened
    THEN /\ chan' = SentUp(chan, link.conn, <<[type |-> "fact", seq |-> EmitNumbering(f), fact |-> f]>>)
         /\ link' = [link EXCEPT !.seq = @ + 1]
         /\ UNCHANGED missed
    ELSE /\ missed' = (missed \/ link.at = "opening")
         /\ UNCHANGED <<chan, link>>

-----------------------------------------------------------------------------
(* The driver                                                              *)

Changes ==
    {f \in Change :
        /\ f.kind = "ready" => ~driver.ready
        /\ f.kind = "turn_started" => driver.ready /\ ~driver.turn
        /\ f.kind = "turn_terminal" => driver.turn
        /\ f.kind = "status" => f.on # driver.attention
        /\ f.kind = "request_opened" => driver.turn /\ f.request \notin driver.open
        /\ f.kind = "request_resolved" => f.request \in driver.open}

DriverChanges ==
    /\ spent.facts < MaxFacts
    /\ \E f \in Changes : driver' = Applied(driver, f) /\ Emit(f)
    /\ spent' = [spent EXCEPT !.facts = @ + 1]
    /\ UNCHANGED <<sess, fate, performed>>

-----------------------------------------------------------------------------
(* The link's thread                                                       *)

Connect ==
    /\ link.at = "down" /\ ~link.stop
    /\ \E c \in Conns :
         /\ chan[c] = Closed
         /\ chan' = [chan EXCEPT ![c] = [Closed EXCEPT !.host = TRUE, !.bridge = TRUE,
                                                       !.up = <<[type |-> "hello"]>>]]
         /\ link' = [link EXCEPT !.at = "hello", !.conn = c]
    /\ UNCHANGED <<driver, sess, fate, performed, missed, spent>>

\* _expect: read a batch up to the frame that is waited for, which drops what
\* came with it behind that frame.
Expected(type) ==
    LET down == chan[link.conn].down
    IN  {n \in 1..Len(down) : \E i \in 1..n : down[i].type = type}
Read(ch, n) == [ch EXCEPT ![link.conn].down = SubSeq(@, n + 1, Len(@))]

ReadState == driver

\* hello_ok; the driver's state; session_open
Open ==
    /\ link.at = "hello"
    /\ \E n \in Expected("hello_ok") :
         chan' = SentUp(Read(chan, n), link.conn, <<[type |-> "session_open", open |-> driver.open]>>)
    /\ link' = [link EXCEPT !.at = "opening", !.state = ReadState]
    /\ missed' = FALSE
    /\ UNCHANGED <<driver, sess, fate, performed, spent>>

\* session_open_result: under the lock the link is open and the state reported.
OpenResult ==
    /\ link.at = "opening"
    /\ \E n \in Expected("opened") :
         chan' = SentUp(Read(chan, n), link.conn, Numbered(Report(link.state), 0))
    /\ link' = [link EXCEPT !.at = "open", !.seq = Len(Report(link.state)), !.state = Nothing]
    /\ UNCHANGED <<driver, sess, fate, performed, missed, spent>>

\* _drop, after a refusal, an end of the connection, or stop
Down(at) == [link EXCEPT !.at = at, !.conn = None, !.seq = 0, !.effect = None, !.state = Nothing]

HungUp(ch, c) == [ch EXCEPT ![c].host = FALSE, ![c].down = <<>>,
                            ![c].up = IF ch[c].bridge THEN @ ELSE <<>>]

Drop ==
    /\ link.at \in {"hello", "opening", "open"}
    /\ LET c == link.conn
       IN  \/ ~chan[c].bridge /\ chan[c].down = <<>>
           \/ chan[c].down # <<>> /\ Head(chan[c].down).type = "rejected"
           \/ link.stop /\ link.at = "open"
    /\ chan' = HungUp(chan, link.conn)
    /\ link' = Down(IF link.stop THEN "stopped" ELSE "down")
    /\ UNCHANGED <<driver, sess, fate, performed, missed, spent>>

\* An answer, or room to send, that does not come within io_timeout.
GivesUp ==
    /\ link.at \in {"hello", "opening", "open"} /\ spent.breaks < MaxBreaks
    /\ spent' = [spent EXCEPT !.breaks = @ + 1]
    /\ chan' = HungUp(chan, link.conn)
    /\ link' = Down(IF link.stop THEN "stopped" ELSE "down")
    /\ UNCHANGED <<driver, sess, fate, performed, missed>>

\* _serve, _perform: the driver is given the effect and says what became of it;
\* an exception is an outcome nobody knows.
Serve ==
    /\ link.at = "open" /\ ~link.stop
    /\ chan[link.conn].down # <<>> /\ Head(chan[link.conn].down).type = "effect"
    /\ LET e == Head(chan[link.conn].down).effect
       IN  \E outcome \in {"accepted", "unsupported", "unknown"} :
             /\ link' = [link EXCEPT !.at = "perform", !.effect = e, !.outcome = outcome]
             /\ performed' = [performed EXCEPT ![e] = Append(@, outcome)]
    /\ chan' = Read(chan, 1)
    /\ UNCHANGED <<driver, sess, fate, missed, spent>>

AnswerUnknown(outcome) == IF outcome = "unknown" THEN "unsupported" ELSE outcome    \* faulty

\* An unknown outcome is not reported: the Bridge's deadline answers.
AnswerOutcome(outcome) == outcome

Perform ==
    /\ link.at = "perform"
    /\ chan' = IF AnswerOutcome(link.outcome) = "unknown" THEN chan
               ELSE SentUp(chan, link.conn, <<[type |-> "result", effect |-> link.effect,
                                               outcome |-> AnswerOutcome(link.outcome)]>>)
    /\ link' = [link EXCEPT !.at = "open", !.effect = None, !.outcome = "unknown"]
    /\ UNCHANGED <<driver, sess, fate, performed, missed, spent>>

\* close, by the main thread: an open session is closed; a handshake goes on.
Close ==
    /\ ~link.stop
    /\ IF Opened
       THEN /\ chan' = HungUp(SentUp(chan, link.conn, <<[type |-> "close"]>>), link.conn)
            /\ link' = [Down("stopped") EXCEPT !.stop = TRUE]
       ELSE /\ link' = [link EXCEPT !.stop = TRUE, !.at = IF @ = "down" THEN "stopped" ELSE @]
            /\ UNCHANGED chan
    /\ UNCHANGED <<driver, sess, fate, performed, missed, spent>>

-----------------------------------------------------------------------------
(* The Bridge                                                              *)

\* In-flight effects of a host that is gone are dispatch_failed.
Failed(f) == [e \in Effects |-> IF f[e] = "sent" THEN "failed" ELSE f[e]]

OrphanedKeepingOwner(s) == [s EXCEPT !.life = "disconnected", !.state = Nothing]    \* faulty
OrphanedStillActive(s)  == s                                                       \* faulty

Orphaned(s) == [s EXCEPT !.life = "disconnected", !.owner = None, !.state = Nothing]

\* The Bridge hangs up on c, and forgets it.
Refused(ch, c) == [ch EXCEPT ![c].bridge = FALSE, ![c].up = <<>>,
                             ![c].down = IF ch[c].host THEN @ ELSE <<>>]

BridgeOpens(c, m) ==
    /\ IF sess.life = "active"
       THEN /\ chan' = SentDown([chan EXCEPT ![c].up = Tail(@)], c, <<[type |-> "rejected"]>>)
            /\ UNCHANGED sess
       ELSE /\ sess' = [life |-> "active", owner |-> c, seq |-> 0,
                        state |-> [Nothing EXCEPT !.open = m.open]]
            /\ chan' = SentDown([chan EXCEPT ![c].up = Tail(@)], c, <<[type |-> "opened"]>>)
    /\ UNCHANGED fate

BridgeFact(c, m) ==
    IF sess.owner = c /\ m.seq = sess.seq + 1
    THEN /\ sess' = [sess EXCEPT !.seq = m.seq, !.state = Applied(@, m.fact)]
         /\ chan' = [chan EXCEPT ![c].up = Tail(@)]
         /\ UNCHANGED fate
    ELSE /\ sess' = IF sess.owner = c THEN Orphaned(sess) ELSE sess
         /\ fate' = IF sess.owner = c THEN Failed(fate) ELSE fate
         /\ chan' = Refused(chan, c)

BridgeResult(c, m) ==
    /\ fate' = [fate EXCEPT ![m.effect] = IF @ = "sent" THEN m.outcome ELSE @]
    /\ chan' = [chan EXCEPT ![c].up = Tail(@)]
    /\ UNCHANGED sess

BridgeReads(c) ==
    /\ chan[c].bridge /\ chan[c].up # <<>>
    /\ LET m == Head(chan[c].up)
       IN  \/ /\ m.type = "hello"
              /\ chan' = SentDown([chan EXCEPT ![c].up = Tail(@)], c, <<[type |-> "hello_ok"]>>)
              /\ UNCHANGED <<sess, fate>>
           \/ m.type = "session_open" /\ BridgeOpens(c, m)
           \/ m.type = "fact" /\ BridgeFact(c, m)
           \/ m.type = "result" /\ BridgeResult(c, m)
           \/ /\ m.type = "close"
              /\ sess' = Removed /\ fate' = Failed(fate)
              /\ chan' = [chan EXCEPT ![c].up = Tail(@)]
    /\ UNCHANGED <<driver, link, performed, missed, spent>>

\* The end of the connection, behind everything that was sent on it.
BridgeNotices(c) ==
    /\ chan[c].bridge /\ ~chan[c].host /\ chan[c].up = <<>>
    /\ chan' = [chan EXCEPT ![c] = Closed]
    /\ sess' = IF sess.owner = c THEN Orphaned(sess) ELSE sess
    /\ fate' = IF sess.owner = c THEN Failed(fate) ELSE fate
    /\ UNCHANGED <<driver, link, performed, missed, spent>>

BridgeDispatches(e) ==
    /\ sess.life = "active" /\ fate[e] = "none"
    /\ fate' = [fate EXCEPT ![e] = "sent"]
    /\ chan' = SentDown(chan, sess.owner, <<[type |-> "effect", effect |-> e]>>)
    /\ UNCHANGED <<driver, link, sess, performed, missed, spent>>

BridgeDeadline(e) ==
    /\ fate[e] = "sent"
    /\ fate' = [fate EXCEPT ![e] = "failed"]
    /\ UNCHANGED <<driver, link, chan, sess, performed, missed, spent>>

\* A disconnected session lapses.
BridgeLapses ==
    /\ sess.life = "disconnected"
    /\ sess' = Removed
    /\ UNCHANGED <<driver, link, chan, fate, performed, missed, spent>>

\* The Bridge drops a connection (a full outbox), or restarts without its state.
BridgeBreaks ==
    /\ spent.breaks < MaxBreaks
    /\ spent' = [spent EXCEPT !.breaks = @ + 1]
    /\ \/ \E c \in Conns :
            /\ chan[c].bridge
            /\ chan' = Refused(chan, c)
            /\ sess' = IF sess.owner = c THEN Orphaned(sess) ELSE sess
            /\ fate' = IF sess.owner = c THEN Failed(fate) ELSE fate
       \/ /\ chan' = [c \in Conns |-> Refused(chan, c)[c]]
          /\ sess' = Removed
          /\ fate' = Failed(fate)
    /\ UNCHANGED <<driver, link, performed, missed>>

LinkStep == Connect \/ Open \/ OpenResult \/ Drop \/ Serve \/ Perform
Bridge(c) == BridgeReads(c) \/ BridgeNotices(c)

Next ==
    \/ DriverChanges \/ LinkStep \/ GivesUp \/ Close
    \/ \E c \in Conns : Bridge(c)
    \/ \E e \in Effects : BridgeDispatches(e) \/ BridgeDeadline(e)
    \/ BridgeLapses \/ BridgeBreaks

Spec == Init /\ [][Next]_vars

\* The link retries for ever and the Bridge's threads read what there is.
FairSpec ==
    /\ Spec
    /\ WF_vars(LinkStep)
    /\ \A c \in Conns : WF_vars(Bridge(c))

-----------------------------------------------------------------------------

\* The session once the Bridge has read these frames.
After(s, frames) ==
    LET after[n \in 0..Len(frames)] ==
          IF n = 0 THEN s
          ELSE IF frames[n].type = "fact" THEN Applied(after[n - 1], frames[n].fact)
          ELSE after[n - 1]
    IN  after[Len(frames)]

InStep ==
    Opened /\ chan[link.conn].bridge =>
        /\ sess.life = "active" /\ sess.owner = link.conn
        /\ After(sess.state, chan[link.conn].up) = driver

\* "While the Bridge is unreachable facts are dropped; the session state is
\* rebuilt from the driver when the session reopens": what the Bridge holds and
\* the facts on their way add up to what the driver holds.
Rebuilt == InStep

\* They do unless a fact was emitted between reading the state and opening.
RebuiltUnlessMissed == ~missed => InStep

\* No fact of the open session is out of sequence: the Bridge never hangs up on
\* a host for what it sent, whichever threads emit and however often it reopens.
InSequence ==
    \A c \in Conns : \A i \in 1..Len(chan[c].up) :
        LET m == chan[c].up[i]
        IN  m.type = "fact" /\ sess.owner = c =>
              m.seq = sess.seq + Cardinality({j \in 1..i : chan[c].up[j].type = "fact"})

\* An effect is performed at most once, and an outcome other than
\* dispatch_failed is what the driver said of it: one nobody knows is not guessed.
EffectTrue ==
    \A e \in Effects :
        /\ Len(performed[e]) <= 1
        /\ fate[e] \in {"accepted", "unsupported"} => performed[e] = <<fate[e]>>

\* A host that was closed gives its session up, whether its last frame came
\* through or its connection broke, and whatever the handshake had reached.
Leaves == link.stop ~> sess.life # "active"

\* A lease is the connection's: the Bridge's session and its owner fit together, and the host is
\* never hung up on for the order of its facts.
Leased == TypeOK /\ InSequence
=============================================================================
