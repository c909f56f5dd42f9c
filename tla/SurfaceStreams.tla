--------------------------- MODULE SurfaceStreams ---------------------------
(***************************************************************************)
(* The two streams a surface subscribes to: the console, a numbered        *)
(* projection of every session (bridge/deskhelm_core/core.py), and the     *)
(* interaction stream, a bounded window of events per session.  One        *)
(* surface process (bridge/deskhelm_client/connection.py) keeps a replica  *)
(* of the console across broken connections and restarted Bridges, and     *)
(* hands each event over.                                                  *)
(*                                                                         *)
(* An input to the core is atomic (BridgeCore); here it is its effect on   *)
(* the streams.  The connection is a FIFO in each direction that may break *)
(* at any moment, losing what it holds: a socket that closes, an outbox    *)
(* that overflows (server.py, _enqueue), a refused frame.  A Bridge that   *)
(* restarts breaks it too.                                                 *)
(***************************************************************************)
EXTENDS Integers, Sequences, FiniteSets, Picking

CONSTANTS
    Keys,        \* session keys
    Views,       \* what a session view may say
    None,
    DeltaHistory,\* delta_history: deltas the Bridge still holds
    Window,      \* window_events, per session
    MaxSeen      \* MAX_SEEN_EVENTS: event ids the client remembers

CONSTANTS        \* bounds of the model, not of the code
    MaxSeq, MaxEvents, MaxInstances, MaxBreaks

ASSUME StreamAssumption ==
    /\ None \notin Keys /\ None \notin Views
    /\ {DeltaHistory, Window, MaxSeen, MaxSeq, MaxEvents, MaxInstances, MaxBreaks} \subseteq Nat

VARIABLES
    instance,    \* instance_id, counted
    seq,         \* _console_seq
    console,     \* what the sessions' views and _focus say
    deltas,      \* _deltas
    window,      \* every record's window, in the order of the events
    events,      \* _interaction_seq
    streams,     \* the connection's subscriptions, at the Bridge
    up, down,    \* frames on their way to the Bridge and to the surface
    link,        \* the surface's connection
    ready,       \* _ready
    replica,     \* _state
    origin,      \* _interaction_instance
    seen,        \* _seen, oldest first
    published,   \* history: the console at each number of this instance
    greeted,     \* history: the console number when the Bridge greeted the surface
    handed,      \* history: events handed over, of the instance last heard of
    breaks       \* history: broken connections

bridge  == <<instance, seq, console, deltas, window, events, published>>
surface == <<replica, origin, seen, handed>>
vars    == <<instance, seq, console, deltas, window, events, streams, up, down, link,
             ready, replica, origin, seen, published, greeted, handed, breaks>>

Phases == {"delta", "complete"}

\* Focus names a session the console shows (BridgeCore, FocusActive).
Console == {c \in [table : [Keys -> Views \cup {None}], focus : Keys \cup {None}] :
               c.focus # None => c.table[c.focus] # None}
Blank   == [table |-> [k \in Keys |-> None], focus |-> None]

Event   == [id : Nat, key : Keys, phase : Phases]
Change  == [removed : SUBSET Keys, views : SUBSET (Keys \X Views),
            focus : SUBSET (Keys \cup {None})]

TypeOK ==
    /\ {instance, seq, events, origin, greeted, breaks} \subseteq Nat
    /\ console \in Console
    /\ deltas \in Seq([seq : Nat, change : Change])
    /\ window \in Seq(Event)
    /\ streams \subseteq {"console", "interaction"}
    /\ link \in {"down", "greeting", "open"}
    /\ ready \in BOOLEAN
    /\ replica \in [source : Nat, seq : Nat, console : Console]
    /\ seen \in Seq(Nat \X Nat)
    /\ published \in Seq(Console)
    /\ handed \in Seq(Nat)

Init ==
    /\ instance = 1 /\ seq = 0 /\ console = Blank /\ deltas = <<>>
    /\ window = <<>> /\ events = 0
    /\ streams = {} /\ up = <<>> /\ down = <<>> /\ link = "down" /\ ready = FALSE
    /\ replica = [source |-> 0, seq |-> 0, console |-> Blank]
    /\ origin = 0 /\ seen = <<>>
    /\ published = <<Blank>> /\ greeted = 0 /\ handed = <<>> /\ breaks = 0

-----------------------------------------------------------------------------
(* The Bridge.                                                             *)

Last(s, n) == SubSeq(s, IF Len(s) > n THEN Len(s) - n + 1 ELSE 1, Len(s))

DifferenceKeepingRemoved(old, new) ==                                 \* faulty
    [removed |-> {},
     views   |-> {v \in Keys \X Views : new.table[v[1]] = v[2] /\ old.table[v[1]] # v[2]},
     focus   |-> {new.focus} \ {old.focus}]

\* _finish: only what differs from the views last sent is a change.
Difference(old, new) ==
    [removed |-> {k \in Keys : old.table[k] # None /\ new.table[k] = None},
     views   |-> {v \in Keys \X Views : new.table[v[1]] = v[2] /\ old.table[v[1]] # v[2]},
     focus   |-> {new.focus} \ {old.focus}]

SendTo(stream, frame) == IF stream \in streams THEN Append(down, frame) ELSE down

\* An input that changes what the console shows; a removed session takes its
\* window along (_remove_session).
Publish(new) ==
    LET change == Difference(console, new)
    IN  /\ new # console
        /\ seq < MaxSeq
        /\ seq' = seq + 1
        /\ console' = new
        /\ deltas' = Last(Append(deltas, [seq |-> seq', change |-> change]), DeltaHistory)
        /\ down' = SendTo("console", [type |-> "delta", source |-> instance,
                                      seq |-> seq', change |-> change])
        /\ window' = Picked(window, {i \in DOMAIN window : window[i].key \notin change.removed})
        /\ published' = Append(published, new)
        /\ UNCHANGED <<instance, events, streams, up, link, ready, surface, greeted, breaks>>

\* A session's oldest event goes when its window is full.
Trimmed(w, k) ==
    LET held == {i \in DOMAIN w : w[i].key = k}
    IN  IF Cardinality(held) <= Window THEN w
        ELSE LET first == CHOOSE i \in held : \A j \in held : i <= j
             IN  SubSeq(w, 1, first - 1) \o SubSeq(w, first + 1, Len(w))

\* _drop_deltas: a complete message carries its whole text.
Settled(w, k, phase) ==
    IF phase = "delta" THEN w
    ELSE Picked(w, {i \in DOMAIN w : w[i].key # k \/ w[i].phase # "delta"})

\* _interaction
Interact(k, phase) ==
    LET event == [id |-> events + 1, key |-> k, phase |-> phase]
    IN  /\ console.table[k] # None
        /\ events < MaxEvents
        /\ events' = events + 1
        /\ window' = Trimmed(Append(Settled(window, k, phase), event), k)
        /\ down' = SendTo("interaction", [type |-> "interaction", source |-> instance,
                                          event |-> event])
        /\ UNCHANGED <<instance, seq, console, deltas, published, streams, up, link, ready,
                       surface, greeted, breaks>>

HoldsPast(after) == after.source = instance /\ after.seq <= seq       \* faulty

\* Whether the deltas a client missed are still held: "oldest - 1 <= seq".
Holds(after) ==
    LET oldest == IF deltas = <<>> THEN seq + 1 ELSE deltas[1].seq
    IN  after.source = instance /\ oldest - 1 <= after.seq /\ after.seq <= seq

DeltaFrames(after) ==
    LET missed == Picked(deltas, {i \in DOMAIN deltas : deltas[i].seq > after})
    IN  [i \in DOMAIN missed |-> [type |-> "delta", source |-> instance,
                                  seq |-> missed[i].seq, change |-> missed[i].change]]

\* _subscribe_console
SubscribeConsole ==
    LET after == Head(up).after
    IN  /\ up # <<>> /\ Head(up).stream = "console"
        /\ up' = Tail(up)
        /\ streams' = streams \cup {"console"}
        /\ down' = down \o IF Holds(after) THEN DeltaFrames(after.seq)
                           ELSE <<[type |-> "snapshot", source |-> instance, seq |-> seq,
                                   console |-> console]>>
        /\ UNCHANGED <<bridge, link, ready, surface, greeted, breaks>>

ReplayNone == <<>>                                                    \* faulty

Replay == [i \in DOMAIN window |-> [type |-> "interaction", source |-> instance,
                                    event |-> window[i]]]

\* _subscribe_interaction
SubscribeInteraction ==
    /\ up # <<>> /\ Head(up).stream = "interaction"
    /\ up' = Tail(up)
    /\ streams' = streams \cup {"interaction"}
    /\ down' = down \o <<[type |-> "window", source |-> instance]>> \o Replay
    /\ UNCHANGED <<bridge, link, ready, surface, greeted, breaks>>

-----------------------------------------------------------------------------
(* The surface.                                                            *)

\* _drop: nothing of the connection survives, on either side.
Dropped ==
    /\ link' = "down" /\ ready' = FALSE
    /\ up' = <<>> /\ down' = <<>> /\ streams' = {}

Break ==
    /\ link # "down"
    /\ breaks < MaxBreaks
    /\ breaks' = breaks + 1
    /\ Dropped
    /\ UNCHANGED <<bridge, surface, greeted>>

\* The Bridge stops and another starts: nothing is persisted.
Restart ==
    /\ instance < MaxInstances
    /\ instance' = instance + 1
    /\ seq' = 0 /\ console' = Blank /\ deltas' = <<>> /\ window' = <<>> /\ events' = 0
    /\ published' = <<Blank>>
    /\ Dropped
    /\ UNCHANGED <<surface, greeted, breaks>>

\* _open up to the hello, which the Bridge answers.
Connect ==
    /\ link = "down"
    /\ link' = "greeting"
    /\ down' = <<[type |-> "hello_ok", source |-> instance]>>
    /\ greeted' = seq
    /\ UNCHANGED <<bridge, streams, up, ready, surface, breaks>>

Resumes(source) == replica.source # 0 /\ replica.source = source

\* _open after hello_ok.  A client that resumes is ready at once.
Open ==
    LET resume == Resumes(Head(down).source)
        after  == IF resume THEN [source |-> replica.source, seq |-> replica.seq]
                  ELSE [source |-> 0, seq |-> 0]
    IN  /\ link = "greeting"
        /\ link' = "open"
        /\ down' = Tail(down)
        /\ up' = <<[stream |-> "console", after |-> after],
                   [stream |-> "interaction", after |-> after]>>
        /\ ready' = resume
        /\ UNCHANGED <<bridge, streams, surface, greeted, breaks>>

Receives(type) == link = "open" /\ down # <<>> /\ Head(down).type = type

\* _console_snapshot
Snapshot ==
    /\ Receives("snapshot")
    /\ replica' = [source |-> Head(down).source, seq |-> Head(down).seq,
                   console |-> Head(down).console]
    /\ ready' = TRUE
    /\ down' = Tail(down)
    /\ UNCHANGED <<bridge, streams, up, link, origin, seen, handed, greeted, breaks>>

AppliedKeepingFocus(old, change) ==                                   \* faulty
    [table |-> [k \in Keys |->
                  IF \E v \in Views : <<k, v>> \in change.views
                  THEN CHOOSE v \in Views : <<k, v>> \in change.views
                  ELSE IF k \in change.removed THEN None ELSE old.table[k]],
     focus |-> old.focus]

\* A delta's changes, in the order _finish lists them: removed sessions, then
\* changed views, then the focus.
Applied(old, change) ==
    [table |-> [k \in Keys |->
                  IF \E v \in Views : <<k, v>> \in change.views
                  THEN CHOOSE v \in Views : <<k, v>> \in change.views
                  ELSE IF k \in change.removed THEN None ELSE old.table[k]],
     focus |-> IF change.focus = {} THEN old.focus ELSE CHOOSE f \in change.focus : TRUE]

Fits(frame) == frame.source = replica.source /\ frame.seq = replica.seq + 1

\* A delta already applied changes nothing.
Stale(frame) == frame.source = replica.source /\ frame.seq <= replica.seq

\* _console_delta: a gap or another instance's delta closes the connection.
Delta ==
    LET frame == Head(down)
    IN  /\ Receives("delta")
        /\ IF Fits(frame) \/ Stale(frame)
           THEN /\ replica' = IF Stale(frame) THEN replica
                              ELSE [replica EXCEPT !.seq = frame.seq,
                                                   !.console = Applied(@, frame.change)]
                /\ down' = Tail(down)
                /\ UNCHANGED <<streams, up, link, ready>>
           ELSE Dropped /\ UNCHANGED replica
        /\ UNCHANGED <<bridge, origin, seen, handed, greeted, breaks>>

\* The interaction snapshot: another instance's events are all new.
WindowOpens ==
    /\ Receives("window")
    /\ origin' = Head(down).source
    /\ IF origin = origin' THEN UNCHANGED <<seen, handed>>
       ELSE seen' = <<>> /\ handed' = <<>>
    /\ down' = Tail(down)
    /\ UNCHANGED <<bridge, streams, up, link, ready, replica, greeted, breaks>>

InteractionForgetting ==                                              \* faulty
    /\ Receives("interaction")
    /\ handed' = Append(handed, Head(down).event.id)
    /\ down' = Tail(down)
    /\ UNCHANGED <<bridge, streams, up, link, ready, replica, origin, seen, greeted, breaks>>

\* _interaction: each event is handed over unless its id is remembered.
Interaction ==
    LET id == <<Head(down).source, Head(down).event.id>>
    IN  /\ Receives("interaction")
        /\ IF \E i \in DOMAIN seen : seen[i] = id THEN UNCHANGED <<seen, handed>>
           ELSE /\ seen' = Last(Append(seen, id), MaxSeen)
                /\ handed' = Append(handed, id[2])
        /\ down' = Tail(down)
        /\ UNCHANGED <<bridge, streams, up, link, ready, replica, origin, greeted, breaks>>

-----------------------------------------------------------------------------

BridgeStep ==
    \/ \E new \in Console : Publish(new)
    \/ \E k \in Keys, phase \in Phases : Interact(k, phase)

Serve == SubscribeConsole \/ SubscribeInteraction

Read == Open \/ Snapshot \/ Delta \/ WindowOpens \/ Interaction

Next == BridgeStep \/ Serve \/ Connect \/ Read \/ Break \/ Restart

Spec == Init /\ [][Next]_vars

\* The client's thread reconnects and reads, the core's serves its inbox.
\* What the sessions do, and what breaks or restarts, is not assumed.
FairSpec == Spec /\ WF_vars(Connect) /\ WF_vars(Serve) /\ WF_vars(Read)

-----------------------------------------------------------------------------
(* What the streams promise.                                               *)

\* The replica is one the Bridge published and never goes back while its
\* instance lives, through resumed subscriptions, snapshots and deltas of one
\* or another instance.
Replica == INSTANCE ConsoleReplica WITH
               source <- instance, published <- published, copy <- replica

Implements == Replica!Spec

\* A surface with nothing left to read has been handed every event the Bridge
\* still holds, those it missed while disconnected included.
NothingMissed ==
    streams = {"console", "interaction"} /\ down = <<>> =>
        \A i \in DOMAIN window : \E j \in DOMAIN handed : handed[j] = window[i].id

\* "A reconnect replays the window; hand each event over once"
\* (connection.py, _interaction).
HandedOnce == \A i, j \in DOMAIN handed : handed[i] = handed[j] => i = j

\* Events are handed over in the order they happened, and so each once, through
\* replays of the window, until the client has to forget an id.
HandedInOrder ==
    Len(handed) <= MaxSeen =>
        \A i, j \in DOMAIN handed : i < j => handed[i] < handed[j]

InSync == ready /\ replica.source = instance /\ replica.seq = seq

\* When connections stop breaking, the replica catches up with the Bridge: no
\* subscription is answered with deltas that make the client reconnect forever.
CatchesUp == []<>InSync

\* "Wait until the console is in sync with a live Bridge" (wait_ready): a ready
\* client shows at least what the Bridge showed when it greeted it.
ReadyInSync == ready => replica.source = instance /\ replica.seq >= greeted

\* Events reach a surface whole and in order.
Handed == TypeOK /\ NothingMissed /\ HandedInOrder
=============================================================================
