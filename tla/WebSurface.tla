----------------------------- MODULE WebSurface -----------------------------
(***************************************************************************)
(* The web surface, bridge/deskhelm_web/server.py and http.py: the client's*)
(* thread folds what the Bridge sends into transcripts and broadcasts each *)
(* change with a revision; a request thread gives a page one snapshot and  *)
(* then the changes. The page is assets/js/store.js and api.js.            *)
(*                                                                         *)
(* The Bridge and its client are those of SurfaceStreams, cut down to what *)
(* reaches the callbacks: sessions that come, disconnect and go, events,   *)
(* lost connections with a replay, and restarts. One page stands for any:  *)
(* pages share nothing but the lock. Left out: previews and times, the     *)
(* page's own prompts and catalogs, the bound on pages, HTTP.              *)
(***************************************************************************)
EXTENDS Transcript, TLC

CONSTANTS
    Sessions,
    MaxTranscripts, \* MAX_TRANSCRIPTS
    QueueEvents,    \* MAX_SSE_QUEUE_EVENTS
    Window          \* events a Bridge replays

CONSTANTS           \* bounds of the model
    MaxLog,         \* events of one Bridge
    MaxBridges,     \* Bridges there ever are
    MaxRevs         \* broadcasts; no callback begins behind them

ASSUME WebAssumption ==
    {MaxItems, MaxChars, MaxMessage, MaxOutput, MaxTranscripts, QueueEvents, Window, MaxLog,
     MaxBridges, MaxRevs} \subseteq Nat \ {0}

VARIABLES
    bridge,     \* the Bridge: which one, its sessions, its window of events
    client,     \* BridgeClient: its connection, its console, what it hands over next
    web,        \* WebSurface: epoch, revision, notice, transcripts
    stream,     \* the page's subscriber: is it in _clients, and its queue
    page        \* the store

vars == <<bridge, client, web, stream, page>>

NoSessions == [s \in Sessions |-> "none"]
Untold     == [s \in Sessions |-> <<>>]     \* a transcript that is not there is empty for a page

\* A page without a stream. One that reconnects shows what it showed until its snapshot, which
\* replaces that, or at the same revision is that; so every page may start blank.
Blank == [at |-> "off", epoch |-> -1, rev |-> 0, notice |-> "", sessions |-> NoSessions, items |-> Untold]

NoStream == [listed |-> FALSE, queue |-> <<>>]

TypeOK ==
    /\ bridge.view \in [Sessions -> {"none", "active", "disconnected"}]
    /\ client.console \in [Sessions -> {"none", "active", "disconnected"}]
    /\ client.at \in {"down", "console", "replay", "up"}
    /\ Cardinality({s \in Sessions : web.told[s]}) =< MaxTranscripts
    /\ \A s \in Sessions : web.transcripts[s] # NewTranscript => web.told[s]
    /\ \A s \in Sessions : Fits(web.transcripts[s].items)
    /\ Len(stream.queue) =< QueueEvents
    /\ page.at \in {"off", "subscribed", "open"}

\* The client has connected and there is no session yet.
Init ==
    /\ bridge = [id |-> 1, n |-> 0, view |-> NoSessions, log |-> <<>>]
    /\ client = [at |-> "up", bridge |-> 1, console |-> NoSessions, previous |-> NoSessions,
                 calling |-> FALSE, restarted |-> FALSE, cursor |-> 0, top |-> 0]
    /\ web = [epoch |-> 0, rev |-> 0, notice |-> "", told |-> [s \in Sessions |-> FALSE],
              transcripts |-> [s \in Sessions |-> NewTranscript]]
    /\ stream = NoStream
    /\ page = Blank

-----------------------------------------------------------------------------
(* Payloads and the fan-out                                                *)

\* _sessions_locked reads the client's console, which may be ahead of the callback.
SessionsPayload(w) == [rev |-> w.rev, epoch |-> w.epoch, notice |-> w.notice, sessions |-> client'.console]

Contents(w) == [s \in Sessions |-> [i \in DOMAIN w.transcripts[s].items |-> Shown(w.transcripts[s].items[i])]]

SnapshotPayload(w) == SessionsPayload(w) @@ [name |-> "snapshot", items |-> Contents(w)]
SessionsEvent(w)   == SessionsPayload(w) @@ [name |-> "sessions"]
PatchEvent(w, s, patch) == [name |-> "patch", rev |-> w.rev, session |-> s, patch |-> patch]

KeepsOn(s) == s                                                    \* faulty
\* A page that cannot keep up: its queue is dropped and its stream ends.
CutOff(s) == NoStream

\* broadcast
Broadcast(s, event) ==
    IF ~s.listed THEN s
    ELSE IF Len(s.queue) >= QueueEvents THEN CutOff(s) ELSE [s EXCEPT !.queue = Append(@, event)]

\* _emit_locked, for each event in turn.
Emit(w, Events) ==
    /\ web' = [w EXCEPT !.rev = @ + Len(Events)]
    /\ stream' = FoldLeftDomain(LAMBDA s, i : Broadcast(s, [Events[i] EXCEPT !.rev = w.rev + i]), stream, Events)
    /\ page' = IF stream.listed /\ ~stream'.listed THEN Blank ELSE page

Patches(w, s, patches) == [i \in DOMAIN patches |-> PatchEvent(w, s, patches[i])]

-----------------------------------------------------------------------------
(* Callbacks of the client's thread                                        *)

Settling(s) ==
    /\ client.console[s] = "disconnected"
    /\ client.previous[s] # "disconnected"

SettleNone(w) == {}                                                \* faulty
\* The sessions whose host has just left, which have a transcript.
Leaving(w) == {s \in Sessions : Settling(s) /\ w.told[s]}

\* _on_console
OnConsole ==
    /\ client.calling
    /\ client' = [client EXCEPT !.calling = FALSE, !.restarted = FALSE, !.previous = NoSessions]
    /\ LET gone(s) == client.restarted \/ client.console[s] = "none"
           kept == [web EXCEPT !.epoch = IF client.restarted THEN @ + 1 ELSE @,
                               !.notice = IF client.restarted THEN "bridge_restarted" ELSE @,
                               !.told = [s \in Sessions |-> @[s] /\ ~gone(s)],
                               !.transcripts = [s \in Sessions |-> IF gone(s) THEN NewTranscript ELSE @[s]]]
           settle(s) == Settle(kept.transcripts[s].items)
           now == [kept EXCEPT !.transcripts = [s \in Sessions |->
                      IF s \in Leaving(kept) THEN [@[s] EXCEPT !.items = settle(s).items] ELSE @[s]]]
           patches == FoldLeft(LAMBDA found, s : found \o Patches(now, s, settle(s).patches), <<>>,
                               SetToSeq(Leaving(kept))) IN
       Emit(now, <<IF client.restarted THEN SnapshotPayload(now) ELSE SessionsEvent(now)>> \o patches)
    /\ UNCHANGED bridge

\* _on_interaction: what it does to the web surface.
OnInteraction(e) ==
    IF ~web.told[e.session] /\ Cardinality({s \in Sessions : web.told[s]}) >= MaxTranscripts
    THEN IF web.notice = "too_many_sessions" THEN UNCHANGED <<web, stream, page>>
         ELSE LET w == [web EXCEPT !.notice = "too_many_sessions"] IN Emit(w, <<SessionsEvent(w)>>)
    ELSE LET applied == Apply(web.transcripts[e.session], e)
             over == Settle(applied.transcript.items)
             left == client.console[e.session] = "disconnected"
             w == [web EXCEPT !.told[e.session] = TRUE,
                              !.transcripts[e.session] =
                                 IF left THEN [applied.transcript EXCEPT !.items = over.items]
                                         ELSE applied.transcript]
             patches == applied.patches \o (IF left THEN over.patches ELSE <<>>) IN
         Emit(w, Patches(w, e.session, patches))

\* _on_connection
OnConnection(connected) ==
    LET w == [web EXCEPT !.notice = IF ~connected THEN "bridge_unavailable"
                                    ELSE IF @ = "bridge_unavailable" THEN "" ELSE @] IN
    Emit(w, <<SessionsEvent(w)>>)

-----------------------------------------------------------------------------
(* The Bridge and the client                                               *)

\* The client has handed over everything, or is away. Nobody sees what waits in between.
CaughtUp == client.at \in {"up", "down"} /\ ~client.calling /\ web.rev < MaxRevs

\* A session opens or reopens, disconnects, or is forgotten with its events.
Change == \E s \in Sessions, to \in {"none", "active", "disconnected"} :
    /\ CaughtUp /\ bridge.view[s] # to
    /\ to = "disconnected" => bridge.view[s] = "active"
    /\ to = "none" => bridge.view[s] = "disconnected"
    /\ bridge' = [bridge EXCEPT !.view[s] = to,
                                !.log = IF to = "none" THEN SelectSeq(@, LAMBDA e : e.session # s) ELSE @]
    /\ client' = IF client.at = "up"
                 THEN [client EXCEPT !.previous = client.console, !.console = bridge'.view, !.calling = TRUE]
                 ELSE client
    /\ UNCHANGED <<web, stream, page>>

Openings == ({"message"} \X {"delta", "complete"}) \cup ({"tool"} \X {"start", "output", "stderr"}) \cup {<<"ask", "request">>}
Endings  == {<<"tool", "replace">>, <<"tool", "complete">>, <<"ask", "resolved">>, <<"turn", "ended">>}

\* The first event of a Bridge opens an item. A later one may end one, also one nobody saw open.
Kinds(n) == Openings \cup (IF n = 1 THEN {} ELSE Endings)

\* The first event has more to say than the ones behind it, so that little overruns a bound.
Said(n) == IF n = 1 THEN <<1, 2, 3, 4>> ELSE <<2 * n + 1, 2 * n + 2>>

Spoken(kind, n) ==
    IF kind \in {<<"message", "delta">>, <<"message", "complete">>, <<"tool", "output">>, <<"tool", "replace">>}
       \/ (kind[2] = "stderr" /\ n = 1)
    THEN Said(n) ELSE <<>>

\* An event of a session. Only the first of stderr is not blank. A turn's end has an id of its own.
Event(s, kind, n) == [n |-> n, session |-> s, id |-> <<kind[1], IF kind[1] = "turn" THEN n ELSE 0>>,
                      phase |-> IF kind[2] = "stderr" THEN "output" ELSE kind[2],
                      err |-> kind[2] = "stderr", text |-> Spoken(kind, n)]

Happens == \E s \in Sessions, kind \in Kinds(bridge.n + 1) :
    LET e == Event(s, kind, bridge.n + 1) IN
    /\ CaughtUp /\ bridge.view[s] = "active" /\ bridge.n < MaxLog
    /\ bridge' = [bridge EXCEPT !.n = e.n, !.log = Late(Append(@, e), Window)]
    /\ IF client.at = "up"
       THEN client' = [client EXCEPT !.cursor = e.n, !.top = e.n] /\ OnInteraction(e)
       ELSE UNCHANGED <<client, web, stream, page>>

\* A new Bridge has no sessions.
Restart ==
    /\ client.at = "down" /\ bridge.id < MaxBridges
    /\ bridge' = [id |-> bridge.id + 1, n |-> 0, view |-> NoSessions, log |-> <<>>]
    /\ UNCHANGED <<client, web, stream, page>>

Lose ==
    /\ client.at = "up" /\ CaughtUp
    /\ client' = [client EXCEPT !.at = "down"]
    /\ OnConnection(FALSE)
    /\ UNCHANGED bridge

\* The console comes first. _seen is of one Bridge.
Connect ==
    /\ client.at = "down" /\ CaughtUp
    /\ client' = [client EXCEPT !.at = "console", !.calling = TRUE, !.bridge = bridge.id,
                     !.restarted = client.bridge # bridge.id,
                     !.previous = client.console, !.console = bridge.view, !.cursor = 0,
                     !.top = IF client.bridge = bridge.id THEN @ ELSE 0]
    /\ UNCHANGED <<bridge, web, stream, page>>

\* _mark_ready
Ready ==
    /\ client.at = "console" /\ ~client.calling
    /\ client' = [client EXCEPT !.at = "replay"]
    /\ OnConnection(TRUE)
    /\ UNCHANGED bridge

Waiting == SelectSeq(bridge.log, LAMBDA e : e.n > client.cursor)

\* One event of the replay; one that was handed over before is dropped while _seen holds it.
Replay ==
    /\ client.at = "replay" /\ Waiting # <<>>
    /\ LET e == Head(Waiting) IN
       /\ client' = [client EXCEPT !.cursor = e.n, !.top = IF e.n > @ THEN e.n ELSE @]
       /\ \/ OnInteraction(e)
          \/ e.n =< client.top /\ UNCHANGED <<web, stream, page>>
    /\ UNCHANGED bridge

Replayed ==
    /\ client.at = "replay" /\ Waiting = <<>>
    /\ client' = [client EXCEPT !.at = "up"]
    /\ UNCHANGED <<bridge, web, stream, page>>

-----------------------------------------------------------------------------
(* A page and its request thread                                           *)

\* applySnapshot. readSessions drops the transcripts of sessions that are not listed.
Snapshotted(p, payload) ==
    IF payload.epoch = p.epoch /\ payload.rev =< p.rev THEN p
    ELSE [p EXCEPT !.epoch = payload.epoch, !.rev = payload.rev, !.notice = payload.notice,
                   !.sessions = payload.sessions,
                   !.items = [s \in Sessions |-> IF payload.sessions[s] = "none" THEN <<>> ELSE payload.items[s]]]

Gap(p, event) == event.rev > p.rev + 1

FreshAgain(p, event) == event.rev >= p.rev /\ ~Gap(p, event)      \* faulty
Fresh(p, event)      == event.rev > p.rev /\ ~Gap(p, event)

\* The store takes one event. A gap ends the stream.
Taken(p, event) ==
    CASE event.name = "snapshot" -> Snapshotted(p, event)
      [] event.name # "snapshot" /\ Gap(p, event) -> Blank
      [] event.name # "snapshot" /\ ~Fresh(p, event) /\ ~Gap(p, event) -> p
      [] event.name = "sessions" /\ Fresh(p, event) ->
           [p EXCEPT !.rev = event.rev, !.notice = event.notice, !.sessions = event.sessions,
                     !.items = [s \in Sessions |-> IF event.sessions[s] = "none" THEN <<>> ELSE @[s]]]
      [] event.name = "patch" /\ Fresh(p, event) ->
           [p EXCEPT !.rev = event.rev, !.items[event.session] = Patched(@, event.patch)]

\* _stream_events: the page is in _clients before its snapshot is taken.
Subscribe ==
    /\ page.at = "off"
    /\ page' = [page EXCEPT !.at = "subscribed"]
    /\ stream' = [listed |-> TRUE, queue |-> <<>>]
    /\ UNCHANGED <<bridge, client, web>>

SendSnapshot ==
    /\ page.at = "subscribed"
    /\ UNCHANGED <<bridge, client, web, stream>>
    /\ page' = [Snapshotted(page, SnapshotPayload(web)) EXCEPT !.at = "open"]

\* One event goes from the queue to the page.
Deliver ==
    /\ page.at = "open" /\ stream.queue # <<>>
    /\ page' = Taken(page, Head(stream.queue))
    /\ stream' = IF page'.at = "off" THEN NoStream ELSE [stream EXCEPT !.queue = Tail(@)]
    /\ UNCHANGED <<bridge, client, web>>

\* The page leaves, or its connection breaks.
Break ==
    /\ page.at # "off"
    /\ page' = Blank /\ stream' = NoStream
    /\ UNCHANGED <<bridge, client, web>>

Next ==
    \/ Change \/ Happens \/ Restart \/ Lose \/ Connect \/ Ready \/ Replay \/ Replayed \/ OnConsole
    \/ Subscribe \/ SendSnapshot \/ Deliver \/ Break

Spec == Init /\ [][Next]_vars

Alike == Permutations(Sessions)

-----------------------------------------------------------------------------
(* Properties                                                              *)

\* What an open page will show when it has taken what its queue holds.
Catching == FoldLeft(Taken, page, stream.queue)

\* A page that is not cut off is what the server holds, but for what it has still to take: patches,
\* snapshots and dropped revisions add up, for every session the console lists.
Mirror == page.at = "open" /\ stream.listed /\ ~client.calling =>
    /\ Catching.at = "open" /\ Catching.rev = web.rev /\ Catching.epoch = web.epoch
    /\ Catching.notice = web.notice /\ Catching.sessions = client.console
    /\ \A s \in Sessions : client.console[s] # "none" => Catching.items[s] = Contents(web)[s]

\* No page takes a revision with one missing before it, however far behind it fell.
InOrder == \A i \in DOMAIN stream.queue :
    page.at = "open" /\ stream.queue[i].name \in {"sessions", "patch"} =>
      ~Gap(FoldLeft(Taken, page, SubSeq(stream.queue, 1, i - 1)), stream.queue[i])

\* An event is folded once, through replays after _seen forgot it: no text is there twice or out of order.
Once == \A s \in Sessions : \A i \in DOMAIN web.transcripts[s].items :
    LET text == web.transcripts[s].items[i].text IN
    \A j \in 1..(Len(text) - 1) : text[j] < text[j + 1]

\* Nothing of a session whose host has left still runs, also when its events are replayed later.
NothingRuns == \A s \in Sessions :
    client.console[s] = "disconnected" /\ ~client.calling =>
      \A i \in DOMAIN web.transcripts[s].items : ~Settled(web.transcripts[s].items[i])

\* A page shows what the server holds, and was never given a revision behind a missing one.
Followed == TypeOK /\ InOrder /\ Mirror

\* A transcript has every text once and nothing running for a host that is gone.
FoldedOnce == Once /\ NothingRuns
=============================================================================
