# DeskHelm in TLA+

DeskHelm shows what every coding agent on a computer is doing and lets its user answer it from one
place. This directory holds TLA+ modules of its concurrent parts, the TLC runs that check them on
small instances, and theorems that TLAPS checks for every instance. `PROJECT.json` maps each
definition to the source lines it stands for, and lists the runs, the hazards and the theorems.

## The system

    vendor  <->  driver  <->  host link  <->  server / core  <->  client  <->  web page, dashboard,
    (Codex, Claude, ACP)      (one process per    (the Bridge)     (one per      voice host
                               session)                             surface)

* **Bridge core** (`bridge/deskhelm_core/core.py`). One object, fed one input at a time: a
  connection, a frame, a closed socket, a tick. It keeps the connections, the sessions (each leased
  to the host connection that opened it), the open approval tickets, a receipt per command, the
  effects in flight, the focus, and two streams: the *console*, a numbered projection of all
  sessions, and the *interaction* stream, a window of events per session. Everything is in memory.
* **Bridge server** (`server.py`). An accept thread, a core thread that owns the core and ticks it,
  and a reader and a writer thread per connection, joined by a bounded inbox and bounded outboxes.
  A full outbox closes its connection.
* **Start-up** (`bridge_process.py`). Hosts start a missing Bridge; a lock file lets one serve.
* **Surface client** (`deskhelm_client/connection.py`). A thread that connects, subscribes, keeps a
  replica of the console, hands interaction events over and reconnects; callers wait on commands.
* **Host link** (`deskhelm_host/link.py`). A thread that opens the session, passes effects to the
  driver and facts to the Bridge, and reconnects.
* **Drivers** (`adapters/*`). A reader thread turns the vendor's output into facts; the link thread
  performs effects. Claude and ACP speak a line protocol; Codex has an app-server, a relay and a
  proxy between its terminal and the app-server (`tui_proxy.py`).
* **Surfaces**. The web page folds events into transcripts and numbers what it broadcasts; the
  dashboard draws the replica; the voice host turns recognised speech into commands.
* **Voice gateway** (`voice/deskhelm_voice/gateway.py`). Push-to-talk, recognition with a timeout, a
  playback queue.

* **Byte streams.** The Bridge's frames, two WebSocket ends, the voice activity detectors and the
  terminal wrapper `tools/run-with-pty.py` read streams that are cut anywhere.

What makes them hard, and where `PROJECT.json` lists it line by line:

| part | state | what can go wrong | what makes it correct |
|---|---|---|---|
| core: sessions | sessions, connections, focus | a replaced, lapsed or orphaned session keeps an owner; focus on a session that is gone | `Lease`, `FocusActive`, `NoneLingers` |
| core: commands | receipts, effects in flight | duplicates, retries, results that are late or never come, hosts that die | `Accounted`, `DispatchOnce`, `Answered` |
| core: approvals | tickets, decisions | two decisions, a decision racing expiry, resolution or the end of the turn | `Reserved`, `DecideOnce` |
| core: activity | cached activity | a handler that forgets to recompute it | `ActivityFresh` |
| console stream | deltas held, replica | gaps, restarts, resumed subscriptions | `Implements`, `CatchesUp` |
| interaction stream | windows, ids seen | missed, repeated or reordered events | `Handed` |
| host link | driver state, session at the core | state read before it is reported; frames lost behind a handshake; close half-way | `RebuiltUnlessMissed`, `Leased`, `EffectTrue`, `Leaves` |
| Claude, ACP | turn, pending requests, interrupt | two threads answer one request; a mark that outlives its turn; a vendor that dies between two halves of an effect | `Published`, `RequestsAnswered`, `OutcomeTrue`, `TurnsKept` |
| Codex adapter, driver | connection, calls, turn, approvals, inputs | a connection lost with commands half done; a steer sent again; three locks in a row | `PromptOnce`, `OutcomeTrue`, `Consistent` |
| TUI proxy | pending, suppressed, decisions | the terminal and a surface answer the same request | `OneAnswer`, `Consistent`, `Released` |
| voice | press, utterance, lines | a recogniser that hangs; a focus that has moved on; the microphone hears the speaker | `Answered`, `Addressed`, `Hushed`, `ComesBack` |
| server, start-up | processes, lock, slots, inbox, outboxes | a frame lost in a full queue; disconnects from two threads; Bridges that race | `Served`, `Reachable` |
| client's calls | calls in flight | a call reported unsent that was acted on | `CodeTrue` |
| web page | revision, transcripts, queue | a patch overtaking a snapshot; replays; tools that run for ever | `Followed`, `FoldedOnce` |
| byte streams | buffers, deadlines | a cut or a timeout inside a frame, a key or a secret; an end that never comes | `FramesKept`, `SpeechScored`, `Relayed`, `WrapperEnds` |

## Modules

### BridgeCore

One action is one complete input to the core: the handler and everything it calls. The core's
method names are kept where they can be.

| core.py | BridgeCore |
|---|---|
| `connect`, `disconnect` / `_forget`, `_hello` | `Connect`, `Leave`, `HostHello`, `ClientHello` |
| `_session_open` | `SessionOpen` (with the open requests the host reports) |
| `_fact` | `Ready`, `TurnStarted`, `RequestOpened`, `RequestResolved`, `TurnTerminal`, `Status`, `Capable` |
| `_effect_result`, `_settle` | `EffectResult`, `SettleTickets`, `SettleReceipts` |
| `session_close`, `session_ended` / `_remove_session` | `SessionEnd` |
| `_command` | `AwaitResult` (a duplicate), `Focus`, `Dispatch` |
| `_plan_effect` | `Planned`, `Decidable` |
| `_recompute` | `Derived`, `Recompute` |
| `tick` | `Tick`, with `Expire` and `Lapsed` |
| the clock | `Advance` |

A frame that breaks a rule refuses its connection, which is forgotten: that is `Leave`, which may
happen to any connection at any time, as a closed socket may. Commands that are refused without a
trace, facts that only add content, and queries change none of the state kept here. A command stands
for its own fingerprint, so a different command under the same idempotency key is a different value
with the same `Scope`. Two variables are history, read by no guard: `spent`, the commands whose
effect the vendor may have got, and `outlived`, the blocking tickets that were reserved when a turn
ended.

### SurfaceStreams and ConsoleReplica

`SurfaceStreams` is the core's end of the two streams and one surface's end of them, with the
connection between them as a FIFO in each direction that may break at any time and loses what it
holds. Inputs to the core are atomic there as well; an input is seen as what it changes in the
console (`Publish`) or adds to a window (`Interact`). `Restart` is a new Bridge with a new instance
id, which shares nothing with the old one.

| code | SurfaceStreams |
|---|---|
| `_finish`, `_delta_frame` | `Publish`, `Difference` |
| `_interaction`, `_drop_deltas` | `Interact`, `Settled`, `Trimmed` |
| `_subscribe_console`, `_subscribe_interaction` | `SubscribeConsole`, `Holds`, `DeltaFrames`; `SubscribeInteraction`, `Replay` |
| client `_run`, `_drop` | `Connect`, `Break`, `Dropped` |
| client `_open` | `Open`, `Resumes` |
| client `_console_snapshot`, `_console_delta` | `Snapshot`; `Delta`, `Fits`, `Stale`, `Applied` |
| client `_dispatch`, `_interaction` | `WindowOpens`, `Interaction` |

`Picking` has the choice of a sequence's elements by their positions without recursion (`Picked`,
`Kept`): the windows and replays of this module and the calls of a client use it, and so can be
proved about.

`ConsoleReplica` is what the console stream promises, with no connections, subscriptions or frames:
the Bridge publishes consoles, it may be replaced, and the surface's copy moves to something the
present Bridge has published, never back. `SurfaceStreams` implements it (`Implements`): the
history of published consoles, and the replica, are the abstract variables.

### HostLink

`link.py`, with an abstract driver at one end and one session of the core at the other. The link's
thread is `Connect`, `Open`, `OpenResult`, `Serve`, `Perform`, `Drop`; the driver's threads are
`DriverChanges` (which is `emit` with the change it reports, one section under the lock), and
`Close` is `BridgeLink.close`, at any point of the handshake. `BridgeReads`, `BridgeNotices` and the
other `Bridge...` actions are the core's handlers for one session (`_session_open`, `_fact`,
`_effect_result`, `_forget`, `tick`). A connection is a FIFO each way; what was sent is read before
its end is seen. `missed` is history: a fact was dropped between the reading of the state and the
end of the handshake. `After` is what the session will hold once the facts on their way are read.

### VendorSession, ClaudeDriver, AcpDriver, Drivers

`VendorSession` has what the two line drivers share: the vendor on two pipes, the driver's fields
with what its facts have said (`told`), and the effect the link thread is at. The link thread writes
to the vendor between two sections under the lock, so an effect is two or three steps
(`ClaudeSubmit` and `ClaudeSubmitWrite`; `ClaudeRespond`, `RespondWrite`, `RespondForget`), and the
reader's `...Read`, `...Idle` and `...Ended` come between them. `ClaudeDriver` and `AcpDriver`
translate the two `driver.py` files; `Drivers` chooses one at the start and states the properties,
and `DriversProofs` proves them. The vendor is external: it asks, runs tools, finishes and dies as its protocol allows.

### AppServer, CodexDriver

`AppServer` is the adapter (`app_server.py`) and Codex as it sees it. An action is a section under
the adapter's lock; the events a section leads to wait in `todo` and are published one by one, as
the code does after it releases the lock. What the driver calls (`SubmitPrompt`, `AnswerInput`,
`Interrupt`, `DecideApproval`) are operators from the adapter's state to the state they leave.
`CodexDriver` takes the steps: the link's thread passes through the driver's lock, the adapter's and
the driver's again (`Submit`, `CountBefore`, `Hand`, `PublishPrompt`, `CountAfter`, `Submitted`),
`Publish` hands an event to the driver (`OnEvent`), `Watch` is the watcher of inputs. `Break`,
`TimeOut`, `Elapse` and `CodexCloses` are what goes wrong.

### TuiProxy

`tui_proxy.py` and the adapter's half of an approval. The connection thread goes round four phases
(`SendDecision`, `HandleUpstream`, `HandleTerminal`, `Expire`; `NextPhase`) and runs its callbacks
without the proxy's lock (`TellOpened`, then `GiveUp` if it raised; `TellResolved`); the link
thread is `Decide`, `Resolve`, `Forget`, three sections under three locks. A token is the k-th time
Codex asks with an id.

### PipeWire, VoiceGateway, VoiceHost

`PipeWire` gives one turn of each loop around a `pw-cat` process as an operator; `VoiceGateway` runs
them in the capture and the playback thread beside the single ASR thread (`gateway.py`); `VoiceHost`
adds the key, the console and the command that a transcript becomes (`policy.py`, `__main__.py`).
`presses` numbers the accepted presses and records how each ended. `console.opened` has every
approval that ever opened: the core mints each id once (`Core._new_id`), so one that is gone does not
open again, in this session or in another, and a decision that is on its way stays about the session
it was spoken to.

### BridgeServer, ClientCalls

`BridgeServer` is `server.py` and `bridge_process.py`: processes that start, bind, stop and are killed around a lock and a
path (`Launch`, `Acquire`, `Bind`, `Stop`, `Kill`, `Unlink`, `Release`), and a connection's `Accept`,
`Announce`, `Read`, `Write`, `WriterLeaves` and `WriterEnds` (the slot is free before the disconnect
is in the inbox), with `Handle` as the core's thread. `ClientCalls` composes it with the calls of
`BridgeClient` (`Begin`, `Send`, `TimeOut`, `Receive`, `Drop`) and a stranger that connects to the
same socket. What the core's thread puts into an outbox is `Outputs`, which disconnects a peer whose
outbox is full; `Refuses` is an error frame and the end, and the core forgets the connection at once.
The core between them is abstract: BridgeCore is its detail.

### Transcript, WebSurface

`Transcript` is `transcript.py` as operators: what an event does to the items, the patches it
yields (a tool's first output on stderr marks its item, empty output changes nothing), the trimming,
and what a page makes of a patch (`Patched`, from `store.js`). `WebSurface` is the surface's two
callbacks, a request thread that subscribes, sends one snapshot and then what was queued, and one
page.

### FrameDecoder, WebSocketEnd, VadWindows, VadScore, PtyRelay, ByteStreams

Each reads a stream in pieces that are cut anywhere: `wire.py`'s decoder; the WebSocket ends of the
adapter and of the proxy; the Silero and the WebRTC detector, which judge windows and open and close
segments; the benchmark and the two diagnostics that score what a detector found against a
reference; and `run-with-pty.py`, which redacts secrets, guards Ctrl-C, decodes the keyboard
protocol and must end. Their properties compare what was handed on with a reference definition over
the whole stream (`Lines`, `Whole`, counting frame by frame, redacting in one piece). `ByteStreams`
is the disjoint union: a behaviour is one of one machine, so that one run checks all.

### Conventions

`MC...` modules give the constants values TLC can enumerate. An operator marked *faulty* is a bug a
maintainer could write into the definition that follows it; `PROJECT.json` ("mutants") says which
property notices it. No action uses one.

## Runs

| run | instance | what holds |
|---|---|---|
| `core_commands` | 3 connections, 1 session, a prompt and two competing decisions of two clients, clock 1..3 | `TypeOK`, `Accounted`, `Reserved`, `DispatchOnce`, `DecideOnce` |
| `core_sessions` | 2 sessions, 3 connections, two focus commands and a decision, an approval and a question | `Lease`, `FocusActive`, `ActivityFresh` |
| `core_liveness` | capabilities that change, fair clock and tick, nothing else fair | `Answered`, `NoneLingers` |
| `streams` | 1 session with 2 views, 1 delta held, 2 Bridges, 1 broken connection | `Handed`, `Implements`, `CatchesUp` |
| `drivers` | either driver, 2 prompts, 2 requests, 1 pending, 1 unread message | `Published`, `RequestsAnswered`, `OutcomeTrue`, `TurnsKept` |
| `link` | 2 connections, 1 request the vendor waits on and 1 it does not, 1 effect, 4 changes, 1 break | `Leased`, `RebuiltUnlessMissed`, `EffectTrue`, `Leaves` |
| `tui` | 2 ids asked twice, 1 pending, 2 connections | `Consistent`, `OneAnswer`, `Released` |
| `codex` | 1 prompt, 2 approvals, 2 inputs or a question, 2 turns, 1 mishap, 1 unread act of Codex | `Consistent`, `PromptOnce`, `OutcomeTrue` |
| `voice` | 2 sessions, 2 approvals, 2 presses, 1 line, 1 console change | `Answered`, `Addressed`, `Hushed`, `ComesBack` |
| `server` | 2 connections, 1 slot, 2 calls, 2 Bridges, outbox and inbox of 2 | `Served`, `CodeTrue`, `Reachable` |
| `web` | 2 sessions, 1 transcript kept, 2 items, 2 Bridges, 4 revisions | `Followed`, `FoldedOnce` |
| `bytes` | every cut and timeout of 5 bytes, 2 frames, 9 frames of audio, 3 keys or 4 bytes of output | `FramesKept`, `SpeechScored`, `Relayed`, `WrapperEnds` |

Several properties are conjunctions of named parts that belong to one question (`Served` is
`TypeOK`, `NoGap`, `Introduced` and `Forgotten`); the comment of each part says what it is about.

**Bounds.** They bound the models and not the code, and each module names its own in a CONSTANTS
section ("bounds of the model"). The limits of the code (`MAX_PENDING_...`, queue lengths, windows)
are constants too, with small values so that they are reached.

* BridgeCore: three instants are enough for a command to be sent, lapse and have its receipt
  dropped, for an effect to miss its deadline and for a disconnected session to lapse, in every
  order; a retention of 1 is shorter than the life of the longest command, so a receipt must outlive
  its retention. Three connections are two hosts, one replacing the other, and a client, or a host
  and two clients.
* SurfaceStreams: one delta held and two numbers make a resumed subscription both answerable with
  deltas and not. A memory of 4 ids for a window of 2 events is more than enough.
* HostLink: four changes let a turn end with either request open, or one happen before, one during
  and one after a handshake; one break lets the session reopen, with a request whose turn is over.
* Drivers: with 1 pending the second request meets the limit; two prompts make a turn follow a
  turn. One unread message keeps the reader at most one behind, which still lets it come between
  any two steps of the link thread.
* TuiProxy: two ids and a limit of 1 let a request be untracked; each is asked twice, so an id is
  used again. Codex: the second turn is the one a late steer, a retry or a native prompt begins.
  Codex acts once what it sent before is read, but one act may send three messages, and the adapter's
  own messages wait in `out` meanwhile, so each side may be one act behind the other.
* Voice: the second press begins while the first's recognition may still run. Server: with 1 slot
  the second connection is refused or takes over; queues of 2 fill up. A socket whose reader has
  ended is emptied: nobody reads what is left in it. Web: 2 items and 7
  characters make every bound of a transcript bite; 2 events of window and 2 of queue make replays
  incomplete and pages fall behind. A Bridge's first event opens an item, a later one may also end one,
  whether or not anybody saw it open.
* ByteStreams: a frame limit of 2 bytes in 5 lets a frame be too long, empty, whole or cut; nine
  frames of audio hold three segments, so an overlap with two references in a row occurs. A silence
  of 4 with pads of 2 and 3 puts Silero on both sides of the edge at which its segments overlap.

**Symmetry.** Connections are interchangeable in `core_commands` and `core_sessions`, prompts and
requests in `drivers`, connections and calls in `server`, sessions in `web`. Runs with liveness
properties use none.

**Deadlock.** Runs say `CHECK_DEADLOCK FALSE`: at the end of the bounds nothing more may happen, and
the code's threads do wait without end for input.

**Fairness.**
* BridgeCore: `WF(Advance)` and `WF(Tick)`. Time passes, and `_core_loop` ticks after its interval
  whether or not the inbox is empty. Nothing is assumed of hosts and clients.
* SurfaceStreams: `WF(Connect)`, `WF(Serve)`, `WF(Read)`. The client's thread retries for ever and
  reads what arrives; the core's thread serves its inbox. What sessions do, breaks and restarts are
  not fair, and are bounded, so `CatchesUp` says what happens once they stop.
* HostLink: `WF(LinkStep)`, the thread that retries for ever, and `WF(Bridge(c))`, the Bridge's
  threads that read each connection. Drivers, effects and breaks are not fair.
* TuiProxy: the connection thread, the link thread, the callbacks of the connection before, and the
  clock (`WF(Lateness)`). Neither Codex nor the terminal has to answer.
* VoiceHost: `WF(Workers)`, the gateway's threads as long as one can run, and `WF(Main)`. No key has
  to be released, no process has to end by itself and the recogniser need never answer. The calls
  that the code makes without a deadline of its own are assumed to return: the synthesis of a line
  on the playback thread, and the command to the Bridge, which the client's own timeout ends.
  `ComesBack` rests on both.
* ByteStreams: the terminal takes output (`WF(Shows)`), the clock goes on, and the wrapper's process
  is scheduled. `WrapperEnds` rests on the first: the relay waits for a terminal that takes
  nothing. What the program does, and another process that keeps its terminal, are not fair.

**Refinement.** `SurfaceStreams` implements `ConsoleReplica` (`Implements`). The other abstract
promises are stated as reference operators the state is compared with: `After` (HostLink) and
`Catching` (WebSurface) say what the far end will hold once it has read what is on its way.

## Known divergences

Eight configurations are no runs of the suite: TLC refutes the one property each names, and the
counterexample is a behaviour of the code that a document, a comment or a test denies. Run one with
`tlc -config <name>.cfg <module>`.

| configuration | module | property | what the code does, and who says otherwise |
|---|---|---|---|
| `core_turn_end` | MCBridgeCore | `TurnEndCancels` | A turn ends while a decision on its approval is in flight. When the host then answers `undelivered` or `unsupported` without having reported how the request ended, the approval of the finished turn is open again and the session shows `waiting_approval` (`core.py:500`, `:745`). The Codex driver does just this. `protocol/deskhelm-v2.md:249`: "When a turn ends, its open requests are cancelled, except those that are not blocking." |
| `core_one_session` | MCBridgeCore | `OneSessionPerConnection` | `session_close` and `session_ended` remove the session and leave the connection, which may open another (`core.py:348`). `protocol/deskhelm-v2.md:38`: "A host connection opens exactly one session." |
| `streams_ready` | MCSurfaceStreams | `ReadyInSync` | A client that resumes is ready before it has read the deltas it missed (`connection.py:292`); `wait_ready` says "Wait until the console is in sync with a live Bridge." |
| `streams_once` | MCSurfaceStreams | `HandedOnce` | With full windows (32 sessions of 200 events) the client's 4096 ids are too few, and a reconnect hands events over again (`connection.py:385`), which a comment there excludes. So does one quiet session, whose event stays in its window while 4096 others pass. |
| `link_rebuild` | HostLink | `Rebuilt` | A fact emitted after the state was read and before `session_open_result` is in neither the state nor the facts (`link.py:143`): the Bridge shows a turn that is over, or misses an approval. `emit` says the state "is rebuilt from the driver when the session reopens." |
| `tui_leak` | TuiProxy | `NoLeak` | Codex uses an id again before the terminal's late answer has been read; the record that suppresses it is dropped, and the answer goes out as the new request's (`tui_proxy.py:548`). ADR 0033: a late duplicate "cannot leak". |
| `codex_turns` | MCCodex | `TurnsEnd` | A turn that ends while the adapter is not connected is never reported: after resuming an idle thread nothing is published (`app_server.py:1220`), and every surface shows the session working. ADR 0044: what is running "stops when its turn ends or its host leaves". |
| `web_wide` | WebSurface | `Mirror` | The page cuts `trim` UTF-16 units where the server counts characters (`store.js:93`); with a character outside the basic plane the page keeps text the transcript dropped. `transcript.py:13` speaks of "the first n characters". |

Smaller observations that no property states:

* `FrameDecoder.feed` raises on an invalid frame and the whole frames before it in the same piece
  are lost with it; a line of exactly the limit that ends in CR LF is refused when it comes in pieces.
* The client's WebSocket may give up an idle peer whose deadline passes right after a ping; a
  terminal whose frame comes in parts more than 0.1 s apart is disconnected.
* The reader thread of the proxy answers a ping on the socket the proxy's thread sends on, without a
  lock.
* The Silero detector accepts a padding up to its minimum silence, though with more than half of
  that the gateway may refuse its segments as overlapping. `VadAssumption` asks no more than the detector
  does, and `SpeechScored` says that the gateway refuses no others.
* Claude's results name no prompt, so the result of a queued prompt may end the turn of the next;
  a decision may be accepted after the reader has written the expiry's denial.
* `ensure_bridge` may report a Bridge that another process started; a snapshot of an older epoch may reach a page after two restarts.
* A prompt may be settled as the answer to a Codex input the terminal has answered, and a surface's
  accepted decision may be reported as resolved natively.
* The terminal wrapper loses what its redactor holds back when the pty reports an error, leaves the
  terminal raw while it waits for a program that detached, and lets a Ctrl-C of the extended
  keyboard protocol pass when its bytes come more than 30 ms apart. `Guarded`, a part of `Relayed`,
  allows that Ctrl-C and no other.

Hazards that no property covers, besides those `PROJECT.json` notes: the wall clock of the core may
be set back or forward (`core.py:263`); the replay of full windows (6400 frames) is longer than an
outbox (512) and so disconnects the subscriber (`server.py:237`); a vendor that stops reading blocks
its driver's reader with the lock held (`claude driver.py:491`); a peer that neither reads nor
closes keeps its slot (`server.py:183`); a terminal that reconnects at once is taken for an
auxiliary one (`tui_proxy.py:316`); an approval phrase decides the approval that is pending when it
is recognised (`policy.py:128`).

## Theorems

Checked by TLAPS for every value of the constants that the assumptions admit. The bounds of the
models (`MaxNow`, `MaxEvents`, `MaxBreaks`, `MaxPresses`, ...) are among those constants, so the
theorems hold for behaviours of any length. Every safety property that a passing run checks of
BridgeCore, SurfaceStreams, HostLink, Drivers, CodexDriver, TuiProxy, VoiceHost and ClientCalls is a
theorem, and so is the refinement.

| module | theorem | states |
|---|---|---|
| `BridgeCoreProofs` | `TypeCorrect` | `[]TypeOK` |
| | `LeaseCorrect`, `FocusCorrect`, `ActivityCorrect` | `[]Lease`, `[]FocusActive`, `[]ActivityFresh` |
| | `AccountedCorrect`, `DispatchedOnce` | `[]Accounted`, `DispatchOnce` |
| | `ReservedCorrect`, `DecidedOnce` | `[]Reserved`, `DecideOnce` |
| `SurfaceStreamsProofs` | `StreamImplements` | `Implements`: the stream refines `ConsoleReplica` |
| | `EventsHanded` | `[]Handed` |
| | `AppliedDifference` | the change `_finish` derives leads from the old console to the new |
| `HostLinkProofs` | `LeaseKept`, `StateRebuilt`, `EffectsTrue` | `[]Leased`, `[]RebuiltUnlessMissed`, `[]EffectTrue` |
| `DriversProofs` | `PublishedCorrect`, `OutcomesTrue` | `[]Published`, `[]OutcomeTrue` |
| | `RequestsSettled`, `TurnsOwed` | `[]RequestsAnswered`, `[]TurnsKept` |
| `CodexDriverProofs` | `PromptReachesCodexOnce`, `ToldOutcomesAreTrue` | `[]PromptOnce`, `[]OutcomeTrue` |
| | `AdapterAndDriverAgree` | `[]Consistent` |
| `TuiProxyProofs` | `AnsweredByOne`, `ViewsConsistent` | `[]OneAnswer`, `[]Consistent` |
| `VoiceHostProofs` | `PressesAnswered`, `SpokenTo`, `NothingSpokenOver` | `[]Answered`, `[]Addressed`, `[]Hushed` |
| `ClientCallsProofs` | `ServedCorrect`, `CodeCorrect`, `ReachableCorrect` | `[]Served`, `[]CodeTrue`, `[]Reachable` |

Each is `Spec => ...`. `StreamsInductive`, `LinkInductive`, `ServerInductive`, `CodexInductive`,
`ProxyInductive` and `HostInductive` state the inductive invariants the others rest on.

**Assumptions.** They are named in the modules that declare the constants, and TLC evaluates them on
every run.

* `BridgeAssumption`: the enumerated commands, requests and capabilities have the right type, the
  requests are finite in number, the limits and bounds are natural numbers.
* `StreamAssumption`, `LinkAssumption`, `HostAssumption`: `None` is not a name of something, limits
  and bounds are natural numbers; the requests the vendor does not wait on are requests.
* `VendorAssumption`: prompts and requests are distinct from each other and from `None`, an offer is
  of one-time options, the limits are natural numbers.
* `AdapterAssumption`: the adapter's limits are at least one (`__post_init__` refuses others), the
  bounds of the model are natural numbers, the plans are of what Codex may ask. `NamesAssumption`: an
  item's id is neither a command's nor a request's, an interrupt's command is no prompt's, and `None`
  is none of them.
* `ServerAssumption`, `PendingAssumption`: queues and slots are for at least one, Bridges are
  numbered, a call is none of the protocol's own frames.
* `ProxyAssumption`: limits of at least one, and finitely many request ids, so that "at most
  `MaxPending` approvals" has a meaning.
* `BlocksAssumption`, `GatewayAssumption`: at least one block of audio, one press and one line.

**How the proofs are laid out.** A lemma says what each helper does to its argument, a lemma per
action what it changes in the terms of the invariant, and one per action and part of the invariant
that it keeps the part; a step lemma puts the actions together. Where many actions leave a part
alone, one lemma says under which changes it is kept. What a module needs of sequences and finite sets
stands before that: an element appended or taken from the front, `Picked` and `Kept` (order, range,
what an append and a tail do to them), sequences without repetition, and sequences that hold
nothing of a set (`Lacks`) or one of it at most (`Single`).
Induction up to a number is the least counterexample of a set (`Least`, from the library's well-founded
orders, and `UpTo`), for no prover here instantiates the theorems that take a predicate.

**The core.** The inductive invariants are a chain, each using the one before.

* `TypeOK` is inductive by itself. Beyond types it shows that no handler reads a record that is not
  there.
* `Leased == TypeOK /\ Lease /\ FocusActive` is inductive. `Lease` says of an owner and its
  connection that each names the other; the direction from connection to session is what a host
  that leaves relies on, the other what a replacement does. `FocusActive` needs neither and goes
  along because the same actions move both.
* `Fresher == TypeOK /\ ActivityFresh` is inductive. The two handlers that change tickets without
  `_recompute` (a command that reserves one, a tick that drops none) are the interesting cases: the
  activity does not depend on reservations (`DerivedSame`).
* `Sound == Leased /\ Accounted` is inductive. `Lease` is needed where a session is opened: only a
  session that is not active is, and such a session has no effects in flight.
* `Booking == Sound /\ Ledger`. `DispatchOnce` is an action property. `Ledger` is the reason: a
  receipt is kept at least until its command expires (`cmd.expires <= until`), and a spent command
  that has not expired has its receipt. `Accounted` is needed where an undelivered effect gives its
  command back: no other spent command may use the receipt that goes.
* `Deciding == Booking /\ Desk`. `Desk` is `Reserved` session by session (`WellKept`), with what
  makes it inductive: ids are at most `counter`, one ticket has each id across all sessions, and a
  spent decision whose ticket is open is in flight. A new decision needs a ticket nobody reserved,
  so none that was spent can be for the same ticket: `DecideOnce`.

**The streams.** The refinement needs to know what travels. `Numbered`: what this Bridge published
is numbered from 0 and the last is in force. `Held`, `Sent`: each delta kept or on its way leads from
one published console to the next, and a snapshot is the first frame of its connection, so the
replica is not ahead of it. `AsksFirst`: the console is asked for before anything else travels.
`Copied`: the replica is a console this Bridge published, or another's. With these each step of the
surface is a step of `ConsoleReplica` or a stutter, and `AppliedDifference` is why a delta leads
where the abstract step says. `Handed` adds `Heard` (an event still held has been handed over or is
on its way, behind the announcement of its window) and `Order`: windows and frames are in the order
of the events, the surface has passed over nothing that is held or travels, and while the client has
been handed no more than it can remember it remembers all of it. `HandedInOrder` is conditional on
that memory; without the condition it is false (`streams_once`).

**The host link.** `Wired`: who holds which end of a connection. `UpInOrder`, `DownInOrder`: what a
frame on its way says of where it came from. `Given`: a session that is being opened starts with what
the driver's state was when it was read. `Coursed` is the heart: from the session through the facts on
their way there is a course, each point the next in number, to what the host last sent; this is
`After` without its recursion. `RebuiltUnlessMissed` and `Leased` are its two ends. `Performed` says of
each effect that what the Bridge says, or will read, is what the driver did, once.

**The line drivers.** `Kept` (types, and that what the facts have said is what the driver holds) is
inductive: every section under the lock is a composition of `Settle`, `Open`, `Started` and a few
more, and each of these keeps `Sound`; the limit holds because `Open` comes after the check of it in
the same section.

* `Faithful == Kept /\ Honest`. `OutcomeTrue` is not inductive: between the write of a decision and
  the report of it the user has answered and the outcome says nothing. `Honest` says that this is
  the only exception, that the effect at work has no outcome yet, and that a decision the link
  thread is about to report was written. The reader cannot disturb it, for whatever it writes is
  written by the driver (`ByDriver`) and it reports no outcome (`HonestFrame`).
* `Orderly` relates messages by their places in the pipe: the vendor works on a prompt once and asks
  for the one it works on; a request travels once and before the driver knows of it; a tool's end
  comes before its prompt's. `AnsweredOnce` and `Noted` say which thread may answer and that a
  refusal is noted for as long as the tool may still end; `TurnAccepted` and `TurnDue` that a shown
  turn was written or is being, and that a vendor that lives still owes its end.

**The Codex adapter.** One inductive invariant, `IInv`, carries the three properties, none of which
is inductive. It says of each kind of message how many may travel and what the adapter knows
meanwhile, with `Lacks` and `Single`.

* `Travel(p)` follows one prompt. It is with the link's thread, or in `out`, or has been given to Codex,
  or has come back as an error "idle": never in two of these places, so that the steer
  which is sent again (`RetryIdleSteer`) is the only copy. Before the adapter has accepted it, it is
  nowhere; afterwards its request is pending, or it has arrived, or its failure is in `todo` or told.
  A result is on its way only for what has arrived, which is why a timeout may forget the request.
* `Limits`: the tables are finite and within the limits, and an adapter that is down holds no request
  and nothing on its way. A retried steer is no new request: the old one has just left.
* `Attachment`: who is subscribed is attached. Codex tells a connection of turns and requests
  only once it has answered its `resume`, so `Sound` reads the messages on their way in order: each such
  message comes where the adapter, having handled what is before it, is attached. One `resume` is in
  flight at most.
* `Shown(ask)`: an approval the adapter has not come upon is nowhere in the driver; one that is to be
  opened is not open yet; one that is open is held by the adapter, has expired, is being taken off
  by the link's thread, or its resolution is in `todo`. `Attention` says the same of the attention.
* `SubmissionInFlight` is inductive beside them: every step that takes a start's request away settles it.

The operations the driver calls are handled alike: `Operates` says what any of them leaves
(`SubmitPromptDoes`, `InterruptDoes`, `AnswerInputDoes`, `DecideApprovalDoes`), and `OperationKeeps`
that an operation of that kind keeps the invariant between the driver's two sections.

**The TUI proxy.** Three threads and two ends of a socket each know some of the asks. `Fresh` says
that an ask that is not yet handled is unknown to all of them; `Alone` that an id has one approval
at a time, pending or suppressed; `Opening` and `Told` that whoever knows an approval which is no
longer pending is about to be told; `Ruled` that what is decided stays decided. `HeldBack` is what
`OneAnswer` needs: for the only ask of an id that has not expired, the record of the decision stays as
long as the terminal's answer may come, so that answer is swallowed. It fails for an id that is
asked again, which is `tui_leak`.

**Voice.** `Turns`: the capture thread is at the last press, and every press before it has ended.
`Recorded`: a finished recording has been read to its end. `Stilled`: while a press is on, the
line that plays has been cancelled. `Aimed`: a press carries the session that was in focus when the
key went down, whatever has the focus since. `Apart` and `Directed`: an approval is one session's, and what
is chosen or sent for a press belongs to its session. That needs ids that are not used again; with
ids that may be, TLC refutes `Addressed` (with three changes of the console), which the core's
counter excludes.

**The server.** `Owners`: a process past the lock holds it, and the one that serves owns the path.
`Limited`: the queues, the slots and the client's calls, as finite sets. `Threads` says of each
connection where its threads are by what they have left in the inbox: one that is not met has left
nothing, a disconnect behind which frames may come is the reader's last item, what is read is announced
before it, and a connection whose threads have ended is forgotten after it was announced. `NoGap`
goes along with the outbox and the socket. `Travels`: a call that was not sent is nowhere on its way,
and a result is that of a call the core has acted on.

**Only model-checked.**

* The liveness properties: `Answered` and `NoneLingers` of BridgeCore, `CatchesUp`, `Leaves`,
  `Released`, `ComesBack`, `WrapperEnds`.
* WebSurface, Transcript and the byte streams: their properties compare the state with folds over
  sequences, which would need induction over data.

## What comes next

1. What can be said of the web surface without its folds: revisions, the order of what is queued.
2. HostLink over BridgeCore's session in the place of the abstract one, and Drivers over HostLink.

## Not modelled

* The content of facts, prompts, questions and answers; the catalog and its cache; queries;
  validation of single fields; JSON. They are checked by example in the repository's tests and
  no interleaving changes them.
* A wall clock that is set back or forward, and memory that runs out.
* HTTP, authentication, rendering, argument parsing, paths: pure functions or I/O around the
  modelled state. The dashboard and the CLI keep no state that the client does not.
* Speech models, audio devices and numerics: a recogniser, a voice and a detector are oracles that
  may answer anything, late or never. Latencies, signal levels and the reports of the benchmarks.
* Of the Codex adapter: model and usage reports, the wording of items, the choice among several
  threads. Of the terminal wrapper: the window's size and its arguments.
* Start of vendor processes, signals of the terminal, and the tools that launch or check a desktop.
* `configurator`, `firmware` and `hardware` hold no code.
