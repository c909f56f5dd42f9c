---------------------------- MODULE BridgeServer ----------------------------
(***************************************************************************)
(* The Bridge's process and its threads, bridge/deskhelm_core/server.py    *)
(* (BridgeServer) and bridge/deskhelm_host/bridge_process.py, around the   *)
(* core of BridgeCore: who serves the socket, and how one connection's     *)
(* reader, its writer and the core's thread share it.                      *)
(*                                                                         *)
(* A connection is two FIFOs, the second one bounded. The reader and the   *)
(* writer of a connection each put "disconnect"; the core's thread takes   *)
(* the inbox one item at a time. The core is abstract: it greets, acts on  *)
(* a call and answers it, sends events, and refuses what comes before a    *)
(* hello. The outputs of one input are put into the outboxes at once.      *)
(***************************************************************************)
EXTENDS Integers, Sequences, FiniteSets, Picking

CONSTANTS
    Conns,          \* connections; one is used again when nothing of it is left
    Calls,          \* commands and queries, each made once
    MaxConnections, \* max_connections
    OutboxFrames,   \* writer_queue_frames
    InboxItems,     \* DEFAULT_INBOX_ITEMS
    SocketFrames    \* frames a socket holds for a peer that does not read

CONSTANTS           \* bounds of the model
    Bridges,        \* 1..n, the Bridge processes ever started
    MaxEvents,      \* events the core sends
    MaxConnects     \* connections ever made

ASSUME ServerAssumption ==
    /\ {MaxConnections, OutboxFrames, InboxItems, SocketFrames} \subseteq Nat \ {0}
    /\ Bridges \subseteq Nat \ {0} /\ {MaxEvents, MaxConnects} \subseteq Nat
    /\ Calls \cap {"hello", "early", "junk", "hello_ok", "event", "error", "close", "none"} = {}

VARIABLES
    life,       \* each Bridge process
    lock,       \* who holds the lock file, 0 if nobody
    path,       \* whose listener the socket file is, 0 if there is no file
    conn,       \* the connections: sockets, threads, outboxes
    inbox,      \* _inbox
    known,      \* the core's connections
    acted,      \* history: calls the core has acted on
    owed,       \* history: what the core has sent to each connection and is not yet in its socket
    spent       \* bounds: events and connections so far

serverVars == <<life, lock, path, conn, inbox, known, acted, owed, spent>>

Names   == {"hello", "early", "junk"}       \* early is a call before a hello, junk no frame
Answers == {"hello_ok", "event"}
Up      == Names \cup Calls
Carried == Answers \cup Calls               \* a call is its result
Close   == "close"                          \* _CLOSE

Free == [who |-> "nobody", reader |-> "none", writer |-> "none", greeted |-> FALSE,
         closing |-> FALSE, shut |-> FALSE, left |-> FALSE,
         up |-> <<>>, outbox |-> <<>>, down |-> <<>>]

\* In _peers: its writer runs.
Registered(c) == conn[c].writer = "run"

ServerTypeOK ==
    /\ life \in [Bridges -> {"none", "starting", "locked", "serving", "stopping", "unlinked", "gone"}]
    /\ {lock, path} \subseteq Bridges \cup {0}
    /\ \A c \in Conns :
         /\ conn[c].who \in {"nobody", "client", "stranger"}
         /\ conn[c].reader \in {"none", "run", "ending", "done"}
         /\ conn[c].writer \in {"none", "backlog", "run", "ending", "done"}
         /\ Len(conn[c].outbox) =< OutboxFrames
         /\ Len(conn[c].down) =< SocketFrames
         /\ known[c] \in {"no", "new", "client"}
    /\ Len(inbox) =< InboxItems
    /\ Cardinality({c \in Conns : Registered(c)}) =< MaxConnections

ServerInit ==
    /\ life = [b \in Bridges |-> "none"] /\ lock = 0 /\ path = 0
    /\ conn = [c \in Conns |-> Free]
    /\ inbox = <<>> /\ known = [c \in Conns |-> "no"]
    /\ acted = {} /\ owed = [c \in Conns |-> <<>>]
    /\ spent = [events |-> 0, connects |-> 0]

Serving   == \E b \in Bridges : life[b] = "serving"
Listening == path # 0 /\ life[path] = "serving"

-----------------------------------------------------------------------------
(* Starting and stopping                                                   *)

process == <<life, lock, path>>
traffic == <<conn, inbox, known, acted, owed, spent>>

Becomes(b, stage) == life' = [life EXCEPT ![b] = stage]

\* ensure_bridge: nobody answers, so a Bridge is started. Two callers may do so. One Bridge is as good as
\* another, so they are numbered as they come.
Launch == \E b \in Bridges :
    /\ life[b] = "none" /\ ~Listening
    /\ \A d \in Bridges : d < b => life[d] # "none"
    /\ Becomes(b, "starting")
    /\ UNCHANGED <<lock, path, traffic>>

\* _acquire_lock: the one that does not get it ends.
Acquire == \E b \in Bridges :
    /\ life[b] = "starting"
    /\ IF lock = 0 THEN lock' = b /\ Becomes(b, "locked") ELSE Becomes(b, "gone") /\ UNCHANGED lock
    /\ UNCHANGED <<path, traffic>>

\* start: a file that is left is stale, and the threads begin.
Bind == \E b \in Bridges :
    /\ life[b] = "locked"
    /\ Becomes(b, "serving") /\ path' = b
    /\ UNCHANGED <<lock, traffic>>

\* The threads, the inbox and the core are gone; the peers read the end.
Ends ==
    /\ conn' = [c \in Conns |->
                  IF conn[c].who = "nobody" THEN conn[c]
                  ELSE [conn[c] EXCEPT !.reader = "done", !.writer = "done", !.shut = TRUE,
                                       !.closing = TRUE, !.outbox = <<>>, !.up = <<>>, !.greeted = FALSE]]
    /\ inbox' = <<>> /\ known' = [c \in Conns |-> "no"] /\ owed' = [c \in Conns |-> <<>>]

Stop == \E b \in Bridges :
    /\ life[b] = "serving"
    /\ Becomes(b, "stopping")
    /\ Ends
    /\ UNCHANGED <<lock, path, acted, spent>>

\* A killed process leaves the file; the kernel drops its lock.
Kill == \E b \in Bridges :
    /\ life[b] \notin {"none", "gone"}
    /\ Becomes(b, "gone") /\ lock' = IF lock = b THEN 0 ELSE lock
    /\ IF life[b] = "serving" THEN Ends ELSE UNCHANGED <<conn, inbox, known, owed>>
    /\ UNCHANGED <<path, acted, spent>>

LockReleasedFirst(b) == lock' = 0 /\ UNCHANGED path                \* faulty

\* close removes the socket's file before it lets go of the lock.
CloseFirst(b) == path' = 0 /\ UNCHANGED lock

Unlink == \E b \in Bridges :
    /\ life[b] = "stopping"
    /\ Becomes(b, "unlinked") /\ CloseFirst(b)
    /\ UNCHANGED traffic

\* The rest of close.
Release == \E b \in Bridges :
    /\ life[b] = "unlinked"
    /\ Becomes(b, "gone") /\ lock' = IF lock = b THEN 0 ELSE lock
    /\ path' = IF lock = b THEN path ELSE 0
    /\ UNCHANGED traffic

-----------------------------------------------------------------------------
(* Connections                                                             *)

Set(c, r)     == conn' = [conn EXCEPT ![c] = r]
Put(item)     == Len(inbox) < InboxItems /\ inbox' = Append(inbox, item)
Item(kind, c, frame) == [kind |-> kind, conn |-> c, frame |-> frame]

FullDropped(r, item) == [r EXCEPT !.closing = TRUE]                \* faulty

\* A full outbox ends the connection at once: nothing behind the frame that was lost goes out.
Full(r, item) == [r EXCEPT !.closing = TRUE, !.shut = TRUE]

\* _enqueue
Enqueued(r, item) ==
    IF Len(r.outbox) >= OutboxFrames THEN Full(r, item) ELSE [r EXCEPT !.outbox = Append(@, item)]

\* _fail
FailedWith(r) == [Enqueued(Enqueued(r, "error"), Close) EXCEPT !.closing = TRUE]

\* connect by the client or by another process; it waits in the listener's backlog.
Connect(c, who) ==
    /\ conn[c] = Free /\ Listening /\ spent.connects < MaxConnects
    /\ Set(c, [Free EXCEPT !.who = who, !.writer = "backlog"])
    /\ spent' = [spent EXCEPT !.connects = @ + 1]
    /\ UNCHANGED <<process, inbox, known, acted, owed>>

AcceptUnannounced(c) == UNCHANGED inbox                            \* faulty

\* The core hears of a connection before anything is read from it.
Announce(c) == Put(Item("connect", c, "none"))

OneTooMany == Cardinality({d \in Conns : Registered(d)}) > MaxConnections      \* faulty
NoSlot     == Cardinality({d \in Conns : Registered(d)}) >= MaxConnections

\* _accept_loop
Accept == \E c \in Conns :
    /\ conn[c].writer = "backlog" /\ Serving
    /\ IF NoSlot
       THEN Set(c, [conn[c] EXCEPT !.writer = "done", !.reader = "done", !.shut = TRUE]) /\ UNCHANGED inbox
       ELSE Announce(c) /\ Set(c, [conn[c] EXCEPT !.writer = "run", !.reader = "run"])
    /\ UNCHANGED <<process, known, acted, owed, spent>>

\* The end of the reader, in two steps: the writer may see the first one alone. What is still in the
\* socket is read by nobody.
Leave(c, r) == Set(c, [r EXCEPT !.closing = TRUE, !.reader = "ending"]) /\ UNCHANGED inbox

ReaderEnds == \E c \in Conns :
    /\ conn[c].reader = "ending"
    /\ Set(c, [Enqueued(conn[c], Close) EXCEPT !.reader = "done", !.greeted = FALSE, !.up = <<>>])
    /\ Put(Item("disconnect", c, "none"))
    /\ UNCHANGED <<process, known, acted, owed, spent>>

\* _read_loop: one turn. closing may be set between the check and the read.
Read == \E c \in Conns :
    LET r == conn[c] IN
    /\ r.reader = "run"
    /\ \/ r.closing /\ Leave(c, r)
       \/ /\ r.up # <<>> /\ Head(r.up) # "junk"
          /\ Put(Item("frame", c, Head(r.up)))
          /\ Set(c, [r EXCEPT !.up = Tail(@), !.greeted = TRUE])
       \/ r.up # <<>> /\ Head(r.up) = "junk" /\ Leave(c, FailedWith(r))
       \/ ~r.closing /\ r.up = <<>> /\ (r.left \/ r.shut) /\ Leave(c, r)
       \/ ~r.closing /\ r.up = <<>> /\ ~r.greeted /\ Leave(c, FailedWith(r))    \* handshake_seconds
    /\ UNCHANGED <<process, known, acted, owed, spent>>

\* The end of the writer, in two steps: the slot is free before the core hears of it.
WriterLeaves(c) ==
    /\ Set(c, [conn[c] EXCEPT !.closing = TRUE, !.shut = TRUE, !.writer = "ending", !.outbox = <<>>])
    /\ owed' = [owed EXCEPT ![c] = <<>>]
    /\ UNCHANGED inbox

WriterEnds == \E c \in Conns :
    /\ conn[c].writer = "ending"
    /\ Set(c, [conn[c] EXCEPT !.writer = "done"])
    /\ Put(Item("disconnect", c, "none"))
    /\ UNCHANGED <<process, known, acted, owed, spent>>

\* _write_loop: one turn. sendall waits while the socket is full and the peer does not read.
Write == \E c \in Conns :
    LET r == conn[c] IN
    /\ r.writer = "run"
    /\ \/ r.outbox = <<>> /\ r.closing /\ WriterLeaves(c)
       \/ r.outbox # <<>> /\ (Head(r.outbox) = Close \/ r.left \/ r.shut) /\ WriterLeaves(c)
       \/ /\ r.outbox # <<>> /\ Head(r.outbox) # Close /\ ~r.left /\ ~r.shut
          /\ Len(r.down) < SocketFrames
          /\ Set(c, [r EXCEPT !.outbox = Tail(@), !.down = Append(@, Head(r.outbox))])
          /\ owed' = [owed EXCEPT ![c] = IF Head(r.outbox) = "error" THEN @ ELSE Tail(@)]
          /\ UNCHANGED inbox
    /\ UNCHANGED <<process, known, acted, spent>>

-----------------------------------------------------------------------------
(* The core's thread                                                       *)

\* _dispatch: an output for a connection whose writer is gone is dropped.
Outputs(c, frame) ==
    /\ conn' = IF Registered(c) THEN [conn EXCEPT ![c] = Enqueued(@, frame)] ELSE conn
    /\ owed' = IF Registered(c) THEN [owed EXCEPT ![c] = Append(@, frame)] ELSE owed

\* The same, for an error and the Close behind it.
Refuses(c) ==
    /\ conn' = IF Registered(c) THEN [conn EXCEPT ![c] = FailedWith(@)] ELSE conn
    /\ UNCHANGED owed

ForgetsClients(c) == known' = [known EXCEPT ![c] = IF @ = "client" THEN "no" ELSE @]   \* faulty
Forgets(c)        == known' = [known EXCEPT ![c] = "no"]

\* _core_loop: one item, handled by the core.
Handle ==
    /\ inbox # <<>>
    /\ inbox' = Tail(inbox)
    /\ LET item == Head(inbox)  c == item.conn IN
       \/ item.kind = "connect" /\ known' = [known EXCEPT ![c] = "new"] /\ UNCHANGED <<conn, owed, acted>>
       \/ item.kind = "disconnect" /\ Forgets(c) /\ UNCHANGED <<conn, owed, acted>>
       \/ item.kind = "frame" /\ known[c] = "no" /\ UNCHANGED <<known, conn, owed, acted>>
       \/ /\ item.kind = "frame" /\ known[c] = "new"
          /\ IF item.frame = "hello"
             THEN known' = [known EXCEPT ![c] = "client"] /\ Outputs(c, "hello_ok")
             ELSE Refuses(c) /\ Forgets(c)
          /\ UNCHANGED acted
       \/ /\ item.kind = "frame" /\ known[c] = "client"
          /\ item.frame \in Calls
          /\ acted' = acted \cup {item.frame} /\ Outputs(c, item.frame)
          /\ UNCHANGED known
    /\ UNCHANGED <<process, spent>>

\* Another session's input or a tick has something for a client.
Publish == \E c \in Conns :
    /\ Serving /\ known[c] = "client" /\ spent.events < MaxEvents
    /\ spent' = [spent EXCEPT !.events = @ + 1]
    /\ Outputs(c, "event")
    /\ UNCHANGED <<process, inbox, known, acted>>

ServerThreads == Accept \/ Read \/ ReaderEnds \/ Write \/ WriterEnds \/ Handle
ServerProcess == Launch \/ Acquire \/ Bind \/ Stop \/ Kill \/ Unlink \/ Release
=============================================================================
