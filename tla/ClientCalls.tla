----------------------------- MODULE ClientCalls -----------------------------
(***************************************************************************)
(* The calls of a surface over its connection to the Bridge,               *)
(* bridge/deskhelm_client/connection.py (BridgeClient._call and the        *)
(* connection loop), composed with BridgeServer, beside a process that     *)
(* connects and is no client.                                              *)
(*                                                                         *)
(* The client's thread connects, greets, dispatches frames and drops the   *)
(* connection. Each call has a thread of its own. The console and the      *)
(* interaction stream are SurfaceStreams'.                                 *)
(***************************************************************************)
EXTENDS BridgeServer, TLC

CONSTANT MaxPending     \* MAX_PENDING_CALLS

None == "none"

ASSUME PendingAssumption == MaxPending \in Nat \ {0} /\ None \notin Conns

VARIABLES
    client,     \* the connection, and the calls that wait
    call        \* each call: where its thread is, on which connection, and its code

vars == <<serverVars, client, call>>

TypeOK ==
    /\ ServerTypeOK
    /\ client \in [at : {"down", "connecting", "greeting", "ready"}, conn : Conns \cup {None},
                   waiting : SUBSET Calls]
    /\ (client.at = "down") = (client.conn = None)
    /\ Cardinality(client.waiting) =< MaxPending
    /\ call \in [Calls -> [at : {"idle", "begun", "sent", "done"}, conn : Conns \cup {None},
                           code : {"none", "ok", "timeout", "connection_lost", "client_busy",
                                   "bridge_unavailable"}]]

Init ==
    /\ ServerInit
    /\ client = [at |-> "down", conn |-> None, waiting |-> {}]
    /\ call = [k \in Calls |-> [at |-> "idle", conn |-> None, code |-> "none"]]

clientVars == <<client, call>>

-----------------------------------------------------------------------------
(* _run                                                                    *)

Dial == \E c \in Conns :
    /\ client.at = "down"
    /\ Connect(c, "client")
    /\ client' = [client EXCEPT !.at = "connecting", !.conn = c]
    /\ UNCHANGED call

mine  == conn[client.conn]
Sends(c, frame) == conn' = [conn EXCEPT ![c].up = Append(@, frame)]

\* _open: the hello.
Greet ==
    /\ client.at = "connecting" /\ ~mine.shut
    /\ Sends(client.conn, "hello")
    /\ client' = [client EXCEPT !.at = "greeting"]
    /\ UNCHANGED <<process, inbox, known, acted, owed, spent, call>>

LostUnsent == "bridge_unavailable"                                 \* faulty

\* A call whose connection is dropped may have been acted on.
LostCode == "connection_lost"

\* _drop: every waiting call is let go, and the socket is closed.
Drop ==
    /\ client' = [at |-> "down", conn |-> None, waiting |-> {}]
    /\ call' = [k \in Calls |->
                  IF k \in client.waiting /\ call[k].at = "sent"
                  THEN [call[k] EXCEPT !.at = "done", !.code = LostCode] ELSE call[k]]

\* Nothing of the connection is left once both ends have closed it.
Abandoned(c) == [conn[c] EXCEPT !.left = TRUE, !.down = <<>>]

\* _serve and _open: one frame. A refusal drops the connection.
Receive ==
    /\ client.at \in {"greeting", "ready"} /\ mine.down # <<>>
    /\ LET frame == Head(mine.down)  rest == [conn EXCEPT ![client.conn].down = Tail(@)] IN
       \/ /\ frame = "hello_ok" /\ conn' = rest
          /\ client' = [client EXCEPT !.at = "ready"] /\ UNCHANGED call
       \/ frame = "event" /\ conn' = rest /\ UNCHANGED clientVars
       \/ /\ frame = "error" /\ conn' = [conn EXCEPT ![client.conn] = Abandoned(client.conn)]
          /\ Drop
       \/ /\ frame \in Calls /\ conn' = rest
          /\ client' = [client EXCEPT !.waiting = @ \ {frame}]
          /\ call' = IF frame \in client.waiting
                     THEN [call EXCEPT ![frame].at = "done", ![frame].code = "ok"] ELSE call
    /\ UNCHANGED <<process, inbox, known, acted, owed, spent>>

\* The connection ends, or nothing comes within io_timeout.
Disconnects ==
    /\ client.at # "down"
    /\ \/ mine.shut /\ mine.down = <<>>
       \/ client.at \in {"connecting", "greeting"}
    /\ conn' = [conn EXCEPT ![client.conn] = Abandoned(client.conn)]
    /\ Drop
    /\ UNCHANGED <<process, inbox, known, acted, owed, spent>>

-----------------------------------------------------------------------------
(* _call                                                                   *)

Finish(k, code) == call' = [call EXCEPT ![k].at = "done", ![k].code = code]

Begin(k) ==
    /\ call[k].at = "idle"
    /\ \/ client.at # "ready" /\ Finish(k, "bridge_unavailable") /\ UNCHANGED client
       \/ /\ client.at = "ready" /\ Cardinality(client.waiting) >= MaxPending
          /\ Finish(k, "client_busy") /\ UNCHANGED client
       \/ /\ client.at = "ready" /\ Cardinality(client.waiting) < MaxPending
          /\ client' = [client EXCEPT !.waiting = @ \cup {k}]
          /\ call' = [call EXCEPT ![k].at = "begun", ![k].conn = client.conn]
    /\ UNCHANGED serverVars

\* sendall on the socket the call began with, which may be closed by now.
Send(k) ==
    /\ call[k].at = "begun"
    /\ LET c == call[k].conn IN
       IF client.conn # c \/ conn[c].shut
       THEN /\ Finish(k, "bridge_unavailable")
            /\ client' = [client EXCEPT !.waiting = @ \ {k}]
            /\ UNCHANGED conn
       ELSE /\ Sends(c, k)
            /\ call' = [call EXCEPT ![k].at = "sent"]
            /\ UNCHANGED client
    /\ UNCHANGED <<process, inbox, known, acted, owed, spent>>

\* done.wait is over; the answer may still come.
TimeOut(k) ==
    /\ call[k].at = "sent"
    /\ Finish(k, "timeout")
    /\ client' = [client EXCEPT !.waiting = @ \ {k}]
    /\ UNCHANGED serverVars

-----------------------------------------------------------------------------
(* A process that is no client                                             *)

StrangerConnects == \E c \in Conns : Connect(c, "stranger") /\ UNCHANGED clientVars

\* One frame: a hello, a call before one, or bytes that are no frame. When nobody reads any more,
\* what it sends changes nothing.
StrangerSends == \E c \in Conns, frame \in {"hello", "early", "junk"} :
    /\ conn[c].who = "stranger" /\ ~conn[c].shut /\ ~conn[c].left
    /\ conn[c].up = <<>> /\ ~conn[c].greeted /\ conn[c].reader # "done"
    /\ Sends(c, frame)
    /\ UNCHANGED <<process, inbox, known, acted, owed, spent, clientVars>>

StrangerLeaves == \E c \in Conns :
    /\ conn[c].who = "stranger" /\ ~conn[c].left
    /\ Set(c, Abandoned(c))
    /\ UNCHANGED <<process, inbox, known, acted, owed, spent, clientVars>>

\* Nothing of the connection is left, and no call is about to write to it; the code gives every
\* connection an id of its own.
Reuse == \E c \in Conns :
    /\ conn[c].left /\ conn[c].reader = "done" /\ conn[c].writer = "done"
    /\ known[c] = "no" /\ \A i \in DOMAIN inbox : inbox[i].conn # c
    /\ \A k \in Calls : call[k].at = "begun" => call[k].conn # c
    /\ Set(c, Free)
    /\ owed' = [owed EXCEPT ![c] = <<>>]
    /\ UNCHANGED <<process, inbox, known, acted, spent, clientVars>>

-----------------------------------------------------------------------------

Next ==
    \/ (ServerThreads \/ ServerProcess \/ Publish) /\ UNCHANGED clientVars
    \/ Dial \/ Greet \/ Receive \/ Disconnects
    \/ \E k \in Calls : Begin(k) \/ Send(k) \/ TimeOut(k)
    \/ StrangerConnects \/ StrangerSends \/ StrangerLeaves \/ Reuse

Spec == Init /\ [][Next]_vars

Alike == Permutations(Conns) \cup Permutations(Calls)

-----------------------------------------------------------------------------
(* Properties                                                              *)

\* A call that reports it was never sent is never acted on, and one that is answered was.
CodeTrue == \A k \in Calls :
    /\ call[k].code \in {"bridge_unavailable", "client_busy"} =>
         /\ k \notin acted
         /\ \A c \in Conns : \A i \in DOMAIN conn[c].up : conn[c].up[i] # k
         /\ \A i \in DOMAIN inbox : inbox[i].frame # k
    /\ call[k].code = "ok" => k \in acted

\* A connection that can still deliver has lost nothing of what the core sent it: the streams
\* may count on a gap meaning a reconnect.
NoGap == \A c \in Conns :
    Registered(c) /\ ~conn[c].shut => Kept(conn[c].outbox, Carried) = owed[c]

\* What is put into the outbox of a connection still goes out.
Answerable(c) ==
    Registered(c) /\ ~conn[c].shut /\ \A i \in DOMAIN conn[c].outbox : conn[c].outbox[i] # Close

\* No frame of a connection that can be answered is dropped as an unknown connection's: its
\* announcement comes first, whichever thread is faster, and it is forgotten behind a refusal only.
Introduced == \A i \in DOMAIN inbox : LET c == inbox[i].conn IN
    inbox[i].kind = "frame" /\ Answerable(c) /\ known[c] = "no" =>
      \E j \in 1..(i - 1) : inbox[j].conn = c /\ inbox[j].kind = "connect"

\* A Bridge that serves is the one the socket's file leads to, through stops, kills and races
\* of Bridges that start.
Reachable == \A b \in Bridges : life[b] = "serving" => path = b /\ lock = b

\* The core forgets a connection whose threads have ended, whatever is read late and however the
\* two ends' announcements and frames cross: a leaked client would hold its tier and its streams.
Forgotten == \A c \in Conns :
    conn[c].reader = "done" /\ conn[c].writer = "done" /\ (\A i \in DOMAIN inbox : inbox[i].conn # c)
      => known[c] = "no"

\* A connection is announced, served without a gap and forgotten, whichever of its threads is first.
Served == TypeOK /\ NoGap /\ Introduced /\ Forgotten
=============================================================================
