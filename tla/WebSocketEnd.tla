---------------------------- MODULE WebSocketEnd ----------------------------
(***************************************************************************)
(* One end of a WebSocket over a Unix socket: toward the Codex app-server  *)
(* (app_server_transport.py: UnixWebSocketTransport, "client") or toward   *)
(* the Codex TUI (tui_proxy.py: _ServerWebSocketConnection, "server"). Its *)
(* owner calls receive_message again and again and gives the connection up *)
(* when a call raises.                                                     *)
(*                                                                         *)
(* A frame's header, length, mask and payload are two bytes each, enough   *)
(* for the socket to cut every one; a byte is <<frame, place>>, the        *)
(* handshake being frame 0. The peer may fall silent inside anything, so a *)
(* recv may give any part of what is on its way, or time out. Left out:    *)
(* how the parts of the handshake are worded, and the end's own messages.  *)
(***************************************************************************)
EXTENDS Integers, Sequences, SequencesExt

CONSTANT MaxFrames      \* bound: frames the peer sends

ASSUME FramesAssumption == MaxFrames \in Nat

VARIABLES
    side,       \* "client" or "server"
    sent,       \* the frames the peer has sent
    flight,     \* bytes that have not been received
    unread,     \* _buffer
    call,       \* the call under way: what it reads next, and of which frame
    given,      \* the frames returned, and those answered with a pong
    open        \* "open", or why the connection was given up

websocket == <<side, sent, flight, unread, call, given, open>>

\* long: with a length of its own; bad: too long, in fragments, with an extension, masked
\* or not as the side forbids, or not a JSON object.
Frames == [op : {"text", "ping", "pong", "close", "other"}, long : BOOLEAN, bad : {"no", "header", "length", "text"},
           empty : BOOLEAN]

Legal == {f \in Frames : /\ f.bad = "length" => f.long
                         /\ f.bad = "text" => f.op = "text"
                         /\ f.empty => ~f.long /\ f.op \in {"ping", "close"}}

\* The parts of a frame, in order.
Parts(f) == <<"header">> \o (IF f.long THEN <<"length">> ELSE <<>>)
            \o (IF side = "server" THEN <<"mask">> ELSE <<>>) \o <<"payload">>
Size(f, part) == IF part = "payload" /\ f.empty THEN 0 ELSE 2
LengthOf(f) == FoldLeft(LAMBDA n, part : n + Size(f, part), 0, Parts(f))
BytesOf(i, f) == [k \in 1..LengthOf(f) |-> <<i, k>>]

Greeting == [k \in 1..2 |-> <<0, k>>]

Waiting  == [at |-> "between", frame |-> 0, patience |-> TRUE]

WebSocketInit ==
    /\ side \in {"client", "server"}
    /\ sent = <<>> /\ flight = Greeting /\ unread = <<>>
    /\ call = [Waiting EXCEPT !.at = "handshake"]
    /\ given = [messages |-> <<>>, pongs |-> <<>>] /\ open = "open"

PeerSends ==
    /\ open = "open" /\ Len(sent) < MaxFrames
    /\ \E f \in Legal : sent' = Append(sent, f) /\ flight' = flight \o BytesOf(Len(sent) + 1, f)
    /\ UNCHANGED <<side, unread, call, given, open>>

\* close, and the owners' way out of every exception.
GivenUp(why) == open' = why /\ unread' = <<>> /\ call' = Waiting /\ UNCHANGED given

-----------------------------------------------------------------------------
(* Reading                                                                 *)

Need == IF call.at = "payload" THEN Size(sent[call.frame], "payload") ELSE 2

\* _read_exact has what it was asked for.
Ready == Len(unread) >= Need

\* A recv of what is there; the handshake's keeps what came behind it.
Recv ==
    /\ open = "open" /\ call.at # "between" /\ ~Ready
    /\ \E n \in 1..Len(flight) :
        /\ unread' = unread \o SubSeq(flight, 1, n)
        /\ flight' = SubSeq(flight, n + 1, Len(flight))
    /\ UNCHANGED <<side, sent, call, given, open>>

TimeoutReturns == call.at # "handshake"     \* faulty

\* Only the client's read of a header turns a timeout into no message.
NoMessage == side = "client" /\ call.at = "header" /\ call.patience

\* A recv that times out, or, with no time left, finds nothing.
RecvTimesOut ==
    /\ open = "open" /\ call.at # "between" /\ ~Ready
    /\ IF NoMessage THEN call' = Waiting /\ UNCHANGED <<unread, given, open>> ELSE GivenUp("silence")
    /\ UNCHANGED <<side, sent, flight>>

PeerCloses ==
    /\ open = "open" /\ call.at # "between" /\ ~Ready
    /\ GivenUp("end")
    /\ UNCHANGED <<side, sent, flight>>

\* The handshake is accepted or refused; what came behind it stays in the buffer.
Handshake ==
    /\ open = "open" /\ call.at = "handshake" /\ Ready
    /\ \/ /\ unread' = SubSeq(unread, 3, Len(unread))
          /\ call' = Waiting /\ UNCHANGED <<given, open>>
       \/ GivenUp("refused")
    /\ UNCHANGED <<side, sent, flight>>

\* The client's owner always calls; the TUI's end only for input (has_input).
CallReceive ==
    /\ open = "open" /\ call.at = "between"
    /\ side = "server" => unread # <<>> \/ flight # <<>>
    /\ call' = [Waiting EXCEPT !.at = "header"]
    /\ UNCHANGED <<side, sent, flight, unread, given, open>>

\* Two bytes are a header when they begin a frame.
InStep == unread[1][2] = 1

PartAfter(f, part) == Parts(f)[1 + CHOOSE k \in DOMAIN Parts(f) : Parts(f)[k] = part]

ReadPart ==
    /\ open = "open" /\ call.at \in {"header", "length", "mask"} /\ Ready
    /\ LET i == IF call.at = "header" THEN unread[1][1] ELSE call.frame
           f == sent[i]
       IN  IF call.at = "header" /\ ~InStep THEN GivenUp("out of step")
           ELSE IF f.bad = call.at THEN GivenUp("bad frame")
           ELSE /\ call' = [call EXCEPT !.at = PartAfter(f, call.at), !.frame = i]
                /\ unread' = SubSeq(unread, 3, Len(unread))
                /\ UNCHANGED <<given, open>>
    /\ UNCHANGED <<side, sent, flight>>

\* Behind a ping or a pong: no message once the deadline is over, or another header, for
\* which no time may be left.
Again == \/ call' = Waiting
         \/ \E patience \in BOOLEAN : call' = [Waiting EXCEPT !.at = "header", !.patience = patience]

ReadPayload ==
    /\ open = "open" /\ call.at = "payload" /\ Ready
    /\ LET i == call.frame
           f == sent[i]
           rest == SubSeq(unread, Need + 1, Len(unread))
       IN  CASE f.op = "close" -> GivenUp("end")
             [] f.op = "other" \/ f.bad = "text" -> GivenUp("bad frame")
             [] f.op = "text" -> /\ given' = [given EXCEPT !.messages = Append(@, i)]
                                 /\ unread' = rest /\ call' = Waiting /\ UNCHANGED open
             [] OTHER -> /\ given' = IF f.op = "ping" THEN [given EXCEPT !.pongs = Append(@, i)] ELSE given
                         /\ unread' = rest /\ Again /\ UNCHANGED open
    /\ UNCHANGED <<side, sent, flight>>

WebSocketNext ==
    PeerSends \/ Recv \/ RecvTimesOut \/ PeerCloses \/ Handshake \/ CallReceive \/ ReadPart \/ ReadPayload

-----------------------------------------------------------------------------
\* The frames that have been read whole.
Whole == {i \in DOMAIN sent : \A k \in 1..LengthOf(sent[i]) : <<i, k>> \notin ToSet(flight \o unread)}
         \ (IF call.at \in {"mask", "length", "payload"} THEN {call.frame} ELSE {})

AllOf(op) == SetToSortSeq({i \in Whole : sent[i].op = op}, <)

\* Wherever the stream is cut and whenever a wait times out, the two ends stay in step: while the
\* connection lasts, each text frame has been returned and each ping answered once, in order;
\* and it is given up for a bad frame, an end, or a silence, never over a part of a frame
\* read as another.
FramesInStep ==
    /\ open # "out of step"
    /\ open = "open" => given = [messages |-> AllOf("text"), pongs |-> AllOf("ping")]
    /\ open = "bad frame" => \E i \in DOMAIN sent : sent[i].bad # "no" \/ sent[i].op = "other"
=============================================================================
