----------------------------- MODULE ByteStreams -----------------------------
(***************************************************************************)
(* The readers that take a stream in pieces cut anywhere, each a machine   *)
(* of its own: the decoder of the Bridge's protocol, the two WebSocket     *)
(* ends, the voice activity detectors with the tools that score them, and  *)
(* the terminal wrapper. A behaviour is one of one machine; the others     *)
(* rest at their start.                                                    *)
(***************************************************************************)
EXTENDS FrameDecoder, WebSocketEnd, VadScore, PtyRelay

VARIABLE machine

vars == <<machine, decoder, websocket, vadscore, pty>>

MCSecrets == {<<"a", "b">>, <<"a", "b", "b">>, <<"b", "b", "a">>}
MCLoads == {[keys |-> 3, bytes |-> 0], [keys |-> 1, bytes |-> 1], [keys |-> 0, bytes |-> 4]}

MCReferences == {<<>>, <<Segment(0, 3)>>, <<Segment(1, 5)>>, <<Segment(2, 4), Segment(4, 8)>>,
                 <<Segment(0, 1), Segment(3, 4), Segment(6, 9)>>, <<Segment(5, 9)>>}

\* WebRTC knows no pad.
OnePad == CHOOSE n \in Pads : TRUE

Resting ==
    /\ kind = "webrtc" => pad = OnePad
    /\ machine # "websocket" => side = "client"
    /\ machine # "vad" => kind = "silero" /\ pad = OnePad /\ judged = [w \in DOMAIN judged |-> "silence"]
    /\ machine # "pty" => load = [keys |-> 1, bytes |-> 1]

Init ==
    /\ machine \in {"decoder", "websocket", "vad", "pty"}
    /\ DecoderInit /\ WebSocketInit /\ ScoreInit /\ PtyInit
    /\ Resting

OnlyDecoder   == machine = "decoder"   /\ UNCHANGED <<machine, websocket, vadscore, pty>>
OnlyWebSocket == machine = "websocket" /\ UNCHANGED <<machine, decoder, vadscore, pty>>
OnlyVad       == machine = "vad"       /\ UNCHANGED <<machine, decoder, websocket, pty>>
OnlyPty       == machine = "pty"       /\ UNCHANGED <<machine, decoder, websocket, vadscore>>

Next ==
    \/ OnlyDecoder /\ FeedDecoder
    \/ OnlyWebSocket /\ WebSocketNext
    \/ OnlyVad /\ ScoreNext
    \/ OnlyPty /\ PtyNext

\* The terminal goes on taking output, the clock goes on, and the wrapper's process is scheduled.
Fairness ==
    /\ WF_vars(OnlyPty /\ Shows(0))
    /\ WF_vars(OnlyPty /\ Idles)
    /\ WF_vars(OnlyPty /\ RelayReturns)
    /\ WF_vars(OnlyPty /\ Reaps)

Spec == Init /\ [][Next]_vars /\ Fairness

-----------------------------------------------------------------------------
\* Frames of the Bridge's protocol and messages of the WebSockets survive any cut.
FramesKept == FramesWhole /\ FramesInStep

\* The detectors' events survive any cut, and the tools measure them right.
SpeechScored == EventsWhole /\ Scored

\* What the wrapper shows has no secret, and a Ctrl-C that ends the program was meant.
Relayed == Redacted /\ Guarded
=============================================================================
