----------------------------- MODULE VadWindows -----------------------------
(***************************************************************************)
(* A voice activity detector's session on one capture,                     *)
(* voice/deskhelm_voice/silero_onnx_vad.py and webrtc_vad.py, and the      *)
(* checks the gateway makes of its events (gateway.py, _emit_vad_events).  *)
(*                                                                         *)
(* A chunk holds any number of audio frames; the detector judges windows   *)
(* of WindowFrames. The model's judgement of each window is an input:      *)
(* "speech", "silence", or "between" the two thresholds (Silero only).     *)
(* Left out: cancellation and the limit of 256 events.                     *)
(***************************************************************************)
EXTENDS Integers, Sequences, SequencesExt

CONSTANTS
    WindowFrames,
    SilenceFrames,  \* minimum_silence_frames
    Pads,           \* speech_pad_frames: the values Silero is set up with
    StartWindow, StartTrigger, EndWindow, EndTrigger,   \* the WebRTC windows
    MaxAudio        \* bound: audio frames of the capture

\* What the two detectors ask of their settings, and no more: Silero's pad may reach back over the
\* padded end of the segment before.
ASSUME VadAssumption ==
    /\ WindowFrames \in Nat \ {0} /\ MaxAudio \in Nat \ {0}
    /\ SilenceFrames \in Nat /\ Pads \subseteq 0..SilenceFrames
    /\ StartTrigger \in 1..StartWindow /\ EndTrigger \in 1..EndWindow

VARIABLES
    kind,       \* "silero" or "webrtc"
    pad,        \* speech_pad_frames of this session
    judged,     \* the judgement of every window of the capture, the padded last one included
    audio,      \* _expected_frame: the audio frames processed
    left,       \* the frames in _buffer
    vad,        \* the session's segment, and its windows of flags
    told,       \* the events the session returned
    gate,       \* the gateway's _VadObservation
    finished    \* finish was called

vadwindows == <<kind, pad, judged, audio, left, vad, told, gate, finished>>

NoFrame == -1

Fresh == [start |-> NoFrame, candidate |-> NoFrame, starts |-> <<>>, ends |-> <<>>]

VadInit ==
    /\ kind \in {"silero", "webrtc"} /\ pad \in Pads
    /\ judged \in [0..(MaxAudio - 1) \div WindowFrames ->
                      IF kind = "silero" THEN {"speech", "between", "silence"} ELSE {"speech", "silence"}]
    /\ audio = 0 /\ left = 0 /\ vad = Fresh /\ told = <<>>
    /\ gate = [last |-> 0, active |-> NoFrame, failed |-> FALSE]
    /\ finished = FALSE

Event(what, frame) == [kind |-> what, frame |-> frame]

Later(a, b)  == IF a >= b THEN a ELSE b
Earlier(a, b) == IF a <= b THEN a ELSE b

-----------------------------------------------------------------------------
(* One window that begins at frame f: the session v behind it and its events *)

Judged(f) == judged[f \div WindowFrames]
After(v, events) == [vad |-> v, events |-> events]

\* Where the silence that may end the segment began.
Candidate(v, f) ==
    CASE Judged(f) = "silence" -> IF v.candidate = NoFrame THEN f ELSE v.candidate
      [] OTHER -> NoFrame

\* _process_window; expected is what the chunk brought the session to.
SileroWindow(v, f, expected) ==
    IF v.start = NoFrame
    THEN IF Judged(f) = "speech"
         THEN LET start == Later(0, f - pad) IN
              After([v EXCEPT !.start = start, !.candidate = NoFrame], <<Event("started", start)>>)
         ELSE After(v, <<>>)
    ELSE LET c == Candidate(v, f) IN
         IF c # NoFrame /\ f + WindowFrames - c >= SilenceFrames
         THEN LET end == Later(Earlier(expected, c + pad), v.start + 1) IN
              After([v EXCEPT !.start = NoFrame, !.candidate = NoFrame], <<Event("ended", end)>>)
         ELSE After([v EXCEPT !.candidate = c], <<>>)

\* A deque of at most n, and how many of its flags are set.
Pushed(deque, flag, n) == LET d == Append(deque, flag) IN IF Len(d) > n THEN Tail(d) ELSE d
SetFlags(deque) == Len(SelectSeq(deque, LAMBDA flag : flag.set))

\* _process_frame
WebRtcWindow(v, f) ==
    LET voiced == Judged(f) = "speech" IN
    IF v.start = NoFrame
    THEN LET starts == Pushed(v.starts, [frame |-> f, set |-> voiced], StartWindow) IN
         IF SetFlags(starts) >= StartTrigger
         THEN LET start == SelectSeq(starts, LAMBDA flag : flag.set)[1].frame IN
              After([v EXCEPT !.start = start, !.starts = starts, !.ends = <<>>], <<Event("started", start)>>)
         ELSE After([v EXCEPT !.starts = starts], <<>>)
    ELSE LET ends == Pushed(v.ends, [frame |-> f, set |-> ~voiced], EndWindow)
             c == Candidate(v, f)
         IN  IF SetFlags(ends) >= EndTrigger
             THEN LET end == Later(IF c # NoFrame THEN c ELSE f, v.start + 1) IN
                  After([v EXCEPT !.start = NoFrame, !.candidate = NoFrame, !.starts = <<>>, !.ends = ends],
                        <<Event("ended", end)>>)
             ELSE After([v EXCEPT !.ends = ends, !.candidate = c], <<>>)

Window(v, f, expected) == IF kind = "silero" THEN SileroWindow(v, f, expected) ELSE WebRtcWindow(v, f)

\* The windows that begin at the frames of firsts, in order.
Windows(v, firsts, expected) ==
    FoldLeft(LAMBDA sofar, f : LET next == Window(sofar.vad, f, expected) IN
                               After(next.vad, sofar.events \o next.events),
             After(v, <<>>), firsts)

-----------------------------------------------------------------------------
(* The gateway                                                             *)

\* One event behind those accepted so far.
Accepts(g, e, available) ==
    IF \/ g.failed \/ e.frame < g.last \/ e.frame > available
       \/ (g.active = NoFrame) # (e.kind = "started")
       \/ (e.kind = "ended" /\ e.frame <= g.active)
    THEN [g EXCEPT !.failed = TRUE]
    ELSE [g EXCEPT !.last = e.frame, !.active = IF e.kind = "started" THEN e.frame ELSE NoFrame]

\* All the events of a call, or none, and the gateway drops the session; whoever measures it
\* goes on.
Emitted(events, available, closed) ==
    LET g == FoldLeft(LAMBDA sofar, e : Accepts(sofar, e, available), gate, events) IN
    /\ told' = told \o events
    /\ gate' = IF g.failed \/ (closed /\ g.active # NoFrame) THEN [gate EXCEPT !.failed = TRUE] ELSE g

-----------------------------------------------------------------------------
(* Calls                                                                   *)

LeftDropped(n) == 0     \* faulty

Left(n) == n % WindowFrames

\* process: a chunk of n frames, and as many windows as it fills.
ProcessChunk ==
    /\ ~finished
    /\ \E n \in 1..(MaxAudio - audio) :
        LET first == audio - left
            windows == [k \in 1..((left + n) \div WindowFrames) |-> first + (k - 1) * WindowFrames]
            new == Windows(vad, windows, audio + n)
        IN  /\ audio' = audio + n /\ left' = Left(left + n)
            /\ vad' = new.vad
            /\ Emitted(new.events, audio + n, FALSE)
    /\ UNCHANGED <<kind, pad, judged, finished>>

\* finish: Silero judges the padded rest; speech that goes on ends with the capture.
FinishCapture ==
    /\ ~finished /\ audio > 0
    /\ LET rest == IF kind = "silero" /\ left > 0 THEN <<audio - left>> ELSE <<>>
           new == Windows(vad, rest, audio)
           v == new.vad
           end == IF v.start = NoFrame THEN <<>> ELSE <<Event("ended", Later(audio, v.start + 1))>>
       IN  /\ vad' = [v EXCEPT !.start = NoFrame]
           /\ Emitted(new.events \o end, audio, TRUE)
    /\ finished' = TRUE
    /\ UNCHANGED <<kind, pad, judged, audio, left>>

VadNext == ProcessChunk \/ FinishCapture

-----------------------------------------------------------------------------
\* The gateway refuses a session's events only when Silero was set up with a pad of more than half
\* the silence, and they do not depend on how the capture was cut into chunks: so far they are those
\* of its windows, judged one at a time.
EventsWhole ==
    LET count == audio \div WindowFrames
        each == [k \in 1..count |-> (k - 1) * WindowFrames]
        one == FoldLeft(LAMBDA sofar, f : LET next == Window(sofar.vad, f, f + WindowFrames) IN
                                          After(next.vad, sofar.events \o next.events), After(Fresh, <<>>), each)
    IN  /\ gate.failed => kind = "silero" /\ 2 * pad > SilenceFrames
        /\ finished \/ told = one.events
        /\ finished => IsPrefix(one.events, told)
=============================================================================
