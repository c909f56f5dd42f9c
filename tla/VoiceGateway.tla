---------------------------- MODULE VoiceGateway ----------------------------
(***************************************************************************)
(* Press-to-talk and spoken lines, voice/deskhelm_voice/gateway.py         *)
(* (VoiceGateway) over the processes of PipeWire.                          *)
(*                                                                         *)
(* Each accepted press is a number. Its utterance is taken by the capture  *)
(* thread, recognised by the only ASR thread, which may never answer, and  *)
(* handed to the prompt sink (VoiceHost) in the capture thread. Lines wait *)
(* in a bounded queue for the playback thread. Every other step takes the  *)
(* gateway's lock once. Time is an event: a limit may be over at any turn. *)
(* Left out: one-shot capture, stop_speaking (no host calls it), the checks of a provider's frames, and the  *)
(* lines the host never makes: of another priority, or uninterruptible.    *)
(***************************************************************************)
EXTENDS PipeWire, Sequences, FiniteSets, SequencesExt

CONSTANTS
    Sessions,
    None,
    MaxPresses, \* bound: presses accepted
    MaxSpeech   \* max_speech_items

ASSUME GatewayAssumption ==
    /\ None \notin Sessions
    /\ MaxPresses \in Nat \ {0} /\ MaxSpeech \in Nat \ {0}

VARIABLES
    ptt,        \* _ptt_state and the press it is about
    presses,    \* each accepted press: its target, its events and how it ended
    cap,        \* the capture thread
    asr,        \* the ASR executor: its thread, its queue, and the futures
    queue,      \* the lines in _speech_queue
    talk,       \* the playback thread
    gate        \* closed, the sink, and who gets the gateway's events

Press   == 1..Len(presses)
Phrases == {"prompt", "approval", "discard"}
Idle    == [state |-> "idle", press |-> 0]
Resting == [at |-> "idle", press |-> 0, vad |-> "ready", words |-> "none"]
Quiet   == [at |-> "idle", cancel |-> FALSE]

GatewayTypeOK ==
    /\ PipeWireTypeOK
    /\ ptt \in [state : {"idle", "capturing", "transcribing"}, press : 0..MaxPresses]
    /\ (ptt.state = "idle") = (ptt.press = 0)
    /\ cap.press = ptt.press
    /\ cap.vad \in {"ready", "quiet", "speech", "failed"}
    /\ queue \in 0..MaxSpeech
    /\ asr.running \in 0..MaxPresses /\ talk.cancel \in BOOLEAN

GatewayInit ==
    /\ rec = NoStream
    /\ ptt = Idle /\ presses = <<>>
    /\ cap = Resting
    /\ asr = [running |-> 0, queue |-> <<>>, done |-> "none"]
    /\ queue = 0 /\ talk = Quiet
    /\ gate = [closed |-> FALSE, sink |-> TRUE, events |-> TRUE]

-----------------------------------------------------------------------------
(* Lines                                                                   *)

QueuedAnyway == IF gate.closed THEN queue ELSE queue + 1            \* faulty

\* enqueue_speech through VoiceHost.say: a full queue, or a closed gateway, skips the line.
Queued == IF gate.closed \/ queue >= MaxSpeech THEN queue ELSE queue + 1

\* A failure of the input is spoken, as long as the host gets the events.
Complained == IF gate.events THEN Queued ELSE queue

-----------------------------------------------------------------------------
(* Presses                                                                 *)

CanPress == ~gate.closed /\ ptt.state = "idle" /\ gate.sink

\* A press stops the line being spoken.
Silenced == talk.cancel \/ talk.at # "idle"

\* press_ptt, up to the submission of the capture; it waits for `begin`.
PressPtt(target) ==
    /\ talk' = [talk EXCEPT !.cancel = Silenced]
    /\ presses' = Append(presses, [target |-> target, stop |-> FALSE, cancel |-> FALSE, ended |-> 0])
    /\ ptt' = [state |-> "capturing", press |-> Len(presses) + 1]
    /\ cap' = [Resting EXCEPT !.at = "begin", !.press = Len(presses) + 1]

\* PTT_STARTED has been emitted: begin is set.
Begun == cap' = [cap EXCEPT !.at = IF @ = "begin" THEN "open" ELSE @]

\* One more last event, or handled utterance, of a press.
Ends(p) == [presses EXCEPT ![p].ended = @ + 1]

\* release_ptt: only the press it names.
Released(p) == IF ptt.press = p THEN p ELSE 0

ReleasePtt(p) ==
    presses' = IF Released(p) # 0 THEN [presses EXCEPT ![Released(p)].stop = TRUE] ELSE presses

CancelPtt ==
    /\ ptt.state # "idle"
    /\ presses' = [presses EXCEPT ![ptt.press].cancel = TRUE, ![ptt.press].stop = TRUE]
    /\ UNCHANGED <<rec, ptt, cap, asr, queue, talk, gate>>

-----------------------------------------------------------------------------
(* The capture thread                                                      *)

At(place) == cap.at = place
p0 == presses[cap.press]
Go(place) == cap' = [cap EXCEPT !.at = place]

\* How the thread leaves: the last event of the press, and what it says.
Cancelled == presses' = Ends(cap.press) /\ Go("clear") /\ UNCHANGED queue
Failed    == /\ presses' = Ends(cap.press) /\ queue' = Complained
             /\ Go("clear")

OpenStream ==
    /\ At("open")
    /\ \/ p0.cancel /\ Cancelled /\ UNCHANGED rec
       \/ ~p0.cancel /\ rec' = Opened /\ Go("read") /\ UNCHANGED <<presses, queue>>
       \/ ~p0.cancel /\ Failed /\ UNCHANGED rec                \* pw-cat could not start
    /\ UNCHANGED <<ptt, asr, talk, gate>>

\* _observe_vad_chunk: the session is opened with the first chunk; its events come in order.
VadAfter(v) ==
    CASE v = "ready"  -> {"quiet", "speech", "failed"}
      [] v = "failed" -> {"failed"}
      [] OTHER        -> {"quiet", "speech", "failed"}

\* _finish_vad: speech that has begun is ended, or the observer is declared failed.
VadFinished(v) ==
    CASE v = "ready"  -> {"ready"}
      [] v = "failed" -> {"failed"}
      [] OTHER        -> {"quiet", "failed"}

\* _collect_stream: one turn of stream.read, and what is done with it.
ReadStream ==
    /\ At("read")
    /\ \E clock \in Clock :
         LET turn == ReadTurn(p0.stop, p0.cancel, clock) IN
         \/ /\ turn.gets = "again" /\ turn.rec # rec
            /\ rec' = turn.rec /\ UNCHANGED <<presses, queue, cap>>
         \/ /\ turn.gets = "chunk"                          \* within every limit
            /\ rec' = turn.rec
            /\ \E v \in VadAfter(cap.vad) : cap' = [cap EXCEPT !.vad = v]
            /\ UNCHANGED <<presses, queue>>
         \/ turn.gets = "chunk" /\ rec' = Closed /\ Failed  \* beyond one of them
         \/ turn.gets = "end" /\ ~p0.stop /\ rec' = Closed /\ Failed
         \/ /\ turn.gets = "end" /\ p0.stop                 \* no audio at all is a failure
            /\ IF turn.rec.taken = 0 THEN rec' = Closed /\ Failed
               ELSE /\ rec' = turn.rec
                    /\ \E v \in VadFinished(cap.vad) : cap' = [cap EXCEPT !.vad = v, !.at = "audio"]
                    /\ UNCHANGED <<presses, queue>>
         \/ turn.gets = "failure" /\ rec' = turn.rec /\ Failed
         \/ turn.gets = "cancelled" /\ rec' = turn.rec /\ Cancelled
    /\ UNCHANGED <<ptt, asr, talk, gate>>

\* The cancellation is checked, the state changes, and the audio goes to the ASR executor.
Transcribe ==
    /\ At("audio")
    /\ IF p0.cancel THEN Cancelled /\ UNCHANGED <<ptt, asr>>
       ELSE /\ ptt' = [ptt EXCEPT !.state = "transcribing"]
            /\ asr' = [asr EXCEPT !.queue = Append(@, cap.press)]
            /\ cap' = [cap EXCEPT !.at = "asr", !.vad = "ready"]
            /\ UNCHANGED <<presses, queue>>
    /\ rec' = NoStream
    /\ UNCHANGED <<talk, gate>>

\* future.cancel takes back what no thread has begun; what has begun is waited for no more.
TakenBack == [asr EXCEPT !.queue = RemoveFirst(@, cap.press), !.done = "none"]

NoDeadline == FALSE                                                \* faulty

\* max_asr_seconds may be over at any poll.
DeadlinePasses == TRUE

\* _transcribe_with_timeout: cancelled, then too late, then the future's result.
AwaitTranscript ==
    /\ At("asr")
    /\ \/ p0.cancel /\ Cancelled /\ asr' = TakenBack
       \/ /\ ~p0.cancel /\ DeadlinePasses
          /\ presses' = [Ends(cap.press) EXCEPT ![cap.press].cancel = TRUE]
          /\ queue' = Complained /\ Go("clear")
          /\ asr' = TakenBack
       \/ /\ ~p0.cancel
          /\ asr.done # "none"
          /\ IF asr.done \in Phrases
             THEN cap' = [cap EXCEPT !.at = "words", !.words = asr.done] /\ UNCHANGED <<presses, queue>>
             ELSE Failed
          /\ asr' = [asr EXCEPT !.done = "none"]
    /\ UNCHANGED <<rec, ptt, talk, gate>>

NoSinkGoesOn == presses' = Ends(cap.press) /\ queue' = Complained /\ Go("sink")   \* faulty

\* The host has given the sink back.
NoSink == Failed

\* The last look at the cancellation, then at the sink.
HandOver ==
    /\ At("words")
    /\ IF p0.cancel THEN Cancelled
       ELSE IF ~gate.sink THEN NoSink ELSE Go("sink") /\ UNCHANGED <<presses, queue>>
    /\ UNCHANGED <<rec, ptt, asr, talk, gate>>

ClearPtt ==
    /\ At("clear")
    /\ ptt' = Idle /\ cap' = Resting /\ rec' = NoStream
    /\ presses' = [presses EXCEPT ![cap.press].stop = FALSE, ![cap.press].cancel = FALSE]
    /\ UNCHANGED <<asr, queue, talk, gate>>

-----------------------------------------------------------------------------
(* The ASR thread                                                          *)

AsrTakes ==
    /\ asr.running = 0 /\ asr.queue # <<>>
    /\ asr' = [asr EXCEPT !.running = Head(asr.queue), !.queue = Tail(@)]
    /\ UNCHANGED <<rec, ptt, presses, cap, queue, talk, gate>>

\* The future an answer belongs to may have been given up.
Answers(r) == IF asr.running = cap.press /\ At("asr") THEN r ELSE asr.done

\* The provider answers: words, no transcript, an error, or that it saw the cancellation.
AsrAnswers ==
    /\ asr.running # 0
    /\ \E r \in Phrases \cup {"silence"} : asr' = [asr EXCEPT !.running = 0, !.done = Answers(r)]
    /\ UNCHANGED <<rec, ptt, presses, cap, queue, talk, gate>>

-----------------------------------------------------------------------------
(* The playback thread                                                     *)

SpeakAnyTime == TRUE                                               \* faulty

MaySpeak == ptt.state = "idle"

TakeLine ==
    /\ talk.at = "idle" /\ ~gate.closed /\ queue > 0 /\ MaySpeak
    /\ talk' = [at |-> "synthesize", cancel |-> FALSE]
    /\ queue' = queue - 1
    /\ UNCHANGED <<rec, ptt, presses, cap, asr, gate>>

\* synthesize, which looks at the cancellation, and may fail.
Synthesize ==
    /\ talk.at = "synthesize"
    /\ \/ talk' = Quiet
       \/ ~talk.cancel /\ talk' = [talk EXCEPT !.at = "play"]
    /\ UNCHANGED <<rec, ptt, presses, cap, asr, queue, gate>>

Play ==
    /\ talk.at = "play"
    /\ PlayTurn(talk.cancel) \ {"again"} # {}
    /\ talk' = Quiet
    /\ UNCHANGED <<rec, ptt, presses, cap, asr, queue, gate>>

-----------------------------------------------------------------------------
(* close                                                                   *)

CloseCancels == [p \in Press |-> IF p = ptt.press THEN [presses[p] EXCEPT !.cancel = TRUE, !.stop = TRUE]
                                 ELSE presses[p]]

CloseGateway ==
    /\ ~gate.closed
    /\ gate' = [gate EXCEPT !.closed = TRUE, !.sink = FALSE]
    /\ presses' = CloseCancels
    /\ talk' = [talk EXCEPT !.cancel = @ \/ talk.at # "idle"]
    /\ queue' = 0
    /\ UNCHANGED <<rec, ptt, cap, asr>>

\* close returns: the capture and the playback threads are done. The ASR thread is not waited for.
CloseReturns == gate.closed /\ cap.at = "idle" /\ talk.at = "idle"

CaptureNext  == OpenStream \/ ReadStream \/ Transcribe \/ AwaitTranscript \/ HandOver
PlaybackNext == TakeLine \/ Synthesize \/ Play
gatewayVars  == <<rec, ptt, presses, cap, asr, queue, talk, gate>>
=============================================================================
