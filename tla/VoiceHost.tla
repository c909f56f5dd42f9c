----------------------------- MODULE VoiceHost ------------------------------
(***************************************************************************)
(* The voice host, bridge/deskhelm_voice_host: policy.py (VoiceHost) and   *)
(* __main__.py, between the key, the gateway and the console of the        *)
(* Bridge.                                                                 *)
(*                                                                         *)
(* The key thread presses and releases, the client's thread brings console *)
(* changes and speaks notices, the capture thread calls _transcript, and   *)
(* the main thread closes. The console is the client's copy, which changes *)
(* at any time; a command is accepted, refused, or raises.                 *)
(***************************************************************************)
EXTENDS VoiceGateway

CONSTANTS
    Approvals,  \* approvals that may open, each once: the Bridge uses no id again
    MaxEvents   \* bound: console changes and cancelled presses

ASSUME HostAssumption == None \notin Approvals /\ MaxEvents \in Nat

VARIABLES
    console,    \* focus, the answerable approvals of each session, and all that ever opened
    keys,       \* the key thread
    chosen,     \* the approval an utterance decides
    main,       \* the main thread
    spoken,     \* history: the session in focus when the key of a press went down
    sent,       \* history: the command sent for the press
    spent       \* the bound so far

vars == <<gatewayVars, console, keys, chosen, main, spoken, sent, spent>>

Command == [session : Sessions, approval : Approvals \cup {None}]

\* The utterance, the approval and the threads' places are of their types.
TypeOK ==
    /\ GatewayTypeOK
    /\ console.focus \in Sessions \cup {None} /\ console.open \in [Sessions -> SUBSET Approvals]
    /\ UNION Range(console.open) \subseteq console.opened /\ console.opened \subseteq Approvals
    /\ keys.at \in {"up", "reading", "emitting"} /\ keys.capture \in 0..MaxPresses
    /\ chosen \in Approvals \cup {None}
    /\ main \in {"running", "host_closed", "closing", "ended"}
    /\ sent \subseteq Command

Init ==
    /\ GatewayInit
    /\ \E s \in Sessions, open \in SUBSET Approvals :
         console = [focus |-> s, open |-> [t \in Sessions |-> IF t = s THEN open ELSE {}],
                     opened |-> open]
    /\ keys = [at |-> "up", target |-> None, capture |-> 0]
    /\ chosen = None
    /\ main = "running"
    /\ spoken = <<>> /\ sent = {}
    /\ spent = 0

hostVars == <<console, keys, chosen, main, spoken, sent, spent>>

-----------------------------------------------------------------------------
(* The console, and its notices                                            *)

Changed(c, notice) ==
    /\ main = "running"                 \* the client is closed first
    /\ spent < MaxEvents
    /\ spent' = spent + 1
    /\ console' = c
    /\ queue' = IF notice THEN Queued ELSE queue
    /\ UNCHANGED <<rec, ptt, presses, cap, asr, talk, gate, keys, chosen, main, spoken, sent>>

FocusMoves == \E s \in Sessions \cup {None} :
    s # console.focus /\ Changed([console EXCEPT !.focus = s], FALSE)

\* on_console: an approval is announced when it is the session's first.
ApprovalOpens == \E s \in Sessions, a \in Approvals \ console.opened :
    Changed([console EXCEPT !.open[s] = @ \cup {a}, !.opened = @ \cup {a}],
            console.open[s] = {})

ApprovalGone == \E s \in Sessions : \E a \in console.open[s] :
    Changed([console EXCEPT !.open[s] = @ \ {a}], FALSE)

-----------------------------------------------------------------------------
(* The key thread                                                          *)

\* press, up to the read of the console.
KeyDown ==
    /\ keys.at = "up" /\ main # "ended" /\ Len(presses) < MaxPresses
    /\ IF console.focus = None
       THEN queue' = Queued /\ queue' # queue /\ UNCHANGED <<keys, spoken>>
       ELSE /\ keys' = [keys EXCEPT !.at = "reading", !.target = console.focus]
            /\ spoken' = [p \in 1..(Len(presses) + 1) |->
                            IF p \in DOMAIN presses THEN spoken[p] ELSE console.focus]
            /\ UNCHANGED queue
    /\ UNCHANGED <<rec, ptt, presses, cap, asr, talk, gate, console, chosen, main, sent, spent>>

\* press_ptt, which raises when it cannot.
KeyPresses ==
    /\ keys.at = "reading"
    /\ IF CanPress THEN PressPtt(keys.target) /\ keys' = [keys EXCEPT !.at = "emitting", !.target = None]
       ELSE keys' = [keys EXCEPT !.at = "up", !.target = None] /\ UNCHANGED <<ptt, presses, cap, talk>>
    /\ UNCHANGED <<rec, asr, queue, gate, console, chosen, main, spoken, sent, spent>>

KeyPressed ==
    /\ keys.at = "emitting"
    /\ Begun
    /\ keys' = [keys EXCEPT !.at = "up", !.capture = Len(presses)]
    /\ UNCHANGED <<rec, ptt, presses, asr, queue, talk, gate, console, chosen, main, spoken, sent, spent>>

KeyUp ==
    /\ keys.at = "up" /\ keys.capture # 0
    /\ ReleasePtt(keys.capture)
    /\ keys' = [keys EXCEPT !.capture = 0]
    /\ UNCHANGED <<rec, ptt, cap, asr, queue, talk, gate, console, chosen, main, spoken, sent, spent>>

-----------------------------------------------------------------------------
(* _transcript, in the capture thread                                      *)

Handled(q) == presses' = Ends(cap.press) /\ queue' = q /\ Go("clear")

Said == Queued

KeyOfFocus == IF console.focus = None THEN p0.target ELSE console.focus   \* faulty

\* The session a transcript is for: the press's, whatever is in focus by now.
KeyOf == p0.target

\* The approvals a phrase may decide: a session's only one.
Single(open) == IF Cardinality(open) = 1 THEN open ELSE {}

Decide ==
    /\ At("sink")
    /\ \/ cap.words = "discard" /\ Handled(Said) /\ UNCHANGED chosen
       \/ cap.words = "prompt" /\ Go("send") /\ UNCHANGED <<presses, queue, chosen>>
       \/ /\ cap.words = "approval"
          /\ LET open == console.open[KeyOf] IN
             \/ Single(open) = {} /\ Handled(Said) /\ UNCHANGED chosen
             \/ \E a \in Single(open) : chosen' = a /\ Go("send") /\ UNCHANGED <<presses, queue>>
    /\ UNCHANGED <<rec, ptt, asr, talk, gate, console, keys, main, spoken, sent, spent>>

\* The command goes out and is answered; after client.close it is refused unsent.
SendCommand ==
    /\ At("send")
    /\ sent' = IF main = "running"
               THEN {[session |-> KeyOf, approval |-> chosen]}
               ELSE sent
    /\ \/ main = "running" /\ Handled(queue)
       \/ Handled(Said)
       \/ Failed                                             \* it raised
    /\ chosen' = None
    /\ UNCHANGED <<rec, ptt, asr, talk, gate, console, keys, main, spoken, spent>>

\* The press is over.
Clear ==
    /\ ClearPtt
    /\ sent' = {}
    /\ UNCHANGED <<console, keys, chosen, main, spoken, spent>>

-----------------------------------------------------------------------------
(* The main thread, and other callers of the gateway                       *)

\* client.close, then VoiceHost.close: the sink and the events are given back.
CloseHost ==
    /\ main = "running" /\ main' = "host_closed"
    /\ gate' = [gate EXCEPT !.sink = FALSE, !.events = FALSE]
    /\ UNCHANGED <<rec, ptt, presses, cap, asr, queue, talk, console, keys, chosen, spoken, sent, spent>>

Close ==
    /\ main = "host_closed" /\ CloseGateway /\ main' = "closing"
    /\ UNCHANGED <<console, keys, chosen, spoken, sent, spent>>

End ==
    /\ main = "closing" /\ CloseReturns /\ main' = "ended"
    /\ UNCHANGED <<gatewayVars, console, keys, chosen, spoken, sent, spent>>

Cancel ==
    /\ main = "running" /\ spent < MaxEvents
    /\ CancelPtt
    /\ spent' = spent + 1
    /\ UNCHANGED <<console, keys, chosen, main, spoken, sent>>

-----------------------------------------------------------------------------

Environment ==
    \/ FocusMoves \/ ApprovalOpens \/ ApprovalGone
    \/ Cancel
    \/ KeyDown \/ KeyUp
    \/ CloseHost
    \/ (RecorderWrites \/ RecorderExits)
       /\ UNCHANGED <<ptt, presses, cap, asr, queue, talk, gate, hostVars>>
    \/ AsrAnswers /\ UNCHANGED hostVars

Workers ==
    \/ (CaptureNext \/ PlaybackNext \/ AsrTakes) /\ UNCHANGED hostVars
    \/ Clear
    \/ KeyPressed \/ Decide \/ SendCommand

Main == Close \/ End

Next == Environment \/ KeyPresses \/ Workers \/ Main

Spec == Init /\ [][Next]_vars

\* The workers run as long as one can, and the main thread closes: while a key is held or close
\* waits, no worker has endless work. Nobody has to release the key, no process has to end by
\* itself, and the recogniser need never answer; synthesis and the Bridge's command return.
FairSpec == Spec /\ WF_vars(Workers) /\ WF_vars(Main)

-----------------------------------------------------------------------------
(* Properties                                                              *)

\* Each press ends with one event or one handled utterance, once, before the next begins: an
\* utterance that timed out or was cancelled is not heard of again.
OneOutcome == \A p \in Press : presses[p].ended = IF p = cap.press /\ cap.at # "clear" THEN 0 ELSE 1

\* What is sent for a press goes to the session that was in focus when its key went down, and an
\* approval that is decided is none of another session's.
Addressed == \A c \in sent :
    /\ c.session = spoken[cap.press]
    /\ \A s \in Sessions \ {c.session} : c.approval \notin console.open[s]

\* While the user speaks, the line being spoken is being stopped, and the utterance
\* that goes to the recogniser is all the recorder wrote.
Hushed ==
    /\ ptt.state # "idle" /\ talk.at # "idle" => talk.cancel
    /\ At("audio") => rec.unread = 0 /\ cap.vad # "speech"

\* A recogniser that never answers, a key never released and a recorder that hangs end no
\* press-to-talk: it comes back to idle, and close returns.
ComesBack ==
    /\ (ptt.state # "idle") ~> (ptt.state = "idle")
    /\ (main = "closing") ~> (main = "ended")

\* Within its bounded queue and its single recogniser, every press is heard of once.
Answered == TypeOK /\ OneOutcome
=============================================================================
