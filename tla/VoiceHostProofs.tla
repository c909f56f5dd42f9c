-------------------------- MODULE VoiceHostProofs --------------------------
(***************************************************************************)
(* What TLAPS proves of press-to-talk, for any sessions, approvals and     *)
(* bounds: every press ends once, what is sent for it goes to the session  *)
(* it was spoken to, and no line is spoken into an open microphone.        *)
(***************************************************************************)
EXTENDS VoiceHost, SequenceTheorems, WellFoundedInduction, TLAPS

-----------------------------------------------------------------------------
(* The inductive invariant.                                                *)

Places    == {"idle", "begin", "open", "read", "audio", "asr", "words", "sink", "send", "clear"}
Working   == Places \ {"idle", "clear"}
Vad       == {"ready", "quiet", "speech", "failed"}
Utterance == [target : Sessions, stop : BOOLEAN, cancel : BOOLEAN, ended : Nat]
Recorder  == [proc : {"none", "up", "term", "exited"}, clean : BOOLEAN, unread : 0..MaxBlocks,
              taken : 0..MaxBlocks, stopping : BOOLEAN, finished : BOOLEAN]

GatewayShape ==
    /\ rec \in Recorder /\ rec.unread + rec.taken <= MaxBlocks
    /\ ptt \in [state : {"idle", "capturing", "transcribing"}, press : 0..MaxPresses]
    /\ presses \in Seq(Utterance) /\ Len(presses) <= MaxPresses
    /\ cap \in [at : Places, press : 0..MaxPresses, vad : Vad, words : Phrases \cup {"none"}]
    /\ asr \in [running : 0..MaxPresses, queue : Seq(1..MaxPresses), done : Phrases \cup {"none", "silence"}]
    /\ queue \in 0..MaxSpeech
    /\ talk \in [at : {"idle", "synthesize", "play"}, cancel : BOOLEAN]
    /\ gate \in [closed : BOOLEAN, sink : BOOLEAN, events : BOOLEAN]

HostShape ==
    /\ console \in [focus : Sessions \cup {None}, open : [Sessions -> SUBSET Approvals],
                    opened : SUBSET Approvals]
    /\ keys \in [at : {"up", "reading", "emitting"}, target : Sessions \cup {None}, capture : 0..MaxPresses]
    /\ chosen \in Approvals \cup {None}
    /\ main \in {"running", "host_closed", "closing", "ended"}
    /\ sent \subseteq Command

\* The capture thread is at the last press, which has not ended until it clears it.
Turns ==
    /\ cap.press = ptt.press /\ (ptt.state = "idle") = (ptt.press = 0)
    /\ (cap.at = "idle") = (cap.press = 0) /\ cap.press <= Len(presses)
    /\ OneOutcome

\* A stream that is finished has been read to its end, and so has an utterance.
Recorded ==
    /\ At("read") /\ rec.finished => rec.unread = 0 /\ rec.proc = "exited"
    /\ At("audio") => rec.unread = 0 /\ rec.proc = "exited" /\ cap.vad # "speech"

Stilled == ptt.state # "idle" /\ talk.at # "idle" => talk.cancel

\* A press carries the session that was in focus.
Aimed ==
    /\ keys.at = "reading" => /\ keys.target \in Sessions /\ Len(presses) < MaxPresses
                              /\ spoken[Len(presses) + 1] = keys.target
    /\ \A p \in Press : spoken[p] = presses[p].target

\* An approval is one session's.
Apart ==
    /\ \A s \in Sessions : console.open[s] \subseteq console.opened
    /\ \A s, t \in Sessions : s # t => console.open[s] \cap console.open[t] = {}

\* It opened, and no other session holds it.
Owned(a, s) == a # None => /\ a \in console.opened
                           /\ \A t \in Sessions \ {s} : a \notin console.open[t]

\* What a transcript decides belongs to the session it was spoken to.
Directed ==
    /\ chosen # None => At("send") /\ Owned(chosen, p0.target)
    /\ sent # {} => At("clear")
    /\ \A c \in sent : c.session = p0.target /\ Owned(c.approval, c.session)

IInv == GatewayShape /\ HostShape /\ Turns /\ Recorded /\ Stilled /\ Aimed /\ Apart /\ Directed

LEMMA Bounds ==
    /\ MaxPresses \in Nat \ {0} /\ MaxSpeech \in Nat \ {0} /\ MaxBlocks \in Nat \ {0}
    /\ None \notin Sessions /\ None \notin Approvals
  BY GatewayAssumption, BlocksAssumption, HostAssumption
     DEF GatewayAssumption, BlocksAssumption, HostAssumption

-----------------------------------------------------------------------------
(* What a step makes of the presses.                                       *)

SameTargets == /\ presses' \in Seq(Utterance) /\ Len(presses') = Len(presses)
               /\ \A p \in Press : presses'[p].target = presses[p].target

\* At most flags are set.
Marks == SameTargets /\ \A p \in Press : presses'[p].ended = presses[p].ended

\* The press in hand ends.
Finishes == /\ SameTargets
            /\ presses'[cap.press].ended = presses[cap.press].ended + 1
            /\ \A p \in Press \ {cap.press} : presses'[p].ended = presses[p].ended
            /\ cap'.at = "clear" /\ cap'.press = cap.press

LEMMA Amended ==
    ASSUME NEW s \in Seq(Utterance), NEW p \in 1..Len(s), NEW u \in Utterance, NEW q, q = [s EXCEPT ![p] = u]
    PROVE  /\ q \in Seq(Utterance) /\ Len(q) = Len(s) /\ q[p] = u
           /\ \A r \in 1..Len(s) : r # p => q[r] = s[r]
  OBVIOUS

\* A press that only has flags changed.
LEMMA FlagsSet ==
    ASSUME NEW u \in Utterance, NEW v, NEW a \in BOOLEAN, NEW b \in BOOLEAN,
           v = [u EXCEPT !.stop = a, !.cancel = b]
    PROVE  v \in Utterance /\ v.target = u.target /\ v.ended = u.ended
  BY DEF Utterance

LEMMA OneMarked ==
    ASSUME GatewayShape, NEW p \in Press, NEW u \in Utterance,
           u.target = presses[p].target, u.ended = presses[p].ended, presses' = [presses EXCEPT ![p] = u]
    PROVE  Marks
<1>1. presses \in Seq(Utterance) /\ p \in 1..Len(presses)
  BY DEF GatewayShape, Press
<1>2. /\ presses' \in Seq(Utterance) /\ Len(presses') = Len(presses) /\ presses'[p] = u
      /\ \A r \in 1..Len(presses) : r # p => presses'[r] = presses[r]
  BY <1>1, Amended
<1> QED
  BY <1>2 DEF Marks, SameTargets, Press

LEMMA PressesStay ==
    ASSUME GatewayShape, presses' = presses
    PROVE  Marks
  BY DEF GatewayShape, Marks, SameTargets

\* The press in hand is one, and its utterance is of its type.
LEMMA InHand ==
    ASSUME GatewayShape, Turns, cap.at # "idle"
    PROVE  cap.press \in Press /\ p0 \in Utterance /\ p0.stop \in BOOLEAN /\ p0.cancel \in BOOLEAN
           /\ p0.target \in Sessions
<1>1. cap.press \in Press
  BY DEF GatewayShape, Turns, Press
<1>2. presses[cap.press] \in Utterance
  BY <1>1 DEF GatewayShape, Press
<1> QED
  BY <1>1, <1>2 DEF Utterance, p0

\* The press ends; c: it is cancelled too.
LEMMA Ended ==
    ASSUME GatewayShape, Turns, cap.at \in Working,
           Go("clear"), presses' = Ends(cap.press) \/ presses' = [Ends(cap.press) EXCEPT ![cap.press].cancel = TRUE]
    PROVE  /\ Finishes
           /\ cap' \in [at : Places, press : 0..MaxPresses, vad : Vad, words : Phrases \cup {"none"}]
<1>1. cap.press \in Press /\ presses[cap.press] \in Utterance
  BY InHand DEF Working, p0
<1>2. /\ cap' = [cap EXCEPT !.at = "clear"] /\ cap'.at = "clear" /\ cap'.press = cap.press
      /\ cap' \in [at : Places, press : 0..MaxPresses, vad : Vad, words : Phrases \cup {"none"}]
  BY DEF GatewayShape, Go, Places
<1>3. PICK u \in Utterance : /\ u.target = presses[cap.press].target /\ u.ended = presses[cap.press].ended + 1
                             /\ presses' = [presses EXCEPT ![cap.press] = u]
  <2> DEFINE v == [presses[cap.press] EXCEPT !.ended = @ + 1]
             w == [v EXCEPT !.cancel = TRUE]
  <2>1. /\ v \in Utterance /\ v.target = presses[cap.press].target /\ v.ended = presses[cap.press].ended + 1
        /\ w \in Utterance /\ w.target = presses[cap.press].target /\ w.ended = presses[cap.press].ended + 1
    <3>1. v \in Utterance /\ v.target = presses[cap.press].target /\ v.ended = presses[cap.press].ended + 1
      BY <1>1 DEF Utterance
    <3> HIDE DEF v
    <3>2. w \in Utterance /\ w.target = v.target /\ w.ended = v.ended
      BY <3>1 DEF Utterance
    <3> QED
      BY <3>1, <3>2
  <2>2. Ends(cap.press) = [presses EXCEPT ![cap.press] = v]
    BY DEF Ends
  <2>3. CASE presses' = Ends(cap.press)
    BY <2>1, <2>2, <2>3
  <2>4. CASE presses' = [Ends(cap.press) EXCEPT ![cap.press].cancel = TRUE]
    <3> HIDE DEF v
    <3>1. presses \in Seq(Utterance) /\ cap.press \in DOMAIN presses
      BY <1>1 DEF GatewayShape, Press
    <3>2. presses' = [presses EXCEPT ![cap.press] = w]
      BY <2>2, <2>4, <3>1
    <3> QED
      BY <2>1, <3>2
  <2> QED
    BY <2>3, <2>4
<1>4. /\ presses' \in Seq(Utterance) /\ Len(presses') = Len(presses) /\ presses'[cap.press] = u
      /\ \A r \in 1..Len(presses) : r # cap.press => presses'[r] = presses[r]
  BY <1>1, <1>3, Amended DEF GatewayShape, Press
<1> QED
  BY <1>2, <1>3, <1>4 DEF Finishes, SameTargets, Press

-----------------------------------------------------------------------------
(* What keeps each part of the invariant.                                  *)

LEMMA TurnsGo ==
    ASSUME Turns, Marks, ptt'.press = ptt.press, (ptt'.state = "idle") = (ptt.state = "idle"),
           cap'.press = cap.press, cap'.at = cap.at \/ (cap.at \in Working /\ cap'.at \in Working)
    PROVE  Turns'
<1>1. Press' = Press /\ \A p \in Press : presses'[p].ended = presses[p].ended
  BY DEF Marks, SameTargets, Press
<1>2. (cap'.at = "idle") = (cap.at = "idle") /\ (cap'.at = "clear") = (cap.at = "clear")
  BY DEF Working, Places
<1>3. OneOutcome'
  BY <1>1, <1>2 DEF Turns, OneOutcome
<1> QED
  BY <1>2, <1>3 DEF Turns, Marks, SameTargets

LEMMA TurnsFinish ==
    ASSUME GatewayShape, Turns, Finishes, cap.at \in Working, ptt' = ptt
    PROVE  Turns'
<1>1. Press' = Press /\ cap.press \in Press
  BY InHand DEF Finishes, SameTargets, Press, Working
<1>2. presses[cap.press].ended = 0 /\ cap.at # "idle" /\ cap.at # "clear"
  BY <1>1 DEF Turns, OneOutcome, Working, Places
<1>3. OneOutcome'
  <2>1. ASSUME NEW p \in Press PROVE presses'[p].ended = 1
    <3>1. CASE p = cap.press
      BY <1>2, <3>1 DEF Finishes
    <3>2. CASE p # cap.press
      BY <3>2 DEF Finishes, Turns, OneOutcome
    <3> QED
      BY <3>1, <3>2
  <2> QED
    BY <1>1, <2>1 DEF OneOutcome, Finishes
<1> QED
  BY <1>2, <1>3 DEF Turns, Finishes, SameTargets

LEMMA AimedKept ==
    ASSUME Aimed, SameTargets, spoken' = spoken, keys' = keys \/ keys'.at # "reading"
    PROVE  Aimed'
  BY DEF Aimed, SameTargets, Press

LEMMA DirectedKept ==
    ASSUME GatewayShape, Turns, Directed, SameTargets, UNCHANGED <<cap, chosen, sent>>,
           console'.open = console.open, console'.opened = console.opened
    PROVE  Directed'
<1>1. \A a, s : Owned(a, s)' <=> Owned(a, s)
  BY DEF Owned
<1>2. cap.at # "idle" => p0'.target = p0.target
  BY InHand DEF SameTargets, p0
<1> QED
  BY <1>1, <1>2 DEF Directed, At

\* A step of the capture thread before it hands its words over.
LEMMA CaptureKeeps ==
    ASSUME IInv, UNCHANGED hostVars, cap.at \in Working \ {"send"}, cap'.press = cap.press,
           \/ Finishes /\ ptt' = ptt
           \/ /\ Marks /\ cap'.at \in Working
              /\ ptt'.press = ptt.press /\ (ptt'.state = "idle") = (ptt.state = "idle"),
           GatewayShape', Recorded', Stilled'
    PROVE  IInv'
<1>1. SameTargets /\ UNCHANGED <<console, keys, chosen, main, spoken, sent, spent>>
  BY DEF Finishes, Marks, hostVars
<1>2. Turns'
  BY TurnsGo, TurnsFinish DEF IInv
<1>3. Aimed'
  BY <1>1, AimedKept DEF IInv
<1>4. HostShape' /\ Apart'
  BY <1>1 DEF IInv, HostShape, Apart
<1>5. Directed'
  <2>1. chosen = None /\ sent = {}
    BY DEF IInv, Directed, At, Working, Places
  <2> QED
    BY <1>1, <2>1 DEF Directed
<1> QED
  BY <1>2, <1>3, <1>4, <1>5 DEF IInv

\* A step of anyone else that leaves the capture thread and the transcript alone.
LEMMA AsideKeeps ==
    ASSUME IInv, Marks, UNCHANGED <<cap, ptt, chosen, sent, spoken>>, keys' = keys \/ keys'.at # "reading",
           console' = console, GatewayShape', HostShape', Recorded', Stilled'
    PROVE  IInv'
<1>1. SameTargets
  BY DEF Marks
<1>2. Turns'
  BY TurnsGo DEF IInv
<1>3. Aimed'
  BY <1>1, AimedKept DEF IInv
<1>4. Apart'
  BY DEF IInv, Apart
<1>5. Directed'
  BY <1>1, DirectedKept DEF IInv
<1> QED
  BY <1>2, <1>3, <1>4, <1>5 DEF IInv

-----------------------------------------------------------------------------
(* The recorder's stream.                                                  *)

LEMMA QueuedLine ==
    ASSUME queue \in 0..MaxSpeech
    PROVE  Queued \in 0..MaxSpeech /\ Complained \in 0..MaxSpeech
  BY Bounds DEF Queued, Complained

\* A turn of the loop keeps the blocks, and an end is the end of all the recorder wrote.
LEMMA ReadTurnDoes ==
    ASSUME rec \in Recorder, rec.unread + rec.taken <= MaxBlocks,
           rec.finished => rec.unread = 0 /\ rec.proc = "exited",
           NEW stop \in BOOLEAN, NEW cancel \in BOOLEAN, NEW clock \in Clock,
           NEW turn, turn = ReadTurn(stop, cancel, clock)
    PROVE  /\ turn.rec \in Recorder /\ turn.rec.unread + turn.rec.taken <= MaxBlocks
           /\ turn.rec.finished => turn.rec.unread = 0 /\ turn.rec.proc = "exited"
           /\ turn.gets = "end" => turn.rec.unread = 0 /\ turn.rec.proc = "exited"
<1> DEFINE Right(t) ==
      /\ t.rec \in Recorder /\ t.rec.unread + t.rec.taken <= MaxBlocks
      /\ t.rec.finished => t.rec.unread = 0 /\ t.rec.proc = "exited"
      /\ t.gets = "end" => t.rec.unread = 0 /\ t.rec.proc = "exited"
<1>0. MaxBlocks \in Nat
  BY Bounds
<1>1. CASE rec.finished
  <2>1. turn = [rec |-> rec, gets |-> "end"]
    BY <1>1 DEF ReadTurn, Turn
  <2> QED
    BY <1>1, <2>1
<1>2. CASE ~rec.finished /\ (cancel \/ clock = "late")
  <2>1. turn.rec = [rec EXCEPT !.proc = "exited"] /\ turn.gets # "end"
    BY <1>2 DEF ReadTurn, Turn, Terminated
  <2> QED
    BY <1>2, <2>1 DEF Recorder
<1>3. CASE ~rec.finished /\ ~cancel /\ clock # "late"
  <2> DEFINE r == StopRequested(rec, stop, clock = "grace")
  <2>1. /\ r \in Recorder /\ r.unread = rec.unread /\ r.taken = rec.taken /\ ~r.finished
    <3>1. CASE stop /\ ~rec.stopping
      <4>1. r = [rec EXCEPT !.stopping = TRUE, !.proc = IF rec.proc = "up" THEN "term" ELSE rec.proc]
        BY <3>1 DEF StopRequested
      <4> QED
        BY <1>3, <4>1 DEF Recorder
    <3>2. CASE r = rec
      BY <1>3, <3>2
    <3>3. CASE r = [rec EXCEPT !.proc = "exited", !.clean = FALSE]
      BY <1>3, <3>3 DEF Recorder
    <3> QED
      BY <3>1, <3>2, <3>3 DEF StopRequested
  <2>2. /\ r.unread \in 0..MaxBlocks /\ r.taken \in 0..MaxBlocks /\ r.unread + r.taken <= MaxBlocks
    BY <2>1 DEF Recorder
  <2>3. turn = IF r.unread > 0 /\ clock # "missed"
               THEN Turn([r EXCEPT !.taken = @ + r.unread, !.unread = 0], "chunk")
               ELSE IF r.proc = "exited" THEN FinishTurn(r) ELSE Turn(r, "again")
    BY <1>3 DEF ReadTurn
  <2> HIDE DEF r
  <2> DEFINE took == [r EXCEPT !.taken = r.taken + r.unread, !.unread = 0]
  <2>4. /\ took \in Recorder /\ took.unread = 0 /\ took.taken = r.taken + r.unread /\ ~took.finished
        /\ took.proc = r.proc /\ took.unread + took.taken <= MaxBlocks
    <3>1. r.taken + r.unread \in 0..MaxBlocks
      BY <1>0, <2>2
    <3>2. /\ took \in Recorder /\ took.unread = 0 /\ took.taken = r.taken + r.unread
          /\ took.finished = r.finished /\ took.proc = r.proc
      <4>1. PICK n \in 0..MaxBlocks : n = r.taken + r.unread
        BY <3>1
      <4>2. took = [r EXCEPT !.taken = n, !.unread = 0] /\ 0 \in 0..MaxBlocks
        BY <1>0, <4>1
      <4> HIDE DEF took
      <4>3. took \in Recorder /\ took.unread = 0 /\ took.taken = n
            /\ took.finished = r.finished /\ took.proc = r.proc
        BY <2>1, <4>2 DEF Recorder
      <4> QED
        BY <4>1, <4>3
    <3> QED
      BY <1>0, <2>1, <3>1, <3>2
  <2>5. CASE r.unread > 0 /\ clock # "missed"
    <3>1. turn.rec = took /\ turn.gets = "chunk"
      BY <2>3, <2>5 DEF Turn
    <3> HIDE DEF took
    <3> QED
      BY <2>4, <3>1
  <2>6. CASE ~(r.unread > 0 /\ clock # "missed") /\ r.proc = "exited"
    <3>1. turn = FinishTurn(r)
      BY <2>3, <2>6
    <3>2. CASE ~r.clean /\ ~r.stopping
      <4>1. turn.rec = took /\ turn.gets = "failure"
        BY <3>1, <3>2 DEF FinishTurn, Turn
      <4> HIDE DEF took
      <4> QED
        BY <2>4, <4>1
    <3>3. CASE ~(~r.clean /\ ~r.stopping)
      <4>1. turn.rec = [took EXCEPT !.finished = TRUE]
        BY <3>1, <3>3 DEF FinishTurn, Turn
      <4> HIDE DEF took
      <4>2. /\ turn.rec \in Recorder /\ turn.rec.unread = 0 /\ turn.rec.proc = "exited"
            /\ turn.rec.taken = took.taken
        BY <2>4, <2>6, <4>1 DEF Recorder
      <4> QED
        BY <2>4, <4>2
    <3> QED
      BY <3>2, <3>3
  <2>7. CASE ~(r.unread > 0 /\ clock # "missed") /\ r.proc # "exited"
    <3>1. turn.rec = r /\ turn.gets = "again"
      BY <2>3, <2>7 DEF Turn
    <3> QED
      BY <2>1, <2>2, <3>1
  <2> QED
    BY <2>5, <2>6, <2>7
<1> QED
  BY <1>1, <1>2, <1>3

\* What ReadStream may make of a turn.
LEMMA ReadStreamDoes ==
    ASSUME GatewayShape, Turns, Recorded, ReadStream
    PROVE  /\ rec' \in Recorder /\ rec'.unread + rec'.taken <= MaxBlocks
           /\ queue' \in 0..MaxSpeech
           /\ \/ Go("clear") /\ presses' = Ends(cap.press)
              \/ /\ presses' = presses
                 /\ \E v \in Vad : cap' = [cap EXCEPT !.vad = v]
                 /\ rec'.finished => rec'.unread = 0 /\ rec'.proc = "exited"
              \/ /\ presses' = presses
                 /\ \E v \in Vad \ {"speech"} : cap' = [cap EXCEPT !.vad = v, !.at = "audio"]
                 /\ rec'.unread = 0 /\ rec'.proc = "exited"
<1>1. /\ At("read") /\ queue \in 0..MaxSpeech /\ rec \in Recorder /\ rec.unread + rec.taken <= MaxBlocks
      /\ rec.finished => rec.unread = 0 /\ rec.proc = "exited"
      /\ p0.stop \in BOOLEAN /\ p0.cancel \in BOOLEAN /\ cap.vad \in Vad
      /\ cap = [cap EXCEPT !.vad = cap.vad]
  BY InHand DEF ReadStream, GatewayShape, Recorded, At
<1>2. PICK clock \in Clock :
         LET turn == ReadTurn(p0.stop, p0.cancel, clock) IN
         \/ /\ turn.gets = "again" /\ turn.rec # rec
            /\ rec' = turn.rec /\ UNCHANGED <<presses, queue, cap>>
         \/ /\ turn.gets = "chunk"
            /\ rec' = turn.rec
            /\ \E v \in VadAfter(cap.vad) : cap' = [cap EXCEPT !.vad = v]
            /\ UNCHANGED <<presses, queue>>
         \/ turn.gets = "chunk" /\ rec' = Closed /\ Failed
         \/ turn.gets = "end" /\ ~p0.stop /\ rec' = Closed /\ Failed
         \/ /\ turn.gets = "end" /\ p0.stop
            /\ IF turn.rec.taken = 0 THEN rec' = Closed /\ Failed
               ELSE /\ rec' = turn.rec
                    /\ \E v \in VadFinished(cap.vad) : cap' = [cap EXCEPT !.vad = v, !.at = "audio"]
                    /\ UNCHANGED <<presses, queue>>
         \/ turn.gets = "failure" /\ rec' = turn.rec /\ Failed
         \/ turn.gets = "cancelled" /\ rec' = turn.rec /\ Cancelled
  BY DEF ReadStream
<1>3. PICK turn : turn = ReadTurn(p0.stop, p0.cancel, clock)
  OBVIOUS
<1>4. /\ turn.rec \in Recorder /\ turn.rec.unread + turn.rec.taken <= MaxBlocks
      /\ turn.rec.finished => turn.rec.unread = 0 /\ turn.rec.proc = "exited"
      /\ turn.gets = "end" => turn.rec.unread = 0 /\ turn.rec.proc = "exited"
  BY <1>1, <1>3, ReadTurnDoes
<1>5. Closed \in Recorder /\ Closed.unread + Closed.taken <= MaxBlocks
  BY <1>1 DEF Closed, Recorder
<1>6. VadAfter(cap.vad) \subseteq Vad /\ VadFinished(cap.vad) \subseteq Vad \ {"speech"}
  BY <1>1 DEF VadAfter, VadFinished, Vad
<1>7. Queued \in 0..MaxSpeech /\ Complained \in 0..MaxSpeech
  BY <1>1, QueuedLine
<1>8. \/ (rec' = turn.rec \/ rec' = Closed) /\ (Failed \/ Cancelled)
      \/ rec' = turn.rec /\ UNCHANGED <<presses, queue>> /\ \E v \in Vad : cap' = [cap EXCEPT !.vad = v]
      \/ /\ rec' = turn.rec /\ turn.gets = "end" /\ UNCHANGED <<presses, queue>>
         /\ \E v \in VadFinished(cap.vad) : cap' = [cap EXCEPT !.vad = v, !.at = "audio"]
  <2>1. CASE UNCHANGED cap /\ rec' = turn.rec /\ UNCHANGED <<presses, queue>>
    BY <1>1, <2>1
  <2> QED
    BY <1>2, <1>3, <1>6, <2>1
<1>9. CASE (rec' = turn.rec \/ rec' = Closed) /\ (Failed \/ Cancelled)
  BY <1>1, <1>4, <1>5, <1>7, <1>9 DEF Failed, Cancelled
<1>10. CASE rec' = turn.rec /\ UNCHANGED <<presses, queue>> /\ \E v \in Vad : cap' = [cap EXCEPT !.vad = v]
  BY <1>1, <1>4, <1>10
<1>11. CASE /\ rec' = turn.rec /\ turn.gets = "end" /\ UNCHANGED <<presses, queue>>
            /\ \E v \in VadFinished(cap.vad) : cap' = [cap EXCEPT !.vad = v, !.at = "audio"]
  BY <1>1, <1>4, <1>6, <1>11
<1> QED
  BY <1>8, <1>9, <1>10, <1>11

-----------------------------------------------------------------------------
(* The capture thread, up to the words.                                    *)

LEMMA CaptureShape ==
    ASSUME GatewayShape, UNCHANGED <<talk, gate>>,
           rec' \in Recorder, rec'.unread + rec'.taken <= MaxBlocks, queue' \in 0..MaxSpeech,
           ptt' \in [state : {"idle", "capturing", "transcribing"}, press : 0..MaxPresses],
           SameTargets,
           cap' \in [at : Places, press : 0..MaxPresses, vad : Vad, words : Phrases \cup {"none"}],
           asr' \in [running : 0..MaxPresses, queue : Seq(1..MaxPresses), done : Phrases \cup {"none", "silence"}]
    PROVE  GatewayShape'
  BY DEF GatewayShape, SameTargets

\* Where the thread goes next.
LEMMA CapMoves ==
    ASSUME GatewayShape, NEW at \in Places, cap' = [cap EXCEPT !.at = at]
    PROVE  /\ cap' \in [at : Places, press : 0..MaxPresses, vad : Vad, words : Phrases \cup {"none"}]
           /\ cap'.at = at /\ cap'.press = cap.press /\ cap'.vad = cap.vad
  BY DEF GatewayShape

LEMMA OpenStreamKeeps ==
    ASSUME IInv, OpenStream, UNCHANGED hostVars
    PROVE  IInv'
<1>1. /\ cap.at = "open" /\ cap.at \in Working /\ UNCHANGED <<ptt, asr, talk, gate>>
      /\ \/ Go("clear") /\ presses' = Ends(cap.press) /\ rec' = rec /\ queue' \in {queue, Complained}
         \/ Go("read") /\ rec' = Opened /\ presses' = presses /\ queue' = queue
  BY DEF OpenStream, At, Cancelled, Failed, Working, Places
<1>2. /\ GatewayShape /\ Turns /\ Stilled
      /\ queue \in 0..MaxSpeech /\ Complained \in 0..MaxSpeech
      /\ rec \in Recorder /\ rec.unread + rec.taken <= MaxBlocks
      /\ ptt \in [state : {"idle", "capturing", "transcribing"}, press : 0..MaxPresses]
      /\ asr \in [running : 0..MaxPresses, queue : Seq(1..MaxPresses), done : Phrases \cup {"none", "silence"}]
  BY QueuedLine DEF IInv, GatewayShape
<1>3. Stilled'
  BY <1>1, <1>2 DEF Stilled
<1>4. CASE Go("clear") /\ presses' = Ends(cap.press) /\ rec' = rec /\ queue' \in {queue, Complained}
  <2>1. /\ Finishes
        /\ cap' \in [at : Places, press : 0..MaxPresses, vad : Vad, words : Phrases \cup {"none"}]
    BY <1>1, <1>2, <1>4, Ended
  <2>2. GatewayShape'
    BY <1>1, <1>2, <1>4, <2>1, CaptureShape DEF Finishes
  <2>3. Recorded'
    BY <2>1 DEF Recorded, Finishes, At
  <2> QED
    BY <1>1, <1>3, <2>1, <2>2, <2>3, CaptureKeeps DEF Finishes
<1>5. CASE Go("read") /\ rec' = Opened /\ presses' = presses /\ queue' = queue
  <2>1. /\ cap' \in [at : Places, press : 0..MaxPresses, vad : Vad, words : Phrases \cup {"none"}]
        /\ cap'.at = "read" /\ cap'.press = cap.press
    BY <1>2, <1>5, CapMoves DEF Go, Places
  <2>2. Opened \in Recorder /\ Opened.unread + Opened.taken <= MaxBlocks /\ ~Opened.finished
    <3>1. 0 \in 0..MaxBlocks
      BY Bounds
    <3>2. NoStream \in Recorder /\ NoStream.unread = 0 /\ NoStream.taken = 0 /\ NoStream.finished = FALSE
      BY <3>1 DEF NoStream, Recorder
    <3>3. Opened \in Recorder /\ Opened.unread = 0 /\ Opened.taken = 0 /\ Opened.finished = FALSE
      BY <3>2 DEF Opened, Recorder
    <3> QED
      BY <3>1, <3>3, Bounds
  <2>3. Marks
    BY <1>2, <1>5, PressesStay
  <2>4. GatewayShape'
    BY <1>1, <1>2, <1>5, <2>1, <2>2, <2>3, CaptureShape DEF Marks
  <2>5. Recorded'
    BY <1>5, <2>1, <2>2 DEF Recorded, At
  <2>6. cap'.at \in Working
    BY <2>1 DEF Working, Places
  <2> QED
    BY <1>1, <1>3, <2>1, <2>3, <2>4, <2>5, <2>6, CaptureKeeps
<1> QED
  BY <1>1, <1>4, <1>5

LEMMA ReadStreamKeeps ==
    ASSUME IInv, ReadStream, UNCHANGED hostVars
    PROVE  IInv'
<1>1. /\ cap.at = "read" /\ cap.at \in Working /\ UNCHANGED <<ptt, asr, talk, gate>>
      /\ GatewayShape /\ Turns /\ Stilled /\ Recorded
  BY DEF ReadStream, At, Working, Places, IInv
<1>2. /\ rec' \in Recorder /\ rec'.unread + rec'.taken <= MaxBlocks
      /\ queue' \in 0..MaxSpeech
      /\ \/ Go("clear") /\ presses' = Ends(cap.press)
         \/ /\ presses' = presses
            /\ \E v \in Vad : cap' = [cap EXCEPT !.vad = v]
            /\ rec'.finished => rec'.unread = 0 /\ rec'.proc = "exited"
         \/ /\ presses' = presses
            /\ \E v \in Vad \ {"speech"} : cap' = [cap EXCEPT !.vad = v, !.at = "audio"]
            /\ rec'.unread = 0 /\ rec'.proc = "exited"
  BY <1>1, ReadStreamDoes
<1>3. /\ Stilled'
      /\ ptt' \in [state : {"idle", "capturing", "transcribing"}, press : 0..MaxPresses]
      /\ asr' \in [running : 0..MaxPresses, queue : Seq(1..MaxPresses), done : Phrases \cup {"none", "silence"}]
  BY <1>1 DEF Stilled, GatewayShape
<1>4. CASE Go("clear") /\ presses' = Ends(cap.press)
  <2>1. /\ Finishes
        /\ cap' \in [at : Places, press : 0..MaxPresses, vad : Vad, words : Phrases \cup {"none"}]
    BY <1>1, <1>4, Ended
  <2>2. GatewayShape'
    BY <1>1, <1>2, <1>3, <2>1, CaptureShape DEF Finishes
  <2>3. Recorded'
    BY <2>1 DEF Recorded, Finishes, At
  <2> QED
    BY <1>1, <1>3, <2>1, <2>2, <2>3, CaptureKeeps DEF Finishes
<1>5. ASSUME NEW v \in Vad, presses' = presses,
             \/ /\ cap' = [cap EXCEPT !.vad = v]
                /\ rec'.finished => rec'.unread = 0 /\ rec'.proc = "exited"
             \/ /\ cap' = [cap EXCEPT !.vad = v, !.at = "audio"] /\ v # "speech"
                /\ rec'.unread = 0 /\ rec'.proc = "exited"
      PROVE  IInv'
  <2>1. /\ cap' \in [at : Places, press : 0..MaxPresses, vad : Vad, words : Phrases \cup {"none"}]
        /\ cap'.press = cap.press /\ cap'.vad = v
        /\ \/ cap'.at = "read" /\ (rec'.finished => rec'.unread = 0 /\ rec'.proc = "exited")
           \/ cap'.at = "audio" /\ v # "speech" /\ rec'.unread = 0 /\ rec'.proc = "exited"
    BY <1>1, <1>5 DEF GatewayShape, Places
  <2>2. Marks
    BY <1>1, <1>5, PressesStay
  <2>3. GatewayShape'
    BY <1>1, <1>2, <1>3, <2>1, <2>2, CaptureShape DEF Marks
  <2>4. Recorded'
    BY <2>1 DEF Recorded, At
  <2>5. cap'.at \in Working
    BY <2>1 DEF Working, Places
  <2> QED
    BY <1>1, <1>3, <2>1, <2>2, <2>3, <2>4, <2>5, CaptureKeeps
<1> QED
  BY <1>2, <1>4, <1>5

LEMMA Lengthened ==
    ASSUME NEW S, NEW q \in Seq(S), NEW x \in S
    PROVE  Append(q, x) \in Seq(S)
  OBVIOUS

LEMMA Shortened ==
    ASSUME NEW S, NEW q \in Seq(S), q # <<>>
    PROVE  Head(q) \in S /\ Tail(q) \in Seq(S)
  OBVIOUS

LEMMA Least ==
    ASSUME NEW T \in SUBSET Nat, T # {}
    PROVE  \E x \in T : \A y \in T : x <= y
<1> DEFINE R == OpToRel(<, Nat)
<1>1. IsWellFoundedOn(R, Nat)
  BY NatLessThanWellFounded, Zenon
<1>2. \A x, y \in Nat : x < y => <<x, y>> \in R
  BY DEF OpToRel
<1> HIDE DEF R
<1>3. PICK x \in T : \A y \in T : ~ (<<y, x>> \in R)
  BY <1>1, WFMin
<1>4. \A y \in T : ~(y < x)
  BY <1>2, <1>3
<1> QED
  BY <1>4

\* A sequence with an element taken out.
LEMMA RemovedFirst ==
    ASSUME NEW S, NEW s \in Seq(S), NEW e
    PROVE  RemoveFirst(s, e) \in Seq(S)
<1> DEFINE I == {i \in 1..Len(s) : s[i] = e}
<1>1. Len(s) \in Nat /\ \A i \in 1..Len(s) : s[i] \in S
  OBVIOUS
<1>2. CASE I = {}
  BY <1>2 DEF RemoveFirst
<1>3. CASE I # {}
  <2> DEFINE i == Min(I)
  <2>1. I \in SUBSET Nat
    BY <1>1
  <2>2. i \in I
    <3> HIDE DEF I
    <3>1. \E x \in I : \A y \in I : x <= y
      BY <1>3, <2>1, Least
    <3> QED
      BY <3>1 DEF Min
  <2>3. RemoveFirst(s, e) = RemoveAt(s, i)
    BY <1>3 DEF RemoveFirst, SelectInSeq
  <2> HIDE DEF i
  <2>4. SubSeq(s, 1, i - 1) \in Seq(S) /\ SubSeq(s, i + 1, Len(s)) \in Seq(S)
    BY <1>1, <2>2, SubSeqProperties
  <2>5. RemoveAt(s, i) \in Seq(S)
    BY <2>4, ConcatProperties DEF RemoveAt
  <2> QED
    BY <2>3, <2>5
<1> QED
  BY <1>2, <1>3

LEMMA TakenBackDoes ==
    ASSUME GatewayShape
    PROVE  TakenBack \in [running : 0..MaxPresses, queue : Seq(1..MaxPresses), done : Phrases \cup {"none", "silence"}]
<1> DEFINE q == RemoveFirst(asr.queue, cap.press)
<1>1. q \in Seq(1..MaxPresses)
  BY RemovedFirst DEF GatewayShape
<1>2. TakenBack = [asr EXCEPT !.queue = q, !.done = "none"]
  BY DEF TakenBack
<1> HIDE DEF q
<1> QED
  BY <1>1, <1>2 DEF GatewayShape

LEMMA TranscribeKeeps ==
    ASSUME IInv, Transcribe, UNCHANGED hostVars
    PROVE  IInv'
<1>1. /\ cap.at = "audio" /\ cap.at \in Working /\ UNCHANGED <<talk, gate>> /\ rec' = NoStream
      /\ GatewayShape /\ Turns /\ Stilled
      /\ \/ Go("clear") /\ presses' = Ends(cap.press) /\ UNCHANGED <<ptt, asr, queue>>
         \/ /\ ptt' = [ptt EXCEPT !.state = "transcribing"]
            /\ asr' = [asr EXCEPT !.queue = Append(@, cap.press)]
            /\ cap' = [cap EXCEPT !.at = "asr", !.vad = "ready"]
            /\ UNCHANGED <<presses, queue>>
  BY DEF Transcribe, At, Working, Places, IInv, Cancelled
<1>2. /\ NoStream \in Recorder /\ NoStream.unread + NoStream.taken <= MaxBlocks
      /\ queue \in 0..MaxSpeech
      /\ ptt \in [state : {"idle", "capturing", "transcribing"}, press : 0..MaxPresses]
      /\ asr \in [running : 0..MaxPresses, queue : Seq(1..MaxPresses), done : Phrases \cup {"none", "silence"}]
  BY <1>1, Bounds DEF NoStream, Recorder, GatewayShape
<1>3. CASE Go("clear") /\ presses' = Ends(cap.press) /\ UNCHANGED <<ptt, asr, queue>>
  <2>1. /\ Finishes
        /\ cap' \in [at : Places, press : 0..MaxPresses, vad : Vad, words : Phrases \cup {"none"}]
    BY <1>1, <1>3, Ended
  <2>2. GatewayShape'
    BY <1>1, <1>2, <1>3, <2>1, CaptureShape DEF Finishes
  <2>3. Recorded' /\ Stilled'
    BY <1>1, <1>3, <2>1 DEF Recorded, Finishes, At, Stilled
  <2> QED
    BY <1>1, <1>3, <2>1, <2>2, <2>3, CaptureKeeps DEF Finishes
<1>4. CASE /\ ptt' = [ptt EXCEPT !.state = "transcribing"]
           /\ asr' = [asr EXCEPT !.queue = Append(@, cap.press)]
           /\ cap' = [cap EXCEPT !.at = "asr", !.vad = "ready"]
           /\ UNCHANGED <<presses, queue>>
  <2>1. /\ cap' \in [at : Places, press : 0..MaxPresses, vad : Vad, words : Phrases \cup {"none"}]
        /\ cap'.press = cap.press /\ cap'.at = "asr"
    BY <1>1, <1>4 DEF GatewayShape, Places, Vad
  <2>2. /\ ptt' \in [state : {"idle", "capturing", "transcribing"}, press : 0..MaxPresses]
        /\ ptt'.press = ptt.press /\ ptt'.state # "idle"
    BY <1>2, <1>4
  <2>3. cap.press \in Press /\ cap.press # 0 /\ ptt.state # "idle"
    BY <1>1, InHand DEF Turns
  <2>4. asr' \in [running : 0..MaxPresses, queue : Seq(1..MaxPresses), done : Phrases \cup {"none", "silence"}]
    <3>1. cap.press \in 1..MaxPresses
      BY <1>1, <2>3, Bounds DEF Press, GatewayShape
    <3>2. PICK q \in Seq(1..MaxPresses) : q = Append(asr.queue, cap.press)
      <4>1. asr.queue \in Seq(1..MaxPresses)
        BY <1>2
      <4> QED
        BY <3>1, <4>1, Lengthened
    <3> QED
      BY <1>2, <1>4, <3>2
  <2>5. Marks
    BY <1>1, <1>4, PressesStay
  <2>6. GatewayShape'
    BY <1>1, <1>2, <1>4, <2>1, <2>2, <2>4, <2>5, CaptureShape DEF Marks
  <2>7. Recorded' /\ Stilled'
    BY <1>1, <2>1, <2>3 DEF Recorded, At, Stilled
  <2>8. cap'.at \in Working
    BY <2>1 DEF Working, Places
  <2> QED
    BY <1>1, <2>1, <2>2, <2>3, <2>5, <2>6, <2>7, <2>8, CaptureKeeps
<1> QED
  BY <1>1, <1>3, <1>4

LEMMA AwaitTranscriptKeeps ==
    ASSUME IInv, AwaitTranscript, UNCHANGED hostVars
    PROVE  IInv'
<1>1. /\ cap.at = "asr" /\ cap.at \in Working /\ UNCHANGED <<rec, ptt, talk, gate>>
      /\ GatewayShape /\ Turns /\ Stilled
      /\ \/ /\ Go("clear") /\ queue' \in {queue, Complained}
            /\ presses' = Ends(cap.press) \/ presses' = [Ends(cap.press) EXCEPT ![cap.press].cancel = TRUE]
         \/ /\ asr.done \in Phrases /\ cap' = [cap EXCEPT !.at = "words", !.words = asr.done]
            /\ UNCHANGED <<presses, queue>>
      /\ asr' \in {TakenBack, [asr EXCEPT !.done = "none"]}
  BY DEF AwaitTranscript, At, Working, Places, IInv, Cancelled, Failed
<1>2. /\ rec \in Recorder /\ rec.unread + rec.taken <= MaxBlocks
      /\ queue \in 0..MaxSpeech /\ Complained \in 0..MaxSpeech
      /\ ptt \in [state : {"idle", "capturing", "transcribing"}, press : 0..MaxPresses]
  BY <1>1, QueuedLine DEF GatewayShape
<1>3. asr' \in [running : 0..MaxPresses, queue : Seq(1..MaxPresses), done : Phrases \cup {"none", "silence"}]
  <2>1. [asr EXCEPT !.done = "none"]
          \in [running : 0..MaxPresses, queue : Seq(1..MaxPresses), done : Phrases \cup {"none", "silence"}]
    BY <1>1 DEF GatewayShape
  <2> QED
    BY <1>1, <2>1, TakenBackDoes
<1>4. Stilled'
  BY <1>1 DEF Stilled
<1>5. CASE /\ Go("clear") /\ queue' \in {queue, Complained}
           /\ presses' = Ends(cap.press) \/ presses' = [Ends(cap.press) EXCEPT ![cap.press].cancel = TRUE]
  <2>1. /\ Finishes
        /\ cap' \in [at : Places, press : 0..MaxPresses, vad : Vad, words : Phrases \cup {"none"}]
    BY <1>1, <1>5, Ended
  <2>2. GatewayShape'
    BY <1>1, <1>2, <1>3, <1>5, <2>1, CaptureShape DEF Finishes
  <2>3. Recorded'
    BY <2>1 DEF Recorded, Finishes, At
  <2> QED
    BY <1>1, <1>4, <2>1, <2>2, <2>3, CaptureKeeps DEF Finishes
<1>6. CASE /\ asr.done \in Phrases /\ cap' = [cap EXCEPT !.at = "words", !.words = asr.done]
           /\ UNCHANGED <<presses, queue>>
  <2>1. /\ cap' \in [at : Places, press : 0..MaxPresses, vad : Vad, words : Phrases \cup {"none"}]
        /\ cap'.press = cap.press /\ cap'.at = "words"
    BY <1>1, <1>6 DEF GatewayShape, Places
  <2>2. Marks
    BY <1>1, <1>6, PressesStay
  <2>3. GatewayShape'
    BY <1>1, <1>2, <1>3, <1>6, <2>1, <2>2, CaptureShape DEF Marks
  <2>4. Recorded'
    BY <2>1 DEF Recorded, At
  <2>5. cap'.at \in Working
    BY <2>1 DEF Working, Places
  <2> QED
    BY <1>1, <1>4, <2>1, <2>2, <2>3, <2>4, <2>5, CaptureKeeps
<1> QED
  BY <1>1, <1>5, <1>6

LEMMA HandOverKeeps ==
    ASSUME IInv, HandOver, UNCHANGED hostVars
    PROVE  IInv'
<1>1. /\ cap.at = "words" /\ cap.at \in Working /\ UNCHANGED <<rec, ptt, asr, talk, gate>>
      /\ GatewayShape /\ Turns /\ Stilled
      /\ \/ Go("clear") /\ queue' \in {queue, Complained} /\ presses' = Ends(cap.press)
         \/ Go("sink") /\ UNCHANGED <<presses, queue>>
  BY DEF HandOver, At, Working, Places, IInv, Cancelled, Failed, NoSink
<1>2. /\ rec \in Recorder /\ rec.unread + rec.taken <= MaxBlocks
      /\ queue \in 0..MaxSpeech /\ Complained \in 0..MaxSpeech
      /\ ptt \in [state : {"idle", "capturing", "transcribing"}, press : 0..MaxPresses]
      /\ asr \in [running : 0..MaxPresses, queue : Seq(1..MaxPresses), done : Phrases \cup {"none", "silence"}]
  BY <1>1, QueuedLine DEF GatewayShape
<1>3. Stilled'
  BY <1>1 DEF Stilled
<1>4. CASE Go("clear") /\ queue' \in {queue, Complained} /\ presses' = Ends(cap.press)
  <2>1. /\ Finishes
        /\ cap' \in [at : Places, press : 0..MaxPresses, vad : Vad, words : Phrases \cup {"none"}]
    BY <1>1, <1>4, Ended
  <2>2. GatewayShape'
    BY <1>1, <1>2, <1>4, <2>1, CaptureShape DEF Finishes
  <2>3. Recorded'
    BY <2>1 DEF Recorded, Finishes, At
  <2> QED
    BY <1>1, <1>3, <2>1, <2>2, <2>3, CaptureKeeps DEF Finishes
<1>5. CASE Go("sink") /\ UNCHANGED <<presses, queue>>
  <2>1. /\ cap' \in [at : Places, press : 0..MaxPresses, vad : Vad, words : Phrases \cup {"none"}]
        /\ cap'.press = cap.press /\ cap'.at = "sink"
    BY <1>1, <1>5, CapMoves DEF Go, Places
  <2>2. Marks
    BY <1>1, <1>5, PressesStay
  <2>3. GatewayShape'
    BY <1>1, <1>2, <1>5, <2>1, <2>2, CaptureShape DEF Marks
  <2>4. Recorded'
    BY <2>1 DEF Recorded, At
  <2>5. cap'.at \in Working
    BY <2>1 DEF Working, Places
  <2> QED
    BY <1>1, <1>3, <2>1, <2>2, <2>3, <2>4, <2>5, CaptureKeeps
<1> QED
  BY <1>1, <1>4, <1>5

-----------------------------------------------------------------------------
(* The recorder, the recogniser, the playback thread, and calls from       *)
(* outside.                                                                *)

LEMMA RecorderKeeps ==
    ASSUME IInv, RecorderWrites \/ RecorderExits, UNCHANGED <<ptt, presses, cap, asr, queue, talk, gate, hostVars>>
    PROVE  IInv'
<1>1. /\ UNCHANGED <<console, keys, chosen, main, spoken, sent>> /\ rec.proc \in {"up", "term"}
      /\ GatewayShape /\ rec \in Recorder /\ rec.unread + rec.taken <= MaxBlocks
  BY DEF hostVars, RecorderWrites, RecorderExits, IInv, GatewayShape
<1>2. rec' \in Recorder /\ rec'.unread + rec'.taken <= MaxBlocks /\ rec'.finished = rec.finished
  <2>1. CASE RecorderWrites
    <3>1. rec.unread \in 0..MaxBlocks /\ rec.taken \in 0..MaxBlocks /\ MaxBlocks \in Nat
      BY <1>1, Bounds DEF Recorder
    <3>2. rec.unread + 1 \in 0..MaxBlocks /\ rec.unread + 1 + rec.taken <= MaxBlocks
      BY <2>1, <3>1 DEF RecorderWrites
    <3>3. PICK n \in 0..MaxBlocks : n = rec.unread + 1
      BY <3>2
    <3>4. rec' = [rec EXCEPT !.unread = n]
      BY <2>1, <3>3 DEF RecorderWrites
    <3>5. rec' \in Recorder /\ rec'.unread = n /\ rec'.taken = rec.taken /\ rec'.finished = rec.finished
      BY <1>1, <3>4 DEF Recorder
    <3> QED
      BY <3>2, <3>3, <3>5
  <2>2. CASE RecorderExits
    BY <1>1, <2>2 DEF RecorderExits, Recorder
  <2> QED
    BY <2>1, <2>2
<1>3. GatewayShape' /\ HostShape' /\ Stilled'
  BY <1>1, <1>2 DEF IInv, GatewayShape, HostShape, Stilled
<1>4. Recorded'
  BY <1>1, <1>2 DEF IInv, Recorded, At
<1>5. Marks
  BY <1>1, PressesStay
<1> QED
  BY <1>1, <1>3, <1>4, <1>5, AsideKeeps

LEMMA AsrKeeps ==
    ASSUME IInv, AsrTakes \/ AsrAnswers, UNCHANGED hostVars
    PROVE  IInv'
<1>1. /\ UNCHANGED <<console, keys, chosen, main, spoken, sent>> /\ UNCHANGED <<rec, ptt, presses, cap, queue, talk, gate>>
      /\ GatewayShape
      /\ asr \in [running : 0..MaxPresses, queue : Seq(1..MaxPresses), done : Phrases \cup {"none", "silence"}]
  BY DEF hostVars, AsrTakes, AsrAnswers, IInv, GatewayShape
<1>2. asr' \in [running : 0..MaxPresses, queue : Seq(1..MaxPresses), done : Phrases \cup {"none", "silence"}]
  <2>1. CASE AsrTakes
    <3>1. asr.queue \in Seq(1..MaxPresses) /\ asr.queue # <<>>
      BY <1>1, <2>1 DEF AsrTakes
    <3>2. Head(asr.queue) \in 1..MaxPresses /\ Tail(asr.queue) \in Seq(1..MaxPresses)
      BY <3>1, Shortened
    <3>3. PICK p \in 0..MaxPresses, q \in Seq(1..MaxPresses) : p = Head(asr.queue) /\ q = Tail(asr.queue)
      <4>1. Head(asr.queue) \in 0..MaxPresses
        BY <3>2, Bounds
      <4> QED
        BY <3>2, <4>1, Zenon
    <3>4. asr' = [asr EXCEPT !.running = p, !.queue = q]
      BY <2>1, <3>3 DEF AsrTakes
    <3> QED
      BY <1>1, <3>4
  <2>2. CASE AsrAnswers
    <3>1. PICK r \in Phrases \cup {"silence"} : asr' = [asr EXCEPT !.running = 0, !.done = Answers(r)]
      BY <2>2 DEF AsrAnswers
    <3>2. Answers(r) \in Phrases \cup {"none", "silence"} /\ 0 \in 0..MaxPresses
      BY <1>1, Bounds DEF Answers
    <3> QED
      BY <1>1, <3>1, <3>2
  <2> QED
    BY <2>1, <2>2
<1>3. GatewayShape' /\ HostShape' /\ Stilled' /\ Recorded'
  BY <1>1, <1>2 DEF IInv, GatewayShape, HostShape, Stilled, Recorded, At
<1>4. Marks
  BY <1>1, PressesStay
<1> QED
  BY <1>1, <1>3, <1>4, AsideKeeps

LEMMA PlaybackKeeps ==
    ASSUME IInv, PlaybackNext, UNCHANGED hostVars
    PROVE  IInv'
<1>1. /\ UNCHANGED <<console, keys, chosen, main, spoken, sent>> /\ UNCHANGED <<rec, ptt, presses, cap, asr, gate>>
      /\ GatewayShape
  BY DEF hostVars, PlaybackNext, TakeLine, Synthesize, Play, IInv
<1>2. /\ talk \in [at : {"idle", "synthesize", "play"}, cancel : BOOLEAN] /\ queue \in 0..MaxSpeech
      /\ MaxSpeech \in Nat /\ Quiet \in [at : {"idle", "synthesize", "play"}, cancel : BOOLEAN] /\ Quiet.at = "idle"
  BY <1>1, Bounds DEF GatewayShape, Quiet
<1>3. /\ talk' \in [at : {"idle", "synthesize", "play"}, cancel : BOOLEAN] /\ queue' \in 0..MaxSpeech
      /\ Stilled'
  <2>1. CASE TakeLine
    BY <1>1, <1>2, <2>1 DEF TakeLine, MaySpeak, Stilled
  <2>2. CASE Synthesize
    BY <1>1, <1>2, <2>2 DEF Synthesize, Stilled, IInv
  <2>3. CASE Play
    BY <1>1, <1>2, <2>3 DEF Play, Stilled
  <2> QED
    BY <2>1, <2>2, <2>3 DEF PlaybackNext
<1>4. GatewayShape' /\ HostShape' /\ Recorded'
  BY <1>1, <1>3 DEF IInv, GatewayShape, HostShape, Recorded, At
<1>5. Marks
  BY <1>1, PressesStay
<1> QED
  BY <1>1, <1>3, <1>4, <1>5, AsideKeeps

\* Flags are set from outside: a key is released, a press cancelled, the gateway closed.
LEMMA FlagsKept ==
    ASSUME GatewayShape, Turns,
           \/ \E p \in Nat : ReleasePtt(p)
           \/ CancelPtt
           \/ presses' = CloseCancels
    PROVE  Marks
<1>1. ptt.press \in Nat /\ (ptt.press # 0 => ptt.press \in Press) /\ (ptt.state # "idle" => ptt.press # 0)
  BY Bounds DEF GatewayShape, Turns, Press
<1>2. CASE \E p \in Nat : ReleasePtt(p)
  <2>1. PICK p \in Nat : ReleasePtt(p)
    BY <1>2
  <2>2. CASE Released(p) = 0
    BY <2>1, <2>2, PressesStay DEF ReleasePtt
  <2>3. CASE Released(p) # 0
    <3>1. Released(p) = p /\ p = ptt.press /\ p \in Press
      BY <1>1, <2>3 DEF Released
    <3> DEFINE u == [presses[p] EXCEPT !.stop = TRUE]
    <3>2. presses' = [presses EXCEPT ![p] = u]
      BY <2>1, <2>3, <3>1 DEF ReleasePtt
    <3>3. u \in Utterance /\ u.target = presses[p].target /\ u.ended = presses[p].ended
      <4>1. presses[p] \in Utterance
        BY <3>1 DEF GatewayShape, Press
      <4> QED
        BY <4>1 DEF Utterance
    <3> QED
      BY <3>1, <3>2, <3>3, OneMarked
  <2> QED
    BY <2>2, <2>3
<1>3. CASE CancelPtt
  <2> DEFINE p == ptt.press
             u == [presses[p] EXCEPT !.cancel = TRUE, !.stop = TRUE]
  <2>1. p \in Press
    BY <1>1, <1>3 DEF CancelPtt
  <2>2. presses' = [presses EXCEPT ![p] = u]
    BY <1>3, <2>1 DEF CancelPtt, GatewayShape, Press
  <2>3. u \in Utterance /\ u.target = presses[p].target /\ u.ended = presses[p].ended
    <3>1. presses[p] \in Utterance
      BY <2>1 DEF GatewayShape, Press
    <3> QED
      BY <3>1 DEF Utterance
  <2> QED
    BY <2>1, <2>2, <2>3, OneMarked
<1>4. CASE presses' = CloseCancels
  <2>1. \A p \in Press : /\ presses'[p] \in Utterance /\ presses'[p].target = presses[p].target
                         /\ presses'[p].ended = presses[p].ended
    <3> SUFFICES ASSUME NEW p \in Press
                 PROVE  /\ presses'[p] \in Utterance /\ presses'[p].target = presses[p].target
                        /\ presses'[p].ended = presses[p].ended
      OBVIOUS
    <3>1. presses[p] \in Utterance
      BY DEF GatewayShape, Press
    <3>2. presses'[p] = [presses[p] EXCEPT !.cancel = TRUE, !.stop = TRUE] \/ presses'[p] = presses[p]
      BY <1>4 DEF CloseCancels
    <3> QED
      BY <3>1, <3>2 DEF Utterance
  <2>2. presses' \in [1..Len(presses) -> Utterance]
    <3>1. DOMAIN presses' = Press /\ presses' = [p \in Press |-> presses'[p]]
      BY <1>4 DEF CloseCancels
    <3> QED
      BY <2>1, <3>1 DEF Press
  <2>3. presses' \in Seq(Utterance) /\ Len(presses') = Len(presses)
    <3>1. Len(presses) \in Nat
      BY DEF GatewayShape
    <3> QED
      BY <2>2, <3>1
  <2> QED
    BY <2>1, <2>3 DEF Marks, SameTargets
<1> QED
  BY <1>2, <1>3, <1>4

LEMMA OutsideKeeps ==
    ASSUME IInv, KeyUp \/ Cancel \/ CloseHost \/ Close \/ End
    PROVE  IInv'
<1>1. GatewayShape /\ Turns /\ HostShape /\ Recorded /\ Stilled
  BY DEF IInv
<1>2. /\ UNCHANGED <<rec, ptt, cap, asr, console, chosen, sent, spoken>>
      /\ \/ keys' = keys
         \/ keys.at = "up" /\ keys' = [keys EXCEPT !.capture = 0]
      /\ \/ presses' = presses
         \/ ReleasePtt(keys.capture)
         \/ CancelPtt
         \/ presses' = CloseCancels
      /\ \/ talk' = talk
         \/ talk' = [talk EXCEPT !.cancel = talk.cancel \/ talk.at # "idle"]
      /\ queue' \in {queue, 0}
      /\ \/ gate' = gate
         \/ gate' = [gate EXCEPT !.sink = FALSE, !.events = FALSE]
         \/ gate' = [gate EXCEPT !.closed = TRUE, !.sink = FALSE]
      /\ main' \in {main, "host_closed", "closing", "ended"}
  <2>1. CASE KeyUp
    BY <2>1 DEF KeyUp
  <2>2. CASE Cancel
    BY <2>2 DEF Cancel, CancelPtt
  <2>3. CASE CloseHost
    BY <2>3 DEF CloseHost
  <2>4. CASE Close
    BY <2>4 DEF Close, CloseGateway
  <2>5. CASE End
    BY <2>5 DEF End, gatewayVars
  <2> QED
    BY <2>1, <2>2, <2>3, <2>4, <2>5
<1>3. Marks
  <2>1. keys.capture \in Nat
    BY <1>1, Bounds DEF HostShape
  <2> QED
    BY <1>1, <1>2, <2>1, FlagsKept, PressesStay
<1>4. keys' = keys \/ keys'.at # "reading"
  BY <1>1, <1>2 DEF HostShape
<1>5. talk' \in [at : {"idle", "synthesize", "play"}, cancel : BOOLEAN] /\ Stilled'
  BY <1>1, <1>2 DEF GatewayShape, Stilled
<1>6. gate' \in [closed : BOOLEAN, sink : BOOLEAN, events : BOOLEAN] /\ queue' \in 0..MaxSpeech
  <2>1. gate' \in [closed : BOOLEAN, sink : BOOLEAN, events : BOOLEAN]
    BY <1>1, <1>2 DEF GatewayShape
  <2> QED
    BY <1>1, <1>2, <2>1, Bounds DEF GatewayShape
<1>7. GatewayShape'
  BY <1>1, <1>2, <1>3, <1>5, <1>6 DEF GatewayShape, Marks, SameTargets
<1>8. keys' \in [at : {"up", "reading", "emitting"}, target : Sessions \cup {None}, capture : 0..MaxPresses]
  BY <1>1, <1>2, Bounds DEF HostShape
<1>9. HostShape' /\ Recorded'
  BY <1>1, <1>2, <1>8 DEF HostShape, Recorded, At
<1> QED
  BY <1>2, <1>3, <1>4, <1>5, <1>7, <1>9, AsideKeeps

-----------------------------------------------------------------------------
(* The console.                                                            *)

LEMMA ConsoleKeeps ==
    ASSUME IInv, UNCHANGED <<rec, ptt, presses, cap, asr, talk, gate, keys, chosen, main, spoken, sent>>,
           queue' \in 0..MaxSpeech, HostShape', Apart',
           \A a, s : s \in Sessions /\ Owned(a, s) => Owned(a, s)'
    PROVE  IInv'
<1>1. GatewayShape /\ Turns /\ Directed
  BY DEF IInv
<1>2. GatewayShape' /\ Turns' /\ Recorded' /\ Stilled' /\ Aimed'
  BY DEF IInv, GatewayShape, Turns, OneOutcome, Press, Recorded, At, Stilled, Aimed
<1>3. p0' = p0 /\ (cap.at # "idle" => p0.target \in Sessions)
  BY <1>1, InHand DEF p0
<1>4. \A c \in sent : c.session \in Sessions
  BY DEF IInv, HostShape, Command
<1>5. Directed'
  BY <1>1, <1>3, <1>4 DEF Directed, At
<1> QED
  BY <1>2, <1>5 DEF IInv

LEMMA ChangedKeeps ==
    ASSUME IInv, FocusMoves \/ ApprovalOpens \/ ApprovalGone
    PROVE  IInv'
<1>1. /\ UNCHANGED <<rec, ptt, presses, cap, asr, talk, gate, keys, chosen, main, spoken, sent>>
      /\ queue' \in {queue, Queued}
  BY DEF FocusMoves, ApprovalOpens, ApprovalGone, Changed
<1>2. queue' \in 0..MaxSpeech
  BY <1>1, QueuedLine DEF IInv, GatewayShape
<1>3. /\ console \in [focus : Sessions \cup {None}, open : [Sessions -> SUBSET Approvals], opened : SUBSET Approvals]
      /\ Apart
  BY DEF IInv, HostShape
<1>4. CASE FocusMoves
  <2>1. PICK s \in Sessions \cup {None} : console' = [console EXCEPT !.focus = s]
    BY <1>4 DEF FocusMoves, Changed
  <2>2. /\ console' \in [focus : Sessions \cup {None}, open : [Sessions -> SUBSET Approvals], opened : SUBSET Approvals]
        /\ console'.open = console.open /\ console'.opened = console.opened
    BY <1>3, <2>1
  <2> QED
    BY <1>1, <1>2, <1>3, <2>2, ConsoleKeeps DEF HostShape, IInv, Apart, Owned
<1>5. CASE ApprovalOpens
  <2>1. PICK s \in Sessions, a \in Approvals \ console.opened :
               console' = [console EXCEPT !.open[s] = @ \cup {a}, !.opened = @ \cup {a}]
    BY <1>5 DEF ApprovalOpens, Changed
  <2>2. /\ console' \in [focus : Sessions \cup {None}, open : [Sessions -> SUBSET Approvals], opened : SUBSET Approvals]
        /\ console'.opened = console.opened \cup {a}
        /\ console'.open[s] = console.open[s] \cup {a}
        /\ \A t \in Sessions \ {s} : console'.open[t] = console.open[t]
    BY <1>3, <2>1
  <2>3. \A t \in Sessions : a \notin console.open[t]
    BY <1>3 DEF Apart
  <2>4. Apart'
    BY <1>3, <2>2, <2>3 DEF Apart
  <2>5. \A b, t : t \in Sessions /\ Owned(b, t) => Owned(b, t)'
    BY <2>2 DEF Owned
  <2>6. HostShape'
    BY <1>1, <2>2 DEF HostShape, IInv
  <2> QED
    BY <1>1, <1>2, <2>4, <2>5, <2>6, ConsoleKeeps
<1>6. CASE ApprovalGone
  <2>1. PICK s \in Sessions : \E b \in console.open[s] : console' = [console EXCEPT !.open[s] = @ \ {b}]
    BY <1>6 DEF ApprovalGone, Changed
  <2>0. PICK a : console' = [console EXCEPT !.open[s] = @ \ {a}]
    BY <2>1
  <2>2. /\ console' \in [focus : Sessions \cup {None}, open : [Sessions -> SUBSET Approvals], opened : SUBSET Approvals]
        /\ console'.opened = console.opened
        /\ \A t \in Sessions : console'.open[t] \subseteq console.open[t]
    BY <1>3, <2>0
  <2>3. Apart'
    BY <1>3, <2>2 DEF Apart
  <2>4. \A b, t : t \in Sessions /\ Owned(b, t) => Owned(b, t)'
    BY <2>2 DEF Owned
  <2>5. HostShape'
    BY <1>1, <2>2 DEF HostShape, IInv
  <2> QED
    BY <1>1, <1>2, <2>3, <2>4, <2>5, ConsoleKeeps
<1> QED
  BY <1>4, <1>5, <1>6

-----------------------------------------------------------------------------
(* The key.                                                                *)

LEMMA KeyDownKeeps ==
    ASSUME IInv, KeyDown
    PROVE  IInv'
<1>1. /\ UNCHANGED <<rec, ptt, presses, cap, asr, talk, gate, console, chosen, main, sent>>
      /\ keys.at = "up" /\ Len(presses) < MaxPresses
      /\ \/ queue' = Queued /\ UNCHANGED <<keys, spoken>>
         \/ /\ console.focus # None /\ queue' = queue
            /\ keys' = [keys EXCEPT !.at = "reading", !.target = console.focus]
            /\ spoken' = [p \in 1..(Len(presses) + 1) |-> IF p \in DOMAIN presses THEN spoken[p] ELSE console.focus]
  BY DEF KeyDown
<1>2. GatewayShape /\ Turns /\ HostShape /\ Aimed /\ queue' \in 0..MaxSpeech
  BY <1>1, QueuedLine DEF IInv, GatewayShape
<1>3. Marks /\ SameTargets
  BY <1>1, <1>2, PressesStay DEF Marks
<1>4. GatewayShape' /\ Recorded' /\ Stilled'
  BY <1>1, <1>2 DEF IInv, GatewayShape, Recorded, At, Stilled
<1>5. CASE UNCHANGED <<keys, spoken>>
  <2>1. HostShape'
    BY <1>1, <1>5 DEF IInv, HostShape
  <2> QED
    BY <1>1, <1>3, <1>4, <1>5, <2>1, AsideKeeps
<1>6. CASE /\ console.focus # None
           /\ keys' = [keys EXCEPT !.at = "reading", !.target = console.focus]
           /\ spoken' = [p \in 1..(Len(presses) + 1) |-> IF p \in DOMAIN presses THEN spoken[p] ELSE console.focus]
  <2>1. console.focus \in Sessions
    BY <1>2, <1>6 DEF HostShape
  <2>2. /\ keys' \in [at : {"up", "reading", "emitting"}, target : Sessions \cup {None}, capture : 0..MaxPresses]
        /\ keys'.target = console.focus
    BY <1>2, <1>6, <2>1 DEF HostShape
  <2>3. HostShape'
    BY <1>1, <1>2, <2>2 DEF HostShape
  <2>4. Aimed'
    <3>1. Len(presses) \in Nat /\ DOMAIN presses = 1..Len(presses)
      BY <1>2 DEF GatewayShape
    <3>2. spoken'[Len(presses) + 1] = console.focus /\ \A p \in Press : spoken'[p] = spoken[p]
      BY <1>6, <3>1 DEF Press
    <3> QED
      BY <1>1, <1>2, <2>1, <2>2, <3>2 DEF Aimed, Press
  <2>5. Turns' /\ Apart'
    BY <1>1 DEF IInv, Turns, OneOutcome, Press, Apart
  <2>6. Directed'
    BY <1>1, <1>2, <1>3, DirectedKept DEF IInv
  <2> QED
    BY <1>4, <2>3, <2>4, <2>5, <2>6 DEF IInv
<1> QED
  BY <1>1, <1>5, <1>6

LEMMA Pushed ==
    ASSUME NEW S, NEW q \in Seq(S), NEW x \in S, NEW r, r = Append(q, x)
    PROVE  /\ r \in Seq(S) /\ Len(r) = Len(q) + 1 /\ r[Len(q) + 1] = x
           /\ \A i \in 1..Len(q) : r[i] = q[i]
  OBVIOUS

LEMMA KeyPressesKeeps ==
    ASSUME IInv, KeyPresses
    PROVE  IInv'
<1>1. /\ keys.at = "reading" /\ UNCHANGED <<rec, asr, queue, gate, console, chosen, main, spoken, sent>>
      /\ \/ CanPress /\ PressPtt(keys.target) /\ keys' = [keys EXCEPT !.at = "emitting", !.target = None]
         \/ keys' = [keys EXCEPT !.at = "up", !.target = None] /\ UNCHANGED <<ptt, presses, cap, talk>>
  BY DEF KeyPresses
<1>2. GatewayShape /\ Turns /\ HostShape /\ Aimed
  BY DEF IInv
<1>3. /\ keys' \in [at : {"up", "reading", "emitting"}, target : Sessions \cup {None}, capture : 0..MaxPresses]
      /\ keys'.at # "reading"
  BY <1>1, <1>2 DEF HostShape
<1>4. HostShape'
  BY <1>1, <1>2, <1>3 DEF HostShape
<1>5. CASE UNCHANGED <<ptt, presses, cap, talk>>
  <2>1. Marks
    BY <1>2, <1>5, PressesStay
  <2>2. GatewayShape' /\ Recorded' /\ Stilled'
    BY <1>1, <1>5 DEF IInv, GatewayShape, Recorded, At, Stilled
  <2> QED
    BY <1>1, <1>3, <1>4, <1>5, <2>1, <2>2, AsideKeeps
<1>6. CASE CanPress /\ PressPtt(keys.target)
  <2> DEFINE n == Len(presses) + 1
             u == [target |-> keys.target, stop |-> FALSE, cancel |-> FALSE, ended |-> 0]
  <2>1. /\ ptt.state = "idle" /\ talk' = [talk EXCEPT !.cancel = Silenced]
        /\ presses' = Append(presses, u) /\ ptt' = [state |-> "capturing", press |-> n]
        /\ cap' = [Resting EXCEPT !.at = "begin", !.press = n]
    BY <1>6 DEF CanPress, PressPtt
  <2>2. /\ keys.target \in Sessions /\ Len(presses) < MaxPresses /\ spoken[n] = keys.target
    BY <1>1, <1>2 DEF Aimed
  <2>3. ptt.press = 0 /\ cap.press = 0 /\ cap.at = "idle"
    BY <1>2, <2>1 DEF Turns
  <2>4. u \in Utterance /\ u.target = keys.target /\ u.ended = 0
    BY <2>2 DEF Utterance
  <2> HIDE DEF u
  <2>5. /\ presses' \in Seq(Utterance) /\ Len(presses') = n /\ presses'[n] = u
        /\ \A p \in 1..Len(presses) : presses'[p] = presses[p]
    BY <1>2, <2>1, <2>4, Pushed DEF GatewayShape
  <2>6. n \in 1..MaxPresses /\ Len(presses) \in Nat /\ n # 0
    BY <1>2, <2>2, Bounds DEF GatewayShape
  <2>7. Press' = 1..n /\ \A p \in Press' : p = n \/ p \in Press
    BY <2>5, <2>6 DEF Press
  <2>8. /\ cap' = [at |-> "begin", press |-> n, vad |-> "ready", words |-> "none"]
        /\ ptt' = [state |-> "capturing", press |-> n]
    BY <2>1 DEF Resting
  <2>9. talk' \in [at : {"idle", "synthesize", "play"}, cancel : BOOLEAN] /\ Stilled'
    BY <1>2, <2>1 DEF GatewayShape, Silenced, Stilled
  <2> HIDE DEF n
  <2>10. GatewayShape'
    <3>1. /\ cap' \in [at : Places, press : 0..MaxPresses, vad : Vad, words : Phrases \cup {"none"}]
          /\ ptt' \in [state : {"idle", "capturing", "transcribing"}, press : 0..MaxPresses]
      BY <2>6, <2>8 DEF Places, Vad
    <3>2. n <= MaxPresses
      BY <2>6
    <3> QED
      BY <1>1, <1>2, <2>5, <2>9, <3>1, <3>2 DEF GatewayShape
  <2>11. Turns'
    <3>1. ASSUME NEW p \in Press' PROVE presses'[p].ended = IF p = n THEN 0 ELSE 1
      <4>1. CASE p = n
        BY <2>4, <2>5, <4>1
      <4>2. CASE p # n
        <5>1. p \in Press /\ p # 0 /\ presses'[p] = presses[p]
          BY <2>5, <2>7, <4>2 DEF Press
        <5> QED
          BY <1>2, <2>3, <4>2, <5>1 DEF Turns, OneOutcome
      <4> QED
        BY <4>1, <4>2
    <3>2. OneOutcome'
      BY <2>8, <3>1 DEF OneOutcome
    <3> QED
      BY <2>5, <2>6, <2>8, <3>2 DEF Turns
  <2>12. Recorded'
    BY <2>8 DEF Recorded, At
  <2>13. Aimed'
    <3>1. ASSUME NEW p \in Press' PROVE spoken[p] = presses'[p].target
      <4>1. CASE p = n
        BY <2>2, <2>4, <2>5, <4>1
      <4>2. CASE p # n
        BY <1>2, <2>5, <2>7, <4>2 DEF Aimed, Press
      <4> QED
        BY <4>1, <4>2
    <3> QED
      BY <1>1, <1>3, <3>1 DEF Aimed
  <2>14. Apart'
    BY <1>1 DEF IInv, Apart
  <2>15. Directed'
    <3>1. chosen = None /\ sent = {}
      BY <2>3 DEF IInv, Directed, At
    <3> QED
      BY <1>1, <3>1 DEF Directed
  <2> QED
    BY <1>4, <2>9, <2>10, <2>11, <2>12, <2>13, <2>14, <2>15 DEF IInv
<1> QED
  BY <1>1, <1>5, <1>6

LEMMA KeyPressedKeeps ==
    ASSUME IInv, KeyPressed
    PROVE  IInv'
<1>1. /\ keys' = [keys EXCEPT !.at = "up", !.capture = Len(presses)]
      /\ UNCHANGED <<rec, ptt, presses, asr, queue, talk, gate, console, chosen, main, spoken, sent>>
      /\ cap' = [cap EXCEPT !.at = IF cap.at = "begin" THEN "open" ELSE cap.at]
  BY DEF KeyPressed, Begun
<1>2. GatewayShape /\ Turns /\ HostShape /\ Aimed
  BY DEF IInv
<1>3. /\ keys' \in [at : {"up", "reading", "emitting"}, target : Sessions \cup {None}, capture : 0..MaxPresses]
      /\ keys'.at # "reading"
  <2>1. Len(presses) \in 0..MaxPresses
    BY <1>2, Bounds DEF GatewayShape
  <2> QED
    BY <1>1, <1>2, <2>1 DEF HostShape
<1>4. HostShape' /\ Stilled' /\ Apart'
  BY <1>1, <1>3 DEF IInv, HostShape, Stilled, Apart
<1>5. Marks /\ SameTargets
  BY <1>1, <1>2, PressesStay DEF Marks
<1>6. Aimed'
  BY <1>1, <1>2, <1>3, <1>5, AimedKept
<1>7. \/ cap' = cap
      \/ /\ cap.at = "begin" /\ cap'.at = "open" /\ cap'.press = cap.press
         /\ cap' \in [at : Places, press : 0..MaxPresses, vad : Vad, words : Phrases \cup {"none"}]
  BY <1>1, <1>2 DEF GatewayShape, Places
<1>8. GatewayShape'
  BY <1>1, <1>2, <1>7 DEF GatewayShape
<1>9. Turns'
  BY <1>1, <1>2, <1>5, <1>7, TurnsGo DEF Working, Places
<1>10. Recorded'
  BY <1>1, <1>7 DEF IInv, Recorded, At
<1>11. Directed'
  <2>1. CASE cap' = cap
    BY <1>1, <1>2, <1>5, <2>1, DirectedKept DEF IInv
  <2>2. CASE cap.at = "begin"
    BY <1>1, <2>2 DEF IInv, Directed, At
  <2> QED
    BY <1>7, <2>1, <2>2
<1> QED
  BY <1>4, <1>6, <1>8, <1>9, <1>10, <1>11 DEF IInv

-----------------------------------------------------------------------------
(* The transcript.                                                         *)

LEMMA DecideKeeps ==
    ASSUME IInv, Decide
    PROVE  IInv'
<1>1. /\ cap.at = "sink" /\ cap.at \in Working
      /\ UNCHANGED <<rec, ptt, asr, talk, gate, console, keys, main, spoken, sent>>
      /\ \/ Go("clear") /\ presses' = Ends(cap.press) /\ queue' = Queued /\ chosen' = chosen
         \/ Go("send") /\ UNCHANGED <<presses, queue>> /\ chosen' \in {chosen} \cup Single(console.open[p0.target])
  BY DEF Decide, Handled, Said, At, KeyOf, Working, Places
<1>2. GatewayShape /\ Turns /\ HostShape /\ Aimed /\ Apart /\ chosen = None /\ sent = {}
  BY <1>1 DEF IInv, Directed, At
<1>3. /\ rec \in Recorder /\ rec.unread + rec.taken <= MaxBlocks
      /\ queue \in 0..MaxSpeech /\ Queued \in 0..MaxSpeech
      /\ ptt \in [state : {"idle", "capturing", "transcribing"}, press : 0..MaxPresses]
      /\ asr \in [running : 0..MaxPresses, queue : Seq(1..MaxPresses), done : Phrases \cup {"none", "silence"}]
  BY <1>2, QueuedLine DEF GatewayShape
<1>4. Stilled' /\ Apart'
  BY <1>1 DEF IInv, Stilled, Apart
<1>5. p0.target \in Sessions /\ cap.press \in Press
  BY <1>1, <1>2, InHand
<1>6. CASE Go("clear") /\ presses' = Ends(cap.press) /\ queue' = Queued /\ chosen' = chosen
  <2>1. /\ Finishes
        /\ cap' \in [at : Places, press : 0..MaxPresses, vad : Vad, words : Phrases \cup {"none"}]
    BY <1>1, <1>2, <1>6, Ended
  <2>2. GatewayShape'
    BY <1>1, <1>2, <1>3, <1>6, <2>1, CaptureShape DEF Finishes
  <2>3. Recorded' /\ HostShape' /\ Directed'
    BY <1>1, <1>2, <1>6, <2>1 DEF Recorded, Finishes, At, HostShape, Directed
  <2>4. Turns'
    BY <1>1, <1>2, <2>1, TurnsFinish
  <2>5. Aimed'
    BY <1>1, <1>2, <2>1, AimedKept DEF Finishes
  <2> QED
    BY <1>4, <2>2, <2>3, <2>4, <2>5 DEF IInv
<1>7. CASE Go("send") /\ UNCHANGED <<presses, queue>> /\ chosen' \in {chosen} \cup Single(console.open[p0.target])
  <2>1. /\ cap' \in [at : Places, press : 0..MaxPresses, vad : Vad, words : Phrases \cup {"none"}]
        /\ cap'.press = cap.press /\ cap'.at = "send"
    BY <1>2, <1>7, CapMoves DEF Go, Places
  <2>2. Marks /\ SameTargets
    BY <1>2, <1>7, PressesStay DEF Marks
  <2>3. GatewayShape'
    BY <1>1, <1>2, <1>3, <1>7, <2>1, <2>2, CaptureShape
  <2>4. cap'.at \in Working
    BY <2>1 DEF Working, Places
  <2>5. Turns'
    BY <1>1, <1>2, <2>1, <2>2, <2>4, TurnsGo
  <2>6. Aimed'
    BY <1>1, <1>2, <2>2, AimedKept
  <2>7. chosen' = None \/ chosen' \in console.open[p0.target]
    BY <1>2, <1>7 DEF Single
  <2>8. Owned(chosen', p0.target) /\ chosen' \in Approvals \cup {None}
    <3>1. console.open[p0.target] \subseteq Approvals
      BY <1>2, <1>5 DEF HostShape
    <3> QED
      BY <1>2, <1>5, <2>7, <3>1 DEF Owned, Apart
  <2>9. p0' = p0
    BY <1>7, <2>1 DEF p0
  <2>10. Directed'
    BY <1>1, <1>2, <2>1, <2>8, <2>9 DEF Directed, At, Owned
  <2>11. Recorded' /\ HostShape'
    BY <1>1, <1>2, <2>1, <2>8 DEF Recorded, At, HostShape
  <2> QED
    BY <1>4, <2>3, <2>5, <2>6, <2>10, <2>11 DEF IInv
<1> QED
  BY <1>1, <1>6, <1>7

LEMMA SendCommandKeeps ==
    ASSUME IInv, SendCommand
    PROVE  IInv'
<1>1. /\ cap.at = "send" /\ cap.at \in Working
      /\ UNCHANGED <<rec, ptt, asr, talk, gate, console, keys, main, spoken>>
      /\ sent' = {[session |-> p0.target, approval |-> chosen]} \/ sent' = sent
      /\ queue' \in {queue, Queued, Complained} /\ chosen' = None
      /\ Go("clear") /\ presses' = Ends(cap.press)
  BY DEF SendCommand, Handled, Said, Failed, At, KeyOf, Working, Places
<1>2. GatewayShape /\ Turns /\ HostShape /\ Aimed /\ Directed /\ sent = {}
  BY <1>1 DEF IInv, Directed, At
<1>3. /\ rec \in Recorder /\ rec.unread + rec.taken <= MaxBlocks
      /\ queue' \in 0..MaxSpeech
      /\ ptt \in [state : {"idle", "capturing", "transcribing"}, press : 0..MaxPresses]
      /\ asr \in [running : 0..MaxPresses, queue : Seq(1..MaxPresses), done : Phrases \cup {"none", "silence"}]
  BY <1>1, <1>2, QueuedLine DEF GatewayShape
<1>4. Stilled' /\ Apart'
  BY <1>1 DEF IInv, Stilled, Apart
<1>5. p0.target \in Sessions /\ cap.press \in Press
  BY <1>1, <1>2, InHand
<1>6. /\ Finishes
      /\ cap' \in [at : Places, press : 0..MaxPresses, vad : Vad, words : Phrases \cup {"none"}]
  BY <1>1, <1>2, Ended
<1>7. GatewayShape'
  BY <1>1, <1>2, <1>3, <1>6, CaptureShape DEF Finishes
<1>8. Turns' /\ Aimed'
  BY <1>1, <1>2, <1>6, TurnsFinish, AimedKept DEF Finishes
<1>9. Recorded'
  BY <1>6 DEF Recorded, Finishes, At
<1>10. sent' \subseteq Command /\ \A c \in sent' : c.session = p0.target /\ c.approval = chosen
  <2>1. chosen \in Approvals \cup {None}
    BY <1>2 DEF HostShape
  <2> QED
    BY <1>1, <1>2, <1>5, <2>1 DEF Command
<1>11. HostShape'
  BY <1>1, <1>2, <1>10 DEF HostShape
<1>12. Directed'
  <2>1. p0'.target = p0.target /\ cap'.at = "clear"
    BY <1>5, <1>6 DEF Finishes, SameTargets, p0
  <2>2. Owned(chosen, p0.target)
    BY <1>2 DEF Directed, Owned
  <2> QED
    BY <1>1, <1>10, <2>1, <2>2 DEF Directed, At, Owned
<1> QED
  BY <1>4, <1>7, <1>8, <1>9, <1>11, <1>12 DEF IInv

LEMMA ClearKeeps ==
    ASSUME IInv, Clear
    PROVE  IInv'
<1>1. /\ cap.at = "clear" /\ ptt' = Idle /\ cap' = Resting /\ rec' = NoStream /\ sent' = {}
      /\ presses' = [presses EXCEPT ![cap.press].stop = FALSE, ![cap.press].cancel = FALSE]
      /\ UNCHANGED <<asr, queue, talk, gate, console, keys, chosen, main, spoken>>
  BY DEF Clear, ClearPtt, At
<1>2. GatewayShape /\ Turns /\ HostShape /\ Aimed /\ chosen = None
  BY <1>1 DEF IInv, Directed, At
<1>3. cap.press \in Press
  BY <1>1, <1>2, InHand
<1>4. Marks /\ SameTargets
  <2> DEFINE u == [presses[cap.press] EXCEPT !.stop = FALSE, !.cancel = FALSE]
  <2>1. presses' = [presses EXCEPT ![cap.press] = u]
    BY <1>1, <1>2, <1>3 DEF GatewayShape, Press
  <2>2. u \in Utterance /\ u.target = presses[cap.press].target /\ u.ended = presses[cap.press].ended
    <3>1. presses[cap.press] \in Utterance
      BY <1>2, <1>3 DEF GatewayShape, Press
    <3> QED
      BY <3>1 DEF Utterance
  <2> QED
    BY <1>2, <1>3, <2>1, <2>2, OneMarked DEF Marks
<1>5. /\ cap'.at = "idle" /\ cap'.press = 0 /\ ptt'.state = "idle" /\ ptt'.press = 0
      /\ cap' \in [at : Places, press : 0..MaxPresses, vad : Vad, words : Phrases \cup {"none"}]
      /\ ptt' \in [state : {"idle", "capturing", "transcribing"}, press : 0..MaxPresses]
  BY <1>1, Bounds DEF Resting, Idle, Places, Vad
<1>6. NoStream \in Recorder /\ NoStream.unread + NoStream.taken <= MaxBlocks
  BY Bounds DEF NoStream, Recorder
<1>7. GatewayShape'
  <2>1. /\ queue \in 0..MaxSpeech
        /\ asr \in [running : 0..MaxPresses, queue : Seq(1..MaxPresses), done : Phrases \cup {"none", "silence"}]
    BY <1>2 DEF GatewayShape
  <2> QED
    BY <1>1, <1>2, <1>4, <1>5, <1>6, <2>1, CaptureShape
<1>8. HostShape' /\ Apart' /\ Recorded' /\ Stilled'
  BY <1>1, <1>2, <1>5 DEF IInv, HostShape, Apart, Recorded, At, Stilled
<1>9. Turns'
  <2>1. ASSUME NEW p \in Press PROVE presses'[p].ended = 1
    BY <1>1, <1>2, <1>4 DEF Turns, OneOutcome, Marks
  <2>2. Press' = Press /\ 0 \notin Press /\ Len(presses') \in Nat
    BY <1>2, <1>4 DEF SameTargets, Press, GatewayShape
  <2>3. OneOutcome'
    BY <1>5, <2>1, <2>2 DEF OneOutcome
  <2> QED
    BY <1>5, <2>2, <2>3 DEF Turns
<1>10. Aimed'
  BY <1>1, <1>2, <1>4, AimedKept
<1>11. Directed'
  BY <1>1, <1>2 DEF Directed
<1> QED
  BY <1>7, <1>8, <1>9, <1>10, <1>11 DEF IInv

-----------------------------------------------------------------------------
(* The theorems.                                                           *)

LEMMA InvInit == Init => IInv
<1> SUFFICES ASSUME Init PROVE IInv
  OBVIOUS
<1>1. /\ rec = NoStream /\ ptt = Idle /\ presses = <<>> /\ cap = Resting
      /\ asr = [running |-> 0, queue |-> <<>>, done |-> "none"] /\ queue = 0 /\ talk = Quiet
      /\ gate = [closed |-> FALSE, sink |-> TRUE, events |-> TRUE]
      /\ keys = [at |-> "up", target |-> None, capture |-> 0] /\ chosen = None /\ main = "running" /\ sent = {}
  BY DEF Init, GatewayInit
<1>2. PICK s \in Sessions, open \in SUBSET Approvals :
             console = [focus |-> s, open |-> [t \in Sessions |-> IF t = s THEN open ELSE {}], opened |-> open]
  BY DEF Init
<1>3. /\ MaxBlocks \in Nat /\ MaxPresses \in Nat /\ MaxSpeech \in Nat
  BY Bounds
<1>4. Len(presses) = 0 /\ Press = {} /\ presses \in Seq(Utterance) /\ <<>> \in Seq(1..MaxPresses)
  BY <1>1 DEF Press
<1>5. GatewayShape
  <2>1. rec \in Recorder /\ rec.unread + rec.taken <= MaxBlocks
    BY <1>1, <1>3 DEF NoStream, Recorder
  <2>2. /\ ptt \in [state : {"idle", "capturing", "transcribing"}, press : 0..MaxPresses]
        /\ cap \in [at : Places, press : 0..MaxPresses, vad : Vad, words : Phrases \cup {"none"}]
    BY <1>1, <1>3 DEF Idle, Resting, Places, Vad
  <2>3. asr \in [running : 0..MaxPresses, queue : Seq(1..MaxPresses), done : Phrases \cup {"none", "silence"}]
    <3>1. PICK q \in Seq(1..MaxPresses) : q = <<>>
      BY <1>4
    <3> QED
      BY <1>1, <1>3, <3>1
  <2>4. /\ talk \in [at : {"idle", "synthesize", "play"}, cancel : BOOLEAN]
        /\ gate \in [closed : BOOLEAN, sink : BOOLEAN, events : BOOLEAN]
    BY <1>1 DEF Quiet
  <2> QED
    BY <1>1, <1>3, <1>4, <2>1, <2>2, <2>3, <2>4 DEF GatewayShape
<1>6. HostShape
  <2>1. console \in [focus : Sessions \cup {None}, open : [Sessions -> SUBSET Approvals], opened : SUBSET Approvals]
    BY <1>2
  <2>2. keys \in [at : {"up", "reading", "emitting"}, target : Sessions \cup {None}, capture : 0..MaxPresses]
    BY <1>1, <1>3
  <2> QED
    BY <1>1, <2>1, <2>2 DEF HostShape
<1>7. Turns /\ Recorded /\ Stilled
  BY <1>1, <1>4 DEF Turns, OneOutcome, Recorded, Stilled, At, Idle, Resting
<1>8. Aimed
  BY <1>1, <1>4 DEF Aimed
<1>9. Apart
  BY <1>2 DEF Apart
<1>10. Directed
  BY <1>1 DEF Directed
<1> QED
  BY <1>5, <1>6, <1>7, <1>8, <1>9, <1>10 DEF IInv

LEMMA StepKeeps == IInv /\ [Next]_vars => IInv'
<1> SUFFICES ASSUME IInv, [Next]_vars PROVE IInv'
  OBVIOUS
<1>1. CASE FocusMoves \/ ApprovalOpens \/ ApprovalGone
  BY <1>1, ChangedKeeps
<1>2. CASE KeyUp \/ Cancel \/ CloseHost \/ Close \/ End
  BY <1>2, OutsideKeeps
<1>3. CASE KeyDown \/ KeyPresses \/ KeyPressed
  BY <1>3, KeyDownKeeps, KeyPressesKeeps, KeyPressedKeeps
<1>4. CASE (RecorderWrites \/ RecorderExits) /\ UNCHANGED <<ptt, presses, cap, asr, queue, talk, gate, hostVars>>
  BY <1>4, RecorderKeeps
<1>5. CASE (AsrTakes \/ AsrAnswers \/ PlaybackNext) /\ UNCHANGED hostVars
  BY <1>5, AsrKeeps, PlaybackKeeps
<1>6. CASE CaptureNext /\ UNCHANGED hostVars
  BY <1>6, OpenStreamKeeps, ReadStreamKeeps, TranscribeKeeps, AwaitTranscriptKeeps, HandOverKeeps DEF CaptureNext
<1>7. CASE Clear \/ Decide \/ SendCommand
  BY <1>7, ClearKeeps, DecideKeeps, SendCommandKeeps
<1>8. CASE UNCHANGED vars
  <2>1. UNCHANGED <<rec, ptt, presses, cap, asr, talk, gate, keys, chosen, main, spoken, sent, queue, console>>
    BY <1>8 DEF vars, gatewayVars
  <2>2. queue' \in 0..MaxSpeech /\ HostShape' /\ Apart' /\ \A a, s : Owned(a, s) => Owned(a, s)'
    BY <2>1 DEF IInv, GatewayShape, HostShape, Apart, Owned
  <2> QED
    BY <2>1, <2>2, ConsoleKeeps
<1> QED
  BY <1>1, <1>2, <1>3, <1>4, <1>5, <1>6, <1>7, <1>8 DEF Next, Environment, Workers, Main

\* The capture thread is at the last press, a press carries the session in focus when its key went
\* down, a stream that is finished has been read to its end, and an approval is one session's.
THEOREM HostInductive == Spec => []IInv
<1>1. Init => IInv
  BY InvInit
<1>2. IInv /\ [Next]_vars => IInv'
  BY StepKeeps
<1> QED
  BY <1>1, <1>2, PTL DEF Spec

\* Every press the gateway accepts ends with one event or one handled utterance before the next
\* begins, whatever times out, is cancelled, fails or is closed, and the queue of lines, the ASR
\* thread and the recorder stay within their bounds.
THEOREM PressesAnswered == Spec => []Answered
<1>1. IInv => Answered
  <2> SUFFICES ASSUME IInv PROVE Answered
    OBVIOUS
  <2>1. GatewayTypeOK
    BY DEF IInv, GatewayShape, Turns, GatewayTypeOK, PipeWireTypeOK, Recorder, Vad
  <2>2. UNION Range(console.open) \subseteq console.opened
    <3>1. console.open \in [Sessions -> SUBSET Approvals] /\ \A s \in Sessions : console.open[s] \subseteq console.opened
      BY DEF IInv, HostShape, Apart
    <3> QED
      BY <3>1 DEF Range
  <2>3. TypeOK
    BY <2>1, <2>2 DEF IInv, HostShape, TypeOK
  <2> QED
    BY <2>3 DEF IInv, Turns, Answered
<1> QED
  BY <1>1, HostInductive, PTL

\* What a transcript sends (VoiceHost._transcript) goes to the session that was in focus when the key
\* went down, and the approval it decides is open in no other session.
THEOREM SpokenTo == Spec => []Addressed
<1>1. IInv => Addressed
  <2> SUFFICES ASSUME IInv, NEW c \in sent
               PROVE  /\ c.session = spoken[cap.press]
                      /\ \A s \in Sessions \ {c.session} : c.approval \notin console.open[s]
    BY DEF Addressed
  <2>1. c.session = p0.target /\ Owned(c.approval, c.session) /\ cap.at = "clear"
    BY DEF IInv, Directed, At
  <2>2. spoken[cap.press] = p0.target
    <3>1. cap.press \in Press
      BY <2>1, InHand DEF IInv
    <3> QED
      BY <3>1 DEF IInv, Aimed, p0
  <2>3. CASE c.approval = None
    <3>1. \A s \in Sessions : console.open[s] \subseteq Approvals
      BY DEF IInv, HostShape
    <3> QED
      BY <2>1, <2>2, <2>3, <3>1, Bounds
  <2>4. CASE c.approval # None
    BY <2>1, <2>2, <2>4 DEF Owned
  <2> QED
    BY <2>3, <2>4
<1> QED
  BY <1>1, HostInductive, PTL

\* No line is spoken while the user speaks (_playback_loop against press_ptt) but one that is being
\* stopped, and the recogniser gets all the recorder wrote.
THEOREM NothingSpokenOver == Spec => []Hushed
<1>1. IInv => Hushed
  BY DEF IInv, Recorded, Stilled, Hushed
<1> QED
  BY <1>1, HostInductive, PTL
=============================================================================
