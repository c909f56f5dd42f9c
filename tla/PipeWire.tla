------------------------------ MODULE PipeWire ------------------------------
(***************************************************************************)
(* The pw-cat processes behind the microphone and the speaker,             *)
(* voice/deskhelm_voice/pipewire.py: PipeWirePcmChunkStream, read by the   *)
(* capture thread, and PipeWirePlaybackProvider.play, run by the playback  *)
(* thread. Each operator is one turn of a loop of the code and takes the   *)
(* events the caller passes; a deadline may have passed at any turn.       *)
(*                                                                         *)
(* A process answers SIGTERM when it likes and SIGKILL at once. Audio is   *)
(* counted in blocks; formats, the arithmetic of frames and the player's   *)
(* progress are left out.                                                  *)
(***************************************************************************)
EXTENDS Integers

CONSTANT MaxBlocks      \* bound: blocks one recorder writes

ASSUME BlocksAssumption == MaxBlocks \in Nat \ {0}

VARIABLE rec    \* the capture stream and its recorder

NoStream  == [proc |-> "none", clean |-> TRUE, unread |-> 0, taken |-> 0,
              stopping |-> FALSE, finished |-> FALSE]

PipeWireTypeOK ==
    rec \in [proc : {"none", "up", "term", "exited"}, clean : BOOLEAN, unread : 0..MaxBlocks,
             taken : 0..MaxBlocks, stopping : BOOLEAN, finished : BOOLEAN]

-----------------------------------------------------------------------------
(* pw-cat --record                                                         *)

RecorderWrites ==
    /\ rec.proc \in {"up", "term"}
    /\ rec.unread + rec.taken < MaxBlocks
    /\ rec' = [rec EXCEPT !.unread = @ + 1]

\* It ends by itself, or as asked; clean is a zero exit code.
RecorderExits ==
    /\ rec.proc \in {"up", "term"}
    /\ \E clean \in BOOLEAN : rec' = [rec EXCEPT !.proc = "exited", !.clean = clean]

-----------------------------------------------------------------------------
(* The capture stream. A turn gives the stream and what the reader gets:   *)
(* a chunk, the end, a failure, the cancellation, or another turn.         *)

Opened == [NoStream EXCEPT !.proc = "up"]

\* _terminate_process: SIGTERM, and SIGKILL after the grace.
Terminated(r) == [r EXCEPT !.proc = "exited"]

Turn(r, gets) == [rec |-> r, gets |-> gets]

\* _request_stop: SIGTERM once, SIGKILL when the grace is over.
StopRequested(r, stop, graceOver) ==
    IF stop /\ ~r.stopping
    THEN [r EXCEPT !.stopping = TRUE, !.proc = IF @ = "up" THEN "term" ELSE @]
    ELSE IF graceOver /\ r.stopping /\ r.proc = "term" THEN [r EXCEPT !.proc = "exited", !.clean = FALSE]
         ELSE r

\* _finish_process after the recorder is gone: what it still wrote, if its end is in order.
FinishTurn(r) ==
    LET took == [r EXCEPT !.taken = @ + r.unread, !.unread = 0] IN
    IF ~r.clean /\ ~r.stopping THEN Turn(took, "failure")
    ELSE Turn([took EXCEPT !.finished = TRUE], IF r.unread > 0 THEN "chunk" ELSE "end")

\* clock: the deadline or the grace is over; the recorder wrote after select had seen nothing.
Clock == {"now", "late", "grace", "missed"}

ReadTurn(stop, cancel, clock) ==
    IF rec.finished THEN Turn(rec, "end")
    ELSE IF cancel THEN Turn(Terminated(rec), "cancelled")
    ELSE IF clock = "late" THEN Turn(Terminated(rec), "failure")
    ELSE LET r == StopRequested(rec, stop, clock = "grace") IN
         IF r.unread > 0 /\ clock # "missed"
         THEN Turn([r EXCEPT !.taken = @ + r.unread, !.unread = 0], "chunk")
         ELSE IF r.proc = "exited" THEN FinishTurn(r) ELSE Turn(r, "again")

\* __exit__
Closed == [rec EXCEPT !.proc = "exited", !.finished = TRUE]

-----------------------------------------------------------------------------
(* pw-cat --playback                                                       *)

\* play: what may come of a turn of its loops, as the player takes audio, ends or hangs.
PlayTurn(cancel) == IF cancel THEN {"cancelled", "done", "failure"} ELSE {"again", "done", "failure"}
=============================================================================
