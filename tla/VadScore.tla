------------------------------ MODULE VadScore ------------------------------
(***************************************************************************)
(* What the measuring tools make of a detector's session:                  *)
(* voice/deskhelm_voice/benchmark.py (the VAD benchmark scores a labelled  *)
(* sample) and the two diagnostics, tools/run-live-vad-diagnostic.py and   *)
(* tools/run-local-asr-diagnostic.py (segments of a capture).              *)
(*                                                                         *)
(* Durations are counted in frames, where the tools divide by the rate.    *)
(* Left out: latencies, resources, the signal's level, and the bounds on   *)
(* bytes, chunks and events.                                               *)
(***************************************************************************)
EXTENDS VadWindows, FiniteSets

CONSTANT References     \* the labelled segments of the samples, as sequences of segments

VARIABLES
    heard,      \* emitted_after_frames: what had been processed when each event came
    raised      \* the session raised an exception

vadscore == <<vadwindows, heard, raised>>

Segment(first, behind) == [start |-> first, end |-> behind]

\* The labels VadBenchmarkSample accepts of a sample of `total` frames.
Labels(segments, total) ==
    \A k \in 1..Len(segments) :
        /\ segments[k].start \in Nat /\ segments[k].end > segments[k].start
        /\ segments[k].start >= (IF k = 1 THEN 0 ELSE segments[k - 1].end)
        /\ segments[k].end <= total

ASSUME ReferencesAssumption == \A reference \in References : Labels(reference, MaxAudio)

ScoreInit == VadInit /\ heard = <<>> /\ raised = FALSE

-----------------------------------------------------------------------------
(* The session, as the tools drive it                                      *)

\* Every event a call returns is kept with the frames processed by then.
AppendVadEvents == heard' = heard \o [k \in 1..(Len(told') - Len(told)) |-> audio']

ScoreChunk  == ~raised /\ ProcessChunk /\ AppendVadEvents /\ UNCHANGED raised
ScoreFinish == ~raised /\ FinishCapture /\ AppendVadEvents /\ UNCHANGED raised

\* The detector's runtime fails in process or finish.
SessionRaises ==
    /\ ~raised /\ ~finished /\ audio > 0
    /\ raised' = TRUE
    /\ UNCHANGED <<vadwindows, heard>>

ScoreNext == ScoreChunk \/ ScoreFinish \/ SessionRaises

-----------------------------------------------------------------------------
(* Segments of events                                                      *)

Blank == [ok |-> TRUE, last |-> NoFrame, open |-> NoFrame, segments |-> <<>>, delay |-> NoFrame]

\* The event e, which came when `by` frames were processed, behind those read so far.
Reads(sofar, e, by) ==
    IF \/ ~sofar.ok \/ e.frame > by \/ e.frame < sofar.last \/ e.frame > audio
       \/ (sofar.open = NoFrame) # (e.kind = "started")
       \/ (e.kind = "ended" /\ e.frame <= sofar.open)
    THEN [sofar EXCEPT !.ok = FALSE]
    ELSE IF e.kind = "started"
    THEN [sofar EXCEPT !.last = e.frame, !.open = e.frame, !.delay = IF @ = NoFrame THEN by - e.frame ELSE @]
    ELSE [sofar EXCEPT !.last = e.frame, !.open = NoFrame, !.segments = Append(@, Segment(sofar.open, e.frame))]

\* _validate_segments
InOrder(segments, total) ==
    \A k \in 1..Len(segments) :
        segments[k].end <= total /\ segments[k].start >= (IF k = 1 THEN 0 ELSE segments[k - 1].end)

\* The benchmark's reading: the segments and how late the first was found.
SegmentsOf(events, by) ==
    LET all == FoldLeft(LAMBDA sofar, k : Reads(sofar, events[k], by[k]), Blank, [k \in 1..Len(events) |-> k])
    IN  [all EXCEPT !.ok = @ /\ all.open = NoFrame /\ InOrder(all.segments, audio)]

\* The diagnostics' reading, which asks only that events be in order.
ValidateEvents(events) ==
    [SegmentsOf(events, [k \in 1..Len(events) |-> audio]) EXCEPT !.delay = NoFrame]

-----------------------------------------------------------------------------
(* Scores                                                                  *)

FrameCount(segments) == FoldLeft(LAMBDA n, s : n + s.end - s.start, 0, segments)

Overlap(l, r) == Later(0, Earlier(l.end, r.end) - Later(l.start, r.start))

StartsFirst(l, r) == l.start <= r.start     \* faulty

\* Which of the two segments the sweep leaves behind.
EndsFirst(l, r) == l.end <= r.end

\* _segment_intersection_frames: one sweep over the two lists.
SegmentIntersectionFrames(one, other) ==
    LET sweep[i \in 1..(Len(one) + 1), j \in 1..(Len(other) + 1)] ==
          IF i > Len(one) \/ j > Len(other) THEN 0
          ELSE Overlap(one[i], other[j])
               + IF EndsFirst(one[i], other[j]) THEN sweep[i + 1, j] ELSE sweep[i, j + 1]
    IN  sweep[1, 1]

\* _vad_duration_metrics and the record made of them; a session that fails is recorded with zeros.
Observation(reference) ==
    LET found == SegmentsOf(told, heard)
        both == SegmentIntersectionFrames(reference, found.segments)
    IN  IF raised \/ ~found.ok
        THEN [status |-> "failed", reference |-> 0, predicted |-> 0, both |-> 0, extra |-> 0, missed |-> 0,
              segments |-> 0, delay |-> NoFrame]
        ELSE [status |-> "ok", reference |-> FrameCount(reference), predicted |-> FrameCount(found.segments),
              both |-> both, extra |-> FrameCount(found.segments) - both, missed |-> FrameCount(reference) - both,
              segments |-> Len(found.segments), delay |-> found.delay]

\* What VadBenchmarkObservation accepts.
Consistent(o) ==
    /\ o.both >= 0 /\ o.extra >= 0 /\ o.missed >= 0
    /\ o.predicted = o.both + o.extra /\ o.reference = o.both + o.missed
    /\ o.reference <= audio /\ o.predicted <= audio
    /\ o.delay # NoFrame => o.delay >= 0 /\ o.delay <= audio
    /\ o.status = "failed" => o.reference = 0 /\ o.predicted = 0 /\ o.segments = 0 /\ o.delay = NoFrame
    /\ o.status = "ok" => ((o.segments = 0) <=> (o.predicted = 0)) /\ ((o.segments = 0) <=> (o.delay = NoFrame))

\* speech_active_ms and speech_segment_count of the diagnostics.
SpeechActivity == LET found == ValidateEvents(told) IN
    IF raised \/ ~found.ok THEN [status |-> "failed"]
    ELSE [status |-> "ok", segments |-> Len(found.segments), active |-> FrameCount(found.segments)]

-----------------------------------------------------------------------------
\* A frame is spoken when the last of the session's events at or before it began a segment.
Spoken == {f \in 0..(audio - 1) : \E k \in 1..Len(told) :
              /\ told[k].kind = "started" /\ told[k].frame <= f
              /\ k < Len(told) => f < told[k + 1].frame}

Labelled(reference) == UNION {reference[k].start..(reference[k].end - 1) : k \in 1..Len(reference)}

\* A session that ends is scored, unless it raised or the gateway would refuse its events: the numbers
\* are those of counting frame by frame what was spoken and what was labelled, the record's own checks
\* accept them (a failed session's too), and the benchmark and the diagnostics agree on what they found.
Scored ==
    finished \/ raised =>
        \A reference \in {r \in References : Labels(r, audio)} :
            LET o == Observation(reference) IN
            /\ Consistent(o)
            /\ o.status = SpeechActivity.status /\ (o.status = "failed") = (raised \/ gate.failed)
            /\ o.status = "ok" =>
                /\ o.both = Cardinality(Spoken \cap Labelled(reference))
                /\ o.extra = Cardinality(Spoken \ Labelled(reference))
                /\ o.missed = Cardinality(Labelled(reference) \ Spoken)
                /\ SpeechActivity.segments = o.segments /\ SpeechActivity.active = o.predicted
=============================================================================
