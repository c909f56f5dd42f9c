---------------------------- MODULE FrameDecoder ----------------------------
(***************************************************************************)
(* One reader of the Bridge's protocol, bridge/deskhelm_protocol/wire.py:  *)
(* FrameDecoder, fed a byte stream in pieces the socket cuts anywhere, by  *)
(* the server, the host link, the client and ensure_bridge. A refused      *)
(* piece ends the connection, so nothing is fed behind it.                 *)
(*                                                                         *)
(* A byte is of a JSON object ("c"), breaks one ("x"), or is CR or LF; a   *)
(* decoded frame is the line it came from.                                 *)
(***************************************************************************)
EXTENDS Naturals, Sequences, SequencesExt

CONSTANTS
    MaxFrameBytes,  \* MAX_FRAME_BYTES
    MaxFed          \* bound: bytes of the stream

ASSUME DecoderAssumption == MaxFrameBytes \in Nat \ {0} /\ MaxFed \in Nat

VARIABLES
    fed,        \* every byte the peer sent so far
    buffer,     \* _buffer
    handed,     \* the frames feed has returned
    refused     \* feed raised WireError

decoder == <<fed, buffer, handed, refused>>

Bytes == {"c", "x", "CR", "LF"}

DecoderInit == fed = <<>> /\ buffer = <<>> /\ handed = <<>> /\ refused = FALSE

\* decode_frame: a UTF-8 JSON object with a type.
IsObject(line) == "c" \in ToSet(line) /\ "x" \notin ToSet(line)

\* encode_frame: what it writes, before its LF.
Encodes(line) == IsObject(line) /\ ~(\E i \in DOMAIN line : line[i] \in {"CR", "LF"}) /\ Len(line) <= MaxFrameBytes

\* The ends of the lines of s, the lines, and what is behind them.
Ends(s)  == SetToSortSeq({i \in DOMAIN s : s[i] = "LF"}, <)
Begin(s, k) == IF k = 1 THEN 1 ELSE Ends(s)[k - 1] + 1
Lines(s) == [k \in DOMAIN Ends(s) |-> SubSeq(s, Begin(s, k), Ends(s)[k] - 1)]
Rest(s)  == SubSeq(s, Begin(s, Len(Ends(s)) + 1), Len(s))

Stripped(line) == IF line # <<>> /\ Last(line) = "CR" THEN Front(line) ELSE line

RefusedLine(line) == Len(line) > MaxFrameBytes \/ ~IsObject(line)

BehindLast(s) == <<>>   \* faulty

Behind(s) == Rest(s)

\* feed: a refused line loses the frames before it in the same piece.
FeedDecoder ==
    /\ ~refused
    /\ \E piece \in BoundedSeq(Bytes, MaxFed - Len(fed)) \ {<<>>} :
        LET all == buffer \o piece
            new == [k \in DOMAIN Lines(all) |-> Stripped(Lines(all)[k])]
        IN  /\ fed' = fed \o piece
            /\ buffer' = Behind(all)
            /\ IF (\E k \in DOMAIN new : RefusedLine(new[k])) \/ Len(Rest(all)) > MaxFrameBytes
               THEN refused' = TRUE /\ UNCHANGED handed
               ELSE handed' = handed \o new /\ UNCHANGED refused

-----------------------------------------------------------------------------
Told == [k \in DOMAIN Lines(fed) |-> Stripped(Lines(fed)[k])]

\* However the stream is cut, a reader that goes on has handed over every line that is complete,
\* in order and unmixed; it hands nothing else to its owner; and a peer that sends only what
\* encode_frame writes is never refused.
FramesWhole ==
    /\ IsPrefix(handed, Told)
    /\ ~refused => handed = Told /\ \A k \in DOMAIN Told : ~RefusedLine(Told[k])
    /\ refused => \/ \E k \in DOMAIN Lines(fed) : ~Encodes(Lines(fed)[k])
                  \/ Len(Rest(fed)) > MaxFrameBytes
=============================================================================
