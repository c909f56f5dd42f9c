----------------------------- MODULE Transcript -----------------------------
(***************************************************************************)
(* A session's transcript, bridge/deskhelm_client/transcript.py: the items *)
(* that interaction events build, and the patches that tell a page of each *)
(* change; and what a page does with a patch, assets/js/store.js.          *)
(*                                                                         *)
(* A character is a number. Python counts characters; a page counts UTF-16 *)
(* units, of which a wide character has two.                               *)
(***************************************************************************)
EXTENDS Integers, Sequences, FiniteSets, SequencesExt

CONSTANTS
    MaxItems,   \* MAX_ITEMS
    MaxChars,   \* MAX_CHARS
    MaxMessage, \* MAX_MESSAGE_CHARS
    MaxOutput,  \* MAX_OUTPUT_CHARS
    Wide        \* the characters outside the basic plane

NewTranscript == [items |-> <<>>, last |-> 0]

\* An item is open while a message streams, a tool runs, a question waits.
Item(id) == [id |-> id, text |-> <<>>, open |-> id[1] # "turn", cut |-> FALSE, err |-> FALSE]

Upsert(item)             == [op |-> "upsert", item |-> item]
Extend(id, text, trim)   == [op |-> "append", id |-> id, text |-> text, trim |-> trim]
Dropped(item)            == [op |-> "remove", id |-> item.id]

Ids(items)      == {items[i].id : i \in DOMAIN items}
Get(items, id)  == items[CHOOSE i \in DOMAIN items : items[i].id = id]
\* A new item goes last, one that is there keeps its place.
With(items, item) ==
    IF item.id \in Ids(items)
    THEN [i \in DOMAIN items |-> IF items[i].id = item.id THEN item ELSE items[i]]
    ELSE Append(items, item)

Early(text, n) == SubSeq(text, 1, IF n < Len(text) THEN n ELSE Len(text))
Late(text, n)  == SubSeq(text, IF n < Len(text) THEN Len(text) - n + 1 ELSE 1, Len(text))

-----------------------------------------------------------------------------
(* The kinds of event: what the item becomes, and the patches              *)

Folds(items, item, patches) == [items |-> With(items, item), patches |-> patches]
Same(items)                 == [items |-> items, patches |-> <<>>]
Whole(items, item)          == Folds(items, item, <<Upsert(item)>>)

Message(items, e, item, created) ==
    IF e.phase = "delta"
    THEN LET chunk == Early(e.text, MaxMessage - Len(item.text))
             longer == [item EXCEPT !.text = @ \o chunk] IN
         IF ~item.open THEN Same(items)
         ELSE IF created THEN Whole(items, longer)
         ELSE Folds(items, longer, IF chunk = <<>> THEN <<>> ELSE <<Extend(item.id, chunk, 0)>>)
    ELSE Whole(items, [item EXCEPT !.open = FALSE,
                                   !.text = IF e.text = <<>> THEN @ ELSE Early(e.text, MaxMessage)])

\* Output is appended while it fits, and said whole when it creates the item, is its first of
\* stderr, or is the first that does not fit.
Tool(items, e, item, created) ==
    LET marked == [item EXCEPT !.err = @ \/ e.err]
        anew   == created \/ marked.err # item.err
        output == item.text \o e.text
        trim   == Len(output) - MaxOutput
        kept   == [marked EXCEPT !.text = Late(output, MaxOutput), !.cut = @ \/ trim > 0] IN
    CASE e.phase = "start"    -> Whole(items, item)
      [] e.phase = "replace"  -> Whole(items, [marked EXCEPT !.text = Late(e.text, MaxOutput),
                                                             !.cut = Len(e.text) > MaxOutput])
      [] e.phase = "complete" -> Whole(items, [item EXCEPT !.open = FALSE])
      [] e.phase = "output" /\ e.text = <<>> -> IF anew THEN Whole(items, marked) ELSE Same(items)
      [] e.phase = "output" /\ e.text # <<>> ->
           IF anew \/ (trim > 0 /\ (~item.cut \/ Len(e.text) >= MaxOutput))
           THEN Whole(items, kept)
           ELSE Folds(items, kept, <<Extend(item.id, e.text, IF trim > 0 THEN trim ELSE 0)>>)

\* An approval or a question of the agent.
Ask(items, e, item, created) ==
    IF e.phase = "request"
    THEN IF created THEN Whole(items, item) ELSE Same(items)
    ELSE IF created THEN Same(items) ELSE Whole(items, [item EXCEPT !.open = FALSE])

\* settle: messages and tools end; a question has its own end.
Settled(item) == item.open /\ item.id[1] \in {"message", "tool"}

Settle(items) ==
    LET ended == [i \in DOMAIN items |->
                    IF Settled(items[i]) THEN [items[i] EXCEPT !.open = FALSE] ELSE items[i]] IN
    [items |-> ended,
     patches |-> FoldLeftDomain(LAMBDA found, i :
                   IF Settled(items[i]) THEN Append(found, Upsert(ended[i])) ELSE found, <<>>, items)]

Turn(items, item) ==
    LET over == Settle(items) IN
    [items |-> With(over.items, item), patches |-> Append(over.patches, Upsert(item))]

Folded(items, e) ==
    LET created == e.id \notin Ids(items)
        item == IF created THEN Item(e.id) ELSE Get(items, e.id) IN
    CASE e.id[1] = "message" -> Message(items, e, item, created)
      [] e.id[1] = "tool"    -> Tool(items, e, item, created)
      [] e.id[1] = "ask"     -> Ask(items, e, item, created)
      [] e.id[1] = "turn"    -> Turn(items, item)

-----------------------------------------------------------------------------
(* Bounds and the whole of apply                                           *)

\* An item counts for one character beside its text.
Chars(items) == FoldLeft(LAMBDA sum, item : sum + 1 + Len(item.text), 0, items)

Fits(items) == Len(items) =< 1 \/ (Len(items) =< MaxItems /\ Chars(items) =< MaxChars)

NoneOldest(items) == 0                                             \* faulty
\* How many of the oldest must go.
Oldest(items) ==
    CHOOSE n \in 0..Len(items) :
       /\ Fits(SubSeq(items, n + 1, Len(items)))
       /\ \A m \in 0..(n - 1) : ~Fits(SubSeq(items, m + 1, Len(items)))

\* _trim: the oldest items go.
Trimmed(fold) ==
    LET n == Oldest(fold.items) IN
    [items |-> SubSeq(fold.items, n + 1, Len(fold.items)),
     patches |-> fold.patches \o [i \in 1..n |-> Dropped(fold.items[i])]]

SeenNever(transcript, e) == FALSE                                  \* faulty
\* An event whose sequence is not new was folded before.
Seen(transcript, e) == e.n =< transcript.last

Apply(transcript, e) ==
    IF Seen(transcript, e) THEN [transcript |-> transcript, patches |-> <<>>]
    ELSE LET fold == Trimmed(Folded(transcript.items, e)) IN
         [transcript |-> [items |-> fold.items, last |-> e.n], patches |-> fold.patches]

-----------------------------------------------------------------------------
(* The page                                                                *)

Units(text) == FoldLeft(LAMBDA units, c : units \o (IF c \in Wide THEN <<c, -c>> ELSE <<c>>), <<>>, text)

\* An item as JSON brings it.
Shown(item) == [item EXCEPT !.text = Units(@)]

\* applyPatch: slice counts units.
Patched(items, patch) ==
    CASE patch.op = "upsert" -> With(items, Shown(patch.item))
      [] patch.op = "append" ->
           IF patch.id \notin Ids(items) THEN items
           ELSE With(items, [Get(items, patch.id) EXCEPT
                               !.text = SubSeq(@, patch.trim + 1, Len(@)) \o Units(patch.text)])
      [] patch.op = "remove" -> SelectSeq(items, LAMBDA item : item.id # patch.id)
=============================================================================
