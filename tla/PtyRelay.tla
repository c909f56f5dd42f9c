------------------------------ MODULE PtyRelay ------------------------------
(***************************************************************************)
(* The wrapper the Codex TUI runs in, tools/run-with-pty.py: _relay        *)
(* between the user's terminal and a program in a pty, with the redaction  *)
(* of secrets in what the program shows (_StreamingRedactor) and the guard *)
(* on Ctrl-C (_TuiInputFilter), inside run_with_pty.                       *)
(*                                                                         *)
(* A turn of the relay's loop is one action: nothing but the clock moves   *)
(* between its select and its end. A timer counts the ticks it has left.   *)
(* The Kitty form of Ctrl-C is two bytes, k1 k2, that may come apart. Left *)
(* out: the window's size, the arguments, and the relay without the guard. *)
(***************************************************************************)
EXTENDS Integers, Sequences, FiniteSets, SequencesExt

CONSTANTS
    Secrets,        \* the values to redact
    Letters,        \* the bytes a program shows
    MaxPendingBytes,
    Confirm, SequenceTimeout, ExitDrain,    \* in ticks
    Loads           \* bound: pairs of keys typed and bytes shown

ASSUME RelayAssumption ==
    /\ <<>> \notin Secrets /\ "[REDACTED]" \notin Letters
    /\ MaxPendingBytes \in Nat \ {0}
    /\ Confirm \in Nat \ {0} /\ SequenceTimeout \in Nat \ {0} /\ ExitDrain \in Nat

VARIABLES
    load,       \* what the user may still type and the program still show
    typed,      \* every key typed, with the ticks since the key read before it, and inside it
    stdin,      \* bytes the relay has not read, of the key each is of
    quiet,      \* ticks since the last key was read, up to one more than Confirm
    child,      \* the program: alive, what its terminal holds, what it was sent
    relay,      \* the variables of _relay, its filter and its redactor
    shown,      \* what the terminal got, and every byte read from the program
    run         \* run_with_pty: where it is, and whether the terminal is raw

pty == <<load, typed, stdin, quiet, child, relay, shown, run>>

NoTimer == -1
Kitty   == <<"k1", "k2">>
Keys    == {"raw", "kitty", "other"}
BytesOfKey(key) == CASE key = "raw" -> <<"C">> [] key = "kitty" -> Kitty [] OTHER -> <<"o">>

PtyInit ==
    /\ load \in Loads
    /\ typed = <<>> /\ stdin = <<>> /\ quiet = 0
    /\ child = [alive |-> TRUE, held |-> TRUE, tty |-> <<>>, got |-> <<>>, interrupts |-> 0]
    /\ relay = [input |-> <<>>, output |-> <<>>, stdin |-> TRUE, master |-> "open", exit |-> NoTimer,
                keys |-> <<>>, sequence |-> NoTimer, armed |-> NoTimer, redactor |-> <<>>]
    /\ shown = [terminal |-> <<>>, read |-> <<>>]
    /\ run = [at |-> "relay", raw |-> TRUE]

-----------------------------------------------------------------------------
(* _StreamingRedactor                                                      *)

Dropped(s, n) == SubSeq(s, n + 1, Len(s))

Longest(secrets) == CHOOSE v \in secrets : \A w \in secrets : Len(w) <= Len(v)

WaitsNever(buffer) == FALSE     \* faulty

\* A longer secret may still come.
MayGrow(buffer) == \E v \in Secrets : Len(v) > Len(buffer) /\ IsPrefix(buffer, v)

\* _drain: each turn of its loop takes a secret or a byte off the buffer.
Redaction(bytes, final) ==
    LET Step(r, turn) ==
          LET complete == {v \in Secrets : IsPrefix(v, r.buffer)} IN
          IF r.buffer = <<>> \/ (~final /\ MayGrow(r.buffer)) THEN r
          ELSE IF complete # {}
               THEN [buffer |-> Dropped(r.buffer, Len(Longest(complete))), out |-> Append(r.out, "[REDACTED]")]
               ELSE [buffer |-> Tail(r.buffer), out |-> Append(r.out, r.buffer[1])]
    IN  FoldLeft(Step, [buffer |-> bytes, out |-> <<>>], bytes)

Redact(r, piece, final) ==
    LET done == Redaction(r.redactor \o piece, final) IN
    [r EXCEPT !.redactor = done.buffer, !.output = @ \o done.out]

-----------------------------------------------------------------------------
(* _TuiInputFilter                                                         *)

\* _handle_ctrl_c: the second press is forwarded, the first one clears the input.
Pressed(f, original) ==
    IF f.armed # NoTimer THEN [f EXCEPT !.armed = NoTimer, !.forwarded = TRUE, !.out = @ \o original]
    ELSE [f EXCEPT !.armed = Confirm, !.out = Append(@, "U")]

StaysArmed(f, byte) == [f EXCEPT !.out = Append(@, byte)]   \* faulty

Passes(f, byte) == [f EXCEPT !.armed = NoTimer, !.out = Append(@, byte)]

\* _drain: a part of the Kitty sequence waits for the rest, for a while.
Filtered(r, piece, final) ==
    LET Step(f, turn) ==
          IF f.keys = <<>> \/ f.waits THEN f
          ELSE IF IsPrefix(Kitty, f.keys)
               THEN Pressed([f EXCEPT !.keys = Dropped(@, Len(Kitty)), !.sequence = NoTimer], Kitty)
          ELSE IF IsPrefix(f.keys, Kitty) /\ ~final /\ f.sequence # 0
               THEN [f EXCEPT !.waits = TRUE, !.sequence = IF @ = NoTimer THEN SequenceTimeout ELSE @]
          ELSE LET g == [f EXCEPT !.keys = Tail(@), !.sequence = NoTimer] IN
               IF f.keys[1] = "C" THEN Pressed(g, <<"C">>)
               ELSE Passes(g, f.keys[1])
    IN  FoldLeft(Step, [keys |-> r.keys \o piece, sequence |-> r.sequence, armed |-> r.armed,
                        forwarded |-> FALSE, waits |-> FALSE, out |-> <<>>], r.keys \o piece)

\* A confirmed interrupt is a signal and no byte.
WithoutCtrlC(s) ==
    LET gone == {i \in DOMAIN s : s[i] = "C" \/ (i < Len(s) /\ SubSeq(s, i, i + 1) = Kitty)
                                  \/ (i > 1 /\ SubSeq(s, i - 1, i) = Kitty)}
    IN  [k \in 1..(Len(s) - Cardinality(gone)) |-> s[SetToSortSeq(DOMAIN s \ gone, <)[k]]]

Fed(r, f) ==
    [r EXCEPT !.keys = f.keys, !.sequence = f.sequence, !.armed = f.armed,
              !.input = @ \o IF f.forwarded THEN WithoutCtrlC(f.out) ELSE f.out]

-----------------------------------------------------------------------------
(* A turn of _relay                                                        *)

LeftOpen(r) == r   \* faulty

\* The program exited a while ago: nothing more is read.
DrainOver(r) == IF r.exit = 0 THEN Redact([r EXCEPT !.master = "closed", !.input = <<>>], <<>>, TRUE) ELSE r

ExitSeen(r) ==
    DrainOver(IF r.exit = NoTimer /\ ~child.alive
              THEN [r EXCEPT !.exit = ExitDrain, !.stdin = FALSE, !.input = <<>>] ELSE r)

\* select returns after so many ticks, and the filter is flushed.
Passed(r, ticks) ==
    LET Down(timer) == IF timer > 0 THEN timer - ticks ELSE timer
        aged == [r EXCEPT !.exit = Down(@), !.sequence = Down(@), !.armed = IF @ = NoTimer THEN @ ELSE @ - ticks]
    IN  Fed(aged, Filtered(aged, <<>>, FALSE))

Began(ticks) == Passed(ExitSeen(relay), ticks)

InRelay == run.at = "relay" /\ (relay.master = "open" \/ relay.output # <<>>)

\* The relay has read the first byte of the key i and not the last.
HalfRead(i) ==
    LET waiting == {k \in DOMAIN stdin : stdin[k].key = i}
    IN  waiting # {} /\ Cardinality(waiting) < Len(BytesOfKey(typed[i].key))

\* The ticks of the select, for the clock of the keys.
Clock(ticks) ==
    /\ quiet' = IF quiet > Confirm THEN quiet ELSE quiet + ticks
    /\ typed' = [i \in DOMAIN typed |->
                   IF HalfRead(i) /\ typed[i].apart < SequenceTimeout
                   THEN [typed[i] EXCEPT !.apart = @ + ticks] ELSE typed[i]]

\* The terminal takes some of the output.
Shows(ticks) ==
    /\ InRelay
    /\ \E n \in 1..Len(ExitSeen(relay).output) :
        LET r == Began(ticks) IN
        /\ relay' = [r EXCEPT !.output = Dropped(@, n)]
        /\ shown' = [shown EXCEPT !.terminal = @ \o SubSeq(r.output, 1, n)]
    /\ Clock(ticks) /\ UNCHANGED <<load, stdin, child, run>>

CanRead(r) == r.master = "open" /\ Len(r.output) < MaxPendingBytes

\* Bytes of the program; or, when no one holds its terminal any more, the end.
ReadsMaster(ticks) ==
    /\ InRelay /\ CanRead(ExitSeen(relay))
    /\ \/ \E n \in 1..Len(child.tty) :
            /\ relay' = Redact(Began(ticks), SubSeq(child.tty, 1, n), FALSE)
            /\ shown' = [shown EXCEPT !.read = @ \o SubSeq(child.tty, 1, n)]
            /\ child' = [child EXCEPT !.tty = Dropped(@, n)]
       \/ /\ child.tty = <<>> /\ ~child.held
          /\ relay' = Redact([Began(ticks) EXCEPT !.master = "closed", !.input = <<>>], <<>>, TRUE)
          /\ UNCHANGED <<shown, child>>
    /\ Clock(ticks) /\ UNCHANGED <<load, stdin, run>>

\* The program's terminal takes some of the keys, or is gone.
WritesMaster(ticks) ==
    /\ InRelay /\ ExitSeen(relay).master = "open" /\ ExitSeen(relay).input # <<>>
    /\ LET r == Began(ticks) IN
        \/ \E n \in 1..Len(r.input) : /\ relay' = [r EXCEPT !.input = Dropped(@, n)]
                                      /\ child' = [child EXCEPT !.got = @ \o SubSeq(r.input, 1, n)]
        \/ /\ ~child.held
           /\ relay' = [r EXCEPT !.master = "broken", !.input = <<>>] /\ UNCHANGED child
    /\ Clock(ticks) /\ UNCHANGED <<load, stdin, shown, run>>

\* The keys whose last byte is among the n read, and how long after the one before each came.
KeysRead(n) ==
    LET done == {stdin[k].key : k \in {j \in 1..n : stdin[j].last}} IN
    [i \in DOMAIN typed |-> IF i \notin done THEN typed[i]
                            ELSE [typed[i] EXCEPT !.gap = IF \E j \in done : j < i THEN 0 ELSE quiet]]

CanHear(r) == r.stdin /\ r.master = "open" /\ Len(r.input) < MaxPendingBytes

\* Keys, and the signal of a confirmed interrupt; or the end of the user's input.
ReadsStdin ==
    /\ InRelay /\ CanHear(ExitSeen(relay))
    /\ LET r == Began(0) IN
        \/ \E n \in 1..Len(stdin) :
            LET f == Filtered(r, [k \in 1..n |-> stdin[k].byte], FALSE) IN
            /\ relay' = Fed(r, f)
            /\ child' = [child EXCEPT !.interrupts = IF f.forwarded THEN @ + 1 ELSE @]
            /\ stdin' = Dropped(stdin, n)
            /\ typed' = KeysRead(n)
            /\ quiet' = IF \E k \in 1..n : stdin[k].last THEN 0 ELSE quiet
        \/ /\ stdin = <<>> /\ load.keys = 0
           /\ relay' = Fed([r EXCEPT !.stdin = FALSE], Filtered(r, <<>>, TRUE))
           /\ UNCHANGED <<child, stdin, typed, quiet>>
    /\ UNCHANGED <<load, shown, run>>

\* select ends with nothing to do.
Idles ==
    /\ InRelay
    /\ relay' = Began(1)
    /\ Clock(1) /\ UNCHANGED <<load, stdin, child, shown, run>>

-----------------------------------------------------------------------------
(* run_with_pty around the relay                                           *)

At(where, raw) == run' = [at |-> where, raw |-> raw] /\ UNCHANGED <<load, typed, stdin, quiet, child, relay, shown>>

\* The loop ends; the program is waited for with the terminal still raw.
RelayReturns == run.at = "relay" /\ ~InRelay /\ At("waiting", TRUE)

\* A write to the user's terminal fails: the terminal is set back, and the program told to end.
RelayRaises  == InRelay /\ relay.output # <<>> /\ At("failing", FALSE)

Reaps == run.at \in {"waiting", "failing"} /\ ~child.alive /\ At("over", FALSE)

-----------------------------------------------------------------------------
(* The user and the program                                                *)

Types ==
    /\ load.keys > 0 /\ run.at = "relay"
    /\ \E key \in Keys :
        LET bytes == BytesOfKey(key) IN
        /\ typed' = Append(typed, [key |-> key, gap |-> NoTimer, apart |-> 0])
        /\ stdin' = stdin \o [k \in DOMAIN bytes |->
                                 [byte |-> bytes[k], key |-> Len(typed) + 1, last |-> k = Len(bytes)]]
    /\ load' = [load EXCEPT !.keys = @ - 1]
    /\ UNCHANGED <<quiet, child, relay, shown, run>>

Prints ==
    /\ load.bytes > 0 /\ child.held /\ run.at = "relay"
    /\ \E letter \in Letters : child' = [child EXCEPT !.tty = Append(@, letter)]
    /\ load' = [load EXCEPT !.bytes = @ - 1]
    /\ UNCHANGED <<typed, stdin, quiet, relay, shown, run>>

\* The program ends; another process may hold its terminal on, for good.
Exits ==
    /\ child.alive
    /\ \E held \in BOOLEAN : child' = [child EXCEPT !.alive = FALSE, !.held = held]
    /\ UNCHANGED <<load, typed, stdin, quiet, relay, shown, run>>

\* The program gives its terminal up and goes on.
Detaches ==
    /\ child.alive /\ child.held
    /\ child' = [child EXCEPT !.held = FALSE]
    /\ UNCHANGED <<load, typed, stdin, quiet, relay, shown, run>>

PtyNext ==
    \/ \E ticks \in {0, 1} : Shows(ticks) \/ ReadsMaster(ticks) \/ WritesMaster(ticks)
    \/ ReadsStdin \/ Idles
    \/ RelayReturns \/ RelayRaises \/ Reaps
    \/ Types \/ Prints \/ Exits \/ Detaches

-----------------------------------------------------------------------------
(* Properties                                                              *)

\* What a text shows once every secret, the longest from the left, is replaced.
RedactedText(s) ==
    LET from[i \in 1..Len(s) + 1] ==
          LET here == {v \in Secrets : IsPrefix(v, SubSeq(s, i, Len(s)))} IN
          IF i > Len(s) THEN <<>>
          ELSE IF here # {} THEN <<"[REDACTED]">> \o from[i + Len(Longest(here))]
          ELSE <<s[i]>> \o from[i + 1]
    IN  from[1]

\* However the program's output is cut, the terminal gets what was read of it with every secret
\* replaced: all of it once the pty is closed, and while it is open all but what may yet begin one.
Redacted ==
    LET passed == shown.terminal \o relay.output IN
    CASE relay.master = "open"   -> passed \o RedactedText(relay.redactor) = RedactedText(shown.read)
      [] relay.master = "closed" -> passed = RedactedText(shown.read)
      [] OTHER -> IsPrefix(passed, RedactedText(shown.read))

Press(i) == typed[i].key # "other" /\ typed[i].gap # NoTimer

\* However the keys are cut and timed, the program is interrupted only by two presses of Ctrl-C with
\* no key and at most the confirmation time between them, each press counting once; no Ctrl-C byte
\* reaches it, and of its Kitty form none whose bytes came within the sequence's time; and every
\* other key does, in order.
Guarded ==
    LET pairs == {i \in DOMAIN typed : i > 1 /\ Press(i - 1) /\ Press(i) /\ typed[i].gap <= Confirm}
        sent == child.got \o relay.input \o relay.keys
        other(s) == SelectSeq(s, LAMBDA byte : byte = "o")
        read == [i \in 1..Len(typed) |-> IF typed[i].key = "other" /\ typed[i].gap # NoTimer THEN "o" ELSE ""]
    IN  /\ child.interrupts <= Cardinality(pairs)
        /\ 2 * child.interrupts <= Cardinality({i \in DOMAIN typed : Press(i)})
        /\ "C" \notin ToSet(sent)
        /\ \A byte \in ToSet(Kitty) : Len(SelectSeq(child.got \o relay.input, LAMBDA b : b = byte)) <=
             Cardinality({i \in DOMAIN typed : typed[i].key = "kitty" /\ typed[i].apart >= SequenceTimeout})
        /\ relay.master = "open" /\ relay.exit = NoTimer => other(sent) = other(read)

\* Once the program ends, so does the wrapper, with the terminal as it found it, though
\* another process keeps the program's terminal.
WrapperEnds == ~child.alive ~> run = [at |-> "over", raw |-> FALSE]
=============================================================================
