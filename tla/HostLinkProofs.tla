---------------------------- MODULE HostLinkProofs ----------------------------
(***************************************************************************)
(* What TLAPS proves of a host's link to the Bridge, for any connections,  *)
(* requests, effects and bounds: the lease and the numbering of facts fit  *)
(* together, the Bridge's session and the facts on their way add up to     *)
(* what the driver holds unless one was dropped while the session opened,  *)
(* and an effect is performed once and reported as it was performed.       *)
(***************************************************************************)
EXTENDS HostLink, FiniteSetTheorems, SequenceTheorems, WellFoundedInduction, TLAPS

-----------------------------------------------------------------------------
(* Counting up to a number.                                              *)

LEMMA Least ==
    ASSUME NEW T \in SUBSET Nat, T # {}
    PROVE  \E x \in T : \A y \in T : x <= y
<1> DEFINE R == OpToRel(<, Nat)
<1>1. IsWellFoundedOn(R, Nat)
  BY NatLessThanWellFounded, Zenon
<1>2. \A x, y \in Nat : x < y => <<x, y>> \in R
  BY DEF OpToRel
<1> HIDE DEF R
<1>3. PICK x \in T : \A y \in T : ~ (<<y, x>> \in R)
  BY <1>1, WFMin
<1>4. \A y \in T : ~(y < x)
  BY <1>2, <1>3
<1> QED
  BY <1>4

\* A set that holds 0, and with each number below n the next, holds all up to n.
LEMMA UpTo ==
    ASSUME NEW n \in Nat, NEW T, 0 \in T, \A i \in 0..n : i # n /\ i \in T => i + 1 \in T
    PROVE  \A i \in 0..n : i \in T
<1> SUFFICES ASSUME NEW k \in 0..n, k \notin T PROVE FALSE
  OBVIOUS
<1> DEFINE U == {i \in 0..n : i \notin T}
<1>1. U \in SUBSET Nat /\ U # {}
  OBVIOUS
<1> HIDE DEF U
<1>2. PICK x \in U : \A y \in U : x <= y
  BY <1>1, Least
<1>3. x \in 0..n /\ x \notin T /\ x # 0
  BY <1>2 DEF U
<1>4. x - 1 \in 0..n /\ x - 1 \notin U
  BY <1>2, <1>3
<1>5. x - 1 \in T
  BY <1>4 DEF U
<1> QED
  BY <1>3, <1>4, <1>5

-----------------------------------------------------------------------------
(* Frames and states.                                                      *)

LEMMA FrameFields ==
    ASSUME NEW m \in Frame
    PROVE  /\ m.type \in {"hello", "hello_ok", "opened", "rejected", "close", "session_open",
                          "fact", "effect", "result"}
           /\ m.type = "session_open" => m.open \in SUBSET Requests
           /\ m.type = "fact" => m.seq \in Nat /\ m.fact \in Change
           /\ m.type = "effect" => m.effect \in Effects
           /\ m.type = "result" => m.effect \in Effects /\ m.outcome \in {"accepted", "unsupported"}
  BY DEF Frame

LEMMA PlainFrame ==
    ASSUME NEW t \in {"hello", "hello_ok", "opened", "rejected", "close"}
    PROVE  [type |-> t] \in Frame /\ [type |-> t].type = t
  BY DEF Frame

LEMMA FactFrame ==
    ASSUME NEW n \in Nat, NEW f \in Change
    PROVE  LET m == [type |-> "fact", seq |-> n, fact |-> f]
           IN  m \in Frame /\ m.type = "fact" /\ m.seq = n /\ m.fact = f
  BY DEF Frame

LEMMA AppliedTyped ==
    ASSUME NEW s \in State, NEW f \in Change
    PROVE  Applied(s, f) \in State
<1>1. f.kind \in {"ready", "turn_started", "turn_terminal", "status", "request_opened", "request_resolved"}
  BY DEF Change
<1>2. f.kind = "status" => f.on \in BOOLEAN
  BY DEF Change
<1>3. f.kind \in {"request_opened", "request_resolved"} => f.request \in Requests
  BY DEF Change
<1> QED
  BY <1>1, <1>2, <1>3 DEF Applied, State

LEMMA NothingTyped ==
    /\ Nothing \in State
    /\ \A open \in SUBSET Requests : [Nothing EXCEPT !.open = open] \in State
  BY DEF Nothing, State

-----------------------------------------------------------------------------
(* The course a session takes: what it is after each of the frames that    *)
(* are on their way to the Bridge.                                         *)

Point == [seq : Nat, state : State]

Goes(a, b, m) ==
    IF m.type = "fact"
    THEN m.seq = a.seq + 1 /\ b = [seq |-> a.seq + 1, state |-> Applied(a.state, m.fact)]
    ELSE b = a

Course(p, s, frames) ==
    /\ p \in [0..Len(frames) -> Point]
    /\ p[0] = [seq |-> s.seq, state |-> s.state]
    /\ \A i \in 1..Len(frames) : Goes(p[i - 1], p[i], frames[i])

LEMMA CourseStays ==
    ASSUME NEW s, s.seq \in Nat, s.state \in State
    PROVE  \E p : Course(p, s, <<>>) /\ p[Len(<<>>)] = [seq |-> s.seq, state |-> s.state]
<1> DEFINE p == [i \in 0..0 |-> [seq |-> s.seq, state |-> s.state]]
<1>1. [seq |-> s.seq, state |-> s.state] \in Point
  BY DEF Point
<1>2. p \in [0..0 -> Point] /\ p[0] = [seq |-> s.seq, state |-> s.state]
  BY <1>1
<1>3. Len(<<>>) = 0
  OBVIOUS
<1> HIDE DEF p
<1>4. Course(p, s, <<>>)
  BY <1>2, <1>3 DEF Course
<1> QED
  BY <1>2, <1>3, <1>4

LEMMA CourseAppend ==
    ASSUME NEW s, NEW q \in Seq(Frame), NEW p, Course(p, s, q),
           NEW m \in Frame, NEW b \in Point, Goes(p[Len(q)], b, m)
    PROVE  \E r : Course(r, s, Append(q, m)) /\ r[Len(Append(q, m))] = b
<1> DEFINE n == Len(q)
           r == [i \in 0..(n + 1) |-> IF i = n + 1 THEN b ELSE p[i]]
<1>1. /\ n \in Nat /\ Len(Append(q, m)) = n + 1 /\ Append(q, m)[n + 1] = m
      /\ \A i \in 1..n : Append(q, m)[i] = q[i]
  OBVIOUS
<1>2. p \in [0..n -> Point] /\ p[0] = [seq |-> s.seq, state |-> s.state]
  BY DEF Course
<1>3. \A i \in 1..n : Goes(p[i - 1], p[i], q[i])
  BY DEF Course
<1> HIDE DEF n
<1>4. r \in [0..(n + 1) -> Point]
  BY <1>1, <1>2
<1>5. r[n + 1] = b /\ \A i \in 0..n : r[i] = p[i]
  BY <1>1
<1> HIDE DEF r
<1>6. r[0] = p[0]
  BY <1>1, <1>5
<1>7. ASSUME NEW i \in 1..(n + 1)
      PROVE  Goes(r[i - 1], r[i], Append(q, m)[i])
  <2>1. CASE i = n + 1
    <3>1. r[i - 1] = p[n] /\ r[i] = b /\ Append(q, m)[i] = m
      BY <1>1, <1>5, <2>1
    <3> QED
      BY <3>1 DEF n
  <2>2. CASE i # n + 1
    <3>1. i \in 1..n /\ i - 1 \in 0..n /\ i \in 0..n
      BY <1>1, <2>2
    <3> QED
      BY <1>1, <1>3, <1>5, <3>1
  <2> QED
    BY <2>1, <2>2
<1>8. Course(r, s, Append(q, m))
  BY <1>1, <1>2, <1>4, <1>6, <1>7 DEF Course
<1> QED
  BY <1>1, <1>5, <1>8

LEMMA CourseTail ==
    ASSUME NEW s, NEW q \in Seq(Frame), q # <<>>, NEW p, Course(p, s, q),
           NEW t, p[1] = [seq |-> t.seq, state |-> t.state]
    PROVE  \E r : Course(r, t, Tail(q)) /\ r[Len(Tail(q))] = p[Len(q)]
<1> DEFINE n == Len(q)
           r == [i \in 0..(n - 1) |-> p[i + 1]]
<1>1. /\ n \in Nat /\ n >= 1 /\ Len(Tail(q)) = n - 1
      /\ \A i \in 1..(n - 1) : Tail(q)[i] = q[i + 1]
  OBVIOUS
<1>2. p \in [0..n -> Point] /\ \A i \in 1..n : Goes(p[i - 1], p[i], q[i])
  BY DEF Course
<1> HIDE DEF n
<1>3. r \in [0..(n - 1) -> Point]
  BY <1>1, <1>2
<1>4. \A i \in 0..(n - 1) : r[i] = p[i + 1]
  OBVIOUS
<1> HIDE DEF r
<1>5. r[0] = p[1] /\ r[n - 1] = p[n]
  BY <1>1, <1>4
<1>6. ASSUME NEW i \in 1..(n - 1)
      PROVE  Goes(r[i - 1], r[i], Tail(q)[i])
  <2>1. i + 1 \in 1..n /\ (i + 1) - 1 = i /\ i - 1 \in 0..(n - 1) /\ i \in 0..(n - 1) /\ (i - 1) + 1 = i
    BY <1>1
  <2>2. Goes(p[i], p[i + 1], q[i + 1])
    BY <1>2, <2>1
  <2>3. r[i - 1] = p[i] /\ r[i] = p[i + 1] /\ Tail(q)[i] = q[i + 1]
    BY <1>1, <1>4, <2>1
  <2> QED
    BY <2>2, <2>3
<1>7. Course(r, t, Tail(q))
  BY <1>1, <1>3, <1>5, <1>6 DEF Course
<1> QED
  BY <1>1, <1>5, <1>7 DEF n

\* The facts on their way are numbered from the session's number on.
LEMMA CourseNumbers ==
    ASSUME NEW s, s.seq \in Nat, NEW q \in Seq(Frame), NEW p, Course(p, s, q)
    PROVE  \A i \in 0..Len(q) :
              p[i].seq = s.seq + Cardinality({j \in 1..i : q[j].type = "fact"})
<1> DEFINE n == Len(q)
           F(i) == {j \in 1..i : q[j].type = "fact"}
           T == {i \in 0..n : p[i].seq = s.seq + Cardinality(F(i))}
<1>1. n \in Nat /\ p \in [0..n -> Point]
  BY DEF Course
<1>2. 0 \in T
  <2>1. F(0) = {}
    OBVIOUS
  <2>2. Cardinality(F(0)) = 0
    BY <2>1, FS_EmptySet
  <2>3. p[0].seq = s.seq
    BY DEF Course
  <2> HIDE DEF F, n
  <2>4. p[0].seq = s.seq + Cardinality(F(0))
    BY <2>2, <2>3
  <2> QED
    BY <1>1, <2>4
<1>3. ASSUME NEW i \in 0..n, i # n, i \in T
      PROVE  i + 1 \in T
  <2>1. i + 1 \in 1..n /\ i + 1 \in 0..n /\ (i + 1) - 1 = i /\ i \in Nat
    BY <1>1, <1>3
  <2>2. Goes(p[i], p[i + 1], q[i + 1])
    BY <2>1 DEF Course
  <2>3. IsFiniteSet(F(i)) /\ Cardinality(F(i)) \in Nat /\ i + 1 \notin F(i)
    <3>1. F(i) \subseteq 1..i /\ IsFiniteSet(1..i)
      BY <2>1, FS_Interval
    <3> QED
      BY <2>1, <3>1, FS_Subset, FS_CardinalityType
  <2>4. F(i + 1) = IF q[i + 1].type = "fact" THEN F(i) \cup {i + 1} ELSE F(i)
    BY <2>1
  <2>5. p[i].seq = s.seq + Cardinality(F(i)) /\ p[i].seq \in Nat
    BY <1>1, <1>3, <2>1 DEF Point
  <2> HIDE DEF F, n
  <2>6. Cardinality(F(i) \cup {i + 1}) = Cardinality(F(i)) + 1
    BY <2>3, FS_AddElement
  <2>7. p[i + 1].seq = s.seq + Cardinality(F(i + 1))
    <3>1. CASE q[i + 1].type = "fact"
      <4>1. p[i + 1].seq = p[i].seq + 1
        BY <2>2, <3>1 DEF Goes
      <4>2. Cardinality(F(i + 1)) = Cardinality(F(i)) + 1
        BY <2>4, <2>6, <3>1
      <4>3. s.seq \in Nat /\ p[i + 1].seq = s.seq + Cardinality(F(i)) + 1
        BY <2>3, <2>5, <4>1
      <4> QED
        BY <2>3, <4>2, <4>3
    <3>2. CASE q[i + 1].type # "fact"
      BY <2>2, <2>4, <2>5, <3>2 DEF Goes
    <3> QED
      BY <3>1, <3>2
  <2> QED
    BY <2>1, <2>7
<1> HIDE DEF T
<1>4. \A i \in 0..n : i \in T
  BY <1>1, <1>2, <1>3, UpTo
<1> QED
  BY <1>4 DEF T

\* What After computes is where the course ends.
LEMMA CourseEnds ==
    ASSUME NEW s, NEW q \in Seq(Frame), NEW p, Course(p, s, q)
    PROVE  After(s.state, q) = p[Len(q)].state
<1> DEFINE n == Len(q)
           Unfolds(f) == f = [i \in 0..n |->
                                IF i = 0 THEN s.state
                                ELSE IF q[i].type = "fact" THEN Applied(f[i - 1], q[i].fact)
                                ELSE f[i - 1]]
           g == [i \in 0..n |-> p[i].state]
           after == CHOOSE f : Unfolds(f)
<1>1. n \in Nat /\ p \in [0..n -> Point] /\ p[0].state = s.state
  BY DEF Course
<1>2. \A i \in 1..n : /\ i - 1 \in 0..n /\ i \in 0..n
                      /\ p[i].state = IF q[i].type = "fact" THEN Applied(p[i - 1].state, q[i].fact)
                                      ELSE p[i - 1].state
  <2> TAKE i \in 1..n
  <2>1. i - 1 \in 0..n /\ i \in 0..n
    BY <1>1
  <2>2. Goes(p[i - 1], p[i], q[i])
    BY DEF Course
  <2> HIDE DEF n
  <2>3. CASE q[i].type = "fact"
    BY <2>1, <2>2, <2>3 DEF Goes
  <2>4. CASE q[i].type # "fact"
    BY <2>1, <2>2, <2>4 DEF Goes
  <2> QED
    BY <2>1, <2>3, <2>4
<1>3. \A i \in 0..n : g[i] = IF i = 0 THEN s.state
                             ELSE IF q[i].type = "fact" THEN Applied(g[i - 1], q[i].fact)
                             ELSE g[i - 1]
  <2> TAKE i \in 0..n
  <2>1. CASE i = 0
    BY <1>1, <2>1
  <2>2. CASE i # 0
    <3>1. i \in 1..n
      BY <1>1, <2>2
    <3> HIDE DEF n
    <3> QED
      BY <1>2, <2>2, <3>1
  <2> QED
    BY <2>1, <2>2
<1>4. Unfolds(g)
  BY <1>3
<1>5. After(s.state, q) = after[n]
  BY DEF After
<1> HIDE DEF Unfolds
<1>6. Unfolds(after)
  BY <1>4
<1> HIDE DEF after
<1>7. \A i \in 0..n : after[i] = IF i = 0 THEN s.state
                                 ELSE IF q[i].type = "fact" THEN Applied(after[i - 1], q[i].fact)
                                 ELSE after[i - 1]
  BY <1>6 DEF Unfolds
<1> DEFINE T == {i \in 0..n : after[i] = g[i]}
<1> HIDE DEF g, n
<1>8. 0 \in T
  BY <1>1, <1>3, <1>7
<1>9. ASSUME NEW i \in 0..n, i # n, i \in T
      PROVE  i + 1 \in T
  <2>1. i + 1 \in 0..n /\ i + 1 # 0 /\ (i + 1) - 1 = i
    BY <1>1, <1>9
  <2>2. after[i] = g[i]
    BY <1>9
  <2> QED
    BY <1>3, <1>7, <2>1, <2>2
<1> HIDE DEF T
<1>10. \A i \in 0..n : i \in T
  BY <1>1, <1>8, <1>9, UpTo
<1>11. after[n] = g[n]
  BY <1>1, <1>10 DEF T
<1> QED
  BY <1>1, <1>5, <1>11 DEF g, n

-----------------------------------------------------------------------------
(* Sequences of frames, and what each end does to a connection.            *)

LEMMA FrameAppended ==
    ASSUME NEW q \in Seq(Frame), NEW m \in Frame
    PROVE  /\ Append(q, m) \in Seq(Frame) /\ Append(q, m) # <<>>
           /\ Len(q) \in Nat /\ Len(Append(q, m)) = Len(q) + 1
           /\ Append(q, m)[Len(q) + 1] = m
           /\ \A i \in 1..Len(q) : Append(q, m)[i] = q[i]
           /\ \A i \in 1..(Len(q) + 1) : i \in 1..Len(q) \/ i = Len(q) + 1
<1>1. /\ Append(q, m) \in Seq(Frame) /\ Append(q, m) # <<>>
      /\ Len(q) \in Nat /\ Len(Append(q, m)) = Len(q) + 1
  OBVIOUS
<1>2. /\ Append(q, m)[Len(q) + 1] = m
      /\ \A i \in 1..Len(q) : Append(q, m)[i] = q[i]
  OBVIOUS
<1>3. \A i \in 1..(Len(q) + 1) : i \in 1..Len(q) \/ i = Len(q) + 1
  BY <1>1
<1> QED
  BY <1>1, <1>2, <1>3

LEMMA FrameTail ==
    ASSUME NEW q \in Seq(Frame), q # <<>>
    PROVE  /\ Tail(q) \in Seq(Frame)
           /\ Len(q) \in Nat /\ Len(q) >= 1 /\ Len(Tail(q)) = Len(q) - 1
           /\ Head(q) = q[1] /\ q[1] \in Frame
           /\ \A i \in 1..(Len(q) - 1) : i + 1 \in 1..Len(q) /\ Tail(q)[i] = q[i + 1]
  OBVIOUS

LEMMA TailOfOne ==
    ASSUME NEW q \in Seq(Frame), Len(q) = 1
    PROVE  Tail(q) = <<>>
<1>1. Len(<<>>) = 0
  OBVIOUS
<1>2. q # <<>>
  <2>1. Len(q) # 0
    OBVIOUS
  <2> QED
    BY <1>1, <2>1, Zenon
<1>3. Tail(q) \in Seq(Frame)
  BY <1>2, FrameTail
<1>4. Len(Tail(q)) = Len(q) - 1
  BY <1>2, FrameTail
<1>5. Len(Tail(q)) = 0
  BY <1>4
<1> QED
  BY <1>3, <1>5, EmptySeq

LEMMA SilentEnd ==
    ASSUME NEW h, NEW w, NEW r, r = [host |-> h, bridge |-> FALSE, up |-> <<>>, down |-> w]
    PROVE  r.host = h /\ ~r.bridge /\ r.up = <<>> /\ r.down = w
  OBVIOUS

LEMMA SubSeqAt ==
    ASSUME NEW q \in Seq(Frame), NEW n \in 1..Len(q)
    PROVE  LET r == SubSeq(q, n + 1, Len(q))
           IN  /\ r \in Seq(Frame)
               /\ Len(q) \in Nat /\ Len(r) = Len(q) - n
               /\ \A i \in 1..(Len(q) - n) : i + n \in 1..Len(q) /\ r[i] = q[i + n]
  OBVIOUS

Chan == [host : BOOLEAN, bridge : BOOLEAN, up : Seq(Frame), down : Seq(Frame)]

LEMMA SentUpAt ==
    ASSUME NEW ch \in [Conns -> Chan], NEW c \in Conns, NEW frames \in Seq(Frame)
    PROVE  /\ SentUp(ch, c, frames) \in [Conns -> Chan]
           /\ SentUp(ch, c, frames)[c] =
                IF ch[c].host /\ ch[c].bridge THEN [ch[c] EXCEPT !.up = ch[c].up \o frames] ELSE ch[c]
           /\ \A d \in Conns : d # c => SentUp(ch, c, frames)[d] = ch[d]
<1>1. ch[c].up \o frames \in Seq(Frame)
  BY DEF Chan
<1>2. [ch[c] EXCEPT !.up = ch[c].up \o frames] \in Chan
  BY <1>1 DEF Chan
<1> QED
  BY <1>2 DEF SentUp

LEMMA SentDownAt ==
    ASSUME NEW ch \in [Conns -> Chan], NEW c \in Conns, NEW frames \in Seq(Frame)
    PROVE  /\ SentDown(ch, c, frames) \in [Conns -> Chan]
           /\ SentDown(ch, c, frames)[c] =
                IF ch[c].host /\ ch[c].bridge THEN [ch[c] EXCEPT !.down = ch[c].down \o frames] ELSE ch[c]
           /\ \A d \in Conns : d # c => SentDown(ch, c, frames)[d] = ch[d]
<1>1. ch[c].down \o frames \in Seq(Frame)
  BY DEF Chan
<1>2. [ch[c] EXCEPT !.down = ch[c].down \o frames] \in Chan
  BY <1>1 DEF Chan
<1> QED
  BY <1>2 DEF SentDown

LEMMA OneFrame ==
    ASSUME NEW q \in Seq(Frame), NEW m \in Frame
    PROVE  <<m>> \in Seq(Frame) /\ q \o <<m>> = Append(q, m)
  OBVIOUS

LEMMA ReadAt ==
    ASSUME NEW ch \in [Conns -> Chan], link.conn \in Conns, NEW n \in 1..Len(ch[link.conn].down)
    PROVE  /\ Read(ch, n) \in [Conns -> Chan]
           /\ Read(ch, n)[link.conn] = [ch[link.conn] EXCEPT
                    !.down = SubSeq(ch[link.conn].down, n + 1, Len(ch[link.conn].down))]
           /\ \A d \in Conns : d # link.conn => Read(ch, n)[d] = ch[d]
<1>1. ch[link.conn].down \in Seq(Frame)
  BY DEF Chan
<1>2. SubSeq(ch[link.conn].down, n + 1, Len(ch[link.conn].down)) \in Seq(Frame)
  BY <1>1, SubSeqAt
<1>3. [ch[link.conn] EXCEPT !.down = SubSeq(ch[link.conn].down, n + 1, Len(ch[link.conn].down))] \in Chan
  BY <1>2 DEF Chan
<1> QED
  BY <1>3 DEF Read

LEMMA HungUpAt ==
    ASSUME NEW ch \in [Conns -> Chan], NEW c \in Conns
    PROVE  /\ HungUp(ch, c) \in [Conns -> Chan]
           /\ HungUp(ch, c)[c] = [host |-> FALSE, bridge |-> ch[c].bridge, down |-> <<>>,
                                  up |-> IF ch[c].bridge THEN ch[c].up ELSE <<>>]
           /\ \A d \in Conns : d # c => HungUp(ch, c)[d] = ch[d]
<1>1. HungUp(ch, c)[c] = [host |-> FALSE, bridge |-> ch[c].bridge, down |-> <<>>,
                          up |-> IF ch[c].bridge THEN ch[c].up ELSE <<>>]
  BY DEF HungUp, Chan
<1>2. HungUp(ch, c)[c] \in Chan
  BY <1>1 DEF Chan
<1> QED
  BY <1>1, <1>2 DEF HungUp

LEMMA RefusedAt ==
    ASSUME NEW ch \in [Conns -> Chan], NEW c \in Conns
    PROVE  /\ Refused(ch, c) \in [Conns -> Chan]
           /\ Refused(ch, c)[c] = [host |-> ch[c].host, bridge |-> FALSE, up |-> <<>>,
                                   down |-> IF ch[c].host THEN ch[c].down ELSE <<>>]
           /\ \A d \in Conns : d # c => Refused(ch, c)[d] = ch[d]
<1>1. Refused(ch, c)[c] = [host |-> ch[c].host, bridge |-> FALSE, up |-> <<>>,
                           down |-> IF ch[c].host THEN ch[c].down ELSE <<>>]
  BY DEF Refused, Chan
<1>2. Refused(ch, c)[c] \in Chan
  BY <1>1 DEF Chan
<1> QED
  BY <1>1, <1>2 DEF Refused

LEMMA TakenAt ==
    ASSUME NEW ch \in [Conns -> Chan], NEW c \in Conns, ch[c].up # <<>>
    PROVE  LET r == [ch EXCEPT ![c].up = Tail(@)]
           IN  /\ r \in [Conns -> Chan]
               /\ r[c] = [ch[c] EXCEPT !.up = Tail(ch[c].up)]
               /\ \A d \in Conns : d # c => r[d] = ch[d]
<1>1. ch[c].up \in Seq(Frame)
  BY DEF Chan
<1>2. Tail(ch[c].up) \in Seq(Frame)
  BY <1>1, FrameTail
<1>3. [ch[c] EXCEPT !.up = Tail(ch[c].up)] \in Chan
  BY <1>2 DEF Chan
<1> QED
  BY <1>3

\* The host sends one frame on a connection it has.
LEMMA HostFrame ==
    ASSUME NEW ch \in [Conns -> Chan], NEW c \in Conns, NEW m \in Frame, ch[c].host,
           NEW r, r = SentUp(ch, c, <<m>>)
    PROVE  /\ r \in [Conns -> Chan]
           /\ \A d \in Conns : r[d].host = ch[d].host /\ r[d].bridge = ch[d].bridge /\ r[d].down = ch[d].down
           /\ \A d \in Conns : d # c => r[d] = ch[d] /\ r[d].up = ch[d].up
           /\ ch[c].bridge => r[c].up = Append(ch[c].up, m)
           /\ ~ch[c].bridge => r[c] = ch[c]
<1>1. ch[c] \in Chan /\ ch[c].up \in Seq(Frame)
  BY DEF Chan
<1>2. <<m>> \in Seq(Frame) /\ ch[c].up \o <<m>> = Append(ch[c].up, m)
  BY <1>1, OneFrame
<1>3. /\ r \in [Conns -> Chan] /\ \A d \in Conns : d # c => r[d] = ch[d]
      /\ r[c] = IF ch[c].host /\ ch[c].bridge THEN [ch[c] EXCEPT !.up = ch[c].up \o <<m>>] ELSE ch[c]
  <2>1. SentUp(ch, c, <<m>>)[c] =
          IF ch[c].host /\ ch[c].bridge THEN [ch[c] EXCEPT !.up = ch[c].up \o <<m>>] ELSE ch[c]
    BY <1>2, SentUpAt
  <2>2. SentUp(ch, c, <<m>>) \in [Conns -> Chan]
    BY <1>2, SentUpAt
  <2>3. \A d \in Conns : d # c => SentUp(ch, c, <<m>>)[d] = ch[d]
    BY <1>2, SentUpAt
  <2> QED
    BY <2>1, <2>2, <2>3
<1>4. CASE ch[c].bridge
  <2>1. r[c] = [ch[c] EXCEPT !.up = Append(ch[c].up, m)]
    BY <1>2, <1>3, <1>4
  <2>2. r[c].host = ch[c].host /\ r[c].bridge = ch[c].bridge /\ r[c].down = ch[c].down
        /\ r[c].up = Append(ch[c].up, m)
    BY <1>1, <2>1 DEF Chan
  <2> QED
    BY <1>3, <1>4, <2>2
<1>5. CASE ~ch[c].bridge
  BY <1>3, <1>5
<1> QED
  BY <1>4, <1>5

\* The Bridge sends one frame on a connection it has.
LEMMA BridgeFrame ==
    ASSUME NEW ch \in [Conns -> Chan], NEW c \in Conns, NEW m \in Frame, ch[c].bridge,
           NEW r, r = SentDown(ch, c, <<m>>)
    PROVE  /\ r \in [Conns -> Chan]
           /\ \A d \in Conns : r[d].host = ch[d].host /\ r[d].bridge = ch[d].bridge /\ r[d].up = ch[d].up
           /\ \A d \in Conns : d # c => r[d] = ch[d] /\ r[d].down = ch[d].down
           /\ ch[c].host => r[c].down = Append(ch[c].down, m)
           /\ ~ch[c].host => r[c] = ch[c]
<1>1. ch[c] \in Chan /\ ch[c].down \in Seq(Frame)
  BY DEF Chan
<1>2. <<m>> \in Seq(Frame) /\ ch[c].down \o <<m>> = Append(ch[c].down, m)
  BY <1>1, OneFrame
<1>3. /\ r \in [Conns -> Chan] /\ \A d \in Conns : d # c => r[d] = ch[d]
      /\ r[c] = IF ch[c].host /\ ch[c].bridge THEN [ch[c] EXCEPT !.down = ch[c].down \o <<m>>] ELSE ch[c]
  <2>1. SentDown(ch, c, <<m>>)[c] =
          IF ch[c].host /\ ch[c].bridge THEN [ch[c] EXCEPT !.down = ch[c].down \o <<m>>] ELSE ch[c]
    BY <1>2, SentDownAt
  <2>2. SentDown(ch, c, <<m>>) \in [Conns -> Chan]
    BY <1>2, SentDownAt
  <2>3. \A d \in Conns : d # c => SentDown(ch, c, <<m>>)[d] = ch[d]
    BY <1>2, SentDownAt
  <2> QED
    BY <2>1, <2>2, <2>3
<1>4. CASE ch[c].host
  <2>1. r[c] = [ch[c] EXCEPT !.down = Append(ch[c].down, m)]
    BY <1>2, <1>3, <1>4
  <2>2. r[c].host = ch[c].host /\ r[c].bridge = ch[c].bridge /\ r[c].up = ch[c].up
        /\ r[c].down = Append(ch[c].down, m)
    BY <1>1, <2>1 DEF Chan
  <2> QED
    BY <1>3, <1>4, <2>2
<1>5. CASE ~ch[c].host
  BY <1>3, <1>5
<1> QED
  BY <1>4, <1>5

-----------------------------------------------------------------------------
(* The inductive invariant.                                                *)

Held == link.at \notin {"down", "stopped"}

\* A connection's ends: the host holds one connection, and the session's owner
\* is one the Bridge has, on which the host has asked for the session.
Wire(c) ==
    /\ chan[c].host <=> Held /\ link.conn = c
    /\ ~chan[c].host => chan[c].down = <<>>
    /\ ~chan[c].bridge => chan[c].up = <<>>
    /\ sess.owner = c => chan[c].bridge
    /\ sess.owner = c /\ chan[c].host => link.at \in {"opening", "open", "perform"}
Wired ==
    /\ Held => link.conn \in Conns
    /\ Opened /\ chan[link.conn].bridge => sess.owner = link.conn
    /\ \A c \in Conns : Wire(c)

\* A frame the host sent on c and the Bridge has not read.
UpFrame(c, i) ==
    LET m == chan[c].up[i]
    IN  /\ m.type \in {"hello", "session_open", "fact", "result", "close"}
        /\ m.type \in {"hello", "session_open"} =>
              Len(chan[c].up) = 1 /\ sess.owner # c /\ chan[c].down = <<>>
        /\ m.type = "hello" /\ chan[c].host => link.at = "hello"
        /\ m.type = "session_open" /\ chan[c].host => link.at = "opening" /\ m.open = link.state.open
        /\ m.type \in {"fact", "result", "close"} => sess.owner = c /\ (chan[c].host => Opened)
        /\ m.type = "close" => ~chan[c].host /\ i = Len(chan[c].up)
        /\ m.type = "result" => performed[m.effect] = <<m.outcome>>
UpInOrder == \A c \in Conns : \A i \in 1..Len(chan[c].up) : UpFrame(c, i)

\* A frame the Bridge sent on c and the host has not read.
DownFrame(c, i) ==
    LET m == chan[c].down[i]
    IN  /\ m.type = "hello_ok" => link.at = "hello" /\ chan[c].up = <<>> /\ Len(chan[c].down) = 1
        /\ m.type = "opened" => link.at = "opening" /\ i = 1 /\ (chan[c].bridge => sess.owner = c)
        /\ m.type = "effect" =>
              /\ fate[m.effect] # "none" /\ performed[m.effect] = <<>>
              /\ \A j \in 1..Len(chan[c].down) :
                    chan[c].down[j].type = "effect" /\ chan[c].down[j].effect = m.effect => i = j
DownInOrder == \A c \in Conns : \A i \in 1..Len(chan[c].down) : DownFrame(c, i)

\* The session the host has asked for starts with what it was given.
Given ==
    link.at = "opening" =>
        /\ ~missed => link.state = driver
        /\ sess.owner = link.conn =>
              /\ chan[link.conn].up = <<>> /\ sess.seq = 0
              /\ sess.state = [Nothing EXCEPT !.open = link.state.open]

\* What is said of an effect is what the driver did with it, once.
Did(e) ==
    /\ Len(performed[e]) <= 1
    /\ fate[e] = "none" => performed[e] = <<>>
    /\ fate[e] \in {"accepted", "unsupported"} => performed[e] = <<fate[e]>>
Performing == link.at = "perform" => link.effect \in Effects /\ performed[link.effect] = <<link.outcome>>
Performed == Performing /\ \A e \in Effects : Did(e)

\* The owner's frames are a course from the session to what the host last sent.
Arrives(p, c) ==
    chan[c].host /\ Opened =>
        /\ p[Len(chan[c].up)].seq = link.seq
        /\ ~missed => p[Len(chan[c].up)].state = driver
Coursed == \A c \in Conns : sess.owner = c => \E p : Course(p, sess, chan[c].up) /\ Arrives(p, c)

IInv == TypeOK /\ Wired /\ UpInOrder /\ DownInOrder /\ Given /\ Performed /\ Coursed

ChanOK == chan \in [Conns -> Chan]

LEMMA Typed ==
    ASSUME TypeOK
    PROVE  /\ ChanOK
           /\ \A c \in Conns : /\ chan[c] \in Chan /\ chan[c].host \in BOOLEAN /\ chan[c].bridge \in BOOLEAN
                               /\ chan[c].up \in Seq(Frame) /\ chan[c].down \in Seq(Frame)
           /\ sess.seq \in Nat /\ sess.state \in State
           /\ link.state \in State /\ link.seq \in Nat /\ driver \in State
  BY DEF TypeOK, ChanOK, Chan

LEMMA InvInit == Init => IInv
<1> SUFFICES ASSUME Init PROVE IInv
  OBVIOUS
<1> USE LinkAssumption
<1>1. TypeOK
  <2>1. chan \in [Conns -> [host : BOOLEAN, bridge : BOOLEAN, up : Seq(Frame), down : Seq(Frame)]]
    BY DEF Init, Closed
  <2>2. performed \in [Effects -> Seq({"accepted", "unsupported", "unknown"})]
    BY DEF Init
  <2>3. sess \in [life : {"absent", "active", "disconnected"}, owner : Conns \cup {None},
                  seq : Nat, state : State] /\ (sess.life = "active") = (sess.owner # None)
    BY NothingTyped DEF Init, Removed
  <2>4. link \in [at : {"down", "hello", "opening", "open", "perform", "stopped"},
                  conn : Conns \cup {None}, state : State, seq : Nat,
                  effect : Effects \cup {None}, stop : BOOLEAN,
                  outcome : {"accepted", "unsupported", "unknown"}]
    BY NothingTyped DEF Init
  <2> QED
    BY <2>1, <2>2, <2>3, <2>4, NothingTyped DEF Init, TypeOK
<1>2. \A c \in Conns : /\ ~chan[c].host /\ ~chan[c].bridge /\ chan[c].up = <<>> /\ chan[c].down = <<>>
                       /\ c # None
  BY DEF Init, Closed, LinkAssumption
<1>3. sess.owner = None /\ link.at = "down"
  BY DEF Init, Removed
<1>4. Wired
  BY <1>2, <1>3 DEF Wired, Wire, Held, Opened
<1>5. UpInOrder /\ DownInOrder
  BY <1>2 DEF UpInOrder, DownInOrder
<1>6. Given /\ Coursed
  BY <1>2, <1>3 DEF Given, Coursed
<1>7. Performed
  BY <1>3 DEF Performed, Performing, Did, Init
<1> QED
  BY <1>1, <1>4, <1>5, <1>6, <1>7 DEF IInv

-----------------------------------------------------------------------------
(* The host sends one more frame on the open session.                      *)

LEMMA HostSends ==
    ASSUME IInv, Opened, NEW m \in Frame, m.type \in {"fact", "result"},
           chan' = SentUp(chan, link.conn, <<m>>),
           link'.at \in {"open", "perform"}, link'.conn = link.conn,
           link'.seq = IF m.type = "fact" THEN link.seq + 1 ELSE link.seq,
           m.type = "result" => performed[m.effect] = <<m.outcome>> /\ driver' = driver,
           m.type = "fact" => m.seq = link.seq + 1 /\ driver' = Applied(driver, m.fact),
           UNCHANGED <<sess, fate, performed, missed>>
    PROVE  Wired' /\ UpInOrder' /\ DownInOrder' /\ Given' /\ Coursed' /\ ChanOK'
<1>1. /\ Wired /\ UpInOrder /\ DownInOrder /\ Coursed /\ TypeOK /\ Held /\ Held' /\ Opened'
      /\ link.at \in {"open", "perform"}
  BY DEF IInv, Opened, Held
<1>2. PICK c \in Conns : link.conn = c /\ link'.conn = c
  BY <1>1 DEF Wired
<1>3. chan[c].host
  BY <1>1, <1>2 DEF Wired, Wire
<1>4. chan \in [Conns -> Chan] /\ chan[c].up \in Seq(Frame)
  BY <1>1, <1>3, Typed DEF ChanOK
<1>5. /\ chan' \in [Conns -> Chan]
      /\ \A d \in Conns : /\ chan'[d].host = chan[d].host /\ chan'[d].bridge = chan[d].bridge
                          /\ chan'[d].down = chan[d].down
                          /\ d # c => chan'[d] = chan[d] /\ chan'[d].up = chan[d].up
      /\ chan[c].bridge => chan'[c].up = Append(chan[c].up, m)
      /\ ~chan[c].bridge => chan'[c] = chan[c]
  <2>1. chan' = SentUp(chan, c, <<m>>)
    BY <1>2
  <2> QED
    BY <1>3, <1>4, <2>1, HostFrame
<1>6. Wired'
  <2>1. \A d \in Conns : Wire(d)
    BY <1>1 DEF Wired
  <2>2. \A d \in Conns : Wire(d)'
    BY <1>1, <1>5, <1>2, <2>1 DEF Wire
  <2> QED
    BY <1>1, <1>3, <1>5, <1>2, <2>2 DEF Wired
<1>7. CASE ~chan[c].bridge
  <2>1. \A d \in Conns : chan'[d] = chan[d]
    BY <1>5, <1>7
  <2>2. UpInOrder'
    <3>1. ASSUME NEW d \in Conns, NEW i \in 1..Len(chan'[d].up)
          PROVE  UpFrame(d, i)'
      <4>1. chan'[d] = chan[d] /\ UpFrame(d, i)
        BY <1>1, <2>1 DEF UpInOrder
      <4>2. /\ chan[d].up[i].type = "hello" => ~chan[d].host
            /\ chan[d].up[i].type = "session_open" => ~chan[d].host
        BY <1>1, <4>1 DEF UpFrame
      <4> QED
        BY <1>1, <4>1, <4>2 DEF UpFrame
    <3> QED
      BY <3>1 DEF UpInOrder
  <2>3. DownInOrder'
    BY <1>1, <2>1 DEF DownInOrder, DownFrame
  <2>4. \A d \in Conns : sess.owner = d /\ chan[d].host => FALSE
    BY <1>1, <1>2, <1>7 DEF Wired, Wire
  <2>5. Coursed'
    BY <1>1, <2>1, <2>4 DEF Coursed, Arrives
  <2> QED
    BY <1>1, <1>5, <1>6, <2>2, <2>3, <2>5 DEF Given, Opened, ChanOK
<1>8. CASE chan[c].bridge
  <2>1. sess.owner = c
    BY <1>1, <1>2, <1>8 DEF Wired, Opened
  <2>2. chan'[c].up = Append(chan[c].up, m) /\ chan[c].up \in Seq(Frame)
    BY <1>4, <1>5, <1>8
  <2>3. \A i \in 1..Len(chan[c].up) : /\ chan[c].up[i].type \notin {"hello", "session_open", "close"}
                                      /\ UpFrame(c, i) /\ chan'[c].up[i] = chan[c].up[i]
    <3> TAKE i \in 1..Len(chan[c].up)
    <3>1. UpFrame(c, i)
      BY <1>1, <1>3 DEF UpInOrder
    <3>2. chan'[c].up[i] = chan[c].up[i]
      <4>1. Append(chan[c].up, m)[i] = chan[c].up[i]
        BY <2>2, FrameAppended
      <4> QED
        BY <2>2, <4>1
    <3> QED
      BY <1>3, <2>1, <3>1, <3>2 DEF UpFrame
  <2>4. UpInOrder'
    <3>1. ASSUME NEW d \in Conns, NEW i \in 1..Len(chan'[d].up)
          PROVE  UpFrame(d, i)'
      <4>1. CASE d # c
        <5>1. chan'[d] = chan[d] /\ UpFrame(d, i) /\ ~chan[d].host
          BY <1>1, <1>5, <1>2, <4>1 DEF UpInOrder, Wired, Wire
        <5> QED
          BY <1>1, <1>3, <5>1 DEF UpFrame
      <4>2. CASE d = c /\ i \in 1..Len(chan[c].up)
        <5>1. UpFrame(c, i) /\ chan'[c].up[i] = chan[c].up[i]
              /\ chan[c].up[i].type \notin {"hello", "session_open", "close"}
          BY <2>3, <4>2
        <5> QED
          BY <1>1, <2>1, <4>2, <5>1 DEF UpFrame
      <4>3. CASE d = c /\ i = Len(chan[c].up) + 1
        <5>1. chan'[d].up[i] = m
          BY <2>2, <4>3, FrameAppended
        <5> QED
          BY <1>1, <2>1, <4>3, <5>1 DEF UpFrame
      <4> QED
        BY <2>2, <4>1, <4>2, <4>3, FrameAppended
    <3> QED
      BY <3>1 DEF UpInOrder
  <2>5. DownInOrder'
    <3>1. ASSUME NEW d \in Conns, NEW i \in 1..Len(chan[d].down)
          PROVE  DownFrame(d, i)'
      <4>1. DownFrame(d, i) /\ chan[d].down[i].type # "hello_ok" /\ chan[d].down[i].type # "opened"
        BY <1>1 DEF DownInOrder, DownFrame
      <4> QED
        BY <1>5, <4>1 DEF DownFrame
    <3> QED
      BY <1>5, <3>1 DEF DownInOrder
  <2>6. Coursed'
    <3>1. PICK p : Course(p, sess, chan[c].up) /\ Arrives(p, c)
      BY <1>1, <1>3, <2>1 DEF Coursed
    <3>2. p[Len(chan[c].up)].seq = link.seq /\ (~missed => p[Len(chan[c].up)].state = driver)
      BY <1>1, <1>3, <3>1 DEF Arrives
    <3>3. p[Len(chan[c].up)] \in Point
      BY <2>2, <3>1, FrameAppended DEF Course
    <3>4. PICK b \in Point : /\ Goes(p[Len(chan[c].up)], b, m)
                             /\ b.seq = link'.seq /\ (~missed => b.state = driver')
      <4>1. CASE m.type = "fact"
        <5> DEFINE b == [seq |-> link.seq + 1, state |-> Applied(p[Len(chan[c].up)].state, m.fact)]
        <5>1. b \in Point
          BY <1>1, <3>3, <4>1, Typed, FrameFields, AppliedTyped DEF Point
        <5>2. Goes(p[Len(chan[c].up)], b, m)
          BY <3>2, <4>1 DEF Goes
        <5> QED
          BY <3>2, <4>1, <5>1, <5>2
      <4>2. CASE m.type # "fact"
        BY <3>2, <3>3, <4>2 DEF Goes
      <4> QED
        BY <4>1, <4>2
    <3>5. PICK r : Course(r, sess, chan'[c].up) /\ r[Len(chan'[c].up)] = b
      <4>1. \E r : Course(r, sess, Append(chan[c].up, m)) /\ r[Len(Append(chan[c].up, m))] = b
        BY <2>2, <3>1, <3>4, CourseAppend
      <4> QED
        BY <2>2, <4>1
    <3>6. Course(r, sess', chan'[c].up) /\ Arrives(r, c)'
      <4>1. r[Len(chan'[c].up)].seq = link'.seq /\ (~missed => r[Len(chan'[c].up)].state = driver')
        BY <3>4, <3>5
      <4> QED
        BY <3>5, <4>1 DEF Arrives
    <3>7. \A d \in Conns : sess'.owner = d => d = c
      BY <2>1
    <3> QED
      BY <3>6, <3>7 DEF Coursed
  <2> QED
    BY <1>1, <1>5, <1>6, <2>4, <2>5, <2>6 DEF Given, Opened, ChanOK
<1> QED
  BY <1>7, <1>8

\* What HostSends and the other steps leave of the types.
LinkOK == link \in [at : {"down", "hello", "opening", "open", "perform", "stopped"},
                    conn : Conns \cup {None}, state : State, seq : Nat,
                    effect : Effects \cup {None}, stop : BOOLEAN,
                    outcome : {"accepted", "unsupported", "unknown"}]
SessOK == /\ sess \in [life : {"absent", "active", "disconnected"}, owner : Conns \cup {None},
                       seq : Nat, state : State]
          /\ (sess.life = "active") = (sess.owner # None)
FateOK == fate \in [Effects -> {"none", "sent", "accepted", "unsupported", "failed"}]
PerformedOK == performed \in [Effects -> Seq({"accepted", "unsupported", "unknown"})]

LEMMA TypeParts ==
    TypeOK <=> driver \in State /\ LinkOK /\ ChanOK /\ SessOK /\ FateOK /\ PerformedOK /\ missed \in BOOLEAN
  BY DEF TypeOK, LinkOK, ChanOK, Chan, SessOK, FateOK, PerformedOK

LEMMA DriverKeeps ==
    ASSUME IInv, DriverChanges
    PROVE  IInv'
<1>1. PICK f \in Changes : driver' = Applied(driver, f) /\ Emit(f)
  BY DEF DriverChanges
<1>2. f \in Change /\ UNCHANGED <<sess, fate, performed>>
  BY DEF Changes, DriverChanges
<1>3. TypeOK /\ driver' \in State
  BY <1>1, <1>2, Typed, AppliedTyped DEF IInv
<1>4. CASE Opened
  <2> DEFINE m == [type |-> "fact", seq |-> link.seq + 1, fact |-> f]
  <2>1. /\ chan' = SentUp(chan, link.conn, <<m>>) /\ UNCHANGED missed
        /\ link' = [link EXCEPT !.seq = @ + 1]
    BY <1>1, <1>4 DEF Emit, EmitNumbering
  <2>2. link.seq \in Nat /\ link.seq + 1 \in Nat /\ LinkOK
    BY <1>3, Typed, TypeParts
  <2>3. LinkOK' /\ link'.at = link.at /\ link'.conn = link.conn /\ link'.seq = link.seq + 1
        /\ link'.effect = link.effect /\ link'.outcome = link.outcome
    BY <2>1, <2>2 DEF LinkOK
  <2>4. m \in Frame /\ m.type = "fact" /\ m.seq = link.seq + 1 /\ m.fact = f
    BY <1>2, <2>2, FactFrame
  <2> HIDE DEF m
  <2>5. Wired' /\ UpInOrder' /\ DownInOrder' /\ Given' /\ Coursed' /\ ChanOK'
    BY <1>1, <1>2, <1>4, <2>1, <2>3, <2>4, HostSends DEF Opened
  <2>6. TypeOK'
    <3>1. SessOK' /\ FateOK' /\ PerformedOK'
      BY <1>2, <1>3, TypeParts DEF SessOK, FateOK, PerformedOK
    <3> QED
      BY <1>3, <2>1, <2>3, <2>5, <3>1 DEF TypeOK, LinkOK, ChanOK, Chan, SessOK, FateOK, PerformedOK
  <2>7. Performed'
    BY <1>2, <2>3 DEF IInv, Performed, Performing, Did
  <2> QED
    BY <2>5, <2>6, <2>7 DEF IInv
<1>5. CASE ~Opened
  <2>1. missed' = (missed \/ link.at = "opening") /\ UNCHANGED <<chan, link>>
    BY <1>1, <1>5 DEF Emit
  <2>2. TypeOK'
    <3>1. missed' \in BOOLEAN
      BY <1>3, <2>1 DEF TypeOK
    <3> QED
      BY <1>2, <1>3, <2>1, <3>1 DEF TypeOK
  <2>3. Wired' /\ UpInOrder' /\ DownInOrder' /\ Performed'
    BY <1>2, <2>1 DEF IInv, Wired, Wire, Held, Opened, UpInOrder, UpFrame, DownInOrder, DownFrame,
                      Performed, Performing, Did
  <2>4. Given'
    BY <1>2, <2>1 DEF IInv, Given
  <2>5. Coursed'
    BY <1>2, <1>5, <2>1 DEF IInv, Coursed, Arrives, Opened
  <2> QED
    BY <2>2, <2>3, <2>4, <2>5 DEF IInv
<1> QED
  BY <1>4, <1>5

\* The link's thread is back from the driver: the outcome is reported, or nobody knows it.
LEMMA PerformKeeps ==
    ASSUME IInv, Perform
    PROVE  IInv'
<1> USE DEF AnswerOutcome
<1>1. /\ link.at = "perform" /\ UNCHANGED <<driver, sess, fate, performed, missed, spent>>
      /\ link' = [link EXCEPT !.at = "open", !.effect = None, !.outcome = "unknown"]
  BY DEF Perform
<1>2. TypeOK /\ LinkOK /\ Opened
  BY <1>1, TypeParts DEF IInv, Opened
<1>3. /\ LinkOK' /\ Opened'
      /\ link'.at = "open" /\ link'.conn = link.conn /\ link'.seq = link.seq /\ link'.state = link.state
  BY <1>1, <1>2 DEF LinkOK, Opened
<1>4. Performed'
  BY <1>1, <1>3 DEF IInv, Performed, Performing, Did
<1>5. SessOK' /\ FateOK' /\ PerformedOK' /\ driver' \in State /\ missed' \in BOOLEAN
  BY <1>1, <1>2, TypeParts DEF SessOK, FateOK, PerformedOK
<1>6. Wired' /\ UpInOrder' /\ DownInOrder' /\ Given' /\ Coursed' /\ ChanOK'
  <2>1. CASE link.outcome = "unknown"
    <3>1. chan' = chan
      BY <2>1 DEF Perform
    <3>2. Wired'
      BY <1>1, <1>2, <1>3, <3>1 DEF IInv, Wired, Wire, Held, Opened
    <3>3. UpInOrder'
      <4>1. ASSUME NEW c \in Conns, NEW i \in 1..Len(chan[c].up)
            PROVE  UpFrame(c, i)'
        <5>1. UpFrame(c, i) /\ Wire(c)
          BY DEF IInv, UpInOrder, Wired
        <5> QED
          BY <1>1, <1>2, <1>3, <3>1, <5>1 DEF UpFrame, Wire
      <4> QED
        BY <3>1, <4>1 DEF UpInOrder
    <3>4. DownInOrder'
      <4>1. ASSUME NEW c \in Conns, NEW i \in 1..Len(chan[c].down)
            PROVE  DownFrame(c, i)'
        <5>1. DownFrame(c, i)
          BY DEF IInv, DownInOrder
        <5> QED
          BY <1>1, <1>3, <3>1, <5>1 DEF DownFrame
      <4> QED
        BY <3>1, <4>1 DEF DownInOrder
    <3>5. Coursed'
      BY <1>1, <1>2, <1>3, <3>1 DEF IInv, Coursed, Arrives
    <3> QED
      BY <1>2, <1>3, <3>1, <3>2, <3>3, <3>4, <3>5, TypeParts DEF Given, ChanOK
  <2>2. CASE link.outcome # "unknown"
    <3> DEFINE m == [type |-> "result", effect |-> link.effect, outcome |-> link.outcome]
    <3>1. chan' = SentUp(chan, link.conn, <<m>>)
      BY <2>2 DEF Perform
    <3>2. link.effect \in Effects /\ performed[link.effect] = <<link.outcome>>
      BY <1>1 DEF IInv, Performed, Performing
    <3>3. m \in Frame /\ m.type = "result" /\ m.effect = link.effect /\ m.outcome = link.outcome
      <4>1. link.outcome \in {"accepted", "unsupported"}
        BY <1>2, <2>2 DEF LinkOK
      <4> QED
        BY <3>2, <4>1 DEF Frame
    <3> HIDE DEF m
    <3> QED
      BY <1>1, <1>2, <1>3, <3>1, <3>2, <3>3, HostSends
  <2> QED
    BY <2>1, <2>2
<1>7. TypeOK'
  BY <1>3, <1>5, <1>6 DEF TypeOK, LinkOK, ChanOK, Chan, SessOK, FateOK, PerformedOK
<1> QED
  BY <1>4, <1>6, <1>7 DEF IInv

-----------------------------------------------------------------------------
(* The host connects, asks for the session and has it.                     *)

LEMMA ConnectKeeps ==
    ASSUME IInv, Connect
    PROVE  IInv'
<1>1. PICK c \in Conns : /\ chan[c] = Closed /\ link' = [link EXCEPT !.at = "hello", !.conn = c]
                         /\ chan' = [chan EXCEPT ![c] = [Closed EXCEPT !.host = TRUE, !.bridge = TRUE,
                                                                       !.up = <<[type |-> "hello"]>>]]
  BY DEF Connect
<1>2. /\ link.at = "down" /\ UNCHANGED <<driver, sess, fate, performed, missed, spent>>
      /\ TypeOK /\ LinkOK /\ ChanOK
  BY TypeParts DEF Connect, IInv
<1>3. LinkOK' /\ link'.at = "hello" /\ link'.conn = c
  BY <1>1, <1>2 DEF LinkOK
<1>4. /\ chan'[c].host /\ chan'[c].bridge /\ chan'[c].down = <<>> /\ chan'[c].up = <<[type |-> "hello"]>>
      /\ \A d \in Conns : d # c => chan'[d] = chan[d]
      /\ ~chan[c].host /\ ~chan[c].bridge
      /\ ChanOK'
  <2> DEFINE h == <<[type |-> "hello"]>>
             v == [Closed EXCEPT !.host = TRUE, !.bridge = TRUE, !.up = h]
  <2>1. h \in Seq(Frame)
    BY PlainFrame
  <2> HIDE DEF h
  <2>2. v \in Chan /\ v.host /\ v.bridge /\ v.down = <<>> /\ v.up = h
    <3>1. Closed \in Chan /\ Closed.down = <<>>
      BY DEF Closed, Chan
    <3> QED
      BY <2>1, <3>1 DEF Chan
  <2> HIDE DEF v
  <2>3. chan' \in [Conns -> Chan] /\ chan'[c] = v /\ \A d \in Conns : d # c => chan'[d] = chan[d]
    BY <1>1, <1>2, <2>2 DEF ChanOK, v, h
  <2> QED
    BY <1>1, <2>2, <2>3 DEF ChanOK, Closed, h
<1>5. sess.owner # c /\ \A d \in Conns : Wire(d) /\ ~chan[d].host
  BY <1>2, <1>4 DEF IInv, Wired, Wire, Held
<1>6. Wired'
  BY <1>2, <1>3, <1>4, <1>5 DEF Wired, Wire, Held, Opened
<1>7. UpInOrder'
  <2>1. ASSUME NEW d \in Conns, NEW i \in 1..Len(chan'[d].up)
        PROVE  UpFrame(d, i)'
    <3>1. CASE d = c
      <4>1. Len(chan'[c].up) = 1 /\ chan'[d].up[i] = [type |-> "hello"]
        BY <1>4, <3>1
      <4>2. chan'[d].up[i].type = "hello"
        BY <4>1
      <4> QED
        BY <1>2, <1>3, <1>4, <1>5, <3>1, <4>1, <4>2 DEF UpFrame
    <3>2. CASE d # c
      <4>1. UpFrame(d, i) /\ chan'[d] = chan[d] /\ ~chan[d].host
        BY <1>4, <1>5, <3>2 DEF IInv, UpInOrder
      <4> QED
        BY <1>2, <4>1 DEF UpFrame
    <3> QED
      BY <3>1, <3>2
  <2> QED
    BY <2>1 DEF UpInOrder
<1>8. DownInOrder'
  <2>1. \A d \in Conns : Len(chan'[d].down) = 0
    BY <1>4, <1>5 DEF Wire
  <2> QED
    BY <2>1 DEF DownInOrder
<1>9. Given' /\ Performed'
  BY <1>2, <1>3 DEF IInv, Given, Performed, Performing, Did
<1>10. Coursed'
  <2>1. ASSUME NEW d \in Conns, sess'.owner = d
        PROVE  \E p : Course(p, sess', chan'[d].up) /\ Arrives(p, d)'
    <3>1. d # c /\ chan'[d] = chan[d] /\ ~chan[d].host
      BY <1>2, <1>4, <1>5, <2>1
    <3>2. PICK p : Course(p, sess, chan[d].up)
      BY <1>2, <2>1 DEF IInv, Coursed
    <3> QED
      BY <1>2, <3>1, <3>2 DEF Arrives
  <2> QED
    BY <2>1 DEF Coursed
<1>11. TypeOK'
  BY <1>2, <1>3, <1>4 DEF TypeOK, LinkOK, ChanOK, Chan
<1> QED
  BY <1>6, <1>7, <1>8, <1>9, <1>10, <1>11 DEF IInv

LEMMA OpenKeeps ==
    ASSUME IInv, Open
    PROVE  IInv'
<1>1. PICK n \in Expected("hello_ok") :
         chan' = SentUp(Read(chan, n), link.conn, <<[type |-> "session_open", open |-> driver.open]>>)
  BY DEF Open
<1>2. /\ link.at = "hello" /\ missed' = FALSE /\ UNCHANGED <<driver, sess, fate, performed, spent>>
      /\ link' = [link EXCEPT !.at = "opening", !.state = driver]
      /\ TypeOK /\ LinkOK /\ ChanOK /\ driver \in State
  BY TypeParts DEF Open, IInv, ReadState
<1>3. LinkOK' /\ link'.at = "opening" /\ link'.conn = link.conn /\ link'.state = driver
  BY <1>2 DEF LinkOK
<1>4. PICK c \in Conns : link.conn = c
  BY <1>2 DEF IInv, Wired, Held
<1>5. chan[c].host /\ sess.owner # c /\ (~chan[c].bridge => chan[c].up = <<>>) /\ \A d \in Conns : Wire(d)
  BY <1>2, <1>4 DEF IInv, Wired, Wire, Held
<1>6. n \in 1..Len(chan[c].down) /\ chan[c].up = <<>> /\ Len(chan[c].down) = 1
  <2>1. PICK i \in 1..n : n \in 1..Len(chan[c].down) /\ chan[c].down[i].type = "hello_ok"
    BY <1>4 DEF Expected
  <2>2. i \in 1..Len(chan[c].down)
    BY <2>1
  <2> QED
    BY <2>1, <2>2 DEF IInv, DownInOrder, DownFrame
<1> DEFINE m == [type |-> "session_open", open |-> driver.open]
           ch == Read(chan, n)
<1>7. m \in Frame /\ m.type = "session_open" /\ m.open = driver.open
  BY <1>2 DEF State, Frame
<1>8. /\ ch \in [Conns -> Chan] /\ \A d \in Conns : d # c => ch[d] = chan[d]
      /\ ch[c].host /\ ch[c].bridge = chan[c].bridge /\ ch[c].down = <<>> /\ ch[c].up = <<>>
  <2>1. n = 1 /\ chan[c] \in Chan /\ chan[c].down \in Seq(Frame)
    BY <1>2, <1>6 DEF ChanOK, Chan
  <2>2. SubSeq(chan[c].down, n + 1, Len(chan[c].down)) = <<>>
    BY <1>6, <2>1
  <2>3. /\ ch \in [Conns -> Chan] /\ \A d \in Conns : d # c => ch[d] = chan[d]
        /\ ch[c] = [chan[c] EXCEPT !.down = SubSeq(chan[c].down, n + 1, Len(chan[c].down))]
    BY <1>2, <1>4, <1>6, ReadAt DEF ChanOK
  <2> HIDE DEF ch
  <2> QED
    BY <1>5, <1>6, <2>1, <2>2, <2>3 DEF Chan
<1>9. chan' = SentUp(ch, c, <<m>>)
  BY <1>1, <1>4
<1> HIDE DEF m, ch
<1>10. /\ ChanOK' /\ chan'[c].host /\ chan'[c].bridge = chan[c].bridge /\ chan'[c].down = <<>>
       /\ chan[c].bridge => chan'[c].up = <<m>>
       /\ ~chan[c].bridge => chan'[c].up = <<>>
       /\ \A d \in Conns : d # c => chan'[d] = chan[d]
  <2>1. Append(<<>>, m) = <<m>>
    OBVIOUS
  <2>2. /\ chan' \in [Conns -> Chan]
        /\ \A d \in Conns : chan'[d].host = ch[d].host /\ chan'[d].bridge = ch[d].bridge
                            /\ chan'[d].down = ch[d].down
        /\ \A d \in Conns : d # c => chan'[d] = ch[d]
        /\ ch[c].bridge => chan'[c].up = Append(ch[c].up, m)
        /\ ~ch[c].bridge => chan'[c] = ch[c]
    BY <1>7, <1>8, <1>9, HostFrame
  <2> QED
    BY <1>7, <1>8, <1>9, <2>1, <2>2 DEF ChanOK
<1>11. \A d \in Conns : d # c => ~chan[d].host /\ chan[d].down = <<>>
  BY <1>4, <1>5 DEF Wire
<1>12. Wired'
  BY <1>2, <1>3, <1>4, <1>5, <1>10 DEF Wired, Wire, Held, Opened
<1>13. UpInOrder'
  <2>1. ASSUME NEW d \in Conns, NEW i \in 1..Len(chan'[d].up)
        PROVE  UpFrame(d, i)'
    <3>1. CASE d = c
      <4>1. chan'[c].up = <<m>> /\ i = 1
        <5>1. chan'[c].up # <<>>
          BY <3>1
        <5>2. chan'[c].up = <<m>>
          BY <1>10, <5>1
        <5>3. Len(<<m>>) = 1
          OBVIOUS
        <5>4. i \in 1..1
          BY <3>1, <5>2, <5>3
        <5> QED
          BY <5>2, <5>4
      <4>2. Len(chan'[c].up) = 1 /\ chan'[d].up[i] = m
        BY <3>1, <4>1
      <4> QED
        BY <1>2, <1>3, <1>5, <1>7, <1>10, <3>1, <4>2 DEF UpFrame
    <3>2. CASE d # c
      <4>1. UpFrame(d, i) /\ chan'[d] = chan[d] /\ ~chan[d].host
        BY <1>10, <1>11, <3>2 DEF IInv, UpInOrder
      <4> QED
        BY <1>2, <4>1 DEF UpFrame
    <3> QED
      BY <3>1, <3>2
  <2> QED
    BY <2>1 DEF UpInOrder
<1>14. DownInOrder'
  <2>1. \A d \in Conns : Len(chan'[d].down) = 0
    BY <1>10, <1>11
  <2> QED
    BY <2>1 DEF DownInOrder
<1>15. Given' /\ Performed'
  BY <1>2, <1>3, <1>4, <1>5 DEF IInv, Given, Performed, Performing, Did
<1>16. Coursed'
  <2>1. ASSUME NEW d \in Conns, sess'.owner = d
        PROVE  \E p : Course(p, sess', chan'[d].up) /\ Arrives(p, d)'
    <3>1. d # c /\ chan'[d] = chan[d] /\ ~chan[d].host
      BY <1>2, <1>5, <1>10, <1>11, <2>1
    <3>2. PICK p : Course(p, sess, chan[d].up)
      BY <1>2, <2>1 DEF IInv, Coursed
    <3> QED
      BY <1>2, <3>1, <3>2 DEF Arrives
  <2> QED
    BY <2>1 DEF Coursed
<1>17. TypeOK'
  BY <1>2, <1>3, <1>10 DEF TypeOK, LinkOK, ChanOK, Chan
<1> QED
  BY <1>12, <1>13, <1>14, <1>15, <1>16, <1>17 DEF IInv

\* The facts a are numbered from one on, and lead from t to x.
Reaches(t, a, x) ==
    /\ a \in Seq(Change)
    /\ Numbered(a, 0) \in Seq(Frame) /\ Len(Numbered(a, 0)) = Len(a)
    /\ \A i \in 1..Len(a) : Numbered(a, 0)[i].type = "fact"
    /\ \E p : Course(p, t, Numbered(a, 0)) /\ p[Len(a)] = [seq |-> Len(a), state |-> x]

LEMMA ReachesNone ==
    ASSUME NEW t, t.seq = 0, t.state \in State
    PROVE  Reaches(t, <<>>, t.state)
<1>1. Numbered(<<>>, 0) = <<>> /\ Len(<<>>) = 0
  BY DEF Numbered
<1>2. \E p : Course(p, t, <<>>) /\ p[Len(<<>>)] = [seq |-> t.seq, state |-> t.state]
  BY CourseStays
<1>3. <<>> \in Seq(Change) /\ <<>> \in Seq(Frame)
  OBVIOUS
<1>4. \E p : Course(p, t, Numbered(<<>>, 0)) /\ p[Len(<<>>)] = [seq |-> Len(<<>>), state |-> t.state]
  BY <1>1, <1>2
<1>5. \A i \in 1..Len(<<>>) : Numbered(<<>>, 0)[i].type = "fact"
  BY <1>1
<1> QED
  BY <1>1, <1>3, <1>4, <1>5 DEF Reaches

LEMMA ReachesMore ==
    ASSUME NEW t, NEW a, NEW x \in State, Reaches(t, a, x), NEW f \in Change
    PROVE  Reaches(t, Append(a, f), Applied(x, f))
<1> DEFINE m == [type |-> "fact", seq |-> Len(a) + 1, fact |-> f]
<1>1. a \in Seq(Change) /\ Len(a) \in Nat /\ Len(a) + 1 \in Nat
  BY DEF Reaches
<1>2. m \in Frame /\ m.type = "fact" /\ m.seq = Len(a) + 1 /\ m.fact = f
  BY <1>1, FactFrame
<1>3. /\ Append(a, f) \in Seq(Change) /\ Len(Append(a, f)) = Len(a) + 1
      /\ Append(a, f)[Len(a) + 1] = f /\ \A i \in 1..Len(a) : Append(a, f)[i] = a[i]
  BY <1>1
<1>4. Numbered(a, 0) \in Seq(Frame) /\ Len(Numbered(a, 0)) = Len(a)
  BY DEF Reaches
<1>5. Numbered(Append(a, f), 0) = Append(Numbered(a, 0), m)
  <2>1. Numbered(Append(a, f), 0) =
          [i \in 1..(Len(a) + 1) |-> [type |-> "fact", seq |-> 0 + i, fact |-> Append(a, f)[i]]]
    BY <1>3 DEF Numbered
  <2>2. Numbered(a, 0) = [i \in 1..Len(a) |-> [type |-> "fact", seq |-> 0 + i, fact |-> a[i]]]
    BY DEF Numbered
  <2>3. Append(Numbered(a, 0), m) =
          [i \in 1..(Len(a) + 1) |-> IF i = Len(a) + 1 THEN m ELSE Numbered(a, 0)[i]]
    BY <1>1, <1>2, <1>4, FrameAppended
  <2>4. \A i \in 1..(Len(a) + 1) :
          [type |-> "fact", seq |-> 0 + i, fact |-> Append(a, f)[i]]
            = IF i = Len(a) + 1 THEN m ELSE Numbered(a, 0)[i]
    <3> TAKE i \in 1..(Len(a) + 1)
    <3>1. CASE i = Len(a) + 1
      BY <1>1, <1>3, <3>1
    <3>2. CASE i # Len(a) + 1
      <4>1. i \in 1..Len(a)
        BY <1>1, <3>2
      <4> QED
        BY <1>3, <2>2, <3>2, <4>1
    <3> QED
      BY <3>1, <3>2
  <2> QED
    BY <2>1, <2>3, <2>4
<1> HIDE DEF m
<1>6. \A i \in 1..(Len(a) + 1) : Append(Numbered(a, 0), m)[i].type = "fact"
  <2> TAKE i \in 1..(Len(a) + 1)
  <2>1. CASE i \in 1..Len(a)
    <3>1. Append(Numbered(a, 0), m)[i] = Numbered(a, 0)[i]
      BY <1>2, <1>4, <2>1, FrameAppended
    <3> QED
      BY <2>1, <3>1 DEF Reaches
  <2>2. CASE i \notin 1..Len(a)
    <3>1. i = Len(a) + 1
      BY <1>1, <2>2
    <3> QED
      BY <1>2, <1>4, <3>1, FrameAppended
  <2> QED
    BY <2>1, <2>2
<1>7. PICK p : Course(p, t, Numbered(a, 0)) /\ p[Len(a)] = [seq |-> Len(a), state |-> x]
  BY DEF Reaches
<1> DEFINE b == [seq |-> Len(a) + 1, state |-> Applied(x, f)]
<1>8. b \in Point /\ Goes(p[Len(a)], b, m)
  BY <1>1, <1>2, <1>7, AppliedTyped DEF Point, Goes
<1> HIDE DEF b
<1>9. Goes(p[Len(Numbered(a, 0))], b, m)
  BY <1>4, <1>8
<1>10. /\ Append(Numbered(a, 0), m) \in Seq(Frame)
       /\ Len(Append(Numbered(a, 0), m)) = Len(a) + 1
  BY <1>2, <1>4, FrameAppended
<1>11. \E r : Course(r, t, Append(Numbered(a, 0), m)) /\ r[Len(Append(Numbered(a, 0), m))] = b
  BY <1>2, <1>4, <1>7, <1>8, <1>9, CourseAppend
<1> QED
  BY <1>3, <1>5, <1>6, <1>10, <1>11 DEF Reaches, b

LEMMA ReachesMaybe ==
    ASSUME NEW t, NEW a, NEW x \in State, Reaches(t, a, x), NEW f \in Change, NEW says \in BOOLEAN
    PROVE  Reaches(t, a \o (IF says THEN <<f>> ELSE <<>>), IF says THEN Applied(x, f) ELSE x)
<1>1. a \in Seq(Change)
  BY DEF Reaches
<1>2. a \o <<f>> = Append(a, f) /\ a \o <<>> = a
  BY <1>1
<1>3. CASE says
  BY <1>2, <1>3, ReachesMore
<1>4. CASE ~says
  BY <1>2, <1>4
<1> QED
  BY <1>3, <1>4

\* Reporting the driver's state leads from what session_open said to that state.
LEMMA Reported ==
    ASSUME NEW s \in State, NEW t, t.seq = 0, t.state = [Nothing EXCEPT !.open = s.open]
    PROVE  Reaches(t, Report(s), s)
<1> DEFINE f1 == [kind |-> "ready"]
           f2 == [kind |-> "turn_started"]
           f3 == [kind |-> "status", on |-> TRUE]
           a1 == IF s.ready THEN <<f1>> ELSE <<>>
           a2 == IF s.turn THEN <<f2>> ELSE <<>>
           a3 == IF s.attention THEN <<f3>> ELSE <<>>
           x1 == IF s.ready THEN Applied(t.state, f1) ELSE t.state
           x2 == IF s.turn THEN Applied(x1, f2) ELSE x1
           x3 == IF s.attention THEN Applied(x2, f3) ELSE x2
<1>1. f1 \in Change /\ f2 \in Change /\ f3 \in Change
  BY DEF Change
<1>2. s.ready \in BOOLEAN /\ s.turn \in BOOLEAN /\ s.attention \in BOOLEAN /\ s.open \in SUBSET Requests
  BY DEF State
<1>3. t.state \in State
  BY <1>2, NothingTyped
<1>4. t.state.ready = FALSE /\ t.state.turn = FALSE /\ t.state.attention = FALSE /\ t.state.open = s.open
  BY DEF Nothing
<1>5. x1 \in State /\ x1.ready = s.ready /\ x1.turn = FALSE /\ x1.attention = FALSE /\ x1.open = s.open
  <2>1. CASE s.ready
    <3>1. x1 = [t.state EXCEPT !.ready = TRUE] /\ x1 \in State /\ s.ready = TRUE
      BY <1>1, <1>2, <1>3, <2>1, AppliedTyped DEF Applied
    <3> QED
      BY <1>3, <1>4, <3>1 DEF State
  <2>2. CASE ~s.ready
    BY <1>2, <1>3, <1>4, <2>2
  <2> QED
    BY <2>1, <2>2
<1> HIDE DEF x1
<1>6. x2 \in State /\ x2.ready = s.ready /\ x2.turn = s.turn /\ x2.attention = FALSE /\ x2.open = s.open
  <2>1. CASE s.turn
    <3>1. x2 = [x1 EXCEPT !.turn = TRUE] /\ x2 \in State /\ s.turn = TRUE
      BY <1>1, <1>2, <1>5, <2>1, AppliedTyped DEF Applied
    <3> QED
      BY <1>5, <3>1 DEF State
  <2>2. CASE ~s.turn
    BY <1>2, <1>5, <2>2
  <2> QED
    BY <2>1, <2>2
<1> HIDE DEF x2
<1>7. x3 \in State /\ x3.ready = s.ready /\ x3.turn = s.turn /\ x3.attention = s.attention /\ x3.open = s.open
  <2>1. CASE s.attention
    <3>1. x3 = [x2 EXCEPT !.attention = TRUE] /\ x3 \in State /\ s.attention = TRUE
      BY <1>1, <1>2, <1>6, <2>1, AppliedTyped DEF Applied
    <3> QED
      BY <1>6, <3>1 DEF State
  <2>2. CASE ~s.attention
    BY <1>2, <1>6, <2>2
  <2> QED
    BY <2>1, <2>2
<1>8. x3 = s
  <2> HIDE DEF x3
  <2> QED
    BY <1>7 DEF State
<1>9. Report(s) = (a1 \o a2) \o a3 /\ a1 \in Seq(Change) /\ <<>> \o a1 = a1
  <2>1. Report(s) = (a1 \o a2) \o a3
    BY DEF Report
  <2>2. <<f1>> \in Seq(Change) /\ <<>> \in Seq(Change)
    BY <1>1
  <2> QED
    BY <2>1, <2>2
<1> HIDE DEF f1, f2, f3
<1>10. Reaches(t, a1, x1)
  <2>1. Reaches(t, <<>>, t.state)
    BY <1>3, ReachesNone
  <2>2. Reaches(t, <<>> \o a1, x1)
    BY <1>1, <1>2, <1>3, <2>1, ReachesMaybe DEF x1
  <2> QED
    BY <1>9, <2>2
<1>11. Reaches(t, a1 \o a2, x2)
  <2> HIDE DEF a1
  <2> QED
    BY <1>1, <1>2, <1>5, <1>10, ReachesMaybe DEF x2
<1>12. Reaches(t, (a1 \o a2) \o a3, x3)
  <2> HIDE DEF a1, a2
  <2> QED
    BY <1>1, <1>2, <1>6, <1>11, ReachesMaybe
<1> QED
  BY <1>8, <1>9, <1>12

LEMMA OpenResultKeeps ==
    ASSUME IInv, OpenResult
    PROVE  IInv'
<1> DEFINE facts == Numbered(Report(link.state), 0)
           number == Len(Report(link.state))
<1>1. PICK n \in Expected("opened") : chan' = SentUp(Read(chan, n), link.conn, facts)
  BY DEF OpenResult
<1>2. /\ link.at = "opening" /\ UNCHANGED <<driver, sess, fate, performed, missed, spent>>
      /\ link' = [link EXCEPT !.at = "open", !.seq = number, !.state = Nothing]
      /\ TypeOK /\ LinkOK /\ ChanOK
  BY TypeParts DEF OpenResult, IInv
<1>3. PICK c \in Conns : link.conn = c
  BY <1>2 DEF IInv, Wired, Held
<1>4. chan[c].host /\ (sess.owner = c => chan[c].bridge) /\ (~chan[c].bridge => chan[c].up = <<>>)
      /\ \A d \in Conns : Wire(d)
  BY <1>2, <1>3 DEF IInv, Wired, Wire, Held
<1>5. PICK k \in 1..n : n \in 1..Len(chan[c].down) /\ chan[c].down[k].type = "opened"
  BY <1>3 DEF Expected
<1>6. chan[c].bridge => sess.owner = c
  <2>1. k \in 1..Len(chan[c].down)
    BY <1>5
  <2> QED
    BY <1>5, <2>1 DEF IInv, DownInOrder, DownFrame
<1>7. ~chan[c].bridge => sess.owner # c
  BY <1>4
<1>8. chan[c].bridge => chan[c].up = <<>> /\ sess.seq = 0 /\ sess.state = [Nothing EXCEPT !.open = link.state.open]
  BY <1>2, <1>3, <1>6 DEF IInv, Given
<1>9. chan[c].up = <<>>
  BY <1>4, <1>8
\* The report, as it is sent
<1>10. facts \in Seq(Frame) /\ Len(facts) = number /\ number \in Nat
  <2> DEFINE t == [seq |-> 0, state |-> [Nothing EXCEPT !.open = link.state.open]]
  <2>1. link.state \in State /\ t.seq = 0 /\ t.state = [Nothing EXCEPT !.open = link.state.open]
    BY <1>2, Typed
  <2>2. Reaches(t, Report(link.state), link.state)
    BY <2>1, Reported
  <2>3. number \in Nat
    BY <2>2 DEF Reaches
  <2> QED
    BY <2>2, <2>3 DEF Reaches
<1>11. chan[c].bridge =>
          /\ \A i \in 1..number : facts[i].type = "fact"
          /\ \E p : Course(p, sess, facts) /\ p[number] = [seq |-> number, state |-> link.state]
  <2>1. CASE chan[c].bridge
    <3>1. Reaches(sess, Report(link.state), link.state)
      BY <1>2, <1>8, <2>1, Typed, Reported
    <3> QED
      BY <3>1 DEF Reaches
  <2> QED
    BY <2>1
<1>12. LinkOK' /\ link'.at = "open" /\ link'.conn = c /\ link'.seq = number
  BY <1>2, <1>3, <1>10, NothingTyped DEF LinkOK
<1> HIDE DEF facts, number
\* The connection
<1> DEFINE rest == SubSeq(chan[c].down, n + 1, Len(chan[c].down))
           ch == Read(chan, n)
<1>13. rest \in Seq(Frame) /\ \A i \in 1..Len(rest) : i + n \in 1..Len(chan[c].down) /\ rest[i] = chan[c].down[i + n]
  <2>1. chan[c].down \in Seq(Frame) /\ n \in 1..Len(chan[c].down)
    BY <1>2, <1>5, Typed
  <2> QED
    BY <2>1, SubSeqAt
<1>14. /\ ch \in [Conns -> Chan] /\ \A d \in Conns : d # c => ch[d] = chan[d]
       /\ ch[c].host /\ ch[c].bridge = chan[c].bridge /\ ch[c].down = rest /\ ch[c].up = <<>>
  <2>1. /\ ch \in [Conns -> Chan] /\ \A d \in Conns : d # c => ch[d] = chan[d]
        /\ ch[c] = [chan[c] EXCEPT !.down = rest]
    BY <1>2, <1>3, <1>5, ReadAt DEF ChanOK
  <2>2. chan[c] \in Chan
    BY <1>2 DEF ChanOK
  <2> HIDE DEF ch, rest
  <2> QED
    BY <1>4, <1>9, <2>1, <2>2 DEF Chan
<1>15. chan' = SentUp(ch, c, facts)
  BY <1>1, <1>3
<1> HIDE DEF ch, rest
<1>16. /\ ChanOK' /\ chan'[c].host /\ chan'[c].bridge = chan[c].bridge /\ chan'[c].down = rest
       /\ chan[c].bridge => chan'[c].up = facts
       /\ ~chan[c].bridge => chan'[c].up = <<>>
       /\ \A d \in Conns : d # c => chan'[d] = chan[d]
  <2>1. SentUp(ch, c, facts) \in [Conns -> Chan] /\ ch[c].up \o facts = facts /\ ch[c] \in Chan
    <3>1. SentUp(ch, c, facts) \in [Conns -> Chan]
      BY <1>10, <1>14, SentUpAt
    <3>2. <<>> \o facts = facts
      BY <1>10
    <3> QED
      BY <1>14, <3>1, <3>2
  <2>2. chan'[c] = IF ch[c].host /\ ch[c].bridge THEN [ch[c] EXCEPT !.up = ch[c].up \o facts] ELSE ch[c]
    BY <1>10, <1>14, <1>15, SentUpAt
  <2>3. \A d \in Conns : d # c => chan'[d] = ch[d]
    BY <1>10, <1>14, <1>15, SentUpAt
  <2>4. CASE ch[c].bridge
    <3>1. chan'[c] = [ch[c] EXCEPT !.up = facts]
      BY <1>14, <2>1, <2>2, <2>4
    <3> QED
      BY <1>14, <1>15, <2>1, <2>3, <2>4, <3>1 DEF ChanOK, Chan
  <2>5. CASE ~ch[c].bridge
    BY <1>14, <1>15, <2>1, <2>2, <2>3, <2>5 DEF ChanOK
  <2> QED
    BY <2>4, <2>5
<1>17. \A d \in Conns : d # c => ~chan[d].host /\ chan[d].down = <<>> /\ sess.owner = sess'.owner
  BY <1>2, <1>3, <1>4 DEF Wire
<1>18. Wired'
  BY <1>2, <1>3, <1>4, <1>6, <1>12, <1>16 DEF Wired, Wire, Held, Opened
<1>19. UpInOrder'
  <2>1. ASSUME NEW d \in Conns, NEW i \in 1..Len(chan'[d].up)
        PROVE  UpFrame(d, i)'
    <3>1. CASE d = c /\ chan[c].bridge
      <4>1. chan'[d].up = facts /\ i \in 1..number
        BY <1>10, <1>16, <3>1
      <4>2. chan'[d].up[i].type = "fact"
        BY <1>11, <3>1, <4>1
      <4> QED
        BY <1>2, <1>6, <1>12, <3>1, <4>2 DEF UpFrame, Opened
    <3>2. CASE d # c
      <4>1. UpFrame(d, i) /\ chan'[d] = chan[d] /\ ~chan[d].host
        BY <1>16, <1>17, <3>2 DEF IInv, UpInOrder
      <4> QED
        BY <1>2, <4>1 DEF UpFrame
    <3>3. ~(d = c /\ ~chan[c].bridge)
      <4>1. chan'[d].up # <<>>
        OBVIOUS
      <4> QED
        BY <1>16, <4>1
    <3> QED
      BY <3>1, <3>2, <3>3
  <2> QED
    BY <2>1 DEF UpInOrder
<1>20. DownInOrder'
  <2>1. ASSUME NEW d \in Conns, NEW i \in 1..Len(chan'[d].down)
        PROVE  DownFrame(d, i)'
    <3>1. d = c /\ chan'[d].down = rest
      <4>1. chan'[d].down # <<>>
        OBVIOUS
      <4> QED
        BY <1>16, <1>17, <4>1
    <3>2. i \in 1..Len(rest) /\ i \in Int
      BY <3>1
    <3>3. /\ i + n \in 1..Len(chan[c].down) /\ rest[i] = chan[c].down[i + n]
          /\ DownFrame(c, i + n)
      BY <1>13, <3>2 DEF IInv, DownInOrder
    <3>4. rest[i].type # "hello_ok" /\ rest[i].type # "opened"
      <4>1. i + n # 1
        BY <1>5, <3>2
      <4> QED
        BY <1>2, <3>3, <4>1 DEF DownFrame
    <3>5. ASSUME rest[i].type = "effect",
                 NEW j \in 1..Len(rest), rest[j].type = "effect", rest[j].effect = rest[i].effect
          PROVE  i = j
      <4>1. j + n \in 1..Len(chan[c].down) /\ rest[j] = chan[c].down[j + n] /\ j \in Int /\ n \in Int
        BY <1>5, <1>13
      <4>2. i + n = j + n
        BY <3>3, <3>5, <4>1 DEF DownFrame
      <4> QED
        BY <3>2, <4>1, <4>2
    <3> QED
      BY <1>2, <3>1, <3>3, <3>4, <3>5 DEF DownFrame
  <2> QED
    BY <2>1 DEF DownInOrder
<1>21. Given' /\ Performed'
  BY <1>2, <1>12 DEF IInv, Given, Performed, Performing, Did
<1>22. Coursed'
  <2>1. ASSUME NEW d \in Conns, sess'.owner = d
        PROVE  \E p : Course(p, sess', chan'[d].up) /\ Arrives(p, d)'
    <3>1. CASE d = c
      <4>1. chan[c].bridge /\ chan'[d].up = facts
        BY <1>2, <1>7, <1>16, <2>1, <3>1
      <4>2. PICK p : Course(p, sess, facts) /\ p[number] = [seq |-> number, state |-> link.state]
        BY <1>11, <4>1
      <4>3. ~missed => link.state = driver
        BY <1>2 DEF IInv, Given
      <4>4. p[Len(chan'[d].up)].seq = link'.seq /\ (~missed' => p[Len(chan'[d].up)].state = driver')
        BY <1>2, <1>10, <1>12, <4>1, <4>2, <4>3
      <4> QED
        BY <1>2, <4>1, <4>2, <4>4 DEF Arrives
    <3>2. CASE d # c
      <4>1. chan'[d] = chan[d] /\ ~chan[d].host
        BY <1>16, <1>17, <3>2
      <4>2. PICK p : Course(p, sess, chan[d].up)
        BY <1>2, <2>1 DEF IInv, Coursed
      <4> QED
        BY <1>2, <4>1, <4>2 DEF Arrives
    <3> QED
      BY <3>1, <3>2
  <2> QED
    BY <2>1 DEF Coursed
<1>23. TypeOK'
  BY <1>2, <1>12, <1>16 DEF TypeOK, LinkOK, ChanOK, Chan
<1> QED
  BY <1>18, <1>19, <1>20, <1>21, <1>22, <1>23 DEF IInv

-----------------------------------------------------------------------------
(* The host hangs up.                                                      *)

\* The connection ends at the host; a closed session goes with a last frame.
LEMMA HostLeaves ==
    ASSUME IInv, NEW c \in Conns, link.conn = c, Held,
           NEW closing \in BOOLEAN, closing => Opened,
           chan' = HungUp(IF closing THEN SentUp(chan, c, <<[type |-> "close"]>>) ELSE chan, c),
           link'.at \in {"down", "stopped"}, LinkOK',
           UNCHANGED <<driver, sess, fate, performed, missed>>
    PROVE  IInv'
<1> DEFINE m == [type |-> "close"]
           ch == IF closing THEN SentUp(chan, c, <<m>>) ELSE chan
<1>1. TypeOK /\ ChanOK /\ chan[c] \in Chan /\ chan[c].up \in Seq(Frame) /\ chan[c].host /\ \A d \in Conns : Wire(d)
  BY Typed, TypeParts DEF IInv, Wired, Wire
<1>2. m \in Frame /\ m.type = "close"
  BY PlainFrame
<1> DEFINE last == closing /\ chan[c].bridge
<1> HIDE DEF m
<1>3. /\ ch \in [Conns -> Chan] /\ \A d \in Conns : d # c => ch[d] = chan[d]
      /\ ch[c].bridge = chan[c].bridge
      /\ ch[c].up = IF last THEN Append(chan[c].up, m) ELSE chan[c].up
  <2>1. CASE closing
    <3>1. ch = SentUp(chan, c, <<m>>)
      BY <2>1
    <3> HIDE DEF ch
    <3>2. /\ ch \in [Conns -> Chan]
          /\ \A d \in Conns : ch[d].host = chan[d].host /\ ch[d].bridge = chan[d].bridge /\ ch[d].down = chan[d].down
          /\ \A d \in Conns : d # c => ch[d] = chan[d] /\ ch[d].up = chan[d].up
          /\ chan[c].bridge => ch[c].up = Append(chan[c].up, m)
          /\ ~chan[c].bridge => ch[c] = chan[c]
      BY <1>1, <1>2, <3>1, HostFrame DEF ChanOK
    <3> QED
      BY <2>1, <3>2
  <2>2. CASE ~closing
    BY <1>1, <2>2 DEF ChanOK
  <2> QED
    BY <2>1, <2>2
<1>4. chan' = HungUp(ch, c)
  BY DEF m
<1> HIDE DEF ch
<1>5. /\ ChanOK' /\ \A d \in Conns : d # c => chan'[d] = chan[d]
      /\ ~chan'[c].host /\ chan'[c].bridge = chan[c].bridge /\ chan'[c].down = <<>>
      /\ chan'[c].up = IF last THEN Append(chan[c].up, m) ELSE chan[c].up
  <2>1. /\ HungUp(ch, c) \in [Conns -> Chan]
        /\ HungUp(ch, c)[c] = [host |-> FALSE, bridge |-> ch[c].bridge, down |-> <<>>,
                               up |-> IF ch[c].bridge THEN ch[c].up ELSE <<>>]
        /\ \A d \in Conns : d # c => HungUp(ch, c)[d] = ch[d]
    BY <1>3, HungUpAt
  <2>2. ~chan[c].bridge => chan[c].up = <<>> /\ ~last
    BY <1>1 DEF Wire
  <2>3. chan'[c] = [host |-> FALSE, bridge |-> chan[c].bridge, down |-> <<>>,
                    up |-> IF ch[c].bridge THEN ch[c].up ELSE <<>>]
    BY <1>3, <1>4, <2>1
  <2>4. ch[c].bridge => chan'[c].up = ch[c].up
    BY <2>3
  <2>5. ~ch[c].bridge => chan'[c].up = chan[c].up /\ ~last
    BY <1>3, <2>2, <2>3
  <2> HIDE DEF last
  <2>6. chan'[c].up = IF last THEN Append(chan[c].up, m) ELSE chan[c].up
    BY <1>3, <2>4, <2>5
  <2> QED
    BY <1>3, <1>4, <2>1, <2>3, <2>6 DEF ChanOK
<1>6. last => sess.owner = c /\ \A i \in 1..Len(chan[c].up) : chan[c].up[i].type \notin {"hello", "session_open", "close"}
  <2>1. last => sess.owner = c
    BY DEF IInv, Wired
  <2> QED
    BY <1>1, <2>1 DEF IInv, UpInOrder, UpFrame
<1> HIDE DEF last
<1>7. \A d \in Conns : d # c => ~chan[d].host /\ chan[d].down = <<>>
  BY <1>1 DEF Wire
<1>8. \A d \in Conns : ~chan'[d].host /\ chan'[d].down = <<>>
  BY <1>5, <1>7
<1>9. Wired'
  <2>1. \A d \in Conns : Wire(d)'
    <3> TAKE d \in Conns
    <3>1. CASE d = c
      <4>1. ~chan[c].bridge => chan[c].up = <<>> /\ ~last
        BY <1>1 DEF Wire, last
      <4> QED
        BY <1>1, <1>5, <1>8, <3>1, <4>1 DEF Wire, Held
    <3>2. CASE d # c
      BY <1>1, <1>5, <1>8, <3>2 DEF Wire, Held
    <3> QED
      BY <3>1, <3>2
  <2> QED
    BY <2>1 DEF Wired, Held, Opened
<1>10. UpInOrder'
  <2>1. ASSUME NEW d \in Conns, NEW i \in 1..Len(chan'[d].up)
        PROVE  UpFrame(d, i)'
    <3>1. CASE ~(d = c /\ last)
      <4>1. chan'[d].up = chan[d].up
        BY <1>5, <3>1
      <4>2. UpFrame(d, i)
        BY <4>1 DEF IInv, UpInOrder
      <4> QED
        BY <1>8, <4>1, <4>2 DEF UpFrame
    <3>2. CASE d = c /\ last
      <4>1. chan'[d].up = Append(chan[c].up, m)
        BY <1>5, <3>2
      <4>2. /\ Len(chan'[d].up) = Len(chan[c].up) + 1 /\ chan'[d].up[Len(chan[c].up) + 1] = m
            /\ i \in 1..Len(chan[c].up) \/ i = Len(chan[c].up) + 1
        BY <1>1, <1>2, <4>1, FrameAppended
      <4>3. CASE i \in 1..Len(chan[c].up)
        <5>1. Append(chan[c].up, m)[i] = chan[c].up[i]
          BY <1>1, <1>2, <4>3, FrameAppended
        <5>2. UpFrame(c, i) /\ chan'[d].up[i] = chan[c].up[i]
          BY <4>1, <4>3, <5>1 DEF IInv, UpInOrder
        <5> QED
          BY <1>6, <1>8, <3>2, <4>3, <5>2 DEF UpFrame
      <4>4. CASE i = Len(chan[c].up) + 1
        BY <1>2, <1>6, <1>8, <3>2, <4>2, <4>4 DEF UpFrame
      <4> QED
        BY <4>2, <4>3, <4>4
    <3> QED
      BY <3>1, <3>2
  <2> QED
    BY <2>1 DEF UpInOrder
<1>11. DownInOrder'
  <2>1. \A d \in Conns : Len(chan'[d].down) = 0
    BY <1>8
  <2> QED
    BY <2>1 DEF DownInOrder
<1>12. Given' /\ Performed'
  BY DEF IInv, Given, Performed, Performing, Did
<1>13. Coursed'
  <2>1. ASSUME NEW d \in Conns, sess'.owner = d
        PROVE  \E p : Course(p, sess', chan'[d].up) /\ Arrives(p, d)'
    <3>1. PICK p : Course(p, sess, chan[d].up)
      BY <2>1 DEF IInv, Coursed
    <3>2. \A r : Arrives(r, d)'
      BY <1>8 DEF Arrives
    <3>3. CASE d = c /\ last
      <4>1. p[Len(chan[c].up)] \in Point
        BY <1>1, <3>1, <3>3, FrameAppended DEF Course
      <4>2. Goes(p[Len(chan[c].up)], p[Len(chan[c].up)], m)
        BY <1>2 DEF Goes
      <4>3. \E r : Course(r, sess, Append(chan[c].up, m))
        BY <1>1, <1>2, <3>1, <3>3, <4>1, <4>2, CourseAppend
      <4> QED
        BY <1>5, <3>2, <3>3, <4>3
    <3>4. CASE ~(d = c /\ last)
      <4>1. chan'[d].up = chan[d].up
        BY <1>5, <3>4
      <4> QED
        BY <3>1, <3>2, <4>1
    <3> QED
      BY <3>3, <3>4
  <2> QED
    BY <2>1 DEF Coursed
<1>14. TypeOK'
  BY <1>1, <1>5 DEF TypeOK, LinkOK, ChanOK, Chan
<1> QED
  BY <1>9, <1>10, <1>11, <1>12, <1>13, <1>14 DEF IInv

LEMMA DownTyped ==
    ASSUME TypeOK, NEW at \in {"down", "stopped"}
    PROVE  /\ Down(at).at = at
           /\ Down(at) \in [at : {"down", "hello", "opening", "open", "perform", "stopped"},
                            conn : Conns \cup {None}, state : State, seq : Nat,
                            effect : Effects \cup {None}, stop : BOOLEAN,
                            outcome : {"accepted", "unsupported", "unknown"}]
<1>1. LinkOK
  BY TypeParts
<1> QED
  BY <1>1, NothingTyped DEF Down, LinkOK

LEMMA DropKeeps ==
    ASSUME IInv, Drop \/ GivesUp
    PROVE  IInv'
<1>1. /\ link.at \in {"hello", "opening", "open"} /\ chan' = HungUp(chan, link.conn)
      /\ link' = Down(IF link.stop THEN "stopped" ELSE "down")
      /\ UNCHANGED <<driver, sess, fate, performed, missed>>
  BY DEF Drop, GivesUp
<1>2. Held /\ link.conn \in Conns /\ TypeOK
  BY <1>1 DEF Held, IInv, Wired
<1>3. LinkOK' /\ link'.at \in {"down", "stopped"}
  BY <1>1, <1>2, DownTyped DEF LinkOK
<1>4. chan' = HungUp(IF FALSE THEN SentUp(chan, link.conn, <<[type |-> "close"]>>) ELSE chan, link.conn)
  BY <1>1
<1> QED
  BY <1>1, <1>2, <1>3, <1>4, HostLeaves

LEMMA CloseKeeps ==
    ASSUME IInv, Close
    PROVE  IInv'
<1>1. UNCHANGED <<driver, sess, fate, performed, missed, spent>> /\ TypeOK /\ LinkOK
  BY TypeParts DEF Close, IInv
<1>2. CASE Opened
  <2>1. /\ chan' = HungUp(SentUp(chan, link.conn, <<[type |-> "close"]>>), link.conn)
        /\ link' = [Down("stopped") EXCEPT !.stop = TRUE]
    BY <1>2 DEF Close
  <2>2. Held /\ link.conn \in Conns
    BY <1>2 DEF Opened, Held, IInv, Wired
  <2>3. LinkOK' /\ link'.at \in {"down", "stopped"}
    BY <1>1, <2>1, DownTyped DEF LinkOK
  <2>4. chan' = HungUp(IF TRUE THEN SentUp(chan, link.conn, <<[type |-> "close"]>>) ELSE chan, link.conn)
    BY <2>1
  <2> QED
    BY <1>1, <1>2, <2>2, <2>3, <2>4, HostLeaves
<1>3. CASE ~Opened
  <2>1. /\ link' = [link EXCEPT !.stop = TRUE, !.at = IF @ = "down" THEN "stopped" ELSE @]
        /\ UNCHANGED chan
    BY <1>3 DEF Close
  <2>2. /\ LinkOK' /\ link'.conn = link.conn /\ link'.state = link.state /\ link'.seq = link.seq
        /\ link'.effect = link.effect /\ link'.outcome = link.outcome
        /\ link'.at = IF link.at = "down" THEN "stopped" ELSE link.at
    BY <1>1, <2>1 DEF LinkOK
  <2>3. Wired'
    BY <1>1, <1>3, <2>1, <2>2 DEF IInv, Wired, Wire, Held, Opened
  <2>4. UpInOrder' /\ DownInOrder'
    <3>1. ASSUME NEW c \in Conns, NEW i \in 1..Len(chan[c].up)
          PROVE  UpFrame(c, i)'
      <4>1. UpFrame(c, i)
        BY DEF IInv, UpInOrder
      <4> QED
        BY <1>1, <1>3, <2>1, <2>2, <4>1 DEF UpFrame, Opened
    <3>2. ASSUME NEW c \in Conns, NEW i \in 1..Len(chan[c].down)
          PROVE  DownFrame(c, i)'
      <4>1. DownFrame(c, i)
        BY DEF IInv, DownInOrder
      <4> QED
        BY <1>1, <2>1, <2>2, <4>1 DEF DownFrame
    <3> QED
      BY <2>1, <3>1, <3>2 DEF UpInOrder, DownInOrder
  <2>5. Given' /\ Performed' /\ Coursed'
    BY <1>1, <1>3, <2>1, <2>2 DEF IInv, Given, Performed, Performing, Did, Coursed, Arrives, Opened
  <2>6. TypeOK'
    BY <1>1, <2>1, <2>2 DEF TypeOK, LinkOK
  <2> QED
    BY <2>3, <2>4, <2>5, <2>6 DEF IInv
<1> QED
  BY <1>2, <1>3

-----------------------------------------------------------------------------
(* An effect reaches the driver.                                           *)

LEMMA ServeKeeps ==
    ASSUME IInv, Serve
    PROVE  IInv'
<1>1. /\ link.at = "open" /\ chan' = Read(chan, 1)
      /\ chan[link.conn].down # <<>> /\ Head(chan[link.conn].down).type = "effect"
      /\ UNCHANGED <<driver, sess, fate, missed, spent>> /\ TypeOK /\ LinkOK /\ ChanOK /\ PerformedOK
  BY TypeParts DEF Serve, IInv
<1>2. PICK c \in Conns : link.conn = c
  BY <1>1 DEF IInv, Wired, Held
<1>3. PICK e : e = Head(chan[c].down).effect
  OBVIOUS
<1>4. PICK outcome \in {"accepted", "unsupported", "unknown"} :
          /\ link' = [link EXCEPT !.at = "perform", !.effect = e, !.outcome = outcome]
          /\ performed' = [performed EXCEPT ![e] = Append(@, outcome)]
  BY <1>2, <1>3 DEF Serve
<1>5. chan[c] \in Chan /\ chan[c].down \in Seq(Frame) /\ chan[c].host /\ \A d \in Conns : Wire(d)
  BY <1>1, <1>2, Typed DEF IInv, Wired, Wire, Held
<1>6. /\ chan[c].down # <<>> /\ Head(chan[c].down) = chan[c].down[1] /\ chan[c].down[1] \in Frame
      /\ chan[c].down[1].type = "effect" /\ chan[c].down[1].effect = e
      /\ Len(chan[c].down) \in Nat /\ 1 \in 1..Len(chan[c].down)
  <2>1. chan[c].down # <<>> /\ Head(chan[c].down).type = "effect"
    BY <1>1, <1>2
  <2>2. /\ Head(chan[c].down) = chan[c].down[1] /\ chan[c].down[1] \in Frame
        /\ Len(chan[c].down) \in Nat /\ Len(chan[c].down) >= 1
    BY <1>5, <2>1, FrameTail
  <2> QED
    BY <1>3, <2>1, <2>2
<1>7. e \in Effects /\ fate[e] # "none" /\ performed[e] = <<>>
      /\ \A j \in 1..Len(chan[c].down) :
            chan[c].down[j].type = "effect" /\ chan[c].down[j].effect = e => 1 = j
  BY <1>6, FrameFields DEF IInv, DownInOrder, DownFrame
<1>8. /\ PerformedOK' /\ performed'[e] = <<outcome>> /\ \A x \in Effects : x # e => performed'[x] = performed[x]
  <2>1. <<outcome>> \in Seq({"accepted", "unsupported", "unknown"}) /\ Append(<<>>, outcome) = <<outcome>>
    OBVIOUS
  <2> QED
    BY <1>1, <1>4, <1>7, <2>1 DEF PerformedOK
<1>9. LinkOK' /\ link'.at = "perform" /\ link'.effect = e /\ link'.outcome = outcome
      /\ link'.conn = c /\ link'.state = link.state /\ link'.seq = link.seq
  BY <1>1, <1>2, <1>4, <1>7 DEF LinkOK
<1> DEFINE rest == SubSeq(chan[c].down, 1 + 1, Len(chan[c].down))
<1>10. rest \in Seq(Frame) /\ \A i \in 1..Len(rest) : i + 1 \in 1..Len(chan[c].down) /\ rest[i] = chan[c].down[i + 1]
  BY <1>5, <1>6, SubSeqAt
<1>11. /\ ChanOK' /\ \A d \in Conns : d # c => chan'[d] = chan[d]
       /\ chan'[c].host = chan[c].host /\ chan'[c].bridge = chan[c].bridge /\ chan'[c].down = rest /\ chan'[c].up = chan[c].up
  <2>1. /\ chan' \in [Conns -> Chan] /\ \A d \in Conns : d # c => chan'[d] = chan[d]
        /\ chan'[c] = [chan[c] EXCEPT !.down = rest]
    BY <1>1, <1>2, <1>6, ReadAt DEF ChanOK
  <2> HIDE DEF rest
  <2> QED
    BY <1>5, <2>1 DEF Chan, ChanOK
<1> HIDE DEF rest
<1>12. \A d \in Conns : /\ chan'[d].host = chan[d].host /\ chan'[d].bridge = chan[d].bridge
                        /\ chan'[d].up = chan[d].up
                        /\ d # c => ~chan[d].host /\ chan[d].down = <<>> /\ chan'[d].down = chan[d].down
  <2> TAKE d \in Conns
  <2>1. CASE d = c
    BY <1>11, <2>1
  <2>2. CASE d # c
    BY <1>2, <1>5, <1>11, <2>2 DEF Wire
  <2> QED
    BY <2>1, <2>2
<1>13. Wired'
  <2>1. \A d \in Conns : Wire(d)'
    BY <1>1, <1>2, <1>5, <1>9, <1>11, <1>12 DEF Wire, Held
  <2> QED
    BY <1>1, <1>2, <1>9, <1>11, <2>1 DEF IInv, Wired, Held, Opened
<1>14. UpInOrder'
  <2>1. ASSUME NEW d \in Conns, NEW i \in 1..Len(chan[d].up)
        PROVE  UpFrame(d, i)'
    <3>1. UpFrame(d, i) /\ chan[d].up[i] \in Frame
      BY <1>1, Typed DEF IInv, UpInOrder
    <3>2. chan[d].up[i].type = "result" => /\ chan[d].up[i].effect # e
                                           /\ performed'[chan[d].up[i].effect] = performed[chan[d].up[i].effect]
      BY <1>7, <1>8, <3>1, FrameFields DEF UpFrame
    <3>3. chan[d].up[i].type \notin {"hello", "session_open"} \/ ~chan[d].host
      BY <1>1, <3>1 DEF UpFrame
    <3>4. chan[d].down = <<>> => chan'[d].down = <<>>
      <4>1. chan[c].down # <<>>
        BY <1>6
      <4> QED
        BY <1>12, <4>1
    <3> QED
      BY <1>1, <1>9, <1>12, <3>1, <3>2, <3>3, <3>4 DEF UpFrame, Opened
  <2> QED
    BY <1>12, <2>1 DEF UpInOrder
<1>15. DownInOrder'
  <2>1. ASSUME NEW d \in Conns, NEW i \in 1..Len(chan'[d].down)
        PROVE  DownFrame(d, i)'
    <3>1. d = c /\ chan'[d].down = rest
      <4>1. chan'[d].down # <<>>
        OBVIOUS
      <4> QED
        BY <1>11, <1>12, <4>1
    <3>2. i \in 1..Len(rest) /\ i \in Int
      BY <3>1
    <3>3. /\ i + 1 \in 1..Len(chan[c].down) /\ rest[i] = chan[c].down[i + 1] /\ rest[i] \in Frame
          /\ DownFrame(c, i + 1)
      BY <1>10, <3>2 DEF IInv, DownInOrder
    <3>4. rest[i].type # "hello_ok" /\ rest[i].type # "opened"
      BY <1>1, <3>3 DEF DownFrame
    <3>5. rest[i].type = "effect" => /\ rest[i].effect # e /\ rest[i].effect \in Effects
                                     /\ fate[rest[i].effect] # "none" /\ performed'[rest[i].effect] = <<>>
      <4>1. i + 1 # 1
        BY <3>2
      <4> QED
        BY <1>7, <1>8, <3>3, <4>1, FrameFields DEF DownFrame
    <3>6. ASSUME rest[i].type = "effect",
                 NEW j \in 1..Len(rest), rest[j].type = "effect", rest[j].effect = rest[i].effect
          PROVE  i = j
      <4>1. j + 1 \in 1..Len(chan[c].down) /\ rest[j] = chan[c].down[j + 1] /\ j \in Int
        BY <1>10
      <4>2. i + 1 = j + 1
        BY <3>3, <3>6, <4>1 DEF DownFrame
      <4> QED
        BY <3>2, <4>1, <4>2
    <3> QED
      BY <1>1, <3>1, <3>4, <3>5, <3>6 DEF DownFrame
  <2> QED
    BY <2>1 DEF DownInOrder
<1>16. Performed'
  <2>1. Did(e)'
    <3>1. fate[e] \notin {"accepted", "unsupported"}
      BY <1>7 DEF IInv, Performed, Did
    <3>2. Len(<<outcome>>) = 1
      OBVIOUS
    <3> QED
      BY <1>1, <1>7, <1>8, <3>1, <3>2 DEF Did
  <2>2. \A x \in Effects : x # e => Did(x)'
    BY <1>1, <1>8 DEF IInv, Performed, Did
  <2> QED
    BY <1>7, <1>8, <1>9, <2>1, <2>2 DEF Performed, Performing
<1>17. Given'
  BY <1>9 DEF Given
<1>18. Coursed'
  <2>1. ASSUME NEW d \in Conns, sess'.owner = d
        PROVE  \E p : Course(p, sess', chan'[d].up) /\ Arrives(p, d)'
    <3>1. PICK p : Course(p, sess, chan[d].up) /\ Arrives(p, d)
      BY <1>1, <2>1 DEF IInv, Coursed
    <3> QED
      BY <1>1, <1>9, <1>12, <3>1 DEF Arrives, Opened
  <2> QED
    BY <2>1 DEF Coursed
<1>19. TypeOK'
  BY <1>1, <1>8, <1>9, <1>11 DEF TypeOK, LinkOK, ChanOK, Chan, PerformedOK
<1> QED
  BY <1>13, <1>14, <1>15, <1>16, <1>17, <1>18, <1>19 DEF IInv

-----------------------------------------------------------------------------
(* The Bridge reads a frame.                                               *)

\* What the Bridge has read of c is gone, and the rest moves up.
LEMMA RestInOrder ==
    ASSUME IInv, NEW c \in Conns, chan[c].up # <<>>
    PROVE  /\ Head(chan[c].up) = chan[c].up[1] /\ chan[c].up[1] \in Frame /\ UpFrame(c, 1)
           /\ Tail(chan[c].up) \in Seq(Frame)
           /\ \A i \in 1..Len(Tail(chan[c].up)) :
                /\ Tail(chan[c].up)[i] = chan[c].up[i + 1]
                /\ UpFrame(c, i + 1) /\ i + 1 \in 1..Len(chan[c].up)
                /\ chan[c].up[i + 1].type \in {"fact", "result", "close"}
                /\ chan[c].up[1].type # "close"
                /\ i + 1 = Len(chan[c].up) => i = Len(Tail(chan[c].up))
<1> DEFINE q == chan[c].up
<1>1. q \in Seq(Frame)
  BY Typed DEF IInv
<1>2. /\ Tail(q) \in Seq(Frame)
      /\ Len(q) \in Nat /\ Len(q) >= 1 /\ Len(Tail(q)) = Len(q) - 1
      /\ Head(q) = q[1] /\ q[1] \in Frame
      /\ \A i \in 1..(Len(q) - 1) : i + 1 \in 1..Len(q) /\ Tail(q)[i] = q[i + 1]
  BY <1>1, FrameTail
<1> HIDE DEF q
<1>3. \A i \in 1..Len(q) : UpFrame(c, i)
  BY DEF IInv, UpInOrder, q
<1>4. 1 \in 1..Len(q) /\ UpFrame(c, 1)
  BY <1>2, <1>3
<1>5. ASSUME NEW i \in 1..Len(Tail(q))
      PROVE  /\ Tail(q)[i] = q[i + 1]
             /\ UpFrame(c, i + 1) /\ i + 1 \in 1..Len(q)
             /\ q[i + 1].type \in {"fact", "result", "close"}
             /\ q[1].type # "close"
             /\ i + 1 = Len(q) => i = Len(Tail(q))
  <2>1. i \in 1..(Len(q) - 1) /\ i \in Int
    BY <1>2
  <2>2. i + 1 \in 1..Len(q) /\ Tail(q)[i] = q[i + 1] /\ Len(q) # 1 /\ 1 # Len(q)
    BY <1>2, <2>1
  <2>3. UpFrame(c, i + 1)
    BY <1>3, <2>2
  <2>4. q[i + 1].type \in {"fact", "result", "close"} /\ q[1].type # "close"
    BY <1>4, <2>2, <2>3 DEF UpFrame, q
  <2>5. i + 1 = Len(q) => i = Len(Tail(q))
    <3>1. Len(q) \in Nat /\ Len(Tail(q)) = Len(q) - 1
      BY <1>2
    <3> QED
      BY <2>1, <3>1
  <2> QED
    BY <2>2, <2>3, <2>4, <2>5
<1> QED
  BY <1>2, <1>4, <1>5 DEF q

\* Taking a frame, with the answer to it, if any, and what the session becomes.
LEMMA FrameTaken ==
    ASSUME IInv, NEW c \in Conns, chan[c].bridge, chan[c].up # <<>>
    PROVE  LET r == [chan EXCEPT ![c].up = Tail(@)]
           IN  /\ r \in [Conns -> Chan]
               /\ \A d \in Conns : r[d].host = chan[d].host /\ r[d].bridge = chan[d].bridge
                                   /\ r[d].down = chan[d].down
               /\ \A d \in Conns : d # c => r[d] = chan[d]
               /\ r[c].up = Tail(chan[c].up)
<1>1. chan \in [Conns -> Chan]
  BY Typed DEF IInv, ChanOK
<1> DEFINE r == [chan EXCEPT ![c].up = Tail(@)]
<1>2. r \in [Conns -> Chan] /\ r[c] = [chan[c] EXCEPT !.up = Tail(chan[c].up)]
      /\ \A d \in Conns : d # c => r[d] = chan[d]
  BY <1>1, TakenAt
<1> HIDE DEF r
<1>3. r[c].host = chan[c].host /\ r[c].bridge = chan[c].bridge /\ r[c].down = chan[c].down
      /\ r[c].up = Tail(chan[c].up)
  <2>1. chan[c] \in Chan
    BY <1>1
  <2> QED
    BY <1>2, <2>1 DEF Chan
<1>4. \A d \in Conns : r[d].host = chan[d].host /\ r[d].bridge = chan[d].bridge /\ r[d].down = chan[d].down
  BY <1>2, <1>3
<1> QED
  BY <1>2, <1>3, <1>4 DEF r

\* The Bridge has read the first frame of c (Took), and has answered it with m (Replied).
Took(r, c) ==
    /\ r \in [Conns -> Chan]
    /\ \A d \in Conns : r[d].host = chan[d].host /\ r[d].bridge = chan[d].bridge /\ r[d].down = chan[d].down
    /\ \A d \in Conns : d # c => r[d] = chan[d]
    /\ r[c].up = Tail(chan[c].up)

Replied(r, c, m) ==
    /\ r \in [Conns -> Chan]
    /\ \A d \in Conns : r[d].host = chan[d].host /\ r[d].bridge = chan[d].bridge
    /\ \A d \in Conns : d # c => r[d] = chan[d]
    /\ r[c].up = Tail(chan[c].up)
    /\ chan[c].host => r[c].down = Append(chan[c].down, m)
    /\ ~chan[c].host => r[c].down = chan[c].down

LEMMA ReplyFollows ==
    ASSUME NEW ch, NEW c \in Conns, Took(ch, c), chan[c].bridge,
           NEW m \in Frame, NEW r, r = SentDown(ch, c, <<m>>)
    PROVE  Replied(r, c, m)
<1>1. ch \in [Conns -> Chan] /\ ch[c].bridge /\ ch[c].host = chan[c].host /\ ch[c].down = chan[c].down
  BY DEF Took
<1>2. /\ r \in [Conns -> Chan]
      /\ \A d \in Conns : r[d].host = ch[d].host /\ r[d].bridge = ch[d].bridge /\ r[d].up = ch[d].up
      /\ \A d \in Conns : d # c => r[d] = ch[d] /\ r[d].down = ch[d].down
  BY <1>1, BridgeFrame
<1>3. ch[c].host => r[c].down = Append(ch[c].down, m)
  BY <1>1, BridgeFrame
<1>4. ~ch[c].host => r[c] = ch[c]
  BY <1>1, BridgeFrame
<1>5. \A d \in Conns : d # c => r[d] = chan[d]
  BY <1>2 DEF Took
<1>6. r[c].up = Tail(chan[c].up)
  BY <1>2 DEF Took
<1>7. \A d \in Conns : r[d].host = chan[d].host /\ r[d].bridge = chan[d].bridge
  BY <1>2 DEF Took
<1>8. chan[c].host => r[c].down = Append(chan[c].down, m)
  BY <1>1, <1>3
<1>9. ~chan[c].host => r[c].down = chan[c].down
  BY <1>1, <1>4
<1> QED
  BY <1>2, <1>5, <1>6, <1>7, <1>8, <1>9 DEF Replied

LEMMA FrameAnswered ==
    ASSUME IInv, NEW c \in Conns, chan[c].bridge, chan[c].up # <<>>, NEW m \in Frame,
           NEW r, r = SentDown([chan EXCEPT ![c].up = Tail(@)], c, <<m>>)
    PROVE  Replied(r, c, m)
<1> DEFINE ch == [chan EXCEPT ![c].up = Tail(@)]
<1>1. Took(ch, c)
  BY FrameTaken DEF Took
<1> HIDE DEF ch
<1> QED
  BY <1>1, ReplyFollows DEF ch

\* The first frame of a connection, or a request for a session that is held.
LEMMA HandshakeKeeps ==
    ASSUME IInv, NEW c \in Conns, chan[c].bridge, chan[c].up # <<>>,
           Head(chan[c].up).type \in {"hello", "session_open"},
           NEW m \in Frame, m.type \in {"hello_ok", "rejected"},
           m.type = "hello_ok" => Head(chan[c].up).type = "hello",
           chan' = SentDown([chan EXCEPT ![c].up = Tail(@)], c, <<m>>),
           UNCHANGED <<driver, link, sess, fate, performed, missed>>
    PROVE  IInv'
<1>1. TypeOK /\ Wired /\ UpFrame(c, 1) /\ Head(chan[c].up) = chan[c].up[1] /\ chan[c].up \in Seq(Frame)
  BY RestInOrder, Typed DEF IInv
<1>2. /\ ChanOK' /\ \A d \in Conns : chan'[d].host = chan[d].host /\ chan'[d].bridge = chan[d].bridge
      /\ \A d \in Conns : d # c => chan'[d] = chan[d]
      /\ chan'[c].up = Tail(chan[c].up)
      /\ chan[c].host => chan'[c].down = Append(chan[c].down, m)
      /\ ~chan[c].host => chan'[c].down = chan[c].down
  <2>1. Replied(chan', c, m)
    BY FrameAnswered
  <2> QED
    BY <2>1 DEF Replied, ChanOK
<1>3. Len(chan[c].up) = 1 /\ sess.owner # c /\ chan[c].down = <<>>
  BY <1>1 DEF UpFrame
<1>4. chan'[c].up = <<>> /\ chan'[c].down = IF chan[c].host THEN <<m>> ELSE <<>>
  <2>1. Tail(chan[c].up) = <<>>
    BY <1>1, <1>3, TailOfOne
  <2>2. Append(<<>>, m) = <<m>>
    OBVIOUS
  <2> QED
    BY <1>2, <1>3, <2>1, <2>2
<1>5. Wired'
  <2>1. \A d \in Conns : Wire(d)'
    <3> TAKE d \in Conns
    <3>1. Wire(d)
      BY <1>1 DEF Wired
    <3>2. CASE d = c
      BY <1>2, <1>3, <1>4, <3>1, <3>2 DEF Wire, Held
    <3>3. CASE d # c
      BY <1>2, <3>1, <3>3 DEF Wire, Held
    <3> QED
      BY <3>2, <3>3
  <2> QED
    BY <1>1, <1>2, <2>1 DEF Wired, Held, Opened
<1>6. UpInOrder'
  <2>1. ASSUME NEW d \in Conns, NEW i \in 1..Len(chan'[d].up)
        PROVE  UpFrame(d, i)'
    <3>1. d # c
      <4>1. chan'[d].up # <<>>
        OBVIOUS
      <4> QED
        BY <1>4, <4>1
    <3>2. chan'[d] = chan[d] /\ UpFrame(d, i)
      BY <1>2, <3>1 DEF IInv, UpInOrder
    <3> QED
      BY <3>2 DEF UpFrame, Opened
  <2> QED
    BY <2>1 DEF UpInOrder
<1>7. DownInOrder'
  <2>1. ASSUME NEW d \in Conns, NEW i \in 1..Len(chan'[d].down)
        PROVE  DownFrame(d, i)'
    <3>1. CASE d # c
      <4>1. chan'[d] = chan[d] /\ DownFrame(d, i)
        BY <1>2, <3>1 DEF IInv, DownInOrder
      <4> QED
        BY <4>1 DEF DownFrame
    <3>2. CASE d = c
      <4>1. chan[c].host /\ chan'[c].down = <<m>>
        <5>1. chan'[c].down # <<>>
          BY <3>2
        <5> QED
          BY <1>4, <5>1
      <4>2. chan'[d].down[i] = m /\ Len(chan'[d].down) = 1
        <5>1. chan'[d].down = <<m>>
          BY <3>2, <4>1
        <5>2. i \in 1..Len(<<m>>)
          BY <5>1
        <5>3. i = 1 /\ Len(<<m>>) = 1
          BY <5>2
        <5>4. Len(chan'[d].down) = 1
          BY <5>1, <5>3
        <5>5. chan'[d].down[i] = m
          BY <5>1, <5>3
        <5> QED
          BY <5>3, <5>4, <5>5
      <4>3. m.type = "hello_ok" => link.at = "hello"
        BY <1>1, <4>1 DEF UpFrame
      <4> QED
        BY <1>4, <3>2, <4>2, <4>3 DEF DownFrame
    <3> QED
      BY <3>1, <3>2
  <2> QED
    BY <2>1 DEF DownInOrder
<1>8. Given'
  <2>1. link.at = "opening" /\ sess.owner = link.conn => chan'[link.conn].up = chan[link.conn].up
    BY <1>1, <1>2, <1>3 DEF Wired, Held
  <2> QED
    BY <2>1 DEF IInv, Given
<1>9. Performed'
  BY DEF IInv, Performed, Performing, Did
<1>10. Coursed'
  <2>1. ASSUME NEW d \in Conns, sess'.owner = d
        PROVE  \E p : Course(p, sess', chan'[d].up) /\ Arrives(p, d)'
    <3>1. chan'[d] = chan[d]
      BY <1>2, <1>3, <2>1
    <3>2. PICK p : Course(p, sess, chan[d].up) /\ Arrives(p, d)
      BY <2>1 DEF IInv, Coursed
    <3> QED
      BY <3>1, <3>2 DEF Arrives, Opened
  <2> QED
    BY <2>1 DEF Coursed
<1>11. TypeOK'
  BY <1>1, <1>2 DEF TypeOK, ChanOK, Chan
<1> QED
  BY <1>5, <1>6, <1>7, <1>8, <1>9, <1>10, <1>11 DEF IInv

\* The session is leased to the connection that asked for it.
LEMMA LeaseKeeps ==
    ASSUME IInv, NEW c \in Conns, chan[c].bridge, chan[c].up # <<>>,
           Head(chan[c].up).type = "session_open", sess.life # "active",
           sess' = [life |-> "active", owner |-> c, seq |-> 0,
                    state |-> [Nothing EXCEPT !.open = Head(chan[c].up).open]],
           chan' = SentDown([chan EXCEPT ![c].up = Tail(@)], c, <<[type |-> "opened"]>>),
           UNCHANGED <<driver, link, fate, performed, missed>>
    PROVE  IInv'
<1> DEFINE m == [type |-> "opened"]
<1>1. /\ TypeOK /\ Wired /\ UpFrame(c, 1) /\ Head(chan[c].up) = chan[c].up[1] /\ chan[c].up[1] \in Frame
      /\ chan[c].up \in Seq(Frame)
  BY RestInOrder, Typed DEF IInv
<1>2. m \in Frame /\ m.type = "opened"
  BY PlainFrame
<1> HIDE DEF m
<1>3. /\ ChanOK' /\ \A d \in Conns : chan'[d].host = chan[d].host /\ chan'[d].bridge = chan[d].bridge
      /\ \A d \in Conns : d # c => chan'[d] = chan[d]
      /\ chan'[c].up = Tail(chan[c].up)
      /\ chan[c].host => chan'[c].down = Append(chan[c].down, m)
      /\ ~chan[c].host => chan'[c].down = chan[c].down
  <2>1. Replied(chan', c, m)
    BY <1>2, FrameAnswered DEF m
  <2> QED
    BY <2>1 DEF Replied, ChanOK
<1>4. Len(chan[c].up) = 1 /\ chan[c].down = <<>>
      /\ (chan[c].host => link.at = "opening" /\ Head(chan[c].up).open = link.state.open)
  BY <1>1 DEF UpFrame
<1>5. chan'[c].up = <<>> /\ chan'[c].down = IF chan[c].host THEN <<m>> ELSE <<>>
  <2>1. Tail(chan[c].up) = <<>>
    BY <1>1, <1>4, TailOfOne
  <2>2. Append(<<>>, m) = <<m>>
    OBVIOUS
  <2> QED
    BY <1>3, <1>4, <2>1, <2>2
<1>6. sess'.owner = c /\ \A d \in Conns : sess.owner # d
  BY <1>1, LinkAssumption DEF TypeOK, LinkAssumption
<1>7. SessOK'
  <2>1. Head(chan[c].up).open \in SUBSET Requests
    BY <1>1, FrameFields
  <2> QED
    BY <2>1, NothingTyped, LinkAssumption DEF SessOK, LinkAssumption
<1>8. ~(Opened /\ chan[link.conn].bridge)
  <2>1. Opened => link.conn \in Conns
    BY <1>1 DEF Wired, Opened, Held
  <2> QED
    BY <1>1, <1>6, <2>1 DEF Wired
<1>9. Wired'
  <2>1. \A d \in Conns : Wire(d)'
    <3> TAKE d \in Conns
    <3>1. Wire(d)
      BY <1>1 DEF Wired
    <3>2. CASE d = c
      BY <1>3, <1>4, <1>5, <1>6, <3>1, <3>2 DEF Wire, Held
    <3>3. CASE d # c
      BY <1>3, <1>6, <3>1, <3>3 DEF Wire, Held
    <3> QED
      BY <3>2, <3>3
  <2>2. ~(Opened' /\ chan'[link'.conn].bridge)
    <3>1. Opened' => Opened /\ link.conn \in Conns
      BY <1>1 DEF Wired, Opened, Held
    <3> QED
      BY <1>3, <1>8, <3>1
  <2> QED
    BY <1>1, <2>1, <2>2 DEF Wired, Held
<1>10. UpInOrder'
  <2>1. ASSUME NEW d \in Conns, NEW i \in 1..Len(chan'[d].up)
        PROVE  UpFrame(d, i)'
    <3>1. d # c
      <4>1. chan'[d].up # <<>>
        OBVIOUS
      <4> QED
        BY <1>5, <4>1
    <3>2. chan'[d] = chan[d] /\ UpFrame(d, i)
      BY <1>3, <3>1 DEF IInv, UpInOrder
    <3> QED
      BY <1>6, <3>1, <3>2 DEF UpFrame, Opened
  <2> QED
    BY <2>1 DEF UpInOrder
<1>11. DownInOrder'
  <2>1. ASSUME NEW d \in Conns, NEW i \in 1..Len(chan'[d].down)
        PROVE  DownFrame(d, i)'
    <3>1. CASE d # c
      <4>1. chan'[d] = chan[d] /\ DownFrame(d, i)
        BY <1>3, <3>1 DEF IInv, DownInOrder
      <4> QED
        BY <1>6, <4>1 DEF DownFrame
    <3>2. CASE d = c
      <4>1. chan[c].host /\ chan'[c].down = <<m>>
        <5>1. chan'[c].down # <<>>
          BY <3>2
        <5> QED
          BY <1>5, <5>1
      <4>2. chan'[d].down[i] = m /\ i = 1
        <5>1. chan'[d].down = <<m>>
          BY <3>2, <4>1
        <5>2. i \in 1..Len(<<m>>)
          BY <5>1
        <5>3. i = 1 /\ Len(<<m>>) = 1
          BY <5>2
        <5>4. Len(chan'[d].down) = 1
          BY <5>1, <5>3
        <5>5. chan'[d].down[i] = m
          BY <5>1, <5>3
        <5> QED
          BY <5>3, <5>4, <5>5
      <4> QED
        BY <1>2, <1>4, <1>6, <3>2, <4>1, <4>2 DEF DownFrame
    <3> QED
      BY <3>1, <3>2
  <2> QED
    BY <2>1 DEF DownInOrder
<1>12. Given'
  <2>1. ASSUME link.at = "opening", sess'.owner = link.conn
        PROVE  /\ chan'[link.conn].up = <<>> /\ sess'.seq = 0
               /\ sess'.state = [Nothing EXCEPT !.open = link.state.open]
    <3>1. link.conn = c /\ chan[c].host
      BY <1>1, <1>6, <2>1 DEF Wired, Wire, Held
    <3> QED
      BY <1>4, <1>5, <3>1
  <2> QED
    BY <2>1 DEF IInv, Given
<1>13. Performed'
  BY DEF IInv, Performed, Performing, Did
<1>14. Coursed'
  <2>1. PICK p : Course(p, sess', <<>>)
    BY <1>7, CourseStays DEF SessOK
  <2>2. Arrives(p, c)'
    <3>1. ~(chan'[c].host /\ Opened')
      BY <1>3, <1>4 DEF Opened
    <3> QED
      BY <3>1 DEF Arrives
  <2> QED
    BY <1>5, <1>6, <2>1, <2>2 DEF Coursed
<1>15. TypeOK'
  BY <1>1, <1>3, <1>7 DEF TypeOK, ChanOK, Chan, SessOK
<1> QED
  BY <1>9, <1>10, <1>11, <1>12, <1>13, <1>14, <1>15 DEF IInv

\* A fact or a result of the session is taken, and the session goes on.
LEMMA TakenKeeps ==
    ASSUME IInv, NEW c \in Conns, chan[c].bridge, chan[c].up # <<>>,
           Head(chan[c].up).type \in {"fact", "result"},
           chan' = [chan EXCEPT ![c].up = Tail(@)],
           sess'.owner = sess.owner, SessOK', FateOK',
           \A p : Course(p, sess, chan[c].up) => p[1] = [seq |-> sess'.seq, state |-> sess'.state],
           \A e \in Effects : fate'[e] = "none" => fate[e] = "none",
           \A e \in Effects : fate'[e] \in {"accepted", "unsupported"} => performed[e] = <<fate'[e]>>,
           UNCHANGED <<driver, link, performed, missed>>
    PROVE  IInv'
<1>1. /\ TypeOK /\ Wired /\ UpFrame(c, 1) /\ Head(chan[c].up) = chan[c].up[1] /\ chan[c].up \in Seq(Frame)
      /\ \A i \in 1..Len(Tail(chan[c].up)) :
            /\ Tail(chan[c].up)[i] = chan[c].up[i + 1]
            /\ UpFrame(c, i + 1)
            /\ chan[c].up[i + 1].type \in {"fact", "result", "close"}
            /\ i + 1 = Len(chan[c].up) => i = Len(Tail(chan[c].up))
  BY RestInOrder, Typed DEF IInv
<1>2. /\ ChanOK'
      /\ \A d \in Conns : chan'[d].host = chan[d].host /\ chan'[d].bridge = chan[d].bridge
                          /\ chan'[d].down = chan[d].down
      /\ \A d \in Conns : d # c => chan'[d] = chan[d]
      /\ chan'[c].up = Tail(chan[c].up)
  BY FrameTaken DEF ChanOK
<1>3. sess.owner = c /\ (chan[c].host => Opened)
  BY <1>1 DEF UpFrame
<1>4. Wired'
  <2>1. \A d \in Conns : Wire(d)'
    <3> TAKE d \in Conns
    <3>1. Wire(d)
      BY <1>1 DEF Wired
    <3>2. CASE d = c
      BY <1>2, <3>1, <3>2 DEF Wire, Held
    <3>3. CASE d # c
      BY <1>2, <3>1, <3>3 DEF Wire, Held
    <3> QED
      BY <3>2, <3>3
  <2> QED
    BY <1>1, <1>2, <2>1 DEF Wired, Held, Opened
<1>5. UpInOrder'
  <2>1. ASSUME NEW d \in Conns, NEW i \in 1..Len(chan'[d].up)
        PROVE  UpFrame(d, i)'
    <3>1. CASE d # c
      <4>1. chan'[d] = chan[d] /\ UpFrame(d, i)
        BY <1>2, <3>1 DEF IInv, UpInOrder
      <4> QED
        BY <4>1 DEF UpFrame, Opened
    <3>2. CASE d = c
      <4>1. /\ chan'[c].up[i] = chan[c].up[i + 1] /\ UpFrame(c, i + 1)
            /\ chan[c].up[i + 1].type \in {"fact", "result", "close"}
            /\ i + 1 = Len(chan[c].up) => i = Len(chan'[c].up)
        <5>1. chan'[c].up = Tail(chan[c].up) /\ i \in 1..Len(Tail(chan[c].up))
          BY <1>2, <3>2
        <5> QED
          BY <1>1, <5>1
      <4> QED
        BY <1>2, <3>2, <4>1 DEF UpFrame, Opened
    <3> QED
      BY <3>1, <3>2
  <2> QED
    BY <2>1 DEF UpInOrder
<1>6. DownInOrder'
  <2>1. ASSUME NEW d \in Conns, NEW i \in 1..Len(chan[d].down)
        PROVE  DownFrame(d, i)'
    <3>1. DownFrame(d, i) /\ chan[d].down[i] \in Frame
      BY <1>1, Typed DEF IInv, DownInOrder
    <3>2. chan[d].down[i].type = "hello_ok" => chan'[d].up = <<>>
      <4>1. chan[d].down[i].type = "hello_ok" => d # c
        BY <3>1 DEF DownFrame
      <4> QED
        BY <1>2, <3>1, <4>1 DEF DownFrame
    <3>3. chan[d].down[i].type = "effect" => fate'[chan[d].down[i].effect] # "none"
      BY <3>1, FrameFields DEF DownFrame
    <3> QED
      BY <1>2, <3>1, <3>2, <3>3 DEF DownFrame
  <2> QED
    BY <1>2, <2>1 DEF DownInOrder
<1>7. Given'
  <2>1. ~(link.at = "opening" /\ sess.owner = link.conn)
    BY <1>1, <1>3 DEF Wired, Wire, Held, Opened
  <2> QED
    BY <2>1 DEF IInv, Given
<1>8. Performed'
  BY DEF IInv, Performed, Performing, Did
<1>9. Coursed'
  <2>1. PICK p : Course(p, sess, chan[c].up) /\ Arrives(p, c)
    BY <1>3 DEF IInv, Coursed
  <2>2. PICK r : Course(r, sess', Tail(chan[c].up)) /\ r[Len(Tail(chan[c].up))] = p[Len(chan[c].up)]
    BY <1>1, <2>1, CourseTail
  <2>3. Course(r, sess', chan'[c].up) /\ r[Len(chan'[c].up)] = p[Len(chan[c].up)]
    BY <1>2, <2>2
  <2>4. Arrives(r, c)'
    BY <1>2, <2>1, <2>3 DEF Arrives, Opened
  <2>5. \A d \in Conns : sess'.owner = d => d = c
    BY <1>3
  <2> QED
    BY <2>3, <2>4, <2>5 DEF Coursed
<1>10. TypeOK'
  BY <1>1, <1>2 DEF TypeOK, ChanOK, Chan, SessOK, FateOK
<1> QED
  BY <1>4, <1>5, <1>6, <1>7, <1>8, <1>9, <1>10 DEF IInv

\* The Bridge's ends close, and the session goes with its owner's.
LEMMA BridgeLeaves ==
    ASSUME IInv, ChanOK', SessOK', FateOK',
           \A d \in Conns : /\ chan'[d].host = chan[d].host /\ chan'[d].down = chan[d].down
                            /\ chan'[d].bridge => chan[d].bridge
                            /\ ~chan'[d].bridge => chan'[d].up = <<>>
                            /\ chan'[d].up = chan[d].up \/ chan'[d].up = <<>>,
           \/ sess' = sess /\ \A d \in Conns : sess.owner = d => chan'[d] = chan[d]
           \/ \A d \in Conns : /\ sess'.owner # d
                               /\ sess.owner = d => chan'[d].up = <<>> /\ ~(chan'[d].host /\ chan'[d].bridge),
           \A e \in Effects : fate'[e] = "none" => fate[e] = "none",
           \A e \in Effects : fate'[e] \in {"accepted", "unsupported"} => fate[e] = fate'[e],
           UNCHANGED <<driver, link, performed, missed>>
    PROVE  IInv'
<1>1. TypeOK /\ Wired
  BY DEF IInv
<1>2. \A d \in Conns : sess'.owner = d => sess' = sess /\ sess.owner = d /\ chan'[d] = chan[d]
  OBVIOUS
<1>3. \A d \in Conns : sess.owner = d => \/ sess'.owner = d
                                         \/ chan'[d].up = <<>> /\ ~(chan'[d].host /\ chan'[d].bridge)
  OBVIOUS
<1>4. Wired'
  <2>1. \A d \in Conns : Wire(d)'
    <3> TAKE d \in Conns
    <3>1. Wire(d)
      BY <1>1 DEF Wired
    <3> QED
      BY <1>2, <3>1 DEF Wire, Held
  <2>2. Opened /\ chan'[link.conn].bridge => sess'.owner = link.conn
    <3>1. Opened => link.conn \in Conns /\ chan[link.conn].host
      BY <1>1 DEF Wired, Wire, Held, Opened
    <3> QED
      BY <1>1, <1>3, <3>1 DEF Wired
  <2> QED
    BY <1>1, <2>1, <2>2 DEF Wired, Held, Opened
<1>5. UpInOrder'
  <2>1. ASSUME NEW d \in Conns, NEW i \in 1..Len(chan'[d].up)
        PROVE  UpFrame(d, i)'
    <3>1. chan'[d].up # <<>>
      OBVIOUS
    <3>2. chan'[d].up = chan[d].up
      BY <3>1
    <3>3. UpFrame(d, i)
      BY <3>2 DEF IInv, UpInOrder
    <3> QED
      BY <1>2, <1>3, <3>1, <3>2, <3>3 DEF UpFrame, Opened
  <2> QED
    BY <2>1 DEF UpInOrder
<1>6. DownInOrder'
  <2>1. ASSUME NEW d \in Conns, NEW i \in 1..Len(chan[d].down)
        PROVE  DownFrame(d, i)'
    <3>1. DownFrame(d, i) /\ chan[d].down[i] \in Frame /\ chan[d].host
      <4>1. chan[d].down # <<>>
        OBVIOUS
      <4> QED
        BY <1>1, <4>1, Typed DEF IInv, DownInOrder, Wired, Wire
    <3>2. chan[d].down[i].type = "effect" => fate'[chan[d].down[i].effect] # "none"
      BY <3>1, FrameFields DEF DownFrame
    <3>3. chan'[d].bridge /\ sess.owner = d => sess'.owner = d
      BY <1>3, <3>1
    <3> QED
      BY <3>1, <3>2, <3>3 DEF DownFrame
  <2> QED
    BY <2>1 DEF DownInOrder
<1>7. Given'
  <2>1. link.at = "opening" => link.conn \in Conns
    BY <1>1 DEF Wired, Held
  <2> QED
    BY <1>2, <2>1 DEF IInv, Given
<1>8. Performed'
  BY DEF IInv, Performed, Performing, Did
<1>9. Coursed'
  <2>1. ASSUME NEW d \in Conns, sess'.owner = d
        PROVE  \E p : Course(p, sess', chan'[d].up) /\ Arrives(p, d)'
    <3>1. sess' = sess /\ sess.owner = d /\ chan'[d] = chan[d]
      BY <1>2, <2>1
    <3>2. PICK p : Course(p, sess, chan[d].up) /\ Arrives(p, d)
      BY <3>1 DEF IInv, Coursed
    <3> QED
      BY <3>1, <3>2 DEF Arrives, Opened
  <2> QED
    BY <2>1 DEF Coursed
<1>10. TypeOK'
  BY <1>1 DEF TypeOK, ChanOK, Chan, SessOK, FateOK
<1> QED
  BY <1>4, <1>5, <1>6, <1>7, <1>8, <1>9, <1>10 DEF IInv

\* What leaving makes of the session and of the effects.
LEMMA LeftTyped ==
    ASSUME TypeOK
    PROVE  /\ SessOK /\ FateOK
           /\ Removed.owner = None /\ Orphaned(sess).owner = None /\ \A d \in Conns : d # None
           /\ sess' = Removed \/ sess' = Orphaned(sess) \/ sess' = sess => SessOK'
           /\ fate' = Failed(fate) \/ fate' = fate =>
                /\ FateOK'
                /\ \A e \in Effects : fate'[e] = "none" => fate[e] = "none"
                /\ \A e \in Effects : fate'[e] \in {"accepted", "unsupported"} => fate[e] = fate'[e]
<1>1. SessOK /\ FateOK
  BY TypeParts
<1>2. Removed.owner = None /\ Orphaned(sess).owner = None /\ \A d \in Conns : d # None
  BY <1>1, LinkAssumption DEF Removed, Orphaned, SessOK, LinkAssumption
<1>3. ASSUME sess' = Removed PROVE SessOK'
  BY <1>3, NothingTyped DEF Removed, SessOK
<1>4. ASSUME sess' = Orphaned(sess) PROVE SessOK'
  <2>1. /\ sess'.life = "disconnected" /\ sess'.owner = None
        /\ sess' \in [life : {"absent", "active", "disconnected"}, owner : Conns \cup {None},
                      seq : Nat, state : State]
    BY <1>1, <1>4, NothingTyped DEF Orphaned, SessOK
  <2> QED
    BY <2>1 DEF SessOK
<1>5. ASSUME sess' = sess PROVE SessOK'
  BY <1>1, <1>5 DEF SessOK
<1>6. ASSUME fate' = Failed(fate) \/ fate' = fate
      PROVE  /\ FateOK'
             /\ \A e \in Effects : fate'[e] = "none" => fate[e] = "none"
             /\ \A e \in Effects : fate'[e] \in {"accepted", "unsupported"} => fate[e] = fate'[e]
  <2>1. CASE fate' = Failed(fate)
    BY <1>1, <2>1 DEF Failed, FateOK
  <2>2. CASE fate' = fate
    BY <1>1, <2>2 DEF FateOK
  <2> QED
    BY <1>6, <2>1, <2>2
<1> QED
  BY <1>1, <1>2, <1>3, <1>4, <1>5, <1>6

LEMMA FactKeeps ==
    ASSUME IInv, NEW c \in Conns, chan[c].bridge, chan[c].up # <<>>, Head(chan[c].up).type = "fact",
           BridgeFact(c, Head(chan[c].up)), UNCHANGED <<driver, link, performed, missed>>
    PROVE  IInv'
<1> DEFINE m == Head(chan[c].up)
<1>1. /\ m = chan[c].up[1] /\ m \in Frame /\ sess.owner = c /\ m.seq \in Nat /\ m.fact \in Change
      /\ chan[c].up \in Seq(Frame) /\ 1 \in 1..Len(chan[c].up) /\ TypeOK /\ SessOK /\ FateOK
  <2>1. /\ m = chan[c].up[1] /\ m \in Frame /\ UpFrame(c, 1) /\ chan[c].up \in Seq(Frame)
        /\ TypeOK /\ SessOK /\ FateOK
    BY RestInOrder, Typed, TypeParts DEF IInv
  <2>2. m.seq \in Nat /\ m.fact \in Change /\ sess.owner = c
    BY <2>1, FrameFields DEF UpFrame
  <2>3. 1 \in 1..Len(chan[c].up)
    BY <2>1
  <2> QED
    BY <2>1, <2>2, <2>3
<1> HIDE DEF m
<1>2. ASSUME NEW p, Course(p, sess, chan[c].up)
      PROVE  m.seq = sess.seq + 1 /\ p[1] = [seq |-> sess.seq + 1, state |-> Applied(sess.state, m.fact)]
  <2>1. Goes(p[0], p[1], m) /\ p[0] = [seq |-> sess.seq, state |-> sess.state]
    <3>1. Goes(p[1 - 1], p[1], chan[c].up[1])
      BY <1>1, <1>2 DEF Course
    <3> QED
      BY <1>1, <1>2, <3>1 DEF Course
  <2> QED
    BY <2>1 DEF Goes, m
<1>3. m.seq = sess.seq + 1
  <2>1. \E p : Course(p, sess, chan[c].up)
    BY <1>1 DEF IInv, Coursed
  <2> QED
    BY <1>2, <2>1
<1>4. /\ sess' = [sess EXCEPT !.seq = m.seq, !.state = Applied(@, m.fact)]
      /\ chan' = [chan EXCEPT ![c].up = Tail(@)] /\ fate' = fate
  BY <1>1, <1>3 DEF BridgeFact, m
<1>5. SessOK' /\ sess'.owner = sess.owner /\ sess'.seq = sess.seq + 1 /\ sess'.state = Applied(sess.state, m.fact)
  <2>1. Applied(sess.state, m.fact) \in State
    BY <1>1, AppliedTyped DEF SessOK
  <2>2. /\ sess' \in [life : {"absent", "active", "disconnected"}, owner : Conns \cup {None},
                      seq : Nat, state : State]
        /\ sess'.owner = sess.owner /\ sess'.life = sess.life /\ sess'.seq = m.seq
        /\ sess'.state = Applied(sess.state, m.fact)
    BY <1>1, <1>4, <2>1 DEF SessOK
  <2> QED
    BY <1>1, <1>3, <2>2 DEF SessOK
<1>6. FateOK' /\ \A e \in Effects : fate'[e] \in {"accepted", "unsupported"} => performed[e] = <<fate'[e]>>
  BY <1>1, <1>4 DEF FateOK, IInv, Performed, Did
<1> QED
  BY <1>2, <1>4, <1>5, <1>6, TakenKeeps

LEMMA ResultKeeps ==
    ASSUME IInv, NEW c \in Conns, chan[c].bridge, chan[c].up # <<>>, Head(chan[c].up).type = "result",
           BridgeResult(c, Head(chan[c].up)), UNCHANGED <<driver, link, performed, missed>>
    PROVE  IInv'
<1> DEFINE m == Head(chan[c].up)
<1>1. /\ m = chan[c].up[1] /\ m \in Frame /\ m.effect \in Effects /\ m.outcome \in {"accepted", "unsupported"}
      /\ performed[m.effect] = <<m.outcome>>
      /\ chan[c].up \in Seq(Frame) /\ 1 \in 1..Len(chan[c].up) /\ TypeOK /\ SessOK /\ FateOK
  <2>1. /\ m = chan[c].up[1] /\ m \in Frame /\ UpFrame(c, 1) /\ chan[c].up \in Seq(Frame)
        /\ TypeOK /\ SessOK /\ FateOK
    BY RestInOrder, Typed, TypeParts DEF IInv
  <2>2. m.effect \in Effects /\ m.outcome \in {"accepted", "unsupported"} /\ performed[m.effect] = <<m.outcome>>
    BY <2>1, FrameFields DEF UpFrame
  <2>3. 1 \in 1..Len(chan[c].up)
    BY <2>1
  <2> QED
    BY <2>1, <2>2, <2>3
<1>2. /\ fate' = [fate EXCEPT ![m.effect] = IF @ = "sent" THEN m.outcome ELSE @]
      /\ chan' = [chan EXCEPT ![c].up = Tail(@)] /\ sess' = sess
  BY DEF BridgeResult
<1>3. m.type = "result"
  OBVIOUS
<1> HIDE DEF m
<1>4. ASSUME NEW p, Course(p, sess, chan[c].up)
      PROVE  p[1] = [seq |-> sess.seq, state |-> sess.state]
  <2>1. Goes(p[0], p[1], m) /\ p[0] = [seq |-> sess.seq, state |-> sess.state]
    <3>1. Goes(p[1 - 1], p[1], chan[c].up[1])
      BY <1>1, <1>4 DEF Course
    <3> QED
      BY <1>1, <1>4, <3>1 DEF Course
  <2> QED
    BY <1>3, <2>1 DEF Goes
<1>5. FateOK' /\ SessOK' /\ \A e \in Effects : fate'[e] = "none" => fate[e] = "none"
  BY <1>1, <1>2 DEF FateOK, SessOK
<1>6. \A e \in Effects : fate'[e] \in {"accepted", "unsupported"} => performed[e] = <<fate'[e]>>
  <2> TAKE e \in Effects
  <2>1. fate[e] \in {"accepted", "unsupported"} => performed[e] = <<fate[e]>>
    BY DEF IInv, Performed, Did
  <2> QED
    BY <1>1, <1>2, <2>1 DEF FateOK
<1> QED
  BY <1>2, <1>3, <1>4, <1>5, <1>6, TakenKeeps DEF m

LEMMA CloseReadKeeps ==
    ASSUME IInv, NEW c \in Conns, chan[c].bridge, chan[c].up # <<>>, Head(chan[c].up).type = "close",
           sess' = Removed, fate' = Failed(fate), chan' = [chan EXCEPT ![c].up = Tail(@)],
           UNCHANGED <<driver, link, performed, missed>>
    PROVE  IInv'
<1>1. /\ Head(chan[c].up) = chan[c].up[1] /\ UpFrame(c, 1) /\ chan[c].up \in Seq(Frame) /\ TypeOK
      /\ \A d \in Conns : Wire(d)
  BY RestInOrder, Typed DEF IInv, Wired
<1>2. ~chan[c].host /\ Len(chan[c].up) = 1 /\ sess.owner = c
  BY <1>1 DEF UpFrame
<1>3. Tail(chan[c].up) = <<>>
  BY <1>1, <1>2, TailOfOne
<1>4. /\ ChanOK'
      /\ \A d \in Conns : chan'[d].host = chan[d].host /\ chan'[d].bridge = chan[d].bridge
                          /\ chan'[d].down = chan[d].down
      /\ \A d \in Conns : d # c => chan'[d] = chan[d]
      /\ chan'[c].up = <<>>
  BY <1>3, FrameTaken DEF ChanOK
<1>5. /\ SessOK' /\ FateOK' /\ \A d \in Conns : sess'.owner # d
      /\ \A e \in Effects : fate'[e] = "none" => fate[e] = "none"
      /\ \A e \in Effects : fate'[e] \in {"accepted", "unsupported"} => fate[e] = fate'[e]
  BY <1>1, LeftTyped
<1>6. \A d \in Conns : /\ chan'[d].host = chan[d].host /\ chan'[d].down = chan[d].down
                       /\ chan'[d].bridge => chan[d].bridge
                       /\ ~chan'[d].bridge => chan'[d].up = <<>>
                       /\ chan'[d].up = chan[d].up \/ chan'[d].up = <<>>
  BY <1>1, <1>4 DEF Wire
<1>7. \A d \in Conns : sess.owner = d => chan'[d].up = <<>> /\ ~(chan'[d].host /\ chan'[d].bridge)
  BY <1>2, <1>4
<1> QED
  BY <1>4, <1>5, <1>6, <1>7, BridgeLeaves

LEMMA BridgeReadsKeeps ==
    ASSUME IInv, NEW c \in Conns, BridgeReads(c)
    PROVE  IInv'
<1> DEFINE m == Head(chan[c].up)
<1>1. /\ chan[c].bridge /\ chan[c].up # <<>> /\ UNCHANGED <<driver, link, performed, missed>>
  BY DEF BridgeReads
<1>2. CASE /\ m.type = "hello"
           /\ chan' = SentDown([chan EXCEPT ![c].up = Tail(@)], c, <<[type |-> "hello_ok"]>>)
           /\ UNCHANGED <<sess, fate>>
  <2> DEFINE answer == [type |-> "hello_ok"]
  <2>1. answer \in Frame /\ answer.type = "hello_ok"
    BY PlainFrame
  <2>2. chan' = SentDown([chan EXCEPT ![c].up = Tail(@)], c, <<answer>>)
    BY <1>2
  <2> HIDE DEF answer
  <2> QED
    BY <1>1, <1>2, <2>1, <2>2, HandshakeKeeps
<1>3. CASE m.type = "session_open" /\ BridgeOpens(c, m)
  <2>1. CASE sess.life = "active"
    <3> DEFINE answer == [type |-> "rejected"]
    <3>1. answer \in Frame /\ answer.type = "rejected"
      BY PlainFrame
    <3>2. chan' = SentDown([chan EXCEPT ![c].up = Tail(@)], c, <<answer>>) /\ UNCHANGED <<sess, fate>>
      BY <1>3, <2>1 DEF BridgeOpens
    <3> HIDE DEF answer
    <3> QED
      BY <1>1, <1>3, <3>1, <3>2, HandshakeKeeps
  <2>2. CASE sess.life # "active"
    <3>1. /\ sess' = [life |-> "active", owner |-> c, seq |-> 0,
                      state |-> [Nothing EXCEPT !.open = m.open]]
          /\ chan' = SentDown([chan EXCEPT ![c].up = Tail(@)], c, <<[type |-> "opened"]>>)
          /\ UNCHANGED fate
      BY <1>3, <2>2 DEF BridgeOpens
    <3> QED
      BY <1>1, <1>3, <2>2, <3>1, LeaseKeeps
  <2> QED
    BY <2>1, <2>2
<1>4. CASE m.type = "fact" /\ BridgeFact(c, m)
  BY <1>1, <1>4, FactKeeps
<1>5. CASE m.type = "result" /\ BridgeResult(c, m)
  BY <1>1, <1>5, ResultKeeps
<1>6. CASE /\ m.type = "close"
           /\ sess' = Removed /\ fate' = Failed(fate)
           /\ chan' = [chan EXCEPT ![c].up = Tail(@)]
  BY <1>1, <1>6, CloseReadKeeps
<1> QED
  BY <1>2, <1>3, <1>4, <1>5, <1>6 DEF BridgeReads

-----------------------------------------------------------------------------
(* The Bridge lets go.                                                     *)

LEMMA NoticesKeeps ==
    ASSUME IInv, NEW c \in Conns, BridgeNotices(c)
    PROVE  IInv'
<1>1. /\ chan[c].bridge /\ ~chan[c].host /\ chan[c].up = <<>>
      /\ chan' = [chan EXCEPT ![c] = Closed]
      /\ sess' = IF sess.owner = c THEN Orphaned(sess) ELSE sess
      /\ fate' = IF sess.owner = c THEN Failed(fate) ELSE fate
      /\ UNCHANGED <<driver, link, performed, missed>> /\ TypeOK /\ ChanOK /\ \A d \in Conns : Wire(d)
  BY TypeParts DEF BridgeNotices, IInv, Wired
<1>2. Closed \in Chan /\ ~Closed.host /\ ~Closed.bridge /\ Closed.up = <<>> /\ Closed.down = <<>>
  BY DEF Closed, Chan
<1>3. ChanOK' /\ chan'[c] = Closed /\ \A d \in Conns : d # c => chan'[d] = chan[d]
  BY <1>1, <1>2 DEF ChanOK
<1>4. /\ SessOK' /\ FateOK'
      /\ \A e \in Effects : fate'[e] = "none" => fate[e] = "none"
      /\ \A e \in Effects : fate'[e] \in {"accepted", "unsupported"} => fate[e] = fate'[e]
      /\ sess.owner = c => \A d \in Conns : sess'.owner # d
  BY <1>1, LeftTyped
<1>5. \A d \in Conns : /\ chan'[d].host = chan[d].host /\ chan'[d].down = chan[d].down
                       /\ chan'[d].bridge => chan[d].bridge
                       /\ ~chan'[d].bridge => chan'[d].up = <<>>
                       /\ chan'[d].up = chan[d].up \/ chan'[d].up = <<>>
  <2> TAKE d \in Conns
  <2>1. CASE d = c
    <3>1. chan[c].host = FALSE /\ Closed.host = FALSE /\ chan[c].down = <<>>
      BY <1>1, <1>2, Typed DEF Wire, Closed
    <3> QED
      BY <1>1, <1>2, <1>3, <2>1, <3>1
  <2>2. CASE d # c
    BY <1>1, <1>3, <2>2 DEF Wire
  <2> QED
    BY <2>1, <2>2
<1>6. CASE sess.owner = c
  <2>1. \A d \in Conns : sess.owner = d => chan'[d].up = <<>> /\ ~(chan'[d].host /\ chan'[d].bridge)
    BY <1>2, <1>3, <1>6
  <2> QED
    BY <1>1, <1>3, <1>4, <1>5, <1>6, <2>1, BridgeLeaves
<1>7. CASE sess.owner # c
  <2>1. sess' = sess /\ \A d \in Conns : sess.owner = d => chan'[d] = chan[d]
    BY <1>1, <1>3, <1>7
  <2> QED
    BY <1>1, <1>3, <1>4, <1>5, <2>1, BridgeLeaves
<1> QED
  BY <1>6, <1>7

LEMMA BreaksKeeps ==
    ASSUME IInv, BridgeBreaks
    PROVE  IInv'
<1>1. UNCHANGED <<driver, link, performed, missed>> /\ TypeOK /\ ChanOK /\ \A d \in Conns : Wire(d)
  BY TypeParts DEF BridgeBreaks, IInv, Wired
<1>2. ASSUME NEW c \in Conns, chan' = Refused(chan, c),
             sess' = IF sess.owner = c THEN Orphaned(sess) ELSE sess,
             fate' = IF sess.owner = c THEN Failed(fate) ELSE fate
      PROVE  IInv'
  <2>1. /\ ChanOK' /\ \A d \in Conns : d # c => chan'[d] = chan[d]
        /\ chan'[c].host = chan[c].host /\ chan'[c].bridge = FALSE /\ chan'[c].up = <<>>
        /\ chan'[c].down = IF chan[c].host THEN chan[c].down ELSE <<>>
    <3>1. /\ chan' \in [Conns -> Chan] /\ \A d \in Conns : d # c => chan'[d] = chan[d]
          /\ chan'[c] = [host |-> chan[c].host, bridge |-> FALSE, up |-> <<>>,
                         down |-> IF chan[c].host THEN chan[c].down ELSE <<>>]
      BY <1>1, <1>2, RefusedAt DEF ChanOK
    <3> QED
      BY <3>1 DEF ChanOK
  <2>2. /\ SessOK' /\ FateOK'
        /\ \A e \in Effects : fate'[e] = "none" => fate[e] = "none"
        /\ \A e \in Effects : fate'[e] \in {"accepted", "unsupported"} => fate[e] = fate'[e]
        /\ sess.owner = c => \A d \in Conns : sess'.owner # d
    BY <1>1, <1>2, LeftTyped
  <2>3. \A d \in Conns : /\ chan'[d].host = chan[d].host /\ chan'[d].down = chan[d].down
                         /\ chan'[d].bridge => chan[d].bridge
                         /\ ~chan'[d].bridge => chan'[d].up = <<>>
                         /\ chan'[d].up = chan[d].up \/ chan'[d].up = <<>>
    <3> TAKE d \in Conns
    <3>1. CASE d = c
      BY <1>1, <2>1, <3>1 DEF Wire
    <3>2. CASE d # c
      BY <1>1, <2>1, <3>2 DEF Wire
    <3> QED
      BY <3>1, <3>2
  <2>4. CASE sess.owner = c
    <3>1. \A d \in Conns : sess.owner = d => chan'[d].up = <<>> /\ ~(chan'[d].host /\ chan'[d].bridge)
      BY <2>1, <2>4
    <3> QED
      BY <1>1, <2>1, <2>2, <2>3, <2>4, <3>1, BridgeLeaves
  <2>5. CASE sess.owner # c
    <3>1. sess' = sess /\ \A d \in Conns : sess.owner = d => chan'[d] = chan[d]
      BY <1>2, <2>1, <2>5
    <3> QED
      BY <1>1, <2>1, <2>2, <2>3, <3>1, BridgeLeaves
  <2> QED
    BY <2>4, <2>5
<1>3. ASSUME chan' = [c \in Conns |-> Refused(chan, c)[c]], sess' = Removed, fate' = Failed(fate)
      PROVE  IInv'
  <2>1. \A d \in Conns : chan'[d] = [host |-> chan[d].host, bridge |-> FALSE, up |-> <<>>,
                                     down |-> IF chan[d].host THEN chan[d].down ELSE <<>>]
    BY <1>1, <1>3, RefusedAt DEF ChanOK
  <2>2. ChanOK'
    <3>1. \A d \in Conns : chan'[d] \in Chan
      <4> TAKE d \in Conns
      <4>1. Refused(chan, d) \in [Conns -> Chan]
        BY <1>1, RefusedAt DEF ChanOK
      <4> QED
        BY <1>3, <4>1
    <3> QED
      BY <1>3, <3>1 DEF ChanOK
  <2>3. \A d \in Conns : /\ chan'[d].host = chan[d].host /\ chan'[d].down = chan[d].down
                         /\ chan'[d].bridge => chan[d].bridge
                         /\ ~chan'[d].bridge => chan'[d].up = <<>>
                         /\ chan'[d].up = chan[d].up \/ chan'[d].up = <<>>
    <3> TAKE d \in Conns
    <3>1. chan'[d].host = chan[d].host /\ ~chan'[d].bridge /\ chan'[d].up = <<>>
          /\ chan'[d].down = IF chan[d].host THEN chan[d].down ELSE <<>>
      <4> DEFINE w == IF chan[d].host THEN chan[d].down ELSE <<>>
      <4>1. chan'[d] = [host |-> chan[d].host, bridge |-> FALSE, up |-> <<>>, down |-> w]
        BY <2>1
      <4> HIDE DEF w
      <4>2. chan'[d].host = chan[d].host /\ ~chan'[d].bridge /\ chan'[d].up = <<>> /\ chan'[d].down = w
        BY <4>1, SilentEnd
      <4> QED
        BY <4>2 DEF w
    <3>2. chan'[d].down = chan[d].down
      <4>1. Wire(d)
        BY <1>1
      <4> QED
        BY <3>1, <4>1 DEF Wire
    <3> QED
      BY <3>1, <3>2
  <2>4. /\ SessOK' /\ FateOK' /\ \A d \in Conns : sess'.owner # d
        /\ \A e \in Effects : fate'[e] = "none" => fate[e] = "none"
        /\ \A e \in Effects : fate'[e] \in {"accepted", "unsupported"} => fate[e] = fate'[e]
    BY <1>1, <1>3, LeftTyped
  <2>5. \A d \in Conns : sess.owner = d => chan'[d].up = <<>> /\ ~(chan'[d].host /\ chan'[d].bridge)
    <3> TAKE d \in Conns
    <3> DEFINE w == IF chan[d].host THEN chan[d].down ELSE <<>>
    <3>1. chan'[d] = [host |-> chan[d].host, bridge |-> FALSE, up |-> <<>>, down |-> w]
      BY <2>1
    <3> HIDE DEF w
    <3>2. ~chan'[d].bridge /\ chan'[d].up = <<>>
      BY <3>1, SilentEnd
    <3> QED
      BY <3>2
  <2> QED
    BY <1>1, <2>2, <2>3, <2>4, <2>5, BridgeLeaves
<1> QED
  BY <1>2, <1>3 DEF BridgeBreaks

\* A deadline passes, the session lapses, or nothing happens.
LEMMA QuietKeeps ==
    ASSUME IInv, BridgeLapses \/ (\E e \in Effects : BridgeDeadline(e)) \/ UNCHANGED vars
    PROVE  IInv'
<1>1. /\ UNCHANGED <<driver, link, chan, performed, missed>> /\ TypeOK /\ \A d \in Conns : Wire(d)
  BY DEF IInv, Wired, BridgeLapses, BridgeDeadline, vars
<1>2. ChanOK' /\ SessOK /\ FateOK
  BY <1>1, TypeParts DEF ChanOK
<1>3. \A d \in Conns : /\ chan'[d].host = chan[d].host /\ chan'[d].down = chan[d].down
                       /\ chan'[d].bridge => chan[d].bridge
                       /\ ~chan'[d].bridge => chan'[d].up = <<>>
                       /\ chan'[d].up = chan[d].up \/ chan'[d].up = <<>>
  BY <1>1 DEF Wire
<1>4. /\ FateOK'
      /\ \A e \in Effects : fate'[e] = "none" => fate[e] = "none"
      /\ \A e \in Effects : fate'[e] \in {"accepted", "unsupported"} => fate[e] = fate'[e]
  BY <1>2 DEF BridgeLapses, BridgeDeadline, vars, FateOK
<1>5. CASE BridgeLapses
  <2>1. \A d \in Conns : sess.owner # d /\ sess'.owner # d
    BY <1>1, <1>2, <1>5, LeftTyped DEF BridgeLapses, SessOK
  <2>2. SessOK'
    BY <1>1, <1>5, LeftTyped DEF BridgeLapses
  <2> QED
    BY <1>1, <1>2, <1>3, <1>4, <2>1, <2>2, BridgeLeaves
<1>6. CASE sess' = sess
  <2>1. SessOK' /\ \A d \in Conns : sess.owner = d => chan'[d] = chan[d]
    BY <1>1, <1>2, <1>6 DEF SessOK
  <2> QED
    BY <1>1, <1>2, <1>3, <1>4, <1>6, <2>1, BridgeLeaves
<1> QED
  BY <1>5, <1>6 DEF BridgeDeadline, vars

LEMMA DispatchesKeeps ==
    ASSUME IInv, NEW e \in Effects, BridgeDispatches(e)
    PROVE  IInv'
<1> DEFINE m == [type |-> "effect", effect |-> e]
<1>1. /\ sess.life = "active" /\ fate[e] = "none" /\ fate' = [fate EXCEPT ![e] = "sent"]
      /\ chan' = SentDown(chan, sess.owner, <<m>>)
      /\ UNCHANGED <<driver, link, sess, performed, missed, spent>>
      /\ TypeOK /\ ChanOK /\ SessOK /\ FateOK /\ Wired
  BY TypeParts DEF BridgeDispatches, IInv
<1>2. PICK c \in Conns : sess.owner = c
  BY <1>1 DEF SessOK
<1>3. Wire(c) /\ chan[c].bridge /\ chan[c].down \in Seq(Frame)
  BY <1>1, <1>2, Typed DEF Wired, Wire
<1>4. m \in Frame /\ m.type = "effect" /\ m.effect = e
  BY DEF Frame
<1> HIDE DEF m
<1>5. /\ ChanOK'
      /\ \A d \in Conns : chan'[d].host = chan[d].host /\ chan'[d].bridge = chan[d].bridge /\ chan'[d].up = chan[d].up
      /\ \A d \in Conns : d # c => chan'[d] = chan[d] /\ chan'[d].down = chan[d].down
      /\ chan[c].host => chan'[c].down = Append(chan[c].down, m)
      /\ ~chan[c].host => chan'[c] = chan[c]
  <2>1. chan' = SentDown(chan, c, <<m>>)
    BY <1>1, <1>2
  <2> QED
    BY <1>1, <1>3, <1>4, <2>1, BridgeFrame DEF ChanOK
<1>6. FateOK' /\ fate'[e] = "sent" /\ \A x \in Effects : x # e => fate'[x] = fate[x]
  BY <1>1 DEF FateOK
<1>7. performed[e] = <<>>
  BY <1>1 DEF IInv, Performed, Did
<1>8. Wired'
  <2>1. \A d \in Conns : Wire(d)'
    <3> TAKE d \in Conns
    <3>1. Wire(d)
      BY <1>1 DEF Wired
    <3>2. ~chan[d].host => chan'[d].down = <<>>
      <4>1. ~chan[d].host => chan'[d] = chan[d]
        BY <1>5
      <4> QED
        BY <3>1, <4>1 DEF Wire
    <3> QED
      BY <1>1, <1>5, <3>1, <3>2 DEF Wire, Held
  <2> QED
    BY <1>1, <1>5, <2>1 DEF Wired, Held, Opened
<1>9. UpInOrder'
  <2>1. ASSUME NEW d \in Conns, NEW i \in 1..Len(chan[d].up)
        PROVE  UpFrame(d, i)'
    <3>1. UpFrame(d, i)
      BY DEF IInv, UpInOrder
    <3>2. chan[d].up[i].type \in {"hello", "session_open"} => chan'[d].down = chan[d].down
      <4>1. chan[d].up[i].type \in {"hello", "session_open"} => d # c
        BY <1>2, <3>1 DEF UpFrame
      <4> QED
        BY <1>5, <4>1
    <3> QED
      BY <1>1, <1>5, <3>1, <3>2 DEF UpFrame, Opened
  <2> QED
    BY <1>5, <2>1 DEF UpInOrder
\* A frame on its way is of another effect: this one has not been sent.
<1>10. ASSUME NEW d \in Conns, NEW i \in 1..Len(chan[d].down)
       PROVE  /\ DownFrame(d, i) /\ chan[d].down[i] \in Frame
              /\ chan[d].down[i].type = "effect" =>
                   /\ chan[d].down[i].effect # e /\ chan[d].down[i].effect \in Effects
                   /\ fate'[chan[d].down[i].effect] = fate[chan[d].down[i].effect]
  <2>1. DownFrame(d, i) /\ chan[d].down[i] \in Frame
    BY <1>1, Typed DEF IInv, DownInOrder
  <2> QED
    BY <1>1, <1>6, <2>1, FrameFields DEF DownFrame
<1>11. DownInOrder'
  <2>1. ASSUME NEW d \in Conns, NEW i \in 1..Len(chan'[d].down), ~(d = c /\ chan[c].host)
        PROVE  DownFrame(d, i)'
    <3>1. chan'[d] = chan[d]
      BY <1>5, <2>1
    <3>2. i \in 1..Len(chan[d].down)
      BY <3>1
    <3> QED
      BY <1>1, <1>10, <3>1, <3>2 DEF DownFrame
  <2>2. ASSUME NEW i \in 1..Len(chan'[c].down), chan[c].host
        PROVE  DownFrame(c, i)'
    <3>1. /\ chan'[c].down = Append(chan[c].down, m) /\ Len(chan[c].down) \in Nat
          /\ Len(chan'[c].down) = Len(chan[c].down) + 1 /\ chan'[c].down[Len(chan[c].down) + 1] = m
          /\ i \in 1..Len(chan[c].down) \/ i = Len(chan[c].down) + 1
      BY <1>3, <1>4, <1>5, <2>2, FrameAppended
    <3>2. \A j \in 1..Len(chan[c].down) : chan'[c].down[j] = chan[c].down[j]
      <4> TAKE j \in 1..Len(chan[c].down)
      <4>1. Append(chan[c].down, m)[j] = chan[c].down[j]
        BY <1>3, <1>4, FrameAppended
      <4> QED
        BY <3>1, <4>1
    <3>3. \A j \in 1..Len(chan'[c].down) : j \in 1..Len(chan[c].down) \/ j = Len(chan[c].down) + 1
      BY <3>1
    <3>4. CASE i = Len(chan[c].down) + 1
      <4>1. chan'[c].down[i] = m
        BY <3>1, <3>4
      <4>2. ASSUME NEW j \in 1..Len(chan'[c].down),
                   chan'[c].down[j].type = "effect", chan'[c].down[j].effect = e
            PROVE  i = j
        <5>1. j \notin 1..Len(chan[c].down)
          BY <1>10, <3>2, <4>2
        <5> QED
          BY <3>3, <3>4, <5>1
      <4> QED
        BY <1>1, <1>4, <1>6, <1>7, <4>1, <4>2 DEF DownFrame
    <3>5. CASE i \in 1..Len(chan[c].down)
      <4>1. DownFrame(c, i) /\ chan'[c].down[i] = chan[c].down[i]
        BY <1>10, <3>2, <3>5
      <4>2. chan[c].down[i].type # "hello_ok"
        BY <1>2, <1>3, <2>2, <4>1 DEF Wire, DownFrame
      <4>3. chan[c].down[i].type = "effect" =>
              /\ fate'[chan[c].down[i].effect] # "none" /\ performed[chan[c].down[i].effect] = <<>>
        BY <1>10, <3>5, <4>1 DEF DownFrame
      <4>4. ASSUME chan[c].down[i].type = "effect", NEW j \in 1..Len(chan'[c].down),
                   chan'[c].down[j].type = "effect", chan'[c].down[j].effect = chan[c].down[i].effect
            PROVE  i = j
        <5>1. chan[c].down[i].effect # e
          BY <1>10, <3>5, <4>4
        <5>2. j \in 1..Len(chan[c].down)
          BY <1>4, <3>1, <3>3, <4>4, <5>1
        <5>3. chan'[c].down[j] = chan[c].down[j]
          BY <3>2, <5>2
        <5> QED
          BY <4>1, <4>4, <5>2, <5>3 DEF DownFrame
      <4> QED
        BY <1>1, <1>2, <1>5, <4>1, <4>2, <4>3, <4>4 DEF DownFrame
    <3> QED
      BY <3>1, <3>4, <3>5
  <2> QED
    BY <2>1, <2>2 DEF DownInOrder
<1>12. Given'
  <2>1. link.at = "opening" => link.conn \in Conns
    BY <1>1 DEF Wired, Held
  <2> QED
    BY <1>1, <1>5, <2>1 DEF IInv, Given
<1>13. Performed'
  <2>1. \A x \in Effects : Did(x)'
    <3> TAKE x \in Effects
    <3>1. Did(x)
      BY DEF IInv, Performed
    <3> QED
      BY <1>1, <1>6, <3>1 DEF Did
  <2> QED
    BY <1>1, <2>1 DEF IInv, Performed, Performing
<1>14. Coursed'
  <2>1. ASSUME NEW d \in Conns, sess'.owner = d
        PROVE  \E p : Course(p, sess', chan'[d].up) /\ Arrives(p, d)'
    <3>1. PICK p : Course(p, sess, chan[d].up) /\ Arrives(p, d)
      BY <1>1, <2>1 DEF IInv, Coursed
    <3> QED
      BY <1>1, <1>5, <3>1 DEF Arrives, Opened
  <2> QED
    BY <2>1 DEF Coursed
<1>15. TypeOK'
  BY <1>1, <1>5, <1>6 DEF TypeOK, ChanOK, Chan, FateOK
<1> QED
  BY <1>8, <1>9, <1>11, <1>12, <1>13, <1>14, <1>15 DEF IInv

-----------------------------------------------------------------------------
(* The theorems.                                                           *)

LEMMA Keeps == IInv /\ [Next]_vars => IInv'
<1> SUFFICES ASSUME IInv, [Next]_vars PROVE IInv'
  OBVIOUS
<1>1. CASE DriverChanges
  BY <1>1, DriverKeeps
<1>2. CASE LinkStep
  BY <1>2, ConnectKeeps, OpenKeeps, OpenResultKeeps, DropKeeps, ServeKeeps, PerformKeeps DEF LinkStep
<1>3. CASE GivesUp
  BY <1>3, DropKeeps
<1>4. CASE Close
  BY <1>4, CloseKeeps
<1>5. CASE \E c \in Conns : Bridge(c)
  BY <1>5, BridgeReadsKeeps, NoticesKeeps DEF Bridge
<1>6. CASE \E e \in Effects : BridgeDispatches(e)
  BY <1>6, DispatchesKeeps
<1>7. CASE BridgeBreaks
  BY <1>7, BreaksKeeps
<1>8. CASE BridgeLapses \/ (\E e \in Effects : BridgeDeadline(e)) \/ UNCHANGED vars
  BY <1>8, QuietKeeps
<1> QED
  BY <1>1, <1>2, <1>3, <1>4, <1>5, <1>6, <1>7, <1>8 DEF Next

\* The invariant holds whatever the driver emits, the host sends and the Bridge does.
THEOREM LinkInductive == Spec => []IInv
  BY InvInit, Keeps, PTL DEF Spec

LEMMA InvLeased ==
    ASSUME IInv
    PROVE  Leased
<1>1. ASSUME NEW c \in Conns, NEW i \in 1..Len(chan[c].up),
             chan[c].up[i].type = "fact", sess.owner = c
      PROVE  chan[c].up[i].seq = sess.seq + Cardinality({j \in 1..i : chan[c].up[j].type = "fact"})
  <2> DEFINE q == chan[c].up
             number == Cardinality({j \in 1..i : q[j].type = "fact"})
  <2>1. q \in Seq(Frame) /\ sess.seq \in Nat /\ i \in 0..Len(q)
    BY Typed DEF IInv
  <2>2. PICK p : Course(p, sess, q)
    BY <1>1 DEF IInv, Coursed
  <2>3. p[i].seq = sess.seq + number
    BY <2>1, <2>2, CourseNumbers
  <2>4. Goes(p[i - 1], p[i], q[i])
    BY <2>2 DEF Course
  <2> HIDE DEF number
  <2>5. q[i].seq = p[i].seq
    BY <1>1, <2>4 DEF Goes
  <2> QED
    BY <2>3, <2>5 DEF number
<1> QED
  BY <1>1 DEF IInv, Leased, InSequence

LEMMA InvRebuilt ==
    ASSUME IInv
    PROVE  RebuiltUnlessMissed
<1> SUFFICES ASSUME ~missed, Opened, chan[link.conn].bridge
             PROVE  /\ sess.life = "active" /\ sess.owner = link.conn
                    /\ After(sess.state, chan[link.conn].up) = driver
  BY DEF RebuiltUnlessMissed, InStep
<1>1. PICK c \in Conns : link.conn = c /\ sess.owner = c /\ chan[c].host /\ chan[c].up \in Seq(Frame)
  BY Typed DEF IInv, Wired, Wire, Held, Opened
<1>2. sess.life = "active"
  BY <1>1, LinkAssumption, TypeParts DEF IInv, SessOK, LinkAssumption
<1>3. PICK p : Course(p, sess, chan[c].up) /\ Arrives(p, c)
  BY <1>1 DEF IInv, Coursed
<1>4. p[Len(chan[c].up)].state = driver
  BY <1>1, <1>3 DEF Arrives
<1>5. After(sess.state, chan[c].up) = p[Len(chan[c].up)].state
  BY <1>1, <1>3, CourseEnds
<1> QED
  BY <1>1, <1>2, <1>4, <1>5

LEMMA InvEffect ==
    ASSUME IInv
    PROVE  EffectTrue
  BY DEF IInv, Performed, Did, EffectTrue

\* The session belongs to one connection, and no fact of it is out of sequence: the Bridge never
\* hangs up on a host for what emit and the report of a reopened session numbered.
THEOREM LeaseKept == Spec => []Leased
  BY LinkInductive, InvLeased, PTL

\* What the Bridge holds of an open session and the facts on their way add up to what the driver
\* holds, unless a fact was emitted between reading the driver's state and opening.
THEOREM StateRebuilt == Spec => []RebuiltUnlessMissed
  BY LinkInductive, InvRebuilt, PTL

\* The driver is given an effect once, and the Bridge's outcome of it is what the driver said.
THEOREM EffectsTrue == Spec => []EffectTrue
  BY LinkInductive, InvEffect, PTL
=============================================================================
