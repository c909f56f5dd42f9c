--------------------------- MODULE TuiProxyProofs ---------------------------
(***************************************************************************)
(* What TLAPS proves of the proxy of the Codex terminal, for any requests, *)
(* limits and bounds: of the surface's decision and the terminal's answer  *)
(* to the only ask of an id, one reaches Codex as long as it has not       *)
(* expired, and the adapter's, the proxy's and the link thread's views of  *)
(* an approval fit together between their locks.                           *)
(***************************************************************************)
EXTENDS TuiProxy, FiniteSetTheorems, SequenceTheorems, TLAPS

-----------------------------------------------------------------------------
(* Sequences and finite sets.                                            *)

LEMMA AppendAt ==
    ASSUME NEW S, NEW s \in Seq(S), NEW x \in S
    PROVE  /\ Append(s, x) \in Seq(S)
           /\ \A i \in DOMAIN Append(s, x) : \/ i \in DOMAIN s /\ Append(s, x)[i] = s[i]
                                             \/ i = Len(s) + 1 /\ Append(s, x)[i] = x
           /\ \A i \in DOMAIN s : i \in DOMAIN Append(s, x) /\ Append(s, x)[i] = s[i]
           /\ Len(s) + 1 \in DOMAIN Append(s, x) /\ Append(s, x)[Len(s) + 1] = x
           /\ \A i \in DOMAIN s : i < Len(s) + 1
  OBVIOUS

LEMMA TailAt ==
    ASSUME NEW S, NEW s \in Seq(S), s # <<>>
    PROVE  /\ Tail(s) \in Seq(S)
           /\ 1 \in DOMAIN s /\ Head(s) = s[1] /\ Head(s) \in S
           /\ \A i \in DOMAIN Tail(s) : /\ i \in Nat \ {0} /\ i + 1 \in DOMAIN s
                                        /\ Tail(s)[i] = s[i + 1]
           /\ \A j \in DOMAIN s : /\ j \in Nat \ {0}
                                  /\ j # 1 => j - 1 \in DOMAIN Tail(s) /\ Tail(s)[j - 1] = s[j]
  OBVIOUS

\* What a sequence holds, wherever it holds it.
Elements(s) == {s[i] : i \in DOMAIN s}

LEMMA ElementsMove ==
    ASSUME NEW S, NEW s \in Seq(S)
    PROVE  /\ Elements(s) \in SUBSET S
           /\ \A x \in S : Append(s, x) \in Seq(S) /\ Elements(Append(s, x)) = Elements(s) \cup {x}
           /\ s # <<>> => /\ Tail(s) \in Seq(S) /\ Head(s) \in Elements(s)
                          /\ Elements(Tail(s)) \subseteq Elements(s)
           /\ Elements(<<>>) = {} /\ <<>> \in Seq(S)
<1>1. Elements(s) \in SUBSET S
  BY ElementOfSeq DEF Elements
<1>2. ASSUME NEW x \in S
      PROVE  Append(s, x) \in Seq(S) /\ Elements(Append(s, x)) = Elements(s) \cup {x}
  <2>1. /\ Append(s, x) \in Seq(S)
        /\ \A i \in DOMAIN Append(s, x) : (i \in DOMAIN s /\ Append(s, x)[i] = s[i]) \/ Append(s, x)[i] = x
        /\ \A i \in DOMAIN s : i \in DOMAIN Append(s, x) /\ Append(s, x)[i] = s[i]
        /\ \E i \in DOMAIN Append(s, x) : Append(s, x)[i] = x
    BY AppendAt
  <2> QED
    BY <2>1 DEF Elements
<1>3. ASSUME s # <<>>
      PROVE  /\ Tail(s) \in Seq(S) /\ Head(s) \in Elements(s)
             /\ Elements(Tail(s)) \subseteq Elements(s)
  BY <1>3, TailAt DEF Elements
<1>4. Elements(<<>>) = {} /\ <<>> \in Seq(S)
  BY DEF Elements
<1> QED
  BY <1>1, <1>2, <1>3, <1>4

Once(s, A) == \A i, j \in DOMAIN s : s[i] \in A /\ s[i] = s[j] => i = j

LEMMA OnceMoves ==
    ASSUME NEW S, NEW s \in Seq(S), NEW A, Once(s, A)
    PROVE  /\ \A x \in S : x \notin A \/ x \notin Elements(s) => Once(Append(s, x), A)
           /\ s # <<>> => /\ Once(Tail(s), A)
                          /\ Head(s) \in A => Head(s) \notin Elements(Tail(s))
<1>1. ASSUME NEW x \in S, x \notin A \/ x \notin Elements(s)
      PROVE  Once(Append(s, x), A)
  <2> DEFINE a == Append(s, x)
  <2>1. \A i \in DOMAIN a : \/ i \in DOMAIN s /\ a[i] = s[i]
                            \/ i = Len(s) + 1 /\ a[i] = x
    BY AppendAt
  <2>2. \A i \in DOMAIN s : s[i] \in Elements(s)
    BY DEF Elements
  <2> HIDE DEF a
  <2>3. Once(a, A)
    BY <1>1, <2>1, <2>2 DEF Once
  <2> QED
    BY <2>3 DEF a
<1>2. ASSUME s # <<>> PROVE Once(Tail(s), A) /\ (Head(s) \in A => Head(s) \notin Elements(Tail(s)))
  <2> DEFINE t == Tail(s)
  <2>1. /\ 1 \in DOMAIN s /\ Head(s) = s[1]
        /\ \A i \in DOMAIN t : i \in Nat \ {0} /\ i + 1 \in DOMAIN s /\ t[i] = s[i + 1]
    BY <1>2, TailAt
  <2> HIDE DEF t
  <2>2. ASSUME NEW i \in DOMAIN t, NEW j \in DOMAIN t, t[i] \in A, t[i] = t[j] PROVE i = j
    <3>1. i + 1 = j + 1
      BY <2>1, <2>2 DEF Once
    <3> QED
      BY <2>1, <3>1
  <2>3. ASSUME NEW i \in DOMAIN t, s[1] \in A PROVE t[i] # s[1]
    <3>1. i + 1 # 1
      BY <2>1
    <3> QED
      BY <2>1, <2>3, <3>1 DEF Once
  <2> QED
    BY <2>1, <2>2, <2>3 DEF Once, Elements, t
<1> QED
  BY <1>1, <1>2

LEMMA Replaced ==
    ASSUME NEW S, IsFiniteSet(S), NEW x \in S, NEW y, NEW T, T \subseteq (S \ {x}) \cup {y}
    PROVE  IsFiniteSet(T) /\ Cardinality(T) \in Nat /\ Cardinality(T) <= Cardinality(S)
<1>1. IsFiniteSet(S \ {x}) /\ Cardinality(S \ {x}) = Cardinality(S) - 1 /\ Cardinality(S) \in Nat
      /\ Cardinality(S \ {x}) \in Nat
  BY FS_RemoveElement, FS_CardinalityType
<1> DEFINE U == (S \ {x}) \cup {y}
<1>2. IsFiniteSet(U) /\ Cardinality(U) \in Nat /\ Cardinality(U) <= Cardinality(S)
  <2>1. IsFiniteSet(U)
        /\ Cardinality(U) = IF y \in S \ {x} THEN Cardinality(S \ {x}) ELSE Cardinality(S \ {x}) + 1
    BY <1>1, FS_AddElement
  <2>2. CASE y \in S \ {x}
    BY <1>1, <2>1, <2>2
  <2>3. CASE y \notin S \ {x}
    BY <1>1, <2>1, <2>3
  <2> QED
    BY <2>2, <2>3
<1> HIDE DEF U
<1>3. T \in SUBSET U
  BY DEF U
<1>4. IsFiniteSet(T) /\ Cardinality(T) <= Cardinality(U)
  BY <1>2, <1>3, FS_Subset
<1> QED
  BY <1>2, <1>4, FS_CardinalityType

LEMMA Smaller ==
    ASSUME NEW S, IsFiniteSet(S), NEW T, T \subseteq S
    PROVE  IsFiniteSet(T) /\ Cardinality(T) \in Nat /\ Cardinality(S) \in Nat
           /\ Cardinality(T) <= Cardinality(S)
<1>1. T \in SUBSET S
  OBVIOUS
<1> QED
  BY <1>1, FS_Subset, FS_CardinalityType

LEMMA RoomForOne ==
    ASSUME NEW S, IsFiniteSet(S), NEW n \in Nat, Cardinality(S) < n, NEW x
    PROVE  IsFiniteSet(S \cup {x}) /\ Cardinality(S \cup {x}) <= n
<1>1. /\ IsFiniteSet(S \cup {x}) /\ Cardinality(S) \in Nat
      /\ Cardinality(S \cup {x}) = IF x \in S THEN Cardinality(S) ELSE Cardinality(S) + 1
  BY FS_AddElement, FS_CardinalityType
<1>2. CASE x \in S
  BY <1>1, <1>2
<1>3. CASE x \notin S
  BY <1>1, <1>3
<1> QED
  BY <1>1, <1>2, <1>3

-----------------------------------------------------------------------------
(* The inductive invariant.                                                *)

\* A decision of a surface has gone out, or waits to.
Decided == sent \cup Elements(decisions)

\* The approval the link thread is at, or was last at.
Linked == IF link = Idle THEN {} ELSE {link.token}

Forgetting(t) == link.at = "forget" /\ link.token = t

\* What Codex has asked and the connection thread has not handled.
AskMessages == [kind : {"ask"}, token : Tokens]
Asking == {t \in Tokens : [kind |-> "ask", token |-> t] \in Elements(up)}

\* The approval that is being opened.
Opened == IF opening = None THEN {} ELSE {opening.token}

\* What any of the three threads has come to know of.
Met == prompts \cup Elements(down) \cup pending \cup {s.token : s \in suppressed} \cup Decided
       \cup Opened \cup telling \cup leaving \cup known \cup Linked \cup keyed

\* An ask is handled once, and has a token nobody has met before.
Fresh == /\ Asking \cup Met \subseteq Asked
         /\ Asking \cap Met = {}
         /\ Once(up, AskMessages)

\* One approval of an id at a time.
Alone == /\ \A t, u \in pending : Id(t) = Id(u) => t = u
         /\ \A s, x \in suppressed : Id(s.token) = Id(x.token) => s = x
         /\ \A t \in pending, s \in suppressed : Id(s.token) # Id(t)

\* Until the adapter is told of it, an approval is pending and only the connection thread knows it.
Opening == opening # None =>
    /\ telling = {}
    /\ ~opening.raised => opening.token \in pending /\ opening.token \notin known \cup Linked

\* Whoever knows an approval that is no longer pending is about to be told.
Told == \A t \in known : t \in pending \cup telling \cup leaving \/ Forgetting(t)

\* What is decided is decided for good.
Ruled == \A t \in Decided : /\ t \notin pending
                            /\ t \in known => Forgetting(t)
                            /\ t \in Linked => link.at \in {"forget", "accepted"}

\* The terminal answers a prompt once.
AnsweredOnce == /\ keyed \cap (pending \cup prompts \cup Elements(down)) = {}
         /\ prompts \cap Elements(down) = {}
         /\ Once(down, Tokens)

\* The only ask of its id, and not expired.
Lone(t) == asks[Id(t)] = 1 /\ t \notin late

Coming == prompts \cup Elements(down)

\* The record of a decision stays as long as an answer may come.
HeldBack ==
    \A t \in Tokens : Lone(t) =>
        /\ t \in Decided => /\ t \notin keyed
                            /\ t \in Coming => \E s \in suppressed : s.token = t
        /\ \A s \in suppressed : s.token = t /\ s.seen => t \notin Coming

\* TypeOK, but for the count of the approvals of an id, which follows from Alone.
Shape ==
    /\ asks \in [Requests -> 0..MaxAsks]
    /\ stage \in [Requests -> {"open", "answered", "waiting", "over"}]
    /\ up \in Seq(Message) /\ Len(up) <= MaxQueued
    /\ down \in Seq(Tokens) /\ prompts \subseteq Tokens /\ links \in 0..MaxLinks
    /\ phase \in {"down", "decisions", "events", "terminal", "expire"}
    /\ pending \subseteq Tokens /\ Cardinality(pending) <= MaxPending
    /\ suppressed \subseteq Suppressed /\ Cardinality(suppressed) <= MaxPending
    /\ decisions \in Seq(Tokens) /\ Len(decisions) <= MaxPending
    /\ late \subseteq Tokens /\ opening \in OpenCall \cup {None}
    /\ telling \subseteq Tokens /\ leaving \subseteq Tokens
    /\ known \subseteq Tokens /\ Cardinality(known) <= MaxPending
    /\ link \in Link \cup Outcome \cup {Idle}
    /\ sent \subseteq Tokens /\ keyed \subseteq Tokens

IInv == Shape /\ Fresh /\ Alone /\ Opening /\ Told /\ Ruled /\ AnsweredOnce /\ HeldBack

-----------------------------------------------------------------------------
(* Tokens, records and what the link thread is at.                         *)

LEMMA TokensFinite == IsFiniteSet(Tokens)
<1>1. IsFiniteSet(1..MaxAsks)
  BY ProxyAssumption, FS_Interval DEF ProxyAssumption
<1> QED
  BY <1>1, ProxyAssumption, FS_Product DEF ProxyAssumption, Tokens

LEMMA TokenOf ==
    ASSUME NEW t \in Tokens
    PROVE  Id(t) \in Requests /\ t[2] \in 1..MaxAsks /\ t = <<Id(t), t[2]>>
  BY DEF Tokens, Id

LEMMA RecordsFinite == IsFiniteSet(Suppressed)
<1> DEFINE f == [x \in Tokens \X (BOOLEAN \X (BOOLEAN \X BOOLEAN)) |->
                  [token |-> x[1], resolved |-> x[2][1], seen |-> x[2][2][1], notified |-> x[2][2][2]]]
           Flags == BOOLEAN \X (BOOLEAN \X BOOLEAN)
<1>1. IsFiniteSet(BOOLEAN)
  <2>1. BOOLEAN = {TRUE} \cup {FALSE}
    OBVIOUS
  <2>2. IsFiniteSet({TRUE})
    BY FS_Singleton
  <2>3. IsFiniteSet({TRUE} \cup {FALSE})
    BY <2>2, FS_AddElement
  <2> QED
    BY <2>1, <2>3, Zenon
<1>2. IsFiniteSet(BOOLEAN \X BOOLEAN)
  BY <1>1, FS_Product
<1>3. IsFiniteSet(Flags)
  BY <1>1, <1>2, FS_Product
<1>4. IsFiniteSet(Tokens \X Flags)
  BY <1>3, TokensFinite, FS_Product
<1>5. f \in Surjection(Tokens \X Flags, Suppressed)
  <2>1. f \in [Tokens \X Flags -> Suppressed]
    BY DEF Suppressed
  <2>2. ASSUME NEW s \in Suppressed
        PROVE  \E x \in Tokens \X Flags : f[x] = s
    <3> DEFINE x == <<s.token, <<s.resolved, <<s.seen, s.notified>>>>>>
    <3>1. x \in Tokens \X Flags
      BY DEF Suppressed
    <3>2. f[x] = [token |-> s.token, resolved |-> s.resolved, seen |-> s.seen, notified |-> s.notified]
      BY <3>1
    <3>3. f[x] = s
      BY <3>2 DEF Suppressed
    <3> QED
      BY <3>1, <3>3
  <2> QED
    BY <2>1, <2>2 DEF Surjection
<1> QED
  BY <1>4, <1>5, FS_Surjection, Zenon

\* Only so many asks fit: an id that can be used again has a token left.
LEMMA RoomToAsk ==
    ASSUME asks \in [Requests -> 0..MaxAsks], NEW r \in Requests, Cardinality(Asked) < MaxAsks
    PROVE  asks[r] + 1 \in 1..MaxAsks
<1>1. MaxAsks \in Nat /\ asks[r] \in 0..MaxAsks
  BY ProxyAssumption DEF ProxyAssumption
<1>2. IsFiniteSet(Asked) /\ Cardinality(Asked) \in Nat
  BY TokensFinite, Smaller DEF Asked
<1>3. ASSUME asks[r] = MaxAsks PROVE FALSE
  <2> DEFINE f == [k \in 1..MaxAsks |-> <<r, k>>]
  <2>1. f \in Injection(1..MaxAsks, Asked)
    <3>1. \A k \in 1..MaxAsks : <<r, k>> \in Asked
      BY <1>1, <1>3 DEF Asked, Tokens, Id
    <3>2. f \in [1..MaxAsks -> Asked]
      BY <3>1
    <3>3. \A j, k \in 1..MaxAsks : f[j] = f[k] => j = k
      OBVIOUS
    <3> QED
      BY <3>2, <3>3 DEF Injection, IsInjective
  <2>2. Cardinality(1..MaxAsks) <= Cardinality(Asked)
    BY <1>2, <2>1, FS_Injection
  <2>3. Cardinality(1..MaxAsks) = MaxAsks
    BY <1>1, FS_Interval, ProxyAssumption DEF ProxyAssumption
  <2> QED
    BY <1>1, <1>2, <2>2, <2>3
<1> QED
  BY <1>1, <1>3

LEMMA LinkPlaces ==
    ASSUME link \in Link \cup Outcome \cup {Idle}
    PROVE  \/ link = Idle /\ link.at = "idle" /\ Linked = {}
           \/ /\ link # Idle /\ link.at \in {"resolve", "forget", "accepted", "undelivered", "refused"}
              /\ link.token \in Tokens /\ Linked = {link.token}
  BY DEF Link, Outcome, Idle, Linked

LEMMA RecordFields ==
    ASSUME NEW s \in Suppressed
    PROVE  /\ s.token \in Tokens /\ s.resolved \in BOOLEAN /\ s.seen \in BOOLEAN /\ s.notified \in BOOLEAN
           /\ LET x == [s EXCEPT !.seen = TRUE]
              IN  x \in Suppressed /\ x.token = s.token /\ x.seen
           /\ LET x == [s EXCEPT !.resolved = TRUE, !.notified = TRUE]
              IN  x \in Suppressed /\ x.token = s.token /\ x.seen = s.seen
  BY DEF Suppressed

LEMMA AskMessage ==
    ASSUME NEW t \in Tokens
    PROVE  /\ [kind |-> "ask", token |-> t] \in Message \cap AskMessages
           /\ \A u \in Tokens : [kind |-> "ask", token |-> t] = [kind |-> "ask", token |-> u] => t = u
  BY DEF Message, AskMessages

\* The count of an id's approvals, as TypeOK states it.
LEMMA AloneCounts ==
    ASSUME Shape, Alone, NEW r \in Requests
    PROVE  Cardinality(Pends(r)) + Cardinality(Records(r)) <= 1
<1>1. Pends(r) = {} \/ \E t : Pends(r) = {t}
  BY DEF Alone, Pends
<1>2. Records(r) = {} \/ \E s : Records(r) = {s}
  BY DEF Alone, Records
<1>3. Pends(r) = {} \/ Records(r) = {}
  BY DEF Alone, Pends, Records
<1>4. Cardinality(Pends(r)) \in {0, 1} /\ (Pends(r) = {} => Cardinality(Pends(r)) = 0)
  BY <1>1, FS_EmptySet, FS_Singleton
<1>5. Cardinality(Records(r)) \in {0, 1} /\ (Records(r) = {} => Cardinality(Records(r)) = 0)
  BY <1>2, FS_EmptySet, FS_Singleton
<1> QED
  BY <1>3, <1>4, <1>5

-----------------------------------------------------------------------------
(* What keeps each part of the invariant.                                  *)

\* The messages of Codex: what is appended, and what the connection thread takes.
LEMMA Upstream ==
    ASSUME up \in Seq(Message), Once(up, AskMessages)
    PROVE  /\ \A m \in Message : Append(up, m) \in Seq(Message)
           /\ \A t \in Tokens : LET m == [kind |-> "ask", token |-> t]
                                IN  up' = Append(up, m) /\ t \notin Asking =>
                                      Asking' = Asking \cup {t} /\ Once(up, AskMessages)'
           /\ \A r \in Requests : LET m == [kind |-> "resolved", id |-> r]
                                  IN  up' = Append(up, m) => Asking' = Asking /\ Once(up, AskMessages)'
           /\ up # <<>> => /\ Tail(up) \in Seq(Message) /\ Len(Tail(up)) <= Len(up) /\ Head(up) \in Message
                           /\ Head(up).kind = "ask" => Head(up).token \in Asking
                           /\ up' = Tail(up) => /\ Asking' \subseteq Asking /\ Once(up, AskMessages)'
                                                /\ Head(up).kind = "ask" => Head(up).token \notin Asking'
           /\ up' = <<>> => Asking' = {} /\ Once(up, AskMessages)'
<1>1. /\ Elements(up) \in SUBSET Message
      /\ \A x \in Message : Append(up, x) \in Seq(Message) /\ Elements(Append(up, x)) = Elements(up) \cup {x}
      /\ up # <<>> => /\ Tail(up) \in Seq(Message) /\ Head(up) \in Elements(up)
                      /\ Elements(Tail(up)) \subseteq Elements(up)
      /\ Elements(<<>>) = {}
  BY ElementsMove
<1>2. /\ \A x \in Message : x \notin AskMessages \/ x \notin Elements(up) => Once(Append(up, x), AskMessages)
      /\ up # <<>> => /\ Once(Tail(up), AskMessages)
                      /\ Head(up) \in AskMessages => Head(up) \notin Elements(Tail(up))
  BY OnceMoves
<1>3. ASSUME NEW t \in Tokens, up' = Append(up, [kind |-> "ask", token |-> t]), t \notin Asking
      PROVE  Asking' = Asking \cup {t} /\ Once(up, AskMessages)'
  <2> DEFINE m == [kind |-> "ask", token |-> t]
  <2>1. m \in Message /\ m \in AskMessages /\ m \notin Elements(up)
    BY <1>3, AskMessage DEF Asking
  <2>2. \A u \in Tokens : [kind |-> "ask", token |-> u] = m => u = t
    BY AskMessage
  <2>3. Elements(up') = Elements(up) \cup {m} /\ Once(up', AskMessages)
    BY <1>1, <1>2, <1>3, <2>1
  <2> QED
    BY <2>2, <2>3 DEF Asking
<1>4. ASSUME NEW r \in Requests, up' = Append(up, [kind |-> "resolved", id |-> r])
      PROVE  Asking' = Asking /\ Once(up, AskMessages)'
  <2> DEFINE m == [kind |-> "resolved", id |-> r]
  <2>1. m \in Message /\ m \notin AskMessages /\ m.kind = "resolved"
    BY DEF Message, AskMessages
  <2>2. \A u \in Tokens : [kind |-> "ask", token |-> u] # m
    BY <2>1
  <2>3. Elements(up') = Elements(up) \cup {m} /\ Once(up', AskMessages)
    BY <1>1, <1>2, <1>4, <2>1
  <2> QED
    BY <2>2, <2>3 DEF Asking
<1>5. ASSUME up # <<>>
      PROVE  /\ Tail(up) \in Seq(Message) /\ Len(Tail(up)) <= Len(up) /\ Head(up) \in Message
             /\ Head(up).kind = "ask" => Head(up).token \in Asking
             /\ up' = Tail(up) => /\ Asking' \subseteq Asking /\ Once(up, AskMessages)'
                                  /\ Head(up).kind = "ask" => Head(up).token \notin Asking'
  <2>1. Tail(up) \in Seq(Message) /\ Len(Tail(up)) <= Len(up)
    BY <1>5
  <2>2. Head(up) \in Message /\ Head(up) \in Elements(up)
    BY <1>1, <1>5
  <2>3. Head(up).kind = "ask" => /\ Head(up).token \in Tokens /\ Head(up) \in AskMessages
                                 /\ Head(up) = [kind |-> "ask", token |-> Head(up).token]
    BY <2>2 DEF Message, AskMessages
  <2>4. Head(up).kind = "ask" => Head(up).token \in Asking
    BY <2>2, <2>3 DEF Asking
  <2>5. ASSUME up' = Tail(up)
        PROVE  /\ Asking' \subseteq Asking /\ Once(up, AskMessages)'
               /\ Head(up).kind = "ask" => Head(up).token \notin Asking'
    <3>1. Elements(up') \subseteq Elements(up) /\ Once(up', AskMessages)
          /\ (Head(up) \in AskMessages => Head(up) \notin Elements(up'))
      BY <1>1, <1>2, <1>5, <2>5
    <3> QED
      BY <2>3, <3>1 DEF Asking
  <2> QED
    BY <2>1, <2>2, <2>4, <2>5
<1>6. ASSUME up' = <<>> PROVE Asking' = {} /\ Once(up, AskMessages)'
  BY <1>1, <1>6 DEF Asking, Once
<1> QED
  BY <1>1, <1>3, <1>4, <1>5, <1>6

LEMMA FreshKept ==
    ASSUME Fresh, asks' = asks, Asking' \subseteq Asking, Met' \subseteq Met, Once(up, AskMessages)'
    PROVE  Fresh'
  BY DEF Fresh, Asked

\* Steps that know of no more, decide nothing and keep every record.
LEMMA QuietKept ==
    ASSUME IInv, asks' = asks, Asking' \subseteq Asking, Once(up, AskMessages)',
           UNCHANGED <<prompts, down, pending, suppressed, opening, telling, leaving, known, link, keyed>>,
           Decided' \subseteq Decided, late \subseteq late'
    PROVE  Fresh' /\ Alone' /\ Opening' /\ Told' /\ Ruled' /\ AnsweredOnce' /\ HeldBack'
<1>1. Linked' = Linked /\ Coming' = Coming
  BY DEF Linked, Coming
<1>2. Fresh'
  <2>1. Met' \subseteq Met
    BY <1>1 DEF Met, Opened
  <2> QED
    BY <2>1, FreshKept DEF IInv
<1>3. Alone' /\ Opening'
  BY <1>1 DEF IInv, Alone, Opening
<1>4. Told' /\ Ruled'
  BY <1>1 DEF IInv, Told, Ruled, Forgetting
<1>5. AnsweredOnce'
  BY DEF IInv, AnsweredOnce
<1>6. HeldBack'
  <2>1. ASSUME NEW t \in Tokens, Lone(t)'
        PROVE  /\ t \in Decided' => /\ t \notin keyed
                                    /\ t \in Coming => \E s \in suppressed : s.token = t
               /\ \A s \in suppressed : s.token = t /\ s.seen => t \notin Coming
    <3>1. Lone(t)
      BY <2>1 DEF Lone
    <3> QED
      BY <3>1 DEF IInv, HeldBack
  <2> QED
    BY <1>1, <2>1 DEF HeldBack
<1> QED
  BY <1>2, <1>3, <1>4, <1>5, <1>6

-----------------------------------------------------------------------------
(* Codex, the terminal and the steps that know of nothing new.             *)

LEMMA CodexAsksKeeps ==
    ASSUME IInv, NEW r \in Requests, CodexAsks(r)
    PROVE  IInv'
<1> DEFINE t == <<r, asks[r] + 1>>
<1>1. /\ asks \in [Requests -> 0..MaxAsks] /\ stage \in [Requests -> {"open", "answered", "waiting", "over"}]
      /\ up \in Seq(Message) /\ Len(up) < MaxQueued /\ Cardinality(Asked) < MaxAsks
      /\ asks' = [asks EXCEPT ![r] = asks[r] + 1] /\ stage' = [stage EXCEPT ![r] = "open"]
      /\ up' = Append(up, [kind |-> "ask", token |-> t])
      /\ UNCHANGED <<terminal, links, phase, records, decisions, late, opening, telling, leaving, known, link, history>>
  BY DEF CodexAsks, IInv, Shape
<1>2. asks[r] + 1 \in 1..MaxAsks /\ asks[r] \in Nat /\ asks[r] + 1 \in Nat
  BY <1>1, RoomToAsk
<1>3. t \in Tokens /\ Id(t) = r /\ t[2] = asks[r] + 1 /\ t \notin Asked
  BY <1>2 DEF Tokens, Asked, Id
<1>4. asks' \in [Requests -> 0..MaxAsks] /\ asks'[r] = asks[r] + 1 /\ \A q \in Requests : q # r => asks'[q] = asks[q]
  BY <1>1, <1>2
<1>5. Asked' = Asked \cup {t}
  <2>1. ASSUME NEW u \in Tokens
        PROVE  u[2] <= asks'[Id(u)] <=> u[2] <= asks[Id(u)] \/ u = t
    <3>1. Id(u) \in Requests /\ u[2] \in Nat /\ u = <<Id(u), u[2]>> /\ asks[Id(u)] \in Nat
      BY <1>1, TokenOf, ProxyAssumption DEF ProxyAssumption
    <3>2. CASE Id(u) = r
      <4>1. u = t <=> u[2] = asks[r] + 1
        BY <3>1, <3>2
      <4> QED
        BY <1>2, <1>4, <3>1, <3>2, <4>1
    <3>3. CASE Id(u) # r
      BY <1>3, <1>4, <3>1, <3>3
    <3> QED
      BY <3>2, <3>3
  <2> QED
    BY <1>3, <2>1 DEF Asked
<1> HIDE DEF t
<1>6. up' \in Seq(Message) /\ Len(up') <= MaxQueued
  <2>1. [kind |-> "ask", token |-> t] \in Message
    BY <1>3, AskMessage
  <2>2. Len(up') = Len(up) + 1
    BY <1>1, <2>1
  <2>3. Len(up) \in Nat /\ MaxQueued \in Nat
    BY <1>1, ProxyAssumption DEF ProxyAssumption
  <2> QED
    BY <1>1, <2>1, <2>2, <2>3
<1>7. Shape'
  <2>1. stage' \in [Requests -> {"open", "answered", "waiting", "over"}]
    BY <1>1
  <2> QED
    BY <1>1, <1>4, <1>6, <2>1 DEF IInv, Shape, terminal, records, history
<1>8. t \notin Asking /\ t \notin Met
  BY <1>3 DEF IInv, Fresh
<1>9. Asking' = Asking \cup {t} /\ Once(up, AskMessages)'
  <2>1. up \in Seq(Message) /\ Once(up, AskMessages)
    BY <1>1 DEF IInv, Fresh
  <2> QED
    BY <1>1, <1>3, <1>8, <2>1, Upstream
<1>10. /\ UNCHANGED <<prompts, down, pending, suppressed, decisions, late, opening, telling, leaving, known,
                      link, sent, keyed>>
       /\ Decided' = Decided /\ Linked' = Linked /\ Coming' = Coming
  BY <1>1 DEF terminal, records, history, Decided, Linked, Coming
<1>11. Fresh'
  <2>1. Met' = Met
    BY <1>10 DEF Met, Opened
  <2> QED
    BY <1>5, <1>8, <1>9, <2>1 DEF IInv, Fresh
<1>12. Alone' /\ Opening' /\ Told' /\ Ruled' /\ AnsweredOnce'
  BY <1>10 DEF IInv, Alone, Opening, Told, Forgetting, Ruled, AnsweredOnce
<1>13. HeldBack'
  <2>1. ASSUME NEW u \in Tokens, Lone(u)'
        PROVE  /\ u \in Decided => /\ u \notin keyed
                                   /\ u \in Coming => \E s \in suppressed : s.token = u
               /\ \A s \in suppressed : s.token = u /\ s.seen => u \notin Coming
    <3>1. CASE Id(u) # r
      <4>1. Lone(u)
        BY <1>4, <1>10, <2>1, <3>1, TokenOf DEF Lone
      <4> QED
        BY <4>1 DEF IInv, HeldBack
    <3>2. CASE Id(u) = r
      <4>1. asks[r] = 0
        BY <1>2, <1>4, <2>1, <3>2 DEF Lone
      <4>2. u[2] \in 1..MaxAsks
        BY TokenOf
      <4>3. u \notin Asked
        BY <3>2, <4>1, <4>2, ProxyAssumption DEF Asked, ProxyAssumption
      <4>4. u \notin Met
        BY <4>3 DEF IInv, Fresh
      <4> QED
        BY <4>4 DEF Met, Opened
    <3> QED
      BY <3>1, <3>2
  <2> QED
    BY <1>10, <2>1 DEF HeldBack
<1> QED
  BY <1>7, <1>11, <1>12, <1>13 DEF IInv

LEMMA CodexResolvesKeeps ==
    ASSUME IInv, NEW r \in Requests, CodexResolves(r)
    PROVE  IInv'
<1> DEFINE m == [kind |-> "resolved", id |-> r]
<1>1. /\ up \in Seq(Message) /\ Len(up) < MaxQueued /\ up' = Append(up, m)
      /\ stage' = [stage EXCEPT ![r] = "over"]
      /\ UNCHANGED <<asks, terminal, links, phase, records, decisions, late, opening, telling, leaving, known, link, history>>
  BY DEF CodexResolves, IInv, Shape
<1>2. m \in Message
  BY DEF Message
<1>3. Asking' = Asking /\ Once(up, AskMessages)'
  BY <1>1, Upstream DEF IInv, Fresh
<1> HIDE DEF m
<1>4. Shape'
  <2>1. up' \in Seq(Message) /\ Len(up') = Len(up) + 1 /\ Len(up) \in Nat /\ MaxQueued \in Nat
    BY <1>1, <1>2, ProxyAssumption DEF ProxyAssumption
  <2>2. Len(up') <= MaxQueued
    BY <1>1, <2>1
  <2>3. stage' \in [Requests -> {"open", "answered", "waiting", "over"}]
    BY <1>1 DEF IInv, Shape
  <2> QED
    BY <1>1, <2>1, <2>2, <2>3 DEF IInv, Shape, terminal, records, history
<1>5. Decided' = Decided
  BY <1>1 DEF Decided, history
<1> QED
  BY <1>1, <1>3, <1>4, <1>5, QuietKept DEF terminal, records, history, IInv

LEMMA TerminalAnswersKeeps ==
    ASSUME IInv, NEW t \in Tokens, TerminalAnswers(t)
    PROVE  IInv'
<1>1. /\ t \in prompts /\ prompts' = prompts \ {t} /\ down' = Append(down, t) /\ down \in Seq(Tokens)
      /\ UNCHANGED <<asks, stage, up, links, phase, pending, suppressed, decisions, late, opening, telling,
                     leaving, known, link, sent, keyed>>
  BY DEF TerminalAnswers, IInv, Shape, codex, records, history
<1>2. down' \in Seq(Tokens) /\ Elements(down') = Elements(down) \cup {t}
  BY <1>1, ElementsMove
<1>3. Once(down', Tokens)
  <2>1. t \notin Elements(down)
    BY <1>1 DEF IInv, AnsweredOnce
  <2> QED
    BY <1>1, <2>1, OnceMoves DEF IInv, AnsweredOnce
<1>4. /\ Decided' = Decided /\ Linked' = Linked /\ Asking' = Asking /\ Once(up, AskMessages)'
      /\ Coming' = Coming
  BY <1>1, <1>2 DEF Decided, Linked, Asking, Coming, IInv, Fresh
<1>5. Shape'
  BY <1>1, <1>2 DEF IInv, Shape
<1>6. Fresh'
  <2>1. Met' \subseteq Met
    BY <1>1, <1>2, <1>4 DEF Met, Opened
  <2> QED
    BY <1>1, <1>4, <2>1, FreshKept DEF IInv
<1>7. Alone' /\ Opening' /\ Told' /\ Ruled'
  BY <1>1, <1>4 DEF IInv, Alone, Opening, Told, Forgetting, Ruled
<1>8. AnsweredOnce'
  BY <1>1, <1>2, <1>3 DEF IInv, AnsweredOnce
<1>9. HeldBack'
  BY <1>1, <1>4 DEF IInv, HeldBack, Lone
<1> QED
  BY <1>5, <1>6, <1>7, <1>8, <1>9 DEF IInv

LEMMA QuietStepsKeep ==
    ASSUME IInv, (\E t \in Tokens : Lateness(t)) \/ Connect \/ SendDecision \/ NextPhase \/ UNCHANGED vars
    PROVE  IInv'
<1>1. /\ UNCHANGED <<asks, up, prompts, down, pending, suppressed, opening, telling, leaving, known, link, keyed>>
      /\ late \subseteq late' /\ late' \subseteq Tokens
  BY DEF IInv, Shape, Lateness, Connect, SendDecision, NextPhase, vars, codex, terminal, records, history
<1>2. /\ decisions' \in Seq(Tokens) /\ Len(decisions') <= MaxPending /\ sent' \subseteq Tokens
      /\ Decided' \subseteq Decided
      /\ stage' \in [Requests -> {"open", "answered", "waiting", "over"}]
  <2>1. CASE SendDecision
    <3>1. /\ decisions # <<>> /\ decisions \in Seq(Tokens) /\ decisions' = Tail(decisions)
          /\ sent' = sent \cup {Head(decisions)} /\ stage' = Hears(Id(Head(decisions)))
      BY <2>1 DEF SendDecision, IInv, Shape
    <3>2. /\ Elements(decisions) \subseteq Tokens /\ Head(decisions) \in Elements(decisions)
          /\ Elements(Tail(decisions)) \subseteq Elements(decisions) /\ Tail(decisions) \in Seq(Tokens)
      BY <3>1, ElementsMove
    <3>3. Len(Tail(decisions)) = Len(decisions) - 1 /\ Len(decisions) \in Nat /\ MaxPending \in Nat
      BY <3>1, ProxyAssumption DEF ProxyAssumption
    <3>4. Len(decisions') <= MaxPending
      BY <3>1, <3>3 DEF IInv, Shape
    <3>5. stage' \in [Requests -> {"open", "answered", "waiting", "over"}]
      BY <3>1 DEF IInv, Shape, Hears
    <3> QED
      BY <3>1, <3>2, <3>4, <3>5 DEF IInv, Shape, Decided
  <2>2. CASE ~SendDecision
    BY <2>2 DEF IInv, Shape, Decided, Lateness, Connect, NextPhase, vars, codex, history
  <2> QED
    BY <2>1, <2>2
<1>3. links' \in 0..MaxLinks /\ phase' \in {"down", "decisions", "events", "terminal", "expire"}
  <2>1. links \in 0..MaxLinks /\ MaxLinks \in Nat
    BY ProxyAssumption DEF ProxyAssumption, IInv, Shape
  <2> QED
    BY <2>1 DEF IInv, Shape, Lateness, Connect, SendDecision, NextPhase, vars
<1>4. Shape'
  BY <1>1, <1>2, <1>3 DEF IInv, Shape
<1>5. Asking' = Asking /\ Once(up, AskMessages)'
  BY <1>1 DEF Asking, IInv, Fresh
<1> QED
  BY <1>1, <1>2, <1>4, <1>5, QuietKept DEF IInv

-----------------------------------------------------------------------------
(* The connection thread handles a message of Codex.                       *)

LEMMA SizesFinite ==
    ASSUME Shape
    PROVE  /\ IsFiniteSet(pending) /\ Cardinality(pending) \in Nat
           /\ IsFiniteSet(suppressed) /\ Cardinality(suppressed) \in Nat
           /\ IsFiniteSet(known) /\ Cardinality(known) \in Nat /\ MaxPending \in Nat
  BY TokensFinite, RecordsFinite, Smaller, ProxyAssumption DEF Shape, ProxyAssumption

\* The only ask of an id has one token.
LEMMA LoneToken ==
    ASSUME NEW t \in Asked, NEW u \in Asked, Lone(u), Id(t) = Id(u)
    PROVE  t = u
<1>1. u[2] \in 1..MaxAsks /\ t[2] \in 1..MaxAsks /\ u = <<Id(u), u[2]>> /\ t = <<Id(t), t[2]>>
  BY TokenOf DEF Asked
<1>2. asks[Id(u)] = 1 /\ u[2] <= asks[Id(u)] /\ t[2] <= asks[Id(t)]
  BY DEF Lone, Asked
<1>3. MaxAsks \in Nat
  BY ProxyAssumption DEF ProxyAssumption
<1> QED
  BY <1>1, <1>2, <1>3

\* The record of an id, if there is one, is dropped or replaced.
LEMMA RecordRevised ==
    ASSUME Shape, Alone, NEW r, NEW R,
           R = Others(r) \/ \E s \in Records(r), x \in Suppressed : x.token = s.token /\ R = Others(r) \cup {x}
    PROVE  /\ R \subseteq Suppressed /\ Cardinality(R) <= MaxPending
           /\ \A x \in R : \E s \in suppressed : s.token = x.token
           /\ \A x, y \in R : Id(x.token) = Id(y.token) => x = y
           /\ \A s \in suppressed : Id(s.token) # r => s \in R
           /\ \A x \in R : Id(x.token) # r => x \in suppressed
<1>1. /\ suppressed \subseteq Suppressed /\ IsFiniteSet(suppressed) /\ Cardinality(suppressed) \in Nat
      /\ MaxPending \in Nat /\ Cardinality(suppressed) <= MaxPending
  BY SizesFinite DEF Shape
<1>2. /\ Others(r) \subseteq suppressed /\ \A s \in Others(r) : Id(s.token) # r
      /\ \A s \in suppressed : Id(s.token) # r => s \in Others(r)
      /\ \A s \in Records(r) : s \in suppressed /\ Id(s.token) = r
  BY DEF Others, Records
<1>3. CASE R = Others(r)
  <2>1. Cardinality(R) <= Cardinality(suppressed) /\ Cardinality(R) \in Nat
    BY <1>1, <1>2, <1>3, Smaller
  <2> QED
    BY <1>1, <1>2, <1>3, <2>1 DEF Alone
<1>4. ASSUME NEW s \in Records(r), NEW x \in Suppressed, x.token = s.token, R = Others(r) \cup {x}
      PROVE  /\ R \subseteq Suppressed /\ Cardinality(R) <= MaxPending
             /\ \A y \in R : \E z \in suppressed : z.token = y.token
             /\ \A y, z \in R : Id(y.token) = Id(z.token) => y = z
             /\ \A z \in suppressed : Id(z.token) # r => z \in R
             /\ \A z \in R : Id(z.token) # r => z \in suppressed
  <2>1. Cardinality(R) <= Cardinality(suppressed) /\ Cardinality(R) \in Nat
    <3>1. s \in suppressed /\ R \subseteq (suppressed \ {s}) \cup {x}
      BY <1>2, <1>4
    <3> QED
      BY <1>1, <3>1, Replaced
  <2>2. \A y, z \in R : Id(y.token) = Id(z.token) => y = z
    BY <1>2, <1>4 DEF Alone
  <2> QED
    BY <1>1, <1>2, <1>4, <2>1, <2>2
<1> QED
  BY <1>3, <1>4

LEMMA HandleAskKeeps ==
    ASSUME IInv, Free, up # <<>>, Head(up).kind = "ask", up' = Tail(up), HandleAsk(Head(up).token),
           UNCHANGED <<codex, down, links, phase, decisions, late, leaving, known, link, history>>
    PROVE  IInv'
<1> DEFINE t == Head(up).token
<1>1. /\ opening = None /\ telling = {} /\ telling' = {}
      /\ prompts' = prompts \cup {t}
      /\ suppressed' = IF \E s \in Records(Id(t)) : s.resolved \/ s.token \in late
                       THEN Others(Id(t)) ELSE suppressed
      /\ \/ Tracked(Id(t)) /\ pending' = pending \cup {t} /\ opening' = [token |-> t, raised |-> FALSE]
         \/ pending' = pending /\ opening' = opening
      /\ UNCHANGED <<asks, stage, down, links, phase, decisions, late, leaving, known, link, sent, keyed>>
  BY DEF HandleAsk, Free, codex, history
<1>2. /\ t \in Asking /\ t \notin Asking' /\ Asking' \subseteq Asking /\ Once(up, AskMessages)'
      /\ up' \in Seq(Message) /\ Len(up') <= MaxQueued
  <2>1. /\ up \in Seq(Message) /\ Once(up, AskMessages) /\ Len(up) <= MaxQueued
    BY DEF IInv, Shape, Fresh
  <2>2. Tail(up) \in Seq(Message) /\ Len(Tail(up)) <= Len(up) /\ Len(up) \in Nat /\ Len(Tail(up)) \in Nat
    BY <2>1, Upstream
  <2>3. MaxQueued \in Nat
    BY ProxyAssumption DEF ProxyAssumption
  <2> QED
    BY <2>1, <2>2, <2>3, Upstream
<1> HIDE DEF t
<1>3. t \in Tokens /\ t \in Asked /\ t \notin Met /\ t \notin Asking'
  BY <1>2 DEF IInv, Fresh, Asked
<1>4. /\ suppressed' \subseteq suppressed /\ \A s \in suppressed : Id(s.token) # Id(t) => s \in suppressed'
      /\ pending \subseteq pending' /\ pending' \subseteq pending \cup {t}
  BY <1>1 DEF Others, Records
<1>5. /\ Decided' = Decided /\ Linked' = Linked /\ Elements(down') = Elements(down)
      /\ Coming' = Coming \cup {t}
  BY <1>1 DEF Decided, Linked, Coming
<1>6. Shape'
  <2>1. Cardinality(pending') <= MaxPending
    <3>1. CASE Tracked(Id(t)) /\ pending' = pending \cup {t}
      <4>1. Cardinality(pending) < MaxPending
        BY <3>1 DEF Tracked
      <4> QED
        BY <3>1, <4>1, SizesFinite, RoomForOne DEF IInv
    <3>2. CASE pending' = pending
      BY <3>2 DEF IInv, Shape
    <3> QED
      BY <1>1, <3>1, <3>2
  <2>2. Cardinality(suppressed') <= MaxPending
    <3>1. Cardinality(suppressed') <= Cardinality(suppressed) /\ Cardinality(suppressed') \in Nat
      BY <1>4, SizesFinite, Smaller DEF IInv
    <3> QED
      BY <3>1, SizesFinite DEF IInv, Shape
  <2>3. /\ pending' \subseteq Tokens /\ suppressed' \subseteq Suppressed /\ prompts' \subseteq Tokens
    BY <1>1, <1>3, <1>4 DEF IInv, Shape
  <2>4. opening' \in OpenCall \cup {None}
    <3>1. [token |-> t, raised |-> FALSE] \in OpenCall
      BY <1>3 DEF OpenCall
    <3> QED
      BY <1>1, <3>1
  <2> QED
    BY <1>1, <1>2, <2>1, <2>2, <2>3, <2>4 DEF IInv, Shape
<1>7. Fresh'
  <2>1. Met' \subseteq Met \cup {t}
    <3>1. Opened' \subseteq Opened \cup {t}
      BY <1>1 DEF Opened
    <3> QED
      BY <1>1, <1>4, <1>5, <3>1 DEF Met, Opened
  <2>2. Asked' = Asked
    BY <1>1 DEF Asked
  <2> QED
    BY <1>2, <1>3, <2>1, <2>2 DEF IInv, Fresh
<1>8. Alone'
  <2>1. CASE Tracked(Id(t)) /\ pending' = pending \cup {t}
    <3>1. \A u \in pending : Id(u) # Id(t)
      BY <2>1 DEF Tracked, Copy, Pends
    <3>2. \A s \in suppressed' : Id(s.token) # Id(t)
      BY <1>1, <2>1 DEF Tracked, Copy, Records, Others
    <3> QED
      BY <1>4, <2>1, <3>1, <3>2 DEF IInv, Alone
  <2>2. CASE pending' = pending
    BY <1>4, <2>2 DEF IInv, Alone
  <2> QED
    BY <1>1, <2>1, <2>2
<1>9. Opening'
  BY <1>1, <1>3, <1>5 DEF IInv, Opening, Met, Opened
<1>10. Told'
  BY <1>1, <1>4 DEF IInv, Told, Forgetting
<1>11. Ruled'
  <2>1. t \notin Decided
    BY <1>3 DEF Met, Opened
  <2> QED
    BY <1>1, <1>4, <1>5, <2>1 DEF IInv, Ruled, Forgetting
<1>12. AnsweredOnce'
  <2>1. t \notin keyed /\ t \notin Elements(down)
    BY <1>3 DEF Met, Opened
  <2> QED
    BY <1>1, <1>4, <1>5, <2>1 DEF IInv, AnsweredOnce
<1>13. HeldBack'
  <2>1. ASSUME NEW u \in Tokens, Lone(u)'
        PROVE  /\ u \in Decided => /\ u \notin keyed
                                   /\ u \in Coming' => \E s \in suppressed' : s.token = u
               /\ \A s \in suppressed' : s.token = u /\ s.seen => u \notin Coming'
    <3>1. Lone(u)
      BY <1>1, <2>1 DEF Lone
    <3>2. CASE u = t
      <4>1. t \notin Decided /\ \A s \in suppressed : s.token # t
        BY <1>3 DEF Met, Opened
      <4> QED
        BY <1>4, <3>2, <4>1
    <3>3. CASE u # t /\ u \in Asked
      <4>1. Id(u) # Id(t)
        BY <1>3, <3>1, <3>3, LoneToken
      <4> QED
        BY <1>4, <1>5, <3>1, <3>3, <4>1 DEF IInv, HeldBack
    <3>4. CASE u # t /\ u \notin Asked
      <4>1. u \notin Met
        BY <3>4 DEF IInv, Fresh
      <4> QED
        BY <1>4, <3>4, <4>1 DEF Met, Opened
    <3> QED
      BY <3>2, <3>3, <3>4
  <2> QED
    BY <1>1, <1>5, <2>1 DEF HeldBack
<1> QED
  BY <1>6, <1>7, <1>8, <1>9, <1>10, <1>11, <1>12, <1>13 DEF IInv

LEMMA HandleResolvedKeeps ==
    ASSUME IInv, Free, up # <<>>, NEW r, up' = Tail(up), HandleResolved(r),
           UNCHANGED <<codex, down, links, phase, decisions, late, leaving, known, link, history>>
    PROVE  IInv'
<1>1. /\ opening = None /\ opening' = None /\ telling = {}
      /\ prompts' = {t \in prompts : Id(t) # r}
      /\ pending' = pending \ Pends(r)
      /\ suppressed' = Others(r) \cup UNION {AfterResolved(s) : s \in Records(r)}
      /\ telling' = Pends(r) \cup {s.token : s \in {x \in Records(r) : ~x.notified}}
      /\ UNCHANGED <<asks, stage, down, links, phase, decisions, late, leaving, known, link, sent, keyed>>
  BY DEF HandleResolved, Free, codex, history
<1>2. /\ Asking' \subseteq Asking /\ Once(up, AskMessages)' /\ up' \in Seq(Message) /\ Len(up') <= MaxQueued
  <2>1. /\ up \in Seq(Message) /\ Once(up, AskMessages) /\ Len(up) <= MaxQueued
    BY DEF IInv, Shape, Fresh
  <2>2. Tail(up) \in Seq(Message) /\ Len(Tail(up)) <= Len(up) /\ Len(up) \in Nat /\ Len(Tail(up)) \in Nat
    BY <2>1, Upstream
  <2>3. MaxQueued \in Nat
    BY ProxyAssumption DEF ProxyAssumption
  <2> QED
    BY <2>1, <2>2, <2>3, Upstream
<1>3. \/ suppressed' = Others(r) /\ \A s \in Records(r) : s.seen
      \/ \E s \in Records(r), x \in Suppressed : /\ x.token = s.token /\ ~s.seen /\ ~x.seen
                                                 /\ suppressed' = Others(r) \cup {x}
  <2>1. CASE Records(r) = {}
    BY <1>1, <2>1
  <2>2. ASSUME NEW s \in Records(r)
        PROVE  \/ suppressed' = Others(r) /\ \A z \in Records(r) : z.seen
               \/ \E x \in Suppressed : /\ x.token = s.token /\ ~s.seen /\ ~x.seen
                                        /\ suppressed' = Others(r) \cup {x}
    <3>1. Records(r) = {s} /\ s \in Suppressed
      BY DEF IInv, Shape, Alone, Records
    <3>2. suppressed' = Others(r) \cup AfterResolved(s)
      BY <1>1, <3>1
    <3>3. CASE s.seen
      <4>1. AfterResolved(s) = {}
        BY <3>3 DEF AfterResolved
      <4> QED
        BY <3>1, <3>2, <3>3, <4>1
    <3>4. CASE ~s.seen
      <4> DEFINE x == [s EXCEPT !.resolved = TRUE, !.notified = TRUE]
      <4>1. x \in Suppressed /\ x.token = s.token /\ x.seen = s.seen
        BY <3>1, RecordFields
      <4>2. AfterResolved(s) = {x}
        BY <3>4 DEF AfterResolved
      <4> QED
        BY <3>2, <3>4, <4>1, <4>2
    <3> QED
      BY <3>3, <3>4
  <2> QED
    BY <2>1, <2>2
<1>4. /\ suppressed' \subseteq Suppressed /\ Cardinality(suppressed') <= MaxPending
      /\ \A x \in suppressed' : \E s \in suppressed : s.token = x.token
      /\ \A x, y \in suppressed' : Id(x.token) = Id(y.token) => x = y
      /\ \A s \in suppressed : Id(s.token) # r => s \in suppressed'
      /\ \A x \in suppressed' : Id(x.token) # r => x \in suppressed
  <2>1. \/ suppressed' = Others(r)
        \/ \E s \in Records(r), x \in Suppressed : x.token = s.token /\ suppressed' = Others(r) \cup {x}
    BY <1>3
  <2>2. Shape /\ Alone
    BY DEF IInv
  <2> QED
    BY <2>1, <2>2, RecordRevised
<1>5. /\ Decided' = Decided /\ Linked' = Linked /\ Elements(down') = Elements(down)
      /\ prompts' \subseteq prompts /\ pending' \subseteq pending /\ Coming' \subseteq Coming
      /\ telling' \subseteq pending \cup {s.token : s \in suppressed}
      /\ pending \subseteq pending' \cup telling'
  BY <1>1 DEF Decided, Linked, Coming, Pends, Records
<1>6. Shape'
  <2>1. Cardinality(pending') <= MaxPending
    BY <1>5, SizesFinite, Smaller DEF IInv, Shape
  <2>2. telling' \subseteq Tokens
    <3>1. suppressed \subseteq Suppressed /\ pending \subseteq Tokens
      BY DEF IInv, Shape
    <3>2. \A s \in suppressed : s.token \in Tokens
      BY <3>1 DEF Suppressed
    <3> QED
      BY <1>5, <3>1, <3>2
  <2> QED
    BY <1>1, <1>2, <1>4, <1>5, <2>1, <2>2 DEF IInv, Shape
<1>7. Fresh'
  <2>1. Met' \subseteq Met
    BY <1>1, <1>4, <1>5 DEF Met, Opened
  <2> QED
    BY <1>1, <1>2, <2>1, FreshKept DEF IInv
<1>8. Alone'
  <2>1. \A t \in pending', x \in suppressed' : Id(x.token) # Id(t)
    BY <1>4, <1>5 DEF IInv, Alone
  <2> QED
    BY <1>4, <1>5, <2>1 DEF IInv, Alone
<1>9. Opening' /\ AnsweredOnce'
  BY <1>1, <1>5 DEF IInv, Opening, AnsweredOnce
<1>10. Told' /\ Ruled'
  BY <1>1, <1>5 DEF IInv, Told, Forgetting, Ruled
<1>11. HeldBack'
  <2>1. ASSUME NEW u \in Tokens, Lone(u)'
        PROVE  /\ u \in Decided => /\ u \notin keyed
                                   /\ u \in Coming' => \E s \in suppressed' : s.token = u
               /\ \A s \in suppressed' : s.token = u /\ s.seen => u \notin Coming'
    <3>1. Lone(u)
      BY <1>1, <2>1 DEF Lone
    <3>2. u \in Decided => u \notin keyed /\ (u \in Coming => \E s \in suppressed : s.token = u)
      BY <3>1 DEF IInv, HeldBack
    <3>3. \A s \in suppressed : s.token = u /\ s.seen => u \notin Coming
      BY <3>1 DEF IInv, HeldBack
    <3>4. CASE Id(u) # r
      BY <1>4, <1>5, <3>2, <3>3, <3>4
    <3>5. CASE Id(u) = r
      <4>1. \A s \in suppressed' : s.token = u => ~s.seen
        BY <1>3, <3>5 DEF Others, Records
      <4>2. ASSUME u \in Decided, u \in Coming'
            PROVE  \E s \in suppressed' : s.token = u
        <5>1. PICK s \in suppressed : s.token = u /\ ~s.seen
          BY <1>5, <3>2, <3>3, <4>2
        <5>2. s \in Records(r)
          BY <3>5, <5>1 DEF Records
        <5>3. PICK z \in Records(r), x \in suppressed' : x.token = z.token
          BY <1>3, <5>1, <5>2
        <5>4. z = s
          BY <5>2 DEF Records, IInv, Alone
        <5> QED
          BY <5>1, <5>3, <5>4
      <4> QED
        BY <3>2, <4>1, <4>2
    <3> QED
      BY <3>4, <3>5
  <2> QED
    BY <1>1, <1>5, <2>1 DEF HeldBack
<1> QED
  BY <1>6, <1>7, <1>8, <1>9, <1>10, <1>11 DEF IInv

LEMMA HandleUpstreamKeeps ==
    ASSUME IInv, HandleUpstream
    PROVE  IInv'
<1>1. /\ Free /\ up # <<>> /\ up' = Tail(up)
      /\ UNCHANGED <<codex, down, links, phase, decisions, late, leaving, known, link, history>>
  BY DEF HandleUpstream
<1>2. CASE Head(up).kind = "ask"
  <2>1. HandleAsk(Head(up).token)
    BY <1>2 DEF HandleUpstream
  <2> QED
    BY <1>1, <1>2, <2>1, HandleAskKeeps
<1>3. CASE Head(up).kind # "ask"
  <2>1. HandleResolved(Head(up).id)
    BY <1>3 DEF HandleUpstream
  <2> QED
    BY <1>1, <2>1, HandleResolvedKeeps
<1> QED
  BY <1>2, <1>3

-----------------------------------------------------------------------------
(* The terminal's answer, and approvals that expire.                       *)

LEMMA HandleTerminalKeeps ==
    ASSUME IInv, HandleTerminal
    PROVE  IInv'
<1> DEFINE t == Head(down)
           r == Id(t)
           Forwarded == /\ keyed' = keyed \cup {t} /\ stage' = Hears(r) /\ suppressed' = suppressed
                        /\ Pends(r) # {} \/ Records(r) = {}
           Dropped == /\ keyed' = keyed /\ stage' = stage
                      /\ suppressed' = Others(r) \cup
                           {[s EXCEPT !.seen = TRUE] : s \in {x \in Records(r) : ~x.resolved}}
<1>1. /\ opening = None /\ telling = {} /\ down # <<>> /\ down' = Tail(down)
      /\ pending' = pending \ Pends(r) /\ telling' = Pends(r) /\ phase' = "expire"
      /\ Forwarded \/ Dropped
      /\ UNCHANGED <<asks, up, prompts, links, decisions, late, opening, leaving, known, link, sent>>
  BY DEF HandleTerminal, Free, Forwards
<1>2. /\ t \in Tokens /\ t \in Elements(down) /\ t \notin Elements(down') /\ down' \in Seq(Tokens)
      /\ Elements(down') \subseteq Elements(down) /\ Once(down', Tokens)
  <2>1. /\ down \in Seq(Tokens) /\ Once(down, Tokens)
    BY DEF IInv, Shape, AnsweredOnce
  <2>2. /\ Elements(down) \in SUBSET Tokens /\ Tail(down) \in Seq(Tokens) /\ Head(down) \in Elements(down)
        /\ Elements(Tail(down)) \subseteq Elements(down)
    BY <1>1, <2>1, ElementsMove
  <2>3. Once(Tail(down), Tokens) /\ (Head(down) \in Tokens => Head(down) \notin Elements(Tail(down)))
    BY <1>1, <2>1, OnceMoves
  <2> QED
    BY <1>1, <2>2, <2>3
<1>3. t \in Asked /\ t \notin prompts /\ t \notin keyed
  BY <1>2 DEF IInv, Fresh, Met, Opened, AnsweredOnce
<1> HIDE DEF t
<1>4. /\ suppressed' \subseteq Suppressed /\ Cardinality(suppressed') <= MaxPending
      /\ \A x \in suppressed' : \E s \in suppressed : s.token = x.token
      /\ \A x, y \in suppressed' : Id(x.token) = Id(y.token) => x = y
      /\ \A s \in suppressed : Id(s.token) # r => s \in suppressed'
      /\ \A x \in suppressed' : Id(x.token) # r => x \in suppressed
  <2>1. CASE Forwarded
    BY <2>1 DEF IInv, Shape, Alone
  <2>2. CASE Dropped
    <3>1. \/ suppressed' = Others(r)
          \/ \E s \in Records(r), x \in Suppressed : x.token = s.token /\ suppressed' = Others(r) \cup {x}
      <4>1. CASE Records(r) = {}
        BY <2>2, <4>1
      <4>2. ASSUME NEW s \in Records(r)
            PROVE  \/ suppressed' = Others(r)
                   \/ \E x \in Suppressed : x.token = s.token /\ suppressed' = Others(r) \cup {x}
        <5> DEFINE x == [s EXCEPT !.seen = TRUE]
        <5>1. Records(r) = {s} /\ s \in Suppressed
          BY DEF IInv, Shape, Alone, Records
        <5>2. x \in Suppressed /\ x.token = s.token
          BY <5>1, RecordFields
        <5>3. CASE s.resolved
          BY <2>2, <5>1, <5>3
        <5>4. CASE ~s.resolved
          <6>1. {[z EXCEPT !.seen = TRUE] : z \in {y \in Records(r) : ~y.resolved}} = {x}
            BY <5>1, <5>4
          <6>2. suppressed' = Others(r) \cup {x}
            BY <2>2, <6>1
          <6> QED
            BY <5>2, <6>2
        <5> QED
          BY <5>3, <5>4
      <4> QED
        BY <4>1, <4>2
    <3>2. Shape /\ Alone
      BY DEF IInv
    <3> QED
      BY <3>1, <3>2, RecordRevised
  <2> QED
    BY <1>1, <2>1, <2>2
<1>5. /\ Decided' = Decided /\ Linked' = Linked /\ Coming' \subseteq Coming /\ t \notin Coming'
      /\ pending' \subseteq pending /\ pending \subseteq pending' \cup telling' /\ telling' \subseteq pending
      /\ \A u \in pending' : Id(u) # r
      /\ keyed \subseteq keyed' /\ keyed' \subseteq keyed \cup {t}
  BY <1>1, <1>2, <1>3 DEF Decided, Linked, Coming, Pends
<1>6. Shape'
  <2>1. Cardinality(pending') <= MaxPending
    BY <1>5, SizesFinite, Smaller DEF IInv, Shape
  <2>2. stage' \in [Requests -> {"open", "answered", "waiting", "over"}]
    BY <1>1 DEF IInv, Shape, Hears
  <2> QED
    BY <1>1, <1>2, <1>4, <1>5, <2>1, <2>2 DEF IInv, Shape
<1>7. Fresh'
  <2>1. Met' \subseteq Met
    BY <1>1, <1>2, <1>4, <1>5 DEF Met, Opened
  <2>2. Asking' = Asking /\ Once(up, AskMessages)'
    BY <1>1 DEF Asking, IInv, Fresh
  <2> QED
    BY <1>1, <2>1, <2>2, FreshKept DEF IInv
<1>8. Alone'
  <2>1. \A u \in pending', x \in suppressed' : Id(x.token) # Id(u)
    BY <1>4, <1>5 DEF IInv, Alone
  <2> QED
    BY <1>4, <1>5, <2>1 DEF IInv, Alone
<1>9. Opening'
  BY <1>1 DEF Opening
<1>10. AnsweredOnce'
  <2>1. t \notin pending' /\ t \notin prompts
    BY <1>3, <1>5
  <2> QED
    BY <1>1, <1>2, <1>5, <2>1 DEF IInv, AnsweredOnce
<1>11. Told' /\ Ruled'
  BY <1>1, <1>5 DEF IInv, Told, Forgetting, Ruled
<1>12. HeldBack'
  <2>1. ASSUME NEW u \in Tokens, Lone(u)'
        PROVE  /\ u \in Decided => /\ u \notin keyed'
                                   /\ u \in Coming' => \E s \in suppressed' : s.token = u
               /\ \A s \in suppressed' : s.token = u /\ s.seen => u \notin Coming'
    <3>1. Lone(u)
      BY <1>1, <2>1 DEF Lone
    <3>2. u \in Decided => u \notin keyed /\ (u \in Coming => \E s \in suppressed : s.token = u)
      BY <3>1 DEF IInv, HeldBack
    <3>3. \A s \in suppressed : s.token = u /\ s.seen => u \notin Coming
      BY <3>1 DEF IInv, HeldBack
    <3>4. CASE Id(u) # r
      <4>1. u # t
        BY <3>4
      <4> QED
        BY <1>4, <1>5, <3>2, <3>3, <3>4, <4>1
    <3>5. CASE Id(u) = r /\ u # t
      <4>1. u \notin Asked
        BY <1>3, <3>1, <3>5, LoneToken
      <4>2. u \notin Met
        BY <4>1 DEF IInv, Fresh
      <4> QED
        BY <1>4, <4>2 DEF Met, Opened
    <3>6. CASE u = t
      <4>1. ASSUME u \in Decided PROVE u \notin keyed'
        <5>1. PICK s \in suppressed : s.token = u
          BY <1>2, <3>2, <3>6, <4>1 DEF Coming
        <5>2. s \in Records(r) /\ Pends(r) = {}
          BY <3>6, <5>1 DEF IInv, Alone, Records, Pends
        <5>3. Dropped
          BY <1>1, <5>2
        <5> QED
          BY <3>2, <4>1, <5>3
      <4> QED
        BY <1>5, <3>6, <4>1
    <3> QED
      BY <3>4, <3>5, <3>6
  <2> QED
    BY <1>5, <2>1 DEF HeldBack
<1> QED
  BY <1>6, <1>7, <1>8, <1>9, <1>10, <1>11, <1>12 DEF IInv

LEMMA ExpireKeeps ==
    ASSUME IInv, Expire
    PROVE  IInv'
<1> DEFINE lapsed == {s \in suppressed : s.token \in late}
<1>1. /\ opening = None /\ telling = {} /\ phase' = "decisions"
      /\ pending' = pending \ (pending \cap late) /\ suppressed' = suppressed \ lapsed
      /\ telling' = (pending \cap late) \cup {s.token : s \in {x \in lapsed : ~x.notified}}
      /\ UNCHANGED <<asks, stage, up, prompts, down, links, decisions, late, opening, leaving, known, link, sent, keyed>>
  BY DEF Expire, Free, ExpiredPending, Unnotified, codex, terminal, history
<1>2. /\ pending' \subseteq pending /\ suppressed' \subseteq suppressed
      /\ telling' \subseteq pending \cup {s.token : s \in suppressed}
      /\ pending \subseteq pending' \cup telling'
      /\ \A s \in suppressed : s.token \notin late => s \in suppressed'
      /\ Decided' = Decided /\ Linked' = Linked /\ Coming' = Coming
      /\ Asking' = Asking /\ Once(up, AskMessages)'
  BY <1>1 DEF Decided, Linked, Coming, Asking, IInv, Fresh
<1>3. Shape'
  <2>1. Cardinality(pending') <= MaxPending
    BY <1>2, SizesFinite, Smaller DEF IInv, Shape
  <2>2. Cardinality(suppressed') <= MaxPending
    BY <1>2, SizesFinite, Smaller DEF IInv, Shape
  <2>3. telling' \subseteq Tokens
    <3>1. suppressed \subseteq Suppressed /\ pending \subseteq Tokens
      BY DEF IInv, Shape
    <3>2. \A s \in suppressed : s.token \in Tokens
      BY <3>1 DEF Suppressed
    <3> QED
      BY <1>2, <3>1, <3>2
  <2> QED
    BY <1>1, <1>2, <2>1, <2>2, <2>3 DEF IInv, Shape
<1>4. Fresh'
  <2>1. Met' \subseteq Met
    BY <1>1, <1>2 DEF Met, Opened
  <2> QED
    BY <1>1, <1>2, <2>1, FreshKept DEF IInv
<1>5. Alone' /\ Opening' /\ AnsweredOnce'
  BY <1>1, <1>2 DEF IInv, Alone, Opening, AnsweredOnce
<1>6. Told' /\ Ruled'
  BY <1>1, <1>2 DEF IInv, Told, Forgetting, Ruled
<1>7. HeldBack'
  BY <1>1, <1>2 DEF IInv, HeldBack, Lone
<1> QED
  BY <1>3, <1>4, <1>5, <1>6, <1>7 DEF IInv

-----------------------------------------------------------------------------
(* The end of a connection, and the callbacks of the adapter.              *)

LEMMA BreakKeeps ==
    ASSUME IInv, Break
    PROVE  IInv'
<1>1. /\ opening = None /\ telling = {} /\ phase' = "down" /\ up' = <<>> /\ down' = <<>> /\ prompts' = {}
      /\ stage' = [r \in Requests |-> IF stage[r] \in {"open", "waiting"} THEN "waiting" ELSE "over"]
      /\ pending' = {} /\ suppressed' = {} /\ decisions' = <<>>
      /\ leaving' = leaving \cup (pending \cup {s.token : s \in {x \in suppressed : ~x.notified}})
      /\ UNCHANGED <<asks, links, late, opening, telling, known, link, sent, keyed>>
  BY DEF Break, Free, Unresolved, Unnotified, history
<1>2. /\ Asking' = {} /\ Once(up, AskMessages)' /\ Elements(<<>>) = {} /\ Once(<<>>, Tokens)
  <2>1. Elements(<<>>) = {}
    BY <1>1, ElementsMove DEF IInv, Shape
  <2> QED
    BY <1>1, <2>1, Upstream DEF IInv, Shape, Fresh, Once
<1>3. /\ Decided' = sent /\ Linked' = Linked /\ Coming' = {} /\ Elements(down') = {}
      /\ leaving \subseteq leaving' /\ pending \subseteq leaving'
      /\ leaving' \subseteq leaving \cup pending \cup {s.token : s \in suppressed}
  BY <1>1, <1>2 DEF Decided, Linked, Coming
<1>4. Shape'
  <2>1. leaving' \subseteq Tokens
    <3>1. suppressed \subseteq Suppressed /\ pending \subseteq Tokens /\ leaving \subseteq Tokens
      BY DEF IInv, Shape
    <3>2. \A s \in suppressed : s.token \in Tokens
      BY <3>1 DEF Suppressed
    <3> QED
      BY <1>3, <3>1, <3>2
  <2>2. /\ MaxPending \in Nat /\ MaxQueued \in Nat
    BY ProxyAssumption DEF ProxyAssumption
  <2>3. /\ up' \in Seq(Message) /\ Len(up') <= MaxQueued /\ down' \in Seq(Tokens)
        /\ decisions' \in Seq(Tokens) /\ Len(decisions') <= MaxPending
    BY <1>1, <2>2
  <2>4. /\ Cardinality(pending') <= MaxPending /\ Cardinality(suppressed') <= MaxPending
    BY <1>1, <2>2, FS_EmptySet
  <2>5. stage' \in [Requests -> {"open", "answered", "waiting", "over"}]
    BY <1>1
  <2>6. /\ prompts' \subseteq Tokens /\ pending' \subseteq Tokens /\ suppressed' \subseteq Suppressed
        /\ phase' \in {"down", "decisions", "events", "terminal", "expire"}
    BY <1>1
  <2> QED
    BY <1>1, <2>1, <2>3, <2>4, <2>5, <2>6 DEF IInv, Shape
<1>5. Fresh'
  <2>1. Met' \subseteq Met
    BY <1>1, <1>3 DEF Met, Opened, Decided
  <2> QED
    BY <1>1, <1>2, <2>1, FreshKept DEF IInv
<1>6. Alone' /\ Opening' /\ AnsweredOnce'
  BY <1>1, <1>2, <1>3 DEF Alone, Opening, AnsweredOnce
<1>7. Told'
  BY <1>1, <1>3 DEF IInv, Told, Forgetting
<1>8. Ruled'
  BY <1>1, <1>3 DEF IInv, Ruled, Forgetting, Decided
<1>9. HeldBack'
  BY <1>1, <1>3 DEF IInv, HeldBack, Lone, Decided
<1> QED
  BY <1>4, <1>5, <1>6, <1>7, <1>8, <1>9 DEF IInv

LEMMA TellOpenedKeeps ==
    ASSUME IInv, TellOpened
    PROVE  IInv'
<1> DEFINE t == opening.token
<1>1. /\ opening # None /\ ~opening.raised
      /\ opening' = None \/ opening' = [opening EXCEPT !.raised = TRUE]
      /\ \/ known' = known
         \/ Cardinality(known) < MaxPending /\ known' = known \cup {t}
      /\ UNCHANGED <<asks, stage, up, prompts, down, links, phase, pending, suppressed, decisions, late, telling,
                     leaving, link, sent, keyed>>
  BY DEF TellOpened, codex, terminal, records, history
<1>2. /\ opening \in OpenCall /\ t \in Tokens /\ t \in pending /\ telling = {} /\ t \notin Linked /\ Opened = {t}
  BY <1>1 DEF IInv, Opening, Shape, OpenCall, Opened
<1>3. /\ opening' \in OpenCall \cup {None}
      /\ opening' # None => opening'.raised = TRUE
      /\ Opened' \subseteq {t}
  BY <1>1, <1>2 DEF OpenCall, Opened
<1> HIDE DEF t
<1>4. /\ Decided' = Decided /\ Linked' = Linked /\ Coming' = Coming /\ Elements(down') = Elements(down)
      /\ Asking' = Asking /\ Once(up, AskMessages)'
      /\ known' \subseteq known \cup {t}
  BY <1>1 DEF Decided, Linked, Coming, Asking, IInv, Fresh
<1>5. Shape'
  <2>1. Cardinality(known') <= MaxPending
    BY <1>1, SizesFinite, RoomForOne DEF IInv, Shape
  <2> QED
    BY <1>1, <1>2, <1>3, <2>1 DEF IInv, Shape
<1>6. Fresh'
  <2>1. Met' \subseteq Met
    BY <1>1, <1>2, <1>3, <1>4 DEF Met, Opened
  <2> QED
    BY <1>1, <1>4, <2>1, FreshKept DEF IInv
<1>7. Alone' /\ AnsweredOnce'
  BY <1>1, <1>4 DEF IInv, Alone, AnsweredOnce
<1>8. Opening'
  BY <1>1, <1>2, <1>3 DEF Opening
<1>9. Told'
  BY <1>1, <1>2, <1>4 DEF IInv, Told, Forgetting
<1>10. Ruled'
  <2>1. t \notin Decided
    BY <1>2 DEF IInv, Ruled
  <2> QED
    BY <1>1, <1>4, <2>1 DEF IInv, Ruled, Forgetting
<1>11. HeldBack'
  BY <1>1, <1>4 DEF IInv, HeldBack, Lone
<1> QED
  BY <1>5, <1>6, <1>7, <1>8, <1>9, <1>10, <1>11 DEF IInv

LEMMA GiveUpKeeps ==
    ASSUME IInv, GiveUp
    PROVE  IInv'
<1> DEFINE t == opening.token
<1>1. /\ opening # None /\ opening' = None /\ pending' = pending \ {t} /\ telling' = pending \cap {t}
      /\ UNCHANGED <<asks, stage, up, prompts, down, links, phase, suppressed, decisions, late, leaving, known, link,
                     sent, keyed>>
  BY DEF GiveUp, codex, terminal, history
<1>2. telling = {} /\ t \in Tokens /\ Opened' = {}
  BY <1>1 DEF IInv, Opening, Shape, OpenCall, Opened
<1> HIDE DEF t
<1>3. /\ Decided' = Decided /\ Linked' = Linked /\ Coming' = Coming /\ Elements(down') = Elements(down)
      /\ Asking' = Asking /\ Once(up, AskMessages)'
      /\ pending' \subseteq pending /\ pending = pending' \cup telling'
  BY <1>1 DEF Decided, Linked, Coming, Asking, IInv, Fresh
<1>4. Shape'
  <2>1. Cardinality(pending') <= MaxPending
    BY <1>3, SizesFinite, Smaller DEF IInv, Shape
  <2> QED
    BY <1>1, <1>2, <1>3, <2>1 DEF IInv, Shape
<1>5. Fresh'
  <2>1. Met' \subseteq Met
    BY <1>1, <1>2, <1>3 DEF Met, Opened
  <2> QED
    BY <1>1, <1>3, <2>1, FreshKept DEF IInv
<1>6. Alone' /\ Opening' /\ AnsweredOnce'
  BY <1>1, <1>3 DEF IInv, Alone, Opening, AnsweredOnce
<1>7. Told'
  BY <1>1, <1>2, <1>3 DEF IInv, Told, Forgetting
<1>8. Ruled'
  BY <1>1, <1>3 DEF IInv, Ruled, Forgetting
<1>9. HeldBack'
  BY <1>1, <1>3 DEF IInv, HeldBack, Lone
<1> QED
  BY <1>4, <1>5, <1>6, <1>7, <1>8, <1>9 DEF IInv

LEMMA TellResolvedKeeps ==
    ASSUME IInv, NEW t \in Tokens, TellResolved(t)
    PROVE  IInv'
<1>1. /\ telling' = telling \ {t} /\ leaving' = leaving \ {t} /\ known' = known \ {t}
      /\ UNCHANGED <<asks, stage, up, prompts, down, links, phase, pending, suppressed, decisions, late, opening,
                     link, sent, keyed>>
  BY DEF TellResolved, codex, terminal, records, history
<1>2. /\ Decided' = Decided /\ Linked' = Linked /\ Coming' = Coming /\ Elements(down') = Elements(down)
      /\ Asking' = Asking /\ Once(up, AskMessages)'
  BY <1>1 DEF Decided, Linked, Coming, Asking, IInv, Fresh
<1>3. Shape'
  <2>1. Cardinality(known') <= MaxPending
    <3>1. known' \subseteq known
      BY <1>1
    <3> QED
      BY <3>1, SizesFinite, Smaller DEF IInv, Shape
  <2> QED
    BY <1>1, <2>1 DEF IInv, Shape
<1>4. Fresh'
  <2>1. Met' \subseteq Met
    BY <1>1, <1>2 DEF Met, Opened
  <2> QED
    BY <1>1, <1>2, <2>1, FreshKept DEF IInv
<1>5. Alone' /\ Opening' /\ AnsweredOnce'
  BY <1>1, <1>2 DEF IInv, Alone, Opening, AnsweredOnce
<1>6. Told' /\ Ruled'
  BY <1>1, <1>2 DEF IInv, Told, Ruled, Forgetting
<1>7. HeldBack'
  BY <1>1, <1>2 DEF IInv, HeldBack, Lone
<1> QED
  BY <1>3, <1>4, <1>5, <1>6, <1>7 DEF IInv

-----------------------------------------------------------------------------
(* The link thread.                                                        *)

LEMMA DecideKeeps ==
    ASSUME IInv, NEW t \in Tokens, Decide(t)
    PROVE  IInv'
<1>1. /\ ~Busy /\ t \in known
      /\ link' = [at |-> "resolve", token |-> t] \/ link' = [at |-> "refused", token |-> t]
      /\ UNCHANGED <<asks, stage, up, prompts, down, links, phase, pending, suppressed, decisions, late, opening,
                     telling, leaving, known, sent, keyed>>
  BY DEF Decide, codex, terminal, records, history
<1>2. /\ Decided' = Decided /\ Coming' = Coming /\ Elements(down') = Elements(down)
      /\ Asking' = Asking /\ Once(up, AskMessages)'
  BY <1>1 DEF Decided, Coming, Asking, IInv, Fresh
<1>3. link' \in Link \cup Outcome \cup {Idle} /\ Linked' = {t} /\ link'.at \in {"resolve", "refused"}
  BY <1>1 DEF Link, Outcome, Idle, Linked
<1>4. \A u : ~Forgetting(u)
  BY <1>1 DEF Busy, Forgetting
<1>5. Shape'
  BY <1>1, <1>3 DEF IInv, Shape
<1>6. Fresh'
  <2>1. Met' \subseteq Met
    BY <1>1, <1>2, <1>3 DEF Met, Opened
  <2> QED
    BY <1>1, <1>2, <2>1, FreshKept DEF IInv
<1>7. Alone' /\ AnsweredOnce'
  BY <1>1, <1>2 DEF IInv, Alone, AnsweredOnce
<1>8. Opening'
  BY <1>1, <1>3 DEF IInv, Opening
<1>9. Told'
  BY <1>1, <1>4 DEF IInv, Told
<1>10. Ruled'
  <2>1. \A u \in Decided : u \notin known
    BY <1>4 DEF IInv, Ruled
  <2> QED
    BY <1>1, <1>2, <1>3, <2>1 DEF IInv, Ruled
<1>11. HeldBack'
  BY <1>1, <1>2 DEF IInv, HeldBack, Lone
<1> QED
  BY <1>5, <1>6, <1>7, <1>8, <1>9, <1>10, <1>11 DEF IInv

\* How the link thread's record changes when it gets on.
LEMMA LinkMoves ==
    ASSUME link \in Link \cup Outcome \cup {Idle}, link.at \in {"resolve", "forget"},
           NEW at \in {"forget", "accepted", "undelivered", "refused"}, Ends(at)
    PROVE  /\ link' \in Link \cup Outcome \cup {Idle} /\ link'.at = at /\ link'.token = link.token
           /\ link.token \in Tokens /\ Linked = {link.token} /\ Linked' = {link.token} /\ link # Idle
  BY DEF Link, Outcome, Idle, Linked, Ends

LEMMA ForgetKeeps ==
    ASSUME IInv, Forget
    PROVE  IInv'
<1>1. /\ link.at = "forget" /\ known' = known \ {link.token} /\ Ends("accepted")
      /\ UNCHANGED <<asks, stage, up, prompts, down, links, phase, pending, suppressed, decisions, late, opening,
                     telling, leaving, sent, keyed>>
  BY DEF Forget, Forgotten, codex, terminal, records, history
<1>2. /\ Decided' = Decided /\ Coming' = Coming /\ Elements(down') = Elements(down)
      /\ Asking' = Asking /\ Once(up, AskMessages)'
  BY <1>1 DEF Decided, Coming, Asking, IInv, Fresh
<1>3. /\ link' \in Link \cup Outcome \cup {Idle} /\ link'.at = "accepted" /\ Linked' = Linked
      /\ Linked = {link.token}
  BY <1>1, LinkMoves DEF IInv, Shape
<1>4. Shape'
  <2>1. Cardinality(known') <= MaxPending
    <3>1. known' \subseteq known
      BY <1>1
    <3> QED
      BY <3>1, SizesFinite, Smaller DEF IInv, Shape
  <2> QED
    BY <1>1, <1>3, <2>1 DEF IInv, Shape
<1>5. Fresh'
  <2>1. Met' \subseteq Met
    BY <1>1, <1>2, <1>3 DEF Met, Opened
  <2> QED
    BY <1>1, <1>2, <2>1, FreshKept DEF IInv
<1>6. Alone' /\ Opening' /\ AnsweredOnce'
  BY <1>1, <1>2, <1>3 DEF IInv, Alone, Opening, AnsweredOnce
<1>7. Told'
  BY <1>1 DEF IInv, Told, Forgetting
<1>8. Ruled'
  BY <1>1, <1>2, <1>3 DEF IInv, Ruled, Forgetting
<1>9. HeldBack'
  BY <1>1, <1>2 DEF IInv, HeldBack, Lone
<1> QED
  BY <1>4, <1>5, <1>6, <1>7, <1>8, <1>9 DEF IInv

\* The proxy takes the decision, or refuses it and changes nothing.
LEMMA ResolveKeeps ==
    ASSUME IInv, Resolve
    PROVE  IInv'
<1> DEFINE t == link.token
           x == [token |-> t, resolved |-> FALSE, seen |-> FALSE, notified |-> FALSE]
           Taken == /\ t \in pending /\ Len(decisions) < MaxPending
                    /\ Records(Id(t)) = {} => Cardinality(suppressed) < MaxPending
                    /\ pending' = pending \ {t} /\ suppressed' = Others(Id(t)) \cup {x}
                    /\ decisions' = Append(decisions, t) /\ Ends("forget")
           Turned == \E at \in {"undelivered", "refused"} : Ends(at) /\ UNCHANGED <<records, decisions>>
<1>1. /\ link.at = "resolve" /\ (Taken \/ Turned)
      /\ UNCHANGED <<asks, stage, up, prompts, down, links, phase, late, opening, telling, leaving, known, sent, keyed>>
  <2>1. /\ link.at = "resolve"
        /\ UNCHANGED <<asks, stage, up, prompts, down, links, phase, late, opening, telling, leaving, known, sent, keyed>>
    BY DEF Resolve, codex, terminal, history
  <2>2. Refusal(t) \in {"none", "undelivered", "refused"}
    BY DEF Refusal
  <2>3. CASE Refusal(t) = "none"
    <3>1. t \in pending /\ ~(Records(Id(t)) = {} /\ Cardinality(suppressed) >= MaxPending) /\ ~(Len(decisions) >= MaxPending)
      BY <2>3 DEF Refusal
    <3>2. /\ Cardinality(suppressed) \in Nat /\ MaxPending \in Nat /\ Len(decisions) \in Nat
      BY SizesFinite DEF IInv, Shape
    <3>3. /\ pending' = pending \ {t} /\ suppressed' = Others(Id(t)) \cup {x}
          /\ decisions' = Append(decisions, t) /\ Ends("forget")
      BY <2>3 DEF Resolve
    <3> QED
      BY <2>1, <3>1, <3>2, <3>3
  <2>4. CASE Refusal(t) # "none"
    <3>1. Ends(Refusal(t)) /\ UNCHANGED <<records, decisions>>
      BY <2>4 DEF Resolve
    <3> QED
      BY <2>1, <2>2, <2>4, <3>1
  <2> QED
    BY <2>3, <2>4
<1>2. \A u : ~Forgetting(u)
  <2>1. link.at # "forget"
    BY <1>1
  <2> QED
    BY <2>1 DEF Forgetting
<1>3. /\ Asking' = Asking /\ Once(up, AskMessages)' /\ Coming' = Coming /\ Elements(down') = Elements(down)
  BY <1>1 DEF Coming, Asking, IInv, Fresh
<1>4. t \in Tokens /\ t \notin Decided /\ Linked = {t}
  BY <1>1, LinkPlaces DEF IInv, Shape, Ruled
<1>5. CASE Turned
  <2>1. /\ pending' = pending /\ suppressed' = suppressed /\ decisions' = decisions
    BY <1>5 DEF records
  <2>2. link' \in Link \cup Outcome \cup {Idle} /\ Linked' = Linked /\ link'.at \in {"undelivered", "refused"}
    BY <1>1, <1>5, LinkMoves DEF IInv, Shape
  <2>3. Decided' = Decided
    BY <1>1, <2>1 DEF Decided
  <2>4. Shape'
    BY <1>1, <2>1, <2>2 DEF IInv, Shape
  <2>5. Fresh'
    <3>1. Met' \subseteq Met
      BY <1>1, <1>3, <2>1, <2>2, <2>3 DEF Met, Opened
    <3> QED
      BY <1>1, <1>3, <3>1, FreshKept DEF IInv
  <2>6. Alone' /\ Opening' /\ AnsweredOnce'
    BY <1>1, <1>3, <2>1, <2>2 DEF IInv, Alone, Opening, AnsweredOnce
  <2>7. Told'
    BY <1>1, <1>2, <2>1 DEF IInv, Told
  <2>8. Ruled'
    BY <1>1, <1>2, <1>4, <2>1, <2>2, <2>3 DEF IInv, Ruled
  <2>9. HeldBack'
    BY <1>1, <1>3, <2>1, <2>3 DEF IInv, HeldBack, Lone
  <2> QED
    BY <2>4, <2>5, <2>6, <2>7, <2>8, <2>9 DEF IInv
<1>6. CASE Taken
  <2>1. x \in Suppressed /\ x.token = t /\ ~x.seen
    BY <1>4 DEF Suppressed
  <2>2. Records(Id(t)) = {} /\ Others(Id(t)) = suppressed
    BY <1>6 DEF IInv, Alone, Records, Others
  <2>3. /\ suppressed' = suppressed \cup {x} /\ pending' = pending \ {t}
    BY <1>6, <2>2
  <2>4. link' \in Link \cup Outcome \cup {Idle} /\ Linked' = {t} /\ link'.at = "forget" /\ link'.token = t
    BY <1>1, <1>6, LinkMoves DEF IInv, Shape
  <2>5. Forgetting(t)'
    BY <2>4 DEF Forgetting
  <2>6. /\ decisions' \in Seq(Tokens) /\ Len(decisions') <= MaxPending /\ Decided' = Decided \cup {t}
    <3>1. decisions \in Seq(Tokens) /\ Len(decisions) < MaxPending /\ decisions' = Append(decisions, t)
          /\ MaxPending \in Nat
      BY <1>6, SizesFinite DEF IInv, Shape
    <3>2. Elements(decisions') = Elements(decisions) \cup {t} /\ decisions' \in Seq(Tokens)
      BY <1>4, <3>1, ElementsMove
    <3>3. Len(decisions') = Len(decisions) + 1 /\ Len(decisions) \in Nat
      BY <1>4, <3>1
    <3> QED
      BY <1>1, <3>1, <3>2, <3>3 DEF Decided
  <2> HIDE DEF x
  <2>7. Shape'
    <3>1. Cardinality(pending') <= MaxPending
      <4>1. pending' \subseteq pending
        BY <2>3
      <4> QED
        BY <4>1, SizesFinite, Smaller DEF IInv, Shape
    <3>2. Cardinality(suppressed') <= MaxPending
      <4>1. Cardinality(suppressed) < MaxPending
        BY <1>6, <2>2
      <4> QED
        BY <2>3, <4>1, SizesFinite, RoomForOne DEF IInv
    <3> QED
      BY <1>1, <2>1, <2>3, <2>4, <2>6, <3>1, <3>2 DEF IInv, Shape
  <2>8. Fresh'
    <3>1. Met' \subseteq Met
      BY <1>1, <1>3, <1>4, <2>1, <2>3, <2>4, <2>6 DEF Met, Opened
    <3> QED
      BY <1>1, <1>3, <3>1, FreshKept DEF IInv
  <2>9. Alone'
    <3>1. \A s \in suppressed : Id(s.token) # Id(t)
      BY <2>2 DEF Records
    <3>2. \A u \in pending' : Id(u) # Id(t)
      BY <1>6, <2>3 DEF IInv, Alone
    <3> QED
      BY <2>1, <2>3, <3>1, <3>2 DEF IInv, Alone
  <2>10. Opening'
    BY <1>1, <1>4, <2>3, <2>4 DEF IInv, Opening
  <2>11. AnsweredOnce'
    BY <1>1, <1>3, <2>3 DEF IInv, AnsweredOnce
  <2>12. Told'
    <3>1. \A u \in known : u = t \/ u \in pending' \cup telling' \cup leaving'
      BY <1>1, <1>2, <2>3 DEF IInv, Told
    <3> QED
      BY <1>1, <2>4, <3>1 DEF Told, Forgetting
  <2>13. Ruled'
    BY <1>1, <1>2, <2>3, <2>4, <2>5, <2>6 DEF IInv, Ruled
  <2>14. HeldBack'
    <3>1. t \notin keyed
      BY <1>6 DEF IInv, AnsweredOnce
    <3> QED
      BY <1>1, <1>3, <2>1, <2>3, <2>6, <3>1 DEF IInv, HeldBack, Lone
  <2> QED
    BY <2>7, <2>8, <2>9, <2>10, <2>11, <2>12, <2>13, <2>14 DEF IInv
<1> QED
  BY <1>1, <1>5, <1>6

-----------------------------------------------------------------------------
(* The theorems.                                                           *)

LEMMA InvInit == Init => IInv
<1> SUFFICES ASSUME Init PROVE IInv
  OBVIOUS
<1>1. /\ asks = [r \in Requests |-> 0] /\ stage = [r \in Requests |-> "over"]
      /\ up = <<>> /\ down = <<>> /\ prompts = {} /\ links = 0 /\ phase = "down"
      /\ pending = {} /\ suppressed = {} /\ decisions = <<>> /\ late = {}
      /\ opening = None /\ telling = {} /\ leaving = {} /\ known = {} /\ link = Idle /\ sent = {} /\ keyed = {}
  BY DEF Init
<1>2. /\ MaxPending \in Nat /\ MaxQueued \in Nat /\ MaxAsks \in Nat /\ MaxLinks \in Nat
  BY ProxyAssumption DEF ProxyAssumption
<1>3. Elements(<<>>) = {} /\ Len(<<>>) = 0
  <2>1. <<>> \in Seq({})
    OBVIOUS
  <2> QED
    BY <2>1, ElementsMove
<1>4. Linked = {} /\ Decided = {} /\ Coming = {} /\ Asking = {} /\ Met = {}
  <2>1. Linked = {} /\ Decided = {} /\ Coming = {}
    BY <1>1, <1>3 DEF Linked, Decided, Coming
  <2>2. Asking = {}
    BY <1>1, <1>3 DEF Asking
  <2> QED
    BY <1>1, <1>3, <2>1, <2>2 DEF Met, Opened
<1>5. Shape
  <2>1. Cardinality({}) = 0
    BY FS_EmptySet
  <2>2. asks \in [Requests -> 0..MaxAsks] /\ stage \in [Requests -> {"open", "answered", "waiting", "over"}]
    BY <1>1, <1>2
  <2>3. up \in Seq(Message) /\ down \in Seq(Tokens) /\ decisions \in Seq(Tokens)
    BY <1>1
  <2>4. Len(up) <= MaxQueued /\ Len(decisions) <= MaxPending /\ links \in 0..MaxLinks
    BY <1>1, <1>2, <1>3
  <2>5. Cardinality(pending) <= MaxPending /\ Cardinality(suppressed) <= MaxPending /\ Cardinality(known) <= MaxPending
    BY <1>1, <1>2, <2>1
  <2> QED
    BY <1>1, <2>2, <2>3, <2>4, <2>5 DEF Shape
<1>6. Fresh /\ AnsweredOnce
  BY <1>1, <1>3, <1>4 DEF Fresh, AnsweredOnce, Once
<1>7. Alone /\ Opening /\ Told /\ Ruled /\ HeldBack
  BY <1>1, <1>4 DEF Alone, Opening, Told, Ruled, HeldBack
<1> QED
  BY <1>5, <1>6, <1>7 DEF IInv

LEMMA StepKeeps == IInv /\ [Next]_vars => IInv'
<1> SUFFICES ASSUME IInv, [Next]_vars PROVE IInv'
  OBVIOUS
<1>1. ASSUME NEW r \in Requests, CodexAsks(r) PROVE IInv'
  BY <1>1, CodexAsksKeeps
<1>2. ASSUME NEW r \in Requests, CodexResolves(r) PROVE IInv'
  BY <1>2, CodexResolvesKeeps
<1>3. ASSUME NEW t \in Tokens, TerminalAnswers(t) PROVE IInv'
  BY <1>3, TerminalAnswersKeeps
<1>4. ASSUME NEW t \in Tokens, Decide(t) PROVE IInv'
  BY <1>4, DecideKeeps
<1>5. ASSUME NEW t \in Tokens, TellResolved(t) PROVE IInv'
  BY <1>5, TellResolvedKeeps
<1>6. CASE Connect \/ SendDecision \/ NextPhase \/ (\E t \in Tokens : Lateness(t)) \/ UNCHANGED vars
  BY <1>6, QuietStepsKeep
<1>7. CASE HandleUpstream \/ HandleTerminal \/ Expire
  BY <1>7, HandleUpstreamKeeps, HandleTerminalKeeps, ExpireKeeps
<1>8. CASE Break \/ TellOpened \/ GiveUp
  BY <1>8, BreakKeeps, TellOpenedKeeps, GiveUpKeeps
<1>9. CASE LinkStep
  BY <1>9, ResolveKeeps, ForgetKeeps DEF LinkStep
<1> QED
  BY <1>1, <1>2, <1>3, <1>4, <1>5, <1>6, <1>7, <1>8, <1>9 DEF Next, ConnectionStep

\* Tokens are fresh, an id has one approval, whoever knows one is going to be told, a decision is for
\* good, and its record holds the terminal's answer back.
THEOREM ProxyInductive == Spec => []IInv
<1>1. Init => IInv
  BY InvInit
<1>2. IInv /\ [Next]_vars => IInv'
  BY StepKeeps
<1> QED
  BY <1>1, <1>2, PTL DEF Spec

\* Of the decision of a surface (resolve_approval) and the terminal's own answer to the only ask of
\* an id, one goes upstream, unless the approval has expired.
THEOREM AnsweredByOne == Spec => []OneAnswer
<1>1. IInv => OneAnswer
  <2> SUFFICES ASSUME IInv, NEW t \in sent \cap keyed, t \notin late, ~(asks[Id(t)] > 1) PROVE FALSE
    BY DEF OneAnswer
  <2>1. t \in Tokens /\ t \in Decided /\ t \in Met
    BY DEF IInv, Shape, Decided, Met, Opened
  <2>2. t \in Asked
    BY <2>1 DEF IInv, Fresh
  <2>3. t[2] \in 1..MaxAsks /\ Id(t) \in Requests /\ MaxAsks \in Nat
    BY <2>1, TokenOf, ProxyAssumption DEF ProxyAssumption
  <2>4. asks[Id(t)] \in 0..MaxAsks /\ t[2] <= asks[Id(t)]
    BY <2>2, <2>3 DEF IInv, Shape, Asked
  <2>5. asks[Id(t)] = 1
    BY <2>3, <2>4
  <2>6. Lone(t)
    BY <2>5 DEF Lone
  <2> QED
    BY <2>1, <2>6 DEF IInv, HeldBack
<1> QED
  BY <1>1, ProxyInductive, PTL

\* The adapter, the proxy and the link thread pass an approval on between their three locks: an
\* approval the adapter still holds is the proxy's too or about to be taken back, and a decision that
\* was refused or not delivered never reaches Codex.
THEOREM ViewsConsistent == Spec => []Consistent
<1>1. IInv => Consistent
  <2> SUFFICES ASSUME IInv PROVE Consistent
    OBVIOUS
  <2>1. TypeOK
    <3>1. \A r \in Requests : Cardinality(Pends(r)) + Cardinality(Records(r)) <= 1
      BY AloneCounts DEF IInv
    <3> QED
      BY <3>1 DEF IInv, Shape, TypeOK
  <2>2. InStep
    BY DEF IInv, Told, InStep, Forgetting
  <2>3. OutcomeTrue
    <3>1. ToSet(decisions) = Elements(decisions)
      BY DEF ToSet, Elements
    <3>2. ASSUME link.at \in {"undelivered", "refused"} PROVE link.token \notin Decided
      BY <3>2, LinkPlaces DEF IInv, Shape, Ruled
    <3> QED
      BY <3>1, <3>2 DEF OutcomeTrue, Decided
  <2> QED
    BY <2>1, <2>2, <2>3 DEF Consistent
<1> QED
  BY <1>1, ProxyInductive, PTL
=============================================================================
