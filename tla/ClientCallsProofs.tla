--------------------------- MODULE ClientCallsProofs ---------------------------
(***************************************************************************)
(* Proofs about the Bridge's server and the calls of its client, for every *)
(* set of connections, of calls and of Bridge processes and for every      *)
(* limit.                                                                  *)
(*                                                                         *)
(* Three invariants are proved one after the other. Owners says which      *)
(* Bridge holds the lock and the socket's file. Threads says how far a     *)
(* connection has come by what its two threads have put into the inbox:    *)
(* what is announced, what is still to be announced, and what has ended.   *)
(* Travels says where a call can be by what its thread has reported.       *)
(***************************************************************************)
EXTENDS ClientCalls, FiniteSetTheorems, SequenceTheorems, TLAPS

-----------------------------------------------------------------------------
(* Sequences, and what is kept of them.                                 *)

LEMMA AppendAt ==
    ASSUME NEW S, NEW s \in Seq(S), NEW x \in S
    PROVE  /\ Append(s, x) \in Seq(S)
           /\ \A i \in DOMAIN Append(s, x) : \/ i \in DOMAIN s /\ Append(s, x)[i] = s[i]
                                             \/ i = Len(s) + 1 /\ Append(s, x)[i] = x
           /\ \A i \in DOMAIN s : i \in DOMAIN Append(s, x) /\ Append(s, x)[i] = s[i]
           /\ Len(s) + 1 \in DOMAIN Append(s, x) /\ Append(s, x)[Len(s) + 1] = x
           /\ \A i \in DOMAIN s : i < Len(s) + 1
  OBVIOUS

LEMMA TailAt ==
    ASSUME NEW S, NEW s \in Seq(S), s # <<>>
    PROVE  /\ Tail(s) \in Seq(S)
           /\ 1 \in DOMAIN s /\ Head(s) = s[1] /\ Head(s) \in S
           /\ \A i \in DOMAIN Tail(s) : /\ i \in Nat \ {0} /\ i + 1 \in DOMAIN s
                                        /\ Tail(s)[i] = s[i + 1]
           /\ \A j \in DOMAIN s : /\ j \in Nat \ {0}
                                  /\ j # 1 => j - 1 \in DOMAIN Tail(s) /\ Tail(s)[j - 1] = s[j]
  OBVIOUS

\* What a sequence holds, wherever it holds it.
Elements(s) == {s[i] : i \in DOMAIN s}

LEMMA ElementsMove ==
    ASSUME NEW S, NEW s \in Seq(S)
    PROVE  /\ Elements(s) \in SUBSET S
           /\ \A x \in S : Append(s, x) \in Seq(S) /\ Elements(Append(s, x)) = Elements(s) \cup {x}
           /\ s # <<>> => /\ Tail(s) \in Seq(S) /\ Head(s) \in Elements(s)
                          /\ Elements(Tail(s)) \subseteq Elements(s)
           /\ Elements(<<>>) = {} /\ <<>> \in Seq(S)
<1>1. Elements(s) \in SUBSET S
  BY ElementOfSeq DEF Elements
<1>2. ASSUME NEW x \in S
      PROVE  Append(s, x) \in Seq(S) /\ Elements(Append(s, x)) = Elements(s) \cup {x}
  <2>1. /\ Append(s, x) \in Seq(S)
        /\ \A i \in DOMAIN Append(s, x) : (i \in DOMAIN s /\ Append(s, x)[i] = s[i]) \/ Append(s, x)[i] = x
        /\ \A i \in DOMAIN s : i \in DOMAIN Append(s, x) /\ Append(s, x)[i] = s[i]
        /\ \E i \in DOMAIN Append(s, x) : Append(s, x)[i] = x
    BY AppendAt
  <2> QED
    BY <2>1 DEF Elements
<1>3. ASSUME s # <<>>
      PROVE  /\ Tail(s) \in Seq(S) /\ Head(s) \in Elements(s)
             /\ Elements(Tail(s)) \subseteq Elements(s)
  BY <1>3, TailAt DEF Elements
<1>4. Elements(<<>>) = {} /\ <<>> \in Seq(S)
  BY DEF Elements
<1> QED
  BY <1>1, <1>2, <1>3, <1>4

Rank(P, p) == Cardinality({q \in P : q <= p})

LEMMA RankGrows ==
    ASSUME NEW P \in SUBSET Nat, IsFiniteSet(P), NEW p \in P
    PROVE  /\ Rank(P, p) \in 1..Cardinality(P)
           /\ \A r \in P : p < r => Rank(P, p) < Rank(P, r)
<1>0. \A q \in P : q \in Nat
  OBVIOUS
<1>1. \A r \in P : /\ IsFiniteSet({q \in P : q <= r})
                   /\ Rank(P, r) \in Nat
                   /\ Rank(P, r) <= Cardinality(P)
  <2> TAKE r \in P
  <2>1. {q \in P : q <= r} \in SUBSET P
    OBVIOUS
  <2> QED
    BY <2>1, FS_Subset, FS_CardinalityType DEF Rank
<1>2. Rank(P, p) # 0
  BY <1>1, FS_EmptySet DEF Rank
<1>3. ASSUME NEW r \in P, p < r
      PROVE  Rank(P, p) < Rank(P, r)
  <2>0. \A q \in P : q <= p => q <= r
    BY <1>0, <1>3
  <2>1. {q \in P : q <= p} \in SUBSET {q \in P : q <= r}
    BY <2>0
  <2>2. {q \in P : q <= p} # {q \in P : q <= r}
    BY <1>3
  <2>3. Rank(P, p) <= Rank(P, r) /\ Rank(P, p) # Rank(P, r)
    BY <1>1, <2>1, <2>2, FS_Subset DEF Rank
  <2>4. Rank(P, p) \in Nat /\ Rank(P, r) \in Nat
    BY <1>1
  <2> QED
    BY <2>3, <2>4
<1>4. Cardinality(P) \in Nat
  BY FS_CardinalityType
<1>5. Rank(P, p) \in 1..Cardinality(P)
  <2>1. Rank(P, p) \in Nat /\ Rank(P, p) <= Cardinality(P)
    BY <1>1
  <2> QED
    BY <1>2, <1>4, <2>1
<1> QED
  BY <1>3, <1>5

\* Every rank is that of exactly one position.
LEMMA RankOnto ==
    ASSUME NEW P \in SUBSET Nat, IsFiniteSet(P), NEW i \in 1..Cardinality(P)
    PROVE  \E p \in P : Rank(P, p) = i /\ \A r \in P : Rank(P, r) = i => r = p
<1> DEFINE f == [p \in P |-> Rank(P, p)]
<1>1. Cardinality(P) \in Nat
  BY FS_CardinalityType
<1>2. f \in [P -> 1..Cardinality(P)]
  BY RankGrows
<1>3. \A p, r \in P : Rank(P, p) = Rank(P, r) => p = r
  BY RankGrows, SMT
<1>4. f \in Injection(P, 1..Cardinality(P))
  BY <1>2, <1>3 DEF Injection, IsInjective
<1>5. IsFiniteSet(1..Cardinality(P)) /\ Cardinality(1..Cardinality(P)) = Cardinality(P)
  BY <1>1, FS_Interval
<1>6. f \in Surjection(P, 1..Cardinality(P))
  BY <1>4, <1>5, FS_Injection
<1>7. PICK p \in P : f[p] = i
  BY <1>6 DEF Surjection
<1> QED
  BY <1>3, <1>7

Holding(s, S) == {i \in DOMAIN s : s[i] \in S}

LEMMA HoldingFinite ==
    ASSUME NEW T, NEW s \in Seq(T), NEW S
    PROVE  /\ IsFiniteSet(Holding(s, S)) /\ Holding(s, S) \in SUBSET Nat
           /\ Cardinality(Holding(s, S)) \in Nat
<1>1. Len(s) \in Nat /\ DOMAIN s = 1..Len(s)
  BY LenProperties
<1>2. Holding(s, S) \in SUBSET (1..Len(s)) /\ IsFiniteSet(1..Len(s))
  BY <1>1, FS_Interval DEF Holding
<1>3. Holding(s, S) \in SUBSET Nat
  BY <1>2
<1> QED
  BY <1>2, <1>3, FS_Subset, FS_CardinalityType

\* The k-th element of S that s holds.
LEMMA KeptAt ==
    ASSUME NEW T, NEW s \in Seq(T), NEW S
    PROVE  /\ DOMAIN Kept(s, S) = 1..Cardinality(Holding(s, S))
           /\ \A p \in Holding(s, S) : /\ Rank(Holding(s, S), p) \in DOMAIN Kept(s, S)
                                       /\ Kept(s, S)[Rank(Holding(s, S), p)] = s[p]
           /\ \A k \in DOMAIN Kept(s, S) : \E p \in Holding(s, S) : Rank(Holding(s, S), p) = k
<1> DEFINE P == Holding(s, S)
<1> DEFINE At(k) == CHOOSE p \in P : Rank(P, p) = k
<1>1. IsFiniteSet(P) /\ P \in SUBSET Nat /\ Cardinality(P) \in Nat
  BY HoldingFinite
<1>2. Kept(s, S) = [k \in 1..Cardinality(P) |-> s[At(k)]]
  BY DEF Kept, Picked, Rank, Holding
<1> HIDE DEF P
<1>3. \A k \in 1..Cardinality(P) : At(k) \in P /\ Rank(P, At(k)) = k
  BY <1>1, RankOnto
<1>4. ASSUME NEW p \in P
      PROVE  Rank(P, p) \in DOMAIN Kept(s, S) /\ Kept(s, S)[Rank(P, p)] = s[p]
  <2>1. Rank(P, p) \in 1..Cardinality(P)
    BY <1>1, RankGrows
  <2>2. At(Rank(P, p)) = p
    BY <1>1, <1>3, <2>1, RankOnto
  <2> QED
    BY <1>2, <2>1, <2>2
<1>5. \A k \in DOMAIN Kept(s, S) : \E p \in P : Rank(P, p) = k
  BY <1>2, <1>3
<1>6. DOMAIN Kept(s, S) = 1..Cardinality(P)
  BY <1>2
<1> QED
  BY <1>4, <1>5, <1>6 DEF P

LEMMA KeptType ==
    ASSUME NEW T, NEW s \in Seq(T), NEW S
    PROVE  Kept(s, S) \in Seq(S) /\ Len(Kept(s, S)) = Cardinality(Holding(s, S))
<1>1. Cardinality(Holding(s, S)) \in Nat
  BY HoldingFinite
<1>2. DOMAIN Kept(s, S) = 1..Cardinality(Holding(s, S))
  BY KeptAt
<1>3. ASSUME NEW k \in DOMAIN Kept(s, S)
      PROVE  Kept(s, S)[k] \in S
  <2>1. PICK p \in Holding(s, S) : Rank(Holding(s, S), p) = k
    BY KeptAt
  <2>2. Kept(s, S)[k] = s[p]
    BY <2>1, KeptAt
  <2> QED
    BY <2>2 DEF Holding
<1>4. Kept(s, S) = [k \in 1..Cardinality(Holding(s, S)) |-> Kept(s, S)[k]]
  BY <1>2 DEF Kept, Picked
<1>5. Kept(s, S) \in [1..Cardinality(Holding(s, S)) -> S]
  BY <1>2, <1>3, <1>4
<1>6. Kept(s, S) \in Seq(S)
  BY <1>1, <1>5, SeqDef
<1>7. Len(Kept(s, S)) \in Nat /\ DOMAIN Kept(s, S) = 1..Len(Kept(s, S))
  BY <1>6, LenProperties
<1> QED
  BY <1>1, <1>2, <1>6, <1>7

\* What is kept of a sequence with one element more.
LEMMA KeptAppend ==
    ASSUME NEW T, NEW s \in Seq(T), NEW x \in T, NEW S
    PROVE  /\ x \notin S => Kept(Append(s, x), S) = Kept(s, S)
           /\ x \in S => Kept(Append(s, x), S) = Append(Kept(s, S), x)
<1> DEFINE P == Holding(s, S)  a == Append(s, x)  Q == Holding(a, S)  n == Len(s) + 1
<1>0. /\ a \in Seq(T) /\ n \in DOMAIN a /\ a[n] = x /\ n \in Nat
      /\ \A i \in DOMAIN s : i \in DOMAIN a /\ a[i] = s[i] /\ i < n
      /\ \A i \in DOMAIN a : i \in DOMAIN s \/ i = n
  <2>1. Len(s) \in Nat
    BY LenProperties
  <2> QED
    BY <2>1, AppendAt
<1>1. /\ IsFiniteSet(P) /\ P \in SUBSET Nat /\ Cardinality(P) \in Nat
      /\ IsFiniteSet(Q) /\ Q \in SUBSET Nat /\ Cardinality(Q) \in Nat
  BY <1>0, HoldingFinite
<1>2. /\ x \notin S => Q = P
      /\ x \in S => Q = P \cup {n}
      /\ n \notin P /\ \A p \in P : p < n /\ a[p] = s[p] /\ p \in Nat
  BY <1>0, <1>1 DEF Holding
<1>3. Kept(s, S) \in Seq(S) /\ Len(Kept(s, S)) = Cardinality(P)
      /\ Kept(a, S) \in Seq(S) /\ Len(Kept(a, S)) = Cardinality(Q)
  BY <1>0, KeptType
<1>4. /\ \A p \in P : Rank(P, p) \in DOMAIN Kept(s, S) /\ Kept(s, S)[Rank(P, p)] = s[p]
      /\ \A k \in DOMAIN Kept(s, S) : \E p \in P : Rank(P, p) = k
      /\ \A p \in Q : Rank(Q, p) \in DOMAIN Kept(a, S) /\ Kept(a, S)[Rank(Q, p)] = a[p]
      /\ DOMAIN Kept(s, S) = 1..Cardinality(P) /\ DOMAIN Kept(a, S) = 1..Cardinality(Q)
  <2> HIDE DEF a
  <2> QED
    BY <1>0, KeptAt
<1> HIDE DEF P, Q, a, n
<1>5. ASSUME x \notin S
      PROVE  Kept(a, S) = Kept(s, S)
  <2>1. Q = P
    BY <1>2, <1>5
  <2>2. ASSUME NEW k \in 1..Cardinality(P)
        PROVE  Kept(a, S)[k] = Kept(s, S)[k]
    <3>1. PICK p \in P : Rank(P, p) = k
      BY <1>4
    <3> QED
      BY <1>2, <1>4, <2>1, <3>1
  <2> QED
    BY <1>3, <2>1, <2>2, SeqEqual
<1>6. ASSUME x \in S
      PROVE  Kept(a, S) = Append(Kept(s, S), x)
  <2>1. Q = P \cup {n} /\ Cardinality(Q) = Cardinality(P) + 1
    BY <1>1, <1>2, <1>6, FS_AddElement
  <2>2. \A p \in P : Rank(Q, p) = Rank(P, p)
    <3> TAKE p \in P
    <3>1. {q \in Q : q <= p} = {q \in P : q <= p}
      BY <1>0, <1>2, <2>1
    <3> QED
      BY <3>1 DEF Rank
  <2>3. Rank(Q, n) = Cardinality(Q)
    <3>1. {q \in Q : q <= n} = Q
      BY <1>0, <1>2, <2>1
    <3> QED
      BY <3>1 DEF Rank
  <2>4. Append(Kept(s, S), x) \in Seq(S) /\ Len(Append(Kept(s, S), x)) = Cardinality(Q)
    BY <1>3, <1>6, <2>1
  <2>5. ASSUME NEW k \in 1..Cardinality(Q)
        PROVE  Kept(a, S)[k] = Append(Kept(s, S), x)[k]
    <3>1. CASE k = Cardinality(Q)
      <4>1. Kept(a, S)[k] = x
        BY <1>0, <1>4, <2>1, <2>3, <3>1
      <4>2. Append(Kept(s, S), x)[k] = x
        BY <1>3, <2>1, <3>1
      <4> QED
        BY <4>1, <4>2
    <3>2. CASE k # Cardinality(Q)
      <4>1. k \in 1..Cardinality(P)
        BY <1>1, <2>1, <3>2
      <4>2. PICK p \in P : Rank(P, p) = k
        BY <1>4, <4>1
      <4>3. Kept(a, S)[k] = s[p] /\ Kept(s, S)[k] = s[p]
        BY <1>2, <1>4, <2>1, <2>2, <4>2
      <4>4. Append(Kept(s, S), x)[k] = Kept(s, S)[k]
        BY <1>3, <4>1
      <4> QED
        BY <4>3, <4>4
    <3> QED
      BY <3>1, <3>2
  <2> QED
    BY <1>3, <2>4, <2>5, SeqEqual
<1> QED
  BY <1>5, <1>6 DEF a

LEMMA Shifted ==
    ASSUME NEW A \in SUBSET Nat, IsFiniteSet(A), NEW B, B = {a + 1 : a \in A}
    PROVE  IsFiniteSet(B) /\ Cardinality(B) = Cardinality(A)
<1> DEFINE f == [a \in A |-> a + 1]
<1>1. f \in Bijection(A, B)
  <2>1. f \in [A -> B] /\ \A b \in B : \E a \in A : f[a] = b
    OBVIOUS
  <2>2. \A a, b \in A : f[a] = f[b] => a = b
    OBVIOUS
  <2> QED
    BY <2>1, <2>2 DEF Bijection, Injection, Surjection, IsInjective
<1>2. ExistsBijection(A, B)
  BY <1>1 DEF ExistsBijection
<1> QED
  BY <1>2, FS_Bijection

\* What is kept of a sequence without its head.
LEMMA KeptTail ==
    ASSUME NEW T, NEW s \in Seq(T), s # <<>>, NEW S
    PROVE  /\ s[1] \notin S => Kept(Tail(s), S) = Kept(s, S)
           /\ s[1] \in S => Kept(s, S) # <<>> /\ Kept(Tail(s), S) = Tail(Kept(s, S))
<1> DEFINE P == Holding(s, S)  a == Tail(s)  Q == Holding(a, S)  B == {q + 1 : q \in Q}
<1>0. /\ a \in Seq(T) /\ 1 \in DOMAIN s
      /\ \A i \in DOMAIN a : i \in Nat \ {0} /\ i + 1 \in DOMAIN s /\ a[i] = s[i + 1]
      /\ \A j \in DOMAIN s : j \in Nat \ {0} /\ (j # 1 => j - 1 \in DOMAIN a /\ a[j - 1] = s[j])
  BY TailAt
<1>1. /\ IsFiniteSet(P) /\ P \in SUBSET Nat /\ Cardinality(P) \in Nat
      /\ IsFiniteSet(Q) /\ Q \in SUBSET Nat /\ Cardinality(Q) \in Nat
  BY <1>0, HoldingFinite
<1>2. \A q \in Q : q \in Nat \ {0} /\ q + 1 \in P /\ a[q] = s[q + 1]
  BY <1>0 DEF Holding
<1>3. \A p \in P : p = 1 \/ (p - 1 \in Q /\ p \in Nat)
  BY <1>0 DEF Holding
<1>4. IsFiniteSet(B) /\ Cardinality(B) = Cardinality(Q) /\ B \in SUBSET Nat
  BY <1>1, Shifted
<1>5. /\ s[1] \notin S => P = B
      /\ s[1] \in S => P = B \cup {1} /\ 1 \notin B
  <2>1. 1 \in P <=> s[1] \in S
    BY <1>0 DEF Holding
  <2>2. \A p \in P : p # 1 => p \in B
    <3> TAKE p \in P
    <3>1. p # 1 => p - 1 \in Q /\ p = (p - 1) + 1
      BY <1>3
    <3> QED
      BY <3>1
  <2>3. \A p \in B : p \in P /\ p # 1
    BY <1>2
  <2> QED
    BY <2>1, <2>2, <2>3
<1>6. Kept(s, S) \in Seq(S) /\ Len(Kept(s, S)) = Cardinality(P)
      /\ Kept(a, S) \in Seq(S) /\ Len(Kept(a, S)) = Cardinality(Q)
  BY <1>0, KeptType
<1>7. /\ \A p \in P : Rank(P, p) \in DOMAIN Kept(s, S) /\ Kept(s, S)[Rank(P, p)] = s[p]
      /\ \A p \in Q : Rank(Q, p) \in DOMAIN Kept(a, S) /\ Kept(a, S)[Rank(Q, p)] = a[p]
      /\ \A k \in DOMAIN Kept(a, S) : \E p \in Q : Rank(Q, p) = k
      /\ DOMAIN Kept(s, S) = 1..Cardinality(P) /\ DOMAIN Kept(a, S) = 1..Cardinality(Q)
  <2> HIDE DEF a
  <2> QED
    BY <1>0, KeptAt
<1>8. \A q \in Q : /\ Cardinality({b \in B : b <= q + 1}) = Rank(Q, q)
                   /\ IsFiniteSet({b \in B : b <= q + 1})
  <2> TAKE q \in Q
  <2>1. {b \in B : b <= q + 1} = {x + 1 : x \in {y \in Q : y <= q}}
    BY <1>1
  <2>2. IsFiniteSet({y \in Q : y <= q}) /\ {y \in Q : y <= q} \in SUBSET Nat
    BY <1>1, FS_Subset
  <2> QED
    BY <2>1, <2>2, Shifted DEF Rank
<1> HIDE DEF P, Q, a, B
<1>9. ASSUME s[1] \notin S
      PROVE  Kept(a, S) = Kept(s, S)
  <2>1. P = B /\ Cardinality(P) = Cardinality(Q)
    BY <1>4, <1>5, <1>9
  <2>2. ASSUME NEW k \in 1..Cardinality(Q)
        PROVE  Kept(a, S)[k] = Kept(s, S)[k]
    <3>1. PICK q \in Q : Rank(Q, q) = k
      BY <1>7
    <3>2. Rank(P, q + 1) = k
      BY <1>8, <2>1, <3>1 DEF Rank
    <3> QED
      BY <1>2, <1>7, <3>1, <3>2
  <2> QED
    BY <1>6, <2>1, <2>2, SeqEqual
<1>10. ASSUME s[1] \in S
       PROVE  Kept(s, S) # <<>> /\ Kept(a, S) = Tail(Kept(s, S))
  <2>1. P = B \cup {1} /\ 1 \notin B /\ Cardinality(P) = Cardinality(Q) + 1
    BY <1>4, <1>5, <1>10, FS_AddElement
  <2>2. Kept(s, S) # <<>> /\ Tail(Kept(s, S)) \in Seq(S) /\ Len(Tail(Kept(s, S))) = Cardinality(Q)
    BY <1>1, <1>6, <2>1
  <2>3. ASSUME NEW k \in 1..Cardinality(Q)
        PROVE  Kept(a, S)[k] = Tail(Kept(s, S))[k]
    <3>1. PICK q \in Q : Rank(Q, q) = k
      BY <1>7
    <3>2. {b \in P : b <= q + 1} = {b \in B : b <= q + 1} \cup {1}
      BY <1>2, <2>1
    <3>3. Rank(P, q + 1) = k + 1
      BY <1>8, <2>1, <3>1, <3>2, FS_AddElement DEF Rank
    <3>4. Kept(a, S)[k] = s[q + 1] /\ Kept(s, S)[k + 1] = s[q + 1]
      BY <1>2, <1>7, <3>1, <3>3
    <3>5. Tail(Kept(s, S))[k] = Kept(s, S)[k + 1]
      BY <1>6, <2>1, <2>2
    <3> QED
      BY <3>4, <3>5
  <2> QED
    BY <1>6, <2>2, <2>3, SeqEqual
<1> QED
  BY <1>9, <1>10 DEF a

-----------------------------------------------------------------------------
(* Types                                                                   *)

Sent  == Carried \cup {"error"}
Peer  == [who : {"nobody", "client", "stranger"},
          reader : {"none", "run", "ending", "done"},
          writer : {"none", "backlog", "run", "ending", "done"},
          greeted : BOOLEAN, closing : BOOLEAN, shut : BOOLEAN, left : BOOLEAN,
          up : Seq(Up), outbox : Seq(Sent \cup {Close}), down : Seq(Sent)]
Entry == [kind : {"connect", "frame", "disconnect"}, conn : Conns, frame : Up \cup {None}]

ServerTyped ==
    /\ life \in [Bridges -> {"none", "starting", "locked", "serving", "stopping", "unlinked", "gone"}]
    /\ lock \in Bridges \cup {0} /\ path \in Bridges \cup {0}
    /\ conn \in [Conns -> Peer]
    /\ inbox \in Seq(Entry)
    /\ known \in [Conns -> {"no", "new", "client"}]
    /\ acted \subseteq Calls
    /\ owed \in [Conns -> Seq(Carried)]
    /\ spent \in [events : Nat, connects : Nat]

Ticket == [at : {"idle", "begun", "sent", "done"}, conn : Conns \cup {None},
           code : {"none", "ok", "timeout", "connection_lost", "client_busy", "bridge_unavailable"}]

ClientTyped ==
    /\ client \in [at : {"down", "connecting", "greeting", "ready"}, conn : Conns \cup {None},
                   waiting : SUBSET Calls]
    /\ (client.at = "down") = (client.conn = None)
    /\ call \in [Calls -> Ticket]
    /\ \A k \in Calls : call[k].at = "begun" => call[k].conn \in Conns

Typed == ServerTyped /\ ClientTyped

\* The limits. A set that is not finite has no size.
AtMost(S, n) == IsFiniteSet(S) /\ Cardinality(S) <= n

Slots == {c \in Conns : Registered(c)}

Limited ==
    /\ AtMost(Slots, MaxConnections)
    /\ AtMost(client.waiting, MaxPending)
    /\ Len(inbox) <= InboxItems
    /\ \A c \in Conns : /\ Len(conn[c].outbox) <= OutboxFrames
                        /\ Len(conn[c].down) <= SocketFrames

-----------------------------------------------------------------------------
(* The invariants                                                          *)

Locked == {"locked", "serving", "stopping", "unlinked"}

Owners == \A b \in Bridges :
    /\ life[b] \in Locked => lock = b
    /\ life[b] = "serving" => path = b

Of(i, c, kind) == inbox[i].conn = c /\ inbox[i].kind = kind

\* What is put into the outbox goes nowhere.
Dismissed(r) == r.shut \/ Close \in Elements(r.outbox)

LEMMA AnswerableIs == \A c \in Conns : Answerable(c) <=> Registered(c) /\ ~Dismissed(conn[c])
  BY DEF Answerable, Dismissed, Elements

\* A connection that no thread serves yet has left nothing anywhere.
Unmet(c) ==
    /\ conn[c].who = "nobody" => conn[c].writer = "none"
    /\ conn[c].writer \in {"none", "backlog"} =>
         /\ conn[c].reader = "none" /\ conn[c].outbox = <<>>
         /\ known[c] = "no" /\ owed[c] = <<>>
         /\ \A i \in DOMAIN inbox : inbox[i].conn # c

\* A disconnect that is in the inbox while the writer runs is the reader's last item.
ReaderLast(c) == \A j \in DOMAIN inbox :
    Registered(c) /\ Of(j, c, "disconnect") =>
      conn[c].reader = "done" /\ \A i \in DOMAIN inbox : Of(i, c, "frame") => i < j

\* What is read is read from a connection the core knows or is going to know, or has refused.
Announced(c) ==
    Registered(c) /\ ~Dismissed(conn[c]) /\ conn[c].reader \in {"run", "ending"} /\ known[c] = "no" =>
      \E i \in DOMAIN inbox : Of(i, c, "connect")

\* Introduced, of one connection.
Heralded(c) == \A i \in DOMAIN inbox :
    Of(i, c, "frame") /\ Registered(c) /\ ~Dismissed(conn[c]) /\ known[c] = "no" =>
      \E j \in DOMAIN inbox : Of(j, c, "connect") /\ j < i

\* A connection whose threads have ended and the core knows or is going to know is going to be
\* forgotten after that.
Leaving(c) ==
    /\ conn[c].reader = "done" /\ conn[c].writer = "done"
    /\ known[c] # "no" \/ \E i \in DOMAIN inbox : Of(i, c, "connect")
    => \E j \in DOMAIN inbox : /\ Of(j, c, "disconnect")
                               /\ \A i \in DOMAIN inbox : Of(i, c, "connect") => i < j

Attended(c) == Unmet(c) /\ ReaderLast(c) /\ Announced(c) /\ Heralded(c) /\ Leaving(c)

Threads == \A c \in Conns : Attended(c)

\* A call that has not been sent is nowhere on its way.
NotUnderWay(k) ==
    /\ k \notin acted
    /\ \A c \in Conns : k \notin Elements(conn[c].up)
    /\ \A entry \in Elements(inbox) : entry.frame # k

Unsent(k) == call[k].at \in {"idle", "begun"} \/ call[k].code \in {"bridge_unavailable", "client_busy"}

Reported == \A k \in Calls :
    /\ call[k].code # "none" => call[k].at = "done"
    /\ Unsent(k) => NotUnderWay(k)
    /\ call[k].code = "ok" => k \in acted

\* A result that is on its way is that of a call the core has acted on.
Results == \A c \in Conns :
    /\ Elements(conn[c].outbox) \cap Calls \subseteq acted
    /\ Elements(conn[c].down) \cap Calls \subseteq acted

Travels == Reported /\ Results

ServerInv == Typed /\ Limited /\ Owners /\ NoGap /\ Threads /\ Travels

-----------------------------------------------------------------------------
(* What an action does to a connection.                                    *)

LEMMA Apart ==
    /\ \A k \in Calls : /\ k \notin Names /\ k \notin Answers
                        /\ k # "error" /\ k # Close /\ k # None
    /\ "error" \notin Carried /\ Close \notin Sent
    /\ 0 \notin Bridges /\ None \notin Conns
<1>1. "error" \notin Calls /\ Close \notin Calls
  BY ServerAssumption DEF Close
<1> QED
  BY <1>1, ServerAssumption, PendingAssumption DEF Names, Answers, Close, None, Carried, Sent

\* The threads of a connection are where they were, and what was lost is lost.
SamePlace(r, q) ==
    r.who = q.who /\ r.reader = q.reader /\ r.writer = q.writer /\ (Dismissed(q) => Dismissed(r))

\* Into an outbox goes nothing that is owed, or its connection is shut.
PutsEnd(r, q) ==
    /\ ~r.shut => ~q.shut /\ Kept(r.outbox, Carried) = Kept(q.outbox, Carried)
    /\ Elements(r.outbox) \subseteq Elements(q.outbox) \cup {"error", Close}
    /\ Len(r.outbox) <= OutboxFrames

LEMMA EnqueuedIs ==
    ASSUME NEW q \in Peer, NEW x \in Sent \cup {Close}, NEW r, r = Enqueued(q, x),
           Len(q.outbox) <= OutboxFrames
    PROVE  /\ r \in Peer /\ SamePlace(r, q) /\ r.up = q.up /\ r.down = q.down
           /\ Len(r.outbox) <= OutboxFrames
           /\ ~r.shut => ~q.shut /\ r.outbox = Append(q.outbox, x)
           /\ Elements(r.outbox) \subseteq Elements(q.outbox) \cup {x}
           /\ x = Close => Dismissed(r)
<1>0. q.outbox \in Seq(Sent \cup {Close}) /\ Len(q.outbox) \in Nat /\ OutboxFrames \in Nat
  BY ServerAssumption DEF Peer
<1>1. CASE Len(q.outbox) >= OutboxFrames
  <2>1. r = [q EXCEPT !.closing = TRUE, !.shut = TRUE]
    BY <1>1 DEF Enqueued, Full
  <2> QED
    BY <2>1 DEF Peer, SamePlace, Dismissed
<1>2. CASE Len(q.outbox) < OutboxFrames
  <2>1. r = [q EXCEPT !.outbox = Append(q.outbox, x)]
    BY <1>0, <1>2 DEF Enqueued
  <2>2. /\ Append(q.outbox, x) \in Seq(Sent \cup {Close})
        /\ Elements(Append(q.outbox, x)) = Elements(q.outbox) \cup {x}
        /\ Len(Append(q.outbox, x)) <= OutboxFrames
    BY <1>0, <1>2, ElementsMove
  <2>3. /\ r \in Peer /\ r.outbox = Append(q.outbox, x) /\ r.shut = q.shut
        /\ r.up = q.up /\ r.down = q.down
        /\ r.who = q.who /\ r.reader = q.reader /\ r.writer = q.writer
    BY <2>1, <2>2 DEF Peer
  <2> QED
    BY <2>2, <2>3 DEF SamePlace, Dismissed
<1> QED
  BY <1>0, <1>1, <1>2

LEMMA EndPut ==
    ASSUME NEW q \in Peer, NEW x \in {"error", Close}, NEW r, r = Enqueued(q, x),
           Len(q.outbox) <= OutboxFrames
    PROVE  /\ r \in Peer /\ SamePlace(r, q) /\ r.up = q.up /\ r.down = q.down /\ PutsEnd(r, q)
           /\ x = Close => Dismissed(r)
<1>1. x \in Sent \cup {Close} /\ x \notin Carried /\ q.outbox \in Seq(Sent \cup {Close})
  <2>1. x \notin Carried /\ x \in Sent \cup {Close}
    BY Apart DEF Sent
  <2> QED
    BY <2>1 DEF Peer
<1>2. /\ r \in Peer /\ SamePlace(r, q) /\ r.up = q.up /\ r.down = q.down
      /\ Len(r.outbox) <= OutboxFrames
      /\ ~r.shut => ~q.shut /\ r.outbox = Append(q.outbox, x)
      /\ Elements(r.outbox) \subseteq Elements(q.outbox) \cup {x}
      /\ x = Close => Dismissed(r)
  BY <1>1, EnqueuedIs
<1>3. Kept(Append(q.outbox, x), Carried) = Kept(q.outbox, Carried)
  BY <1>1, KeptAppend
<1> QED
  BY <1>2, <1>3 DEF PutsEnd

\* The error and the Close behind it.
LEMMA FailedIs ==
    ASSUME NEW q \in Peer, NEW r, r = FailedWith(q), Len(q.outbox) <= OutboxFrames
    PROVE  /\ r \in Peer /\ SamePlace(r, q) /\ r.up = q.up /\ r.down = q.down /\ PutsEnd(r, q)
           /\ Dismissed(r)
<1>1. PICK e : e = Enqueued(q, "error")
  OBVIOUS
<1>2. e \in Peer /\ SamePlace(e, q) /\ e.up = q.up /\ e.down = q.down /\ PutsEnd(e, q)
  BY <1>1, EndPut
<1>3. PICK f : f = Enqueued(e, Close)
  OBVIOUS
<1>4. Len(e.outbox) <= OutboxFrames
  BY <1>2 DEF PutsEnd
<1>5. /\ f \in Peer /\ SamePlace(f, e) /\ f.up = e.up /\ f.down = e.down /\ PutsEnd(f, e)
      /\ Dismissed(f)
  BY <1>2, <1>3, <1>4, EndPut
<1>6. r = [f EXCEPT !.closing = TRUE]
  BY <1>1, <1>3 DEF FailedWith
<1>7. /\ r \in Peer /\ SamePlace(r, f) /\ r.up = f.up /\ r.down = f.down
      /\ r.shut = f.shut /\ r.outbox = f.outbox /\ Dismissed(r)
  BY <1>5, <1>6 DEF Peer, SamePlace, Dismissed
<1>8. r \in Peer /\ SamePlace(r, q) /\ r.up = q.up /\ r.down = q.down
  BY <1>2, <1>5, <1>7 DEF SamePlace
<1>9. PutsEnd(r, q)
  BY <1>2, <1>5, <1>7 DEF PutsEnd
<1> QED
  BY <1>7, <1>8, <1>9

\* The record of one connection is another one.
Goes(c, r) == conn' = [conn EXCEPT ![c] = r]

LEMMA GoesIs ==
    ASSUME conn \in [Conns -> Peer], NEW c \in Conns, NEW r \in Peer, Goes(c, r)
    PROVE  /\ conn' \in [Conns -> Peer] /\ conn'[c] = r
           /\ \A d \in Conns : d # c => conn'[d] = conn[d]
  BY DEF Goes

\* What is put into the inbox.
LEMMA PutIs ==
    ASSUME inbox \in Seq(Entry), NEW entry \in Entry, Put(entry)
    PROVE  /\ inbox' = Append(inbox, entry) /\ inbox' \in Seq(Entry) /\ Len(inbox') <= InboxItems
           /\ Elements(inbox') = Elements(inbox) \cup {entry}
<1>1. Len(inbox) \in Nat /\ InboxItems \in Nat
  BY ServerAssumption
<1>2. inbox' = Append(inbox, entry) /\ Len(inbox') <= InboxItems
  BY <1>1 DEF Put
<1> QED
  BY <1>2, ElementsMove

LEMMA ItemIs ==
    ASSUME NEW c \in Conns
    PROVE  /\ \A frame \in Up : Item("frame", c, frame) \in Entry
           /\ Item("connect", c, "none") \in Entry /\ Item("disconnect", c, "none") \in Entry
           /\ \A kind, frame : /\ Item(kind, c, frame).kind = kind
                               /\ Item(kind, c, frame).conn = c
                               /\ Item(kind, c, frame).frame = frame
  BY DEF Item, Entry, None

LEMMA AcceptDoes ==
    ASSUME ServerTyped, Accept
    PROVE  /\ UNCHANGED <<process, known, acted, owed, spent>>
           /\ \E c \in Conns, r \in Peer :
                /\ conn[c].writer = "backlog" /\ Goes(c, r)
                /\ r.who = conn[c].who /\ r.up = conn[c].up /\ r.outbox = conn[c].outbox
                /\ r.down = conn[c].down
                /\ \/ /\ r.reader = "done" /\ r.writer = "done" /\ UNCHANGED inbox
                   \/ /\ ~NoSlot /\ r.reader = "run" /\ r.writer = "run"
                      /\ Put(Item("connect", c, "none"))
<1>1. PICK c \in Conns :
        /\ conn[c].writer = "backlog"
        /\ IF NoSlot
           THEN /\ Goes(c, [conn[c] EXCEPT !.writer = "done", !.reader = "done", !.shut = TRUE])
                /\ UNCHANGED inbox
           ELSE /\ Put(Item("connect", c, "none"))
                /\ Goes(c, [conn[c] EXCEPT !.writer = "run", !.reader = "run"])
  BY DEF Accept, Set, Goes, Announce
<1>2. conn[c] \in Peer
  BY DEF ServerTyped
<1>3. CASE NoSlot
  <2>1. PICK r : r = [conn[c] EXCEPT !.writer = "done", !.reader = "done", !.shut = TRUE]
    OBVIOUS
  <2>2. /\ r \in Peer /\ r.writer = "done" /\ r.reader = "done" /\ r.who = conn[c].who
        /\ r.up = conn[c].up /\ r.outbox = conn[c].outbox /\ r.down = conn[c].down
    BY <1>2, <2>1 DEF Peer
  <2> QED
    BY <1>1, <1>3, <2>1, <2>2 DEF Accept
<1>4. CASE ~NoSlot
  <2>1. PICK r : r = [conn[c] EXCEPT !.writer = "run", !.reader = "run"]
    OBVIOUS
  <2>2. /\ r \in Peer /\ r.writer = "run" /\ r.reader = "run" /\ r.who = conn[c].who
        /\ r.up = conn[c].up /\ r.outbox = conn[c].outbox /\ r.down = conn[c].down
    BY <1>2, <2>1 DEF Peer
  <2> QED
    BY <1>1, <1>4, <2>1, <2>2 DEF Accept
<1> QED
  BY <1>3, <1>4

\* A turn of the reader takes a frame, or is its last.
LEMMA ReadDoes ==
    ASSUME ServerTyped, Read, \A c \in Conns : Len(conn[c].outbox) <= OutboxFrames
    PROVE  /\ UNCHANGED <<process, known, acted, owed, spent>>
           /\ \E c \in Conns, r \in Peer :
                /\ conn[c].reader = "run" /\ Goes(c, r)
                /\ r.who = conn[c].who /\ r.writer = conn[c].writer /\ r.down = conn[c].down
                /\ Dismissed(conn[c]) => Dismissed(r)
                /\ \/ /\ r.reader = "run" /\ conn[c].up # <<>> /\ r.up = Tail(conn[c].up)
                      /\ r.outbox = conn[c].outbox /\ r.shut = conn[c].shut
                      /\ Put(Item("frame", c, Head(conn[c].up)))
                   \/ /\ r.reader = "ending" /\ r.up = conn[c].up /\ PutsEnd(r, conn[c])
                      /\ UNCHANGED inbox
<1>1. PICK c \in Conns :
        /\ conn[c].reader = "run"
        /\ \/ Leave(c, conn[c])
           \/ /\ conn[c].up # <<>>
              /\ Put(Item("frame", c, Head(conn[c].up)))
              /\ Goes(c, [conn[c] EXCEPT !.up = Tail(@), !.greeted = TRUE])
           \/ Leave(c, FailedWith(conn[c]))
  BY DEF Read, Set, Goes
<1>2. conn[c] \in Peer /\ Len(conn[c].outbox) <= OutboxFrames
  BY DEF ServerTyped
<1>3. ASSUME NEW q \in Peer, SamePlace(q, conn[c]), q.up = conn[c].up, q.down = conn[c].down,
             PutsEnd(q, conn[c]), Leave(c, q)
      PROVE  \E r \in Peer :
                /\ Goes(c, r) /\ UNCHANGED inbox
                /\ r.who = conn[c].who /\ r.writer = conn[c].writer /\ r.down = conn[c].down
                /\ r.reader = "ending" /\ r.up = conn[c].up /\ PutsEnd(r, conn[c])
                /\ Dismissed(conn[c]) => Dismissed(r)
  <2>1. PICK r : r = [q EXCEPT !.closing = TRUE, !.reader = "ending"]
    OBVIOUS
  <2>2. /\ r \in Peer /\ r.reader = "ending" /\ r.who = q.who /\ r.writer = q.writer
        /\ r.up = q.up /\ r.outbox = q.outbox /\ r.down = q.down /\ r.shut = q.shut
    BY <2>1 DEF Peer
  <2>3. PutsEnd(r, conn[c])
    BY <1>3, <2>2 DEF PutsEnd
  <2>4. Goes(c, r) /\ UNCHANGED inbox
    BY <1>3, <2>1 DEF Leave, Set, Goes
  <2>5. Dismissed(conn[c]) => Dismissed(r)
    BY <1>3, <2>2 DEF SamePlace, Dismissed
  <2> QED
    BY <1>3, <2>2, <2>3, <2>4, <2>5 DEF SamePlace
<1>4. CASE Leave(c, conn[c])
  <2>1. SamePlace(conn[c], conn[c]) /\ PutsEnd(conn[c], conn[c])
    BY <1>2 DEF SamePlace, PutsEnd
  <2> QED
    BY <1>1, <1>2, <1>3, <1>4, <2>1 DEF Read
<1>5. CASE Leave(c, FailedWith(conn[c]))
  <2>1. PICK q : q = FailedWith(conn[c])
    OBVIOUS
  <2>2. /\ q \in Peer /\ SamePlace(q, conn[c]) /\ q.up = conn[c].up /\ q.down = conn[c].down
        /\ PutsEnd(q, conn[c])
    BY <1>2, <2>1, FailedIs
  <2> QED
    BY <1>1, <1>3, <1>5, <2>1, <2>2 DEF Read
<1>6. CASE /\ conn[c].up # <<>>
           /\ Put(Item("frame", c, Head(conn[c].up)))
           /\ Goes(c, [conn[c] EXCEPT !.up = Tail(@), !.greeted = TRUE])
  <2>1. PICK r : r = [conn[c] EXCEPT !.up = Tail(@), !.greeted = TRUE]
    OBVIOUS
  <2>2. Tail(conn[c].up) \in Seq(Up)
    BY <1>2, <1>6 DEF Peer
  <2>3. /\ r \in Peer /\ SamePlace(r, conn[c]) /\ r.down = conn[c].down /\ r.up = Tail(conn[c].up)
        /\ r.outbox = conn[c].outbox /\ r.shut = conn[c].shut
    BY <1>2, <2>1, <2>2 DEF Peer, SamePlace, Dismissed
  <2> QED
    BY <1>1, <1>6, <2>1, <2>3 DEF Read, SamePlace
<1> QED
  BY <1>1, <1>4, <1>5, <1>6

LEMMA ReaderEndsDoes ==
    ASSUME ServerTyped, ReaderEnds, \A c \in Conns : Len(conn[c].outbox) <= OutboxFrames
    PROVE  /\ UNCHANGED <<process, known, acted, owed, spent>>
           /\ \E c \in Conns, r \in Peer :
                /\ conn[c].reader = "ending" /\ Goes(c, r)
                /\ r.who = conn[c].who /\ r.writer = conn[c].writer /\ r.down = conn[c].down
                /\ Dismissed(conn[c]) => Dismissed(r)
                /\ r.reader = "done" /\ r.up = <<>> /\ PutsEnd(r, conn[c])
                /\ Put(Item("disconnect", c, "none"))
<1>1. PICK c \in Conns : /\ conn[c].reader = "ending"
                         /\ Goes(c, [Enqueued(conn[c], Close)
                                        EXCEPT !.reader = "done", !.greeted = FALSE, !.up = <<>>])
                         /\ Put(Item("disconnect", c, "none"))
  BY DEF ReaderEnds, Set, Goes
<1>2. PICK q : q = Enqueued(conn[c], Close)
  OBVIOUS
<1>3. conn[c] \in Peer
  BY DEF ServerTyped
<1>4. /\ q \in Peer /\ SamePlace(q, conn[c]) /\ q.up = conn[c].up /\ q.down = conn[c].down
      /\ PutsEnd(q, conn[c])
  BY <1>2, <1>3, EndPut
<1>5. PICK r : r = [q EXCEPT !.reader = "done", !.greeted = FALSE, !.up = <<>>]
  OBVIOUS
<1>5a. <<>> \in Seq(Up)
  OBVIOUS
<1>6. /\ r \in Peer /\ r.reader = "done" /\ r.who = q.who /\ r.writer = q.writer
      /\ r.up = <<>> /\ r.outbox = q.outbox /\ r.down = q.down /\ r.shut = q.shut
  BY <1>4, <1>5, <1>5a DEF Peer
<1>7. PutsEnd(r, conn[c])
  BY <1>4, <1>6 DEF PutsEnd
<1>8. Dismissed(conn[c]) => Dismissed(r)
  BY <1>4, <1>6 DEF SamePlace, Dismissed
<1> QED
  BY <1>1, <1>2, <1>4, <1>5, <1>6, <1>7, <1>8 DEF ReaderEnds, SamePlace

LEMMA WriterEndsDoes ==
    ASSUME ServerTyped, WriterEnds
    PROVE  /\ UNCHANGED <<process, known, acted, owed, spent>>
           /\ \E c \in Conns, r \in Peer :
                /\ conn[c].writer = "ending" /\ Goes(c, r)
                /\ r.who = conn[c].who /\ r.reader = conn[c].reader /\ r.writer = "done"
                /\ r.up = conn[c].up /\ r.outbox = conn[c].outbox /\ r.down = conn[c].down
                /\ Put(Item("disconnect", c, "none"))
<1>1. PICK c \in Conns : /\ conn[c].writer = "ending"
                         /\ Goes(c, [conn[c] EXCEPT !.writer = "done"])
                         /\ Put(Item("disconnect", c, "none"))
  BY DEF WriterEnds, Set, Goes
<1>2. conn[c] \in Peer
  BY DEF ServerTyped
<1>3. PICK r : r = [conn[c] EXCEPT !.writer = "done"]
  OBVIOUS
<1>4. /\ r \in Peer /\ r.writer = "done" /\ r.who = conn[c].who /\ r.reader = conn[c].reader
      /\ r.up = conn[c].up /\ r.outbox = conn[c].outbox /\ r.down = conn[c].down
  BY <1>2, <1>3 DEF Peer
<1> QED
  BY <1>1, <1>3, <1>4 DEF WriterEnds

\* A turn of the writer sends a frame, or is its last.
LEMMA WriteDoes ==
    ASSUME ServerTyped, Write
    PROVE  /\ UNCHANGED <<process, known, acted, spent>>
           /\ \E c \in Conns, r \in Peer :
                /\ conn[c].writer = "run" /\ Goes(c, r)
                /\ r.who = conn[c].who /\ r.reader = conn[c].reader /\ r.up = conn[c].up
                /\ UNCHANGED inbox
                /\ \/ /\ r.writer = "ending" /\ r.down = conn[c].down /\ r.outbox = <<>>
                      /\ owed' = [owed EXCEPT ![c] = <<>>]
                   \/ /\ r.writer = "run" /\ ~conn[c].shut /\ ~r.shut
                      /\ Dismissed(conn[c]) => Dismissed(r)
                      /\ conn[c].outbox # <<>> /\ r.outbox = Tail(conn[c].outbox)
                      /\ Head(conn[c].outbox) \in Sent
                      /\ r.down = Append(conn[c].down, Head(conn[c].outbox))
                      /\ Len(conn[c].down) < SocketFrames
                      /\ owed' = [owed EXCEPT ![c] = IF Head(conn[c].outbox) = "error" THEN @ ELSE Tail(@)]
<1>1. PICK c \in Conns :
        /\ conn[c].writer = "run"
        /\ \/ WriterLeaves(c)
           \/ /\ conn[c].outbox # <<>> /\ Head(conn[c].outbox) # Close /\ ~conn[c].shut
              /\ Len(conn[c].down) < SocketFrames
              /\ Goes(c, [conn[c] EXCEPT !.outbox = Tail(@), !.down = Append(@, Head(conn[c].outbox))])
              /\ owed' = [owed EXCEPT ![c] = IF Head(conn[c].outbox) = "error" THEN @ ELSE Tail(@)]
              /\ UNCHANGED inbox
  BY DEF Write, Set, Goes
<1>2. conn[c] \in Peer
  BY DEF ServerTyped
<1>3. CASE WriterLeaves(c)
  <2>1. PICK r : r = [conn[c] EXCEPT !.closing = TRUE, !.shut = TRUE, !.writer = "ending", !.outbox = <<>>]
    OBVIOUS
  <2>2. /\ r \in Peer /\ r.writer = "ending" /\ r.outbox = <<>> /\ r.who = conn[c].who
        /\ r.reader = conn[c].reader /\ r.up = conn[c].up /\ r.down = conn[c].down
    <3>1. <<>> \in Seq(Sent \cup {Close})
      OBVIOUS
    <3> QED
      BY <1>2, <2>1, <3>1 DEF Peer
  <2>3. Goes(c, r) /\ UNCHANGED inbox /\ owed' = [owed EXCEPT ![c] = <<>>]
    BY <1>3, <2>1 DEF WriterLeaves, Set, Goes
  <2> QED
    BY <1>1, <1>3, <2>2, <2>3 DEF Write
<1>4. CASE /\ conn[c].outbox # <<>> /\ Head(conn[c].outbox) # Close /\ ~conn[c].shut
           /\ Len(conn[c].down) < SocketFrames
           /\ Goes(c, [conn[c] EXCEPT !.outbox = Tail(@), !.down = Append(@, Head(conn[c].outbox))])
           /\ owed' = [owed EXCEPT ![c] = IF Head(conn[c].outbox) = "error" THEN @ ELSE Tail(@)]
           /\ UNCHANGED inbox
  <2>1. PICK r : r = [conn[c] EXCEPT !.outbox = Tail(@), !.down = Append(@, Head(conn[c].outbox))]
    OBVIOUS
  <2>2. conn[c].outbox \in Seq(Sent \cup {Close}) /\ conn[c].down \in Seq(Sent)
    BY <1>2 DEF Peer
  <2>3. Head(conn[c].outbox) \in Sent /\ Tail(conn[c].outbox) \in Seq(Sent \cup {Close})
    BY <1>4, <2>2
  <2>4. Append(conn[c].down, Head(conn[c].outbox)) \in Seq(Sent)
    BY <2>2, <2>3
  <2>5. /\ r \in Peer /\ r.up = conn[c].up /\ r.shut = conn[c].shut
        /\ r.writer = conn[c].writer /\ r.reader = conn[c].reader /\ r.who = conn[c].who
        /\ r.outbox = Tail(conn[c].outbox) /\ r.down = Append(conn[c].down, Head(conn[c].outbox))
    BY <1>2, <2>1, <2>3, <2>4 DEF Peer
  <2>6. Dismissed(conn[c]) => Dismissed(r)
    <3>1. Elements(conn[c].outbox) \subseteq {Head(conn[c].outbox)} \cup Elements(Tail(conn[c].outbox))
      <4>1. /\ Head(conn[c].outbox) = conn[c].outbox[1]
            /\ \A j \in DOMAIN conn[c].outbox : j # 1 =>
                 /\ j - 1 \in DOMAIN Tail(conn[c].outbox)
                 /\ Tail(conn[c].outbox)[j - 1] = conn[c].outbox[j]
        BY <1>4, <2>2, TailAt
      <4> QED
        BY <4>1 DEF Elements
    <3> QED
      BY <1>4, <2>5, <3>1 DEF Dismissed
  <2>7. Goes(c, r)
    BY <1>4, <2>1
  <2>8. UNCHANGED <<process, known, acted, spent>>
    BY DEF Write
  <2> QED
    BY <1>1, <1>4, <2>3, <2>5, <2>6, <2>7, <2>8
<1> QED
  BY <1>1, <1>3, <1>4

\* The core's outputs for a connection: none, the error and the Close, or one frame it then owes.
Delivers(c) ==
    \/ UNCHANGED <<conn, owed>>
    \/ \E r \in Peer :
         /\ Registered(c) /\ Goes(c, r) /\ SamePlace(r, conn[c])
         /\ r.up = conn[c].up /\ r.down = conn[c].down
         /\ \/ PutsEnd(r, conn[c]) /\ UNCHANGED owed
            \/ \E frame \in Carried :
                 /\ Len(r.outbox) <= OutboxFrames
                 /\ ~r.shut => ~conn[c].shut /\ r.outbox = Append(conn[c].outbox, frame)
                 /\ Elements(r.outbox) \subseteq Elements(conn[c].outbox) \cup {frame}
                 /\ owed' = [owed EXCEPT ![c] = Append(@, frame)]
                 /\ frame \in Calls => frame \in acted'

LEMMA OutputsDoes ==
    ASSUME ServerTyped, NEW c \in Conns, NEW frame \in Carried, Outputs(c, frame),
           Len(conn[c].outbox) <= OutboxFrames, frame \in Calls => frame \in acted'
    PROVE  Delivers(c)
<1>1. CASE ~Registered(c)
  BY <1>1 DEF Outputs, Delivers
<1>2. CASE Registered(c)
  <2>1. PICK r : r = Enqueued(conn[c], frame)
    OBVIOUS
  <2>2. conn[c] \in Peer /\ frame \in Sent \cup {Close}
    BY DEF ServerTyped, Sent
  <2>3. /\ r \in Peer /\ SamePlace(r, conn[c]) /\ r.up = conn[c].up /\ r.down = conn[c].down
        /\ Len(r.outbox) <= OutboxFrames
        /\ ~r.shut => ~conn[c].shut /\ r.outbox = Append(conn[c].outbox, frame)
        /\ Elements(r.outbox) \subseteq Elements(conn[c].outbox) \cup {frame}
    BY <2>1, <2>2, EnqueuedIs
  <2>4. Goes(c, r) /\ owed' = [owed EXCEPT ![c] = Append(@, frame)]
    BY <1>2, <2>1 DEF Outputs, Goes
  <2> QED
    BY <1>2, <2>3, <2>4 DEF Delivers
<1> QED
  BY <1>1, <1>2

LEMMA RefusesDoes ==
    ASSUME ServerTyped, NEW c \in Conns, Refuses(c), Len(conn[c].outbox) <= OutboxFrames
    PROVE  Delivers(c) /\ (Registered(c) => Dismissed(conn'[c]))
<1>1. CASE ~Registered(c)
  BY <1>1 DEF Refuses, Delivers
<1>2. CASE Registered(c)
  <2>1. PICK r : r = FailedWith(conn[c])
    OBVIOUS
  <2>2. conn[c] \in Peer
    BY DEF ServerTyped
  <2>3. /\ r \in Peer /\ SamePlace(r, conn[c]) /\ r.up = conn[c].up /\ r.down = conn[c].down
        /\ PutsEnd(r, conn[c]) /\ Dismissed(r)
    BY <2>1, <2>2, FailedIs
  <2>4. Goes(c, r) /\ UNCHANGED owed
    BY <1>2, <2>1 DEF Refuses, Goes
  <2>5. conn'[c] = r
    BY <2>3, <2>4, GoesIs DEF ServerTyped
  <2> QED
    BY <1>2, <2>3, <2>4, <2>5 DEF Delivers
<1> QED
  BY <1>1, <1>2

LEMMA HandleDoes ==
    ASSUME ServerTyped, Handle, \A c \in Conns : Len(conn[c].outbox) <= OutboxFrames,
           NEW item, item = Head(inbox)
    PROVE  /\ UNCHANGED <<process, spent>>
           /\ inbox # <<>> /\ inbox' = Tail(inbox) /\ item \in Entry /\ item = inbox[1]
           /\ acted \subseteq acted' /\ acted' \subseteq (acted \cup {item.frame}) \cap Calls
           /\ known' \in [Conns -> {"no", "new", "client"}]
           /\ \A d \in Conns : d # item.conn => known'[d] = known[d]
           /\ item.kind = "connect" => known'[item.conn] = "new"
           /\ item.kind = "disconnect" => known'[item.conn] = "no"
           /\ item.kind = "frame" /\ known[item.conn] = "no" => known'[item.conn] = "no"
           /\ item.kind = "frame" /\ known[item.conn] # "no" /\ known'[item.conn] = "no" /\ Registered(item.conn) =>
                Dismissed(conn'[item.conn])
           /\ Delivers(item.conn)
<1>1. /\ inbox # <<>> /\ inbox' = Tail(inbox) /\ item \in Entry /\ item = inbox[1]
      /\ UNCHANGED <<process, spent>>
  BY TailAt DEF Handle, ServerTyped
<1> DEFINE c == item.conn
<1>2. c \in Conns /\ item.kind \in {"connect", "frame", "disconnect"}
  BY <1>1 DEF Entry
<1>3. known \in [Conns -> {"no", "new", "client"}] /\ acted \subseteq Calls
  BY DEF ServerTyped
<1>4. \/ item.kind = "connect" /\ known' = [known EXCEPT ![c] = "new"] /\ UNCHANGED <<conn, owed, acted>>
      \/ item.kind = "disconnect" /\ known' = [known EXCEPT ![c] = "no"] /\ UNCHANGED <<conn, owed, acted>>
      \/ item.kind = "frame" /\ known[c] = "no" /\ UNCHANGED <<known, conn, owed, acted>>
      \/ /\ item.kind = "frame" /\ known[c] = "new"
         /\ \/ known' = [known EXCEPT ![c] = "client"] /\ Outputs(c, "hello_ok")
            \/ Refuses(c) /\ known' = [known EXCEPT ![c] = "no"]
         /\ UNCHANGED acted
      \/ /\ item.kind = "frame" /\ known[c] = "client" /\ item.frame \in Calls
         /\ acted' = acted \cup {item.frame} /\ Outputs(c, item.frame) /\ UNCHANGED known
  BY DEF Handle, Forgets
<1>5. Delivers(c)
  <2>1. "hello_ok" \in Carried /\ Calls \subseteq Carried /\ "hello_ok" \notin Calls
    BY Apart DEF Carried, Answers
  <2>2. ASSUME UNCHANGED <<conn, owed>>
        PROVE  Delivers(c)
    BY <2>2 DEF Delivers
  <2>3. ASSUME Outputs(c, "hello_ok")
        PROVE  Delivers(c)
    BY <1>2, <2>1, <2>3, OutputsDoes
  <2>4. ASSUME Refuses(c)
        PROVE  Delivers(c)
    BY <1>2, <2>4, RefusesDoes
  <2>5. ASSUME item.frame \in Calls, acted' = acted \cup {item.frame}, Outputs(c, item.frame)
        PROVE  Delivers(c)
    BY <1>2, <2>1, <2>5, OutputsDoes
  <2> HIDE DEF c
  <2> QED
    BY <1>4, <2>2, <2>3, <2>4, <2>5
<1>6. acted \subseteq acted' /\ acted' \subseteq (acted \cup {item.frame}) \cap Calls
  BY <1>3, <1>4
<1>7. /\ known' \in [Conns -> {"no", "new", "client"}]
      /\ \A d \in Conns : d # c => known'[d] = known[d]
      /\ item.kind = "connect" => known'[c] = "new"
      /\ item.kind = "disconnect" => known'[c] = "no"
      /\ item.kind = "frame" /\ known[c] = "no" => known'[c] = "no"
      /\ item.kind = "frame" /\ known[c] # "no" /\ known'[c] = "no" => Refuses(c)
  BY <1>2, <1>3, <1>4
<1>8. Refuses(c) => (Registered(c) => Dismissed(conn'[c]))
  BY <1>2, RefusesDoes
<1> QED
  BY <1>1, <1>5, <1>6, <1>7, <1>8

LEMMA PublishDoes ==
    ASSUME ServerTyped, Publish, \A c \in Conns : Len(conn[c].outbox) <= OutboxFrames
    PROVE  /\ UNCHANGED <<process, inbox, known, acted>>
           /\ spent' \in [events : Nat, connects : Nat]
           /\ \E c \in Conns : Delivers(c)
<1>1. PICK c \in Conns : Outputs(c, "event") /\ UNCHANGED <<process, inbox, known, acted>>
                         /\ spent' = [spent EXCEPT !.events = @ + 1]
  BY DEF Publish
<1>2. "event" \in Carried /\ "event" \notin Calls
  BY Apart DEF Carried, Answers
<1>3. Delivers(c)
  BY <1>1, <1>2, OutputsDoes
<1>4. spent' \in [events : Nat, connects : Nat]
  <2>1. spent \in [events : Nat, connects : Nat]
    BY DEF ServerTyped
  <2> QED
    BY <1>1, <2>1
<1> QED
  BY <1>1, <1>3, <1>4

\* The end of a Bridge leaves every connection that there is without its threads.
LEMMA EndsDoes ==
    ASSUME ServerTyped, Ends
    PROVE  /\ conn' \in [Conns -> Peer] /\ inbox' = <<>> /\ inbox' \in Seq(Entry)
           /\ known' = [c \in Conns |-> "no"]
           /\ owed' = [c \in Conns |-> <<>>] /\ owed' \in [Conns -> Seq(Carried)]
           /\ \A c \in Conns :
                /\ conn'[c].who = conn[c].who /\ conn'[c].down = conn[c].down
                /\ conn[c].who = "nobody" => conn'[c] = conn[c]
                /\ conn[c].who # "nobody" =>
                     /\ conn'[c].reader = "done" /\ conn'[c].writer = "done"
                     /\ conn'[c].outbox = <<>> /\ conn'[c].up = <<>>
<1>1. ASSUME NEW c \in Conns
      PROVE  /\ conn'[c] \in Peer
             /\ conn'[c].who = conn[c].who /\ conn'[c].down = conn[c].down
             /\ conn[c].who = "nobody" => conn'[c] = conn[c]
             /\ conn[c].who # "nobody" =>
                  /\ conn'[c].reader = "done" /\ conn'[c].writer = "done"
                  /\ conn'[c].outbox = <<>> /\ conn'[c].up = <<>>
  <2>1. conn[c] \in Peer
    BY DEF ServerTyped
  <2>2. CASE conn[c].who = "nobody"
    BY <2>1, <2>2 DEF Ends
  <2>3. CASE conn[c].who # "nobody"
    <3>1. conn'[c] = [conn[c] EXCEPT !.reader = "done", !.writer = "done", !.shut = TRUE,
                                     !.closing = TRUE, !.outbox = <<>>, !.up = <<>>,
                                     !.greeted = FALSE]
      BY <2>3 DEF Ends
    <3>2. <<>> \in Seq(Sent \cup {Close}) /\ <<>> \in Seq(Up)
      OBVIOUS
    <3>3. PICK p : p = [conn[c] EXCEPT !.reader = "done", !.writer = "done", !.shut = TRUE,
                                       !.closing = TRUE]
      OBVIOUS
    <3>4. /\ p \in Peer /\ p.who = conn[c].who /\ p.down = conn[c].down
          /\ p.reader = "done" /\ p.writer = "done"
      BY <2>1, <3>3 DEF Peer
    <3>5. conn'[c] = [p EXCEPT !.outbox = <<>>, !.up = <<>>, !.greeted = FALSE]
      BY <2>1, <3>1, <3>3 DEF Peer
    <3> QED
      BY <2>3, <3>2, <3>4, <3>5 DEF Peer
  <2> QED
    BY <2>2, <2>3
<1>2. conn' \in [Conns -> Peer]
  <2>1. conn' = [c \in Conns |-> conn'[c]]
    BY DEF Ends
  <2> QED
    BY <1>1, <2>1
<1>3. inbox' = <<>> /\ inbox' \in Seq(Entry)
  <2>1. <<>> \in Seq(Entry)
    OBVIOUS
  <2> QED
    BY <2>1 DEF Ends
<1>4. known' = [c \in Conns |-> "no"] /\ owed' = [c \in Conns |-> <<>>]
  BY DEF Ends
<1>5. owed' \in [Conns -> Seq(Carried)]
  BY <1>4
<1> QED
  BY <1>1, <1>2, <1>3, <1>4, <1>5

-----------------------------------------------------------------------------
(* What the ends of a connection do: they write into it, read from it, and *)
(* close it.                                                               *)

\* The peer of c does something, and the Bridge nothing.
Wired(c, frames) ==
    /\ UNCHANGED <<process, inbox, known, acted, owed, spent>>
    /\ \E r \in Peer :
         /\ Goes(c, r) /\ SamePlace(r, conn[c])
         /\ r.outbox = conn[c].outbox /\ r.shut = conn[c].shut
         /\ Elements(r.up) \subseteq Elements(conn[c].up) \cup frames
         /\ Elements(r.down) \subseteq Elements(conn[c].down) /\ Len(r.down) <= Len(conn[c].down)

LEMMA SendsWires ==
    ASSUME ServerTyped, NEW c \in Conns, NEW frame \in Up, Sends(c, frame),
           UNCHANGED <<process, inbox, known, acted, owed, spent>>
    PROVE  Wired(c, {frame})
<1>1. PICK r : r = [conn[c] EXCEPT !.up = Append(@, frame)]
  OBVIOUS
<1>2. conn[c] \in Peer
  BY DEF ServerTyped
<1>3. conn[c].up \in Seq(Up) /\ Len(conn[c].down) \in Nat
  BY <1>2 DEF Peer
<1>4. /\ Append(conn[c].up, frame) \in Seq(Up)
      /\ Elements(Append(conn[c].up, frame)) = Elements(conn[c].up) \cup {frame}
  BY <1>3, ElementsMove
<1>5. /\ r \in Peer /\ SamePlace(r, conn[c]) /\ r.outbox = conn[c].outbox
      /\ r.shut = conn[c].shut /\ r.up = Append(conn[c].up, frame) /\ r.down = conn[c].down
  BY <1>1, <1>2, <1>4 DEF Peer, SamePlace, Dismissed
<1>6. Goes(c, r)
  BY <1>1 DEF Sends, Goes
<1>7. /\ Elements(r.up) \subseteq Elements(conn[c].up) \cup {frame}
      /\ Elements(r.down) \subseteq Elements(conn[c].down) /\ Len(r.down) <= Len(conn[c].down)
  BY <1>3, <1>4, <1>5
<1> QED
  BY <1>5, <1>6, <1>7 DEF Wired

LEMMA AbandonedWires ==
    ASSUME ServerTyped, NEW c \in Conns, Goes(c, Abandoned(c)),
           UNCHANGED <<process, inbox, known, acted, owed, spent>>
    PROVE  Wired(c, {})
<1>1. PICK r : r = [conn[c] EXCEPT !.left = TRUE, !.down = <<>>]
  OBVIOUS
<1>2. conn[c] \in Peer
  BY DEF ServerTyped
<1>3. Len(conn[c].down) \in Nat /\ Elements(<<>>) = {} /\ <<>> \in Seq(Sent)
  BY <1>2 DEF Peer, Elements
<1>4. /\ r \in Peer /\ SamePlace(r, conn[c]) /\ r.outbox = conn[c].outbox
      /\ r.shut = conn[c].shut /\ r.up = conn[c].up /\ r.down = <<>>
  BY <1>1, <1>2, <1>3 DEF Peer, SamePlace, Dismissed
<1>5. Goes(c, r)
  BY <1>1 DEF Abandoned
<1>6. Elements(r.down) \subseteq Elements(conn[c].down) /\ Len(r.down) <= Len(conn[c].down)
  BY <1>3, <1>4
<1> QED
  BY <1>4, <1>5, <1>6 DEF Wired

LEMMA ReceivedWires ==
    ASSUME ServerTyped, NEW c \in Conns, conn[c].down # <<>>,
           conn' = [conn EXCEPT ![c].down = Tail(@)],
           UNCHANGED <<process, inbox, known, acted, owed, spent>>
    PROVE  Wired(c, {})
<1>1. PICK r : r = [conn[c] EXCEPT !.down = Tail(@)]
  OBVIOUS
<1>2. conn[c] \in Peer
  BY DEF ServerTyped
<1>3. conn[c].down \in Seq(Sent)
  BY <1>2 DEF Peer
<1>4. /\ Tail(conn[c].down) \in Seq(Sent) /\ Elements(Tail(conn[c].down)) \subseteq Elements(conn[c].down)
      /\ Len(Tail(conn[c].down)) <= Len(conn[c].down)
  BY <1>3, ElementsMove
<1>5. /\ r \in Peer /\ SamePlace(r, conn[c]) /\ r.outbox = conn[c].outbox
      /\ r.shut = conn[c].shut /\ r.up = conn[c].up /\ r.down = Tail(conn[c].down)
  BY <1>1, <1>2, <1>4 DEF Peer, SamePlace, Dismissed
<1>6. Goes(c, r)
  BY <1>1 DEF Goes
<1> QED
  BY <1>4, <1>5, <1>6 DEF Wired

\* A connection is made where none was.
LEMMA ConnectDoes ==
    ASSUME ServerTyped, NEW c \in Conns, NEW who \in {"client", "stranger"}, Connect(c, who)
    PROVE  /\ UNCHANGED <<process, inbox, known, acted, owed>>
           /\ spent' \in [events : Nat, connects : Nat]
           /\ conn[c] = Free
           /\ \E r \in Peer :
                /\ Goes(c, r) /\ r.who = who /\ r.reader = "none" /\ r.writer = "backlog"
                /\ r.up = <<>> /\ r.outbox = <<>> /\ r.down = <<>>
<1>1. Free \in Peer
  BY DEF Free, Peer
<1>2. PICK r : r = [Free EXCEPT !.who = who, !.writer = "backlog"]
  OBVIOUS
<1>3. /\ r \in Peer /\ r.who = who /\ r.reader = Free.reader /\ r.writer = "backlog"
      /\ r.up = Free.up /\ r.outbox = Free.outbox /\ r.down = Free.down
  BY <1>1, <1>2 DEF Peer
<1>4. Goes(c, r) /\ conn[c] = Free /\ UNCHANGED <<process, inbox, known, acted, owed>>
  BY <1>2 DEF Connect, Set, Goes
<1>5. spent' \in [events : Nat, connects : Nat]
  <2>1. spent \in [events : Nat, connects : Nat] /\ spent' = [spent EXCEPT !.connects = @ + 1]
    BY DEF Connect, ServerTyped
  <2> QED
    BY <2>1
<1> QED
  BY <1>3, <1>4, <1>5 DEF Free

-----------------------------------------------------------------------------
(* Every step is one of these.                                             *)

Reuses(c) ==
    /\ conn[c].writer = "done" /\ known[c] = "no" /\ \A i \in DOMAIN inbox : inbox[i].conn # c
    /\ Goes(c, Free)
    /\ owed' = [owed EXCEPT ![c] = <<>>]
    /\ UNCHANGED <<process, inbox, known, acted, spent>>

\* What the connections go through; frames is what their peers write.
TrafficStep(frames) ==
    \/ UNCHANGED traffic
    \/ Ends /\ UNCHANGED <<acted, spent>>
    \/ Accept \/ Read \/ ReaderEnds \/ Write \/ WriterEnds \/ Handle \/ Publish
    \/ \E c \in Conns : Wired(c, frames)
    \/ \E c \in Conns : \E who \in {"client", "stranger"} : Connect(c, who)
    \/ \E c \in Conns : Reuses(c)

\* What the peers write that is a call is written by that call's thread.
LEMMA Traffics ==
    ASSUME Typed, Next
    PROVE  \E frames \in SUBSET Up :
             /\ TrafficStep(frames)
             /\ \A k \in frames \cap Calls :
                  call[k].at = "begun" /\ call' = [call EXCEPT ![k].at = "sent"]
<1> USE DEF Typed
<1>0. /\ {} \in SUBSET Up /\ {"hello"} \in SUBSET Up /\ "hello" \notin Calls /\ Names \subseteq Up
      /\ \A k \in Calls : k \in Up
      /\ \A x \in Names : x \notin Calls
  BY Apart DEF Up, Names
<1>1. ASSUME TrafficStep({})
      PROVE  \E frames \in SUBSET Up :
               /\ TrafficStep(frames)
               /\ \A k \in frames \cap Calls :
                    call[k].at = "begun" /\ call' = [call EXCEPT ![k].at = "sent"]
  BY <1>0, <1>1
<1>2. ASSUME NEW x \in Names, TrafficStep({x})
      PROVE  \E frames \in SUBSET Up :
               /\ TrafficStep(frames)
               /\ \A k \in frames \cap Calls :
                    call[k].at = "begun" /\ call' = [call EXCEPT ![k].at = "sent"]
  <2>1. {x} \in SUBSET Up /\ {x} \cap Calls = {}
    BY <1>0
  <2> QED
    BY <1>2, <2>1
<1>3. CASE ServerThreads \/ ServerProcess \/ Publish
  <2>1. ASSUME ServerProcess
        PROVE  UNCHANGED traffic \/ (Ends /\ UNCHANGED <<acted, spent>>)
    BY <2>1 DEF ServerProcess, Launch, Acquire, Bind, Stop, Kill, Unlink, Release, traffic
  <2>2. TrafficStep({})
    BY <1>3, <2>1 DEF TrafficStep, ServerThreads
  <2> QED
    BY <1>1, <2>2
<1>4. CASE Dial
  <2>1. TrafficStep({})
    BY <1>4 DEF TrafficStep, Dial
  <2> QED
    BY <1>1, <2>1
<1>5. ASSUME client.at # "down"
      PROVE  client.conn \in Conns
  BY <1>5 DEF ClientTyped
<1>6. CASE Greet
  <2>1. Wired(client.conn, {"hello"})
    BY <1>0, <1>5, <1>6, SendsWires DEF Greet, Names
  <2>2. TrafficStep({"hello"}) /\ "hello" \in Names
    BY <1>5, <1>6, <2>1 DEF TrafficStep, Names, Greet
  <2> QED
    BY <1>2, <2>2
<1>7. CASE Receive
  <2>1. client.conn \in Conns /\ conn[client.conn].down # <<>>
        /\ UNCHANGED <<process, inbox, known, acted, owed, spent>>
    BY <1>5, <1>7 DEF Receive, mine
  <2>2. \/ conn' = [conn EXCEPT ![client.conn].down = Tail(@)]
        \/ Goes(client.conn, Abandoned(client.conn))
    BY <1>7 DEF Receive, mine, Goes
  <2>3. Wired(client.conn, {})
    BY <2>1, <2>2, ReceivedWires, AbandonedWires
  <2>4. TrafficStep({})
    BY <2>1, <2>3 DEF TrafficStep
  <2> QED
    BY <1>1, <2>4
<1>8. CASE Disconnects
  <2>1. client.conn \in Conns /\ Wired(client.conn, {})
    BY <1>5, <1>8, AbandonedWires DEF Disconnects, Goes
  <2>2. TrafficStep({})
    BY <2>1 DEF TrafficStep
  <2> QED
    BY <1>1, <2>2
<1>9. ASSUME NEW k \in Calls, Begin(k) \/ TimeOut(k)
      PROVE  TrafficStep({})
  BY <1>9 DEF Begin, TimeOut, TrafficStep, serverVars, traffic
<1>10. ASSUME NEW k \in Calls, Send(k)
       PROVE  \E frames \in SUBSET Up :
                /\ TrafficStep(frames)
                /\ \A m \in frames \cap Calls :
                     call[m].at = "begun" /\ call' = [call EXCEPT ![m].at = "sent"]
  <2>1. /\ call[k].at = "begun" /\ call[k].conn \in Conns
        /\ UNCHANGED <<process, inbox, known, acted, owed, spent>>
    BY <1>10 DEF Send, ClientTyped
  <2>2. CASE UNCHANGED conn
    <3>1. TrafficStep({})
      BY <2>1, <2>2 DEF TrafficStep, traffic
    <3> QED
      BY <1>1, <3>1
  <2>3. CASE Sends(call[k].conn, k) /\ call' = [call EXCEPT ![k].at = "sent"]
    <3>1. Wired(call[k].conn, {k})
      BY <1>0, <2>1, <2>3, SendsWires
    <3>2. TrafficStep({k})
      BY <2>1, <3>1 DEF TrafficStep
    <3>3. {k} \in SUBSET Up
      BY <1>0
    <3>4. \A m \in {k} \cap Calls : call[m].at = "begun" /\ call' = [call EXCEPT ![m].at = "sent"]
      BY <2>1, <2>3
    <3> QED
      BY <3>2, <3>3, <3>4
  <2> QED
    BY <1>10, <2>2, <2>3 DEF Send
<1>11. CASE StrangerConnects
  <2>1. TrafficStep({})
    BY <1>11 DEF TrafficStep, StrangerConnects
  <2> QED
    BY <1>1, <2>1
<1>12. CASE StrangerSends
  <2>1. PICK c \in Conns, frame \in Names :
          Sends(c, frame) /\ UNCHANGED <<process, inbox, known, acted, owed, spent>>
    BY <1>12 DEF StrangerSends, Names
  <2>2. TrafficStep({frame})
    BY <1>0, <2>1, SendsWires DEF TrafficStep
  <2> QED
    BY <1>2, <2>2
<1>13. CASE StrangerLeaves
  <2>1. PICK c \in Conns :
          Goes(c, Abandoned(c)) /\ UNCHANGED <<process, inbox, known, acted, owed, spent>>
    BY <1>13 DEF StrangerLeaves, Set, Goes
  <2>2. TrafficStep({})
    BY <2>1, AbandonedWires DEF TrafficStep
  <2> QED
    BY <1>1, <2>2
<1>14. CASE Reuse
  <2>1. \E c \in Conns : Reuses(c)
    BY <1>14 DEF Reuse, Reuses, Set, Goes
  <2>2. TrafficStep({})
    BY <2>1 DEF TrafficStep
  <2> QED
    BY <1>1, <2>2
<1> QED
  BY <1>1, <1>3, <1>4, <1>6, <1>7, <1>8, <1>9, <1>10, <1>11, <1>12, <1>13, <1>14 DEF Next

-----------------------------------------------------------------------------
(* Types, and the limits of the queues.                                    *)

\* The part of the types that the connections' steps may change.
TrafficTyped ==
    /\ conn \in [Conns -> Peer]
    /\ inbox \in Seq(Entry)
    /\ known \in [Conns -> {"no", "new", "client"}]
    /\ acted \subseteq Calls
    /\ owed \in [Conns -> Seq(Carried)]
    /\ spent \in [events : Nat, connects : Nat]

Queues ==
    /\ Len(inbox) <= InboxItems
    /\ \A c \in Conns : /\ Len(conn[c].outbox) <= OutboxFrames
                        /\ Len(conn[c].down) <= SocketFrames

LEMMA DeliveredTyped ==
    ASSUME ServerTyped, Queues, NEW c \in Conns, Delivers(c)
    PROVE  /\ conn' \in [Conns -> Peer] /\ owed' \in [Conns -> Seq(Carried)]
           /\ \A d \in Conns : /\ Len(conn'[d].outbox) <= OutboxFrames
                               /\ Len(conn'[d].down) <= SocketFrames
<1>0. conn \in [Conns -> Peer] /\ owed \in [Conns -> Seq(Carried)]
  BY DEF ServerTyped
<1>1. CASE UNCHANGED <<conn, owed>>
  BY <1>0, <1>1 DEF Queues
<1>2. ASSUME NEW r \in Peer, Goes(c, r), r.down = conn[c].down, Len(r.outbox) <= OutboxFrames
      PROVE  /\ conn' \in [Conns -> Peer]
             /\ \A d \in Conns : /\ Len(conn'[d].outbox) <= OutboxFrames
                                 /\ Len(conn'[d].down) <= SocketFrames
  BY <1>0, <1>2, GoesIs DEF Queues
<1>3. ASSUME NEW frame \in Carried, owed' = [owed EXCEPT ![c] = Append(@, frame)]
      PROVE  owed' \in [Conns -> Seq(Carried)]
  <2>1. Append(owed[c], frame) \in Seq(Carried)
    BY <1>0
  <2> QED
    BY <1>0, <1>3, <2>1
<1> QED
  BY <1>0, <1>1, <1>2, <1>3 DEF Delivers, PutsEnd

LEMMA TrafficTypedStays ==
    ASSUME ServerTyped, Queues, NoGap, NEW frames \in SUBSET Up, TrafficStep(frames)
    PROVE  TrafficTyped' /\ Queues'
<1> USE ServerAssumption DEF ServerTyped
<1>0. /\ conn \in [Conns -> Peer] /\ inbox \in Seq(Entry)
      /\ \A c \in Conns : /\ conn[c] \in Peer
                          /\ conn[c].outbox \in Seq(Sent \cup {Close}) /\ conn[c].down \in Seq(Sent)
                          /\ Len(conn[c].outbox) \in Nat /\ Len(conn[c].down) \in Nat
                          /\ Len(conn[c].outbox) <= OutboxFrames /\ Len(conn[c].down) <= SocketFrames
  <2>1. ASSUME NEW c \in Conns
        PROVE  /\ conn[c] \in Peer
               /\ conn[c].outbox \in Seq(Sent \cup {Close}) /\ conn[c].down \in Seq(Sent)
               /\ Len(conn[c].outbox) \in Nat /\ Len(conn[c].down) \in Nat
    <3>1. conn[c] \in Peer
      OBVIOUS
    <3>2. conn[c].outbox \in Seq(Sent \cup {Close}) /\ conn[c].down \in Seq(Sent)
      BY <3>1 DEF Peer
    <3> QED
      BY <3>1, <3>2, LenProperties
  <2>2. \A c \in Conns : Len(conn[c].outbox) <= OutboxFrames /\ Len(conn[c].down) <= SocketFrames
    BY DEF Queues
  <2>3. conn \in [Conns -> Peer] /\ inbox \in Seq(Entry)
    OBVIOUS
  <2> QED
    BY <2>1, <2>2, <2>3
\* A step that changes one record and puts into the inbox or not.
<1>1. ASSUME NEW c \in Conns, NEW r \in Peer, Goes(c, r),
             Len(r.outbox) <= OutboxFrames, Len(r.down) <= SocketFrames,
             \/ UNCHANGED inbox
             \/ \E entry \in Entry : Put(entry)
      PROVE  /\ conn' \in [Conns -> Peer] /\ inbox' \in Seq(Entry) /\ Len(inbox') <= InboxItems
             /\ Queues'
  <2>1. conn' \in [Conns -> Peer] /\ conn'[c] = r /\ \A d \in Conns : d # c => conn'[d] = conn[d]
    BY <1>0, <1>1, GoesIs
  <2>2. inbox' \in Seq(Entry) /\ Len(inbox') <= InboxItems
    BY <1>0, <1>1, PutIs DEF Queues
  <2>3. Queues'
    BY <1>0, <1>1, <2>1, <2>2 DEF Queues
  <2> QED
    BY <2>1, <2>2, <2>3
<1>2. CASE UNCHANGED traffic
  BY <1>2 DEF traffic, TrafficTyped, Queues
<1>3. CASE Ends /\ UNCHANGED <<acted, spent>>
  <2>1. /\ conn' \in [Conns -> Peer] /\ inbox' = <<>> /\ inbox' \in Seq(Entry)
        /\ known' = [c \in Conns |-> "no"] /\ owed' \in [Conns -> Seq(Carried)]
    BY <1>3, EndsDoes
  <2>2. known' \in [Conns -> {"no", "new", "client"}]
    BY <2>1
  <2>3. ASSUME NEW c \in Conns
        PROVE  Len(conn'[c].outbox) <= OutboxFrames /\ Len(conn'[c].down) <= SocketFrames
    <3>1. conn'[c].down = conn[c].down
      BY <1>3, EndsDoes
    <3>2. conn'[c] = conn[c] \/ conn'[c].outbox = <<>>
      BY <1>3, EndsDoes
    <3>3. Len(<<>>) = 0 /\ OutboxFrames \in Nat
      OBVIOUS
    <3> QED
      BY <1>0, <3>1, <3>2, <3>3
  <2>4. Len(inbox') <= InboxItems
    BY <2>1
  <2> QED
    BY <1>3, <2>1, <2>2, <2>3, <2>4 DEF TrafficTyped, Queues
<1>4. CASE Accept
  <2>1. PICK c \in Conns, r \in Peer :
          /\ Goes(c, r) /\ r.outbox = conn[c].outbox /\ r.down = conn[c].down
          /\ UNCHANGED inbox \/ Put(Item("connect", c, "none"))
    BY <1>4, AcceptDoes
  <2>2. UNCHANGED <<known, acted, owed, spent>>
    BY <1>4, AcceptDoes
  <2>3. conn' \in [Conns -> Peer] /\ inbox' \in Seq(Entry) /\ Queues'
    BY <1>0, <1>1, <2>1, ItemIs
  <2> QED
    BY <2>2, <2>3 DEF TrafficTyped
<1>5. CASE Read
  <2>1. PICK c \in Conns, r \in Peer :
          /\ Goes(c, r) /\ r.down = conn[c].down
          /\ \/ /\ conn[c].up # <<>> /\ r.outbox = conn[c].outbox
                /\ Put(Item("frame", c, Head(conn[c].up)))
             \/ PutsEnd(r, conn[c]) /\ UNCHANGED inbox
    BY <1>0, <1>5, ReadDoes
  <2>2. UNCHANGED <<known, acted, owed, spent>>
    BY <1>0, <1>5, ReadDoes
  <2>3. conn[c].up # <<>> => Item("frame", c, Head(conn[c].up)) \in Entry
    <3>1. conn[c].up \in Seq(Up)
      BY <1>0 DEF Peer
    <3> QED
      BY <3>1, ItemIs
  <2>4. Len(r.outbox) <= OutboxFrames
    BY <1>0, <2>1 DEF PutsEnd
  <2>5. conn' \in [Conns -> Peer] /\ inbox' \in Seq(Entry) /\ Queues'
    BY <1>0, <1>1, <2>1, <2>3, <2>4
  <2> QED
    BY <2>2, <2>5 DEF TrafficTyped
<1>6. CASE ReaderEnds
  <2>1. PICK c \in Conns, r \in Peer :
          /\ Goes(c, r) /\ r.down = conn[c].down /\ PutsEnd(r, conn[c])
          /\ Put(Item("disconnect", c, "none"))
    BY <1>0, <1>6, ReaderEndsDoes
  <2>2. UNCHANGED <<known, acted, owed, spent>>
    BY <1>0, <1>6, ReaderEndsDoes
  <2>3. conn' \in [Conns -> Peer] /\ inbox' \in Seq(Entry) /\ Queues'
    BY <1>0, <1>1, <2>1, ItemIs DEF PutsEnd
  <2> QED
    BY <2>2, <2>3 DEF TrafficTyped
<1>8. CASE Handle
  <2>1. PICK item : item = Head(inbox)
    OBVIOUS
  <2>2. /\ inbox # <<>> /\ inbox' = Tail(inbox) /\ item \in Entry /\ Delivers(item.conn)
        /\ UNCHANGED spent /\ acted' \subseteq Calls
        /\ known' \in [Conns -> {"no", "new", "client"}]
    BY <1>0, <1>8, <2>1, HandleDoes
  <2>3. item.conn \in Conns
    BY <2>2 DEF Entry
  <2>4. inbox' \in Seq(Entry) /\ Len(inbox') <= InboxItems
    BY <1>0, <2>2 DEF Queues
  <2>5. /\ conn' \in [Conns -> Peer] /\ owed' \in [Conns -> Seq(Carried)]
        /\ \A d \in Conns : /\ Len(conn'[d].outbox) <= OutboxFrames
                            /\ Len(conn'[d].down) <= SocketFrames
    BY <2>2, <2>3, DeliveredTyped
  <2> QED
    BY <2>2, <2>4, <2>5 DEF TrafficTyped, Queues
<1>9. CASE Publish
  <2>1. PICK c \in Conns : Delivers(c)
    BY <1>0, <1>9, PublishDoes
  <2>2. UNCHANGED <<inbox, known, acted>> /\ spent' \in [events : Nat, connects : Nat]
    BY <1>0, <1>9, PublishDoes
  <2>3. /\ conn' \in [Conns -> Peer] /\ owed' \in [Conns -> Seq(Carried)]
        /\ \A d \in Conns : /\ Len(conn'[d].outbox) <= OutboxFrames
                            /\ Len(conn'[d].down) <= SocketFrames
    BY <2>1, DeliveredTyped
  <2> QED
    BY <2>2, <2>3 DEF TrafficTyped, Queues
<1>10. ASSUME NEW c \in Conns, Wired(c, frames)
       PROVE  TrafficTyped' /\ Queues'
  <2>1. PICK r \in Peer : /\ Goes(c, r) /\ r.outbox = conn[c].outbox
                          /\ Len(r.down) <= Len(conn[c].down)
    BY <1>10 DEF Wired
  <2>2. UNCHANGED <<inbox, known, acted, owed, spent>>
    BY <1>10 DEF Wired
  <2>3. r.down \in Seq(Sent) /\ Len(r.down) \in Nat
    BY DEF Peer
  <2>4. Len(r.down) <= SocketFrames
    BY <1>0, <2>1, <2>3
  <2>5. conn' \in [Conns -> Peer] /\ inbox' \in Seq(Entry) /\ Queues'
    BY <1>0, <1>1, <2>1, <2>2, <2>4
  <2> QED
    BY <2>2, <2>5 DEF TrafficTyped
<1>11. ASSUME NEW c \in Conns, NEW who \in {"client", "stranger"}, Connect(c, who)
       PROVE  TrafficTyped' /\ Queues'
  <2>1. PICK r \in Peer : Goes(c, r) /\ r.outbox = <<>> /\ r.down = <<>>
    BY <1>11, ConnectDoes
  <2>2. UNCHANGED <<inbox, known, acted, owed>> /\ spent' \in [events : Nat, connects : Nat]
    BY <1>11, ConnectDoes
  <2>3. conn' \in [Conns -> Peer] /\ inbox' \in Seq(Entry) /\ Queues'
    BY <1>0, <1>1, <2>1, <2>2
  <2> QED
    BY <2>2, <2>3 DEF TrafficTyped
<1>12. ASSUME NEW c \in Conns, Reuses(c)
       PROVE  TrafficTyped' /\ Queues'
  <2>1. Free \in Peer /\ Free.outbox = <<>> /\ Free.down = <<>>
    BY DEF Free, Peer
  <2>2. /\ Goes(c, Free) /\ UNCHANGED <<inbox, known, acted, spent>>
        /\ owed' = [owed EXCEPT ![c] = <<>>]
    BY <1>12 DEF Reuses
  <2>3. owed' \in [Conns -> Seq(Carried)]
    BY <2>2
  <2>4. conn' \in [Conns -> Peer] /\ inbox' \in Seq(Entry) /\ Queues'
    BY <1>0, <1>1, <2>1, <2>2
  <2> QED
    BY <2>2, <2>3, <2>4 DEF TrafficTyped
\* The writer sends what the outbox holds, which is what is owed or an error.
<1>7. CASE Write
  <2>1. PICK c \in Conns, r \in Peer :
          /\ conn[c].writer = "run" /\ Goes(c, r)
          /\ \/ /\ r.down = conn[c].down /\ r.outbox = <<>>
                /\ owed' = [owed EXCEPT ![c] = <<>>]
             \/ /\ ~conn[c].shut
                /\ conn[c].outbox # <<>> /\ r.outbox = Tail(conn[c].outbox)
                /\ Head(conn[c].outbox) \in Sent
                /\ r.down = Append(conn[c].down, Head(conn[c].outbox))
                /\ Len(conn[c].down) < SocketFrames
                /\ owed' = [owed EXCEPT ![c] = IF Head(conn[c].outbox) = "error" THEN @ ELSE Tail(@)]
    BY <1>7, WriteDoes
  <2>2. UNCHANGED <<inbox, known, acted, spent>>
    BY <1>7, WriteDoes
  <2>3. Len(r.outbox) <= OutboxFrames /\ Len(r.down) <= SocketFrames
    <3>1. CASE r.down = conn[c].down /\ r.outbox = <<>>
      BY <1>0, <3>1
    <3>2. CASE /\ conn[c].outbox # <<>> /\ r.outbox = Tail(conn[c].outbox)
               /\ Head(conn[c].outbox) \in Sent
               /\ r.down = Append(conn[c].down, Head(conn[c].outbox))
               /\ Len(conn[c].down) < SocketFrames
      <4>1. Len(Tail(conn[c].outbox)) = Len(conn[c].outbox) - 1
        BY <1>0, <3>2
      <4>2. Len(Append(conn[c].down, Head(conn[c].outbox))) = Len(conn[c].down) + 1
        BY <1>0, <3>2
      <4>3. Len(r.outbox) <= OutboxFrames
        BY <1>0, <3>2, <4>1
      <4>4. Len(r.down) <= SocketFrames
        BY <1>0, <3>2, <4>2
      <4> QED
        BY <4>3, <4>4
    <3> QED
      BY <2>1, <3>1, <3>2
  <2>4. conn' \in [Conns -> Peer] /\ inbox' \in Seq(Entry) /\ Queues'
    BY <1>0, <1>1, <2>1, <2>2, <2>3
  <2>5. owed' \in [Conns -> Seq(Carried)]
    <3>0. owed[c] \in Seq(Carried)
      OBVIOUS
    <3>1. CASE owed' = [owed EXCEPT ![c] = <<>>]
      BY <3>1
    <3>2. CASE /\ ~conn[c].shut /\ conn[c].outbox # <<>> /\ Head(conn[c].outbox) \in Sent
               /\ owed' = [owed EXCEPT ![c] = IF Head(conn[c].outbox) = "error" THEN @ ELSE Tail(@)]
      <4>1. CASE Head(conn[c].outbox) = "error"
        BY <3>0, <3>2, <4>1
      <4>2. CASE Head(conn[c].outbox) # "error"
        <5>1. conn[c].outbox[1] \in Carried
          BY <1>0, <3>2, <4>2 DEF Sent
        <5>2. owed[c] = Kept(conn[c].outbox, Carried)
          BY <2>1, <3>2 DEF NoGap, Registered
        <5>3. owed[c] # <<>>
          BY <1>0, <3>2, <5>1, <5>2, KeptTail
        <5>4. Tail(owed[c]) \in Seq(Carried)
          BY <3>0, <5>3
        <5> QED
          BY <3>2, <4>2, <5>4
      <4> QED
        BY <4>1, <4>2
    <3> QED
      BY <2>1, <3>1, <3>2
  <2> QED
    BY <2>2, <2>4, <2>5 DEF TrafficTyped
<1>13. CASE WriterEnds
  <2>1. PICK c \in Conns, r \in Peer :
          /\ Goes(c, r) /\ r.outbox = conn[c].outbox /\ r.down = conn[c].down
          /\ Put(Item("disconnect", c, "none"))
    BY <1>13, WriterEndsDoes
  <2>2. UNCHANGED <<known, acted, owed, spent>>
    BY <1>13, WriterEndsDoes
  <2>3. conn' \in [Conns -> Peer] /\ inbox' \in Seq(Entry) /\ Queues'
    BY <1>0, <1>1, <2>1, ItemIs
  <2> QED
    BY <2>2, <2>3 DEF TrafficTyped
<1> QED
  BY <1>2, <1>3, <1>4, <1>5, <1>6, <1>7, <1>8, <1>9, <1>10, <1>11, <1>12, <1>13 DEF TrafficStep

-----------------------------------------------------------------------------
(* A connection that can still deliver has lost nothing.                   *)

LEMMA OwedByDelivery ==
    ASSUME ServerTyped, NoGap, NEW c \in Conns, Delivers(c)
    PROVE  NoGap'
<1>0. conn \in [Conns -> Peer] /\ owed \in [Conns -> Seq(Carried)]
  BY DEF ServerTyped
<1>1. CASE UNCHANGED <<conn, owed>>
  BY <1>1 DEF NoGap, Registered
<1>2. ASSUME NEW r \in Peer, Registered(c), Goes(c, r), PutsEnd(r, conn[c]), UNCHANGED owed
      PROVE  NoGap'
  BY <1>0, <1>2, GoesIs DEF NoGap, Registered, PutsEnd
<1>3. ASSUME NEW r \in Peer, Registered(c), Goes(c, r), NEW frame \in Carried,
             ~r.shut => ~conn[c].shut /\ r.outbox = Append(conn[c].outbox, frame),
             owed' = [owed EXCEPT ![c] = Append(@, frame)]
      PROVE  NoGap'
  <2>1. conn[c].outbox \in Seq(Sent \cup {Close}) /\ frame \in Sent \cup {Close}
    <3>1. conn[c] \in Peer
      BY <1>0
    <3> QED
      BY <3>1 DEF Peer, Sent
  <2>2. conn'[c] = r /\ \A d \in Conns : d # c => conn'[d] = conn[d]
    BY <1>0, <1>3, GoesIs
  <2>3. owed'[c] = Append(owed[c], frame) /\ \A d \in Conns : d # c => owed'[d] = owed[d]
    BY <1>0, <1>3
  <2>4. ~r.shut => Kept(r.outbox, Carried) = Append(owed[c], frame)
    <3>1. SUFFICES ASSUME ~r.shut PROVE Kept(r.outbox, Carried) = Append(owed[c], frame)
      OBVIOUS
    <3>2. Kept(Append(conn[c].outbox, frame), Carried) = Append(Kept(conn[c].outbox, Carried), frame)
      BY <2>1, KeptAppend
    <3>3. Kept(conn[c].outbox, Carried) = owed[c]
      BY <1>3, <3>1 DEF NoGap
    <3> QED
      BY <1>3, <3>1, <3>2, <3>3
  <2> QED
    BY <2>2, <2>3, <2>4 DEF NoGap, Registered
<1> QED
  BY <1>1, <1>2, <1>3 DEF Delivers

LEMMA NoGapStays ==
    ASSUME ServerTyped, Queues, NoGap, Threads, NEW frames \in SUBSET Up, TrafficStep(frames)
    PROVE  NoGap'
<1>0. /\ conn \in [Conns -> Peer] /\ owed \in [Conns -> Seq(Carried)] /\ inbox \in Seq(Entry)
      /\ \A c \in Conns : Len(conn[c].outbox) <= OutboxFrames
      /\ \A c \in Conns : conn[c].outbox \in Seq(Sent \cup {Close})
  <2>1. ASSUME NEW c \in Conns
        PROVE  conn[c].outbox \in Seq(Sent \cup {Close})
    <3>1. conn[c] \in Peer
      BY DEF ServerTyped
    <3> QED
      BY <3>1 DEF Peer
  <2> QED
    BY <2>1 DEF ServerTyped, Queues
<1>1. Kept(<<>>, Carried) = <<>>
  <2>1. <<>> \in Seq(Carried) /\ Holding(<<>>, Carried) = {}
    BY DEF Holding
  <2>2. Kept(<<>>, Carried) \in Seq(Carried) /\ Len(Kept(<<>>, Carried)) = 0
    BY <2>1, KeptType, FS_EmptySet
  <2> QED
    BY <2>2
\* The record of one connection changes and no debt.
<1>2. ASSUME NEW c \in Conns, NEW r \in Peer, Goes(c, r), UNCHANGED owed,
             r.writer = "run" /\ ~r.shut => Kept(r.outbox, Carried) = owed[c]
      PROVE  NoGap'
  BY <1>0, <1>2, GoesIs DEF NoGap, Registered
<1>3. CASE UNCHANGED traffic
  BY <1>3 DEF traffic, NoGap, Registered
<1>4. CASE Ends /\ UNCHANGED <<acted, spent>>
  <2>1. ASSUME NEW c \in Conns, conn'[c].writer = "run"
        PROVE  FALSE
    <3>1. CASE conn[c].who = "nobody"
      BY <1>4, <2>1, <3>1, EndsDoes DEF Threads, Attended, Unmet
    <3>2. CASE conn[c].who # "nobody"
      BY <1>4, <2>1, <3>2, EndsDoes
    <3> QED
      BY <3>1, <3>2
  <2> QED
    BY <2>1 DEF NoGap, Registered
<1>5. CASE Accept
  <2>1. PICK c \in Conns, r \in Peer :
          conn[c].writer = "backlog" /\ Goes(c, r) /\ r.outbox = conn[c].outbox
    BY <1>5, AcceptDoes
  <2>2. UNCHANGED owed
    BY <1>5, AcceptDoes
  <2>3. conn[c].outbox = <<>> /\ owed[c] = <<>>
    BY <2>1 DEF Threads, Attended, Unmet
  <2> QED
    BY <1>1, <1>2, <2>1, <2>2, <2>3
<1>6. CASE Read
  <2>1. PICK c \in Conns, r \in Peer :
          /\ Goes(c, r) /\ r.writer = conn[c].writer
          /\ \/ r.outbox = conn[c].outbox /\ r.shut = conn[c].shut
             \/ PutsEnd(r, conn[c])
    BY <1>0, <1>6, ReadDoes
  <2>2. UNCHANGED owed
    BY <1>0, <1>6, ReadDoes
  <2>3. r.writer = "run" /\ ~r.shut => Kept(r.outbox, Carried) = owed[c]
    BY <2>1 DEF NoGap, Registered, PutsEnd
  <2> QED
    BY <1>2, <2>1, <2>2, <2>3
<1>7. CASE ReaderEnds
  <2>1. PICK c \in Conns, r \in Peer :
          Goes(c, r) /\ r.writer = conn[c].writer /\ PutsEnd(r, conn[c])
    BY <1>0, <1>7, ReaderEndsDoes
  <2>2. UNCHANGED owed
    BY <1>0, <1>7, ReaderEndsDoes
  <2>3. r.writer = "run" /\ ~r.shut => Kept(r.outbox, Carried) = owed[c]
    BY <2>1 DEF NoGap, Registered, PutsEnd
  <2> QED
    BY <1>2, <2>1, <2>2, <2>3
<1>8. CASE Write
  <2>1. PICK c \in Conns, r \in Peer :
          /\ conn[c].writer = "run" /\ Goes(c, r)
          /\ \/ r.writer = "ending" /\ owed' = [owed EXCEPT ![c] = <<>>]
             \/ /\ ~conn[c].shut /\ conn[c].outbox # <<>> /\ r.outbox = Tail(conn[c].outbox)
                /\ Head(conn[c].outbox) \in Sent
                /\ owed' = [owed EXCEPT ![c] = IF Head(conn[c].outbox) = "error" THEN @ ELSE Tail(@)]
    BY <1>8, WriteDoes
  <2>2. CASE r.writer = "ending" /\ owed' = [owed EXCEPT ![c] = <<>>]
    <3>1. conn'[c] = r /\ \A d \in Conns : d # c => conn'[d] = conn[d] /\ owed'[d] = owed[d]
      BY <1>0, <2>1, <2>2, GoesIs
    <3> QED
      BY <2>2, <3>1 DEF NoGap, Registered
  <2>3. CASE /\ ~conn[c].shut /\ conn[c].outbox # <<>> /\ r.outbox = Tail(conn[c].outbox)
             /\ Head(conn[c].outbox) \in Sent
             /\ owed' = [owed EXCEPT ![c] = IF Head(conn[c].outbox) = "error" THEN @ ELSE Tail(@)]
    <3>1. Kept(conn[c].outbox, Carried) = owed[c]
      BY <2>1, <2>3 DEF NoGap, Registered
    <3>2. conn[c].outbox[1] \notin Carried <=> Head(conn[c].outbox) = "error"
      BY <1>0, <2>3, Apart DEF Sent
    <3>3. Kept(r.outbox, Carried) = owed'[c]
      BY <1>0, <2>3, <3>1, <3>2, KeptTail
    <3>4. conn'[c] = r /\ \A d \in Conns : d # c => conn'[d] = conn[d] /\ owed'[d] = owed[d]
      BY <1>0, <2>1, <2>3, GoesIs
    <3> QED
      BY <3>3, <3>4 DEF NoGap, Registered
  <2> QED
    BY <2>1, <2>2, <2>3
<1>9. CASE Handle
  <2>1. PICK item : item = Head(inbox)
    OBVIOUS
  <2>2. item \in Entry /\ Delivers(item.conn)
    BY <1>0, <1>9, <2>1, HandleDoes
  <2>3. item.conn \in Conns
    BY <2>2 DEF Entry
  <2> QED
    BY <2>2, <2>3, OwedByDelivery
<1>10. CASE Publish
  BY <1>0, <1>10, PublishDoes, OwedByDelivery
<1>11. ASSUME NEW c \in Conns, Wired(c, frames)
       PROVE  NoGap'
  <2>1. PICK r \in Peer : /\ Goes(c, r) /\ SamePlace(r, conn[c]) /\ r.outbox = conn[c].outbox
                          /\ r.shut = conn[c].shut
    BY <1>11 DEF Wired
  <2>2. UNCHANGED owed
    BY <1>11 DEF Wired
  <2>3. r.writer = "run" /\ ~r.shut => Kept(r.outbox, Carried) = owed[c]
    BY <2>1 DEF NoGap, Registered, SamePlace
  <2> QED
    BY <1>2, <2>1, <2>2, <2>3
<1>12. ASSUME NEW c \in Conns, NEW who \in {"client", "stranger"}, Connect(c, who)
       PROVE  NoGap'
  <2>1. PICK r \in Peer : Goes(c, r) /\ r.writer = "backlog"
    BY <1>12, ConnectDoes
  <2>2. UNCHANGED owed
    BY <1>12, ConnectDoes
  <2> QED
    BY <1>2, <2>1, <2>2
<1>13. ASSUME NEW c \in Conns, Reuses(c)
       PROVE  NoGap'
  <2>1. Free \in Peer /\ Free.writer = "none"
    BY DEF Free, Peer
  <2>2. Goes(c, Free) /\ \A d \in Conns : d # c => owed'[d] = owed[d]
    BY <1>0, <1>13 DEF Reuses
  <2>3. conn'[c] = Free /\ \A d \in Conns : d # c => conn'[d] = conn[d]
    BY <1>0, <2>1, <2>2, GoesIs
  <2> QED
    BY <2>1, <2>2, <2>3 DEF NoGap, Registered
<1>14. CASE WriterEnds
  <2>1. PICK c \in Conns, r \in Peer : Goes(c, r) /\ r.writer = "done"
    BY <1>14, WriterEndsDoes
  <2>2. UNCHANGED owed
    BY <1>14, WriterEndsDoes
  <2> QED
    BY <1>2, <2>1, <2>2
<1> QED
  BY <1>3, <1>4, <1>5, <1>6, <1>7, <1>8, <1>9, <1>10, <1>11, <1>12, <1>13, <1>14 DEF TrafficStep

-----------------------------------------------------------------------------
(* The course of a connection.                                             *)

LEMMA ItemPut ==
    ASSUME inbox \in Seq(Entry), NEW entry \in Entry, inbox' = Append(inbox, entry)
    PROVE  \E n \in DOMAIN inbox' :
             /\ inbox'[n] = entry
             /\ \A i \in DOMAIN inbox' : (i \in DOMAIN inbox /\ inbox'[i] = inbox[i]) \/ i = n
             /\ \A i \in DOMAIN inbox : i \in DOMAIN inbox' /\ inbox'[i] = inbox[i] /\ i < n
  BY AppendAt

\* Of a connection nothing changes: items of others may be put.
LEMMA AttendedStays ==
    ASSUME inbox \in Seq(Entry), NEW d \in Conns, Attended(d),
           SamePlace(conn'[d], conn[d]), known'[d] = known[d],
           conn[d].writer \in {"none", "backlog"} =>
             conn'[d].outbox = conn[d].outbox /\ owed'[d] = owed[d],
           \/ UNCHANGED inbox
           \/ \E entry \in Entry : entry.conn # d /\ inbox' = Append(inbox, entry)
    PROVE  Attended(d)'
<1>1. CASE UNCHANGED inbox
  BY <1>1 DEF Attended, Unmet, ReaderLast, Announced, Heralded, Leaving, Of, Registered, SamePlace
<1>2. CASE \E entry \in Entry : entry.conn # d /\ inbox' = Append(inbox, entry)
  <2>1. PICK entry \in Entry : entry.conn # d /\ inbox' = Append(inbox, entry)
    BY <1>2
  <2>2. PICK n \in DOMAIN inbox' :
          /\ inbox'[n] = entry
          /\ \A i \in DOMAIN inbox' : (i \in DOMAIN inbox /\ inbox'[i] = inbox[i]) \/ i = n
          /\ \A i \in DOMAIN inbox : i \in DOMAIN inbox' /\ inbox'[i] = inbox[i] /\ i < n
    BY <2>1, ItemPut
  <2>3. Unmet(d)'
    BY <2>1, <2>2 DEF Attended, Unmet, SamePlace
  <2>4. ReaderLast(d)'
    BY <2>1, <2>2 DEF Attended, ReaderLast, Of, Registered, SamePlace
  <2>5. Announced(d)'
    BY <2>1, <2>2 DEF Attended, Announced, Of, Registered, SamePlace
  <2>6. Heralded(d)'
    BY <2>1, <2>2 DEF Attended, Heralded, Of, Registered, SamePlace
  <2>7. Leaving(d)'
    BY <2>1, <2>2 DEF Attended, Leaving, Of, SamePlace
  <2> QED
    BY <2>3, <2>4, <2>5, <2>6, <2>7 DEF Attended
<1> QED
  BY <1>1, <1>2

LEMMA ThreadsStay ==
    ASSUME ServerTyped, Queues, Threads, NEW frames \in SUBSET Up, TrafficStep(frames)
    PROVE  Threads'
<1>0. /\ conn \in [Conns -> Peer] /\ owed \in [Conns -> Seq(Carried)] /\ inbox \in Seq(Entry)
      /\ \A c \in Conns : Len(conn[c].outbox) <= OutboxFrames
      /\ \A c \in Conns : Attended(c)
  BY DEF ServerTyped, Queues, Threads
\* A step of one connection.
<1>1. ASSUME NEW c \in Conns, NEW r \in Peer, Goes(c, r),
             \A d \in Conns : d # c => known'[d] = known[d] /\ owed'[d] = owed[d],
             \/ UNCHANGED inbox
             \/ \E entry \in Entry : entry.conn = c /\ inbox' = Append(inbox, entry),
             Attended(c)'
      PROVE  Threads'
  <2>1. \A d \in Conns : d # c => conn'[d] = conn[d]
    BY <1>0, <1>1, GoesIs
  <2>2. ASSUME NEW d \in Conns, d # c
        PROVE  Attended(d)'
    <3>1. SamePlace(conn'[d], conn[d]) /\ conn'[d].outbox = conn[d].outbox
      BY <2>1, <2>2 DEF SamePlace
    <3>2. \/ UNCHANGED inbox
          \/ \E entry \in Entry : entry.conn # d /\ inbox' = Append(inbox, entry)
      BY <1>1, <2>2
    <3> QED
      BY <1>0, <1>1, <2>2, <3>1, <3>2, AttendedStays
  <2> QED
    BY <1>1, <2>2 DEF Threads
\* A step that moves no thread and no item.
<1>2. ASSUME NEW c \in Conns, NEW r \in Peer, Goes(c, r), SamePlace(r, conn[c]),
             UNCHANGED <<inbox, known>>,
             conn[c].writer \in {"none", "backlog"} => r.outbox = conn[c].outbox /\ owed'[c] = owed[c],
             \A d \in Conns : d # c => owed'[d] = owed[d]
      PROVE  Threads'
  <2>1. conn'[c] = r
    BY <1>0, <1>2, GoesIs
  <2>2. Attended(c)'
    BY <1>0, <1>2, <2>1, AttendedStays
  <2> QED
    BY <1>1, <1>2, <2>2
<1>3. CASE UNCHANGED traffic
  BY <1>0, <1>3
     DEF traffic, Threads, Attended, Unmet, ReaderLast, Announced, Heralded, Leaving, Of, Registered
<1>4. CASE Ends /\ UNCHANGED <<acted, spent>>
  <2>1. inbox' = <<>> /\ DOMAIN inbox' = {}
    BY <1>4, EndsDoes
  <2>2. ASSUME NEW c \in Conns
        PROVE  Attended(c)'
    <3>1. known'[c] = "no" /\ owed'[c] = <<>>
      BY <1>4, EndsDoes
    <3>2. CASE conn[c].who = "nobody"
      <4>1. conn'[c] = conn[c] /\ conn[c].writer = "none"
        BY <1>0, <1>4, <3>2, EndsDoes DEF Attended, Unmet
      <4> QED
        BY <1>0, <2>1, <3>1, <4>1
           DEF Attended, Unmet, ReaderLast, Announced, Heralded, Leaving, Registered
    <3>3. CASE conn[c].who # "nobody"
      <4>1. conn'[c].writer = "done" /\ conn'[c].who # "nobody"
        BY <1>4, <3>3, EndsDoes
      <4> QED
        BY <2>1, <3>1, <4>1
           DEF Attended, Unmet, ReaderLast, Announced, Heralded, Leaving, Registered
    <3> QED
      BY <3>2, <3>3
  <2> QED
    BY <2>2 DEF Threads
<1>5. CASE Accept
  <2>1. PICK c \in Conns, r \in Peer :
          /\ conn[c].writer = "backlog" /\ Goes(c, r) /\ r.who = conn[c].who
          /\ \/ r.reader = "done" /\ r.writer = "done" /\ UNCHANGED inbox
             \/ r.reader = "run" /\ r.writer = "run" /\ Put(Item("connect", c, "none"))
    BY <1>5, AcceptDoes
  <2>2. UNCHANGED <<known, owed>>
    BY <1>5, AcceptDoes
  <2>3. conn'[c] = r
    BY <1>0, <2>1, GoesIs
  <2>4. known[c] = "no" /\ \A i \in DOMAIN inbox : inbox[i].conn # c
    BY <1>0, <2>1 DEF Attended, Unmet
  <2>5. r.who # "nobody"
    BY <1>0, <2>1 DEF Attended, Unmet
  <2>6. CASE r.writer = "done" /\ UNCHANGED inbox
    <3>1. Attended(c)'
      BY <2>2, <2>3, <2>4, <2>5, <2>6
         DEF Attended, Unmet, ReaderLast, Announced, Heralded, Leaving, Of, Registered
    <3> QED
      BY <1>1, <2>1, <2>2, <2>6, <3>1
  <2>7. CASE r.reader = "run" /\ r.writer = "run" /\ Put(Item("connect", c, "none"))
    <3>1. PICK entry \in Entry : /\ entry.conn = c /\ entry.kind = "connect"
                                 /\ inbox' = Append(inbox, entry)
      BY <1>0, <2>7, ItemIs, PutIs
    <3>2. PICK n \in DOMAIN inbox' :
            /\ inbox'[n] = entry
            /\ \A i \in DOMAIN inbox' : (i \in DOMAIN inbox /\ inbox'[i] = inbox[i]) \/ i = n
            /\ \A i \in DOMAIN inbox : i \in DOMAIN inbox' /\ inbox'[i] = inbox[i] /\ i < n
      BY <1>0, <3>1, ItemPut
    <3>3. \A i \in DOMAIN inbox' : inbox'[i].conn = c => inbox'[i].kind = "connect"
      BY <2>4, <3>1, <3>2
    <3>4. Attended(c)'
      BY <2>2, <2>3, <2>5, <2>7, <3>1, <3>2, <3>3
         DEF Attended, Unmet, ReaderLast, Announced, Heralded, Leaving, Of, Registered
    <3> QED
      BY <1>1, <2>1, <2>2, <3>1, <3>4
  <2> QED
    BY <2>1, <2>6, <2>7
<1>6. CASE Read
  <2>1. PICK c \in Conns, r \in Peer :
          /\ conn[c].reader = "run" /\ Goes(c, r)
          /\ r.who = conn[c].who /\ r.writer = conn[c].writer
          /\ Dismissed(conn[c]) => Dismissed(r)
          /\ \/ /\ r.reader = "run" /\ conn[c].up # <<>>
                /\ Put(Item("frame", c, Head(conn[c].up)))
             \/ r.reader = "ending" /\ UNCHANGED inbox
    BY <1>0, <1>6, ReadDoes
  <2>2. UNCHANGED <<known, owed>>
    BY <1>0, <1>6, ReadDoes
  <2>3. conn'[c] = r
    BY <1>0, <2>1, GoesIs
  <2>4. conn[c].writer \notin {"none", "backlog"} /\ conn[c].who # "nobody"
    BY <1>0, <2>1 DEF Attended, Unmet
  <2>5. CASE r.reader = "ending" /\ UNCHANGED inbox
    <3>1. Attended(c)'
      BY <1>0, <2>1, <2>2, <2>3, <2>4, <2>5
         DEF Attended, Unmet, ReaderLast, Announced, Heralded, Leaving, Of, Registered
    <3> QED
      BY <1>1, <2>1, <2>2, <2>5, <3>1
  <2>6. CASE r.reader = "run" /\ conn[c].up # <<>> /\ Put(Item("frame", c, Head(conn[c].up)))
    <3>0. Head(conn[c].up) \in Up
      <4>1. conn[c].up \in Seq(Up)
        BY <1>0 DEF Peer
      <4> QED
        BY <2>6, <4>1
    <3>1. PICK entry \in Entry : /\ entry.conn = c /\ entry.kind = "frame"
                                 /\ inbox' = Append(inbox, entry)
      BY <1>0, <2>6, <3>0, ItemIs, PutIs
    <3>2. PICK n \in DOMAIN inbox' :
            /\ inbox'[n] = entry
            /\ \A i \in DOMAIN inbox' : (i \in DOMAIN inbox /\ inbox'[i] = inbox[i]) \/ i = n
            /\ \A i \in DOMAIN inbox : i \in DOMAIN inbox' /\ inbox'[i] = inbox[i] /\ i < n
      BY <1>0, <3>1, ItemPut
    <3>3. Unmet(c)' /\ Leaving(c)'
      BY <2>1, <2>3, <2>4, <2>6 DEF Unmet, Leaving
    <3>4. ReaderLast(c)'
      <4>1. ASSUME NEW j \in DOMAIN inbox', Registered(c), Of(j, c, "disconnect")'
            PROVE  FALSE
        <5>1. j \in DOMAIN inbox /\ Of(j, c, "disconnect")
          BY <3>1, <3>2, <4>1 DEF Of
        <5> QED
          BY <1>0, <2>1, <4>1, <5>1 DEF Attended, ReaderLast
      <4> QED
        BY <2>1, <2>3, <4>1 DEF ReaderLast, Registered
    <3>5. ASSUME Registered(c), ~Dismissed(conn[c]), known[c] = "no"
          PROVE  \E j \in DOMAIN inbox : Of(j, c, "connect")
      BY <1>0, <2>1, <3>5 DEF Attended, Announced
    <3>6. \A j \in DOMAIN inbox : \A kind : Of(j, c, kind) => Of(j, c, kind)'
      BY <3>2 DEF Of
    <3>7. Announced(c)'
      BY <2>1, <2>2, <2>3, <3>2, <3>5, <3>6 DEF Announced, Registered
    <3>8. Heralded(c)'
      <4>1. SUFFICES ASSUME NEW i \in DOMAIN inbox', Of(i, c, "frame")', Registered(c),
                            ~Dismissed(conn[c]), known[c] = "no"
                     PROVE  \E j \in DOMAIN inbox' : Of(j, c, "connect")' /\ j < i
        BY <2>1, <2>2, <2>3 DEF Heralded, Registered
      <4>2. CASE i = n
        BY <3>2, <3>5, <3>6, <4>1, <4>2
      <4>3. CASE i \in DOMAIN inbox /\ Of(i, c, "frame")
        <5>1. PICK j \in DOMAIN inbox : Of(j, c, "connect") /\ j < i
          BY <1>0, <4>1, <4>3 DEF Attended, Heralded
        <5> QED
          BY <3>2, <3>6, <5>1
      <4> QED
        BY <3>2, <4>1, <4>2, <4>3 DEF Of
    <3>9. Attended(c)'
      BY <3>3, <3>4, <3>7, <3>8 DEF Attended
    <3> QED
      BY <1>1, <2>1, <2>2, <3>1, <3>9
  <2> QED
    BY <2>1, <2>5, <2>6
<1>7. CASE ReaderEnds
  <2>1. PICK c \in Conns, r \in Peer :
          /\ conn[c].reader = "ending" /\ Goes(c, r)
          /\ r.who = conn[c].who /\ r.writer = conn[c].writer /\ r.reader = "done"
          /\ Dismissed(conn[c]) => Dismissed(r)
          /\ Put(Item("disconnect", c, "none"))
    BY <1>0, <1>7, ReaderEndsDoes
  <2>2. UNCHANGED <<known, owed>>
    BY <1>0, <1>7, ReaderEndsDoes
  <2>3. conn'[c] = r
    BY <1>0, <2>1, GoesIs
  <2>4. conn[c].writer \notin {"none", "backlog"} /\ conn[c].who # "nobody"
    BY <1>0, <2>1 DEF Attended, Unmet
  <2>5. PICK entry \in Entry : /\ entry.conn = c /\ entry.kind = "disconnect"
                               /\ inbox' = Append(inbox, entry)
    BY <1>0, <2>1, ItemIs, PutIs
  <2>6. PICK n \in DOMAIN inbox' :
          /\ inbox'[n] = entry
          /\ \A i \in DOMAIN inbox' : (i \in DOMAIN inbox /\ inbox'[i] = inbox[i]) \/ i = n
          /\ \A i \in DOMAIN inbox : i \in DOMAIN inbox' /\ inbox'[i] = inbox[i] /\ i < n
    BY <1>0, <2>5, ItemPut
  <2>7. Unmet(c)' /\ Announced(c)'
    BY <2>1, <2>3, <2>4 DEF Unmet, Announced
  <2>8. ReaderLast(c)'
    <3>1. ASSUME NEW j \in DOMAIN inbox', Registered(c), Of(j, c, "disconnect")'
          PROVE  j = n
      <4>1. j \in DOMAIN inbox => Of(j, c, "disconnect")
        BY <2>6, <3>1 DEF Of
      <4>2. ~(j \in DOMAIN inbox /\ Of(j, c, "disconnect"))
        BY <1>0, <2>1, <3>1 DEF Attended, ReaderLast
      <4> QED
        BY <2>6, <3>1, <4>1, <4>2
    <3>2. \A i \in DOMAIN inbox' : Of(i, c, "frame")' => i < n
      BY <2>5, <2>6 DEF Of
    <3> QED
      BY <2>1, <2>3, <3>1, <3>2 DEF ReaderLast, Registered
  <2>9. Heralded(c)'
    <3>1. SUFFICES ASSUME NEW i \in DOMAIN inbox', Of(i, c, "frame")', Registered(c),
                          ~Dismissed(conn[c]), known[c] = "no"
                   PROVE  \E j \in DOMAIN inbox' : Of(j, c, "connect")' /\ j < i
      BY <2>1, <2>2, <2>3 DEF Heralded, Registered
    <3>2. i \in DOMAIN inbox /\ Of(i, c, "frame")
      BY <2>5, <2>6, <3>1 DEF Of
    <3>3. PICK j \in DOMAIN inbox : Of(j, c, "connect") /\ j < i
      BY <1>0, <3>1, <3>2 DEF Attended, Heralded
    <3> QED
      BY <2>6, <3>3 DEF Of
  <2>10. Leaving(c)'
    BY <2>5, <2>6 DEF Leaving, Of
  <2>11. Attended(c)'
    BY <2>7, <2>8, <2>9, <2>10 DEF Attended
  <2> QED
    BY <1>1, <2>1, <2>2, <2>5, <2>11
<1>8. CASE Write
  <2>1. PICK c \in Conns, r \in Peer :
          /\ conn[c].writer = "run" /\ Goes(c, r)
          /\ r.who = conn[c].who /\ r.reader = conn[c].reader
          /\ r.writer = "ending" \/ (r.writer = "run" /\ (Dismissed(conn[c]) => Dismissed(r)))
          /\ \A d \in Conns : d # c => owed'[d] = owed[d]
    BY <1>0, <1>8, WriteDoes
  <2>2. UNCHANGED <<inbox, known>>
    BY <1>8, WriteDoes
  <2>3. conn'[c] = r
    BY <1>0, <2>1, GoesIs
  <2>4. CASE r.writer = "ending"
    <3>1. Unmet(c)'
      BY <1>0, <2>1, <2>3, <2>4 DEF Attended, Unmet
    <3>2. ReaderLast(c)' /\ Announced(c)' /\ Heralded(c)' /\ Leaving(c)'
      BY <2>3, <2>4 DEF ReaderLast, Announced, Heralded, Leaving, Registered
    <3>3. Attended(c)'
      BY <3>1, <3>2 DEF Attended
    <3> QED
      BY <1>1, <2>1, <2>2, <3>3
  <2>5. CASE r.writer = "run" /\ (Dismissed(conn[c]) => Dismissed(r))
    <3>1. SamePlace(r, conn[c])
      BY <2>1, <2>5 DEF SamePlace
    <3> QED
      BY <1>2, <2>1, <2>2, <2>5, <3>1
  <2> QED
    BY <2>1, <2>4, <2>5
<1>14. CASE WriterEnds
  <2>1. PICK c \in Conns, r \in Peer :
          /\ conn[c].writer = "ending" /\ Goes(c, r)
          /\ r.who = conn[c].who /\ r.reader = conn[c].reader /\ r.writer = "done"
          /\ Put(Item("disconnect", c, "none"))
    BY <1>14, WriterEndsDoes
  <2>2. UNCHANGED <<known, owed>>
    BY <1>14, WriterEndsDoes
  <2>3. conn'[c] = r
    BY <1>0, <2>1, GoesIs
  <2>4. PICK entry \in Entry : /\ entry.conn = c /\ entry.kind = "disconnect"
                               /\ inbox' = Append(inbox, entry)
    BY <1>0, <2>1, ItemIs, PutIs
  <2>5. PICK n \in DOMAIN inbox' :
          /\ inbox'[n] = entry
          /\ \A i \in DOMAIN inbox' : (i \in DOMAIN inbox /\ inbox'[i] = inbox[i]) \/ i = n
          /\ \A i \in DOMAIN inbox : i \in DOMAIN inbox' /\ inbox'[i] = inbox[i] /\ i < n
    BY <1>0, <2>4, ItemPut
  <2>6. Unmet(c)'
    BY <1>0, <2>1, <2>3 DEF Attended, Unmet
  <2>7. ReaderLast(c)' /\ Announced(c)' /\ Heralded(c)'
    BY <2>1, <2>3 DEF ReaderLast, Announced, Heralded, Registered
  <2>8. Leaving(c)'
    BY <2>4, <2>5 DEF Leaving, Of
  <2>9. Attended(c)'
    BY <2>6, <2>7, <2>8 DEF Attended
  <2> QED
    BY <1>1, <2>1, <2>2, <2>4, <2>9
<1>10. CASE Publish
  <2>1. UNCHANGED <<inbox, known>>
    BY <1>0, <1>10, PublishDoes
  <2>2. PICK c \in Conns : Delivers(c)
    BY <1>0, <1>10, PublishDoes
  <2>3. CASE UNCHANGED <<conn, owed>>
    BY <1>0, <2>1, <2>3
       DEF Threads, Attended, Unmet, ReaderLast, Announced, Heralded, Leaving, Of, Registered
  <2>4. ASSUME NEW r \in Peer, Registered(c), Goes(c, r), SamePlace(r, conn[c]),
               \A d \in Conns : d # c => owed'[d] = owed[d]
        PROVE  Threads'
    BY <1>2, <2>1, <2>4 DEF Registered
  <2> QED
    BY <1>0, <2>2, <2>3, <2>4 DEF Delivers
<1>11. ASSUME NEW c \in Conns, Wired(c, frames)
       PROVE  Threads'
  <2>1. PICK r \in Peer : Goes(c, r) /\ SamePlace(r, conn[c]) /\ r.outbox = conn[c].outbox
    BY <1>11 DEF Wired
  <2>2. UNCHANGED <<inbox, known, owed>>
    BY <1>11 DEF Wired
  <2> QED
    BY <1>2, <2>1, <2>2
<1>12. ASSUME NEW c \in Conns, NEW who \in {"client", "stranger"}, Connect(c, who)
       PROVE  Threads'
  <2>1. PICK r \in Peer : /\ Goes(c, r) /\ r.who = who /\ r.reader = "none" /\ r.writer = "backlog"
                          /\ r.outbox = <<>>
    BY <1>12, ConnectDoes
  <2>2. UNCHANGED <<inbox, known, owed>> /\ conn[c] = Free
    BY <1>12, ConnectDoes
  <2>3. conn'[c] = r
    BY <1>0, <2>1, GoesIs
  <2>4. conn[c].writer = "none"
    BY <2>2 DEF Free
  <2>5. Attended(c)'
    BY <1>0, <2>1, <2>2, <2>3, <2>4
       DEF Attended, Unmet, ReaderLast, Announced, Heralded, Leaving, Registered
  <2> QED
    BY <1>1, <2>1, <2>2, <2>5
<1>13. ASSUME NEW c \in Conns, Reuses(c)
       PROVE  Threads'
  <2>1. Free \in Peer /\ Free.who = "nobody" /\ Free.reader = "none" /\ Free.writer = "none"
        /\ Free.outbox = <<>>
    BY DEF Free, Peer
  <2>2. /\ Goes(c, Free) /\ UNCHANGED <<inbox, known>>
        /\ known[c] = "no" /\ \A i \in DOMAIN inbox : inbox[i].conn # c
        /\ owed'[c] = <<>> /\ \A d \in Conns : d # c => owed'[d] = owed[d]
    BY <1>0, <1>13 DEF Reuses
  <2>3. conn'[c] = Free
    BY <1>0, <2>1, <2>2, GoesIs
  <2>4. Attended(c)'
    BY <2>1, <2>2, <2>3
       DEF Attended, Unmet, ReaderLast, Announced, Heralded, Leaving, Registered
  <2> QED
    BY <1>1, <2>1, <2>2, <2>4
\* The core takes the first item.
<1>9. CASE Handle
  <2>0. PICK item : item = Head(inbox)
    OBVIOUS
  <2>1. /\ inbox # <<>> /\ inbox' = Tail(inbox) /\ item \in Entry /\ item = inbox[1]
        /\ \A d \in Conns : d # item.conn => known'[d] = known[d]
        /\ item.kind = "connect" => known'[item.conn] = "new"
        /\ item.kind = "disconnect" => known'[item.conn] = "no"
        /\ item.kind = "frame" /\ known[item.conn] = "no" => known'[item.conn] = "no"
        /\ item.kind = "frame" /\ known[item.conn] # "no" /\ known'[item.conn] = "no" /\ Registered(item.conn) =>
             Dismissed(conn'[item.conn])
        /\ Delivers(item.conn)
    BY <1>0, <1>9, <2>0, HandleDoes
  <2>2. item.conn \in Conns /\ item.kind \in {"connect", "frame", "disconnect"}
    BY <2>1 DEF Entry
  <2>3. /\ \A i \in DOMAIN inbox' : /\ i \in Nat \ {0} /\ i + 1 \in DOMAIN inbox
                                    /\ inbox'[i] = inbox[i + 1]
        /\ \A j \in DOMAIN inbox : /\ j \in Nat \ {0}
                                   /\ j # 1 => j - 1 \in DOMAIN inbox' /\ inbox'[j - 1] = inbox[j]
        /\ 1 \in DOMAIN inbox
    BY <1>0, <2>1, TailAt
  <2>4. ASSUME NEW d \in Conns
        PROVE  /\ SamePlace(conn'[d], conn[d])
               /\ conn[d].writer \in {"none", "backlog"} =>
                    conn'[d].outbox = conn[d].outbox /\ owed'[d] = owed[d]
    <3>1. CASE UNCHANGED <<conn, owed>>
      BY <3>1 DEF SamePlace
    <3>2. ASSUME NEW r \in Peer, Registered(item.conn), Goes(item.conn, r),
                 SamePlace(r, conn[item.conn]),
                 \A e \in Conns : e # item.conn => owed'[e] = owed[e]
          PROVE  /\ SamePlace(conn'[d], conn[d])
                 /\ conn[d].writer \in {"none", "backlog"} =>
                      conn'[d].outbox = conn[d].outbox /\ owed'[d] = owed[d]
      <4>1. conn'[item.conn] = r /\ \A e \in Conns : e # item.conn => conn'[e] = conn[e]
        BY <1>0, <2>2, <3>2, GoesIs
      <4> QED
        BY <3>2, <4>1 DEF Registered, SamePlace
    <3> QED
      BY <1>0, <2>1, <2>2, <3>1, <3>2 DEF Delivers
  <2>5. ASSUME NEW d \in Conns
        PROVE  Attended(d)'
    <3>0. Attended(d) /\ SamePlace(conn'[d], conn[d])
      BY <1>0, <2>4
    <3>1. Unmet(d)'
      <4>1. conn[d].writer \in {"none", "backlog"} => item.conn # d
        BY <2>1, <2>3, <3>0 DEF Attended, Unmet
      <4>2. conn[d].writer \in {"none", "backlog"} => \A i \in DOMAIN inbox' : inbox'[i].conn # d
        BY <2>3, <3>0 DEF Attended, Unmet
      <4> QED
        BY <2>1, <2>4, <3>0, <4>1, <4>2 DEF Attended, Unmet, SamePlace
    <3>2. ReaderLast(d)'
      <4>1. ASSUME NEW j \in DOMAIN inbox', Registered(d), Of(j, d, "disconnect")'
            PROVE  conn[d].reader = "done" /\ \A i \in DOMAIN inbox' : Of(i, d, "frame")' => i < j
        <5>1. j + 1 \in DOMAIN inbox /\ Of(j + 1, d, "disconnect") /\ j \in Nat
          BY <2>3, <4>1 DEF Of
        <5>2. conn[d].reader = "done" /\ \A i \in DOMAIN inbox : Of(i, d, "frame") => i < j + 1
          BY <3>0, <4>1, <5>1 DEF Attended, ReaderLast
        <5>3. ASSUME NEW i \in DOMAIN inbox', Of(i, d, "frame")'
              PROVE  i < j
          <6>1. i + 1 \in DOMAIN inbox /\ Of(i + 1, d, "frame") /\ i \in Nat
            BY <2>3, <5>3 DEF Of
          <6>2. i + 1 < j + 1
            BY <5>2, <6>1
          <6> QED
            BY <5>1, <6>1, <6>2
        <5> QED
          BY <5>2, <5>3
      <4> QED
        BY <3>0, <4>1 DEF ReaderLast, Registered, SamePlace
    \* If the item is the one that was counted on, the core knows the connection now; if it is a
    \* disconnect, the reader has ended; if it is refused, nothing more is said on it.
    <3>3. Announced(d)'
      <4>1. SUFFICES ASSUME Registered(d), ~Dismissed(conn'[d]),
                            conn[d].reader \in {"run", "ending"}, known'[d] = "no"
                     PROVE  \E i \in DOMAIN inbox' : Of(i, d, "connect")'
        BY <3>0 DEF Announced, Registered, SamePlace
      <4>2. item.conn = d => item.kind # "disconnect"
        BY <2>1, <2>3, <3>0, <4>1 DEF Attended, ReaderLast, Of
      <4>3. known[d] = "no"
        BY <2>1, <2>2, <4>1, <4>2
      <4>4. PICK i \in DOMAIN inbox : Of(i, d, "connect")
        BY <3>0, <4>1, <4>3 DEF Attended, Announced, SamePlace
      <4>5. i # 1
        BY <2>1, <4>1, <4>4 DEF Of
      <4> QED
        BY <2>3, <4>4, <4>5 DEF Of
    <3>4. Heralded(d)'
      <4>1. SUFFICES ASSUME NEW i \in DOMAIN inbox', Of(i, d, "frame")', Registered(d),
                            ~Dismissed(conn'[d]), known'[d] = "no"
                     PROVE  \E j \in DOMAIN inbox' : Of(j, d, "connect")' /\ j < i
        BY <3>0 DEF Heralded, Registered, SamePlace
      <4>2. i + 1 \in DOMAIN inbox /\ Of(i + 1, d, "frame") /\ i \in Nat \ {0}
        BY <2>3, <4>1 DEF Of
      <4>3. item.conn = d => item.kind # "disconnect"
        <5>1. SUFFICES ASSUME item.conn = d, item.kind = "disconnect" PROVE FALSE
          OBVIOUS
        <5>2. i + 1 < 1
          BY <2>1, <2>3, <3>0, <4>1, <4>2, <5>1 DEF Attended, ReaderLast, Of
        <5> QED
          BY <4>2, <5>2
      <4>4. known[d] = "no"
        BY <2>1, <2>2, <4>1, <4>3
      <4>5. PICK j \in DOMAIN inbox : Of(j, d, "connect") /\ j < i + 1
        BY <3>0, <4>1, <4>2, <4>4 DEF Attended, Heralded, SamePlace
      <4>6. j # 1
        BY <2>1, <4>1, <4>5 DEF Of
      <4>7. j - 1 \in DOMAIN inbox' /\ Of(j - 1, d, "connect")' /\ j \in Nat
        BY <2>3, <4>5, <4>6 DEF Of
      <4>8. j - 1 < i
        BY <4>2, <4>5, <4>7
      <4> QED
        BY <4>7, <4>8
    <3>5. Leaving(d)'
      <4>1. SUFFICES ASSUME conn[d].reader = "done", conn[d].writer = "done",
                            known'[d] # "no" \/ \E i \in DOMAIN inbox' : Of(i, d, "connect")'
                     PROVE  \E j \in DOMAIN inbox' :
                              /\ Of(j, d, "disconnect")'
                              /\ \A i \in DOMAIN inbox' : Of(i, d, "connect")' => i < j
        BY <3>0 DEF Leaving, SamePlace
      <4>2. known[d] # "no" \/ \E i \in DOMAIN inbox : Of(i, d, "connect")
        <5>1. CASE known'[d] # "no"
          BY <2>1, <2>2, <2>3, <5>1 DEF Of
        <5>2. CASE \E i \in DOMAIN inbox' : Of(i, d, "connect")'
          BY <2>3, <5>2 DEF Of
        <5> QED
          BY <4>1, <5>1, <5>2
      <4>3. PICK j \in DOMAIN inbox : /\ Of(j, d, "disconnect")
                                      /\ \A i \in DOMAIN inbox : Of(i, d, "connect") => i < j
        BY <3>0, <4>1, <4>2 DEF Attended, Leaving
      <4>4. j # 1
        <5>1. SUFFICES ASSUME j = 1 PROVE FALSE
          OBVIOUS
        <5>2. known'[d] = "no"
          BY <2>1, <4>3, <5>1 DEF Of
        <5>3. PICK i \in DOMAIN inbox' : Of(i, d, "connect")'
          BY <4>1, <5>2
        <5>4. i + 1 \in DOMAIN inbox /\ Of(i + 1, d, "connect") /\ i \in Nat \ {0}
          BY <2>3, <5>3 DEF Of
        <5>5. i + 1 < 1
          BY <4>3, <5>1, <5>4
        <5> QED
          BY <5>4, <5>5
      <4>5. j - 1 \in DOMAIN inbox' /\ Of(j - 1, d, "disconnect")' /\ j \in Nat
        BY <2>3, <4>3, <4>4 DEF Of
      <4>6. ASSUME NEW i \in DOMAIN inbox', Of(i, d, "connect")'
            PROVE  i < j - 1
        <5>1. i + 1 \in DOMAIN inbox /\ Of(i + 1, d, "connect") /\ i \in Nat
          BY <2>3, <4>6 DEF Of
        <5>2. i + 1 < j
          BY <4>3, <5>1
        <5> QED
          BY <4>5, <5>1, <5>2
      <4> QED
        BY <4>5, <4>6
    <3> QED
      BY <3>1, <3>2, <3>3, <3>4, <3>5 DEF Attended
  <2> QED
    BY <2>5 DEF Threads
<1> QED
  BY <1>3, <1>4, <1>5, <1>6, <1>7, <1>8, <1>9, <1>10, <1>11, <1>12, <1>13, <1>14 DEF TrafficStep

-----------------------------------------------------------------------------
(* The slots.                                                              *)

LEMMA Fewer ==
    ASSUME NEW S, NEW T \in SUBSET S, NEW n \in Nat, AtMost(S, n)
    PROVE  AtMost(T, n)
<1>1. IsFiniteSet(T) /\ Cardinality(T) <= Cardinality(S)
  BY FS_Subset DEF AtMost
<1>2. Cardinality(T) \in Nat /\ Cardinality(S) \in Nat
  BY <1>1, FS_CardinalityType DEF AtMost
<1> QED
  BY <1>1, <1>2 DEF AtMost

LEMMA OneMore ==
    ASSUME NEW S, NEW x, NEW n \in Nat, AtMost(S, n), Cardinality(S) < n
    PROVE  AtMost(S \cup {x}, n)
<1>1. /\ IsFiniteSet(S \cup {x}) /\ Cardinality(S) \in Nat
      /\ Cardinality(S \cup {x}) \in {Cardinality(S), Cardinality(S) + 1}
  BY FS_AddElement, FS_CardinalityType DEF AtMost
<1> QED
  BY <1>1 DEF AtMost

LEMMA SlotsStay ==
    ASSUME ServerTyped, Queues, Threads, AtMost(Slots, MaxConnections),
           NEW frames \in SUBSET Up, TrafficStep(frames)
    PROVE  AtMost(Slots', MaxConnections)
<1>0. conn \in [Conns -> Peer] /\ MaxConnections \in Nat
      /\ \A c \in Conns : Len(conn[c].outbox) <= OutboxFrames
  BY ServerAssumption DEF ServerTyped, Queues
<1>1. ASSUME \A c \in Conns : conn'[c].writer = "run" => conn[c].writer = "run"
      PROVE  AtMost(Slots', MaxConnections)
  <2>1. Slots' \in SUBSET Slots
    BY <1>1 DEF Slots, Registered
  <2> QED
    BY <1>0, <2>1, Fewer
<1>2. ASSUME NEW c \in Conns, NEW r \in Peer, Goes(c, r), r.writer # "run" \/ conn[c].writer = "run"
      PROVE  AtMost(Slots', MaxConnections)
  BY <1>0, <1>1, <1>2, GoesIs
<1>3. CASE UNCHANGED traffic
  BY <1>1, <1>3 DEF traffic
<1>4. CASE Ends /\ UNCHANGED <<acted, spent>>
  <2>1. ASSUME NEW c \in Conns, conn'[c].writer = "run"
        PROVE  conn[c].writer = "run"
    <3>1. CASE conn[c].who = "nobody"
      BY <1>4, <2>1, <3>1, EndsDoes
    <3>2. CASE conn[c].who # "nobody"
      BY <1>4, <2>1, <3>2, EndsDoes
    <3> QED
      BY <3>1, <3>2
  <2> QED
    BY <1>1, <2>1
<1>5. CASE Accept
  <2>1. PICK c \in Conns, r \in Peer :
          Goes(c, r) /\ (r.writer = "done" \/ ~NoSlot)
    BY <1>5, AcceptDoes
  <2>2. CASE r.writer = "done"
    BY <1>2, <2>1, <2>2
  <2>3. CASE ~NoSlot
    <3>1. Cardinality(Slots) < MaxConnections
      <4>1. Cardinality(Slots) \in Nat
        BY FS_CardinalityType DEF AtMost
      <4>2. ~(Cardinality(Slots) >= MaxConnections)
        BY <2>3 DEF NoSlot, Slots
      <4> QED
        BY <1>0, <4>1, <4>2
    <3>2. AtMost(Slots \cup {c}, MaxConnections)
      BY <1>0, <3>1, OneMore
    <3>3. Slots' \in SUBSET (Slots \cup {c})
      BY <1>0, <2>1, GoesIs DEF Slots, Registered
    <3> QED
      BY <1>0, <3>2, <3>3, Fewer
  <2> QED
    BY <2>1, <2>2, <2>3
<1>6. CASE Read
  BY <1>0, <1>2, <1>6, ReadDoes
<1>7. CASE ReaderEnds
  BY <1>0, <1>2, <1>7, ReaderEndsDoes
<1>8. CASE Write
  BY <1>2, <1>8, WriteDoes
<1>9. ASSUME NEW c \in Conns, Delivers(c)
      PROVE  AtMost(Slots', MaxConnections)
  BY <1>1, <1>2, <1>9 DEF Delivers, Registered
<1>10. CASE Handle
  <2>1. PICK item : item = Head(inbox)
    OBVIOUS
  <2>2. item \in Entry /\ Delivers(item.conn)
    BY <1>0, <1>10, <2>1, HandleDoes
  <2>3. item.conn \in Conns
    BY <2>2 DEF Entry
  <2> QED
    BY <1>9, <2>2, <2>3
<1>11. CASE Publish
  BY <1>0, <1>9, <1>11, PublishDoes
<1>12. ASSUME NEW c \in Conns, Wired(c, frames)
       PROVE  AtMost(Slots', MaxConnections)
  BY <1>2, <1>12 DEF Wired, SamePlace
<1>13. ASSUME NEW c \in Conns, NEW who \in {"client", "stranger"}, Connect(c, who)
       PROVE  AtMost(Slots', MaxConnections)
  <2>1. PICK r \in Peer : Goes(c, r) /\ r.writer = "backlog"
    BY <1>13, ConnectDoes
  <2> QED
    BY <1>2, <2>1
<1>14. ASSUME NEW c \in Conns, Reuses(c)
       PROVE  AtMost(Slots', MaxConnections)
  <2>1. Free \in Peer /\ Free.writer = "none"
    BY DEF Free, Peer
  <2> QED
    BY <1>2, <1>14, <2>1 DEF Reuses
<1>15. CASE WriterEnds
  BY <1>2, <1>15, WriterEndsDoes
<1> QED
  BY <1>3, <1>4, <1>5, <1>6, <1>7, <1>8, <1>10, <1>11, <1>12, <1>13, <1>14, <1>15 DEF TrafficStep

-----------------------------------------------------------------------------
(* The lock and the socket's file.                                         *)

LEMMA OwnersStay ==
    ASSUME Typed, Owners, Next
    PROVE  /\ life' \in [Bridges -> {"none", "starting", "locked", "serving", "stopping", "unlinked", "gone"}]
           /\ lock' \in Bridges \cup {0} /\ path' \in Bridges \cup {0}
           /\ Owners'
<1> USE Apart DEF Typed, ServerTyped
<1>1. CASE UNCHANGED process
  BY <1>1 DEF process, Owners
<1>2. CASE Launch
  BY <1>2 DEF Launch, Becomes, Owners, Locked
<1>3. CASE Acquire
  BY <1>3 DEF Acquire, Becomes, Owners, Locked
<1>4. CASE Bind
  BY <1>4 DEF Bind, Becomes, Owners, Locked
<1>5. CASE Stop
  BY <1>5 DEF Stop, Becomes, Owners, Locked
<1>6. CASE Kill
  <2>1. PICK b \in Bridges : /\ life' = [life EXCEPT ![b] = "gone"]
                             /\ lock' = IF lock = b THEN 0 ELSE lock
                             /\ UNCHANGED path
    BY <1>6 DEF Kill, Becomes
  <2> QED
    BY <2>1 DEF Owners, Locked
<1>7. CASE Unlink
  BY <1>7 DEF Unlink, CloseFirst, Becomes, Owners, Locked
<1>8. CASE Release
  BY <1>8 DEF Release, Becomes, Owners, Locked
<1>9. Next => \/ UNCHANGED process
              \/ Launch \/ Acquire \/ Bind \/ Stop \/ Kill \/ Unlink \/ Release
  BY DEF Next, ServerProcess, ServerThreads, Accept, Read, ReaderEnds, Write, WriterEnds, Handle, Publish,
         Dial, Connect, Greet, Receive, Disconnects, Begin, Send, TimeOut, StrangerConnects,
         StrangerSends, StrangerLeaves, Reuse, serverVars, process
<1> QED
  BY <1>1, <1>2, <1>3, <1>4, <1>5, <1>6, <1>7, <1>8, <1>9

-----------------------------------------------------------------------------
(* Where a call can be.                                                    *)

LEMMA ElementsOf ==
    ASSUME ServerTyped, NEW c \in Conns
    PROVE  /\ conn[c] \in Peer /\ conn[c].up \in Seq(Up)
           /\ conn[c].outbox \in Seq(Sent \cup {Close}) /\ conn[c].down \in Seq(Sent)
<1>1. conn[c] \in Peer
  BY DEF ServerTyped
<1> QED
  BY <1>1 DEF Peer

\* What is delivered moves no frame that comes up, and puts results of calls acted on.
LEMMA ResultsByDelivery ==
    ASSUME ServerTyped, Results, acted \subseteq acted', NEW c \in Conns, Delivers(c)
    PROVE  Results' /\ \A d \in Conns : conn'[d].up = conn[d].up
<1>0. conn \in [Conns -> Peer]
  BY DEF ServerTyped
<1>1. CASE UNCHANGED <<conn, owed>>
  BY <1>1 DEF Results
<1>2. ASSUME NEW r \in Peer, Goes(c, r), r.up = conn[c].up, r.down = conn[c].down,
             NEW more, Elements(r.outbox) \subseteq Elements(conn[c].outbox) \cup more,
             more \cap Calls \subseteq acted'
      PROVE  Results' /\ \A d \in Conns : conn'[d].up = conn[d].up
  BY <1>0, <1>2, GoesIs DEF Results
<1>3. {"error", Close} \cap Calls \subseteq acted'
  BY Apart
<1>4. ASSUME NEW frame \in Carried, frame \in Calls => frame \in acted'
      PROVE  {frame} \cap Calls \subseteq acted'
  BY <1>4
<1>5. ASSUME NEW r \in Peer, Goes(c, r), r.up = conn[c].up, r.down = conn[c].down,
             \/ PutsEnd(r, conn[c])
             \/ \E frame \in Carried :
                  /\ Elements(r.outbox) \subseteq Elements(conn[c].outbox) \cup {frame}
                  /\ frame \in Calls => frame \in acted'
      PROVE  Results' /\ \A d \in Conns : conn'[d].up = conn[d].up
  <2>1. CASE PutsEnd(r, conn[c])
    BY <1>2, <1>3, <1>5, <2>1 DEF PutsEnd
  <2>2. CASE \E frame \in Carried :
               /\ Elements(r.outbox) \subseteq Elements(conn[c].outbox) \cup {frame}
               /\ frame \in Calls => frame \in acted'
    BY <1>2, <1>4, <1>5, <2>2
  <2> QED
    BY <1>5, <2>1, <2>2
<1> QED
  BY <1>1, <1>5 DEF Delivers

\* A call that nobody writes is not on its way after a step when it was not before it.
LEMMA CallsTravel ==
    ASSUME ServerTyped, Queues, Results, NEW frames \in SUBSET Up, TrafficStep(frames)
    PROVE  /\ Results' /\ acted \subseteq acted'
           /\ \A k \in Calls \ frames : NotUnderWay(k) => NotUnderWay(k)'
<1>0. /\ conn \in [Conns -> Peer] /\ inbox \in Seq(Entry)
      /\ \A c \in Conns : Len(conn[c].outbox) <= OutboxFrames
  BY DEF ServerTyped, Queues
\* A step of one connection that takes frames of its peer, and results to it, further.
<1>1. ASSUME NEW c \in Conns, NEW r \in Peer, Goes(c, r), UNCHANGED acted,
             Elements(r.up) \subseteq Elements(conn[c].up) \cup frames,
             Elements(r.outbox) \subseteq Elements(conn[c].outbox) \cup {"error", Close},
             Elements(r.down) \subseteq Elements(conn[c].down) \cup Elements(conn[c].outbox),
             \/ UNCHANGED inbox
             \/ \E entry \in Entry : /\ Elements(inbox') = Elements(inbox) \cup {entry}
                                     /\ entry.frame \in Elements(conn[c].up) \cup {"none"}
      PROVE  /\ Results' /\ acted \subseteq acted'
             /\ \A k \in Calls \ frames : NotUnderWay(k) => NotUnderWay(k)'
  <2>1. conn'[c] = r /\ \A d \in Conns : d # c => conn'[d] = conn[d]
    BY <1>0, <1>1, GoesIs
  <2>2. Results'
    <3>1. {"error", Close} \cap Calls = {}
      BY Apart
    <3> QED
      BY <1>1, <2>1, <3>1 DEF Results
  <2>3. ASSUME NEW k \in Calls \ frames, NotUnderWay(k)
        PROVE  NotUnderWay(k)'
    <3>1. \A d \in Conns : k \notin Elements(conn'[d].up)
      BY <1>1, <2>1, <2>3 DEF NotUnderWay
    <3>2. \A entry \in Elements(inbox') : entry.frame # k
      <4>1. k # "none"
        BY Apart DEF None
      <4>2. k \notin Elements(conn[c].up) /\ \A entry \in Elements(inbox) : entry.frame # k
        BY <2>3 DEF NotUnderWay
      <4> QED
        BY <1>1, <4>1, <4>2
    <3> QED
      BY <1>1, <2>3, <3>1, <3>2 DEF NotUnderWay
  <2> QED
    BY <1>1, <2>2, <2>3
<1>2. CASE UNCHANGED traffic
  BY <1>2 DEF traffic, Results, NotUnderWay
<1>3. CASE Ends /\ UNCHANGED <<acted, spent>>
  <2>1. Elements(<<>>) = {}
    BY DEF Elements
  <2>2. ASSUME NEW c \in Conns
        PROVE  /\ Elements(conn'[c].up) \subseteq Elements(conn[c].up)
               /\ Elements(conn'[c].outbox) \subseteq Elements(conn[c].outbox)
               /\ conn'[c].down = conn[c].down
    <3>1. CASE conn[c].who = "nobody"
      BY <1>3, <3>1, EndsDoes
    <3>2. CASE conn[c].who # "nobody"
      BY <1>3, <2>1, <3>2, EndsDoes
    <3> QED
      BY <3>1, <3>2
  <2>3. Elements(inbox') = {}
    BY <1>3, <2>1, EndsDoes
  <2> QED
    BY <1>3, <2>2, <2>3 DEF Results, NotUnderWay
<1>4. CASE Accept
  <2>1. PICK c \in Conns, r \in Peer :
          /\ Goes(c, r) /\ r.up = conn[c].up /\ r.outbox = conn[c].outbox /\ r.down = conn[c].down
          /\ UNCHANGED inbox \/ Put(Item("connect", c, "none"))
    BY <1>4, AcceptDoes
  <2>2. UNCHANGED acted
    BY <1>4, AcceptDoes
  <2>3. Put(Item("connect", c, "none")) =>
          \E entry \in Entry : Elements(inbox') = Elements(inbox) \cup {entry} /\ entry.frame = "none"
    BY <1>0, ItemIs, PutIs
  <2> QED
    BY <1>1, <2>1, <2>2, <2>3
<1>5. CASE Read
  <2>1. PICK c \in Conns, r \in Peer :
          /\ Goes(c, r) /\ r.down = conn[c].down
          /\ \/ /\ conn[c].up # <<>> /\ r.up = Tail(conn[c].up) /\ r.outbox = conn[c].outbox
                /\ Put(Item("frame", c, Head(conn[c].up)))
             \/ r.up = conn[c].up /\ PutsEnd(r, conn[c]) /\ UNCHANGED inbox
    BY <1>0, <1>5, ReadDoes
  <2>2. UNCHANGED acted
    BY <1>0, <1>5, ReadDoes
  <2>3. CASE r.up = conn[c].up /\ PutsEnd(r, conn[c]) /\ UNCHANGED inbox
    BY <1>1, <2>1, <2>2, <2>3 DEF PutsEnd
  <2>4. CASE /\ conn[c].up # <<>> /\ r.up = Tail(conn[c].up) /\ r.outbox = conn[c].outbox
             /\ Put(Item("frame", c, Head(conn[c].up)))
    <3>1. /\ Head(conn[c].up) \in Elements(conn[c].up) /\ Head(conn[c].up) \in Up
          /\ Elements(r.up) \subseteq Elements(conn[c].up)
      <4>1. conn[c].up \in Seq(Up)
        BY ElementsOf
      <4> QED
        BY <2>4, <4>1, ElementsMove
    <3>2. \E entry \in Entry : /\ Elements(inbox') = Elements(inbox) \cup {entry}
                               /\ entry.frame = Head(conn[c].up)
      BY <1>0, <2>4, <3>1, ItemIs, PutIs
    <3> QED
      BY <1>1, <2>1, <2>2, <2>4, <3>1, <3>2
  <2> QED
    BY <2>1, <2>3, <2>4
<1>6. CASE ReaderEnds
  <2>1. PICK c \in Conns, r \in Peer :
          /\ Goes(c, r) /\ r.down = conn[c].down /\ r.up = <<>> /\ PutsEnd(r, conn[c])
          /\ Put(Item("disconnect", c, "none"))
    BY <1>0, <1>6, ReaderEndsDoes
  <2>4. Elements(r.up) = {}
    BY <2>1 DEF Elements
  <2>2. UNCHANGED acted
    BY <1>0, <1>6, ReaderEndsDoes
  <2>3. \E entry \in Entry : Elements(inbox') = Elements(inbox) \cup {entry} /\ entry.frame = "none"
    BY <1>0, <2>1, ItemIs, PutIs
  <2> QED
    BY <1>1, <2>1, <2>2, <2>3, <2>4 DEF PutsEnd
<1>7. CASE Write
  <2>1. PICK c \in Conns, r \in Peer :
          /\ Goes(c, r) /\ r.up = conn[c].up
          /\ \/ r.down = conn[c].down /\ r.outbox = <<>>
             \/ /\ conn[c].outbox # <<>> /\ r.outbox = Tail(conn[c].outbox)
                /\ Head(conn[c].outbox) \in Sent
                /\ r.down = Append(conn[c].down, Head(conn[c].outbox))
    BY <1>7, WriteDoes
  <2>2. UNCHANGED <<inbox, acted>>
    BY <1>7, WriteDoes
  <2>3. CASE r.down = conn[c].down /\ r.outbox = <<>>
    <3>1. Elements(r.outbox) = {}
      BY <2>3 DEF Elements
    <3> QED
      BY <1>1, <2>1, <2>2, <2>3, <3>1
  <2>4. CASE /\ conn[c].outbox # <<>> /\ r.outbox = Tail(conn[c].outbox)
             /\ Head(conn[c].outbox) \in Sent
             /\ r.down = Append(conn[c].down, Head(conn[c].outbox))
    <3>1. /\ Elements(r.outbox) \subseteq Elements(conn[c].outbox)
          /\ Head(conn[c].outbox) \in Elements(conn[c].outbox)
      BY <2>4, ElementsOf, ElementsMove
    <3>2. Elements(r.down) = Elements(conn[c].down) \cup {Head(conn[c].outbox)}
      BY <2>4, ElementsOf, ElementsMove
    <3> QED
      BY <1>1, <2>1, <2>2, <2>4, <3>1, <3>2
  <2> QED
    BY <2>1, <2>3, <2>4
<1>8. CASE Handle
  <2>1. PICK item : item = Head(inbox)
    OBVIOUS
  <2>2. /\ inbox # <<>> /\ inbox' = Tail(inbox) /\ item \in Entry /\ Delivers(item.conn)
        /\ acted \subseteq acted' /\ acted' \subseteq acted \cup {item.frame}
    BY <1>0, <1>8, <2>1, HandleDoes
  <2>3. item.conn \in Conns
    BY <2>2 DEF Entry
  <2>4. Results' /\ \A d \in Conns : conn'[d].up = conn[d].up
    BY <2>2, <2>3, ResultsByDelivery
  <2>5. Elements(inbox') \subseteq Elements(inbox) /\ item \in Elements(inbox)
    BY <1>0, <2>1, <2>2, ElementsMove
  <2>6. ASSUME NEW k \in Calls \ frames, NotUnderWay(k)
        PROVE  NotUnderWay(k)'
    BY <2>2, <2>4, <2>5, <2>6 DEF NotUnderWay
  <2> QED
    BY <2>2, <2>4, <2>6
<1>9. CASE Publish
  <2>1. UNCHANGED <<inbox, acted>>
    BY <1>0, <1>9, PublishDoes
  <2>2. Results' /\ \A d \in Conns : conn'[d].up = conn[d].up
    BY <1>0, <1>9, <2>1, PublishDoes, ResultsByDelivery
  <2> QED
    BY <2>1, <2>2 DEF NotUnderWay
<1>10. ASSUME NEW c \in Conns, Wired(c, frames)
       PROVE  /\ Results' /\ acted \subseteq acted'
              /\ \A k \in Calls \ frames : NotUnderWay(k) => NotUnderWay(k)'
  <2>1. PICK r \in Peer : /\ Goes(c, r) /\ r.outbox = conn[c].outbox
                          /\ Elements(r.up) \subseteq Elements(conn[c].up) \cup frames
                          /\ Elements(r.down) \subseteq Elements(conn[c].down)
    BY <1>10 DEF Wired
  <2>2. UNCHANGED <<inbox, acted>>
    BY <1>10 DEF Wired
  <2> QED
    BY <1>1, <2>1, <2>2
<1>11. ASSUME NEW c \in Conns, NEW r \in Peer, Goes(c, r), UNCHANGED <<inbox, acted>>,
              r.up = <<>>, r.outbox = <<>>, r.down = <<>>
       PROVE  /\ Results' /\ acted \subseteq acted'
              /\ \A k \in Calls \ frames : NotUnderWay(k) => NotUnderWay(k)'
  <2>1. Elements(<<>>) = {}
    BY DEF Elements
  <2> QED
    BY <1>1, <1>11, <2>1
<1>12. ASSUME NEW c \in Conns, NEW who \in {"client", "stranger"}, Connect(c, who)
       PROVE  /\ Results' /\ acted \subseteq acted'
              /\ \A k \in Calls \ frames : NotUnderWay(k) => NotUnderWay(k)'
  BY <1>11, <1>12, ConnectDoes
<1>13. ASSUME NEW c \in Conns, Reuses(c)
       PROVE  /\ Results' /\ acted \subseteq acted'
              /\ \A k \in Calls \ frames : NotUnderWay(k) => NotUnderWay(k)'
  <2>1. Free \in Peer /\ Free.up = <<>> /\ Free.outbox = <<>> /\ Free.down = <<>>
    BY DEF Free, Peer
  <2> QED
    BY <1>11, <1>13, <2>1 DEF Reuses
<1>14. CASE WriterEnds
  <2>1. PICK c \in Conns, r \in Peer :
          /\ Goes(c, r) /\ r.up = conn[c].up /\ r.outbox = conn[c].outbox /\ r.down = conn[c].down
          /\ Put(Item("disconnect", c, "none"))
    BY <1>14, WriterEndsDoes
  <2>2. UNCHANGED acted
    BY <1>14, WriterEndsDoes
  <2>3. \E entry \in Entry : Elements(inbox') = Elements(inbox) \cup {entry} /\ entry.frame = "none"
    BY <1>0, <2>1, ItemIs, PutIs
  <2> QED
    BY <1>1, <2>1, <2>2, <2>3
<1> QED
  BY <1>2, <1>3, <1>4, <1>5, <1>6, <1>7, <1>8, <1>9, <1>10, <1>12, <1>13, <1>14 DEF TrafficStep

\* A connection's calls, by the client's threads.
CallMoves ==
    \A k \in Calls : /\ call'[k].code # "none" => call'[k].at = "done"
                     /\ Unsent(k)' => Unsent(k)
                     /\ call'[k].code = "ok" => k \in acted

LEMMA TicketMoves ==
    ASSUME call \in [Calls -> Ticket], NEW k \in Calls
    PROVE  /\ \A at \in {"idle", "begun", "sent", "done"} :
              \A code \in {"none", "ok", "timeout", "connection_lost", "client_busy", "bridge_unavailable"} :
                 [call EXCEPT ![k].at = at, ![k].code = code] \in [Calls -> Ticket]
           /\ \A at \in {"idle", "begun", "sent", "done"} : \A c \in Conns :
                 [call EXCEPT ![k].at = at, ![k].conn = c] \in [Calls -> Ticket]
<1>1. call[k] \in Ticket
  OBVIOUS
<1>2. ASSUME NEW at \in {"idle", "begun", "sent", "done"},
             NEW code \in {"none", "ok", "timeout", "connection_lost", "client_busy", "bridge_unavailable"}
      PROVE  [call EXCEPT ![k].at = at, ![k].code = code] \in [Calls -> Ticket]
  <2>1. [[call[k] EXCEPT !.at = at] EXCEPT !.code = code] \in Ticket
    BY <1>1 DEF Ticket
  <2>2. [call EXCEPT ![k].at = at, ![k].code = code]
          = [call EXCEPT ![k] = [[call[k] EXCEPT !.at = at] EXCEPT !.code = code]]
    OBVIOUS
  <2> QED
    BY <2>1, <2>2
<1>3. ASSUME NEW at \in {"idle", "begun", "sent", "done"}, NEW c \in Conns
      PROVE  [call EXCEPT ![k].at = at, ![k].conn = c] \in [Calls -> Ticket]
  <2>1. [[call[k] EXCEPT !.at = at] EXCEPT !.conn = c] \in Ticket
    BY <1>1 DEF Ticket
  <2>2. [call EXCEPT ![k].at = at, ![k].conn = c]
          = [call EXCEPT ![k] = [[call[k] EXCEPT !.at = at] EXCEPT !.conn = c]]
    OBVIOUS
  <2> QED
    BY <2>1, <2>2
<1> QED
  BY <1>2, <1>3

LEMMA CallsMove ==
    ASSUME Typed, AtMost(client.waiting, MaxPending), Reported, Results, Next
    PROVE  ClientTyped' /\ AtMost(client.waiting', MaxPending) /\ CallMoves
<1>0. /\ client \in [at : {"down", "connecting", "greeting", "ready"}, conn : Conns \cup {None},
                     waiting : SUBSET Calls]
      /\ (client.at = "down") = (client.conn = None)
      /\ call \in [Calls -> Ticket]
      /\ \A k \in Calls : call[k].at = "begun" => call[k].conn \in Conns
      /\ None \notin Conns /\ MaxPending \in Nat
  BY PendingAssumption DEF Typed, ClientTyped
<1>1. ASSUME UNCHANGED call
      PROVE  CallMoves
  BY <1>1 DEF CallMoves, Reported, Unsent
<1>2. ASSUME NEW W \in SUBSET client.waiting
      PROVE  AtMost(W, MaxPending)
  BY <1>0, <1>2, Fewer
<1>3. CASE UNCHANGED clientVars
  BY <1>0, <1>1, <1>3 DEF clientVars, Typed, ClientTyped
\* One call is done.
<1>4. ASSUME NEW k \in Calls, NEW code \in {"timeout", "client_busy", "bridge_unavailable"}, Finish(k, code),
             code = "timeout" \/ call[k].at \in {"idle", "begun"},
             client' = client \/ client' = [client EXCEPT !.waiting = @ \ {k}]
      PROVE  ClientTyped' /\ AtMost(client.waiting', MaxPending) /\ CallMoves
  <2>1. ClientTyped'
    <3>1. call' \in [Calls -> Ticket]
      BY <1>0, <1>4, TicketMoves DEF Finish
    <3>2. \A m \in Calls : call'[m].at = "begun" => call'[m].conn \in Conns
      BY <1>0, <1>4 DEF Finish
    <3>3. /\ client' \in [at : {"down", "connecting", "greeting", "ready"}, conn : Conns \cup {None},
                          waiting : SUBSET Calls]
          /\ client'.at = client.at /\ client'.conn = client.conn
      BY <1>0, <1>4
    <3> QED
      BY <1>0, <3>1, <3>2, <3>3 DEF ClientTyped
  <2>2. client'.waiting \in SUBSET client.waiting
    BY <1>0, <1>4
  <2>3. CallMoves
    <3>1. /\ call'[k].at = "done" /\ call'[k].code = code
          /\ \A m \in Calls : m # k => call'[m] = call[m]
      BY <1>0, <1>4 DEF Finish
    <3> QED
      BY <1>4, <3>1 DEF CallMoves, Reported, Unsent
  <2> QED
    BY <1>2, <2>1, <2>2, <2>3
\* The connection is dropped, and every call that waited on it is done.
<1>5. CASE Drop
  <2>1. ClientTyped'
    BY <1>0, <1>5 DEF Drop, LostCode, ClientTyped, Ticket
  <2>2. client'.waiting \in SUBSET client.waiting
    BY <1>5 DEF Drop
  <2>3. CallMoves
    <3>1. ASSUME NEW k \in Calls
          PROVE  \/ call'[k] = call[k]
                 \/ call'[k].at = "done" /\ call'[k].code = "connection_lost"
      BY <1>0, <1>5 DEF Drop, LostCode, Ticket
    <3> QED
      BY <3>1 DEF CallMoves, Reported, Unsent
  <2> QED
    BY <1>2, <2>1, <2>2, <2>3
<1>6. CASE Dial
  <2>1. ClientTyped' /\ client'.waiting = client.waiting /\ UNCHANGED call
    BY <1>0, <1>6 DEF Dial, ClientTyped
  <2> QED
    BY <1>1, <1>2, <2>1
<1>7. CASE Greet
  <2>1. ClientTyped' /\ client'.waiting = client.waiting /\ UNCHANGED call
    BY <1>0, <1>7 DEF Greet, ClientTyped
  <2> QED
    BY <1>1, <1>2, <2>1
\* An answer is the core's to a call it has acted on.
<1>8. CASE Receive
  <2>1. PICK frame : frame = Head(mine.down)
    OBVIOUS
  <2>2. client.at \in {"greeting", "ready"} /\ mine.down # <<>> /\ client.conn \in Conns
    BY <1>0, <1>8 DEF Receive
  <2>3. CASE frame = "hello_ok" /\ client' = [client EXCEPT !.at = "ready"] /\ UNCHANGED call
    <3>1. ClientTyped' /\ client'.waiting = client.waiting
      BY <1>0, <2>2, <2>3 DEF ClientTyped
    <3> QED
      BY <1>1, <1>2, <2>3, <3>1
  <2>4. CASE /\ frame \in Calls
             /\ client' = [client EXCEPT !.waiting = @ \ {frame}]
             /\ call' = IF frame \in client.waiting
                        THEN [call EXCEPT ![frame].at = "done", ![frame].code = "ok"] ELSE call
    <3>1. frame \in acted
      <4>1. frame \in Elements(mine.down)
        BY <2>1, <2>2, ElementsOf, ElementsMove DEF Typed, mine
      <4> QED
        BY <2>2, <2>4, <4>1 DEF Results, mine
    <3>2. ClientTyped' /\ client'.waiting \in SUBSET client.waiting
      <4>2. call' \in [Calls -> Ticket]
        BY <1>0, <2>4, TicketMoves
      <4>3. \A k \in Calls : call'[k].at = "begun" => call'[k].conn \in Conns
        BY <1>0, <2>4
      <4>4. /\ client' \in [at : {"down", "connecting", "greeting", "ready"}, conn : Conns \cup {None},
                            waiting : SUBSET Calls]
            /\ client'.at = client.at /\ client'.conn = client.conn
            /\ client'.waiting \in SUBSET client.waiting
        BY <1>0, <2>4
      <4> QED
        BY <1>0, <4>2, <4>3, <4>4 DEF ClientTyped
    <3>3. CallMoves
      <4>1. ASSUME NEW k \in Calls
            PROVE  \/ call'[k] = call[k]
                   \/ call'[k].at = "done" /\ call'[k].code = "ok" /\ k = frame
        BY <1>0, <2>4
      <4> QED
        BY <3>1, <4>1 DEF CallMoves, Reported, Unsent
    <3> QED
      BY <1>2, <3>2, <3>3
  <2> QED
    BY <1>3, <1>5, <1>8, <2>1, <2>3, <2>4 DEF Receive
<1>9. CASE Disconnects
  BY <1>5, <1>9 DEF Disconnects
<1>10. ASSUME NEW k \in Calls, Begin(k)
       PROVE  ClientTyped' /\ AtMost(client.waiting', MaxPending) /\ CallMoves
  <2>1. CASE Finish(k, "bridge_unavailable") /\ UNCHANGED client
    BY <1>4, <1>10, <2>1 DEF Begin
  <2>2. CASE Finish(k, "client_busy") /\ UNCHANGED client
    BY <1>4, <1>10, <2>2 DEF Begin
  <2>3. CASE /\ client.at = "ready" /\ Cardinality(client.waiting) < MaxPending
             /\ client' = [client EXCEPT !.waiting = @ \cup {k}]
             /\ call' = [call EXCEPT ![k].at = "begun", ![k].conn = client.conn]
    <3>1. client.conn \in Conns
      BY <1>0, <2>3
    <3>2. client'.waiting = client.waiting \cup {k}
      BY <1>0, <2>3
    <3>3. AtMost(client'.waiting, MaxPending)
      BY <1>0, <2>3, <3>2, OneMore
    <3>4. ClientTyped'
      <4>1. /\ client' \in [at : {"down", "connecting", "greeting", "ready"}, conn : Conns \cup {None},
                            waiting : SUBSET Calls]
            /\ client'.at = client.at /\ client'.conn = client.conn
        BY <1>0, <2>3
      <4>2. call' \in [Calls -> Ticket]
        BY <1>0, <2>3, <3>1, TicketMoves
      <4>3. \A m \in Calls : call'[m].at = "begun" => call'[m].conn \in Conns
        BY <1>0, <2>3, <3>1
      <4> QED
        BY <1>0, <4>1, <4>2, <4>3 DEF ClientTyped
    <3>5. CallMoves
      <4>1. ASSUME NEW m \in Calls
            PROVE  \/ call'[m] = call[m]
                   \/ call'[m].at = "begun" /\ call'[m].code = call[m].code /\ m = k
        BY <1>0, <2>3
      <4>2. call[k].at = "idle"
        BY <1>10 DEF Begin
      <4> QED
        BY <4>1, <4>2 DEF CallMoves, Reported, Unsent
    <3> QED
      BY <3>3, <3>4, <3>5
  <2> QED
    BY <1>10, <2>1, <2>2, <2>3 DEF Begin
<1>11. ASSUME NEW k \in Calls, Send(k)
       PROVE  ClientTyped' /\ AtMost(client.waiting', MaxPending) /\ CallMoves
  <2>1. CASE /\ Finish(k, "bridge_unavailable")
             /\ client' = [client EXCEPT !.waiting = @ \ {k}]
    BY <1>4, <1>11, <2>1 DEF Send
  <2>2. CASE call' = [call EXCEPT ![k].at = "sent"] /\ UNCHANGED client
    <3>1. ClientTyped'
      BY <1>0, <2>2 DEF ClientTyped, Ticket
    <3>2. CallMoves
      <4>1. ASSUME NEW m \in Calls
            PROVE  \/ call'[m] = call[m]
                   \/ call'[m].at = "sent" /\ call'[m].code = call[m].code /\ m = k
        BY <1>0, <2>2
      <4>2. call[k].at = "begun"
        BY <1>11 DEF Send
      <4> QED
        BY <4>1, <4>2 DEF CallMoves, Reported, Unsent
    <3> QED
      BY <1>2, <2>2, <3>1, <3>2
  <2> QED
    BY <1>11, <2>1, <2>2 DEF Send
<1>12. ASSUME NEW k \in Calls, TimeOut(k)
       PROVE  ClientTyped' /\ AtMost(client.waiting', MaxPending) /\ CallMoves
  BY <1>4, <1>12 DEF TimeOut
<1>13. CASE StrangerConnects \/ StrangerSends \/ StrangerLeaves \/ Reuse
  BY <1>3, <1>13 DEF StrangerConnects, StrangerSends, StrangerLeaves, Reuse
<1> QED
  BY <1>3, <1>6, <1>7, <1>8, <1>9, <1>10, <1>11, <1>12, <1>13 DEF Next

-----------------------------------------------------------------------------
(* The invariant, and what follows from it.                                *)

\* Every reachable state of the server and its client is in the invariant, for any numbers of
\* connections, calls and Bridge processes and any limits.
THEOREM ServerInductive == Spec => []ServerInv
<1>1. Init => ServerInv
  <2> SUFFICES ASSUME Init PROVE ServerInv
    OBVIOUS
  <2> USE DEF Init, ServerInit
  <2>0. /\ Elements(<<>>) = {} /\ DOMAIN <<>> = {} /\ Len(<<>>) = 0 /\ Kept(<<>>, Carried) = <<>>
        /\ \A S : <<>> \in Seq(S)
    <3>1. <<>> \in Seq(Carried) /\ Holding(<<>>, Carried) = {}
      BY DEF Holding
    <3>2. Kept(<<>>, Carried) \in Seq(Carried) /\ Len(Kept(<<>>, Carried)) = 0
      BY <3>1, KeptType, FS_EmptySet
    <3> QED
      BY <3>2 DEF Elements
  <2>1. Free \in Peer /\ Free.who = "nobody" /\ Free.reader = "none" /\ Free.writer = "none"
        /\ Free.up = <<>> /\ Free.outbox = <<>> /\ Free.down = <<>>
    BY DEF Free, Peer
  <2>2. \A c \in Conns : conn[c] = Free /\ known[c] = "no" /\ owed[c] = <<>>
    OBVIOUS
  <2>3. Typed
    <3>1. ServerTyped
      BY <2>0, <2>1 DEF ServerTyped
    <3>2. ClientTyped
      BY DEF ClientTyped, Ticket
    <3> QED
      BY <3>1, <3>2 DEF Typed
  <2>4. Limited
    <3>1. Slots = {}
      BY <2>1, <2>2 DEF Slots, Registered
    <3>2. AtMost({}, MaxConnections) /\ AtMost({}, MaxPending)
      BY FS_EmptySet, ServerAssumption, PendingAssumption DEF AtMost
    <3>3. {InboxItems, OutboxFrames, SocketFrames} \subseteq Nat
      BY ServerAssumption
    <3> QED
      BY <2>0, <2>1, <2>2, <3>1, <3>2, <3>3 DEF Limited
  <2>5. Owners
    BY DEF Owners, Locked
  <2>6. NoGap
    BY <2>1, <2>2 DEF NoGap, Registered
  <2>7. Threads
    BY <2>0, <2>1, <2>2
       DEF Threads, Attended, Unmet, ReaderLast, Announced, Heralded, Leaving, Registered
  <2>8. Travels
    BY <2>0, <2>1, <2>2 DEF Travels, Reported, Results, Unsent, NotUnderWay
  <2> QED
    BY <2>3, <2>4, <2>5, <2>6, <2>7, <2>8 DEF ServerInv
<1>2. ServerInv /\ [Next]_vars => ServerInv'
  <2> SUFFICES ASSUME ServerInv, [Next]_vars PROVE ServerInv'
    OBVIOUS
  <2> USE DEF ServerInv
  <2>1. CASE UNCHANGED vars
    BY <2>1 DEF vars, serverVars, Typed, ServerTyped, ClientTyped, Limited, AtMost, Slots,
                Registered, Owners, NoGap, Threads, Attended, Unmet, ReaderLast, Announced,
                Heralded, Leaving, Of, Travels, Reported, Results, Unsent, NotUnderWay
  <2>2. CASE Next
    <3>1. PICK frames \in SUBSET Up :
            /\ TrafficStep(frames)
            /\ \A k \in frames \cap Calls :
                 call[k].at = "begun" /\ call' = [call EXCEPT ![k].at = "sent"]
      BY <2>2, Traffics
    <3>2. Queues /\ ServerTyped /\ ClientTyped /\ Results /\ Reported
          /\ AtMost(Slots, MaxConnections) /\ AtMost(client.waiting, MaxPending)
      BY DEF Limited, Queues, Typed, Travels
    <3>3. TrafficTyped' /\ Queues'
      BY <3>1, <3>2, TrafficTypedStays
    <3>4. NoGap'
      BY <3>1, <3>2, NoGapStays
    <3>5. Threads'
      BY <3>1, <3>2, ThreadsStay
    <3>6. AtMost(Slots', MaxConnections)
      BY <3>1, <3>2, SlotsStay
    <3>7. /\ life' \in [Bridges -> {"none", "starting", "locked", "serving", "stopping", "unlinked", "gone"}]
          /\ lock' \in Bridges \cup {0} /\ path' \in Bridges \cup {0}
          /\ Owners'
      BY <2>2, OwnersStay
    <3>8. /\ Results' /\ acted \subseteq acted'
          /\ \A k \in Calls \ frames : NotUnderWay(k) => NotUnderWay(k)'
      BY <3>1, <3>2, CallsTravel
    <3>9. ClientTyped' /\ AtMost(client.waiting', MaxPending) /\ CallMoves
      BY <2>2, <3>2, CallsMove
    <3>10. Typed'
      BY <3>3, <3>7, <3>9 DEF TrafficTyped, Typed, ServerTyped
    <3>11. Limited'
      BY <3>3, <3>6, <3>9 DEF Limited, Queues
    <3>12. Reported'
      <4>1. ASSUME NEW k \in Calls, Unsent(k)'
            PROVE  NotUnderWay(k)'
        <5>1. Unsent(k) /\ NotUnderWay(k)
          BY <3>2, <3>9, <4>1 DEF CallMoves, Reported
        <5>2. k \notin frames
          <6>1. SUFFICES ASSUME k \in frames PROVE FALSE
            OBVIOUS
          <6>2. call[k].at = "begun" /\ call'[k].at = "sent" /\ call'[k].code = call[k].code
            BY <3>1, <3>2, <6>1 DEF ClientTyped, Ticket
          <6>3. call[k].code = "none"
            BY <3>2, <6>2 DEF Reported
          <6> QED
            BY <4>1, <6>2, <6>3 DEF Unsent
        <5> QED
          BY <3>8, <5>1, <5>2
      <4> QED
        BY <3>8, <3>9, <4>1 DEF Reported, CallMoves
    <3> QED
      BY <3>4, <3>5, <3>7, <3>8, <3>10, <3>11, <3>12 DEF Travels
  <2> QED
    BY <2>1, <2>2
<1> QED
  BY <1>1, <1>2, PTL DEF Spec

\* A connection is announced, served without a gap and forgotten, whichever of its threads is
\* first, within every limit.
THEOREM ServedCorrect == Spec => []Served
<1>1. ServerInv => Served
  <2> SUFFICES ASSUME ServerInv PROVE Served
    OBVIOUS
  <2> USE DEF ServerInv
  <2>1. ServerTypeOK
    <3>1. ASSUME NEW c \in Conns
          PROVE  /\ conn[c].who \in {"nobody", "client", "stranger"}
                 /\ conn[c].reader \in {"none", "run", "ending", "done"}
                 /\ conn[c].writer \in {"none", "backlog", "run", "ending", "done"}
                 /\ known[c] \in {"no", "new", "client"}
      <4>1. conn[c] \in Peer
        BY DEF Typed, ServerTyped
      <4> QED
        BY <4>1 DEF Typed, ServerTyped, Peer
    <3>2. Cardinality({c \in Conns : Registered(c)}) <= MaxConnections
      BY DEF Limited, AtMost, Slots
    <3> QED
      BY <3>1, <3>2 DEF ServerTypeOK, Typed, ServerTyped, Limited
  <2>2. TypeOK
    BY <2>1 DEF TypeOK, Typed, ClientTyped, Ticket, Limited, AtMost
  <2>3. Introduced
    <3>1. ASSUME NEW i \in DOMAIN inbox, inbox[i].kind = "frame", Answerable(inbox[i].conn),
                 known[inbox[i].conn] = "no"
          PROVE  \E j \in 1..(i - 1) : inbox[j].conn = inbox[i].conn /\ inbox[j].kind = "connect"
      <4>1. inbox \in Seq(Entry) /\ Len(inbox) \in Nat /\ DOMAIN inbox = 1..Len(inbox)
        BY LenProperties DEF Typed, ServerTyped
      <4>2. inbox[i].conn \in Conns
        <5>1. inbox[i] \in Entry
          BY <4>1, ElementOfSeq
        <5> QED
          BY <5>1 DEF Entry
      <4>3. PICK j \in DOMAIN inbox : Of(j, inbox[i].conn, "connect") /\ j < i
        BY <3>1, <4>2, AnswerableIs DEF Threads, Attended, Heralded, Of
      <4>4. j \in 1..(i - 1)
        BY <4>1, <4>3
      <4> QED
        BY <4>3, <4>4 DEF Of
    <3> QED
      BY <3>1 DEF Introduced
  <2>4. Forgotten
    <3>1. ASSUME NEW c \in Conns, conn[c].reader = "done", conn[c].writer = "done",
                 \A i \in DOMAIN inbox : inbox[i].conn # c
          PROVE  known[c] = "no"
      BY <3>1 DEF Threads, Attended, Leaving, Of
    <3> QED
      BY <3>1 DEF Forgotten
  <2> QED
    BY <2>2, <2>3, <2>4 DEF Served
<1> QED
  BY <1>1, ServerInductive, PTL

\* A call that reports it was never sent is never acted on, not even later, and one that is
\* answered was.
THEOREM CodeCorrect == Spec => []CodeTrue
<1>1. ServerInv => CodeTrue
  <2> SUFFICES ASSUME ServerInv PROVE CodeTrue
    OBVIOUS
  <2>1. ASSUME NEW k \in Calls, call[k].code \in {"bridge_unavailable", "client_busy"}
        PROVE  /\ k \notin acted
               /\ \A c \in Conns : \A i \in DOMAIN conn[c].up : conn[c].up[i] # k
               /\ \A i \in DOMAIN inbox : inbox[i].frame # k
    BY <2>1 DEF ServerInv, Travels, Reported, Unsent, NotUnderWay, Elements
  <2> QED
    BY <2>1 DEF ServerInv, Travels, Reported, CodeTrue
<1> QED
  BY <1>1, ServerInductive, PTL

\* A Bridge that serves is the one the socket's file leads to, through stops, kills and races of
\* any number of Bridges that start.
THEOREM ReachableCorrect == Spec => []Reachable
<1>1. ServerInv => Reachable
  BY DEF ServerInv, Owners, Locked, Reachable
<1> QED
  BY <1>1, ServerInductive, PTL
=============================================================================
