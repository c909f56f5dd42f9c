------------------------ MODULE SurfaceStreamsProofs ------------------------
(***************************************************************************)
(* What TLAPS proves of the two streams, for any sessions, views and       *)
(* limits: the console stream implements ConsoleReplica, and a surface is  *)
(* handed every event the Bridge holds, in order.                          *)
(***************************************************************************)
EXTENDS SurfaceStreams, FiniteSetTheorems, SequenceTheorems, TLAPS

-----------------------------------------------------------------------------
(* Sequences, and what is picked from them.                              *)

LEMMA AppendAt ==
    ASSUME NEW S, NEW s \in Seq(S), NEW x \in S
    PROVE  /\ Append(s, x) \in Seq(S)
           /\ \A i \in DOMAIN Append(s, x) : \/ i \in DOMAIN s /\ Append(s, x)[i] = s[i]
                                             \/ i = Len(s) + 1 /\ Append(s, x)[i] = x
           /\ \A i \in DOMAIN s : i \in DOMAIN Append(s, x) /\ Append(s, x)[i] = s[i]
           /\ Len(s) + 1 \in DOMAIN Append(s, x) /\ Append(s, x)[Len(s) + 1] = x
           /\ \A i \in DOMAIN s : i < Len(s) + 1
  OBVIOUS

LEMMA TailAt ==
    ASSUME NEW S, NEW s \in Seq(S), s # <<>>
    PROVE  /\ Tail(s) \in Seq(S)
           /\ 1 \in DOMAIN s /\ Head(s) = s[1] /\ Head(s) \in S
           /\ \A i \in DOMAIN Tail(s) : /\ i \in Nat \ {0} /\ i + 1 \in DOMAIN s
                                        /\ Tail(s)[i] = s[i + 1]
           /\ \A j \in DOMAIN s : /\ j \in Nat \ {0}
                                  /\ j # 1 => j - 1 \in DOMAIN Tail(s) /\ Tail(s)[j - 1] = s[j]
  OBVIOUS

LEMMA ConcatAt ==
    ASSUME NEW S, NEW s \in Seq(S), NEW t \in Seq(S)
    PROVE  /\ s \o t \in Seq(S)
           /\ \A i \in DOMAIN (s \o t) :
                 \/ i \in DOMAIN s /\ (s \o t)[i] = s[i]
                 \/ i - Len(s) \in DOMAIN t /\ (s \o t)[i] = t[i - Len(s)]
           /\ \A i \in DOMAIN s : i \in DOMAIN (s \o t) /\ (s \o t)[i] = s[i]
           /\ \A i \in DOMAIN t : /\ i + Len(s) \in DOMAIN (s \o t)
                                  /\ (s \o t)[i + Len(s)] = t[i]
  OBVIOUS

Rank(P, p) == Cardinality({q \in P : q <= p})

LEMMA RankGrows ==
    ASSUME NEW P \in SUBSET Nat, IsFiniteSet(P), NEW p \in P
    PROVE  /\ Rank(P, p) \in 1..Cardinality(P)
           /\ \A r \in P : p < r => Rank(P, p) < Rank(P, r)
<1>0. \A q \in P : q \in Nat
  OBVIOUS
<1>1. \A r \in P : /\ IsFiniteSet({q \in P : q <= r})
                   /\ Rank(P, r) \in Nat
                   /\ Rank(P, r) <= Cardinality(P)
  <2> TAKE r \in P
  <2>1. {q \in P : q <= r} \in SUBSET P
    OBVIOUS
  <2> QED
    BY <2>1, FS_Subset, FS_CardinalityType DEF Rank
<1>2. Rank(P, p) # 0
  BY <1>1, FS_EmptySet DEF Rank
<1>3. ASSUME NEW r \in P, p < r
      PROVE  Rank(P, p) < Rank(P, r)
  <2>0. \A q \in P : q <= p => q <= r
    BY <1>0, <1>3
  <2>1. {q \in P : q <= p} \in SUBSET {q \in P : q <= r}
    BY <2>0
  <2>2. {q \in P : q <= p} # {q \in P : q <= r}
    BY <1>3
  <2>3. Rank(P, p) <= Rank(P, r) /\ Rank(P, p) # Rank(P, r)
    BY <1>1, <2>1, <2>2, FS_Subset DEF Rank
  <2>4. Rank(P, p) \in Nat /\ Rank(P, r) \in Nat
    BY <1>1
  <2> QED
    BY <2>3, <2>4
<1>4. Cardinality(P) \in Nat
  BY FS_CardinalityType
<1>5. Rank(P, p) \in 1..Cardinality(P)
  <2>1. Rank(P, p) \in Nat /\ Rank(P, p) <= Cardinality(P)
    BY <1>1
  <2> QED
    BY <1>2, <1>4, <2>1
<1> QED
  BY <1>3, <1>5

\* Every rank is that of exactly one position.
LEMMA RankOnto ==
    ASSUME NEW P \in SUBSET Nat, IsFiniteSet(P), NEW i \in 1..Cardinality(P)
    PROVE  \E p \in P : Rank(P, p) = i /\ \A r \in P : Rank(P, r) = i => r = p
<1> DEFINE f == [p \in P |-> Rank(P, p)]
<1>1. Cardinality(P) \in Nat
  BY FS_CardinalityType
<1>2. f \in [P -> 1..Cardinality(P)]
  BY RankGrows
<1>3. \A p, r \in P : Rank(P, p) = Rank(P, r) => p = r
  BY RankGrows, SMT
<1>4. f \in Injection(P, 1..Cardinality(P))
  BY <1>2, <1>3 DEF Injection, IsInjective
<1>5. IsFiniteSet(1..Cardinality(P)) /\ Cardinality(1..Cardinality(P)) = Cardinality(P)
  BY <1>1, FS_Interval
<1>6. f \in Surjection(P, 1..Cardinality(P))
  BY <1>4, <1>5, FS_Injection
<1>7. PICK p \in P : f[p] = i
  BY <1>6 DEF Surjection
<1> QED
  BY <1>3, <1>7

\* A finite set of positions that is not empty has a first.
LEMMA FirstPosition ==
    ASSUME NEW P \in SUBSET Nat, IsFiniteSet(P), P # {}
    PROVE  \E p \in P : \A q \in P : p <= q
<1>1. Cardinality(P) \in Nat /\ Cardinality(P) # 0
  BY FS_CardinalityType, FS_EmptySet
<1>2. PICK p \in P : Rank(P, p) = 1
  BY <1>1, RankOnto
<1>3. ASSUME NEW q \in P, q < p
      PROVE  FALSE
  BY <1>2, <1>3, RankGrows, SMT
<1> QED
  BY <1>3

\* All that t holds, s held.
DrawnFrom(t, s) == \A i \in DOMAIN t : \E j \in DOMAIN s : t[i] = s[j]

\* Picking from a sequence takes elements of it, and all those asked for.
LEMMA PickedFrom ==
    ASSUME NEW S, NEW s \in Seq(S), NEW P \in SUBSET DOMAIN s
    PROVE  /\ Picked(s, P) \in Seq(S)
           /\ DrawnFrom(Picked(s, P), s)
           /\ \A i \in DOMAIN Picked(s, P) : \E p \in P : Picked(s, P)[i] = s[p]
           /\ \A p \in P : \E i \in DOMAIN Picked(s, P) : Picked(s, P)[i] = s[p]
<1>1. Len(s) \in Nat /\ DOMAIN s = 1..Len(s) /\ \A i \in DOMAIN s : s[i] \in S
  BY LenProperties, ElementOfSeq
<1>2. IsFiniteSet(P) /\ P \in SUBSET Nat
  <2>1. P \in SUBSET (1..Len(s)) /\ IsFiniteSet(1..Len(s))
    BY <1>1, FS_Interval
  <2> QED
    BY <2>1, FS_Subset
<1>3. Cardinality(P) \in Nat
  BY <1>2, FS_CardinalityType
<1> DEFINE At(i) == CHOOSE p \in P : Rank(P, p) = i
<1>4. \A i \in 1..Cardinality(P) : At(i) \in P /\ Rank(P, At(i)) = i
  BY <1>2, RankOnto
<1>5. Picked(s, P) = [i \in 1..Cardinality(P) |-> s[At(i)]]
  BY DEF Picked, Rank
<1>6. Picked(s, P) \in [1..Cardinality(P) -> S]
  BY <1>1, <1>4, <1>5
<1>7. Picked(s, P) \in Seq(S)
  BY <1>3, <1>6, SeqDef
<1>8. \A i \in DOMAIN Picked(s, P) : \E p \in P : Picked(s, P)[i] = s[p]
  BY <1>4, <1>5
<1>9. ASSUME NEW p \in P
      PROVE  \E i \in DOMAIN Picked(s, P) : Picked(s, P)[i] = s[p]
  <2>1. Rank(P, p) \in 1..Cardinality(P)
    BY <1>2, RankGrows
  <2>2. At(Rank(P, p)) = p
    BY <1>2, <1>4, <2>1, RankOnto
  <2> QED
    BY <1>5, <2>1, <2>2
<1>10. DrawnFrom(Picked(s, P), s)
  BY <1>8 DEF DrawnFrom
<1> QED
  BY <1>7, <1>8, <1>9, <1>10

-----------------------------------------------------------------------------
(* The windows and the deltas the Bridge holds.                            *)

\* Events in the order they happened.
Sorted(w) == \A i, j \in DOMAIN w : i < j => w[i].id < w[j].id

\* What is picked stays in order.
LEMMA PickedSorted ==
    ASSUME NEW w \in Seq(Event), NEW P \in SUBSET DOMAIN w, Sorted(w)
    PROVE  Sorted(Picked(w, P))
<1>1. IsFiniteSet(P) /\ P \in SUBSET Nat
  <2>1. Len(w) \in Nat /\ DOMAIN w = 1..Len(w)
    BY LenProperties
  <2>2. P \in SUBSET (1..Len(w)) /\ IsFiniteSet(1..Len(w))
    BY <2>1, FS_Interval
  <2> QED
    BY <2>1, <2>2, FS_Subset
<1> DEFINE At(i) == CHOOSE p \in P : Rank(P, p) = i
<1>2. \A i \in 1..Cardinality(P) : At(i) \in P /\ Rank(P, At(i)) = i
  BY <1>1, RankOnto
<1>3. Picked(w, P) = [i \in 1..Cardinality(P) |-> w[At(i)]]
  BY DEF Picked, Rank
<1> HIDE DEF At
<1> SUFFICES ASSUME NEW i \in 1..Cardinality(P), NEW j \in 1..Cardinality(P), i < j
             PROVE  w[At(i)].id < w[At(j)].id
  BY <1>3 DEF Sorted
<1>4. i \in Int /\ j \in Int /\ ~(j < i)
  <2>1. Cardinality(P) \in Nat
    BY <1>1, FS_CardinalityType
  <2> QED
    BY <2>1
<1>5. At(i) \in P /\ At(j) \in P /\ Rank(P, At(i)) = i /\ Rank(P, At(j)) = j
  BY <1>2
<1>6. ~(At(j) < At(i))
  BY <1>1, <1>4, <1>5, RankGrows
<1>7. At(i) # At(j)
  BY <1>4, <1>5
<1>8. At(i) < At(j)
  <2>1. At(i) \in Nat /\ At(j) \in Nat
    BY <1>1, <1>5
  <2> QED
    BY <1>6, <1>7, <2>1
<1> QED
  BY <1>5, <1>8 DEF Sorted

LEMMA LastFrom ==
    ASSUME NEW S, NEW s \in Seq(S), NEW n \in Nat
    PROVE  /\ Last(s, n) \in Seq(S)
           /\ DrawnFrom(Last(s, n), s)
<1>1. Len(s) \in Nat /\ DOMAIN s = 1..Len(s) /\ \A i \in 1..Len(s) : s[i] \in S
  BY LenProperties, ElementOfSeq
<1> DEFINE from == IF Len(s) > n THEN Len(s) - n + 1 ELSE 1
<1>2. from \in 1..Len(s) + 1
  BY <1>1
<1>3. \A i \in from..Len(s) : s[i] \in S
  BY <1>1, <1>2
<1>4. /\ SubSeq(s, from, Len(s)) \in Seq(S)
      /\ Len(SubSeq(s, from, Len(s))) = IF from <= Len(s) THEN Len(s) - from + 1 ELSE 0
      /\ \A i \in 1..Len(s) - from + 1 : SubSeq(s, from, Len(s))[i] = s[from + i - 1]
  BY <1>1, <1>2, <1>3, SubSeqProperties
<1>5. DOMAIN SubSeq(s, from, Len(s)) = 1..Len(SubSeq(s, from, Len(s)))
  BY <1>4, LenProperties
<1> HIDE DEF from
<1>6. ASSUME NEW i \in DOMAIN SubSeq(s, from, Len(s))
      PROVE  \E j \in DOMAIN s : SubSeq(s, from, Len(s))[i] = s[j]
  <2>1. i \in 1..Len(s) - from + 1 /\ from + i - 1 \in 1..Len(s)
    BY <1>1, <1>2, <1>4, <1>5
  <2> QED
    BY <1>1, <1>4, <2>1
<1> QED
  BY <1>4, <1>6 DEF DrawnFrom, Last, from

\* What a window keeps when a message is complete are events it held.
LEMMA SettledFrom ==
    ASSUME NEW w \in Seq(Event), NEW k, NEW phase
    PROVE  /\ Settled(w, k, phase) \in Seq(Event)
           /\ DrawnFrom(Settled(w, k, phase), w)
           /\ Sorted(w) => Sorted(Settled(w, k, phase))
<1> DEFINE kept == {i \in DOMAIN w : w[i].key # k \/ w[i].phase # "delta"}
<1>1. kept \in SUBSET DOMAIN w
  OBVIOUS
<1>2. Picked(w, kept) \in Seq(Event) /\ DrawnFrom(Picked(w, kept), w)
  BY <1>1, PickedFrom
<1>3. DrawnFrom(w, w)
  BY DEF DrawnFrom
<1>4. Sorted(w) => Sorted(Picked(w, kept))
  BY <1>1, PickedSorted
<1> QED
  BY <1>2, <1>3, <1>4 DEF Settled

\* So are those a full window keeps.
LEMMA TrimmedFrom ==
    ASSUME NEW w \in Seq(Event), NEW k
    PROVE  /\ Trimmed(w, k) \in Seq(Event)
           /\ DrawnFrom(Trimmed(w, k), w)
           /\ Sorted(w) => Sorted(Trimmed(w, k))
<1> DEFINE held  == {i \in DOMAIN w : w[i].key = k}
           first == CHOOSE i \in held : \A j \in held : i <= j
           left  == SubSeq(w, 1, first - 1)
           right == SubSeq(w, first + 1, Len(w))
<1>1. Len(w) \in Nat /\ DOMAIN w = 1..Len(w) /\ \A i \in 1..Len(w) : w[i] \in Event
  BY LenProperties, ElementOfSeq
<1>2. IsFiniteSet(held) /\ held \in SUBSET Nat
  <2>1. held \in SUBSET (1..Len(w)) /\ IsFiniteSet(1..Len(w))
    BY <1>1, FS_Interval
  <2> QED
    BY <2>1, FS_Subset
<1>3. CASE Cardinality(held) <= Window
  BY <1>3 DEF DrawnFrom, Trimmed
<1>4. CASE ~(Cardinality(held) <= Window)
  <2>1. held # {}
    <3>1. Window \in Nat
      BY StreamAssumption DEF StreamAssumption
    <3> SUFFICES ASSUME held = {}
                 PROVE  FALSE
      OBVIOUS
    <3>2. Cardinality(held) = 0
      BY FS_EmptySet
    <3> HIDE DEF held
    <3> QED
      BY <1>4, <3>1, <3>2
  <2>2. \E i \in held : \A j \in held : i <= j
    BY <1>2, <2>1, FirstPosition
  <2>3. first \in 1..Len(w)
    BY <1>1, <2>2
  <2> HIDE DEF first, held
  <2>4. (\A i \in 1..first - 1 : w[i] \in Event) /\ \A i \in first + 1..Len(w) : w[i] \in Event
    BY <1>1, <2>3
  <2>5. /\ left \in Seq(Event) /\ Len(left) = first - 1
        /\ \A i \in 1..first - 1 : left[i] = w[i]
    BY <2>3, <2>4, SubSeqProperties
  <2>6. /\ right \in Seq(Event) /\ Len(right) = Len(w) - first
        /\ \A i \in 1..Len(w) - first : right[i] = w[first + i]
    <3>1. first + 1 \in Int /\ Len(w) \in Int /\ Len(w) - (first + 1) + 1 = Len(w) - first
      BY <1>1, <2>3
    <3>2. /\ right \in Seq(Event)
          /\ Len(right) = IF first + 1 <= Len(w) THEN Len(w) - (first + 1) + 1 ELSE 0
          /\ \A i \in 1..Len(w) - (first + 1) + 1 : right[i] = w[first + 1 + i - 1]
      BY <2>4, <3>1, SubSeqProperties
    <3> HIDE DEF right
    <3>3. first + 1 <= Len(w) \/ Len(w) - first = 0
      <4>1. Len(w) \in Int
        BY <1>1
      <4> QED
        BY <2>3, <4>1
    <3>4. \A i \in 1..Len(w) - first : first + 1 + i - 1 = first + i
      BY <1>1, <2>3
    <3> QED
      BY <3>1, <3>2, <3>3, <3>4
  <2> HIDE DEF left, right
  <2>7. /\ left \o right \in Seq(Event) /\ Len(left \o right) = Len(w) - 1
        /\ \A i \in 1..Len(w) - 1 : (left \o right)[i] =
              IF i <= first - 1 THEN left[i] ELSE right[i - (first - 1)]
    <3>1. /\ left \o right \in Seq(Event)
          /\ Len(left \o right) = Len(left) + Len(right)
          /\ \A i \in 1..Len(left) + Len(right) : (left \o right)[i] =
                IF i <= Len(left) THEN left[i] ELSE right[i - Len(left)]
      BY <2>5, <2>6, ConcatProperties
    <3>2. Len(left) + Len(right) = Len(w) - 1
      BY <1>1, <2>3, <2>5, <2>6
    <3> QED
      BY <2>5, <3>1, <3>2
  <2>8. DOMAIN (left \o right) = 1..Len(w) - 1
    BY <2>7, LenProperties
  <2>9. ASSUME NEW i \in DOMAIN (left \o right)
        PROVE  \/ i < first /\ i \in DOMAIN w /\ (left \o right)[i] = w[i]
               \/ i >= first /\ i + 1 \in DOMAIN w /\ (left \o right)[i] = w[i + 1]
    <3>0. i \in 1..Len(w) - 1 /\ i \in Int /\ first \in Int /\ Len(w) \in Int
      <4>1. Len(w) \in Int
        BY <1>1
      <4> QED
        BY <2>3, <2>8, <4>1
    <3>1. CASE i <= first - 1
      <4>1. i \in 1..first - 1 /\ i \in DOMAIN w /\ i < first
        BY <1>1, <2>3, <3>0, <3>1
      <4>2. (left \o right)[i] = w[i]
        BY <2>5, <2>7, <3>0, <3>1, <4>1
      <4> QED
        BY <4>1, <4>2
    <3>2. CASE ~(i <= first - 1)
      <4>1. i - (first - 1) \in 1..Len(w) - first /\ i + 1 \in DOMAIN w /\ i >= first
        BY <1>1, <2>3, <3>0, <3>2
      <4>2. right[i - (first - 1)] = w[first + (i - (first - 1))]
        BY <2>6, <4>1
      <4>3. first + (i - (first - 1)) = i + 1
        BY <3>0
      <4>4. (left \o right)[i] = w[i + 1]
        BY <2>7, <3>0, <3>2, <4>2, <4>3
      <4> QED
        BY <4>1, <4>4
    <3> QED
      BY <3>1, <3>2
  <2>10. Trimmed(w, k) = left \o right
    BY <1>4 DEF Trimmed, left, right, first, held
  <2>11. ASSUME Sorted(w), NEW i \in DOMAIN (left \o right), NEW j \in DOMAIN (left \o right),
                i < j
         PROVE  (left \o right)[i].id < (left \o right)[j].id
    <3>1. i \in Int /\ j \in Int /\ first \in Int
      BY <2>3, <2>8
    <3>2. PICK a \in DOMAIN w : /\ (left \o right)[i] = w[a]
                                /\ \/ i < first /\ a = i
                                   \/ i >= first /\ a = i + 1
      BY <2>9
    <3>3. PICK b \in DOMAIN w : /\ (left \o right)[j] = w[b]
                                /\ \/ j < first /\ b = j
                                   \/ j >= first /\ b = j + 1
      BY <2>9
    <3>4. a < b
      BY <2>11, <3>1, <3>2, <3>3
    <3> QED
      BY <2>11, <3>2, <3>3, <3>4 DEF Sorted
  <2>12. Sorted(w) => Sorted(left \o right)
    BY <2>11 DEF Sorted
  <2>13. DrawnFrom(left \o right, w)
    BY <2>9 DEF DrawnFrom
  <2> QED
    BY <2>7, <2>10, <2>12, <2>13
<1> QED
  BY <1>3, <1>4

-----------------------------------------------------------------------------
(* Changes of the console.                                                 *)

LEMMA DifferenceType ==
    ASSUME NEW old \in Console, NEW new \in Console
    PROVE  Difference(old, new) \in Change
  BY DEF Difference, Change, Console

\* The surface's reading of a change undoes what the Bridge's writing did:
\* applied to the console it was made from, it gives the console it leads to.
THEOREM AppliedDifference ==
    ASSUME NEW old \in Console, NEW new \in Console
    PROVE  Applied(old, Difference(old, new)) = new
<1> DEFINE change == Difference(old, new)
<1>1. /\ old.table \in [Keys -> Views \cup {None}] /\ new.table \in [Keys -> Views \cup {None}]
      /\ new = [table |-> new.table, focus |-> new.focus]
  BY DEF Console
<1>2. ASSUME NEW k \in Keys
      PROVE  Applied(old, change).table[k] = new.table[k]
  <2>1. \A v \in Views : <<k, v>> \in change.views <=> new.table[k] = v /\ old.table[k] # v
    BY DEF Difference
  <2>2. Applied(old, change).table[k] =
            IF \E v \in Views : <<k, v>> \in change.views
            THEN CHOOSE v \in Views : <<k, v>> \in change.views
            ELSE IF k \in change.removed THEN None ELSE old.table[k]
    BY DEF Applied
  <2>3. CASE \E v \in Views : <<k, v>> \in change.views
    BY <2>1, <2>2, <2>3
  <2>4. CASE ~\E v \in Views : <<k, v>> \in change.views
    <3>1. new.table[k] \in Views \cup {None} /\ old.table[k] \in Views \cup {None}
      BY <1>1
    <3>2. new.table[k] = None \/ new.table[k] = old.table[k]
      BY <2>1, <2>4, <3>1
    <3>3. k \in change.removed <=> old.table[k] # None /\ new.table[k] = None
      BY DEF Difference
    <3> QED
      BY <2>2, <2>4, <3>2, <3>3
  <2> QED
    BY <2>3, <2>4
<1>3. Applied(old, change).focus = new.focus
  <2>1. change.focus = {new.focus} \ {old.focus}
    BY DEF Difference
  <2> QED
    BY <2>1 DEF Applied
<1>4. Applied(old, change).table = new.table
  <2>1. Applied(old, change).table = [k \in Keys |-> Applied(old, change).table[k]]
    BY DEF Applied
  <2> QED
    BY <1>1, <1>2, <2>1
<1> QED
  BY <1>1, <1>3, <1>4 DEF Applied

-----------------------------------------------------------------------------
(* The inductive invariant.                                                *)

Frame ==
    [type : {"hello_ok", "window"}, source : Nat]
        \cup [type : {"delta"}, source : Nat, seq : Nat, change : Change]
        \cup [type : {"snapshot"}, source : Nat, seq : Nat, console : Console]
        \cup [type : {"interaction"}, source : Nat, event : Event]

Ask == [stream : {"console", "interaction"}, after : [source : Nat, seq : Nat]]

\* What the Bridge keeps of a delta.
Entry == [seq : Nat, change : Change]

Delivery == up \in Seq(Ask) /\ down \in Seq(Frame)

\* What this instance published is numbered from 0, and the last is in force.
Numbered ==
    /\ instance # 0
    /\ Len(published) = seq + 1
    /\ console = published[seq + 1]

\* A delta leads from one published console to the next.
Leads(d) ==
    /\ d.seq \in 1..seq
    /\ d.change = Difference(published[d.seq], published[d.seq + 1])

Held == \A i \in DOMAIN deltas : Leads(deltas[i])

\* A snapshot is the first frame of a connection that the surface reads, so
\* the replica is not ahead of it.
Truthful(frame, i) ==
    /\ frame.source = instance
    /\ frame.type = "delta" => Leads(frame)
    /\ frame.type = "snapshot" =>
          /\ i = 1
          /\ frame.seq <= seq
          /\ frame.console = published[frame.seq + 1]
          /\ replica.source = instance => replica.seq <= frame.seq

Sent == \A i \in DOMAIN down : Truthful(down[i], i)

\* The console is asked for before anything else travels.
AsksFirst ==
    /\ \A i \in DOMAIN up : up[i].stream = "console" => i = 1 /\ streams = {} /\ down = <<>>
    /\ link # "open" => up = <<>> /\ streams = {}
    /\ link = "down" => down = <<>>
    /\ link = "greeting" => down = <<[type |-> "hello_ok", source |-> instance]>>

Copied ==
    /\ replica.source <= instance
    /\ replica.source = instance =>
          replica.seq <= seq /\ replica.console = published[replica.seq + 1]

\* Among the frames d: the event e, behind any announcement of a window.
OnItsWay(d, e) ==
    \E j \in DOMAIN d :
        /\ d[j].type = "interaction" /\ d[j].event = e
        /\ \A i \in DOMAIN d : d[i].type = "window" => i < j

NoWindow(d) == \A j \in DOMAIN d : d[j].type # "window"

HandedIn(h, id) == \E j \in DOMAIN h : h[j] = id

Reaches(d, h, e) == OnItsWay(d, e) \/ (HandedIn(h, e.id) /\ NoWindow(d))

\* A subscribed surface was handed every event still held, or will be.
Heard == "interaction" \in streams =>
             \A i \in DOMAIN window : Reaches(down, handed, window[i])

Remembered == \A i \in DOMAIN seen : HandedIn(handed, seen[i][2])

IInv ==
    /\ TypeOK /\ Delivery
    /\ Numbered /\ Held /\ Sent /\ AsksFirst /\ Copied
    /\ Heard /\ Remembered

-----------------------------------------------------------------------------
(* Frames on their way.                                                    *)

LEMMA AppendReaches ==
    ASSUME NEW d \in Seq(Frame), NEW f \in Frame, f.type # "window", NEW h, NEW e,
           Reaches(d, h, e)
    PROVE  Reaches(Append(d, f), h, e)
<1>1. CASE OnItsWay(d, e)
  <2>1. PICK j \in DOMAIN d : /\ d[j].type = "interaction" /\ d[j].event = e
                              /\ \A i \in DOMAIN d : d[i].type = "window" => i < j
    BY <1>1 DEF OnItsWay
  <2>2. \A i \in DOMAIN Append(d, f) : Append(d, f)[i].type = "window" => i < j
    BY <2>1, AppendAt
  <2> QED
    BY <2>1, <2>2, AppendAt DEF OnItsWay, Reaches
<1>2. CASE HandedIn(h, e.id) /\ NoWindow(d)
  BY <1>2, AppendAt DEF NoWindow, Reaches
<1> QED
  BY <1>1, <1>2 DEF Reaches

LEMMA TailReaches ==
    ASSUME NEW d \in Seq(Frame), d # <<>>, NEW e, OnItsWay(d, e)
    PROVE  \/ OnItsWay(Tail(d), e)
           \/ NoWindow(d) /\ Head(d).type = "interaction" /\ Head(d).event = e
<1>1. PICK j \in DOMAIN d : /\ d[j].type = "interaction" /\ d[j].event = e
                            /\ \A i \in DOMAIN d : d[i].type = "window" => i < j
  BY DEF OnItsWay
<1>2. CASE j = 1
  <2>1. Head(d).type = "interaction" /\ Head(d).event = e
    BY <1>1, <1>2, TailAt
  <2>2. ASSUME NEW i \in DOMAIN d, d[i].type = "window"
        PROVE  FALSE
    <3>1. i < 1 /\ i \in Nat \ {0}
      BY <1>1, <1>2, <2>2, TailAt
    <3> QED
      BY <3>1
  <2> QED
    BY <2>1, <2>2 DEF NoWindow
<1>3. CASE j # 1
  <2>1. /\ j \in Nat \ {0}
        /\ j - 1 \in DOMAIN Tail(d) /\ Tail(d)[j - 1] = d[j]
    BY <1>3, TailAt
  <2>2. ASSUME NEW i \in DOMAIN Tail(d), Tail(d)[i].type = "window"
        PROVE  i < j - 1
    <3>1. i \in Nat \ {0} /\ i + 1 \in DOMAIN d /\ Tail(d)[i] = d[i + 1]
      BY TailAt
    <3>2. i + 1 < j
      BY <1>1, <2>2, <3>1
    <3> QED
      BY <2>1, <3>1, <3>2
  <2> QED
    BY <1>1, <2>1, <2>2 DEF OnItsWay
<1> QED
  BY <1>2, <1>3

LEMMA TailNoWindow ==
    ASSUME NEW d \in Seq(Frame), d # <<>>, NoWindow(d)
    PROVE  NoWindow(Tail(d))
  BY TailAt DEF NoWindow

-----------------------------------------------------------------------------
(* Each step keeps the invariant.                                          *)

LEMMA InitInv == Init => IInv
<1> SUFFICES ASSUME Init
             PROVE  IInv
  OBVIOUS
<1>1. Blank \in Console
  BY DEF Blank, Console
<1>2. published \in Seq(Console) /\ Len(published) = 1 /\ published[1] = Blank
  BY <1>1 DEF Init
<1>3. TypeOK
  <2>1. replica \in [source : Nat, seq : Nat, console : Console]
    BY <1>1 DEF Init
  <2>2. /\ {instance, seq, events, origin, greeted, breaks} \subseteq Nat
        /\ deltas \in Seq([seq : Nat, change : Change]) /\ window \in Seq(Event)
        /\ seen \in Seq(Nat \X Nat) /\ handed \in Seq(Nat)
    BY DEF Init
  <2>3. streams \subseteq {"console", "interaction"} /\ link = "down" /\ ready \in BOOLEAN
        /\ console \in Console
    BY <1>1 DEF Init
  <2> QED
    BY <1>2, <2>1, <2>2, <2>3 DEF TypeOK
<1>6. Delivery
  BY DEF Init, Delivery
<1>4. Numbered
  BY <1>2 DEF Init, Numbered
<1>5. Held /\ Sent /\ AsksFirst /\ Copied /\ Heard /\ Remembered
  BY DEF Init, Held, Sent, AsksFirst, Copied, Heard, Remembered
<1> QED
  BY <1>3, <1>4, <1>5, <1>6 DEF IInv

\* A step that leaves the Bridge alone leaves what it said true.
LEMMA BridgeSame ==
    ASSUME IInv, UNCHANGED bridge
    PROVE  Numbered' /\ Held' /\ \A d : Leads(d) => Leads(d)'
  BY DEF IInv, bridge, Numbered, Held, Leads

\* Held and Sent hold after a step if they do of each delta and frame.
LEMMA HeldNext ==
    ASSUME \A i \in DOMAIN deltas' : \A d : d = deltas'[i] => Leads(d)'
    PROVE  Held'
  BY DEF Held, Leads

LEMMA SentNext ==
    ASSUME \A i \in DOMAIN down' : \A f : f = down'[i] => Truthful(f, i)'
    PROVE  Sent'
  BY DEF Sent, Truthful, Leads

LEMMA PublishInv ==
    ASSUME IInv, NEW new \in Console, Publish(new)
    PROVE  IInv'
<1> DEFINE change == Difference(console, new)
           delta  == [type |-> "delta", source |-> instance, seq |-> seq + 1, change |-> change]
           entry  == [seq |-> seq + 1, change |-> change]
<1>1. /\ instance \in Nat /\ seq \in Nat /\ console \in Console
      /\ published \in Seq(Console) /\ Len(published) = seq + 1
      /\ console = published[seq + 1]
      /\ deltas \in Seq(Entry) /\ window \in Seq(Event)
      /\ down \in Seq(Frame)
  BY DEF IInv, TypeOK, Numbered, Delivery, Entry
<1>2. change \in Change
  BY <1>1, DifferenceType
<1>3. delta \in Frame /\ entry \in Entry
  BY <1>1, <1>2 DEF Frame, Entry
<1>4. /\ seq' = seq + 1 /\ console' = new
      /\ deltas' = Last(Append(deltas, entry), DeltaHistory)
      /\ down' = IF "console" \in streams THEN Append(down, delta) ELSE down
      /\ window' = Picked(window, {i \in DOMAIN window : window[i].key \notin change.removed})
      /\ published' = Append(published, new)
      /\ UNCHANGED <<instance, events, streams, up, link, ready, replica, origin, seen, handed,
                     greeted, breaks>>
  BY DEF Publish, SendTo, surface
<1> HIDE DEF change
<1>5. /\ published' \in Seq(Console) /\ Len(published') = seq + 2
      /\ \A i \in 1..seq + 1 : published'[i] = published[i]
      /\ published'[seq + 2] = new
  BY <1>1, <1>4
<1>6. ASSUME NEW d, Leads(d)
      PROVE  Leads(d)'
  <2>1. d.seq \in 1..seq /\ d.change = Difference(published[d.seq], published[d.seq + 1])
    BY <1>6 DEF Leads
  <2>2. d.seq \in 1..seq + 1 /\ d.seq + 1 \in 1..seq + 1
    BY <1>1, <2>1
  <2> QED
    BY <1>4, <1>5, <2>1, <2>2 DEF Leads
<1>7. ASSUME NEW d, d.seq = seq + 1, d.change = change
      PROVE  Leads(d)'
  <2>1. change = Difference(published'[seq + 1], published'[seq + 2])
    BY <1>1, <1>5 DEF change
  <2>2. d.seq \in 1..seq' /\ seq + 1 + 1 = seq + 2
    BY <1>1, <1>4, <1>7
  <2> QED
    BY <1>7, <2>1, <2>2 DEF Leads
<1>8. deltas' \in Seq(Entry) /\ Held'
  <2>1. DeltaHistory \in Nat
    BY StreamAssumption DEF StreamAssumption
  <2>2. Append(deltas, entry) \in Seq(Entry)
    BY <1>1, <1>3
  <2>3. deltas' \in Seq(Entry) /\ DrawnFrom(deltas', Append(deltas, entry))
    <3>1. deltas' = Last(Append(deltas, entry), DeltaHistory)
      BY <1>4
    <3> QED
      BY <2>1, <2>2, <3>1, LastFrom
  <2>4. ASSUME NEW i \in DOMAIN deltas', NEW d, d = deltas'[i]
        PROVE  Leads(d)'
    <3>1. PICK j \in DOMAIN Append(deltas, entry) : d = Append(deltas, entry)[j]
      BY <2>3, <2>4 DEF DrawnFrom
    <3>2. (\E k \in DOMAIN deltas : d = deltas[k]) \/ d = entry
      <4> HIDE DEF entry
      <4> QED
        BY <1>1, <1>3, <3>1, AppendAt
    <3>3. CASE \E k \in DOMAIN deltas : d = deltas[k]
      <4>1. Leads(d)
        BY <3>3 DEF IInv, Held
      <4> QED
        BY <1>6, <4>1
    <3>4. CASE d = entry
      <4>1. d.seq = seq + 1 /\ d.change = change
        BY <3>4
      <4> QED
        BY <1>7, <4>1
    <3> QED
      BY <3>2, <3>3, <3>4
  <2> QED
    BY <2>3, <2>4, HeldNext
<1>9. down' \in Seq(Frame)
  BY <1>1, <1>3, <1>4
<1>10. window' \in Seq(Event) /\ DrawnFrom(window', window)
  <2>1. {i \in DOMAIN window : window[i].key \notin change.removed} \in SUBSET DOMAIN window
    OBVIOUS
  <2> QED
    BY <1>1, <1>4, <2>1, PickedFrom
<1>11. TypeOK' /\ Delivery'
  <2>1. seq' \in Nat
    BY <1>1, <1>4
  <2> QED
    BY <1>4, <1>5, <1>8, <1>9, <1>10, <2>1 DEF IInv, TypeOK, Delivery, Entry
<1>12. Numbered'
  BY <1>1, <1>4, <1>5 DEF IInv, Numbered
<1>13. Copied'
  <2>1. replica.source = instance => replica.seq \in 0..seq /\ replica.seq + 1 \in 1..seq + 1
    BY <1>1 DEF IInv, Copied, TypeOK
  <2> QED
    BY <1>1, <1>4, <1>5, <2>1 DEF IInv, Copied
<1>14. Sent'
  <2> SUFFICES ASSUME NEW i \in DOMAIN down', NEW f, f = down'[i]
               PROVE  Truthful(f, i)'
    BY SentNext
  <2>1. (i \in DOMAIN down /\ f = down[i]) \/ f = delta
    <3> HIDE DEF delta
    <3> QED
      BY <1>1, <1>3, <1>4, AppendAt
  <2>2. CASE i \in DOMAIN down /\ f = down[i]
    <3>1. Truthful(f, i) /\ f \in Frame
      BY <1>1, <2>2 DEF IInv, Sent
    <3>2. f.type = "snapshot" => f.seq \in Nat /\ f.seq + 1 \in 1..seq + 1
      BY <1>1, <3>1 DEF Truthful, Frame
    <3>3. f.type = "delta" => Leads(f)'
      BY <1>6, <3>1 DEF Truthful
    <3> QED
      BY <1>1, <1>4, <1>5, <3>1, <3>2, <3>3 DEF Truthful
  <2>3. CASE f = delta
    <3>1. f.type = "delta" /\ f.source = instance /\ f.seq = seq + 1 /\ f.change = change
      BY <2>3
    <3> QED
      BY <1>4, <1>7, <3>1 DEF Truthful
  <2> QED
    BY <2>1, <2>2, <2>3
<1>15. AsksFirst'
  BY <1>4 DEF IInv, AsksFirst
<1>16. Heard'
  <2> SUFFICES ASSUME "interaction" \in streams, NEW i \in DOMAIN window'
               PROVE  Reaches(down', handed, window'[i])
    BY <1>4 DEF Heard
  <2>1. PICK j \in DOMAIN window : window'[i] = window[j]
    BY <1>10 DEF DrawnFrom
  <2>2. Reaches(down, handed, window[j])
    BY DEF IInv, Heard
  <2>3. delta.type # "window"
    OBVIOUS
  <2> QED
    BY <1>1, <1>3, <1>4, <2>1, <2>2, <2>3, AppendReaches
<1>17. Remembered'
  BY <1>4 DEF IInv, Remembered
<1> QED
  BY <1>8, <1>11, <1>12, <1>13, <1>14, <1>15, <1>16, <1>17 DEF IInv

LEMMA InteractInv ==
    ASSUME IInv, NEW k \in Keys, NEW phase \in Phases, Interact(k, phase)
    PROVE  IInv'
<1> DEFINE event == [id |-> events + 1, key |-> k, phase |-> phase]
           frame == [type |-> "interaction", source |-> instance, event |-> event]
<1>1. /\ instance \in Nat /\ events \in Nat /\ window \in Seq(Event) /\ down \in Seq(Frame)
  BY DEF IInv, TypeOK, Delivery
<1>2. event \in Event /\ frame \in Frame
  BY <1>1 DEF Event, Frame
<1>3. /\ events' = events + 1
      /\ window' = Trimmed(Append(Settled(window, k, phase), event), k)
      /\ down' = IF "interaction" \in streams THEN Append(down, frame) ELSE down
      /\ UNCHANGED <<instance, seq, console, deltas, published, streams, up, link, ready,
                     replica, origin, seen, handed, greeted, breaks>>
  BY DEF Interact, SendTo, surface
<1>4. frame.type = "interaction" /\ frame.source = instance /\ frame.event = event
  OBVIOUS
<1> HIDE DEF event, frame
<1>5. /\ window' \in Seq(Event)
      /\ \A i \in DOMAIN window' : window'[i] = event \/ \E j \in DOMAIN window : window'[i] = window[j]
  <2>1. /\ Settled(window, k, phase) \in Seq(Event)
        /\ DrawnFrom(Settled(window, k, phase), window)
    BY <1>1, SettledFrom
  <2>2. Append(Settled(window, k, phase), event) \in Seq(Event)
    BY <1>2, <2>1
  <2>3. window' \in Seq(Event) /\ DrawnFrom(window', Append(Settled(window, k, phase), event))
    BY <1>3, <2>2, TrimmedFrom
  <2>4. ASSUME NEW i \in DOMAIN window', window'[i] # event
        PROVE  \E j \in DOMAIN window : window'[i] = window[j]
    <3>1. PICK m \in DOMAIN Append(Settled(window, k, phase), event) :
              window'[i] = Append(Settled(window, k, phase), event)[m]
      BY <2>3 DEF DrawnFrom
    <3>2. \E n \in DOMAIN Settled(window, k, phase) : window'[i] = Settled(window, k, phase)[n]
      BY <1>2, <2>1, <2>4, <3>1, AppendAt
    <3> QED
      BY <2>1, <3>2 DEF DrawnFrom
  <2> QED
    BY <2>3, <2>4
<1>6. down' \in Seq(Frame)
  BY <1>1, <1>2, <1>3
<1>7. TypeOK' /\ Delivery'
  BY <1>1, <1>3, <1>5, <1>6 DEF IInv, TypeOK, Delivery
<1>8. /\ Numbered' /\ Copied' /\ AsksFirst' /\ Remembered'
      /\ \A d : Leads(d) => Leads(d)'
  BY <1>3 DEF IInv, Numbered, Copied, AsksFirst, Remembered, Leads
<1>9. Held'
  BY <1>3 DEF IInv, Held, Leads
<1>10. Sent'
  <2> SUFFICES ASSUME NEW i \in DOMAIN down', NEW f, f = down'[i]
               PROVE  Truthful(f, i)'
    BY SentNext
  <2>1. (i \in DOMAIN down /\ f = down[i]) \/ f = frame
    BY <1>1, <1>2, <1>3, AppendAt
  <2>2. CASE i \in DOMAIN down /\ f = down[i]
    <3>1. Truthful(f, i)
      BY <2>2 DEF IInv, Sent
    <3> QED
      BY <1>3, <1>8, <3>1 DEF Truthful
  <2>3. CASE f = frame
    BY <1>3, <1>4, <2>3 DEF Truthful
  <2> QED
    BY <2>1, <2>2, <2>3
<1>11. Heard'
  <2> SUFFICES ASSUME "interaction" \in streams, NEW i \in DOMAIN window'
               PROVE  Reaches(down', handed, window'[i])
    BY <1>3 DEF Heard
  <2>1. down' = Append(down, frame)
    BY <1>3
  <2>2. CASE window'[i] = event
    <3>1. /\ Len(down) + 1 \in DOMAIN down' /\ down'[Len(down) + 1] = frame
          /\ \A j \in DOMAIN down' : \/ j < Len(down) + 1
                                     \/ down'[j] = frame
      BY <1>1, <1>2, <2>1, AppendAt
    <3>2. OnItsWay(down', event)
      BY <1>4, <3>1 DEF OnItsWay
    <3> QED
      BY <2>2, <3>2 DEF Reaches
  <2>3. CASE \E j \in DOMAIN window : window'[i] = window[j]
    <3>1. Reaches(down, handed, window'[i])
      BY <2>3 DEF IInv, Heard
    <3> QED
      BY <1>1, <1>2, <1>4, <2>1, <3>1, AppendReaches
  <2> QED
    BY <1>5, <2>2, <2>3
<1> QED
  BY <1>7, <1>8, <1>9, <1>10, <1>11 DEF IInv

\* Both sides lose the connection.
LEMMA DroppedParts ==
    ASSUME Dropped
    PROVE  Delivery' /\ Sent' /\ AsksFirst' /\ Heard'
  BY DEF Dropped, Delivery, Sent, AsksFirst, Heard

LEMMA BreakInv ==
    ASSUME IInv, Break
    PROVE  IInv'
<1>1. Numbered' /\ Held'
  BY BridgeSame DEF Break
<1>2. Delivery' /\ Sent' /\ AsksFirst' /\ Heard'
  BY DroppedParts DEF Break
<1>3. /\ breaks' = breaks + 1 /\ link' = "down" /\ ready' = FALSE /\ streams' = {}
      /\ UNCHANGED <<instance, seq, console, deltas, window, events, published, replica, origin,
                     seen, handed, greeted>>
  BY DEF Break, Dropped, bridge, surface
<1>4. Copied' /\ Remembered'
  BY <1>3 DEF IInv, Copied, Remembered
<1>5. TypeOK'
  <2>1. breaks' \in Nat
    BY <1>3 DEF IInv, TypeOK
  <2> QED
    BY <1>3, <2>1 DEF IInv, TypeOK
<1> QED
  BY <1>1, <1>2, <1>4, <1>5 DEF IInv

LEMMA RestartInv ==
    ASSUME IInv, Restart
    PROVE  IInv'
<1>1. Delivery' /\ Sent' /\ AsksFirst' /\ Heard'
  BY DroppedParts DEF Restart
<1>2. Blank \in Console
  BY DEF Blank, Console
<1>3. /\ instance' = instance + 1 /\ seq' = 0 /\ console' = Blank /\ deltas' = <<>>
      /\ window' = <<>> /\ events' = 0 /\ published' = <<Blank>>
      /\ link' = "down" /\ ready' = FALSE /\ streams' = {}
      /\ UNCHANGED <<replica, origin, seen, handed, greeted, breaks>>
  BY DEF Restart, Dropped, surface
<1>4. instance \in Nat /\ replica.source \in Nat /\ replica.source <= instance
  BY DEF IInv, TypeOK, Copied
<1>5. published' \in Seq(Console) /\ Len(published') = 1 /\ published'[1] = Blank
  BY <1>2, <1>3
<1>6. deltas' \in Seq([seq : Nat, change : Change]) /\ window' \in Seq(Event)
  BY <1>3
<1>7. TypeOK'
  <2>1. instance' \in Nat /\ seq' \in Nat /\ events' \in Nat /\ console' \in Console
    BY <1>2, <1>3, <1>4
  <2>2. /\ origin' \in Nat /\ greeted' \in Nat /\ breaks' \in Nat /\ seen' \in Seq(Nat \X Nat)
        /\ handed' \in Seq(Nat) /\ replica' \in [source : Nat, seq : Nat, console : Console]
    BY <1>3 DEF IInv, TypeOK
  <2>3. streams' \subseteq {"console", "interaction"} /\ link' = "down" /\ ready' \in BOOLEAN
    BY <1>3
  <2> QED
    BY <1>5, <1>6, <2>1, <2>2, <2>3 DEF TypeOK
<1>8. Numbered' /\ Held'
  BY <1>3, <1>4, <1>5 DEF Numbered, Held
<1>9. Copied'
  BY <1>3, <1>4 DEF Copied
<1>10. Remembered'
  BY <1>3 DEF IInv, Remembered
<1> QED
  BY <1>1, <1>7, <1>8, <1>9, <1>10 DEF IInv

LEMMA ConnectInv ==
    ASSUME IInv, Connect
    PROVE  IInv'
<1> DEFINE hello == [type |-> "hello_ok", source |-> instance]
<1>1. /\ link = "down" /\ link' = "greeting" /\ greeted' = seq /\ down' = <<hello>>
      /\ UNCHANGED <<bridge, streams, up, ready, surface, breaks>>
  BY DEF Connect
<1>2. up = <<>> /\ streams = {} /\ instance \in Nat
  BY <1>1 DEF IInv, AsksFirst, TypeOK
<1>3. hello \in Frame /\ hello.type = "hello_ok" /\ hello.source = instance
  BY <1>2 DEF Frame
<1>4. Numbered' /\ Held'
  BY <1>1, BridgeSame
<1>5. down' \in Seq(Frame) /\ \A i \in DOMAIN down' : down'[i] = hello
  BY <1>1, <1>3
<1>6. TypeOK' /\ Delivery'
  BY <1>1, <1>5 DEF IInv, TypeOK, Delivery, bridge, surface
<1>7. Sent'
  <2> SUFFICES ASSUME NEW i \in DOMAIN down', NEW f, f = down'[i]
               PROVE  Truthful(f, i)'
    BY SentNext
  <2> QED
    BY <1>1, <1>3, <1>5 DEF Truthful, bridge
<1>8. AsksFirst' /\ Copied' /\ Heard' /\ Remembered'
  BY <1>1, <1>2 DEF IInv, AsksFirst, Copied, Heard, Remembered, bridge, surface
<1> QED
  BY <1>4, <1>6, <1>7, <1>8 DEF IInv

\* Once the first subscription is served, the console was asked for.
LEMMA TailAsks ==
    ASSUME IInv, up # <<>>, up' = Tail(up), UNCHANGED link
    PROVE  /\ link = "open"
           /\ up' \in Seq(Ask)
           /\ AsksFirst'
<1>1. link = "open" /\ up \in Seq(Ask)
  BY DEF IInv, AsksFirst, Delivery
<1>2. up' \in Seq(Ask) /\ \A i \in DOMAIN up' : i \in Nat \ {0} /\ i + 1 \in DOMAIN up /\ up'[i] = up[i + 1]
  BY <1>1, TailAt
<1>3. \A i \in DOMAIN up' : up'[i].stream # "console"
  <2> SUFFICES ASSUME NEW i \in DOMAIN up', up[i + 1].stream = "console"
               PROVE  FALSE
    BY <1>2
  <2>1. i + 1 = 1
    BY <1>2 DEF IInv, AsksFirst
  <2> QED
    BY <1>2, <2>1
<1> QED
  BY <1>1, <1>2, <1>3 DEF AsksFirst

\* The console subscription is answered, before anything else was sent, with
\* the deltas missed or with a snapshot.
LEMMA ConsoleAnswer ==
    ASSUME IInv, SubscribeConsole
    PROVE  /\ streams = {} /\ down = <<>> /\ down' \in Seq(Frame)
           /\ \A i \in DOMAIN down' : \A f : f = down'[i] =>
                 /\ f.source = instance
                 /\ \/ f.type = "delta" /\ Leads(f)
                    \/ /\ f.type = "snapshot" /\ i = 1
                       /\ f.seq = seq /\ f.console = console
<1> DEFINE after  == Head(up).after
           missed == Picked(deltas, {i \in DOMAIN deltas : deltas[i].seq > after.seq})
           snapshot == [type |-> "snapshot", source |-> instance, seq |-> seq, console |-> console]
<1>1. /\ up # <<>> /\ Head(up).stream = "console"
      /\ up' = Tail(up) /\ streams' = streams \cup {"console"}
      /\ down' = down \o IF Holds(after) THEN DeltaFrames(after.seq) ELSE <<snapshot>>
      /\ UNCHANGED <<bridge, link, ready, surface, greeted, breaks>>
  BY DEF SubscribeConsole
<1>2. /\ instance \in Nat /\ seq \in Nat /\ console \in Console /\ deltas \in Seq(Entry)
      /\ up \in Seq(Ask)
  BY DEF IInv, TypeOK, Delivery, Entry
<1>3. streams = {} /\ down = <<>>
  <2>1. 1 \in DOMAIN up /\ Head(up) = up[1]
    BY <1>1, <1>2, TailAt
  <2> QED
    BY <1>1, <2>1 DEF IInv, AsksFirst
<1>6. snapshot \in Frame /\ snapshot.type = "snapshot" /\ snapshot.source = instance
      /\ snapshot.seq = seq /\ snapshot.console = console
  BY <1>2 DEF Frame
<1>7. /\ DeltaFrames(after.seq) \in Seq(Frame)
      /\ \A i \in DOMAIN DeltaFrames(after.seq) : \A f : f = DeltaFrames(after.seq)[i] =>
            f.type = "delta" /\ f.source = instance /\ Leads(f)
  <2> DEFINE delta(i) == [type |-> "delta", source |-> instance,
                          seq |-> missed[i].seq, change |-> missed[i].change]
  <2>1. {i \in DOMAIN deltas : deltas[i].seq > after.seq} \in SUBSET DOMAIN deltas
    OBVIOUS
  <2>2. missed \in Seq(Entry) /\ DrawnFrom(missed, deltas)
    BY <1>2, <2>1, PickedFrom
  <2>3. \A i \in DOMAIN missed : missed[i] \in Entry /\ Leads(missed[i])
    BY <2>2, LenProperties, ElementOfSeq DEF IInv, Held, DrawnFrom
  <2>4. DeltaFrames(after.seq) = [i \in DOMAIN missed |-> delta(i)]
    BY DEF DeltaFrames
  <2> HIDE DEF missed
  <2>5. \A i \in DOMAIN missed : delta(i) \in Frame
    BY <1>2, <2>3 DEF Frame, Entry
  <2>6. DeltaFrames(after.seq) \in Seq(Frame)
    <3>1. Len(missed) \in Nat /\ DOMAIN missed = 1..Len(missed)
      BY <2>2, LenProperties
    <3>2. DeltaFrames(after.seq) \in [1..Len(missed) -> Frame]
      BY <2>4, <2>5, <3>1
    <3> QED
      BY <3>1, <3>2, SeqDef
  <2>7. ASSUME NEW i \in DOMAIN DeltaFrames(after.seq), NEW f, f = DeltaFrames(after.seq)[i]
        PROVE  f.type = "delta" /\ f.source = instance /\ Leads(f)
    <3>1. i \in DOMAIN missed /\ f = delta(i)
      BY <2>4, <2>7
    <3> QED
      BY <2>3, <3>1 DEF Leads
  <2> QED
    BY <2>6, <2>7
<1> HIDE DEF snapshot
<1>8. down' = IF Holds(after) THEN DeltaFrames(after.seq) ELSE <<snapshot>>
  <2>1. (IF Holds(after) THEN DeltaFrames(after.seq) ELSE <<snapshot>>) \in Seq(Frame)
    BY <1>6, <1>7
  <2> QED
    BY <1>1, <1>3, <2>1, ConcatEmptySeq
<1>9. down' \in Seq(Frame)
  BY <1>6, <1>7, <1>8
<1>10. ASSUME NEW i \in DOMAIN down', NEW f, f = down'[i]
       PROVE  /\ f.source = instance
              /\ \/ f.type = "delta" /\ Leads(f)
                 \/ f.type = "snapshot" /\ i = 1 /\ f.seq = seq /\ f.console = console
  <2>1. CASE Holds(after)
    BY <1>7, <1>8, <1>10, <2>1
  <2>2. CASE ~Holds(after)
    BY <1>6, <1>8, <1>10, <2>2
  <2> QED
    BY <2>1, <2>2
<1> QED
  BY <1>3, <1>9, <1>10

LEMMA SubscribeConsoleInv ==
    ASSUME IInv, SubscribeConsole
    PROVE  IInv'
<1>1. /\ up # <<>> /\ up' = Tail(up)
      /\ streams' = streams \cup {"console"}
      /\ UNCHANGED <<bridge, link, ready, surface, greeted, breaks>>
  BY DEF SubscribeConsole
<1>2. /\ streams = {} /\ down = <<>> /\ down' \in Seq(Frame)
      /\ \A i \in DOMAIN down' : \A f : f = down'[i] =>
            /\ f.source = instance
            /\ \/ f.type = "delta" /\ Leads(f)
               \/ f.type = "snapshot" /\ i = 1 /\ f.seq = seq /\ f.console = console
  BY ConsoleAnswer
<1>3. link = "open" /\ up' \in Seq(Ask) /\ AsksFirst'
  BY <1>1, TailAsks DEF bridge, surface
<1>4. Numbered' /\ Held' /\ \A d : Leads(d) => Leads(d)'
  BY <1>1, BridgeSame
<1>5. TypeOK' /\ Delivery'
  BY <1>1, <1>2, <1>3 DEF IInv, TypeOK, Delivery, bridge, surface
<1>6. Sent'
  <2> SUFFICES ASSUME NEW i \in DOMAIN down', NEW f, f = down'[i]
               PROVE  Truthful(f, i)'
    BY SentNext
  <2>1. CASE f.source = instance /\ f.type = "delta" /\ Leads(f)
    BY <1>1, <1>4, <2>1 DEF Truthful, bridge
  <2>2. CASE /\ f.source = instance /\ f.type = "snapshot" /\ i = 1
             /\ f.seq = seq /\ f.console = console
    <3>1. console = published[seq + 1] /\ (replica.source = instance => replica.seq <= seq)
      BY DEF IInv, Numbered, Copied
    <3>2. seq \in Nat
      BY DEF IInv, TypeOK
    <3> QED
      BY <1>1, <2>2, <3>1, <3>2 DEF Truthful, bridge, surface
  <2> QED
    BY <1>2, <2>1, <2>2
<1>7. Copied' /\ Remembered' /\ Heard'
  BY <1>1, <1>2 DEF IInv, Copied, Remembered, Heard, bridge, surface
<1> QED
  BY <1>3, <1>4, <1>5, <1>6, <1>7 DEF IInv

\* The other subscription is answered with the window, its announcement first.
LEMMA WindowAnswer ==
    ASSUME IInv, SubscribeInteraction
    PROVE  /\ down' \in Seq(Frame)
           /\ Len(down) + 1 \in DOMAIN down' /\ down'[Len(down) + 1].type = "window"
           /\ \A i \in DOMAIN down' : i \in Nat /\
                 \/ i \in DOMAIN down /\ i <= Len(down) /\ down'[i] = down[i]
                 \/ /\ i = Len(down) + 1
                    /\ down'[i].type = "window" /\ down'[i].source = instance
                 \/ /\ i - (Len(down) + 1) \in DOMAIN window
                    /\ down'[i].type = "interaction" /\ down'[i].source = instance
                    /\ down'[i].event = window[i - (Len(down) + 1)]
           /\ \A j \in DOMAIN window :
                 /\ j \in Nat \ {0} /\ j + (Len(down) + 1) \in DOMAIN down'
                 /\ down'[j + (Len(down) + 1)].type = "interaction"
                 /\ down'[j + (Len(down) + 1)].event = window[j]
<1> DEFINE opening == [type |-> "window", source |-> instance]
           shown(i) == [type |-> "interaction", source |-> instance, event |-> window[i]]
           front == Append(down, opening)
<1>1. down' = down \o <<opening>> \o Replay
  BY DEF SubscribeInteraction
<1>2. instance \in Nat /\ window \in Seq(Event) /\ down \in Seq(Frame) /\ Len(down) \in Nat
  BY LenProperties DEF IInv, TypeOK, Delivery
<1>3. opening \in Frame /\ opening.type = "window" /\ opening.source = instance
  BY <1>2 DEF Frame
<1>4. \A i \in DOMAIN window : /\ shown(i) \in Frame /\ shown(i).type = "interaction"
                               /\ shown(i).source = instance /\ shown(i).event = window[i]
  BY <1>2 DEF Frame
<1>5. /\ Replay \in Seq(Frame) /\ DOMAIN Replay = DOMAIN window
      /\ \A i \in DOMAIN window : Replay[i] = shown(i)
  <2>1. Len(window) \in Nat /\ DOMAIN window = 1..Len(window)
    BY <1>2, LenProperties
  <2>2. Replay = [i \in DOMAIN window |-> shown(i)]
    BY DEF Replay
  <2>3. Replay \in [1..Len(window) -> Frame]
    BY <1>4, <2>1, <2>2
  <2>4. Replay \in Seq(Frame)
    BY <2>1, <2>3, SeqDef
  <2> QED
    BY <2>2, <2>4
<1> HIDE DEF opening, shown
<1>6. /\ front \in Seq(Frame) /\ Len(front) = Len(down) + 1
      /\ Len(down) + 1 \in DOMAIN front /\ front[Len(down) + 1] = opening
      /\ \A i \in DOMAIN front : \/ i \in DOMAIN down /\ front[i] = down[i]
                                 \/ i = Len(down) + 1 /\ front[i] = opening
  BY <1>2, <1>3, AppendAt, AppendProperties
<1>7. down' = front \o Replay
  <2>1. down \o <<opening>> = front
    BY <1>2, <1>3, AppendIsConcat
  <2> QED
    BY <1>1, <2>1
<1> HIDE DEF front
<1>8. /\ down' \in Seq(Frame)
      /\ \A i \in DOMAIN front : i \in DOMAIN down' /\ down'[i] = front[i]
      /\ \A i \in DOMAIN down' : \/ i \in DOMAIN front /\ down'[i] = front[i]
                                 \/ i - Len(front) \in DOMAIN Replay /\ down'[i] = Replay[i - Len(front)]
      /\ \A i \in DOMAIN Replay : i + Len(front) \in DOMAIN down' /\ down'[i + Len(front)] = Replay[i]
  BY <1>5, <1>6, <1>7, ConcatAt
<1>9. ASSUME NEW i \in DOMAIN down'
      PROVE  /\ i \in Nat
             /\ \/ i \in DOMAIN down /\ i <= Len(down) /\ down'[i] = down[i]
                \/ i = Len(down) + 1 /\ down'[i] = opening
                \/ i - (Len(down) + 1) \in DOMAIN window /\ down'[i] = shown(i - (Len(down) + 1))
  <2>1. i \in Nat
    BY <1>8, LenProperties
  <2>2. \A k \in DOMAIN down : k <= Len(down)
    BY <1>2, LenProperties
  <2> QED
    BY <1>5, <1>6, <1>8, <2>1, <2>2
<1>10. ASSUME NEW j \in DOMAIN window
       PROVE  /\ j \in Nat \ {0} /\ j + (Len(down) + 1) \in DOMAIN down'
              /\ down'[j + (Len(down) + 1)] = shown(j)
  <2>1. j \in Nat \ {0}
    BY <1>2, LenProperties
  <2> QED
    BY <1>5, <1>6, <1>8, <2>1
<1> QED
  BY <1>3, <1>4, <1>6, <1>8, <1>9, <1>10

LEMMA SubscribeInteractionInv ==
    ASSUME IInv, SubscribeInteraction
    PROVE  IInv'
<1>1. /\ up # <<>> /\ up' = Tail(up) /\ streams' = streams \cup {"interaction"}
      /\ UNCHANGED <<bridge, link, ready, surface, greeted, breaks>>
  BY DEF SubscribeInteraction
<1>2. Len(down) \in Nat
  BY LenProperties DEF IInv, Delivery
<1>3. up' \in Seq(Ask) /\ AsksFirst'
  BY <1>1, TailAsks DEF bridge, surface
<1>4. Numbered' /\ Held' /\ \A d : Leads(d) => Leads(d)'
  BY <1>1, BridgeSame
<1>5. TypeOK' /\ Delivery'
  BY <1>1, <1>3, WindowAnswer DEF IInv, TypeOK, Delivery, bridge, surface
<1>6. Sent'
  <2> SUFFICES ASSUME NEW i \in DOMAIN down', NEW f, f = down'[i]
               PROVE  Truthful(f, i)'
    BY SentNext
  <2>1. CASE i \in DOMAIN down /\ f = down[i]
    <3>1. Truthful(f, i)
      BY <2>1 DEF IInv, Sent
    <3> QED
      BY <1>1, <1>4, <3>1 DEF Truthful, bridge, surface
  <2>2. CASE f.source = instance /\ f.type \in {"window", "interaction"}
    BY <1>1, <2>2 DEF Truthful, bridge
  <2> QED
    BY WindowAnswer, <2>1, <2>2
<1>7. Heard'
  <2> SUFFICES ASSUME NEW i \in DOMAIN window
               PROVE  OnItsWay(down', window[i])
    BY <1>1 DEF Heard, Reaches, bridge
  <2>1. /\ i \in Nat \ {0} /\ i + (Len(down) + 1) \in DOMAIN down'
        /\ down'[i + (Len(down) + 1)].type = "interaction"
        /\ down'[i + (Len(down) + 1)].event = window[i]
    BY WindowAnswer
  <2>2. ASSUME NEW m \in DOMAIN down', down'[m].type = "window"
        PROVE  m < i + (Len(down) + 1)
    <3>1. m \in Nat /\ (m <= Len(down) \/ m = Len(down) + 1)
      BY WindowAnswer, <2>2
    <3> QED
      BY <1>2, <2>1, <3>1
  <2> QED
    BY <2>1, <2>2 DEF OnItsWay
<1>8. Copied' /\ Remembered'
  BY <1>1 DEF IInv, Copied, Remembered, bridge, surface
<1> QED
  BY <1>3, <1>4, <1>5, <1>6, <1>7, <1>8 DEF IInv

LEMMA OpenInv ==
    ASSUME IInv, Open
    PROVE  IInv'
<1>1. /\ link = "greeting" /\ link' = "open" /\ down' = Tail(down) /\ ready' \in BOOLEAN
      /\ UNCHANGED <<bridge, streams, surface, greeted, breaks>>
  BY DEF Open, Resumes
<1>2. PICK after \in [source : Nat, seq : Nat] :
          up' = <<[stream |-> "console", after |-> after], [stream |-> "interaction", after |-> after]>>
  <2> DEFINE after == IF Resumes(Head(down).source)
                      THEN [source |-> replica.source, seq |-> replica.seq]
                      ELSE [source |-> 0, seq |-> 0]
  <2>1. after \in [source : Nat, seq : Nat]
    BY DEF IInv, TypeOK
  <2>2. up' = <<[stream |-> "console", after |-> after], [stream |-> "interaction", after |-> after]>>
    BY DEF Open
  <2> HIDE DEF after
  <2> QED
    BY <2>1, <2>2
<1>3. streams = {} /\ down' = <<>>
  <2>1. streams = {} /\ down = <<[type |-> "hello_ok", source |-> instance]>>
    BY <1>1 DEF IInv, AsksFirst
  <2> QED
    BY <1>1, <2>1
<1>4. /\ up' \in Seq(Ask)
      /\ \A i \in DOMAIN up' : up'[i].stream = "console" => i = 1
  <2> DEFINE first  == [stream |-> "console", after |-> after]
             second == [stream |-> "interaction", after |-> after]
  <2>1. first \in Ask /\ second \in Ask /\ second.stream = "interaction"
    BY <1>2 DEF Ask
  <2> HIDE DEF first, second
  <2>2. up' = <<first, second>>
    BY <1>2 DEF first, second
  <2> QED
    BY <2>1, <2>2
<1>5. Numbered' /\ Held'
  BY <1>1, BridgeSame
<1>6. TypeOK'
  BY <1>1 DEF IInv, TypeOK, bridge, surface
<1>7. Sent' /\ Delivery'
  BY <1>3, <1>4 DEF Sent, Delivery
<1>8. AsksFirst' /\ Copied' /\ Heard' /\ Remembered'
  BY <1>1, <1>3, <1>4 DEF IInv, AsksFirst, Copied, Heard, Remembered, bridge, surface
<1> QED
  BY <1>5, <1>6, <1>7, <1>8 DEF IInv

\* The surface reads one frame; nothing behind it is a snapshot.
LEMMA ReadParts ==
    ASSUME IInv, link = "open", down # <<>>, down' = Tail(down),
           UNCHANGED <<bridge, streams, up, link>>
    PROVE  Delivery' /\ Numbered' /\ Held' /\ Sent' /\ AsksFirst'
<1>1. up \in Seq(Ask) /\ down \in Seq(Frame)
  BY DEF IInv, Delivery
<1>2. Delivery'
  BY <1>1, TailAt DEF Delivery
<1>3. Numbered' /\ Held' /\ \A d : Leads(d) => Leads(d)'
  BY BridgeSame
<1>4. AsksFirst'
  BY DEF IInv, AsksFirst
<1>5. Sent'
  <2> SUFFICES ASSUME NEW i \in DOMAIN down', NEW f, f = down'[i]
               PROVE  Truthful(f, i)'
    BY SentNext
  <2>1. i \in Nat \ {0} /\ i + 1 \in DOMAIN down /\ f = down[i + 1]
    BY <1>1, TailAt
  <2>2. Truthful(f, i + 1)
    BY <2>1 DEF IInv, Sent
  <2>3. i + 1 # 1
    BY <2>1
  <2> QED
    BY <1>3, <2>2, <2>3 DEF Truthful, bridge
<1> QED
  BY <1>2, <1>3, <1>4, <1>5

\* What is read first is true, as the Bridge stands.
LEMMA HeadTrue ==
    ASSUME IInv, down # <<>>
    PROVE  Head(down) \in Frame /\ Truthful(Head(down), 1)
  BY TailAt DEF IInv, Delivery, Sent

\* Reading what is not an event loses none.
LEMMA HeardBehind ==
    ASSUME IInv, down # <<>>, down' = Tail(down), UNCHANGED <<window, streams>>,
           Head(down).type # "interaction",
           Head(down).type = "window" \/ UNCHANGED handed
    PROVE  Heard'
<1>1. down \in Seq(Frame)
  BY DEF IInv, Delivery
<1> SUFFICES ASSUME "interaction" \in streams, NEW i \in DOMAIN window
             PROVE  Reaches(down', handed', window[i])
  BY DEF Heard
<1>2. Reaches(down, handed, window[i])
  BY DEF IInv, Heard
<1>3. CASE OnItsWay(down, window[i])
  BY <1>1, <1>3, TailReaches DEF Reaches
<1>4. CASE HandedIn(handed, window[i].id) /\ NoWindow(down)
  <2>1. Head(down).type # "window"
    BY <1>1, <1>4, TailAt DEF NoWindow
  <2> QED
    BY <1>1, <1>4, <2>1, TailNoWindow DEF Reaches
<1> QED
  BY <1>2, <1>3, <1>4 DEF Reaches

\* A snapshot the surface reads is what the Bridge published, and not behind
\* the replica.
LEMMA SnapshotTrue ==
    ASSUME IInv, Snapshot
    PROVE  \E n \in DOMAIN published :
               /\ replica.source = instance => replica.seq <= n - 1
               /\ replica' = [source |-> instance, seq |-> n - 1, console |-> published[n]]
<1> DEFINE f == Head(down)
<1>1. /\ down # <<>> /\ f.type = "snapshot"
      /\ replica' = [source |-> f.source, seq |-> f.seq, console |-> f.console]
  BY DEF Snapshot, Receives
<1>2. f \in Frame /\ Truthful(f, 1)
  BY <1>1, HeadTrue
<1>3. /\ f.source = instance /\ f.seq \in Nat /\ f.seq <= seq
      /\ f.console = published[f.seq + 1]
      /\ replica.source = instance => replica.seq <= f.seq
  BY <1>1, <1>2 DEF Truthful, Frame
<1> HIDE DEF f
<1>4. seq \in Nat /\ published \in Seq(Console) /\ Len(published) = seq + 1
  BY DEF IInv, TypeOK, Numbered
<1>5. f.seq + 1 \in DOMAIN published /\ f.seq + 1 - 1 = f.seq
  BY <1>3, <1>4
<1> QED
  BY <1>1, <1>3, <1>5

\* So is what the replica becomes by a delta that fits.
LEMMA DeltaTrue ==
    ASSUME IInv, Delta, replica' # replica
    PROVE  \E n \in DOMAIN published :
               /\ replica.source = instance => replica.seq <= n - 1
               /\ replica' = [source |-> instance, seq |-> n - 1, console |-> published[n]]
<1> DEFINE f == Head(down)
<1>1. down # <<>> /\ f.type = "delta"
  BY DEF Delta, Receives
<1>2. /\ Fits(f)
      /\ replica' = [replica EXCEPT !.seq = f.seq, !.console = Applied(@, f.change)]
  BY DEF Delta
<1>3. f \in Frame /\ Truthful(f, 1)
  BY <1>1, HeadTrue
<1>4. /\ f.source = instance /\ f.seq \in 1..seq
      /\ f.change = Difference(published[f.seq], published[f.seq + 1])
  BY <1>1, <1>3 DEF Truthful, Leads
<1>5. replica.source = instance /\ f.seq = replica.seq + 1
  BY <1>2, <1>4 DEF Fits
<1> HIDE DEF f
<1>6. /\ seq \in Nat /\ published \in Seq(Console) /\ Len(published) = seq + 1
      /\ replica \in [source : Nat, seq : Nat, console : Console]
      /\ replica.console = published[replica.seq + 1]
  BY <1>5 DEF IInv, TypeOK, Numbered, Copied
<1>7. published[f.seq] \in Console /\ published[f.seq + 1] \in Console
  BY <1>4, <1>6
<1>8. Applied(replica.console, f.change) = published[f.seq + 1]
  BY <1>4, <1>5, <1>6, <1>7, AppliedDifference
<1>9. replica' = [source |-> instance, seq |-> f.seq, console |-> published[f.seq + 1]]
  BY <1>2, <1>5, <1>6, <1>8
<1>10. f.seq + 1 \in DOMAIN published /\ f.seq + 1 - 1 = f.seq /\ replica.seq <= f.seq
  BY <1>4, <1>5, <1>6
<1>11. PICK n \in DOMAIN published : n = f.seq + 1
  BY <1>10
<1>12. n - 1 = f.seq /\ replica.seq <= n - 1
  <2>1. f.seq \in Int /\ replica.seq \in Int
    BY <1>4, <1>6
  <2>2. replica.seq <= f.seq
    BY <1>10
  <2> QED
    BY <1>11, <2>1, <2>2
<1>13. replica' = [source |-> instance, seq |-> n - 1, console |-> published[n]]
  BY <1>9, <1>11, <1>12
<1> QED
  BY <1>12, <1>13

\* A replica that has become what was published is typed and true.
LEMMA CopiedNext ==
    ASSUME IInv, UNCHANGED bridge,
           \E n \in DOMAIN published :
               replica' = [source |-> instance, seq |-> n - 1, console |-> published[n]]
    PROVE  Copied' /\ replica' \in [source : Nat, seq : Nat, console : Console]
<1>1. PICK n \in DOMAIN published :
          replica' = [source |-> instance, seq |-> n - 1, console |-> published[n]]
  OBVIOUS
<1>2. /\ instance \in Nat /\ seq \in Nat /\ published \in Seq(Console)
      /\ Len(published) = seq + 1
  BY DEF IInv, TypeOK, Numbered
<1>3. n \in 1..seq + 1 /\ published[n] \in Console
  BY <1>2
<1>4. /\ n - 1 \in Nat /\ n - 1 <= seq /\ n - 1 + 1 = n
      /\ replica'.source = instance /\ replica'.seq = n - 1
      /\ replica'.console = published[n]
  BY <1>1, <1>2, <1>3
<1>5. replica' \in [source : Nat, seq : Nat, console : Console]
  BY <1>1, <1>2, <1>3, <1>4
<1>6. instance' = instance /\ seq' = seq /\ published' = published /\ instance <= instance
  BY <1>2 DEF bridge
<1> QED
  BY <1>4, <1>5, <1>6 DEF Copied

LEMMA SnapshotInv ==
    ASSUME IInv, Snapshot
    PROVE  IInv'
<1>1. /\ link = "open" /\ down # <<>> /\ Head(down).type = "snapshot"
      /\ down' = Tail(down) /\ ready' = TRUE
      /\ UNCHANGED <<bridge, streams, up, link, origin, seen, handed, greeted, breaks>>
  BY DEF Snapshot, Receives
<1>2. Delivery' /\ Numbered' /\ Held' /\ Sent' /\ AsksFirst'
  BY <1>1, ReadParts
<1>3. Heard'
  BY <1>1, HeardBehind DEF bridge
<1>4. Copied' /\ replica' \in [source : Nat, seq : Nat, console : Console]
  BY <1>1, SnapshotTrue, CopiedNext
<1>5. TypeOK' /\ Remembered'
  BY <1>1, <1>4 DEF IInv, TypeOK, Remembered, bridge
<1> QED
  BY <1>2, <1>3, <1>4, <1>5 DEF IInv

LEMMA DeltaInv ==
    ASSUME IInv, Delta
    PROVE  IInv'
<1>1. /\ link = "open" /\ down # <<>> /\ Head(down).type = "delta"
      /\ UNCHANGED <<bridge, origin, seen, handed, greeted, breaks>>
  BY DEF Delta, Receives
<1>2. Copied' /\ replica' \in [source : Nat, seq : Nat, console : Console]
  <2>1. CASE replica' = replica
    BY <1>1, <2>1 DEF IInv, TypeOK, Copied, bridge
  <2>2. CASE replica' # replica
    BY <1>1, <2>2, DeltaTrue, CopiedNext
  <2> QED
    BY <2>1, <2>2
<1>3. CASE down' = Tail(down) /\ UNCHANGED <<streams, up, link, ready>>
  <2>1. Delivery' /\ Numbered' /\ Held' /\ Sent' /\ AsksFirst'
    BY <1>1, <1>3, ReadParts
  <2>2. Heard'
    BY <1>1, <1>3, HeardBehind DEF bridge
  <2>3. TypeOK' /\ Remembered'
    BY <1>1, <1>2, <1>3 DEF IInv, TypeOK, Remembered, bridge
  <2> QED
    BY <1>2, <2>1, <2>2, <2>3 DEF IInv
<1>4. CASE Dropped
  <2>1. Numbered' /\ Held'
    BY <1>1, BridgeSame
  <2>2. Delivery' /\ Sent' /\ AsksFirst' /\ Heard'
    BY <1>4, DroppedParts
  <2>3. TypeOK' /\ Remembered'
    BY <1>1, <1>2, <1>4 DEF IInv, TypeOK, Remembered, Dropped, bridge
  <2> QED
    BY <1>2, <2>1, <2>2, <2>3 DEF IInv
<1> QED
  BY <1>3, <1>4 DEF Delta

LEMMA WindowOpensInv ==
    ASSUME IInv, WindowOpens
    PROVE  IInv'
<1>1. /\ link = "open" /\ down # <<>> /\ Head(down).type = "window"
      /\ down' = Tail(down) /\ origin' = Head(down).source
      /\ \/ UNCHANGED <<seen, handed>>
         \/ seen' = <<>> /\ handed' = <<>>
      /\ UNCHANGED <<bridge, streams, up, link, ready, replica, greeted, breaks>>
  BY DEF WindowOpens, Receives
<1>2. Delivery' /\ Numbered' /\ Held' /\ Sent' /\ AsksFirst'
  BY <1>1, ReadParts
<1>3. Heard'
  BY <1>1, HeardBehind DEF bridge
<1>4. Copied' /\ Remembered'
  BY <1>1 DEF IInv, Copied, Remembered, bridge
<1>5. TypeOK'
  <2>1. origin' \in Nat
    BY <1>1, HeadTrue DEF IInv, Truthful, TypeOK
  <2>2. seen' \in Seq(Nat \X Nat) /\ handed' \in Seq(Nat)
    <3>1. /\ seen \in Seq(Nat \X Nat) /\ handed \in Seq(Nat)
          /\ <<>> \in Seq(Nat \X Nat) /\ <<>> \in Seq(Nat)
      BY EmptySeq DEF IInv, TypeOK
    <3> QED
      BY <1>1, <3>1
  <2> QED
    BY <1>1, <2>1, <2>2 DEF IInv, TypeOK, bridge
<1> QED
  BY <1>2, <1>3, <1>4, <1>5 DEF IInv

LEMMA InteractionInv ==
    ASSUME IInv, Interaction
    PROVE  IInv'
<1> DEFINE f  == Head(down)
           id == <<f.source, f.event.id>>
<1>1. /\ link = "open" /\ down # <<>> /\ f.type = "interaction"
      /\ down' = Tail(down)
      /\ UNCHANGED <<bridge, streams, up, link, ready, replica, origin, greeted, breaks>>
  BY DEF Interaction, Receives
<1>2. \/ (\E i \in DOMAIN seen : seen[i] = id) /\ UNCHANGED <<seen, handed>>
      \/ seen' = Last(Append(seen, id), MaxSeen) /\ handed' = Append(handed, id[2])
  BY DEF Interaction
<1>3. f \in Frame /\ Truthful(f, 1) /\ down \in Seq(Frame)
  BY <1>1, HeadTrue DEF IInv, Delivery
<1>4. id \in Nat \X Nat /\ f.event.id \in Nat /\ id[2] = f.event.id
  BY <1>1, <1>3 DEF Frame, Event
<1>5. seen \in Seq(Nat \X Nat) /\ handed \in Seq(Nat) /\ MaxSeen \in Nat
  BY StreamAssumption DEF IInv, TypeOK, StreamAssumption
<1> HIDE DEF id, f
<1>6. \A e : HandedIn(handed, e) => HandedIn(handed', e)
  <2>1. CASE handed' = handed
    BY <2>1
  <2>2. CASE handed' = Append(handed, id[2])
    <3>1. \A i \in DOMAIN handed : i \in DOMAIN handed' /\ handed'[i] = handed[i]
      BY <1>4, <1>5, <2>2, AppendAt
    <3> QED
      BY <3>1 DEF HandedIn
  <2> QED
    BY <1>2, <2>1, <2>2
<1>7. HandedIn(handed', f.event.id)
  <2>1. CASE \E i \in DOMAIN seen : seen[i] = id
    <3>1. HandedIn(handed, id[2])
      BY <2>1 DEF IInv, Remembered
    <3> QED
      BY <1>4, <1>6, <3>1
  <2>2. CASE handed' = Append(handed, id[2])
    BY <1>4, <1>5, <2>2, AppendAt DEF HandedIn
  <2> QED
    BY <1>2, <2>1, <2>2
<1>8. seen' \in Seq(Nat \X Nat) /\ handed' \in Seq(Nat) /\ Remembered'
  <2>1. CASE UNCHANGED <<seen, handed>>
    BY <1>5, <2>1 DEF IInv, Remembered
  <2>2. CASE seen' = Last(Append(seen, id), MaxSeen) /\ handed' = Append(handed, id[2])
    <3>1. Append(seen, id) \in Seq(Nat \X Nat)
      BY <1>4, <1>5
    <3>2. seen' \in Seq(Nat \X Nat) /\ DrawnFrom(seen', Append(seen, id))
      BY <1>5, <2>2, <3>1, LastFrom
    <3>3. ASSUME NEW i \in DOMAIN seen'
          PROVE  HandedIn(handed', seen'[i][2])
      <4>1. PICK j \in DOMAIN Append(seen, id) : seen'[i] = Append(seen, id)[j]
        BY <3>2 DEF DrawnFrom
      <4>2. CASE j \in DOMAIN seen /\ Append(seen, id)[j] = seen[j]
        BY <1>6, <4>1, <4>2 DEF IInv, Remembered
      <4>3. CASE Append(seen, id)[j] = id
        BY <1>4, <1>7, <4>1, <4>3
      <4> QED
        BY <1>4, <1>5, <4>2, <4>3, AppendAt
    <3> QED
      BY <1>4, <1>5, <2>2, <3>2, <3>3 DEF Remembered
  <2> QED
    BY <1>2, <2>1, <2>2
<1>9. Delivery' /\ Numbered' /\ Held' /\ Sent' /\ AsksFirst'
  BY <1>1, ReadParts
<1>10. Copied' /\ TypeOK'
  BY <1>1, <1>8 DEF IInv, Copied, TypeOK, bridge
<1>11. Heard'
  <2> SUFFICES ASSUME "interaction" \in streams, NEW i \in DOMAIN window
               PROVE  Reaches(down', handed', window[i])
    BY <1>1 DEF Heard, bridge
  <2>1. Reaches(down, handed, window[i])
    BY DEF IInv, Heard
  <2>2. CASE OnItsWay(down, window[i])
    <3>1. CASE OnItsWay(Tail(down), window[i])
      BY <1>1, <3>1 DEF Reaches
    <3>2. CASE NoWindow(down) /\ f.event = window[i]
      BY <1>1, <1>3, <1>7, <3>2, TailNoWindow DEF Reaches
    <3> QED
      BY <1>1, <1>3, <2>2, <3>1, <3>2, TailReaches DEF f
  <2>3. CASE HandedIn(handed, window[i].id) /\ NoWindow(down)
    BY <1>1, <1>3, <1>6, <2>3, TailNoWindow DEF Reaches
  <2> QED
    BY <2>1, <2>2, <2>3 DEF Reaches
<1> QED
  BY <1>8, <1>9, <1>10, <1>11 DEF IInv

LEMMA StutterInv ==
    ASSUME IInv, UNCHANGED vars
    PROVE  IInv'
<1>1. UNCHANGED <<bridge, surface, streams, up, down, link, ready, greeted, breaks>>
  BY DEF vars, bridge, surface
<1>2. TypeOK' /\ Delivery'
  BY <1>1 DEF IInv, TypeOK, Delivery, bridge, surface
<1>3. Numbered' /\ Held' /\ \A d : Leads(d) => Leads(d)'
  BY <1>1, BridgeSame
<1>4. AsksFirst' /\ Copied' /\ Heard' /\ Remembered'
  BY <1>1 DEF IInv, AsksFirst, Copied, Heard, Remembered, bridge, surface
<1>5. Sent'
  BY <1>1, <1>3 DEF IInv, Sent, Truthful, Leads, bridge, surface
<1> QED
  BY <1>2, <1>3, <1>4, <1>5 DEF IInv

\* The inductive invariant holds of every reachable state.
THEOREM StreamsInductive == Spec => []IInv
<1>1. ASSUME IInv, [Next]_vars
      PROVE  IInv'
  <2>1. CASE BridgeStep
    BY <1>1, <2>1, PublishInv, InteractInv DEF BridgeStep
  <2>2. CASE Serve
    BY <1>1, <2>2, SubscribeConsoleInv, SubscribeInteractionInv DEF Serve
  <2>3. CASE Connect
    BY <1>1, <2>3, ConnectInv
  <2>4. CASE Read
    BY <1>1, <2>4, OpenInv, SnapshotInv, DeltaInv, WindowOpensInv, InteractionInv DEF Read
  <2>5. CASE Break
    BY <1>1, <2>5, BreakInv
  <2>6. CASE Restart
    BY <1>1, <2>6, RestartInv
  <2>7. CASE UNCHANGED vars
    BY <1>1, <2>7, StutterInv
  <2> QED
    BY <1>1, <2>1, <2>2, <2>3, <2>4, <2>5, <2>6, <2>7 DEF Next
<1> QED
  BY InitInv, <1>1, PTL DEF Spec

-----------------------------------------------------------------------------
(* The invariant behind HandedInOrder, beside IInv.                        *)

\* The interaction stream is asked for once, and the core sends nothing of it
\* before it is.
Asked ==
    /\ \A i \in DOMAIN up : up[i].stream = "interaction" =>
          /\ "interaction" \notin streams
          /\ \A j \in DOMAIN up : up[j].stream = "interaction" => i = j
    /\ "interaction" \notin streams =>
          \A i \in DOMAIN down : down[i].type \notin {"interaction", "window"}

\* Once the announcement of the window is read, the surface knows its Bridge.
Heralded ==
    /\ origin <= instance
    /\ "interaction" \in streams /\ NoWindow(down) => origin = instance

WindowInOrder == Sorted(window) /\ \A i \in DOMAIN window : window[i].id <= events

Carries(f, id) == f.type = "interaction" /\ f.event.id = id

\* Events travel in order: behind the announcement the replayed window's, then
\* those that follow.
FramesInOrder ==
    /\ \A i \in DOMAIN down, m \in Nat : Carries(down[i], m) => m <= events
    /\ \A i, j \in DOMAIN down, m, n \in Nat :
          Carries(down[i], m) /\ Carries(down[j], n) /\ i < j => m < n
    /\ \A i, j \in DOMAIN down, m \in Nat :
          down[i].type = "window" /\ Carries(down[j], m) => i < j

\* The event m is not one the surface passed over.
Met(h, m) == \A j \in DOMAIN h : m <= h[j] => HandedIn(h, m)

\* Of what is held or travels, the surface was handed all it is past.
Passed ==
    origin = instance =>
        /\ \A j \in DOMAIN handed : handed[j] <= events
        /\ \A i \in DOMAIN window : Met(handed, window[i].id)
        /\ \A i \in DOMAIN down, m \in Nat : Carries(down[i], m) => Met(handed, m)

\* A client that was handed no more events than it can remember remembers all.
Recalled ==
    /\ Len(seen) <= Len(handed)
    /\ Len(handed) <= MaxSeen =>
          \A j \in DOMAIN handed : \E i \in DOMAIN seen : seen[i] = <<origin, handed[j]>>

Order ==
    /\ Asked /\ Heralded /\ WindowInOrder /\ FramesInOrder
    /\ Passed /\ Recalled /\ HandedInOrder

\* The frames of the interaction stream are among those of e, k places further
\* on.
Among(d, e, k) ==
    \A i \in DOMAIN d :
        /\ \A m \in Nat : Carries(d[i], m) => /\ i \in Nat /\ i + k \in DOMAIN e
                                             /\ Carries(e[i + k], m)
        /\ d[i].type = "window" => i \in Nat /\ i + k \in DOMAIN e /\ e[i + k].type = "window"

LEMMA InitOrder == Init => Order
<1> SUFFICES ASSUME Init
             PROVE  Order
  OBVIOUS
<1>1. Len(seen) = 0 /\ Len(handed) = 0 /\ handed = <<>> /\ up = <<>> /\ down = <<>> /\ window = <<>>
  BY DEF Init
<1>2. Asked /\ Heralded
  BY <1>1 DEF Init, Asked, Heralded
<1>3. WindowInOrder /\ FramesInOrder
  BY <1>1 DEF WindowInOrder, Sorted, FramesInOrder
<1>4. Passed /\ Recalled /\ HandedInOrder
  BY <1>1 DEF Passed, Recalled, HandedInOrder
<1> QED
  BY <1>2, <1>3, <1>4 DEF Order

LEMMA FramesStay ==
    ASSUME Order, NEW k \in Nat, Among(down', down, k), UNCHANGED events
    PROVE  FramesInOrder'
<1>1. \A i \in DOMAIN down', m \in Nat : Carries(down'[i], m) => m <= events'
  BY DEF Order, FramesInOrder, Among
<1>2. ASSUME NEW i \in DOMAIN down', NEW j \in DOMAIN down', NEW m \in Nat, NEW n \in Nat,
             Carries(down'[i], m), Carries(down'[j], n), i < j
      PROVE  m < n
  <2>1. /\ i \in Nat /\ j \in Nat /\ i + k \in DOMAIN down /\ j + k \in DOMAIN down
        /\ Carries(down[i + k], m) /\ Carries(down[j + k], n)
    BY <1>2 DEF Among
  <2>2. i + k < j + k
    BY <1>2, <2>1
  <2> QED
    BY <2>1, <2>2 DEF Order, FramesInOrder
<1>3. ASSUME NEW i \in DOMAIN down', NEW j \in DOMAIN down', NEW m \in Nat,
             down'[i].type = "window", Carries(down'[j], m)
      PROVE  i < j
  <2>1. /\ i \in Nat /\ j \in Nat /\ i + k \in DOMAIN down /\ j + k \in DOMAIN down
        /\ down[i + k].type = "window" /\ Carries(down[j + k], m)
    BY <1>3 DEF Among
  <2>2. i + k < j + k
    BY <2>1 DEF Order, FramesInOrder
  <2> QED
    BY <2>1, <2>2
<1> QED
  BY <1>1, <1>2, <1>3 DEF FramesInOrder, Carries

\* A step that neither hands an event over nor makes one.
LEMMA NothingNew ==
    ASSUME Order, NEW k \in Nat, Among(down', down, k), DrawnFrom(window', window),
           UNCHANGED <<instance, events, origin, seen, handed>>
    PROVE  /\ FramesInOrder' /\ Passed' /\ Recalled' /\ HandedInOrder'
           /\ \A i \in DOMAIN window' : window'[i].id <= events'
<1>1. FramesInOrder'
  BY FramesStay
<1>2. Passed'
  <2> SUFFICES ASSUME origin = instance
               PROVE  /\ \A j \in DOMAIN handed : handed[j] <= events
                      /\ \A i \in DOMAIN window' : Met(handed, window'[i].id)
                      /\ \A i \in DOMAIN down', m \in Nat : Carries(down'[i], m) => Met(handed, m)
    BY DEF Passed, Carries, Met, HandedIn
  <2>1. /\ \A j \in DOMAIN handed : handed[j] <= events
        /\ \A i \in DOMAIN window : Met(handed, window[i].id)
        /\ \A i \in DOMAIN down, m \in Nat : Carries(down[i], m) => Met(handed, m)
    BY DEF Order, Passed
  <2> QED
    BY <2>1 DEF DrawnFrom, Among
<1>3. Recalled' /\ HandedInOrder'
  BY DEF Order, Recalled, HandedInOrder
<1>4. \A i \in DOMAIN window' : window'[i].id <= events'
  BY DEF Order, WindowInOrder, DrawnFrom
<1> QED
  BY <1>1, <1>2, <1>3, <1>4

\* So nothing changes in the window either.
LEMMA NothingRead ==
    ASSUME Order, NEW k \in Nat, Among(down', down, k), UNCHANGED bridge,
           UNCHANGED <<origin, seen, handed>>
    PROVE  FramesInOrder' /\ Passed' /\ Recalled' /\ HandedInOrder' /\ WindowInOrder'
<1>1. DrawnFrom(window', window) /\ UNCHANGED <<instance, events, window>>
  BY DEF DrawnFrom, bridge
<1>2. /\ FramesInOrder' /\ Passed' /\ Recalled' /\ HandedInOrder'
  BY <1>1, NothingNew
<1>3. WindowInOrder'
  BY <1>1 DEF Order, WindowInOrder, Sorted
<1> QED
  BY <1>2, <1>3

\* Sending what is not of the interaction stream.
LEMMA AppendAmong ==
    ASSUME NEW d \in Seq(Frame), NEW f \in Frame, f.type \notin {"interaction", "window"}
    PROVE  /\ Among(Append(d, f), d, 0)
           /\ NoWindow(Append(d, f)) => NoWindow(d)
           /\ (\A i \in DOMAIN d : d[i].type \notin {"interaction", "window"}) =>
                 \A i \in DOMAIN Append(d, f) : Append(d, f)[i].type \notin {"interaction", "window"}
<1>1. ASSUME NEW i \in DOMAIN Append(d, f), NEW m \in Nat, Carries(Append(d, f)[i], m)
      PROVE  i \in Nat /\ i + 0 \in DOMAIN d /\ Carries(d[i + 0], m)
  <2>1. i \in DOMAIN d /\ Append(d, f)[i] = d[i]
    BY <1>1, AppendAt DEF Carries
  <2>2. i \in Nat /\ i + 0 = i
    BY <2>1, LenProperties
  <2> QED
    BY <1>1, <2>1, <2>2
<1>2. ASSUME NEW i \in DOMAIN Append(d, f), Append(d, f)[i].type = "window"
      PROVE  i \in Nat /\ i + 0 \in DOMAIN d /\ d[i + 0].type = "window"
  <2>1. i \in DOMAIN d /\ Append(d, f)[i] = d[i]
    BY <1>2, AppendAt
  <2>2. i \in Nat /\ i + 0 = i
    BY <2>1, LenProperties
  <2> QED
    BY <1>2, <2>1, <2>2
<1>3. Among(Append(d, f), d, 0)
  BY <1>1, <1>2 DEF Among
<1> QED
  BY <1>3, AppendAt DEF NoWindow

LEMMA PublishOrder ==
    ASSUME IInv, Order, NEW new \in Console, Publish(new)
    PROVE  Order'
<1> DEFINE change == Difference(console, new)
           delta  == [type |-> "delta", source |-> instance, seq |-> seq + 1, change |-> change]
           kept   == {i \in DOMAIN window : window[i].key \notin change.removed}
<1>1. /\ instance \in Nat /\ seq \in Nat /\ console \in Console /\ window \in Seq(Event)
      /\ down \in Seq(Frame)
  BY DEF IInv, TypeOK, Delivery
<1>2. change \in Change
  BY <1>1, DifferenceType
<1>3. /\ seq' = seq + 1
      /\ down' = IF "console" \in streams THEN Append(down, delta) ELSE down
      /\ window' = Picked(window, kept)
      /\ UNCHANGED <<instance, events, streams, up, link, ready, replica, origin, seen, handed>>
  BY DEF Publish, SendTo, surface
<1>4. delta \in Frame /\ delta.type = "delta"
  BY <1>1, <1>2 DEF Frame
<1> HIDE DEF change, delta
<1>5. /\ Among(down', down, 0)
      /\ NoWindow(down') => NoWindow(down)
      /\ (\A i \in DOMAIN down : down[i].type \notin {"interaction", "window"}) =>
            \A i \in DOMAIN down' : down'[i].type \notin {"interaction", "window"}
  <2>1. CASE down' = Append(down, delta)
    BY <1>1, <1>4, <2>1, AppendAmong
  <2>2. CASE down' = down
    <3>1. \A i \in DOMAIN down : i \in Nat /\ i + 0 = i
      BY <1>1, LenProperties
    <3> QED
      BY <2>2, <3>1 DEF Among
  <2> QED
    BY <1>3, <2>1, <2>2
<1>6. kept \in SUBSET DOMAIN window
  OBVIOUS
<1> HIDE DEF kept
<1>7. DrawnFrom(window', window) /\ Sorted(window')
  BY <1>1, <1>3, <1>6, PickedFrom, PickedSorted DEF Order, WindowInOrder
<1>8. /\ FramesInOrder' /\ Passed' /\ Recalled' /\ HandedInOrder'
      /\ \A i \in DOMAIN window' : window'[i].id <= events'
  BY <1>3, <1>5, <1>7, NothingNew
<1>9. WindowInOrder'
  BY <1>7, <1>8 DEF WindowInOrder, Sorted
<1>10. Asked' /\ Heralded'
  BY <1>3, <1>5 DEF Order, Asked, Heralded, NoWindow
<1> QED
  BY <1>8, <1>9, <1>10 DEF Order

\* An event enters the window behind those it holds.
LEMMA InteractWindow ==
    ASSUME IInv, Order, NEW k \in Keys, NEW phase \in Phases, Interact(k, phase)
    PROVE  LET event == [id |-> events + 1, key |-> k, phase |-> phase]
           IN  /\ event \in Event
               /\ Sorted(window')
               /\ \A i \in DOMAIN window' : \/ window'[i] = event
                                            \/ \E j \in DOMAIN window : window'[i] = window[j]
<1> DEFINE event == [id |-> events + 1, key |-> k, phase |-> phase]
           rest  == Settled(window, k, phase)
<1>1. window \in Seq(Event) /\ events \in Nat /\ Sorted(window)
  BY DEF IInv, TypeOK, Order, WindowInOrder
<1>2. event \in Event /\ event.id = events + 1
  BY <1>1 DEF Event
<1>3. window' = Trimmed(Append(rest, event), k)
  BY DEF Interact
<1> HIDE DEF event
<1>4. rest \in Seq(Event) /\ DrawnFrom(rest, window) /\ Sorted(rest)
  BY <1>1, SettledFrom
<1> HIDE DEF rest
<1>5. Append(rest, event) \in Seq(Event)
  BY <1>2, <1>4
<1>6. \A i \in DOMAIN rest : rest[i].id < event.id
  <2>1. \A j \in DOMAIN window : window[j].id <= events /\ window[j].id \in Nat
    <3>1. \A j \in DOMAIN window : window[j] \in Event
      BY <1>1
    <3> QED
      BY <3>1 DEF Order, WindowInOrder, Event
  <2>2. ASSUME NEW i \in DOMAIN rest
        PROVE  rest[i].id < event.id
    <3>1. rest[i].id <= events /\ rest[i].id \in Nat
      BY <1>4, <2>1 DEF DrawnFrom
    <3> QED
      BY <1>1, <1>2, <3>1
  <2> QED
    BY <2>2
<1>7. Sorted(Append(rest, event))
  <2> SUFFICES ASSUME NEW i \in DOMAIN Append(rest, event), NEW j \in DOMAIN Append(rest, event),
                      i < j
               PROVE  Append(rest, event)[i].id < Append(rest, event)[j].id
    BY DEF Sorted
  <2>1. /\ i \in DOMAIN rest /\ Append(rest, event)[i] = rest[i]
        /\ \/ j \in DOMAIN rest /\ Append(rest, event)[j] = rest[j]
           \/ Append(rest, event)[j] = event
    <3>1. /\ \/ i \in DOMAIN rest /\ Append(rest, event)[i] = rest[i]
             \/ i = Len(rest) + 1
          /\ \/ j \in DOMAIN rest /\ Append(rest, event)[j] = rest[j]
             \/ j = Len(rest) + 1 /\ Append(rest, event)[j] = event
      BY <1>2, <1>4, AppendAt
    <3>2. /\ Len(rest) \in Nat /\ i \in 1..Len(rest) + 1 /\ j \in 1..Len(rest) + 1
      BY <1>2, <1>4, <1>5, LenProperties, AppendProperties
    <3>3. ~(i = Len(rest) + 1)
      <4>1. i \in Int /\ j \in Int /\ j <= Len(rest) + 1
        BY <3>2
      <4> QED
        BY <3>2, <4>1
    <3> QED
      BY <3>1, <3>3
  <2> QED
    BY <1>4, <1>6, <2>1 DEF Sorted
<1>8. Sorted(window') /\ DrawnFrom(window', Append(rest, event))
  BY <1>3, <1>5, <1>7, TrimmedFrom
<1>9. ASSUME NEW i \in DOMAIN window', window'[i] # event
      PROVE  \E j \in DOMAIN window : window'[i] = window[j]
  <2>1. PICK m \in DOMAIN Append(rest, event) : window'[i] = Append(rest, event)[m]
    BY <1>8 DEF DrawnFrom
  <2>2. \E n \in DOMAIN rest : window'[i] = rest[n]
    BY <1>2, <1>4, <1>9, <2>1, AppendAt
  <2> QED
    BY <1>4, <2>2 DEF DrawnFrom
<1> QED
  BY <1>2, <1>8, <1>9 DEF event

LEMMA InteractOrder ==
    ASSUME IInv, Order, NEW k \in Keys, NEW phase \in Phases, Interact(k, phase)
    PROVE  Order'
<1>0. PICK event \in Event :
          /\ event = [id |-> events + 1, key |-> k, phase |-> phase]
          /\ Sorted(window')
          /\ \A i \in DOMAIN window' : \/ window'[i] = event
                                       \/ \E j \in DOMAIN window : window'[i] = window[j]
  BY InteractWindow
<1> DEFINE frame == [type |-> "interaction", source |-> instance, event |-> event]
<1>1. /\ instance \in Nat /\ events \in Nat /\ window \in Seq(Event) /\ down \in Seq(Frame)
      /\ handed \in Seq(Nat)
  BY DEF IInv, TypeOK, Delivery
<1>2. frame \in Frame /\ frame.type = "interaction" /\ frame.event = event
  BY <1>1 DEF Frame
<1>3. /\ event.id = events + 1 /\ events' = events + 1
      /\ down' = IF "interaction" \in streams THEN Append(down, frame) ELSE down
      /\ UNCHANGED <<instance, streams, up, link, origin, seen, handed>>
  BY <1>0 DEF Interact, SendTo, surface
<1> HIDE DEF frame
<1>4. \A i \in DOMAIN down' : \/ i \in DOMAIN down /\ down'[i] = down[i]
                              \/ /\ "interaction" \in streams
                                 /\ i = Len(down) + 1 /\ down'[i] = frame
                                 /\ \A j \in DOMAIN down' : j <= i
  <2>1. CASE "interaction" \in streams
    <3>1. down' = Append(down, frame)
      BY <1>3, <2>1
    <3>2. Len(down) \in Nat /\ DOMAIN down' = 1..Len(down) + 1
      BY <1>1, <1>2, <3>1, LenProperties, AppendProperties
    <3> QED
      BY <1>1, <1>2, <2>1, <3>1, <3>2, AppendAt
  <2>2. CASE "interaction" \notin streams
    BY <1>3, <2>2
  <2> QED
    BY <2>1, <2>2
<1>5. NoWindow(down') => NoWindow(down)
  BY <1>1, <1>2, <1>3, AppendAt DEF NoWindow
<1>6. Asked' /\ Heralded'
  BY <1>3, <1>5 DEF Order, Asked, Heralded, NoWindow
<1>7. WindowInOrder'
  <2>1. ASSUME NEW i \in DOMAIN window'
        PROVE  window'[i].id <= events'
    <3>1. \A j \in DOMAIN window : window[j].id <= events /\ window[j].id \in Nat
      <4>1. \A j \in DOMAIN window : window[j] \in Event
        BY <1>1
      <4> QED
        BY <4>1 DEF Order, WindowInOrder, Event
    <3>2. CASE window'[i] = event
      BY <1>1, <1>3, <3>2
    <3>3. CASE \E j \in DOMAIN window : window'[i] = window[j]
      BY <1>1, <1>3, <3>1, <3>3
    <3> QED
      BY <1>0, <3>2, <3>3
  <2> QED
    BY <1>0, <2>1 DEF WindowInOrder, Sorted
<1>8. \A m \in Nat : Carries(frame, m) => m = events + 1
  BY <1>2, <1>3 DEF Carries
<1>9. FramesInOrder'
  <2>1. ASSUME NEW i \in DOMAIN down', NEW m \in Nat, Carries(down'[i], m)
        PROVE  m <= events'
    <3>1. CASE i \in DOMAIN down /\ down'[i] = down[i]
      BY <1>1, <1>3, <2>1, <3>1 DEF Order, FramesInOrder
    <3>2. CASE down'[i] = frame
      BY <1>1, <1>3, <1>8, <2>1, <3>2
    <3> QED
      BY <1>4, <3>1, <3>2
  <2>2. ASSUME NEW i \in DOMAIN down', NEW j \in DOMAIN down', NEW m \in Nat, NEW n \in Nat,
               Carries(down'[i], m), Carries(down'[j], n), i < j
        PROVE  m < n
    <3>0. down' \in Seq(Frame)
      BY <1>1, <1>2, <1>3
    <3>1. i \in Nat /\ j \in Nat
      BY <3>0, LenProperties
    <3>2. i \in DOMAIN down /\ down'[i] = down[i]
      BY <1>4, <2>2, <3>1
    <3>3. m <= events
      BY <2>2, <3>2 DEF Order, FramesInOrder
    <3>4. CASE j \in DOMAIN down /\ down'[j] = down[j]
      BY <2>2, <3>2, <3>4 DEF Order, FramesInOrder
    <3>5. CASE down'[j] = frame
      BY <1>1, <1>8, <2>2, <3>3, <3>5
    <3> QED
      BY <1>4, <3>4, <3>5
  <2>3. ASSUME NEW i \in DOMAIN down', NEW j \in DOMAIN down', NEW m \in Nat,
               down'[i].type = "window", Carries(down'[j], m)
        PROVE  i < j
    <3>0. down' \in Seq(Frame)
      BY <1>1, <1>2, <1>3
    <3>1. i \in Nat /\ j \in Nat
      BY <3>0, LenProperties
    <3>2. i \in DOMAIN down /\ down'[i] = down[i]
      BY <1>2, <1>4, <2>3
    <3>3. CASE j \in DOMAIN down /\ down'[j] = down[j]
      BY <2>3, <3>2, <3>3 DEF Order, FramesInOrder
    <3>4. CASE down'[j] = frame /\ \A n \in DOMAIN down' : n <= j
      <4>1. i <= j /\ i # j
        BY <1>2, <2>3, <3>4
      <4> QED
        BY <3>1, <4>1
    <3> QED
      BY <1>4, <3>3, <3>4
  <2> QED
    BY <2>1, <2>2, <2>3 DEF FramesInOrder, Carries
<1>10. Passed'
  <2> SUFFICES ASSUME origin = instance
               PROVE  /\ \A j \in DOMAIN handed : handed[j] <= events'
                      /\ \A i \in DOMAIN window' : Met(handed, window'[i].id)
                      /\ \A i \in DOMAIN down', m \in Nat : Carries(down'[i], m) => Met(handed, m)
    BY <1>3 DEF Passed, Carries, Met, HandedIn
  <2>1. /\ \A j \in DOMAIN handed : handed[j] <= events
        /\ \A i \in DOMAIN window : Met(handed, window[i].id)
        /\ \A i \in DOMAIN down, m \in Nat : Carries(down[i], m) => Met(handed, m)
    BY DEF Order, Passed
  <2>2. \A j \in DOMAIN handed : handed[j] \in Nat
    BY <1>1, ElementOfSeq, LenProperties
  <2>3. Met(handed, events + 1)
    <3>1. ASSUME NEW j \in DOMAIN handed
          PROVE  ~(events + 1 <= handed[j])
      BY <1>1, <2>1, <2>2
    <3> QED
      BY <3>1 DEF Met
  <2>4. \A j \in DOMAIN handed : handed[j] <= events'
    BY <1>1, <1>3, <2>1, <2>2
  <2>5. \A i \in DOMAIN window' : Met(handed, window'[i].id)
    BY <1>0, <1>3, <2>1, <2>3
  <2>6. \A i \in DOMAIN down', m \in Nat : Carries(down'[i], m) => Met(handed, m)
    BY <1>4, <1>8, <2>1, <2>3
  <2> QED
    BY <2>4, <2>5, <2>6
<1>11. Recalled' /\ HandedInOrder'
  BY <1>3 DEF Order, Recalled, HandedInOrder
<1> QED
  BY <1>6, <1>7, <1>9, <1>10, <1>11 DEF Order

\* A connection that breaks takes its frames along.
LEMMA DroppedOrder ==
    ASSUME IInv, Order, Dropped, UNCHANGED bridge, UNCHANGED <<origin, seen, handed>>
    PROVE  Order'
<1>1. up' = <<>> /\ down' = <<>> /\ streams' = {}
  BY DEF Dropped
<1>2. Among(down', down, 0)
  BY <1>1 DEF Among
<1>3. /\ FramesInOrder' /\ Passed' /\ Recalled' /\ HandedInOrder' /\ WindowInOrder'
  BY <1>2, NothingRead
<1>4. Asked' /\ Heralded'
  BY <1>1 DEF Order, Asked, Heralded, bridge
<1> QED
  BY <1>3, <1>4 DEF Order

LEMMA RestartOrder ==
    ASSUME IInv, Order, Restart
    PROVE  Order'
<1>1. /\ up' = <<>> /\ down' = <<>> /\ streams' = {} /\ window' = <<>>
      /\ instance' = instance + 1
      /\ UNCHANGED <<origin, seen, handed>>
  BY DEF Restart, Dropped, surface
<1>2. instance \in Nat /\ origin \in Nat /\ origin <= instance
  BY DEF IInv, TypeOK, Order, Heralded
<1>3. Asked' /\ Heralded' /\ WindowInOrder' /\ FramesInOrder'
  <2>1. origin <= instance + 1
    BY <1>2
  <2> QED
    BY <1>1, <2>1 DEF Asked, Heralded, WindowInOrder, Sorted, FramesInOrder
<1>4. Passed'
  <2>1. origin' # instance'
    BY <1>1, <1>2
  <2> QED
    BY <2>1 DEF Passed
<1>5. Recalled' /\ HandedInOrder'
  BY <1>1 DEF Order, Recalled, HandedInOrder
<1> QED
  BY <1>3, <1>4, <1>5 DEF Order

LEMMA ConnectOrder ==
    ASSUME IInv, Order, Connect
    PROVE  Order'
<1> DEFINE hello == [type |-> "hello_ok", source |-> instance]
<1>1. /\ link = "down" /\ down' = <<hello>>
      /\ UNCHANGED <<bridge, streams, up, ready, surface, breaks>>
  BY DEF Connect
<1>2. up = <<>> /\ streams = {}
  BY <1>1 DEF IInv, AsksFirst
<1>3. \A i \in DOMAIN down' : down'[i].type = "hello_ok"
  BY <1>1
<1>4. Among(down', down, 0)
  BY <1>3 DEF Among, Carries
<1>5. /\ FramesInOrder' /\ Passed' /\ Recalled' /\ HandedInOrder' /\ WindowInOrder'
  BY <1>1, <1>4, NothingRead DEF surface
<1>6. Asked' /\ Heralded'
  BY <1>1, <1>2, <1>3 DEF Order, Asked, Heralded, bridge, surface
<1> QED
  BY <1>5, <1>6 DEF Order

LEMMA SubscribeConsoleOrder ==
    ASSUME IInv, Order, SubscribeConsole
    PROVE  Order'
<1>1. /\ up # <<>> /\ up' = Tail(up) /\ streams' = streams \cup {"console"}
      /\ UNCHANGED <<bridge, link, ready, surface, greeted, breaks>>
  BY DEF SubscribeConsole
<1>2. /\ streams = {}
      /\ \A i \in DOMAIN down' : down'[i].type \notin {"interaction", "window"}
  BY ConsoleAnswer
<1>3. Among(down', down, 0)
  BY <1>2 DEF Among, Carries
<1>4. /\ FramesInOrder' /\ Passed' /\ Recalled' /\ HandedInOrder' /\ WindowInOrder'
  BY <1>1, <1>3, NothingRead DEF surface
<1>5. Asked'
  <2>1. up \in Seq(Ask)
    BY DEF IInv, Delivery
  <2>2. \A i, j \in DOMAIN up' : up'[i].stream = "interaction" /\ up'[j].stream = "interaction" => i = j
    <3> SUFFICES ASSUME NEW i \in DOMAIN Tail(up), NEW j \in DOMAIN Tail(up),
                        Tail(up)[i].stream = "interaction", Tail(up)[j].stream = "interaction"
                 PROVE  i = j
      BY <1>1
    <3>1. i + 1 = j + 1 /\ i \in Nat /\ j \in Nat
      BY <1>1, <2>1, TailAt DEF Order, Asked
    <3> QED
      BY <3>1
  <2> QED
    BY <1>1, <1>2, <2>2 DEF Asked
<1>6. Heralded'
  BY <1>1, <1>2 DEF Order, Heralded, bridge, surface
<1> QED
  BY <1>4, <1>5, <1>6 DEF Order

LEMMA OpenOrder ==
    ASSUME IInv, Order, Open
    PROVE  Order'
<1>1. /\ link = "greeting" /\ down' = Tail(down)
      /\ UNCHANGED <<bridge, streams, surface, greeted, breaks>>
  BY DEF Open
<1>2. streams = {} /\ down' = <<>>
  <2>1. streams = {} /\ down = <<[type |-> "hello_ok", source |-> instance]>>
    BY <1>1 DEF IInv, AsksFirst
  <2> QED
    BY <1>1, <2>1
<1>3. \A i \in DOMAIN up' : up'[i].stream = "interaction" => i = 2
  <2>1. PICK after : up' = <<[stream |-> "console", after |-> after],
                             [stream |-> "interaction", after |-> after]>>
    BY DEF Open
  <2> QED
    BY <2>1
<1>4. Among(down', down, 0)
  BY <1>2 DEF Among
<1>5. /\ FramesInOrder' /\ Passed' /\ Recalled' /\ HandedInOrder' /\ WindowInOrder'
  BY <1>1, <1>4, NothingRead DEF surface
<1>6. Asked' /\ Heralded'
  BY <1>1, <1>2, <1>3 DEF Order, Asked, Heralded, bridge, surface
<1> QED
  BY <1>5, <1>6 DEF Order

LEMMA SubscribeInteractionOrder ==
    ASSUME IInv, Order, SubscribeInteraction
    PROVE  Order'
<1>1. /\ up # <<>> /\ up[1].stream = "interaction" /\ up' = Tail(up)
      /\ streams' = streams \cup {"interaction"} /\ up \in Seq(Ask)
      /\ UNCHANGED <<bridge, link, ready, surface, greeted, breaks>>
  <2>1. up \in Seq(Ask) /\ up # <<>> /\ Head(up).stream = "interaction"
    BY DEF IInv, Delivery, SubscribeInteraction
  <2>2. Head(up) = up[1]
    BY <2>1, TailAt
  <2> QED
    BY <2>1, <2>2 DEF SubscribeInteraction
<1> DEFINE n == Len(down) + 1
<1>2. n \in Nat /\ events \in Nat /\ window \in Seq(Event)
  <2>1. Len(down) \in Nat
    BY LenProperties DEF IInv, Delivery
  <2> QED
    BY <2>1 DEF IInv, TypeOK
<1>3. \A i \in DOMAIN down : down[i].type \notin {"interaction", "window"}
  <2>1. 1 \in DOMAIN up
    BY <1>1, TailAt
  <2> QED
    BY <1>1, <2>1 DEF Order, Asked
<1>4. /\ n \in DOMAIN down' /\ down'[n].type = "window"
      /\ \A i \in DOMAIN down', m \in Nat : Carries(down'[i], m) =>
            i \in Nat /\ i - n \in DOMAIN window /\ window[i - n].id = m
      /\ \A i \in DOMAIN down' : down'[i].type = "window" => i = n
  BY <1>3, WindowAnswer DEF Carries
<1> HIDE DEF n
<1>5. Asked'
  <2> SUFFICES ASSUME NEW i \in DOMAIN up', up'[i].stream = "interaction"
               PROVE  FALSE
    BY <1>1 DEF Asked
  <2>1. i \in Nat \ {0} /\ i + 1 \in DOMAIN up /\ up[i + 1].stream = "interaction" /\ 1 \in DOMAIN up
    BY <1>1, TailAt
  <2>2. i + 1 = 1
    BY <1>1, <2>1 DEF Order, Asked
  <2> QED
    BY <2>1, <2>2
<1>6. Heralded'
  BY <1>1, <1>4 DEF Order, Heralded, NoWindow, bridge, surface
<1>7. WindowInOrder' /\ Recalled' /\ HandedInOrder'
  BY <1>1 DEF Order, WindowInOrder, Sorted, Recalled, HandedInOrder, bridge, surface
<1>8. FramesInOrder'
  <2>1. \A i \in DOMAIN down', m \in Nat : Carries(down'[i], m) => m <= events
    BY <1>4 DEF Order, WindowInOrder
  <2>2. ASSUME NEW i \in DOMAIN down', NEW j \in DOMAIN down', NEW p \in Nat, NEW q \in Nat,
               Carries(down'[i], p), Carries(down'[j], q), i < j
        PROVE  p < q
    <3>1. /\ i \in Nat /\ i - n \in DOMAIN window /\ window[i - n].id = p
          /\ j \in Nat /\ j - n \in DOMAIN window /\ window[j - n].id = q
      BY <1>4, <2>2
    <3>2. i - n < j - n
      BY <1>2, <2>2, <3>1
    <3> QED
      BY <3>1, <3>2 DEF Order, WindowInOrder, Sorted
  <2>3. ASSUME NEW i \in DOMAIN down', NEW j \in DOMAIN down', NEW m \in Nat,
               down'[i].type = "window", Carries(down'[j], m)
        PROVE  i < j
    <3>1. i = n /\ j \in Nat /\ j - n \in DOMAIN window
      BY <1>4, <2>3
    <3>2. j - n \in Nat \ {0}
      BY <1>2, <3>1, LenProperties
    <3> QED
      BY <1>2, <3>1, <3>2
  <2> QED
    BY <1>1, <2>1, <2>2, <2>3 DEF FramesInOrder, Carries, bridge
<1>9. Passed'
  <2> SUFFICES ASSUME origin = instance
               PROVE  /\ \A j \in DOMAIN handed : handed[j] <= events
                      /\ \A i \in DOMAIN window : Met(handed, window[i].id)
                      /\ \A i \in DOMAIN down', m \in Nat : Carries(down'[i], m) => Met(handed, m)
    BY <1>1 DEF Passed, Carries, Met, HandedIn, bridge, surface
  <2> QED
    BY <1>4 DEF Order, Passed
<1> QED
  BY <1>5, <1>6, <1>7, <1>8, <1>9 DEF Order

\* The surface reads a frame.
LEMMA TailOrder ==
    ASSUME IInv, Order, down # <<>>, down' = Tail(down), UNCHANGED <<bridge, up, streams>>
    PROVE  /\ Among(down', down, 1) /\ Asked'
           /\ NoWindow(down') /\ Head(down).type # "window" => NoWindow(down)
<1>1. down \in Seq(Frame)
  BY DEF IInv, Delivery
<1>2. Among(down', down, 1)
  BY <1>1, TailAt DEF Among
<1>3. Asked'
  BY <1>1, TailAt DEF Order, Asked
<1>4. ASSUME NoWindow(Tail(down)), Head(down).type # "window"
      PROVE  NoWindow(down)
  <2> SUFFICES ASSUME NEW j \in DOMAIN down, down[j].type = "window"
               PROVE  FALSE
    BY DEF NoWindow
  <2>1. CASE j = 1
    BY <1>1, <1>4, <2>1, TailAt
  <2>2. CASE j # 1
    <3>1. j - 1 \in DOMAIN Tail(down) /\ Tail(down)[j - 1] = down[j]
      BY <1>1, <2>2, TailAt
    <3> QED
      BY <1>4, <3>1 DEF NoWindow
  <2> QED
    BY <2>1, <2>2
<1> QED
  BY <1>2, <1>3, <1>4

LEMMA ReadOrder ==
    ASSUME IInv, Order, down # <<>>, down' = Tail(down), Head(down).type # "window",
           UNCHANGED <<bridge, up, streams, origin, seen, handed>>
    PROVE  Order'
<1>1. /\ Among(down', down, 1) /\ Asked'
      /\ NoWindow(down') => NoWindow(down)
  BY TailOrder
<1>2. /\ FramesInOrder' /\ Passed' /\ Recalled' /\ HandedInOrder' /\ WindowInOrder'
  BY <1>1, NothingRead
<1>3. Heralded'
  BY <1>1 DEF Order, Heralded, bridge, NoWindow
<1> QED
  BY <1>1, <1>2, <1>3 DEF Order

LEMMA WindowOpensOrder ==
    ASSUME IInv, Order, WindowOpens
    PROVE  Order'
<1>1. /\ down # <<>> /\ down' = Tail(down) /\ origin' = Head(down).source
      /\ IF origin = origin' THEN UNCHANGED <<seen, handed>> ELSE seen' = <<>> /\ handed' = <<>>
      /\ UNCHANGED <<bridge, streams, up>>
  BY DEF WindowOpens, Receives
<1>2. origin' = instance /\ instance \in Nat
  BY <1>1, HeadTrue DEF Truthful, IInv, TypeOK
<1>3. Among(down', down, 1) /\ Asked'
  BY <1>1, TailOrder
<1>4. Heralded'
  BY <1>1, <1>2 DEF Heralded, bridge
<1>5. CASE origin = origin'
  BY <1>1, <1>3, <1>4, <1>5, NothingRead DEF Order
<1>6. CASE origin # origin'
  <2>1. seen' = <<>> /\ handed' = <<>>
    BY <1>1, <1>6
  <2>2. Passed' /\ Recalled' /\ HandedInOrder'
    BY <2>1 DEF Passed, Met, Recalled, HandedInOrder
  <2>3. WindowInOrder'
    BY <1>1 DEF Order, WindowInOrder, Sorted, bridge
  <2>4. FramesInOrder'
    BY <1>1, <1>3, FramesStay DEF bridge
  <2> QED
    BY <1>3, <1>4, <2>2, <2>3, <2>4 DEF Order
<1> QED
  BY <1>5, <1>6

\* What a last of a sequence leaves out: nothing that fits.
LEMMA LastWhole ==
    ASSUME NEW S, NEW s \in Seq(S), NEW n \in Nat
    PROVE  /\ Len(Last(s, n)) <= Len(s)
           /\ Len(s) <= n => Last(s, n) = s
<1>1. Len(s) \in Nat /\ DOMAIN s = 1..Len(s) /\ \A i \in 1..Len(s) : s[i] \in S
  BY LenProperties, ElementOfSeq
<1>2. CASE Len(s) > n
  <2>1. Len(s) - n + 1 \in 1..Len(s) + 1 /\ ~(Len(s) <= n)
    BY <1>1, <1>2
  <2>2. \A i \in Len(s) - n + 1..Len(s) : s[i] \in S
    BY <1>1, <2>1
  <2>3. Len(SubSeq(s, Len(s) - n + 1, Len(s))) =
            IF Len(s) - n + 1 <= Len(s) THEN Len(s) - (Len(s) - n + 1) + 1 ELSE 0
    BY <1>1, <2>1, <2>2, SubSeqProperties
  <2>4. Len(SubSeq(s, Len(s) - n + 1, Len(s))) <= Len(s)
    BY <1>1, <1>2, <2>3
  <2> QED
    BY <1>2, <2>1, <2>4 DEF Last
<1>3. CASE ~(Len(s) > n)
  <2>1. SubSeq(s, 1, Len(s)) = s
    OBVIOUS
  <2> QED
    BY <1>1, <1>3, <2>1 DEF Last
<1> QED
  BY <1>2, <1>3

LEMMA InteractionOrder ==
    ASSUME IInv, Order, Interaction
    PROVE  Order'
<1> DEFINE f == Head(down)
           e == f.event.id
<1>1. /\ down # <<>> /\ f.type = "interaction" /\ down' = Tail(down)
      /\ UNCHANGED <<bridge, streams, up, origin>>
      /\ \/ (\E i \in DOMAIN seen : seen[i] = <<f.source, e>>) /\ UNCHANGED <<seen, handed>>
         \/ /\ ~\E i \in DOMAIN seen : seen[i] = <<f.source, e>>
            /\ seen' = Last(Append(seen, <<f.source, e>>), MaxSeen)
            /\ handed' = Append(handed, e)
  BY DEF Interaction, Receives
<1>2. f \in Frame /\ f.source = instance /\ down \in Seq(Frame) /\ 1 \in DOMAIN down /\ down[1] = f
  BY <1>1, HeadTrue, TailAt DEF IInv, Delivery, Truthful
<1>3. e \in Nat /\ Carries(down[1], e)
  BY <1>1, <1>2 DEF Frame, Event, Carries
<1>4. /\ seen \in Seq(Nat \X Nat) /\ handed \in Seq(Nat) /\ window \in Seq(Event)
      /\ MaxSeen \in Nat /\ events \in Nat /\ origin \in Nat
  BY StreamAssumption DEF IInv, TypeOK, StreamAssumption
<1> HIDE DEF f, e
<1>5. CASE UNCHANGED <<seen, handed>>
  BY <1>1, <1>5, ReadOrder DEF f
<1>6. CASE /\ ~\E i \in DOMAIN seen : seen[i] = <<f.source, e>>
           /\ seen' = Last(Append(seen, <<f.source, e>>), MaxSeen)
           /\ handed' = Append(handed, e)
  <2>1. "interaction" \in streams /\ NoWindow(down) /\ origin = instance
    <3>1. "interaction" \in streams
      BY <1>1, <1>2 DEF Order, Asked
    <3>2. ASSUME NEW j \in DOMAIN down, down[j].type = "window"
          PROVE  FALSE
      <4>1. j < 1
        BY <1>2, <1>3, <3>2 DEF Order, FramesInOrder
      <4>2. j \in Nat \ {0}
        BY <1>2, LenProperties
      <4> QED
        BY <4>1, <4>2
    <3> QED
      BY <3>1, <3>2 DEF Order, Heralded, NoWindow
  <2>2. Among(down', down, 1) /\ Asked' /\ NoWindow(down')
    BY <1>1, <1>2, <2>1, TailOrder, TailNoWindow
  <2>3. FramesInOrder'
    BY <1>1, <2>2, FramesStay DEF bridge
  <2>4. Heralded' /\ WindowInOrder'
    BY <1>1, <2>1, <2>2 DEF Order, Heralded, WindowInOrder, Sorted, bridge
  <2>5. /\ \A j \in DOMAIN handed : j \in DOMAIN handed' /\ handed'[j] = handed[j]
        /\ \A j \in DOMAIN handed' : \/ j \in DOMAIN handed /\ handed'[j] = handed[j]
                                     \/ j = Len(handed) + 1 /\ handed'[j] = e
        /\ Len(handed) + 1 \in DOMAIN handed' /\ handed'[Len(handed) + 1] = e
        /\ Len(handed') = Len(handed) + 1 /\ Len(handed) \in Nat
    BY <1>3, <1>4, <1>6, AppendAt, AppendProperties, LenProperties
  <2>6. /\ \A m : HandedIn(handed, m) => HandedIn(handed', m)
        /\ HandedIn(handed', e)
    BY <2>5 DEF HandedIn
  \* Behind the event read, everything is later; before it, all was handed.
  <2>7. /\ e <= events /\ Met(handed, e)
        /\ \A i \in DOMAIN down', m \in Nat : Carries(down'[i], m) => ~(m <= e) /\ Met(handed, m)
    <3>1. e <= events /\ Met(handed, e)
      BY <1>2, <1>3, <2>1 DEF Order, FramesInOrder, Passed
    <3>2. ASSUME NEW i \in DOMAIN down', NEW m \in Nat, Carries(down'[i], m)
          PROVE  ~(m <= e) /\ Met(handed, m)
      <4>1. i \in Nat \ {0} /\ i + 1 \in DOMAIN down /\ down'[i] = down[i + 1]
        BY <1>1, <1>2, TailAt
      <4>2. 1 < i + 1
        BY <4>1
      <4>3. e < m
        BY <1>2, <1>3, <3>2, <4>1, <4>2 DEF Order, FramesInOrder
      <4>4. Met(handed, m)
        BY <2>1, <3>2, <4>1 DEF Order, Passed
      <4> QED
        BY <1>3, <4>3, <4>4
    <3> QED
      BY <3>1, <3>2
  <2>8. ASSUME NEW m \in Nat, Met(handed, m), m <= e => HandedIn(handed', m)
        PROVE  Met(handed', m)
    BY <2>5, <2>6, <2>8 DEF Met
  <2>9. ASSUME NEW i \in DOMAIN window
        PROVE  Met(handed', window[i].id)
    <3>1. window[i] \in Event
      BY <1>4
    <3>2. window[i].id \in Nat /\ Met(handed, window[i].id)
      BY <2>1, <3>1 DEF Event, Order, Passed
    <3>3. Reaches(down, handed, window[i])
      BY <2>1 DEF IInv, Heard
    <3>4. ASSUME window[i].id <= e
          PROVE  HandedIn(handed', window[i].id)
      <4>1. CASE OnItsWay(down, window[i])
        <5>1. PICK j \in DOMAIN down : Carries(down[j], window[i].id)
          BY <4>1 DEF OnItsWay, Carries
        <5>2. CASE j = 1
          <6>1. window[i].id = e
            BY <1>2, <1>3, <5>1, <5>2 DEF Carries
          <6> QED
            BY <2>6, <6>1
        <5>3. CASE j # 1
          <6>1. j \in Nat \ {0}
            BY <1>2, LenProperties
          <6>2. 1 < j
            BY <5>3, <6>1
          <6>3. e < window[i].id
            BY <1>2, <1>3, <3>2, <5>1, <6>2 DEF Order, FramesInOrder
          <6> QED
            BY <1>3, <3>2, <3>4, <6>3
        <5> QED
          BY <5>2, <5>3
      <4>2. CASE HandedIn(handed, window[i].id)
        BY <2>6, <4>2
      <4> QED
        BY <3>3, <4>1, <4>2 DEF Reaches
    <3> QED
      BY <2>8, <3>2, <3>4
  <2>10. Passed'
    <3>1. \A j \in DOMAIN handed' : handed'[j] <= events
      BY <2>1, <2>5, <2>7 DEF Order, Passed
    <3>2. \A i \in DOMAIN down', m \in Nat : Carries(down'[i], m) => Met(handed', m)
      BY <2>7, <2>8
    <3> QED
      BY <1>1, <2>9, <3>1, <3>2 DEF Passed, Carries, Met, HandedIn, bridge
  <2>11. Recalled' /\ HandedInOrder'
    <3> DEFINE longer == Append(seen, <<f.source, e>>)
    <3>1. <<f.source, e>> \in Nat \X Nat /\ <<f.source, e>> = <<origin, e>>
      BY <1>2, <1>3, <1>4, <2>1
    <3>2. /\ longer \in Seq(Nat \X Nat) /\ Len(longer) = Len(seen) + 1 /\ Len(seen) \in Nat
          /\ \A i \in DOMAIN seen : i \in DOMAIN longer /\ longer[i] = seen[i]
          /\ Len(seen) + 1 \in DOMAIN longer /\ longer[Len(seen) + 1] = <<origin, e>>
      BY <1>4, <3>1, AppendAt, AppendProperties, LenProperties
    <3>3. seen' = Last(longer, MaxSeen)
      BY <1>6
    <3> HIDE DEF longer
    <3>4. Len(seen') <= Len(longer) /\ (Len(longer) <= MaxSeen => seen' = longer) /\ Len(seen') \in Nat
      BY <1>4, <3>2, <3>3, LastWhole, LastFrom, LenProperties
    <3>5. Len(seen) <= Len(handed)
      BY DEF Order, Recalled
    <3>6. Len(seen') <= Len(handed')
      BY <2>5, <3>2, <3>4, <3>5
    <3>7. ASSUME Len(handed') <= MaxSeen
          PROVE  /\ \A j \in DOMAIN handed' : \E i \in DOMAIN seen' : seen'[i] = <<origin, handed'[j]>>
                 /\ \A i, j \in DOMAIN handed' : i < j => handed'[i] < handed'[j]
      <4>1. Len(handed) <= MaxSeen /\ seen' = longer
        BY <1>4, <2>5, <3>2, <3>4, <3>5, <3>7
      <4>2. /\ \A j \in DOMAIN handed : \E i \in DOMAIN seen : seen[i] = <<origin, handed[j]>>
            /\ \A i, j \in DOMAIN handed : i < j => handed[i] < handed[j]
        BY <4>1 DEF Order, Recalled, HandedInOrder
      <4>3. \A j \in DOMAIN handed' : \E i \in DOMAIN seen' : seen'[i] = <<origin, handed'[j]>>
        BY <2>5, <3>2, <4>1, <4>2
      <4>4. ~HandedIn(handed, e)
        BY <1>6, <3>1, <4>2 DEF HandedIn
      <4>5. \A j \in DOMAIN handed : handed[j] < e
        <5>1. \A j \in DOMAIN handed : handed[j] \in Nat /\ ~(e <= handed[j])
          BY <1>4, <2>7, <4>4 DEF Met
        <5> QED
          BY <1>3, <5>1
      <4>6. ASSUME NEW i \in DOMAIN handed', NEW j \in DOMAIN handed', i < j
            PROVE  handed'[i] < handed'[j]
        <5>1. i \in 1..Len(handed) + 1 /\ j \in 1..Len(handed) + 1
          BY <1>3, <1>4, <1>6, <2>5
        <5>2. i # Len(handed) + 1
          BY <2>5, <4>6, <5>1
        <5>3. i \in DOMAIN handed /\ handed'[i] = handed[i]
          BY <2>5, <5>2
        <5> QED
          BY <2>5, <4>2, <4>5, <4>6, <5>3
      <4> QED
        BY <4>3, <4>6
    <3> QED
      BY <1>1, <3>6, <3>7 DEF Recalled, HandedInOrder
  <2> QED
    BY <2>2, <2>3, <2>4, <2>10, <2>11 DEF Order
<1> QED
  BY <1>1, <1>5, <1>6

LEMMA StutterOrder ==
    ASSUME IInv, Order, UNCHANGED vars
    PROVE  Order'
<1>1. UNCHANGED <<bridge, up, down, streams, origin, seen, handed>>
  BY DEF vars, bridge
<1>2. Asked' /\ Heralded'
  BY <1>1 DEF Order, Asked, Heralded, NoWindow, bridge
<1>3. Among(down', down, 0)
  <2>1. \A i \in DOMAIN down : i \in Nat /\ i + 0 = i
    BY LenProperties DEF IInv, Delivery
  <2> QED
    BY <1>1, <2>1 DEF Among
<1>4. FramesInOrder' /\ Passed' /\ Recalled' /\ HandedInOrder' /\ WindowInOrder'
  BY <1>1, <1>3, NothingRead
<1> QED
  BY <1>2, <1>4 DEF Order

LEMMA OrderInductive == Spec => []Order
<1>1. ASSUME IInv, Order, [Next]_vars
      PROVE  Order'
  <2>1. CASE BridgeStep
    BY <1>1, <2>1, PublishOrder, InteractOrder DEF BridgeStep
  <2>2. CASE Serve
    BY <1>1, <2>2, SubscribeConsoleOrder, SubscribeInteractionOrder DEF Serve
  <2>3. CASE Connect
    BY <1>1, <2>3, ConnectOrder
  <2>4. CASE Open
    BY <1>1, <2>4, OpenOrder
  <2>5. CASE Snapshot
    <3>1. /\ down # <<>> /\ down' = Tail(down) /\ Head(down).type # "window"
          /\ UNCHANGED <<bridge, up, streams, origin, seen, handed>>
      BY <2>5 DEF Snapshot, Receives
    <3> QED
      BY <1>1, <3>1, ReadOrder
  <2>6. CASE Delta
    <3>1. /\ down # <<>> /\ Head(down).type # "window"
          /\ (down' = Tail(down) /\ UNCHANGED <<up, streams>>) \/ Dropped
          /\ UNCHANGED <<bridge, origin, seen, handed>>
      BY <2>6 DEF Delta, Receives
    <3> QED
      BY <1>1, <3>1, ReadOrder, DroppedOrder
  <2>7. CASE WindowOpens \/ Interaction
    BY <1>1, <2>7, WindowOpensOrder, InteractionOrder
  <2>8. CASE Break
    <3>1. Dropped /\ UNCHANGED <<bridge, origin, seen, handed>>
      BY <2>8 DEF Break, surface
    <3> QED
      BY <1>1, <3>1, DroppedOrder
  <2>9. CASE Restart
    BY <1>1, <2>9, RestartOrder
  <2>10. CASE UNCHANGED vars
    BY <1>1, <2>10, StutterOrder
  <2> QED
    BY <1>1, <2>1, <2>2, <2>3, <2>4, <2>5, <2>6, <2>7, <2>8, <2>9, <2>10 DEF Next, Read
<1> QED
  BY InitOrder, StreamsInductive, <1>1, PTL DEF Spec

-----------------------------------------------------------------------------
(* What follows.                                                           *)

\* The console stream implements ConsoleReplica: through broken connections,
\* restarted Bridges, resumed subscriptions and whatever deltas the Bridge
\* still holds, a surface's console is always one that was published, and
\* within an instance it never goes back (core.py, _subscribe_console;
\* connection.py, _console_delta).
THEOREM StreamImplements == Spec => Implements
<1>1. Init => Replica!Init
  BY DEF Init, Replica!Init
<1>2. ASSUME IInv, [Next]_vars
      PROVE  [Replica!Next]_<<instance, published, replica>>
  <2>1. ASSUME NEW new \in Console, Publish(new)
        PROVE  Replica!Publish
    BY <2>1 DEF Publish, Replica!Publish, surface
  <2>2. CASE Restart
    BY <2>2 DEF Restart, Replica!Next, Replica!Restart, surface
  <2>3. CASE Snapshot
    <3>1. UNCHANGED <<instance, published>>
      BY <2>3 DEF Snapshot, bridge
    <3> QED
      BY <1>2, <2>3, <3>1, SnapshotTrue DEF Replica!Next, Replica!Learn
  <2>4. CASE Delta
    <3>1. UNCHANGED <<instance, published>>
      BY <2>4 DEF Delta, bridge
    <3>2. CASE replica' # replica
      BY <1>2, <2>4, <3>1, <3>2, DeltaTrue DEF Replica!Next, Replica!Learn
    <3> QED
      BY <3>1, <3>2
  <2>5. ASSUME NEW k \in Keys, NEW phase \in Phases, Interact(k, phase)
        PROVE  UNCHANGED <<instance, published, replica>>
    BY <2>5 DEF Interact, surface
  <2>6. CASE Serve \/ Connect \/ Open \/ Break
    BY <2>6 DEF Serve, SubscribeConsole, SubscribeInteraction, Connect, Open, Break, bridge, surface
  <2>7. CASE WindowOpens \/ Interaction
    BY <2>7 DEF WindowOpens, Interaction, bridge
  <2>8. CASE UNCHANGED vars
    BY <2>8 DEF vars
  <2> QED
    BY <1>2, <2>1, <2>2, <2>3, <2>4, <2>5, <2>6, <2>7, <2>8
    DEF Next, BridgeStep, Read, Replica!Next
<1> QED
  BY <1>1, <1>2, StreamsInductive, PTL DEF Spec, Implements, Replica!Spec

\* Events reach a surface whole and in order, through broken connections,
\* replays of the window and restarted Bridges: with nothing left to read it
\* was handed every event the Bridge still holds, and as long as it forgot no
\* id each event once, in the order they happened (core.py,
\* _subscribe_interaction; connection.py, _interaction).
THEOREM EventsHanded == Spec => []Handed
<1>1. ASSUME IInv
      PROVE  TypeOK /\ NothingMissed
  <2> SUFFICES ASSUME streams = {"console", "interaction"}, down = <<>>,
                      NEW i \in DOMAIN window
               PROVE  HandedIn(handed, window[i].id)
    BY <1>1 DEF IInv, NothingMissed, HandedIn
  <2>1. Reaches(down, handed, window[i])
    BY <1>1 DEF IInv, Heard
  <2> QED
    BY <2>1 DEF Reaches, OnItsWay
<1>2. ASSUME IInv, Order
      PROVE  Handed
  BY <1>1, <1>2 DEF Order, Handed
<1> QED
  BY <1>2, StreamsInductive, OrderInductive, PTL
=============================================================================
