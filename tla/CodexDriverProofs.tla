-------------------------- MODULE CodexDriverProofs --------------------------
(***************************************************************************)
(* What TLAPS proves of the Codex driver over its adapter, for any prompts, *)
(* requests and limits: what is held stays within its limits and in step,  *)
(* Codex is given a prompt at most once, and what is told of a prompt is   *)
(* true.                                                                   *)
(***************************************************************************)
EXTENDS CodexDriver, FiniteSetTheorems, SequenceTheorems, TLAPS

-----------------------------------------------------------------------------
(* Sequences: what they hold nothing of, and what they hold one of at most. *)

Lacks(s, K)  == \A i \in DOMAIN s : s[i] \notin K
Single(s, K) == \A i, j \in DOMAIN s : s[i] \in K /\ s[j] \in K => i = j


LEMMA NothingHeld ==
    ASSUME NEW K
    PROVE  Lacks(<<>>, K) /\ Single(<<>>, K)
  BY DEF Lacks, Single

LEMMA HeldTail ==
    ASSUME NEW S, NEW s \in Seq(S), s # <<>>, NEW K
    PROVE  /\ Tail(s) \in Seq(S) /\ Head(s) \in S
           /\ Lacks(s, K) => Lacks(Tail(s), K) /\ Head(s) \notin K
           /\ Lacks(Tail(s), K) /\ Head(s) \notin K => Lacks(s, K)
           /\ Single(s, K) => Single(Tail(s), K)
           /\ Single(s, K) /\ Head(s) \in K => Lacks(Tail(s), K)
<1> DEFINE t == Tail(s)
<1>1. /\ t \in Seq(S) /\ Head(s) \in S /\ 1 \in DOMAIN s /\ Head(s) = s[1]
      /\ \A i \in DOMAIN t : i \in Nat \ {0} /\ i + 1 \in DOMAIN s /\ t[i] = s[i + 1]
      /\ \A j \in DOMAIN s : j \in Nat /\ (j # 1 => j - 1 \in DOMAIN t /\ t[j - 1] = s[j])
  OBVIOUS
<1> HIDE DEF t
<1>2. Lacks(s, K) => Lacks(t, K) /\ Head(s) \notin K
  BY <1>1 DEF Lacks
<1>3. Lacks(t, K) /\ Head(s) \notin K => Lacks(s, K)
  BY <1>1 DEF Lacks
<1>4. ASSUME Single(s, K) PROVE Single(t, K)
  <2> SUFFICES ASSUME NEW i \in DOMAIN t, NEW j \in DOMAIN t, t[i] \in K, t[j] \in K PROVE i = j
    BY DEF Single
  <2>1. i + 1 = j + 1
    BY <1>1, <1>4 DEF Single
  <2> QED
    BY <1>1, <2>1, SMTT(30)
<1>5. ASSUME Single(s, K), Head(s) \in K PROVE Lacks(t, K)
  <2> SUFFICES ASSUME NEW i \in DOMAIN t, t[i] \in K PROVE FALSE
    BY DEF Lacks
  <2>1. i + 1 = 1
    BY <1>1, <1>5 DEF Single
  <2> QED
    BY <1>1, <2>1
<1> QED
  BY <1>1, <1>2, <1>3, <1>4, <1>5 DEF t

LEMMA HeldAppend ==
    ASSUME NEW S, NEW s \in Seq(S), NEW x \in S, NEW K
    PROVE  /\ Append(s, x) \in Seq(S)
           /\ Lacks(Append(s, x), K) <=> Lacks(s, K) /\ x \notin K
           /\ Single(s, K) /\ x \notin K => Single(Append(s, x), K)
           /\ Lacks(s, K) => Single(Append(s, x), K)
<1> DEFINE t == Append(s, x)
<1>1. /\ t \in Seq(S) /\ Len(s) + 1 \in DOMAIN t /\ t[Len(s) + 1] = x
      /\ \A i \in DOMAIN t : (i \in DOMAIN s /\ t[i] = s[i]) \/ (i = Len(s) + 1 /\ t[i] = x)
      /\ \A i \in DOMAIN s : i \in DOMAIN t /\ t[i] = s[i]
  OBVIOUS
<1> HIDE DEF t
<1>2. Lacks(t, K) <=> Lacks(s, K) /\ x \notin K
  BY <1>1 DEF Lacks
<1>3. Single(s, K) /\ x \notin K => Single(t, K)
  BY <1>1 DEF Single
<1>4. Lacks(s, K) => Single(t, K)
  BY <1>1 DEF Lacks, Single
<1> QED
  BY <1>1, <1>2, <1>3, <1>4 DEF t

LEMMA HeldConcat ==
    ASSUME NEW S, NEW s \in Seq(S), NEW t \in Seq(S), NEW K
    PROVE  /\ s \o t \in Seq(S)
           /\ Lacks(s \o t, K) <=> Lacks(s, K) /\ Lacks(t, K)
           /\ Single(s, K) /\ Lacks(t, K) => Single(s \o t, K)
           /\ Lacks(s, K) /\ Single(t, K) => Single(s \o t, K)
<1> DEFINE u == s \o t
<1>1. /\ u \in Seq(S) /\ Len(s) \in Nat
      /\ \A i \in DOMAIN u : \/ i \in DOMAIN s /\ u[i] = s[i]
                             \/ i \in Nat /\ i - Len(s) \in DOMAIN t /\ u[i] = t[i - Len(s)]
      /\ \A i \in DOMAIN s : i \in DOMAIN u /\ u[i] = s[i]
      /\ \A i \in DOMAIN t : i + Len(s) \in DOMAIN u /\ u[i + Len(s)] = t[i]
  OBVIOUS
<1> HIDE DEF u
<1>2. Lacks(u, K) <=> Lacks(s, K) /\ Lacks(t, K)
  BY <1>1 DEF Lacks
<1>3. Single(s, K) /\ Lacks(t, K) => Single(u, K)
  BY <1>1 DEF Lacks, Single
<1>4. ASSUME Lacks(s, K), Single(t, K), NEW i \in DOMAIN u, NEW j \in DOMAIN u, u[i] \in K, u[j] \in K
      PROVE  i = j
  <2>1. /\ i \in Nat /\ j \in Nat /\ i - Len(s) \in DOMAIN t /\ j - Len(s) \in DOMAIN t
        /\ t[i - Len(s)] \in K /\ t[j - Len(s)] \in K
    BY <1>1, <1>4 DEF Lacks
  <2>2. i - Len(s) = j - Len(s)
    BY <1>4, <2>1 DEF Single
  <2> QED
    BY <1>1, <2>1, <2>2
<1>5. Lacks(s, K) /\ Single(t, K) => Single(u, K)
  BY <1>4 DEF Single
<1> QED
  BY <1>1, <1>2, <1>3, <1>5 DEF u

LEMMA ImageFinite ==
    ASSUME NEW A, IsFiniteSet(A), NEW f, DOMAIN f = A
    PROVE  IsFiniteSet({f[x] : x \in A})
<1> DEFINE T == {f[x] : x \in A}  g == [x \in A |-> f[x]]
<1>1. g \in Surjection(A, T)
  BY DEF Surjection
<1> QED
  BY <1>1, FS_Surjection

\* What SetToSeq makes of a finite set.
LEMMA InSequence ==
    ASSUME NEW S, IsFiniteSet(S)
    PROVE  /\ SetToSeq(S) \in Seq(S)
           /\ \A x \in S : \E i \in DOMAIN SetToSeq(S) : SetToSeq(S)[i] = x
<1> DEFINE n == Cardinality(S)  q == SetToSeq(S)
<1>1. n \in Nat
  BY FS_CardinalityType
<1>2. \E f : f \in Bijection(1..n, S)
  BY FS_CardinalityType, FS_NatBijection DEF ExistsBijection
<1>3. \E f \in [1..n -> S] : IsInjective(f)
  BY <1>2 DEF Bijection, Injection, IsInjective
<1>4. q \in [1..n -> S] /\ IsInjective(q)
  BY <1>3 DEF SetToSeq
<1> HIDE DEF q
<1>5. q \in Injection(1..n, S)
  BY <1>4 DEF Injection, IsInjective
<1>6. IsFiniteSet(1..n) /\ Cardinality(1..n) = n
  BY <1>1, FS_Interval
<1>7. q \in Surjection(1..n, S)
  BY <1>5, <1>6, FS_Injection
<1>8. \A x \in S : \E i \in DOMAIN q : q[i] = x
  BY <1>4, <1>7 DEF Surjection
<1>9. q \in Seq(S)
  BY <1>1, <1>4, SeqDef
<1> QED
  BY <1>8, <1>9 DEF q

-----------------------------------------------------------------------------
(* Types, and the limits of the adapter's tables.                           *)

Outgoing ==
    [kind : Setup, ref : {None}, val : {0}]
    \cup [kind : {"start"}, ref : Texts, val : {0}]
    \cup [kind : {"steer"}, ref : Texts, val : Nat]
    \cup [kind : {"interrupt"}, ref : {Stop}, val : Nat]
    \cup [kind : {"answer"}, ref : Asks, val : Prompts \cup {None}]

Incoming ==
    [kind : {"result"}, ref : Calls, val : Nat]
    \cup [kind : {"error"}, ref : Calls, val : {"rollout", "other", "idle"}]
    \cup [kind : {"resumed"}, ref : Nat, val : BOOLEAN]
    \cup [kind : {"started"}, ref : {None}, val : Nat]
    \cup [kind : {"completed"}, ref : {None}, val : {"completed", "failed", "interrupted"}]
    \cup [kind : {"ask", "resolved"}, ref : Asks, val : {0}]
    \cup [kind : {"status"}, ref : {None}, val : BOOLEAN]
    \cup [kind : {"closed", "item"}, ref : {None}, val : {0}]
    \cup [kind : {"question", "replied"}, ref : Questions, val : {0}]

Events ==
    [kind : {"item"}, ref : {None}, val : {0}]
    \cup [kind : {"opened", "resolved", "answered"}, ref : Asks \cup Questions, val : {0}]
    \cup [kind : {"attention"}, ref : {None}, val : BOOLEAN]
    \cup [kind : {"ended"}, ref : {None}, val : {"completed", "failed", "interrupted"}]
    \cup [kind : {"failed"}, ref : Texts \cup {Stop, None},
          val : {"codex_connection_lost", "codex_control_failed", "codex_control_timeout"}]

AdapterFields ==
    [up : BOOLEAN, initialized : BOOLEAN, attached : BOOLEAN, subscribed : BOOLEAN,
     resume : BOOLEAN, active : Nat, submission : Texts \cup {None}, setup : Setup \cup {None},
     calls : SUBSET Calls, approvals : SUBSET Approvals, inputs : SUBSET Inputs,
     questions : SUBSET Questions, answered : SUBSET Questions, waiting : BOOLEAN]

CodexFields ==
    [thread : {"fresh", "stored", "none"}, turn : Nat, turns : Nat, asks : SUBSET Asks,
     asked : SUBSET (Asks \cup Questions), sub : BOOLEAN, got : [Texts -> Nat]]

AdapterShape ==
    /\ ad \in AdapterFields /\ cx \in CodexFields
    /\ out \in Seq(Outgoing) /\ in \in Seq(Incoming) /\ todo \in Seq(Events)

DriverFields ==
    [turn : {None, Native} \cup Prompts, pending : {None} \cup Prompts,
     open : SUBSET (Asks \cup Questions), attention : BOOLEAN]

DriverShape ==
    /\ dr \in DriverFields
    /\ link \in [op : {"none", "submit", "respond"}, cmd : Prompts \cup Asks \cup Questions \cup {None},
                 pc : {"free", "before", "adapter", "publish", "after", "accepted", "refused", "pop"},
                 inputs : SUBSET Inputs, before : {Cardinality(S) : S \in SUBSET Inputs} \cup {0},
                 answered : BOOLEAN]
    /\ link.op = "submit" => link.cmd \in Prompts
    /\ link.op = "respond" => link.cmd \in Asks \cup Questions
    /\ link.pc \in {"before", "publish", "after", "accepted", "refused"} => link.op = "submit"
    /\ link.pc = "pop" => link.op = "respond"
    /\ outcome \in [Prompts -> {None, "accepted", "undelivered"}]
    /\ told \subseteq Prompts /\ answers \subseteq Prompts

Limits ==
    /\ IsFiniteSet(ad.calls) /\ IsFiniteSet(ad.approvals)
    /\ InFlight(ad) <= MaxCalls /\ Len(out) <= MaxOut /\ Cardinality(ad.approvals) <= MaxApprovals
    /\ ~ad.up => ad.calls = {} /\ ad.setup = None /\ ~ad.attached /\ out = <<>> /\ in = <<>>

-----------------------------------------------------------------------------
(* What a connection is told of a thread, it is told after its attachment.  *)

Resumes      == {m \in Outgoing : m.kind = "resume"}
ResumeAnswer == {m \in Incoming : \/ m.kind = "resumed"
                                  \/ m.kind \in {"result", "error"} /\ m.ref.kind = "resume"}
\* Only who is subscribed is told of turns and requests.
Telling      == {m \in Incoming : m.kind \in {"started", "ask", "resolved"}}

\* An adapter that is attached or not and has s before it is attached once it
\* has handled what comes before place i.
Known(attached, s, i) ==
    \/ attached /\ \A k \in DOMAIN s : k < i => s[k].kind # "closed"
    \/ \E j \in DOMAIN s : /\ j < i /\ s[j].kind = "resumed"
                           /\ \A k \in DOMAIN s : j < k /\ k < i => s[k].kind # "closed"

\* What only subscribers are told comes where it is.
Sound(attached, s, subscribed) ==
    /\ \A i \in DOMAIN s : s[i] \in Telling => Known(attached, s, i)
    /\ subscribed => Known(attached, s, Len(s) + 1)

Attachment ==
    /\ Single(out, Resumes) /\ Single(in, ResumeAnswer)
    /\ Lacks(out, Resumes) \/ (ad.setup = "resume" /\ Lacks(in, ResumeAnswer))
    /\ Lacks(in, ResumeAnswer) \/ ad.setup = "resume"
    /\ ad.subscribed => ad.attached
    /\ Sound(ad.attached, in, cx.sub)

Closes == {m \in Incoming : m.kind = "closed"}

LEMMA SoundTold ==
    ASSUME NEW att \in BOOLEAN, NEW sub \in BOOLEAN, NEW s \in Seq(Incoming), NEW t \in Seq(Incoming),
           Sound(att, s, sub)
    PROVE  /\ sub /\ Lacks(t, Closes) => Sound(att, s \o t, sub)
           /\ Lacks(t, Telling) => Sound(att, s \o t, FALSE)
           /\ \A m \in Incoming : m.kind = "resumed" => Sound(att, s \o <<m>>, TRUE)
<1> DEFINE u == s \o t  n == Len(s)
<1>1. /\ u \in Seq(Incoming) /\ n \in Nat /\ Len(t) \in Nat /\ Len(u) = n + Len(t)
      /\ DOMAIN s = 1..n /\ DOMAIN t = 1..Len(t) /\ DOMAIN u = 1..(n + Len(t))
      /\ \A i \in 1..n : u[i] = s[i]
      /\ \A i \in DOMAIN u : i > n => i - n \in DOMAIN t /\ u[i] = t[i - n]
  OBVIOUS
<1>2. \A i \in DOMAIN t : t[i] \in Incoming
  OBVIOUS
<1> HIDE DEF u, n
<1>3. ASSUME NEW i \in 1..(n + 1), Known(att, s, i) PROVE Known(att, u, i)
  <2>1. \A k \in DOMAIN u : k < i => k \in DOMAIN s /\ u[k] = s[k]
    BY <1>1
  <2>2. \A k \in DOMAIN s : k \in DOMAIN u /\ u[k] = s[k]
    BY <1>1
  <2> QED
    BY <1>3, <2>1, <2>2 DEF Known
<1>4. \A i \in DOMAIN u : (i \in DOMAIN s /\ i \in 1..(n + 1) /\ u[i] = s[i]) \/ (i > n /\ i - n \in DOMAIN t /\ u[i] = t[i - n])
  BY <1>1
<1>5. ASSUME sub, Lacks(t, Closes) PROVE Sound(att, u, sub)
  <2>1. \A k \in DOMAIN u : k > n => u[k].kind # "closed"
    BY <1>1, <1>2, <1>5 DEF Lacks, Closes
  <2>2. Known(att, s, n + 1)
    BY <1>5 DEF Sound, n
  <2>3. ASSUME NEW i \in Nat, i > n PROVE Known(att, u, i)
    <3>1. CASE att /\ \A k \in DOMAIN s : k < n + 1 => s[k].kind # "closed"
      <4>1. \A k \in DOMAIN u : k < i => u[k].kind # "closed"
        BY <1>1, <2>1, <3>1
      <4> QED
        BY <3>1, <4>1 DEF Known
    <3>2. CASE \E j \in DOMAIN s : /\ j < n + 1 /\ s[j].kind = "resumed"
                                  /\ \A k \in DOMAIN s : j < k /\ k < n + 1 => s[k].kind # "closed"
      <4>1. PICK j \in DOMAIN s : /\ j < n + 1 /\ s[j].kind = "resumed"
                                  /\ \A k \in DOMAIN s : j < k /\ k < n + 1 => s[k].kind # "closed"
        BY <3>2
      <4>2. j \in DOMAIN u /\ j < i /\ u[j].kind = "resumed"
        BY <1>1, <2>3, <4>1
      <4>3. \A k \in DOMAIN u : j < k /\ k < i => u[k].kind # "closed"
        BY <1>1, <2>1, <4>1, SMTT(30)
      <4> QED
        BY <4>2, <4>3 DEF Known
    <3> QED
      BY <2>2, <3>1, <3>2 DEF Known
  <2>4. \A i \in DOMAIN u : u[i] \in Telling => Known(att, u, i)
    <3> TAKE i \in DOMAIN u
    <3>1. CASE i \in DOMAIN s /\ i \in 1..(n + 1) /\ u[i] = s[i]
      BY <1>3, <3>1 DEF Sound
    <3>2. CASE i > n
      BY <1>1, <2>3, <3>2
    <3> QED
      BY <1>4, <3>1, <3>2
  <2>5. Len(u) + 1 \in Nat /\ Len(u) + 1 > n
    BY <1>1
  <2> QED
    BY <2>3, <2>4, <2>5 DEF Sound
<1>6. ASSUME Lacks(t, Telling) PROVE Sound(att, u, FALSE)
  <2> SUFFICES ASSUME NEW i \in DOMAIN u, u[i] \in Telling PROVE Known(att, u, i)
    BY DEF Sound
  <2>1. i \in DOMAIN s /\ i \in 1..(n + 1) /\ u[i] = s[i]
    BY <1>4, <1>6 DEF Lacks
  <2> QED
    BY <1>3, <2>1 DEF Sound
<1>7. ASSUME NEW m \in Incoming, m.kind = "resumed" PROVE Sound(att, s \o <<m>>, TRUE)
  <2> DEFINE v == s \o <<m>>
  <2>1. /\ n \in Nat /\ DOMAIN s = 1..n /\ DOMAIN v = 1..(n + 1) /\ Len(v) = n + 1
        /\ \A i \in 1..n : v[i] = s[i]
        /\ v[n + 1] = m
    BY <1>1 DEF n
  <2> HIDE DEF v
  <2>2. Known(att, v, Len(v) + 1)
    <3>1. n + 1 \in DOMAIN v /\ n + 1 < Len(v) + 1 /\ v[n + 1].kind = "resumed"
      BY <1>7, <2>1
    <3>2. \A k \in DOMAIN v : n + 1 < k /\ k < Len(v) + 1 => v[k].kind # "closed"
      BY <2>1
    <3> QED
      BY <3>1, <3>2 DEF Known
  <2>3. ASSUME NEW i \in DOMAIN v, v[i] \in Telling PROVE Known(att, v, i)
    <3>1. i \in DOMAIN s /\ v[i] = s[i]
      BY <1>7, <2>1, <2>3 DEF Telling
    <3>2. Known(att, s, i)
      BY <2>3, <3>1 DEF Sound
    <3>3. \A k \in DOMAIN v : k < i => k \in DOMAIN s /\ v[k] = s[k]
      BY <2>1, <3>1
    <3>4. \A k \in DOMAIN s : k \in DOMAIN v /\ v[k] = s[k]
      BY <2>1
    <3> QED
      BY <3>2, <3>3, <3>4 DEF Known
  <2> QED
    BY <2>2, <2>3 DEF Sound, v
<1> QED
  BY <1>5, <1>6, <1>7 DEF u

LEMMA SoundTail ==
    ASSUME NEW att \in BOOLEAN, NEW sub \in BOOLEAN, NEW s \in Seq(Incoming), s # <<>>,
           Sound(att, s, sub)
    PROVE  /\ Head(s) \in Telling => att
           /\ Head(s).kind = "closed" => \A b \in BOOLEAN : Sound(b, Tail(s), sub)
           /\ Head(s).kind \notin {"closed", "resumed"} => Sound(att, Tail(s), sub)
           /\ Head(s).kind # "closed" => Sound(TRUE, Tail(s), sub)
<1> DEFINE t == Tail(s)
<1>1. /\ t \in Seq(Incoming) /\ Head(s) = s[1] /\ 1 \in DOMAIN s
      /\ Len(s) \in Nat /\ DOMAIN s = 1..Len(s) /\ DOMAIN t = 1..(Len(s) - 1) /\ Len(t) = Len(s) - 1
      /\ \A i \in DOMAIN t : t[i] = s[i + 1]
  OBVIOUS
<1> HIDE DEF t
<1>2. Head(s) \in Telling => att
  <2>1. Known(att, s, 1) => att
    BY <1>1 DEF Known
  <2> QED
    BY <1>1, <2>1 DEF Sound
\* What is known at a place of s, for one who handles its head first.
<1> DEFINE after == {b \in BOOLEAN : \/ Head(s).kind = "closed"
                                     \/ Head(s).kind # "closed" /\ b
                                     \/ Head(s).kind \notin {"closed", "resumed"} /\ b = att}
<1>3. ASSUME NEW b \in after, NEW i \in 1..Len(s), Known(att, s, i + 1) PROVE Known(b, t, i)
  <2>1. \A k \in DOMAIN t : k + 1 \in DOMAIN s /\ t[k] = s[k + 1] /\ (k < i => k + 1 < i + 1) /\ k \in Nat
    BY <1>1
  <2>2. CASE att /\ \A k \in DOMAIN s : k < i + 1 => s[k].kind # "closed"
    <3>1. s[1].kind # "closed"
      BY <1>1, <2>2
    <3>2. b
      BY <1>1, <1>3, <2>2, <3>1
    <3>3. \A k \in DOMAIN t : k < i => t[k].kind # "closed"
      BY <2>1, <2>2
    <3> QED
      BY <3>2, <3>3 DEF Known
  <2>3. CASE \E j \in DOMAIN s : /\ j < i + 1 /\ s[j].kind = "resumed"
                                /\ \A k \in DOMAIN s : j < k /\ k < i + 1 => s[k].kind # "closed"
    <3>1. PICK j \in DOMAIN s : /\ j < i + 1 /\ s[j].kind = "resumed"
                                /\ \A k \in DOMAIN s : j < k /\ k < i + 1 => s[k].kind # "closed"
      BY <2>3
    <3>2. CASE j = 1
      <4>1. b
        BY <1>1, <1>3, <3>1, <3>2
      <4>2. \A k \in DOMAIN t : k < i => t[k].kind # "closed"
        <5> TAKE k \in DOMAIN t
        <5>1. k + 1 \in DOMAIN s /\ t[k] = s[k + 1] /\ 1 < k + 1
          BY <1>1
        <5> QED
          BY <2>1, <3>1, <3>2, <5>1
      <4> QED
        BY <4>1, <4>2 DEF Known
    <3>3. CASE j # 1
      <4>1. j - 1 \in DOMAIN t /\ j - 1 < i /\ t[j - 1].kind = "resumed"
        BY <1>1, <3>1, <3>3
      <4>2. \A k \in DOMAIN t : j - 1 < k /\ k < i => t[k].kind # "closed"
        <5> TAKE k \in DOMAIN t
        <5>1. k + 1 \in DOMAIN s /\ t[k] = s[k + 1] /\ (j - 1 < k => j < k + 1) /\ (k < i => k + 1 < i + 1)
          BY <1>1
        <5> QED
          BY <3>1, <5>1
      <4> QED
        BY <4>1, <4>2 DEF Known
    <3> QED
      BY <3>2, <3>3
  <2> QED
    BY <1>3, <2>2, <2>3 DEF Known
<1>4. ASSUME NEW b \in after PROVE Sound(b, t, sub)
  <2>1. ASSUME NEW i \in DOMAIN t, t[i] \in Telling PROVE Known(b, t, i)
    <3>1. i \in 1..Len(s) /\ i + 1 \in DOMAIN s /\ s[i + 1] \in Telling
      BY <1>1, <2>1
    <3>2. Known(att, s, i + 1)
      BY <3>1 DEF Sound
    <3> HIDE DEF after
    <3> QED
      BY <1>3, <3>1, <3>2
  <2>2. ASSUME sub PROVE Known(b, t, Len(t) + 1)
    <3>1. Len(t) + 1 = Len(s) /\ Len(s) \in 1..Len(s)
      BY <1>1
    <3>2. Known(att, s, Len(s) + 1)
      BY <2>2 DEF Sound
    <3> HIDE DEF after
    <3> QED
      BY <1>3, <3>1, <3>2
  <2> QED
    BY <2>1, <2>2 DEF Sound
<1> QED
  BY <1>2, <1>4 DEF t

-----------------------------------------------------------------------------
(* A prompt's way to Codex.                                                 *)

Carriers(p)  == {m \in Outgoing : Carries(m, p)}
TooLate(p)   == {Error(Call("steer", p), "idle")}
Arrivals(p)  == {m \in Incoming : m.kind = "result" /\ m.ref.cmd = p}

Reports(p)   == {e \in Events : e.kind = "failed" /\ e.ref = p}

\* Its failure is reported, or about to be.
Failing(p) == p \in told \/ ~Lacks(todo, Reports(p))

Handed(p) ==
    \/ outcome[p] = "accepted"
    \/ link.op = "submit" /\ link.cmd = p /\ link.pc \in {"publish", "after", "accepted"}

Travel(p) ==
    /\ Single(out, Carriers(p)) /\ Single(in, TooLate(p))
    /\ Lacks(out, Carriers(p)) \/ (cx.got[p] = 0 /\ Lacks(in, TooLate(p)))
    /\ Lacks(in, TooLate(p)) \/ cx.got[p] = 0
    /\ cx.got[p] \in {0, 1}
    /\ Lacks(in, Arrivals(p)) \/ cx.got[p] = 1
    /\ link.op = "submit" /\ link.cmd = p => outcome[p] = None
    /\ ~Handed(p) => /\ cx.got[p] = 0 /\ ~Commanded(p)
                     /\ Lacks(out, Carriers(p)) /\ Lacks(in, TooLate(p))
    /\ Handed(p) /\ p \notin answers => cx.got[p] = 1 \/ Commanded(p) \/ Failing(p)

-----------------------------------------------------------------------------
(* What the driver shows, and what is still to be published of it.          *)

Request(ask) == {Msg("ask", ask, 0)}
Opening(ask) == {Event("opened", ask, 0)}
Closing(ask) == {Event("resolved", ask, 0)}
On(ask)      == link.op = "respond" /\ link.cmd = ask

\* The adapter has not come upon the request yet.
Coming(ask) == ask \notin cx.asked \/ ~Lacks(in, Request(ask))

Shown(ask) ==
    /\ Single(in, Request(ask))
    /\ Lacks(in, Request(ask)) \/ ask \in cx.asked
    /\ Coming(ask) => ask \notin dr.open /\ ~On(ask) /\ Lacks(todo, Opening(ask))
    /\ Single(todo, Opening(ask))
    /\ Lacks(todo, Opening(ask)) \/ (ask \notin dr.open /\ ~On(ask) /\ ask \in ad.approvals \cup expired)
    /\ ask \in dr.open => \/ ask \in ad.approvals \cup expired
                          \/ link.pc = "pop" /\ On(ask)
                          \/ ~Lacks(todo, Closing(ask))

AttentionOn  == {Event("attention", None, TRUE)}
AttentionEnd == {e \in Events : e.kind = "ended" \/ (e.kind = "attention" /\ ~e.val)}

Attention ==
    /\ Lacks(todo, AttentionOn) \/ ad.waiting
    /\ dr.attention => ad.waiting \/ ~Lacks(todo, AttentionEnd)

IInv ==
    /\ AdapterShape /\ DriverShape /\ Limits
    /\ Attachment
    /\ \A p \in Prompts : Travel(p)
    /\ \A ask \in Approvals : Shown(ask)
    /\ Attention /\ SubmissionInFlight

-----------------------------------------------------------------------------
(* The invariant and the properties.                                        *)

LEMMA Starts == Init => IInv
<1> SUFFICES ASSUME Init PROVE IInv
  OBVIOUS
<1> USE AdapterAssumption, NamesAssumption
<1>1. AdapterShape
  BY DEF Init, AdapterInit, AdapterShape, AdapterFields, CodexFields, Down
<1>2. DriverShape
  BY DEF Init, DriverShape, DriverFields, Free
<1>3. Limits
  <2>1. IsFiniteSet({}) /\ Cardinality({}) = 0
    BY FS_EmptySet
  <2> QED
    BY <2>1 DEF Init, AdapterInit, Limits, Down, InFlight
<1>4. Attachment
  BY NothingHeld DEF Init, AdapterInit, Attachment, Down, Sound
<1>5. \A p \in Prompts : Travel(p)
  <2> TAKE p \in Prompts
  <2>1. cx.got[p] = 0 /\ outcome[p] = None /\ link.op = "none" /\ out = <<>> /\ in = <<>> /\ ad.calls = {}
    BY DEF Init, AdapterInit, Texts, Free, Down
  <2> QED
    BY <2>1, NothingHeld DEF Travel, Handed, Commanded
<1>6. \A ask \in Approvals : Shown(ask)
  BY NothingHeld DEF Init, AdapterInit, Shown, On, Free, Coming
<1>7. Attention /\ SubmissionInFlight
  BY NothingHeld DEF Init, AdapterInit, Attention, SubmissionInFlight, Down
<1> QED
  BY <1>1, <1>2, <1>3, <1>4, <1>5, <1>6, <1>7 DEF IInv

LEMMA Holds == IInv => Consistent /\ PromptOnce /\ OutcomeTrue
<1> SUFFICES ASSUME IInv PROVE Consistent /\ PromptOnce /\ OutcomeTrue
  OBVIOUS
<1>1. TypeOK
  BY DEF IInv, TypeOK, AdapterShape, AdapterFields, DriverShape, DriverFields, Limits, Attachment
<1>2. InStep
  <2> SUFFICES ASSUME todo = <<>>
               PROVE  /\ dr.open \cap Approvals \subseteq
                            ad.approvals \cup expired \cup (IF link.pc = "pop" THEN {link.cmd} ELSE {})
                      /\ dr.attention => ad.waiting
    BY DEF InStep
  <2>1. ASSUME NEW ask \in Approvals, ask \in dr.open
        PROVE  ask \in ad.approvals \cup expired \cup (IF link.pc = "pop" THEN {link.cmd} ELSE {})
    BY <2>1, NothingHeld DEF IInv, Shown, On
  <2>2. dr.attention => ad.waiting
    BY NothingHeld DEF IInv, Attention
  <2> QED
    BY <2>1, <2>2
<1>3. PromptOnce
  BY DEF IInv, Travel, PromptOnce
<1>4. ASSUME NEW p \in Prompts
      PROVE  /\ outcome[p] = "undelivered" =>
                   cx.got[p] = 0 /\ ~Commanded(p) /\ \A i \in DOMAIN out : ~Carries(out[i], p)
             /\ outcome[p] = "accepted" /\ p \notin answers =>
                   cx.got[p] = 1 \/ Commanded(p) \/ p \in Reported
  <2>1. Travel(p)
    BY DEF IInv
  <2>2. ASSUME outcome[p] = "undelivered"
        PROVE  cx.got[p] = 0 /\ ~Commanded(p) /\ \A i \in DOMAIN out : ~Carries(out[i], p)
    <3>1. ~Handed(p)
      BY <2>1, <2>2, NamesAssumption DEF Travel, Handed
    <3>2. Lacks(out, Carriers(p)) /\ out \in Seq(Outgoing)
      BY <2>1, <3>1 DEF Travel, IInv, AdapterShape
    <3>3. \A i \in DOMAIN out : out[i] \in Outgoing
      BY <3>2
    <3> QED
      BY <2>1, <3>1, <3>2, <3>3 DEF Travel, Lacks, Carriers
  <2>3. Failing(p) => p \in Reported
    BY DEF Failing, Reported, Lacks, Reports
  <2> QED
    BY <2>1, <2>2, <2>3 DEF Travel, Handed
<1> QED
  BY <1>1, <1>2, <1>3, <1>4 DEF IInv, Consistent, OutcomeTrue

-----------------------------------------------------------------------------
(* What keeps each part of the invariant.                                   *)

\* A prompt's way, as long as it goes no further on it.
LEMMA TravelKept ==
    ASSUME NEW p \in Prompts, Travel(p),
           Lacks(out, Carriers(p)) => Lacks(out', Carriers(p)), Single(out', Carriers(p)),
           Lacks(in, TooLate(p)) => Lacks(in', TooLate(p)), Single(in', TooLate(p)),
           Lacks(in, Arrivals(p)) => Lacks(in', Arrivals(p)),
           cx'.got[p] = cx.got[p],
           Commanded(p)' => Commanded(p),
           Commanded(p) => Commanded(p)' \/ cx.got[p] = 1 \/ Failing(p)',
           Failing(p) => Failing(p)',
           Handed(p)' <=> Handed(p), p \in answers => p \in answers',
           link'.op = "submit" /\ link'.cmd = p => outcome'[p] = None
    PROVE  Travel(p)'
  BY DEF Travel

\* The connection thread goes on to events; no request is come upon.
LEMMA ShownKept ==
    ASSUME NEW ask \in Approvals, Shown(ask), todo = <<>>, UNCHANGED <<dr, link, expired>>,
           cx'.asked = cx.asked,
           Lacks(in, Request(ask)) => Lacks(in', Request(ask)), Single(in', Request(ask)),
           Lacks(todo', Opening(ask)), Single(todo', Opening(ask)),
           ask \in ad.approvals => ask \in ad'.approvals \/ ~Lacks(todo', Closing(ask))
    PROVE  Shown(ask)'
  BY NothingHeld DEF Shown, Coming, On

LEMMA AttentionStays ==
    ASSUME Attention, todo = <<>>, UNCHANGED dr,
           Lacks(todo', AttentionOn) \/ ad'.waiting,
           ad.waiting => ad'.waiting \/ ~Lacks(todo', AttentionEnd)
    PROVE  Attention'
  BY NothingHeld DEF Attention

-----------------------------------------------------------------------------
(* Lists of events.                                                         *)

\* Those that open no request and ask for no attention.
Calm == {e \in Events : e.kind # "opened" /\ e \notin AttentionOn}

LEMMA CalmLacks ==
    ASSUME NEW t \in Seq(Calm)
    PROVE  /\ t \in Seq(Events) /\ Lacks(t, AttentionOn)
           /\ \A ask : Lacks(t, Opening(ask)) /\ Single(t, Opening(ask))
<1>1. \A i \in DOMAIN t : t[i] \in Calm
  OBVIOUS
<1>2. Calm \subseteq Events
  BY DEF Calm
<1>3. t \in Seq(Events)
  BY <1>2
<1>4. Lacks(t, AttentionOn)
  BY <1>1 DEF Calm, Lacks
<1>5. \A ask : Lacks(t, Opening(ask))
  BY <1>1 DEF Calm, Lacks, Opening, Event
<1> QED
  BY <1>3, <1>4, <1>5 DEF Lacks, Single

LEMMA OneEvent ==
    ASSUME NEW S, NEW e \in S
    PROVE  /\ <<e>> \in Seq(S)
           /\ \A K : Single(<<e>>, K) /\ (Lacks(<<e>>, K) <=> e \notin K)
  BY DEF Single, Lacks

LEMMA ResolvedDoes ==
    ASSUME NEW A \in SUBSET Approvals, IsFiniteSet(A)
    PROVE  Resolved(A) \in Seq(Calm) /\ \A ask \in A : ~Lacks(Resolved(A), Closing(ask))
<1> DEFINE S == {Event("resolved", ask, 0) : ask \in A}  f == [ask \in A |-> Event("resolved", ask, 0)]
<1>1. IsFiniteSet(S)
  <2>1. IsFiniteSet({f[x] : x \in DOMAIN f})
    <3>1. DOMAIN f = A
      OBVIOUS
    <3> HIDE DEF f
    <3> QED
      BY <3>1, ImageFinite
  <2>2. S = {f[x] : x \in DOMAIN f}
    OBVIOUS
  <2> QED
    BY <2>1, <2>2
<1>2. S \subseteq Calm
  BY DEF Calm, Events, Event, AttentionOn, Asks
<1>3. /\ SetToSeq(S) \in Seq(S)
      /\ \A x \in S : \E i \in DOMAIN SetToSeq(S) : SetToSeq(S)[i] = x
  BY <1>1, InSequence
<1>4. Resolved(A) = SetToSeq(S)
  BY DEF Resolved
<1>5. \A ask \in A : Event("resolved", ask, 0) \in S
  OBVIOUS
<1> HIDE DEF S
<1>6. Resolved(A) \in Seq(Calm)
  BY <1>2, <1>3, <1>4
<1>7. \A ask \in A : ~Lacks(Resolved(A), Closing(ask))
  BY <1>3, <1>4, <1>5 DEF Lacks, Closing
<1> QED
  BY <1>6, <1>7

Codes == {"codex_connection_lost", "codex_control_failed", "codex_control_timeout"}

LEMMA FailedDoes ==
    ASSUME NEW C \in SUBSET (Texts \cup {Stop, None}), IsFiniteSet(C), NEW code \in Codes
    PROVE  Failed(C, code) \in Seq(Calm) /\ \A p \in C : ~Lacks(Failed(C, code), Reports(p))
<1> DEFINE S == {Event("failed", cmd, code) : cmd \in C}  f == [cmd \in C |-> Event("failed", cmd, code)]
<1>1. IsFiniteSet(S)
  <2>1. IsFiniteSet({f[x] : x \in DOMAIN f})
    <3>1. DOMAIN f = C
      OBVIOUS
    <3> HIDE DEF f
    <3> QED
      BY <3>1, ImageFinite
  <2>2. S = {f[x] : x \in DOMAIN f}
    OBVIOUS
  <2> QED
    BY <2>1, <2>2
<1>2. S \subseteq Calm /\ \A p \in C : Event("failed", p, code) \in S \cap Reports(p)
  BY DEF Calm, Events, Event, AttentionOn, Codes, Reports
<1>3. /\ SetToSeq(S) \in Seq(S)
      /\ \A x \in S : \E i \in DOMAIN SetToSeq(S) : SetToSeq(S)[i] = x
  BY <1>1, InSequence
<1>4. Failed(C, code) = SetToSeq(S)
  BY DEF Failed
<1> HIDE DEF S
<1>6. Failed(C, code) \in Seq(Calm)
  BY <1>2, <1>3, <1>4
<1>7. \A p \in C : ~Lacks(Failed(C, code), Reports(p))
  BY <1>2, <1>3, <1>4 DEF Lacks
<1> QED
  BY <1>6, <1>7

LEMMA AttentionOffDoes ==
    ASSUME NEW a \in AdapterFields
    PROVE  AttentionOff(a) \in Seq(Calm) /\ (a.waiting => ~Lacks(AttentionOff(a), AttentionEnd))
<1>1. Event("attention", None, FALSE) \in Calm \cap AttentionEnd
  BY DEF Event, Events, Calm, AttentionOn, AttentionEnd
<1>2. CASE a.waiting
  BY <1>1, <1>2, OneEvent DEF AttentionOff
<1>3. CASE ~a.waiting
  BY <1>3 DEF AttentionOff
<1> QED
  BY <1>2, <1>3

-----------------------------------------------------------------------------
(* The connection is lost.                                                  *)

LEMMA LostKeeps ==
    ASSUME IInv, todo = <<>>, NEW a \in AdapterFields, IsFiniteSet(a.calls),
           a.approvals = ad.approvals, a.waiting = ad.waiting,
           \A p \in Prompts : Commanded(p) => p \in Commands(a.calls) \/ cx.got[p] = 1,
           Lost(a), UNCHANGED expired, UNCHANGED driverVars
    PROVE  IInv'
<1>0. UNCHANGED <<dr, link, outcome, told, answers>>
  BY DEF driverVars
<1> DEFINE off == AttentionOff(a)  closed == Resolved(a.approvals)
           failed == Failed(Commands(a.calls), "codex_connection_lost")
<1>1. off \in Seq(Calm) /\ (a.waiting => ~Lacks(off, AttentionEnd))
  BY AttentionOffDoes
<1>2. closed \in Seq(Calm) /\ \A ask \in a.approvals : ~Lacks(closed, Closing(ask))
  BY ResolvedDoes DEF IInv, Limits, AdapterFields
<1>3. failed \in Seq(Calm) /\ \A p \in Commands(a.calls) : ~Lacks(failed, Reports(p))
  <2>1. IsFiniteSet(Commands(a.calls))
    <3> DEFINE f == [call \in a.calls |-> call.cmd]
    <3>1. Commands(a.calls) = {f[x] : x \in a.calls} /\ DOMAIN f = a.calls
      BY DEF Commands
    <3> HIDE DEF f
    <3> QED
      BY <3>1, ImageFinite
  <2>2. Commands(a.calls) \in SUBSET (Texts \cup {Stop, None})
    BY DEF Commands, AdapterFields, Calls, Call
  <2> QED
    BY <2>1, <2>2, FailedDoes DEF Codes
<1>4. todo' = off \o closed \o failed /\ out' = <<>> /\ in' = <<>> /\ cx' = [cx EXCEPT !.sub = FALSE]
  BY DEF Lost
<1>5. /\ ad'.up = FALSE /\ ad'.attached = FALSE /\ ad'.subscribed = FALSE /\ ad'.setup = None
      /\ ad'.submission = None /\ ad'.calls = {} /\ ad'.approvals = {} /\ ad'.waiting = FALSE
      /\ ad' \in AdapterFields
  <2> DEFINE resume == a.attached \/ a.resume
  <2>1. /\ resume \in BOOLEAN /\ a.questions \in SUBSET Questions /\ a.answered \in SUBSET Questions
    BY DEF AdapterFields
  <2>2. ad' = [Down EXCEPT !.resume = resume, !.questions = a.questions, !.answered = a.answered]
    BY DEF Lost
  <2> HIDE DEF resume
  <2>3. ad' = [up |-> FALSE, initialized |-> FALSE, attached |-> FALSE, subscribed |-> FALSE,
               resume |-> resume, active |-> 0, submission |-> None, setup |-> None,
               calls |-> {}, approvals |-> {}, inputs |-> {}, questions |-> a.questions,
               answered |-> a.answered, waiting |-> FALSE]
    BY <2>2 DEF Down
  <2> QED
    BY <2>1, <2>3 DEF AdapterFields
<1> HIDE DEF off, closed, failed
<1>6. /\ todo' \in Seq(Calm)
      /\ \A K : Lacks(todo', K) <=> Lacks(off, K) /\ Lacks(closed, K) /\ Lacks(failed, K)
  <2> DEFINE u == off \o closed
  <2>1. u \in Seq(Calm) /\ \A K : Lacks(u, K) <=> Lacks(off, K) /\ Lacks(closed, K)
    BY <1>1, <1>2, HeldConcat
  <2>2. todo' = u \o failed
    BY <1>1, <1>2, <1>3, <1>4
  <2> HIDE DEF u
  <2>3. /\ u \o failed \in Seq(Calm)
        /\ \A K : Lacks(u \o failed, K) <=> Lacks(u, K) /\ Lacks(failed, K)
    BY <1>3, <2>1, HeldConcat
  <2> QED
    BY <2>1, <2>2, <2>3
<1>7. /\ todo' \in Seq(Events) /\ Lacks(todo', AttentionOn)
      /\ \A ask : Lacks(todo', Opening(ask)) /\ Single(todo', Opening(ask))
  BY <1>6, CalmLacks
<1>8. cx' \in CodexFields /\ cx'.got = cx.got /\ cx'.asked = cx.asked /\ cx'.sub = FALSE
  BY <1>4 DEF IInv, AdapterShape, CodexFields
<1>9. AdapterShape' /\ DriverShape'
  BY <1>0, <1>4, <1>5, <1>7, <1>8 DEF IInv, AdapterShape, DriverShape
<1>10. Limits'
  <2>1. IsFiniteSet({}) /\ Cardinality({}) = 0
    BY FS_EmptySet
  <2> QED
    BY <1>4, <1>5, <2>1, AdapterAssumption DEF Limits, InFlight
<1>11. Attachment'
  BY <1>4, <1>5, <1>8, NothingHeld DEF Attachment, Sound
<1>12. ASSUME NEW p \in Prompts PROVE Travel(p)'
  <2>1. Travel(p)
    BY DEF IInv
  <2>2. Failing(p)' <=> p \in told \/ ~Lacks(todo', Reports(p))
    BY <1>0 DEF Failing
  <2>3. p \in Commands(a.calls) => Failing(p)'
    BY <1>3, <1>6, <2>2
  <2>4. Failing(p) => Failing(p)'
    BY <2>2, NothingHeld DEF Failing
  <2>5. Handed(p)' <=> Handed(p)
    BY <1>0 DEF Handed
  <2>6. ~Commanded(p)'
    BY <1>5 DEF Commanded
  <2>7. link'.op = "submit" /\ link'.cmd = p => outcome'[p] = None
    BY <1>0, <2>1 DEF Travel
  <2> QED
    BY <1>0, <1>4, <1>8, <2>1, <2>3, <2>4, <2>5, <2>6, <2>7, NothingHeld, TravelKept
<1>13. ASSUME NEW ask \in Approvals PROVE Shown(ask)'
  <2>1. Shown(ask)
    BY DEF IInv
  <2>2. ask \in ad.approvals => ~Lacks(todo', Closing(ask))
    BY <1>2, <1>6
  <2> QED
    BY <1>0, <1>4, <1>7, <1>8, <2>1, <2>2, NothingHeld, ShownKept
<1>14. Attention'
  <2>1. ad.waiting => ~Lacks(todo', AttentionEnd)
    BY <1>1, <1>6
  <2> QED
    BY <1>0, <1>7, <2>1, AttentionStays DEF IInv
<1>15. SubmissionInFlight'
  BY <1>5 DEF SubmissionInFlight
<1> QED
  BY <1>9, <1>10, <1>11, <1>12, <1>13, <1>14, <1>15 DEF IInv

-----------------------------------------------------------------------------
(* Codex says something of its own accord.                                  *)

Notices == {m \in Incoming : m.kind \notin {"result", "error", "resumed"}}

LEMMA NoticesLack ==
    ASSUME NEW t \in Seq(Notices)
    PROVE  /\ t \in Seq(Incoming) /\ Lacks(t, ResumeAnswer)
           /\ \A p : Lacks(t, TooLate(p)) /\ Lacks(t, Arrivals(p))
<1>1. \A i \in DOMAIN t : t[i] \in Notices
  OBVIOUS
<1>2. Notices \subseteq Incoming
  BY DEF Notices
<1>3. t \in Seq(Incoming)
  BY <1>2
<1>4. Lacks(t, ResumeAnswer)
  BY <1>1 DEF Lacks, Notices, ResumeAnswer
<1>5. \A p : Lacks(t, TooLate(p)) /\ Lacks(t, Arrivals(p))
  BY <1>1 DEF Lacks, Notices, TooLate, Arrivals, Error, Msg
<1> QED
  BY <1>3, <1>4, <1>5

LEMMA SaidKeeps ==
    ASSUME IInv, NEW c \in CodexFields, NEW t \in Seq(Notices),
           cx' = c, in' = in \o t, ~ad.up => t = <<>>,
           \A p \in Prompts : c.got[p] = cx.got[p],
           \/ cx.sub /\ c.sub /\ Lacks(t, Closes)
           \/ ~c.sub /\ Lacks(t, Telling),
           cx.asked \subseteq c.asked,
           \A ask \in Approvals : \/ Lacks(t, Request(ask))
                                  \/ ask \in c.asked \ cx.asked /\ Single(t, Request(ask)),
           UNCHANGED <<ad, out, todo, expired>>, UNCHANGED driverVars
    PROVE  IInv'
<1>0. UNCHANGED <<dr, link, outcome, told, answers>>
  BY DEF driverVars
<1>1. /\ t \in Seq(Incoming) /\ Lacks(t, ResumeAnswer)
      /\ \A p : Lacks(t, TooLate(p)) /\ Lacks(t, Arrivals(p))
  BY NoticesLack
<1>2. in \in Seq(Incoming) /\ in' \in Seq(Incoming)
  BY <1>1, HeldConcat DEF IInv, AdapterShape
<1>3. AdapterShape' /\ DriverShape'
  BY <1>0, <1>2 DEF IInv, AdapterShape, DriverShape
<1>4. Limits'
  <2>1. ~ad.up => in' = <<>>
    BY DEF IInv, Limits
  <2> QED
    BY <2>1 DEF IInv, Limits, InFlight
<1>5. Attachment'
  <2>1. /\ Lacks(in', ResumeAnswer) <=> Lacks(in, ResumeAnswer)
        /\ Single(in, ResumeAnswer) => Single(in', ResumeAnswer)
    BY <1>1, <1>2, HeldConcat
  <2>2. Sound(ad.attached, in, cx.sub) /\ ad.attached \in BOOLEAN /\ cx.sub \in BOOLEAN /\ c.sub \in BOOLEAN
    BY DEF IInv, Attachment, AdapterShape, AdapterFields, CodexFields
  <2>3. Sound(ad.attached, in', c.sub)
    BY <1>1, <1>2, <2>2, SoundTold
  <2> QED
    BY <2>1, <2>3 DEF IInv, Attachment
<1>6. ASSUME NEW p \in Prompts PROVE Travel(p)'
  <2>1. Travel(p)
    BY DEF IInv
  <2>2. /\ Lacks(in', TooLate(p)) <=> Lacks(in, TooLate(p))
        /\ Single(in, TooLate(p)) => Single(in', TooLate(p))
        /\ Lacks(in', Arrivals(p)) <=> Lacks(in, Arrivals(p))
    BY <1>1, <1>2, HeldConcat
  <2>3. /\ Handed(p)' <=> Handed(p)
        /\ Failing(p)' <=> Failing(p)
        /\ Commanded(p)' <=> Commanded(p)
    BY <1>0 DEF Handed, Failing, Commanded
  <2> QED
    BY <1>0, <2>1, <2>2, <2>3, TravelKept DEF Travel
<1>7. ASSUME NEW ask \in Approvals PROVE Shown(ask)'
  <2>1. Shown(ask)
    BY DEF IInv
  <2>2. CASE Lacks(t, Request(ask))
    <3>1. /\ Lacks(in', Request(ask)) <=> Lacks(in, Request(ask))
          /\ Single(in, Request(ask)) => Single(in', Request(ask))
      BY <1>1, <1>2, <2>2, HeldConcat
    <3> QED
      BY <1>0, <2>1, <3>1 DEF Shown, Coming, On
  <2>3. CASE ask \in c.asked \ cx.asked /\ Single(t, Request(ask))
    <3>1. Lacks(in, Request(ask)) /\ Coming(ask)
      BY <2>1, <2>3 DEF Shown, Coming
    <3>2. Single(in', Request(ask))
      BY <1>1, <1>2, <2>3, <3>1, HeldConcat
    <3> QED
      BY <1>0, <2>1, <2>3, <3>1, <3>2 DEF Shown, On
  <2> QED
    BY <2>2, <2>3
<1>8. Attention' /\ SubmissionInFlight'
  BY <1>0 DEF IInv, Attention, SubmissionInFlight
<1> QED
  BY <1>3, <1>4, <1>5, <1>6, <1>7, <1>8 DEF IInv

\* What Codex may say to a connection that is subscribed, or is not.
Sayable(t, subscribed) ==
    t \in Seq(Notices) /\ Lacks(t, Closes) /\ (subscribed \/ Lacks(t, Telling))

LEMMA SayableConcat ==
    ASSUME NEW b \in BOOLEAN, NEW t, Sayable(t, b), NEW u, Sayable(u, b)
    PROVE  /\ Sayable(t \o u, b)
           /\ \A K : /\ Lacks(t \o u, K) <=> Lacks(t, K) /\ Lacks(u, K)
                     /\ Single(t, K) /\ Lacks(u, K) => Single(t \o u, K)
                     /\ Lacks(t, K) /\ Single(u, K) => Single(t \o u, K)
<1>1. t \in Seq(Notices) /\ u \in Seq(Notices)
  BY DEF Sayable
<1>2. /\ t \o u \in Seq(Notices)
      /\ \A K : /\ Lacks(t \o u, K) <=> Lacks(t, K) /\ Lacks(u, K)
                /\ Single(t, K) /\ Lacks(u, K) => Single(t \o u, K)
                /\ Lacks(t, K) /\ Single(u, K) => Single(t \o u, K)
  BY <1>1, HeldConcat
<1> QED
  BY <1>2 DEF Sayable

LEMMA TellDoes ==
    ASSUME NEW b \in BOOLEAN, NEW m \in Notices, m.kind # "closed"
    PROVE  /\ Sayable(Tell(<<m>>, b), b)
           /\ \A K : /\ Single(Tell(<<m>>, b), K)
                     /\ m \notin K => Lacks(Tell(<<m>>, b), K)
<1>1. /\ <<m>> \in Seq(Notices)
      /\ \A K : Single(<<m>>, K) /\ (Lacks(<<m>>, K) <=> m \notin K)
  BY OneEvent
<1>2. <<>> \in Seq(Notices)
  OBVIOUS
<1>3. m \notin Closes
  BY DEF Closes
<1> QED
  BY <1>1, <1>2, <1>3, NothingHeld DEF Tell, Sayable

LEMMA StatusDoes ==
    ASSUME NEW b \in BOOLEAN, NEW before, NEW after
    PROVE  /\ Sayable(Status(before, after), b)
           /\ \A ask : Lacks(Status(before, after), Request(ask))
<1> DEFINE m == Msg("status", None, Waiting(after))
<1>1. m \in Notices /\ m \notin Closes /\ m \notin Telling /\ \A ask : m \notin Request(ask)
  BY DEF Waiting, Notices, Incoming, Msg, Closes, Telling, Request
<1> HIDE DEF m
<1>2. /\ <<m>> \in Seq(Notices)
      /\ \A K : Single(<<m>>, K) /\ (Lacks(<<m>>, K) <=> m \notin K)
  BY <1>1, OneEvent
<1>3. <<>> \in Seq(Notices)
  OBVIOUS
<1>4. Status(before, after) \in {<<>>, <<m>>}
  BY DEF Status, m
<1> QED
  BY <1>1, <1>2, <1>3, <1>4, NothingHeld DEF Sayable

LEMMA SaysKeeps ==
    ASSUME IInv, NEW c \in CodexFields, NEW t, CodexSays(c, t), UNCHANGED driverVars,
           Sayable(t, cx.sub), c.sub = cx.sub,
           \A p \in Prompts : c.got[p] = cx.got[p],
           cx.asked \subseteq c.asked,
           \A ask \in Approvals : \/ Lacks(t, Request(ask))
                                  \/ ask \in c.asked \ cx.asked /\ Single(t, Request(ask))
    PROVE  IInv'
<1>1. cx' = c /\ in' = (IF ad.up THEN in \o t ELSE in) /\ UNCHANGED <<ad, out, todo, expired>>
  BY DEF CodexSays
<1>2. /\ t \in Seq(Notices) /\ in \in Seq(Incoming) /\ ad.up \in BOOLEAN /\ cx.sub \in BOOLEAN
      /\ cx.sub \/ Lacks(t, Telling)
      /\ Lacks(t, Closes)
  BY DEF Sayable, IInv, AdapterShape, AdapterFields, CodexFields
<1>3. CASE ad.up
  BY <1>1, <1>2, <1>3, SaidKeeps
<1>4. CASE ~ad.up
  <2>1. in' = in \o <<>> /\ <<>> \in Seq(Notices)
    BY <1>1, <1>2, <1>4
  <2> QED
    BY <1>1, <1>2, <1>4, <2>1, NothingHeld, SaidKeeps
<1> QED
  BY <1>3, <1>4

LEMMA CodexKeeps == IInv /\ Codex /\ UNCHANGED driverVars => IInv'
<1> SUFFICES ASSUME IInv, Codex, UNCHANGED driverVars PROVE IInv'
  OBVIOUS
<1>0. /\ cx \in CodexFields /\ cx.sub \in BOOLEAN /\ cx.turns + 1 \in Nat
      /\ cx.asked \in SUBSET (Asks \cup Questions) /\ cx.asks \in SUBSET Asks
      /\ cx.got \in [Texts -> Nat]
  BY DEF IInv, AdapterShape, CodexFields
<1>1. ASSUME CodexStarts PROVE IInv'
  <2> DEFINE c == [cx EXCEPT !.turn = cx.turns + 1, !.turns = @ + 1, !.thread = "stored"]
             m == Msg("started", None, cx.turns + 1)
  <2>1. c \in CodexFields /\ c.sub = cx.sub /\ c.got = cx.got /\ c.asked = cx.asked
    BY <1>0 DEF CodexFields
  <2>2. m \in Notices /\ m.kind # "closed" /\ \A ask : m \notin Request(ask)
    BY <1>0 DEF Notices, Incoming, Msg, Request
  <2>3. CodexSays(c, Tell(<<m>>, cx.sub))
    BY <1>1 DEF CodexStarts
  <2> HIDE DEF c, m
  <2> QED
    BY <1>0, <2>1, <2>2, <2>3, TellDoes, SaysKeeps
<1>2. ASSUME CodexWorks PROVE IInv'
  <2> DEFINE m == Msg("item", None, 0)
  <2>1. m \in Notices /\ m.kind # "closed" /\ \A ask : m \notin Request(ask)
    BY DEF Notices, Incoming, Msg, Request
  <2>2. CodexSays(cx, Tell(<<m>>, cx.sub))
    BY <1>2 DEF CodexWorks, Tell
  <2> HIDE DEF m
  <2> QED
    BY <1>0, <2>1, <2>2, TellDoes, SaysKeeps
<1>3. ASSUME CodexCloses PROVE IInv'
  <2> DEFINE c == [cx EXCEPT !.thread = "none", !.sub = FALSE]  m == Msg("closed", None, 0)
             t == Tell(<<m>>, cx.sub)
  <2>1. c \in CodexFields /\ c.sub = FALSE /\ c.got = cx.got /\ c.asked = cx.asked
    BY <1>0 DEF CodexFields
  <2>2. m \in Notices /\ m \notin Telling /\ \A ask : m \notin Request(ask)
    BY DEF Notices, Incoming, Msg, Request, Telling
  <2>3. cx' = c /\ in' = in \o t /\ UNCHANGED <<ad, out, todo, expired>>
    BY <1>3 DEF CodexCloses
  <2> HIDE DEF m
  <2>4. /\ <<m>> \in Seq(Notices)
        /\ \A K : Single(<<m>>, K) /\ (Lacks(<<m>>, K) <=> m \notin K)
    BY <2>2, OneEvent
  <2>5. t \in Seq(Notices) /\ Lacks(t, Telling) /\ \A ask : Lacks(t, Request(ask))
    BY <2>2, <2>4, NothingHeld DEF Tell
  <2>6. ~ad.up => ~cx.sub
    <3> SUFFICES ASSUME ~ad.up, cx.sub PROVE FALSE
      OBVIOUS
    <3>1. in = <<>> /\ ~ad.attached /\ Known(ad.attached, in, Len(in) + 1)
      BY DEF IInv, Limits, Attachment, Sound
    <3> QED
      BY <3>1 DEF Known
  <2>7. ~ad.up => t = <<>>
    BY <2>6 DEF Tell
  <2> HIDE DEF c, t
  <2> QED
    BY <2>1, <2>3, <2>5, <2>7, SaidKeeps
<1>4. ASSUME CodexOpens PROVE IInv'
  <2> DEFINE c == [cx EXCEPT !.thread = "stored"]
  <2>1. c \in CodexFields /\ c.sub = cx.sub /\ c.got = cx.got /\ c.asked = cx.asked
    BY <1>0 DEF CodexFields
  <2>2. CodexSays(c, <<>>)
    BY <1>4 DEF CodexOpens
  <2>3. Sayable(<<>>, cx.sub)
    BY NothingHeld DEF Sayable
  <2> HIDE DEF c
  <2> QED
    BY <2>1, <2>2, <2>3, NothingHeld, SaysKeeps
<1>5. ASSUME NEW ask \in Asks, CodexAsks(ask) PROVE IInv'
  <2> DEFINE c == [cx EXCEPT !.asks = @ \cup {ask}, !.asked = @ \cup {ask}]
             m == Msg("ask", ask, 0)
             request == Tell(<<m>>, cx.sub)
             status == Status(cx.asks, c.asks)
  <2>1. /\ c \in CodexFields /\ c.sub = cx.sub /\ c.got = cx.got
        /\ c.asked = cx.asked \cup {ask} /\ ask \notin cx.asked
    BY <1>0, <1>5 DEF CodexFields, CodexAsks, Asks
  <2>2. m \in Notices /\ m.kind # "closed" /\ \A a : a # ask => m \notin Request(a)
    BY DEF Notices, Incoming, Msg, Request
  <2>3. CodexSays(c, request \o status) \/ CodexSays(c, status \o request)
    BY <1>5 DEF CodexAsks
  <2> HIDE DEF m
  <2>4. /\ Sayable(request, cx.sub)
        /\ \A K : Single(request, K) /\ (m \notin K => Lacks(request, K))
    BY <1>0, <2>2, TellDoes
  <2>5. Sayable(status, cx.sub) /\ \A a : Lacks(status, Request(a))
    BY <1>0, StatusDoes
  <2> HIDE DEF c, request, status
  <2>6. /\ Sayable(request \o status, cx.sub) /\ Sayable(status \o request, cx.sub)
        /\ \A a \in Approvals : \/ Lacks(request \o status, Request(a)) /\ Lacks(status \o request, Request(a))
                                \/ /\ a \in c.asked \ cx.asked
                                   /\ Single(request \o status, Request(a)) /\ Single(status \o request, Request(a))
    <3>1. Sayable(request \o status, cx.sub) /\ Sayable(status \o request, cx.sub)
      BY <1>0, <2>4, <2>5, SayableConcat
    <3>2. ASSUME NEW a \in Approvals
          PROVE  \/ Lacks(request \o status, Request(a)) /\ Lacks(status \o request, Request(a))
                 \/ /\ a \in c.asked \ cx.asked
                    /\ Single(request \o status, Request(a)) /\ Single(status \o request, Request(a))
      <4>1. CASE a = ask
        <5>1. Single(request, Request(a)) /\ Lacks(status, Request(a))
          BY <2>4, <2>5
        <5>2. Single(request \o status, Request(a)) /\ Single(status \o request, Request(a))
          BY <1>0, <2>4, <2>5, <5>1, SayableConcat
        <5> QED
          BY <2>1, <4>1, <5>2
      <4>2. CASE a # ask
        <5>1. Lacks(request, Request(a)) /\ Lacks(status, Request(a))
          BY <2>2, <2>4, <2>5, <4>2
        <5> QED
          BY <1>0, <2>4, <2>5, <5>1, SayableConcat
      <4> QED
        BY <4>1, <4>2
    <3> QED
      BY <3>1, <3>2
  <2>7. cx.asked \subseteq c.asked
    BY <2>1
  <2> QED
    BY <2>1, <2>3, <2>6, <2>7, SaysKeeps
<1>6. ASSUME NEW ask \in Asks, CodexResolves(ask) PROVE IInv'
  <2> DEFINE c == [cx EXCEPT !.asks = @ \ {ask}]  m == Msg("resolved", ask, 0)
             first == Tell(<<m>>, cx.sub)  then == Status(cx.asks, c.asks)
  <2>1. c \in CodexFields /\ c.sub = cx.sub /\ c.got = cx.got /\ c.asked = cx.asked
    BY <1>0 DEF CodexFields
  <2>2. m \in Notices /\ m.kind # "closed" /\ \A a : m \notin Request(a)
    BY DEF Notices, Incoming, Msg, Request
  <2>3. CodexSays(c, first \o then)
    BY <1>6 DEF CodexResolves
  <2> HIDE DEF m
  <2>4. Sayable(first, cx.sub) /\ \A a : Lacks(first, Request(a))
    BY <1>0, <2>2, TellDoes
  <2>5. Sayable(then, cx.sub) /\ \A a : Lacks(then, Request(a))
    BY <1>0, StatusDoes
  <2> HIDE DEF c, first, then
  <2>6. Sayable(first \o then, cx.sub) /\ \A a : Lacks(first \o then, Request(a))
    BY <1>0, <2>4, <2>5, SayableConcat
  <2> QED
    BY <2>1, <2>3, <2>6, SaysKeeps
<1>7. ASSUME NEW q \in Questions, CodexQuestions(q) PROVE IInv'
  <2> DEFINE c == [cx EXCEPT !.asked = @ \cup {q}]  m == Msg("question", q, 0)
  <2>1. c \in CodexFields /\ c.sub = cx.sub /\ c.got = cx.got /\ cx.asked \subseteq c.asked
    BY <1>0 DEF CodexFields
  <2>2. m \in Notices /\ m.kind # "closed" /\ \A a : m \notin Request(a)
    BY DEF Notices, Incoming, Msg, Request
  <2>3. CodexSays(c, Tell(<<m>>, cx.sub))
    BY <1>7 DEF CodexQuestions, Tell
  <2> HIDE DEF c, m
  <2> QED
    BY <1>0, <2>1, <2>2, <2>3, TellDoes, SaysKeeps
<1>8. ASSUME NEW q \in Questions, CodexReplied(q) PROVE IInv'
  <2> DEFINE c == [cx EXCEPT !.got[q] = 1]  m == Msg("replied", q, 0)
  <2>1. /\ c \in CodexFields /\ c.sub = cx.sub /\ c.asked = cx.asked
        /\ \A p \in Prompts : c.got[p] = cx.got[p]
    BY <1>0, NamesAssumption DEF CodexFields, Texts
  <2>2. m \in Notices /\ m.kind # "closed" /\ \A a : m \notin Request(a)
    BY DEF Notices, Incoming, Msg, Request
  <2>3. CodexSays(c, Tell(<<m>>, cx.sub))
    BY <1>8 DEF CodexReplied, Tell
  <2> HIDE DEF c, m
  <2> QED
    BY <1>0, <2>1, <2>2, <2>3, TellDoes, SaysKeeps
<1>9. ASSUME NEW how \in {"completed", "failed"}, CodexEnds(how) PROVE IInv'
  <2> DEFINE c == [cx EXCEPT !.turn = 0, !.asks = {}]  m == Msg("completed", None, how)
             first == Status(cx.asks, {})  then == Tell(<<m>>, cx.sub)
  <2>1. c \in CodexFields /\ c.sub = cx.sub /\ c.got = cx.got /\ c.asked = cx.asked
    BY <1>0 DEF CodexFields
  <2>2. m \in Notices /\ m.kind # "closed" /\ \A a : m \notin Request(a)
    BY DEF Notices, Incoming, Msg, Request
  <2>3. CodexSays(c, first \o then)
    BY <1>9 DEF CodexEnds
  <2> HIDE DEF m
  <2>4. Sayable(first, cx.sub) /\ \A a : Lacks(first, Request(a))
    BY <1>0, StatusDoes
  <2>5. Sayable(then, cx.sub) /\ \A a : Lacks(then, Request(a))
    BY <1>0, <2>2, TellDoes
  <2> HIDE DEF c, first, then
  <2>6. Sayable(first \o then, cx.sub) /\ \A a : Lacks(first \o then, Request(a))
    BY <1>0, <2>4, <2>5, SayableConcat
  <2> QED
    BY <2>1, <2>3, <2>6, SaysKeeps
<1>10. ASSUME NEW ask \in Asks \cup Questions, Elapse(ask) PROVE IInv'
  <2>1. UNCHANGED <<ad, out, in, todo, cx, dr, link, outcome, told, answers>> /\ expired' = expired \cup {ask}
    BY <1>10 DEF Elapse, driverVars
  <2>2. AdapterShape' /\ DriverShape' /\ Limits' /\ Attachment' /\ Attention' /\ SubmissionInFlight'
    BY <2>1 DEF IInv, AdapterShape, DriverShape, Limits, InFlight, Attachment, Attention, SubmissionInFlight
  <2>3. \A p \in Prompts : Travel(p)'
    BY <2>1 DEF IInv, Travel, Handed, Failing, Commanded
  <2>4. \A a \in Approvals : Shown(a)'
    BY <2>1 DEF IInv, Shown, Coming, On
  <2> QED
    BY <2>2, <2>3, <2>4 DEF IInv
<1> QED
  BY <1>1, <1>2, <1>3, <1>4, <1>5, <1>6, <1>7, <1>8, <1>9, <1>10 DEF Codex

-----------------------------------------------------------------------------
(* Codex is given a message.                                                *)

LEMMA GivenKeeps ==
    ASSUME IInv, ad.up, out # <<>>, NEW c \in CodexFields, NEW t \in Seq(Incoming),
           out' = Tail(out), cx' = c, in' = in \o t,
           UNCHANGED <<ad, todo, expired>>, UNCHANGED driverVars,
           c.asked = cx.asked, \A ask \in Approvals : Lacks(t, Request(ask)),
           \/ /\ Head(out).kind # "resume" /\ Lacks(t, ResumeAnswer)
              /\ c.sub = cx.sub /\ Lacks(t, Closes) /\ (cx.sub \/ Lacks(t, Telling))
           \/ /\ Head(out).kind = "resume" /\ Single(t, ResumeAnswer)
              /\ \/ c.sub = cx.sub /\ Lacks(t, Closes) /\ Lacks(t, Telling)
                 \/ c.sub /\ \E m \in Incoming : m.kind = "resumed" /\ t = <<m>>,
           \A p \in Prompts :
              \/ /\ Head(out) \notin Carriers(p) /\ c.got[p] = cx.got[p]
                 /\ Lacks(t, TooLate(p)) /\ Lacks(t, Arrivals(p))
              \/ Head(out) \in Carriers(p) /\ c.got[p] = cx.got[p] + 1 /\ Lacks(t, TooLate(p))
              \/ /\ Head(out) \in Carriers(p) /\ c.got[p] = cx.got[p]
                 /\ Single(t, TooLate(p)) /\ Lacks(t, Arrivals(p))
    PROVE  IInv'
<1>0. UNCHANGED <<dr, link, outcome, told, answers>>
  BY DEF driverVars
<1>1. /\ in \in Seq(Incoming) /\ in' \in Seq(Incoming)
      /\ out \in Seq(Outgoing) /\ out' \in Seq(Outgoing) /\ Head(out) \in Outgoing
      /\ Len(out') <= MaxOut
  <2>1. out \in Seq(Outgoing) /\ in \in Seq(Incoming) /\ Len(out) <= MaxOut /\ MaxOut \in Nat
    BY AdapterAssumption DEF IInv, AdapterShape, Limits
  <2>2. Len(Tail(out)) = Len(out) - 1 /\ Len(out) \in Nat
    BY <2>1
  <2> QED
    BY <2>1, <2>2, HeldTail, HeldConcat
<1>2. AdapterShape' /\ DriverShape'
  BY <1>0, <1>1 DEF IInv, AdapterShape, DriverShape
<1>3. Limits'
  BY <1>1 DEF IInv, Limits, InFlight
<1>4. Attachment'
  <2>1. Sound(ad.attached, in, cx.sub) /\ ad.attached \in BOOLEAN /\ cx.sub \in BOOLEAN /\ c.sub \in BOOLEAN
    BY DEF IInv, Attachment, AdapterShape, AdapterFields, CodexFields
  <2>2. Single(out', Resumes) /\ (Lacks(out, Resumes) => Lacks(out', Resumes))
    BY <1>1, HeldTail DEF IInv, Attachment
  <2>5. ASSUME c.sub = cx.sub, Lacks(t, Closes), cx.sub \/ Lacks(t, Telling)
        PROVE  Sound(ad.attached, in', c.sub)
    <3>1. CASE cx.sub = TRUE
      <4>1. Sound(ad.attached, in \o t, cx.sub)
        BY <1>1, <2>1, <2>5, <3>1, SoundTold
      <4> QED
        BY <2>5, <4>1
    <3>2. CASE cx.sub = FALSE
      <4>1. Sound(ad.attached, in \o t, FALSE)
        BY <1>1, <2>1, <2>5, <3>2, SoundTold
      <4> QED
        BY <2>5, <3>2, <4>1
    <3> QED
      BY <2>1, <3>1, <3>2
  <2>3. CASE Head(out).kind # "resume"
    <3>1. Sound(ad.attached, in', c.sub)
      BY <2>1, <2>3, <2>5
    <3>2. /\ Lacks(in', ResumeAnswer) <=> Lacks(in, ResumeAnswer)
          /\ Single(in, ResumeAnswer) => Single(in', ResumeAnswer)
      BY <1>1, <2>3, HeldConcat
    <3> QED
      BY <2>2, <3>1, <3>2 DEF IInv, Attachment
  <2>4. CASE Head(out).kind = "resume"
    <3>1. Head(out) \in Resumes
      BY <1>1, <2>4 DEF Resumes
    <3>2. Lacks(out', Resumes) /\ ad.setup = "resume" /\ Lacks(in, ResumeAnswer)
      BY <1>1, <3>1, HeldTail DEF IInv, Attachment
    <3>3. Single(in', ResumeAnswer)
      BY <1>1, <2>4, <3>2, HeldConcat
    <3>4. Sound(ad.attached, in', c.sub)
      <4>1. CASE c.sub = cx.sub /\ Lacks(t, Closes) /\ Lacks(t, Telling)
        BY <2>5, <4>1
      <4>2. ASSUME NEW m \in Incoming, m.kind = "resumed", t = <<m>>, c.sub PROVE Sound(ad.attached, in', c.sub)
        <5>1. c.sub = TRUE
          BY <2>1, <4>2
        <5>2. Sound(ad.attached, in \o <<m>>, TRUE)
          BY <1>1, <2>1, <4>2, SoundTold
        <5> QED
          BY <4>2, <5>1, <5>2
      <4> QED
        BY <2>4, <4>1, <4>2
    <3> QED
      BY <2>2, <3>2, <3>3, <3>4 DEF IInv, Attachment
  <2> QED
    BY <2>3, <2>4
<1>5. ASSUME NEW p \in Prompts PROVE Travel(p)'
  <2>1. Travel(p)
    BY DEF IInv
  <2>2. /\ Lacks(in', TooLate(p)) <=> Lacks(in, TooLate(p)) /\ Lacks(t, TooLate(p))
        /\ Single(in, TooLate(p)) /\ Lacks(t, TooLate(p)) => Single(in', TooLate(p))
        /\ Lacks(in, TooLate(p)) /\ Single(t, TooLate(p)) => Single(in', TooLate(p))
        /\ Lacks(in', Arrivals(p)) <=> Lacks(in, Arrivals(p)) /\ Lacks(t, Arrivals(p))
    BY <1>1, HeldConcat
  <2>3. /\ Lacks(out, Carriers(p)) => Lacks(out', Carriers(p))
        /\ Single(out', Carriers(p))
        /\ Head(out) \in Carriers(p) => Lacks(out', Carriers(p)) /\ ~Lacks(out, Carriers(p))
    BY <1>1, <2>1, HeldTail DEF Travel
  <2>4. /\ Handed(p)' <=> Handed(p)
        /\ Failing(p)' <=> Failing(p)
        /\ Commanded(p)' <=> Commanded(p)
    BY <1>0 DEF Handed, Failing, Commanded
  <2>5. CASE /\ Head(out) \notin Carriers(p) /\ c.got[p] = cx.got[p]
             /\ Lacks(t, TooLate(p)) /\ Lacks(t, Arrivals(p))
    BY <1>0, <2>1, <2>2, <2>3, <2>4, <2>5, TravelKept DEF Travel
  <2>6. CASE Head(out) \in Carriers(p) /\ c.got[p] = cx.got[p] + 1 /\ Lacks(t, TooLate(p))
    <3>1. cx.got[p] = 0 /\ Lacks(in, TooLate(p)) /\ Handed(p)
      BY <2>1, <2>3, <2>6 DEF Travel
    <3>2. cx'.got[p] = 1 /\ Lacks(in', TooLate(p)) /\ Lacks(out', Carriers(p)) /\ Single(in', TooLate(p))
      BY <2>1, <2>2, <2>3, <2>6, <3>1 DEF Travel
    <3>3. link'.op = "submit" /\ link'.cmd = p => outcome'[p] = None
      BY <1>0, <2>1 DEF Travel
    <3> QED
      BY <1>0, <2>3, <2>4, <3>1, <3>2, <3>3 DEF Travel
  <2>7. CASE /\ Head(out) \in Carriers(p) /\ c.got[p] = cx.got[p]
             /\ Single(t, TooLate(p)) /\ Lacks(t, Arrivals(p))
    <3>1. cx.got[p] = 0 /\ Lacks(in, TooLate(p)) /\ Handed(p)
      BY <2>1, <2>3, <2>7 DEF Travel
    <3>2. cx'.got[p] = 0 /\ Lacks(out', Carriers(p)) /\ Single(in', TooLate(p))
      BY <2>2, <2>3, <2>7, <3>1
    <3>3. Lacks(in', Arrivals(p))
      BY <2>1, <2>2, <2>7, <3>1 DEF Travel
    <3>4. link'.op = "submit" /\ link'.cmd = p => outcome'[p] = None
      BY <1>0, <2>1 DEF Travel
    <3>5. Handed(p)' /\ (p \notin answers' => cx'.got[p] = 1 \/ Commanded(p)' \/ Failing(p)')
      BY <1>0, <2>1, <2>4, <3>1 DEF Travel
    <3> QED
      BY <2>3, <3>2, <3>3, <3>4, <3>5 DEF Travel
  <2> QED
    BY <2>5, <2>6, <2>7
<1>6. ASSUME NEW ask \in Approvals PROVE Shown(ask)'
  <2>1. Shown(ask)
    BY DEF IInv
  <2>2. /\ Lacks(in', Request(ask)) <=> Lacks(in, Request(ask))
        /\ Single(in, Request(ask)) => Single(in', Request(ask))
    BY <1>1, HeldConcat
  <2> QED
    BY <1>0, <2>1, <2>2 DEF Shown, Coming, On
<1>7. Attention' /\ SubmissionInFlight'
  BY <1>0 DEF IInv, Attention, SubmissionInFlight
<1> QED
  BY <1>2, <1>3, <1>4, <1>5, <1>6, <1>7 DEF IInv

\* What Codex answers that says nothing of an attachment or a steer too late.
Answer == {m \in Incoming : m \notin ResumeAnswer /\ m.kind \in {"result", "error"}
                            /\ (m.kind = "error" => m.val # "idle")}
Fit(t, subscribed) ==
    /\ t \in Seq(Incoming)
    /\ Lacks(t, ResumeAnswer) /\ Lacks(t, Closes) /\ (subscribed \/ Lacks(t, Telling))
    /\ \A ask : Lacks(t, Request(ask))
    /\ \A p : Lacks(t, TooLate(p))

LEMMA FitConcat ==
    ASSUME NEW b \in BOOLEAN, NEW t, Fit(t, b), NEW u, Fit(u, b)
    PROVE  Fit(t \o u, b) /\ \A K : Lacks(t \o u, K) <=> Lacks(t, K) /\ Lacks(u, K)
<1>1. t \in Seq(Incoming) /\ u \in Seq(Incoming)
  BY DEF Fit
<1>2. t \o u \in Seq(Incoming) /\ \A K : Lacks(t \o u, K) <=> Lacks(t, K) /\ Lacks(u, K)
  BY <1>1, HeldConcat
<1> QED
  BY <1>2 DEF Fit

LEMMA AnswerFits ==
    ASSUME NEW m \in Answer, NEW b \in BOOLEAN
    PROVE  Fit(<<m>>, b) /\ \A K : Lacks(<<m>>, K) <=> m \notin K
<1>1. m \in Incoming /\ m.kind \in {"result", "error"} /\ m \notin ResumeAnswer
  BY DEF Answer
<1>2. /\ <<m>> \in Seq(Incoming)
      /\ \A K : Single(<<m>>, K) /\ (Lacks(<<m>>, K) <=> m \notin K)
  BY <1>1, OneEvent
<1>3. /\ m \notin Closes /\ m \notin Telling /\ \A ask : m \notin Request(ask)
      /\ \A p : m \notin TooLate(p)
  BY <1>1 DEF Closes, Telling, Request, TooLate, Answer, Error, Msg
<1> QED
  BY <1>1, <1>2, <1>3 DEF Fit

LEMMA SayableFits ==
    ASSUME NEW b \in BOOLEAN, NEW t, Sayable(t, b), \A ask : Lacks(t, Request(ask))
    PROVE  Fit(t, b) /\ \A p : Lacks(t, Arrivals(p))
<1>1. t \in Seq(Notices)
  BY DEF Sayable
<1> QED
  BY <1>1, NoticesLack DEF Sayable, Fit

LEMMA ResultAnswers ==
    ASSUME NEW call \in Calls, NEW n \in Nat, call.kind # "resume"
    PROVE  /\ Result(call, n) \in Answer
           /\ \A p : call.cmd # p => Result(call, n) \notin Arrivals(p)
  BY DEF Result, Msg, Answer, Incoming, ResumeAnswer, Arrivals

LEMMA ErrorAnswers ==
    ASSUME NEW call \in Calls, NEW why \in {"rollout", "other"}
    PROVE  /\ call.kind # "resume" => Error(call, why) \in Answer
           /\ \A p : Error(call, why) \notin Arrivals(p) /\ Error(call, why) \notin TooLate(p)
           /\ Error(call, why) \in Incoming
           /\ Error(call, why) \notin Closes /\ Error(call, why) \notin Telling
           /\ \A ask : Error(call, why) \notin Request(ask)
  BY DEF Error, Msg, Answer, Incoming, ResumeAnswer, Arrivals, TooLate, Closes, Telling, Request

\* Codex has got a text once more.
LEMMA GotMore ==
    ASSUME NEW x \in Texts, NEW got \in [Texts -> Nat], NEW g, g = [got EXCEPT ![x] = @ + 1]
    PROVE  /\ g \in [Texts -> Nat]
           /\ \A p \in Prompts : g[p] = IF x = p THEN got[p] + 1 ELSE got[p]
<1>1. Prompts \subseteq Texts
  BY DEF Texts
<1> QED
  BY <1>1

LEMMA FlushKeeps == IInv /\ Flush /\ UNCHANGED driverVars => IInv'
<1> SUFFICES ASSUME IInv, Flush, UNCHANGED driverVars PROVE IInv'
  OBVIOUS
<1> DEFINE m == Head(out)
<1>1. PICK r \in Reply(cx, m) : cx' = r.cx /\ in' = in \o r.msgs
  BY DEF Flush
<1>2. /\ ad.up /\ out # <<>> /\ out' = Tail(out) /\ UNCHANGED <<ad, todo, expired>>
      /\ m \in Outgoing /\ cx \in CodexFields /\ cx.sub \in BOOLEAN
  <2>1. out \in Seq(Outgoing) /\ out # <<>>
    BY DEF Flush, IInv, AdapterShape
  <2> QED
    BY <2>1, HeldTail DEF Flush, IInv, AdapterShape, CodexFields
<1>3. cx.asks \in SUBSET Asks /\ cx.turns + 1 \in Nat /\ cx.turn \in Nat /\ cx.got \in [Texts -> Nat]
  BY <1>2 DEF CodexFields
<1> DEFINE call == Call(m.kind, m.ref)
<1> HIDE DEF m
<1>4. ASSUME NEW c \in CodexFields, NEW t, cx' = c, in' = in \o t, Fit(t, cx.sub), m.kind # "resume",
             c.asked = cx.asked, c.sub = cx.sub,
             \A p \in Prompts :
                \/ m \notin Carriers(p) /\ c.got[p] = cx.got[p] /\ Lacks(t, Arrivals(p))
                \/ m \in Carriers(p) /\ c.got[p] = cx.got[p] + 1
                \/ m \in Carriers(p) /\ c.got[p] = cx.got[p] /\ Lacks(t, Arrivals(p))
      PROVE  IInv'
  <2>1. \A p \in Prompts : Lacks(t, TooLate(p)) /\ Single(t, TooLate(p))
    BY <1>4 DEF Fit, Lacks, Single
  <2>2. /\ t \in Seq(Incoming) /\ \A ask \in Approvals : Lacks(t, Request(ask))
        /\ Lacks(t, ResumeAnswer) /\ Lacks(t, Closes) /\ (cx.sub \/ Lacks(t, Telling))
    BY <1>4 DEF Fit
  <2> QED
    BY <1>2, <1>4, <2>1, <2>2, GivenKeeps DEF m
\* Those that answer with one message and change nothing.
<1>5. ASSUME NEW x \in Answer, cx' = cx, in' = in \o <<x>>, m.kind # "resume",
             \A p \in Prompts : x \notin Arrivals(p)
      PROVE  IInv'
  <2>1. Fit(<<x>>, cx.sub) /\ \A p \in Prompts : Lacks(<<x>>, Arrivals(p))
    BY <1>2, <1>5, AnswerFits
  <2> QED
    BY <1>2, <1>4, <1>5, <2>1
<1>6. CASE m.kind \in {"initialize", "list"}
  <2>1. m.ref = None /\ call \in Calls /\ call.kind # "resume" /\ call.cmd = None
    BY <1>2, <1>6 DEF Outgoing, Setup, Calls, Call, Texts
  <2>2. PICK n \in {0, 1} : r = [cx |-> cx, msgs |-> <<Result(call, n)>>]
    BY <1>1, <1>6 DEF Reply
  <2>3. Result(call, n) \in Answer /\ \A p \in Prompts : Result(call, n) \notin Arrivals(p)
    BY <2>1, ResultAnswers, NamesAssumption
  <2> HIDE DEF call
  <2> QED
    BY <1>1, <1>5, <1>6, <2>2, <2>3
<1>7. CASE m.kind = "resume"
  <2>1. m.ref = None /\ call \in Calls
    BY <1>2, <1>7 DEF Outgoing, Setup, Calls, Call
  <2>2. \A p : m \notin Carriers(p)
    BY <1>7 DEF Carriers, Carries
  <2>3. CASE cx.thread = "stored"
    <3> DEFINE c == [cx EXCEPT !.sub = TRUE]  x == Msg("resumed", cx.turn, Waiting(cx.asks))
    <3>1. r = [cx |-> c, msgs |-> <<x>>]
      BY <1>1, <1>7, <2>3 DEF Reply
    <3>2. c \in CodexFields /\ c.sub = TRUE /\ c.got = cx.got /\ c.asked = cx.asked
      BY <1>2 DEF CodexFields
    <3>3. /\ x \in Incoming /\ x.kind = "resumed" /\ \A ask : x \notin Request(ask)
          /\ \A p : x \notin TooLate(p) /\ x \notin Arrivals(p)
      BY <1>3 DEF Waiting, Msg, Incoming, Request, TooLate, Arrivals, Error
    <3> HIDE DEF c, x
    <3>4. /\ <<x>> \in Seq(Incoming)
          /\ \A K : Single(<<x>>, K) /\ (Lacks(<<x>>, K) <=> x \notin K)
      BY <3>3, OneEvent
    <3>5. cx' = c /\ in' = in \o <<x>>
      BY <1>1, <3>1
    <3> QED
      BY <1>2, <1>7, <2>2, <3>2, <3>3, <3>4, <3>5, GivenKeeps DEF m
  <2>4. CASE cx.thread # "stored"
    <3>1. PICK why \in {"rollout", "other"} : r = [cx |-> cx, msgs |-> <<Error(call, why)>>]
      BY <1>1, <1>7, <2>4 DEF Reply
    <3> DEFINE x == Error(call, why)
    <3>2. /\ x \in Incoming /\ x \notin Closes /\ x \notin Telling /\ \A ask : x \notin Request(ask)
          /\ \A p : x \notin TooLate(p) /\ x \notin Arrivals(p)
      BY <2>1, ErrorAnswers
    <3>3. cx' = cx /\ in' = in \o <<x>>
      BY <1>1, <3>1
    <3> HIDE DEF x
    <3>4. /\ <<x>> \in Seq(Incoming)
          /\ \A K : Single(<<x>>, K) /\ (Lacks(<<x>>, K) <=> x \notin K)
      BY <3>2, OneEvent
    <3> QED
      BY <1>2, <1>7, <2>2, <3>2, <3>3, <3>4, GivenKeeps DEF m
  <2> QED
    BY <2>3, <2>4
<1>8. CASE m.kind = "start"
  <2>1. m.ref \in Texts /\ call \in Calls /\ call.kind = "start" /\ call.cmd = m.ref
    BY <1>2, <1>8 DEF Outgoing, Setup, Calls, Call
  <2> DEFINE n == cx.turns + 1
             c == [cx EXCEPT !.turn = n, !.turns = @ + 1, !.thread = "stored", !.got[m.ref] = @ + 1]
             begun == Tell(<<Msg("started", None, n)>>, cx.sub)
  <2>2. \/ r = [cx |-> cx, msgs |-> <<Error(call, "other")>>]
        \/ r = [cx |-> c, msgs |-> <<Result(call, n)>> \o begun]
        \/ r = [cx |-> c, msgs |-> begun \o <<Result(call, n)>>]
    BY <1>1, <1>8 DEF Reply
  <2>3. /\ c \in CodexFields /\ c.sub = cx.sub /\ c.asked = cx.asked
        /\ \A p \in Prompts : c.got[p] = IF m.ref = p THEN cx.got[p] + 1 ELSE cx.got[p]
    <3> DEFINE g == [cx.got EXCEPT ![m.ref] = @ + 1]
    <3>1. c = [cx EXCEPT !.turn = n, !.turns = n, !.thread = "stored", !.got = g] /\ n \in Nat
      BY <1>2, <1>3 DEF CodexFields
    <3>2. g \in [Texts -> Nat] /\ \A p \in Prompts : g[p] = IF m.ref = p THEN cx.got[p] + 1 ELSE cx.got[p]
      BY <1>3, <2>1, GotMore
    <3> HIDE DEF c, n, g
    <3> QED
      BY <1>2, <3>1, <3>2 DEF CodexFields
  <2>4. \A p \in Prompts : m \in Carriers(p) <=> m.ref = p
    BY <1>2, <1>8 DEF Carriers, Carries
  <2>5. /\ Fit(begun, cx.sub) /\ \A p : Lacks(begun, Arrivals(p))
    <3> DEFINE x == Msg("started", None, n)
    <3>1. x \in Notices /\ x.kind # "closed" /\ \A ask : x \notin Request(ask)
      BY <1>3 DEF Notices, Incoming, Msg, Request
    <3> HIDE DEF x
    <3>2. Sayable(Tell(<<x>>, cx.sub), cx.sub) /\ \A ask : Lacks(Tell(<<x>>, cx.sub), Request(ask))
      BY <1>2, <3>1, TellDoes
    <3>3. begun = Tell(<<x>>, cx.sub)
      BY DEF x
    <3> HIDE DEF begun
    <3> QED
      BY <1>2, <3>2, <3>3, SayableFits
  <2>6. n \in Nat
    BY <1>3
  <2> HIDE DEF c, begun, call, n
  <2>7. /\ Result(call, n) \in Answer
        /\ \A p : call.cmd # p => Result(call, n) \notin Arrivals(p)
    BY <2>1, <2>6, ResultAnswers
  <2> DEFINE x == Result(call, n)
  <2> HIDE DEF x
  <2>8. /\ Fit(<<x>>, cx.sub) /\ \A K : Lacks(<<x>>, K) <=> x \notin K
    BY <1>2, <2>7, AnswerFits DEF x
  <2>9. ASSUME NEW t \in {<<x>> \o begun, begun \o <<x>>}
        PROVE  Fit(t, cx.sub) /\ \A p : call.cmd # p => Lacks(t, Arrivals(p))
    <3>1. \A p : call.cmd # p => Lacks(<<x>>, Arrivals(p))
      BY <2>7, <2>8 DEF x
    <3> DEFINE y == <<x>>
    <3> HIDE DEF y
    <3>2. /\ Fit(y, cx.sub) /\ Fit(begun, cx.sub)
          /\ \A p : call.cmd # p => Lacks(y, Arrivals(p)) /\ Lacks(begun, Arrivals(p))
      BY <2>5, <2>8, <3>1 DEF y
    <3>3. CASE t = y \o begun
      BY <1>2, <3>2, <3>3, FitConcat
    <3>4. CASE t = begun \o y
      BY <1>2, <3>2, <3>4, FitConcat
    <3> QED
      BY <3>3, <3>4 DEF y
  <2>10. CASE r = [cx |-> cx, msgs |-> <<Error(call, "other")>>]
    <3>1. Error(call, "other") \in Answer /\ \A p : Error(call, "other") \notin Arrivals(p)
      BY <2>1, ErrorAnswers
    <3> QED
      BY <1>1, <1>5, <1>8, <2>10, <3>1
  <2>11. ASSUME NEW t \in {<<x>> \o begun, begun \o <<x>>}, r = [cx |-> c, msgs |-> t] PROVE IInv'
    <3>1. cx' = c /\ in' = in \o t
      BY <1>1, <2>11
    <3>2. \A p \in Prompts : \/ m \notin Carriers(p) /\ c.got[p] = cx.got[p] /\ Lacks(t, Arrivals(p))
                             \/ m \in Carriers(p) /\ c.got[p] = cx.got[p] + 1
      BY <2>1, <2>3, <2>4, <2>9
    <3>3. Fit(t, cx.sub)
      BY <2>9
    <3> QED
      BY <1>4, <1>8, <2>3, <3>1, <3>2, <3>3
  <2> QED
    BY <2>2, <2>10, <2>11 DEF x
<1>9. CASE m.kind = "steer"
  <2>1. m.ref \in Texts /\ call \in Calls /\ call.kind = "steer" /\ call.cmd = m.ref
    BY <1>2, <1>9 DEF Outgoing, Setup, Calls, Call
  <2>2. \A p \in Prompts : m \in Carriers(p) <=> m.ref = p
    BY <1>2, <1>9 DEF Carriers, Carries
  <2>3. CASE cx.turn = m.val
    <3> DEFINE c == [cx EXCEPT !.got[m.ref] = @ + 1]
    <3>1. r = [cx |-> c, msgs |-> <<Result(call, 0)>>]
      BY <1>1, <1>9, <2>3 DEF Reply
    <3>2. /\ c \in CodexFields /\ c.sub = cx.sub /\ c.asked = cx.asked
          /\ \A p \in Prompts : c.got[p] = IF m.ref = p THEN cx.got[p] + 1 ELSE cx.got[p]
      <4> DEFINE g == [cx.got EXCEPT ![m.ref] = @ + 1]
      <4>1. c = [cx EXCEPT !.got = g]
        OBVIOUS
      <4>2. g \in [Texts -> Nat] /\ \A p \in Prompts : g[p] = IF m.ref = p THEN cx.got[p] + 1 ELSE cx.got[p]
        BY <1>3, <2>1, GotMore
      <4> HIDE DEF c, g
      <4> QED
        BY <1>2, <4>1, <4>2 DEF CodexFields
    <3> HIDE DEF c, call
    <3>3. /\ Result(call, 0) \in Answer
          /\ \A p : call.cmd # p => Result(call, 0) \notin Arrivals(p)
      BY <2>1, ResultAnswers
    <3> DEFINE x == Result(call, 0)
    <3> HIDE DEF x
    <3>4. /\ Fit(<<x>>, cx.sub) /\ \A K : Lacks(<<x>>, K) <=> x \notin K
      BY <1>2, <3>3, AnswerFits DEF x
    <3>5. cx' = c /\ in' = in \o <<x>>
      BY <1>1, <3>1 DEF x
    <3>6. \A p \in Prompts : \/ m \notin Carriers(p) /\ c.got[p] = cx.got[p] /\ Lacks(<<x>>, Arrivals(p))
                             \/ m \in Carriers(p) /\ c.got[p] = cx.got[p] + 1
      BY <2>1, <2>2, <3>2, <3>3, <3>4 DEF x
    <3> QED
      BY <1>4, <1>9, <3>2, <3>4, <3>5, <3>6
  <2>4. CASE cx.turn # m.val /\ cx.turn # 0
    <3>1. r = [cx |-> cx, msgs |-> <<Error(call, "other")>>]
      BY <1>1, <1>9, <2>4 DEF Reply
    <3> HIDE DEF call
    <3>2. Error(call, "other") \in Answer /\ \A p : Error(call, "other") \notin Arrivals(p)
      BY <2>1, ErrorAnswers
    <3> QED
      BY <1>1, <1>5, <1>9, <3>1, <3>2
  <2>5. CASE cx.turn # m.val /\ cx.turn = 0
    <3> DEFINE x == Error(call, "idle")
    <3>1. r = [cx |-> cx, msgs |-> <<x>>]
      BY <1>1, <1>9, <2>5 DEF Reply
    <3>2. /\ x \in Incoming /\ x \notin Closes /\ x \notin Telling /\ \A ask : x \notin Request(ask)
          /\ x \notin ResumeAnswer
          /\ \A p : x \notin Arrivals(p) /\ (p # m.ref => x \notin TooLate(p))
      BY <2>1 DEF Error, Msg, Incoming, ResumeAnswer, Arrivals, TooLate, Closes, Telling, Request, Call
    <3> HIDE DEF x
    <3>3. /\ <<x>> \in Seq(Incoming)
          /\ \A K : Single(<<x>>, K) /\ (Lacks(<<x>>, K) <=> x \notin K)
      BY <3>2, OneEvent
    <3>4. cx' = cx /\ in' = in \o <<x>>
      BY <1>1, <3>1
    <3>5. \A p \in Prompts :
              \/ m \notin Carriers(p) /\ Lacks(<<x>>, TooLate(p)) /\ Lacks(<<x>>, Arrivals(p))
              \/ m \in Carriers(p) /\ Single(<<x>>, TooLate(p)) /\ Lacks(<<x>>, Arrivals(p))
      BY <2>2, <3>2, <3>3
    <3>6. /\ \A ask \in Approvals : Lacks(<<x>>, Request(ask))
          /\ Lacks(<<x>>, ResumeAnswer) /\ Lacks(<<x>>, Closes) /\ Lacks(<<x>>, Telling)
      BY <3>2, <3>3
    <3> HIDE DEF call
    <3> QED
      BY <1>2, <1>9, <3>3, <3>4, <3>5, <3>6, GivenKeeps DEF m
  <2> QED
    BY <2>3, <2>4, <2>5
<1>10. CASE m.kind = "interrupt"
  <2>1. m.ref = Stop /\ call \in Calls /\ call.kind = "interrupt" /\ call.cmd = Stop
    BY <1>2, <1>10 DEF Outgoing, Setup, Calls, Call
  <2>2. \A p \in Prompts : m \notin Carriers(p) /\ call.cmd # p
    BY <1>10, <2>1, NamesAssumption DEF Carriers, Carries
  <2>3. CASE cx.turn = m.val
    <3> DEFINE c == [cx EXCEPT !.turn = 0, !.asks = {}]
               status == Status(cx.asks, {})
               end == Tell(<<Msg("completed", None, "interrupted")>>, cx.sub)
               x == Result(call, 0)
    <3>1. r = [cx |-> c, msgs |-> <<x>> \o status \o end]
      BY <1>1, <1>10, <2>3 DEF Reply
    <3>2. c \in CodexFields /\ c.sub = cx.sub /\ c.asked = cx.asked /\ c.got = cx.got
      BY <1>2 DEF CodexFields
    <3>3. x \in Answer /\ \A p \in Prompts : x \notin Arrivals(p)
      BY <2>1, <2>2, ResultAnswers
    <3>4. Fit(status, cx.sub) /\ \A p : Lacks(status, Arrivals(p))
      <4>1. Sayable(status, cx.sub) /\ \A ask : Lacks(status, Request(ask))
        BY <1>2, StatusDoes
      <4> HIDE DEF status
      <4> QED
        BY <1>2, <4>1, SayableFits
    <3>5. Fit(end, cx.sub) /\ \A p : Lacks(end, Arrivals(p))
      <4> DEFINE y == Msg("completed", None, "interrupted")
      <4>1. y \in Notices /\ y.kind # "closed" /\ \A ask : y \notin Request(ask)
        BY DEF Notices, Incoming, Msg, Request
      <4>2. end = Tell(<<y>>, cx.sub)
        OBVIOUS
      <4> HIDE DEF y, end
      <4>3. Sayable(Tell(<<y>>, cx.sub), cx.sub) /\ \A ask : Lacks(Tell(<<y>>, cx.sub), Request(ask))
        BY <1>2, <4>1, TellDoes
      <4> QED
        BY <1>2, <4>2, <4>3, SayableFits
    <3> HIDE DEF c, status, end, x, call
    <3>6. Fit(<<x>>, cx.sub) /\ \A K : Lacks(<<x>>, K) <=> x \notin K
      BY <1>2, <3>3, AnswerFits
    <3> DEFINE u == <<x>> \o status
    <3>7. Fit(u, cx.sub) /\ \A K : Lacks(u, K) <=> Lacks(<<x>>, K) /\ Lacks(status, K)
      BY <1>2, <3>4, <3>6, FitConcat
    <3>8. r = [cx |-> c, msgs |-> u \o end]
      BY <3>1
    <3> HIDE DEF u
    <3>9. Fit(u \o end, cx.sub) /\ \A K : Lacks(u \o end, K) <=> Lacks(u, K) /\ Lacks(end, K)
      BY <1>2, <3>5, <3>7, FitConcat
    <3>10. \A p \in Prompts : Lacks(u \o end, Arrivals(p))
      BY <3>3, <3>4, <3>5, <3>6, <3>7, <3>9
    <3>11. cx' = c /\ in' = in \o (u \o end)
      BY <1>1, <3>8
    <3> DEFINE t == u \o end
    <3>12. cx' = c /\ in' = in \o t /\ Fit(t, cx.sub) /\ \A p \in Prompts : Lacks(t, Arrivals(p))
      BY <3>9, <3>10, <3>11
    <3> HIDE DEF t
    <3> QED
      BY <1>4, <1>10, <2>2, <3>2, <3>12
  <2>4. CASE cx.turn # m.val
    <3>1. r = [cx |-> cx, msgs |-> <<Error(call, "other")>>]
      BY <1>1, <1>10, <2>4 DEF Reply
    <3> HIDE DEF call
    <3>2. Error(call, "other") \in Answer /\ \A p : Error(call, "other") \notin Arrivals(p)
      BY <2>1, ErrorAnswers
    <3> QED
      BY <1>1, <1>5, <1>10, <3>1, <3>2
  <2> QED
    BY <2>3, <2>4
<1>11. CASE m.kind = "answer"
  <2>1. m.ref \in Asks /\ m.val \in Prompts \cup {None}
    BY <1>2, <1>11 DEF Outgoing, Setup
  <2>2. \A p \in Prompts : m \in Carriers(p) <=> m.val = p
    BY <1>2, <1>11 DEF Carriers, Carries
  <2>3. CASE m.ref \in cx.asks
    <3> DEFINE c == [cx EXCEPT !.asks = @ \ {m.ref},
                               !.got = [x \in Texts |-> IF x = m.val THEN @[x] + 1 ELSE @[x]]]
               first == Tell(<<Msg("resolved", m.ref, 0)>>, cx.sub)
               then == Status(cx.asks, c.asks)
    <3>1. r = [cx |-> c, msgs |-> first \o then]
      BY <1>1, <1>11, <2>3 DEF Reply
    <3>2. /\ c \in CodexFields /\ c.sub = cx.sub /\ c.asked = cx.asked
          /\ \A p \in Prompts : c.got[p] = IF m.val = p THEN cx.got[p] + 1 ELSE cx.got[p]
      <4> DEFINE g == [x \in Texts |-> IF x = m.val THEN cx.got[x] + 1 ELSE cx.got[x]]
                 S == cx.asks \ {m.ref}
      <4>1. c = [cx EXCEPT !.asks = S, !.got = g]
        OBVIOUS
      <4>2. g \in [Texts -> Nat] /\ \A p \in Prompts : g[p] = IF m.val = p THEN cx.got[p] + 1 ELSE cx.got[p]
        BY <1>3 DEF Texts
      <4>3. S \in SUBSET Asks
        BY <1>3
      <4> HIDE DEF c, g, S
      <4> QED
        BY <1>2, <4>1, <4>2, <4>3 DEF CodexFields
    <3>3. Sayable(first, cx.sub) /\ \A ask : Lacks(first, Request(ask))
      <4> DEFINE y == Msg("resolved", m.ref, 0)
      <4>1. y \in Notices /\ y.kind # "closed" /\ \A ask : y \notin Request(ask)
        BY <2>1 DEF Notices, Incoming, Msg, Request
      <4>2. first = Tell(<<y>>, cx.sub)
        OBVIOUS
      <4> HIDE DEF y, first
      <4> QED
        BY <1>2, <4>1, <4>2, TellDoes
    <3>4. Sayable(then, cx.sub) /\ \A ask : Lacks(then, Request(ask))
      BY <1>2, StatusDoes
    <3> HIDE DEF c, first, then
    <3> DEFINE t == first \o then
    <3>5. Sayable(t, cx.sub) /\ \A ask : Lacks(t, Request(ask))
      BY <1>2, <3>3, <3>4, SayableConcat
    <3>6. cx' = c /\ in' = in \o t
      BY <1>1, <3>1
    <3> HIDE DEF t
    <3>7. Fit(t, cx.sub) /\ \A p : Lacks(t, Arrivals(p))
      BY <1>2, <3>5, SayableFits
    <3>8. \A p \in Prompts : \/ m \notin Carriers(p) /\ c.got[p] = cx.got[p] /\ Lacks(t, Arrivals(p))
                             \/ m \in Carriers(p) /\ c.got[p] = cx.got[p] + 1
      BY <2>2, <3>2, <3>7
    <3> QED
      BY <1>4, <1>11, <3>2, <3>6, <3>7, <3>8
  <2>4. CASE m.ref \notin cx.asks
    <3>1. r = [cx |-> cx, msgs |-> <<>>]
      BY <1>1, <1>11, <2>4 DEF Reply
    <3>2. cx' = cx /\ in' = in \o <<>>
      BY <1>1, <3>1
    <3>3. Fit(<<>>, cx.sub) /\ \A p : Lacks(<<>>, Arrivals(p))
      BY NothingHeld DEF Fit
    <3> QED
      BY <1>2, <1>4, <1>11, <3>2, <3>3
  <2> QED
    BY <2>3, <2>4
<1> QED
  BY <1>2, <1>6, <1>7, <1>8, <1>9, <1>10, <1>11 DEF Outgoing, Setup

-----------------------------------------------------------------------------
(* The connection thread goes on.                                           *)

LEMMA ThreadKeeps ==
    ASSUME IInv, NEW a \in AdapterFields, ad' = a, a.up,
           in' \in Seq(Incoming), out' \in Seq(Outgoing), Len(out') <= MaxOut, todo' \in Seq(Events),
           cx' = cx, UNCHANGED driverVars,
           IsFiniteSet(a.calls), InFlight(a) <= MaxCalls,
           IsFiniteSet(a.approvals), Cardinality(a.approvals) <= MaxApprovals,
           Attachment', SubmissionInFlight', Attention',
           \A p \in Prompts : Travel(p)', \A ask \in Approvals : Shown(ask)'
    PROVE  IInv'
<1>0. UNCHANGED <<dr, link, outcome, told, answers>>
  BY DEF driverVars
<1>1. AdapterShape' /\ DriverShape'
  BY <1>0 DEF IInv, AdapterShape, DriverShape
<1>2. Limits'
  BY DEF Limits, InFlight
<1> QED
  BY <1>1, <1>2 DEF IInv

\* Its next message is off the list.
LEMMA AttachmentHandled ==
    ASSUME IInv, NEW a \in AdapterFields, ad' = a, in # <<>>, in' = Tail(in), cx' = cx,
           Lacks(out, Resumes) => Lacks(out', Resumes), Single(out', Resumes),
           a.setup = ad.setup \/ ad.setup # "resume" \/ Head(in) \in ResumeAnswer,
           a.subscribed => a.attached,
           \/ Head(in).kind = "closed"
           \/ Head(in).kind # "closed" /\ a.attached
           \/ Head(in).kind # "resumed" /\ a.attached = ad.attached
    PROVE  Attachment'
<1>1. in \in Seq(Incoming) /\ cx.sub \in BOOLEAN /\ ad.attached \in BOOLEAN /\ a.attached \in BOOLEAN
  BY DEF IInv, AdapterShape, AdapterFields, CodexFields
<1>2. /\ Lacks(in, ResumeAnswer) => Lacks(Tail(in), ResumeAnswer)
      /\ Single(Tail(in), ResumeAnswer)
      /\ Head(in) \in ResumeAnswer => Lacks(Tail(in), ResumeAnswer) /\ ~Lacks(in, ResumeAnswer)
  BY <1>1, HeldTail DEF IInv, Attachment
<1>3. Sound(a.attached, Tail(in), cx.sub)
  <2>0. Sound(ad.attached, in, cx.sub)
    BY DEF IInv, Attachment
  <2>1. /\ Head(in).kind = "closed" => \A b \in BOOLEAN : Sound(b, Tail(in), cx.sub)
        /\ Head(in).kind \notin {"closed", "resumed"} => Sound(ad.attached, Tail(in), cx.sub)
        /\ Head(in).kind # "closed" => Sound(TRUE, Tail(in), cx.sub)
    BY <1>1, <2>0, SoundTail
  <2>2. CASE Head(in).kind = "closed"
    BY <1>1, <2>1, <2>2
  <2>3. CASE Head(in).kind # "closed" /\ a.attached
    <3>1. a.attached = TRUE
      BY <1>1, <2>3
    <3> QED
      BY <2>1, <2>3, <3>1
  <2>4. CASE Head(in).kind \notin {"closed", "resumed"} /\ a.attached = ad.attached
    BY <2>1, <2>4
  <2> QED
    BY <2>2, <2>3, <2>4
<1> QED
  BY <1>2, <1>3 DEF IInv, Attachment

\* It does not take a message.
LEMMA AttachmentStays ==
    ASSUME IInv, UNCHANGED <<in, cx>>, ad'.attached = ad.attached,
           ad'.subscribed => ad.subscribed,
           ad'.setup = ad.setup \/ ad.setup # "resume",
           Lacks(out, Resumes) => Lacks(out', Resumes), Single(out', Resumes)
    PROVE  Attachment'
  BY DEF IInv, Attachment

\* Fewer calls and approvals are within the limits.
LEMMA FewerFit ==
    ASSUME IInv, NEW a \in AdapterFields, a.calls \subseteq ad.calls, a.setup \in {ad.setup, None},
           a.approvals \subseteq ad.approvals
    PROVE  /\ IsFiniteSet(a.calls) /\ InFlight(a) <= MaxCalls
           /\ IsFiniteSet(a.approvals) /\ Cardinality(a.approvals) <= MaxApprovals
           /\ InFlight(a) \in Nat /\ Cardinality(a.calls) \in Nat
           /\ a.setup = None => Cardinality(a.calls) <= MaxCalls
<1>1. /\ IsFiniteSet(ad.calls) /\ IsFiniteSet(ad.approvals)
      /\ InFlight(ad) <= MaxCalls /\ Cardinality(ad.approvals) <= MaxApprovals
      /\ MaxCalls \in Nat /\ MaxApprovals \in Nat
  BY AdapterAssumption DEF IInv, Limits
<1>2. /\ IsFiniteSet(a.calls) /\ Cardinality(a.calls) <= Cardinality(ad.calls)
      /\ Cardinality(a.calls) \in Nat /\ Cardinality(ad.calls) \in Nat
  BY <1>1, FS_Subset, FS_CardinalityType
<1>3. /\ IsFiniteSet(a.approvals) /\ Cardinality(a.approvals) <= Cardinality(ad.approvals)
      /\ Cardinality(a.approvals) \in Nat /\ Cardinality(ad.approvals) \in Nat
  BY <1>1, FS_Subset, FS_CardinalityType
<1> QED
  BY <1>1, <1>2, <1>3 DEF InFlight

\* What is handled leaves fewer calls and approvals, and events for what is gone.
LEMMA LeavesKeeps ==
    ASSUME IInv, todo = <<>>, NEW a \in AdapterFields, ad' = a, a.up,
           UNCHANGED <<out, cx, expired>>, UNCHANGED driverVars,
           in' = in \/ (in # <<>> /\ in' = Tail(in)),
           Attachment', SubmissionInFlight',
           a.calls \subseteq ad.calls, a.setup \in {ad.setup, None}, a.approvals \subseteq ad.approvals,
           todo' \in Seq(Events), \A ask \in Approvals : Lacks(todo', Opening(ask)),
           Lacks(todo', AttentionOn) \/ a.waiting,
           ad.waiting => a.waiting \/ ~Lacks(todo', AttentionEnd),
           \A p \in Prompts : Commanded(p) => \/ p \in Commands(a.calls) \/ cx.got[p] = 1
                                              \/ ~Lacks(todo', Reports(p)),
           \A ask \in Approvals : ask \in ad.approvals => ask \in a.approvals \/ ~Lacks(todo', Closing(ask))
    PROVE  IInv'
<1>0. UNCHANGED <<dr, link, outcome, told, answers>>
  BY DEF driverVars
<1>1. /\ in \in Seq(Incoming) /\ in' \in Seq(Incoming)
      /\ \A K : (Lacks(in, K) => Lacks(in', K)) /\ (Single(in, K) => Single(in', K))
  <2>1. in \in Seq(Incoming)
    BY DEF IInv, AdapterShape
  <2>2. CASE in' = in
    BY <2>1, <2>2
  <2>3. CASE in # <<>> /\ in' = Tail(in)
    <3>1. /\ Tail(in) \in Seq(Incoming)
          /\ \A K : (Lacks(in, K) => Lacks(Tail(in), K)) /\ (Single(in, K) => Single(Tail(in), K))
      BY <2>1, <2>3, HeldTail
    <3> QED
      BY <2>1, <2>3, <3>1
  <2> QED
    BY <2>2, <2>3
<1>2. \A p \in Prompts : Travel(p)'
  <2> TAKE p \in Prompts
  <2>1. Travel(p)
    BY DEF IInv
  <2>2. Handed(p)' <=> Handed(p)
    BY <1>0 DEF Handed
  <2>3. Failing(p) => Failing(p)'
    BY <1>0, NothingHeld DEF Failing
  <2>4. Commanded(p)' => Commanded(p)
    BY DEF Commanded
  <2>5. p \in Commands(a.calls) => Commanded(p)'
    BY DEF Commanded, Commands
  <2>6. Commanded(p) => Commanded(p)' \/ cx.got[p] = 1 \/ Failing(p)'
    BY <2>5 DEF Failing
  <2> QED
    BY <1>0, <1>1, <2>1, <2>2, <2>3, <2>4, <2>6, TravelKept DEF Travel
<1>3. \A ask \in Approvals : Shown(ask)'
  <2> TAKE ask \in Approvals
  <2>1. Shown(ask) /\ Lacks(todo', Opening(ask)) /\ Single(todo', Opening(ask))
    BY DEF IInv, Lacks, Single
  <2> QED
    BY <1>0, <1>1, <2>1, ShownKept DEF Shown
<1>4. Attention'
  BY <1>0, AttentionStays DEF IInv
<1>5. /\ IsFiniteSet(a.calls) /\ InFlight(a) <= MaxCalls
      /\ IsFiniteSet(a.approvals) /\ Cardinality(a.approvals) <= MaxApprovals
  BY FewerFit
<1>6. out' \in Seq(Outgoing) /\ Len(out') <= MaxOut
  BY DEF IInv, AdapterShape, Limits
<1> QED
  BY <1>1, <1>2, <1>3, <1>4, <1>5, <1>6, ThreadKeeps

-----------------------------------------------------------------------------
(* What does not follow from a message.                                     *)

LEMMA ConnectKeeps == IInv /\ Connect /\ UNCHANGED driverVars => IInv'
<1> SUFFICES ASSUME IInv, Connect, UNCHANGED driverVars PROVE IInv'
  OBVIOUS
<1>0. UNCHANGED <<dr, link, outcome, told, answers>>
  BY DEF driverVars
<1> DEFINE a == [ad EXCEPT !.up = TRUE, !.setup = "initialize"]  m == Msg("initialize", None, 0)
<1>1. /\ ad \in AdapterFields /\ ad.calls = {} /\ ad.setup = None /\ in = <<>> /\ out = <<>>
      /\ todo = <<>> /\ ~ad.attached
  BY DEF Connect, Idle, IInv, AdapterShape, Limits, AdapterFields
<1>2. /\ ad' = a /\ out' = <<m>> /\ UNCHANGED <<in, todo, cx, expired>>
  BY DEF Connect
<1>3. /\ a \in AdapterFields /\ a.up /\ a.setup = "initialize"
      /\ a.calls = ad.calls /\ a.approvals = ad.approvals /\ a.attached = ad.attached
      /\ a.subscribed = ad.subscribed /\ a.waiting = ad.waiting /\ a.submission = ad.submission
  BY <1>1 DEF AdapterFields, Setup
<1>4. m \in Outgoing /\ m \notin Resumes /\ \A p : m \notin Carriers(p)
  BY DEF Msg, Outgoing, Setup, Resumes, Carriers, Carries
<1> HIDE DEF a, m
<1>5. /\ out' \in Seq(Outgoing) /\ Len(out') = 1
      /\ \A K : Single(out', K) /\ (Lacks(out', K) <=> m \notin K)
  BY <1>2, <1>4, OneEvent
<1>6. /\ IsFiniteSet(a.calls) /\ InFlight(a) <= MaxCalls /\ Len(out') <= MaxOut
      /\ IsFiniteSet(a.approvals) /\ Cardinality(a.approvals) <= MaxApprovals
  <2>1. Cardinality({}) = 0 /\ IsFiniteSet({})
    BY FS_EmptySet
  <2>2. InFlight(a) = 1
    BY <1>1, <1>3, <2>1, NamesAssumption DEF InFlight, Setup
  <2> QED
    BY <1>1, <1>3, <1>5, <2>1, <2>2, AdapterAssumption DEF IInv, Limits
<1>7. Attachment'
  <2>1. ad.setup # "resume"
    BY <1>1, NamesAssumption DEF Setup
  <2> QED
    BY <1>1, <1>2, <1>3, <1>4, <1>5, <2>1, AttachmentStays
<1>8. SubmissionInFlight' /\ Attention'
  BY <1>0, <1>1, <1>2, <1>3 DEF IInv, SubmissionInFlight, Attention
<1>9. \A p \in Prompts : Travel(p)'
  <2> TAKE p \in Prompts
  <2>1. Travel(p)
    BY DEF IInv
  <2>2. (Handed(p)' <=> Handed(p)) /\ (Failing(p)' <=> Failing(p)) /\ (Commanded(p)' <=> Commanded(p))
    BY <1>0, <1>1, <1>2, <1>3 DEF Handed, Failing, Commanded
  <2> QED
    BY <1>0, <1>1, <1>2, <1>4, <1>5, <2>1, <2>2, TravelKept DEF Travel
<1>10. \A ask \in Approvals : Shown(ask)'
  <2> TAKE ask \in Approvals
  <2>1. Shown(ask)
    BY DEF IInv
  <2> QED
    BY <1>0, <1>1, <1>2, <1>3, <2>1 DEF Shown, Coming, On
<1>11. in' \in Seq(Incoming) /\ todo' \in Seq(Events)
  BY <1>2 DEF IInv, AdapterShape
<1> QED
  BY <1>2, <1>3, <1>5, <1>6, <1>7, <1>8, <1>9, <1>10, <1>11, ThreadKeeps

LEMMA BreakKeeps == IInv /\ Break /\ UNCHANGED driverVars => IInv'
<1> SUFFICES ASSUME IInv, Break, UNCHANGED driverVars PROVE IInv'
  OBVIOUS
<1>1. ad \in AdapterFields /\ IsFiniteSet(ad.calls) /\ todo = <<>> /\ Lost(ad) /\ UNCHANGED expired
  BY DEF Break, Idle, IInv, AdapterShape, Limits
<1>2. \A p \in Prompts : Commanded(p) => p \in Commands(ad.calls)
  BY DEF Commanded, Commands
<1> QED
  BY <1>1, <1>2, LostKeeps

\* Discovery asks Codex for the thread.
LEMMA DiscoverKeeps == IInv /\ Discover /\ UNCHANGED driverVars => IInv'
<1> SUFFICES ASSUME IInv, Discover, UNCHANGED driverVars PROVE IInv'
  OBVIOUS
<1>0. UNCHANGED <<dr, link, outcome, told, answers>>
  BY DEF driverVars
<1>1. /\ ad \in AdapterFields /\ IsFiniteSet(ad.calls) /\ todo = <<>> /\ ad.setup = None
      /\ UNCHANGED expired /\ out \in Seq(Outgoing) /\ in \in Seq(Incoming)
  BY DEF Discover, Idle, IInv, AdapterShape, Limits
<1>2. \A p \in Prompts : Commanded(p) => p \in Commands(ad.calls)
  BY DEF Commanded, Commands
<1>3. CASE Lost(ad)
  BY <1>1, <1>2, <1>3, LostKeeps
<1>4. CASE Room(ad) /\ ~Lost(ad)
  <2> DEFINE kind == IF Matches(ad) THEN "resume" ELSE "list"
             a == [ad EXCEPT !.setup = kind]  m == Msg(kind, None, 0)
  <2>1. ad' = a /\ out' = Append(out, m) /\ UNCHANGED <<in, todo, cx>>
    BY <1>4 DEF Discover
  <2>2. /\ a \in AdapterFields /\ a.up /\ a.setup = kind
        /\ a.calls = ad.calls /\ a.approvals = ad.approvals /\ a.attached = ad.attached
        /\ a.subscribed = ad.subscribed /\ a.waiting = ad.waiting /\ a.submission = ad.submission
    BY <1>1, <1>4 DEF AdapterFields, Setup, Room
  <2>3. m \in Outgoing /\ (m \in Resumes => kind = "resume") /\ \A p : m \notin Carriers(p)
    BY DEF Msg, Outgoing, Setup, Resumes, Carriers, Carries
  <2>4. kind \in Setup
    BY DEF Setup
  <2> HIDE DEF kind, a, m
  <2>5. /\ out' \in Seq(Outgoing)
        /\ \A K : /\ Lacks(out', K) <=> Lacks(out, K) /\ m \notin K
                  /\ Single(out, K) /\ m \notin K => Single(out', K)
                  /\ Lacks(out, K) => Single(out', K)
    BY <1>1, <2>1, <2>3, HeldAppend
  <2>6. /\ IsFiniteSet(a.calls) /\ InFlight(a) <= MaxCalls /\ Len(out') <= MaxOut
        /\ IsFiniteSet(a.approvals) /\ Cardinality(a.approvals) <= MaxApprovals
    <3>1. InFlight(ad) < MaxCalls /\ Len(out) < MaxOut /\ Len(out) \in Nat /\ Len(out') = Len(out) + 1
      BY <1>1, <1>4, <2>1, AdapterAssumption DEF Room, Full
    <3>2. Cardinality(ad.calls) \in Nat /\ InFlight(ad) = Cardinality(ad.calls)
      BY <1>1, FS_CardinalityType DEF InFlight
    <3>3. InFlight(a) = Cardinality(ad.calls) + 1
      BY <2>2, <2>4, NamesAssumption DEF InFlight, Setup
    <3> QED
      BY <2>2, <3>1, <3>2, <3>3, AdapterAssumption DEF IInv, Limits
  <2>7. Attachment'
    <3>1. Lacks(out, Resumes) /\ Lacks(in, ResumeAnswer)
      BY <1>1, NamesAssumption DEF IInv, Attachment, Setup
    <3>2. Single(out', Resumes) /\ (Lacks(out', Resumes) \/ a.setup = "resume")
      BY <2>2, <2>3, <2>5, <3>1
    <3> QED
      BY <2>1, <2>2, <3>1, <3>2 DEF IInv, Attachment
  <2>8. SubmissionInFlight' /\ Attention'
    BY <1>0, <2>1, <2>2 DEF IInv, SubmissionInFlight, Attention
  <2>9. \A p \in Prompts : Travel(p)'
    <3> TAKE p \in Prompts
    <3>1. Travel(p)
      BY DEF IInv
    <3>2. (Handed(p)' <=> Handed(p)) /\ (Failing(p)' <=> Failing(p)) /\ (Commanded(p)' <=> Commanded(p))
      BY <1>0, <2>1, <2>2 DEF Handed, Failing, Commanded
    <3> QED
      BY <1>0, <2>1, <2>3, <2>5, <3>1, <3>2, TravelKept DEF Travel
  <2>10. \A ask \in Approvals : Shown(ask)'
    BY <1>0, <1>1, <2>1, <2>2 DEF IInv, Shown, Coming, On
  <2>11. in' \in Seq(Incoming) /\ todo' \in Seq(Events) /\ cx' = cx
    BY <2>1 DEF IInv, AdapterShape
  <2> QED
    BY <2>1, <2>2, <2>5, <2>6, <2>7, <2>8, <2>9, <2>10, <2>11, ThreadKeeps
<1> QED
  BY <1>3, <1>4 DEF Discover

\* Nothing of what the invariant is about changes in the adapter.
LEMMA SameElsewhere ==
    ASSUME IInv, NEW a \in AdapterFields, ad' = a,
           a.up = ad.up, a.calls = ad.calls, a.setup = ad.setup, a.approvals = ad.approvals,
           a.attached = ad.attached, a.subscribed = ad.subscribed,
           a.waiting = ad.waiting, a.submission = ad.submission,
           UNCHANGED <<out, in, todo, cx, expired, dr, link, outcome, told, answers>>
    PROVE  IInv'
<1>1. AdapterShape' /\ DriverShape' /\ Limits' /\ Attachment' /\ Attention' /\ SubmissionInFlight'
  BY DEF IInv, AdapterShape, DriverShape, Limits, InFlight, Attachment, Attention, SubmissionInFlight
<1>2. \A p \in Prompts : Travel(p)'
  BY DEF IInv, Travel, Handed, Failing, Commanded
<1>3. \A ask \in Approvals : Shown(ask)'
  BY DEF IInv, Shown, Coming, On
<1> QED
  BY <1>1, <1>2, <1>3 DEF IInv

LEMMA PurgeKeeps == IInv /\ Purge /\ UNCHANGED driverVars => IInv'
<1> SUFFICES ASSUME IInv, Purge, UNCHANGED driverVars PROVE IInv'
  OBVIOUS
<1> DEFINE a == [ad EXCEPT !.inputs = Live(ad)]
<1>1. ad' = a /\ UNCHANGED <<out, in, todo, cx, expired, dr, link, outcome, told, answers>> /\ ad \in AdapterFields
  BY DEF Purge, driverVars, IInv, AdapterShape
<1>2. a \in AdapterFields
  BY <1>1 DEF AdapterFields, Live
<1>3. /\ a.up = ad.up /\ a.calls = ad.calls /\ a.setup = ad.setup /\ a.approvals = ad.approvals
      /\ a.attached = ad.attached /\ a.subscribed = ad.subscribed
      /\ a.waiting = ad.waiting /\ a.submission = ad.submission
  BY <1>1 DEF AdapterFields
<1> HIDE DEF a
<1> QED
  BY <1>1, <1>2, <1>3, SameElsewhere

-----------------------------------------------------------------------------
(* A call is over.                                                          *)

\* Neither what is called nor what is shown changes.
LEMMA QuietKeeps ==
    ASSUME IInv, todo = <<>>, NEW a \in AdapterFields, ad' = a, a.up,
           UNCHANGED <<out, cx, expired>>, UNCHANGED driverVars,
           in' = in \/ (in # <<>> /\ in' = Tail(in)),
           Attachment', a.submission \in {ad.submission, None},
           a.calls = ad.calls, a.setup \in {ad.setup, None}, a.approvals = ad.approvals,
           a.waiting = ad.waiting,
           todo' \in Seq(Events), \A ask \in Approvals : Lacks(todo', Opening(ask)),
           Lacks(todo', AttentionOn)
    PROVE  IInv'
<1>1. SubmissionInFlight'
  BY DEF IInv, SubmissionInFlight
<1>2. \A p \in Prompts : Commanded(p) => p \in Commands(a.calls)
  BY DEF Commanded, Commands
<1> QED
  BY <1>1, <1>2, LeavesKeeps

\* The adapter a when call is none of its calls any more.
Withdrawn(a, call) ==
    /\ a \in AdapterFields /\ call = Call(call.kind, call.cmd)
    /\ a.up = ad.up /\ a.initialized = ad.initialized /\ a.attached = ad.attached
    /\ a.subscribed = ad.subscribed
    /\ a.resume = ad.resume /\ a.active = ad.active /\ a.submission = ad.submission
    /\ a.approvals = ad.approvals /\ a.inputs = ad.inputs /\ a.questions = ad.questions
    /\ a.answered = ad.answered /\ a.waiting = ad.waiting
    /\ call.kind \in Setup => a.setup = None /\ a.calls = ad.calls /\ call.cmd = None
    /\ call.kind \notin Setup => /\ a.setup = ad.setup /\ a.calls = ad.calls \ {call}
                                 /\ call.cmd \in Texts \cup {Stop}
    /\ call.kind \in {"start", "steer", "interrupt"} \cup Setup
    /\ call.kind = "interrupt" => call.cmd = Stop

LEMMA WithoutDoes ==
    ASSUME IInv, NEW call \in Calls
    PROVE  Withdrawn(Without(ad, call), call)
<1> DEFINE a == Without(ad, call)
<1> SUFFICES Withdrawn(a, call)
  OBVIOUS
<1>0. a = Without(ad, call)
  OBVIOUS
<1> HIDE DEF a
<1>1. ad \in AdapterFields
  BY DEF IInv, AdapterShape
<1>2. /\ call.kind \in Setup => call.cmd = None
      /\ call.kind \notin Setup => call.cmd \in Texts \cup {Stop}
      /\ call.kind \in {"start", "steer", "interrupt"} \cup Setup
      /\ call.kind = "interrupt" => call.cmd = Stop
      /\ call = Call(call.kind, call.cmd)
  BY DEF Calls, Call, Setup
<1>3. CASE call.kind \in Setup
  <2>1. a = [ad EXCEPT !.setup = None]
    BY <1>0, <1>3 DEF Without
  <2>2. /\ a \in AdapterFields /\ a.calls = ad.calls /\ a.setup = None
        /\ a.up = ad.up /\ a.initialized = ad.initialized /\ a.attached = ad.attached
        /\ a.subscribed = ad.subscribed
        /\ a.resume = ad.resume /\ a.active = ad.active /\ a.submission = ad.submission
        /\ a.approvals = ad.approvals /\ a.inputs = ad.inputs /\ a.questions = ad.questions
        /\ a.answered = ad.answered /\ a.waiting = ad.waiting
    BY <1>1, <2>1 DEF AdapterFields
  <2> QED
    BY <1>2, <1>3, <2>2 DEF Withdrawn
<1>4. CASE call.kind \notin Setup
  <2> DEFINE C == ad.calls \ {call}
  <2>1. a = [ad EXCEPT !.calls = C] /\ C \in SUBSET Calls
    BY <1>0, <1>1, <1>4 DEF Without, AdapterFields
  <2> HIDE DEF C
  <2>2. /\ a \in AdapterFields /\ a.calls = C /\ a.setup = ad.setup
        /\ a.up = ad.up /\ a.initialized = ad.initialized /\ a.attached = ad.attached
        /\ a.subscribed = ad.subscribed
        /\ a.resume = ad.resume /\ a.active = ad.active /\ a.submission = ad.submission
        /\ a.approvals = ad.approvals /\ a.inputs = ad.inputs /\ a.questions = ad.questions
        /\ a.answered = ad.answered /\ a.waiting = ad.waiting
    BY <1>1, <2>1 DEF AdapterFields
  <2> QED
    BY <1>2, <1>4, <2>2 DEF C, Withdrawn
<1> QED
  BY <1>3, <1>4

\* The adapter s, which is a without the submission of call.
Settles(s, a, call) ==
    /\ s \in AdapterFields
    /\ s.up = a.up /\ s.attached = a.attached /\ s.subscribed = a.subscribed
    /\ s.setup = a.setup /\ s.calls = a.calls /\ s.approvals = a.approvals /\ s.waiting = a.waiting
    /\ s.submission \in {a.submission, None}
    /\ call.kind = "start" /\ a.submission = call.cmd => s.submission = None

LEMMA SettledDoes ==
    ASSUME NEW a \in AdapterFields, NEW call
    PROVE  Settles(Settled(a, call), a, call)
<1> DEFINE s == Settled(a, call)
<1>1. /\ s \in AdapterFields
      /\ s.up = a.up /\ s.attached = a.attached /\ s.subscribed = a.subscribed
      /\ s.setup = a.setup /\ s.calls = a.calls /\ s.approvals = a.approvals /\ s.waiting = a.waiting
      /\ s.submission \in {a.submission, None}
      /\ call.kind = "start" /\ a.submission = call.cmd => s.submission = None
  BY DEF Settled, AdapterFields
<1> HIDE DEF s
<1>2. Settles(s, a, call)
  BY <1>1 DEF Settles
<1> QED
  BY <1>2 DEF s

\* A call is over: its prompt has reached Codex, or is reported failed.
LEMMA EndedKeeps ==
    ASSUME IInv, todo = <<>>, NEW call \in Calls, call.kind \notin Setup,
           NEW a \in AdapterFields, NEW s, s = Settled(a, call), ad' = s, a.up,
           a.calls = ad.calls \ {call}, a.setup = ad.setup, a.approvals = ad.approvals,
           a.waiting = ad.waiting, a.submission = ad.submission,
           UNCHANGED <<out, cx, expired>>, UNCHANGED driverVars,
           in' = in \/ (in # <<>> /\ in' = Tail(in)),
           Attachment',
           \/ todo' = <<>> /\ (call.cmd \in Prompts => cx.got[call.cmd] = 1)
           \/ \E code \in Codes : todo' = Failed({call.cmd}, code)
    PROVE  IInv'
<1>1. /\ s \in AdapterFields
      /\ s.up = a.up /\ s.attached = a.attached /\ s.subscribed = a.subscribed
      /\ s.setup = a.setup /\ s.calls = a.calls /\ s.approvals = a.approvals /\ s.waiting = a.waiting
      /\ s.submission \in {a.submission, None}
      /\ call.kind = "start" /\ a.submission = call.cmd => s.submission = None
  <2>1. Settles(Settled(a, call), a, call)
    BY SettledDoes
  <2>2. Settles(s, a, call)
    BY <2>1
  <2> QED
    BY <2>2 DEF Settles
<1>2. call = Call(call.kind, call.cmd) /\ call.cmd \in Texts \cup {Stop}
  BY DEF Calls, Call, Setup
<1>3. SubmissionInFlight'
  <2> SUFFICES ASSUME s.submission # None PROVE Call("start", s.submission) \in s.calls
    BY DEF SubmissionInFlight
  <2>1. s.submission = ad.submission /\ Call("start", s.submission) \in ad.calls
    BY <1>1 DEF IInv, SubmissionInFlight
  <2>2. Call("start", s.submission) # call
    BY <1>1, <2>1 DEF Call
  <2> QED
    BY <1>1, <2>1, <2>2
<1>4. /\ todo' \in Seq(Events) /\ Lacks(todo', AttentionOn) /\ \A ask \in Approvals : Lacks(todo', Opening(ask))
      /\ call.cmd \in Prompts => cx.got[call.cmd] = 1 \/ ~Lacks(todo', Reports(call.cmd))
  <2>1. CASE todo' = <<>> /\ (call.cmd \in Prompts => cx.got[call.cmd] = 1)
    BY <2>1, NothingHeld
  <2>2. ASSUME NEW code \in Codes, todo' = Failed({call.cmd}, code)
        PROVE  /\ todo' \in Seq(Events) /\ Lacks(todo', AttentionOn) /\ \A ask \in Approvals : Lacks(todo', Opening(ask))
               /\ ~Lacks(todo', Reports(call.cmd))
    <3>1. IsFiniteSet({call.cmd}) /\ {call.cmd} \in SUBSET (Texts \cup {Stop, None})
      BY <1>2, FS_Singleton
    <3>2. Failed({call.cmd}, code) \in Seq(Calm) /\ ~Lacks(Failed({call.cmd}, code), Reports(call.cmd))
      BY <3>1, FailedDoes
    <3> QED
      BY <2>2, <3>2, CalmLacks
  <2> QED
    BY <2>1, <2>2
<1>5. ASSUME NEW p \in Prompts, Commanded(p)
      PROVE  p \in Commands(s.calls) \/ cx.got[p] = 1 \/ ~Lacks(todo', Reports(p))
  <2>1. PICK c \in ad.calls : c.cmd = p
    BY <1>5 DEF Commanded
  <2>2. CASE c = call
    BY <1>4, <1>5, <2>1, <2>2
  <2>3. CASE c # call
    BY <1>1, <2>1, <2>3 DEF Commands
  <2> QED
    BY <2>2, <2>3
<1> QED
  BY <1>1, <1>3, <1>4, <1>5, LeavesKeeps

LEMMA TimeOutKeeps ==
    ASSUME IInv, NEW call \in Calls, TimeOut(call), UNCHANGED driverVars
    PROVE  IInv'
<1> DEFINE a == Without(ad, call)
<1>1. /\ a \in AdapterFields
      /\ a.up = ad.up /\ a.attached = ad.attached /\ a.subscribed = ad.subscribed
      /\ a.submission = ad.submission
      /\ a.approvals = ad.approvals /\ a.waiting = ad.waiting
      /\ call.kind \in Setup => a.setup = None /\ a.calls = ad.calls
      /\ call.kind \notin Setup => a.setup = ad.setup /\ a.calls = ad.calls \ {call}
  <2>1. Withdrawn(a, call)
    BY WithoutDoes
  <2> HIDE DEF a
  <2> QED
    BY <2>1 DEF Withdrawn
<1>2. todo = <<>> /\ ad.up /\ UNCHANGED expired
  BY DEF TimeOut, Idle
<1>3. CASE call.kind \in Setup
  <2>1. Lost(a)
    BY <1>3 DEF TimeOut
  <2>2. IsFiniteSet(a.calls) /\ \A p \in Prompts : Commanded(p) => p \in Commands(a.calls)
    BY <1>1, <1>3 DEF IInv, Limits, Commanded, Commands
  <2> HIDE DEF a
  <2> QED
    BY <1>1, <1>2, <1>3, <2>1, <2>2, LostKeeps
<1>4. CASE call.kind \notin Setup
  <2> DEFINE s == Settled(a, call)
  <2>1. ad' = s /\ todo' = Failed({call.cmd}, "codex_control_timeout") /\ UNCHANGED <<in, out, cx>>
    BY <1>4 DEF TimeOut, Leaves
  <2> HIDE DEF a
  <2>2. s.attached = a.attached /\ s.subscribed = a.subscribed /\ s.setup = a.setup
    <3>1. Settles(s, a, call)
      BY <1>1, SettledDoes
    <3> HIDE DEF s
    <3> QED
      BY <3>1 DEF Settles
  <2> HIDE DEF s
  <2>3. Attachment'
    BY <1>1, <1>4, <2>1, <2>2, AttachmentStays DEF IInv, Attachment
  <2>4. \E code \in Codes : todo' = Failed({call.cmd}, code)
    BY <2>1 DEF Codes
  <2> QED
    BY <1>1, <1>2, <1>4, <2>1, <2>3, <2>4, EndedKeeps DEF s
<1> QED
  BY <1>3, <1>4

-----------------------------------------------------------------------------
(* A response is handled.                                                   *)

LEMMA ResultKeeps ==
    ASSUME IInv, todo = <<>>, ad.up, in # <<>>, UNCHANGED expired, UNCHANGED driverVars,
           NEW call \in Calls, NEW val \in Nat, Head(in) = Result(call, val), HandleResult(call, val)
    PROVE  IInv'
<1> DEFINE a == Without(ad, call)
<1>1. /\ a \in AdapterFields
      /\ a.up = ad.up /\ a.attached = ad.attached /\ a.subscribed = ad.subscribed
      /\ a.submission = ad.submission
      /\ a.approvals = ad.approvals /\ a.waiting = ad.waiting
      /\ call.kind \in Setup => a.setup = None /\ a.calls = ad.calls /\ call.cmd = None
      /\ call.kind \notin Setup => a.setup = ad.setup /\ a.calls = ad.calls \ {call}
      /\ call.kind \in {"start", "steer", "interrupt"} \cup Setup
      /\ call.kind = "interrupt" => call.cmd = Stop
  <2>1. Withdrawn(a, call)
    BY WithoutDoes
  <2> HIDE DEF a
  <2> QED
    BY <2>1 DEF Withdrawn
<1>2. /\ ad \in AdapterFields /\ in \in Seq(Incoming) /\ out \in Seq(Outgoing) /\ Single(out, Resumes)
      /\ Head(in) \in Incoming
      /\ ad.subscribed => ad.attached
  BY HeldTail DEF IInv, AdapterShape, Attachment
<1>3. Head(in).kind = "result" /\ Head(in).ref = call
  BY DEF Result, Msg
<1>4. call.cmd \in Prompts => cx.got[call.cmd] = 1
  <2> SUFFICES ASSUME call.cmd \in Prompts PROVE cx.got[call.cmd] = 1
    OBVIOUS
  <2>1. Head(in) \in Arrivals(call.cmd)
    BY <1>2, <1>3 DEF Arrivals
  <2>2. ~Lacks(in, Arrivals(call.cmd))
    BY <1>2, <2>1, HeldTail
  <2> QED
    BY <2>2 DEF IInv, Travel
<1>5. call.kind = "resume" => Head(in) \in ResumeAnswer
  BY <1>2, <1>3 DEF ResumeAnswer
<1>6. <<>> \in Seq(Events) /\ \A K : Lacks(<<>>, K)
  BY NothingHeld
<1> HIDE DEF a
<1>7. CASE ~Pending(call)
  <2>1. ad' = ad /\ todo' = <<>> /\ UNCHANGED <<out, cx>> /\ in' = Tail(in)
    BY <1>7 DEF HandleResult, Leaves
  <2>2. Attachment'
    BY <1>2, <1>3, <2>1, AttachmentHandled
  <2> QED
    BY <1>2, <1>6, <2>1, <2>2, QuietKeeps
<1>8. CASE Pending(call) /\ call.kind = "initialize"
  <2> DEFINE b == [a EXCEPT !.initialized = TRUE]
  <2>1. ad' = b /\ todo' = <<>> /\ UNCHANGED <<out, cx>> /\ in' = Tail(in)
    BY <1>8 DEF HandleResult, Leaves, a
  <2>2. /\ b \in AdapterFields /\ b.up = a.up /\ b.setup = a.setup /\ b.calls = a.calls
        /\ b.approvals = a.approvals /\ b.waiting = a.waiting /\ b.submission = a.submission
        /\ b.attached = a.attached /\ b.subscribed = a.subscribed
    BY <1>1 DEF AdapterFields
  <2>3. ad.setup = "initialize"
    BY <1>8 DEF Pending, Setup
  <2> HIDE DEF b
  <2>4. Attachment'
    BY <1>1, <1>2, <1>3, <1>8, <2>1, <2>2, <2>3, AttachmentHandled DEF Setup
  <2> QED
    BY <1>1, <1>2, <1>6, <1>8, <2>1, <2>2, <2>4, QuietKeeps DEF Setup
<1>9. CASE Pending(call) /\ call.kind = "list"
  <2> DEFINE b == IF val = 1 THEN [a EXCEPT !.attached = TRUE, !.subscribed = FALSE, !.resume = TRUE] ELSE a
  <2>1. ad' = b /\ todo' = <<>> /\ UNCHANGED <<out, cx>> /\ in' = Tail(in)
    BY <1>9 DEF HandleResult, Leaves, a
  <2>2. /\ b \in AdapterFields /\ b.up = a.up /\ b.setup = a.setup /\ b.calls = a.calls
        /\ b.approvals = a.approvals /\ b.waiting = a.waiting /\ b.submission = a.submission
        /\ (b.attached /\ ~b.subscribed) \/ (b.attached = a.attached /\ b.subscribed = a.subscribed)
    BY <1>1 DEF AdapterFields
  <2>3. ad.setup = "list"
    BY <1>9 DEF Pending, Setup
  <2> HIDE DEF b
  <2>4. Attachment'
    BY <1>1, <1>2, <1>3, <1>9, <2>1, <2>2, <2>3, AttachmentHandled DEF Setup
  <2> QED
    BY <1>1, <1>2, <1>6, <1>9, <2>1, <2>2, <2>4, QuietKeeps DEF Setup
<1>10. CASE Pending(call) /\ call.kind = "start"
  <2>1. CASE ad.active \notin {0, val}
    <3>1. Lost(a)
      BY <1>10, <2>1 DEF HandleResult, a
    <3>2. ASSUME NEW p \in Prompts, Commanded(p) PROVE p \in Commands(a.calls) \/ cx.got[p] = 1
      <4>1. PICK c \in ad.calls : c.cmd = p
        BY <3>2 DEF Commanded
      <4>2. c # call => c \in a.calls
        BY <1>1, <1>10, <4>1 DEF Setup
      <4> QED
        BY <1>4, <4>1, <4>2 DEF Commands
    <3>3. IsFiniteSet(a.calls)
      BY <1>1, <1>2, <1>10, FS_Subset DEF IInv, Limits, Setup
    <3> QED
      BY <1>1, <3>1, <3>2, <3>3, LostKeeps
  <2>2. CASE ad.active \in {0, val}
    <3> DEFINE b == [a EXCEPT !.active = val]  s == Settled(b, call)
    <3>1. ad' = s /\ todo' = <<>> /\ UNCHANGED <<out, cx>> /\ in' = Tail(in)
      BY <1>10, <2>2 DEF HandleResult, Leaves, a
    <3>2. /\ b \in AdapterFields /\ b.up = a.up /\ b.setup = a.setup /\ b.calls = a.calls
          /\ b.approvals = a.approvals /\ b.waiting = a.waiting /\ b.submission = a.submission
          /\ b.attached = a.attached /\ b.subscribed = a.subscribed
      BY <1>1 DEF AdapterFields
    <3> HIDE DEF b
    <3>3. s \in AdapterFields /\ s.attached = b.attached /\ s.subscribed = b.subscribed /\ s.setup = b.setup
      <4>1. Settles(s, b, call)
        BY <3>2, SettledDoes
      <4> HIDE DEF s
      <4> QED
        BY <4>1 DEF Settles
    <3> HIDE DEF s
    <3>4. call.kind \notin Setup
      BY <1>10 DEF Setup
    <3>5. Attachment'
      BY <1>1, <1>2, <1>3, <1>10, <3>1, <3>2, <3>3, <3>4, AttachmentHandled
    <3> QED
      BY <1>1, <1>4, <3>1, <3>2, <3>4, <3>5, EndedKeeps DEF s
  <2> QED
    BY <2>1, <2>2
<1>11. CASE Pending(call) /\ call.kind \in {"resume", "steer", "interrupt"}
  <2>1. ad' = a /\ todo' = <<>> /\ UNCHANGED <<out, cx>> /\ in' = Tail(in)
    BY <1>11 DEF HandleResult, Leaves, a
  <2>2. Attachment'
    BY <1>1, <1>2, <1>3, <1>5, <1>11, <2>1, AttachmentHandled DEF Setup
  <2>3. CASE call.kind = "resume"
    BY <1>1, <1>2, <1>6, <2>1, <2>2, <2>3, QuietKeeps DEF Setup
  <2>4. CASE call.kind \in {"steer", "interrupt"}
    <3>1. call.kind \notin Setup /\ a = Settled(a, call)
      BY <2>4 DEF Setup, Settled
    <3> QED
      BY <1>1, <1>4, <2>1, <2>2, <3>1, EndedKeeps
  <2> QED
    BY <1>11, <2>3, <2>4
<1> QED
  BY <1>1, <1>7, <1>8, <1>9, <1>10, <1>11 DEF Setup

LEMMA RetryKeeps ==
    ASSUME IInv, todo = <<>>, ad.up, in # <<>>, UNCHANGED expired, UNCHANGED driverVars,
           NEW call \in Calls, call.kind = "steer", Head(in) = Error(call, "idle"),
           RetryIdleSteer(call), in' = Tail(in)
    PROVE  IInv'
<1>0. UNCHANGED <<dr, link, outcome, told, answers>>
  BY DEF driverVars
<1> DEFINE w == Without(ad, call)  a == [w EXCEPT !.active = 0]
           start == Call("start", call.cmd)
<1>1. /\ w \in AdapterFields /\ call = Call(call.kind, call.cmd)
      /\ w.up = ad.up /\ w.attached = ad.attached /\ w.subscribed = ad.subscribed
      /\ w.submission = ad.submission
      /\ w.approvals = ad.approvals /\ w.waiting = ad.waiting
      /\ w.setup = ad.setup /\ w.calls = ad.calls \ {call}
  <2>1. call.kind \notin Setup /\ w = Without(ad, call)
    BY DEF Setup
  <2>2. call = Call(call.kind, call.cmd)
    BY DEF Calls, Call, Setup
  <2>3. /\ w \in AdapterFields
        /\ w.up = ad.up /\ w.attached = ad.attached /\ w.subscribed = ad.subscribed
        /\ w.submission = ad.submission
        /\ w.approvals = ad.approvals /\ w.waiting = ad.waiting
        /\ call.kind \notin Setup => w.setup = ad.setup /\ w.calls = ad.calls \ {call}
    <3>1. Withdrawn(w, call)
      BY WithoutDoes
    <3> HIDE DEF w, a, start
    <3> QED
      BY <3>1 DEF Withdrawn
  <2> QED
    BY <2>1, <2>2, <2>3
<1> HIDE DEF w
<1>2. /\ a \in AdapterFields
      /\ a.up = ad.up /\ a.attached = ad.attached /\ a.subscribed = ad.subscribed
      /\ a.submission = ad.submission
      /\ a.approvals = ad.approvals /\ a.waiting = ad.waiting
      /\ a.setup = ad.setup /\ a.calls = ad.calls \ {call}
  BY <1>1 DEF AdapterFields
<1>3. call.cmd \in Texts /\ call.kind \notin Setup /\ start \in Calls
  BY DEF Calls, Call, Setup
<1>4. /\ ad \in AdapterFields /\ in \in Seq(Incoming) /\ out \in Seq(Outgoing) /\ Single(out, Resumes)
      /\ Head(in) \in Incoming /\ Head(in).kind = "error"
      /\ ad.subscribed => ad.attached
  BY HeldTail DEF IInv, AdapterShape, Attachment, Error, Msg
<1>5. \/ /\ a.submission = None /\ Room(a)
         /\ Queues([a EXCEPT !.calls = @ \cup {start}, !.submission = call.cmd], Msg("start", call.cmd, 0))
      \/ Leaves(a, Failed({call.cmd}, "codex_control_failed"))
  BY DEF RetryIdleSteer, a, w
<1> HIDE DEF a
<1>6. CASE Leaves(a, Failed({call.cmd}, "codex_control_failed"))
  <2>1. ad' = a /\ todo' = Failed({call.cmd}, "codex_control_failed") /\ UNCHANGED <<out, cx>>
    BY <1>6 DEF Leaves
  <2>2. Attachment'
    BY <1>2, <1>4, <2>1, AttachmentHandled
  <2>3. a = Settled(a, call) /\ \E code \in Codes : todo' = Failed({call.cmd}, code)
    BY <2>1 DEF Settled, Codes
  <2> QED
    BY <1>2, <1>3, <2>1, <2>2, <2>3, EndedKeeps
<1>7. CASE /\ a.submission = None /\ Room(a)
           /\ Queues([a EXCEPT !.calls = @ \cup {start}, !.submission = call.cmd], Msg("start", call.cmd, 0))
  <2> DEFINE C == a.calls \cup {start}  b == [a EXCEPT !.calls = C, !.submission = call.cmd]
             m == Msg("start", call.cmd, 0)
  <2>1. ad' = b /\ todo' = <<>> /\ out' = Append(out, m) /\ UNCHANGED cx
    BY <1>7 DEF Queues
  <2>2. C \in SUBSET Calls
    BY <1>2, <1>3 DEF AdapterFields
  <2> HIDE DEF start
  <2>3. IsFiniteSet(C) /\ Cardinality(C) <= Cardinality(a.calls) + 1 /\ Cardinality(C) \in Nat
    <3>1. IsFiniteSet(a.calls) /\ Cardinality(a.calls) \in Nat
      BY <1>2, FewerFit
    <3>2. /\ IsFiniteSet(a.calls \cup {start})
          /\ Cardinality(a.calls \cup {start}) \in {Cardinality(a.calls), Cardinality(a.calls) + 1}
      BY <3>1, FS_AddElement
    <3> HIDE DEF C
    <3>3. C = a.calls \cup {start}
      BY DEF C
    <3> QED
      BY <3>1, <3>2, <3>3
  <2> HIDE DEF C
  <2>4. /\ b \in AdapterFields /\ b.up = ad.up /\ b.calls = C /\ b.submission = call.cmd
        /\ b.setup = ad.setup /\ b.attached = ad.attached /\ b.subscribed = ad.subscribed
        /\ b.approvals = ad.approvals /\ b.waiting = ad.waiting
    BY <1>2, <1>3, <2>2 DEF AdapterFields
  <2> HIDE DEF b
  <2>5. m \in Outgoing /\ m \notin Resumes /\ \A p : m \in Carriers(p) <=> p = call.cmd
    BY <1>3 DEF Msg, Outgoing, Setup, Resumes, Carriers, Carries
  <2> HIDE DEF m
  <2>6. /\ out' \in Seq(Outgoing)
        /\ \A K : /\ Lacks(out', K) <=> Lacks(out, K) /\ m \notin K
                  /\ Single(out, K) /\ m \notin K => Single(out', K)
                  /\ Lacks(out, K) => Single(out', K)
    BY <1>4, <2>1, <2>5, HeldAppend
  <2>7. /\ in' \in Seq(Incoming)
        /\ \A K : /\ Lacks(in, K) => Lacks(in', K)
                  /\ Single(in, K) => Single(in', K)
                  /\ Single(in, K) /\ Head(in) \in K => Lacks(in', K) /\ ~Lacks(in, K)
    BY <1>4, HeldTail
  <2>8. /\ IsFiniteSet(b.calls) /\ InFlight(b) <= MaxCalls /\ Len(out') <= MaxOut
        /\ IsFiniteSet(b.approvals) /\ Cardinality(b.approvals) <= MaxApprovals
    <3>1. InFlight(a) < MaxCalls /\ Len(out) < MaxOut /\ Len(out) \in Nat /\ Len(out') = Len(out) + 1
      BY <1>4, <1>7, <2>1, AdapterAssumption DEF Room, Full
    <3>2. Cardinality(a.calls) \in Nat /\ IsFiniteSet(b.approvals) /\ Cardinality(b.approvals) <= MaxApprovals
      BY <1>2, <2>4, FewerFit
    <3>3. InFlight(b) <= InFlight(a) + 1 /\ InFlight(b) \in Nat /\ InFlight(a) \in Nat
      BY <1>2, <2>3, <2>4, <3>2 DEF InFlight
    <3> QED
      BY <2>3, <2>4, <3>1, <3>2, <3>3, AdapterAssumption
  <2>9. Attachment'
    BY <1>3, <1>4, <2>1, <2>4, <2>5, <2>6, AttachmentHandled
  <2>10. SubmissionInFlight' /\ Attention'
    <3>1. start \in C
      BY DEF C
    <3>2. Call("start", b.submission) \in b.calls
      BY <2>4, <3>1 DEF start
    <3> QED
      BY <1>0, <2>1, <2>4, <3>2 DEF IInv, SubmissionInFlight, Attention
  <2>11. ASSUME NEW p \in Prompts PROVE Travel(p)'
    <3>1. Travel(p)
      BY DEF IInv
    <3>2. (Handed(p)' <=> Handed(p)) /\ (Failing(p)' <=> Failing(p))
      BY <1>0, <2>1 DEF Handed, Failing
    <3>3. CASE p = call.cmd
      <4>1. Head(in) \in TooLate(p)
        BY <1>1, <3>3 DEF TooLate
      <4>2. ~Lacks(in, TooLate(p)) /\ Lacks(in', TooLate(p))
        BY <2>7, <3>1, <4>1 DEF Travel
      <4>3. cx.got[p] = 0 /\ Lacks(out, Carriers(p)) /\ Handed(p)
        BY <3>1, <4>2 DEF Travel
      <4>4. Commanded(p)'
        <5>1. start \in b.calls /\ start.cmd = p
          BY <2>4, <3>3 DEF C, start, Call
        <5> QED
          BY <2>1, <5>1 DEF Commanded
      <4>5. Single(out', Carriers(p)) /\ Single(in', TooLate(p)) /\ Lacks(in', Arrivals(p))
        BY <2>6, <2>7, <3>1, <4>3 DEF Travel
      <4>6. link'.op = "submit" /\ link'.cmd = p => outcome'[p] = None
        BY <1>0, <3>1 DEF Travel
      <4>7. cx'.got[p] = 0 /\ Handed(p)'
        BY <2>1, <3>2, <4>3
      <4> QED
        BY <4>2, <4>4, <4>5, <4>6, <4>7 DEF Travel
    <3>4. CASE p # call.cmd
      <4>1. Commanded(p)' <=> Commanded(p)
        <5>1. start.cmd # p
          BY <3>4 DEF start, Call
        <5>2. \A c \in C : c \in ad.calls \/ c = start
          BY <1>2 DEF C
        <5>3. \A c \in ad.calls : c.cmd = p => c \in C
          BY <1>2, <3>4 DEF C
        <5> QED
          BY <2>1, <2>4, <5>1, <5>2, <5>3 DEF Commanded
      <4> QED
        BY <1>0, <2>1, <2>5, <2>6, <2>7, <3>1, <3>2, <3>4, <4>1, TravelKept DEF Travel
    <3> QED
      BY <3>3, <3>4
  <2>12. \A ask \in Approvals : Shown(ask)'
    <3> TAKE ask \in Approvals
    <3>1. Shown(ask) /\ Lacks(todo', Opening(ask)) /\ Single(todo', Opening(ask))
      BY <2>1, NothingHeld DEF IInv
    <3> QED
      BY <1>0, <2>1, <2>4, <2>7, <3>1, ShownKept DEF Shown
  <2>13. todo' \in Seq(Events)
    BY <2>1
  <2> QED
    BY <2>1, <2>4, <2>6, <2>7, <2>8, <2>9, <2>10, <2>11, <2>12, <2>13, ThreadKeeps
<1> QED
  BY <1>5, <1>6, <1>7

LEMMA ErrorKeeps ==
    ASSUME IInv, todo = <<>>, ad.up, in # <<>>, UNCHANGED expired, UNCHANGED driverVars,
           NEW call \in Calls, NEW why \in {"rollout", "other", "idle"},
           Head(in) = Error(call, why), HandleError(call, why)
    PROVE  IInv'
<1> DEFINE a == Without(ad, call)
<1>1. /\ a \in AdapterFields
      /\ a.up = ad.up /\ a.attached = ad.attached /\ a.subscribed = ad.subscribed
      /\ a.submission = ad.submission
      /\ a.approvals = ad.approvals /\ a.waiting = ad.waiting
      /\ call.kind \in Setup => a.setup = None /\ a.calls = ad.calls /\ call.cmd = None
      /\ call.kind \notin Setup => a.setup = ad.setup /\ a.calls = ad.calls \ {call}
  <2>1. Withdrawn(a, call)
    BY WithoutDoes
  <2> HIDE DEF a
  <2> QED
    BY <2>1 DEF Withdrawn
<1>2. /\ ad \in AdapterFields /\ in \in Seq(Incoming) /\ out \in Seq(Outgoing) /\ Single(out, Resumes)
      /\ Head(in) \in Incoming
      /\ ad.subscribed => ad.attached
  BY HeldTail DEF IInv, AdapterShape, Attachment
<1>3. Head(in).kind = "error" /\ Head(in).ref = call
  BY DEF Error, Msg
<1>4. call.kind = "resume" => Head(in) \in ResumeAnswer
  BY <1>2, <1>3 DEF ResumeAnswer
<1>5. <<>> \in Seq(Events) /\ \A K : Lacks(<<>>, K)
  BY NothingHeld
<1> HIDE DEF a
<1>6. CASE ~Pending(call)
  <2>1. ad' = ad /\ todo' = <<>> /\ UNCHANGED <<out, cx>> /\ in' = Tail(in)
    BY <1>6 DEF HandleError, Leaves
  <2>2. Attachment'
    BY <1>2, <1>3, <2>1, AttachmentHandled
  <2> QED
    BY <1>2, <1>5, <2>1, <2>2, QuietKeeps
<1>7. CASE Pending(call) /\ call.kind = "resume" /\ why = "rollout"
  <2> DEFINE b == [a EXCEPT !.attached = TRUE, !.subscribed = FALSE]
  <2>1. ad' = b /\ todo' = <<>> /\ UNCHANGED <<out, cx>> /\ in' = Tail(in)
    BY <1>7 DEF HandleError, Leaves, a
  <2>2. /\ b \in AdapterFields /\ b.up = a.up /\ b.setup = a.setup /\ b.calls = a.calls
        /\ b.approvals = a.approvals /\ b.waiting = a.waiting /\ b.submission = a.submission
        /\ b.attached = TRUE /\ b.subscribed = FALSE
    BY <1>1 DEF AdapterFields
  <2> HIDE DEF b
  <2>3. Attachment'
    BY <1>2, <1>3, <1>4, <1>7, <2>1, <2>2, AttachmentHandled
  <2> QED
    BY <1>1, <1>2, <1>5, <1>7, <2>1, <2>2, <2>3, QuietKeeps DEF Setup
<1>8. CASE Pending(call) /\ call.kind \in Setup /\ why # "rollout"
  <2>1. Lost(a)
    BY <1>8 DEF HandleError, a, Setup
  <2>2. IsFiniteSet(a.calls) /\ \A p \in Prompts : Commanded(p) => p \in Commands(a.calls)
    BY <1>1, <1>8 DEF IInv, Limits, Commanded, Commands
  <2> QED
    BY <1>1, <1>2, <2>1, <2>2, LostKeeps
<1>9. CASE Pending(call) /\ call.kind = "steer" /\ why = "idle"
  <2>1. RetryIdleSteer(call) /\ in' = Tail(in)
    BY <1>9 DEF HandleError, Setup
  <2> QED
    BY <1>9, <2>1, RetryKeeps
<1>10. CASE /\ Pending(call) /\ (call.kind = "resume" => why # "rollout")
            /\ (call.kind \in Setup => why = "rollout") /\ (call.kind = "steer" => why # "idle")
  <2>1. /\ ad' = Settled(a, call) /\ todo' = Failed({call.cmd}, "codex_control_failed")
        /\ UNCHANGED <<out, cx>> /\ in' = Tail(in)
    BY <1>10 DEF HandleError, Leaves, a
  <2>2. CASE call.kind \in Setup
    <3>1. a = Settled(a, call) /\ call.kind # "resume" /\ call.cmd = None
      BY <1>1, <1>10, <2>2 DEF Settled, Setup
    <3>2. ad.setup # "resume"
      BY <1>10, <2>2, <3>1 DEF Pending
    <3>3. Attachment'
      BY <1>1, <1>2, <1>3, <2>1, <3>1, <3>2, AttachmentHandled
    <3>4. /\ todo' \in Seq(Events) /\ Lacks(todo', AttentionOn)
          /\ \A ask \in Approvals : Lacks(todo', Opening(ask))
      <4>1. IsFiniteSet({call.cmd}) /\ {call.cmd} \in SUBSET (Texts \cup {Stop, None})
        BY <3>1, FS_Singleton
      <4>2. todo' \in Seq(Calm)
        BY <2>1, <4>1, FailedDoes DEF Codes
      <4> QED
        BY <4>2, CalmLacks
    <3> QED
      BY <1>1, <1>2, <2>1, <2>2, <3>1, <3>3, <3>4, QuietKeeps
  <2>3. CASE call.kind \notin Setup
    <3> DEFINE s == Settled(a, call)
    <3>1. s \in AdapterFields /\ s.attached = a.attached /\ s.subscribed = a.subscribed /\ s.setup = a.setup
      <4>1. Settles(s, a, call)
        BY <1>1, SettledDoes
      <4> HIDE DEF s
      <4> QED
        BY <4>1 DEF Settles
    <3>2. ad' = s
      BY <2>1
    <3> HIDE DEF s
    <3>3. Attachment'
      BY <1>1, <1>2, <1>3, <2>1, <2>3, <3>1, <3>2, AttachmentHandled
    <3>4. \E code \in Codes : todo' = Failed({call.cmd}, code)
      BY <2>1 DEF Codes
    <3> QED
      BY <1>1, <2>1, <2>3, <3>1, <3>2, <3>3, <3>4, EndedKeeps DEF s
  <2> QED
    BY <2>2, <2>3
<1> QED
  BY <1>6, <1>7, <1>8, <1>9, <1>10

-----------------------------------------------------------------------------
(* A request is handled.                                                    *)

LEMMA AskKeeps ==
    ASSUME IInv, todo = <<>>, ad.up, in # <<>>, UNCHANGED expired, UNCHANGED driverVars,
           NEW ask \in Asks, Head(in) = Msg("ask", ask, 0), HandleAsk(ask)
    PROVE  IInv'
<1>0. UNCHANGED <<dr, link, outcome, told, answers>>
  BY DEF driverVars
<1> DEFINE a == [ad EXCEPT !.subscribed = TRUE]
<1>1. /\ ad \in AdapterFields /\ in \in Seq(Incoming) /\ out \in Seq(Outgoing) /\ Single(out, Resumes)
      /\ Head(in) \in Incoming /\ Head(in).kind = "ask"
  BY HeldTail DEF IInv, AdapterShape, Attachment, Msg
<1>2. ad.attached
  <2>1. Sound(ad.attached, in, cx.sub) /\ ad.attached \in BOOLEAN /\ cx.sub \in BOOLEAN
    BY DEF IInv, Attachment, AdapterShape, AdapterFields, CodexFields
  <2>2. Head(in) \in Telling
    BY <1>1 DEF Telling
  <2> QED
    BY <1>1, <2>1, <2>2, SoundTail
<1>3. /\ a \in AdapterFields
      /\ a.up = ad.up /\ a.attached = ad.attached /\ a.subscribed = TRUE
      /\ a.submission = ad.submission /\ a.approvals = ad.approvals /\ a.inputs = ad.inputs
      /\ a.waiting = ad.waiting /\ a.setup = ad.setup /\ a.calls = ad.calls
  BY <1>1 DEF AdapterFields
<1>4. IF ask \in Approvals THEN HandleApproval(a, ask) ELSE HandleInput(a, ask)
  BY DEF HandleAsk
<1> DEFINE e == Event("opened", ask, 0)
<1>5. /\ e \in Events /\ e \notin AttentionOn /\ e \in Opening(ask)
      /\ \A x : x # ask => e \notin Opening(x)
  BY DEF Event, Events, AttentionOn, Opening
<1> HIDE DEF a, e
<1>6. /\ <<e>> \in Seq(Events)
      /\ \A K : Single(<<e>>, K) /\ (Lacks(<<e>>, K) <=> e \notin K)
  BY <1>5, OneEvent
<1>7. /\ Tail(in) \in Seq(Incoming)
      /\ \A K : /\ Lacks(in, K) => Lacks(Tail(in), K)
                /\ Single(in, K) => Single(Tail(in), K)
                /\ Single(in, K) /\ Head(in) \in K => Lacks(Tail(in), K) /\ ~Lacks(in, K)
  BY <1>1, HeldTail
<1>8. CASE ask \notin Approvals
  <2> DEFINE I == a.inputs \cup {ask}  b == [a EXCEPT !.inputs = I]
  <2>1. ad' = b /\ todo' = <<e>> /\ UNCHANGED <<out, cx>> /\ in' = Tail(in)
    BY <1>4, <1>8 DEF HandleInput, Leaves, e
  <2>2. I \in SUBSET Inputs
    BY <1>3, <1>8 DEF Asks, AdapterFields
  <2> HIDE DEF I
  <2>3. /\ b \in AdapterFields /\ b.up = a.up /\ b.setup = a.setup /\ b.calls = a.calls
        /\ b.approvals = a.approvals /\ b.waiting = a.waiting /\ b.submission = a.submission
        /\ b.attached = a.attached /\ b.subscribed = a.subscribed
    BY <1>3, <2>2 DEF AdapterFields
  <2> HIDE DEF b
  <2>4. Attachment'
    BY <1>1, <1>2, <1>3, <2>1, <2>3, AttachmentHandled
  <2>5. \A x \in Approvals : Lacks(todo', Opening(x))
    BY <1>5, <1>6, <1>8, <2>1
  <2> QED
    BY <1>3, <1>5, <1>6, <2>1, <2>3, <2>4, <2>5, QuietKeeps
<1>9. CASE ask \in Approvals /\ Cardinality(a.approvals) < MaxApprovals
  <2> DEFINE A == a.approvals \cup {ask}  b == [a EXCEPT !.approvals = A, !.waiting = TRUE]
  <2>1. ad' = b /\ todo' = <<e>> /\ UNCHANGED <<out, cx>> /\ in' = Tail(in)
    BY <1>4, <1>9 DEF HandleApproval, Leaves, e
  <2>2. A \in SUBSET Approvals /\ ask \in A /\ a.approvals \subseteq A
    BY <1>3, <1>9 DEF AdapterFields
  <2>3. IsFiniteSet(A) /\ Cardinality(A) <= MaxApprovals
    <3>1. IsFiniteSet(a.approvals) /\ Cardinality(a.approvals) \in Nat /\ MaxApprovals \in Nat
      BY <1>3, FS_CardinalityType, AdapterAssumption DEF IInv, Limits
    <3>2. IsFiniteSet(A) /\ Cardinality(A) \in {Cardinality(a.approvals), Cardinality(a.approvals) + 1}
      BY <3>1, FS_AddElement
    <3> HIDE DEF A
    <3> QED
      BY <1>9, <3>1, <3>2
  <2> HIDE DEF A
  <2>4. /\ b \in AdapterFields /\ b.up = a.up /\ b.setup = a.setup /\ b.calls = a.calls
        /\ b.approvals = A /\ b.waiting = TRUE /\ b.submission = a.submission
        /\ b.attached = a.attached /\ b.subscribed = a.subscribed
    BY <1>3, <2>2 DEF AdapterFields
  <2> HIDE DEF b
  <2>5. Attachment'
    BY <1>1, <1>2, <1>3, <2>1, <2>4, AttachmentHandled
  <2>6. ASSUME NEW p \in Prompts PROVE Travel(p)'
    <3>1. Travel(p)
      BY DEF IInv
    <3>2. /\ Handed(p)' <=> Handed(p)
          /\ Failing(p) => Failing(p)'
          /\ Commanded(p)' <=> Commanded(p)
      BY <1>0, <1>3, <2>1, <2>4, NothingHeld DEF Handed, Failing, Commanded
    <3> QED
      BY <1>0, <1>7, <2>1, <3>1, <3>2, TravelKept DEF Travel
  <2>7. ASSUME NEW x \in Approvals PROVE Shown(x)'
    <3>1. Shown(x)
      BY DEF IInv
    <3>2. CASE x = ask
      <4>1. Head(in) \in Request(ask)
        BY DEF Request
      <4>2. Lacks(in', Request(ask)) /\ ~Lacks(in, Request(ask)) /\ Single(in', Request(ask))
        BY <1>7, <2>1, <3>1, <3>2, <4>1 DEF Shown
      <4>3. ask \in cx.asked /\ ask \notin dr.open /\ ~On(ask)
        BY <3>1, <3>2, <4>2 DEF Shown, Coming
      <4>4. ~Coming(ask)' /\ Single(todo', Opening(ask)) /\ ask \notin dr'.open /\ ~On(ask)' /\ ask \in ad'.approvals
        BY <1>0, <1>6, <2>1, <2>2, <2>4, <4>2, <4>3 DEF Coming, On
      <4> QED
        BY <3>2, <4>2, <4>4 DEF Shown
    <3>3. CASE x # ask
      <4>1. Lacks(todo', Opening(x)) /\ Single(todo', Opening(x))
        BY <1>5, <1>6, <2>1, <3>3
      <4> QED
        BY <1>0, <1>3, <1>7, <2>1, <2>2, <2>4, <3>1, <4>1, ShownKept DEF Shown
    <3> QED
      BY <3>2, <3>3
  <2>8. Attention'
    BY <1>0, <2>1, <2>4, AttentionStays DEF IInv
  <2>9. SubmissionInFlight'
    BY <1>3, <2>1, <2>4 DEF IInv, SubmissionInFlight
  <2>10. IsFiniteSet(b.calls) /\ InFlight(b) <= MaxCalls /\ Len(out) <= MaxOut
    BY <1>3, <2>4 DEF IInv, Limits, InFlight
  <2> QED
    BY <1>1, <1>3, <1>6, <1>7, <2>1, <2>3, <2>4, <2>5, <2>6, <2>7, <2>8, <2>9, <2>10, ThreadKeeps
<1>10. CASE ask \in Approvals /\ ~(Cardinality(a.approvals) < MaxApprovals) /\ Full
  <2>1. Lost(a)
    BY <1>4, <1>10 DEF HandleApproval
  <2>2. IsFiniteSet(a.calls) /\ \A p \in Prompts : Commanded(p) => p \in Commands(a.calls)
    BY <1>3 DEF IInv, Limits, Commanded, Commands
  <2> QED
    BY <1>3, <2>1, <2>2, LostKeeps
<1>11. CASE ask \in Approvals /\ ~(Cardinality(a.approvals) < MaxApprovals) /\ ~Full
  <2> DEFINE m == Msg("answer", ask, None)
  <2>1. ad' = a /\ todo' = <<>> /\ out' = Append(out, m) /\ cx' = cx /\ in' = Tail(in)
    BY <1>4, <1>11 DEF HandleApproval, Queues
  <2>2. m \in Outgoing /\ m \notin Resumes /\ \A p \in Prompts : m \notin Carriers(p)
    BY NamesAssumption DEF Msg, Outgoing, Resumes, Carriers, Carries
  <2> HIDE DEF m
  <2>3. /\ out' \in Seq(Outgoing)
        /\ \A K : /\ Lacks(out', K) <=> Lacks(out, K) /\ m \notin K
                  /\ Single(out, K) /\ m \notin K => Single(out', K)
    BY <1>1, <2>1, <2>2, HeldAppend
  <2>4. Attachment'
    BY <1>1, <1>2, <1>3, <2>1, <2>2, <2>3, AttachmentHandled
  <2>5. Len(out') <= MaxOut
    BY <1>1, <1>11, <2>1, AdapterAssumption DEF Full
  <2>6. /\ IsFiniteSet(a.calls) /\ InFlight(a) <= MaxCalls
        /\ IsFiniteSet(a.approvals) /\ Cardinality(a.approvals) <= MaxApprovals
    BY <1>3, FewerFit
  <2>7. ASSUME NEW p \in Prompts PROVE Travel(p)'
    <3>1. Travel(p)
      BY DEF IInv
    <3>2. (Handed(p)' <=> Handed(p)) /\ (Failing(p)' <=> Failing(p)) /\ (Commanded(p)' <=> Commanded(p))
      BY <1>0, <1>3, <2>1 DEF Handed, Failing, Commanded
    <3> QED
      BY <1>0, <1>7, <2>1, <2>2, <2>3, <3>1, <3>2, TravelKept DEF Travel
  <2>8. ASSUME NEW x \in Approvals PROVE Shown(x)'
    <3>1. Shown(x) /\ Lacks(todo', Opening(x)) /\ Single(todo', Opening(x))
      BY <2>1, NothingHeld DEF IInv
    <3> QED
      BY <1>0, <1>3, <1>7, <2>1, <3>1, ShownKept DEF Shown
  <2>9. Attention' /\ SubmissionInFlight'
    BY <1>0, <1>3, <2>1 DEF IInv, Attention, SubmissionInFlight
  <2>10. todo' \in Seq(Events) /\ in' \in Seq(Incoming)
    BY <1>7, <2>1
  <2> QED
    BY <1>3, <2>1, <2>3, <2>4, <2>5, <2>6, <2>7, <2>8, <2>9, <2>10, ThreadKeeps
<1> QED
  BY <1>8, <1>9, <1>10, <1>11

-----------------------------------------------------------------------------
(* A notification is handled.                                               *)

\* Events of which none opens a request or asks for attention.
LEMMA OneCalm ==
    ASSUME NEW e \in Calm
    PROVE  /\ <<e>> \in Seq(Calm) /\ <<e>> \in Seq(Events) /\ Lacks(<<e>>, AttentionOn)
           /\ \A ask : Lacks(<<e>>, Opening(ask))
           /\ \A K : e \in K => ~Lacks(<<e>>, K)
<1>1. <<e>> \in Seq(Calm) /\ \A K : Lacks(<<e>>, K) <=> e \notin K
  BY OneEvent
<1> HIDE DEF Calm
<1> DEFINE t == <<e>>
<1> HIDE DEF t
<1>2. t \in Seq(Calm) /\ \A K : Lacks(t, K) <=> e \notin K
  BY <1>1 DEF t
<1>3. t \in Seq(Events) /\ Lacks(t, AttentionOn) /\ \A ask : Lacks(t, Opening(ask))
  BY <1>2, CalmLacks
<1> QED
  BY <1>2, <1>3 DEF t

\* It is news of the attention.
LEMMA StatusKeeps ==
    ASSUME IInv, todo = <<>>, NEW a \in AdapterFields, NEW b \in BOOLEAN,
           ad' = [a EXCEPT !.waiting = b], todo' = StatusEvents(ad, b), a.waiting = ad.waiting, a.up,
           UNCHANGED <<out, cx, expired>>, UNCHANGED driverVars,
           in # <<>>, in' = Tail(in), Attachment',
           a.submission = ad.submission,
           a.calls = ad.calls, a.setup \in {ad.setup, None}, a.approvals = ad.approvals
    PROVE  IInv'
<1> DEFINE c == [a EXCEPT !.waiting = b]
<1>1. /\ c \in AdapterFields /\ ad' = c /\ c.waiting = b /\ c.up /\ c.submission = ad.submission
      /\ c.calls = ad.calls /\ c.setup = a.setup /\ c.approvals = ad.approvals
  BY DEF AdapterFields
<1> HIDE DEF c
<1>2. ad.waiting \in BOOLEAN
  BY DEF IInv, AdapterShape, AdapterFields
<1>3. SubmissionInFlight'
  BY <1>1 DEF IInv, SubmissionInFlight
<1>4. \A p \in Prompts : Commanded(p) => p \in Commands(c.calls)
  BY <1>1 DEF Commanded, Commands
<1>5. CASE b = ad.waiting
  <2>1. todo' = <<>>
    BY <1>5 DEF StatusEvents
  <2>2. /\ todo' \in Seq(Events) /\ Lacks(todo', AttentionOn)
        /\ \A ask \in Approvals : Lacks(todo', Opening(ask))
    BY <2>1, NothingHeld
  <2> QED
    BY <1>1, <1>3, <1>4, <1>5, <2>2, LeavesKeeps
<1>6. CASE b # ad.waiting
  <2> DEFINE e == Event("attention", None, b)
  <2>1. todo' = <<e>>
    BY <1>6 DEF StatusEvents
  <2>2. /\ e \in Events /\ (e \in AttentionOn => b) /\ (~b => e \in AttentionEnd)
        /\ \A ask : e \notin Opening(ask)
    BY DEF Event, Events, AttentionOn, AttentionEnd, Opening
  <2> HIDE DEF e
  <2>3. /\ todo' \in Seq(Events)
        /\ \A K : Lacks(todo', K) <=> e \notin K
    BY <2>1, <2>2, OneEvent
  <2>4. /\ \A ask \in Approvals : Lacks(todo', Opening(ask))
        /\ Lacks(todo', AttentionOn) \/ c.waiting
        /\ ad.waiting => c.waiting \/ ~Lacks(todo', AttentionEnd)
    BY <1>1, <2>2, <2>3
  <2> QED
    BY <1>1, <1>3, <1>4, <2>3, <2>4, LeavesKeeps
<1> QED
  BY <1>5, <1>6

LEMMA NotificationKeeps ==
    ASSUME IInv, todo = <<>>, ad.up, in # <<>>, UNCHANGED expired, UNCHANGED driverVars,
           NEW m \in Incoming, m = Head(in), m.kind \notin {"result", "error", "ask"}, HandleNotification(m)
    PROVE  IInv'
<1>1. /\ ad \in AdapterFields /\ in \in Seq(Incoming) /\ Single(out, Resumes) /\ in' = Tail(in)
      /\ ad.subscribed => ad.attached
  BY DEF IInv, AdapterShape, Attachment, HandleNotification
<1>2. m \in Telling => ad.attached
  <2>1. Sound(ad.attached, in, cx.sub) /\ ad.attached \in BOOLEAN /\ cx.sub \in BOOLEAN
    BY DEF IInv, Attachment, AdapterShape, AdapterFields, CodexFields
  <2> QED
    BY <1>1, <2>1, SoundTail
<1>3. <<>> \in Seq(Events) /\ \A K : Lacks(<<>>, K)
  BY NothingHeld
\* Nothing comes of it.
<1>4. ASSUME Leaves(ad, <<>>), m.kind # "resumed" PROVE IInv'
  <2>1. ad' = ad /\ todo' = <<>> /\ UNCHANGED <<out, cx>>
    BY <1>4 DEF Leaves
  <2>2. Attachment'
    BY <1>1, <1>4, <2>1, AttachmentHandled
  <2> QED
    BY <1>1, <1>3, <2>1, <2>2, QuietKeeps
<1>5. CASE m.kind = "resumed"
  <2>1. m.ref \in Nat /\ m.val \in BOOLEAN /\ m \in ResumeAnswer
    BY <1>5 DEF Incoming, ResumeAnswer
  <2>2. ad.setup = "resume"
    <3>1. ~Lacks(in, ResumeAnswer)
      BY <1>1, <2>1, HeldTail
    <3> QED
      BY <3>1 DEF IInv, Attachment
  <2> DEFINE a == [ad EXCEPT !.setup = None, !.attached = TRUE, !.subscribed = TRUE, !.resume = TRUE,
                             !.active = IF @ = 0 THEN m.ref ELSE @]
  <2>3. ad' = [a EXCEPT !.waiting = m.val] /\ todo' = StatusEvents(a, m.val) /\ UNCHANGED <<out, cx>>
    BY <1>5, <2>2 DEF HandleNotification, HandleResumed, Leaves
  <2>4. /\ a \in AdapterFields /\ a.up = ad.up /\ a.setup = None /\ a.attached = TRUE /\ a.subscribed = TRUE
        /\ a.calls = ad.calls /\ a.approvals = ad.approvals /\ a.waiting = ad.waiting
        /\ a.submission = ad.submission
    BY <1>1, <2>1 DEF AdapterFields
  <2> HIDE DEF a
  <2> DEFINE b == [a EXCEPT !.waiting = m.val]
  <2>5. b \in AdapterFields /\ b.setup = None /\ b.attached = TRUE
    BY <2>1, <2>4 DEF AdapterFields
  <2>6. ad' = b
    BY <2>3
  <2> HIDE DEF b
  <2>7. Attachment'
    BY <1>1, <1>5, <2>1, <2>3, <2>5, <2>6, AttachmentHandled
  <2>8. todo' = StatusEvents(ad, m.val)
    BY <2>3, <2>4 DEF StatusEvents
  <2> QED
    BY <1>1, <2>1, <2>3, <2>4, <2>7, <2>8, StatusKeeps
<1>6. CASE m.kind = "started"
  <2>1. m.val \in Nat /\ ad.attached
    BY <1>2, <1>6 DEF Incoming, Telling
  <2> DEFINE a == [ad EXCEPT !.subscribed = TRUE, !.active = m.val, !.submission = None]
  <2>2. ad' = a /\ todo' = <<>> /\ UNCHANGED <<out, cx>>
    BY <1>6, <2>1 DEF HandleNotification, HandleStarted, Leaves, Matches
  <2>3. /\ a \in AdapterFields /\ a.up = ad.up /\ a.setup = ad.setup /\ a.attached = ad.attached
        /\ a.calls = ad.calls /\ a.approvals = ad.approvals /\ a.waiting = ad.waiting
        /\ a.submission = None
    BY <1>1, <2>1 DEF AdapterFields
  <2> HIDE DEF a
  <2>4. Attachment'
    BY <1>1, <1>6, <2>1, <2>2, <2>3, AttachmentHandled
  <2> QED
    BY <1>1, <1>3, <2>2, <2>3, <2>4, QuietKeeps
<1>7. CASE m.kind = "completed"
  <2>1. CASE ~ad.attached
    BY <1>4, <1>7, <2>1 DEF HandleNotification, HandleCompleted
  <2>2. CASE ad.attached
    <3> DEFINE a == [ad EXCEPT !.subscribed = TRUE, !.active = 0, !.submission = None,
                               !.inputs = {}, !.approvals = {}, !.waiting = FALSE]
               off == AttentionOff(ad)  closed == Resolved(ad.approvals)
               e == Event("ended", None, m.val)
    <3>1. ad' = a /\ todo' = off \o closed \o <<e>> /\ UNCHANGED <<out, cx>>
      BY <1>7, <2>2 DEF HandleNotification, HandleCompleted, Leaves
    <3>2. /\ a \in AdapterFields /\ a.up = ad.up /\ a.setup = ad.setup /\ a.attached = ad.attached
          /\ a.calls = ad.calls /\ a.approvals = {} /\ a.waiting = FALSE
          /\ a.submission = None
      BY <1>1 DEF AdapterFields
    <3> HIDE DEF a
    <3>3. off \in Seq(Calm) /\ (ad.waiting => ~Lacks(off, AttentionEnd))
      BY <1>1, AttentionOffDoes
    <3>4. closed \in Seq(Calm) /\ \A ask \in ad.approvals : ~Lacks(closed, Closing(ask))
      BY <1>1, ResolvedDoes DEF IInv, Limits, AdapterFields
    <3>5. e \in Calm
      BY <1>7 DEF Event, Events, Calm, AttentionOn, Incoming
    <3> HIDE DEF off, closed, e
    <3> DEFINE u == off \o closed  z == <<e>>
    <3>6. u \in Seq(Calm) /\ \A K : Lacks(u, K) <=> Lacks(off, K) /\ Lacks(closed, K)
      BY <3>3, <3>4, HeldConcat
    <3>7. z \in Seq(Calm)
      BY <3>5, OneEvent
    <3>8. todo' = u \o z
      BY <3>1
    <3> HIDE DEF u, z
    <3>9. todo' \in Seq(Calm) /\ \A K : Lacks(todo', K) => Lacks(u, K)
      BY <3>6, <3>7, <3>8, HeldConcat
    <3>10. /\ todo' \in Seq(Events) /\ Lacks(todo', AttentionOn)
           /\ \A ask \in Approvals : Lacks(todo', Opening(ask))
      BY <3>9, CalmLacks
    <3>11. /\ ad.waiting => ~Lacks(todo', AttentionEnd)
           /\ \A ask \in Approvals : ask \in ad.approvals => ~Lacks(todo', Closing(ask))
      BY <3>3, <3>4, <3>6, <3>9
    <3>12. Attachment'
      BY <1>1, <1>7, <2>2, <3>1, <3>2, AttachmentHandled
    <3>13. SubmissionInFlight'
      BY <3>1, <3>2 DEF SubmissionInFlight
    <3>14. \A p \in Prompts : Commanded(p) => p \in Commands(a.calls)
      BY <3>2 DEF Commanded, Commands
    <3> QED
      BY <1>1, <3>1, <3>2, <3>10, <3>11, <3>12, <3>13, <3>14, LeavesKeeps
  <2> QED
    BY <2>1, <2>2
<1>8. CASE m.kind = "resolved"
  <2>1. m.ref \in Asks /\ ad.attached
    BY <1>2, <1>8 DEF Incoming, Telling
  <2> DEFINE A == ad.approvals \ {m.ref}  I == ad.inputs \ {m.ref}
             a == [ad EXCEPT !.subscribed = TRUE, !.approvals = A, !.inputs = I]
  <2>2. /\ ad' = a /\ UNCHANGED <<out, cx>>
        /\ todo' = IF m.ref \in ad.approvals THEN Resolved({m.ref}) ELSE <<>>
    BY <1>8, <2>1 DEF HandleNotification, HandleResolved, Leaves, Matches
  <2>3. A \subseteq ad.approvals /\ A \in SUBSET Approvals /\ I \in SUBSET Inputs
        /\ ad.approvals \in SUBSET Approvals
    BY <1>1 DEF AdapterFields
  <2>4. \A x \in ad.approvals : x # m.ref => x \in A
    OBVIOUS
  <2> HIDE DEF A, I
  <2>5. /\ a \in AdapterFields /\ a.up = ad.up /\ a.setup = ad.setup /\ a.attached = ad.attached
        /\ a.calls = ad.calls /\ a.approvals = A /\ a.waiting = ad.waiting
        /\ a.submission = ad.submission
    BY <1>1, <2>3 DEF AdapterFields
  <2> HIDE DEF a
  <2>6. /\ todo' \in Seq(Events) /\ Lacks(todo', AttentionOn)
        /\ \A ask \in Approvals : Lacks(todo', Opening(ask))
        /\ m.ref \in ad.approvals => ~Lacks(todo', Closing(m.ref))
    <3>1. CASE m.ref \in ad.approvals
      <4>1. IsFiniteSet({m.ref}) /\ {m.ref} \in SUBSET Approvals /\ m.ref \in {m.ref}
        BY <2>3, <3>1, FS_Singleton
      <4>2. Resolved({m.ref}) \in Seq(Calm) /\ ~Lacks(Resolved({m.ref}), Closing(m.ref))
        BY <4>1, ResolvedDoes
      <4> QED
        BY <2>2, <3>1, <4>2, CalmLacks
    <3>2. CASE m.ref \notin ad.approvals
      BY <1>3, <2>2, <3>2
    <3> QED
      BY <3>1, <3>2
  <2>7. Attachment'
    BY <1>1, <1>8, <2>1, <2>2, <2>5, AttachmentHandled
  <2>8. SubmissionInFlight'
    BY <2>2, <2>5 DEF IInv, SubmissionInFlight
  <2>9. \A p \in Prompts : Commanded(p) => p \in Commands(a.calls)
    BY <2>5 DEF Commanded, Commands
  <2> QED
    BY <1>1, <2>2, <2>3, <2>4, <2>5, <2>6, <2>7, <2>8, <2>9, LeavesKeeps
<1>9. CASE m.kind = "status"
  <2>1. m.val \in BOOLEAN
    BY <1>9 DEF Incoming
  <2>2. CASE ~Matches(ad)
    BY <1>4, <1>9, <2>2 DEF HandleNotification, HandleStatus
  <2>3. CASE Matches(ad)
    <3>1. ad' = [ad EXCEPT !.waiting = m.val] /\ todo' = StatusEvents(ad, m.val) /\ UNCHANGED <<out, cx>>
      BY <1>9, <2>3 DEF HandleNotification, HandleStatus, Leaves
    <3> DEFINE b == [ad EXCEPT !.waiting = m.val]
    <3>2. /\ b \in AdapterFields /\ b.setup = ad.setup /\ b.attached = ad.attached
          /\ b.subscribed = ad.subscribed /\ ad' = b
      BY <1>1, <2>1, <3>1 DEF AdapterFields
    <3> HIDE DEF b
    <3>3. Attachment'
      BY <1>1, <1>9, <3>1, <3>2, AttachmentHandled
    <3> QED
      BY <1>1, <2>1, <3>1, <3>3, StatusKeeps
  <2> QED
    BY <2>2, <2>3
<1>10. CASE m.kind = "closed"
  <2>1. CASE ~ad.attached
    BY <1>4, <1>10, <2>1 DEF HandleNotification, HandleClosed
  <2>2. CASE ad.attached
    <3> DEFINE a == [ad EXCEPT !.attached = FALSE, !.subscribed = FALSE, !.resume = FALSE,
                               !.active = 0, !.waiting = FALSE]
    <3>1. ad' = a /\ todo' = AttentionOff(ad) /\ UNCHANGED <<out, cx>>
      BY <1>10, <2>2 DEF HandleNotification, HandleClosed, Leaves
    <3>2. /\ a \in AdapterFields /\ a.up = ad.up /\ a.setup = ad.setup /\ a.subscribed = FALSE
          /\ a.calls = ad.calls /\ a.approvals = ad.approvals /\ a.waiting = FALSE
          /\ a.submission = ad.submission
      BY <1>1 DEF AdapterFields
    <3> HIDE DEF a
    <3>3. todo' \in Seq(Calm) /\ (ad.waiting => ~Lacks(todo', AttentionEnd))
      BY <1>1, <3>1, AttentionOffDoes
    <3>4. /\ todo' \in Seq(Events) /\ Lacks(todo', AttentionOn)
          /\ \A ask \in Approvals : Lacks(todo', Opening(ask))
      BY <3>3, CalmLacks
    <3>5. Attachment'
      BY <1>1, <1>10, <3>1, <3>2, AttachmentHandled
    <3>6. SubmissionInFlight'
      BY <3>1, <3>2 DEF IInv, SubmissionInFlight
    <3>7. \A p \in Prompts : Commanded(p) => p \in Commands(a.calls)
      BY <3>2 DEF Commanded, Commands
    <3> QED
      BY <1>1, <3>1, <3>2, <3>3, <3>4, <3>5, <3>6, <3>7, LeavesKeeps
  <2> QED
    BY <2>1, <2>2
<1>11. CASE m.kind \in {"item", "question", "replied"}
  <2>1. HandleItem(m)
    BY <1>11 DEF HandleNotification
  \* What is asked and answered changes, and one event is published at most.
  <2>2. ASSUME NEW Q \in SUBSET Questions, NEW R \in SUBSET Questions, NEW t \in Seq(Events),
               Leaves([ad EXCEPT !.questions = Q, !.answered = R], t),
               Lacks(t, AttentionOn), \A ask \in Approvals : Lacks(t, Opening(ask))
        PROVE  IInv'
    <3> DEFINE a == [ad EXCEPT !.questions = Q, !.answered = R]
    <3>1. ad' = a /\ todo' = t /\ UNCHANGED <<out, cx>>
      BY <2>2 DEF Leaves
    <3>2. /\ a \in AdapterFields /\ a.up = ad.up /\ a.setup = ad.setup /\ a.attached = ad.attached
          /\ a.subscribed = ad.subscribed
          /\ a.calls = ad.calls /\ a.approvals = ad.approvals /\ a.waiting = ad.waiting
          /\ a.submission = ad.submission
      BY <1>1 DEF AdapterFields
    <3> HIDE DEF a
    <3>3. Attachment'
      BY <1>1, <1>11, <3>1, <3>2, AttachmentHandled
    <3> QED
      BY <1>1, <2>2, <3>1, <3>2, <3>3, QuietKeeps
  <2>3. ad.questions \in SUBSET Questions /\ ad.answered \in SUBSET Questions
    BY <1>1 DEF AdapterFields
  <2>4. ad = [ad EXCEPT !.questions = ad.questions, !.answered = ad.answered]
    BY <1>1 DEF AdapterFields
  <2>5. m.kind # "item" => m.ref \in Questions
    BY <1>11 DEF Incoming
  <2>6. CASE ~ad.attached
    BY <1>4, <1>11, <2>1, <2>6 DEF HandleItem
  <2>7. CASE ad.attached /\ m.kind = "item"
    <3> DEFINE e == Event("item", None, 0)
    <3>1. Leaves(ad, <<e>>)
      BY <2>1, <2>7 DEF HandleItem
    <3>2. e \in Calm
      BY DEF Event, Events, Calm, AttentionOn
    <3> HIDE DEF e
    <3> QED
      <4> DEFINE Q == ad.questions  R == ad.answered  t == <<e>>
      <4>1. Leaves([ad EXCEPT !.questions = Q, !.answered = R], t)
        BY <2>4, <3>1
      <4>2. t \in Seq(Events) /\ Lacks(t, AttentionOn) /\ \A ask \in Approvals : Lacks(t, Opening(ask))
        BY <3>2, OneCalm
      <4> HIDE DEF Q, R, t
      <4>3. Q \in SUBSET Questions /\ R \in SUBSET Questions
        BY <2>3 DEF Q, R
      <4> QED
        BY <2>2, <4>1, <4>2, <4>3
  <2>8. CASE ad.attached /\ m.kind = "question"
    <3> DEFINE e == Event("opened", m.ref, 0)  Q == ad.questions \cup {m.ref}  R == ad.answered
    <3>1. Leaves([ad EXCEPT !.questions = Q], <<e>>)
      BY <2>1, <2>8 DEF HandleItem
    <3>2. e \in Events /\ e \notin AttentionOn /\ \A ask \in Approvals : e \notin Opening(ask)
      BY <2>5, <2>8, NamesAssumption DEF Event, Events, AttentionOn, Opening, Asks
    <3>3. Q \in SUBSET Questions /\ R \in SUBSET Questions
      BY <2>3, <2>5, <2>8
    <3> HIDE DEF e, Q
    <3>4. [ad EXCEPT !.questions = Q] = [ad EXCEPT !.questions = Q, !.answered = R]
      BY <1>1 DEF AdapterFields
    <3> HIDE DEF R
    <3> DEFINE t == <<e>>
    <3>5. t \in Seq(Events) /\ \A K : Lacks(t, K) <=> e \notin K
      BY <3>2, OneEvent
    <3>6. Leaves([ad EXCEPT !.questions = Q, !.answered = R], t)
      BY <3>1, <3>4
    <3> HIDE DEF t
    <3> QED
      BY <2>2, <3>2, <3>3, <3>5, <3>6
  <2>9. CASE ad.attached /\ m.kind = "replied"
    <3>1. HandleReplied(m.ref)
      BY <2>1, <2>9 DEF HandleItem
    <3>2. CASE m.ref \in ad.answered
      <4> DEFINE R == ad.answered \ {m.ref}  Q == ad.questions
      <4>1. Leaves([ad EXCEPT !.answered = R], <<>>)
        BY <3>1, <3>2 DEF HandleReplied
      <4>2. Q \in SUBSET Questions /\ R \in SUBSET Questions
        BY <2>3
      <4> HIDE DEF R
      <4>3. [ad EXCEPT !.answered = R] = [ad EXCEPT !.questions = Q, !.answered = R]
        BY <1>1 DEF AdapterFields
      <4> HIDE DEF Q
      <4> QED
        BY <1>3, <2>2, <4>1, <4>2, <4>3
    <3>3. CASE m.ref \notin ad.answered
      <4> DEFINE R == ad.answered  Q == ad.questions \ {m.ref}
                 e == IF m.ref \in ad.questions THEN Event("answered", m.ref, 0) ELSE Event("item", None, 0)
      <4>1. Leaves([ad EXCEPT !.questions = Q], <<e>>)
        BY <3>1, <3>3 DEF HandleReplied
      <4>2. Q \in SUBSET Questions /\ R \in SUBSET Questions
        BY <2>3
      <4>3. e \in Calm
        BY <2>3, <2>5, <2>9 DEF Event, Events, Calm, AttentionOn
      <4> HIDE DEF Q, e
      <4>4. [ad EXCEPT !.questions = Q] = [ad EXCEPT !.questions = Q, !.answered = R]
        BY <1>1 DEF AdapterFields
      <4> HIDE DEF R
      <4>5. Leaves([ad EXCEPT !.questions = Q, !.answered = R], <<e>>)
        BY <4>1, <4>4
      <4>6. <<e>> \in Seq(Events) /\ Lacks(<<e>>, AttentionOn) /\ \A ask : Lacks(<<e>>, Opening(ask))
        BY <4>3, OneCalm
      <4> QED
        BY <2>2, <4>2, <4>5, <4>6
    <3> QED
      BY <3>2, <3>3
  <2> QED
    BY <1>11, <2>6, <2>7, <2>8, <2>9
<1> QED
  BY <1>5, <1>6, <1>7, <1>8, <1>9, <1>10, <1>11 DEF Incoming

LEMMA HandleKeeps == IInv /\ Handle /\ UNCHANGED driverVars => IInv'
<1> SUFFICES ASSUME IInv, Handle, UNCHANGED driverVars PROVE IInv'
  OBVIOUS
<1> DEFINE m == Head(in)
<1>1. todo = <<>> /\ ad.up /\ in # <<>> /\ UNCHANGED expired /\ in \in Seq(Incoming) /\ m \in Incoming
  BY HeldTail DEF Handle, Idle, IInv, AdapterShape
<1>2. CASE m.kind = "result"
  <2>1. HandleResult(m.ref, m.val)
    BY <1>2 DEF Handle
  <2>2. m.ref \in Calls /\ m.val \in Nat /\ m = Result(m.ref, m.val)
    BY <1>1, <1>2 DEF Incoming, Result, Msg
  <2> QED
    BY <1>1, <2>1, <2>2, ResultKeeps
<1>3. CASE m.kind = "error"
  <2>1. HandleError(m.ref, m.val)
    BY <1>3 DEF Handle
  <2>2. m.ref \in Calls /\ m.val \in {"rollout", "other", "idle"} /\ m = Error(m.ref, m.val)
    BY <1>1, <1>3 DEF Incoming, Error, Msg
  <2> QED
    BY <1>1, <2>1, <2>2, ErrorKeeps
<1>4. CASE m.kind = "ask"
  <2>1. HandleAsk(m.ref)
    BY <1>4 DEF Handle
  <2>2. m.ref \in Asks /\ m = Msg("ask", m.ref, 0)
    BY <1>1, <1>4 DEF Incoming, Msg
  <2> QED
    BY <1>1, <2>1, <2>2, AskKeeps
<1>5. CASE m.kind \notin {"result", "error", "ask"}
  <2>1. HandleNotification(m)
    BY <1>5 DEF Handle
  <2> QED
    BY <1>1, <1>5, <2>1, NotificationKeeps
<1> QED
  BY <1>2, <1>3, <1>4, <1>5

LEMMA AdapterKeeps == IInv /\ Adapter /\ UNCHANGED driverVars => IInv'
  BY ConnectKeeps, BreakKeeps, DiscoverKeeps, FlushKeeps, HandleKeeps, PurgeKeeps, TimeOutKeeps DEF Adapter

-----------------------------------------------------------------------------
(* The driver.                                                              *)

LEMMA EnsureTurnDoes ==
    ASSUME NEW d \in DriverFields
    PROVE  /\ EnsureTurn(d) \in DriverFields
           /\ EnsureTurn(d).open = d.open /\ EnsureTurn(d).attention = d.attention
  BY DEF EnsureTurn, OpenTurn, DriverFields

LEMMA FinishTurnDoes ==
    ASSUME NEW d \in DriverFields
    PROVE  /\ FinishTurn(d) \in DriverFields
           /\ FinishTurn(d).open \subseteq d.open /\ ~FinishTurn(d).attention
  BY DEF FinishTurn, DriverFields

LEMMA SettleDoes ==
    ASSUME NEW d \in DriverFields, NEW A
    PROVE  /\ Settle(d, A) \in DriverFields
           /\ Settle(d, A).open = d.open \ A /\ Settle(d, A).attention = d.attention
  BY DEF Settle, DriverFields

LEMMA OnEventDoes ==
    ASSUME NEW d \in DriverFields, NEW e \in Events, NEW n, n = OnEvent(d, e)
    PROVE  /\ n \in DriverFields
           /\ \A ask \in n.open : ask \in d.open \/ e = Event("opened", ask, 0)
           /\ e.kind = "resolved" => e.ref \notin n.open
           /\ n.attention => d.attention \/ e \in AttentionOn
           /\ e \in AttentionEnd => ~n.attention
<1>1. CASE e.kind = "item"
  <2>1. n = EnsureTurn(d)
    BY <1>1 DEF OnEvent
  <2> QED
    BY <1>1, <2>1, EnsureTurnDoes DEF AttentionEnd
<1>2. CASE e.kind = "opened"
  <2>1. n = Opened(d, e.ref) /\ e.ref \in Asks \cup Questions /\ e = Event("opened", e.ref, 0)
    BY <1>2 DEF OnEvent, Events, Event
  <2>2. CASE e.ref \in d.open
    BY <1>2, <2>1, <2>2 DEF Opened, AttentionEnd
  <2>3. CASE e.ref \notin d.open
    <3> DEFINE f == IF e.ref \in Questions THEN d ELSE EnsureTurn(d)  A == f.open \cup {e.ref}
    <3>1. f \in DriverFields /\ f.open = d.open /\ f.attention = d.attention
      BY EnsureTurnDoes
    <3>2. n = [f EXCEPT !.open = A]
      BY <2>1, <2>3 DEF Opened
    <3>3. A \in SUBSET (Asks \cup Questions) /\ \A ask \in A : ask \in f.open \/ ask = e.ref
      BY <2>1, <3>1 DEF DriverFields
    <3> HIDE DEF f, A
    <3>4. n \in DriverFields /\ n.open = A /\ n.attention = f.attention
      BY <3>1, <3>2, <3>3 DEF DriverFields
    <3> QED
      BY <1>2, <2>1, <3>1, <3>3, <3>4 DEF AttentionEnd
  <2> QED
    BY <2>2, <2>3
<1>3. CASE e.kind \in {"resolved", "answered"}
  <2>1. n = Settle(d, {e.ref})
    BY <1>3 DEF OnEvent
  <2> QED
    BY <1>3, <2>1, SettleDoes DEF AttentionEnd
<1>4. CASE e.kind = "attention"
  <2> DEFINE f == IF e.val THEN EnsureTurn(d) ELSE d
  <2>1. n = [f EXCEPT !.attention = e.val]
    BY <1>4 DEF OnEvent
  <2>2. f \in DriverFields /\ f.open = d.open
    BY EnsureTurnDoes
  <2>3. e.val \in BOOLEAN /\ e = Event("attention", None, e.val)
    BY <1>4 DEF Events, Event
  <2> HIDE DEF f
  <2>4. n \in DriverFields /\ n.open = f.open /\ n.attention = e.val
    BY <2>1, <2>2, <2>3 DEF DriverFields
  <2>5. n.attention => e \in AttentionOn
    BY <2>3, <2>4 DEF AttentionOn
  <2> QED
    BY <1>4, <2>2, <2>4, <2>5 DEF AttentionEnd
<1>5. CASE e.kind = "ended"
  <2>1. n = FinishTurn(d)
    BY <1>5 DEF OnEvent
  <2> QED
    BY <1>5, <2>1, FinishTurnDoes
<1>6. CASE e.kind = "failed"
  <2>1. n \in {d, FinishTurn(EnsureTurn(d))}
    BY <1>6 DEF OnEvent, Failure
  <2>2. /\ EnsureTurn(d) \in DriverFields /\ EnsureTurn(d).open = d.open
    BY EnsureTurnDoes
  <2>3. /\ FinishTurn(EnsureTurn(d)) \in DriverFields
        /\ FinishTurn(EnsureTurn(d)).open \subseteq d.open /\ ~FinishTurn(EnsureTurn(d)).attention
    BY <2>2, FinishTurnDoes
  <2> QED
    BY <1>6, <2>1, <2>3 DEF AttentionEnd
<1> QED
  BY <1>1, <1>2, <1>3, <1>4, <1>5, <1>6 DEF Events

LEMMA PublishKeeps == IInv /\ Publish => IInv'
<1> SUFFICES ASSUME IInv, Publish PROVE IInv'
  OBVIOUS
<1> DEFINE e == Head(todo)
<1>1. /\ todo # <<>> /\ todo \in Seq(Events) /\ dr \in DriverFields /\ told \subseteq Prompts
      /\ dr' = OnEvent(dr, e) /\ todo' = Tail(todo)
      /\ told' = IF e.kind = "failed" THEN told \cup ({e.ref} \cap Prompts) ELSE told
      /\ UNCHANGED <<ad, out, in, cx, expired, link, outcome, answers>>
  BY DEF Publish, IInv, AdapterShape, DriverShape
<1>2. /\ todo' \in Seq(Events) /\ e \in Events
      /\ \A K : /\ Lacks(todo, K) => Lacks(todo', K) /\ e \notin K
                /\ Lacks(todo', K) /\ e \notin K => Lacks(todo, K)
                /\ Single(todo, K) => Single(todo', K)
                /\ Single(todo, K) /\ e \in K => Lacks(todo', K)
  BY <1>1, HeldTail
<1> HIDE DEF e
<1>3. /\ dr' \in DriverFields
      /\ \A ask \in dr'.open : ask \in dr.open \/ e = Event("opened", ask, 0)
      /\ e.kind = "resolved" => e.ref \notin dr'.open
      /\ dr'.attention => dr.attention \/ e \in AttentionOn
      /\ e \in AttentionEnd => ~dr'.attention
  BY <1>1, <1>2, OnEventDoes
<1>4. AdapterShape' /\ DriverShape' /\ Limits' /\ Attachment' /\ SubmissionInFlight'
  BY <1>1, <1>2, <1>3
     DEF IInv, AdapterShape, DriverShape, Limits, InFlight, Attachment, SubmissionInFlight
<1>5. \A p \in Prompts : Travel(p)'
  <2> TAKE p \in Prompts
  <2>1. Travel(p)
    BY DEF IInv
  <2>2. (Handed(p)' <=> Handed(p)) /\ (Commanded(p)' <=> Commanded(p))
    BY <1>1 DEF Handed, Commanded
  <2>3. Failing(p) => Failing(p)'
    <3>1. p \in told => p \in told'
      BY <1>1
    <3>2. e \in Reports(p) => p \in told'
      BY <1>1 DEF Reports
    <3> QED
      BY <1>2, <3>1, <3>2 DEF Failing
  <2> QED
    BY <1>1, <2>1, <2>2, <2>3, TravelKept DEF Travel
<1>6. \A ask \in Approvals : Shown(ask)'
  <2> TAKE ask \in Approvals
  <2>1. Shown(ask)
    BY DEF IInv
  <2>2. ask \in dr'.open => ask \in dr.open \/ e \in Opening(ask)
    BY <1>3 DEF Opening
  <2>3. e \in Closing(ask) => ask \notin dr'.open
    BY <1>3 DEF Closing, Event
  <2>4. /\ Coming(ask)' <=> Coming(ask)
        /\ On(ask)' <=> On(ask)
    BY <1>1 DEF Coming, On
  <2>5. Coming(ask) => ask \notin dr'.open /\ Lacks(todo', Opening(ask))
    BY <1>2, <2>1, <2>2 DEF Shown
  <2>6. Lacks(todo', Opening(ask)) \/ (ask \notin dr'.open /\ ~On(ask) /\ ask \in ad.approvals \cup expired)
    BY <1>2, <2>1, <2>2 DEF Shown
  <2>7. ask \in dr'.open => \/ ask \in ad.approvals \cup expired
                            \/ link.pc = "pop" /\ On(ask)
                            \/ ~Lacks(todo', Closing(ask))
    BY <1>2, <2>1, <2>2, <2>3 DEF Shown
  <2> QED
    BY <1>1, <1>2, <2>1, <2>4, <2>5, <2>6, <2>7 DEF Shown
<1>7. Attention'
  <2>1. dr'.attention => ad.waiting \/ ~Lacks(todo', AttentionEnd)
    BY <1>2, <1>3 DEF IInv, Attention
  <2> QED
    BY <1>1, <1>2, <2>1 DEF IInv, Attention
<1> QED
  BY <1>4, <1>5, <1>6, <1>7 DEF IInv

\* The driver and the link go on by themselves.
LEMMA AloneKeeps ==
    ASSUME IInv, DriverShape', NEW a \in AdapterFields, ad' = a,
           a.up = ad.up, a.calls = ad.calls, a.setup = ad.setup, a.approvals = ad.approvals,
           a.attached = ad.attached, a.subscribed = ad.subscribed,
           a.waiting = ad.waiting, a.submission = ad.submission,
           UNCHANGED <<out, in, todo, cx, expired, told, answers>>,
           dr'.open \subseteq dr.open, dr'.attention => dr.attention,
           \A p \in Prompts : /\ Handed(p)' <=> Handed(p)
                              /\ link'.op = "submit" /\ link'.cmd = p => outcome'[p] = None,
           \A ask \in Approvals :
              /\ On(ask)' => On(ask) \/ ask \in dr.open
              /\ ask \in dr'.open /\ link.pc = "pop" /\ On(ask) => link'.pc = "pop" /\ On(ask)'
    PROVE  IInv'
<1>1. AdapterShape' /\ Limits' /\ Attachment' /\ Attention' /\ SubmissionInFlight'
  BY DEF IInv, AdapterShape, Limits, InFlight, Attachment, Attention, SubmissionInFlight
<1>2. \A p \in Prompts : Travel(p)'
  <2> TAKE p \in Prompts
  <2>1. Travel(p)
    BY DEF IInv
  <2>2. (Failing(p)' <=> Failing(p)) /\ (Commanded(p)' <=> Commanded(p))
    BY DEF Failing, Commanded
  <2> QED
    BY <2>1, <2>2, TravelKept DEF Travel
<1>3. \A ask \in Approvals : Shown(ask)'
  <2> TAKE ask \in Approvals
  <2>1. Shown(ask) /\ (Coming(ask)' <=> Coming(ask))
    BY DEF IInv, Coming
  <2> QED
    BY <2>1 DEF Shown
<1> QED
  BY <1>1, <1>2, <1>3 DEF IInv

\* The adapter's inputs that have expired may be gone.
LEMMA PurgedDoes ==
    ASSUME NEW b \in AdapterFields, NEW a, a = [b EXCEPT !.inputs = Live(b)]
    PROVE  /\ a \in AdapterFields
           /\ a.up = b.up /\ a.initialized = b.initialized /\ a.attached = b.attached
           /\ a.subscribed = b.subscribed /\ a.active = b.active /\ a.submission = b.submission
           /\ a.setup = b.setup /\ a.calls = b.calls /\ a.approvals = b.approvals
           /\ a.inputs = Live(b) /\ a.questions = b.questions /\ a.answered = b.answered
           /\ a.waiting = b.waiting
  BY DEF AdapterFields, Live

LEMMA WatchKeeps == IInv /\ Watch => IInv'
<1> SUFFICES ASSUME IInv, Watch PROVE IInv'
  OBVIOUS
<1>1. ad \in AdapterFields /\ dr \in DriverFields
  BY DEF IInv, AdapterShape, DriverShape
<1> DEFINE a == [ad EXCEPT !.inputs = Live(ad)]
<1>2. PICK gone : dr' = Settle(dr, gone)
  BY DEF Watch
<1>3. ad' \in {a, ad} /\ UNCHANGED <<out, in, todo, cx, expired, link, outcome, told, answers>>
  BY DEF Watch
<1>4. /\ a \in AdapterFields
      /\ a.up = ad.up /\ a.attached = ad.attached /\ a.subscribed = ad.subscribed
      /\ a.submission = ad.submission /\ a.setup = ad.setup /\ a.calls = ad.calls
      /\ a.approvals = ad.approvals /\ a.waiting = ad.waiting
  BY <1>1, PurgedDoes
<1>5. dr' \in DriverFields /\ dr'.open \subseteq dr.open /\ dr'.attention = dr.attention
  BY <1>1, <1>2, SettleDoes
<1>6. DriverShape'
  BY <1>3, <1>5 DEF IInv, DriverShape
<1>7. \A p \in Prompts : /\ Handed(p)' <=> Handed(p)
                         /\ link'.op = "submit" /\ link'.cmd = p => outcome'[p] = None
  BY <1>3 DEF IInv, Travel, Handed
<1>8. \A ask \in Approvals :
         /\ On(ask)' => On(ask) \/ ask \in dr.open
         /\ ask \in dr'.open /\ link.pc = "pop" /\ On(ask) => link'.pc = "pop" /\ On(ask)'
  BY <1>3 DEF On
<1> DEFINE b == ad'
<1>9. /\ b \in AdapterFields
      /\ b.up = ad.up /\ b.attached = ad.attached /\ b.subscribed = ad.subscribed
      /\ b.submission = ad.submission /\ b.setup = ad.setup /\ b.calls = ad.calls
      /\ b.approvals = ad.approvals /\ b.waiting = ad.waiting
  BY <1>1, <1>3, <1>4
<1> QED
  BY <1>3, <1>5, <1>6, <1>7, <1>8, <1>9, AloneKeeps

\* Steps of the link's thread that queue nothing.
LinkAlone ==
    \/ \E p \in Prompts : Submit(p)
    \/ CountBefore \/ PublishPrompt \/ CountAfter \/ Submitted \/ Pop
    \/ \E ask \in Asks \cup Questions : Respond(ask)

LEMMA LinkAloneKeeps == IInv /\ LinkAlone => IInv'
<1> SUFFICES ASSUME IInv, LinkAlone PROVE IInv'
  OBVIOUS
<1>1. /\ ad \in AdapterFields /\ dr \in DriverFields /\ DriverShape
      /\ dr.open \in SUBSET (Asks \cup Questions) /\ dr.turn \in {None, Native} \cup Prompts
  BY DEF IInv, AdapterShape, DriverShape, DriverFields
<1>2. \A p \in Prompts : link.op = "submit" /\ link.cmd = p => outcome[p] = None
  BY DEF IInv, Travel
<1>3. /\ link = [op |-> link.op, cmd |-> link.cmd, pc |-> link.pc, inputs |-> link.inputs,
                 before |-> link.before, answered |-> link.answered]
      /\ outcome \in [Prompts -> {None, "accepted", "undelivered"}]
  BY <1>1 DEF DriverShape
\* The adapter is as it was, and so is what the link's thread says of prompts.
<1>4. ASSUME UNCHANGED <<adapterVars, told, answers>>, DriverShape',
             dr'.open \subseteq dr.open, dr'.attention => dr.attention,
             \A p \in Prompts : /\ Handed(p)' <=> Handed(p)
                                /\ link'.op = "submit" /\ link'.cmd = p => outcome'[p] = None,
             \A ask \in Approvals :
                /\ On(ask)' => On(ask) \/ ask \in dr.open
                /\ ask \in dr'.open /\ link.pc = "pop" /\ On(ask) => link'.pc = "pop" /\ On(ask)'
      PROVE  IInv'
  BY <1>1, <1>4, AloneKeeps DEF adapterVars
<1>5. ASSUME NEW p \in Prompts, Submit(p) PROVE IInv'
  <2> DEFINE inputs == dr.open \cap Inputs  pc == IF inputs = {} THEN "adapter" ELSE "before"
  <2>1. /\ link' = [Free EXCEPT !.op = "submit", !.cmd = p, !.inputs = inputs, !.pc = pc]
        /\ link = Free /\ outcome[p] = None
        /\ dr' \in {dr, [dr EXCEPT !.pending = p]}
        /\ UNCHANGED <<adapterVars, outcome, told, answers>>
    BY <1>5 DEF Submit
  <2>2. pc \in {"adapter", "before"} /\ inputs \in SUBSET Inputs
    OBVIOUS
  <2> HIDE DEF pc, inputs
  <2>3. link' = [op |-> "submit", cmd |-> p, pc |-> pc, inputs |-> inputs, before |-> 0, answered |-> FALSE]
    BY <2>1 DEF Free
  <2>4. dr' \in DriverFields /\ dr'.open = dr.open /\ dr'.attention = dr.attention
    BY <1>1, <2>1 DEF DriverFields
  <2>5. DriverShape'
    BY <1>1, <2>1, <2>2, <2>3, <2>4 DEF DriverShape
  <2>6. \A x \in Prompts : /\ Handed(x)' <=> Handed(x)
                           /\ link'.op = "submit" /\ link'.cmd = x => outcome'[x] = None
    BY <2>1, <2>2, <2>3 DEF Handed, Free
  <2>7. \A ask \in Approvals : ~On(ask)' /\ ~On(ask)
    BY <2>1, <2>3 DEF On, Free
  <2> QED
    BY <1>4, <2>1, <2>4, <2>5, <2>6, <2>7
<1>6. ASSUME CountBefore \/ CountAfter PROVE IInv'
  <2> DEFINE a == [ad EXCEPT !.inputs = Live(ad)]
  <2>1. /\ ad' = a /\ UNCHANGED <<out, in, todo, cx, expired, dr, outcome, told, answers>>
    BY <1>6 DEF CountBefore, CountAfter
  <2>2. /\ a \in AdapterFields
        /\ a.up = ad.up /\ a.attached = ad.attached /\ a.subscribed = ad.subscribed
        /\ a.submission = ad.submission /\ a.setup = ad.setup /\ a.calls = ad.calls
        /\ a.approvals = ad.approvals /\ a.waiting = ad.waiting
    BY <1>1, PurgedDoes
  <2>3. Live(ad) \in SUBSET Inputs
    BY <1>1 DEF Live, AdapterFields
  <2> HIDE DEF a
  <2>4. /\ link.op = "submit" /\ link'.op = "submit" /\ link'.cmd = link.cmd
        /\ \/ link.pc = "before" /\ link'.pc = "adapter"
           \/ link.pc = "after" /\ link'.pc = "accepted"
        /\ DriverShape'
    <3>1. CASE CountBefore
      <4> DEFINE n == Cardinality(Live(ad))
      <4>1. link.pc = "before" /\ link' = [link EXCEPT !.pc = "adapter", !.before = n]
        BY <3>1 DEF CountBefore
      <4>2. n \in {Cardinality(S) : S \in SUBSET Inputs}
        BY <2>3
      <4> HIDE DEF n
      <4> QED
        BY <1>1, <2>1, <4>1, <4>2 DEF DriverShape
    <3>2. CASE CountAfter
      <4> DEFINE b == (Live(ad) = {})
      <4>1. link.pc = "after" /\ link' = [link EXCEPT !.pc = "accepted", !.answered = b]
        BY <3>2 DEF CountAfter
      <4>2. b \in BOOLEAN
        OBVIOUS
      <4> HIDE DEF b
      <4> QED
        BY <1>1, <2>1, <4>1, <4>2 DEF DriverShape
    <3> QED
      BY <1>6, <3>1, <3>2
  <2>5. \A x \in Prompts : /\ Handed(x)' <=> Handed(x)
                           /\ link'.op = "submit" /\ link'.cmd = x => outcome'[x] = None
    BY <1>2, <2>1, <2>4 DEF Handed
  <2>6. \A ask \in Approvals : ~On(ask)' /\ ~On(ask)
    BY <2>4 DEF On
  <2> QED
    BY <2>1, <2>2, <2>4, <2>5, <2>6, AloneKeeps
<1>7. ASSUME PublishPrompt PROVE IInv'
  <2>1. /\ link.pc = "publish" /\ dr' = EnsureTurn(dr)
        /\ UNCHANGED <<adapterVars, outcome, told, answers>>
    BY <1>7 DEF PublishPrompt
  <2>2. PICK pc \in {"after", "accepted"} : link' = [link EXCEPT !.pc = pc]
    BY <1>7 DEF PublishPrompt
  <2>3. /\ link.op = "submit" /\ link'.op = "submit" /\ link'.cmd = link.cmd /\ link'.pc = pc
    BY <1>1, <2>1, <2>2 DEF DriverShape
  <2>4. dr' \in DriverFields /\ dr'.open = dr.open /\ dr'.attention = dr.attention
    BY <1>1, <2>1, EnsureTurnDoes
  <2>5. DriverShape'
    BY <1>1, <2>1, <2>2, <2>3, <2>4 DEF DriverShape
  <2>6. \A x \in Prompts : /\ Handed(x)' <=> Handed(x)
                           /\ link'.op = "submit" /\ link'.cmd = x => outcome'[x] = None
    BY <1>2, <2>1, <2>2, <2>3 DEF Handed
  <2>7. \A ask \in Approvals : ~On(ask)' /\ ~On(ask)
    BY <2>3 DEF On
  <2> QED
    BY <1>4, <2>1, <2>4, <2>5, <2>6, <2>7
<1>8. ASSUME Submitted PROVE IInv'
  <2> DEFINE p == link.cmd
             v == IF link.pc = "accepted" THEN "accepted" ELSE "undelivered"
             d == IF dr.pending # p THEN dr
                  ELSE IF link.pc = "accepted" /\ dr.turn = None
                  THEN OpenTurn([dr EXCEPT !.pending = None], p)
                  ELSE [dr EXCEPT !.pending = None]
  <2>1. /\ link.pc \in {"accepted", "refused"} /\ link.op = "submit" /\ p \in Prompts
        /\ dr' \in {d, Settle(d, link.inputs)}
        /\ link' = Free /\ outcome' = [outcome EXCEPT ![p] = v]
        /\ UNCHANGED <<adapterVars, told, answers>>
    BY <1>1, <1>8 DEF Submitted, DriverShape
  <2>2. d \in DriverFields /\ d.open = dr.open /\ d.attention = dr.attention
    BY <1>1, <2>1 DEF OpenTurn, DriverFields
  <2>3. v \in {"accepted", "undelivered"} /\ (v = "accepted" <=> link.pc = "accepted")
    OBVIOUS
  <2> HIDE DEF d, v
  <2>4. dr' \in DriverFields /\ dr'.open \subseteq dr.open /\ dr'.attention = dr.attention
    BY <2>1, <2>2, SettleDoes
  <2>5. /\ outcome' \in [Prompts -> {None, "accepted", "undelivered"}]
        /\ \A x \in Prompts : outcome'[x] = IF x = p THEN v ELSE outcome[x]
    BY <1>3, <2>1, <2>3
  <2>6. DriverShape'
    BY <1>1, <2>1, <2>4, <2>5 DEF DriverShape, Free
  <2>7. \A x \in Prompts : /\ Handed(x)' <=> Handed(x)
                           /\ link'.op = "submit" /\ link'.cmd = x => outcome'[x] = None
    <3> TAKE x \in Prompts
    <3>1. link'.op = "none"
      BY <2>1 DEF Free
    <3>2. Handed(x)' <=> outcome'[x] = "accepted"
      BY <3>1 DEF Handed
    <3>3. CASE x = p
      <4>1. outcome[x] # "accepted"
        BY <1>2, <2>1, <3>3, NamesAssumption
      <4>2. Handed(x) <=> link.pc = "accepted"
        BY <2>1, <3>3, <4>1 DEF Handed
      <4> QED
        BY <2>3, <2>5, <3>1, <3>2, <3>3, <4>2
    <3>4. CASE x # p
      <4>1. Handed(x) <=> outcome[x] = "accepted"
        BY <3>4 DEF Handed
      <4> QED
        BY <2>5, <3>1, <3>2, <3>4, <4>1
    <3> QED
      BY <3>3, <3>4
  <2>8. \A ask \in Approvals : ~On(ask)' /\ ~On(ask)
    BY <2>1 DEF On, Free
  <2> QED
    BY <1>4, <2>1, <2>4, <2>6, <2>7, <2>8
<1>9. ASSUME Pop PROVE IInv'
  <2>1. /\ link.pc = "pop" /\ dr' = Settle(dr, {link.cmd}) /\ link' = Free
        /\ UNCHANGED <<adapterVars, outcome, told, answers>>
    BY <1>9 DEF Pop
  <2>2. dr' \in DriverFields /\ dr'.open = dr.open \ {link.cmd} /\ dr'.attention = dr.attention
    BY <1>1, <2>1, SettleDoes
  <2>3. DriverShape' /\ link.op = "respond"
    BY <1>1, <2>1, <2>2 DEF DriverShape, Free
  <2>4. \A x \in Prompts : /\ Handed(x)' <=> Handed(x)
                           /\ link'.op = "submit" /\ link'.cmd = x => outcome'[x] = None
    BY <2>1, <2>3 DEF Handed, Free
  <2>5. \A ask \in Approvals : ~On(ask)' /\ (On(ask) => ask \notin dr'.open)
    BY <2>1, <2>2 DEF On, Free
  <2> QED
    BY <1>4, <2>1, <2>2, <2>3, <2>4, <2>5
<1>10. ASSUME NEW ask \in Asks \cup Questions, Respond(ask) PROVE IInv'
  <2>1. /\ link = Free /\ ask \in dr.open
        /\ link' = [Free EXCEPT !.op = "respond", !.cmd = ask, !.pc = "adapter"]
        /\ UNCHANGED <<adapterVars, dr, outcome, told, answers>>
    BY <1>10 DEF Respond
  <2>2. link' = [op |-> "respond", cmd |-> ask, pc |-> "adapter", inputs |-> {}, before |-> 0, answered |-> FALSE]
    BY <2>1 DEF Free
  <2>3. DriverShape'
    BY <1>1, <1>10, <2>1, <2>2 DEF DriverShape
  <2>4. \A x \in Prompts : /\ Handed(x)' <=> Handed(x)
                           /\ link'.op = "submit" /\ link'.cmd = x => outcome'[x] = None
    BY <2>1, <2>2 DEF Handed, Free
  <2>5. \A x \in Approvals : (On(x)' => x \in dr.open) /\ ~On(x)
    BY <2>1, <2>2 DEF On, Free
  <2> QED
    BY <1>4, <2>1, <2>3, <2>4, <2>5
<1> QED
  BY <1>5, <1>6, <1>7, <1>8, <1>9, <1>10 DEF LinkAlone

-----------------------------------------------------------------------------
(* The adapter's operations.                                                *)

\* What an operation leaves: a refused one changes nothing of what is in
\* flight, an accepted one queues a message, and a call if it is of text.
Operates(op, text) ==
    /\ op.ad \in AdapterFields
    /\ op.ad.up = ad.up /\ op.ad.attached = ad.attached /\ op.ad.subscribed = ad.subscribed
    /\ op.ad.setup = ad.setup /\ op.ad.waiting = ad.waiting
    /\ op.ad.approvals \subseteq ad.approvals
    /\ ad.calls \subseteq op.ad.calls /\ \A c \in op.ad.calls : c \in ad.calls \/ c.cmd = text
    /\ IsFiniteSet(op.ad.calls) /\ InFlight(op.ad) <= MaxCalls
    /\ op.ad.submission # None => Call("start", op.ad.submission) \in op.ad.calls
    /\ \/ op.ok = FALSE /\ op.msg = NoMsg /\ op.ad.calls = ad.calls /\ op.ad.approvals = ad.approvals
       \/ /\ op.ok = TRUE /\ op.msg \in Outgoing /\ op.msg # NoMsg /\ op.msg \notin Resumes
          /\ ad.up /\ ~Full

\* The adapter, but for the inputs and questions it holds.
Alike(a) ==
    /\ a \in AdapterFields
    /\ a.up = ad.up /\ a.attached = ad.attached /\ a.subscribed = ad.subscribed
    /\ a.setup = ad.setup /\ a.waiting = ad.waiting /\ a.approvals = ad.approvals
    /\ a.calls = ad.calls /\ a.submission = ad.submission

LEMMA MsgDoes ==
    ASSUME NEW m \in Outgoing
    PROVE  m # NoMsg
  BY DEF Outgoing, NoMsg, Msg, Setup

LEMMA AlikeFits ==
    ASSUME IInv, NEW a, Alike(a)
    PROVE  /\ IsFiniteSet(a.calls) /\ InFlight(a) <= MaxCalls
           /\ a.submission # None => Call("start", a.submission) \in a.calls
           /\ Cardinality(a.calls) \in Nat
<1>1. a \in AdapterFields /\ a.calls = ad.calls /\ a.setup = ad.setup /\ a.submission = ad.submission
      /\ a.approvals = ad.approvals
  BY DEF Alike
<1>2. /\ IsFiniteSet(a.calls) /\ InFlight(a) <= MaxCalls
      /\ Cardinality(a.calls) \in Nat
  BY <1>1, FewerFit
<1> QED
  BY <1>1, <1>2 DEF IInv, SubmissionInFlight

LEMMA RefusedDoes ==
    ASSUME IInv, NEW a, Alike(a), NEW text, NEW op, op = Refused(a)
    PROVE  Operates(op, text) /\ op.ok = FALSE /\ op.msg = NoMsg /\ op.ad = a
<1>1. op = [ad |-> a, msg |-> NoMsg, ok |-> FALSE]
  BY DEF Refused
<1>2. /\ IsFiniteSet(a.calls) /\ InFlight(a) <= MaxCalls
      /\ a.submission # None => Call("start", a.submission) \in a.calls
  BY AlikeFits
<1> QED
  BY <1>1, <1>2 DEF Operates, Alike

\* A message that is no request takes no place among the calls.
LEMMA QueuedDoes ==
    ASSUME IInv, NEW a, Alike(a), NEW text, ad.up, ~Full,
           NEW m \in Outgoing, m \notin Resumes
    PROVE  Operates(Queued(a, m), text)
<1> DEFINE op == Queued(a, m)
<1>1. op = [ad |-> a, msg |-> m, ok |-> TRUE]
  BY DEF Queued
<1>2. /\ IsFiniteSet(a.calls) /\ InFlight(a) <= MaxCalls
      /\ a.submission # None => Call("start", a.submission) \in a.calls
  BY AlikeFits
<1>3. m # NoMsg
  BY MsgDoes
<1>4. op.ad = a /\ op.msg = m /\ op.ok = TRUE
  BY <1>1
<1> HIDE DEF op
<1>5. Operates(op, text)
  BY <1>2, <1>3, <1>4 DEF Operates, Alike
<1> QED
  BY <1>5 DEF op

\* The adapter a with one more call.
Calling(a, b, call) ==
    /\ b \in AdapterFields
    /\ b.up = a.up /\ b.attached = a.attached /\ b.subscribed = a.subscribed
    /\ b.setup = a.setup /\ b.waiting = a.waiting /\ b.approvals = a.approvals
    /\ b.calls = a.calls \cup {call}
    /\ b.submission = a.submission \/ call = Call("start", b.submission)

\* A request does.
LEMMA CalledDoes ==
    ASSUME IInv, NEW a, Alike(a), Room(a), NEW call, NEW b, Calling(a, b, call),
           NEW m \in Outgoing, m \notin Resumes
    PROVE  Operates(Queued(b, m), call.cmd)
<1> DEFINE op == Queued(b, m)
<1>1. op = [ad |-> b, msg |-> m, ok |-> TRUE]
  BY DEF Queued
<1>2. /\ IsFiniteSet(a.calls) /\ Cardinality(a.calls) \in Nat
      /\ a.submission # None => Call("start", a.submission) \in a.calls
  BY AlikeFits
<1>3. /\ IsFiniteSet(b.calls)
      /\ Cardinality(b.calls) \in {Cardinality(a.calls), Cardinality(a.calls) + 1}
  <2>1. /\ IsFiniteSet(a.calls \cup {call})
        /\ Cardinality(a.calls \cup {call}) \in {Cardinality(a.calls), Cardinality(a.calls) + 1}
    BY <1>2, FS_AddElement
  <2>2. b.calls = a.calls \cup {call}
    BY DEF Calling
  <2> QED
    BY <2>1, <2>2
<1>4. InFlight(b) <= MaxCalls
  <2>1. InFlight(a) < MaxCalls /\ MaxCalls \in Nat
    BY AdapterAssumption DEF Room
  <2>2. InFlight(b) <= InFlight(a) + 1 /\ InFlight(a) \in Nat /\ InFlight(b) \in Nat
    BY <1>2, <1>3 DEF InFlight, Calling
  <2> QED
    BY <2>1, <2>2
<1>5. b.submission # None => Call("start", b.submission) \in b.calls
  BY <1>2 DEF Calling
<1>6. m # NoMsg /\ ad.up /\ ~Full
  BY MsgDoes DEF Room, Alike
<1>7. /\ b.up = ad.up /\ b.attached = ad.attached /\ b.subscribed = ad.subscribed
      /\ b.setup = ad.setup /\ b.waiting = ad.waiting /\ b.approvals = ad.approvals
      /\ ad.calls \subseteq b.calls /\ \A c \in b.calls : c \in ad.calls \/ c.cmd = call.cmd
  BY DEF Alike, Calling
<1>8. op.ad = b /\ op.msg = m /\ op.ok = TRUE
  BY <1>1
<1> HIDE DEF op
<1>9. Operates(op, call.cmd)
  BY <1>3, <1>4, <1>5, <1>6, <1>7, <1>8 DEF Operates, Calling
<1> QED
  BY <1>9 DEF op

\* What sending a text leaves.
Sends(op, text) ==
    /\ Operates(op, text) /\ op.ad.approvals = ad.approvals
    /\ op = [ad |-> op.ad, msg |-> op.msg, ok |-> op.ok]
    /\ op.ok = TRUE => /\ op.msg.kind \in {"start", "steer"} /\ op.msg.ref = text
                       /\ \E c \in op.ad.calls : c.cmd = text

LEMMA SendUserTextDoes ==
    ASSUME IInv, NEW a, Alike(a), NEW text \in Texts
    PROVE  Sends(SendUserText(a, text), text)
<1> DEFINE op == SendUserText(a, text)
<1> SUFFICES Sends(op, text)
  OBVIOUS
<1>1. op = SendUserText(a, text)
  OBVIOUS
<1> HIDE DEF op
<1>2. a \in AdapterFields /\ a.active \in Nat /\ a.calls \in SUBSET Calls /\ a.approvals = ad.approvals
  BY DEF Alike, AdapterFields
<1>3. CASE a.submission # None \/ ~Room(a)
  <2>1. op = Refused(a)
    BY <1>1, <1>3 DEF SendUserText
  <2>2. Operates(op, text) /\ op.ok = FALSE /\ op.ad = a
    BY <2>1, RefusedDoes
  <2>3. /\ Operates(op, text) /\ op.ad.approvals = ad.approvals
        /\ op = [ad |-> op.ad, msg |-> op.msg, ok |-> op.ok]
        /\ op.ok = TRUE => /\ op.msg.kind \in {"start", "steer"} /\ op.msg.ref = text
                           /\ \E c \in op.ad.calls : c.cmd = text
    BY <1>2, <2>1, <2>2 DEF Refused
  <2> QED
    BY <2>3 DEF Sends
<1>4. CASE a.submission = None /\ Room(a) /\ a.active # 0
  <2> DEFINE call == Call("steer", text)  C == a.calls \cup {call}
             b == [a EXCEPT !.calls = C]  m == Msg("steer", text, a.active)
  <2>1. op = Queued(b, m)
    BY <1>1, <1>4 DEF SendUserText
  <2>2. call \in Calls /\ call.kind \notin Setup /\ call.cmd = text
    BY DEF Calls, Call, Setup
  <2>3. m \in Outgoing /\ m \notin Resumes /\ m.kind = "steer" /\ m.ref = text
    BY <1>2 DEF Msg, Outgoing, Resumes
  <2>4. C \in SUBSET Calls
    BY <1>2, <2>2
  <2> HIDE DEF call, m
  <2>5. call \in C
    OBVIOUS
  <2> HIDE DEF C
  <2>6. /\ b \in AdapterFields /\ b.up = a.up /\ b.attached = a.attached /\ b.subscribed = a.subscribed
        /\ b.setup = a.setup /\ b.waiting = a.waiting /\ b.approvals = a.approvals /\ b.calls = C
        /\ b.submission = a.submission
    BY <1>2, <2>4 DEF AdapterFields
  <2> HIDE DEF b
  <2>7. Calling(a, b, call)
    BY <2>6 DEF C, Calling
  <2>8. Operates(op, call.cmd) /\ op.ok = TRUE /\ op.msg = m /\ op.ad = b
    <3>1. Room(a)
      BY <1>4
    <3>2. m \in Outgoing /\ m \notin Resumes
      BY <2>3
    <3>3. Operates(Queued(b, m), call.cmd)
      BY <3>1, <3>2, <2>7, CalledDoes
    <3>4. Queued(b, m) = [ad |-> b, msg |-> m, ok |-> TRUE]
      BY DEF Queued
    <3> QED
      BY <2>1, <3>3, <3>4
  <2>9. /\ Operates(op, text) /\ op.ad.approvals = ad.approvals
        /\ op = [ad |-> op.ad, msg |-> op.msg, ok |-> op.ok]
        /\ op.ok = TRUE => /\ op.msg.kind \in {"start", "steer"} /\ op.msg.ref = text
                           /\ \E c \in op.ad.calls : c.cmd = text
    BY <1>2, <2>1, <2>2, <2>3, <2>5, <2>6, <2>8 DEF Queued
  <2> QED
    BY <2>9 DEF Sends
<1>5. CASE a.submission = None /\ Room(a) /\ a.active = 0
  <2> DEFINE call == Call("start", text)  C == a.calls \cup {call}
             b == [a EXCEPT !.calls = C, !.submission = text]  m == Msg("start", text, 0)
  <2>1. op = Queued(b, m)
    BY <1>1, <1>5 DEF SendUserText
  <2>2. call \in Calls /\ call.kind \notin Setup /\ call.cmd = text
    BY DEF Calls, Call, Setup
  <2>3. m \in Outgoing /\ m \notin Resumes /\ m.kind = "start" /\ m.ref = text
    BY <1>2 DEF Msg, Outgoing, Resumes
  <2>4. C \in SUBSET Calls
    BY <1>2, <2>2
  <2> HIDE DEF m
  <2>5. call \in C /\ call = Call("start", text)
    OBVIOUS
  <2> HIDE DEF call, C
  <2>6. /\ b \in AdapterFields /\ b.up = a.up /\ b.attached = a.attached /\ b.subscribed = a.subscribed
        /\ b.setup = a.setup /\ b.waiting = a.waiting /\ b.approvals = a.approvals /\ b.calls = C
        /\ b.submission = text
    BY <1>2, <2>4 DEF AdapterFields
  <2> HIDE DEF b
  <2>7. Calling(a, b, call)
    BY <2>5, <2>6 DEF C, Calling
  <2>8. Operates(op, call.cmd) /\ op.ok = TRUE /\ op.msg = m /\ op.ad = b
    <3>1. Room(a)
      BY <1>5
    <3>2. m \in Outgoing /\ m \notin Resumes
      BY <2>3
    <3>3. Operates(Queued(b, m), call.cmd)
      BY <3>1, <3>2, <2>7, CalledDoes
    <3>4. Queued(b, m) = [ad |-> b, msg |-> m, ok |-> TRUE]
      BY DEF Queued
    <3> QED
      BY <2>1, <3>3, <3>4
  <2>9. /\ Operates(op, text) /\ op.ad.approvals = ad.approvals
        /\ op = [ad |-> op.ad, msg |-> op.msg, ok |-> op.ok]
        /\ op.ok = TRUE => /\ op.msg.kind \in {"start", "steer"} /\ op.msg.ref = text
                           /\ \E c \in op.ad.calls : c.cmd = text
    BY <1>2, <2>1, <2>2, <2>3, <2>5, <2>6, <2>8 DEF Queued
  <2> QED
    BY <2>9 DEF Sends
<1> QED
  BY <1>3, <1>4, <1>5

LEMMA SubmitPromptDoes ==
    ASSUME IInv, NEW p \in Prompts, NEW op, op = SubmitPrompt(ad, p)
    PROVE  /\ Operates(op, p) /\ op.ad.approvals = ad.approvals
           /\ op.ok = TRUE => \/ /\ op.msg.kind \in {"start", "steer"} /\ op.msg.ref = p
                                 /\ \E c \in op.ad.calls : c.cmd = p
                              \/ op.msg.kind = "answer" /\ op.msg.val = p
<1> DEFINE a == [ad EXCEPT !.inputs = Live(ad)]
<1>1. ad \in AdapterFields
  BY DEF IInv, AdapterShape
<1>2. /\ a \in AdapterFields
      /\ a.up = ad.up /\ a.attached = ad.attached /\ a.subscribed = ad.subscribed
      /\ a.submission = ad.submission /\ a.setup = ad.setup /\ a.calls = ad.calls
      /\ a.approvals = ad.approvals /\ a.waiting = ad.waiting
  BY <1>1, PurgedDoes
<1>3. op = IF ~RequireAttached(ad) THEN Refused(ad)
           ELSE IF a.inputs = {} THEN SendUserText(a, p)
           ELSE IF Cardinality(a.inputs) # 1 \/ a.inputs \cap Multi # {} \/ Full THEN Refused(a)
           ELSE Queued([a EXCEPT !.inputs = {}], Msg("answer", CHOOSE n \in a.inputs : TRUE, p))
  BY DEF SubmitPrompt
<1> HIDE DEF a
<1>4. Alike(a) /\ Alike(ad)
  BY <1>1, <1>2 DEF Alike
<1>5. CASE op = Refused(ad)
  <2>1. Operates(op, p) /\ op.ok = FALSE
    BY <1>4, <1>5, RefusedDoes
  <2> QED
    BY <2>1 DEF Operates
<1>6. CASE op = Refused(a)
  <2>1. Operates(op, p) /\ op.ok = FALSE
    BY <1>4, <1>6, RefusedDoes
  <2> QED
    BY <2>1 DEF Operates
<1>7. CASE op = SendUserText(a, p)
  <2>1. p \in Texts /\ Alike(a)
    BY <1>4 DEF Texts
  <2>2. Sends(SendUserText(a, p), p)
    BY <2>1, SendUserTextDoes
  <2>3. Sends(op, p)
    BY <1>7, <2>2
  <2> QED
    BY <2>3 DEF Sends
<1>8. CASE /\ RequireAttached(ad) /\ a.inputs # {} /\ ~Full
           /\ op = Queued([a EXCEPT !.inputs = {}], Msg("answer", CHOOSE n \in a.inputs : TRUE, p))
  <2> DEFINE b == [a EXCEPT !.inputs = {}]  n == CHOOSE x \in a.inputs : TRUE
             m == Msg("answer", n, p)
  <2>1. n \in Asks
    BY <1>2, <1>8 DEF AdapterFields, Asks
  <2> HIDE DEF n
  <2>2. m \in Outgoing /\ m \notin Resumes /\ m.kind = "answer" /\ m.val = p
    BY <2>1 DEF Msg, Outgoing, Resumes
  <2> HIDE DEF m
  <2>3. /\ b \in AdapterFields
        /\ b.up = a.up /\ b.attached = a.attached /\ b.subscribed = a.subscribed
        /\ b.submission = a.submission /\ b.setup = a.setup /\ b.calls = a.calls
        /\ b.approvals = a.approvals /\ b.waiting = a.waiting
    BY <1>2 DEF AdapterFields
  <2>4. op = Queued(b, m)
    BY <1>8 DEF n, m
  <2> HIDE DEF b
  <2>5. Alike(b)
    BY <1>2, <2>3 DEF Alike
  <2>6. ad.up /\ ~Full
    BY <1>8 DEF RequireAttached
  <2>7. m \in Outgoing /\ m \notin Resumes
    BY <2>2
  <2>8. Operates(Queued(b, m), p)
    BY <2>5, <2>6, <2>7, QueuedDoes
  <2>9. op = [ad |-> b, msg |-> m, ok |-> TRUE]
    BY <2>4 DEF Queued
  <2> QED
    BY <1>2, <2>2, <2>3, <2>4, <2>8, <2>9
<1> QED
  BY <1>3, <1>5, <1>6, <1>7, <1>8

LEMMA InterruptDoes ==
    ASSUME IInv, NEW op, op = Interrupt(ad)
    PROVE  /\ Operates(op, Stop) /\ op.ad.approvals = ad.approvals
           /\ \A p \in Prompts : op.msg \notin Carriers(p)
<1>1. ad \in AdapterFields /\ ad.active \in Nat /\ ad.calls \in SUBSET Calls
  BY DEF IInv, AdapterShape, AdapterFields
<1>2. Alike(ad)
  BY <1>1 DEF Alike
<1>3. CASE op = Refused(ad)
  <2>1. Operates(op, Stop) /\ op.msg = NoMsg /\ op.ad = ad
    BY <1>2, <1>3, RefusedDoes
  <2> QED
    BY <2>1 DEF NoMsg, Msg, Carriers, Carries
<1>4. CASE Room(ad) /\ op = Queued([ad EXCEPT !.calls = @ \cup {Call("interrupt", Stop)}],
                                   Msg("interrupt", Stop, ad.active))
  <2> DEFINE call == Call("interrupt", Stop)  C == ad.calls \cup {call}
             b == [ad EXCEPT !.calls = C]  m == Msg("interrupt", Stop, ad.active)
  <2>1. op = Queued(b, m)
    BY <1>4
  <2>2. call \in Calls /\ call.cmd = Stop
    BY DEF Calls, Call, Setup
  <2>3. m \in Outgoing /\ m \notin Resumes /\ m.kind = "interrupt"
    BY <1>1 DEF Msg, Outgoing, Resumes
  <2>4. C \in SUBSET Calls
    BY <1>1, <2>2
  <2> HIDE DEF call, m, C
  <2>5. /\ b \in AdapterFields /\ b.up = ad.up /\ b.attached = ad.attached /\ b.subscribed = ad.subscribed
        /\ b.setup = ad.setup /\ b.waiting = ad.waiting /\ b.approvals = ad.approvals /\ b.calls = C
        /\ b.submission = ad.submission
    BY <1>1, <2>4 DEF AdapterFields
  <2> HIDE DEF b
  <2>6. Calling(ad, b, call)
    BY <2>5 DEF C, Calling
  <2>7. Room(ad) /\ m \in Outgoing /\ m \notin Resumes
    BY <1>4, <2>3
  <2>8. Operates(Queued(b, m), call.cmd)
    BY <1>2, <2>6, <2>7, CalledDoes
  <2>9. op = [ad |-> b, msg |-> m, ok |-> TRUE]
    BY <2>1 DEF Queued
  <2>10. \A p \in Prompts : m \notin Carriers(p)
    BY <2>3 DEF Carriers, Carries
  <2> QED
    BY <2>1, <2>2, <2>5, <2>8, <2>9, <2>10
<1> QED
  BY <1>3, <1>4 DEF Interrupt

LEMMA DecideApprovalDoes ==
    ASSUME IInv, NEW ask \in Approvals, NEW op, op = DecideApproval(ad, ask)
    PROVE  /\ Operates(op, Stop) /\ ad.approvals \ {ask} \subseteq op.ad.approvals
           /\ \A p \in Prompts : op.msg \notin Carriers(p)
<1>1. ad \in AdapterFields /\ ad.approvals \in SUBSET Approvals
  BY DEF IInv, AdapterShape, AdapterFields
<1>2. Alike(ad)
  BY <1>1 DEF Alike
<1>3. CASE op = Refused(ad)
  <2>1. Operates(op, Stop) /\ op.msg = NoMsg /\ op.ad = ad
    BY <1>2, <1>3, RefusedDoes
  <2> QED
    BY <2>1 DEF NoMsg, Msg, Carriers, Carries
<1>4. CASE /\ ad.up /\ ~Full
           /\ op = Queued([ad EXCEPT !.approvals = @ \ {ask}], Msg("answer", ask, None))
  <2> DEFINE A == ad.approvals \ {ask}  b == [ad EXCEPT !.approvals = A]  m == Msg("answer", ask, None)
  <2>1. op = [ad |-> b, msg |-> m, ok |-> TRUE]
    BY <1>4 DEF Queued
  <2>2. m \in Outgoing /\ m \notin Resumes /\ m.kind = "answer" /\ m.val = None
    BY DEF Msg, Outgoing, Resumes, Asks
  <2>3. A \in SUBSET Approvals /\ A \subseteq ad.approvals
    BY <1>1
  <2> HIDE DEF m, A
  <2>4. /\ b \in AdapterFields /\ b.up = ad.up /\ b.attached = ad.attached /\ b.subscribed = ad.subscribed
        /\ b.setup = ad.setup /\ b.waiting = ad.waiting /\ b.approvals = A /\ b.calls = ad.calls
        /\ b.submission = ad.submission
    BY <1>1, <2>3 DEF AdapterFields
  <2> HIDE DEF b
  <2>5. /\ IsFiniteSet(b.calls) /\ InFlight(b) <= MaxCalls
        /\ b.submission # None => Call("start", b.submission) \in b.calls
    BY <1>2, <2>4, AlikeFits DEF InFlight
  <2>6. op.ad = b /\ op.msg = m /\ op.ok = TRUE /\ m # NoMsg
    BY <2>1, <2>2, MsgDoes
  <2>7. Operates(op, Stop)
    BY <1>4, <2>2, <2>3, <2>4, <2>5, <2>6 DEF Operates
  <2>8. \A p \in Prompts : m \notin Carriers(p)
    BY <2>2, NamesAssumption DEF Carriers, Carries
  <2> QED
    BY <2>4, <2>6, <2>7, <2>8 DEF A
<1> QED
  BY <1>3, <1>4 DEF DecideApproval

LEMMA AnswerInputDoes ==
    ASSUME IInv, NEW ask \in Asks \cup Questions, NEW op, op = AnswerInput(ad, ask)
    PROVE  /\ \E text \in Questions \cup {Stop} : Operates(op, text)
           /\ op.ad.approvals = ad.approvals
           /\ \A p \in Prompts : op.msg \notin Carriers(p)
<1> DEFINE I == Live(ad)  Q == ad.questions \ expired
           a == [ad EXCEPT !.inputs = I, !.questions = Q]
<1>1. ad \in AdapterFields /\ I \in SUBSET Inputs /\ Q \in SUBSET Questions
  BY DEF IInv, AdapterShape, AdapterFields, Live
<1>2. a = [ad EXCEPT !.inputs = Live(ad), !.questions = @ \ expired]
  BY <1>1 DEF AdapterFields
<1> HIDE DEF I, Q
<1>3. /\ a \in AdapterFields
      /\ a.up = ad.up /\ a.attached = ad.attached /\ a.subscribed = ad.subscribed
      /\ a.submission = ad.submission /\ a.setup = ad.setup /\ a.calls = ad.calls
      /\ a.approvals = ad.approvals /\ a.waiting = ad.waiting /\ a.inputs = I /\ a.questions = Q
  BY <1>1 DEF AdapterFields
<1> HIDE DEF a
<1> DEFINE sent == SendUserText(a, ask)
<1>4. op = IF ~RequireAttached(ad) THEN Refused(ad)
           ELSE IF ask \in a.questions
           THEN IF sent.ok THEN [sent EXCEPT !.ad.questions = @ \ {ask}, !.ad.answered = @ \cup {ask}]
                           ELSE sent
           ELSE IF ask \notin a.inputs \/ Full THEN Refused(a)
           ELSE Queued([a EXCEPT !.inputs = @ \ {ask}], Msg("answer", ask, None))
  BY <1>2 DEF AnswerInput
<1>5. Alike(a) /\ Alike(ad)
  BY <1>1, <1>3 DEF Alike
<1>6. CASE op = Refused(ad)
  <2>1. Operates(op, Stop) /\ op.msg = NoMsg /\ op.ad = ad
    BY <1>5, <1>6, RefusedDoes
  <2> QED
    BY <2>1 DEF NoMsg, Msg, Carriers, Carries
<1>7. CASE op = Refused(a)
  <2>1. Operates(op, Stop) /\ op.msg = NoMsg /\ op.ad = a
    BY <1>5, <1>7, RefusedDoes
  <2> QED
    BY <1>3, <2>1 DEF NoMsg, Msg, Carriers, Carries
<1>8. CASE ask \in a.questions /\ op = IF sent.ok THEN [sent EXCEPT !.ad.questions = @ \ {ask},
                                                                   !.ad.answered = @ \cup {ask}]
                                       ELSE sent
  <2>1. ask \in Questions /\ ask \in Texts /\ ask \notin Prompts
    BY <1>1, <1>3, <1>8, NamesAssumption DEF Texts
  <2>2. Alike(a)
    BY <1>5
  <2>3. Sends(sent, ask)
    BY <2>1, <2>2, SendUserTextDoes
  <2> HIDE DEF sent
  <2> DEFINE s == sent.ad  D == s.questions \ {ask}  G == s.answered \cup {ask}
             b == [s EXCEPT !.questions = D, !.answered = G]
  <2>4. /\ s \in AdapterFields /\ s.questions \in SUBSET Questions /\ s.answered \in SUBSET Questions
        /\ sent = [ad |-> s, msg |-> sent.msg, ok |-> sent.ok]
    BY <2>3 DEF Sends, Operates, AdapterFields
  <2>5. D \in SUBSET Questions /\ G \in SUBSET Questions
    BY <2>1, <2>4
  <2>6. op \in {sent, [ad |-> b, msg |-> sent.msg, ok |-> sent.ok]}
    <3>1. [sent EXCEPT !.ad.questions = @ \ {ask}, !.ad.answered = @ \cup {ask}]
             = [sent EXCEPT !.ad = [[s EXCEPT !.questions = D] EXCEPT !.answered = G]]
      BY <2>4 DEF AdapterFields
    <3>2. [[s EXCEPT !.questions = D] EXCEPT !.answered = G] = b
      BY <2>4 DEF AdapterFields
    <3> HIDE DEF b, s
    <3>3. [sent EXCEPT !.ad = b] = [ad |-> b, msg |-> sent.msg, ok |-> sent.ok]
      BY <2>4
    <3> QED
      BY <1>8, <3>1, <3>2, <3>3
  <2> HIDE DEF D, G, s
  <2>7. /\ b \in AdapterFields
        /\ b.up = s.up /\ b.attached = s.attached /\ b.subscribed = s.subscribed
        /\ b.submission = s.submission /\ b.setup = s.setup /\ b.calls = s.calls
        /\ b.approvals = s.approvals /\ b.waiting = s.waiting
    BY <2>4, <2>5 DEF AdapterFields
  <2> HIDE DEF b
  <2>8. op.ad \in {s, b} /\ op.msg = sent.msg /\ op.ok = sent.ok
    BY <2>4, <2>6
  <2>9. /\ op.ad \in AdapterFields
        /\ op.ad.up = s.up /\ op.ad.attached = s.attached /\ op.ad.subscribed = s.subscribed
        /\ op.ad.submission = s.submission /\ op.ad.setup = s.setup /\ op.ad.calls = s.calls
        /\ op.ad.approvals = s.approvals /\ op.ad.waiting = s.waiting
    BY <2>4, <2>7, <2>8
  <2>10. InFlight(op.ad) = InFlight(s)
    BY <2>9 DEF InFlight
  <2>11. Operates(op, ask)
    BY <2>3, <2>8, <2>9, <2>10 DEF Sends, Operates, s
  <2>12. \A p \in Prompts : op.msg \notin Carriers(p)
    <3>1. CASE sent.ok = TRUE
      BY <2>1, <2>3, <2>8, <3>1 DEF Sends, Carriers, Carries
    <3>2. CASE sent.msg = NoMsg
      BY <2>8, <3>2 DEF NoMsg, Msg, Carriers, Carries
    <3> QED
      BY <2>3, <3>1, <3>2 DEF Sends, Operates
  <2> QED
    BY <2>1, <2>3, <2>9, <2>11, <2>12 DEF Sends, s
<1>9. CASE /\ RequireAttached(ad) /\ ask \in a.inputs /\ ~Full
           /\ op = Queued([a EXCEPT !.inputs = @ \ {ask}], Msg("answer", ask, None))
  <2> DEFINE J == a.inputs \ {ask}  b == [a EXCEPT !.inputs = J]  m == Msg("answer", ask, None)
  <2>1. ask \in Asks /\ J \in SUBSET Inputs
    BY <1>1, <1>3, <1>9 DEF Asks
  <2>2. m \in Outgoing /\ m \notin Resumes /\ m.kind = "answer" /\ m.val = None
    BY <2>1 DEF Msg, Outgoing, Resumes
  <2>3. op = Queued(b, m)
    BY <1>3, <1>9 DEF AdapterFields
  <2> HIDE DEF m, J
  <2>4. /\ b \in AdapterFields
        /\ b.up = a.up /\ b.attached = a.attached /\ b.subscribed = a.subscribed
        /\ b.submission = a.submission /\ b.setup = a.setup /\ b.calls = a.calls
        /\ b.approvals = a.approvals /\ b.waiting = a.waiting
    BY <1>3, <2>1 DEF AdapterFields
  <2> HIDE DEF b
  <2>5. Alike(b)
    BY <1>3, <2>4 DEF Alike
  <2>6. ad.up /\ ~Full
    BY <1>9 DEF RequireAttached
  <2>7. m \in Outgoing /\ m \notin Resumes
    BY <2>2
  <2>8. Operates(Queued(b, m), Stop)
    BY <2>5, <2>6, <2>7, QueuedDoes
  <2>9. op = [ad |-> b, msg |-> m, ok |-> TRUE]
    BY <2>3 DEF Queued
  <2>10. \A p \in Prompts : m \notin Carriers(p)
    BY <2>2, NamesAssumption DEF Carriers, Carries
  <2> QED
    BY <1>3, <2>3, <2>4, <2>8, <2>9, <2>10
<1> QED
  BY <1>4, <1>6, <1>7, <1>8, <1>9

\* What keeps the invariant when an operation takes effect.
LEMMA OperationKeeps ==
    ASSUME IInv, NEW op, NEW text, Operates(op, text), Takes(op),
           UNCHANGED <<in, todo, cx, expired, dr, outcome, told>>, DriverShape',
           \A p \in Prompts : Travel(p)', \A ask \in Approvals : Shown(ask)'
    PROVE  IInv'
<1>1. ad' = op.ad /\ ad' \in AdapterFields /\ MaxOut \in Nat
  BY AdapterAssumption DEF Takes, Operates
<1>2. out \in Seq(Outgoing) /\ Len(out) <= MaxOut
  BY DEF IInv, AdapterShape, Limits
<1>3. \/ out' = out
      \/ op.msg \in Outgoing /\ op.msg \notin Resumes /\ out' = Append(out, op.msg) /\ ad.up /\ ~Full
  BY DEF Takes, Operates
<1>4. /\ out' \in Seq(Outgoing) /\ Len(out') <= MaxOut /\ (~ad.up => out' = out)
      /\ Lacks(out, Resumes) => Lacks(out', Resumes)
      /\ Single(out, Resumes) => Single(out', Resumes)
  <2>1. CASE out' = out
    BY <1>2, <2>1
  <2>2. CASE op.msg \in Outgoing /\ op.msg \notin Resumes /\ out' = Append(out, op.msg) /\ ad.up /\ ~Full
    <3>1. Len(out) < MaxOut /\ Len(out) \in Nat /\ Len(out') = Len(out) + 1
      BY <1>1, <1>2, <2>2 DEF Full
    <3>2. Len(out') <= MaxOut
      BY <1>1, <3>1
    <3> QED
      BY <1>2, <2>2, <3>2, HeldAppend
  <2> QED
    BY <1>3, <2>1, <2>2
<1>5. AdapterShape'
  BY <1>1, <1>4 DEF IInv, AdapterShape
<1>6. Limits'
  <2>1. IsFiniteSet(ad.approvals) /\ Cardinality(ad.approvals) <= MaxApprovals /\ MaxApprovals \in Nat
    BY AdapterAssumption DEF IInv, Limits
  <2>2. IsFiniteSet(ad'.approvals) /\ Cardinality(ad'.approvals) <= MaxApprovals
    <3>1. ad'.approvals \subseteq ad.approvals
      BY <1>1 DEF Operates
    <3>2. /\ IsFiniteSet(ad'.approvals) /\ Cardinality(ad'.approvals) <= Cardinality(ad.approvals)
          /\ Cardinality(ad.approvals) \in Nat /\ Cardinality(ad'.approvals) \in Nat
      BY <2>1, <3>1, FS_Subset, FS_CardinalityType
    <3> QED
      BY <2>1, <3>2
  <2>3. IsFiniteSet(ad'.calls) /\ InFlight(ad') <= MaxCalls
    BY <1>1 DEF Operates
  <2>4. ~ad'.up => /\ ad'.calls = {} /\ ad'.setup = None /\ ~ad'.attached /\ out' = <<>> /\ in' = <<>>
    BY <1>1, <1>4 DEF IInv, Limits, Operates
  <2> QED
    BY <1>4, <2>2, <2>3, <2>4 DEF Limits, InFlight
<1>7. Attachment'
  <2>1. ad'.attached = ad.attached /\ ad'.subscribed = ad.subscribed /\ ad'.setup = ad.setup
    BY <1>1 DEF Operates
  <2>2. Single(out', Resumes)
    BY <1>4 DEF IInv, Attachment
  <2> QED
    BY <1>4, <2>1, <2>2, AttachmentStays
<1>8. Attention' /\ SubmissionInFlight'
  <2>1. ad'.waiting = ad.waiting
    BY <1>1 DEF Operates
  <2>2. Attention'
    BY <2>1 DEF IInv, Attention
  <2>3. SubmissionInFlight'
    BY <1>1 DEF Operates, SubmissionInFlight
  <2> QED
    BY <2>2, <2>3
<1> QED
  BY <1>5, <1>6, <1>7, <1>8 DEF IInv

\* What an operation queues, beside what is of no concern to it.
LEMMA TakesElsewhere ==
    ASSUME IInv, NEW op, NEW text, Operates(op, text), Takes(op), NEW K, op.msg \notin K
    PROVE  /\ Lacks(out, K) => Lacks(out', K)
           /\ Single(out, K) => Single(out', K)
<1>1. out \in Seq(Outgoing)
  BY DEF IInv, AdapterShape
<1>2. CASE out' = out
  BY <1>2
<1>3. CASE op.msg \in Outgoing /\ out' = Append(out, op.msg)
  BY <1>1, <1>3, HeldAppend
<1> QED
  BY <1>2, <1>3 DEF Takes, Operates

\* A prompt the operation is not about is where it was.
LEMMA TravelElsewhere ==
    ASSUME IInv, NEW op, NEW text, Operates(op, text), Takes(op),
           NEW p \in Prompts, text # p, op.msg \notin Carriers(p),
           UNCHANGED <<in, todo, cx, outcome, told>>, answers \subseteq answers',
           Handed(p)' <=> Handed(p), link'.op = "submit" /\ link'.cmd = p => outcome[p] = None
    PROVE  Travel(p)'
<1>1. Travel(p)
  BY DEF IInv
<1>2. /\ Lacks(out, Carriers(p)) => Lacks(out', Carriers(p))
      /\ Single(out, Carriers(p)) => Single(out', Carriers(p))
  BY TakesElsewhere
<1>3. Commanded(p)' <=> Commanded(p)
  BY DEF Takes, Operates, Commanded
<1>4. Failing(p)' <=> Failing(p)
  BY DEF Failing
<1> QED
  BY <1>1, <1>2, <1>3, <1>4, TravelKept DEF Travel

LEMMA HandKeeps == IInv /\ Hand => IInv'
<1> SUFFICES ASSUME IInv, Hand PROVE IInv'
  OBVIOUS
<1>0. link.op = "submit" /\ DriverShape
  BY DEF Hand, IInv
<1>2. PICK p \in Prompts : p = link.cmd
  BY <1>0 DEF DriverShape
<1> DEFINE op == SubmitPrompt(ad, p)  pc == IF op.ok THEN "publish" ELSE "refused"
<1>1. /\ link.op = "submit" /\ link.pc = "adapter" /\ Takes(op)
      /\ link' = [link EXCEPT !.pc = pc]
      /\ answers' = IF op.msg.kind = "answer" THEN answers \cup {p} ELSE answers
      /\ UNCHANGED <<in, todo, cx, expired, dr, outcome, told>>
  BY <1>2 DEF Hand
<1>3. link = [op |-> link.op, cmd |-> link.cmd, pc |-> link.pc, inputs |-> link.inputs,
              before |-> link.before, answered |-> link.answered]
  BY <1>0 DEF DriverShape
<1>4. /\ Operates(op, p) /\ op.ad.approvals = ad.approvals
      /\ op.ok = TRUE => \/ /\ op.msg.kind \in {"start", "steer"} /\ op.msg.ref = p
                            /\ \E c \in op.ad.calls : c.cmd = p
                         \/ op.msg.kind = "answer" /\ op.msg.val = p
  BY <1>2, SubmitPromptDoes
<1> HIDE DEF op
<1>5. op.ok \in BOOLEAN /\ pc \in {"publish", "refused"} /\ (pc = "publish" <=> op.ok = TRUE)
  BY <1>4 DEF Operates
<1> HIDE DEF pc
<1>6. link' = [op |-> "submit", cmd |-> p, pc |-> pc, inputs |-> link.inputs,
               before |-> link.before, answered |-> link.answered]
  BY <1>1, <1>2, <1>3
<1>7. DriverShape'
  BY <1>0, <1>1, <1>2, <1>5, <1>6 DEF DriverShape
<1>8. /\ Travel(p) /\ outcome[p] = None /\ ~Handed(p)
      /\ cx.got[p] = 0 /\ ~Commanded(p) /\ Lacks(out, Carriers(p)) /\ Lacks(in, TooLate(p))
      /\ Lacks(in, Arrivals(p))
  <2>1. Travel(p) /\ outcome[p] = None
    BY <1>1, <1>2 DEF IInv, Travel
  <2>2. ~Handed(p)
    BY <1>1, <1>2, <2>1, NamesAssumption DEF Handed
  <2> QED
    BY <2>1, <2>2 DEF Travel
<1>9. ASSUME NEW q \in Prompts, q # p PROVE Travel(q)'
  <2>1. op.msg \notin Carriers(q)
    <3>1. CASE op.ok = TRUE
      BY <1>4, <1>9, <3>1 DEF Carriers, Carries
    <3>2. CASE op.msg = NoMsg
      BY <3>2 DEF NoMsg, Msg, Carriers, Carries
    <3> QED
      BY <1>4, <3>1, <3>2 DEF Operates
  <2>2. Handed(q)' <=> Handed(q)
    BY <1>1, <1>2, <1>6, <1>9 DEF Handed
  <2>3. answers \subseteq answers' /\ ~(link'.op = "submit" /\ link'.cmd = q)
    BY <1>1, <1>6, <1>9
  <2> QED
    BY <1>1, <1>4, <1>9, <2>1, <2>2, <2>3, TravelElsewhere
<1>10. Travel(p)'
  <2>1. link'.op = "submit" /\ link'.cmd = p /\ link'.pc = pc /\ outcome'[p] = None /\ None # "accepted"
    BY <1>1, <1>6, <1>8, NamesAssumption
  <2>2. CASE op.ok = FALSE
    <3>1. out' = out /\ ad'.calls = ad.calls /\ op.msg.kind = "none"
      BY <1>1, <1>4, <2>2 DEF Takes, Operates, NoMsg, Msg
    <3>2. answers' = answers /\ ~Handed(p)'
      BY <1>1, <1>5, <2>1, <2>2, <3>1 DEF Handed
    <3>3. Commanded(p)' <=> Commanded(p)
      BY <3>1 DEF Commanded
    <3> QED
      BY <1>1, <1>8, <2>1, <3>1, <3>2, <3>3 DEF Travel
  <2>3. CASE op.ok = TRUE
    <3>1. op.msg \in Outgoing /\ out' = Append(out, op.msg) /\ out \in Seq(Outgoing)
      BY <1>1, <1>4, <2>3 DEF Takes, Operates, IInv, AdapterShape
    <3>2. Single(out', Carriers(p))
      BY <1>8, <3>1, HeldAppend
    <3>3. Handed(p)'
      BY <1>5, <2>1, <2>3 DEF Handed
    <3>4. p \in answers' \/ Commanded(p)'
      BY <1>1, <1>4, <2>3 DEF Takes, Commanded
    <3>5. Single(in, TooLate(p))
      BY <1>8 DEF Travel
    <3> QED
      BY <1>1, <1>8, <2>1, <3>2, <3>3, <3>4, <3>5 DEF Travel
  <2> QED
    BY <1>5, <2>2, <2>3
<1>11. \A ask \in Approvals : Shown(ask)'
  <2> TAKE ask \in Approvals
  <2>1. Shown(ask) /\ (Coming(ask)' <=> Coming(ask)) /\ ~On(ask) /\ ~On(ask)'
    BY <1>1, <1>6 DEF IInv, Coming, On
  <2>2. ad'.approvals = ad.approvals
    BY <1>1, <1>4 DEF Takes
  <2> QED
    BY <1>1, <2>1, <2>2 DEF Shown
<1>12. \A q \in Prompts : Travel(q)'
  BY <1>9, <1>10
<1> QED
  BY <1>1, <1>4, <1>7, <1>11, <1>12, OperationKeeps

LEMMA PerformInterruptKeeps == IInv /\ PerformInterrupt => IInv'
<1> SUFFICES ASSUME IInv, PerformInterrupt PROVE IInv'
  OBVIOUS
<1> DEFINE op == Interrupt(ad)
<1>1. Takes(op) /\ UNCHANGED <<in, todo, cx, expired, dr, link, outcome, told, answers>>
  BY DEF PerformInterrupt, driverVars
<1>2. /\ Operates(op, Stop) /\ op.ad.approvals = ad.approvals
      /\ \A p \in Prompts : op.msg \notin Carriers(p)
  BY InterruptDoes
<1> HIDE DEF op
<1>3. DriverShape'
  BY <1>1 DEF IInv, DriverShape
<1>4. ASSUME NEW p \in Prompts PROVE Travel(p)'
  <2>1. Stop # p /\ op.msg \notin Carriers(p)
    BY <1>2, NamesAssumption
  <2>2. Handed(p)' <=> Handed(p)
    BY <1>1 DEF Handed
  <2>3. link'.op = "submit" /\ link'.cmd = p => outcome[p] = None
    BY <1>1 DEF IInv, Travel
  <2> QED
    BY <1>1, <1>2, <2>1, <2>2, <2>3, TravelElsewhere
<1>5. \A ask \in Approvals : Shown(ask)'
  <2> TAKE ask \in Approvals
  <2>1. Shown(ask) /\ (Coming(ask)' <=> Coming(ask)) /\ (On(ask)' <=> On(ask))
    BY <1>1 DEF IInv, Coming, On
  <2>2. ad'.approvals = ad.approvals
    BY <1>1, <1>2 DEF Takes
  <2> QED
    BY <1>1, <2>1, <2>2 DEF Shown
<1> QED
  BY <1>1, <1>2, <1>3, <1>4, <1>5, OperationKeeps

LEMMA DecideKeeps == IInv /\ Decide => IInv'
<1> SUFFICES ASSUME IInv, Decide PROVE IInv'
  OBVIOUS
<1>0. link.op = "respond" /\ DriverShape
  BY DEF Decide, IInv
<1>2. PICK x \in Asks \cup Questions : x = link.cmd
  BY <1>0 DEF DriverShape
<1> DEFINE op == IF x \in Approvals THEN DecideApproval(ad, x) ELSE AnswerInput(ad, x)
<1>1. /\ link.op = "respond" /\ link.pc = "adapter" /\ Takes(op)
      /\ link' = IF op.ok THEN [link EXCEPT !.pc = "pop"] ELSE Free
      /\ UNCHANGED <<in, todo, cx, expired, dr, outcome, told, answers>>
  BY <1>2 DEF Decide
<1>3. link = [op |-> link.op, cmd |-> link.cmd, pc |-> link.pc, inputs |-> link.inputs,
              before |-> link.before, answered |-> link.answered]
  BY <1>0 DEF DriverShape
<1>4. /\ \E text \in Questions \cup {Stop} : Operates(op, text)
      /\ ad.approvals \ {x} \subseteq op.ad.approvals
      /\ \A p \in Prompts : op.msg \notin Carriers(p)
  <2>1. CASE x \in Approvals
    <3>1. op = DecideApproval(ad, x)
      BY <2>1
    <3> HIDE DEF op
    <3> QED
      BY <2>1, <3>1, DecideApprovalDoes
  <2>2. CASE x \notin Approvals
    <3>1. op = AnswerInput(ad, x)
      BY <2>2
    <3> HIDE DEF op
    <3> QED
      BY <1>2, <3>1, AnswerInputDoes
  <2> QED
    BY <2>1, <2>2
<1> HIDE DEF op
<1>5. PICK text \in Questions \cup {Stop} : Operates(op, text)
  BY <1>4
<1>6. \/ op.ok = TRUE /\ link' = [op |-> "respond", cmd |-> x, pc |-> "pop", inputs |-> link.inputs,
                                  before |-> link.before, answered |-> link.answered]
      \/ /\ op.ok = FALSE /\ ad'.approvals = ad.approvals
         /\ link' = [op |-> "none", cmd |-> None, pc |-> "free", inputs |-> {}, before |-> 0, answered |-> FALSE]
  <2>1. op.ok = TRUE \/ (op.ok = FALSE /\ op.ad.approvals = ad.approvals)
    BY <1>5 DEF Operates
  <2> QED
    BY <1>1, <1>2, <1>3, <2>1 DEF Free, Takes
<1>7. DriverShape'
  <2>1. /\ outcome' \in [Prompts -> {None, "accepted", "undelivered"}]
        /\ dr' \in DriverFields /\ told' \subseteq Prompts /\ answers' \subseteq Prompts
    BY <1>0, <1>1 DEF DriverShape
  <2>2. CASE link' = [op |-> "respond", cmd |-> x, pc |-> "pop", inputs |-> link.inputs,
                      before |-> link.before, answered |-> link.answered]
    <3>1. /\ link.inputs \in SUBSET Inputs /\ link.answered \in BOOLEAN
          /\ link.before \in {Cardinality(S) : S \in SUBSET Inputs} \cup {0}
      BY <1>0 DEF DriverShape
    <3> DEFINE N == {Cardinality(S) : S \in SUBSET Inputs} \cup {0}
    <3>2. N = {Cardinality(S) : S \in SUBSET Inputs} \cup {0}
      OBVIOUS
    <3> HIDE DEF N
    <3>3. link' \in [op : {"none", "submit", "respond"}, cmd : Prompts \cup Asks \cup Questions \cup {None},
                     pc : {"free", "before", "adapter", "publish", "after", "accepted", "refused", "pop"},
                     inputs : SUBSET Inputs, before : N, answered : BOOLEAN]
      BY <1>2, <2>2, <3>1, <3>2
    <3> QED
      BY <1>2, <2>1, <2>2, <3>2, <3>3 DEF DriverShape
  <2>3. CASE link' = Free
    BY <2>1, <2>3 DEF DriverShape, Free
  <2> QED
    BY <1>6, <2>2, <2>3 DEF Free
<1>8. ASSUME NEW p \in Prompts PROVE Travel(p)'
  <2>1. text # p /\ op.msg \notin Carriers(p)
    BY <1>4, NamesAssumption
  <2>2. Handed(p)' <=> Handed(p)
    BY <1>1, <1>6 DEF Handed
  <2>3. ~(link'.op = "submit" /\ link'.cmd = p)
    BY <1>6
  <2> QED
    BY <1>1, <1>5, <2>1, <2>2, <2>3, TravelElsewhere
<1>9. \A ask \in Approvals : Shown(ask)'
  <2> TAKE ask \in Approvals
  <2>1. Shown(ask) /\ (Coming(ask)' <=> Coming(ask)) /\ (On(ask) <=> ask = x) /\ (On(ask)' => On(ask))
    BY <1>1, <1>2, <1>6 DEF IInv, Coming, On
  <2>2. CASE ask = x
    <3>1. ~Coming(ask) /\ Lacks(todo, Opening(ask))
      BY <2>1, <2>2 DEF Shown
    <3>2. ask \in dr.open => \/ ask \in ad'.approvals \cup expired
                             \/ link'.pc = "pop" /\ On(ask)'
                             \/ ~Lacks(todo, Closing(ask))
      BY <1>1, <1>2, <1>6, <2>1, <2>2 DEF Shown, On
    <3> QED
      BY <1>1, <2>1, <3>1, <3>2 DEF Shown
  <2>3. CASE ask # x
    <3>1. ~On(ask) /\ ~On(ask)' /\ (ask \in ad.approvals => ask \in ad'.approvals)
      BY <1>1, <1>4, <2>1, <2>3 DEF Takes
    <3> QED
      BY <1>1, <2>1, <3>1 DEF Shown
  <2> QED
    BY <2>2, <2>3
<1> QED
  BY <1>1, <1>5, <1>7, <1>8, <1>9, OperationKeeps

-----------------------------------------------------------------------------
(* The theorems.                                                            *)

LEMMA StepKeeps == IInv /\ [Next]_vars => IInv'
<1> SUFFICES ASSUME IInv, [Next]_vars PROVE IInv'
  OBVIOUS
<1>1. CASE UNCHANGED vars
  <2>1. UNCHANGED <<ad, out, in, todo, cx, expired, dr, link, outcome, told, answers>>
    BY <1>1 DEF vars, adapterVars, driverVars
  <2>2. DriverShape' /\ ad \in AdapterFields
    BY <2>1 DEF IInv, DriverShape, AdapterShape
  <2>3. \A p \in Prompts : link'.op = "submit" /\ link'.cmd = p => outcome'[p] = None
    BY <2>1 DEF IInv, Travel
  <2> QED
    BY <2>1, <2>2, SameElsewhere
<1>2. CASE Codex /\ UNCHANGED driverVars
  BY <1>2, CodexKeeps
<1>3. CASE Adapter /\ UNCHANGED driverVars
  BY <1>3, AdapterKeeps
<1>4. CASE Publish
  BY <1>4, PublishKeeps
<1>5. CASE Watch
  BY <1>5, WatchKeeps
<1>6. CASE Link
  <2>1. LinkAlone \/ Hand \/ PerformInterrupt \/ Decide
    BY <1>6 DEF Link, LinkAlone
  <2> QED
    BY <2>1, LinkAloneKeeps, HandKeeps, PerformInterruptKeeps, DecideKeeps
<1> QED
  BY <1>1, <1>2, <1>3, <1>4, <1>5, <1>6 DEF Next

\* The inductive invariant: the limits, what travels to and from Codex, and what
\* the driver shows of it.
THEOREM CodexInductive == Spec => []IInv
  BY Starts, StepKeeps, PTL DEF Spec

\* The adapter (app_server.py) holds no more requests, messages and approvals
\* than its limits, whatever Codex sends and the surfaces ask for; a turn
\* submission lasts no longer than its request; and once the events are
\* published the driver shows no approval and no attention the adapter has
\* given up, but for one that has expired or is just being decided.
THEOREM AdapterAndDriverAgree == Spec => []Consistent
<1>1. IInv => Consistent
  BY Holds
<1> QED
  BY <1>1, CodexInductive, PTL

\* A prompt is given to Codex at most once, although a steer that came too late
\* for its turn is sent again as the start of a new one (ADR 0041), requests time
\* out, and the connection is lost and made again.
THEOREM PromptReachesCodexOnce == Spec => []PromptOnce
<1>1. IInv => PromptOnce
  BY Holds
<1> QED
  BY <1>1, CodexInductive, PTL

\* What the host link is told of a prompt is true: one that was undelivered is
\* neither with Codex nor on its way, and one that was accepted has reached
\* Codex, is on its way, or is reported failed.
THEOREM ToldOutcomesAreTrue == Spec => []OutcomeTrue
<1>1. IInv => OutcomeTrue
  BY Holds
<1> QED
  BY <1>1, CodexInductive, PTL

=============================================================================
