--------------------------- MODULE DriversProofs ---------------------------
(***************************************************************************)
(* What TLAPS proves of the two line drivers, for any prompts, requests,   *)
(* offers and limits: the facts say what the driver holds, an outcome says *)
(* what happened at the vendor, no request is left for the vendor to wait  *)
(* on, none is answered twice by one thread, none is shown other than it   *)
(* was answered, and a turn that is shown is owed an end.                  *)
(***************************************************************************)
EXTENDS Drivers, FiniteSetTheorems, TLAPS

\* What every section under the lock leaves of the driver's fields.
Sound(s) ==
    /\ s \in Session
    /\ s.told.turn = s.turn
    /\ s.told.ready = s.ready
    /\ s.told.answerable = s.answerable
    /\ s.told.open = s.pending
    /\ IsFiniteSet(s.pending)
    /\ Cardinality(s.pending) <= MaxPending

-----------------------------------------------------------------------------
(* The operators both drivers are built from keep it.                      *)

\* The pending requests that remain are no more than there were.
LEMMA Fewer ==
    ASSUME NEW S, NEW R, IsFiniteSet(S), Cardinality(S) <= MaxPending
    PROVE  IsFiniteSet(S \ R) /\ Cardinality(S \ R) <= MaxPending
<1>1. S \ R \subseteq S
  OBVIOUS
<1>2. IsFiniteSet(S \ R) /\ Cardinality(S \ R) <= Cardinality(S)
  BY <1>1, FS_Subset
<1>3. Cardinality(S) \in Nat /\ Cardinality(S \ R) \in Nat
  BY <1>2, FS_CardinalityType
<1> QED
  BY <1>2, <1>3, VendorAssumption, SMT

\* Under the limit there is room for one more.
LEMMA OneMore ==
    ASSUME NEW S, NEW r, IsFiniteSet(S), ~(Cardinality(S) >= MaxPending)
    PROVE  IsFiniteSet(S \cup {r}) /\ Cardinality(S \cup {r}) <= MaxPending
<1>1. /\ IsFiniteSet(S \cup {r})
      /\ Cardinality(S \cup {r}) = IF r \in S THEN Cardinality(S) ELSE Cardinality(S) + 1
  BY FS_AddElement
<1>2. Cardinality(S) \in Nat
  BY FS_CardinalityType
<1> QED
  BY <1>1, <1>2, VendorAssumption, SMT

LEMMA SettleSound ==
    ASSUME NEW s, NEW rs, Sound(s)
    PROVE  Sound(Settle(s, rs))
<1>1. Settle(s, rs) \in Session
  BY DEF Sound, Settle, Session, Told
<1>2. /\ Settle(s, rs).pending = s.pending \ rs
      /\ Settle(s, rs).told.open = s.told.open \ rs
      /\ Settle(s, rs).turn = s.turn /\ Settle(s, rs).told.turn = s.told.turn
      /\ Settle(s, rs).ready = s.ready /\ Settle(s, rs).told.ready = s.told.ready
      /\ Settle(s, rs).answerable = s.answerable
      /\ Settle(s, rs).told.answerable = s.told.answerable
  BY DEF Sound, Settle, Session, Told
<1>3. IsFiniteSet(s.pending \ rs) /\ Cardinality(s.pending \ rs) <= MaxPending
  BY Fewer DEF Sound
<1> QED
  BY <1>1, <1>2, <1>3 DEF Sound

LEMMA OpenSound ==
    ASSUME NEW s, NEW r \in Requests, NEW options \in SUBSET {"allow", "reject"}, Sound(s),
           ~(Cardinality(s.pending) >= MaxPending)
    PROVE  Sound(Open(s, r, options))
<1>1. Open(s, r, options) \in Session
  BY DEF Sound, Open, Session, Told
<1>2. /\ Open(s, r, options).pending = s.pending \cup {r}
      /\ Open(s, r, options).told.open = s.told.open \cup {r}
      /\ Open(s, r, options).turn = s.turn /\ Open(s, r, options).told.turn = s.told.turn
      /\ Open(s, r, options).ready = s.ready /\ Open(s, r, options).told.ready = s.told.ready
      /\ Open(s, r, options).answerable = s.answerable
      /\ Open(s, r, options).told.answerable = s.told.answerable
  BY DEF Sound, Open, Session, Told
<1>3. IsFiniteSet(s.pending \cup {r}) /\ Cardinality(s.pending \cup {r}) <= MaxPending
  BY OneMore DEF Sound
<1> QED
  BY <1>1, <1>2, <1>3 DEF Sound

LEMMA StartedSound ==
    ASSUME NEW s, NEW p \in Prompts, Sound(s)
    PROVE  Sound(Started(s, p))
  BY DEF Sound, Started, Session, Told

LEMMA ReadySound ==
    ASSUME NEW s, Sound(s)
    PROVE  Sound(Ready(s))
  BY DEF Sound, Ready, Session, Told

LEMMA DeclinedSound ==
    ASSUME NEW s, NEW rs \in SUBSET Requests, Sound(s)
    PROVE  Sound([s EXCEPT !.declined = @ \cup rs])
  BY DEF Sound, Session, Told

LEMMA InterruptingSound ==
    ASSUME NEW s, NEW b \in BOOLEAN, Sound(s)
    PROVE  Sound([s EXCEPT !.interrupting = b])
  BY DEF Sound, Session, Told

LEMMA EndedSound ==
    ASSUME NEW s, Sound(s)
    PROVE  Sound([s EXCEPT !.told.ended = TRUE])
  BY DEF Sound, Session, Told

LEMMA ToolEndsSound ==
    ASSUME NEW s, NEW m, m.request \in Requests, Sound(s)
    PROVE  Sound(ToolEnds(s, m))
<1>1. ToolStatus(s, m) \in {"none", "completed", "declined", "failed"}
  BY DEF ToolStatus
<1> QED
  BY <1>1 DEF Sound, ToolEnds, Session, Told

LEMMA ClaudeFinishTurnSound ==
    ASSUME NEW s, Sound(s)
    PROVE  Sound(ClaudeFinishTurn(s))
<1>1. Sound(Settle(s, s.pending))
  BY SettleSound
<1> QED
  BY <1>1 DEF Sound, ClaudeFinishTurn, Session, Told

LEMMA AcpFinishTurnSound ==
    ASSUME NEW s, Sound(s)
    PROVE  Sound(AcpFinishTurn(s))
<1>1. Sound(Settle(s, s.pending))
  BY SettleSound
<1> QED
  BY <1>1 DEF Sound, AcpFinishTurn, Session, Told

LEMMA AcpExtensionSound ==
    ASSUME NEW s, NEW m, m.on \in BOOLEAN, Sound(s)
    PROVE  Sound(AcpExtension(s, m))
  BY DEF Sound, AcpExtension, Session, Told

LEMMA ExpireSound ==
    ASSUME NEW s, Sound(s)
    PROVE  Sound(ClaudeExpire(s)) /\ Sound(AcpExpire(s))
<1>1. Sound(Settle(s, Expired(s)))
  BY SettleSound
<1>2. Expired(s) \in SUBSET Requests
  BY DEF Expired, Sound, Session
<1>3. Sound([Settle(s, Expired(s)) EXCEPT !.declined = @ \cup Expired(s)])
  BY <1>1, <1>2, DeclinedSound
<1> QED
  BY <1>3 DEF ClaudeExpire, AcpExpire

\* What a message carries, by its kind.
LEMMA MessageFields ==
    ASSUME NEW m \in Message
    PROVE  /\ m.kind \in {"ready", "refused", "yolo", "ask", "tool", "result"}
           /\ m.kind = "yolo" => m.on \in BOOLEAN
           /\ m.kind = "ask" => m.request \in Requests /\ m.options \in SUBSET {"allow", "reject"}
           /\ m.kind = "tool" => m.request \in Requests
  BY DEF Message

LEMMA FeedSound ==
    ASSUME NEW s, NEW m \in Message, Sound(s)
    PROVE  Sound(ClaudeFeed(s, m)) /\ Sound(AcpFeed(s, m))
<1>1. m.kind = "ready" => Sound(Ready(s))
  BY ReadySound
<1>2. m.kind = "yolo" => Sound(AcpExtension(s, m))
  BY AcpExtensionSound, MessageFields
<1>3. m.kind = "tool" => Sound(ToolEnds(s, m))
  BY ToolEndsSound, MessageFields
<1>4. m.kind = "ask" => Sound([s EXCEPT !.declined = @ \cup {m.request}])
  BY DeclinedSound, MessageFields
<1>5. m.kind = "ask" => Sound(ClaudeControlRequest(s, m))
  BY <1>4, OpenSound, MessageFields DEF ClaudeControlRequest, ClaudeRefuses
<1>6. m.kind = "ask" => Sound(AcpPermission(s, m))
  BY <1>4, OpenSound, MessageFields DEF AcpPermission, AcpRefuses
<1>7. Sound(ClaudeFinishTurn(s)) /\ Sound(AcpFinishTurn(s))
  BY ClaudeFinishTurnSound, AcpFinishTurnSound
<1>8. Sound(ClaudeFeed(s, m))
  BY <1>1, <1>3, <1>5, <1>7, MessageFields DEF ClaudeFeed
<1>9. Sound(AcpFeed(s, m))
  BY <1>1, <1>2, <1>3, <1>6, <1>7, MessageFields DEF AcpFeed
<1> QED
  BY <1>8, <1>9

-----------------------------------------------------------------------------
(* What is written to the vendor.                                          *)

Answered == answers \in [Requests -> Seq(Answer)]

Verdicts == {"allow", "deny", "cancelled", "error"}

\* b is the answers after the driver, not the user, has answered some requests.
ByDriver(b) ==
    /\ b \in [Requests -> Seq(Answer)]
    /\ \A r \in Requests :
         b[r] = answers[r] \/ \E says \in Verdicts :
                                b[r] = Append(answers[r], [by |-> "driver", says |-> says])

LEMMA WrittenByDriver ==
    ASSUME Answered, NEW rs, NEW says \in Verdicts
    PROVE  ByDriver(Written(rs, "driver", says))
<1>1. [by |-> "driver", says |-> says] \in Answer
  BY DEF Answer, Verdicts
<1>2. \A r \in Requests : Append(answers[r], [by |-> "driver", says |-> says]) \in Seq(Answer)
  BY <1>1 DEF Answered
<1>3. Written(rs, "driver", says) \in [Requests -> Seq(Answer)]
  BY <1>2 DEF Written, Answered
<1>4. ASSUME NEW r \in Requests
      PROVE  \/ Written(rs, "driver", says)[r] = answers[r]
             \/ Written(rs, "driver", says)[r]
                  = Append(answers[r], [by |-> "driver", says |-> says])
  BY DEF Written, Answered
<1> QED
  BY <1>3, <1>4 DEF ByDriver

LEMMA NothingWritten ==
    ASSUME Answered
    PROVE  ByDriver(answers)
  BY DEF Answered, ByDriver

LEMMA AcpExpiriesByDriver ==
    ASSUME Answered, NEW s
    PROVE  ByDriver(AcpExpiries(s))
<1> DEFINE b(r) == Written({r}, "driver", AcpRefusal(r, s.options[r]))
<1>1. ASSUME NEW r \in Requests
      PROVE  ByDriver(b(r))
  <2>1. AcpRefusal(r, s.options[r]) \in Verdicts
    BY DEF AcpRefusal, Verdicts
  <2> QED
    BY <2>1, WrittenByDriver
<1>2. \A r \in Requests : AcpExpiries(s)[r] = IF r \in Expired(s) THEN b(r)[r] ELSE answers[r]
  BY DEF AcpExpiries
<1>3. AcpExpiries(s) = [r \in Requests |-> AcpExpiries(s)[r]]
  BY DEF AcpExpiries
<1> HIDE DEF b
<1>4. \A r \in Requests : AcpExpiries(s)[r] \in Seq(Answer)
  BY <1>1, <1>2 DEF ByDriver, Answered
<1>5. AcpExpiries(s) \in [Requests -> Seq(Answer)]
  BY <1>3, <1>4
<1> QED
  BY <1>1, <1>2, <1>5 DEF ByDriver

LEMMA ClaudeAnswersByDriver ==
    ASSUME Answered, NEW m \in Message, NEW fed
    PROVE  ByDriver(ClaudeAnswers(m, fed))
<1> DEFINE refused == IF m.kind = "ask" /\ ClaudeRefuses(session, m) THEN {m.request} ELSE {}
           says    == IF m.kind = "ask" /\ m.about = "other" THEN "error" ELSE "deny"
           first   == Written(refused, "driver", says)
           then    == Written(Expired(fed), "driver", "deny")
<1>1. ByDriver(first)
  <2>1. says \in Verdicts
    BY DEF Verdicts
  <2> HIDE DEF refused, says
  <2> QED
    BY <2>1, WrittenByDriver
<1>2. ByDriver(then)
  BY WrittenByDriver DEF Verdicts
<1>3. ClaudeAnswers(m, fed) = [r \in Requests |-> IF r \in Expired(fed) THEN then[r] ELSE first[r]]
  BY DEF ClaudeAnswers
<1> HIDE DEF first, then
<1> QED
  BY <1>1, <1>2, <1>3 DEF ByDriver

LEMMA AcpAnswersByDriver ==
    ASSUME Answered, NEW m \in Message, NEW fed
    PROVE  ByDriver(AcpAnswers(m, fed))
<1> DEFINE expiries == AcpExpiries(fed)
           refusal  == IF m.about = "other" THEN "error" ELSE AcpRefusal(m.request, m.options)
           refused  == Written({m.request}, "driver", refusal)
           ended    == Written(session.pending, "driver", "cancelled")
<1>1. ByDriver(expiries)
  BY AcpExpiriesByDriver
<1>2. ByDriver(refused)
  <2>1. refusal \in Verdicts
    BY DEF Verdicts, AcpRefusal
  <2> HIDE DEF refusal
  <2> QED
    BY <2>1, WrittenByDriver
<1>3. ByDriver(ended)
  BY WrittenByDriver DEF Verdicts
<1>4. m.kind = "ask" => m.request \in Requests
  BY MessageFields
<1>5. AcpAnswers(m, fed) = IF m.kind = "ask" /\ AcpRefuses(session, m)
                           THEN [expiries EXCEPT ![m.request] = refused[m.request]]
                           ELSE IF AcpFinished(session, m) THEN ended ELSE expiries
  BY DEF AcpAnswers
<1> HIDE DEF expiries, refused, ended
<1>6. m.kind = "ask" => ByDriver([expiries EXCEPT ![m.request] = refused[m.request]])
  BY <1>1, <1>2, <1>4 DEF ByDriver
<1> QED
  BY <1>1, <1>3, <1>5, <1>6

-----------------------------------------------------------------------------
(* The invariant behind Published: with types, what Sound says.            *)

Kept ==
    /\ flavor \in {"claude", "acp"}
    /\ Sound(session)
    /\ link \in Effect \cup {Idle}
    /\ vendor \in Vendor
    /\ stdout \in Seq(Message)
    /\ Answered
    /\ outcome \in [Prompts \cup Requests -> Outcomes]

LEMMA LinkFields ==
    ASSUME link \in Effect \cup {Idle}
    PROVE  /\ link.at \in {"idle", "submit", "interrupt", "respond", "forget"}
           /\ link.at = "submit" => link.prompt \in Prompts
           /\ link.at \in {"respond", "forget"} => link.request \in Requests /\ link.allow \in BOOLEAN
           /\ link.at = "respond" =>
                [link EXCEPT !.at = "forget"]
                  = [at |-> "forget", request |-> link.request, allow |-> link.allow]
  BY DEF Effect, Idle

LEMMA KeptInit == Init => Kept
<1> SUFFICES ASSUME Init PROVE Kept
  OBVIOUS
<1>1. session \in Session
  BY DEF Init, Session, Told
<1>2. IsFiniteSet({}) /\ Cardinality({}) = 0
  BY FS_EmptySet
<1>3. /\ session.pending = {} /\ session.told.open = {}
      /\ session.turn = None /\ session.told.turn = None
      /\ session.ready = FALSE /\ session.told.ready = FALSE
      /\ session.answerable = TRUE /\ session.told.answerable = TRUE
  BY DEF Init
<1>6. 0 <= MaxPending
  BY VendorAssumption
<1>7. Sound(session)
  BY <1>1, <1>2, <1>3, <1>6 DEF Sound
<1>4. vendor \in Vendor
  BY DEF Init, Vendor
<1>5. outcome \in [Prompts \cup Requests -> Outcomes] /\ Answered
  BY DEF Init, Outcomes, Answered
<1> QED
  BY <1>4, <1>5, <1>7 DEF Init, Kept

LEMMA ReportsTyped ==
    ASSUME Kept, NEW x \in Prompts \cup Requests, NEW o \in Outcomes, Reports(x, o)
    PROVE  outcome' \in [Prompts \cup Requests -> Outcomes]
  BY DEF Kept, Reports

LEMMA SaysTyped ==
    ASSUME Kept, NEW m \in Message, Says(m)
    PROVE  stdout' \in Seq(Message)
  BY DEF Kept, Says

LEMMA VendorKept ==
    ASSUME Kept, VendorNext
    PROVE  Kept'
<1>1. CASE VendorOpens
  <2>1. PICK kind \in {"ready", "refused"} : Says([kind |-> kind])
    BY <1>1 DEF VendorOpens
  <2>2. [kind |-> kind] \in Message
    BY DEF Message
  <2> QED
    BY <1>1, <2>1, <2>2, SaysTyped DEF VendorOpens, Kept, Answered
<1>2. CASE VendorExtension
  <2>1. [kind |-> "yolo", on |-> session.answerable] \in Message
    BY DEF Message, Kept, Sound, Session
  <2> QED
    BY <1>2, <2>1, SaysTyped DEF VendorExtension, Kept, Answered
<1>3. CASE VendorFinishes
  <2>1. vendor.work \in Seq(Prompts) /\ vendor.work # <<>>
    BY <1>3 DEF VendorFinishes, Kept, Vendor
  <2>2. Head(vendor.work) \in Prompts /\ Tail(vendor.work) \in Seq(Prompts)
    BY <2>1
  <2>3. [kind |-> "result", prompt |-> Head(vendor.work)] \in Message
    BY <2>2 DEF Message
  <2>4. vendor' \in Vendor
    BY <1>3, <2>2 DEF VendorFinishes, Kept, Vendor
  <2>5. stdout' \in Seq(Message)
    BY <1>3, <2>3, SaysTyped DEF VendorFinishes
  <2> QED
    BY <1>3, <2>4, <2>5 DEF VendorFinishes, Kept, Answered
<1>4. CASE VendorExits
  <2>0. <<>> \in Seq(Prompts)
    OBVIOUS
  <2>1. vendor' \in Vendor
    BY <1>4, <2>0 DEF VendorExits, Kept, Vendor
  <2> QED
    BY <1>4, <2>1 DEF VendorExits, Kept, Answered
<1>5. ASSUME NEW r \in Requests, VendorAsks(r)
      PROVE  Kept'
  <2>1. PICK about \in {"tool", "other", "question"}, options \in SUBSET {"allow", "reject"} :
          Says([kind |-> "ask", request |-> r, about |-> about, options |-> options])
    BY <1>5, VendorAssumption DEF VendorAsks
  <2>2. [kind |-> "ask", request |-> r, about |-> about, options |-> options] \in Message
    BY DEF Message
  <2>3. Head(vendor.work) \in Prompts
    BY <1>5 DEF VendorAsks, Kept, Vendor
  <2>4. vendor' \in Vendor
    BY <1>5, <2>3 DEF VendorAsks, Kept, Vendor
  <2>5. stdout' \in Seq(Message)
    BY <2>1, <2>2, SaysTyped
  <2> QED
    BY <1>5, <2>4, <2>5 DEF VendorAsks, Kept, Answered
<1>6. ASSUME NEW r \in Requests, VendorRuns(r)
      PROVE  Kept'
  <2>1. PICK failed \in BOOLEAN : Says([kind |-> "tool", request |-> r, failed |-> failed])
    BY <1>6 DEF VendorRuns
  <2>2. [kind |-> "tool", request |-> r, failed |-> failed] \in Message
    BY DEF Message
  <2>3. vendor' \in Vendor
    BY <1>6 DEF VendorRuns, Kept, Vendor
  <2>4. stdout' \in Seq(Message)
    BY <2>1, <2>2, SaysTyped
  <2> QED
    BY <1>6, <2>3, <2>4 DEF VendorRuns, Kept, Answered
<1>7. ASSUME NEW r \in Requests, Lateness(r)
      PROVE  Kept'
  <2>1. Sound(session')
    BY <1>7 DEF Lateness, Kept, Sound, Session, Told
  <2> QED
    BY <1>7, <2>1 DEF Lateness, Kept, Answered
<1>8. CASE Close
  <2>1. vendor' \in Vendor
    BY <1>8 DEF Close, Kept, Vendor
  <2> QED
    BY <1>8, <2>1 DEF Close, Kept, Answered
<1>9. CASE RespondWrite
  <2>1. link.request \in Requests /\ link.allow \in BOOLEAN
    BY <1>9, LinkFields DEF RespondWrite, Kept
  <2>2. link' \in Effect \cup {Idle}
    BY <1>9, <2>1, LinkFields DEF RespondWrite, Kept, Effect
  <2>3. outcome' \in [Prompts \cup Requests -> Outcomes]
    BY <1>9, <2>1, ReportsTyped DEF RespondWrite, Kept, Outcomes
  <2>4. ASSUME NEW says \in {"allow", "deny"}
        PROVE  Written({link.request}, "user", says) \in [Requests -> Seq(Answer)]
    <3>1. [by |-> "user", says |-> says] \in Answer
      BY DEF Answer
    <3>2. \A r \in Requests : Append(answers[r], [by |-> "user", says |-> says]) \in Seq(Answer)
      BY <3>1 DEF Kept, Answered
    <3> QED
      BY <3>2 DEF Written, Kept, Answered
  <2>5. Answered'
    BY <1>9, <2>4 DEF RespondWrite, Kept, Answered
  <2> QED
    BY <1>9, <2>2, <2>3, <2>5 DEF RespondWrite, Kept
<1>10. CASE RespondForget
  <2>1. Sound(session')
    BY <1>10, SettleSound DEF RespondForget, Kept
  <2>2. link.request \in Requests
    BY <1>10, LinkFields DEF RespondForget, Kept
  <2>3. outcome' \in [Prompts \cup Requests -> Outcomes]
    BY <1>10, <2>2, ReportsTyped DEF RespondForget, ForgottenOutcome, Outcomes
  <2> QED
    BY <1>10, <2>1, <2>3 DEF RespondForget, Kept, Answered
<1> QED
  BY <1>1, <1>2, <1>3, <1>4, <1>5, <1>6, <1>7, <1>8, <1>9, <1>10 DEF VendorNext

LEMMA SubmitEffect ==
    ASSUME NEW p \in Prompts, NEW starts \in BOOLEAN
    PROVE  [at |-> "submit", prompt |-> p, starts |-> starts] \in Effect
  BY DEF Effect

LEMMA PromptGiven ==
    ASSUME Kept, NEW p \in Prompts
    PROVE  [vendor EXCEPT !.work = Append(@, p), !.got = @ \cup {p}] \in Vendor
<1>1. Append(vendor.work, p) \in Seq(Prompts)
  BY DEF Kept, Vendor
<1>2. vendor.got \cup {p} \in SUBSET Prompts
  BY DEF Kept, Vendor
<1> QED
  BY <1>1, <1>2 DEF Kept, Vendor

LEMMA ClaudeKept ==
    ASSUME Kept, ClaudeNext
    PROVE  Kept'
<1>1. ASSUME NEW p \in Prompts, ClaudeSubmit(p)
      PROVE  Kept'
  <2>1. Sound(session')
    BY <1>1, StartedSound DEF ClaudeSubmit, Kept
  <2>2. link' \in Effect \cup {Idle}
    BY <1>1, SubmitEffect DEF ClaudeSubmit, Kept
  <2>3. outcome' \in [Prompts \cup Requests -> Outcomes]
    BY <1>1, ReportsTyped DEF ClaudeSubmit, Kept, Outcomes
  <2> QED
    BY <1>1, <2>1, <2>2, <2>3 DEF ClaudeSubmit, Kept, Answered
<1>2. CASE ClaudeSubmitWrite
  <2>1. link.prompt \in Prompts
    BY <1>2, LinkFields DEF ClaudeSubmitWrite, Kept
  <2>2. Sound(session')
    BY <1>2, ClaudeFinishTurnSound DEF ClaudeSubmitWrite, Kept
  <2>4. vendor' \in Vendor
    BY <1>2, <2>1, PromptGiven DEF ClaudeSubmitWrite, Kept
  <2>5. outcome' \in [Prompts \cup Requests -> Outcomes]
    BY <1>2, <2>1, ReportsTyped DEF ClaudeSubmitWrite, Outcomes
  <2> QED
    BY <1>2, <2>2, <2>4, <2>5 DEF ClaudeSubmitWrite, Kept, Answered
<1>3. CASE ClaudeInterrupt
  BY <1>3 DEF ClaudeInterrupt, Kept, Effect, Answered
<1>4. CASE ClaudeInterruptRecord
  <2>1. Sound(session')
    BY <1>4, InterruptingSound DEF ClaudeInterruptRecord, Interrupts, Kept
  <2> QED
    BY <1>4, <2>1 DEF ClaudeInterruptRecord, Kept, Answered
<1>5. ASSUME NEW r \in Requests, NEW allow \in BOOLEAN, ClaudeRespond(r, allow)
      PROVE  Kept'
  <2>1. Sound(session')
    <3>1. Sound([session EXCEPT !.declined = @ \cup {r}])
      BY DeclinedSound DEF Kept
    <3> QED
      BY <1>5, <3>1 DEF ClaudeRespond, DeclinedFirst, Kept
  <2>2. link' \in Effect \cup {Idle}
    BY <1>5 DEF ClaudeRespond, Kept, Effect
  <2>3. outcome' \in [Prompts \cup Requests -> Outcomes]
    BY <1>5, ReportsTyped DEF ClaudeRespond, Kept, Outcomes
  <2> QED
    BY <1>5, <2>1, <2>2, <2>3 DEF ClaudeRespond, Kept, Answered
<1>6. CASE ClaudeRead
  <2>1. Head(stdout) \in Message /\ Tail(stdout) \in Seq(Message)
    BY <1>6 DEF ClaudeRead, Kept
  <2>2. Sound(session')
    BY <1>6, <2>1, FeedSound, ExpireSound DEF ClaudeRead, Kept
  <2>3. Answered'
    BY <1>6, <2>1, ClaudeAnswersByDriver DEF ClaudeRead, Kept, ByDriver, Answered
  <2> QED
    BY <1>6, <2>1, <2>2, <2>3 DEF ClaudeRead, Kept
<1>7. CASE ClaudeIdle
  <2>1. Sound(session')
    BY <1>7, ExpireSound DEF ClaudeIdle, Kept
  <2>2. Answered'
    BY <1>7, WrittenByDriver DEF ClaudeIdle, Kept, ByDriver, Answered, Verdicts
  <2> QED
    BY <1>7, <2>1, <2>2 DEF ClaudeIdle, Kept
<1>8. CASE ClaudeEnded
  <2>1. Sound(session')
    BY <1>8, ClaudeFinishTurnSound, EndedSound DEF ClaudeEnded, Kept
  <2> QED
    BY <1>8, <2>1 DEF ClaudeEnded, Kept, Answered
<1> QED
  BY <1>1, <1>2, <1>3, <1>4, <1>5, <1>6, <1>7, <1>8 DEF ClaudeNext

LEMMA AcpKept ==
    ASSUME Kept, AcpNext
    PROVE  Kept'
<1>1. ASSUME NEW p \in Prompts, AcpSubmit(p)
      PROVE  Kept'
  <2>1. Sound(session')
    BY <1>1, StartedSound DEF AcpSubmit, Kept
  <2>2. link' \in Effect \cup {Idle}
    BY <1>1, SubmitEffect DEF AcpSubmit, Kept
  <2>3. outcome' \in [Prompts \cup Requests -> Outcomes]
    BY <1>1, ReportsTyped DEF AcpSubmit, Kept, Outcomes
  <2> QED
    BY <1>1, <2>1, <2>2, <2>3 DEF AcpSubmit, Kept, Answered
<1>2. CASE AcpSubmitWrite
  <2>1. link.prompt \in Prompts
    BY <1>2, LinkFields DEF AcpSubmitWrite, Kept
  <2>2. Sound(session')
    BY <1>2, AcpFinishTurnSound DEF AcpSubmitWrite, AcpSubmitFails, Kept
  <2>4. vendor' \in Vendor
    BY <1>2, <2>1, PromptGiven DEF AcpSubmitWrite, Kept
  <2>5. outcome' \in [Prompts \cup Requests -> Outcomes]
    BY <1>2, <2>1, ReportsTyped DEF AcpSubmitWrite, Outcomes
  <2> QED
    BY <1>2, <2>2, <2>4, <2>5 DEF AcpSubmitWrite, Kept, Answered
<1>3. CASE AcpInterrupt
  BY <1>3 DEF AcpInterrupt, Kept, Effect, Answered
<1>4. CASE AcpInterruptRecord
  <2>1. Sound(Settle(session, session.pending))
    BY SettleSound DEF Kept
  <2>2. Sound(session')
    BY <1>4, <2>1, InterruptingSound DEF AcpInterruptRecord
  <2>3. Answered'
    BY <1>4, WrittenByDriver DEF AcpInterruptRecord, Kept, ByDriver, Answered, Verdicts
  <2> QED
    BY <1>4, <2>2, <2>3 DEF AcpInterruptRecord, Kept
<1>5. ASSUME NEW r \in Requests, NEW allow \in BOOLEAN, AcpRespond(r, allow)
      PROVE  Kept'
  <2>1. Sound(session')
    <3>1. Sound([session EXCEPT !.declined = @ \cup {r}])
      BY DeclinedSound DEF Kept
    <3> QED
      BY <1>5, <3>1 DEF AcpRespond, Kept
  <2>2. link' \in Effect \cup {Idle}
    BY <1>5 DEF AcpRespond, Kept, Effect
  <2>3. outcome' \in [Prompts \cup Requests -> Outcomes]
    BY <1>5, ReportsTyped DEF AcpRespond, Kept, Outcomes
  <2> QED
    BY <1>5, <2>1, <2>2, <2>3 DEF AcpRespond, Kept, Answered
<1>6. CASE AcpRead
  <2>1. Head(stdout) \in Message /\ Tail(stdout) \in Seq(Message)
    BY <1>6 DEF AcpRead, Kept
  <2>2. Sound(session')
    BY <1>6, <2>1, FeedSound, ExpireSound DEF AcpRead, Kept
  <2>3. Answered'
    BY <1>6, <2>1, AcpAnswersByDriver DEF AcpRead, Kept, ByDriver, Answered
  <2>4. vendor' \in Vendor
    BY <1>6 DEF AcpRead, Kept, Vendor
  <2> QED
    BY <1>6, <2>1, <2>2, <2>3, <2>4 DEF AcpRead, Kept
<1>7. CASE AcpIdle
  <2>1. Sound(session')
    BY <1>7, ExpireSound DEF AcpIdle, Kept
  <2>2. Answered'
    BY <1>7, AcpExpiriesByDriver DEF AcpIdle, Kept, ByDriver, Answered
  <2> QED
    BY <1>7, <2>1, <2>2 DEF AcpIdle, Kept
<1>8. CASE AcpEnded
  <2>1. Sound(session')
    BY <1>8, AcpFinishTurnSound, EndedSound DEF AcpEnded, Kept
  <2> QED
    BY <1>8, <2>1 DEF AcpEnded, Kept, Answered
<1> QED
  BY <1>1, <1>2, <1>3, <1>4, <1>5, <1>6, <1>7, <1>8 DEF AcpNext

LEMMA KeptStep == Kept /\ [Next]_vars => Kept'
<1>1. ASSUME Kept, UNCHANGED vars
      PROVE  Kept'
  BY <1>1 DEF Kept, Answered, vars
<1> QED
  BY <1>1, VendorKept, ClaudeKept, AcpKept DEF Next

\* Whatever thread changes what the driver holds, the Bridge is told (_settle,
\* _finish_turn, _ended), and no driver holds more requests than its limit.
THEOREM PublishedCorrect == Spec => []Published
<1>1. Kept => Published
  BY DEF Kept, Sound, Answered, Published, TypeOK, FactsTrue
<1> QED
  BY KeptInit, KeptStep, <1>1, PTL DEF Spec

-----------------------------------------------------------------------------
(* The invariant behind OutcomeTrue: what is reported accepted is what was *)
(* written, but for the decision the link thread has written and not yet   *)
(* reported.                                                               *)

Honest ==
    /\ \A p \in Prompts : outcome[p] = "accepted" <=> p \in vendor.got
    /\ \A r \in Requests : outcome[r] = "accepted" => UserAnswered(r)
    /\ \A r \in Requests : UserAnswered(r) =>
         outcome[r] = "accepted" \/ (link.at = "forget" /\ link.request = r)
    /\ link.at = "submit" => outcome[link.prompt] = "none"
    /\ link.at \in {"respond", "forget"} => outcome[link.request] = "none"
    /\ link.at = "forget" => UserAnswered(link.request)

Faithful == Kept /\ Honest

\* The driver's own answers make no request one the user has answered.
LEMMA UserUnchanged ==
    ASSUME Kept, ByDriver(answers'), NEW r \in Requests
    PROVE  UserAnswered(r)' <=> UserAnswered(r)
<1>1. answers[r] \in Seq(Answer)
  BY DEF Kept, Answered
<1>2. CASE answers'[r] = answers[r]
  BY <1>2 DEF UserAnswered
<1>3. ASSUME NEW says \in Verdicts,
             answers'[r] = Append(answers[r], [by |-> "driver", says |-> says])
      PROVE  UserAnswered(r)' <=> UserAnswered(r)
  <2>1. /\ Len(answers'[r]) = Len(answers[r]) + 1
        /\ \A i \in 1..Len(answers[r]) : answers'[r][i] = answers[r][i]
        /\ answers'[r][Len(answers[r]) + 1] = [by |-> "driver", says |-> says]
    BY <1>1, <1>3
  <2>2. answers'[r][Len(answers[r]) + 1].by # "user"
    BY <2>1
  <2>3. Len(answers[r]) \in Nat
    BY <1>1
  <2>4. \A i : i \in 1..Len(answers'[r]) <=> i \in 1..Len(answers[r]) \/ i = Len(answers[r]) + 1
    BY <2>1, <2>3
  <2> QED
    BY <2>1, <2>2, <2>4 DEF UserAnswered
<1> QED
  BY <1>2, <1>3 DEF ByDriver

\* Steps that report nothing and give the vendor no prompt and no decision.
LEMMA HonestFrame ==
    ASSUME Faithful, ByDriver(answers'), outcome' = outcome, vendor'.got = vendor.got,
           link' = link \/ (link.at # "forget" /\ link'.at \in {"idle", "interrupt"})
    PROVE  Honest'
<1>1. \A r \in Requests : UserAnswered(r)' <=> UserAnswered(r)
  BY UserUnchanged DEF Faithful
<1>2. link.at = "forget" => link.request \in Requests
  BY LinkFields DEF Faithful, Kept
<1> QED
  BY <1>1, <1>2 DEF Faithful, Honest

LEMMA HonestInit == Init => Honest
<1> SUFFICES ASSUME Init PROVE Honest
  OBVIOUS
<1>1. \A r \in Requests : ~UserAnswered(r)
  BY DEF Init, UserAnswered
<1> QED
  BY <1>1 DEF Init, Honest, Idle

LEMMA Apart == \A p \in Prompts, r \in Requests : p # r
  BY VendorAssumption

LEMMA SubmitHonest ==
    ASSUME Faithful, NEW p \in Prompts, ClaudeSubmit(p) \/ AcpSubmit(p)
    PROVE  Honest'
<1>1. link = Idle /\ outcome[p] = "none" /\ UNCHANGED <<vendor, answers>>
  BY DEF ClaudeSubmit, AcpSubmit
<1>2. \/ \E o \in {"undelivered", "unsupported"} : Reports(p, o) /\ UNCHANGED link
      \/ /\ \E b : link' = [at |-> "submit", prompt |-> p, starts |-> b]
         /\ UNCHANGED outcome
  BY DEF ClaudeSubmit, AcpSubmit
<1>3. \A r \in Requests : UserAnswered(r)' <=> UserAnswered(r)
  BY <1>1 DEF UserAnswered
<1>4. ASSUME NEW o \in {"undelivered", "unsupported"}, Reports(p, o), UNCHANGED link
      PROVE  Honest'
  <2>1. /\ outcome'[p] = o
        /\ \A x \in Prompts \cup Requests : x # p => outcome'[x] = outcome[x]
    BY <1>4 DEF Reports, Faithful, Kept
  <2> QED
    BY <1>1, <1>3, <1>4, <2>1, Apart DEF Faithful, Honest, Idle
<1>5. ASSUME NEW b, link' = [at |-> "submit", prompt |-> p, starts |-> b], UNCHANGED outcome
      PROVE  Honest'
  BY <1>1, <1>3, <1>5 DEF Faithful, Honest, Idle
<1> QED
  BY <1>2, <1>4, <1>5

LEMMA SubmitWriteHonest ==
    ASSUME Faithful, ClaudeSubmitWrite \/ AcpSubmitWrite
    PROVE  Honest'
<1>1. link.at = "submit" /\ link' = Idle /\ UNCHANGED answers
  BY DEF ClaudeSubmitWrite, AcpSubmitWrite
<1>2. link.prompt \in Prompts /\ outcome[link.prompt] = "none"
  BY <1>1, LinkFields DEF Faithful, Kept, Honest
<1>3. \/ vendor'.got = vendor.got \cup {link.prompt} /\ Reports(link.prompt, "accepted")
      \/ vendor' = vendor /\ Reports(link.prompt, "undelivered")
  BY DEF ClaudeSubmitWrite, AcpSubmitWrite, Faithful, Kept, Vendor
<1>4. \A r \in Requests : UserAnswered(r)' <=> UserAnswered(r)
  BY <1>1 DEF UserAnswered
<1>5. /\ outcome'[link.prompt] \in {"accepted", "undelivered"}
      /\ \A x \in Prompts \cup Requests : x # link.prompt => outcome'[x] = outcome[x]
  BY <1>2, <1>3 DEF Reports, Faithful, Kept
<1>6. outcome'[link.prompt] = "accepted" <=> vendor'.got = vendor.got \cup {link.prompt}
  BY <1>2, <1>3 DEF Reports, Faithful, Kept, Honest
<1>7. \A p \in Prompts : outcome'[p] = "accepted" <=> p \in vendor'.got
  BY <1>2, <1>3, <1>5, <1>6 DEF Faithful, Honest, Reports
<1> QED
  BY <1>1, <1>2, <1>4, <1>5, <1>7, Apart DEF Faithful, Honest, Idle

LEMMA RespondHonest ==
    ASSUME Faithful, NEW r \in Requests, NEW allow \in BOOLEAN,
           ClaudeRespond(r, allow) \/ AcpRespond(r, allow)
    PROVE  Honest'
<1>1. link = Idle /\ outcome[r] = "none" /\ UNCHANGED <<vendor, answers>>
  BY DEF ClaudeRespond, AcpRespond
<1>2. \/ \E o \in {"undelivered", "unsupported"} : Reports(r, o) /\ UNCHANGED link
      \/ link' = [at |-> "respond", request |-> r, allow |-> allow] /\ UNCHANGED outcome
  BY DEF ClaudeRespond, AcpRespond
<1>3. \A q \in Requests : UserAnswered(q)' <=> UserAnswered(q)
  BY <1>1 DEF UserAnswered
<1>4. ~UserAnswered(r)
  BY <1>1 DEF Faithful, Honest, Idle
<1>5. ASSUME NEW o \in {"undelivered", "unsupported"}, Reports(r, o), UNCHANGED link
      PROVE  Honest'
  <2>1. /\ outcome'[r] = o
        /\ \A x \in Prompts \cup Requests : x # r => outcome'[x] = outcome[x]
    BY <1>5 DEF Reports, Faithful, Kept
  <2> QED
    BY <1>1, <1>3, <1>4, <1>5, <2>1, Apart DEF Faithful, Honest, Idle
<1>6. CASE link' = [at |-> "respond", request |-> r, allow |-> allow] /\ UNCHANGED outcome
  BY <1>1, <1>3, <1>6 DEF Faithful, Honest, Idle
<1> QED
  BY <1>2, <1>5, <1>6

\* The user's decision has been written.
LEMMA UserWritten ==
    ASSUME Kept, NEW r \in Requests, NEW says, Alive, answers' = Written({r}, "user", says)
    PROVE  /\ UserAnswered(r)'
           /\ \A q \in Requests : q # r => (UserAnswered(q)' <=> UserAnswered(q))
<1>1. /\ answers'[r] = Append(answers[r], [by |-> "user", says |-> says])
      /\ \A q \in Requests : q # r => answers'[q] = answers[q]
  BY DEF Written
<1>2. answers[r] \in Seq(Answer)
  BY DEF Kept, Answered
<1>3. Len(answers'[r]) = Len(answers[r]) + 1 /\ Len(answers[r]) \in Nat
  BY <1>1, <1>2
<1>4. answers'[r][Len(answers[r]) + 1] = [by |-> "user", says |-> says]
  BY <1>1, <1>2
<1>5. Len(answers[r]) + 1 \in 1..Len(answers'[r])
  BY <1>3
<1>6. answers'[r][Len(answers[r]) + 1].by = "user"
  BY <1>4
<1>7. UserAnswered(r)'
  BY <1>5, <1>6 DEF UserAnswered
<1> QED
  BY <1>1, <1>7 DEF UserAnswered

LEMMA RespondWriteHonest ==
    ASSUME Faithful, RespondWrite
    PROVE  Honest'
<1>1. PICK r \in Requests : link.request = r
  BY LinkFields DEF RespondWrite, Faithful, Kept
<1>2. link.at = "respond" /\ outcome[r] = "none" /\ UNCHANGED vendor
  BY <1>1 DEF RespondWrite, Faithful, Honest
<1>3. CASE Alive
  <2>1. /\ UserAnswered(r)'
        /\ \A q \in Requests : q # r => (UserAnswered(q)' <=> UserAnswered(q))
    BY <1>1, <1>3, UserWritten DEF RespondWrite, Faithful
  <2>2. link' = [at |-> "forget", request |-> r, allow |-> link.allow] /\ UNCHANGED outcome
    BY <1>1, <1>2, <1>3, LinkFields DEF RespondWrite, Faithful, Kept
  <2>3. link'.at = "forget" /\ link'.request = r
    BY <2>2
  <2> QED
    BY <1>2, <2>1, <2>2, <2>3 DEF Faithful, Honest
<1>4. CASE ~Alive
  <2>1. Reports(r, "undelivered") /\ link' = Idle /\ UNCHANGED answers
    BY <1>1, <1>4 DEF RespondWrite
  <2>2. \A q \in Requests : UserAnswered(q)' <=> UserAnswered(q)
    BY <2>1 DEF UserAnswered
  <2>3. /\ outcome'[r] = "undelivered"
        /\ \A x \in Prompts \cup Requests : x # r => outcome'[x] = outcome[x]
    BY <2>1 DEF Reports, Faithful, Kept
  <2>4. ~UserAnswered(r)
    BY <1>2 DEF Faithful, Honest
  <2> QED
    BY <1>2, <2>1, <2>2, <2>3, <2>4, Apart DEF Faithful, Honest, Idle
<1> QED
  BY <1>3, <1>4

LEMMA RespondForgetHonest ==
    ASSUME Faithful, RespondForget
    PROVE  Honest'
<1>1. PICK r \in Requests : link.request = r
  BY LinkFields DEF RespondForget, Faithful, Kept
<1>2. /\ link.at = "forget" /\ link' = Idle
      /\ Reports(r, "accepted") /\ UserAnswered(r)
      /\ UNCHANGED <<vendor, answers>>
  BY <1>1 DEF RespondForget, ForgottenOutcome, Faithful, Honest
<1>3. \A q \in Requests : UserAnswered(q)' <=> UserAnswered(q)
  BY <1>2 DEF UserAnswered
<1>4. /\ outcome'[r] = "accepted"
      /\ \A x \in Prompts \cup Requests : x # r => outcome'[x] = outcome[x]
  BY <1>2 DEF Reports, Faithful, Kept
<1> QED
  BY <1>1, <1>2, <1>3, <1>4, Apart DEF Faithful, Honest, Idle

LEMMA VendorHonest ==
    ASSUME Faithful, VendorNext
    PROVE  Honest'
<1>1. ByDriver(answers)
  BY NothingWritten DEF Faithful, Kept
<1>2. ASSUME UNCHANGED <<link, answers, outcome>>, vendor'.got = vendor.got
      PROVE  Honest'
  BY <1>1, <1>2, HonestFrame
<1>3. CASE VendorOpens \/ VendorExtension
  BY <1>2, <1>3 DEF VendorOpens, VendorExtension
<1>4. CASE VendorFinishes \/ VendorExits \/ Close
  BY <1>2, <1>4 DEF VendorFinishes, VendorExits, Close, Faithful, Kept, Vendor
<1>5. ASSUME NEW r \in Requests, VendorAsks(r) \/ VendorRuns(r) \/ Lateness(r)
      PROVE  Honest'
  BY <1>2, <1>5 DEF VendorAsks, VendorRuns, Lateness, Faithful, Kept, Vendor
<1> QED
  BY <1>3, <1>4, <1>5, RespondWriteHonest, RespondForgetHonest DEF VendorNext

LEMMA ClaudeHonest ==
    ASSUME Faithful, ClaudeNext
    PROVE  Honest'
<1>0. Answered /\ ByDriver(answers)
  BY NothingWritten DEF Faithful, Kept
<1>1. CASE ClaudeInterrupt \/ ClaudeInterruptRecord
  BY <1>0, <1>1, HonestFrame DEF ClaudeInterrupt, ClaudeInterruptRecord, Idle
<1>2. CASE ClaudeRead
  <2>1. Head(stdout) \in Message
    BY <1>2 DEF ClaudeRead, Faithful, Kept
  <2>2. ByDriver(answers')
    BY <1>0, <1>2, <2>1, ClaudeAnswersByDriver DEF ClaudeRead
  <2> QED
    BY <1>2, <2>2, HonestFrame DEF ClaudeRead
<1>3. CASE ClaudeIdle
  <2>1. ByDriver(answers')
    BY <1>0, <1>3, WrittenByDriver DEF ClaudeIdle, Verdicts
  <2> QED
    BY <1>3, <2>1, HonestFrame DEF ClaudeIdle
<1>4. CASE ClaudeEnded
  BY <1>0, <1>4, HonestFrame DEF ClaudeEnded
<1> QED
  BY <1>1, <1>2, <1>3, <1>4, SubmitHonest, SubmitWriteHonest, RespondHonest DEF ClaudeNext

LEMMA AcpHonest ==
    ASSUME Faithful, AcpNext
    PROVE  Honest'
<1>0. Answered /\ ByDriver(answers)
  BY NothingWritten DEF Faithful, Kept
<1>1. CASE AcpInterrupt
  BY <1>0, <1>1, HonestFrame DEF AcpInterrupt, Idle
<1>2. CASE AcpInterruptRecord
  <2>1. ByDriver(answers')
    BY <1>0, <1>2, WrittenByDriver DEF AcpInterruptRecord, Verdicts
  <2> QED
    BY <1>2, <2>1, HonestFrame DEF AcpInterruptRecord, Idle
<1>3. CASE AcpRead
  <2>1. Head(stdout) \in Message
    BY <1>3 DEF AcpRead, Faithful, Kept
  <2>2. ByDriver(answers')
    BY <1>0, <1>3, <2>1, AcpAnswersByDriver DEF AcpRead
  <2>3. vendor'.got = vendor.got
    BY <1>3 DEF AcpRead, Faithful, Kept, Vendor
  <2> QED
    BY <1>3, <2>2, <2>3, HonestFrame DEF AcpRead
<1>4. CASE AcpIdle
  <2>1. ByDriver(answers')
    BY <1>0, <1>4, AcpExpiriesByDriver DEF AcpIdle
  <2> QED
    BY <1>4, <2>1, HonestFrame DEF AcpIdle
<1>5. CASE AcpEnded
  BY <1>0, <1>5, HonestFrame DEF AcpEnded
<1> QED
  BY <1>1, <1>2, <1>3, <1>4, <1>5, SubmitHonest, SubmitWriteHonest, RespondHonest DEF AcpNext

LEMMA FaithfulStep == Faithful /\ [Next]_vars => Faithful'
<1>1. ASSUME Faithful, UNCHANGED vars
      PROVE  Honest'
  BY <1>1, HonestFrame, NothingWritten DEF vars, Faithful, Kept
<1>2. Faithful /\ Next => Honest'
  BY VendorHonest, ClaudeHonest, AcpHonest DEF Next
<1> QED
  BY <1>1, <1>2, KeptStep DEF Faithful

\* Whatever the reader does to a turn or a request between the two halves of
\* an effect, its outcome says what reached the vendor (submit, respond).
THEOREM OutcomesTrue == Spec => []OutcomeTrue
<1>1. ASSUME Faithful
      PROVE  OutcomeTrue
  <2>1. ASSUME NEW p \in Prompts
        PROVE  (outcome[p] = "accepted") = (p \in vendor.got)
    <3>1. outcome[p] = "accepted" <=> p \in vendor.got
      BY <1>1 DEF Faithful, Honest
    <3> QED
      BY <3>1
  <2>2. ASSUME NEW r \in Requests, link.at # "forget"
        PROVE  (outcome[r] = "accepted") = UserAnswered(r)
    <3>1. outcome[r] = "accepted" <=> UserAnswered(r)
      BY <1>1, <2>2 DEF Faithful, Honest
    <3>2. UserAnswered(r) \in BOOLEAN
      BY DEF UserAnswered
    <3> QED
      BY <3>1, <3>2
  <2> QED
    BY <2>1, <2>2 DEF OutcomeTrue
<1>2. Init => Faithful
  BY KeptInit, HonestInit DEF Faithful
<1> QED
  BY <1>1, <1>2, FaithfulStep, PTL DEF Spec

-----------------------------------------------------------------------------
(* The invariant behind RequestsAnswered and TurnsKept.  Messages are      *)
(* related by their places in the pipe.                                    *)

AskAt(q, i, r)  == q[i].kind = "ask" /\ q[i].request = r
ToolAt(q, i, r) == q[i].kind = "tool" /\ q[i].request = r
ResultOf(q, i, p) == q[i].kind = "result" /\ q[i].prompt = p
Worked(r) == vendor.work # <<>> /\ vendor.asked[r] = Head(vendor.work)

\* The vendor works on each prompt once, and asks for the one it works on.
WorkedOnce ==
    /\ \A i \in 1..Len(vendor.work) : vendor.work[i] \in vendor.got
    /\ \A i, j \in 1..Len(vendor.work) : vendor.work[i] = vendor.work[j] => i = j
    /\ \A r \in Requests : vendor.asked[r] # None =>
          /\ vendor.asked[r] \in vendor.got
          /\ \A i \in 2..Len(vendor.work) : vendor.work[i] # vendor.asked[r]
    /\ ~vendor.up => vendor.closed /\ vendor.work = <<>>
    /\ \A i \in 1..Len(stdout), p \in Prompts : ResultOf(stdout, i, p) =>
          p \in vendor.got /\ \A j \in 1..Len(vendor.work) : vendor.work[j] # p

\* Each request travels once, before the driver knows of it.
AskedOnce ==
    \A r \in Requests :
        /\ \A i, j \in 1..Len(stdout) : AskAt(stdout, i, r) /\ AskAt(stdout, j, r) => i = j
        /\ vendor.asked[r] = None \/ InPipe(r) =>
              /\ r \notin session.pending /\ r \notin session.told.shown /\ answers[r] = <<>>
        /\ vendor.asked[r] = None => ~InPipe(r)
        /\ Worked(r) =>
              \A i \in 1..Len(stdout) : stdout[i].kind = "result" =>
                  \E j \in i..Len(stdout) : AskAt(stdout, j, r)

\* Each tool ends once, before its prompt does.
ToolOnce ==
    \A r \in Requests :
        /\ \A i, j \in 1..Len(stdout) : ToolAt(stdout, i, r) /\ ToolAt(stdout, j, r) => i = j
        /\ r \in vendor.ran => answers[r] # <<>>
        /\ \A j \in 1..Len(stdout) : ToolAt(stdout, j, r) =>
              /\ r \in vendor.ran /\ vendor.asked[r] # None
              /\ \A i \in 1..Len(stdout) : stdout[i].kind = "result" => j < i
              /\ flavor = "acp" => vendor.asked[r] = session.turn

\* An agent works on the present turn.
OneTurn ==
    flavor = "acp" =>
        /\ \A i \in 1..Len(vendor.work) : vendor.work[i] = session.turn
        /\ link.at = "submit" => session.turn = link.prompt \/ ~vendor.up

\* Only the link thread answers for the user, only the reader for the driver.
AnsweredOnce ==
    /\ OncePerThread
    /\ session.late \subseteq session.pending
    /\ \A r \in session.pending : \A i \in 1..Len(answers[r]) : answers[r][i].by # "driver"
    /\ link.at \in {"respond", "forget"} => link.request \in session.told.shown

ToolDue(r) ==
    \/ \E i \in 1..Len(stdout) : ToolAt(stdout, i, r)
    \/ Worked(r) /\ r \notin vendor.ran

\* A refusal is noted for as long as the tool may still end.
Noted ==
    /\ \A r \in Requests : Verdict(r) = "deny" /\ ToolDue(r) => r \in session.declined
    /\ \A r \in Requests : session.told.tools[r] = "failed" => answers[r] # <<>> /\ Verdict(r) # "deny"
    /\ link.at = "respond" =>
          (~link.allow /\ answers[link.request] = <<>> /\ Worked(link.request) =>
             link.request \in session.declined)

\* The prompt of the turn was written, or is being.
TurnAccepted ==
    session.turn # None =>
        \/ outcome[session.turn] = "accepted"
        \/ link.at = "submit" /\ link.prompt = session.turn /\ link.starts

TurnDue ==
    session.turn # None /\ Alive =>
        \/ link.at = "submit" /\ (flavor = "acp" => link.prompt = session.turn)
        \/ \E i \in 1..Len(vendor.work) : flavor = "acp" => vendor.work[i] = session.turn
        \/ \E i \in 1..Len(stdout) : /\ stdout[i].kind = "result"
                                     /\ flavor = "acp" => stdout[i].prompt = session.turn

Orderly == WorkedOnce /\ AskedOnce /\ ToolOnce /\ OneTurn /\ AnsweredOnce /\ Noted /\ NoStall
        /\ TurnAccepted /\ TurnDue /\ InterruptSpent


-----------------------------------------------------------------------------
(* What the operators of the drivers do to the fields the invariant reads. *)

\* But for what is said, s and t agree on everything the invariant reads.
SameBut(s, t) ==
    /\ t.pending = s.pending /\ t.late = s.late /\ t.declined = s.declined
    /\ t.turn = s.turn /\ t.interrupting = s.interrupting
    /\ t.told.shown = s.told.shown /\ t.told.tools = s.told.tools

LEMMA SettleFields ==
    ASSUME NEW s \in Session, NEW rs
    PROVE  LET t == Settle(s, rs)
           IN  /\ t.pending = s.pending \ rs /\ t.late = s.late \ rs
               /\ t.declined = s.declined /\ t.turn = s.turn
               /\ t.interrupting = s.interrupting /\ t.options = s.options
               /\ t.told.shown = s.told.shown /\ t.told.tools = s.told.tools
  BY DEF Settle, Session, Told

LEMMA OpenFields ==
    ASSUME NEW s \in Session, NEW r \in Requests, NEW options
    PROVE  LET t == Open(s, r, options)
           IN  /\ t.pending = s.pending \cup {r} /\ t.late = s.late
               /\ t.declined = s.declined /\ t.turn = s.turn
               /\ t.interrupting = s.interrupting
               /\ t.told.shown = s.told.shown \cup {r} /\ t.told.tools = s.told.tools
  BY DEF Open, Session, Told

LEMMA FinishFields ==
    ASSUME NEW s \in Session
    PROVE  /\ LET t == ClaudeFinishTurn(s)
              IN  /\ t.pending = {} /\ t.late = s.late \ s.pending /\ t.declined = s.declined
                  /\ t.turn = None /\ t.interrupting = FALSE
                  /\ t.told.shown = s.told.shown /\ t.told.tools = s.told.tools
           /\ LET t == AcpFinishTurn(s)
              IN  /\ t.pending = {} /\ t.late = s.late \ s.pending /\ t.declined = {}
                  /\ t.turn = None /\ t.interrupting = FALSE
                  /\ t.told.shown = s.told.shown /\ t.told.tools = s.told.tools
  BY DEF ClaudeFinishTurn, AcpFinishTurn, Settle, Session, Told

LEMMA ExpireFields ==
    ASSUME NEW s \in Session
    PROVE  LET t == ClaudeExpire(s)
           IN  /\ AcpExpire(s) = t
               /\ t.pending = s.pending \ s.late /\ t.late = {}
               /\ t.declined = s.declined \cup s.late /\ t.turn = s.turn
               /\ t.interrupting = s.interrupting
               /\ t.told.shown = s.told.shown /\ t.told.tools = s.told.tools
  BY DEF ClaudeExpire, AcpExpire, Settle, Expired, Session, Told

LEMMA ToolEndsFields ==
    ASSUME NEW s \in Session, NEW m, m.request \in Requests
    PROVE  LET t == ToolEnds(s, m)
           IN  /\ t.pending = s.pending /\ t.late = s.late
               /\ t.declined = s.declined \ {m.request} /\ t.turn = s.turn
               /\ t.interrupting = s.interrupting /\ t.told.shown = s.told.shown
               /\ \A r \in Requests : t.told.tools[r] =
                     IF r = m.request THEN ToolStatus(s, m) ELSE s.told.tools[r]
  BY DEF ToolEnds, Session, Told

LEMMA OtherFields ==
    ASSUME NEW s \in Session, NEW m, NEW p
    PROVE  /\ SameBut(s, Ready(s)) /\ SameBut(s, AcpExtension(s, m))
           /\ LET t == Started(s, p)
              IN  /\ t.pending = s.pending /\ t.late = s.late /\ t.declined = s.declined
                  /\ t.turn = p /\ t.interrupting = s.interrupting
                  /\ t.told.shown = s.told.shown /\ t.told.tools = s.told.tools
  BY DEF SameBut, Ready, AcpExtension, Started, Session, Told

\* What the readers' feeds leave.
LEMMA ClaudeFeedFields ==
    ASSUME NEW s, Sound(s), NEW m \in Message
    PROVE  LET t == ClaudeFeed(s, m)
               opens == m.kind = "ask" /\ ~ClaudeRefuses(s, m)
               refuses == m.kind = "ask" /\ ClaudeRefuses(s, m) /\ m.about # "other"
           IN  /\ m.kind = "result" => t.pending = {} /\ t.late = s.late \ s.pending
               /\ m.kind # "result" =>
                     t.late = s.late /\ t.pending = IF opens THEN s.pending \cup {m.request} ELSE s.pending
               /\ t.declined = IF m.kind = "tool" THEN s.declined \ {m.request}
                               ELSE IF refuses THEN s.declined \cup {m.request} ELSE s.declined
               /\ t.turn = IF m.kind = "result" THEN None ELSE s.turn
               /\ t.interrupting = IF m.kind = "result" THEN FALSE ELSE s.interrupting
               /\ t.told.shown = IF opens THEN s.told.shown \cup {m.request} ELSE s.told.shown
               /\ \A r \in Requests : t.told.tools[r] =
                     IF m.kind = "tool" /\ r = m.request THEN ToolStatus(s, m) ELSE s.told.tools[r]
<1>0. s \in Session
  BY DEF Sound
<1>1. CASE m.kind = "ready"
  BY <1>0, <1>1, OtherFields DEF SameBut, ClaudeFeed
<1>2. CASE m.kind = "ask"
  <2>1. m.request \in Requests
    BY <1>2, MessageFields
  <2>2. CASE ~ClaudeRefuses(s, m)
    BY <1>0, <1>2, <2>1, <2>2, OpenFields DEF ClaudeFeed, ClaudeControlRequest
  <2>3. CASE ClaudeRefuses(s, m) /\ m.about = "other"
    BY <1>0, <1>2, <2>3 DEF ClaudeFeed, ClaudeControlRequest
  <2>4. CASE ClaudeRefuses(s, m) /\ m.about # "other"
    <3>1. ClaudeFeed(s, m) = [s EXCEPT !.declined = @ \cup {m.request}]
      BY <1>2, <2>4 DEF ClaudeFeed, ClaudeControlRequest
    <3> QED
      BY <1>0, <1>2, <2>4, <3>1 DEF Session, Told
  <2> QED
    BY <2>2, <2>3, <2>4
<1>3. CASE m.kind = "tool"
  BY <1>0, <1>3, ToolEndsFields, MessageFields DEF ClaudeFeed
<1>4. CASE m.kind = "result"
  BY <1>0, <1>4, FinishFields DEF ClaudeFeed
<1>5. CASE m.kind \in {"refused", "yolo"}
  BY <1>0, <1>5 DEF ClaudeFeed
<1> QED
  BY <1>1, <1>2, <1>3, <1>4, <1>5, MessageFields

LEMMA AcpFeedFields ==
    ASSUME NEW s, Sound(s), NEW m \in Message
    PROVE  LET t == AcpFeed(s, m)
               opens == m.kind = "ask" /\ ~AcpRefuses(s, m)
               refuses == m.kind = "ask" /\ AcpRefuses(s, m) /\ m.about # "other"
               ends == AcpFinished(s, m)
           IN  /\ ends => t.pending = {} /\ t.late = s.late \ s.pending /\ t.declined = {}
               /\ ~ends =>
                     /\ t.late = s.late
                     /\ t.pending = IF opens THEN s.pending \cup {m.request} ELSE s.pending
                     /\ t.declined = IF m.kind = "tool" THEN s.declined \ {m.request}
                                     ELSE IF refuses THEN s.declined \cup {m.request} ELSE s.declined
               /\ t.turn = IF ends THEN None ELSE s.turn
               /\ t.interrupting = IF ends THEN FALSE ELSE s.interrupting
               /\ t.told.shown = IF opens THEN s.told.shown \cup {m.request} ELSE s.told.shown
               /\ \A r \in Requests : t.told.tools[r] =
                     IF m.kind = "tool" /\ r = m.request THEN ToolStatus(s, m) ELSE s.told.tools[r]
<1>0. s \in Session
  BY DEF Sound
<1>1. CASE m.kind = "ready"
  BY <1>0, <1>1, OtherFields DEF SameBut, AcpFeed, AcpFinished
<1>2. CASE m.kind = "ask"
  <2>1. m.request \in Requests
    BY <1>2, MessageFields
  <2>2. CASE ~AcpRefuses(s, m)
    BY <1>0, <1>2, <2>1, <2>2, OpenFields DEF AcpFeed, AcpPermission, AcpFinished
  <2>3. CASE AcpRefuses(s, m) /\ m.about = "other"
    BY <1>0, <1>2, <2>3 DEF AcpFeed, AcpPermission, AcpFinished
  <2>4. CASE AcpRefuses(s, m) /\ m.about # "other"
    <3>1. AcpFeed(s, m) = [s EXCEPT !.declined = @ \cup {m.request}]
      BY <1>2, <2>4 DEF AcpFeed, AcpPermission, AcpFinished
    <3> QED
      BY <1>0, <1>2, <2>4, <3>1 DEF Session, Told, AcpFinished
  <2> QED
    BY <2>2, <2>3, <2>4
<1>3. CASE m.kind = "tool"
  BY <1>0, <1>3, ToolEndsFields, MessageFields DEF AcpFeed, AcpFinished
<1>4. CASE m.kind = "result"
  BY <1>0, <1>4, FinishFields DEF AcpFeed, AcpFinished
<1>5. CASE m.kind = "yolo"
  BY <1>0, <1>5, OtherFields DEF SameBut, AcpFeed, AcpFinished
<1>6. CASE m.kind = "refused"
  BY <1>0, <1>6 DEF AcpFeed, AcpFinished
<1> QED
  BY <1>1, <1>2, <1>3, <1>4, <1>5, <1>6, MessageFields

-----------------------------------------------------------------------------
(* What one step of a thread of the host does: the reader with the message *)
(* m it read, or any thread with no message.                               *)

Asks(m, r) == m.kind = "ask" /\ m.request = r
Ends(m, r) == m.kind = "tool" /\ m.request = r

\* No tool is due of any request: none will end before the next prompt.
Quiet == vendor.work = <<>> /\ \A r \in Requests, i \in 1..Len(stdout) : ~ToolAt(stdout, i, r)

\* k messages have left the pipe; if one did, it was m.
PipeMoves(k, m) ==
    /\ k \in {0, 1}
    /\ Len(stdout) \in Nat /\ Len(stdout') = Len(stdout) - k
    /\ \A i \in 1..Len(stdout') : stdout'[i] = stdout[i + k]
    /\ k = 1 => Len(stdout) >= 1 /\ stdout[1] = m
    /\ k = 0 => m.kind = "none"

VendorMoves ==
    /\ vendor'.up = vendor.up /\ vendor'.work = vendor.work /\ vendor'.got = vendor.got
    /\ vendor'.asked = vendor.asked /\ vendor'.ran = vendor.ran
    /\ Alive' => Alive
    /\ flavor' = flavor

PendingMoves(m) ==
    /\ \A r \in session'.pending : r \in session.pending \/ Asks(m, r)
    /\ \A r \in session'.told.shown : r \in session.told.shown \/ Asks(m, r)
    /\ session.told.shown \subseteq session'.told.shown
    /\ session'.late \subseteq session'.pending

\* The driver's answer, if there is one, is the end of the request.
AnswersMove(m) ==
    \A r \in Requests :
        \/ answers'[r] = answers[r]
        \/ /\ r \notin session'.pending
           /\ r \in session.pending \/ Asks(m, r)
           /\ \E says \in Verdicts :
                 /\ answers'[r] = Append(answers[r], [by |-> "driver", says |-> says])
                 /\ says = "deny" => r \in session'.declined

\* A request ends with an answer or with its turn.
NoneDropped(m) ==
    \A r \in Requests :
        Alive /\ (r \in session.pending \/ Asks(m, r)) /\ r \notin session'.pending =>
            answers'[r] # <<>> \/ m.kind = "result"

DeclinedMoves(m) ==
    /\ \A r \in session.declined : r \in session'.declined \/ Ends(m, r) \/ Quiet
    /\ \A r \in Requests : session'.told.tools[r] = "failed" =>
         session.told.tools[r] = "failed" \/ (Ends(m, r) /\ r \notin session.declined)

Finishes(m) == m.kind = "result" /\ (flavor = "acp" => m.prompt = session.turn)

TurnMoves(m) ==
    /\ session'.turn # session.turn =>
          /\ session'.turn = None
          /\ ~Alive \/ Finishes(m)
          /\ flavor = "acp" => Quiet /\ (link'.at = "submit" => ~vendor.up)
    /\ Finishes(m) => session'.turn = None
    /\ session'.interrupting => session'.turn # None

LinkMoves ==
    /\ \A p \in Prompts : outcome[p] = "accepted" => outcome'[p] = "accepted"
    /\ \/ link' = link
       \/ /\ link'.at \in {"idle", "interrupt"}
          /\ link.at = "submit" =>
                ~Alive /\ (session'.turn # None => outcome[session'.turn] = "accepted")

Thread(m) ==
    /\ \E k \in {0, 1} : PipeMoves(k, m)
    /\ VendorMoves /\ PendingMoves(m) /\ AnswersMove(m) /\ NoneDropped(m)
    /\ DeclinedMoves(m) /\ TurnMoves(m) /\ LinkMoves

\* Where the messages of the pipe are after it moved, and where they were.
LEMMA Places ==
    ASSUME NEW k, NEW m, PipeMoves(k, m)
    PROVE  /\ \A i \in 1..Len(stdout') :
                 i + k \in 1..Len(stdout) /\ i + k > k /\ stdout'[i] = stdout[i + k]
           /\ \A i \in 1..Len(stdout) :
                 \/ i - k \in 1..Len(stdout') /\ stdout'[i - k] = stdout[i]
                 \/ k = 1 /\ i = 1 /\ stdout[1] = m /\ 1 \in 1..Len(stdout)
  BY DEF PipeMoves

LEMMA WorkedOnceKept ==
    ASSUME Orderly, NEW m, Thread(m)
    PROVE  WorkedOnce'
<1>1. PICK k \in {0, 1} : PipeMoves(k, m)
  BY DEF Thread
<1>2. ASSUME NEW i \in 1..Len(stdout'), NEW p \in Prompts, ResultOf(stdout, i, p)'
      PROVE  p \in vendor.got /\ \A j \in 1..Len(vendor.work) : vendor.work[j] # p
  <2>1. i + k \in 1..Len(stdout) /\ ResultOf(stdout, i + k, p)
    BY <1>1, <1>2, Places DEF ResultOf
  <2> QED
    BY <2>1 DEF Orderly, WorkedOnce
<1> QED
  BY <1>2 DEF Orderly, WorkedOnce, Thread, VendorMoves, Alive

\* What is read has not been asked before, and is not in the pipe twice.
LEMMA AskedAtHead ==
    ASSUME Orderly, NEW m, NEW k, PipeMoves(k, m), NEW r \in Requests
    PROVE  /\ InPipe(r)' => InPipe(r)
           /\ InPipe(r) => InPipe(r)' \/ Asks(m, r)
           /\ Asks(m, r) => /\ InPipe(r) /\ ~InPipe(r)'
                            /\ r \notin session.pending /\ answers[r] = <<>>
<1>1. InPipe(r)' => InPipe(r)
  BY Places DEF InPipe
<1>2. InPipe(r) => InPipe(r)' \/ Asks(m, r)
  <2>1. ASSUME NEW i \in 1..Len(stdout), stdout[i].kind = "ask", stdout[i].request = r
        PROVE  InPipe(r)' \/ Asks(m, r)
    BY <2>1, Places DEF InPipe, Asks
  <2> QED
    BY <2>1 DEF InPipe
<1>3. ASSUME Asks(m, r)
      PROVE  InPipe(r) /\ ~InPipe(r)' /\ r \notin session.pending /\ answers[r] = <<>>
  <2>1. k = 1 /\ 1 \in 1..Len(stdout) /\ AskAt(stdout, 1, r)
    BY <1>3 DEF PipeMoves, Asks, AskAt
  <2>2. InPipe(r)
    BY <2>1 DEF InPipe, AskAt
  <2>3. ASSUME NEW i \in 1..Len(stdout'), stdout'[i].kind = "ask", stdout'[i].request = r
        PROVE  FALSE
    <3>1. i + k \in 1..Len(stdout) /\ AskAt(stdout, i + k, r) /\ i + k # 1
      BY <2>1, <2>3, Places DEF AskAt
    <3> QED
      BY <2>1, <3>1 DEF Orderly, AskedOnce
  <2>4. ~InPipe(r)'
    BY <2>3 DEF InPipe
  <2> QED
    BY <2>2, <2>4 DEF Orderly, AskedOnce
<1> QED
  BY <1>1, <1>2, <1>3

LEMMA AskedOnceKept ==
    ASSUME Orderly, NEW m, Thread(m)
    PROVE  AskedOnce'
<1>1. PICK k \in {0, 1} : PipeMoves(k, m)
  BY DEF Thread
<1>2. ASSUME NEW r \in Requests
      PROVE  /\ \A i, j \in 1..Len(stdout') : AskAt(stdout, i, r)' /\ AskAt(stdout, j, r)' => i = j
             /\ vendor.asked[r] = None \/ InPipe(r)' =>
                   r \notin session'.pending /\ r \notin session'.told.shown /\ answers'[r] = <<>>
             /\ vendor.asked[r] = None => ~InPipe(r)'
             /\ Worked(r) => \A i \in 1..Len(stdout') : stdout'[i].kind = "result" =>
                                \E j \in i..Len(stdout') : AskAt(stdout, j, r)'
  <2>1. ASSUME NEW i \in 1..Len(stdout'), NEW j \in 1..Len(stdout'),
               AskAt(stdout, i, r)', AskAt(stdout, j, r)'
        PROVE  i = j
    <3>1. /\ i + k \in 1..Len(stdout) /\ AskAt(stdout, i + k, r)
          /\ j + k \in 1..Len(stdout) /\ AskAt(stdout, j + k, r)
      BY <1>1, <2>1, Places DEF AskAt
    <3>2. i + k = j + k
      BY <3>1 DEF Orderly, AskedOnce
    <3> QED
      BY <1>1, <3>2
  <2>2. ASSUME vendor.asked[r] = None \/ InPipe(r)'
        PROVE  r \notin session'.pending /\ r \notin session'.told.shown /\ answers'[r] = <<>>
    <3>1. vendor.asked[r] = None \/ InPipe(r)
      BY <1>1, <2>2, AskedAtHead
    <3>2. ~Asks(m, r)
      BY <1>1, <2>2, AskedAtHead DEF Orderly, AskedOnce
    <3>3. r \notin session.pending /\ r \notin session.told.shown /\ answers[r] = <<>>
      BY <3>1 DEF Orderly, AskedOnce
    <3> QED
      BY <3>2, <3>3 DEF Thread, PendingMoves, AnswersMove
  <2>3. vendor.asked[r] = None => ~InPipe(r)'
    BY <1>1, AskedAtHead DEF Orderly, AskedOnce
  <2>4. ASSUME Worked(r), NEW i \in 1..Len(stdout'), stdout'[i].kind = "result"
        PROVE  \E j \in i..Len(stdout') : AskAt(stdout, j, r)'
    <3>1. i + k \in 1..Len(stdout) /\ stdout[i + k].kind = "result" /\ i + k > k
      BY <1>1, <2>4, Places
    <3>2. PICK j \in (i + k)..Len(stdout) : AskAt(stdout, j, r)
      BY <2>4, <3>1 DEF Orderly, AskedOnce
    <3>3. j \in 1..Len(stdout) /\ j >= i + k /\ j \in Int
      BY <3>1, <3>2
    <3>4. j # k
      BY <1>1, <3>1, <3>3
    <3>5. j - k \in i..Len(stdout') /\ stdout'[j - k] = stdout[j]
      BY <1>1, <3>1, <3>3, <3>4 DEF PipeMoves
    <3> QED
      BY <3>2, <3>5 DEF AskAt
  <2> QED
    BY <2>1, <2>2, <2>3, <2>4
<1>3. vendor'.asked = vendor.asked /\ \A r \in Requests : Worked(r)' <=> Worked(r)
  BY DEF Thread, VendorMoves, Worked
<1> QED
  BY <1>2, <1>3 DEF AskedOnce

\* What is written to the vendor stays, and the first answer is the first.
LEMMA AnswersGrow ==
    ASSUME Kept, NEW m, Thread(m), NEW r \in Requests
    PROVE  /\ \A i \in 1..Len(answers[r]) : i \in 1..Len(answers'[r]) /\ answers'[r][i] = answers[r][i]
           /\ answers[r] # <<>> => answers'[r] # <<>> /\ Verdict(r)' = Verdict(r)
           /\ answers[r] = <<>> /\ Verdict(r)' = "deny" => r \in session'.declined
<1>1. answers[r] \in Seq(Answer)
  BY DEF Kept, Answered
<1>2. CASE answers'[r] = answers[r]
  BY <1>2 DEF Verdict
<1>3. ASSUME NEW says \in Verdicts, answers'[r] = Append(answers[r], [by |-> "driver", says |-> says]),
             says = "deny" => r \in session'.declined
      PROVE  /\ \A i \in 1..Len(answers[r]) : i \in 1..Len(answers'[r]) /\ answers'[r][i] = answers[r][i]
             /\ answers[r] # <<>> => answers'[r] # <<>> /\ Verdict(r)' = Verdict(r)
             /\ answers[r] = <<>> /\ Verdict(r)' = "deny" => r \in session'.declined
  <2>1. /\ Len(answers'[r]) = Len(answers[r]) + 1 /\ answers'[r] # <<>>
        /\ \A i \in 1..Len(answers[r]) : answers'[r][i] = answers[r][i]
        /\ answers'[r][Len(answers[r]) + 1] = [by |-> "driver", says |-> says]
    BY <1>1, <1>3
  <2>2. Len(answers[r]) \in Nat /\ (answers[r] # <<>> => Len(answers[r]) >= 1)
    BY <1>1
  <2>3. Verdict(r)' = answers'[r][1].says
    BY <2>1 DEF Verdict
  <2>4. CASE answers[r] = <<>>
    <3>1. answers'[r][1] = [by |-> "driver", says |-> says]
      BY <2>1, <2>4
    <3>2. Verdict(r)' = says
      BY <2>3, <3>1
    <3> QED
      BY <1>3, <2>1, <2>2, <2>4, <3>2
  <2>5. CASE answers[r] # <<>>
    BY <2>1, <2>2, <2>3, <2>5 DEF Verdict
  <2> QED
    BY <2>4, <2>5
<1> QED
  BY <1>2, <1>3 DEF Thread, AnswersMove

LEMMA ToolOnceKept ==
    ASSUME Kept, Orderly, NEW m, Thread(m)
    PROVE  ToolOnce'
<1>1. PICK k \in {0, 1} : PipeMoves(k, m)
  BY DEF Thread
<1>2. ASSUME NEW r \in Requests
      PROVE  /\ \A i, j \in 1..Len(stdout') : ToolAt(stdout, i, r)' /\ ToolAt(stdout, j, r)' => i = j
             /\ r \in vendor.ran => answers'[r] # <<>>
             /\ \A j \in 1..Len(stdout') : ToolAt(stdout, j, r)' =>
                   /\ r \in vendor.ran /\ vendor.asked[r] # None
                   /\ \A i \in 1..Len(stdout') : stdout'[i].kind = "result" => j < i
                   /\ flavor = "acp" => vendor.asked[r] = session'.turn
  <2>1. ASSUME NEW i \in 1..Len(stdout'), NEW j \in 1..Len(stdout'),
               ToolAt(stdout, i, r)', ToolAt(stdout, j, r)'
        PROVE  i = j
    <3>1. /\ i + k \in 1..Len(stdout) /\ ToolAt(stdout, i + k, r)
          /\ j + k \in 1..Len(stdout) /\ ToolAt(stdout, j + k, r)
      BY <1>1, <2>1, Places DEF ToolAt
    <3>2. i + k = j + k
      BY <3>1 DEF Orderly, ToolOnce
    <3> QED
      BY <1>1, <3>2
  <2>2. r \in vendor.ran => answers'[r] # <<>>
    BY AnswersGrow DEF Orderly, ToolOnce
  <2>3. ASSUME NEW j \in 1..Len(stdout'), ToolAt(stdout, j, r)'
        PROVE  /\ r \in vendor.ran /\ vendor.asked[r] # None
               /\ \A i \in 1..Len(stdout') : stdout'[i].kind = "result" => j < i
               /\ flavor = "acp" => vendor.asked[r] = session'.turn
    <3>1. j + k \in 1..Len(stdout) /\ ToolAt(stdout, j + k, r)
      BY <1>1, <2>3, Places DEF ToolAt
    <3>2. /\ r \in vendor.ran /\ vendor.asked[r] # None
          /\ \A i \in 1..Len(stdout) : stdout[i].kind = "result" => j + k < i
          /\ flavor = "acp" => vendor.asked[r] = session.turn
      BY <3>1 DEF Orderly, ToolOnce
    <3>3. ASSUME NEW i \in 1..Len(stdout'), stdout'[i].kind = "result"
          PROVE  j < i
      <4>1. i + k \in 1..Len(stdout) /\ stdout[i + k].kind = "result"
        BY <1>1, <3>3, Places
      <4>2. j + k < i + k
        BY <3>2, <4>1
      <4> QED
        BY <1>1, <4>2
    <3>4. flavor = "acp" => session'.turn = session.turn
      BY <3>1 DEF Thread, TurnMoves, Quiet
    <3> QED
      BY <3>2, <3>3, <3>4
  <2> QED
    BY <2>1, <2>2, <2>3
<1>3. vendor'.asked = vendor.asked /\ vendor'.ran = vendor.ran /\ flavor' = flavor
  BY DEF Thread, VendorMoves
<1> QED
  BY <1>2, <1>3 DEF ToolOnce

LEMMA OneTurnKept ==
    ASSUME Kept, Orderly, NEW m, Thread(m)
    PROVE  OneTurn'
<1> SUFFICES ASSUME flavor = "acp"
             PROVE  /\ \A i \in 1..Len(vendor.work) : vendor.work[i] = session'.turn
                    /\ link'.at = "submit" => session'.turn = link'.prompt \/ ~vendor.up
  BY DEF OneTurn, Thread, VendorMoves
<1>1. \A i \in 1..Len(vendor.work) : vendor.work[i] = session'.turn
  <2>1. CASE session'.turn = session.turn
    BY <2>1 DEF Orderly, OneTurn
  <2>2. CASE session'.turn # session.turn
    <3>1. Len(vendor.work) = 0
      BY <2>2 DEF Thread, TurnMoves, Quiet
    <3> QED
      BY <3>1
  <2> QED
    BY <2>1, <2>2
<1>2. link'.at = "submit" => session'.turn = link'.prompt \/ ~vendor.up
  BY DEF Orderly, OneTurn, Thread, LinkMoves, TurnMoves
<1> QED
  BY <1>1, <1>2

LEMMA AnsweredOnceKept ==
    ASSUME Kept, Orderly, NEW m, Thread(m)
    PROVE  AnsweredOnce'
<1>1. PICK k \in {0, 1} : PipeMoves(k, m)
  BY DEF Thread
<1>2. ASSUME NEW r \in Requests
      PROVE  /\ \A i, j \in 1..Len(answers'[r]) : answers'[r][i].by = answers'[r][j].by => i = j
             /\ r \in session'.pending => \A i \in 1..Len(answers'[r]) : answers'[r][i].by # "driver"
  <2>1. \A i, j \in 1..Len(answers[r]) : answers[r][i].by = answers[r][j].by => i = j
    BY DEF Orderly, AnsweredOnce, OncePerThread
  <2>2. r \in session.pending \/ Asks(m, r) =>
          \A i \in 1..Len(answers[r]) : answers[r][i].by # "driver"
    <3>1. r \in session.pending => \A i \in 1..Len(answers[r]) : answers[r][i].by # "driver"
      BY DEF Orderly, AnsweredOnce
    <3>2. Asks(m, r) => Len(answers[r]) = 0
      BY <1>1, AskedAtHead
    <3> QED
      BY <3>1, <3>2
  <2>3. CASE answers'[r] = answers[r]
    BY <2>1, <2>2, <2>3 DEF Thread, PendingMoves
  <2>4. ASSUME r \notin session'.pending, r \in session.pending \/ Asks(m, r),
               NEW says, answers'[r] = Append(answers[r], [by |-> "driver", says |-> says])
        PROVE  \A i, j \in 1..Len(answers'[r]) : answers'[r][i].by = answers'[r][j].by => i = j
    <3>1. answers[r] \in Seq(Answer)
      BY DEF Kept, Answered
    <3>2. /\ Len(answers'[r]) = Len(answers[r]) + 1 /\ Len(answers[r]) \in Nat
          /\ \A i \in 1..Len(answers[r]) : answers'[r][i] = answers[r][i]
          /\ answers'[r][Len(answers[r]) + 1] = [by |-> "driver", says |-> says]
      BY <2>4, <3>1
    <3>3. answers'[r][Len(answers[r]) + 1].by = "driver"
      BY <3>2
    <3>4. \A i \in 1..Len(answers'[r]) :
             i = Len(answers[r]) + 1 \/ (i \in 1..Len(answers[r]) /\ answers'[r][i].by # "driver")
      BY <2>2, <2>4, <3>2
    <3> QED
      BY <2>1, <3>2, <3>3, <3>4
  <2> QED
    BY <2>3, <2>4 DEF Thread, AnswersMove
<1>3. session' \in Session => session'.pending \subseteq Requests
  BY DEF Session
<1>4. session'.pending \subseteq Requests
  <2>1. session.pending \subseteq Requests
    BY DEF Kept, Sound, Session
  <2>2. \A r \in session'.pending : r \in session.pending \/ Asks(m, r)
    BY DEF Thread, PendingMoves
  <2>3. Asks(m, m.request) => m.request \in Requests
    <3>1. stdout \in Seq(Message)
      BY DEF Kept
    <3>2. Asks(m, m.request) => m \in Message
      BY <1>1, <3>1 DEF PipeMoves, Asks
    <3> QED
      BY <3>2, MessageFields DEF Asks
  <2> QED
    BY <2>1, <2>2, <2>3 DEF Asks
<1>5. session'.late \subseteq session'.pending
  BY DEF Thread, PendingMoves
<1>6. link'.at \in {"respond", "forget"} => link'.request \in session'.told.shown
  BY DEF Thread, LinkMoves, PendingMoves, Orderly, AnsweredOnce
<1> QED
  BY <1>2, <1>4, <1>5, <1>6 DEF AnsweredOnce, OncePerThread

LEMMA ToolAtHead ==
    ASSUME Orderly, NEW m, Thread(m), NEW r \in Requests
    PROVE  /\ ToolDue(r)' => ToolDue(r)
           /\ Ends(m, r) => ToolDue(r) /\ ~ToolDue(r)' /\ answers[r] # <<>>
<1>1. PICK k \in {0, 1} : PipeMoves(k, m)
  BY DEF Thread
<1>2. Worked(r)' = Worked(r) /\ vendor'.ran = vendor.ran
  BY DEF Thread, VendorMoves, Worked
<1>3. ToolDue(r)' => ToolDue(r)
  <2>1. ASSUME NEW i \in 1..Len(stdout'), ToolAt(stdout, i, r)'
        PROVE  ToolDue(r)
    <3>1. i + k \in 1..Len(stdout) /\ ToolAt(stdout, i + k, r)
      BY <1>1, <2>1, Places DEF ToolAt
    <3> QED
      BY <3>1 DEF ToolDue
  <2> QED
    BY <1>2, <2>1 DEF ToolDue
<1>4. ASSUME Ends(m, r)
      PROVE  ToolDue(r) /\ ~ToolDue(r)' /\ answers[r] # <<>>
  <2>1. k = 1 /\ 1 \in 1..Len(stdout) /\ ToolAt(stdout, 1, r)
    BY <1>1, <1>4 DEF PipeMoves, Ends, ToolAt
  <2>2. r \in vendor.ran /\ answers[r] # <<>>
    BY <2>1 DEF Orderly, ToolOnce
  <2>3. ASSUME NEW i \in 1..Len(stdout'), ToolAt(stdout, i, r)'
        PROVE  FALSE
    <3>1. i + k \in 1..Len(stdout) /\ ToolAt(stdout, i + k, r) /\ i + k # 1
      BY <1>1, <2>1, <2>3, Places DEF ToolAt
    <3> QED
      BY <2>1, <3>1 DEF Orderly, ToolOnce
  <2> QED
    BY <1>2, <2>1, <2>2, <2>3 DEF ToolDue
<1> QED
  BY <1>3, <1>4

LEMMA NotedKept ==
    ASSUME Kept, Orderly, NEW m, Thread(m)
    PROVE  Noted'
<1>1. ASSUME NEW r \in Requests, ToolDue(r), r \in session.declined, r \notin session'.declined
      PROVE  Ends(m, r)
  <2>1. ~Quiet
    BY <1>1 DEF ToolDue, Quiet, Worked
  <2> QED
    BY <1>1, <2>1 DEF Thread, DeclinedMoves
<1>2. ASSUME NEW r \in Requests, Verdict(r)' = "deny", ToolDue(r)'
      PROVE  r \in session'.declined
  <2>1. CASE answers[r] = <<>>
    BY <1>2, <2>1, AnswersGrow
  <2>2. CASE answers[r] # <<>>
    <3>1. Verdict(r) = "deny" /\ ToolDue(r)
      BY <1>2, <2>2, AnswersGrow, ToolAtHead
    <3>2. r \in session.declined
      BY <3>1 DEF Orderly, Noted
    <3>3. ~Ends(m, r)
      BY <1>2, ToolAtHead
    <3> QED
      BY <1>1, <3>1, <3>2, <3>3
  <2> QED
    BY <2>1, <2>2
<1>3. ASSUME NEW r \in Requests, session'.told.tools[r] = "failed"
      PROVE  answers'[r] # <<>> /\ Verdict(r)' # "deny"
  <2>1. answers[r] # <<>> /\ Verdict(r) # "deny"
    <3>1. CASE session.told.tools[r] = "failed"
      BY <3>1 DEF Orderly, Noted
    <3>2. CASE Ends(m, r) /\ r \notin session.declined
      BY <3>2, ToolAtHead DEF Orderly, Noted
    <3> QED
      BY <1>3, <3>1, <3>2 DEF Thread, DeclinedMoves
  <2> QED
    BY <2>1, AnswersGrow
<1>4. ASSUME link'.at = "respond", ~link'.allow, answers'[link'.request] = <<>>, Worked(link.request)'
      PROVE  link'.request \in session'.declined
  <2>1. link' = link /\ link.request \in Requests
    BY <1>4, LinkFields DEF Thread, LinkMoves, Kept
  <2>2. PICK r \in Requests : r = link.request
    BY <2>1
  <2>3. answers[r] = <<>> /\ Worked(r)
    <3>1. answers'[r] = <<>> /\ vendor'.work # <<>> /\ vendor'.asked[r] = Head(vendor'.work)
      BY <1>4, <2>1, <2>2 DEF Worked
    <3> QED
      BY <3>1, AnswersGrow DEF Worked, Thread, VendorMoves
  <2>4. r \in session.declined
    BY <1>4, <2>1, <2>2, <2>3 DEF Orderly, Noted
  <2>5. r \notin vendor.ran
    BY <2>3 DEF Orderly, ToolOnce
  <2>6. ToolDue(r) /\ ~Ends(m, r)
    BY <2>3, <2>5, ToolAtHead DEF ToolDue
  <2> QED
    BY <1>1, <2>1, <2>2, <2>4, <2>6
<1> QED
  BY <1>2, <1>3, <1>4 DEF Noted

LEMMA NoStallKept ==
    ASSUME Kept, Orderly, NEW m, Thread(m)
    PROVE  NoStall'
<1>1. PICK k \in {0, 1} : PipeMoves(k, m)
  BY DEF Thread
<1>2. ASSUME NEW r \in Requests, Stalls(r)'
      PROVE  r \in session'.pending
  <2>1. Worked(r) /\ Alive /\ answers'[r] = <<>> /\ ~InPipe(r)'
    BY <1>2 DEF Stalls, Worked, Thread, VendorMoves, Alive
  <2>2. answers[r] = <<>>
    BY <2>1, AnswersGrow
  <2>3. r \in session.pending \/ Asks(m, r)
    <3>1. InPipe(r) => Asks(m, r)
      BY <1>1, <2>1, AskedAtHead
    <3>2. ~InPipe(r) => Stalls(r)
      BY <2>1, <2>2 DEF Stalls, Worked
    <3> QED
      BY <3>1, <3>2 DEF Orderly, NoStall
  <2>4. m.kind # "result"
    <3>1. SUFFICES ASSUME m.kind = "result" PROVE FALSE
      OBVIOUS
    <3>2. k = 1 /\ 1 \in 1..Len(stdout) /\ stdout[1].kind = "result"
      BY <1>1, <3>1 DEF PipeMoves
    <3>3. PICK j \in 1..Len(stdout) : AskAt(stdout, j, r)
      BY <2>1, <3>2 DEF Orderly, AskedOnce
    <3>4. InPipe(r)
      BY <3>3 DEF InPipe, AskAt
    <3>5. Asks(m, r)
      BY <1>1, <2>1, <3>4, AskedAtHead
    <3> QED
      BY <3>1, <3>5 DEF Asks
  <2> QED
    BY <2>1, <2>3, <2>4 DEF Thread, NoneDropped
<1> QED
  BY <1>2 DEF NoStall

LEMMA TurnsKeptOn ==
    ASSUME Kept, Orderly, NEW m, Thread(m)
    PROVE  TurnAccepted' /\ TurnDue' /\ InterruptSpent'
<1>1. PICK k \in {0, 1} : PipeMoves(k, m)
  BY DEF Thread
<1>2. session'.turn # None => session'.turn = session.turn /\ ~Finishes(m)
  BY DEF Thread, TurnMoves
<1>3. TurnAccepted'
  <2>1. SUFFICES ASSUME session'.turn # None
                 PROVE  \/ outcome'[session'.turn] = "accepted"
                        \/ link'.at = "submit" /\ link'.prompt = session'.turn /\ link'.starts
    BY DEF TurnAccepted
  <2>2. session'.turn = session.turn /\ session.turn \in Prompts
    BY <1>2, <2>1 DEF Kept, Sound, Session
  <2> QED
    BY <2>1, <2>2 DEF Orderly, TurnAccepted, Thread, LinkMoves
<1>4. TurnDue'
  <2>1. SUFFICES ASSUME session'.turn # None, Alive'
                 PROVE  \/ link'.at = "submit" /\ (flavor = "acp" => link'.prompt = session'.turn)
                        \/ \E i \in 1..Len(vendor.work) : flavor = "acp" => vendor.work[i] = session'.turn
                        \/ \E i \in 1..Len(stdout') : /\ stdout'[i].kind = "result"
                                                      /\ flavor = "acp" => stdout'[i].prompt = session'.turn
    BY DEF TurnDue, Thread, VendorMoves
  <2>2. session'.turn = session.turn /\ Alive /\ ~Finishes(m)
    BY <1>2, <2>1 DEF Thread, VendorMoves
  <2>3. link.at = "submit" => link' = link
    BY <2>2 DEF Thread, LinkMoves
  <2>4. ASSUME NEW i \in 1..Len(stdout), stdout[i].kind = "result",
               flavor = "acp" => stdout[i].prompt = session.turn
        PROVE  \E j \in 1..Len(stdout') : /\ stdout'[j].kind = "result"
                                          /\ flavor = "acp" => stdout'[j].prompt = session'.turn
    <3>1. ~(stdout[i] = m)
      BY <2>2, <2>4 DEF Finishes
    <3>2. i - k \in 1..Len(stdout') /\ stdout'[i - k] = stdout[i]
      BY <1>1, <3>1, Places
    <3> QED
      BY <2>2, <2>4, <3>2
  <2> QED
    BY <2>1, <2>2, <2>3, <2>4 DEF Orderly, TurnDue
<1>5. InterruptSpent'
  BY DEF InterruptSpent, Thread, TurnMoves
<1> QED
  BY <1>3, <1>4, <1>5

\* Whatever a thread of the host does within these bounds keeps the invariant.
LEMMA ThreadKeeps ==
    ASSUME Kept, Orderly, NEW m, Thread(m)
    PROVE  Orderly'
  BY WorkedOnceKept, AskedOnceKept, ToolOnceKept, OneTurnKept, AnsweredOnceKept, NotedKept,
     NoStallKept, TurnsKeptOn DEF Orderly

-----------------------------------------------------------------------------
(* What each thread does stays within these bounds.                        *)

Nothing == [kind |-> "none"]

LEMMA PipeRests ==
    ASSUME Kept, UNCHANGED stdout
    PROVE  PipeMoves(0, Nothing)
<1>1. Len(stdout) \in Nat
  BY DEF Kept
<1> QED
  BY <1>1 DEF PipeMoves, Nothing

LEMMA PipeRead ==
    ASSUME Kept, stdout # <<>>, stdout' = Tail(stdout)
    PROVE  /\ PipeMoves(1, Head(stdout)) /\ Head(stdout) \in Message
           /\ 1 \in 1..Len(stdout) /\ stdout[1] = Head(stdout)
<1>1. /\ stdout \in Seq(Message) /\ Len(stdout) \in Nat /\ Len(stdout) >= 1
      /\ Head(stdout) = stdout[1] /\ Head(stdout) \in Message
  BY DEF Kept
<1>2. /\ Len(Tail(stdout)) = Len(stdout) - 1
      /\ \A i \in 1..Len(Tail(stdout)) : Tail(stdout)[i] = stdout[i + 1]
  BY <1>1
<1> QED
  BY <1>1, <1>2 DEF PipeMoves

LEMMA NothingFields ==
    /\ Nothing.kind = "none"
    /\ ~Finishes(Nothing)
    /\ \A r \in Requests : ~Asks(Nothing, r) /\ ~Ends(Nothing, r)
  BY DEF Nothing, Finishes, Asks, Ends

\* Where neither what the driver holds of requests and turns nor the vendor changes.
LEMMA ThreadRests ==
    ASSUME Kept, Orderly, UNCHANGED <<flavor, session, vendor, stdout, answers>>, LinkMoves
    PROVE  Orderly'
<1>1. PipeMoves(0, Nothing)
  BY PipeRests
<1>2. VendorMoves /\ PendingMoves(Nothing) /\ AnswersMove(Nothing)
  BY DEF VendorMoves, PendingMoves, AnswersMove, Orderly, AnsweredOnce, Alive
<1>3. NoneDropped(Nothing) /\ DeclinedMoves(Nothing) /\ TurnMoves(Nothing)
  BY NothingFields DEF NoneDropped, DeclinedMoves, TurnMoves, Orderly, InterruptSpent
<1>4. Thread(Nothing)
  BY <1>1, <1>2, <1>3 DEF Thread
<1> QED
  BY <1>4, ThreadKeeps

\* An outcome that is reported takes no accepted prompt back.
LEMMA ReportKeepsAccepted ==
    ASSUME Kept, NEW x \in Prompts \cup Requests, NEW o, Reports(x, o),
           x \in Requests \/ outcome[x] # "accepted" \/ o = "accepted"
    PROVE  \A p \in Prompts : outcome[p] = "accepted" => outcome'[p] = "accepted"
  BY VendorAssumption DEF Kept, Reports

\* A prompt that is being written is not yet the vendor's: its turn has no tool due.
LEMMA QuietBefore ==
    ASSUME Faithful, Orderly, flavor = "acp", link.at = "submit", session.turn = link.prompt
    PROVE  Quiet
<1>1. link.prompt \in Prompts /\ link.prompt \notin vendor.got
  BY LinkFields DEF Faithful, Kept, Honest
<1>2. vendor.work = <<>>
  <2>1. vendor.work \in Seq(Prompts)
    BY DEF Faithful, Kept, Vendor
  <2>2. vendor.work # <<>> => 1 \in 1..Len(vendor.work)
    BY <2>1
  <2> QED
    BY <1>1, <2>2 DEF Orderly, OneTurn, WorkedOnce
<1>3. ASSUME NEW r \in Requests, NEW i \in 1..Len(stdout), ToolAt(stdout, i, r)
      PROVE  FALSE
  <2>1. vendor.asked[r] # None /\ vendor.asked[r] = link.prompt
    BY <1>3 DEF Orderly, ToolOnce
  <2> QED
    BY <1>1, <2>1 DEF Orderly, WorkedOnce
<1> QED
  BY <1>2, <1>3 DEF Quiet

\* When an agent answers its prompt, no tool of it is due, and nothing is being submitted.
LEMMA QuietAfter ==
    ASSUME Faithful, Orderly, flavor = "acp", 1 \in 1..Len(stdout),
           ResultOf(stdout, 1, session.turn), session.turn \in Prompts
    PROVE  Quiet /\ (link.at = "submit" => ~vendor.up)
<1>1. session.turn \in vendor.got /\ \A j \in 1..Len(vendor.work) : vendor.work[j] # session.turn
  BY DEF Orderly, WorkedOnce
<1>2. vendor.work = <<>>
  <2>1. vendor.work \in Seq(Prompts)
    BY DEF Faithful, Kept, Vendor
  <2>2. vendor.work # <<>> => 1 \in 1..Len(vendor.work)
    BY <2>1
  <2> QED
    BY <1>1, <2>2 DEF Orderly, OneTurn
<1>3. ASSUME NEW r \in Requests, NEW i \in 1..Len(stdout), ToolAt(stdout, i, r)
      PROVE  FALSE
  <2>1. stdout[1].kind = "result"
    BY DEF ResultOf
  <2>2. i < 1
    BY <1>3, <2>1 DEF Orderly, ToolOnce
  <2> QED
    BY <2>2
<1>4. link.at = "submit" => ~vendor.up
  <2>1. link.at = "submit" => link.prompt \in Prompts /\ link.prompt \notin vendor.got
    BY LinkFields DEF Faithful, Kept, Honest
  <2> QED
    BY <1>1, <2>1 DEF Orderly, OneTurn
<1> QED
  BY <1>2, <1>3, <1>4 DEF Quiet

\* A process that has gone has no tool to end once its output is read.
LEMMA QuietGone ==
    ASSUME Orderly, ~vendor.up, stdout = <<>>
    PROVE  Quiet /\ ~Alive
<1>1. Len(stdout) = 0
  OBVIOUS
<1> QED
  BY <1>1 DEF Orderly, WorkedOnce, Quiet, Alive

\* What the driver writes for the requests in rs.
LEMMA WrittenAnswers ==
    ASSUME NEW rs, NEW says, NEW r \in Requests
    PROVE  /\ Written(rs, "driver", says)[r] =
                IF Alive /\ r \in rs THEN Append(answers[r], [by |-> "driver", says |-> says])
                ELSE answers[r]
  BY DEF Written

\* An append is not empty.
LEMMA SomethingWritten ==
    ASSUME Kept, NEW r \in Requests, NEW e
    PROVE  Append(answers[r], e) # <<>>
<1>1. answers[r] \in Seq(Answer)
  BY DEF Kept, Answered
<1> QED
  BY <1>1

LEMMA ClaudeReadKeeps ==
    ASSUME Faithful, Orderly, flavor = "claude", ClaudeRead
    PROVE  Orderly'
<1> DEFINE m   == Head(stdout)
           fed == ClaudeFeed(session, m)
           refused == m.kind = "ask" /\ ClaudeRefuses(session, m)
<1>0. Kept /\ Sound(session) /\ session \in Session
  BY DEF Faithful, Kept, Sound
<1>1. stdout # <<>> /\ stdout' = Tail(stdout) /\ session' = ClaudeExpire(fed)
      /\ answers' = ClaudeAnswers(m, fed) /\ UNCHANGED <<flavor, link, vendor, outcome>>
  BY DEF ClaudeRead
<1>2. PipeMoves(1, m) /\ m \in Message /\ 1 \in 1..Len(stdout) /\ stdout[1] = m
  BY <1>0, <1>1, PipeRead
<1>3. \A r \in Requests : Asks(m, r) =>
          r \notin session.pending /\ answers[r] = <<>>
  BY <1>2, AskedAtHead
<1>4. session.late \subseteq session.pending
  BY DEF Orderly, AnsweredOnce
<1>5. fed \in Session
  BY <1>0, <1>2, FeedSound DEF Sound
<1>6. /\ m.kind = "result" => fed.pending = {} /\ fed.late = {}
      /\ m.kind # "result" => /\ fed.late = session.late
                              /\ fed.pending = IF m.kind = "ask" /\ ~refused THEN session.pending \cup {m.request}
                                               ELSE session.pending
      /\ fed.declined = IF m.kind = "tool" THEN session.declined \ {m.request}
                        ELSE IF refused /\ m.about # "other" THEN session.declined \cup {m.request}
                        ELSE session.declined
      /\ fed.turn = IF m.kind = "result" THEN None ELSE session.turn
      /\ fed.interrupting = IF m.kind = "result" THEN FALSE ELSE session.interrupting
      /\ fed.told.shown = IF m.kind = "ask" /\ ~refused THEN session.told.shown \cup {m.request}
                          ELSE session.told.shown
      /\ \A r \in Requests : fed.told.tools[r] =
            IF m.kind = "tool" /\ r = m.request THEN ToolStatus(session, m) ELSE session.told.tools[r]
  BY <1>0, <1>2, <1>4, ClaudeFeedFields
<1>7. /\ session'.pending = fed.pending \ fed.late /\ session'.late = {}
      /\ session'.declined = fed.declined \cup fed.late /\ session'.turn = fed.turn
      /\ session'.interrupting = fed.interrupting
      /\ session'.told.shown = fed.told.shown /\ session'.told.tools = fed.told.tools
  BY <1>1, <1>5, ExpireFields
<1>8. \A r \in Requests : answers'[r] =
         IF r \in fed.late THEN Written(fed.late, "driver", "deny")[r]
         ELSE Written(IF refused THEN {m.request} ELSE {}, "driver",
                      IF m.kind = "ask" /\ m.about = "other" THEN "error" ELSE "deny")[r]
  BY <1>1 DEF ClaudeAnswers, Expired
<1>9. \A r \in Requests : answers'[r] =
         IF Alive /\ r \in fed.late THEN Append(answers[r], [by |-> "driver", says |-> "deny"])
         ELSE IF Alive /\ refused /\ r = m.request
         THEN Append(answers[r], [by |-> "driver", says |->
                                    IF m.kind = "ask" /\ m.about = "other" THEN "error" ELSE "deny"])
         ELSE answers[r]
  <2> HIDE DEF fed, m, refused
  <2>1. ASSUME NEW r \in Requests
        PROVE  answers'[r] =
         IF Alive /\ r \in fed.late THEN Append(answers[r], [by |-> "driver", says |-> "deny"])
         ELSE IF Alive /\ refused /\ r = m.request
         THEN Append(answers[r], [by |-> "driver", says |->
                                    IF m.kind = "ask" /\ m.about = "other" THEN "error" ELSE "deny"])
         ELSE answers[r]
    <3>1. CASE r \in fed.late
      BY <1>8, <3>1, WrittenAnswers, <1>6, <1>3, <1>4 DEF Asks, refused
    <3>2. CASE r \notin fed.late
      BY <1>8, <3>2, WrittenAnswers
    <3> QED
      BY <3>1, <3>2
  <2> QED
    BY <2>1
<1> HIDE DEF fed, m
<1>10. VendorMoves /\ LinkMoves
  BY <1>1 DEF VendorMoves, LinkMoves, Alive
<1>11. PendingMoves(m)
  BY <1>6, <1>7 DEF PendingMoves, Asks
<1>12. AnswersMove(m)
  <2>1. ASSUME NEW r \in Requests, Alive, r \in fed.late
        PROVE  r \in session.pending /\ r \notin session'.pending /\ r \in session'.declined
    BY <1>4, <1>6, <1>7, <2>1
  <2>2. ASSUME NEW r \in Requests, refused, r = m.request
        PROVE  Asks(m, r) /\ r \notin session'.pending /\ (m.about # "other" => r \in session'.declined)
    BY <1>3, <1>6, <1>7, <2>2 DEF Asks
  <2> QED
    BY <1>9, <2>1, <2>2 DEF AnswersMove, Verdicts
<1>13. NoneDropped(m)
  <2>1. ASSUME NEW r \in Requests, Alive, r \in session.pending \/ Asks(m, r),
               r \notin session'.pending, m.kind # "result"
        PROVE  r \in fed.late \/ (refused /\ r = m.request)
    BY <1>6, <1>7, <2>1 DEF Asks
  <2>2. \A r \in Requests : \A says : Append(answers[r], [by |-> "driver", says |-> says]) # <<>>
    BY <1>0, SomethingWritten
  <2>3. ASSUME NEW r \in Requests, Alive, r \in fed.late \/ (refused /\ r = m.request)
        PROVE  answers'[r] # <<>>
    BY <1>9, <2>2, <2>3
  <2> QED
    BY <2>1, <2>3 DEF NoneDropped
<1>14. DeclinedMoves(m)
  <2>1. \A r \in session.declined : r \in session'.declined \/ Ends(m, r)
    BY <1>2, <1>6, <1>7 DEF Ends
  <2>2. ASSUME NEW r \in Requests, session'.told.tools[r] = "failed", session.told.tools[r] # "failed"
        PROVE  Ends(m, r) /\ r \notin session.declined
    BY <1>6, <1>7, <2>2 DEF Ends, ToolStatus
  <2> QED
    BY <2>1, <2>2 DEF DeclinedMoves
<1>15. TurnMoves(m)
  BY <1>6, <1>7 DEF TurnMoves, Finishes, Orderly, InterruptSpent
<1>16. Thread(m)
  BY <1>2, <1>10, <1>11, <1>12, <1>13, <1>14, <1>15 DEF Thread
<1> QED
  BY <1>0, <1>16, ThreadKeeps

LEMMA AcpReadKeeps ==
    ASSUME Faithful, Orderly, flavor = "acp", AcpRead
    PROVE  Orderly'
<1> DEFINE m   == Head(stdout)
           fed == AcpFeed(session, m)
           refused == m.kind = "ask" /\ AcpRefuses(session, m)
           ends == AcpFinished(session, m)
<1>0. Kept /\ Sound(session) /\ session \in Session
  BY DEF Faithful, Kept, Sound
<1>1. /\ stdout # <<>> /\ stdout' = Tail(stdout) /\ session' = AcpExpire(fed)
      /\ answers' = AcpAnswers(m, fed)
      /\ vendor' = [vendor EXCEPT !.closed = @ \/ m.kind = "refused"]
      /\ UNCHANGED <<flavor, link, outcome>>
  BY DEF AcpRead
<1>2. PipeMoves(1, m) /\ m \in Message /\ 1 \in 1..Len(stdout) /\ stdout[1] = m
  BY <1>0, <1>1, PipeRead
<1>3. \A r \in Requests : Asks(m, r) =>
          r \notin session.pending /\ answers[r] = <<>>
  BY <1>2, AskedAtHead
<1>4. session.late \subseteq session.pending
  BY DEF Orderly, AnsweredOnce
<1>5. fed \in Session
  BY <1>0, <1>2, FeedSound DEF Sound
<1>6. /\ ends => fed.pending = {} /\ fed.late = {} /\ fed.declined = {}
      /\ ~ends =>
            /\ fed.late = session.late
            /\ fed.pending = IF m.kind = "ask" /\ ~refused THEN session.pending \cup {m.request}
                             ELSE session.pending
            /\ fed.declined = IF m.kind = "tool" THEN session.declined \ {m.request}
                              ELSE IF refused /\ m.about # "other" THEN session.declined \cup {m.request}
                              ELSE session.declined
      /\ fed.turn = IF ends THEN None ELSE session.turn
      /\ fed.interrupting = IF ends THEN FALSE ELSE session.interrupting
      /\ fed.told.shown = IF m.kind = "ask" /\ ~refused THEN session.told.shown \cup {m.request}
                          ELSE session.told.shown
      /\ \A r \in Requests : fed.told.tools[r] =
            IF m.kind = "tool" /\ r = m.request THEN ToolStatus(session, m) ELSE session.told.tools[r]
  BY <1>0, <1>2, <1>4, AcpFeedFields
<1>7. /\ session'.pending = fed.pending \ fed.late /\ session'.late = {}
      /\ session'.declined = fed.declined \cup fed.late /\ session'.turn = fed.turn
      /\ session'.interrupting = fed.interrupting
      /\ session'.told.shown = fed.told.shown /\ session'.told.tools = fed.told.tools
  BY <1>1, <1>5, ExpireFields
<1>8. m.kind = "ask" => m.request \in Requests
  BY <1>2, MessageFields
<1>9. ends => m.kind = "result" /\ m.prompt = session.turn /\ session.turn \in Prompts
  BY <1>2 DEF AcpFinished, Message
<1>10. \A r \in Requests :
         /\ r \in fed.late /\ ~refused /\ ~ends =>
              answers'[r] = Written({r}, "driver", AcpRefusal(r, fed.options[r]))[r]
         /\ r \notin fed.late /\ ~refused /\ ~ends => answers'[r] = answers[r]
         /\ refused /\ r # m.request =>
              answers'[r] = IF r \in fed.late
                            THEN Written({r}, "driver", AcpRefusal(r, fed.options[r]))[r] ELSE answers[r]
         /\ refused /\ r = m.request =>
              answers'[r] = Written({r}, "driver", IF m.about = "other" THEN "error"
                                                   ELSE AcpRefusal(r, m.options))[r]
         /\ ends => answers'[r] = Written(session.pending, "driver", "cancelled")[r]
  BY <1>1, <1>8, <1>9 DEF AcpAnswers, AcpExpiries, Expired
<1> HIDE DEF fed, m, refused, ends
<1>20. refused => m.kind = "ask"
  BY DEF refused
<1>11. ASSUME NEW r \in Requests
       PROVE  \/ answers'[r] = answers[r]
                 /\ (Alive => r \notin fed.late /\ ~(refused /\ r = m.request) /\ ~(ends /\ r \in session.pending))
              \/ /\ r \in fed.late \/ (refused /\ r = m.request) \/ (ends /\ r \in session.pending)
                 /\ \E says \in Verdicts :
                       /\ answers'[r] = Append(answers[r], [by |-> "driver", says |-> says])
                       /\ says = "deny" => r \in fed.late \/ (refused /\ m.about # "other" /\ r = m.request)
  <2>1. \A options : AcpRefusal(r, options) \in Verdicts
    BY DEF AcpRefusal, Verdicts
  <2>2. "error" \in Verdicts /\ "cancelled" \in Verdicts
    BY DEF Verdicts
  <2>3. CASE refused /\ r = m.request
    <3>1. Asks(m, r) /\ ~ends /\ r \notin session.pending
      BY <1>3, <1>9, <1>20, <2>3 DEF Asks
    <3>2. r \notin fed.late
      BY <1>4, <1>6, <3>1
    <3>3. CASE m.about = "other"
      <4>1. answers'[r] = Written({r}, "driver", "error")[r]
        BY <1>10, <2>3, <3>3
      <4>8. CASE Alive
        <5>1. answers'[r] = Append(answers[r], [by |-> "driver", says |-> "error"])
          BY <4>1, <4>8, WrittenAnswers
        <5> QED
          BY <2>2, <2>3, <3>1, <3>2, <5>1
      <4>9. CASE ~Alive
        <5>1. answers'[r] = answers[r]
          BY <4>1, <4>9, WrittenAnswers
        <5> QED
          BY <4>9, <5>1
      <4> QED
        BY <4>8, <4>9
    <3>4. CASE m.about # "other"
      <4>1. answers'[r] = Written({r}, "driver", AcpRefusal(r, m.options))[r]
        BY <1>10, <2>3, <3>4
      <4>8. CASE Alive
        <5>1. answers'[r] = Append(answers[r], [by |-> "driver", says |-> AcpRefusal(r, m.options)])
          BY <4>1, <4>8, WrittenAnswers
        <5> QED
          BY <2>1, <2>3, <3>1, <3>2, <3>4, <5>1
      <4>9. CASE ~Alive
        <5>1. answers'[r] = answers[r]
          BY <4>1, <4>9, WrittenAnswers
        <5> QED
          BY <4>9, <5>1
      <4> QED
        BY <4>8, <4>9
    <3> QED
      BY <3>3, <3>4
  <2>4. CASE ~(refused /\ r = m.request) /\ ~ends
    <3>1. CASE r \in fed.late
      <4>1. answers'[r] = Written({r}, "driver", AcpRefusal(r, fed.options[r]))[r]
        BY <1>10, <2>4, <3>1
      <4>8. CASE Alive
        <5>1. answers'[r] = Append(answers[r], [by |-> "driver", says |-> AcpRefusal(r, fed.options[r])])
          BY <4>1, <4>8, WrittenAnswers
        <5> QED
          BY <2>1, <2>4, <3>1, <5>1
      <4>9. CASE ~Alive
        <5>1. answers'[r] = answers[r]
          BY <4>1, <4>9, WrittenAnswers
        <5> QED
          BY <4>9, <5>1
      <4> QED
        BY <4>8, <4>9
    <3>2. CASE r \notin fed.late
      BY <1>10, <2>4, <3>2
    <3> QED
      BY <3>1, <3>2
  <2>5. CASE ends
    <3>1. answers'[r] = Written(session.pending, "driver", "cancelled")[r]
      BY <1>10, <2>5
    <3>2. fed.late = {} /\ ~refused
      BY <1>6, <1>9, <1>20, <2>5
    <3>3. CASE Alive /\ r \in session.pending
      <4>1. answers'[r] = Append(answers[r], [by |-> "driver", says |-> "cancelled"])
        BY <3>1, <3>3, WrittenAnswers
      <4> QED
        BY <2>2, <2>5, <3>2, <3>3, <4>1
    <3>4. CASE ~(Alive /\ r \in session.pending)
      <4>1. answers'[r] = answers[r]
        BY <3>1, <3>4, WrittenAnswers
      <4> QED
        BY <2>5, <3>2, <3>4, <4>1
    <3> QED
      BY <3>3, <3>4
  <2> QED
    BY <2>3, <2>4, <2>5
<1>12. VendorMoves /\ LinkMoves
  BY <1>0, <1>1 DEF VendorMoves, LinkMoves, Alive, Kept, Vendor
<1>13. PendingMoves(m)
  BY <1>6, <1>7, <1>9 DEF PendingMoves, Asks
<1>14. AnswersMove(m)
  <2>1. ASSUME NEW r \in Requests, r \in fed.late
        PROVE  r \in session.pending /\ r \notin session'.pending /\ r \in session'.declined
    BY <1>4, <1>6, <1>7, <2>1
  <2>2. ASSUME NEW r \in Requests, refused, r = m.request
        PROVE  Asks(m, r) /\ r \notin session'.pending /\ (m.about # "other" => r \in session'.declined)
    BY <1>3, <1>6, <1>7, <1>9, <2>2 DEF Asks, refused
  <2>3. ends => session'.pending = {}
    BY <1>6, <1>7
  <2> QED
    BY <1>11, <2>1, <2>2, <2>3 DEF AnswersMove
<1>15. NoneDropped(m)
  <2>1. ASSUME NEW r \in Requests, Alive, r \in session.pending \/ Asks(m, r),
               r \notin session'.pending, m.kind # "result"
        PROVE  r \in fed.late \/ (refused /\ r = m.request)
    BY <1>6, <1>7, <1>9, <2>1 DEF Asks, refused
  <2>2. \A r \in Requests : \A says : Append(answers[r], [by |-> "driver", says |-> says]) # <<>>
    BY <1>0, SomethingWritten
  <2>3. ASSUME NEW r \in Requests, Alive, r \in fed.late \/ (refused /\ r = m.request)
        PROVE  answers'[r] # <<>>
    BY <1>11, <2>2, <2>3
  <2> QED
    BY <2>1, <2>3 DEF NoneDropped
<1>16. ends => Quiet /\ (link.at = "submit" => ~vendor.up)
  BY <1>2, <1>9, QuietAfter DEF ResultOf
<1>17. DeclinedMoves(m)
  <2>1. \A r \in session.declined : r \in session'.declined \/ Ends(m, r) \/ Quiet
    BY <1>2, <1>6, <1>7, <1>16 DEF Ends
  <2>2. ASSUME NEW r \in Requests, session'.told.tools[r] = "failed", session.told.tools[r] # "failed"
        PROVE  Ends(m, r) /\ r \notin session.declined
    BY <1>6, <1>7, <2>2 DEF Ends, ToolStatus
  <2> QED
    BY <2>1, <2>2 DEF DeclinedMoves
<1>18. TurnMoves(m)
  <2>1. ends <=> Finishes(m)
    BY DEF AcpFinished, Finishes, ends
  <2> QED
    BY <1>1, <1>6, <1>7, <1>16, <2>1 DEF TurnMoves, Orderly, InterruptSpent
<1>19. Thread(m)
  BY <1>2, <1>12, <1>13, <1>14, <1>15, <1>17, <1>18 DEF Thread
<1> QED
  BY <1>0, <1>19, ThreadKeeps

\* The idle reader of both drivers: what is late is refused and settled.
LEMMA ExpiryKeeps ==
    ASSUME Faithful, Orderly, session' = ClaudeExpire(session),
           \A r \in Requests : IF r \in session.late /\ Alive
                               THEN \E says \in Verdicts :
                                       answers'[r] = Append(answers[r], [by |-> "driver", says |-> says])
                               ELSE answers'[r] = answers[r],
           UNCHANGED <<flavor, link, vendor, stdout, outcome>>
    PROVE  Orderly'
<1>1. Kept /\ session \in Session /\ session.late \subseteq session.pending
  BY DEF Faithful, Kept, Sound, Orderly, AnsweredOnce
<1>2. /\ session'.pending = session.pending \ session.late /\ session'.late = {}
      /\ session'.declined = session.declined \cup session.late
      /\ session'.turn = session.turn /\ session'.interrupting = session.interrupting
      /\ session'.told.shown = session.told.shown /\ session'.told.tools = session.told.tools
  BY <1>1, ExpireFields
<1>3. PipeMoves(0, Nothing)
  BY <1>1, PipeRests
<1>4. VendorMoves /\ LinkMoves
  BY DEF VendorMoves, LinkMoves, Alive
<1>5. PendingMoves(Nothing)
  BY <1>2 DEF PendingMoves
<1>6. AnswersMove(Nothing)
  BY <1>1, <1>2 DEF AnswersMove
<1>7. NoneDropped(Nothing)
  <2>1. \A r \in Requests : \A says : Append(answers[r], [by |-> "driver", says |-> says]) # <<>>
    BY <1>1, SomethingWritten
  <2> QED
    BY <1>2, <2>1, NothingFields DEF NoneDropped
<1>8. DeclinedMoves(Nothing) /\ TurnMoves(Nothing)
  BY <1>2, NothingFields DEF DeclinedMoves, TurnMoves, Orderly, InterruptSpent
<1>9. Thread(Nothing)
  BY <1>3, <1>4, <1>5, <1>6, <1>7, <1>8 DEF Thread
<1> QED
  BY <1>1, <1>9, ThreadKeeps

LEMMA IdleKeeps ==
    ASSUME Faithful, Orderly, ClaudeIdle \/ AcpIdle
    PROVE  Orderly'
<1>1. session' = ClaudeExpire(session)
  BY ExpireFields DEF ClaudeIdle, AcpIdle, Faithful, Kept, Sound
<1>2. UNCHANGED <<flavor, link, vendor, stdout, outcome>>
  BY DEF ClaudeIdle, AcpIdle
<1>3. ASSUME NEW r \in Requests, r \in session.late, Alive
      PROVE  \E says \in Verdicts :
                answers'[r] = Append(answers[r], [by |-> "driver", says |-> says])
  <2>1. CASE ClaudeIdle
    <3>1. answers' = Written(session.late, "driver", "deny")
      BY <2>1 DEF ClaudeIdle, Expired
    <3>2. answers'[r] = Append(answers[r], [by |-> "driver", says |-> "deny"])
      BY <1>3, <3>1, WrittenAnswers
    <3>3. "deny" \in Verdicts
      BY DEF Verdicts
    <3> QED
      BY <3>2, <3>3
  <2>2. CASE AcpIdle
    <3> DEFINE says == AcpRefusal(r, session.options[r])
    <3>1. says \in Verdicts
      BY DEF AcpRefusal, Verdicts
    <3>2. answers'[r] = Written({r}, "driver", says)[r]
      BY <1>3, <2>2 DEF AcpIdle, AcpExpiries, Expired
    <3> HIDE DEF says
    <3>3. answers'[r] = Append(answers[r], [by |-> "driver", says |-> says])
      BY <1>3, <3>2, WrittenAnswers
    <3> QED
      BY <3>1, <3>3
  <2> QED
    BY <2>1, <2>2
<1>4. ASSUME NEW r \in Requests, ~(r \in session.late /\ Alive)
      PROVE  answers'[r] = answers[r]
  BY <1>4 DEF ClaudeIdle, AcpIdle, AcpExpiries, Expired, Written
<1> QED
  BY <1>1, <1>2, <1>3, <1>4, ExpiryKeeps

\* session/cancel answers whatever is pending.
LEMMA InterruptRecordKeeps ==
    ASSUME Faithful, Orderly, AcpInterruptRecord
    PROVE  Orderly'
<1> DEFINE s == Settle(session, session.pending)
<1>1. Kept /\ session \in Session /\ session.late \subseteq session.pending /\ Sound(s)
  BY SettleSound DEF Faithful, Kept, Sound, Orderly, AnsweredOnce
<1>2. /\ s.pending = {} /\ s.late = {} /\ s.declined = session.declined /\ s.turn = session.turn
      /\ s.told.shown = session.told.shown /\ s.told.tools = session.told.tools
  BY <1>1, SettleFields
<1>3. session' = [s EXCEPT !.interrupting = session.turn # None] /\ s \in Session
  BY <1>1 DEF AcpInterruptRecord, Sound
<1> HIDE DEF s
<1>4. /\ session'.pending = {} /\ session'.late = {} /\ session'.declined = session.declined
      /\ session'.turn = session.turn /\ session'.interrupting = (session.turn # None)
      /\ session'.told.shown = session.told.shown /\ session'.told.tools = session.told.tools
  BY <1>2, <1>3 DEF Session
<1>5. PipeMoves(0, Nothing)
  BY <1>1, PipeRests DEF AcpInterruptRecord
<1>6. VendorMoves /\ LinkMoves
  BY DEF VendorMoves, LinkMoves, Alive, AcpInterruptRecord, Idle
<1>7. PendingMoves(Nothing)
  BY <1>4 DEF PendingMoves
<1>8. \A r \in Requests :
         answers'[r] = IF Alive /\ r \in session.pending
                       THEN Append(answers[r], [by |-> "driver", says |-> "cancelled"]) ELSE answers[r]
  BY WrittenAnswers DEF AcpInterruptRecord
<1>9. AnswersMove(Nothing)
  BY <1>4, <1>8 DEF AnswersMove, Verdicts
<1>10. NoneDropped(Nothing)
  <2>1. \A r \in Requests : \A says : Append(answers[r], [by |-> "driver", says |-> says]) # <<>>
    BY <1>1, SomethingWritten
  <2> QED
    BY <1>8, <2>1, NothingFields DEF NoneDropped
<1>11. DeclinedMoves(Nothing) /\ TurnMoves(Nothing)
  BY <1>4, NothingFields DEF DeclinedMoves, TurnMoves
<1>12. Thread(Nothing)
  BY <1>5, <1>6, <1>7, <1>9, <1>10, <1>11 DEF Thread
<1> QED
  BY <1>1, <1>12, ThreadKeeps

\* The process has gone, or its turn is taken back because its prompt could not be written.
LEMMA FinishDead ==
    ASSUME Faithful, Orderly, ~Alive, flavor = "acp" => Quiet,
           flavor = "acp" => (link'.at = "submit" => ~vendor.up),
           NEW s \in Session, s = (IF flavor = "acp" THEN AcpFinishTurn(session) ELSE ClaudeFinishTurn(session)),
           session' = s \/ session' = [s EXCEPT !.told.ended = TRUE],
           LinkMoves, UNCHANGED <<flavor, vendor, stdout, answers>>
    PROVE  Orderly'
<1>1. Kept /\ session \in Session /\ session.late \subseteq session.pending
  BY DEF Faithful, Kept, Sound, Orderly, AnsweredOnce
<1>2. /\ s.pending = {} /\ s.late = {} /\ (flavor # "acp" => s.declined = session.declined)
      /\ s.turn = None /\ s.interrupting = FALSE
      /\ s.told.shown = session.told.shown /\ s.told.tools = session.told.tools
  BY <1>1, FinishFields
<1>3. /\ session'.pending = {} /\ session'.late = {}
      /\ (flavor # "acp" => session'.declined = session.declined)
      /\ session'.turn = None /\ session'.interrupting = FALSE
      /\ session'.told.shown = session.told.shown /\ session'.told.tools = session.told.tools
  BY <1>2 DEF Session, Told
<1>4. PipeMoves(0, Nothing)
  BY <1>1, PipeRests
<1>5. VendorMoves
  BY DEF VendorMoves, Alive
<1>6. PendingMoves(Nothing) /\ AnswersMove(Nothing)
  BY <1>3 DEF PendingMoves, AnswersMove
<1>7. NoneDropped(Nothing) /\ DeclinedMoves(Nothing)
  BY <1>3 DEF NoneDropped, DeclinedMoves
<1>8. TurnMoves(Nothing)
  BY <1>3, NothingFields DEF TurnMoves
<1>9. Thread(Nothing)
  BY <1>4, <1>5, <1>6, <1>7, <1>8 DEF Thread
<1> QED
  BY <1>1, <1>9, ThreadKeeps

LEMMA EndedKeeps ==
    ASSUME Faithful, Orderly, (flavor = "claude" /\ ClaudeEnded) \/ (flavor = "acp" /\ AcpEnded)
    PROVE  Orderly'
<1>1. Kept /\ session \in Session /\ Sound(session)
  BY DEF Faithful, Kept, Sound
<1>2. Quiet /\ ~Alive /\ ~vendor.up
  BY QuietGone DEF ClaudeEnded, AcpEnded
<1>3. UNCHANGED <<flavor, link, vendor, stdout, answers, outcome>>
  BY DEF ClaudeEnded, AcpEnded
<1>4. LinkMoves
  BY <1>3 DEF LinkMoves
<1>5. CASE session.turn # None
  <2> DEFINE s == IF flavor = "acp" THEN AcpFinishTurn(session) ELSE ClaudeFinishTurn(session)
  <2>1. s \in Session
    BY <1>1, ClaudeFinishTurnSound, AcpFinishTurnSound DEF Sound
  <2>2. session' = [s EXCEPT !.told.ended = TRUE]
    BY <1>5 DEF ClaudeEnded, AcpEnded
  <2> HIDE DEF s
  <2>3. s = (IF flavor = "acp" THEN AcpFinishTurn(session) ELSE ClaudeFinishTurn(session))
    BY DEF s
  <2> QED
    BY <1>2, <1>3, <1>4, <2>1, <2>2, <2>3, FinishDead
<1>6. CASE session.turn = None
  <2>1. session' = [session EXCEPT !.told.ended = TRUE]
    BY <1>6 DEF ClaudeEnded, AcpEnded
  <2>2. /\ session'.pending = session.pending /\ session'.late = session.late
        /\ session'.declined = session.declined
        /\ session'.turn = session.turn /\ session'.interrupting = session.interrupting
        /\ session'.told.shown = session.told.shown /\ session'.told.tools = session.told.tools
    BY <1>1, <2>1 DEF Session, Told
  <2>3. PipeMoves(0, Nothing)
    BY <1>1, <1>3, PipeRests
  <2>4. VendorMoves /\ PendingMoves(Nothing) /\ AnswersMove(Nothing)
    BY <1>3, <2>2 DEF VendorMoves, PendingMoves, AnswersMove, Orderly, AnsweredOnce, Alive
  <2>5. NoneDropped(Nothing) /\ DeclinedMoves(Nothing) /\ TurnMoves(Nothing)
    BY <2>2, NothingFields DEF NoneDropped, DeclinedMoves, TurnMoves, Orderly, InterruptSpent
  <2>6. Thread(Nothing)
    BY <1>4, <2>3, <2>4, <2>5 DEF Thread
  <2> QED
    BY <1>1, <2>6, ThreadKeeps
<1> QED
  BY <1>5, <1>6

LEMMA LatenessKeeps ==
    ASSUME Faithful, Orderly, NEW r \in Requests, Lateness(r)
    PROVE  Orderly'
<1>1. Kept /\ session \in Session
  BY DEF Faithful, Kept, Sound
<1>2. /\ session'.pending = session.pending /\ session'.late = session.late \cup {r}
      /\ session'.declined = session.declined
      /\ session'.turn = session.turn /\ session'.interrupting = session.interrupting
      /\ session'.told.shown = session.told.shown /\ session'.told.tools = session.told.tools
      /\ r \in session.pending /\ UNCHANGED <<flavor, link, vendor, stdout, answers, outcome>>
  BY <1>1 DEF Lateness, Session
<1>3. PipeMoves(0, Nothing)
  BY <1>1, <1>2, PipeRests
<1>4. VendorMoves /\ PendingMoves(Nothing) /\ AnswersMove(Nothing) /\ LinkMoves
  BY <1>2 DEF VendorMoves, PendingMoves, AnswersMove, LinkMoves, Orderly, AnsweredOnce, Alive
<1>5. NoneDropped(Nothing) /\ DeclinedMoves(Nothing) /\ TurnMoves(Nothing)
  BY <1>2, NothingFields DEF NoneDropped, DeclinedMoves, TurnMoves, Orderly, InterruptSpent
<1>6. Thread(Nothing)
  BY <1>3, <1>4, <1>5 DEF Thread
<1> QED
  BY <1>1, <1>6, ThreadKeeps

LEMMA ForgetKeeps ==
    ASSUME Faithful, Orderly, RespondForget
    PROVE  Orderly'
<1>1. Kept /\ session \in Session
  BY DEF Faithful, Kept, Sound
<1>2. PICK q \in Requests : q = link.request
  BY <1>1, LinkFields DEF RespondForget, Kept
<1>3. /\ session'.pending = session.pending \ {q} /\ session'.late = session.late \ {q}
      /\ session'.declined = session.declined
      /\ session'.turn = session.turn /\ session'.interrupting = session.interrupting
      /\ session'.told.shown = session.told.shown /\ session'.told.tools = session.told.tools
  BY <1>1, <1>2, SettleFields DEF RespondForget
<1>4. /\ link.at = "forget" /\ link' = Idle /\ UNCHANGED <<flavor, vendor, stdout, answers>>
      /\ Reports(q, "accepted")
  BY <1>2 DEF RespondForget, ForgottenOutcome
<1>5. answers[q] # <<>>
  BY <1>2, <1>4 DEF Faithful, Honest, UserAnswered
<1>6. PipeMoves(0, Nothing)
  BY <1>1, <1>4, PipeRests
<1>7. VendorMoves /\ PendingMoves(Nothing) /\ AnswersMove(Nothing)
  BY <1>3, <1>4 DEF VendorMoves, PendingMoves, AnswersMove, Orderly, AnsweredOnce, Alive
<1>8. LinkMoves
  BY <1>1, <1>4, ReportKeepsAccepted DEF LinkMoves, Idle
<1>9. NoneDropped(Nothing)
  BY <1>3, <1>4, <1>5, NothingFields DEF NoneDropped
<1>10. DeclinedMoves(Nothing) /\ TurnMoves(Nothing)
  BY <1>3, NothingFields DEF DeclinedMoves, TurnMoves, Orderly, InterruptSpent
<1>11. Thread(Nothing)
  BY <1>6, <1>7, <1>8, <1>9, <1>10 DEF Thread
<1> QED
  BY <1>1, <1>11, ThreadKeeps

\* The interrupt of Claude is recorded in the turn there is.
LEMMA ClaudeInterruptKeeps ==
    ASSUME Faithful, Orderly, ClaudeInterruptRecord
    PROVE  Orderly'
<1>1. Kept /\ session \in Session
  BY DEF Faithful, Kept, Sound
<1>2. /\ session'.pending = session.pending /\ session'.late = session.late
      /\ session'.declined = session.declined
      /\ session'.turn = session.turn /\ session'.interrupting = (session.turn # None)
      /\ session'.told.shown = session.told.shown /\ session'.told.tools = session.told.tools
      /\ link.at = "interrupt" /\ link' = Idle /\ UNCHANGED <<flavor, vendor, stdout, answers, outcome>>
  BY <1>1 DEF ClaudeInterruptRecord, Interrupts, Session
<1>3. PipeMoves(0, Nothing)
  BY <1>1, <1>2, PipeRests
<1>4. VendorMoves /\ PendingMoves(Nothing) /\ AnswersMove(Nothing) /\ LinkMoves
  BY <1>2 DEF VendorMoves, PendingMoves, AnswersMove, LinkMoves, Orderly, AnsweredOnce, Alive, Idle
<1>5. NoneDropped(Nothing) /\ DeclinedMoves(Nothing) /\ TurnMoves(Nothing)
  BY <1>2, NothingFields DEF NoneDropped, DeclinedMoves, TurnMoves
<1>6. Thread(Nothing)
  BY <1>3, <1>4, <1>5 DEF Thread
<1> QED
  BY <1>1, <1>6, ThreadKeeps

-----------------------------------------------------------------------------
(* The link thread: prompts and decisions.                                 *)

LEMMA InterruptKeeps ==
    ASSUME Faithful, Orderly, ClaudeInterrupt \/ AcpInterrupt
    PROVE  Orderly'
<1>1. LinkMoves
  BY DEF LinkMoves, ClaudeInterrupt, AcpInterrupt, Idle
<1> QED
  BY <1>1, ThreadRests DEF ClaudeInterrupt, AcpInterrupt, Faithful

\* An effect that is refused at once.
LEMMA RefusedKeeps ==
    ASSUME Faithful, Orderly, NEW x \in Prompts \cup Requests, NEW o, Reports(x, o), outcome[x] = "none",
           UNCHANGED <<flavor, session, link, vendor, stdout, answers>>
    PROVE  Orderly'
<1>1. LinkMoves
  BY ReportKeepsAccepted DEF LinkMoves, Faithful
<1> QED
  BY <1>1, ThreadRests DEF Faithful

LEMMA SubmitKeeps ==
    ASSUME Faithful, Orderly, NEW p \in Prompts,
           (flavor = "claude" /\ ClaudeSubmit(p)) \/ (flavor = "acp" /\ AcpSubmit(p))
    PROVE  Orderly'
<1>1. /\ Kept /\ session \in Session /\ link = Idle /\ outcome[p] = "none"
      /\ UNCHANGED <<flavor, vendor, stdout, answers>>
  BY DEF Faithful, Kept, Sound, ClaudeSubmit, AcpSubmit
<1>2. ASSUME NEW o, Reports(p, o), UNCHANGED <<session, link>>
      PROVE  Orderly'
  BY <1>1, <1>2, RefusedKeeps
<1>3. ASSUME link' = [at |-> "submit", prompt |-> p, starts |-> session.turn = None], UNCHANGED outcome,
             session' = IF session.turn = None THEN Started(session, p) ELSE session,
             flavor = "acp" => session.turn = None
      PROVE  Orderly'
  <2>1. /\ session'.pending = session.pending /\ session'.late = session.late
        /\ session'.declined = session.declined
        /\ session'.turn = (IF session.turn = None THEN p ELSE session.turn)
        /\ session'.interrupting = session.interrupting
        /\ session'.told.shown = session.told.shown /\ session'.told.tools = session.told.tools
    BY <1>1, <1>3, OtherFields
  <2>2. p # None /\ link'.at = "submit" /\ link'.prompt = p /\ link'.starts = (session.turn = None)
    BY <1>3, VendorAssumption
  <2>3. flavor = "acp" => Quiet
    <3>1. SUFFICES ASSUME flavor = "acp" PROVE Quiet
      OBVIOUS
    <3>2. vendor.work = <<>>
      <4>1. vendor.work \in Seq(Prompts)
        BY <1>1 DEF Kept, Vendor
      <4>2. vendor.work # <<>> => 1 \in 1..Len(vendor.work) /\ vendor.work[1] \in Prompts
        BY <4>1
      <4> QED
        BY <1>3, <3>1, <4>2, VendorAssumption DEF Orderly, OneTurn
    <3>3. \A r \in Requests, i \in 1..Len(stdout) : ~ToolAt(stdout, i, r)
      BY <1>3, <3>1 DEF Orderly, ToolOnce
    <3> QED
      BY <3>2, <3>3 DEF Quiet
  <2>4. WorkedOnce' /\ AskedOnce' /\ AnsweredOnce'
    BY <1>1, <2>1, <2>2 DEF Orderly, WorkedOnce, AskedOnce, AnsweredOnce, OncePerThread, ResultOf,
       AskAt, InPipe, Worked
  <2>5. Noted' /\ NoStall'
    BY <1>1, <2>1, <2>2 DEF Orderly, Noted, NoStall, Verdict, ToolDue, ToolAt, Worked, Stalls,
       InPipe, Alive
  <2>6. ToolOnce'
    BY <1>1, <2>1, <2>3 DEF Orderly, ToolOnce, ToolAt, Quiet
  <2>7. OneTurn'
    <3>1. flavor = "acp" => Len(vendor.work) = 0
      BY <2>3 DEF Quiet
    <3> QED
      BY <1>1, <1>3, <2>1, <2>2, <3>1 DEF OneTurn
  <2>8. TurnAccepted' /\ TurnDue' /\ InterruptSpent'
    BY <1>1, <1>3, <2>1, <2>2 DEF Orderly, TurnAccepted, TurnDue, InterruptSpent, Idle
  <2> QED
    BY <2>4, <2>5, <2>6, <2>7, <2>8 DEF Orderly
<1>4. CASE flavor = "claude" /\ ClaudeSubmit(p)
  BY <1>2, <1>3, <1>4 DEF ClaudeSubmit
<1>5. CASE flavor = "acp" /\ AcpSubmit(p)
  BY <1>2, <1>3, <1>5 DEF AcpSubmit
<1> QED
  BY <1>4, <1>5

\* The prompt is written.
LEMMA WrittenKeeps ==
    ASSUME Faithful, Orderly, link.at = "submit", Alive, link' = Idle,
           vendor' = [vendor EXCEPT !.work = Append(@, link.prompt), !.got = @ \cup {link.prompt}],
           Reports(link.prompt, "accepted"), UNCHANGED <<flavor, session, stdout, answers>>
    PROVE  Orderly'
<1> DEFINE w == vendor.work
           p == link.prompt
<1>1. Kept /\ p \in Prompts /\ p \notin vendor.got /\ vendor \in Vendor
  BY LinkFields DEF Faithful, Kept, Honest
<1>2. w \in Seq(Prompts) /\ Len(w) \in Nat /\ vendor.got \subseteq Prompts
  BY <1>1 DEF Vendor
<1>3. /\ vendor'.up = vendor.up /\ vendor'.closed = vendor.closed /\ vendor'.asked = vendor.asked
      /\ vendor'.ran = vendor.ran /\ vendor'.got = vendor.got \cup {p} /\ vendor'.work = Append(w, p)
  BY <1>1 DEF Vendor
<1>4. /\ Len(vendor'.work) = Len(w) + 1 /\ vendor'.work # <<>>
      /\ \A i \in 1..Len(w) : vendor'.work[i] = w[i]
      /\ vendor'.work[Len(w) + 1] = p
      /\ Head(vendor'.work) = IF w = <<>> THEN p ELSE Head(w)
  BY <1>1, <1>2, <1>3
<1>5. \A i \in 1..Len(vendor'.work) : i \in 1..Len(w) \/ i = Len(w) + 1
  BY <1>2, <1>4
<1>6. vendor.up
  BY DEF Orderly, WorkedOnce, Alive
<1> HIDE DEF w, p
<1>7. \A i \in 1..Len(w) : w[i] \in vendor.got /\ w[i] # p
  BY <1>1 DEF Orderly, WorkedOnce, w
<1>8. \A r \in Requests : vendor.asked[r] # None => vendor.asked[r] \in vendor.got /\ vendor.asked[r] # p
  BY <1>1 DEF Orderly, WorkedOnce
<1>9. \A r \in Requests : Worked(r)' <=> Worked(r)
  BY <1>1, <1>3, <1>4, <1>8, VendorAssumption DEF Worked, w
<1>10. WorkedOnce'
  <2>1. \A i \in 1..Len(vendor'.work) : vendor'.work[i] \in vendor'.got
    BY <1>3, <1>4, <1>5, <1>7
  <2>2. \A i, j \in 1..Len(w) : w[i] = w[j] => i = j
    BY DEF Orderly, WorkedOnce, w
  <2>3. \A i, j \in 1..Len(vendor'.work) : vendor'.work[i] = vendor'.work[j] => i = j
    BY <1>4, <1>5, <1>7, <2>2
  <2>4. ASSUME NEW r \in Requests, vendor.asked[r] # None
        PROVE  /\ vendor.asked[r] \in vendor'.got
               /\ \A i \in 2..Len(vendor'.work) : vendor'.work[i] # vendor.asked[r]
    <3>1. \A i \in 2..Len(w) : w[i] # vendor.asked[r]
      BY <2>4 DEF Orderly, WorkedOnce, w
    <3>2. \A i \in 2..Len(vendor'.work) : i \in 2..Len(w) \/ i = Len(w) + 1
      BY <1>2, <1>4
    <3>3. \A i \in 2..Len(w) : vendor'.work[i] = w[i]
      BY <1>2, <1>4
    <3> QED
      BY <1>3, <1>4, <1>8, <2>4, <3>1, <3>2, <3>3
  <2>5. ASSUME NEW i \in 1..Len(stdout), NEW q \in Prompts, ResultOf(stdout, i, q)
        PROVE  q \in vendor'.got /\ \A j \in 1..Len(vendor'.work) : vendor'.work[j] # q
    <3>1. q \in vendor.got /\ \A j \in 1..Len(w) : w[j] # q
      BY <2>5 DEF Orderly, WorkedOnce, w
    <3>2. q # p
      BY <1>1, <3>1
    <3> QED
      BY <1>3, <1>4, <1>5, <3>1, <3>2
  <2> QED
    BY <1>3, <1>6, <2>1, <2>3, <2>4, <2>5 DEF WorkedOnce, ResultOf
<1>11. AskedOnce' /\ AnsweredOnce'
  BY <1>3, <1>9 DEF Orderly, AskedOnce, AnsweredOnce, OncePerThread, AskAt, InPipe, Idle
<1>12. ToolOnce'
  BY <1>3 DEF Orderly, ToolOnce, ToolAt
<1>13. OneTurn'
  <2>1. flavor = "acp" => session.turn = p /\ \A i \in 1..Len(w) : w[i] = session.turn
    BY <1>6 DEF Orderly, OneTurn, w, p
  <2> QED
    BY <1>4, <1>5, <2>1 DEF OneTurn, Idle
<1>14. Noted'
  BY <1>3, <1>9 DEF Orderly, Noted, Verdict, ToolDue, ToolAt, Idle
<1>15. NoStall'
  <2>1. \A r \in Requests : Stalls(r) <=> Worked(r) /\ answers[r] = <<>> /\ ~InPipe(r) /\ Alive
    BY DEF Stalls, Worked
  <2>2. \A r \in Requests : Stalls(r)' <=> Worked(r)' /\ answers[r] = <<>> /\ ~InPipe(r) /\ Alive'
    BY DEF Stalls, Worked, InPipe
  <2> QED
    BY <1>9, <2>1, <2>2 DEF Orderly, NoStall
<1>16. TurnAccepted'
  <2>1. outcome'[p] = "accepted" /\ \A q \in Prompts : q # p => outcome'[q] = outcome[q]
    BY <1>1 DEF Kept, Reports, p
  <2>2. session.turn # None => session.turn \in Prompts
    BY DEF Faithful, Kept, Sound, Session
  <2> QED
    BY <2>1, <2>2 DEF Orderly, TurnAccepted, p
<1>17. TurnDue'
  <2>1. flavor = "acp" => session.turn = p
    BY <1>6 DEF Orderly, OneTurn, p
  <2>2. Len(w) + 1 \in 1..Len(vendor'.work)
    BY <1>2, <1>4
  <2> QED
    BY <1>4, <2>1, <2>2 DEF TurnDue
<1>18. InterruptSpent'
  BY DEF Orderly, InterruptSpent
<1> QED
  BY <1>10, <1>11, <1>12, <1>13, <1>14, <1>15, <1>16, <1>17, <1>18 DEF Orderly

LEMMA SubmitWriteKeeps ==
    ASSUME Faithful, Orderly,
           (flavor = "claude" /\ ClaudeSubmitWrite) \/ (flavor = "acp" /\ AcpSubmitWrite)
    PROVE  Orderly'
<1>1. /\ Kept /\ session \in Session /\ Sound(session) /\ link.at = "submit" /\ link' = Idle
      /\ link.prompt \in Prompts /\ outcome[link.prompt] = "none"
      /\ UNCHANGED <<flavor, stdout, answers>>
  BY LinkFields DEF Faithful, Kept, Sound, Honest, ClaudeSubmitWrite, AcpSubmitWrite
<1>2. CASE Alive
  BY <1>1, <1>2, WrittenKeeps DEF ClaudeSubmitWrite, AcpSubmitWrite
<1>3. CASE ~Alive
  <2>1. Reports(link.prompt, "undelivered") /\ UNCHANGED vendor
    BY <1>3 DEF ClaudeSubmitWrite, AcpSubmitWrite
  <2>2. \A q \in Prompts : outcome[q] = "accepted" => outcome'[q] = "accepted"
    BY <1>1, <2>1, ReportKeepsAccepted
  <2> DEFINE s == IF flavor = "acp" THEN AcpFinishTurn(session) ELSE ClaudeFinishTurn(session)
             ours == session.turn = link.prompt /\ (flavor = "claude" => link.starts)
  <2>3. session' = IF ours THEN s ELSE session
    BY <1>3 DEF ClaudeSubmitWrite, AcpSubmitWrite, AcpSubmitFails
  <2>4. s \in Session /\ s.turn = None
    BY <1>1, ClaudeFinishTurnSound, AcpFinishTurnSound, FinishFields DEF Sound
  <2>5. ~ours => (session.turn # None => outcome[session.turn] = "accepted")
    BY <1>1 DEF Orderly, TurnAccepted, Kept
  <2>6. LinkMoves
    <3>1. session'.turn # None => outcome[session'.turn] = "accepted"
      BY <2>3, <2>4, <2>5
    <3> QED
      BY <1>1, <1>3, <2>2, <3>1 DEF LinkMoves, Idle
  <2>7. CASE ours
    <3>1. flavor = "acp" => Quiet
      BY <1>1, <2>7, QuietBefore
    <3>2. s = (IF flavor = "acp" THEN AcpFinishTurn(session) ELSE ClaudeFinishTurn(session))
      OBVIOUS
    <3>3. session' = s
      BY <2>3, <2>7
    <3>4. link'.at # "submit"
      BY <1>1 DEF Idle
    <3> HIDE DEF s
    <3> QED
      BY <1>1, <1>3, <2>1, <2>4, <2>6, <3>1, <3>2, <3>3, <3>4, FinishDead
  <2>8. CASE ~ours
    BY <1>1, <2>1, <2>3, <2>6, <2>8, ThreadRests
  <2> QED
    BY <2>7, <2>8
<1> QED
  BY <1>2, <1>3

\* The decision is taken up; a refusal is noted first.
LEMMA RespondKeeps ==
    ASSUME Faithful, Orderly, NEW r \in Requests, NEW allow \in BOOLEAN,
           ClaudeRespond(r, allow) \/ AcpRespond(r, allow)
    PROVE  Orderly'
<1>1. /\ Kept /\ session \in Session /\ link = Idle /\ outcome[r] = "none"
      /\ r \in session.told.shown /\ UNCHANGED <<flavor, vendor, stdout, answers>>
  BY DEF Faithful, Kept, Sound, ClaudeRespond, AcpRespond
<1>2. ASSUME NEW o, Reports(r, o), UNCHANGED <<session, link>>
      PROVE  Orderly'
  BY <1>1, <1>2, RefusedKeeps
<1>3. ASSUME link' = [at |-> "respond", request |-> r, allow |-> allow], UNCHANGED outcome,
             session' = IF allow THEN session ELSE [session EXCEPT !.declined = @ \cup {r}]
      PROVE  Orderly'
  <2>1. /\ session'.pending = session.pending /\ session'.late = session.late
        /\ session.declined \subseteq session'.declined /\ (~allow => r \in session'.declined)
        /\ session'.turn = session.turn /\ session'.interrupting = session.interrupting
        /\ session'.told.shown = session.told.shown /\ session'.told.tools = session.told.tools
    BY <1>1, <1>3 DEF Session
  <2>2. link'.at = "respond" /\ link'.request = r /\ link'.allow = allow
    BY <1>3
  <2>3. WorkedOnce' /\ AskedOnce' /\ ToolOnce' /\ AnsweredOnce'
    BY <1>1, <2>1, <2>2 DEF Orderly, WorkedOnce, AskedOnce, ToolOnce, AnsweredOnce, OncePerThread,
       ResultOf, AskAt, ToolAt, InPipe, Worked
  <2>4. Noted'
    BY <1>1, <2>1, <2>2 DEF Orderly, Noted, Verdict, ToolDue, ToolAt, Worked
  <2>5. NoStall'
    BY <1>1, <2>1 DEF Orderly, NoStall, Stalls, InPipe, Alive
  <2>6. OneTurn' /\ TurnAccepted' /\ TurnDue' /\ InterruptSpent'
    BY <1>1, <1>3, <2>1, <2>2 DEF Orderly, OneTurn, TurnAccepted, TurnDue, InterruptSpent, Alive, Idle
  <2> QED
    BY <2>3, <2>4, <2>5, <2>6 DEF Orderly
<1> QED
  BY <1>2, <1>3 DEF ClaudeRespond, DeclinedFirst, AcpRespond

LEMMA RespondWriteKeeps ==
    ASSUME Faithful, Orderly, RespondWrite
    PROVE  Orderly'
<1>1. Kept /\ link.at = "respond" /\ UNCHANGED <<flavor, session, vendor, stdout>>
  BY DEF Faithful, RespondWrite
<1>2. PICK q \in Requests : q = link.request
  BY <1>1, LinkFields DEF Kept
<1>3. link.allow \in BOOLEAN /\ outcome[q] = "none" /\ ~UserAnswered(q)
  BY <1>1, <1>2, LinkFields DEF Faithful, Kept, Honest
<1>4. CASE ~Alive
  <2>1. Reports(q, "undelivered") /\ link' = Idle /\ UNCHANGED answers
    BY <1>2, <1>4 DEF RespondWrite
  <2>2. LinkMoves
    BY <1>1, <2>1, ReportKeepsAccepted DEF LinkMoves, Idle
  <2> QED
    BY <1>1, <2>1, <2>2, ThreadRests
<1>5. CASE Alive
  <2> DEFINE says == IF link.allow THEN "allow" ELSE "deny"
             n    == Len(answers[q])
  <2>1. /\ UNCHANGED outcome /\ link' = [at |-> "forget", request |-> q, allow |-> link.allow]
        /\ answers'[q] = Append(answers[q], [by |-> "user", says |-> says])
        /\ \A r \in Requests : r # q => answers'[r] = answers[r]
    BY <1>1, <1>2, <1>5, LinkFields DEF RespondWrite, Written, Kept
  <2>2. answers[q] \in Seq(Answer) /\ n \in Nat
    BY <1>1 DEF Kept, Answered
  <2>3. /\ Len(answers'[q]) = n + 1 /\ answers'[q] # <<>>
        /\ \A i \in 1..n : answers'[q][i] = answers[q][i]
        /\ answers'[q][n + 1].by = "user"
        /\ Verdict(q)' = IF answers[q] = <<>> THEN says ELSE Verdict(q)
    <3>1. /\ Len(answers'[q]) = n + 1 /\ answers'[q] # <<>>
          /\ \A i \in 1..n : answers'[q][i] = answers[q][i]
          /\ answers'[q][n + 1] = [by |-> "user", says |-> says]
      BY <2>1, <2>2
    <3>2. answers[q] # <<>> => n >= 1
      BY <2>2
    <3>3. answers[q] = <<>> => answers'[q][1] = [by |-> "user", says |-> says]
      BY <2>1, <2>2
    <3> QED
      BY <3>1, <3>2, <3>3 DEF Verdict
  <2>4. \A i \in 1..Len(answers'[q]) : i \in 1..n \/ i = n + 1
    BY <2>2, <2>3
  <2>5. \A i \in 1..n : answers[q][i].by # "user"
    BY <1>3 DEF UserAnswered
  <2>6. q \in session.told.shown /\ ~InPipe(q) /\ vendor.asked[q] # None
    BY <1>1, <1>2 DEF Orderly, AnsweredOnce, AskedOnce
  <2>7. link'.at = "forget" /\ link'.request = q
    BY <2>1
  <2> HIDE DEF says, n
  <2>8. \A r \in Requests : Verdict(r)' = IF r = q THEN (IF answers[q] = <<>> THEN says ELSE Verdict(q))
                                          ELSE Verdict(r)
    BY <2>1, <2>3 DEF Verdict
  <2>9. WorkedOnce'
    BY <1>1 DEF Orderly, WorkedOnce, ResultOf
  <2>10. AskedOnce'
    BY <1>1, <2>1, <2>6 DEF Orderly, AskedOnce, AskAt, InPipe, Worked
  <2>11. ToolOnce'
    BY <1>1, <2>1, <2>3 DEF Orderly, ToolOnce, ToolAt
  <2>12. AnsweredOnce'
    <3>1. \A i, j \in 1..Len(answers'[q]) : answers'[q][i].by = answers'[q][j].by => i = j
      <4>1. \A i, j \in 1..n : answers[q][i].by = answers[q][j].by => i = j
        BY DEF Orderly, AnsweredOnce, OncePerThread, n
      <4> QED
        BY <2>3, <2>4, <2>5, <4>1
    <3>2. OncePerThread'
      BY <2>1, <3>1 DEF Orderly, AnsweredOnce, OncePerThread
    <3>3. \A r \in session.pending : \A i \in 1..Len(answers'[r]) : answers'[r][i].by # "driver"
      <4>1. session.pending \subseteq Requests
        BY <1>1 DEF Kept, Sound, Session
      <4>2. q \in session.pending => \A i \in 1..n : answers[q][i].by # "driver"
        BY DEF Orderly, AnsweredOnce, n
      <4>3. q \in session.pending => \A i \in 1..Len(answers'[q]) : answers'[q][i].by # "driver"
        BY <2>3, <2>4, <4>2
      <4> QED
        BY <2>1, <4>1, <4>3 DEF Orderly, AnsweredOnce
    <3> QED
      BY <1>1, <2>6, <2>7, <3>2, <3>3 DEF Orderly, AnsweredOnce
  <2>13. Noted'
    <3>1. \A r \in Requests : ToolDue(r)' <=> ToolDue(r)
      BY <1>1 DEF ToolDue, ToolAt, Worked
    <3>2. ASSUME answers[q] = <<>>, says = "deny", ToolDue(q)
          PROVE  q \in session.declined
      <4>1. q \notin vendor.ran
        BY <3>2 DEF Orderly, ToolOnce
      <4>2. Worked(q)
        BY <3>2, <4>1 DEF Orderly, ToolOnce, ToolDue
      <4> QED
        BY <1>1, <1>2, <3>2, <4>2 DEF Orderly, Noted, says
    <3>3. ASSUME NEW r \in Requests, Verdict(r)' = "deny", ToolDue(r)
          PROVE  r \in session.declined
      BY <2>8, <3>2, <3>3 DEF Orderly, Noted
    <3>4. ASSUME NEW r \in Requests, session.told.tools[r] = "failed"
          PROVE  answers'[r] # <<>> /\ Verdict(r)' # "deny"
      BY <2>1, <2>3, <2>8, <3>4 DEF Orderly, Noted
    <3> QED
      BY <1>1, <2>7, <3>1, <3>3, <3>4 DEF Noted
  <2>14. NoStall'
    BY <1>1, <2>1, <2>3 DEF Orderly, NoStall, Stalls, InPipe, Alive
  <2>15. OneTurn' /\ TurnAccepted' /\ TurnDue' /\ InterruptSpent'
    BY <1>1, <2>1, <2>7 DEF Orderly, OneTurn, TurnAccepted, TurnDue, InterruptSpent, Alive
  <2> QED
    BY <2>9, <2>10, <2>11, <2>12, <2>13, <2>14, <2>15 DEF Orderly
<1> QED
  BY <1>4, <1>5

-----------------------------------------------------------------------------
(* The vendor.                                                             *)

LEMMA PipeGrows ==
    ASSUME Kept, NEW m, Says(m)
    PROVE  /\ Len(stdout) \in Nat /\ Len(stdout') = Len(stdout) + 1
           /\ \A i \in 1..Len(stdout) : i \in 1..Len(stdout') /\ stdout'[i] = stdout[i]
           /\ stdout'[Len(stdout) + 1] = m
           /\ \A i \in 1..Len(stdout') : i \in 1..Len(stdout) \/ i = Len(stdout) + 1
  BY DEF Kept, Says

\* What is said neither asks nor ends anything.
LEMMA RemarkKeeps ==
    ASSUME Faithful, Orderly, VendorOpens \/ VendorExtension
    PROVE  Orderly'
<1>1. /\ Kept /\ UNCHANGED <<flavor, session, link, vendor, answers, outcome>>
      /\ \E m : Says(m) /\ m.kind \notin {"ask", "tool", "result"}
  <2>1. VendorOpens => \E m : Says(m) /\ m.kind \notin {"ask", "tool", "result"}
    <3>1. ASSUME NEW kind \in {"ready", "refused"}, Says([kind |-> kind])
          PROVE  \E m : Says(m) /\ m.kind \notin {"ask", "tool", "result"}
      <4>1. [kind |-> kind].kind \notin {"ask", "tool", "result"}
        OBVIOUS
      <4> QED
        BY <3>1, <4>1
    <3> QED
      BY <3>1 DEF VendorOpens
  <2>2. VendorExtension => \E m : Says(m) /\ m.kind \notin {"ask", "tool", "result"}
    <3>1. [kind |-> "yolo", on |-> session.answerable].kind \notin {"ask", "tool", "result"}
      OBVIOUS
    <3> QED
      BY <3>1 DEF VendorExtension
  <2> QED
    BY <2>1, <2>2 DEF VendorOpens, VendorExtension, Faithful
<1>2. PICK m : Says(m) /\ m.kind \notin {"ask", "tool", "result"}
  BY <1>1
<1> DEFINE n == Len(stdout)
<1>3. /\ n \in Nat /\ Len(stdout') = n + 1
      /\ \A i \in 1..n : i \in 1..Len(stdout') /\ stdout'[i] = stdout[i]
      /\ stdout'[n + 1].kind \notin {"ask", "tool", "result"}
      /\ \A i \in 1..Len(stdout') : i \in 1..n \/ i = n + 1
  BY <1>1, <1>2, PipeGrows
<1> HIDE DEF n
<1>4. \A i \in 1..Len(stdout') : stdout'[i].kind \in {"ask", "tool", "result"} =>
          i \in 1..n /\ stdout'[i] = stdout[i]
  BY <1>3
<1>5. \A r \in Requests : InPipe(r)' <=> InPipe(r)
  BY <1>3, <1>4 DEF InPipe, n
<1>6. \A r \in Requests : (Worked(r)' <=> Worked(r)) /\ (Stalls(r)' <=> Stalls(r))
  BY <1>1, <1>5 DEF Worked, Stalls, Alive
<1>7. \A r \in Requests : ToolDue(r)' => ToolDue(r)
  BY <1>1, <1>4, <1>6 DEF ToolDue, ToolAt, n
<1>8. WorkedOnce'
  BY <1>1, <1>4 DEF Orderly, WorkedOnce, ResultOf, n
<1>9. AskedOnce'
  <2>1. ASSUME NEW r \in Requests, Worked(r), NEW i \in 1..Len(stdout'), stdout'[i].kind = "result"
        PROVE  \E j \in i..Len(stdout') : AskAt(stdout, j, r)'
    <3>1. i \in 1..Len(stdout) /\ stdout[i].kind = "result"
      BY <1>4, <2>1 DEF n
    <3>2. PICK j \in i..Len(stdout) : AskAt(stdout, j, r)
      BY <2>1, <3>1 DEF Orderly, AskedOnce
    <3>3. j \in 1..n /\ j \in i..Len(stdout')
      BY <1>3, <3>1, <3>2 DEF n
    <3> QED
      BY <1>3, <3>2, <3>3 DEF AskAt
  <2> QED
    BY <1>1, <1>4, <1>5, <1>6, <2>1 DEF Orderly, AskedOnce, AskAt, n
<1>10. ToolOnce'
  BY <1>1, <1>4 DEF Orderly, ToolOnce, ToolAt, n
<1>11. Noted'
  <2>1. link.at = "respond" => link.request \in Requests
    BY <1>1, LinkFields DEF Kept
  <2>2. \A r \in Requests : Verdict(r)' = Verdict(r)
    BY <1>1 DEF Verdict
  <2> QED
    BY <1>1, <1>6, <1>7, <2>1, <2>2 DEF Orderly, Noted
<1>12. AnsweredOnce' /\ NoStall' /\ OneTurn' /\ TurnAccepted' /\ InterruptSpent'
  BY <1>1, <1>6 DEF Orderly, AnsweredOnce, OncePerThread, NoStall, OneTurn, TurnAccepted, InterruptSpent
<1>13. TurnDue'
  BY <1>1, <1>3 DEF Orderly, TurnDue, Alive, n
<1> QED
  BY <1>8, <1>9, <1>10, <1>11, <1>12, <1>13 DEF Orderly

\* A prompt at work is the vendor's.
LEMMA HeadIsWorked ==
    ASSUME Kept, vendor.work # <<>>
    PROVE  /\ vendor.work \in Seq(Prompts) /\ Len(vendor.work) \in Nat
           /\ 1 \in 1..Len(vendor.work) /\ Head(vendor.work) = vendor.work[1]
           /\ Head(vendor.work) \in Prompts /\ Head(vendor.work) # None
           /\ Len(Tail(vendor.work)) = Len(vendor.work) - 1
           /\ \A i \in 1..Len(Tail(vendor.work)) : /\ Tail(vendor.work)[i] = vendor.work[i + 1]
                                                   /\ i + 1 \in 2..Len(vendor.work)
<1>1. vendor.work \in Seq(Prompts)
  BY DEF Kept, Vendor
<1>2. Head(vendor.work) \in Prompts
  BY <1>1
<1>3. Head(vendor.work) # None
  BY <1>2, VendorAssumption
<1> QED
  BY <1>1, <1>2, <1>3

LEMMA AsksKeeps ==
    ASSUME Faithful, Orderly, NEW q \in Requests, VendorAsks(q)
    PROVE  Orderly'
<1>1. /\ Kept /\ UNCHANGED <<flavor, session, link, answers, outcome>>
      /\ vendor.work # <<>> /\ vendor.asked[q] = None /\ vendor.up
  BY DEF VendorAsks, Faithful
<1>2. PICK m : Says(m) /\ m.kind = "ask" /\ m.request = q
  <2>1. PICK about, options :
          Says([kind |-> "ask", request |-> q, about |-> about, options |-> options])
    BY DEF VendorAsks
  <2> QED
    BY <2>1
<1> DEFINE n == Len(stdout)
           p == Head(vendor.work)
<1>3. /\ n \in Nat /\ Len(stdout') = n + 1
      /\ \A i \in 1..n : i \in 1..Len(stdout') /\ stdout'[i] = stdout[i]
      /\ stdout'[n + 1].kind = "ask" /\ stdout'[n + 1].request = q
      /\ \A i \in 1..Len(stdout') : i \in 1..n \/ i = n + 1
  BY <1>1, <1>2, PipeGrows
<1>4. /\ p \in Prompts /\ p # None /\ 1 \in 1..Len(vendor.work) /\ p = vendor.work[1]
      /\ Len(vendor.work) \in Nat
  BY <1>1, HeadIsWorked
<1>5. /\ vendor'.up = vendor.up /\ vendor'.closed = vendor.closed /\ vendor'.work = vendor.work
      /\ vendor'.got = vendor.got /\ vendor'.ran = vendor.ran
      /\ vendor'.asked[q] = p /\ \A r \in Requests : r # q => vendor'.asked[r] = vendor.asked[r]
  BY <1>1 DEF VendorAsks, Kept, Vendor
<1> HIDE DEF n, p
<1>6. /\ ~InPipe(q) /\ q \notin session.pending /\ q \notin session.told.shown /\ answers[q] = <<>>
  BY <1>1 DEF Orderly, AskedOnce
<1>7. \A i \in 1..Len(stdout') : stdout'[i].kind # "ask" \/ stdout'[i].request # q =>
          i \in 1..n /\ stdout'[i] = stdout[i]
  BY <1>3
<1>8. \A r \in Requests : r # q =>
         (InPipe(r)' <=> InPipe(r)) /\ (Worked(r)' <=> Worked(r))
  BY <1>3, <1>5, <1>7 DEF InPipe, Worked, n
<1>9. InPipe(q)'
  <2>1. n + 1 \in 1..Len(stdout')
    BY <1>3
  <2> QED
    BY <1>3, <2>1 DEF InPipe
<1>10. WorkedOnce'
  <2>1. p \in vendor.got /\ \A i \in 2..Len(vendor.work) : vendor.work[i] # p
    <3>1. \A i \in 2..Len(vendor.work) : i \in 1..Len(vendor.work) /\ i # 1
      BY <1>4
    <3> QED
      BY <1>4, <3>1 DEF Orderly, WorkedOnce
  <2>2. ASSUME NEW i \in 1..Len(stdout'), NEW x \in Prompts, ResultOf(stdout, i, x)'
        PROVE  x \in vendor.got /\ \A j \in 1..Len(vendor.work) : vendor.work[j] # x
    <3>1. i \in 1..Len(stdout) /\ ResultOf(stdout, i, x)
      BY <1>7, <2>2 DEF ResultOf, n
    <3> QED
      BY <3>1 DEF Orderly, WorkedOnce
  <2> QED
    BY <1>5, <2>1, <2>2 DEF Orderly, WorkedOnce
<1>11. AskedOnce'
  <2>1. ASSUME NEW r \in Requests, NEW i \in 1..Len(stdout'), NEW j \in 1..Len(stdout'),
               AskAt(stdout, i, r)', AskAt(stdout, j, r)'
        PROVE  i = j
    <3>1. CASE r = q
      <4>1. \A k \in 1..n : ~AskAt(stdout, k, r)
        BY <1>6, <3>1 DEF InPipe, AskAt, n
      <4>2. \A k \in 1..n : ~AskAt(stdout, k, r)'
        BY <1>3, <4>1 DEF AskAt
      <4> QED
        BY <1>3, <2>1, <4>2
    <3>2. CASE r # q
      <4>1. /\ i \in 1..Len(stdout) /\ AskAt(stdout, i, r)
            /\ j \in 1..Len(stdout) /\ AskAt(stdout, j, r)
        BY <1>7, <2>1, <3>2 DEF AskAt, n
      <4> QED
        BY <4>1 DEF Orderly, AskedOnce
    <3> QED
      BY <3>1, <3>2
  <2>2. ASSUME NEW r \in Requests, vendor'.asked[r] = None \/ InPipe(r)'
        PROVE  r \notin session.pending /\ r \notin session.told.shown /\ answers[r] = <<>>
    BY <1>5, <1>6, <1>8, <2>2 DEF Orderly, AskedOnce
  <2>3. ASSUME NEW r \in Requests, vendor'.asked[r] = None
        PROVE  ~InPipe(r)'
    BY <1>4, <1>5, <1>8, <2>3 DEF Orderly, AskedOnce
  <2>4. ASSUME NEW r \in Requests, Worked(r)', NEW i \in 1..Len(stdout'), stdout'[i].kind = "result"
        PROVE  \E j \in i..Len(stdout') : AskAt(stdout, j, r)'
    <3>1. i \in 1..n /\ stdout[i].kind = "result"
      BY <1>7, <2>4
    <3>2. CASE r = q
      <4>1. n + 1 \in i..Len(stdout')
        BY <1>3, <3>1
      <4> QED
        BY <1>3, <3>2, <4>1 DEF AskAt
    <3>3. CASE r # q
      <4>1. PICK j \in i..Len(stdout) : AskAt(stdout, j, r)
        BY <1>8, <2>4, <3>1, <3>3 DEF Orderly, AskedOnce, n
      <4>2. j \in 1..n /\ j \in i..Len(stdout')
        BY <1>3, <3>1, <4>1 DEF n
      <4> QED
        BY <1>3, <4>1, <4>2 DEF AskAt
    <3> QED
      BY <3>2, <3>3
  <2> QED
    BY <1>1, <2>1, <2>2, <2>3, <2>4 DEF AskedOnce
<1>12. ToolOnce'
  <2>1. \A r \in Requests, i \in 1..Len(stdout') : ToolAt(stdout, i, r)' =>
           i \in 1..Len(stdout) /\ ToolAt(stdout, i, r) /\ vendor.asked[r] # None
    BY <1>3, <1>7 DEF ToolAt, n, Orderly, ToolOnce
  <2>2. \A i \in 1..Len(stdout') : stdout'[i].kind = "result" =>
           i \in 1..Len(stdout) /\ stdout[i].kind = "result"
    BY <1>7 DEF n
  <2>3. \A r \in Requests : vendor.asked[r] # None => vendor'.asked[r] = vendor.asked[r]
    BY <1>1, <1>5
  <2> QED
    BY <1>1, <1>5, <2>1, <2>2, <2>3 DEF Orderly, ToolOnce
<1>13. Noted'
  <2>1. \A r \in Requests : Verdict(r)' = Verdict(r)
    BY <1>1 DEF Verdict
  <2>2. Verdict(q) = "none"
    BY <1>6 DEF Verdict
  <2>3. \A r \in Requests : r # q /\ ToolDue(r)' => ToolDue(r)
    BY <1>5, <1>7, <1>8 DEF ToolDue, ToolAt, n
  <2>4. link.at = "respond" => link.request # q /\ link.request \in Requests
    BY <1>1, <1>6, LinkFields DEF Orderly, AnsweredOnce, Kept
  <2> QED
    BY <1>1, <1>8, <2>1, <2>2, <2>3, <2>4 DEF Orderly, Noted
<1>14. NoStall'
  <2>1. \A r \in Requests : Stalls(r) <=> Worked(r) /\ answers[r] = <<>> /\ ~InPipe(r) /\ Alive
    BY DEF Stalls, Worked
  <2>2. \A r \in Requests : Stalls(r)' <=> Worked(r)' /\ answers[r] = <<>> /\ ~InPipe(r)' /\ Alive
    BY <1>1, <1>5 DEF Stalls, Worked, Alive
  <2> QED
    BY <1>1, <1>8, <1>9, <2>1, <2>2 DEF Orderly, NoStall
<1>15. OneTurn' /\ TurnAccepted' /\ InterruptSpent' /\ AnsweredOnce'
  BY <1>1, <1>5 DEF Orderly, OneTurn, TurnAccepted, InterruptSpent, AnsweredOnce, OncePerThread
<1>16. TurnDue'
  BY <1>1, <1>3, <1>5 DEF Orderly, TurnDue, Alive, n
<1> QED
  BY <1>10, <1>11, <1>12, <1>13, <1>14, <1>15, <1>16 DEF Orderly

LEMMA RunsKeeps ==
    ASSUME Faithful, Orderly, NEW q \in Requests, VendorRuns(q)
    PROVE  Orderly'
<1>1. /\ Kept /\ UNCHANGED <<flavor, session, link, answers, outcome>>
      /\ vendor.work # <<>> /\ vendor.asked[q] = Head(vendor.work) /\ vendor.up
      /\ q \notin vendor.ran /\ Verdict(q) # "none"
  BY DEF VendorRuns, Faithful
<1>2. PICK m : Says(m) /\ m.kind = "tool" /\ m.request = q
  <2>1. PICK failed : Says([kind |-> "tool", request |-> q, failed |-> failed])
    BY DEF VendorRuns
  <2> QED
    BY <2>1
<1> DEFINE n == Len(stdout)
           p == Head(vendor.work)
<1>3. /\ n \in Nat /\ Len(stdout') = n + 1
      /\ \A i \in 1..n : i \in 1..Len(stdout') /\ stdout'[i] = stdout[i]
      /\ stdout'[n + 1].kind = "tool" /\ stdout'[n + 1].request = q
      /\ \A i \in 1..Len(stdout') : i \in 1..n \/ i = n + 1
  BY <1>1, <1>2, PipeGrows
<1>4. p \in Prompts /\ p # None /\ 1 \in 1..Len(vendor.work) /\ p = vendor.work[1]
  BY <1>1, HeadIsWorked
<1>5. /\ vendor'.up = vendor.up /\ vendor'.closed = vendor.closed /\ vendor'.work = vendor.work
      /\ vendor'.got = vendor.got /\ vendor'.asked = vendor.asked
      /\ vendor'.ran = vendor.ran \cup {q}
  BY <1>1 DEF VendorRuns, Kept, Vendor
<1> HIDE DEF n, p
<1>6. \A i \in 1..Len(stdout') : stdout'[i].kind # "tool" \/ stdout'[i].request # q =>
          i \in 1..n /\ stdout'[i] = stdout[i]
  BY <1>3
<1>7. answers[q] # <<>> /\ Worked(q) /\ ToolDue(q)
  BY <1>1 DEF Verdict, Worked, ToolDue
<1>8. \A r \in Requests : (InPipe(r)' <=> InPipe(r)) /\ (Worked(r)' <=> Worked(r))
  BY <1>3, <1>5, <1>6 DEF InPipe, Worked, n
<1>9. \A i \in 1..Len(stdout) : stdout[i].kind # "result"
  <2>1. SUFFICES ASSUME NEW i \in 1..Len(stdout), stdout[i].kind = "result" PROVE FALSE
    OBVIOUS
  <2>2. PICK j \in i..Len(stdout) : AskAt(stdout, j, q)
    BY <1>7, <2>1 DEF Orderly, AskedOnce
  <2>3. j \in 1..Len(stdout)
    BY <1>3, <2>2 DEF n
  <2>4. InPipe(q)
    BY <2>2, <2>3 DEF InPipe, AskAt
  <2> QED
    BY <1>7, <2>4 DEF Orderly, AskedOnce
<1>10. \A i \in 1..Len(stdout') : stdout'[i].kind # "result"
  BY <1>3, <1>9 DEF n
<1>11. WorkedOnce'
  BY <1>5, <1>10 DEF Orderly, WorkedOnce, ResultOf
<1>12. AskedOnce'
  <2>1. \A r \in Requests, i \in 1..Len(stdout') : AskAt(stdout, i, r)' =>
           i \in 1..Len(stdout) /\ AskAt(stdout, i, r)
    BY <1>3, <1>6 DEF AskAt, n
  <2> QED
    BY <1>1, <1>5, <1>8, <1>10, <2>1 DEF Orderly, AskedOnce
<1>13. ToolOnce'
  <2>1. \A r \in Requests, i \in 1..Len(stdout') : ToolAt(stdout, i, r)' =>
           (i \in 1..Len(stdout) /\ ToolAt(stdout, i, r) /\ r # q) \/ (i = n + 1 /\ r = q)
    <3>1. \A i \in 1..Len(stdout) : ~ToolAt(stdout, i, q)
      BY <1>1 DEF Orderly, ToolOnce
    <3>2. ASSUME NEW r \in Requests, NEW i \in 1..Len(stdout'), ToolAt(stdout, i, r)', i # n + 1
          PROVE  i \in 1..Len(stdout) /\ ToolAt(stdout, i, r)
      BY <1>3, <3>2 DEF ToolAt, n
    <3>3. ASSUME NEW r \in Requests, NEW i \in 1..Len(stdout'), ToolAt(stdout, i, r)', i = n + 1
          PROVE  r = q
      BY <1>3, <3>3 DEF ToolAt
    <3>4. ASSUME NEW r \in Requests, NEW i \in 1..Len(stdout'), ToolAt(stdout, i, r)', i # n + 1
          PROVE  r # q
      BY <3>1, <3>2, <3>4
    <3> QED
      BY <3>2, <3>3, <3>4
  <2>2. vendor.asked[q] # None /\ (flavor = "acp" => vendor.asked[q] = session.turn)
    BY <1>1, <1>4 DEF Orderly, OneTurn, p
  <2> QED
    BY <1>1, <1>5, <1>7, <1>10, <2>1, <2>2 DEF Orderly, ToolOnce
<1>14. Noted'
  <2>1. \A r \in Requests : Verdict(r)' = Verdict(r)
    BY <1>1 DEF Verdict
  <2>2. \A r \in Requests : ToolDue(r)' => ToolDue(r)
    BY <1>3, <1>5, <1>6, <1>7, <1>8 DEF ToolDue, ToolAt, n
  <2>3. link.at = "respond" => link.request \in Requests
    BY <1>1, LinkFields DEF Kept
  <2> QED
    BY <1>1, <1>8, <2>1, <2>2, <2>3 DEF Orderly, Noted
<1>15. NoStall'
  <2>1. \A r \in Requests : Stalls(r) <=> Worked(r) /\ answers[r] = <<>> /\ ~InPipe(r) /\ Alive
    BY DEF Stalls, Worked
  <2>2. \A r \in Requests : Stalls(r)' <=> Worked(r)' /\ answers[r] = <<>> /\ ~InPipe(r)' /\ Alive
    BY <1>1, <1>5 DEF Stalls, Worked, Alive
  <2> QED
    BY <1>1, <1>8, <2>1, <2>2 DEF Orderly, NoStall
<1>16. OneTurn' /\ TurnAccepted' /\ InterruptSpent' /\ AnsweredOnce'
  BY <1>1, <1>5 DEF Orderly, OneTurn, TurnAccepted, InterruptSpent, AnsweredOnce, OncePerThread
<1>17. TurnDue'
  BY <1>1, <1>3, <1>5 DEF Orderly, TurnDue, Alive, n
<1> QED
  BY <1>11, <1>12, <1>13, <1>14, <1>15, <1>16, <1>17 DEF Orderly

\* No request is about the prompt that comes next.
LEMMA FinishesKeeps ==
    ASSUME Faithful, Orderly, VendorFinishes
    PROVE  Orderly'
<1>1. /\ Kept /\ UNCHANGED <<flavor, session, link, answers, outcome>>
      /\ vendor.work # <<>> /\ vendor.up
      /\ Says([kind |-> "result", prompt |-> Head(vendor.work)])
  BY DEF VendorFinishes, Faithful
<1> DEFINE n == Len(stdout)
           w == vendor.work
           p == Head(w)
<1>3. /\ n \in Nat /\ Len(stdout') = n + 1
      /\ \A i \in 1..n : i \in 1..Len(stdout') /\ stdout'[i] = stdout[i]
      /\ stdout'[n + 1].kind = "result" /\ stdout'[n + 1].prompt = p
      /\ \A i \in 1..Len(stdout') : i \in 1..n \/ i = n + 1
  BY <1>1, PipeGrows
<1>4. /\ p \in Prompts /\ p # None /\ 1 \in 1..Len(w) /\ p = w[1] /\ Len(w) \in Nat
      /\ Len(Tail(w)) = Len(w) - 1
      /\ \A i \in 1..Len(Tail(w)) : Tail(w)[i] = w[i + 1] /\ i + 1 \in 2..Len(w)
  BY <1>1, HeadIsWorked
<1>5. /\ vendor'.up = vendor.up /\ vendor'.closed = vendor.closed /\ vendor'.work = Tail(w)
      /\ vendor'.got = vendor.got /\ vendor'.asked = vendor.asked /\ vendor'.ran = vendor.ran
  BY <1>1 DEF VendorFinishes, Kept, Vendor
<1>6. vendor'.work # <<>> => 1 \in 1..Len(Tail(w)) /\ Head(vendor'.work) = w[2] /\ 2 \in 2..Len(w)
                             /\ w[2] \in Prompts
  <2>1. w \in Seq(Prompts) /\ Tail(w) \in Seq(Prompts)
    BY <1>1 DEF Kept, Vendor
  <2> QED
    BY <1>4, <1>5, <2>1
<1> HIDE DEF n, w, p
<1>7. \A r \in Requests : ~Worked(r)'
  <2>1. \A r \in Requests : vendor.asked[r] # None => \A i \in 2..Len(w) : w[i] # vendor.asked[r]
    BY DEF Orderly, WorkedOnce, w
  <2> QED
    BY <1>5, <1>6, <2>1, VendorAssumption DEF Worked
<1>8. \A i \in 1..Len(stdout') : stdout'[i].kind # "result" => i \in 1..n /\ stdout'[i] = stdout[i]
  BY <1>3
<1>9. \A r \in Requests : InPipe(r)' <=> InPipe(r)
  BY <1>3, <1>8 DEF InPipe, n
<1>10. WorkedOnce'
  <2>1. \A i \in 2..Len(w) : i \in 1..Len(w) /\ i # 1
    BY <1>4
  <2>2. \A i, j \in 1..Len(w) : w[i] = w[j] => i = j
    BY DEF Orderly, WorkedOnce, w
  <2>3. \A i \in 1..Len(w) : w[i] \in vendor.got
    BY DEF Orderly, WorkedOnce, w
  <2>4. \A i \in 1..Len(Tail(w)) : Tail(w)[i] \in vendor.got /\ Tail(w)[i] # p
    BY <1>4, <2>1, <2>2, <2>3
  <2>5. \A i, j \in 1..Len(Tail(w)) : Tail(w)[i] = Tail(w)[j] => i = j
    <3>1. ASSUME NEW i \in 1..Len(Tail(w)), NEW j \in 1..Len(Tail(w)), Tail(w)[i] = Tail(w)[j]
          PROVE  i = j
      <4>1. w[i + 1] = w[j + 1] /\ i + 1 \in 1..Len(w) /\ j + 1 \in 1..Len(w)
        BY <1>4, <2>1, <3>1
      <4>2. i + 1 = j + 1
        BY <2>2, <4>1
      <4> QED
        BY <4>2
    <3> QED
      BY <3>1
  <2>6. ASSUME NEW r \in Requests, vendor.asked[r] # None
        PROVE  /\ vendor.asked[r] \in vendor.got
               /\ \A i \in 2..Len(Tail(w)) : Tail(w)[i] # vendor.asked[r]
    <3>1. vendor.asked[r] \in vendor.got /\ \A i \in 2..Len(w) : w[i] # vendor.asked[r]
      BY <2>6 DEF Orderly, WorkedOnce, w
    <3>2. \A i \in 2..Len(Tail(w)) : i \in 1..Len(Tail(w))
      BY <1>4
    <3> QED
      BY <1>4, <3>1, <3>2
  <2>7. ASSUME NEW i \in 1..Len(stdout'), NEW x \in Prompts, ResultOf(stdout, i, x)'
        PROVE  x \in vendor.got /\ \A j \in 1..Len(Tail(w)) : Tail(w)[j] # x
    <3>1. CASE i = n + 1
      <4>1. x = p
        BY <1>3, <2>7, <3>1 DEF ResultOf
      <4> QED
        BY <1>4, <2>3, <2>4, <4>1
    <3>2. CASE i \in 1..n
      <4>1. i \in 1..Len(stdout) /\ ResultOf(stdout, i, x)
        BY <1>3, <2>7, <3>2 DEF ResultOf, n
      <4>2. x \in vendor.got /\ \A j \in 1..Len(w) : w[j] # x
        BY <4>1 DEF Orderly, WorkedOnce, w
      <4> QED
        BY <1>4, <2>1, <4>2
    <3> QED
      BY <1>3, <3>1, <3>2
  <2>8. ~vendor'.up => FALSE
    BY <1>1, <1>5
  <2> QED
    BY <1>5, <2>4, <2>5, <2>6, <2>7, <2>8 DEF WorkedOnce
<1>11. AskedOnce'
  <2>1. \A r \in Requests, i \in 1..Len(stdout') : AskAt(stdout, i, r)' =>
           i \in 1..Len(stdout) /\ AskAt(stdout, i, r)
    BY <1>3, <1>8 DEF AskAt, n
  <2> QED
    BY <1>1, <1>5, <1>7, <1>9, <2>1 DEF Orderly, AskedOnce
<1>12. ToolOnce'
  <2>1. \A r \in Requests, i \in 1..Len(stdout') : ToolAt(stdout, i, r)' =>
           i \in 1..Len(stdout) /\ ToolAt(stdout, i, r)
    BY <1>3, <1>8 DEF ToolAt, n
  <2>2. ASSUME NEW r \in Requests, NEW j \in 1..Len(stdout'), ToolAt(stdout, j, r)',
               NEW i \in 1..Len(stdout'), stdout'[i].kind = "result"
        PROVE  j < i
    <3>1. j \in 1..n /\ ToolAt(stdout, j, r)
      BY <2>1, <2>2 DEF n
    <3>2. CASE i = n + 1
      BY <1>3, <3>1, <3>2
    <3>3. CASE i \in 1..n
      <4>1. i \in 1..Len(stdout) /\ stdout[i].kind = "result"
        BY <1>3, <2>2, <3>3 DEF n
      <4> QED
        BY <3>1, <4>1 DEF Orderly, ToolOnce, n
    <3> QED
      BY <1>3, <3>2, <3>3
  <2> QED
    BY <1>1, <1>5, <2>1, <2>2 DEF Orderly, ToolOnce
<1>13. OneTurn'
  <2>1. flavor = "acp" => \A i \in 1..Len(w) : w[i] = session.turn
    BY DEF Orderly, OneTurn, w
  <2>2. \A i \in 2..Len(w) : i \in 1..Len(w)
    BY <1>4
  <2> QED
    BY <1>1, <1>4, <1>5, <2>1, <2>2 DEF Orderly, OneTurn
<1>14. Noted'
  <2>1. \A r \in Requests : Verdict(r)' = Verdict(r)
    BY <1>1 DEF Verdict
  <2>2. \A r \in Requests : ToolDue(r)' => ToolDue(r)
    BY <1>3, <1>7, <1>8 DEF ToolDue, ToolAt, n
  <2>3. link.at = "respond" => link.request \in Requests
    BY <1>1, LinkFields DEF Kept
  <2> QED
    BY <1>1, <1>7, <2>1, <2>2, <2>3 DEF Orderly, Noted
<1>15. NoStall'
  BY <1>7 DEF NoStall, Stalls, Worked
<1>16. TurnAccepted' /\ InterruptSpent' /\ AnsweredOnce'
  BY <1>1 DEF Orderly, TurnAccepted, InterruptSpent, AnsweredOnce, OncePerThread
<1>17. TurnDue'
  <2>1. ASSUME NEW i \in 1..Len(w), flavor = "acp" => w[i] = session.turn
        PROVE  TurnDue'
    <3>1. CASE i = 1
      <4>1. n + 1 \in 1..Len(stdout')
        BY <1>3
      <4> QED
        BY <1>1, <1>3, <1>4, <2>1, <3>1, <4>1 DEF TurnDue
    <3>2. CASE i # 1
      <4>1. i - 1 \in 1..Len(Tail(w)) /\ Tail(w)[i - 1] = w[(i - 1) + 1] /\ (i - 1) + 1 = i
        BY <1>4, <3>2
      <4> QED
        BY <1>1, <1>5, <2>1, <4>1 DEF TurnDue
    <3> QED
      BY <3>1, <3>2
  <2>2. ASSUME NEW i \in 1..Len(stdout), stdout[i].kind = "result",
               flavor = "acp" => stdout[i].prompt = session.turn
        PROVE  TurnDue'
    BY <1>1, <1>3, <2>2 DEF TurnDue, n
  <2> QED
    BY <1>1, <1>5, <2>1, <2>2 DEF Orderly, TurnDue, Alive, w
<1> QED
  BY <1>10, <1>11, <1>12, <1>13, <1>14, <1>15, <1>16, <1>17 DEF Orderly

\* The process goes, or is told to.
LEMMA GoneKeeps ==
    ASSUME Faithful, Orderly, VendorExits \/ Close
    PROVE  Orderly'
<1>1. Kept /\ UNCHANGED <<flavor, session, link, stdout, answers, outcome>>
  BY DEF VendorExits, Close, Faithful
<1>2. /\ ~Alive' /\ vendor'.got = vendor.got /\ vendor'.asked = vendor.asked /\ vendor'.ran = vendor.ran
      /\ \/ vendor'.work = vendor.work /\ vendor'.up = vendor.up
         \/ vendor'.work = <<>> /\ vendor'.closed
  BY <1>1 DEF VendorExits, Close, Alive, Kept, Vendor
<1>3. \A i \in 1..Len(vendor'.work) : i \in 1..Len(vendor.work) /\ vendor'.work = vendor.work
  BY <1>2
<1>4. \A i \in 2..Len(vendor'.work) : vendor'.work = vendor.work
  BY <1>2
<1>5. \A r \in Requests : (Worked(r)' => Worked(r)) /\ (InPipe(r)' <=> InPipe(r))
  BY <1>1, <1>2 DEF Worked, InPipe
<1>6. WorkedOnce'
  BY <1>1, <1>2, <1>3, <1>4 DEF Orderly, WorkedOnce, ResultOf, Alive
<1>7. AskedOnce'
  BY <1>1, <1>2, <1>5 DEF Orderly, AskedOnce, AskAt
<1>8. ToolOnce' /\ AnsweredOnce'
  BY <1>1, <1>2 DEF Orderly, ToolOnce, ToolAt, AnsweredOnce, OncePerThread
<1>9. OneTurn'
  BY <1>1, <1>2, <1>3 DEF Orderly, OneTurn, VendorExits, Close, Kept, Vendor
<1>10. Noted'
  <2>1. link.at = "respond" => link.request \in Requests
    BY <1>1, LinkFields DEF Kept
  <2>2. \A r \in Requests : Verdict(r)' = Verdict(r) /\ (ToolDue(r)' => ToolDue(r))
    BY <1>1, <1>2, <1>5 DEF Verdict, ToolDue, ToolAt
  <2> QED
    BY <1>1, <1>5, <2>1, <2>2 DEF Orderly, Noted
<1>11. NoStall' /\ TurnDue'
  BY <1>2 DEF NoStall, Stalls, TurnDue, Alive
<1>12. TurnAccepted' /\ InterruptSpent'
  BY <1>1 DEF Orderly, TurnAccepted, InterruptSpent
<1> QED
  BY <1>6, <1>7, <1>8, <1>9, <1>10, <1>11, <1>12 DEF Orderly

-----------------------------------------------------------------------------
(* The theorems.                                                           *)

LEMMA OrderlyInit == Init => Orderly
<1> SUFFICES ASSUME Init PROVE Orderly
  OBVIOUS
<1>1. /\ Len(stdout) = 0 /\ Len(vendor.work) = 0 /\ vendor.work = <<>> /\ vendor.up
      /\ \A r \in Requests : vendor.asked[r] = None /\ answers[r] = <<>>
      /\ vendor.ran = {} /\ link.at = "idle"
      /\ session.pending = {} /\ session.late = {} /\ session.told.shown = {}
      /\ session.turn = None /\ session.interrupting = FALSE
      /\ \A r \in Requests : session.told.tools[r] = "none"
  BY DEF Init, Idle
<1>2. \A r \in Requests : Len(answers[r]) = 0 /\ Verdict(r) = "none" /\ ~Worked(r) /\ ~InPipe(r)
  BY <1>1 DEF Verdict, Worked, InPipe
<1>3. WorkedOnce /\ AskedOnce /\ ToolOnce /\ OneTurn
  BY <1>1, <1>2 DEF WorkedOnce, AskedOnce, ToolOnce, OneTurn
<1>4. AnsweredOnce /\ Noted /\ NoStall
  BY <1>1, <1>2 DEF AnsweredOnce, OncePerThread, Noted, NoStall, Stalls
<1>5. TurnAccepted /\ TurnDue /\ InterruptSpent
  BY <1>1 DEF TurnAccepted, TurnDue, InterruptSpent
<1> QED
  BY <1>3, <1>4, <1>5 DEF Orderly

LEMMA OrderlyStep == Faithful /\ Orderly /\ [Next]_vars => Orderly'
<1> SUFFICES ASSUME Faithful, Orderly, [Next]_vars PROVE Orderly'
  OBVIOUS
<1>1. CASE VendorNext
  BY <1>1, RemarkKeeps, FinishesKeeps, GoneKeeps, AsksKeeps, RunsKeeps, LatenessKeeps,
     RespondWriteKeeps, ForgetKeeps DEF VendorNext
<1>2. CASE ClaudeNext
  BY <1>2, SubmitKeeps, SubmitWriteKeeps, InterruptKeeps, ClaudeInterruptKeeps, RespondKeeps,
     ClaudeReadKeeps, IdleKeeps, EndedKeeps DEF ClaudeNext
<1>3. CASE AcpNext
  BY <1>3, SubmitKeeps, SubmitWriteKeeps, InterruptKeeps, InterruptRecordKeeps, RespondKeeps,
     AcpReadKeeps, IdleKeeps, EndedKeeps DEF AcpNext
<1>4. CASE UNCHANGED vars
  BY <1>4, ThreadRests DEF vars, LinkMoves, Faithful
<1> QED
  BY <1>1, <1>2, <1>3, <1>4 DEF Next

LEMMA OrderlyAlways == Spec => [](Faithful /\ Orderly)
<1>1. Init => Faithful /\ Orderly
  BY KeptInit, HonestInit, OrderlyInit DEF Faithful
<1>2. Faithful /\ Orderly /\ [Next]_vars => (Faithful /\ Orderly)'
  BY FaithfulStep, OrderlyStep
<1> QED
  BY <1>1, <1>2, PTL DEF Spec

\* A request the vendor waits on is pending or was answered, by each thread at
\* most once, and its tool reads as it was answered (_control_request,
\* _permission, respond_request, _expire).
THEOREM RequestsSettled == Spec => []RequestsAnswered
<1>1. ASSUME Faithful, Orderly
      PROVE  RequestsAnswered
  BY <1>1 DEF Orderly, AnsweredOnce, Noted, RefusedReadsDeclined, RequestsAnswered
<1> QED
  BY <1>1, OrderlyAlways, PTL

\* A turn that is shown is owed an end by a vendor that lives, its prompt was
\* never reported lost, and an interrupt is about the turn it was sent in
\* (submit_prompt, _finish_turn, interrupt).
THEOREM TurnsOwed == Spec => []TurnsKept
<1>1. ASSUME Faithful, Orderly
      PROVE  TurnsKept
  <2>1. session.turn # None => session.turn \in Prompts
    BY <1>1 DEF Faithful, Kept, Sound, Session
  <2>2. link.at = "submit" => outcome[link.prompt] = "none"
    BY <1>1 DEF Faithful, Honest
  <2>3. session.turn # None => ~Undelivered(session.turn)
    BY <1>1, <2>2 DEF Orderly, TurnAccepted, Undelivered
  <2>4. ASSUME session.turn # None, Alive, link.at # "submit"
        PROVE  vendor.work # <<>> \/ \E i \in 1..Len(stdout) : stdout[i].kind = "result"
    <3>1. vendor.work = <<>> => Len(vendor.work) = 0
      OBVIOUS
    <3> QED
      BY <1>1, <2>4, <3>1 DEF Orderly, TurnDue
  <2> QED
    BY <1>1, <2>3, <2>4 DEF Orderly, TurnsKept, TurnOwed
<1> QED
  BY <1>1, OrderlyAlways, PTL
=============================================================================
