---------------------------- MODULE VendorSession ----------------------------
(***************************************************************************)
(* What the Claude and ACP drivers have in common: a vendor process on two *)
(* pipes (bridge/deskhelm_host/vendor.py), a reader thread that turns its  *)
(* output into facts, and the host's link thread that performs effects.    *)
(* ClaudeDriver and AcpDriver add what each driver does.                   *)
(*                                                                         *)
(* A section of code under the driver's lock is one step; the link thread  *)
(* writes to the vendor between two such sections, so an effect takes      *)
(* several steps and "link" is what it remembers. A read is one message    *)
(* and the expiry that follows each batch.                                 *)
(*                                                                         *)
(* The vendor is external and does what its protocol allows. It learns at  *)
(* once what is written to it; its output waits in stdout. Abstracted:     *)
(* texts, replies, labels, catalogs and echoes; a write that blocks; the   *)
(* eviction of the oldest of 64 declined tools.                            *)
(***************************************************************************)
EXTENDS Integers, Sequences, FiniteSets

CONSTANTS
    Prompts,    \* command ids of the prompts
    Requests,   \* the vendor's requests; each is about one tool use
    Offers,     \* sets of one-time options an ACP request may carry
    None,
    MaxPending  \* MAX_PENDING_APPROVALS, MAX_PENDING_PERMISSIONS

CONSTANTS
    MaxOut      \* bound of the model: vendor messages not yet read

ASSUME VendorAssumption ==
    /\ None \notin Prompts \cup Requests
    /\ Prompts \cap Requests = {}
    /\ \A o \in Offers : o \subseteq {"allow", "reject"}
    /\ MaxPending \in Nat /\ MaxOut \in Nat

VARIABLES
    flavor,     \* which of the two drivers
    session,    \* the driver's fields, and what its facts have said
    link,       \* the effect the link thread is performing
    vendor,     \* the vendor process and what it works on
    stdout,     \* what the vendor wrote and the reader has not read
    answers,    \* history: what was written to the vendor, by request
    outcome     \* history: the outcome reported, by prompt or request

vars == <<flavor, session, link, vendor, stdout, answers, outcome>>

Outcomes == {"none", "accepted", "undelivered", "unsupported"}

Told    == [ready : BOOLEAN, turn : Prompts \cup {None}, open : SUBSET Requests,
            shown : SUBSET Requests, answerable : BOOLEAN,
            tools : [Requests -> {"none", "completed", "declined", "failed"}],
            ended : BOOLEAN]
Session == [ready : BOOLEAN, turn : Prompts \cup {None}, interrupting : BOOLEAN,
            pending : SUBSET Requests, late : SUBSET Requests,
            options : [Requests -> SUBSET {"allow", "reject"}],
            declined : SUBSET Requests, answerable : BOOLEAN, told : Told]
Idle    == [at |-> "idle"]
Effect  == [at : {"submit"}, prompt : Prompts, starts : BOOLEAN]
           \cup [at : {"interrupt"}]
           \cup [at : {"respond", "forget"}, request : Requests, allow : BOOLEAN]
Answer  == [by : {"user", "driver"}, says : {"allow", "deny", "cancelled", "error"}]
Vendor  == [up : BOOLEAN, closed : BOOLEAN, work : Seq(Prompts), got : SUBSET Prompts,
            asked : [Requests -> Prompts \cup {None}], ran : SUBSET Requests]
Message == [kind : {"ready", "refused"}]
           \cup [kind : {"yolo"}, on : BOOLEAN]
           \cup [kind : {"ask"}, request : Requests, about : {"tool", "question", "other"},
                 options : SUBSET {"allow", "reject"}]
           \cup [kind : {"tool"}, request : Requests, failed : BOOLEAN]
           \cup [kind : {"result"}, prompt : Prompts]

Init ==
    /\ flavor \in {"claude", "acp"}
    /\ session = [ready |-> FALSE, turn |-> None, interrupting |-> FALSE,
                  pending |-> {}, late |-> {},
                  options |-> [r \in Requests |-> {}], declined |-> {},
                  answerable |-> TRUE,
                  told |-> [ready |-> FALSE, turn |-> None, open |-> {}, shown |-> {}, answerable |-> TRUE,
                            tools |-> [r \in Requests |-> "none"], ended |-> FALSE]]
    /\ link = Idle
    /\ vendor = [up |-> TRUE, closed |-> FALSE, work |-> <<>>, got |-> {},
                 asked |-> [r \in Requests |-> None], ran |-> {}]
    /\ stdout = <<>>
    /\ answers = [r \in Requests |-> <<>>]
    /\ outcome = [x \in Prompts \cup Requests |-> "none"]

-----------------------------------------------------------------------------
(* The process, and what both drivers do the same way.                     *)

Alive == ~vendor.closed

\* write_line of answers to the requests in rs; a closed vendor gets none.
Written(rs, by, says) ==
    IF Alive
    THEN [r \in Requests |-> IF r \in rs THEN Append(answers[r], [by |-> by, says |-> says])
                             ELSE answers[r]]
    ELSE answers

\* What the vendor goes by: the first answer.
Verdict(r) == IF answers[r] = <<>> THEN "none" ELSE answers[r][1].says

SettleSilently(s, rs) == [s EXCEPT !.pending = @ \ rs, !.late = @ \ rs]      \* faulty

\* request_resolved, expired or cancelled
Settle(s, rs) == [s EXCEPT !.pending = @ \ rs, !.late = @ \ rs, !.told.open = @ \ rs]

Expired(s) == s.late

Open(s, r, options) ==
    [s EXCEPT !.pending = @ \cup {r}, !.options[r] = options,
              !.told.open = @ \cup {r}, !.told.shown = @ \cup {r}]

\* A tool that failed after this driver refused it was declined.
ToolStatus(s, m) ==
    IF ~m.failed THEN "completed" ELSE IF m.request \in s.declined THEN "declined" ELSE "failed"

ToolEnds(s, m) ==
    [s EXCEPT !.told.tools[m.request] = ToolStatus(s, m), !.declined = @ \ {m.request}]

\* user prompt, turn_started
Started(s, p) == [s EXCEPT !.turn = p, !.told.turn = p]

Ready(s) == [s EXCEPT !.ready = TRUE, !.told.ready = TRUE]

Reports(x, o) == outcome' = [outcome EXCEPT ![x] = o]

-----------------------------------------------------------------------------
(* The vendor                                                              *)

Says(m) == Len(stdout) < MaxOut /\ stdout' = Append(stdout, m)

VendorOpens ==
    /\ vendor.up /\ ~session.ready /\ stdout = <<>>
    /\ \E kind \in {"ready"} \cup (IF flavor = "acp" THEN {"refused"} ELSE {}) :
         Says([kind |-> kind])
    /\ UNCHANGED <<flavor, session, link, vendor, answers, outcome>>

\* Grok's always-approve mode goes on or off.
VendorExtension ==
    /\ flavor = "acp" /\ vendor.up /\ session.ready /\ vendor.work = <<>>
    /\ Says([kind |-> "yolo", on |-> session.answerable])
    /\ UNCHANGED <<flavor, session, link, vendor, answers, outcome>>

VendorAsks(r) ==
    /\ vendor.up /\ vendor.work # <<>> /\ vendor.asked[r] = None
    /\ \E about \in {"tool", "other"} \cup (IF flavor = "claude" THEN {"question"} ELSE {}),
          options \in (IF flavor = "acp" THEN Offers ELSE {{"allow", "reject"}}) :
         Says([kind |-> "ask", request |-> r, about |-> about, options |-> options])
    /\ vendor' = [vendor EXCEPT !.asked[r] = Head(vendor.work)]
    /\ UNCHANGED <<flavor, session, link, answers, outcome>>

\* A tool ends once its request is answered; one that was refused fails.
VendorRuns(r) ==
    /\ vendor.up /\ vendor.work # <<>> /\ vendor.asked[r] = Head(vendor.work)
    /\ r \notin vendor.ran /\ Verdict(r) # "none"
    /\ \E failed \in BOOLEAN :
         /\ Verdict(r) = "allow" \/ failed
         /\ Says([kind |-> "tool", request |-> r, failed |-> failed])
    /\ vendor' = [vendor EXCEPT !.ran = @ \cup {r}]
    /\ UNCHANGED <<flavor, session, link, answers, outcome>>

VendorFinishes ==
    /\ vendor.up /\ vendor.work # <<>>
    /\ Says([kind |-> "result", prompt |-> Head(vendor.work)])
    /\ vendor' = [vendor EXCEPT !.work = Tail(@)]
    /\ UNCHANGED <<flavor, session, link, answers, outcome>>

VendorExits ==
    /\ vendor.up
    /\ vendor' = [vendor EXCEPT !.up = FALSE, !.closed = TRUE, !.work = <<>>]
    /\ UNCHANGED <<flavor, session, link, stdout, answers, outcome>>

\* VendorProcess.terminate: writes fail from now on, the process goes later.
Close ==
    /\ ~vendor.closed
    /\ vendor' = [vendor EXCEPT !.closed = TRUE]
    /\ UNCHANGED <<flavor, session, link, stdout, answers, outcome>>

\* The window of a pending request passes.
Lateness(r) ==
    /\ r \in session.pending \ session.late
    /\ session' = [session EXCEPT !.late = @ \cup {r}]
    /\ UNCHANGED <<flavor, link, vendor, stdout, answers, outcome>>

-----------------------------------------------------------------------------
(* The second half of a decision: what was read under the lock is written  *)
(* without it, and forgotten under it again.                               *)

RespondWrite ==
    /\ link.at = "respond"
    /\ IF Alive
       THEN /\ answers' = Written({link.request}, "user", IF link.allow THEN "allow" ELSE "deny")
            /\ link' = [link EXCEPT !.at = "forget"]
            /\ UNCHANGED outcome
       ELSE /\ Reports(link.request, "undelivered")
            /\ link' = Idle
            /\ UNCHANGED answers
    /\ UNCHANGED <<flavor, session, vendor, stdout>>

ForgottenOutcomeIfGone(r) == IF r \in session.pending THEN "accepted" ELSE "undelivered"  \* faulty

ForgottenOutcome(r) == "accepted"

\* The Bridge takes an accepted decision as the end of the request.
RespondForget ==
    /\ link.at = "forget"
    /\ session' = Settle(session, {link.request})
    /\ Reports(link.request, ForgottenOutcome(link.request))
    /\ link' = Idle
    /\ UNCHANGED <<flavor, vendor, stdout, answers>>

VendorNext ==
    \/ VendorOpens \/ VendorExtension \/ VendorFinishes \/ VendorExits
    \/ \E r \in Requests : VendorAsks(r) \/ VendorRuns(r) \/ Lateness(r)
    \/ Close
    \/ RespondWrite \/ RespondForget
=============================================================================
