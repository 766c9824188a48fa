----------------------------- MODULE AuditFanOut -----------------------------
(***************************************************************************)
(* The audit fan-out: several reviewers of one claim at once, each in a    *)
(* thread of its own and told to write nothing, the check of what they     *)
(* wrote anyway, the merge of their verdicts into one HANDOFF.md, and in   *)
(* Linear mode the agent that posts the outcome before it is written       *)
(* (audit_review.py, audit_verification.py, audit_linear_evidence.py,      *)
(* codex_review.py, antigravity_security_review.py, agent_roles.py).  A    *)
(* chat answer may rewrite HANDOFF.md at any of these moments, and the     *)
(* loop inspects its request when the fan-out returned (orchestrator.py).  *)
(***************************************************************************)
EXTENDS Naturals, FiniteSets

CONSTANTS
    Reviewers,   \* the names of audit.reviewers
    MaxAudits,   \* audits dispatched in a behavior
    MaxAnswers,  \* chat answers
    MaxFaults    \* failed calls, crashes and writes nobody should make

ASSUME AuditAssumption ==
    /\ {"quality", "security"} \subseteq Reviewers
    /\ Reviewers \subseteq {"quality", "security", "codex-local"}
    /\ MaxAudits \in Nat /\ MaxAnswers \in Nat /\ MaxFaults \in Nat

VARIABLES
    conf,     \* Linear mode, or dispatcher verification of the claim
    handoff,  \* what HANDOFF.md holds
    tree,     \* the rest of the checkout: as dispatched, edited, a protected edit
    head,     \* whether HEAD is still the commit the claim names
    tracker,  \* the last outcome posted on the Linear issue
    pc,       \* where the dispatcher is
    source,   \* the handoff the reviewers' hashes are compared with
    record,   \* the handoff of the in-flight record
    rev,      \* each reviewer's thread
    agent,    \* what the evidence agent found before it ran, and its last post
    chat,     \* the chat answer that runs
    request,  \* the handoff a takeover request names, or NoText
    told,     \* who wrote HANDOFF.md while reviewing; a declined recovery (history)
    spent     \* audits, answers and faults so far

vars == <<conf, handoff, tree, head, tracker, pc, source, record, rev, agent, chat,
          request, told, spent>>
system == <<tree, head, tracker>>
memory == <<source, record, rev, agent>>
talk == <<chat, request>>

NoText == "none"
Texts == {"request", "recorded", "prefail", "approved", "blocked", "user",
          "reviewer", "agent", "rewritten", "chat"}

\* What a role told to write nothing leaves in HANDOFF.md, and what an audit
\* may be dispatched on: such a text too, when a person keeps it at a start.
Forbidden == {"reviewer", "agent", "rewritten"}
Auditable == {"request", "recorded"} \cup Forbidden

\* The handoffs that name the auditor as their producer.
ByAuditor == {"prefail", "approved", "blocked"}

Worst == {"nothing", "below", "above"}   \* against audit.block_severity
Vote(v, w) == [vote |-> v, worst |-> w]
NoVote == Vote("none", "nothing")

\* A codex review votes fail exactly when it has findings.
Votes == [r \in {"quality", "security", "codex-local"} |->
    IF r = "codex-local"
    THEN {Vote("pass", "nothing"), Vote("fail", "below"), Vote("fail", "above")}
    ELSE [vote : {"pass", "fail"}, worst : Worst]]

Resting == [stage |-> "off", vote |-> NoVote, kept |-> TRUE, error |-> "none"]
NoAgent == [handoff |-> NoText, tree |-> "clean", head |-> "scope", posted |-> "none"]

Fault == spent.faults < MaxFaults
Spend(n) == spent' = [spent EXCEPT !.faults = @ + n]

(***************************************************************************)
(* Before the reviewers.                                                   *)
(***************************************************************************)
\* The loop routes the handoff to the auditor and records the dispatch.  No
\* range to review, no reviewer CLI or no log directory fails the audit.
Begin ==
    /\ pc = "idle" /\ handoff \in Auditable
    /\ ~chat.busy
    /\ spent.audits < MaxAudits
    /\ record' = handoff
    /\ source' = handoff
    /\ request' = NoText
    /\ rev' = [r \in Reviewers |-> Resting]
    /\ agent' = NoAgent
    /\ told' = [told EXCEPT !.spoilers = {}]
    /\ \/ pc' = "scoped" /\ spent' = [spent EXCEPT !.audits = @ + 1]
       \/ /\ Fault /\ pc' = "failed"
          /\ spent' = [spent EXCEPT !.audits = @ + 1, !.faults = @ + 1]
    /\ UNCHANGED <<conf, handoff, system, chat>>

\* The dispatcher itself verifies a claim the work-claim gate has not, on a
\* clean checkout of its commit, unless the handoff records a pass already.
Verifies == conf.verify /\ source # "recorded" /\ head = "scope" /\ tree = "clean"

VerifyFirst ==
    /\ pc = "scoped"
    /\ \/ /\ ~Verifies /\ pc' = "planned"
          /\ UNCHANGED <<handoff, source>>
       \/ /\ Verifies /\ pc' = "planned"
          /\ handoff' = "recorded" /\ source' = "recorded"
       \/ /\ Verifies /\ pc' = "written"
          /\ handoff' = "prefail"
          /\ UNCHANGED source
    /\ UNCHANGED <<conf, system, record, rev, agent, talk, told, spent>>

Launch ==
    /\ pc = "planned"
    /\ pc' = "reviewing"
    /\ rev' = [r \in Reviewers |-> [Resting EXCEPT !.stage = "running"]]
    /\ UNCHANGED <<conf, handoff, system, source, record, agent, talk, told, spent>>

(***************************************************************************)
(* A reviewer's thread.                                                    *)
(***************************************************************************)
Running(r) == pc = "reviewing" /\ rev[r].stage \in {"running", "fallback"}

Ended(r, vote, error) ==
    rev' = [rev EXCEPT ![r].stage = "ended", ![r].vote = vote, ![r].kept = (handoff = source),
                       ![r].error = error]

\* The codex review reads the checked-out HEAD, so HEAD must be the commit.
Answers(r) ==
    /\ Running(r)
    /\ r = "codex-local" => head = "scope"
    /\ \E vote \in Votes[r] : Ended(r, vote, "none")
    /\ UNCHANGED <<conf, handoff, system, pc, source, record, agent, talk, told, spent>>

Misdirected ==
    /\ "codex-local" \in Reviewers /\ Running("codex-local") /\ head # "scope"
    /\ Ended("codex-local", NoVote, "failed")
    /\ UNCHANGED <<conf, handoff, system, pc, source, record, agent, talk, told, spent>>

\* A reviewer exits non-zero, runs out of time or answers nothing readable,
\* or its CLI cannot start, which is not worth a second try.
Fails(r) ==
    /\ Running(r) /\ Fault
    /\ \E error \in {"failed", "unstarted"} : Ended(r, NoVote, error)
    /\ Spend(1)
    /\ UNCHANGED <<conf, handoff, system, pc, source, record, agent, talk, told>>

\* A fatal failure of the quality reviewer's CLI hands its review to the
\* fallback agent, unless HANDOFF.md or a protected file changed meanwhile.
MayFallBack(r) ==
    /\ r = "quality" /\ rev[r].stage = "running"
    /\ handoff = source
    /\ tree # "guard"

FallsBack(r) ==
    /\ Running(r) /\ Fault /\ MayFallBack(r)
    /\ rev' = [rev EXCEPT ![r].stage = "fallback"]
    /\ Spend(1)
    /\ UNCHANGED <<conf, handoff, system, pc, source, record, agent, talk, told>>

\* Whoever writes HANDOFF.md writes other bytes than the audit began with.
Writing(by) == IF source = by THEN "rewritten" ELSE by

\* What a reviewer is told not to do.
Strays(r) ==
    /\ Running(r) /\ Fault /\ Spend(1)
    /\ \/ /\ handoff' = Writing("reviewer")
          /\ told' = [told EXCEPT !.spoilers = @ \cup {r}]
          /\ UNCHANGED <<tree, head>>
       \/ tree' \in {"code", "guard"} /\ UNCHANGED <<handoff, head, told>>
       \/ head' = "moved" /\ UNCHANGED <<handoff, tree, told>>
    /\ UNCHANGED <<conf, tracker, pc, memory, talk>>

\* The poll of a requested takeover kills the reviewer's processes.
Stopped(r) ==
    /\ Running(r) /\ request # NoText
    /\ rev' = [rev EXCEPT ![r].stage = "stopped"]
    /\ UNCHANGED <<conf, handoff, system, pc, source, record, agent, talk, told, spent>>

(***************************************************************************)
(* The dispatcher, when every thread is over.                              *)
(***************************************************************************)
Over(r) == rev[r].stage \in {"ended", "stopped"}

\* Mutant: a reviewer that changed the handoff is not an error.
BugFaulty(r) == rev[r].error # "none"

Faulty(r) == rev[r].error # "none" \/ ~rev[r].kept

\* Mutant: only the first two reviewers are waited for.
BugCollect ==
    /\ pc = "reviewing" /\ \A r \in {"quality", "security"} : Over(r)
    /\ IF request # NoText \/ \E r \in Reviewers : rev[r].stage = "stopped"
       THEN pc' = "raised"
       ELSE pc' = "collected"
    /\ UNCHANGED <<conf, handoff, system, memory, talk, told, spent>>

\* A stopped reviewer or a pending request ends the fan-out at once.
Collect ==
    /\ pc = "reviewing" /\ \A r \in Reviewers : Over(r)
    /\ IF request # NoText \/ \E r \in Reviewers : rev[r].stage = "stopped"
       THEN pc' = "raised"
       ELSE pc' = "collected"
    /\ UNCHANGED <<conf, handoff, system, memory, talk, told, spent>>

\* Mutant: an audit with an error ends before the handoff is restored.
BugRestore ==
    /\ pc = "collected"
    /\ handoff' = IF \E r \in Reviewers : Faulty(r) THEN handoff ELSE source
    /\ pc' = CASE \A r \in Reviewers : ~Faulty(r) -> "merging"
               [] \E r \in Reviewers : rev[r].error = "unstarted" -> "stopped"
               [] OTHER -> "failed"
    /\ rev' = IF pc' = "merging" THEN rev ELSE [r \in Reviewers |-> Resting]
    /\ UNCHANGED <<conf, system, source, record, agent, talk, told, spent>>

\* What a reviewer wrote is taken back.  Any error leaves the audit without
\* a verdict; one that could not start stops the loop as well.
Restore ==
    /\ pc = "collected"
    /\ handoff' = source
    /\ pc' = CASE \A r \in Reviewers : ~Faulty(r) -> "merging"
               [] \E r \in Reviewers : rev[r].error = "unstarted" -> "stopped"
               [] OTHER -> "failed"
    /\ rev' = IF pc' = "merging" THEN rev ELSE [r \in Reviewers |-> Resting]
    /\ UNCHANGED <<conf, system, source, record, agent, talk, told, spent>>

Blocks(r) ==
    \/ rev[r].vote.worst = "above"
    \/ rev[r].vote.vote = "fail" /\ (r = "quality" \/ rev[r].vote.worst = "nothing")

Merged == IF \E r \in Reviewers : Blocks(r) THEN "blocked" ELSE "approved"
Outcome == IF Merged = "approved" THEN "passed" ELSE "failed"

Merge ==
    /\ pc = "merging"
    /\ IF conf.linear
       THEN /\ pc' = "posting"
            /\ agent' = [handoff |-> handoff, tree |-> tree, head |-> head, posted |-> "none"]
       ELSE pc' = "verdict" /\ UNCHANGED agent
    /\ UNCHANGED <<conf, handoff, system, source, record, rev, talk, told, spent>>

WriteVerdict ==
    /\ pc = "verdict"
    /\ handoff' = Merged
    /\ pc' = "written"
    /\ UNCHANGED <<conf, system, memory, talk, told, spent>>

(***************************************************************************)
(* The Linear evidence agent posts the outcome before it is written.       *)
(***************************************************************************)
Posts ==
    /\ pc = "posting" /\ agent.posted = "none"
    /\ \E event \in {"passed", "failed"} :
        /\ event # Outcome => Fault
        /\ Spend(IF event = Outcome THEN 0 ELSE 1)
        /\ tracker' = event
        /\ agent' = [agent EXCEPT !.posted = event]
    /\ UNCHANGED <<conf, handoff, tree, head, pc, source, record, rev, talk, told>>

AgentStrays ==
    /\ pc = "posting" /\ Fault /\ Spend(1)
    /\ \/ handoff' = Writing("agent") /\ UNCHANGED <<tree, head>>
       \/ tree' \in {"code", "guard"} /\ UNCHANGED <<handoff, head>>
       \/ head' = "moved" /\ UNCHANGED <<handoff, tree>>
    /\ UNCHANGED <<conf, tracker, pc, memory, talk, told>>

Untouched == handoff = agent.handoff /\ tree = agent.tree /\ head = agent.head

\* Its answer names the outcome as the last event it posted.
Posted == agent.posted = Outcome

\* Anything but a clean run that posted the outcome stops the loop with the
\* handoff the reviewers were given.
AgentEnds ==
    /\ pc = "posting"
    /\ \E ok \in IF Fault THEN BOOLEAN ELSE {TRUE} :
        /\ Spend(IF ok THEN 0 ELSE 1)
        /\ IF ok /\ Untouched /\ Posted
           THEN pc' = "verdict" /\ UNCHANGED handoff
           ELSE pc' = "stopped" /\ handoff' = source
    /\ UNCHANGED <<conf, system, memory, talk, told>>

AgentStopped ==
    /\ pc = "posting" /\ request # NoText
    /\ pc' = "raised"
    /\ UNCHANGED <<conf, handoff, system, memory, talk, told, spent>>

(***************************************************************************)
(* The loop, when the fan-out returned or raised.                          *)
(***************************************************************************)
\* A request whose bytes are still there and name the auditor is the audit's
\* own handback; any other one is followed.
Inspect ==
    /\ pc \in {"written", "failed", "stopped"}
    /\ IF request # NoText /\ ~(request = handoff /\ handoff \in ByAuditor)
       THEN pc' = "raised" /\ UNCHANGED request
       ELSE request' = NoText /\
            pc' = CASE pc = "written" -> "checking"
                    [] pc = "failed" -> "again"
                    [] OTHER -> "ended"
    /\ UNCHANGED <<conf, handoff, system, memory, chat, told, spent>>

Follow ==
    /\ pc = "raised"
    /\ pc' = IF tree = "guard" THEN "escalated" ELSE "followed"
    /\ handoff' = IF tree = "guard" THEN "user" ELSE handoff
    /\ record' = NoText
    /\ request' = NoText
    /\ UNCHANGED <<conf, system, source, rev, agent, chat, told, spent>>

\* Protected files first; then the handoff is the audit's, once no answer runs.
CheckProtected ==
    /\ pc \in {"checking", "again", "ended"} /\ record # NoText
    /\ record' = NoText
    /\ IF tree = "guard"
       THEN handoff' = "user" /\ pc' = "escalated"
       ELSE UNCHANGED <<handoff, pc>>
    /\ UNCHANGED <<conf, system, source, rev, agent, talk, told, spent>>

Accept ==
    /\ pc = "checking" /\ record = NoText /\ ~chat.busy
    /\ pc' = IF request # NoText THEN "raised" ELSE "accepted"
    /\ UNCHANGED <<conf, handoff, system, memory, talk, told, spent>>

\* A failed audit is dispatched again; a stopped loop is started again.
Again ==
    /\ pc \in {"again", "ended"} /\ record = NoText
    /\ pc' = "idle"
    /\ UNCHANGED <<conf, handoff, system, memory, talk, told, spent>>

(***************************************************************************)
(* Chat answers, crashes.                                                  *)
(***************************************************************************)
AnswerBegins ==
    /\ pc \notin {"down", "accepted", "followed", "escalated"}
    /\ ~chat.busy /\ spent.answers < MaxAnswers
    /\ chat' = [busy |-> TRUE, before |-> handoff]
    /\ spent' = [spent EXCEPT !.answers = @ + 1]
    /\ UNCHANGED <<conf, handoff, system, pc, memory, request, told>>

AnswerRewrites ==
    /\ chat.busy
    /\ handoff' = "chat"
    /\ UNCHANGED <<conf, system, pc, memory, talk, told, spent>>

AnswerEnds ==
    /\ chat.busy
    /\ chat' = [busy |-> FALSE, before |-> NoText]
    /\ request' = IF handoff # chat.before THEN handoff ELSE request
    /\ UNCHANGED <<conf, handoff, system, pc, memory, told, spent>>

Crash ==
    /\ pc \notin {"idle", "down", "accepted", "followed", "escalated"} /\ Fault
    /\ Spend(1)
    /\ pc' = "down"
    /\ rev' = [r \in Reviewers |-> Resting]
    /\ agent' = NoAgent
    /\ source' = NoText
    /\ chat' = [busy |-> FALSE, before |-> NoText]
    /\ request' = NoText
    /\ UNCHANGED <<conf, handoff, system, record, told>>

\* The next start gives the handoff of the record back, if a person agrees.
Restart ==
    /\ pc = "down"
    /\ pc' = "idle"
    /\ record' = NoText
    /\ \/ handoff' = (IF record = NoText THEN handoff ELSE record) /\ UNCHANGED told
       \/ UNCHANGED handoff /\ told' = [told EXCEPT !.declined = TRUE]
    /\ UNCHANGED <<conf, system, source, rev, agent, talk, spent>>

(***************************************************************************)
Init ==
    /\ conf \in {c \in [linear : BOOLEAN, verify : BOOLEAN] :
                    c.linear => ~c.verify}
    /\ handoff = "request" /\ tree = "clean" /\ head = "scope"
    /\ tracker = "none"
    /\ pc = "idle" /\ source = NoText /\ record = NoText
    /\ rev = [r \in Reviewers |-> Resting]
    /\ agent = NoAgent
    /\ chat = [busy |-> FALSE, before |-> NoText] /\ request = NoText
    /\ told = [spoilers |-> {}, declined |-> FALSE]
    /\ spent = [audits |-> 0, answers |-> 0, faults |-> 0]

Reviewing ==
    \/ Misdirected
    \/ \E r \in Reviewers : Answers(r) \/ Fails(r) \/ FallsBack(r) \/ Strays(r) \/ Stopped(r)
Dispatching ==
    \/ Begin \/ VerifyFirst \/ Launch \/ Collect \/ Restore \/ Merge \/ WriteVerdict
    \/ Inspect \/ Follow \/ CheckProtected \/ Accept \/ Again
Posting == Posts \/ AgentStrays \/ AgentEnds \/ AgentStopped
Chatting == AnswerBegins \/ AnswerRewrites \/ AnswerEnds

Next == Reviewing \/ Dispatching \/ Posting \/ Chatting \/ Crash \/ Restart

Spec == Init /\ [][Next]_vars

(***************************************************************************)
(* Properties.                                                             *)
(***************************************************************************)
\* The threads run only while the dispatcher waits for them all, the hashes
\* are compared with the handoff they were given, and a record is there from
\* the dispatch to its end.
TypeOK ==
    /\ handoff \in Texts
    /\ \A r \in Reviewers : rev[r].stage \in {"running", "fallback"} => pc = "reviewing"
    /\ pc \in {"planned", "reviewing", "collected", "merging", "verdict", "posting"} =>
         source \in Texts /\ record \in Texts
    /\ request \in Texts \cup {NoText}
    /\ pc = "written" => handoff \in ByAuditor \cup {"chat"}

\* An approval the loop takes as the audit's own means that every reviewer
\* answered, that none wrote HANDOFF.md meanwhile, that none named a finding
\* at the block severity, that the quality reviewer voted pass, that a failing
\* vote of another came with its findings, that no protected file changed, and
\* that Linear heard the same outcome; a block was told as one.  Whatever
\* chat, fallbacks, crashes and earlier failed audits lie in between.
VerdictEarned ==
    [][ pc' = "accepted" =>
        /\ handoff = "approved" =>
            /\ told.spoilers = {} /\ tree # "guard"
            /\ rev["quality"].vote.vote = "pass"
            /\ \A r \in Reviewers :
                /\ rev[r].stage = "ended" /\ rev[r].vote # NoVote
                /\ rev[r].vote.worst # "above"
                /\ rev[r].vote.vote = "fail" => rev[r].vote.worst = "below"
        /\ conf.linear /\ handoff \in {"approved", "blocked"} =>
            tracker = (IF handoff = "approved" THEN "passed" ELSE "failed") ]_vars

\* What a reviewer or the evidence agent wrote into HANDOFF.md is never the
\* claim of the next audit, unless a person declined to have the interrupted
\* one's handoff restored.
RequestAudited ==
    [][ pc = "idle" /\ pc' \in {"scoped", "failed"} =>
            handoff \in {"request", "recorded"} \/ told.declined ]_vars

\* "The pre-review handoff must not be restored over the chat's rewrite"
\* (audit_review.py).  TLC refutes it: an answer that rewrote HANDOFF.md and
\* still runs has requested nothing yet, so its rewrite is taken for a
\* reviewer's and overwritten.
RewriteNotRestored == [][ pc = "collected" /\ handoff = "chat" => handoff' = "chat" ]_vars
=============================================================================
