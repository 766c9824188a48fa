------------------------------ MODULE ChatTakeover ------------------------------
(* The window around one dispatch in which a chat answer may rewrite HANDOFF.md *)
(* (llm_handoff/chat_takeover.py, and the places in orchestrator.py that arm,   *)
(* wait for, inspect, claim and follow a takeover request). The messages come   *)
(* through the queue AnswerQueue promises.                                      *)
EXTENDS AnswerQueue, Integers

CONSTANTS
    ChatTexts,      \* what chat answers write; producer user or planner
    ValidTexts,     \* the chat texts that validate as a planner's handoff
    RoleTexts,      \* what the dispatched role writes, naming itself producer
    OtherTexts,     \* the dispatcher's own texts, and the first assignment
    NoText

ASSUME TextsAssumption ==
    /\ ValidTexts \subseteq ChatTexts
    /\ ChatTexts \cap RoleTexts = {}
    /\ OtherTexts \cap (ChatTexts \cup RoleTexts) = {}
    /\ NoText \notin ChatTexts \cup RoleTexts \cup OtherTexts

Texts == ChatTexts \cup RoleTexts \cup OtherTexts

(* A text with the dispatcher's own marks: scope_sha stamped, gate passed.      *)
Handoffs == [text: Texts, mark: {"plain", "stamped", "passed"}]
Plain(t) == [text |-> t, mark |-> "plain"]
Marked(h, mark) == [h EXCEPT !.mark = mark]
NoHandoff == Plain(NoText)
Unread == NoHandoff

VARIABLES
    handoff,        \* HANDOFF.md
    before,         \* what the running answer found there
    seen,           \* what it found when it was over, or Unread
    capture,        \* chat_session has a role: messages are accepted
    request,        \* the controller's pending request and generation
    armed,
    pc, cycle,      \* where the dispatch loop is, and its locals
    stale           \* history: texts that need no request of this window: there
                    \* before it, or found by the answer running at Compare

chat == <<queueVars, before, seen>>
controller == <<request, armed>>
vars == <<chat, handoff, capture, controller, pc, cycle, stale>>

Routes == {"implementer", "auditor", "finalizer"}
Requests == [on: BOOLEAN, sha: Handoffs \cup {NoHandoff}, generation: Nat]
Cycles == [route: Routes,
           base: Handoffs \cup {NoHandoff},     \* what the cycle was routed on
           returned: BOOLEAN,                   \* FALSE: a takeover stopped the role
           inspected: Requests,                 \* the request the loop looked at
           held: Handoffs \cup {NoHandoff}]     \* bytes read to be used later
Locations == {"top", "read", "ready", "clear", "arm", "running", "disarm", "settle",
              "inspect", "check", "claim", "decide", "late", "commit", "stamp",
              "validate", "late_gate", "gate", "verdict", "hush", "late_publish",
              "publish", "follow", "forget", "compare", "judge", "pause", "paused"}

TypeOK ==
    /\ QueueTypeOK
    /\ handoff \in Handoffs
    /\ {before, seen} \subseteq Handoffs \cup {NoHandoff}
    /\ stale \subseteq Texts \cup {NoText}
    /\ {capture, armed} \subseteq BOOLEAN
    /\ request \in Requests
    /\ pc \in Locations
    /\ cycle \in Cycles

--------------------------------------------------------------------------------
(* Chat. A message is accepted while a role is set. Its answer reads HANDOFF.md *)
(* when it begins and when it is over, and requests a takeover if it changed.   *)

Submit(m) ==
    /\ capture /\ Accept(m)
    /\ UNCHANGED <<handoff, before, seen, capture, controller, pc, cycle, stale>>

AnswerBegins ==
    /\ Begin
    /\ before' = handoff
    /\ UNCHANGED <<handoff, seen, capture, controller, pc, cycle, stale>>

ChatWrites ==
    /\ current # NoMessage /\ seen = Unread
    /\ \E t \in ChatTexts : handoff' = Plain(t)
    /\ UNCHANGED <<chat, capture, controller, pc, cycle, stale>>

AnswerOver ==
    /\ current # NoMessage /\ seen = Unread
    /\ seen' = handoff
    /\ UNCHANGED <<queueVars, handoff, before, capture, controller, pc, cycle, stale>>

Requested == [on |-> TRUE, sha |-> seen, generation |-> request.generation + 1]

AnswerEnds ==
    /\ seen # Unread
    /\ End
    /\ request' = IF seen # before THEN Requested ELSE request
    /\ before' = NoHandoff /\ seen' = Unread
    /\ UNCHANGED <<handoff, capture, armed, pc, cycle, stale>>

Answering == AnswerBegins \/ AnswerOver \/ AnswerEnds

--------------------------------------------------------------------------------
(* The loop, up to the role's return.                                           *)

Step(from, to) == pc = from /\ pc' = to

NoCycle ==
    [route |-> "implementer", base |-> NoHandoff, returned |-> FALSE,
     inspected |-> [on |-> FALSE, sha |-> NoHandoff, generation |-> 0],
     held |-> NoHandoff]

LoopTop ==
    /\ Step("top", "read")
    /\ capture' = FALSE
    /\ cycle' = NoCycle
    /\ stale' = {}
    /\ UNCHANGED <<chat, handoff, controller>>

ReadHandoff ==
    /\ Step("read", "ready")
    /\ \E r \in Routes : cycle' = [cycle EXCEPT !.route = r, !.base = handoff]
    /\ UNCHANGED <<chat, handoff, capture, controller, stale>>

SetRole ==
    /\ Step("ready", "clear")
    /\ capture' = TRUE
    /\ UNCHANGED <<chat, handoff, controller, cycle, stale>>

Dropped == [request EXCEPT !.on = FALSE, !.sha = NoHandoff]

(* The finalizer is never stopped: its branch arms nothing.                     *)
ClearStale ==
    /\ Step("clear", IF cycle.route = "finalizer" THEN "running" ELSE "arm")
    /\ request' = Dropped
    /\ stale' = {handoff.text, before.text}
    /\ UNCHANGED <<chat, handoff, capture, armed, cycle>>

BugArm ==
    /\ Step("arm", "running")
    /\ UNCHANGED <<chat, handoff, capture, controller, cycle, stale>>

Arm ==
    /\ Step("arm", "running")
    /\ armed' = TRUE
    /\ UNCHANGED <<chat, handoff, capture, request, cycle, stale>>

RoleWrites ==
    /\ pc = "running"
    /\ \E t \in RoleTexts : handoff' = Plain(t)
    /\ UNCHANGED <<chat, capture, controller, pc, cycle, stale>>

RoleReturns ==
    /\ Step("running", IF cycle.route = "finalizer" THEN "settle" ELSE "disarm")
    /\ cycle' = [cycle EXCEPT !.returned = TRUE]
    /\ UNCHANGED <<chat, handoff, capture, controller, stale>>

(* The process runner's poll sees the request; the process tree is killed.      *)
RoleStopped ==
    /\ Step("running", "disarm")
    /\ request.on /\ armed
    /\ UNCHANGED <<chat, handoff, capture, controller, cycle, stale>>

Disarm ==
    /\ Step("disarm", "settle")
    /\ armed' = FALSE
    /\ UNCHANGED <<chat, handoff, capture, request, cycle, stale>>

--------------------------------------------------------------------------------
(* Whose handback is it?                                                        *)

Settle ==
    /\ Idle
    /\ Step("settle", "inspect")
    /\ UNCHANGED <<chat, handoff, capture, controller, cycle, stale>>

Inspect ==
    /\ Step("inspect", IF cycle.returned /\ request.on THEN "check" ELSE "decide")
    /\ cycle' = IF cycle.returned /\ request.on
                THEN [cycle EXCEPT !.inspected = request] ELSE cycle
    /\ UNCHANGED <<chat, handoff, capture, controller, stale>>

(* _takeover_is_role_handback, on one reading of the file.                      *)
RoleHandback == handoff = cycle.inspected.sha /\ handoff.text \in RoleTexts

Check ==
    /\ Step("check", IF RoleHandback THEN "claim" ELSE "decide")
    /\ UNCHANGED <<chat, handoff, capture, controller, cycle, stale>>

BugClaim ==
    /\ Step("claim", "decide")
    /\ request' = Dropped
    /\ UNCHANGED <<chat, handoff, capture, armed, cycle, stale>>

(* clear_takeover_if: a newer request stays.                                    *)
Claim ==
    /\ Step("claim", "decide")
    /\ request' = IF request.generation = cycle.inspected.generation
                  THEN Dropped ELSE request
    /\ UNCHANGED <<chat, handoff, capture, armed, cycle, stale>>

(* The finalizer's branch leaves a request to its late check.                   *)
TakenOver == cycle.route # "finalizer" /\ (~cycle.returned \/ request.on)

Decide ==
    /\ Step("decide", IF TakenOver THEN "follow" ELSE "late")
    /\ UNCHANGED <<chat, handoff, capture, controller, cycle, stale>>

(* A failed role or a protected file it changed ends the cycle at once.         *)
EndsEarly ==
    /\ ~TakenOver
    /\ Step("decide", "top")
    /\ handoff' \in {handoff} \cup {Plain(t) : t \in OtherTexts}
    /\ UNCHANGED <<chat, capture, controller, cycle, stale>>

--------------------------------------------------------------------------------
(* After the role's return: each stage waits for running answers and follows a  *)
(* request before it goes on (_late_chat_takeover).                             *)

LateCheck(from, to) ==
    /\ Idle
    /\ Step(from, IF request.on THEN "follow" ELSE to)
    /\ UNCHANGED <<chat, handoff, capture, controller, cycle, stale>>

AfterValidation ==
    CASE cycle.route = "implementer" -> "gate"
      [] cycle.route = "auditor" -> "hush"
      [] cycle.route = "finalizer" -> "top"

LateChecks ==
    \/ LateCheck("late", IF cycle.route = "implementer" THEN "commit" ELSE "validate")
    \/ LateCheck("late_gate", AfterValidation)
    \/ LateCheck("late_publish", "publish")

BugReads(from, to) ==
    /\ Step(from, to)
    /\ UNCHANGED <<chat, handoff, capture, controller, cycle, stale>>

Reads(from, to) ==
    /\ Step(from, to)
    /\ cycle' = [cycle EXCEPT !.held = handoff]
    /\ UNCHANGED <<chat, handoff, capture, controller, stale>>

(* _commit_for_implementer reads the claim, commits, and writes the claim back  *)
(* with its SHA, unless there was nothing to commit.                            *)
Commit == Reads("commit", "stamp")

Stamp ==
    /\ Step("stamp", "validate")
    /\ handoff' \in {handoff, Marked(cycle.held, "stamped")}
    /\ UNCHANGED <<chat, capture, controller, cycle, stale>>

(* The handoff has to be new and the role's own; a rejected one ends the cycle. *)
(* What a finalizer left unchanged is not validated.                            *)
Validated == cycle.route # "finalizer" \/ handoff # cycle.base
Acceptable == handoff.text \in RoleTexts /\ handoff # cycle.base

Validate ==
    /\ IF Validated => Acceptable
       THEN Step("validate", "late_gate")
       ELSE Step("validate", "top") \/ Step("validate", "pause")
    /\ UNCHANGED <<chat, handoff, capture, controller, cycle, stale>>

(* _run_work_claim_gate: the verification runs between the two.                 *)
GateReads == Reads("gate", "verdict")

GateWrites ==
    /\ Step("verdict", "top")
    /\ handoff' \in {handoff, Marked(cycle.held, "passed")} \cup
                       {Plain(t) : t \in OtherTexts}
    /\ UNCHANGED <<chat, capture, controller, cycle, stale>>

BugHush ==
    /\ Step("hush", "late_publish")
    /\ UNCHANGED <<chat, handoff, capture, controller, cycle, stale>>

(* Capture is off from here until the next dispatch.                            *)
Hush ==
    /\ Step("hush", "late_publish")
    /\ capture' = FALSE
    /\ UNCHANGED <<chat, handoff, controller, cycle, stale>>

Publish ==
    /\ Step("publish", "top")
    /\ UNCHANGED <<chat, handoff, capture, controller, cycle, stale>>

--------------------------------------------------------------------------------
(* _follow_chat_takeover. The SHA is kept, then the request is cleared: two     *)
(* critical sections of the controller.                                         *)

Follow ==
    /\ Step("follow", "forget")
    /\ cycle' = [cycle EXCEPT !.held = request.sha]
    /\ UNCHANGED <<chat, handoff, capture, controller, stale>>

Forget ==
    /\ Step("forget", "compare")
    /\ request' = Dropped
    /\ UNCHANGED <<chat, handoff, capture, armed, cycle, stale>>

ProtectedFileChanged ==
    /\ Step("compare", "top")
    /\ \E t \in OtherTexts : handoff' = Plain(t)
    /\ UNCHANGED <<chat, capture, controller, cycle, stale>>

BugCompare ==
    /\ Step("compare", "judge")
    /\ stale' = {before.text}
    /\ UNCHANGED <<chat, handoff, capture, controller, cycle>>

Compare ==
    /\ Step("compare", IF handoff = cycle.held THEN "judge" ELSE "pause")
    /\ stale' = {before.text}
    /\ UNCHANGED <<chat, handoff, capture, controller, cycle>>

Judge ==
    /\ Step("judge", IF handoff.text \in ValidTexts /\ handoff # cycle.base
                     THEN "top" ELSE "pause")
    /\ UNCHANGED <<chat, handoff, capture, controller, cycle, stale>>

Pause ==
    /\ Step("pause", "paused")
    /\ capture' = FALSE
    /\ UNCHANGED <<chat, handoff, controller, cycle, stale>>

(* The operator lets the loop go on with the handoff as it is.                  *)
PauseEnds ==
    /\ Step("paused", "top")
    /\ UNCHANGED <<chat, handoff, capture, controller, cycle, stale>>

--------------------------------------------------------------------------------
Init ==
    /\ QueueInit
    /\ handoff \in {Plain(t) : t \in OtherTexts}
    /\ before = NoHandoff /\ seen = Unread
    /\ capture = FALSE
    /\ request = NoCycle.inspected
    /\ armed = FALSE
    /\ pc = "top"
    /\ cycle = NoCycle
    /\ stale = {}

Chatting == (\E m \in Messages : Submit(m)) \/ ChatWrites \/ Answering
BeforeReturn == LoopTop \/ ReadHandoff \/ SetRole \/ ClearStale \/ Arm \/ Disarm
AfterReturn == Settle \/ Inspect \/ Check \/ Claim \/ Decide \/ EndsEarly
Stages == LateChecks \/ Commit \/ Stamp \/ Validate \/ GateReads \/ GateWrites
              \/ Hush \/ Publish
Following == Follow \/ Forget \/ ProtectedFileChanged \/ Compare \/ Judge \/ Pause
LoopStep == BeforeReturn \/ AfterReturn \/ Stages \/ Following

Next == Chatting \/ LoopStep \/ RoleWrites \/ RoleReturns \/ RoleStopped \/ PauseEnds

(* The loop and the answers go on, and the runner polls; nothing makes a role   *)
(* return or an operator end a pause.                                           *)
Fairness ==
    /\ WF_vars(LoopStep)
    /\ WF_vars(Answering)
    /\ WF_vars(RoleStopped)

Spec == Init /\ [][Next]_vars
FairSpec == Spec /\ Fairness

--------------------------------------------------------------------------------
(* Properties.                                                                  *)

InWindow == pc \in Locations \ {"top", "read", "ready", "clear", "follow", "forget",
                                "compare", "judge", "pause", "paused"}

(* From the dispatch to the end of its cycle, a chat's rewrite on disk is never *)
(* forgotten: a request is pending, or the answer that wrote it has yet to      *)
(* make one. The role's handback, inspected and claimed while further answers   *)
(* end, takes no other answer's request with it.                                *)
NoRewriteForgotten ==
    InWindow /\ handoff \in {Plain(t) : t \in ChatTexts \ stale} =>
        \/ request.on
        \/ current # NoMessage /\ before # (IF seen = Unread THEN handoff ELSE seen)

(* What is published is the role's own handoff, and nobody can rewrite it: no   *)
(* answer is running, none is waiting, and no takeover is pending.              *)
PublishedQuietly ==
    pc = "publish" => /\ Idle /\ ~capture /\ ~request.on
                      /\ handoff.text \in RoleTexts

(* A handoff is followed as a chat's only if it is, byte for byte, what the     *)
(* request named, or yet another answer is at it: a request lost between        *)
(* keeping the SHA and clearing lets no other bytes through. The exception is   *)
(* an answer that runs across the comparison: it asks for nothing when it ends  *)
(* as it began, so the bytes it found can come back after the named ones were   *)
(* compared.                                                                    *)
FollowedAsRequested ==
    [][ pc = "judge" /\ pc' = "top" =>
            \/ handoff \in {cycle.held} \cup {Plain(t) : t \in stale}
            \/ ~Idle \/ request.on ]_vars

(* A rewrite that has been requested ends the run of any role but the finalizer.*)
RewriteStopsRole ==
    request.on /\ pc = "running" /\ cycle.route # "finalizer" ~> pc # "running"

(* orchestrator.py:4095: after the role returned, the chat's handoff is         *)
(* followed "instead of being committed, gated, or published as the role's":    *)
(* what a chat writes while the gate verifies a claim is not overwritten.       *)
RewriteOutlivesGate ==
    [][ /\ pc = "verdict" /\ pc' = "top"
        /\ handoff.text \in ChatTexts /\ handoff # cycle.held
        => handoff' = handoff ]_vars
================================================================================
