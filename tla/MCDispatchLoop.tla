---------------------------- MODULE MCDispatchLoop ----------------------------
(* Handoff texts and role habits for model checking DispatchLoop.               *)
EXTENDS DispatchLoop

CONSTANT S1     \* the one story of these instances

MCStories == {S1}

Text(next, status, producer) ==
    [next |-> next, sure |-> TRUE, status |-> status, producer |-> producer,
     story |-> S1, flaws |-> {}, boast |-> FALSE]
Flawed(text, flaws) == [text EXCEPT !.flaws = flaws]

(* Every text any instance uses; each instance takes a subset.                  *)
AllTexts ==
    [assign |-> Text("backend", "other", "planner"),
     claim |-> Text("auditor", "ready_for_review", "backend"),
     claim_messy |-> Flawed(Text("auditor", "ready_for_review", "backend"), {"hygiene"}),
     partial_messy |-> Flawed(Text("planner", "other", "backend"), {"hygiene"}),
     claim_no_sha |-> Flawed(Text("auditor", "ready_for_review", "backend"), {"sha_missing"}),
     claim_boast |-> [Text("auditor", "ready_for_review", "backend") EXCEPT !.boast = TRUE],
     claim_nowhere |-> Text("unknown", "ready_for_review", "backend"),
     claim_to_self |-> Text("backend", "ready_for_review", "backend"),
     blocked |-> Text("user", "blocked_missing_context", "backend"),
     approve |-> Text("planner", "verified_pass", "auditor"),
     approve_messy |-> Flawed(Text("planner", "verified_pass", "auditor"), {"hygiene"}),
     approve_boast |-> [Text("planner", "verified_pass", "auditor") EXCEPT !.boast = TRUE],
     approve_final |-> Text("finalizer", "verified_pass", "auditor"),
     reject |-> Text("backend", "verified_fail", "auditor"),
     garbled |-> Text("invalid", "other", "auditor"),
     unsure |-> [Text("backend", "other", "planner") EXCEPT !.sure = FALSE],
     to_tpm |-> Text("tpm", "other", "planner"),
     from_tpm |-> Text("planner", "other", "tpm"),
     finished |-> Text("planner", "other", "finalizer"),
     bounce |-> Text("backend", "verified_fail", "validator"),
     bounce_planner |-> Text("planner", "verified_fail", "validator"),
     bounce_user |-> Text("user", "escalate_to_user", "validator"),
     stop |-> Text("user", "escalate_to_user", "validator")]

FrontOf(texts) == [h \in texts |-> AllTexts[h]]
Silent == [r \in Roles |-> {}]

(* Claims, gate, audit.                                                         *)
GateTexts == {"assign", "partial_messy", "claim", "claim_messy", "claim_no_sha", "claim_nowhere",
              "approve", "bounce_user", "stop"}
GateFront == FrontOf(GateTexts)
GateRoles ==
    [Silent EXCEPT !["planner"] = {"assign"},
                   !["backend"] = {"partial_messy", "claim", "claim_messy", "claim_no_sha",
                                   "claim_nowhere"},
                   !["auditor"] = {"approve"}]
GateBounces == {"bounce_user"}

(* A story's way to publication: rejections, approvals good and bad, the epic's  *)
(* close, and the review that sends an approval back.                           *)
StoryTexts == {"assign", "claim", "reject", "approve", "approve_messy", "approve_boast",
               "approve_final", "bounce", "finished", "stop"}
StoryFront == FrontOf(StoryTexts)
StoryRoles ==
    [Silent EXCEPT !["planner"] = {"assign"}, !["backend"] = {"claim"},
                   !["auditor"] = {"reject", "approve", "approve_messy",
                                   "approve_boast", "approve_final"},
                   !["finalizer"] = {"finished"}]
StoryBounces == {"bounce"}

(* Handoffs that name no route, a doubtful one, or a role that is not there.    *)
LostTexts == {"assign", "claim_boast", "claim_to_self", "blocked", "garbled", "unsure",
              "to_tpm", "from_tpm", "claim_nowhere", "stop"}
LostFront == FrontOf(LostTexts)
LostRoles ==
    [Silent EXCEPT !["planner"] = {"assign", "unsure", "to_tpm"},
                   !["backend"] = {"claim_boast", "claim_to_self", "claim_nowhere", "blocked"},
                   !["auditor"] = {"garbled"}, !["tpm"] = {"from_tpm"}]
Nothing == {}

OnlyAssign == {"assign"}
===============================================================================
