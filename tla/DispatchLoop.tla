------------------------------ MODULE DispatchLoop ------------------------------
(* The serial dispatch loop of llm_handoff/orchestrator.py (_run_loop_cycles):  *)
(* read HANDOFF.md, choose one role, run it, judge the handback, gate an        *)
(* implementer's claim, publish an approval, and go round again, with every     *)
(* pause, recovery, breaker and counter that decides what runs next.            *)
(*                                                                              *)
(* A handoff is a "text" (a member of Handoffs, described by its Front record)  *)
(* plus the dispatcher's own mark that the work-claim gate passed on it; two    *)
(* handoffs have one content SHA exactly when the records are equal.            *)
EXTENDS Integers, FiniteSets

CONSTANTS
    Handoffs,        \* the handoff texts anybody writes
    Front,           \* Front[h]: what frontmatter and body of text h say
    RoleTexts,       \* RoleTexts[r]: the texts role r writes
    PersonTexts,     \* the texts a person writes by hand
    BounceTexts,     \* the texts the dispatcher bounces a claim or approval with
    FirstTexts,      \* the texts the loop is first started on
    Stories,         \* story ids
    Escalation,      \* the text the dispatcher writes on a protected-file change
    PauseRecovery, Reconcile, EnforceWorkPacket, TpmConfigured, Publishing,
    Polling,         \* config switches; Polling: poll_interval_seconds > 0
    MaxFailures,     \* max_consecutive_failures
    Events,          \* bound: which of "edit", "stop", "crash" happen
    BounceCap        \* bound: bounce counts above it are not told apart

Implementers == {"backend", "frontend"}
Roles == Implementers \cup {"planner", "tpm", "auditor", "validator", "finalizer"}
Routes == Roles \cup {"user", "unknown", "invalid"}
Statuses == {"ready_for_review", "verified_pass", "verified_fail",
             "escalate_to_user", "blocked_missing_context", "other"}
Flaws == {"hygiene", "sha_missing", "contract"}
Fronts == [next: Routes, sure: BOOLEAN, status: Statuses, producer: Roles,
           story: Stories, flaws: SUBSET Flaws, boast: BOOLEAN]

BreakerLimit == 3

ASSUME HandoffsAssumption ==
    /\ Front \in [Handoffs -> Fronts]
    /\ RoleTexts \in [Roles -> SUBSET Handoffs]
    /\ PersonTexts \cup BounceTexts \subseteq Handoffs
    /\ FirstTexts \subseteq Handoffs
    /\ Escalation \in Handoffs
    /\ Front[Escalation].next = "user"

ASSUME SwitchesAssumption ==
    /\ {PauseRecovery, Reconcile, EnforceWorkPacket, TpmConfigured, Publishing,
        Polling} \subseteq BOOLEAN
    /\ MaxFailures \in Nat \ {0}
    /\ BounceCap \in Nat
    /\ BreakerLimit < BounceCap
    /\ Events \subseteq {"edit", "stop", "crash"}

Contents == [text: Handoffs, verified: BOOLEAN]
Plain(h) == [text |-> h, verified |-> FALSE]

VARIABLES
    (* on disk *)
    handoff,                    \* HANDOFF.md
    bounce_file,                \* logs/dispatch/bounce-counts.json
    stop_file,                  \* a stop request for this process exists
    (* the loop's locals and ledger._BOUNCE_COUNTS *)
    bounce_counts,
    previous_cycle, pending_planner_recovery, pause_recovery_used,
    consecutive_failures, breaker_planner_seen, reconciled_handoff_shas,
    tpm_planner_repair_ran,
    (* where the loop is, and the cycle it is in *)
    pc, cycle, paused_on,
    (* history: read by properties only *)
    author,                     \* who last wrote the handoff
    excuse,                     \* why an unverified claim may still be on disk
    approval,                   \* what became of this cycle's approval
    fails,                      \* verified_fail handoffs of a story since its reset
    after_stop,                 \* dispatches since the stop request, up to 2
    recoveries                  \* pause recoveries of this streak, up to 2

disk == <<handoff, bounce_file, stop_file>>
memory == <<bounce_counts, previous_cycle, pending_planner_recovery,
            pause_recovery_used, consecutive_failures, breaker_planner_seen,
            reconciled_handoff_shas, tpm_planner_repair_ran>>
control == <<pc, cycle, paused_on>>
history == <<author, excuse, approval, fails, after_stop, recoveries>>
vars == <<disk, memory, control, history>>

NoCycle == [route |-> "none"]
NoRecovery == [kind |-> "none"]
Kinds == {"pause", "operator", "operator_role", "routing", "handoff_hygiene",
          "rationalization"}
Sources == {"frontmatter", "scheduled", "stale_finalizer", "frontmatter_repair",
            "breaker", "breaker_escalation", "reconciliation", "tpm_repair"}
Recoveries == [kind: Kinds, route: Roles, sha: Contents]
PastCycles == [route: Roles, sha: Contents]
Cycles == [route: Routes, sha: Contents, source: Sources, forced: BOOLEAN,
           kind: Kinds \cup {"none", "reconciliation"}]
Locations == {"top", "read", "diagnose", "pause", "running", "validate", "repair",
              "rejected", "gate", "gate_repaired", "publish", "ended"}
Excuses == {"none", "failed_exit", "person", "restart"}

NextAgent(c) == Front[c.text].next
Status(c) == Front[c.text].status
Story(c) == Front[c.text].story
AsPast(d) == [route |-> d.route, sha |-> d.sha]

TypeOK ==
    /\ handoff \in Contents
    /\ bounce_file \in [Stories -> 0 .. BounceCap]
    /\ bounce_counts \in [Stories -> 0 .. BounceCap]
    /\ stop_file \in BOOLEAN
    /\ previous_cycle \in PastCycles \cup {NoCycle}
    /\ pending_planner_recovery \in Recoveries \cup {NoRecovery}
    /\ pause_recovery_used \in BOOLEAN
    /\ consecutive_failures \in 0 .. MaxFailures
    /\ breaker_planner_seen \subseteq Stories
    /\ reconciled_handoff_shas \subseteq Contents
    /\ tpm_planner_repair_ran \in BOOLEAN
    /\ pc \in Locations
    /\ cycle \in Cycles \cup {NoCycle}
    /\ paused_on \in Contents \cup {NoCycle}
    /\ author \in Roles \cup {"dispatcher", "person"}
    /\ excuse \in Excuses
    /\ approval \in {"none", "accepted", "offered"}
    /\ fails \in [Stories -> 0 .. BounceCap]
    /\ after_stop \in 0 .. 2
    /\ recoveries \in 0 .. 2

--------------------------------------------------------------------------------
(* ledger.py: bounce counts in memory and on disk.                              *)

Bumped(counts, s) ==
    [counts EXCEPT ![s] = IF @ < BounceCap THEN @ + 1 ELSE @]

Tallies(status) == status \in {"verified_fail", "verified_pass", "escalate_to_user"}

(* record_status_transition on one table.                                       *)
Recorded(counts, c) ==
    CASE Status(c) = "verified_fail" -> Bumped(counts, Story(c))
      [] Status(c) \in {"verified_pass", "escalate_to_user"} ->
             [counts EXCEPT ![Story(c)] = 0]
      [] OTHER -> counts

(* _persist_bounce_count: the one entry that changed is written through.        *)
Persisted(file, counts, c) ==
    IF Tallies(Status(c)) THEN [file EXCEPT ![Story(c)] = counts[Story(c)]] ELSE file

BugSeeded(file) == [s \in Stories |-> 0]

(* seed_bounce_counts at the start of a run, in a process with no counts yet.   *)
Seeded(file) == [s \in Stories |-> file[s]]

--------------------------------------------------------------------------------
(* The routing decision of one cycle: each operator is one rule, in the order   *)
(* the loop applies them.                                                       *)

FirstDecision(c) ==
    IF /\ pending_planner_recovery # NoRecovery
       /\ pending_planner_recovery.sha = c
    THEN [route |-> pending_planner_recovery.route, sha |-> c,
          source |-> "scheduled", forced |-> TRUE,
          kind |-> pending_planner_recovery.kind]
    ELSE [route |-> NextAgent(c), sha |-> c,
          source |-> "frontmatter", forced |-> FALSE, kind |-> "none"]

Rerouted(d, route, source, forced, kind) ==
    [route |-> route, sha |-> d.sha, source |-> source, forced |-> forced, kind |-> kind]

AfterStaleFinalizer(d) ==
    IF d.route = "finalizer" /\ previous_cycle = AsPast(d)
    THEN Rerouted(d, "planner", "stale_finalizer", d.forced, d.kind)
    ELSE d

AfterFrontmatterRepair(d) ==
    IF d.route = "invalid"
    THEN Rerouted(d, "planner", "frontmatter_repair", TRUE, d.kind)
    ELSE d

Tripped(d) ==
    d.route \in Implementers /\ bounce_counts[Story(d.sha)] >= BreakerLimit

AfterBreaker(d) ==
    IF ~Tripped(d) THEN d
    ELSE IF Story(d.sha) \in breaker_planner_seen
         THEN Rerouted(d, "user", "breaker_escalation", d.forced, d.kind)
         ELSE Rerouted(d, "planner", "breaker", TRUE, "none")

Reconcilable(d) ==
    /\ Reconcile
    /\ d.sha \notin reconciled_handoff_shas
    /\ d.route = "user" /\ d.source = "frontmatter"
    /\ Status(d.sha) \in {"escalate_to_user", "blocked_missing_context"}
    /\ Front[d.sha.text].producer # "planner"

AfterReconciliation(d) ==
    IF Reconcilable(d)
    THEN Rerouted(d, "planner", "reconciliation", TRUE, "reconciliation")
    ELSE d

NoTpm(d) == d.route = "tpm" /\ ~TpmConfigured

AfterTpm(d) ==
    IF NoTpm(d) /\ ~tpm_planner_repair_ran
    THEN Rerouted(d, "planner", "tpm_repair", TRUE, "none")
    ELSE d

Decision(c) ==
    AfterTpm(AfterReconciliation(AfterBreaker(AfterFrontmatterRepair(
        AfterStaleFinalizer(FirstDecision(c))))))

(* STALE ROUTING: the last cycle ran this role on this very handoff.            *)
StaleRouting(d) ==
    /\ d.kind \notin {"pause", "operator", "operator_role"}
    /\ previous_cycle = AsPast(d)

LowConfidence(d) == d.source = "frontmatter" /\ ~Front[d.sha.text].sure

(* unfinished_story_pause_reason and _claude_protected_scope_pause_reason read  *)
(* Git and the Work Packet; which assignments they stop is left open. An        *)
(* operator who picked the role has already seen the second reason.             *)
MayBeBlocked(d) ==
    d.route \in Implementers /\ (Publishing \/ d.kind # "operator_role")

--------------------------------------------------------------------------------
(* Pauses and the one automatic recovery of a pause streak.                     *)

BugPauseRecoveryAvailable(c) == PauseRecovery /\ NextAgent(c) # "user"

PauseRecoveryAvailable(c) ==
    PauseRecovery /\ ~pause_recovery_used /\ NextAgent(c) # "user"

Schedule(kind, c) ==
    pending_planner_recovery' = [kind |-> kind, route |-> "planner", sha |-> c]

SchedulePauseRecovery(c) ==
    /\ Schedule("pause", c)
    /\ pause_recovery_used' = TRUE
    /\ recoveries' = IF recoveries < 2 THEN recoveries + 1 ELSE recoveries
    /\ pc' = "top"
    /\ UNCHANGED paused_on

Pause(c) ==
    /\ pc' = "pause"
    /\ paused_on' = c
    /\ UNCHANGED <<pending_planner_recovery, pause_recovery_used, recoveries>>

(* A validator run at a pause leaves the handoff as it is, or, when it changed  *)
(* a protected file, replaced by the dispatcher's escalation.                   *)
Diagnosed(c) ==
    /\ handoff' = c
    /\ \/ c = handoff /\ UNCHANGED <<author, excuse>>
       \/ c = Plain(Escalation) /\ author' = "dispatcher" /\ excuse' = "none"

(* Any step that ends the run; the operator's stop request is used up by it     *)
(* only when it is what ended the run (_StopRequestWatch.finish).               *)
StopAtRequest ==
    /\ stop_file
    /\ stop_file' = FALSE
    /\ pc' = "ended"
    /\ UNCHANGED <<handoff, bounce_file, memory, cycle, paused_on, history>>

--------------------------------------------------------------------------------
(* Loop top and routing.                                                        *)

BugLoopTop ==
    /\ pc = "top"
    /\ pc' = "read"
    /\ cycle' = NoCycle
    /\ paused_on' = NoCycle
    /\ UNCHANGED <<disk, memory, history>>

LoopTop ==
    /\ pc = "top"
    /\ \/ StopAtRequest
       \/ /\ ~stop_file
          /\ pc' = "read"
          /\ cycle' = NoCycle
          /\ paused_on' = NoCycle
          /\ UNCHANGED <<disk, memory, history>>

(* What routing changes besides the location, whichever way the cycle goes.     *)
RoutingEffects(d) ==
    /\ cycle' = d
    /\ breaker_planner_seen' =
           breaker_planner_seen \cup IF d.source = "breaker" THEN {Story(d.sha)} ELSE {}
    /\ reconciled_handoff_shas' =
           reconciled_handoff_shas \cup
               IF d.source = "reconciliation" THEN {d.sha} ELSE {}
    /\ pause_recovery_used' = (pause_recovery_used \/ d.source = "reconciliation")
    /\ pending_planner_recovery' = NoRecovery
    /\ UNCHANGED <<disk, bounce_counts, previous_cycle, consecutive_failures, author,
                   excuse, fails, recoveries>>

(* The pauses that no planner recovery precedes: a user route, and an           *)
(* unconfigured tpm the planner has already been asked to repair.               *)
RouteToPause(d) ==
    /\ d.route = "user" \/ NoTpm(d)
    /\ pc' = "pause"
    /\ paused_on' = d.sha
    /\ UNCHANGED <<tpm_planner_repair_ran, approval, after_stop>>

RouteToDiagnosis(d) ==
    /\ d.route # "user" /\ ~NoTpm(d)
    /\ d.route = "unknown" \/ StaleRouting(d) \/ LowConfidence(d) \/ MayBeBlocked(d)
    /\ pc' = "diagnose"
    /\ tpm_planner_repair_ran' = (tpm_planner_repair_ran \/ d.source = "tpm_repair")
    /\ UNCHANGED <<paused_on, approval, after_stop>>

(* The dispatch begins. Any route but a tpm repair re-arms that repair, the     *)
(* finalizer's branch excepted.                                                 *)
RouteToDispatch(d) ==
    /\ d.route \in Roles /\ ~NoTpm(d)
    /\ ~StaleRouting(d) /\ ~LowConfidence(d)
    /\ pc' = "running"
    /\ tpm_planner_repair_ran' =
           IF d.route = "finalizer" THEN tpm_planner_repair_ran
           ELSE d.source = "tpm_repair"
    /\ approval' = "none"
    /\ after_stop' = IF stop_file /\ after_stop < 2 THEN after_stop + 1 ELSE after_stop
    /\ UNCHANGED paused_on

ReadAndRoute ==
    /\ pc = "read"
    /\ LET d == Decision(handoff) IN
          /\ RoutingEffects(d)
          /\ RouteToPause(d) \/ RouteToDiagnosis(d) \/ RouteToDispatch(d)

(* A pause before the dispatch, or after an unparseable finalizer result. No    *)
(* validator looks at an assignment that Git or the Work Packet blocks.         *)
ValidatorDiagnoses ==
    cycle.route \in {"unknown", "finalizer"} \/ StaleRouting(cycle) \/ LowConfidence(cycle)

Diagnose ==
    /\ pc = "diagnose"
    /\ \E c \in {handoff} \cup IF ValidatorDiagnoses THEN {Plain(Escalation)} ELSE {} :
          /\ Diagnosed(c)
          /\ IF PauseRecoveryAvailable(c) THEN SchedulePauseRecovery(c)
             ELSE Pause(cycle.sha)
    /\ UNCHANGED <<bounce_file, stop_file, bounce_counts, previous_cycle,
                   consecutive_failures, breaker_planner_seen,
                   reconciled_handoff_shas, tpm_planner_repair_ran, cycle, approval,
                   fails, after_stop>>

--------------------------------------------------------------------------------
(* The pause: polling for a changed handoff, or the operator prompt.            *)

PauseEnds ==
    /\ pc' = "top"
    /\ UNCHANGED <<disk, bounce_counts, pause_recovery_used, consecutive_failures,
                   breaker_planner_seen, reconciled_handoff_shas,
                   tpm_planner_repair_ran, cycle, paused_on, author, approval, fails,
                   after_stop, recoveries>>

PauseResumes ==
    /\ Polling /\ handoff # paused_on
    /\ PauseEnds
    /\ UNCHANGED <<previous_cycle, pending_planner_recovery, excuse>>

PromptRetry ==
    /\ PauseEnds
    /\ previous_cycle' = NoCycle
    /\ excuse' = "person"
    /\ UNCHANGED pending_planner_recovery

PromptDispatch ==
    /\ \E r \in {"planner", "backend", "frontend", "auditor", "tpm"} :
          /\ r = "tpm" => TpmConfigured
          /\ pending_planner_recovery' =
                 [kind |-> IF r = "planner" THEN "operator" ELSE "operator_role",
                  route |-> r, sha |-> handoff]
    /\ PauseEnds
    /\ excuse' = "person"
    /\ UNCHANGED previous_cycle

PauseQuits ==
    /\ pc' = "ended"
    /\ UNCHANGED <<disk, memory, cycle, paused_on, history>>

AtPause ==
    /\ pc = "pause"
    /\ \/ StopAtRequest
       \/ ~stop_file /\ (PauseResumes \/ PromptRetry \/ PromptDispatch \/ PauseQuits)

--------------------------------------------------------------------------------
(* The role's run.                                                              *)

RoleWrites ==
    /\ pc = "running"
    /\ \E h \in RoleTexts[cycle.route] : handoff' = Plain(h)
    /\ author' = cycle.route
    /\ excuse' = "none"
    /\ UNCHANGED <<bounce_file, stop_file, memory, control, approval, fails,
                   after_stop, recoveries>>

(* _enforce_protected_files after a role's run: the cycle ends on a user route. *)
ProtectedFileChanged ==
    /\ handoff' = Plain(Escalation)
    /\ author' = "dispatcher"
    /\ excuse' = "none"
    /\ previous_cycle' = AsPast(cycle)
    /\ consecutive_failures' = 0
    /\ pc' = "top"
    /\ UNCHANGED <<bounce_file, stop_file, bounce_counts, pending_planner_recovery,
                   pause_recovery_used, breaker_planner_seen, reconciled_handoff_shas,
                   tpm_planner_repair_ran, cycle, paused_on, approval, fails,
                   after_stop, recoveries>>

(* An authentication or quota stop, a refused start, or a record that could not *)
(* be cleared ends the run.                                                     *)
FatalReturn ==
    /\ pc' = "ended"
    /\ UNCHANGED <<disk, memory, cycle, paused_on, history>>

BugFailedReturn ==
    /\ consecutive_failures' = consecutive_failures + 1
    /\ pc' = IF consecutive_failures' > MaxFailures THEN "ended" ELSE "top"
    /\ UNCHANGED <<disk, bounce_counts, previous_cycle, pending_planner_recovery,
                   pause_recovery_used, breaker_planner_seen, reconciled_handoff_shas,
                   tpm_planner_repair_ran, cycle, paused_on, history>>

(* A non-zero exit counts a failure and goes round again with the handoff as it *)
(* is: no validation, no bounce count, no gate.                                 *)
FailedReturn ==
    /\ consecutive_failures' = consecutive_failures + 1
    /\ pc' = IF consecutive_failures' >= MaxFailures THEN "ended" ELSE "top"
    /\ excuse' = IF excuse = "none" THEN "failed_exit" ELSE excuse
    /\ UNCHANGED <<disk, bounce_counts, previous_cycle, pending_planner_recovery,
                   pause_recovery_used, breaker_planner_seen, reconciled_handoff_shas,
                   tpm_planner_repair_ran, cycle, paused_on, author, approval, fails,
                   after_stop, recoveries>>

CleanReturn ==
    /\ pc' = "validate"
    /\ UNCHANGED <<disk, memory, cycle, paused_on, history>>

(* The finalizer's output could not be parsed: pause, or one planner recovery.  *)
UnparseableReturn ==
    /\ cycle.route = "finalizer"
    /\ pc' = "diagnose"
    /\ UNCHANGED <<disk, memory, cycle, paused_on, history>>

RoleReturns ==
    /\ pc = "running"
    /\ \/ ProtectedFileChanged
       \/ FatalReturn
       \/ FailedReturn
       \/ CleanReturn
       \/ UnparseableReturn

--------------------------------------------------------------------------------
(* After a clean return: validation, repair, gate, publish.                     *)

BugErrors(c) ==
    {e \in {"no_new_sha", "routing_instruction_missing"} :
        CASE e = "no_new_sha" -> c = cycle.sha
          [] OTHER -> NextAgent(c) \in {"unknown", "invalid"}}

(* validate_handoff: the error prefixes that decide what the loop does next.    *)
Errors(c) ==
    Front[c.text].flaws \cup
    {e \in {"no_new_sha", "routing_instruction_missing", "producer_mismatch",
            "self_loop"} :
        CASE e = "no_new_sha" -> c = cycle.sha
          [] e = "routing_instruction_missing" -> NextAgent(c) \in {"unknown", "invalid"}
          [] e = "producer_mismatch" -> Front[c.text].producer # cycle.route
          [] e = "self_loop" -> NextAgent(c) = cycle.route}

(* A ready_for_review claim the work-claim gate has to check.                   *)
GatedClaim(c) ==
    EnforceWorkPacket /\ cycle.route \in Implementers /\ Status(c) = "ready_for_review"

(* The dispatcher committed nothing, so the only error is the missing SHA, and  *)
(* the gate reports it.                                                         *)
LeftToGate(c) == Errors(c) = {"sha_missing"} /\ GatedClaim(c)

(* _record_post_dispatch_status_transition, valid handoff or not.               *)
RecordStatus(c) ==
    /\ bounce_counts' = Recorded(bounce_counts, c)
    /\ bounce_file' = Persisted(bounce_file, bounce_counts', c)
    /\ fails' = Recorded(fails, c)

(* A validated cycle that ran without a forced instruction ends the streak.     *)
EndStreak ==
    /\ pause_recovery_used' = (pause_recovery_used /\ cycle.forced)
    /\ recoveries' = IF cycle.forced THEN recoveries ELSE 0

CycleDone ==
    /\ previous_cycle' = AsPast(cycle)
    /\ consecutive_failures' = 0

Validate ==
    /\ pc = "validate" /\ cycle.route # "finalizer"
    /\ RecordStatus(handoff)
    /\ \/ Errors(handoff) = {} /\ pc' = "gate" /\ EndStreak
       \/ /\ Errors(handoff) # {}
          /\ \/ LeftToGate(handoff) /\ pc' = "gate"
             \/ cycle.kind = "handoff_hygiene" /\ pc' = "ended"
             \/ /\ cycle.kind # "handoff_hygiene"
                /\ pc' = IF Errors(handoff) = {"hygiene"} THEN "repair" ELSE "rejected"
          /\ UNCHANGED <<pause_recovery_used, recoveries>>
    /\ UNCHANGED <<handoff, stop_file, previous_cycle, pending_planner_recovery,
                   consecutive_failures, breaker_planner_seen,
                   reconciled_handoff_shas, tpm_planner_repair_ran, cycle, paused_on,
                   author, excuse, approval, after_stop>>

(* TRANS-7: only a handoff the finalizer rewrote is judged; no status, gate or  *)
(* publish follows.                                                             *)
ValidateFinalizer ==
    /\ pc = "validate" /\ cycle.route = "finalizer"
    /\ \/ /\ handoff = cycle.sha \/ Errors(handoff) = {}
          /\ pc' = "top" /\ CycleDone /\ EndStreak
       \/ /\ handoff # cycle.sha /\ Errors(handoff) # {}
          /\ pc' = "rejected"
          /\ UNCHANGED <<previous_cycle, consecutive_failures, pause_recovery_used,
                         recoveries>>
    /\ UNCHANGED <<disk, bounce_counts, pending_planner_recovery, breaker_planner_seen,
                   reconciled_handoff_shas, tpm_planner_repair_ran, cycle, paused_on,
                   author, excuse, approval, fails, after_stop>>

(* The one-shot producer repair of a handback whose only faults are form.       *)
SameRouting(g, h) ==
    [Front[g] EXCEPT !.flaws = {}, !.boast = FALSE] =
    [Front[h] EXCEPT !.flaws = {}, !.boast = FALSE]

BugRepairSucceeds ==
    /\ cycle.route \in Implementers \cup {"auditor"}
    /\ \E h \in RoleTexts[cycle.route] :
          /\ h # handoff.text /\ SameRouting(h, handoff.text) /\ Front[h].flaws = {}
          /\ handoff' = Plain(h)
    /\ author' = cycle.route
    /\ pc' = "top"
    /\ EndStreak /\ CycleDone
    /\ UNCHANGED <<pending_planner_recovery, paused_on, excuse>>

RepairSucceeds ==
    /\ cycle.route \in Implementers \cup {"auditor"}
    /\ \E h \in RoleTexts[cycle.route] :
          /\ h # handoff.text /\ SameRouting(h, handoff.text) /\ Front[h].flaws = {}
          /\ handoff' = Plain(h)
    /\ author' = cycle.route
    /\ pc' = "gate_repaired"
    /\ EndStreak
    /\ UNCHANGED <<previous_cycle, pending_planner_recovery, consecutive_failures,
                   paused_on, excuse>>

(* A failed repair sends the planner in, except over a claim not yet gated.     *)
RepairFails ==
    /\ \/ UNCHANGED <<handoff, author>>
       \/ /\ cycle.route \in Implementers \cup {"auditor"}
          /\ \E h \in RoleTexts[cycle.route] : handoff' = Plain(h)
          /\ author' = cycle.route
    /\ UNCHANGED excuse
    /\ IF GatedClaim(handoff)
       THEN /\ Pause(handoff')
            /\ UNCHANGED <<previous_cycle, consecutive_failures>>
       ELSE /\ Schedule("handoff_hygiene", handoff')
            /\ CycleDone
            /\ pc' = "top"
            /\ UNCHANGED <<pause_recovery_used, paused_on, recoveries>>

RepairChangesProtected ==
    /\ cycle.route \in Implementers \cup {"auditor"}
    /\ handoff' = Plain(Escalation) /\ author' = "dispatcher" /\ excuse' = "none"
    /\ CycleDone
    /\ pc' = "top"
    /\ UNCHANGED <<pending_planner_recovery, pause_recovery_used, paused_on, recoveries>>

Repair ==
    /\ pc = "repair"
    /\ RepairSucceeds \/ RepairFails \/ RepairChangesProtected
    /\ UNCHANGED <<bounce_file, stop_file, bounce_counts, breaker_planner_seen,
                   reconciled_handoff_shas, tpm_planner_repair_ran, cycle, approval,
                   fails, after_stop>>

(* No repair applies. A handback without a route sends the planner in; anything *)
(* else pauses, after the one pause recovery if it is left. A claim the gate    *)
(* has not checked gets neither.                                                *)
BugNeedsRoute(c) ==
    /\ "routing_instruction_missing" \in Errors(c)
    /\ cycle.route \notin {"planner", "finalizer"}

NeedsRoute(c) ==
    /\ "routing_instruction_missing" \in Errors(c)
    /\ cycle.route \notin {"planner", "finalizer"}
    /\ ~GatedClaim(c)

ValidatorLooks(c) ==
    /\ Errors(c) \cap {"routing_instruction_missing", "self_loop"} # {}
    /\ cycle.route # "finalizer"

RejectedWithoutRoute ==
    /\ NeedsRoute(handoff)
    /\ Schedule("routing", handoff)
    /\ CycleDone
    /\ pc' = "top"
    /\ UNCHANGED <<handoff, author, excuse, pause_recovery_used, paused_on, recoveries>>

RejectedToPause ==
    /\ ~NeedsRoute(handoff)
    /\ \E c \in {handoff} \cup IF ValidatorLooks(handoff) THEN {Plain(Escalation)} ELSE {} :
          /\ Diagnosed(c)
          /\ IF ~GatedClaim(handoff) /\ PauseRecoveryAvailable(c)
             THEN SchedulePauseRecovery(c) /\ CycleDone
             ELSE Pause(c) /\ UNCHANGED <<previous_cycle, consecutive_failures>>

Rejected ==
    /\ pc = "rejected"
    /\ RejectedWithoutRoute \/ RejectedToPause
    /\ UNCHANGED <<bounce_file, stop_file, bounce_counts, breaker_planner_seen,
                   reconciled_handoff_shas, tpm_planner_repair_ran, cycle, approval,
                   fails, after_stop>>

(* _run_work_claim_gate: a pass marks the handoff, a failure rewrites it into a *)
(* bounce and counts it, in memory.                                             *)
GatePasses ==
    /\ GatedClaim(handoff)
    /\ handoff' = [handoff EXCEPT !.verified = TRUE]
    /\ UNCHANGED <<author, bounce_counts, bounce_file, fails>>

GateDoesNotApply ==
    /\ ~GatedClaim(handoff)
    /\ UNCHANGED <<handoff, author, bounce_counts, bounce_file, fails>>

GateFails ==
    /\ GatedClaim(handoff)
    /\ \E h \in BounceTexts :
          /\ Front[h].story = Story(handoff)
          /\ <<Front[h].next, Front[h].status>> \in
                 {<<cycle.route, "verified_fail">>, <<"planner", "verified_fail">>,
                  <<"user", "escalate_to_user">>}
          /\ handoff' = Plain(h)
    /\ author' = "dispatcher"
    /\ bounce_counts' = Recorded(bounce_counts, handoff')
    /\ fails' = Recorded(fails, handoff')
    /\ UNCHANGED bounce_file

(* _accepted_approval: the loop starts a new audit range.                       *)
Accept ==
    approval' = IF cycle.route = "auditor" /\ Status(handoff') = "verified_pass"
                THEN "accepted" ELSE approval

Gate ==
    /\ pc = "gate"
    /\ \/ /\ GateFails
          /\ pc' = "top"
          /\ UNCHANGED <<pending_planner_recovery, approval>>
       \/ /\ GatePasses \/ GateDoesNotApply
          /\ IF Front[handoff.text].boast
             THEN /\ Schedule("rationalization", handoff')
                  /\ pc' = "top"
                  /\ UNCHANGED approval
             ELSE /\ Accept
                  /\ pc' = IF Publishing /\ cycle.route = "auditor" THEN "publish" ELSE "top"
                  /\ UNCHANGED pending_planner_recovery
    /\ CycleDone
    /\ UNCHANGED <<stop_file, pause_recovery_used, breaker_planner_seen,
                   reconciled_handoff_shas, tpm_planner_repair_ran, cycle, paused_on,
                   excuse, after_stop, recoveries>>

(* After a repair the cycle ends at the gate, whatever the gate says.           *)
GateAfterRepair ==
    /\ pc = "gate_repaired"
    /\ GateFails \/ GatePasses \/ GateDoesNotApply
    /\ Accept
    /\ pc' = "top"
    /\ CycleDone
    /\ UNCHANGED <<stop_file, pending_planner_recovery, pause_recovery_used,
                   breaker_planner_seen, reconciled_handoff_shas,
                   tpm_planner_repair_ran, cycle, paused_on, excuse, after_stop,
                   recoveries>>

(* publish_story reads the handoff again: nothing unless it is an approval;     *)
(* else published, stopped, or sent back with the review's findings.            *)
PublishStory ==
    /\ pc = "publish"
    /\ \/ Status(handoff) # "verified_pass" /\ pc' = "top" /\ UNCHANGED <<handoff, author, approval>>
       \/ /\ Status(handoff) = "verified_pass"
          /\ approval' = "offered"
          /\ \/ pc' \in {"top", "ended"} /\ UNCHANGED <<handoff, author>>
             \/ /\ \E h \in BounceTexts :
                      /\ Front[h].story = Story(handoff) /\ Front[h].next \in Implementers
                      /\ handoff' = Plain(h)
                /\ author' = "dispatcher"
                /\ pc' = "top"
    /\ UNCHANGED <<bounce_file, stop_file, memory, cycle, paused_on, excuse, fails,
                   after_stop, recoveries>>

--------------------------------------------------------------------------------
(* Around the loop: the person, the stop request, and the process.              *)

PersonEdits ==
    /\ "edit" \in Events
    /\ \E h \in PersonTexts : handoff' = Plain(h) /\ handoff' # handoff
    /\ author' = "person"
    /\ excuse' = "person"
    /\ UNCHANGED <<bounce_file, stop_file, memory, control, approval, fails,
                   after_stop, recoveries>>

StopRequested ==
    /\ "stop" \in Events
    /\ pc # "ended" /\ ~stop_file
    /\ stop_file' = TRUE
    /\ after_stop' = 0
    /\ UNCHANGED <<handoff, bounce_file, memory, control, author, excuse, approval,
                   fails, recoveries>>

Crash ==
    /\ "crash" \in Events
    /\ pc # "ended"
    /\ pc' = "ended"
    /\ UNCHANGED <<disk, memory, cycle, paused_on, history>>

(* A new process: a stale stop request is cleared, the counts are seeded from   *)
(* the file, and everything else the loop knew is gone.                         *)
Restart ==
    /\ pc = "ended"
    /\ stop_file' = FALSE
    /\ bounce_counts' = Seeded(bounce_file)
    /\ previous_cycle' = NoCycle
    /\ pending_planner_recovery' = NoRecovery
    /\ pause_recovery_used' = FALSE
    /\ consecutive_failures' = 0
    /\ breaker_planner_seen' = {}
    /\ reconciled_handoff_shas' = {}
    /\ tpm_planner_repair_ran' = FALSE
    /\ pc' = "top"
    /\ cycle' = NoCycle
    /\ paused_on' = NoCycle
    /\ excuse' = IF excuse = "none" THEN "restart" ELSE excuse
    /\ approval' = "none"
    /\ after_stop' = 0
    /\ recoveries' = 0
    /\ UNCHANGED <<handoff, bounce_file, author, fails>>

Init ==
    /\ handoff \in {Plain(h) : h \in FirstTexts}
    /\ bounce_file = [s \in Stories |-> 0]
    /\ stop_file = FALSE
    /\ bounce_counts = [s \in Stories |-> 0]
    /\ previous_cycle = NoCycle
    /\ pending_planner_recovery = NoRecovery
    /\ pause_recovery_used = FALSE
    /\ consecutive_failures = 0
    /\ breaker_planner_seen = {}
    /\ reconciled_handoff_shas = {}
    /\ tpm_planner_repair_ran = FALSE
    /\ pc = "top"
    /\ cycle = NoCycle
    /\ paused_on = NoCycle
    /\ author = "person"
    /\ excuse = "person"
    /\ approval = "none"
    /\ fails = [s \in Stories |-> 0]
    /\ after_stop = 0
    /\ recoveries = 0

LoopStep == LoopTop \/ ReadAndRoute \/ Diagnose \/ Validate \/ ValidateFinalizer
                \/ Repair \/ Rejected \/ Gate \/ GateAfterRepair \/ PublishStory
Environment == PersonEdits \/ StopRequested \/ Crash \/ Restart

Next == LoopStep \/ AtPause \/ RoleWrites \/ RoleReturns \/ Environment

(* The loop never waits except in a pause, where it polls for a stop request,   *)
(* and for a role, whose process ends or is ended by its timeout.               *)
Fairness ==
    /\ WF_vars(LoopStep)
    /\ WF_vars(RoleReturns)
    /\ WF_vars(pc = "pause" /\ StopAtRequest)

Spec == Init /\ [][Next]_vars
FairSpec == Spec /\ Fairness

--------------------------------------------------------------------------------
(* Properties.                                                                  *)

UncheckedClaim ==
    /\ EnforceWorkPacket
    /\ author \in Implementers
    /\ Status(handoff) = "ready_for_review"
    /\ ~handoff.verified

Auditing == pc = "running" /\ cycle.route = "auditor"

(* The auditor never runs on an implementer's own ready_for_review claim that   *)
(* the work-claim gate has not passed, unless a person let it through, the      *)
(* dispatcher was restarted, or the implementer's process exited non-zero: no   *)
(* repair, recovery, breaker or stale route lets one slip past the gate.        *)
AuditGated == Auditing /\ UncheckedClaim => excuse # "none"

(* README.md:430: a completion claim passes the work-claim gate before the      *)
(* auditor is dispatched. Here only a person's hand or a restart excuses one.   *)
AuditGatedAlways ==
    Auditing /\ UncheckedClaim => excuse \in {"person", "restart"}

(* A story with three verified_fail handoffs since its last approval or         *)
(* escalation reaches no implementer, whatever repairs, operator dispatches,    *)
(* crashes and restarts came between.                                           *)
BreakerHolds ==
    pc = "running" /\ cycle.route \in Implementers
        => fails[Story(cycle.sha)] < BreakerLimit

(* A pause or routing recovery is never scheduled over an implementer's claim   *)
(* the gate has not checked, which would let the planner rewrite it unseen: the *)
(* claim pauses the loop instead.                                               *)
RecoverySparesClaims ==
    pending_planner_recovery.kind \in {"pause", "routing"}
        => pending_planner_recovery.sha # handoff \/ ~UncheckedClaim \/ excuse # "none"

(* What is published is a handoff the auditor itself wrote, that validated      *)
(* without an error and was not set aside for a planner to look at.             *)
PublishedAsApproved ==
    [][ pc = "publish" /\ approval' = "offered"
        => /\ author = "auditor" /\ Front[handoff.text].producer = "auditor"
           /\ Front[handoff.text].flaws = {} /\ ~Front[handoff.text].boast ]_vars

(* One bounded planner recovery per pause streak, however the pauses of the     *)
(* streak come about (unknown route, stale route, failed validation...).        *)
OnePauseRecovery == recoveries <= 1

(* A stop request lets at most the dispatch already chosen at the loop top      *)
(* begin.                                                                       *)
OneDispatchAfterStop == after_stop <= 1

(* CONFIGURATION.md:1346: after the audit passes, the story is published. An    *)
(* approval the loop accepts is offered to publish_story in that cycle.         *)
ApprovalOffered == Publishing /\ pc = "read" => approval # "accepted"

(* A stop request ends the run, unless the run ends first.                      *)
StopHonoured == stop_file ~> (pc = "ended" \/ ~stop_file)

(* A loop whose roles stop changing the handoff does not spin on it for ever:   *)
(* the stale-route check, the failure limit and the one pause recovery bring it *)
(* to a pause or an end.                                                        *)
StuckLoopEnds ==
    []<><<handoff' # handoff>>_vars \/ []<>(pc \in {"pause", "ended"})
================================================================================
