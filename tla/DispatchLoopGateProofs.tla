------------------------- MODULE DispatchLoopGateProofs -------------------------
(* The work-claim gate and the approval: an implementer's claim is audited only *)
(* after the gate, no recovery runs over one the gate has not seen, and what is *)
(* published is the auditor's own approval.                                     *)
EXTENDS DispatchLoopProofs

(* An implementer's claim the gate has not passed, and nothing excuses it.      *)
Slipped == UncheckedClaim /\ excuse = "none"

(* The planner sent in over a claim that a failed form repair left behind.      *)
HygieneRecovery ==
    [kind |-> "handoff_hygiene", route |-> "planner", sha |-> handoff]

(* Where such a claim can be: in the implementer's own cycle, under a pause     *)
(* that only another handoff ends, or in front of the planner's hygiene cycle,  *)
(* which ends the run unless the planner writes.                                *)
InOwnCycle ==
    /\ pc \in {"running", "validate", "repair", "rejected", "gate", "gate_repaired"}
    /\ cycle.route \in Implementers

HeldAtPause == pc = "pause" /\ paused_on = handoff

AwaitsHygiene ==
    /\ pc \in {"top", "read"}
    /\ pending_planner_recovery = HygieneRecovery
    /\ previous_cycle # NoCycle /\ previous_cycle.route \in Implementers

InHygieneCycle ==
    /\ pc \in {"running", "validate"}
    /\ cycle.route = "planner" /\ cycle.kind = "handoff_hygiene"
    /\ cycle.sha = handoff

Contained == pc = "ended" \/ InOwnCycle \/ HeldAtPause \/ AwaitsHygiene \/ InHygieneCycle

NothingScheduled ==
    pc \notin {"top", "read", "ended"} => pending_planner_recovery = NoRecovery

ClaimPlaced ==
    Slipped => /\ Contained
               /\ \/ pending_planner_recovery = NoRecovery
                  \/ pending_planner_recovery.kind = "handoff_hygiene"

ClaimInv == TypeInv /\ NothingScheduled /\ ClaimPlaced

--------------------------------------------------------------------------------
(* Where a claim can be, step by step.                                          *)

LEMMA SlippedFrame ==
    ASSUME UNCHANGED <<handoff, author, excuse>>
    PROVE  Slipped' <=> Slipped
  BY DEF Slipped, UncheckedClaim, Status

LEMMA ReplacedIsNotSlipped ==
    ASSUME author' \notin Implementers \/ excuse' # "none"
    PROVE  ~Slipped'
  BY DEF Slipped, UncheckedClaim

(* A slipped claim of the cycle's own role is one the gate has to check.        *)
LEMMA SlippedIsGated ==
    ASSUME Slipped, cycle.route \in Implementers
    PROVE  GatedClaim(handoff)
  BY DEF Slipped, UncheckedClaim, GatedClaim

(* The scheduled hygiene recovery is what the next decision is, and neither the *)
(* stale-route check nor a pause stands in front of it.                         *)
LEMMA HygieneIsDispatched ==
    ASSUME AwaitsHygiene
    PROVE  LET d == Decision(handoff) IN
             /\ d.route = "planner" /\ d.kind = "handoff_hygiene" /\ d.sha = handoff
             /\ ~RouteToPause(d) /\ ~RouteToDiagnosis(d)
<1> DEFINE e == [route |-> "planner", sha |-> handoff, source |-> "scheduled",
                 forced |-> TRUE, kind |-> "handoff_hygiene"]
<1>1. FirstDecision(handoff) = e
  BY DEF AwaitsHygiene, HygieneRecovery, FirstDecision, NoRecovery
<1>2. AfterStaleFinalizer(e) = e /\ AfterFrontmatterRepair(e) = e
  BY DEF AfterStaleFinalizer, AfterFrontmatterRepair
<1>3. AfterBreaker(e) = e
  BY DEF AfterBreaker, Tripped, Implementers
<1>4. AfterReconciliation(e) = e /\ AfterTpm(e) = e
  BY DEF AfterReconciliation, Reconcilable, AfterTpm, NoTpm
<1>5. Decision(handoff) = e
  BY <1>1, <1>2, <1>3, <1>4 DEF Decision
<1>6. ~RouteToPause(e)
  BY DEF RouteToPause, NoTpm
<1>7. previous_cycle # AsPast(e)
  BY DEF AwaitsHygiene, AsPast, Implementers
<1>8. ~RouteToDiagnosis(e)
  BY <1>7 DEF RouteToDiagnosis, StaleRouting, LowConfidence, MayBeBlocked, Implementers
<1> QED BY <1>5, <1>6, <1>8

(* From the loop top to the dispatch, and at a pause.                           *)
LEMMA ClaimRouting ==
    ASSUME ClaimInv, LoopTop \/ ReadAndRoute \/ Diagnose \/ AtPause
    PROVE  NothingScheduled' /\ ClaimPlaced'
<1> USE DEF ClaimInv, disk, memory, control, history
<1>1. CASE LoopTop
  <2>1. Slipped' <=> Slipped
    BY <1>1, SlippedFrame DEF LoopTop, StopAtRequest
  <2>2. CASE StopAtRequest
    BY <2>1, <2>2 DEF StopAtRequest, NothingScheduled, ClaimPlaced, Contained
  <2>3. CASE pc' = "read" /\ UNCHANGED <<disk, memory, history>>
    BY <1>1, <2>1, <2>3
    DEF LoopTop, NothingScheduled, ClaimPlaced, Contained, InOwnCycle, HeldAtPause,
        AwaitsHygiene, InHygieneCycle, HygieneRecovery
  <2> QED BY <1>1, <2>2, <2>3 DEF LoopTop
<1>2. CASE ReadAndRoute
  <2> DEFINE d == Decision(handoff)
  <2>1. /\ pc = "read" /\ RoutingEffects(d)
        /\ RouteToPause(d) \/ RouteToDiagnosis(d) \/ RouteToDispatch(d)
    BY <1>2 DEF ReadAndRoute
  <2> HIDE DEF d
  <2>2. Slipped' <=> Slipped
    BY <2>1, SlippedFrame DEF RoutingEffects
  <2>3. pending_planner_recovery' = NoRecovery
    BY <2>1 DEF RoutingEffects
  <2>4. ASSUME Slipped
        PROVE  Contained'
    <3>1. AwaitsHygiene
      BY <2>1, <2>4 DEF ClaimPlaced, Contained, InOwnCycle, HeldAtPause, InHygieneCycle
    <3>2. /\ d.route = "planner" /\ d.kind = "handoff_hygiene" /\ d.sha = handoff
          /\ RouteToDispatch(d)
      BY <2>1, <3>1, HygieneIsDispatched DEF d
    <3> QED
      BY <2>1, <3>2 DEF RouteToDispatch, RoutingEffects, Contained, InHygieneCycle
  <2> QED BY <2>2, <2>3, <2>4 DEF NothingScheduled, ClaimPlaced
<1>3. CASE Diagnose
  <2>1. ~Slipped /\ pc = "diagnose"
    BY <1>3 DEF Diagnose, ClaimPlaced, Contained, InOwnCycle, HeldAtPause,
                AwaitsHygiene, InHygieneCycle
  <2>2. PICK c : /\ Diagnosed(c)
                 /\ \/ SchedulePauseRecovery(c)
                    \/ Pause(cycle.sha)
    BY <1>3 DEF Diagnose
  <2>3. ~Slipped'
    BY <2>1, <2>2, SlippedFrame, ReplacedIsNotSlipped DEF Diagnosed, Implementers
  <2>4. pending_planner_recovery = NoRecovery
    BY <2>1 DEF NothingScheduled
  <2> QED
    BY <2>2, <2>3, <2>4
    DEF NothingScheduled, ClaimPlaced, SchedulePauseRecovery, Pause
<1>4. CASE AtPause
  <2>1. pending_planner_recovery = NoRecovery /\ pc = "pause"
    BY <1>4 DEF AtPause, NothingScheduled
  <2>2. Slipped => paused_on = handoff
    BY <2>1 DEF ClaimPlaced, Contained, InOwnCycle, HeldAtPause, AwaitsHygiene,
                InHygieneCycle
  <2>3. CASE StopAtRequest \/ PauseQuits
    BY <2>1, <2>3, SlippedFrame
    DEF StopAtRequest, PauseQuits, NothingScheduled, ClaimPlaced, Contained
  <2>4. CASE PauseResumes
    BY <2>2, <2>4, SlippedFrame
    DEF PauseResumes, PauseEnds, NothingScheduled, ClaimPlaced
  <2>5. CASE PromptRetry \/ PromptDispatch
    BY <2>5, ReplacedIsNotSlipped
    DEF PromptRetry, PromptDispatch, PauseEnds, NothingScheduled, ClaimPlaced
  <2> QED BY <1>4, <2>3, <2>4, <2>5 DEF AtPause
<1> QED BY <1>1, <1>2, <1>3, <1>4

(* The role at work, and its return.                                            *)
LEMMA ClaimRoles ==
    ASSUME ClaimInv, RoleWrites \/ RoleReturns
    PROVE  NothingScheduled' /\ ClaimPlaced'
<1> USE DEF ClaimInv, disk, memory, control, history
<1>1. pc = "running" /\ pending_planner_recovery = NoRecovery
  BY DEF RoleWrites, RoleReturns, NothingScheduled
<1>2. Slipped => \/ cycle.route \in Implementers
                 \/ InHygieneCycle /\ cycle.route = "planner"
  BY <1>1 DEF ClaimPlaced, Contained, InOwnCycle, HeldAtPause, AwaitsHygiene,
              InHygieneCycle
<1>3. CASE RoleWrites
  <2>1. author' = cycle.route /\ UNCHANGED <<pc, cycle, pending_planner_recovery>>
    BY <1>3 DEF RoleWrites
  <2>2. Slipped' => InOwnCycle'
    BY <1>1, <2>1, ReplacedIsNotSlipped DEF InOwnCycle
  <2> QED BY <1>1, <2>1, <2>2 DEF NothingScheduled, ClaimPlaced, Contained
<1>4. CASE ProtectedFileChanged
  BY <1>1, <1>4, ReplacedIsNotSlipped
  DEF ProtectedFileChanged, NothingScheduled, ClaimPlaced, Implementers
<1>5. CASE FatalReturn
  BY <1>1, <1>5, SlippedFrame
  DEF FatalReturn, NothingScheduled, ClaimPlaced, Contained
<1>6. CASE FailedReturn
  BY <1>1, <1>6, ReplacedIsNotSlipped DEF FailedReturn, NothingScheduled, ClaimPlaced
<1>7. CASE CleanReturn
  <2>1. UNCHANGED <<disk, memory, cycle, paused_on, history>> /\ pc' = "validate"
    BY <1>7 DEF CleanReturn
  <2>2. Slipped' => Contained'
    BY <1>1, <1>2, <2>1, SlippedFrame DEF Contained, InOwnCycle, InHygieneCycle
  <2> QED BY <1>1, <2>1, <2>2 DEF NothingScheduled, ClaimPlaced
<1>8. CASE UnparseableReturn
  <2>1. ~Slipped
    BY <1>2, <1>8 DEF UnparseableReturn, Implementers
  <2> QED
    BY <1>1, <1>8, <2>1, SlippedFrame
    DEF UnparseableReturn, NothingScheduled, ClaimPlaced
<1> QED BY <1>3, <1>4, <1>5, <1>6, <1>7, <1>8 DEF RoleReturns

(* Validation: the implementer's claim goes on to the gate, to its repair or to *)
(* a pause; a planner that left it as it was ends the run.                      *)
LEMMA ClaimValidation ==
    ASSUME ClaimInv, Validate \/ ValidateFinalizer
    PROVE  NothingScheduled' /\ ClaimPlaced'
<1> USE DEF ClaimInv, disk, memory, control, history
<1>1. pc = "validate" /\ pending_planner_recovery = NoRecovery
  BY DEF Validate, ValidateFinalizer, NothingScheduled
<1>2. UNCHANGED <<handoff, author, excuse, cycle, pending_planner_recovery>>
  BY DEF Validate, ValidateFinalizer
<1>3. Slipped' <=> Slipped
  BY <1>2, SlippedFrame
<1>4. ASSUME Slipped
      PROVE  Contained'
  <2>1. cycle.route \in Implementers \/ InHygieneCycle
    BY <1>1, <1>4 DEF ClaimPlaced, Contained, InOwnCycle, HeldAtPause, AwaitsHygiene
  <2>2. Validate
    BY <2>1 DEF ValidateFinalizer, InHygieneCycle, Implementers
  <2>3. CASE cycle.route \in Implementers
    BY <1>2, <2>2, <2>3 DEF Validate, Contained, InOwnCycle
  <2>4. CASE InHygieneCycle
    <3>1. "no_new_sha" \in Errors(handoff)
      BY <2>4 DEF Errors, InHygieneCycle
    <3>2. ~LeftToGate(handoff) /\ cycle.kind = "handoff_hygiene"
      BY <2>4 DEF LeftToGate, GatedClaim, InHygieneCycle, Implementers
    <3> QED BY <2>2, <3>1, <3>2 DEF Validate, Contained
  <2> QED BY <2>1, <2>3, <2>4
<1> QED BY <1>1, <1>2, <1>3, <1>4 DEF NothingScheduled, ClaimPlaced

(* The form repair, and a handback no repair applies to.                        *)
LEMMA ClaimRepair ==
    ASSUME ClaimInv, Repair \/ Rejected
    PROVE  NothingScheduled' /\ ClaimPlaced'
<1> USE DEF ClaimInv, disk, memory, control, history
<1>1. pc \in {"repair", "rejected"} /\ pending_planner_recovery = NoRecovery
  BY DEF Repair, Rejected, NothingScheduled
<1>2. Slipped => cycle.route \in Implementers
  BY <1>1 DEF ClaimPlaced, Contained, InOwnCycle, HeldAtPause, AwaitsHygiene,
              InHygieneCycle
<1>3. ~GatedClaim(handoff) => ~Slipped
  BY <1>2, SlippedIsGated
<1>4. CASE Repair /\ RepairSucceeds
  <2>1. author' = cycle.route /\ pc' = "gate_repaired"
        /\ UNCHANGED <<cycle, pending_planner_recovery>>
    BY <1>4 DEF Repair, RepairSucceeds
  <2> QED
    BY <1>1, <2>1, ReplacedIsNotSlipped
    DEF NothingScheduled, ClaimPlaced, Contained, InOwnCycle
<1>5. CASE Repair /\ RepairFails
  <2>1. CASE GatedClaim(handoff)
    BY <1>1, <1>5, <2>1
    DEF RepairFails, Pause, NothingScheduled, ClaimPlaced, Contained, HeldAtPause
  <2>2. CASE ~GatedClaim(handoff)
    <3>1. /\ pending_planner_recovery' = HygieneRecovery'
          /\ previous_cycle' = AsPast(cycle)
          /\ pc' = "top" /\ UNCHANGED excuse
      BY <1>5, <2>2 DEF RepairFails, Schedule, CycleDone, HygieneRecovery
    <3>2. Slipped' => author' = cycle.route
      BY <1>3, <1>5, <2>2, SlippedFrame DEF RepairFails
    <3>3. Slipped' => cycle.route \in Implementers
      BY <3>2, ReplacedIsNotSlipped
    <3>4. Slipped' => AwaitsHygiene'
      BY <3>1, <3>3 DEF AwaitsHygiene, AsPast, NoCycle
    <3> QED
      BY <3>1, <3>4 DEF NothingScheduled, ClaimPlaced, Contained, HygieneRecovery
  <2> QED BY <2>1, <2>2
<1>6. CASE Repair /\ RepairChangesProtected
  BY <1>6, ReplacedIsNotSlipped
  DEF RepairChangesProtected, NothingScheduled, ClaimPlaced, Implementers
<1>7. CASE Rejected /\ RejectedWithoutRoute
  <2>1. ~Slipped'
    BY <1>3, <1>7, SlippedFrame DEF RejectedWithoutRoute, NeedsRoute
  <2> QED
    BY <1>7, <2>1 DEF RejectedWithoutRoute, NothingScheduled, ClaimPlaced
<1>8. CASE Rejected /\ RejectedToPause
  <2>1. PICK c :
           /\ Diagnosed(c)
           /\ \/ ~GatedClaim(handoff) /\ SchedulePauseRecovery(c)
              \/ Pause(c)
    BY <1>8 DEF RejectedToPause
  <2>2. handoff' = c
    BY <2>1 DEF Diagnosed
  <2>3. ~GatedClaim(handoff) => ~Slipped'
    BY <1>3, <2>1, SlippedFrame, ReplacedIsNotSlipped DEF Diagnosed, Implementers
  <2>4. CASE ~GatedClaim(handoff) /\ SchedulePauseRecovery(c)
    BY <2>3, <2>4 DEF SchedulePauseRecovery, NothingScheduled, ClaimPlaced
  <2>5. CASE Pause(c)
    BY <1>1, <2>2, <2>5
    DEF Pause, NothingScheduled, ClaimPlaced, Contained, HeldAtPause
  <2> QED BY <2>1, <2>4, <2>5
<1> QED BY <1>4, <1>5, <1>6, <1>7, <1>8 DEF Repair, Rejected

(* The gate takes the claim: it is marked, or rewritten by the dispatcher.      *)
LEMMA GateTakesClaim ==
    ASSUME GateFails \/ GatePasses \/ GateDoesNotApply, UNCHANGED excuse,
           Slipped => cycle.route \in Implementers
    PROVE  ~Slipped'
<1>1. CASE GateFails
  BY <1>1, ReplacedIsNotSlipped DEF GateFails, Implementers
<1>2. CASE GatePasses
  <2>1. handoff' = [handoff EXCEPT !.verified = TRUE]
    BY <1>2 DEF GatePasses
  <2> QED BY <2>1 DEF Slipped, UncheckedClaim
<1>3. CASE GateDoesNotApply
  BY <1>3, SlippedIsGated, SlippedFrame DEF GateDoesNotApply
<1> QED BY <1>1, <1>2, <1>3

LEMMA ClaimGate ==
    ASSUME ClaimInv, Gate \/ GateAfterRepair \/ PublishStory
    PROVE  NothingScheduled' /\ ClaimPlaced'
<1> USE DEF ClaimInv, disk, memory, control, history
<1>1. CASE Gate \/ GateAfterRepair
  <2>1. /\ pc \in {"gate", "gate_repaired"}
        /\ GateFails \/ GatePasses \/ GateDoesNotApply
        /\ UNCHANGED excuse
        /\ pc' \in {"top", "publish"}
        /\ pc' = "top" \/ UNCHANGED pending_planner_recovery
    BY <1>1 DEF Gate, GateAfterRepair
  <2>2. Slipped => cycle.route \in Implementers
    BY <2>1 DEF ClaimPlaced, Contained, InOwnCycle, HeldAtPause, AwaitsHygiene,
                InHygieneCycle
  <2>3. ~Slipped'
    BY <2>1, <2>2, GateTakesClaim
  <2> QED BY <2>1, <2>3 DEF NothingScheduled, ClaimPlaced
<1>2. CASE PublishStory
  <2>1. ~Slipped
    BY <1>2 DEF PublishStory, ClaimPlaced, Contained, InOwnCycle, HeldAtPause,
                AwaitsHygiene, InHygieneCycle
  <2>2. ~Slipped'
    BY <1>2, <2>1, SlippedFrame, ReplacedIsNotSlipped DEF PublishStory, Implementers
  <2> QED BY <1>2, <2>2 DEF PublishStory, NothingScheduled, ClaimPlaced
<1> QED BY <1>1, <1>2

LEMMA ClaimEnvironment ==
    ASSUME ClaimInv, Environment
    PROVE  NothingScheduled' /\ ClaimPlaced'
<1> USE DEF ClaimInv, disk, memory, control, history
<1>1. CASE PersonEdits
  BY <1>1, ReplacedIsNotSlipped DEF PersonEdits, NothingScheduled, ClaimPlaced
<1>2. CASE StopRequested
  BY <1>2, SlippedFrame
  DEF StopRequested, NothingScheduled, ClaimPlaced, Contained, InOwnCycle, HeldAtPause,
      AwaitsHygiene, InHygieneCycle, HygieneRecovery
<1>3. CASE Crash
  BY <1>3, SlippedFrame DEF Crash, NothingScheduled, ClaimPlaced, Contained
<1>4. CASE Restart
  BY <1>4, ReplacedIsNotSlipped DEF Restart, NothingScheduled, ClaimPlaced
<1> QED BY <1>1, <1>2, <1>3, <1>4 DEF Environment

LEMMA ClaimInitially == Init => ClaimInv
  BY InitTypes DEF Init, ClaimInv, NothingScheduled, ClaimPlaced, Slipped

LEMMA ClaimStep == ClaimInv /\ [Next]_vars => ClaimInv'
<1> SUFFICES ASSUME ClaimInv, [Next]_vars PROVE ClaimInv'
  OBVIOUS
<1>1. CASE UNCHANGED vars
  BY <1>1, StepTypes, SlippedFrame
  DEF vars, disk, memory, control, history, ClaimInv, NothingScheduled, ClaimPlaced,
      Contained, InOwnCycle, HeldAtPause, AwaitsHygiene, InHygieneCycle, HygieneRecovery
<1>2. CASE Next
  BY <1>2, StepTypes, ClaimRouting, ClaimRoles, ClaimValidation, ClaimRepair, ClaimGate,
     ClaimEnvironment
  DEF Next, LoopStep, ClaimInv
<1> QED BY <1>1, <1>2

(* Whatever the roles write and however repairs, recoveries, breakers, stale    *)
(* routes and crashes follow one another, the auditor never runs on a claim the *)
(* gate has not passed, unless a person, a restart or the implementer's failed  *)
(* exit excuses it.                                                             *)
THEOREM AuditGatedCorrect == Spec => []AuditGated
<1>1. ClaimInv => AuditGated
  BY DEF ClaimInv, ClaimPlaced, Contained, InOwnCycle, HeldAtPause, AwaitsHygiene,
         InHygieneCycle, AuditGated, Auditing, Slipped, Implementers
<1> QED BY <1>1, ClaimInitially, ClaimStep, PTL DEF Spec

(* No pause or routing recovery is pending over a claim the gate has not seen:  *)
(* the planner cannot rewrite one before its evidence is checked.               *)
THEOREM ClaimsSpared == Spec => []RecoverySparesClaims
<1>1. ClaimInv => RecoverySparesClaims
  BY DEF ClaimInv, ClaimPlaced, RecoverySparesClaims, Slipped, NoRecovery
<1> QED BY <1>1, ClaimInitially, ClaimStep, PTL DEF Spec

--------------------------------------------------------------------------------
(* The approval, from the auditor's hand to the publication. A person may write *)
(* the handoff at any moment of it; a verified_pass is the auditor's to write.  *)

ByPerson == author = "person" /\ handoff.text \in PersonTexts

ByAuditor ==
    /\ author = "auditor" /\ Front[handoff.text].producer = "auditor"
    /\ Front[handoff.text].flaws = {}

(* While the auditor runs, and until its handback is judged.                    *)
AuditUnjudged ==
    /\ pc \in {"running", "validate"} /\ cycle.route = "auditor"
    /\ handoff # cycle.sha

ApprovalInv ==
    /\ pc = "publish" => cycle.route = "auditor"
    /\ pc \in Working => approval # "offered"
    /\ AuditUnjudged => author = "auditor" \/ ByPerson
    /\ pc = "gate" /\ cycle.route = "auditor" => ByAuditor \/ ByPerson
    /\ pc = "publish" => ByPerson \/ (ByAuditor /\ ~Front[handoff.text].boast)

(* The steps that lead nowhere near the publication.                            *)
LEMMA ApprovalElsewhere ==
    ASSUME \/ LoopTop \/ Diagnose \/ AtPause \/ Repair \/ Rejected \/ GateAfterRepair
           \/ PublishStory \/ ValidateFinalizer \/ Crash \/ Restart,
           TypeInv, ApprovalInv
    PROVE  ApprovalInv'
<1> USE DEF disk, memory, control, history
<1>1. ASSUME pc' \notin {"running", "validate", "gate", "publish"},
             pc' \in Working => pc \in Working /\ approval' = approval
      PROVE  ApprovalInv'
  BY <1>1 DEF ApprovalInv, AuditUnjudged
<1>2. CASE LoopTop \/ Diagnose \/ AtPause
  BY <1>1, <1>2 DEF LoopTop, StopAtRequest, Diagnose, SchedulePauseRecovery, Pause,
                    AtPause, PauseResumes, PromptRetry, PromptDispatch, PauseQuits,
                    PauseEnds, Working
<1>3. CASE Repair \/ Rejected
  BY <1>1, <1>3 DEF Repair, RepairSucceeds, RepairFails, RepairChangesProtected,
                    Rejected, RejectedWithoutRoute, RejectedToPause,
                    SchedulePauseRecovery, Pause, Working
<1>4. CASE GateAfterRepair \/ PublishStory \/ ValidateFinalizer
  BY <1>1, <1>4 DEF GateAfterRepair, PublishStory, ValidateFinalizer, Working
<1>5. CASE Crash \/ Restart
  BY <1>1, <1>5 DEF Crash, Restart, Working
<1> QED BY <1>2, <1>3, <1>4, <1>5

(* A dispatched auditor starts on the handoff it was routed by; what it or a    *)
(* person writes is theirs; and validation lets no faulty handback of it by.    *)
LEMMA ApprovalRun ==
    ASSUME ReadAndRoute \/ RoleWrites \/ RoleReturns \/ Validate,
           TypeInv, ApprovalInv
    PROVE  ApprovalInv'
<1> USE DEF disk, memory, control, history
<1>1. CASE ReadAndRoute
  <2> DEFINE d == Decision(handoff)
  <2>1. /\ cycle' = d /\ UNCHANGED handoff
        /\ RouteToPause(d) \/ RouteToDiagnosis(d) \/ RouteToDispatch(d)
    BY <1>1 DEF ReadAndRoute, RoutingEffects
  <2>2. d.sha = handoff
    BY DecisionType DEF TypeInv, TypeOK
  <2> HIDE DEF d
  <2> QED
    BY <2>1, <2>2 DEF RouteToPause, RouteToDiagnosis, RouteToDispatch, ApprovalInv,
                      AuditUnjudged, Working
<1>2. CASE RoleWrites
  BY <1>2 DEF RoleWrites, ApprovalInv, AuditUnjudged, Working
<1>3. CASE RoleReturns
  BY <1>3 DEF RoleReturns, ProtectedFileChanged, FatalReturn, FailedReturn, CleanReturn,
              UnparseableReturn, ApprovalInv, AuditUnjudged, ByPerson, Working
<1>4. CASE Validate
  <2>1. /\ UNCHANGED <<handoff, author, cycle, approval>>
        /\ pc = "validate" /\ pc' \in {"gate", "repair", "rejected", "ended"}
        /\ pc' = "gate" => Errors(handoff) = {} \/ LeftToGate(handoff)
    BY <1>4 DEF Validate
  <2>2. ASSUME pc' = "gate", cycle.route = "auditor"
        PROVE  ByAuditor \/ ByPerson
    <3>1. Errors(handoff) = {}
      BY <2>1, <2>2 DEF LeftToGate, GatedClaim, Implementers
    <3>2. Front[handoff.text].flaws = {}
      BY <3>1 DEF Errors
    <3>3. "no_new_sha" \notin Errors(handoff) /\ "producer_mismatch" \notin Errors(handoff)
      BY <3>1
    <3>4. handoff # cycle.sha /\ Front[handoff.text].producer = "auditor"
      BY <2>2, <3>3 DEF Errors
    <3> QED
      BY <2>1, <2>2, <3>2, <3>4 DEF ApprovalInv, AuditUnjudged, ByAuditor
  <2> QED
    BY <2>1, <2>2 DEF ApprovalInv, AuditUnjudged, ByAuditor, ByPerson, Working
<1> QED BY <1>1, <1>2, <1>3, <1>4

(* The gate leaves an approval as it is, and sends a boast to the planner.      *)
LEMMA ApprovalGate ==
    ASSUME Gate, TypeInv, ApprovalInv
    PROVE  ApprovalInv'
<1> USE DEF disk, memory, control, history
<1>1. CASE pc' # "publish"
  BY <1>1 DEF Gate, ApprovalInv, AuditUnjudged, Working
<1>2. CASE pc' = "publish"
  <2>1. /\ pc = "gate" /\ cycle.route = "auditor" /\ UNCHANGED cycle
        /\ ~Front[handoff.text].boast
        /\ GatePasses \/ GateDoesNotApply
        /\ Accept
    BY <1>2 DEF Gate
  <2>2. UNCHANGED <<handoff, author>>
    BY <2>1 DEF GatePasses, GateDoesNotApply, GatedClaim, Implementers
  <2>3. ByPerson \/ (ByAuditor /\ ~Front[handoff.text].boast)
    BY <2>1 DEF ApprovalInv
  <2>4. approval' # "offered"
    BY <2>1 DEF Accept, ApprovalInv, Working
  <2> QED
    BY <1>2, <2>1, <2>2, <2>3, <2>4 DEF ApprovalInv, AuditUnjudged, ByPerson, ByAuditor
<1> QED BY <1>1, <1>2

LEMMA ApprovalEdits ==
    ASSUME PersonEdits \/ StopRequested, TypeInv, ApprovalInv
    PROVE  ApprovalInv'
<1> USE DEF disk, memory, control, history
<1>1. CASE PersonEdits
  <2>1. author' = "person" /\ handoff'.text \in PersonTexts
    BY <1>1 DEF PersonEdits, Plain
  <2> QED
    BY <1>1, <2>1 DEF PersonEdits, ApprovalInv, AuditUnjudged, ByPerson
<1>2. CASE StopRequested
  BY <1>2 DEF StopRequested, ApprovalInv, AuditUnjudged, ByPerson, ByAuditor
<1> QED BY <1>1, <1>2

LEMMA ApprovalStep ==
    ASSUME TypeInv, ApprovalInv, [Next]_vars
    PROVE  ApprovalInv'
<1>1. CASE UNCHANGED vars
  BY <1>1 DEF vars, disk, memory, control, history, ApprovalInv, AuditUnjudged, ByPerson,
              ByAuditor
<1>2. CASE Next
  BY <1>2, ApprovalElsewhere, ApprovalRun, ApprovalGate, ApprovalEdits
  DEF Next, LoopStep, Environment
<1> QED BY <1>1, <1>2

(* Persons write assignments and corrections; a verified_pass is the auditor's. *)
PersonsDoNotApprove == \A h \in PersonTexts : Front[h].status # "verified_pass"

(* Whatever a person, a repair, a bounce or a crash does between the audit and  *)
(* the publication, what is offered to publish_story is what the auditor wrote, *)
(* without a validation error and without a boast for the planner to look at.   *)
THEOREM ApprovalIsTheAuditors ==
    PersonsDoNotApprove => (Spec => PublishedAsApproved)
<1> SUFFICES ASSUME PersonsDoNotApprove PROVE Spec => PublishedAsApproved
  OBVIOUS
<1> DEFINE Inv == TypeInv /\ ApprovalInv
<1>1. Init => Inv
  BY InitTypes DEF Init, ApprovalInv, AuditUnjudged, Working
<1>2. Inv /\ [Next]_vars => Inv'
  BY StepTypes, ApprovalStep
<1>3. Inv /\ [Next]_vars =>
        [pc = "publish" /\ approval' = "offered"
           => /\ author = "auditor" /\ Front[handoff.text].producer = "auditor"
              /\ Front[handoff.text].flaws = {} /\ ~Front[handoff.text].boast]_vars
  <2> SUFFICES ASSUME Inv, Next, pc = "publish", approval' = "offered"
               PROVE  ByAuditor /\ ~Front[handoff.text].boast
    BY DEF ByAuditor
  <2> USE DEF disk, memory, control, history
  <2>1. approval # "offered"
    BY DEF ApprovalInv, Working
  <2>2. PublishStory \/ UNCHANGED approval
    BY DEF Next, LoopStep, Environment, AtPause, LoopTop, ReadAndRoute, Diagnose, Validate,
           ValidateFinalizer, Repair, Rejected, Gate, GateAfterRepair, RoleWrites,
           RoleReturns, PersonEdits, StopRequested, Crash, Restart
  <2>3. Status(handoff) = "verified_pass"
    BY <2>1, <2>2 DEF PublishStory
  <2>4. ~ByPerson
    BY <2>3 DEF ByPerson, PersonsDoNotApprove, Status
  <2> QED BY <2>4 DEF ApprovalInv
<1> QED BY <1>1, <1>2, <1>3, PTL DEF Spec, PublishedAsApproved
================================================================================
