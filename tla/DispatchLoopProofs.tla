--------------------------- MODULE DispatchLoopProofs ---------------------------
(* What DispatchLoop guarantees for every set of handoffs, roles' habits and    *)
(* switches: its types, and the circuit breaker.                                *)
EXTENDS DispatchLoop, TLAPS

Counts == [Stories -> 0 .. BounceCap]

(* Locations inside a cycle: the route is chosen, or a role is at work.         *)
Working == {"running", "validate", "repair", "rejected", "gate", "gate_repaired",
            "publish"}

ControlOK ==
    /\ pc # "ended" => consecutive_failures < MaxFailures
    /\ pc \in Working \cup {"diagnose"} => cycle \in Cycles
    /\ pc \in Working => cycle.route \in Roles

TypeInv == TypeOK /\ ControlOK

--------------------------------------------------------------------------------
(* What a handoff says is well typed.                                           *)
LEMMA ContentFacts ==
    ASSUME NEW c \in Contents
    PROVE  /\ NextAgent(c) \in Routes
           /\ Story(c) \in Stories
           /\ Front[c.text].producer \in Roles
  BY HandoffsAssumption DEF Contents, NextAgent, Story, Fronts

LEMMA PlainType ==
    ASSUME NEW h \in Handoffs
    PROVE  Plain(h) \in Contents
  BY DEF Plain, Contents

(* The texts a role, a person and the dispatcher write are handoffs.            *)
LEMMA TextFacts ==
    /\ Escalation \in Handoffs
    /\ \A h \in PersonTexts \cup BounceTexts \cup FirstTexts : h \in Handoffs
    /\ \A r \in Roles : \A h \in RoleTexts[r] : h \in Handoffs
  BY HandoffsAssumption

LEMMA RecordedType ==
    ASSUME NEW counts \in Counts, NEW c \in Contents
    PROVE  Recorded(counts, c) \in Counts
<1>1. Story(c) \in Stories
  BY ContentFacts
<1>2. Bumped(counts, Story(c)) \in Counts
  BY <1>1, SwitchesAssumption DEF Bumped, Counts
<1>3. [counts EXCEPT ![Story(c)] = 0] \in Counts
  BY <1>1, SwitchesAssumption DEF Counts
<1> QED BY <1>2, <1>3 DEF Recorded

LEMMA PersistedType ==
    ASSUME NEW file \in Counts, NEW counts \in Counts, NEW c \in Contents
    PROVE  Persisted(file, counts, c) \in Counts
  BY ContentFacts DEF Persisted, Counts

(* The routing rules yield a cycle for the handoff that was read.               *)
LEMMA DecisionType ==
    ASSUME TypeOK, NEW c \in Contents
    PROVE  Decision(c) \in Cycles /\ Decision(c).sha = c
<1> USE ContentFacts DEF Rerouted, Cycles, Sources, Kinds, Routes, Roles, Implementers
<1>1. FirstDecision(c) \in Cycles /\ FirstDecision(c).sha = c
  BY DEF FirstDecision, TypeOK, Recoveries
<1>2. ASSUME NEW d \in Cycles
      PROVE  AfterStaleFinalizer(d) \in Cycles /\ AfterStaleFinalizer(d).sha = d.sha
  BY DEF AfterStaleFinalizer
<1>3. ASSUME NEW d \in Cycles
      PROVE  AfterFrontmatterRepair(d) \in Cycles /\ AfterFrontmatterRepair(d).sha = d.sha
  BY DEF AfterFrontmatterRepair
<1>4. ASSUME NEW d \in Cycles
      PROVE  AfterBreaker(d) \in Cycles /\ AfterBreaker(d).sha = d.sha
  BY DEF AfterBreaker
<1>5. ASSUME NEW d \in Cycles
      PROVE  AfterReconciliation(d) \in Cycles /\ AfterReconciliation(d).sha = d.sha
  BY DEF AfterReconciliation
<1>6. ASSUME NEW d \in Cycles
      PROVE  AfterTpm(d) \in Cycles /\ AfterTpm(d).sha = d.sha
  BY DEF AfterTpm
<1> HIDE DEF Cycles, Rerouted
<1> QED BY <1>1, <1>2, <1>3, <1>4, <1>5, <1>6 DEF Decision
--------------------------------------------------------------------------------
(* Type correctness, one lemma per group of steps.                              *)

(* The loop's own steps up to the dispatch.                                     *)
LEMMA RoutingTypes ==
    ASSUME TypeInv, LoopTop \/ ReadAndRoute \/ Diagnose \/ AtPause
    PROVE  TypeInv'
<1> USE DEF TypeInv, TypeOK, ControlOK, Counts, Working, Locations,
            disk, memory, control, history
<1> USE SwitchesAssumption
<1>1. CASE LoopTop
  BY <1>1 DEF LoopTop, StopAtRequest
<1>2. CASE ReadAndRoute
  <2> DEFINE d == Decision(handoff)
  <2>1. d \in Cycles /\ d.sha = handoff
    BY DecisionType
  <2>2. /\ Story(d.sha) \in Stories
        /\ d.route \in Routes /\ d.sha \in Contents
    BY <2>1, ContentFacts DEF Cycles
  <2>3. /\ pc = "read" /\ RoutingEffects(d)
        /\ RouteToPause(d) \/ RouteToDiagnosis(d) \/ RouteToDispatch(d)
    BY <1>2 DEF ReadAndRoute
  <2> HIDE DEF d
  <2>4. CASE RouteToPause(d)
    BY <2>1, <2>2, <2>3, <2>4 DEF RoutingEffects, RouteToPause
  <2>5. CASE RouteToDiagnosis(d)
    BY <2>1, <2>2, <2>3, <2>5 DEF RoutingEffects, RouteToDiagnosis
  <2>6. CASE RouteToDispatch(d)
    <3>1. tpm_planner_repair_ran' \in BOOLEAN
      BY <2>6, Zenon DEF RouteToDispatch
    <3>2. after_stop' \in 0 .. 2
      BY <2>6 DEF RouteToDispatch
    <3> QED
      BY <2>1, <2>2, <2>3, <2>6, <3>1, <3>2 DEF RoutingEffects, RouteToDispatch
  <2> QED BY <2>3, <2>4, <2>5, <2>6
<1>3. CASE Diagnose
  <2>1. PICK c \in {handoff, Plain(Escalation)} :
           /\ Diagnosed(c)
           /\ IF PauseRecoveryAvailable(c) THEN SchedulePauseRecovery(c)
              ELSE Pause(cycle.sha)
    BY <1>3 DEF Diagnose
  <2>2. c \in Contents /\ handoff' \in Contents /\ cycle.sha \in Contents
    BY <1>3, <2>1, TextFacts, PlainType DEF Diagnose, Diagnosed, Cycles
  <2>3. /\ author' \in Roles \cup {"dispatcher", "person"}
        /\ excuse' \in Excuses
    BY <2>1 DEF Diagnosed, Excuses
  <2>4. CASE SchedulePauseRecovery(c)
    BY <1>3, <2>2, <2>3, <2>4
    DEF Diagnose, SchedulePauseRecovery, Schedule, Recoveries, Kinds, Roles
  <2>5. CASE Pause(cycle.sha)
    BY <1>3, <2>2, <2>3, <2>5 DEF Diagnose, Pause
  <2> QED BY <2>1, <2>4, <2>5
<1>4. CASE AtPause
  <2>1. CASE StopAtRequest
    BY <1>4, <2>1 DEF AtPause, StopAtRequest
  <2>2. CASE PauseResumes
    BY <1>4, <2>2 DEF AtPause, PauseResumes, PauseEnds
  <2>3. CASE PromptRetry
    BY <1>4, <2>3 DEF AtPause, PromptRetry, PauseEnds, Excuses
  <2>4. CASE PromptDispatch
    <3>1. pending_planner_recovery' \in Recoveries
      BY <2>4 DEF PromptDispatch, Recoveries, Kinds, Roles, Implementers
    <3> QED
      BY <1>4, <2>4, <3>1 DEF AtPause, PromptDispatch, PauseEnds, Excuses
  <2>5. CASE PauseQuits
    BY <1>4, <2>5 DEF AtPause, PauseQuits
  <2> QED BY <1>4, <2>1, <2>2, <2>3, <2>4, <2>5 DEF AtPause
<1> QED BY <1>1, <1>2, <1>3, <1>4

(* The role at work, and its return.                                            *)
LEMMA RoleTypes ==
    ASSUME TypeInv, RoleWrites \/ RoleReturns
    PROVE  TypeInv'
<1> USE DEF TypeInv, TypeOK, ControlOK, Counts, Working, Locations,
            disk, memory, control, history
<1> USE SwitchesAssumption
<1>1. CASE RoleWrites
  BY <1>1, TextFacts, PlainType DEF RoleWrites, Excuses
<1>2. CASE RoleReturns
  <2>1. CASE ProtectedFileChanged
    BY <1>2, <2>1, TextFacts, PlainType
    DEF RoleReturns, ProtectedFileChanged, Excuses, AsPast, PastCycles, Cycles
  <2>2. CASE FatalReturn
    BY <1>2, <2>2 DEF RoleReturns, FatalReturn
  <2>3. CASE FailedReturn
    BY <1>2, <2>3 DEF RoleReturns, FailedReturn, Excuses
  <2>4. CASE CleanReturn
    BY <1>2, <2>4 DEF RoleReturns, CleanReturn
  <2>5. CASE UnparseableReturn
    BY <1>2, <2>5 DEF RoleReturns, UnparseableReturn
  <2> QED BY <1>2, <2>1, <2>2, <2>3, <2>4, <2>5 DEF RoleReturns
<1> QED BY <1>1, <1>2

(* A cycle that reached a working location ran a role on a handoff.             *)
LEMMA WorkingCycle ==
    ASSUME TypeInv, pc \in Working
    PROVE  /\ cycle \in Cycles /\ cycle.route \in Roles
           /\ cycle.forced \in BOOLEAN
           /\ AsPast(cycle) \in PastCycles
  BY DEF TypeInv, ControlOK, AsPast, PastCycles, Cycles

(* Validation, with and without repair.                                         *)
LEMMA ValidationTypes ==
    ASSUME TypeInv, Validate \/ ValidateFinalizer \/ Repair \/ Rejected
    PROVE  TypeInv'
<1> USE DEF TypeInv, TypeOK, ControlOK, Working, Locations,
            disk, memory, control, history
<1> USE SwitchesAssumption
<1>1. CASE Validate
  <2>1. /\ Recorded(bounce_counts, handoff) \in Counts
        /\ Recorded(fails, handoff) \in Counts
    BY RecordedType DEF Counts
  <2>2. Persisted(bounce_file, Recorded(bounce_counts, handoff), handoff) \in Counts
    BY <2>1, PersistedType DEF Counts
  <2> QED
    BY <1>1, <2>1, <2>2, WorkingCycle DEF Validate, RecordStatus, EndStreak, Counts
<1>2. CASE ValidateFinalizer
  BY <1>2, WorkingCycle DEF ValidateFinalizer, CycleDone, EndStreak
<1>3. CASE Repair
  <2>1. CASE RepairSucceeds
    BY <1>3, <2>1, WorkingCycle, TextFacts, PlainType
    DEF Repair, RepairSucceeds, EndStreak
  <2>2. CASE RepairFails
    <3>1. handoff' \in Contents /\ author' \in Roles \cup {"dispatcher", "person"}
      BY <1>3, <2>2, WorkingCycle, TextFacts, PlainType DEF RepairFails, Repair
    <3> QED
      BY <1>3, <2>2, <3>1, WorkingCycle
      DEF Repair, RepairFails, Pause, Schedule, CycleDone, Recoveries, Kinds, Roles
  <2>3. CASE RepairChangesProtected
    BY <1>3, <2>3, WorkingCycle, TextFacts, PlainType
    DEF Repair, RepairChangesProtected, CycleDone, Excuses
  <2> QED BY <1>3, <2>1, <2>2, <2>3 DEF Repair
<1>4. CASE Rejected
  <2>1. Plain(Escalation) \in Contents
    BY TextFacts, PlainType
  <2>2. CASE RejectedWithoutRoute
    BY <1>4, <2>2, WorkingCycle
    DEF Rejected, RejectedWithoutRoute, Schedule, CycleDone, Recoveries, Kinds, Roles
  <2>3. CASE RejectedToPause
    <3>1. PICK c \in {handoff, Plain(Escalation)} :
             /\ Diagnosed(c)
             /\ \/ SchedulePauseRecovery(c) /\ CycleDone
                \/ Pause(c) /\ UNCHANGED <<previous_cycle, consecutive_failures>>
      BY <2>3 DEF RejectedToPause
    <3>2. c \in Contents /\ handoff' \in Contents
      BY <2>1, <3>1 DEF Diagnosed
    <3>3. /\ author' \in Roles \cup {"dispatcher", "person"}
          /\ excuse' \in Excuses
      BY <3>1 DEF Diagnosed, Excuses
    <3>4. CASE SchedulePauseRecovery(c) /\ CycleDone
      BY <1>4, <3>2, <3>3, <3>4, WorkingCycle
      DEF Rejected, SchedulePauseRecovery, Schedule, CycleDone, Recoveries, Kinds, Roles
    <3>5. CASE Pause(c) /\ UNCHANGED <<previous_cycle, consecutive_failures>>
      BY <1>4, <3>2, <3>3, <3>5 DEF Rejected, Pause
    <3> QED BY <3>1, <3>4, <3>5
  <2> QED BY <1>4, <2>2, <2>3 DEF Rejected
<1> QED BY <1>1, <1>2, <1>3, <1>4

(* The gate and the publication.                                                *)
LEMMA GateTypes ==
    ASSUME TypeInv, Gate \/ GateAfterRepair \/ PublishStory
    PROVE  TypeInv'
<1> USE DEF TypeInv, TypeOK, ControlOK, Working, Locations,
            disk, memory, control, history
<1> USE SwitchesAssumption
<1>1. ASSUME GateFails \/ GatePasses \/ GateDoesNotApply
      PROVE  /\ handoff' \in Contents
             /\ author' \in Roles \cup {"dispatcher", "person"}
             /\ bounce_counts' \in Counts /\ bounce_file' \in Counts
             /\ fails' \in Counts
  <2>1. CASE GateFails
    BY <2>1, TextFacts, PlainType, RecordedType DEF GateFails, Counts
  <2>2. CASE GatePasses
    BY <2>2 DEF GatePasses, Contents, Counts
  <2>3. CASE GateDoesNotApply
    BY <2>3 DEF GateDoesNotApply, Counts
  <2> QED BY <1>1, <2>1, <2>2, <2>3
<1>2. CASE Gate
  BY <1>1, <1>2, WorkingCycle
  DEF Gate, CycleDone, Accept, Schedule, Recoveries, Kinds, Roles, Counts
<1>3. CASE GateAfterRepair
  BY <1>1, <1>3, WorkingCycle DEF GateAfterRepair, CycleDone, Accept, Counts
<1>4. CASE PublishStory
  BY <1>4, TextFacts, PlainType DEF PublishStory
<1> QED BY <1>2, <1>3, <1>4

(* People, crashes and restarts.                                                *)
LEMMA Bounds ==
    0 \in 0 .. BounceCap /\ 0 \in 0 .. MaxFailures /\ 0 < MaxFailures
  BY SwitchesAssumption DEF BreakerLimit

(* A process that knows nothing yet: what Init and Restart leave in memory.    *)
Fresh ==
    /\ previous_cycle = NoCycle
    /\ pending_planner_recovery = NoRecovery
    /\ pause_recovery_used = FALSE
    /\ consecutive_failures = 0
    /\ breaker_planner_seen = {}
    /\ reconciled_handoff_shas = {}
    /\ tpm_planner_repair_ran = FALSE
    /\ pc = "top"
    /\ cycle = NoCycle
    /\ paused_on = NoCycle

FreshTypes ==
    /\ previous_cycle \in PastCycles \cup {NoCycle}
    /\ pending_planner_recovery \in Recoveries \cup {NoRecovery}
    /\ pause_recovery_used \in BOOLEAN
    /\ consecutive_failures \in 0 .. MaxFailures
    /\ consecutive_failures < MaxFailures
    /\ breaker_planner_seen \subseteq Stories
    /\ reconciled_handoff_shas \subseteq Contents
    /\ tpm_planner_repair_ran \in BOOLEAN
    /\ pc = "top"
    /\ cycle \in Cycles \cup {NoCycle}
    /\ paused_on \in Contents \cup {NoCycle}

LEMMA FreshIsTyped == Fresh => FreshTypes
<1> SUFFICES ASSUME Fresh PROVE FreshTypes
  OBVIOUS
<1>1. /\ breaker_planner_seen \subseteq Stories
      /\ reconciled_handoff_shas \subseteq Contents
  BY DEF Fresh
<1> QED BY <1>1, Bounds DEF Fresh, FreshTypes

LEMMA EnvironmentTypes ==
    ASSUME TypeInv, Environment
    PROVE  TypeInv'
<1> USE DEF TypeInv, TypeOK, ControlOK, Working, Locations, disk, memory, control,
            history
<1>1. CASE PersonEdits
  BY <1>1, TextFacts, PlainType DEF PersonEdits, Excuses
<1>2. CASE StopRequested
  BY <1>2 DEF StopRequested
<1>3. CASE Crash
  BY <1>3 DEF Crash
<1>4. CASE Restart
  <2>1. bounce_counts' \in [Stories -> 0 .. BounceCap]
    BY <1>4 DEF Restart, Seeded
  <2>2. excuse' \in Excuses
    BY <1>4 DEF Restart, Excuses
  <2>3. FreshTypes'
    <3>1. /\ breaker_planner_seen' \subseteq Stories
          /\ reconciled_handoff_shas' \subseteq Contents
      BY <1>4 DEF Restart
    <3> QED BY <1>4, <3>1, Bounds DEF Restart, FreshTypes
  <2>4. stop_file' \in BOOLEAN /\ approval' \in {"none", "accepted", "offered"}
    BY <1>4 DEF Restart
  <2>5. after_stop' \in 0 .. 2 /\ recoveries' \in 0 .. 2
    BY <1>4 DEF Restart
  <2>6. UNCHANGED <<handoff, bounce_file, author, fails>>
    BY <1>4 DEF Restart
  <2> QED
    BY <2>1, <2>2, <2>3, <2>4, <2>5, <2>6 DEF FreshTypes
<1> QED BY <1>1, <1>2, <1>3, <1>4 DEF Environment

LEMMA InitTypes == Init => TypeInv
<1> SUFFICES ASSUME Init PROVE TypeInv
  OBVIOUS
<1>1. handoff \in Contents
  BY TextFacts, PlainType DEF Init
<1>2. [s \in Stories |-> 0] \in [Stories -> 0 .. BounceCap]
  BY Bounds
<1>3. TypeOK
  <2>1. FreshTypes
    BY FreshIsTyped DEF Init, Fresh
  <2>2. /\ bounce_file \in [Stories -> 0 .. BounceCap]
        /\ bounce_counts \in [Stories -> 0 .. BounceCap]
        /\ fails \in [Stories -> 0 .. BounceCap]
    BY <1>2 DEF Init
  <2>3. stop_file \in BOOLEAN /\ approval \in {"none", "accepted", "offered"}
    BY DEF Init
  <2>4. author \in Roles \cup {"dispatcher", "person"} /\ excuse \in Excuses
    BY DEF Init, Excuses
  <2>5. after_stop \in 0 .. 2 /\ recoveries \in 0 .. 2
    BY DEF Init
  <2> QED
    BY <1>1, <2>1, <2>2, <2>3, <2>4, <2>5 DEF FreshTypes, TypeOK, Locations
<1>4. ControlOK
  BY Bounds DEF Init, ControlOK, Working
<1> QED
  BY <1>3, <1>4 DEF TypeInv

LEMMA StepTypes == TypeInv /\ [Next]_vars => TypeInv'
<1> SUFFICES ASSUME TypeInv, [Next]_vars PROVE TypeInv'
  OBVIOUS
<1>1. CASE UNCHANGED vars
  BY <1>1 DEF TypeInv, TypeOK, ControlOK, vars, disk, memory, control, history
<1>2. CASE Next
  BY <1>2, RoutingTypes, RoleTypes, ValidationTypes, GateTypes, EnvironmentTypes
  DEF Next, LoopStep
<1> QED BY <1>1, <1>2

(* Every variable of the loop keeps its type, whatever the roles write.         *)
THEOREM TypeCorrect == Spec => []TypeOK
<1>1. Spec => []TypeInv
  BY InitTypes, StepTypes, PTL DEF Spec
<1>2. TypeInv => TypeOK
  BY DEF TypeInv
<1> QED BY <1>1, <1>2, PTL

--------------------------------------------------------------------------------
(* The circuit breaker. With the work-claim gate off, the counts in memory, the *)
(* counts on disk and the true number of rejections are one table, and no rule  *)
(* after the breaker routes to an implementer.                                  *)

CountsAgree == bounce_counts = fails /\ bounce_file = fails

BreakerInv == TypeInv /\ CountsAgree /\ BreakerHolds

(* Once the breaker has tripped, no later rule brings an implementer back.      *)
LEMMA DecisionBelowLimit ==
    ASSUME TypeOK, NEW c \in Contents, Decision(c).route \in Implementers
    PROVE  bounce_counts[Story(c)] < BreakerLimit
<1> DEFINE e == AfterFrontmatterRepair(AfterStaleFinalizer(FirstDecision(c)))
<1>1. e.sha = c
  BY DEF FirstDecision, AfterStaleFinalizer, AfterFrontmatterRepair, Rerouted
<1>2. ASSUME NEW d, AfterTpm(d).route \in Implementers
      PROVE  d.route \in Implementers
  BY <1>2 DEF AfterTpm, Rerouted, Implementers
<1>3. ASSUME NEW d, AfterReconciliation(d).route \in Implementers
      PROVE  d.route \in Implementers
  BY <1>3 DEF AfterReconciliation, Rerouted, Implementers
<1>4. AfterBreaker(e).route \in Implementers
  BY <1>2, <1>3 DEF Decision
<1>5. ~Tripped(e)
  BY <1>4 DEF AfterBreaker, Rerouted, Implementers
<1>6. e.route \in Implementers
  BY <1>4, <1>5 DEF AfterBreaker
<1>7. ~(bounce_counts[Story(c)] >= BreakerLimit)
  BY <1>1, <1>5, <1>6 DEF Tripped
<1>8. bounce_counts[Story(c)] \in 0 .. BounceCap
  BY ContentFacts DEF TypeOK
<1> QED BY <1>7, <1>8, SwitchesAssumption DEF BreakerLimit

(* Writing the one changed entry through keeps file and memory equal.           *)
LEMMA WriteThrough ==
    ASSUME NEW counts \in Counts, NEW c \in Contents
    PROVE  Persisted(counts, Recorded(counts, c), c) = Recorded(counts, c)
<1>1. Story(c) \in Stories
  BY ContentFacts
<1>2. CASE Status(c) = "verified_fail"
  <2>1. Persisted(counts, Bumped(counts, Story(c)), c) = Bumped(counts, Story(c))
    BY <1>1, <1>2 DEF Persisted, Tallies, Bumped, Counts
  <2> QED BY <1>2, <2>1 DEF Recorded
<1>3. CASE Status(c) \in {"verified_pass", "escalate_to_user"}
  <2>1. Recorded(counts, c) = [counts EXCEPT ![Story(c)] = 0]
    BY <1>3 DEF Recorded
  <2> QED BY <1>1, <1>3, <2>1 DEF Persisted, Tallies, Counts
<1>4. CASE ~Tallies(Status(c))
  BY <1>4 DEF Persisted, Recorded, Tallies
<1> QED BY <1>2, <1>3, <1>4 DEF Tallies

(* The steps that neither count a rejection nor begin a dispatch.               *)
LEMMA BreakerFrame ==
    ASSUME \/ LoopTop \/ Diagnose \/ AtPause \/ RoleWrites \/ RoleReturns
           \/ ValidateFinalizer \/ Repair \/ Rejected \/ PublishStory
           \/ PersonEdits \/ StopRequested \/ Crash
    PROVE  /\ UNCHANGED <<bounce_counts, bounce_file, fails>>
           /\ pc' # "running" \/ UNCHANGED <<pc, cycle>>
<1> USE DEF disk, memory, control, history
<1>1. CASE LoopTop \/ Diagnose \/ AtPause
  BY <1>1 DEF LoopTop, StopAtRequest, Diagnose, Diagnosed, SchedulePauseRecovery, Pause,
              AtPause, PauseResumes, PromptRetry, PromptDispatch, PauseQuits, PauseEnds
<1>2. CASE RoleWrites \/ RoleReturns
  BY <1>2 DEF RoleWrites, RoleReturns, ProtectedFileChanged, FatalReturn, FailedReturn,
              CleanReturn, UnparseableReturn
<1>3. CASE ValidateFinalizer \/ Repair
  BY <1>3 DEF ValidateFinalizer, Repair, RepairSucceeds, RepairFails, Pause,
              RepairChangesProtected
<1>4. CASE Rejected \/ PublishStory
  BY <1>4 DEF Rejected, RejectedWithoutRoute, RejectedToPause, SchedulePauseRecovery,
              Pause, PublishStory
<1>5. CASE PersonEdits \/ StopRequested \/ Crash
  BY <1>5 DEF PersonEdits, StopRequested, Crash
<1> QED BY <1>1, <1>2, <1>3, <1>4, <1>5

LEMMA BreakerStep ==
    ASSUME ~EnforceWorkPacket, BreakerInv, [Next]_vars
    PROVE  CountsAgree' /\ BreakerHolds'
<1> USE DEF BreakerInv
<1>1. ASSUME UNCHANGED <<bounce_counts, bounce_file, fails>>,
             pc' # "running" \/ UNCHANGED <<pc, cycle>>
      PROVE  CountsAgree' /\ BreakerHolds'
  BY <1>1 DEF CountsAgree, BreakerHolds, Story
<1>2. CASE UNCHANGED vars
  BY <1>1, <1>2 DEF vars, disk, memory, control, history
<1>3. CASE ReadAndRoute
  <2> DEFINE d == Decision(handoff)
  <2>1. UNCHANGED <<bounce_counts, bounce_file, fails>> /\ cycle' = d
    BY <1>3 DEF ReadAndRoute, RoutingEffects, disk
  <2>2. ASSUME d.route \in Implementers
        PROVE  fails[Story(d.sha)] < BreakerLimit
    BY <2>2, DecisionType, DecisionBelowLimit DEF TypeInv, TypeOK, CountsAgree
  <2> QED BY <2>1, <2>2 DEF CountsAgree, BreakerHolds, Story
<1>4. CASE Validate
  <2>1. /\ bounce_counts' = Recorded(bounce_counts, handoff)
        /\ bounce_file' = Persisted(bounce_file, bounce_counts', handoff)
        /\ fails' = Recorded(fails, handoff)
        /\ pc' # "running"
    BY <1>4 DEF Validate, RecordStatus
  <2> QED
    BY <2>1, WriteThrough DEF CountsAgree, BreakerHolds, TypeInv, TypeOK, Counts
<1>5. CASE Gate \/ GateAfterRepair
  <2>1. ~GatedClaim(handoff)
    BY DEF GatedClaim
  <2> QED
    BY <1>1, <1>5, <2>1 DEF Gate, GateAfterRepair, GateFails, GatePasses, GateDoesNotApply
<1>6. CASE Restart
  <2>1. Seeded(bounce_file) = bounce_file
    BY DEF Seeded, TypeInv, TypeOK
  <2> QED BY <1>6, <2>1 DEF Restart, CountsAgree, BreakerHolds
<1> QED
  BY <1>1, <1>2, <1>3, <1>4, <1>5, <1>6, BreakerFrame DEF Next, LoopStep, Environment

(* A story with three rejections since its last approval or escalation reaches  *)
(* no implementer, across crashes, restarts and an operator's own dispatches,   *)
(* as long as every rejection is counted by validation and none by the gate.    *)
THEOREM BreakerCorrect == ~EnforceWorkPacket => (Spec => []BreakerHolds)
<1> SUFFICES ASSUME ~EnforceWorkPacket PROVE Spec => []BreakerHolds
  OBVIOUS
<1>1. Init => BreakerInv
  BY InitTypes DEF Init, BreakerInv, CountsAgree, BreakerHolds
<1>2. BreakerInv /\ [Next]_vars => BreakerInv'
  BY StepTypes, BreakerStep DEF BreakerInv
<1>3. BreakerInv => BreakerHolds
  BY DEF BreakerInv
<1> QED BY <1>1, <1>2, <1>3, PTL DEF Spec

--------------------------------------------------------------------------------
(* Pause recoveries. The flag is set with every recovery, and only a step that  *)
(* ends the streak clears it.                                                   *)

RecoveryInv ==
    /\ recoveries \in {0, 1}
    /\ pause_recovery_used \in BOOLEAN
    /\ recoveries = 1 => pause_recovery_used

LEMMA RecoveryStep ==
    ASSUME RecoveryInv, [Next]_vars
    PROVE  RecoveryInv'
<1> USE DEF disk, memory, control, history
<1>1. ASSUME UNCHANGED <<recoveries, pause_recovery_used>>
      PROVE  RecoveryInv'
  BY <1>1 DEF RecoveryInv
<1>2. ASSUME NEW c, PauseRecoveryAvailable(c), SchedulePauseRecovery(c)
      PROVE  RecoveryInv'
  BY <1>2 DEF PauseRecoveryAvailable, SchedulePauseRecovery, RecoveryInv
<1>3. ASSUME EndStreak
      PROVE  RecoveryInv'
  BY <1>3 DEF EndStreak, RecoveryInv
<1>4. CASE UNCHANGED vars
  BY <1>1, <1>4 DEF vars
<1>5. CASE ReadAndRoute
  <2>1. /\ recoveries' = recoveries
        /\ \E d : pause_recovery_used' = (pause_recovery_used \/ d.source = "reconciliation")
    BY <1>5 DEF ReadAndRoute, RoutingEffects
  <2> QED BY <2>1 DEF RecoveryInv
<1>6. CASE LoopTop \/ AtPause \/ RoleWrites \/ RoleReturns
  BY <1>1, <1>6 DEF LoopTop, StopAtRequest, AtPause, PauseResumes, PromptRetry,
                    PromptDispatch, PauseQuits, PauseEnds, RoleWrites, RoleReturns,
                    ProtectedFileChanged, FatalReturn, FailedReturn, CleanReturn,
                    UnparseableReturn
<1>7. CASE Diagnose
  BY <1>1, <1>2, <1>7 DEF Diagnose, Pause
<1>8. CASE Validate \/ ValidateFinalizer
  BY <1>1, <1>3, <1>8 DEF Validate, ValidateFinalizer
<1>9. CASE Repair
  BY <1>1, <1>3, <1>9 DEF Repair, RepairSucceeds, RepairFails, RepairChangesProtected,
                          Pause
<1>10. CASE Rejected
  BY <1>1, <1>2, <1>10 DEF Rejected, RejectedWithoutRoute, RejectedToPause, Pause
<1>11. CASE Gate \/ GateAfterRepair \/ PublishStory
  BY <1>1, <1>11 DEF Gate, GateAfterRepair, PublishStory
<1>12. CASE PersonEdits \/ StopRequested \/ Crash
  BY <1>1, <1>12 DEF PersonEdits, StopRequested, Crash
<1>13. CASE Restart
  <2>1. recoveries' = 0
    BY <1>13 DEF Restart
  <2>2. pause_recovery_used' = FALSE
    BY <1>13 DEF Restart
  <2>3. recoveries' \in {0, 1} /\ recoveries' # 1
    BY <2>1
  <2>4. pause_recovery_used' \in BOOLEAN
    BY <2>2, Zenon
  <2> QED BY <2>3, <2>4, Zenon DEF RecoveryInv
<1> QED
  BY <1>4, <1>5, <1>6, <1>7, <1>8, <1>9, <1>10, <1>11, <1>12, <1>13
  DEF Next, LoopStep, Environment

(* Whatever mixture of unknown routes, stale routes, doubtful routes and failed *)
(* validations a pause streak is made of, it gets one planner recovery.         *)
THEOREM RecoveryBounded == Spec => []OnePauseRecovery
<1>1. Init => RecoveryInv
  <2> SUFFICES ASSUME Init PROVE RecoveryInv
    OBVIOUS
  <2>1. recoveries = 0
    BY DEF Init
  <2>2. pause_recovery_used = FALSE
    BY DEF Init
  <2>3. recoveries \in {0, 1} /\ recoveries # 1
    BY <2>1
  <2>4. pause_recovery_used \in BOOLEAN
    BY <2>2, Zenon
  <2> QED BY <2>3, <2>4, Zenon DEF RecoveryInv
<1>2. RecoveryInv => OnePauseRecovery
  BY DEF RecoveryInv, OnePauseRecovery
<1> QED BY <1>1, <1>2, RecoveryStep, PTL DEF Spec

--------------------------------------------------------------------------------
(* Stop requests. Once the request exists the loop passes its top no more, so   *)
(* only a request made between the top and the routing sees a dispatch begin.   *)

StopInv ==
    /\ after_stop \in {0, 1}
    /\ stop_file /\ pc = "read" => after_stop = 0

LEMMA StopStep ==
    ASSUME StopInv, [Next]_vars
    PROVE  StopInv'
<1> USE DEF disk, memory, control, history
<1>1. ASSUME UNCHANGED <<after_stop, stop_file>>, pc' # "read" \/ UNCHANGED pc
      PROVE  StopInv'
  BY <1>1 DEF StopInv
<1>2. CASE UNCHANGED vars
  BY <1>1, <1>2 DEF vars
<1>3. CASE LoopTop
  BY <1>3 DEF LoopTop, StopAtRequest, StopInv
<1>4. CASE ReadAndRoute
  <2>1. pc = "read" /\ pc' # "read" /\ stop_file' = stop_file
    BY <1>4 DEF ReadAndRoute, RoutingEffects, RouteToPause, RouteToDiagnosis,
                RouteToDispatch
  <2>2. \/ after_stop' = after_stop
        \/ stop_file /\ after_stop' = after_stop + 1
    BY <1>4 DEF ReadAndRoute, RouteToPause, RouteToDiagnosis, RouteToDispatch
  <2> QED BY <2>1, <2>2 DEF StopInv
<1>5. CASE AtPause
  BY <1>1, <1>5 DEF AtPause, StopAtRequest, PauseResumes, PromptRetry, PromptDispatch,
                    PauseQuits, PauseEnds, StopInv
<1>6. CASE Diagnose \/ RoleWrites \/ RoleReturns
  BY <1>1, <1>6 DEF Diagnose, SchedulePauseRecovery, Pause, RoleWrites, RoleReturns,
                    ProtectedFileChanged, FatalReturn, FailedReturn, CleanReturn,
                    UnparseableReturn
<1>7. CASE Validate \/ ValidateFinalizer \/ Repair
  BY <1>1, <1>7 DEF Validate, RecordStatus, ValidateFinalizer, Repair, RepairSucceeds,
                    RepairFails, RepairChangesProtected, Pause
<1>8. CASE Rejected \/ PublishStory
  BY <1>1, <1>8 DEF Rejected, RejectedWithoutRoute, RejectedToPause,
                    SchedulePauseRecovery, Pause, PublishStory
<1>9. CASE Gate \/ GateAfterRepair
  BY <1>1, <1>9 DEF Gate, GateAfterRepair, GateFails, GatePasses, GateDoesNotApply
<1>10. CASE Environment
  BY <1>1, <1>10 DEF Environment, PersonEdits, StopRequested, Crash, Restart, StopInv
<1> QED
  BY <1>2, <1>3, <1>4, <1>5, <1>6, <1>7, <1>8, <1>9, <1>10 DEF Next, LoopStep

(* A stop request lets at most the dispatch already under way at the loop top   *)
(* begin.                                                                       *)
THEOREM StopBounded == Spec => []OneDispatchAfterStop
<1>1. Init => StopInv
  BY DEF Init, StopInv
<1>2. StopInv => OneDispatchAfterStop
  BY DEF StopInv, OneDispatchAfterStop
<1> QED BY <1>1, <1>2, StopStep, PTL DEF Spec
================================================================================
