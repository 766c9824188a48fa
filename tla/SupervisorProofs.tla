--------------------------- MODULE SupervisorProofs ---------------------------
(* Theorems about Supervisor, for any number of supervisors, any budgets and   *)
(* any number of crashes: one dispatcher and one agent at a time, one          *)
(* supervisor at a time unless two starts raced, bounded restarts, and which   *)
(* stop requests can be lost.                                                  *)
EXTENDS Supervisor, TLAPS

(* The shape the proofs need of the processes and their locals.                *)
Locals == [saw : LockFiles, retries : Nat, repairs : Nat,
           seen : SUBSET (Failures \cup {LockHeld}),
           before : Snaps,
           made : SUBSET Edits, blind : BOOLEAN]
Children == [stage : ChildStages, n : Nat, code : Codes]

Shape ==
  /\ lock \in LockFiles
  /\ pc \in [Supervisors -> Stages]
  /\ child \in [Owners -> Children]
  /\ mem \in [Supervisors -> Locals]
  /\ head \in Seq(SUBSET Edits) /\ dirty \subseteq Edits

(* What git names of a change is a place in the docs or in the code.           *)
LEMMA ShownPlaces ==
  ASSUME NEW E \in SUBSET Edits
  PROVE  Shown(E) \subseteq {"docs", "code"}
BY DEF Shown, Edits

(* A snapshot fits the locals, whatever git calls failed.                      *)
LEMMA SnapshotFits ==
  ASSUME Shape, NEW left \in SUBSET Edits, NEW t \in Snapshots(left)
  PROVE  /\ t.snap \in Snaps
         /\ t.failed \in BOOLEAN
<1> DEFINE snap == [head |-> {Len(head)}, dirty |-> Shown(left)]
<1>1. snap \in Snaps
  BY ShownPlaces DEF Shape, Snaps
<1>2. [snap EXCEPT !.head = {}] \in Snaps
  BY <1>1 DEF Snaps
<1>3. [snap EXCEPT !.dirty = {}] \in Snaps
  BY <1>1 DEF Snaps
<1>4. t \in {[snap |-> snap, failed |-> FALSE],
             [snap |-> [snap EXCEPT !.head = {}], failed |-> TRUE],
             [snap |-> [snap EXCEPT !.dirty = {}], failed |-> TRUE]}
  BY Zenon DEF Snapshots
<1>5. CASE t = [snap |-> snap, failed |-> FALSE]
  BY <1>1, <1>5
<1>6. CASE t = [snap |-> [snap EXCEPT !.head = {}], failed |-> TRUE]
  BY <1>2, <1>6
<1>7. CASE t = [snap |-> [snap EXCEPT !.dirty = {}], failed |-> TRUE]
  BY <1>3, <1>7
<1> QED
  BY <1>4, <1>5, <1>6, <1>7

(* What the model writes to the lock file has a lock file's type.              *)
LEMMA LockFile ==
  /\ Free \in LockFiles
  /\ \A o \in Supervisors \cup {Ghost} : \A w \in BOOLEAN :
       [owner |-> o, written |-> w] \in LockFiles
BY Zenon DEF LockFiles

(* The shape holds at first.                                                   *)
LEMMA ShapeInit == Init => Shape
<1> SUFFICES ASSUME Init PROVE Shape
  OBVIOUS
<1>1. lock \in LockFiles
  BY LockFile, Zenon DEF Init
<1>2. pc \in [Supervisors -> Stages]
  BY DEF Init, Stages
<1>3. child \in [Owners -> Children]
  BY DEF Init, Children, ChildStages, Codes
<1>4. Fresh \in Locals
  BY LockFile DEF Fresh, Locals, NoSnap, Snaps
<1>5. mem \in [Supervisors -> Locals]
  BY <1>4 DEF Init
<1>6. head \in Seq(SUBSET Edits) /\ dirty \subseteq Edits
  BY DEF Init, Edits
<1> QED BY <1>1, <1>2, <1>3, <1>5, <1>6 DEF Shape

(* A supervisor moved to a stage is somewhere it can be.                       *)
LEMMA Moves ==
  ASSUME Shape, NEW s \in Supervisors, NEW stage \in Stages, Go(s, stage)
  PROVE  pc' \in [Supervisors -> Stages]
BY DEF Shape, Go

(* A supervisor whose locals were replaced by others of their type.            *)
LEMMA Replaces ==
  ASSUME Shape, NEW s \in Supervisors, NEW l \in Locals,
         mem' = [mem EXCEPT ![s] = l]
  PROVE  mem' \in [Supervisors -> Locals]
BY DEF Shape

(* A supervisor that ends has the locals of a new one.                         *)
LEMMA Ends ==
  ASSUME Shape, NEW s \in Supervisors, NEW stage \in Stages, Ended(s, stage)
  PROVE  pc' \in [Supervisors -> Stages] /\ mem' \in [Supervisors -> Locals]
<1>1. Fresh \in Locals
  BY LockFile DEF Fresh, Locals, NoSnap, Snaps
<1> QED BY <1>1, Moves DEF Shape, Ended

(* A started dispatcher fits.                                                  *)
LEMMA Launches ==
  ASSUME Shape, NEW o \in Owners, Launched(o)
  PROVE  child' \in [Owners -> Children]
BY DEF Shape, Launched, Children, ChildStages, Codes

(* A dispatcher that ended with one of the exit codes fits.                    *)
LEMMA Leaves ==
  ASSUME Shape, NEW o \in Owners, NEW code \in Codes, Leave(o, code)
  PROVE  child' \in [Owners -> Children]
BY DEF Shape, Leave, Children, ChildStages

(* Who starts dispatchers, and how they end.                                   *)
LEMMA Named ==
  /\ \A s \in Supervisors : s \in Owners
  /\ Hand \in Owners
  /\ \A f \in Failures \cup {LockHeld, "ok", "transient", "fatal"} : f \in Codes
BY DEF Owners, Codes

(* No step of a dispatcher breaks the shape.                                   *)
LEMMA ShapeDispatcher ==
  ASSUME Shape, NEW o \in Owners,
         Dispatch(o) \/ BeginCycle(o) \/ EndRun(o) \/ ChildCrashes(o)
  PROVE  Shape'
<1>1. CASE TakeGate(o)
  <2>1. child' \in [Owners -> Children]
    <3>1. CASE Leave(o, LockHeld)
      BY <3>1, Leaves, Named
    <3>2. CASE child' = [child EXCEPT ![o].stage = "clearing"]
      BY <3>2 DEF Shape, Children, ChildStages
    <3> QED BY <1>1, <3>1, <3>2 DEF TakeGate
  <2> QED BY <1>1, <2>1 DEF TakeGate, Shape, repo, history
<1>2. CASE ClearStaleRequest(o) \/ SweepRequest(o)
  <2>1. \E to \in {"sweeping", "cycling"} : child' = [child EXCEPT ![o].stage = to]
    BY <1>2 DEF ClearStaleRequest, SweepRequest
  <2>2. child' \in [Owners -> Children]
    BY <2>1 DEF Shape, Children, ChildStages
  <2> QED BY <1>2, <2>2 DEF ClearStaleRequest, SweepRequest, Shape, repo, locks
<1>3. CASE EndCycle(o) \/ BeginCycle(o)
  BY <1>3 DEF EndCycle, BeginCycle, Shape, repo, locks
<1>4. CASE ReleaseGate(o)
  <2>1. child[o].code \in Codes
    BY DEF Shape, Children
  <2>2. child' \in [Owners -> Children]
    BY <1>4, <2>1, Leaves DEF ReleaseGate
  <2> QED BY <1>4, <2>2 DEF ReleaseGate, Shape, repo, history
<1>5. CASE EndRun(o)
  <2>1. PICK code \in Codes :
          child' = [child EXCEPT ![o].stage = "leaving", ![o].code = code]
    BY <1>5, Named DEF EndRun
  <2>2. child' \in [Owners -> Children]
    BY <2>1 DEF Shape, Children, ChildStages
  <2> QED BY <1>5, <2>2 DEF EndRun, Shape, repo, history
<1>6. CASE ChildCrashes(o)
  <2>1. PICK f \in Failures : Leave(o, f)
    BY <1>6 DEF ChildCrashes
  <2>2. child' \in [Owners -> Children]
    BY <2>1, Leaves, Named
  <2> QED BY <1>6, <2>2 DEF ChildCrashes, Shape, repo, locks
<1> QED BY <1>1, <1>2, <1>3, <1>4, <1>5, <1>6 DEF Dispatch

(* No step of a supervisor on its lock breaks the shape.                       *)
LEMMA ShapeLocking ==
  ASSUME SupervisorAssumption, Shape, NEW s \in Supervisors,
         \/ Start(s) \/ CreateLock(s) \/ ReadLock(s) \/ UnlinkLock(s)
         \/ WriteLock(s) \/ Preflight(s) \/ Release(s)
  PROVE  Shape'
<1> USE LockFile
<1>1. CASE Start(s)
  <2>1. pc' \in [Supervisors -> Stages]
    BY <1>1, Moves DEF Start, Stages
  <2> QED BY <1>1, <2>1 DEF Start, Shape, repo, locks
<1>2. CASE CreateLock(s)
  <2>1. pc' \in [Supervisors -> Stages]
    BY <1>2, Moves DEF CreateLock, Stages
  <2>2. lock' \in LockFiles
    BY <1>2 DEF CreateLock, Shape
  <2> QED BY <1>2, <2>1, <2>2 DEF CreateLock, Shape, repo
<1>3. CASE ReadLock(s)
  <2> DEFINE found == IF lock = Free \/ ~lock.written THEN Unknown ELSE lock
  <2>1. CASE Ended(s, "done")
    BY <1>3, <2>1, Ends DEF ReadLock, Shape, Stages, repo, locks
  <2>2. CASE /\ found # Unknown
             /\ mem' = [mem EXCEPT ![s].saw = found]
             /\ Go(s, "unlinking")
    <3>1. pc' \in [Supervisors -> Stages]
      BY <2>2, Moves DEF Stages
    <3>2. found \in LockFiles
      BY <2>2 DEF Shape
    <3>3. mem' \in [Supervisors -> Locals]
      <4> DEFINE l == [mem[s] EXCEPT !.saw = found]
      <4>a. mem[s] \in Locals
        BY DEF Shape
      <4>b. l \in Locals
        BY <4>a, <2>2, <3>2 DEF Locals
      <4>c. mem' = [mem EXCEPT ![s] = l]
        BY <2>2, <3>2 DEF Shape
      <4> HIDE DEF l
      <4> QED BY <4>b, <4>c, Replaces
    <3> QED BY <1>3, <3>1, <3>3 DEF ReadLock, Shape, repo, locks
  <2> QED BY <1>3, <2>1, <2>2 DEF ReadLock
<1>4. CASE UnlinkLock(s)
  <2>1. pc' \in [Supervisors -> Stages]
    BY <1>4, Moves DEF UnlinkLock, Stages
  <2> QED BY <1>4, <2>1 DEF UnlinkLock, Shape, repo
<1>5. CASE WriteLock(s)
  <2>1. pc' \in [Supervisors -> Stages]
    BY <1>5, Moves DEF WriteLock, Stages
  <2>2. lock' \in LockFiles
    <3>1. CASE lock' = lock
      BY <3>1 DEF Shape
    <3>2. CASE lock # Free /\ lock' = [lock EXCEPT !.written = TRUE]
      <4>1. lock \in [owner : Supervisors \cup {Ghost}, written : BOOLEAN]
        BY <3>2, Zenon DEF Shape, LockFiles
      <4>2. lock' \in [owner : Supervisors \cup {Ghost}, written : BOOLEAN]
        BY <4>1, <3>2
      <4> QED BY <4>2, Zenon DEF LockFiles
    <3> QED BY <1>5, <3>1, <3>2 DEF WriteLock
  <2> QED BY <1>5, <2>1, <2>2 DEF WriteLock, Shape, repo
<1>6. CASE Preflight(s)
  <2>1. pc' \in [Supervisors -> Stages]
    BY <1>6, Moves DEF Preflight, Stages
  <2> QED BY <1>6, <2>1 DEF Preflight, Shape, repo, locks
<1>7. CASE Release(s)
  <2>1. lock' \in LockFiles
    BY <1>7 DEF Release, Shape
  <2>2. pc' \in [Supervisors -> Stages] /\ mem' \in [Supervisors -> Locals]
    BY <1>7, Ends DEF Release, Stages
  <2> QED BY <1>7, <2>1, <2>2 DEF Release, Shape, repo
<1> QED BY <1>1, <1>2, <1>3, <1>4, <1>5, <1>6, <1>7

(* No step of a supervisor around its child and its repairs breaks the shape.  *)
LEMMA ShapeManaging ==
  ASSUME SupervisorAssumption, Shape, NEW s \in Supervisors,
         \/ Spawn(s) \/ ReadResult(s) \/ BeginRepair(s) \/ RepairReturns(s)
         \/ CheckRepair(s) \/ Stall(s) \/ Interrupt(s) \/ Crash(s)
  PROVE  Shape'
<1>0. s \in Owners /\ "fatal" \in Codes /\ "ok" \in Codes
  BY Named
<1>1. CASE Spawn(s)
  <2>1. pc' \in [Supervisors -> Stages]
    BY <1>1, Moves DEF Spawn, Stages
  <2>2. child' \in [Owners -> Children]
    BY <1>0, <1>1, Launches DEF Spawn
  <2>3. NoSnap \in Snaps
    BY DEF NoSnap, Snaps
  <2>4. mem' = [mem EXCEPT ![s].before = NoSnap, ![s].made = {}, ![s].blind = FALSE]
    BY <1>1 DEF Spawn
  <2>5. mem' \in [Supervisors -> Locals]
    <3> DEFINE l == [mem[s] EXCEPT !.before = NoSnap, !.made = {}, !.blind = FALSE]
    <3>a. mem[s] \in Locals
      BY DEF Shape
    <3>b. l \in Locals
      BY <3>a, <2>3, <2>4 DEF Locals
    <3>c. mem' = [mem EXCEPT ![s] = l]
      BY <2>3, <2>4 DEF Shape
    <3> HIDE DEF l
    <3> QED BY <3>b, <3>c, Replaces
  <2> QED BY <1>1, <2>1, <2>2, <2>5 DEF Spawn, Shape, repo, locks
<1>2. CASE ReadResult(s)
  <2>1. pc' \in [Supervisors -> Stages] /\ mem' \in [Supervisors -> Locals]
    <3>1. CASE Completed(s)
      BY <3>1, Moves DEF Completed, Shape, Stages
    <3>2. CASE RetryTransient(s)
      <4>1. mem' = [mem EXCEPT ![s].retries = @ + 1]
        BY <3>2 DEF RetryTransient
      <4>2. mem' \in [Supervisors -> Locals]
        <5> DEFINE l == [mem[s] EXCEPT !.retries = @ + 1]
        <5>a. mem[s] \in Locals
          BY DEF Shape
        <5>b. l \in Locals
          BY <5>a, <4>1 DEF Locals
        <5>c. mem' = [mem EXCEPT ![s] = l]
          BY <4>1 DEF Shape
        <5> HIDE DEF l
        <5> QED BY <5>b, <5>c, Replaces
      <4> QED BY <3>2, <4>2, Moves DEF RetryTransient, Stages
    <3>3. CASE GiveUp(s)
      BY <3>3, Moves DEF GiveUp, StopWithIncident, Shape, Stages
    <3>4. CASE NewFailure(s)
      <4>1. mem' = [mem EXCEPT ![s].seen = @ \cup {child[s].code}]
        BY <3>4 DEF NewFailure
      <4>2. child[s].code \in Failures \cup {LockHeld}
        BY <3>4 DEF NewFailure
      <4>3. mem' \in [Supervisors -> Locals]
        <5> DEFINE l == [mem[s] EXCEPT !.seen = @ \cup {child[s].code}]
        <5>a. mem[s] \in Locals
          BY DEF Shape
        <5>b. l \in Locals
          BY <5>a, <4>1, <4>2 DEF Locals
        <5>c. mem' = [mem EXCEPT ![s] = l]
          BY <4>1, <4>2 DEF Shape
        <5> HIDE DEF l
        <5> QED BY <5>b, <5>c, Replaces
      <4>4. \E stage \in Stages : Go(s, stage)
        BY <3>4 DEF NewFailure, Stages
      <4> QED BY <4>3, <4>4, Moves
    <3> QED BY <1>2, <3>1, <3>2, <3>3, <3>4 DEF ReadResult
  <2>2. child' = [child EXCEPT ![s].code = "ok"]
    BY <1>2 DEF ReadResult
  <2>3. child' \in [Owners -> Children]
    BY <1>0, <2>2 DEF Shape, Children
  <2> QED BY <1>2, <2>1, <2>3 DEF ReadResult, Shape, repo, locks
<1>3. CASE BeginRepair(s)
  <2>0. dirty' \in SUBSET Edits
    BY <1>3 DEF BeginRepair, Found, Shape, Edits
  <2>1. PICK t \in Snapshots(dirty') :
          mem' = [mem EXCEPT ![s].before = t.snap, ![s].repairs = @ + 1,
                             ![s].blind = t.failed]
    BY <1>3 DEF BeginRepair
  <2>2. /\ t.snap \in Snaps
        /\ t.failed \in BOOLEAN
    BY <2>0, SnapshotFits
  <2>3. mem' \in [Supervisors -> Locals]
    <3> DEFINE l == [mem[s] EXCEPT !.before = t.snap, !.repairs = @ + 1, !.blind = t.failed]
    <3>a. mem[s] \in Locals
      BY DEF Shape
    <3>b. l \in Locals
      <4> DEFINE snap == t.snap
                 failed == t.failed
      <4>1. snap \in Snaps /\ failed \in BOOLEAN
        BY <2>2
      <4> HIDE DEF snap, failed
      <4>2. [mem[s] EXCEPT !.before = snap] \in Locals
        BY <3>a, <4>1 DEF Locals
      <4>3. \A k \in Locals : [k EXCEPT !.repairs = @ + 1] \in Locals
        BY DEF Locals
      <4>4. \A k \in Locals : [k EXCEPT !.blind = failed] \in Locals
        BY <4>1 DEF Locals
      <4>5. [[[mem[s] EXCEPT !.before = snap] EXCEPT !.repairs = @ + 1]
               EXCEPT !.blind = failed] \in Locals
        BY <4>2, <4>3, <4>4, Zenon
      <4>6. l = [[[mem[s] EXCEPT !.before = snap] EXCEPT !.repairs = @ + 1]
                   EXCEPT !.blind = failed]
        BY <3>a DEF snap, failed, Locals
      <4> QED BY <4>5, <4>6
    <3>c. mem' = [mem EXCEPT ![s] = l]
      BY <2>1 DEF Shape
    <3> HIDE DEF l
    <3> QED BY <3>b, <3>c, Replaces
  <2>4. pc' \in [Supervisors -> Stages]
    BY <1>3, Moves DEF BeginRepair, Stages
  <2> QED BY <1>3, <2>0, <2>3, <2>4 DEF BeginRepair, Shape, locks
<1>4. CASE RepairReturns(s)
  <2>1. PICK commit \in SUBSET Edits, leave \in SUBSET Edits :
          /\ LET log == IF commit = {} THEN head ELSE Append(head, commit)
                 left == (dirty \ commit) \cup leave
             IN \/ Go(s, "checking") /\ head' = log /\ dirty' = left
                \/ Go(s, "releasing") /\ Followed(s, log, left)
          /\ mem' = [mem EXCEPT ![s].made = commit \cup leave]
    BY <1>4 DEF RepairReturns
  <2>2. head' \in Seq(SUBSET Edits)
    <3> DEFINE log == IF commit = {} THEN head ELSE Append(head, commit)
    <3>1. log \in Seq(SUBSET Edits)
      BY DEF Shape
    <3>2. head' = log \/ head' = <<>>
      BY <2>1 DEF Followed
    <3> HIDE DEF log
    <3>3. <<>> \in Seq(SUBSET Edits)
      OBVIOUS
    <3> QED BY <3>1, <3>2, <3>3
  <2>3. mem' \in [Supervisors -> Locals]
    <3> DEFINE l == [mem[s] EXCEPT !.made = commit \cup leave]
    <3>a. mem[s] \in Locals
      BY DEF Shape
    <3>b. l \in Locals
      BY <3>a, <2>1 DEF Locals
    <3>c. mem' = [mem EXCEPT ![s] = l]
      BY <2>1 DEF Shape
    <3> HIDE DEF l
    <3> QED BY <3>b, <3>c, Replaces
  <2>4. pc' \in [Supervisors -> Stages]
    BY <2>1, Moves DEF Stages
  <2>5. dirty' \subseteq Edits
    BY <2>1 DEF Shape, Followed
  <2> QED BY <1>4, <2>2, <2>3, <2>4, <2>5 DEF RepairReturns, Shape, locks
<1>5. CASE CheckRepair(s)
  <2>1. PICK blind \in BOOLEAN : mem' = [mem EXCEPT ![s].blind = blind]
    <3>1. PICK t \in Snapshots(dirty) :
          \E d : mem' = [mem EXCEPT ![s].blind = mem[s].blind \/ t.failed \/ d.failed]
      BY <1>5 DEF CheckRepair
    <3> QED BY <3>1
  <2>2. mem' \in [Supervisors -> Locals]
    <3> DEFINE l == [mem[s] EXCEPT !.blind = blind]
    <3>a. mem[s] \in Locals
      BY DEF Shape
    <3>b. l \in Locals
      BY <3>a, <2>1 DEF Locals
    <3>c. mem' = [mem EXCEPT ![s] = l]
      BY <2>1 DEF Shape
    <3> HIDE DEF l
    <3> QED BY <3>b, <3>c, Replaces
  <2>3. pc' \in [Supervisors -> Stages]
    <3>1. Go(s, "releasing") \/ Go(s, "spawning")
      BY <1>5 DEF CheckRepair
    <3> QED BY <3>1, Moves DEF Stages
  <2>4. head' \in Seq(SUBSET Edits) /\ dirty' \subseteq Edits
    BY <1>5 DEF CheckRepair, Followed, Shape
  <2> QED BY <1>5, <2>2, <2>3, <2>4 DEF CheckRepair, Shape, locks
<1>6. CASE Stall(s)
  <2>1. child' \in [Owners -> Children]
    BY <1>0, <1>6, Leaves DEF Stall, Killed
  <2> QED BY <1>6, <2>1 DEF Stall, Shape, repo, locks
<1>7. CASE Interrupt(s)
  <2>1. child' \in [Owners -> Children]
    <3>1. CASE Killed(s, "fatal")
      BY <1>0, <3>1, Leaves DEF Killed
    <3>2. CASE child' = child
      BY <3>2 DEF Shape
    <3> QED BY <1>7, <3>1, <3>2 DEF Interrupt
  <2>2. pc' \in [Supervisors -> Stages]
    BY <1>7, Moves DEF Interrupt, StopWithIncident, Stages
  <2> QED BY <1>7, <2>1, <2>2 DEF Interrupt, StopWithIncident, Shape, repo, locks
<1>8. CASE Crash(s)
  <2>1. pc' \in [Supervisors -> Stages] /\ mem' \in [Supervisors -> Locals]
    BY <1>8, Ends DEF Crash, Stages
  <2> QED BY <1>8, <2>1 DEF Crash, Shape, repo, locks
<1> QED BY <1>1, <1>2, <1>3, <1>4, <1>5, <1>6, <1>7, <1>8

(* The shape holds in every reachable state.                                   *)
LEMMA ShapeStep == SupervisorAssumption /\ Shape /\ [Next]_vars => Shape'
<1> SUFFICES ASSUME SupervisorAssumption, Shape, [Next]_vars PROVE Shape'
  OBVIOUS
<1>1. CASE \E s \in Supervisors : \/ Start(s) \/ Supervise(s)
                                 \/ Stall(s) \/ Interrupt(s) \/ Crash(s)
  BY <1>1, ShapeLocking, ShapeManaging DEF Supervise
<1>2. CASE \E o \in Owners : \/ Dispatch(o) \/ BeginCycle(o) \/ EndRun(o)
                            \/ ChildCrashes(o)
  BY <1>2, ShapeDispatcher
<1>3. CASE StartByHand
  BY <1>3, Launches, Named DEF StartByHand, Shape, repo, locks
<1>4. CASE \E a \in Stoppers : StopCommand(a)
  BY <1>4 DEF StopCommand, StopReads, StopChecks, StopRefused, StopWrites, Shape, repo, locks
<1>5. CASE RemoveGate \/ AgentEnds
  BY <1>5 DEF RemoveGate, AgentEnds, Shape, repo, locks
<1>6. CASE UNCHANGED vars
  BY <1>6 DEF vars, Shape
<1> QED BY <1>1, <1>2, <1>3, <1>4, <1>5, <1>6 DEF Next

-----------------------------------------------------------------------------
(* Dispatchers, stop commands and agents.                                      *)

(* Where a stop command can be.                                                *)
Commands == [at : {"idle", "checking", "writing", "done"}, pid : {Free} \cup Pids]

(* A pid is not an empty file, and tells who started the dispatcher.           *)
LEMMA PidNames ==
  ASSUME NEW o \in Owners
  PROVE  /\ Pid(o) # Free
         /\ \A p \in Owners : Pid(o) = Pid(p) => o = p
<1>1. DOMAIN Pid(o) = {"owner", "n"} /\ DOMAIN Free = {"owner"}
  BY DEF Pid, Free
<1>2. "n" \in DOMAIN Pid(o) /\ "n" \notin DOMAIN Free
  BY <1>1
<1>3. \A p \in Owners : Pid(p).owner = p
  BY DEF Pid
<1> QED BY <1>2, <1>3

(* A step that leaves both files alone starts no dispatcher: at most one ends, *)
(* or an agent does.                                                           *)
Waits ==
  /\ UNCHANGED <<gate, request, stops, orphaned>>
  /\ agent' \subseteq agent
  /\ \A o \in Owners : /\ child'[o].n = child[o].n
                       /\ child'[o].stage \in {child[o].stage, "gone"}

(* A dispatcher that ends is such a step.                                      *)
LEMMA LeaveWaits ==
  ASSUME Shape, NEW o \in Owners, NEW code, Leave(o, code),
         UNCHANGED <<gate, request, stops, orphaned>>, agent' \subseteq agent
  PROVE  Waits
BY DEF Shape, Children, Leave, Waits

(* What a step can do to the dispatchers, their agents and the two files.      *)
LEMMA ChildSteps ==
  ASSUME SupervisorAssumption, Shape, [Next]_vars
  PROVE  \/ \E o \in Owners : \/ TakeGate(o) \/ ClearStaleRequest(o) \/ SweepRequest(o)
                              \/ BeginCycle(o) \/ EndRun(o) \/ ReleaseGate(o)
         \/ \E o \in Owners : /\ Launched(o)
                              /\ UNCHANGED <<gate, request, stops, agent, orphaned>>
         \/ Waits
         \/ \E a \in Stoppers : StopCommand(a)
         \/ RemoveGate
<1>0. UNCHANGED <<gate, request, stops, orphaned, child>> /\ agent' \subseteq agent => Waits
  BY DEF Waits
<1>1. ASSUME NEW s \in Supervisors,
             \/ Start(s) \/ CreateLock(s) \/ ReadLock(s) \/ UnlinkLock(s)
             \/ WriteLock(s) \/ Preflight(s) \/ Release(s) \/ BeginRepair(s)
             \/ RepairReturns(s) \/ CheckRepair(s) \/ Crash(s)
      PROVE  Waits
  <2>1. UNCHANGED <<gate, request, stops, orphaned, agent, child>>
    BY <1>1 DEF Start, CreateLock, ReadLock, UnlinkLock, WriteLock, Preflight, Release,
                BeginRepair, RepairReturns, CheckRepair, Crash, locks, history
  <2> QED BY <1>0, <2>1
<1>2. ASSUME NEW s \in Supervisors, Spawn(s)
      PROVE  \E o \in Owners : /\ Launched(o)
                               /\ UNCHANGED <<gate, request, stops, agent, orphaned>>
  BY <1>2, Named DEF Spawn, locks, history
<1>3. ASSUME NEW s \in Supervisors, ReadResult(s)
      PROVE  Waits
  BY <1>3, Named DEF ReadResult, locks, history, Waits, Shape, Children
<1>4. ASSUME NEW s \in Supervisors, Killed(s, "fatal"),
             UNCHANGED <<gate, request, stops, orphaned>>
      PROVE  Waits
  <2>1. agent' \subseteq agent
    BY <1>4 DEF Killed
  <2> QED BY <1>4, <2>1, Named, LeaveWaits DEF Killed
<1>5. ASSUME NEW s \in Supervisors, Stall(s) \/ Interrupt(s)
      PROVE  Waits
  BY <1>0, <1>4, <1>5 DEF Stall, Interrupt, locks
<1>6. ASSUME NEW o \in Owners, EndCycle(o)
      PROVE  Waits
  BY <1>0, <1>6 DEF EndCycle, locks, history
<1>7. ASSUME NEW o \in Owners, ChildCrashes(o)
      PROVE  Waits
  BY <1>7, LeaveWaits DEF ChildCrashes, locks
<1>8. ASSUME AgentEnds
      PROVE  Waits
  BY <1>0, <1>8 DEF AgentEnds, locks, history
<1>9. ASSUME StartByHand
      PROVE  \E o \in Owners : /\ Launched(o)
                               /\ UNCHANGED <<gate, request, stops, agent, orphaned>>
  BY <1>9, Named DEF StartByHand, locks
<1>10. ASSUME UNCHANGED vars
       PROVE  Waits
  BY <1>0, <1>10 DEF vars, stops
<1> QED BY <1>1, <1>2, <1>3, <1>5, <1>6, <1>7, <1>8, <1>9, <1>10
        DEF Next, Supervise, Dispatch

(* What a stop command does, and what it leaves alone.                         *)
LEMMA StopEffects ==
  ASSUME NEW a \in Stoppers, StopCommand(a)
  PROVE  /\ UNCHANGED <<lock, gate, pc, mem, child, agent, head, dirty, raced, orphaned>>
         /\ Happens \/ UNCHANGED events
         /\ StopWrites(a) \/ UNCHANGED <<request, asked, replaced, swept>>
         /\ \/ stop' = [stop EXCEPT ![a] = [at |-> "done", pid |-> Free]]
            \/ /\ stop' = [stop EXCEPT ![a] = [at |-> "checking", pid |-> gate]]
               /\ gate # Free
            \/ /\ stop' = [stop EXCEPT ![a].at = "writing"]
               /\ stop[a].at = "checking"
BY DEF StopCommand, StopReads, StopChecks, StopRefused, StopWrites, StopOver, locks, repo,
       history

-----------------------------------------------------------------------------
(* The pids in the two files, in the stop commands and of the agents.          *)

Files ==
  /\ gate \in {Free} \cup Pids /\ request \in {Free} \cup Pids
  /\ stop \in [Stoppers -> Commands]
  /\ \A a \in Stoppers : stop[a].at \in {"checking", "writing"} => stop[a].pid # Free
  /\ agent \subseteq Pids
  /\ asked \subseteq Pids /\ replaced \subseteq asked /\ swept \subseteq asked

(* They are pids at first.                                                     *)
LEMMA FilesInit == Init => Files
BY DEF Init, Files, Commands, Pids

(* They stay pids.                                                             *)
LEMMA FilesStep ==
  ASSUME SupervisorAssumption, Shape, Files, [Next]_vars
  PROVE  Files'
<1>0. \A o \in Owners : Pid(o) \in Pids
  BY DEF Pid, Pids, Shape, Children
<1>1. ASSUME gate' \in {gate, Free} \cup Pids, request' \in {request, Free},
             UNCHANGED <<stop, asked, replaced>>, swept' \subseteq asked,
             agent' \subseteq agent \cup Pids
      PROVE  Files'
  BY <1>1 DEF Files, Free, Pids, Commands
<1>2. ASSUME NEW o \in Owners,
             TakeGate(o) \/ ClearStaleRequest(o) \/ SweepRequest(o) \/ BeginCycle(o)
             \/ EndRun(o) \/ ReleaseGate(o)
      PROVE  Files'
  <2>1. gate' \in {gate, Free} \cup Pids /\ request' \in {request, Free}
    BY <1>0, <1>2 DEF TakeGate, ClearStaleRequest, SweepRequest, BeginCycle, EndRun,
                      ReleaseGate, locks
  <2>2. UNCHANGED <<stop, asked, replaced>> /\ swept' \subseteq asked
    BY <1>2 DEF TakeGate, ClearStaleRequest, SweepRequest, BeginCycle, EndRun,
                ReleaseGate, stops, Files
  <2>3. agent' \subseteq agent \cup Pids
    BY <1>0, <1>2 DEF TakeGate, ClearStaleRequest, SweepRequest, BeginCycle, EndRun,
                      ReleaseGate
  <2> QED BY <1>1, <2>1, <2>2, <2>3
<1>3. ASSUME UNCHANGED <<gate, request, stops, agent>> PROVE Files'
  BY <1>1, <1>3 DEF stops, Files
<1>4. ASSUME Waits PROVE Files'
  BY <1>1, <1>4 DEF Waits, stops, Files
<1>5. ASSUME RemoveGate PROVE Files'
  BY <1>1, <1>5 DEF RemoveGate, stops, Files
<1>6. ASSUME NEW a \in Stoppers, StopCommand(a) PROVE Files'
  <2>1. /\ stop' \in [Stoppers -> Commands]
        /\ \A b \in Stoppers : stop'[b].at \in {"checking", "writing"} =>
                                 stop'[b].pid # Free
    <3>1. stop[a] \in Commands
      BY DEF Files
    <3> DEFINE c == stop'[a]
    <3>2. /\ c \in Commands /\ (c.at \in {"checking", "writing"} => c.pid # Free)
          /\ stop' = [stop EXCEPT ![a] = c]
      <4>1. CASE stop' = [stop EXCEPT ![a] = [at |-> "done", pid |-> Free]]
        BY <4>1 DEF Files, Commands
      <4>2. CASE /\ stop' = [stop EXCEPT ![a] = [at |-> "checking", pid |-> gate]]
                 /\ gate # Free
        BY <4>2 DEF Files, Commands
      <4>3. CASE /\ stop' = [stop EXCEPT ![a].at = "writing"]
                 /\ stop[a].at = "checking"
        <5>1. c = [stop[a] EXCEPT !.at = "writing"]
          BY <4>3 DEF Files
        <5>2. c \in Commands /\ c.pid = stop[a].pid
          BY <3>1, <5>1 DEF Commands
        <5> QED BY <4>3, <5>1, <5>2 DEF Files
      <4> QED BY <1>6, <4>1, <4>2, <4>3, StopEffects
    <3> HIDE DEF c
    <3> QED BY <3>2 DEF Files
  <2>2. CASE StopWrites(a)
    <3>1. stop[a].pid \in Pids
      BY <2>2 DEF StopWrites, Files, Commands
    <3> QED
      BY <1>6, <2>1, <2>2, <3>1, StopEffects DEF StopWrites, Files, Free, Pids, Commands
  <2>3. CASE UNCHANGED <<request, asked, replaced, swept>>
    BY <1>6, <2>1, <2>3, StopEffects DEF Files, Free, Pids, Commands
  <2> QED BY <1>6, <2>2, <2>3, StopEffects
<1> QED BY <1>2, <1>3, <1>4, <1>5, <1>6, ChildSteps

-----------------------------------------------------------------------------
(* One dispatcher.                                                             *)

(* A pid is of a dispatcher that was started, now or before.                   *)
Numbered(pid) ==
  \/ pid = Free
  \/ \E k \in Nat : pid = [owner |-> Ghost, n |-> k]
  \/ \E o \in Owners : \E k \in 0..child[o].n : pid = [owner |-> o, n |-> k]

(* Every pid that is written or remembered somewhere.                          *)
Known == {gate, request} \cup {stop[a].pid : a \in Stoppers} \cup asked \cup agent

(* The inductive invariant: who is past the lock has its pid in it, a running  *)
(* dispatcher whose pid somebody knows is past the lock, and nobody knows one  *)
(* that is still to come.                                                      *)
GateInv ==
  /\ \A o \in Owners : child[o].stage \in PastLock => gate = Pid(o)
  /\ \A o \in Owners : Alive(o) /\ Pid(o) \in Known => child[o].stage \in PastLock
  /\ \A pid \in Known : Numbered(pid)

(* GateInv holds at first: no dispatcher runs.                                 *)
LEMMA GateInit == SupervisorAssumption /\ Init => GateInv
<1> SUFFICES ASSUME SupervisorAssumption, Init PROVE GateInv
  OBVIOUS
<1>1. \A o \in Owners : child[o].stage \notin PastLock /\ ~Alive(o)
  BY DEF Init, PastLock, Looking, Alive
<1>2. Known \subseteq {gate, Free}
  BY DEF Init, Known
<1>3. Numbered(gate) /\ Numbered(Free)
  BY DEF Init, Numbered
<1> QED BY <1>1, <1>2, <1>3 DEF GateInv

(* A step that starts no dispatcher and lets none in, after which nobody knows *)
(* a pid that nobody knew, keeps GateInv.                                      *)
LEMMA GateKept ==
  ASSUME Shape, GateInv,
         Known' \subseteq Known \cup {Free},
         \A o \in Owners : child'[o].n = child[o].n,
         \A o \in Owners : Alive(o)' => /\ Alive(o)
                                        /\ child[o].stage \in PastLock =>
                                             child'[o].stage \in PastLock,
         \A o \in Owners : child'[o].stage \in PastLock => /\ child[o].stage \in PastLock
                                                           /\ gate' = gate
  PROVE  GateInv'
<1>1. \A o \in Owners : Pid(o)' = Pid(o)
  BY DEF Pid
<1>2. \A o \in Owners : child'[o].stage \in PastLock => gate' = Pid(o)'
  BY <1>1 DEF GateInv
<1>3. \A o \in Owners : Alive(o)' /\ Pid(o)' \in Known' => child'[o].stage \in PastLock
  BY <1>1, PidNames DEF GateInv
<1>4. Numbered(Free)
  BY DEF Numbered
<1>5. ASSUME NEW pid, Numbered(pid) PROVE Numbered(pid)'
  BY <1>5 DEF Numbered, Free
<1> QED BY <1>2, <1>3, <1>4, <1>5 DEF GateInv, PastLock, Looking

(* A stop command learns no pid but the one in the lock.                       *)
LEMMA StopKnows ==
  ASSUME Files, NEW a \in Stoppers, StopCommand(a)
  PROVE  Known' \subseteq Known \cup {Free}
<1>1. \A b \in Stoppers : stop'[b].pid \in {stop[b].pid, gate, Free}
  BY StopEffects DEF Files, Commands
<1>2. request' \in {request, stop[a].pid} /\ asked' \subseteq asked \cup {stop[a].pid}
  BY StopEffects DEF StopWrites
<1>3. gate' = gate /\ agent' = agent
  BY StopEffects
<1> QED BY <1>1, <1>2, <1>3 DEF Known

(* GateInv is inductive.                                                       *)
LEMMA GateStep ==
  ASSUME SupervisorAssumption, Shape, Files, GateInv, [Next]_vars
  PROVE  GateInv'
<1>1. \A o \in Owners : child[o].n \in Nat /\ child[o] \in Children
  BY DEF Shape, Children
<1>2. ASSUME NEW o \in Owners, TakeGate(o)
      PROVE  GateInv'
  <2>1. UNCHANGED <<request, stop, asked, agent>> /\ child[o].stage = "starting"
    BY <1>2 DEF TakeGate, stops
  <2>2. CASE gate = Free /\ gate' = Pid(o)
             /\ child' = [child EXCEPT ![o].stage = "clearing"]
    <3>1. /\ child'[o].stage = "clearing" /\ Pid(o)' = Pid(o)
          /\ \A p \in Owners \ {o} : child'[p] = child[p] /\ Pid(p)' = Pid(p)
          /\ \A p \in Owners : child'[p].n = child[p].n
      BY <1>1, <2>2 DEF Shape, Pid, Children
    <3>2. \A p \in Owners : child[p].stage \notin PastLock
      BY <2>2, PidNames DEF GateInv
    <3>3. Known' \subseteq Known \cup {Pid(o)}
      BY <2>1, <2>2 DEF Known
    <3>4. \A p \in Owners : child'[p].stage \in PastLock => gate' = Pid(p)'
      BY <2>2, <3>1, <3>2 DEF PastLock, Looking
    <3>5. ASSUME NEW p \in Owners, Alive(p)', Pid(p)' \in Known'
          PROVE  child'[p].stage \in PastLock
      <4>1. CASE p = o
        BY <3>1, <4>1 DEF PastLock, Looking
      <4>2. CASE p # o
        BY <3>1, <3>2, <3>3, <3>5, <4>2, PidNames DEF GateInv, Alive
      <4> QED BY <4>1, <4>2
    <3>6. Numbered(Pid(o))
      BY <1>1 DEF Numbered, Pid
    <3>7. \A pid \in Known' : Numbered(pid)'
      BY <3>1, <3>3, <3>6 DEF GateInv, Numbered, Free
    <3> QED BY <3>4, <3>5, <3>7 DEF GateInv, PastLock, Looking
  <2>3. CASE Leave(o, LockHeld) /\ UNCHANGED gate
    <3>1. child'[o].stage = "gone" /\ child'[o].n = child[o].n
          /\ \A p \in Owners \ {o} : child'[p] = child[p]
      BY <1>1, <2>3 DEF Leave, Shape, Children
    <3>2. Known' = Known
      BY <2>1, <2>3 DEF Known
    <3> QED BY <2>3, <3>1, <3>2, GateKept DEF Alive, PastLock, Looking
  <2> QED BY <1>2, <2>2, <2>3 DEF TakeGate
<1>3. ASSUME NEW o \in Owners, ClearStaleRequest(o) \/ SweepRequest(o)
      PROVE  GateInv'
  <2>1. /\ gate' = gate /\ request' \in {request, Free}
        /\ UNCHANGED <<stop, asked, agent>>
        /\ child[o].stage \in {"clearing", "sweeping"}
        /\ \E to \in {"sweeping", "cycling"} : child' = [child EXCEPT ![o].stage = to]
    BY <1>3 DEF ClearStaleRequest, SweepRequest, locks, stops
  <2>2. Known' \subseteq Known \cup {Free}
    BY <2>1 DEF Known
  <2>3. /\ child'[o].stage \in {"sweeping", "cycling"} /\ child'[o].n = child[o].n
        /\ \A p \in Owners \ {o} : child'[p] = child[p]
    BY <1>1, <2>1 DEF Shape, Children
  <2> QED BY <2>1, <2>2, <2>3, GateKept DEF Alive, PastLock, Looking
<1>4. ASSUME NEW o \in Owners, EndRun(o)
      PROVE  GateInv'
  <2>1. PICK code : child' = [child EXCEPT ![o].stage = "leaving", ![o].code = code]
    BY <1>4 DEF EndRun
  <2>2. /\ child[o].stage = "cycling" /\ gate' = gate /\ request' = Free
        /\ UNCHANGED <<stop, asked, agent>>
    BY <1>4 DEF EndRun, stops
  <2>3. Known' \subseteq Known \cup {Free}
    BY <2>2 DEF Known
  <2>4. /\ child'[o].stage = "leaving" /\ child'[o].n = child[o].n
        /\ \A p \in Owners \ {o} : child'[p] = child[p]
    BY <1>1, <2>1 DEF Shape, Children
  <2> QED BY <2>2, <2>3, <2>4, GateKept DEF Alive, PastLock, Looking
<1>5. ASSUME NEW o \in Owners, ReleaseGate(o)
      PROVE  GateInv'
  <2>1. /\ gate = Pid(o) /\ gate' = Free /\ request' = request
        /\ UNCHANGED <<stop, asked, agent>>
        /\ Leave(o, child[o].code) /\ child[o].stage = "leaving"
    BY <1>5 DEF ReleaseGate, GateInv, PastLock, stops
  <2>2. Known' \subseteq Known \cup {Free}
    BY <2>1 DEF Known
  <2>3. /\ child'[o].stage = "gone" /\ child'[o].n = child[o].n
        /\ \A p \in Owners \ {o} : child'[p] = child[p]
    BY <1>1, <2>1 DEF Leave, Shape, Children
  <2>4. \A p \in Owners \ {o} : child[p].stage \notin PastLock
    BY <2>1, PidNames DEF GateInv
  <2> QED BY <2>1, <2>2, <2>3, <2>4, GateKept DEF Alive, PastLock, Looking
<1>6. ASSUME NEW o \in Owners, BeginCycle(o)
      PROVE  GateInv'
  <2>1. /\ UNCHANGED <<gate, request, stop, asked, child>>
        /\ agent' = agent \cup {Pid(o)} /\ child[o].stage = "cycling"
    BY <1>6 DEF BeginCycle, locks, stops
  <2>2. gate = Pid(o)
    BY <2>1 DEF GateInv, PastLock, Looking
  <2>3. Known' \subseteq Known
    BY <2>1, <2>2 DEF Known
  <2> QED BY <2>1, <2>3, GateKept DEF Alive
<1>7. ASSUME NEW o \in Owners, Launched(o),
             UNCHANGED <<gate, request, stops, agent, orphaned>>
      PROVE  GateInv'
  <2>1. /\ child'[o].stage = "starting" /\ child'[o].n = child[o].n + 1
        /\ \A p \in Owners \ {o} : child'[p] = child[p] /\ Pid(p)' = Pid(p)
    BY <1>7 DEF Launched, Shape, Pid
  <2>2. Known' = Known
    BY <1>7 DEF Known, stops
  <2>3. \A pid \in Known' : Numbered(pid)'
    <3>1. \A p \in Owners : \A k \in 0..child[p].n : k \in 0..child'[p].n
      BY <1>1, <2>1
    <3>2. ASSUME NEW pid, Numbered(pid) PROVE Numbered(pid)'
      BY <3>1, <3>2 DEF Numbered, Free
    <3> QED BY <2>2, <3>2 DEF GateInv
  <2>4. Pid(o)' \notin Known
    <3>1. Pid(o)' = [owner |-> o, n |-> child[o].n + 1]
      BY <2>1 DEF Pid
    <3>2. ASSUME Numbered(Pid(o)') PROVE FALSE
      <4>1. Pid(o)' # Free
        <5>1. "n" \in DOMAIN Pid(o)' /\ "n" \notin DOMAIN Free
          BY <3>1 DEF Free
        <5> QED BY <5>1
      <4>2. \A k \in Nat : Pid(o)' # [owner |-> Ghost, n |-> k]
        BY <3>1 DEF SupervisorAssumption
      <4>3. PICK p \in Owners : \E k \in 0..child[p].n : Pid(o)' = [owner |-> p, n |-> k]
        BY <3>2, <4>1, <4>2, Zenon DEF Numbered
      <4>4. p = o /\ child[o].n + 1 \in 0..child[p].n
        BY <3>1, <4>3
      <4> QED BY <1>1, <4>4
    <3> QED BY <3>2 DEF GateInv
  <2>5. \A p \in Owners : child'[p].stage \in PastLock => gate' = Pid(p)'
    BY <1>7, <2>1 DEF GateInv, PastLock, Looking
  <2>6. \A p \in Owners : Alive(p)' /\ Pid(p)' \in Known' => child'[p].stage \in PastLock
    BY <2>1, <2>2, <2>4 DEF GateInv, Alive
  <2> QED BY <2>3, <2>5, <2>6 DEF GateInv, PastLock, Looking
<1>8. ASSUME Waits
      PROVE  GateInv'
  <2>1. Known' \subseteq Known
    BY <1>8 DEF Waits, Known, stops
  <2> QED BY <1>8, <2>1, GateKept DEF Waits, Alive, PastLock, Looking
<1>9. ASSUME NEW a \in Stoppers, StopCommand(a)
      PROVE  GateInv'
  BY <1>9, StopEffects, StopKnows, GateKept DEF Alive
<1>10. ASSUME RemoveGate
       PROVE  GateInv'
  <2>1. /\ gate' = Free /\ UNCHANGED <<request, stop, asked, agent, child>>
        /\ \A o \in Owners : Alive(o) => gate # Pid(o)
    BY <1>10 DEF RemoveGate, Runs, stops
  <2>2. Known' \subseteq Known \cup {Free}
    BY <2>1 DEF Known
  <2>3. \A o \in Owners : child[o].stage \notin PastLock
    BY <2>1 DEF GateInv, PastLock, Looking, Alive
  <2> QED BY <2>1, <2>2, <2>3, GateKept DEF Alive
<1> QED BY <1>2, <1>3, <1>4, <1>5, <1>6, <1>7, <1>8, <1>9, <1>10, ChildSteps

(* The shape, the pids and GateInv hold in every reachable state.              *)
Gated == Shape /\ Files /\ GateInv

LEMMA GateAlways == Spec => []Gated
<1>1. Init => Gated
  BY ShapeInit, FilesInit, GateInit, SupervisorAssumption DEF Gated
<1>2. Gated /\ [Next]_vars => Gated'
  BY ShapeStep, FilesStep, GateStep, SupervisorAssumption DEF Gated
<1> QED BY <1>1, <1>2, PTL DEF Spec

(* At most one dispatcher is past .dispatch.lock, for any number of            *)
(* supervisors and dispatchers, however they crash, stall and are stopped.     *)
THEOREM OneDispatcher == Spec => []DispatcherAlone
<1>1. GateInv => DispatcherAlone
  <2> SUFFICES ASSUME GateInv, NEW o \in Owners, NEW p \in Owners,
                      child[o].stage \in PastLock, child[p].stage \in PastLock
               PROVE  o = p
    BY DEF DispatcherAlone
  <2>1. gate = Pid(o) /\ gate = Pid(p)
    BY DEF GateInv
  <2> QED BY <2>1, PidNames
<1> QED BY <1>1, GateAlways, PTL DEF Gated

-----------------------------------------------------------------------------
(* One agent, and the requests that were made.                                 *)

(* A running dispatcher that looks for requests is the one in the lock.        *)
LEMMA Looks ==
  ASSUME Gated, NEW o \in Owners, child[o].stage \in Looking
  PROVE  /\ gate = Pid(o)
         /\ \A p \in Owners : child[p].stage \in PastLock => p = o
         /\ \A p \in Owners : Alive(p) /\ Pid(p) \in Known => p = o
<1>1. gate = Pid(o)
  BY DEF Gated, GateInv, PastLock
<1> QED BY <1>1, PidNames DEF Gated, GateInv

(* A step that asks no other dispatcher, and leaves a request of one that      *)
(* looks for it alone, keeps the requests.                                     *)
LEMMA KeptUntouched ==
  ASSUME Gated, RequestKept, UNCHANGED <<request, asked, replaced, swept>>,
         \A o \in Owners : child'[o].stage \in Looking =>
                             child[o].stage \in Looking /\ child'[o].n = child[o].n
  PROVE  RequestKept'
BY DEF RequestKept, Kept, Pid

(* Every kind of step keeps the requests.                                      *)
LEMMA KeptStep ==
  ASSUME SupervisorAssumption, Gated, RequestKept, [Next]_vars
  PROVE  RequestKept'
<1>0. Shape /\ Files
  BY DEF Gated
<1>1. \A o \in Owners : child[o].n \in Nat /\ child[o] \in Children
  BY <1>0 DEF Shape, Children
<1>2. ASSUME NEW o \in Owners, TakeGate(o)
      PROVE  RequestKept'
  <2>1. UNCHANGED <<request, asked, replaced, swept>> /\ child[o].stage = "starting"
    BY <1>2 DEF TakeGate, stops
  <2>2. Pid(o) \notin asked
    BY <2>1 DEF Gated, GateInv, Known, Alive, PastLock, Looking
  <2>3. /\ child'[o].n = child[o].n
        /\ \A p \in Owners \ {o} : child'[p] = child[p]
    BY <1>0, <1>1, <1>2 DEF TakeGate, Leave, Shape, Children
  <2>4. \A p \in Owners : Pid(p)' = Pid(p)
    BY <2>3 DEF Pid
  <2> QED BY <2>1, <2>2, <2>3, <2>4 DEF RequestKept, Kept
<1>3. ASSUME NEW o \in Owners, ClearStaleRequest(o)
      PROVE  RequestKept'
  <2>1. \E to : child' = [child EXCEPT ![o].stage = to]
    BY <1>3 DEF ClearStaleRequest
  <2>2. /\ child'[o].n = child[o].n
        /\ \A p \in Owners \ {o} : child'[p] = child[p]
    BY <1>0, <1>1, <2>1 DEF Shape, Children
  <2>3. UNCHANGED <<request, asked, replaced, swept>> /\ child[o].stage \in Looking
    BY <1>3 DEF ClearStaleRequest, locks, stops, Looking
  <2> QED BY <2>2, <2>3, KeptUntouched
<1>4. ASSUME NEW o \in Owners, SweepRequest(o)
      PROVE  RequestKept'
  <2>1. /\ UNCHANGED <<asked, replaced>> /\ swept' = swept \cup ({request} \cap asked)
        /\ child[o].stage \in Looking
        /\ child' = [child EXCEPT ![o].stage = "cycling"]
    BY <1>4 DEF SweepRequest, Looking
  <2>2. /\ child'[o].n = child[o].n
        /\ \A p \in Owners \ {o} : child'[p] = child[p] /\ child[p].stage \notin Looking
    BY <1>0, <1>1, <2>1, Looks DEF Shape, Children, PastLock
  <2>3. Pid(o)' = Pid(o) /\ (Pid(o) \in asked \ (replaced \cup swept) => request = Pid(o))
    BY <2>1, <2>2 DEF Pid, RequestKept, Kept
  <2> QED BY <2>1, <2>2, <2>3 DEF RequestKept, Kept, Looking
<1>5. ASSUME NEW o \in Owners, EndRun(o)
      PROVE  RequestKept'
  <2>1. PICK code : child' = [child EXCEPT ![o].stage = "leaving", ![o].code = code]
    BY <1>5 DEF EndRun
  <2>2. child[o].stage \in Looking
    BY <1>5 DEF EndRun, Looking
  <2>3. \A p \in Owners : child'[p].stage \notin Looking
    BY <1>0, <2>1, <2>2, Looks DEF Shape, Children, PastLock, Looking
  <2> QED BY <2>3 DEF RequestKept, Kept, Looking
<1>6. ASSUME NEW o \in Owners, ReleaseGate(o)
      PROVE  RequestKept'
  <2>1. /\ child'[o].stage = "gone"
        /\ \A p \in Owners \ {o} : child'[p] = child[p]
    BY <1>0, <1>6 DEF ReleaseGate, Leave, Shape
  <2>2. UNCHANGED <<request, asked, replaced, swept>>
    BY <1>6 DEF ReleaseGate, stops
  <2> QED BY <2>1, <2>2, KeptUntouched DEF Looking
<1>7. ASSUME NEW o \in Owners, BeginCycle(o)
      PROVE  RequestKept'
  BY <1>7, KeptUntouched DEF BeginCycle, locks, stops
<1>8. ASSUME NEW o \in Owners, Launched(o),
             UNCHANGED <<gate, request, stops, agent, orphaned>>
      PROVE  RequestKept'
  <2>1. /\ child'[o].stage = "starting"
        /\ \A p \in Owners \ {o} : child'[p] = child[p]
    BY <1>0, <1>8 DEF Launched, Shape
  <2> QED BY <1>8, <2>1, KeptUntouched DEF Looking, stops
<1>9. ASSUME Waits
      PROVE  RequestKept'
  BY <1>9, KeptUntouched DEF Waits, Looking, stops
<1>10. ASSUME NEW a \in Stoppers, StopCommand(a)
       PROVE  RequestKept'
  <2>1. child' = child
    BY <1>10, StopEffects
  <2>2. CASE UNCHANGED <<request, asked, replaced, swept>>
    BY <2>1, <2>2, KeptUntouched
  <2>3. CASE StopWrites(a)
    <3> DEFINE pid == stop[a].pid
    <3>1. /\ request' = pid /\ asked' = asked \cup {pid} /\ swept' = swept \ {pid}
          /\ replaced' = (replaced \cup IF Runs(pid) THEN {} ELSE {request} \cap asked) \ {pid}
      BY <2>3 DEF StopWrites
    <3>2. ASSUME NEW o \in Owners, child[o].stage \in Looking, Pid(o) # pid,
                 Pid(o) \in asked' \ (replaced' \cup swept')
          PROVE  FALSE
      <4>1. Pid(o) \in asked \ (replaced \cup swept)
        BY <3>1, <3>2
      <4>2. request = Pid(o)
        BY <3>2, <4>1 DEF RequestKept, Kept
      <4>3. Runs(pid)
        BY <3>1, <3>2, <4>1, <4>2
      <4>4. PICK p \in Owners : Alive(p) /\ Pid(p) = pid
        BY <4>3 DEF Runs
      <4>5. pid \in Known
        BY DEF Known
      <4> QED BY <3>2, <4>4, <4>5, Looks
    <3>3. \A o \in Owners : Pid(o)' = Pid(o)
      BY <2>1 DEF Pid
    <3> QED BY <2>1, <3>1, <3>2, <3>3 DEF RequestKept, Kept, Looking
  <2> QED BY <1>10, <2>2, <2>3, StopEffects
<1>11. ASSUME RemoveGate
       PROVE  RequestKept'
  BY <1>11, KeptUntouched DEF RemoveGate, stops
<1> QED BY <1>0, <1>2, <1>3, <1>4, <1>5, <1>6, <1>7, <1>8, <1>9, <1>10, <1>11, ChildSteps

(* The request that a stop command wrote for a dispatcher stays as long as it  *)
(* runs, for any number of stop commands, stopped wherever they are, and of    *)
(* dispatchers: it is lost only to a command whose own dispatcher ended after  *)
(* it had asked for it, or to the sweep of a request that was there before.    *)
THEOREM NoRequestLost == Spec => []RequestKept
<1>1. Init => RequestKept
  BY DEF Init, RequestKept, Kept
<1>2. Gated /\ RequestKept /\ [Next]_vars => RequestKept'
  BY KeptStep, SupervisorAssumption
<1> QED BY <1>1, <1>2, GateAlways, PTL DEF Spec

(* The inductive invariant: the agent at work is of the dispatcher in the      *)
(* lock, dead or alive, and who leaves the lock has none.                      *)
AgentInv ==
  /\ ~orphaned => agent \subseteq {gate}
  /\ \A o \in Owners : child[o].stage = "leaving" => Pid(o) \notin agent

(* AgentInv is inductive.                                                      *)
LEMMA AgentStep ==
  ASSUME SupervisorAssumption, Gated, AgentInv, [Next]_vars
  PROVE  AgentInv'
<1>0. Shape /\ Free \notin agent
  <2>1. Free \notin Pids
    <3>1. \A pid \in Pids : "n" \in DOMAIN pid
      BY DEF Pids
    <3> QED BY <3>1 DEF Free
  <2> QED BY <2>1 DEF Gated, Files
<1>1. \A o \in Owners : child[o].n \in Nat /\ child[o] \in Children
  BY <1>0 DEF Shape, Children
<1>2. ASSUME NEW o \in Owners,
             TakeGate(o) \/ ClearStaleRequest(o) \/ SweepRequest(o)
      PROVE  AgentInv'
  <2>1. agent' = agent /\ orphaned' = orphaned /\ (gate' = gate \/ gate = Free)
    BY <1>2 DEF TakeGate, ClearStaleRequest, SweepRequest, locks, history
  <2>2. /\ child'[o].stage # "leaving"
        /\ \A p \in Owners \ {o} : child'[p] = child[p]
    BY <1>0, <1>1, <1>2 DEF TakeGate, Leave, ClearStaleRequest, SweepRequest, Shape, Children
  <2> QED BY <1>0, <2>1, <2>2 DEF AgentInv, Pid
<1>3. ASSUME NEW o \in Owners, BeginCycle(o)
      PROVE  AgentInv'
  <2>1. /\ UNCHANGED <<gate, child, orphaned>> /\ child[o].stage = "cycling"
        /\ agent' = agent \cup {Pid(o)}
    BY <1>3 DEF BeginCycle, locks, history
  <2>2. gate = Pid(o)
    BY <2>1, Looks DEF Looking
  <2>3. \A p \in Owners : Pid(p)' = Pid(p)
    BY <2>1 DEF Pid
  <2> QED BY <2>1, <2>2, <2>3, PidNames DEF AgentInv
<1>4. ASSUME NEW o \in Owners, EndRun(o)
      PROVE  AgentInv'
  <2>1. PICK code : child' = [child EXCEPT ![o].stage = "leaving", ![o].code = code]
    BY <1>4 DEF EndRun
  <2>2. UNCHANGED <<gate, agent, orphaned>> /\ Pid(o) \notin agent
    BY <1>4 DEF EndRun, history
  <2>3. /\ child'[o].n = child[o].n
        /\ \A p \in Owners \ {o} : child'[p] = child[p]
    BY <1>0, <1>1, <2>1 DEF Shape, Children
  <2> QED BY <2>2, <2>3 DEF AgentInv, Pid
<1>5. ASSUME NEW o \in Owners, ReleaseGate(o)
      PROVE  AgentInv'
  <2>1. /\ UNCHANGED <<agent, orphaned>> /\ child[o].stage = "leaving"
        /\ Leave(o, child[o].code) /\ gate = Pid(o)
    BY <1>5 DEF ReleaseGate, history, Gated, GateInv, PastLock
  <2>2. ~orphaned => agent = {}
    BY <2>1 DEF AgentInv
  <2>3. /\ child'[o].stage = "gone"
        /\ \A p \in Owners \ {o} : child'[p] = child[p]
    BY <1>0, <2>1 DEF Leave, Shape
  <2> QED BY <2>1, <2>2, <2>3 DEF AgentInv, Pid
<1>6. ASSUME NEW o \in Owners, Launched(o),
             UNCHANGED <<gate, request, stops, agent, orphaned>>
      PROVE  AgentInv'
  <2>1. /\ child'[o].stage = "starting"
        /\ \A p \in Owners \ {o} : child'[p] = child[p]
    BY <1>0, <1>6 DEF Launched, Shape
  <2> QED BY <1>6, <2>1 DEF AgentInv, Pid
<1>7. ASSUME Waits
      PROVE  AgentInv'
  BY <1>7 DEF Waits, AgentInv, Pid
<1>8. ASSUME NEW a \in Stoppers, StopCommand(a)
      PROVE  AgentInv'
  BY <1>8, StopEffects DEF AgentInv, Pid
<1>9. ASSUME RemoveGate
      PROVE  AgentInv'
  BY <1>9 DEF RemoveGate, AgentInv, Pid
<1> QED BY <1>0, <1>2, <1>3, <1>4, <1>5, <1>6, <1>7, <1>8, <1>9, ChildSteps

(* No agent is started beside one still at work, for any number of dispatchers *)
(* killed or crashed and whether or not their agents survive them, unless a    *)
(* person took a dead dispatcher's lock away while its agent worked.           *)
THEOREM AgentsAlone == Spec => []OneAgentAtWork
<1>1. Init => AgentInv
  BY DEF Init, AgentInv
<1>2. Gated /\ AgentInv /\ [Next]_vars => AgentInv'
  BY AgentStep, SupervisorAssumption
<1>3. AgentInv => OneAgentAtWork
  BY DEF AgentInv, OneAgentAtWork
<1> QED BY <1>1, <1>2, <1>3, GateAlways, PTL DEF Spec

-----------------------------------------------------------------------------
(* One supervisor, as long as no two starts raced for a dead one's lock.       *)

Holds(s) == lock # Free /\ lock.owner = s

(* The inductive invariant: who manages the repository holds the lock; who     *)
(* wrote a lock is past its start; who is about to remove one has read that of *)
(* a process that is over, and nobody comes back.                              *)
LockInv ==
  /\ ~raced => \A s \in Supervisors : pc[s] \in Managing => Holds(s)
  /\ lock # Free /\ lock.owner \in Supervisors => pc[lock.owner] # "idle"
  /\ \A t \in Supervisors : pc[t] = "unlinking" =>
       /\ mem[t].saw # Free
       /\ mem[t].saw.owner \in Supervisors => pc[mem[t].saw.owner] \in {"done", "dead"}

(* LockInv holds at first.                                                     *)
LEMMA LockInit == SupervisorAssumption /\ Init => LockInv
<1> SUFFICES ASSUME SupervisorAssumption, Init PROVE LockInv
  OBVIOUS
<1>1. lock # Free => lock.owner = Ghost
  BY DEF Init
<1> QED BY <1>1 DEF Init, LockInv, Managing, SupervisorAssumption, Owners

(* A step of a supervisor that keeps the lock and does not begin to manage or  *)
(* to remove a lock keeps LockInv.                                             *)
LEMMA LockUntouched ==
  ASSUME Shape, LockInv, NEW s \in Supervisors, NEW stage \in Stages,
         lock' = lock, raced' = raced, Go(s, stage),
         pc[s] \notin {"done", "dead"}, stage \notin {"idle", "unlinking"},
         stage \in Managing => pc[s] \in Managing,
         \A t \in Supervisors \ {s} : mem'[t].saw = mem[t].saw
  PROVE  LockInv'
<1>1. \A t \in Supervisors : pc'[t] = IF t = s THEN stage ELSE pc[t]
  BY DEF Shape, Go
<1>2. ~raced => \A t \in Supervisors : pc'[t] \in Managing => Holds(t)'
  BY <1>1 DEF LockInv, Holds
<1>3. lock' # Free' /\ lock'.owner \in Supervisors => pc'[lock'.owner] # "idle"
  BY <1>1 DEF LockInv, Free
<1>4. ASSUME NEW t \in Supervisors, pc'[t] = "unlinking"
      PROVE  /\ mem'[t].saw # Free'
             /\ mem'[t].saw.owner \in Supervisors =>
                  pc'[mem'[t].saw.owner] \in {"done", "dead"}
  BY <1>1, <1>4 DEF LockInv, Free
<1> QED BY <1>2, <1>3, <1>4 DEF LockInv

(* A lock somebody made is not the empty place of one.                         *)
LEMMA NotFree ==
  \A o, w : [owner |-> o, written |-> w] # Free
<1> SUFFICES ASSUME NEW o, NEW w PROVE [owner |-> o, written |-> w] # Free
  OBVIOUS
<1>1. "written" \in DOMAIN [owner |-> o, written |-> w] /\ "written" \notin DOMAIN Free
  BY DEF Free
<1> QED BY <1>1

(* LockInv is inductive.                                                       *)
LEMMA LockStep ==
  ASSUME SupervisorAssumption, Shape, LockInv, [Next]_vars
  PROVE  LockInv'
<1>0. \A s \in Supervisors : s # Ghost /\ pc[s] \in Stages
  BY DEF SupervisorAssumption, Owners, Shape
<1>1. ASSUME UNCHANGED <<lock, pc, mem, raced>>
      PROVE  LockInv'
  BY <1>1 DEF LockInv, Holds
<1>2. ASSUME NEW s \in Supervisors, Start(s) \/ Preflight(s)
      PROVE  LockInv'
  <2>1. \E stage \in {"locking", "spawning", "releasing"} :
          Go(s, stage) /\ (stage \in Managing => pc[s] \in Managing)
    BY <1>2 DEF Start, Preflight, Managing
  <2> QED BY <1>2, <2>1, LockUntouched DEF Start, Preflight, locks, history, Stages
<1>3. ASSUME NEW s \in Supervisors, CreateLock(s)
      PROVE  LockInv'
  <2>1. CASE lock = Free /\ lock' = [owner |-> s, written |-> FALSE] /\ Go(s, "writing")
    <3>1. \A t \in Supervisors : pc'[t] = IF t = s THEN "writing" ELSE pc[t]
      BY <2>1 DEF Shape, Go
    <3>2. lock' # Free' /\ lock'.owner = s
      BY <2>1, NotFree DEF Free
    <3>3. ~raced => \A t \in Supervisors : pc[t] \notin Managing
      BY <2>1 DEF LockInv, Holds
    <3>4. mem' = mem /\ raced' = raced /\ pc[s] = "locking"
      BY <1>3 DEF CreateLock, history
    <3> QED BY <3>1, <3>2, <3>3, <3>4 DEF LockInv, Holds, Free
  <2>2. CASE lock # Free /\ Go(s, "reading") /\ UNCHANGED lock
    BY <1>3, <2>2, LockUntouched DEF CreateLock, history, Stages, Managing
  <2> QED BY <1>3, <2>1, <2>2 DEF CreateLock
<1>4. ASSUME NEW s \in Supervisors, ReadLock(s)
      PROVE  LockInv'
  <2> DEFINE found == IF lock = Free \/ ~lock.written THEN Unknown ELSE lock
  <2>0. lock' = lock /\ raced' = raced /\ pc[s] = "reading"
    BY <1>4 DEF ReadLock, locks, history
  <2>1. CASE Ended(s, "done")
    <3>1. \A t \in Supervisors \ {s} : mem'[t].saw = mem[t].saw
      BY <2>1 DEF Ended, Shape
    <3> QED BY <2>0, <2>1, <3>1, LockUntouched DEF Ended, Stages, Managing
  <2>2. CASE /\ found # Unknown /\ ~Running(found.owner)
             /\ mem' = [mem EXCEPT ![s].saw = found]
             /\ Go(s, "unlinking")
    <3>1. found = lock /\ lock # Free
      BY <2>2
    <3>2. lock.owner \in Supervisors => pc[lock.owner] \in {"done", "dead"}
      BY <2>2, <3>1 DEF Running, LockInv
    <3>3. \A t \in Supervisors : pc'[t] = IF t = s THEN "unlinking" ELSE pc[t]
      BY <2>2 DEF Shape, Go
    <3>4. mem'[s].saw = lock
      <4>1. mem[s] \in Locals /\ mem'[s] = [mem[s] EXCEPT !.saw = lock]
        BY <2>2, <3>1 DEF Shape
      <4> QED BY <4>1 DEF Locals
    <3>5. \A t \in Supervisors \ {s} : mem'[t].saw = mem[t].saw
      BY <2>2 DEF Shape
    <3>6. ~raced => \A t \in Supervisors : pc'[t] \in Managing => Holds(t)'
      BY <2>0, <3>3 DEF LockInv, Holds, Managing
    <3>7. lock' # Free' /\ lock'.owner \in Supervisors => pc'[lock'.owner] # "idle"
      BY <2>0, <3>3 DEF LockInv, Free
    <3>8. ASSUME NEW t \in Supervisors, pc'[t] = "unlinking"
          PROVE  /\ mem'[t].saw # Free'
                 /\ mem'[t].saw.owner \in Supervisors =>
                      pc'[mem'[t].saw.owner] \in {"done", "dead"}
      <4>1. CASE t = s
        BY <2>0, <3>1, <3>2, <3>3, <3>4, <4>1 DEF Free
      <4>2. CASE t # s
        BY <2>0, <3>3, <3>5, <3>8, <4>2 DEF LockInv, Free
      <4> QED BY <4>1, <4>2
    <3> QED BY <2>0, <3>6, <3>7, <3>8 DEF LockInv
  <2> QED BY <1>4, <2>1, <2>2 DEF ReadLock
<1>5. ASSUME NEW s \in Supervisors, UnlinkLock(s)
      PROVE  LockInv'
  <2>1. /\ lock' = Free /\ mem' = mem /\ pc[s] = "unlinking"
        /\ raced' = (raced \/ lock \notin {Free, mem[s].saw})
    BY <1>5 DEF UnlinkLock
  <2>2. \A t \in Supervisors : pc'[t] = IF t = s THEN "locking" ELSE pc[t]
    BY <1>5 DEF UnlinkLock, Shape, Go
  <2>3. ASSUME ~raced', NEW t \in Supervisors, pc'[t] \in Managing
        PROVE  FALSE
    <3>1. pc[t] \in Managing /\ ~raced /\ lock \in {Free, mem[s].saw}
      BY <2>1, <2>2, <2>3 DEF Managing
    <3>2. lock # Free /\ lock.owner = t
      BY <3>1 DEF LockInv, Holds
    <3>3. lock = mem[s].saw
      BY <3>1, <3>2
    <3>4. pc[t] \in {"done", "dead"}
      BY <2>1, <3>2, <3>3 DEF LockInv
    <3> QED BY <3>1, <3>4 DEF Managing
  <2>4. ASSUME NEW t \in Supervisors, pc'[t] = "unlinking"
        PROVE  /\ mem'[t].saw # Free'
               /\ mem'[t].saw.owner \in Supervisors =>
                    pc'[mem'[t].saw.owner] \in {"done", "dead"}
    BY <2>1, <2>2, <2>4 DEF LockInv, Free
  <2> QED BY <2>1, <2>3, <2>4 DEF LockInv, Free
<1>6. ASSUME NEW s \in Supervisors, WriteLock(s)
      PROVE  LockInv'
  <2>1. \A t \in Supervisors : pc'[t] = IF t = s THEN "preflight" ELSE pc[t]
    BY <1>6 DEF WriteLock, Shape, Go
  <2>2. mem' = mem /\ raced' = raced /\ pc[s] = "writing"
    BY <1>6 DEF WriteLock, history
  <2>3. \/ lock' = lock
        \/ /\ lock # Free /\ lock' # Free' /\ lock'.owner = lock.owner
    <3>1. CASE lock' = lock
      BY <3>1
    <3>2. CASE lock # Free /\ lock.owner = s /\ lock' = [lock EXCEPT !.written = TRUE]
      <4>1. lock \in [owner : Supervisors \cup {Ghost}, written : BOOLEAN]
        BY <3>2, Zenon DEF Shape, LockFiles
      <4>2. lock' = [owner |-> s, written |-> TRUE]
        BY <3>2, <4>1
      <4> QED BY <3>2, <4>2, NotFree DEF Free
    <3> QED BY <1>6, <3>1, <3>2 DEF WriteLock
  <2>4. ~raced => \A t \in Supervisors : pc'[t] \in Managing => Holds(t)'
    BY <2>1, <2>2, <2>3 DEF LockInv, Holds, Managing, Free
  <2>5. lock' # Free' /\ lock'.owner \in Supervisors => pc'[lock'.owner] # "idle"
    BY <2>1, <2>3 DEF LockInv, Free
  <2> QED BY <2>1, <2>2, <2>4, <2>5 DEF LockInv, Free
<1>7. ASSUME NEW s \in Supervisors, Release(s)
      PROVE  LockInv'
  <2>1. \A t \in Supervisors : pc'[t] = IF t = s THEN "done" ELSE pc[t]
    BY <1>7 DEF Release, Ended, Shape, Go
  <2>2. /\ raced' = raced /\ pc[s] = "releasing"
        /\ \A t \in Supervisors \ {s} : mem'[t].saw = mem[t].saw
    BY <1>7 DEF Release, Ended, history, Shape
  <2>3. lock' = lock \/ lock' = Free
    BY <1>7 DEF Release
  <2>4. CASE lock' = lock
    BY <1>7, <2>2, <2>4, LockUntouched DEF Release, Ended, Stages, Managing
  <2>5. CASE lock' = Free
    <3>1. ~raced => \A t \in Supervisors \ {s} : pc[t] \notin Managing
      BY <2>2 DEF LockInv, Holds, Managing
    <3> QED BY <2>1, <2>2, <2>5, <3>1 DEF LockInv, Free, Managing
  <2> QED BY <2>3, <2>4, <2>5
<1>8. ASSUME NEW s \in Supervisors,
             \/ Spawn(s) \/ ReadResult(s) \/ BeginRepair(s) \/ RepairReturns(s)
             \/ CheckRepair(s) \/ Interrupt(s) \/ Crash(s)
      PROVE  LockInv'
  <2>1. lock' = lock /\ raced' = raced /\ pc[s] \in Managing
    BY <1>8 DEF Spawn, ReadResult, BeginRepair, RepairReturns, CheckRepair, Interrupt,
                Crash, locks, history, Managing
  <2>2. \A t \in Supervisors \ {s} : mem'[t].saw = mem[t].saw
    BY <1>8 DEF Spawn, ReadResult, BeginRepair, RepairReturns, CheckRepair, Interrupt,
                Crash, Completed, RetryTransient, GiveUp, NewFailure, StopWithIncident,
                Ended, Shape
  <2>3. \E stage \in {"spawning", "watching", "packing", "repairing", "checking",
                      "releasing", "dead"} : Go(s, stage)
    BY <1>8 DEF Spawn, ReadResult, BeginRepair, RepairReturns, CheckRepair, Interrupt,
                Crash, Completed, RetryTransient, GiveUp, NewFailure, StopWithIncident,
                Ended
  <2> QED BY <2>1, <2>2, <2>3, LockUntouched DEF Stages, Managing
<1>9. ASSUME NEW o \in Owners,
             Dispatch(o) \/ BeginCycle(o) \/ EndRun(o) \/ ChildCrashes(o)
      PROVE  LockInv'
  BY <1>1, <1>9 DEF Dispatch, TakeGate, ClearStaleRequest, SweepRequest, EndCycle,
                    ReleaseGate, BeginCycle, EndRun, ChildCrashes, locks, history
<1>10. ASSUME \/ \E s \in Supervisors : Stall(s)
              \/ \E a \in Stoppers : StopCommand(a)
              \/ AgentEnds \/ StartByHand \/ RemoveGate \/ UNCHANGED vars
       PROVE  LockInv'
  BY <1>1, <1>10, StopEffects
     DEF Stall, AgentEnds, StartByHand, RemoveGate, vars, locks, history
<1> QED BY <1>2, <1>3, <1>4, <1>5, <1>6, <1>7, <1>8, <1>9, <1>10 DEF Next, Supervise

(* Two supervisors never manage the repository together, for any number of     *)
(* starts, crashes and stale locks, unless a start removed a lock it had not   *)
(* read: the lock of the one that manages names it.                            *)
THEOREM SupervisorAlone == Spec => []OneSupervisor
<1>1. Init => Shape /\ LockInv
  BY ShapeInit, LockInit, SupervisorAssumption
<1>2. Shape /\ LockInv /\ [Next]_vars => (Shape /\ LockInv)'
  BY ShapeStep, LockStep, SupervisorAssumption
<1>3. LockInv => OneSupervisor
  BY DEF LockInv, Holds, OneSupervisor
<1> QED BY <1>1, <1>2, <1>3, PTL DEF Spec

-----------------------------------------------------------------------------
(* How many dispatchers one supervised run starts.                             *)

Spent(s) == mem[s].retries + mem[s].repairs
Budget(s) == 1 + MaxRetries[s] + MaxRepairs[s]

(* The inductive invariant: every start but the first was paid for by a retry  *)
(* or a repair, and neither is spent twice.                                    *)
Within(s) ==
  /\ mem[s].retries <= MaxRetries[s] /\ mem[s].repairs <= MaxRepairs[s]
  /\ pc[s] \in {"idle", "locking", "reading", "unlinking", "writing", "preflight"} =>
       child[s].n = 0
  /\ pc[s] \in {"spawning", "repairing", "checking"} => child[s].n <= Spent(s)
  /\ pc[s] \in {"watching", "packing", "releasing"} => child[s].n <= 1 + Spent(s)
  /\ pc[s] = "packing" => mem[s].repairs < MaxRepairs[s]
  /\ child[s].n <= Budget(s)

BudgetInv == \A s \in Supervisors : Within(s)

(* The counts are numbers.                                                     *)
LEMMA Counts ==
  ASSUME SupervisorAssumption, Shape, NEW s \in Supervisors
  PROVE  /\ mem[s].retries \in Nat /\ mem[s].repairs \in Nat
         /\ MaxRetries[s] \in Nat /\ MaxRepairs[s] \in Nat
         /\ child[s].n \in Nat /\ pc[s] \in Stages
BY Named DEF SupervisorAssumption, Shape, Locals, Children

(* BudgetInv holds at first.                                                   *)
LEMMA BudgetInit == SupervisorAssumption /\ Init => BudgetInv
<1> SUFFICES ASSUME SupervisorAssumption, Init, NEW s \in Supervisors
             PROVE  Within(s)
  BY DEF BudgetInv
<1>1. MaxRetries[s] \in Nat /\ MaxRepairs[s] \in Nat
  BY DEF SupervisorAssumption
<1>2. pc[s] = "idle" /\ child[s].n = 0 /\ mem[s].retries = 0 /\ mem[s].repairs = 0
  BY Named DEF Init, Fresh
<1> QED BY <1>1, <1>2 DEF Within, Budget

(* A supervisor whose stage, counts and child stay, or that moves to a stage   *)
(* that asks no more, stays within its budget.                                 *)
LEMMA WithinStays ==
  ASSUME SupervisorAssumption, Shape, NEW s \in Supervisors, Within(s),
         child'[s].n = child[s].n,
         mem'[s].retries = mem[s].retries, mem'[s].repairs = mem[s].repairs,
         \/ pc'[s] = pc[s]
         \/ pc[s] \in {"idle", "locking", "reading", "unlinking", "writing"} /\
            pc'[s] \in {"locking", "reading", "unlinking", "writing", "preflight"}
         \/ pc[s] = "preflight" /\ pc'[s] \in {"spawning", "releasing"}
         \/ pc[s] \in {"repairing", "checking"} /\ pc'[s] \in {"checking", "spawning"}
         \/ pc[s] \in {"preflight", "spawning", "watching", "packing", "repairing",
                       "checking"} /\ pc'[s] = "releasing"
  PROVE  Within(s)'
<1>1. Spent(s)' = Spent(s) /\ Budget(s)' = Budget(s) /\ Spent(s) \in Nat
  BY Counts DEF Spent, Budget
<1> QED BY <1>1, Counts DEF Within

(* A supervisor that ends stays within it: its locals no longer count.         *)
LEMMA WithinEnds ==
  ASSUME SupervisorAssumption, Shape, NEW s \in Supervisors, Within(s),
         child'[s].n = child[s].n,
         mem'[s] = Fresh, pc'[s] \in {"done", "dead"}
  PROVE  Within(s)'
BY Counts DEF Within, Fresh, Budget

(* BudgetInv is inductive.                                                     *)
LEMMA BudgetStep ==
  ASSUME SupervisorAssumption, Shape, BudgetInv, [Next]_vars
  PROVE  BudgetInv'
<1> SUFFICES ASSUME NEW s \in Supervisors PROVE Within(s)'
  BY DEF BudgetInv
<1>0. Within(s) /\ s \in Owners /\ s # Hand /\ mem[s] \in Locals
  BY Named DEF BudgetInv, SupervisorAssumption, Shape
<1>1. ASSUME UNCHANGED <<pc, mem>>, child'[s].n = child[s].n
      PROVE  Within(s)'
  BY <1>0, <1>1, WithinStays
<1>2. ASSUME NEW t \in Supervisors \ {s},
             Start(t) \/ Supervise(t) \/ Stall(t) \/ Interrupt(t) \/ Crash(t)
      PROVE  Within(s)'
  <2>1. pc'[s] = pc[s] /\ mem'[s] = mem[s]
    BY <1>2 DEF Start, Supervise, Stall, Interrupt, Crash, CreateLock, ReadLock,
                UnlinkLock, WriteLock, Preflight, Release, Spawn, ReadResult,
                BeginRepair, RepairReturns, CheckRepair, Go, Ended, Completed,
                RetryTransient, GiveUp, NewFailure, StopWithIncident, Shape
  <2>2. child'[s] = child[s]
    BY <1>0, <1>2, Named
       DEF Start, Supervise, Stall, Interrupt, Crash, CreateLock, ReadLock, UnlinkLock,
           WriteLock, Preflight, Release, Spawn, ReadResult, BeginRepair, RepairReturns,
           CheckRepair, Killed, Leave, Launched, Shape
  <2> QED BY <1>0, <2>1, <2>2, WithinStays
<1>3. ASSUME NEW o \in Owners,
             Dispatch(o) \/ BeginCycle(o) \/ EndRun(o) \/ ChildCrashes(o)
      PROVE  Within(s)'
  <2>1. UNCHANGED <<pc, mem>>
    BY <1>3 DEF Dispatch, TakeGate, ClearStaleRequest, SweepRequest, EndCycle,
                ReleaseGate, BeginCycle, EndRun, ChildCrashes
  <2>2. child'[s].n = child[s].n
    <3>1. ASSUME NEW code, Leave(o, code)
          PROVE  child'[s].n = child[s].n
      BY <1>0, <3>1 DEF Leave, Shape, Children
    <3>2. CASE BeginCycle(o) \/ EndCycle(o)
      BY <3>2 DEF BeginCycle, EndCycle
    <3>3. CASE ReleaseGate(o) \/ ChildCrashes(o)
      BY <3>1, <3>3 DEF ReleaseGate, ChildCrashes
    <3>4. CASE TakeGate(o)
      <4>1. CASE child' = [child EXCEPT ![o].stage = "clearing"]
        BY <1>0, <4>1 DEF Shape, Children
      <4> QED BY <3>1, <3>4, <4>1 DEF TakeGate
    <3>5. CASE ClearStaleRequest(o) \/ SweepRequest(o)
      <4>1. \E to : child' = [child EXCEPT ![o].stage = to]
        BY <3>5 DEF ClearStaleRequest, SweepRequest
      <4> QED BY <1>0, <4>1 DEF Shape, Children
    <3>6. CASE EndRun(o)
      BY <1>0, <3>6 DEF EndRun, Shape, Children
    <3> QED BY <1>3, <3>2, <3>3, <3>4, <3>5, <3>6 DEF Dispatch
  <2> QED BY <1>1, <2>1, <2>2
<1>4. ASSUME \/ \E a \in Stoppers : StopCommand(a)
             \/ AgentEnds \/ StartByHand \/ RemoveGate \/ UNCHANGED vars
      PROVE  Within(s)'
  <2>1. UNCHANGED <<pc, mem>>
    BY <1>4, StopEffects DEF AgentEnds, StartByHand, RemoveGate, vars
  <2>2. child'[s].n = child[s].n
    BY <1>0, <1>4, StopEffects DEF AgentEnds, StartByHand, RemoveGate, vars, Launched, Shape
  <2> QED BY <1>1, <2>1, <2>2
<1>5. ASSUME Start(s) \/ CreateLock(s) \/ ReadLock(s) \/ UnlinkLock(s) \/ WriteLock(s)
             \/ Preflight(s)
      PROVE  Within(s)'
  <2>1. child' = child
    BY <1>5 DEF Start, CreateLock, ReadLock, UnlinkLock, WriteLock, Preflight
  <2>2. CASE ReadLock(s) /\ Ended(s, "done")
    BY <1>0, <2>1, <2>2, WithinEnds DEF Ended, Go, Shape
  <2>3. CASE ~Ended(s, "done")
    <3>1. /\ mem'[s].retries = mem[s].retries /\ mem'[s].repairs = mem[s].repairs
      BY <1>0, <1>5, <2>3 DEF Start, CreateLock, ReadLock, UnlinkLock, WriteLock,
                              Preflight, Shape, Locals
    <3>2. \/ pc[s] \in {"idle", "locking", "reading", "unlinking", "writing"} /\
             pc'[s] \in {"locking", "reading", "unlinking", "writing", "preflight"}
          \/ pc[s] = "preflight" /\ pc'[s] \in {"spawning", "releasing"}
      BY <1>5, <2>3 DEF Start, CreateLock, ReadLock, UnlinkLock, WriteLock, Preflight,
                        Shape, Go
    <3> QED BY <1>0, <2>1, <3>1, <3>2, WithinStays
  <2>4. ReadLock(s) \/ ~Ended(s, "done")
    BY <1>5 DEF Start, CreateLock, UnlinkLock, WriteLock, Preflight, Ended, Go, Shape
  <2> QED BY <2>2, <2>3, <2>4
<1>6. ASSUME Release(s) \/ Crash(s)
      PROVE  Within(s)'
  BY <1>0, <1>6, WithinEnds DEF Release, Crash, Ended, Go, Shape
<1>7. ASSUME Spawn(s)
      PROVE  Within(s)'
  <2>1. pc[s] = "spawning" /\ pc'[s] = "watching" /\ child'[s].n = child[s].n + 1
    BY <1>0, <1>7 DEF Spawn, Go, Launched, Shape
  <2>2. mem'[s].retries = mem[s].retries /\ mem'[s].repairs = mem[s].repairs
    BY <1>0, <1>7 DEF Spawn, Shape, Locals
  <2> QED BY <1>0, <2>1, <2>2, Counts DEF Within, Spent, Budget
<1>8. ASSUME ReadResult(s)
      PROVE  Within(s)'
  <2>1. pc[s] = "watching" /\ child'[s].n = child[s].n
    BY <1>0, <1>8 DEF ReadResult, Shape, Children
  <2>2. CASE Completed(s) \/ GiveUp(s)
    BY <1>0, <2>1, <2>2, WithinStays DEF Completed, GiveUp, StopWithIncident, Go, Shape
  <2>3. CASE RetryTransient(s)
    <3>1. /\ mem'[s].retries = mem[s].retries + 1 /\ mem'[s].repairs = mem[s].repairs
          /\ mem[s].retries < MaxRetries[s] /\ pc'[s] = "spawning"
      BY <1>0, <2>3 DEF RetryTransient, Go, Shape, Locals
    <3> QED BY <1>0, <2>1, <3>1, Counts DEF Within, Spent, Budget
  <2>4. CASE NewFailure(s)
    <3>1. mem'[s].retries = mem[s].retries /\ mem'[s].repairs = mem[s].repairs
      BY <1>0, <2>4 DEF NewFailure, Shape, Locals
    <3>2. \/ pc'[s] = "releasing"
          \/ pc'[s] = "packing" /\ mem[s].repairs < MaxRepairs[s]
      BY <2>4, Counts DEF NewFailure, Go, Shape
    <3> QED BY <1>0, <2>1, <3>1, <3>2, Counts DEF Within, Spent, Budget
  <2> QED BY <1>8, <2>2, <2>3, <2>4 DEF ReadResult
<1>9. ASSUME BeginRepair(s)
      PROVE  Within(s)'
  <2>1. /\ pc[s] = "packing" /\ pc'[s] = "repairing" /\ child' = child
    BY <1>9 DEF BeginRepair, Go, Shape
  <2>2. mem'[s].retries = mem[s].retries /\ mem'[s].repairs = mem[s].repairs + 1
    BY <1>0, <1>9 DEF BeginRepair, Shape, Locals
  <2> QED BY <1>0, <2>1, <2>2, Counts DEF Within, Spent, Budget
<1>10. ASSUME RepairReturns(s) \/ CheckRepair(s)
       PROVE  Within(s)'
  <2>1. mem'[s].retries = mem[s].retries /\ mem'[s].repairs = mem[s].repairs
    <3>1. \/ \E made : mem' = [mem EXCEPT ![s].made = made]
          \/ \E blind : mem' = [mem EXCEPT ![s].blind = blind]
      BY <1>10 DEF RepairReturns, CheckRepair
    <3> QED BY <1>0, <3>1 DEF Shape, Locals
  <2>2. /\ pc[s] \in {"repairing", "checking"} /\ child' = child
        /\ pc'[s] \in {"checking", "spawning", "releasing"}
    BY <1>10 DEF RepairReturns, CheckRepair, Go, Shape
  <2> QED BY <1>0, <2>1, <2>2, WithinStays
<1>11. ASSUME Stall(s) \/ Interrupt(s)
       PROVE  Within(s)'
  <2>1. mem' = mem
    BY <1>11 DEF Stall, Interrupt, StopWithIncident
  <2>2. child'[s].n = child[s].n
    BY <1>0, <1>11 DEF Stall, Interrupt, Killed, Leave, Shape, Children
  <2>3. \/ pc' = pc
        \/ /\ pc[s] \in {"preflight", "spawning", "watching", "packing", "repairing",
                         "checking"}
           /\ pc'[s] = "releasing"
    BY <1>11 DEF Stall, Interrupt, StopWithIncident, Go, Shape
  <2> QED BY <1>0, <2>1, <2>2, <2>3, WithinStays
<1> QED BY <1>2, <1>3, <1>4, <1>5, <1>6, <1>7, <1>8, <1>9, <1>10, <1>11
        DEF Next, Supervise

(* One supervised run starts at most one dispatcher more than its retries and  *)
(* repairs together, for any budgets and any sequence of failures.             *)
THEOREM RestartsAreBounded == Spec => []BoundedRestarts
<1>1. Init => Shape /\ BudgetInv
  BY ShapeInit, BudgetInit, SupervisorAssumption
<1>2. Shape /\ BudgetInv /\ [Next]_vars => (Shape /\ BudgetInv)'
  BY ShapeStep, BudgetStep, SupervisorAssumption
<1>3. BudgetInv => BoundedRestarts
  BY DEF BudgetInv, Within, Budget, BoundedRestarts
<1> QED BY <1>1, <1>2, <1>3, PTL DEF Spec

-----------------------------------------------------------------------------
(* Types.                                                                      *)

OtherTypes ==
  /\ raced \in BOOLEAN /\ orphaned \in BOOLEAN
  /\ events \in 0..MaxEvents

LEMMA OtherTypesStep ==
  ASSUME SupervisorAssumption, OtherTypes, [Next]_vars
  PROVE  OtherTypes'
<1> USE DEF locks, repo, history
<1>1. raced' \in BOOLEAN
  <2>1. \/ UNCHANGED raced
        \/ \E s \in Supervisors : UnlinkLock(s)
    BY StopEffects
    DEF vars, Next, Start, Supervise, CreateLock, ReadLock, WriteLock, Preflight, Release,
       Spawn, ReadResult, BeginRepair, RepairReturns, CheckRepair, Stall, Interrupt, Crash,
       Dispatch, TakeGate, ClearStaleRequest, SweepRequest, EndRun, ReleaseGate, BeginCycle,
       EndCycle, ChildCrashes, AgentEnds, StartByHand, RemoveGate
  <2>2. ASSUME NEW s \in Supervisors, UnlinkLock(s) PROVE raced' \in BOOLEAN
    BY <2>2, Zenon DEF UnlinkLock
  <2> QED BY <2>1, <2>2, Zenon DEF OtherTypes
<1>2. orphaned' \in BOOLEAN
  <2>1. UNCHANGED orphaned \/ RemoveGate
    BY StopEffects
    DEF vars, Next, Start, Supervise, CreateLock, ReadLock, UnlinkLock, WriteLock,
       Preflight, Release, Spawn, ReadResult, BeginRepair, RepairReturns, CheckRepair,
       Stall, Interrupt, Crash, Dispatch, TakeGate, ClearStaleRequest, SweepRequest, EndRun,
       ReleaseGate, BeginCycle, EndCycle, ChildCrashes, AgentEnds, StartByHand
  <2>2. ASSUME RemoveGate PROVE orphaned' \in BOOLEAN
    BY <2>2, Zenon DEF RemoveGate
  <2> QED BY <2>1, <2>2, Zenon DEF OtherTypes
<1>3. events' \in 0..MaxEvents
  <2>1. \/ events' = events
        \/ events < MaxEvents /\ events' = events + 1
        \/ events # MaxEvents /\ events' = events + 1
    <3>1. ASSUME NEW left, NEW t \in Snapshots(left), t.failed
          PROVE  events # MaxEvents
      BY <3>1 DEF Snapshots
    <3>2. ASSUME NEW b, NEW a, NEW d \in Diffs(b, a), d.failed
          PROVE  events # MaxEvents
      BY <3>2 DEF Diffs
    <3>3. ASSUME NEW s \in Supervisors, BeginRepair(s)
          PROVE  events' = events \/ (events # MaxEvents /\ events' = events + 1)
      BY <3>1, <3>3 DEF BeginRepair, Spend
    <3>4. ASSUME NEW s \in Supervisors, CheckRepair(s)
          PROVE  events' = events \/ (events # MaxEvents /\ events' = events + 1)
      <4>1. PICK t \in Snapshots(dirty) :
            \E d \in IF t.failed THEN {[shown |-> Diff(mem[s].before.head, t.snap.head),
                                        failed |-> FALSE]}
                     ELSE Diffs(mem[s].before.head, t.snap.head) :
              Spend(t.failed \/ d.failed)
        BY <3>4 DEF CheckRepair
      <4> QED BY <3>1, <3>2, <4>1 DEF Spend
    <3> QED
      BY <3>3, <3>4, StopEffects
      DEF vars, Next, Start, Supervise, CreateLock, ReadLock, UnlinkLock,
       WriteLock, Preflight, Release, Spawn, ReadResult, RepairReturns,
       Stall, Interrupt, Crash, Dispatch, TakeGate, ClearStaleRequest, SweepRequest,
       Happens, EndRun, ReleaseGate, BeginCycle, EndCycle, ChildCrashes, AgentEnds,
       StartByHand, RemoveGate
  <2> QED BY <2>1 DEF OtherTypes, SupervisorAssumption
<1> QED BY <1>1, <1>2, <1>3 DEF OtherTypes

(* Every file, process and local variable has its type in every reachable      *)
(* state, for any number of supervisors and any budgets.                       *)
THEOREM TypesHold == Spec => []TypeOK
<1>1. Init => OtherTypes
  <2> SUFFICES ASSUME Init PROVE OtherTypes
    OBVIOUS
  <2>1. raced = FALSE /\ orphaned = FALSE /\ events = 0
    BY DEF Init
  <2>2. raced \in BOOLEAN /\ orphaned \in BOOLEAN
    BY <2>1, Zenon
  <2> QED BY <2>1, <2>2, SupervisorAssumption DEF OtherTypes, SupervisorAssumption
<1>2. Spec => []OtherTypes
  BY <1>1, OtherTypesStep, SupervisorAssumption, PTL DEF Spec
<1>3. Init => Shape /\ BudgetInv
  BY ShapeInit, BudgetInit, SupervisorAssumption
<1>4. Shape /\ BudgetInv /\ [Next]_vars => (Shape /\ BudgetInv)'
  BY ShapeStep, BudgetStep, SupervisorAssumption
<1>5. Gated /\ BudgetInv /\ OtherTypes => TypeOK
  <2> SUFFICES ASSUME Shape, Files, BudgetInv, OtherTypes PROVE TypeOK
    BY DEF Gated
  <2>1. /\ gate \in {Free} \cup Pids /\ request \in {Free} \cup Pids
        /\ agent \subseteq Pids
        /\ asked \subseteq Pids /\ replaced \subseteq asked /\ swept \subseteq asked
        /\ stop \in [Stoppers -> Commands]
    BY DEF Files
  <2>2. \A s \in Supervisors : /\ mem[s].repairs <= MaxRepairs[s]
                               /\ mem[s].retries <= MaxRetries[s]
    BY DEF BudgetInv, Within
  <2> QED
    BY <2>1, <2>2 DEF TypeOK, Shape, OtherTypes, Locals, Children, Commands
<1> QED BY <1>2, <1>3, <1>4, <1>5, GateAlways, PTL DEF Spec

-----------------------------------------------------------------------------
(* What a repair that is still judged has left in the repository.              *)

AtRepair == {"repairing", "checking"}

(* A change that was made since commit k: uncommitted, or in a later commit.   *)
Present(e, k) == e \in dirty \/ \E i \in (k + 1)..Len(head) : e \in head[i]

(* The inductive invariant: as long as no git command failed, a repair knows   *)
(* the commit it began at, and whatever its role made is still to be seen from *)
(* there, whoever else commits meanwhile.                                      *)
Judged(s) ==
  pc[s] \in AtRepair /\ ~mem[s].blind =>
    \E k \in 0..Len(head) :
      /\ mem[s].before.head = {k}
      /\ pc[s] = "checking" => \A e \in mem[s].made : Present(e, k)
JudgeInv == \A s \in Supervisors : Judged(s)

(* A supervisor that is not at a repair has nothing judged.                    *)
LEMMA JudgedElsewhere ==
  ASSUME NEW s \in Supervisors, pc'[s] \notin AtRepair
  PROVE  Judged(s)'
BY DEF Judged

(* What is present stays so when a commit takes it from the uncommitted        *)
(* changes, or leaves it there.                                                *)
LEMMA PresentStays ==
  ASSUME Shape, NEW commit \in SUBSET Edits, NEW leave \in SUBSET Edits,
         dirty' = (dirty \ commit) \cup leave,
         head' = IF commit = {} THEN head ELSE Append(head, commit),
         NEW k \in 0..Len(head)
  PROVE  /\ k \in 0..Len(head')
         /\ \A e : Present(e, k) \/ e \in commit \/ e \in leave => Present(e, k)'
<1>0. head \in Seq(SUBSET Edits) /\ Len(head) \in Nat
  BY DEF Shape
<1>1. CASE commit = {}
  BY <1>0, <1>1 DEF Present
<1>2. CASE commit # {}
  <2>1. /\ Len(head') = Len(head) + 1 /\ head'[Len(head) + 1] = commit
        /\ \A i \in 1..Len(head) : head'[i] = head[i]
    BY <1>0, <1>2
  <2>2. k \in 0..Len(head')
    BY <1>0, <2>1
  <2>3. ASSUME NEW e, e \in commit
        PROVE  Present(e, k)'
    <3>1. Len(head) + 1 \in (k + 1)..Len(head')
      BY <1>0, <2>1
    <3> QED BY <2>1, <2>3, <3>1 DEF Present
  <2>4. ASSUME NEW e, NEW i \in (k + 1)..Len(head), e \in head[i]
        PROVE  Present(e, k)'
    <3>1. i \in (k + 1)..Len(head') /\ head'[i] = head[i]
      BY <1>0, <2>1
    <3> QED BY <2>4, <3>1 DEF Present
  <2>5. ASSUME NEW e, e \in leave \/ e \in dirty \ commit
        PROVE  Present(e, k)'
    BY <2>5 DEF Present
  <2> QED BY <2>2, <2>3, <2>4, <2>5 DEF Present
<1> QED BY <1>1, <1>2

(* A supervisor whose repair stays where it was, while another's commits or    *)
(* changes nothing, is judged as before.                                       *)
LEMMA JudgedOther ==
  ASSUME Shape, NEW s \in Supervisors, Judged(s), mem'[s] = mem[s],
         pc'[s] \in AtRepair => pc'[s] = pc[s],
         pc'[s] \in AtRepair =>
           \/ UNCHANGED repo
           \/ \E commit, leave \in SUBSET Edits :
                /\ dirty' = (dirty \ commit) \cup leave
                /\ head' = IF commit = {} THEN head ELSE Append(head, commit)
  PROVE  Judged(s)'
<1> SUFFICES ASSUME pc'[s] \in AtRepair PROVE Judged(s)'
  BY JudgedElsewhere
<1>1. CASE UNCHANGED repo
  <2>1. \A e, k : Present(e, k)' = Present(e, k)
    BY <1>1 DEF Present, repo
  <2>2. Len(head') = Len(head)
    BY <1>1 DEF repo
  <2> QED BY <2>1, <2>2 DEF Judged
<1>2. ASSUME NEW commit \in SUBSET Edits, NEW leave \in SUBSET Edits,
             dirty' = (dirty \ commit) \cup leave,
             head' = IF commit = {} THEN head ELSE Append(head, commit)
      PROVE  Judged(s)'
  <2> SUFFICES ASSUME ~mem[s].blind
               PROVE  \E k \in 0..Len(head') :
                        /\ mem[s].before.head = {k}
                        /\ pc[s] = "checking" => \A e \in mem[s].made : Present(e, k)'
    BY DEF Judged
  <2>1. PICK k \in 0..Len(head) :
          /\ mem[s].before.head = {k}
          /\ pc[s] = "checking" => \A e \in mem[s].made : Present(e, k)
    BY DEF Judged
  <2>2. /\ k \in 0..Len(head')
        /\ \A e : Present(e, k) => Present(e, k)'
    BY <1>2, PresentStays
  <2> QED BY <2>1, <2>2
<1> QED BY <1>1, <1>2

(* JudgeInv is inductive.                                                      *)
LEMMA JudgeStep ==
  ASSUME SupervisorAssumption, Shape, JudgeInv, [Next]_vars
  PROVE  JudgeInv'
<1> SUFFICES ASSUME NEW s \in Supervisors PROVE Judged(s)'
  BY DEF JudgeInv
<1>0. Judged(s) /\ pc \in [Supervisors -> Stages] /\ mem \in [Supervisors -> Locals]
      /\ mem[s] \in Locals
  BY DEF JudgeInv, Shape
<1>1. ASSUME UNCHANGED <<pc, mem, repo>>
      PROVE  Judged(s)'
  BY <1>0, <1>1, JudgedOther
<1>2. ASSUME NEW t \in Supervisors \ {s},
             Start(t) \/ Supervise(t) \/ Stall(t) \/ Interrupt(t) \/ Crash(t)
      PROVE  Judged(s)'
  <2>1. pc'[s] = pc[s] /\ mem'[s] = mem[s]
    BY <1>0, <1>2 DEF Start, Supervise, Stall, Interrupt, Crash, CreateLock, ReadLock,
                UnlinkLock, WriteLock, Preflight, Release, Spawn, ReadResult,
                BeginRepair, RepairReturns, CheckRepair, Go, Ended, Completed,
                RetryTransient, GiveUp, NewFailure, StopWithIncident
  <2>2. pc[s] \in AtRepair =>
          /\ Found(t) = {dirty}
          /\ \A log, left : Followed(t, log, left) => head' = log /\ dirty' = left
    BY DEF Found, Followed, JudgedBeside, AtRepair
  <2>3. CASE RepairReturns(t)
    <3>1. PICK commit \in SUBSET Edits, leave \in SUBSET Edits :
            LET log == IF commit = {} THEN head ELSE Append(head, commit)
                left == (dirty \ commit) \cup leave
            IN (head' = log /\ dirty' = left) \/ Followed(t, log, left)
      BY <2>3 DEF RepairReturns
    <3> DEFINE log == IF commit = {} THEN head ELSE Append(head, commit)
               left == (dirty \ commit) \cup leave
    <3>2. pc'[s] \in AtRepair => head' = log /\ dirty' = left
      <4>1. (head' = log /\ dirty' = left) \/ Followed(t, log, left)
        BY <3>1
      <4> HIDE DEF log, left
      <4> QED BY <2>1, <2>2, <4>1
    <3> QED BY <1>0, <2>1, <3>2, JudgedOther
  <2>4. CASE CheckRepair(t) \/ BeginRepair(t)
    <3>1. pc'[s] \in AtRepair => UNCHANGED repo
      BY <2>1, <2>2, <2>4 DEF CheckRepair, BeginRepair, repo
    <3> QED BY <1>0, <2>1, <3>1, JudgedOther
  <2>5. CASE ~RepairReturns(t) /\ ~CheckRepair(t) /\ ~BeginRepair(t)
    <3>1. UNCHANGED repo
      BY <1>2, <2>5 DEF Start, Supervise, Stall, Interrupt, Crash, CreateLock, ReadLock,
                  UnlinkLock, WriteLock, Preflight, Release, Spawn, ReadResult
    <3> QED BY <1>0, <2>1, <3>1, JudgedOther
  <2> QED BY <2>3, <2>4, <2>5
<1>3. ASSUME \/ \E o \in Owners : \/ Dispatch(o) \/ BeginCycle(o) \/ EndRun(o)
                                  \/ ChildCrashes(o)
             \/ \E a \in Stoppers : StopCommand(a)
             \/ AgentEnds \/ StartByHand \/ RemoveGate \/ UNCHANGED vars
             \/ Stall(s)
      PROVE  Judged(s)'
  <2>1. UNCHANGED <<pc, mem, repo>>
    BY <1>3, StopEffects
       DEF Dispatch, TakeGate, ClearStaleRequest, SweepRequest, EndCycle, ReleaseGate,
           BeginCycle, EndRun, ChildCrashes, AgentEnds, StartByHand, RemoveGate, Stall,
           vars, repo
  <2> QED BY <1>1, <2>1
<1>4. ASSUME \/ Start(s) \/ CreateLock(s) \/ ReadLock(s) \/ UnlinkLock(s)
             \/ WriteLock(s) \/ Preflight(s) \/ Release(s) \/ Spawn(s) \/ ReadResult(s)
             \/ Interrupt(s) \/ Crash(s) \/ CheckRepair(s)
      PROVE  Judged(s)'
  <2>1. \E stage \in Stages \ AtRepair : Go(s, stage)
    BY <1>4 DEF Start, CreateLock, ReadLock, UnlinkLock, WriteLock, Preflight, Release,
                Spawn, ReadResult, Interrupt, Crash, Ended, Completed, RetryTransient,
                GiveUp, NewFailure, StopWithIncident, CheckRepair, Stages, AtRepair
  <2>2. pc'[s] \notin AtRepair
    BY <1>0, <2>1 DEF Go
  <2> QED BY <2>2, JudgedElsewhere
<1>5. ASSUME BeginRepair(s)
      PROVE  Judged(s)'
  <2>1. PICK t \in Snapshots(dirty') :
          mem' = [mem EXCEPT ![s].before = t.snap, ![s].repairs = @ + 1,
                             ![s].blind = t.failed]
    BY <1>5 DEF BeginRepair
  <2>2. pc'[s] = "repairing" /\ head' = head
    BY <1>0, <1>5 DEF BeginRepair, Go, repo
  <2>3. ~t.failed => t.snap.head = {Len(head)}
    BY DEF Snapshots
  <2>4. mem'[s].before = t.snap /\ mem'[s].blind = t.failed
    BY <1>0, <2>1 DEF Locals
  <2>5. Len(head) \in 0..Len(head)
    BY DEF Shape
  <2> QED BY <2>2, <2>3, <2>4, <2>5 DEF Judged
<1>6. ASSUME RepairReturns(s)
      PROVE  Judged(s)'
  <2>1. PICK commit \in SUBSET Edits, leave \in SUBSET Edits :
          LET log == IF commit = {} THEN head ELSE Append(head, commit)
              left == (dirty \ commit) \cup leave
          IN /\ \/ Go(s, "checking") /\ head' = log /\ dirty' = left
                \/ Go(s, "releasing")
             /\ mem' = [mem EXCEPT ![s].made = commit \cup leave]
    BY <1>6 DEF RepairReturns
  <2>2. CASE Go(s, "releasing")
    BY <1>0, <2>2, JudgedElsewhere DEF Go, AtRepair
  <2>3. CASE /\ Go(s, "checking")
             /\ dirty' = (dirty \ commit) \cup leave
             /\ head' = IF commit = {} THEN head ELSE Append(head, commit)
    <3>1. /\ mem'[s].made = commit \cup leave
          /\ mem'[s].before = mem[s].before /\ mem'[s].blind = mem[s].blind
      BY <1>0, <2>1 DEF Locals
    <3>2. pc[s] \in AtRepair
      BY <1>6 DEF RepairReturns, AtRepair
    <3> SUFFICES ASSUME ~mem[s].blind
                 PROVE  \E k \in 0..Len(head') :
                          /\ mem[s].before.head = {k}
                          /\ \A e \in commit \cup leave : Present(e, k)'
      BY <3>1 DEF Judged
    <3>3. PICK k \in 0..Len(head) : mem[s].before.head = {k}
      BY <1>0, <3>2 DEF Judged
    <3>4. /\ k \in 0..Len(head')
          /\ \A e : e \in commit \/ e \in leave => Present(e, k)'
      BY <2>1, <2>3, PresentStays
    <3> QED BY <3>3, <3>4
  <2> QED BY <2>1, <2>2, <2>3
<1> QED BY <1>2, <1>3, <1>4, <1>5, <1>6 DEF Next, Supervise

(* What git names of a change outside the scope, but for a move, is outside.   *)
LEMMA ShownOutOfScope ==
  ASSUME NEW E, NEW e \in Edits \ {"docs", "moved"}, e \in E
  PROVE  e \in Shown(E) /\ e \in OutOfScope(Shown(E))
<1>1. e \in Shown(E)
  <2>1. e = IF e = "moved" THEN "docs" ELSE e
    OBVIOUS
  <2> QED BY <2>1, Zenon DEF Shown
<1> QED BY <1>1 DEF OutOfScope

(* A repair whose git commands all worked is followed by a restart only when   *)
(* what it made is in scope, but for files moved into it and for places that   *)
(* were dirty before: for any number of supervisors, repairs at once included. *)
THEOREM CleanRestarts == Spec => CleanRestart
<1> DEFINE Clean == \A s \in Supervisors :
      pc[s] = "checking" /\ pc'[s] = "spawning" =>
        \/ mem'[s].blind
        \/ OutOfScope(mem[s].made) \subseteq {"moved"} \cup mem[s].before.dirty
<1>1. Shape /\ JudgeInv /\ [Next]_vars => Clean
  <2> SUFFICES ASSUME Shape, JudgeInv, [Next]_vars, NEW s \in Supervisors,
                      pc[s] = "checking", pc'[s] = "spawning", ~mem'[s].blind,
                      NEW e \in OutOfScope(mem[s].made), e # "moved"
               PROVE  e \in mem[s].before.dirty
    OBVIOUS
  <2>0. mem[s] \in Locals /\ pc \in [Supervisors -> Stages]
        /\ mem \in [Supervisors -> Locals]
    BY DEF Shape
  <2>1. CheckRepair(s)
    <3>1. pc'[s] # pc[s] /\ pc' # pc
      OBVIOUS
    <3>2. ASSUME NEW t \in Supervisors \ {s},
                 Start(t) \/ Supervise(t) \/ Stall(t) \/ Interrupt(t) \/ Crash(t)
          PROVE  pc'[s] = pc[s]
      BY <2>0, <3>2
         DEF Start, Supervise, Stall, Interrupt, Crash, CreateLock, ReadLock, UnlinkLock,
             WriteLock, Preflight, Release, Spawn, ReadResult, BeginRepair, RepairReturns,
             CheckRepair, Go, Ended, Completed, RetryTransient, GiveUp, NewFailure,
             StopWithIncident
    <3>3. ~(\E o \in Owners : \/ Dispatch(o) \/ BeginCycle(o) \/ EndRun(o)
                              \/ ChildCrashes(o))
      BY <3>1 DEF Dispatch, TakeGate, ClearStaleRequest, SweepRequest, EndCycle,
                  ReleaseGate, BeginCycle, EndRun, ChildCrashes
    <3>4. ~(\/ \E a \in Stoppers : StopCommand(a)
            \/ AgentEnds \/ StartByHand \/ RemoveGate \/ UNCHANGED vars)
      BY <3>1, StopEffects DEF AgentEnds, StartByHand, RemoveGate, vars
    <3>5. ~(Start(s) \/ CreateLock(s) \/ ReadLock(s) \/ UnlinkLock(s) \/ WriteLock(s)
            \/ Preflight(s) \/ Release(s) \/ Spawn(s) \/ ReadResult(s) \/ BeginRepair(s)
            \/ RepairReturns(s) \/ Stall(s) \/ Interrupt(s) \/ Crash(s))
      BY <2>0 DEF Start, CreateLock, ReadLock, UnlinkLock, WriteLock, Preflight, Release,
                Spawn, ReadResult, BeginRepair, RepairReturns, Stall, Interrupt, Crash,
                StopWithIncident, Ended, Go
    <3> QED BY <3>1, <3>2, <3>3, <3>4, <3>5 DEF Next, Supervise
  <2>2. PICK t \in Snapshots(dirty) :
          \E d \in IF t.failed THEN {[shown |-> Diff(mem[s].before.head, t.snap.head),
                                      failed |-> FALSE]}
                   ELSE Diffs(mem[s].before.head, t.snap.head) :
            /\ OutOfScope(d.shown) = {}
            /\ OutOfScope(t.snap.dirty \ mem[s].before.dirty) = {}
            /\ mem' = [mem EXCEPT ![s].blind = @ \/ t.failed \/ d.failed]
    <3>1. ~Go(s, "releasing")
      BY <2>0 DEF Go
    <3> QED BY <2>1, <3>1, Zenon DEF CheckRepair
  <2>3. PICK d \in IF t.failed THEN {[shown |-> Diff(mem[s].before.head, t.snap.head),
                                      failed |-> FALSE]}
                   ELSE Diffs(mem[s].before.head, t.snap.head) :
            /\ OutOfScope(d.shown) = {}
            /\ OutOfScope(t.snap.dirty \ mem[s].before.dirty) = {}
            /\ mem' = [mem EXCEPT ![s].blind = @ \/ t.failed \/ d.failed]
    BY <2>2
  <2>4. ~mem[s].blind /\ ~t.failed /\ ~d.failed
    <3>1. mem'[s].blind = (mem[s].blind \/ t.failed \/ d.failed)
      BY <2>0, <2>3 DEF Locals
    <3> QED BY <3>1
  <2>5. t.snap.head = {Len(head)} /\ t.snap.dirty = Shown(dirty)
    BY <2>4 DEF Snapshots
  <2>6. d.shown = Diff(mem[s].before.head, t.snap.head)
    <3>1. d \in Diffs(mem[s].before.head, t.snap.head)
      BY <2>3, <2>4
    <3> QED BY <2>4, <3>1 DEF Diffs
  <2>7. e \in Edits \ {"docs", "moved"} /\ e \in mem[s].made
    BY <2>0 DEF OutOfScope, Locals
  <2>8. PICK k \in 0..Len(head) : mem[s].before.head = {k} /\ Present(e, k)
    BY <2>4, <2>7 DEF JudgeInv, Judged, AtRepair
  <2>9. CASE e \in dirty
    <3>1. e \in Shown(dirty) /\ e \notin {"docs"}
      BY <2>7, <2>9, ShownOutOfScope
    <3>2. e \notin OutOfScope(Shown(dirty) \ mem[s].before.dirty)
      BY <2>3, <2>5
    <3> QED BY <3>1, <3>2 DEF OutOfScope
  <2>10. CASE \E i \in (k + 1)..Len(head) : e \in head[i]
    <3>1. PICK i \in (k + 1)..Len(head) : e \in head[i]
      BY <2>10
    <3>2. i \in DOMAIN head /\ k < i /\ i <= Len(head)
      BY <2>8, <3>1 DEF Shape
    <3>3. e \in Shown(head[i])
      BY <2>7, <3>1, ShownOutOfScope
    <3>4. e \in Diff({k}, {Len(head)})
      BY <3>2, <3>3 DEF Diff
    <3>5. e \notin OutOfScope(Diff({k}, {Len(head)}))
      BY <2>3, <2>5, <2>6, <2>8
    <3> QED BY <2>7, <3>4, <3>5 DEF OutOfScope
  <2> QED BY <2>8, <2>9, <2>10 DEF Present
<1>2. Init => Shape /\ JudgeInv
  BY ShapeInit, JudgedElsewhere DEF Init, JudgeInv, Judged, AtRepair
<1>3. Shape /\ JudgeInv /\ [Next]_vars => (Shape /\ JudgeInv)'
  BY ShapeStep, JudgeStep, SupervisorAssumption
<1>4. Shape /\ JudgeInv /\ [Next]_vars => [Clean]_vars
  BY <1>1
<1> QED BY <1>2, <1>3, <1>4, PTL DEF Spec, CleanRestart
===============================================================================
