----------------------------- MODULE Supervisor -----------------------------
(* The opt-in supervisor (supervisor.py) around the dispatcher process         *)
(* (__main__.py): its instance lock, the child dispatchers it starts, retries, *)
(* has repaired and restarts, and the stop request (stop_request.py) that ends *)
(* a dispatcher.  Every supervisor and every `llm-handoff stop` runs once, a   *)
(* start is a new one; Hand stands for a dispatcher started without a          *)
(* supervisor.  Processes interleave at every step on a file, at every git     *)
(* call and at every wait.                                                     *)
EXTENDS Naturals, Sequences, FiniteSets

CONSTANTS
  Supervisors,   \* supervisor processes
  Hand,          \* who starts a dispatcher by hand
  Stoppers,      \* `llm-handoff stop` processes
  Ghost,         \* a process that died before the model starts
  Failures,      \* fingerprints of repairable failures
  LockHeld,      \* the fingerprint of a child that found .dispatch.lock taken
  MaxRepairs,    \* each one's SupervisorConfig.max_repair_attempts
  MaxRetries,    \* each one's SupervisorConfig.max_transient_retries
  Posix,         \* TRUE: the tree kill is a killpg; FALSE: taskkill /T
  MaxEdits,      \* bound: kinds of change one repair commits, and leaves
  MaxEvents      \* bound: failed git commands, kills, crashes, interrupts and
                 \* what people do

Owners == Supervisors \cup {Hand}

ASSUME SupervisorAssumption ==
  /\ Hand \notin Supervisors /\ Ghost \notin Owners
  /\ LockHeld \notin Failures
  /\ {"ok", "transient", "fatal"} \cap (Failures \cup {LockHeld}) = {}
  /\ MaxRepairs \in [Supervisors -> Nat] /\ MaxRetries \in [Supervisors -> Nat]
  /\ MaxEdits \in Nat /\ MaxEvents \in Nat
  /\ Posix \in BOOLEAN

Free == [owner |-> "nobody"]
Unknown == [owner |-> "unreadable"]  \* a lock file whose pid cannot be read

(* What a change is.  "moved" takes a file out of the product code into docs/: *)
(* git names only its new place, in the diff and in the status.                *)
Edits == {"docs", "code", "moved"}
Shown(edits) == {IF e = "moved" THEN "docs" ELSE e : e \in edits}
OutOfScope(edits) == edits \ {"docs"}

Codes == {"ok", "transient", "fatal"} \cup Failures \cup {LockHeld}
Stages == {"idle", "locking", "reading", "unlinking", "writing", "preflight",
           "spawning", "watching", "packing", "repairing", "checking",
           "releasing", "done", "dead"}
Managing == {"writing", "preflight", "spawning", "watching", "packing",
             "repairing", "checking", "releasing"}
ChildStages == {"none", "starting", "clearing", "sweeping", "cycling",
                "leaving", "gone"}
Looking == {"clearing", "sweeping", "cycling"}  \* may still see a request
PastLock == Looking \cup {"leaving"}

VARIABLES
  lock,      \* dispatch-supervised.lock
  gate,      \* .dispatch.lock
  request,   \* the stop-request file
  pc,        \* where a supervisor is
  mem,       \* its locals; of its current repair also, as history, what the role
             \* changed (made) and whether a git command failed (blind)
  child,     \* the dispatcher an owner started last
  stop,      \* where a stop command is, and the pid it read in .dispatch.lock
  agent,     \* the dispatchers that have an agent process at work
  head,      \* what the commits of the repair roles changed, in order
  dirty,     \* uncommitted changes
  raced,     \* history: a start removed a lock it had not found stale
  orphaned,  \* history: a person removed the lock of a dispatcher that had died
             \* while the agent of that dispatcher was still at work
  asked,     \* history: the dispatchers a stop command wrote its request for;
  replaced,  \* of these, whose request a stop command of another run replaced,
  swept,     \* and whose was swept as the stale one that had been there before
  events     \* bounded by MaxEvents

vars == <<lock, gate, request, pc, mem, child, stop, agent, head, dirty,
          raced, orphaned, asked, replaced, swept, events>>
locks == <<lock, gate, request>>
repo == <<head, dirty>>
stops == <<stop, asked, replaced, swept>>
history == <<raced, orphaned, events>>

NoSnap == [head |-> {}, dirty |-> {}]
Fresh == [saw |-> Free, retries |-> 0, repairs |-> 0, seen |-> {}, before |-> NoSnap,
          made |-> {}, blind |-> FALSE]

(* A dispatcher process: [owner, n] is its pid.                                *)
Pid(o) == [owner |-> o, n |-> child[o].n]
Alive(o) == child[o].stage \notin {"none", "gone"}
Runs(pid) == \E o \in Owners : Alive(o) /\ Pid(o) = pid

Init ==
  /\ lock \in {Free, [owner |-> Ghost, written |-> TRUE],
               [owner |-> Ghost, written |-> FALSE]}
  /\ gate \in {Free, [owner |-> Ghost, n |-> 0]}
  /\ request \in {Free, gate}
  /\ pc = [s \in Supervisors |-> "idle"]
  /\ mem = [s \in Supervisors |-> Fresh]
  /\ child = [o \in Owners |-> [stage |-> "none", n |-> 0, code |-> "ok"]]
  /\ stop = [a \in Stoppers |-> [at |-> "idle", pid |-> Free]]
  /\ agent = {}
  /\ head = <<>>
  /\ dirty = {}
  /\ raced = FALSE /\ orphaned = FALSE /\ events = 0
  /\ asked = {} /\ replaced = {} /\ swept = {}

Happens ==
  /\ events < MaxEvents
  /\ events' = events + 1

-----------------------------------------------------------------------------
(* The supervisor's lock.                                                      *)

Go(s, stage) == pc' = [pc EXCEPT ![s] = stage]

(* A process that ends takes its locals with it.                               *)
Ended(s, stage) ==
  /\ Go(s, stage)
  /\ mem' = [mem EXCEPT ![s] = Fresh]

Start(s) ==
  /\ pc[s] = "idle"
  /\ Go(s, "locking")
  /\ UNCHANGED <<locks, mem, child, stops, agent, repo, history>>

(* os.open(O_CREAT | O_EXCL): either the file is created, still empty, or      *)
(* somebody's is there.                                                        *)
CreateLock(s) ==
  /\ pc[s] = "locking"
  /\ \/ /\ lock = Free
        /\ lock' = [owner |-> s, written |-> FALSE]
        /\ Go(s, "writing")
     \/ /\ lock # Free
        /\ Go(s, "reading")
        /\ UNCHANGED lock
  /\ UNCHANGED <<gate, request, mem, child, stops, agent, repo, history>>

Running(o) == o \in Supervisors /\ pc[o] \notin {"idle", "done", "dead"}

\* Mutant: whether the process in the lock runs is not asked.
BugReadLock(s) ==
  /\ pc[s] = "reading"
  /\ IF lock = Free \/ ~lock.written THEN Ended(s, "done")
     ELSE mem' = [mem EXCEPT ![s].saw = lock] /\ Go(s, "unlinking")
  /\ UNCHANGED <<locks, child, stops, agent, repo, history>>

(* A lock without a pid, or of a process that runs, refuses the start.  A file *)
(* that is gone by now reads as one without a pid.                             *)
ReadLock(s) ==
  LET found == IF lock = Free \/ ~lock.written THEN Unknown ELSE lock
  IN /\ pc[s] = "reading"
     /\ \/ /\ found = Unknown \/ Running(found.owner)
           /\ Ended(s, "done")
        \/ /\ found # Unknown /\ ~Running(found.owner)
           /\ mem' = [mem EXCEPT ![s].saw = found]
           /\ Go(s, "unlinking")
     /\ UNCHANGED <<locks, child, stops, agent, repo, history>>

(* lock_path.unlink() names the file, not what was read in it.                 *)
UnlinkLock(s) ==
  /\ pc[s] = "unlinking"
  /\ lock' = Free
  /\ raced' = (raced \/ lock \notin {Free, mem[s].saw})
  /\ Go(s, "locking")
  /\ UNCHANGED <<gate, request, mem, child, stops, agent, repo, orphaned, events>>

WriteLock(s) ==
  /\ pc[s] = "writing"
  /\ lock' = IF lock = Free \/ lock.owner # s THEN lock
             ELSE [lock EXCEPT !.written = TRUE]
  /\ Go(s, "preflight")
  /\ UNCHANGED <<gate, request, mem, child, stops, agent, repo, history>>

Preflight(s) ==
  /\ pc[s] = "preflight"
  /\ Go(s, "spawning") \/ Go(s, "releasing")
  /\ UNCHANGED <<locks, mem, child, stops, agent, repo, history>>

(* Only the owner whose token is in the file takes it away.                    *)
Release(s) ==
  /\ pc[s] = "releasing"
  /\ lock' = IF lock = [owner |-> s, written |-> TRUE] THEN Free ELSE lock
  /\ Ended(s, "done")
  /\ UNCHANGED <<gate, request, child, stops, agent, repo, history>>

-----------------------------------------------------------------------------
(* The dispatcher process: __main__._run_dispatch around the loop.             *)

Launched(o) ==
  child' = [child EXCEPT ![o] = [stage |-> "starting", n |-> @.n + 1, code |-> "ok"]]

StartByHand ==
  /\ Happens
  /\ child[Hand].stage = "none"
  /\ Launched(Hand)
  /\ UNCHANGED <<locks, pc, mem, stops, agent, repo, raced, orphaned>>

Leave(o, code) == child' = [child EXCEPT ![o].stage = "gone", ![o].code = code]

\* Mutant: the lock of a dispatcher that died is taken over.
BugTakeOverGate(o) ==
  /\ child[o].stage = "starting"
  /\ \/ /\ gate = Free \/ ~Runs(gate)
        /\ gate' = Pid(o)
        /\ child' = [child EXCEPT ![o].stage = "clearing"]
     \/ gate # Free /\ Runs(gate) /\ Leave(o, LockHeld) /\ UNCHANGED gate
  /\ UNCHANGED <<lock, request, pc, mem, stops, agent, repo, history>>

\* Mutant: a refused dispatcher releases the lock as well.
BugTakeGate(o) ==
  /\ child[o].stage = "starting"
  /\ \/ /\ gate = Free
        /\ gate' = Pid(o)
        /\ child' = [child EXCEPT ![o].stage = "clearing"]
     \/ gate # Free /\ Leave(o, LockHeld) /\ gate' = Free
  /\ UNCHANGED <<lock, request, pc, mem, stops, agent, repo, history>>

TakeGate(o) ==
  /\ child[o].stage = "starting"
  /\ \/ /\ gate = Free
        /\ gate' = Pid(o)
        /\ child' = [child EXCEPT ![o].stage = "clearing"]
     \/ gate # Free /\ Leave(o, LockHeld) /\ UNCHANGED gate
  /\ UNCHANGED <<lock, request, pc, mem, stops, agent, repo, history>>

\* Mutant: the request goes whichever run it names.
BugClearStaleRequest(o) ==
  /\ child[o].stage = "clearing"
  /\ request' = Free
  /\ child' = [child EXCEPT ![o].stage = "cycling"]
  /\ UNCHANGED <<lock, gate, pc, mem, stops, agent, repo, history>>

(* The pid in the request is read; one for another run is to go.               *)
ClearStaleRequest(o) ==
  /\ child[o].stage = "clearing"
  /\ child' = [child EXCEPT ![o].stage =
                  IF request \in {Free, Pid(o)} THEN "cycling" ELSE "sweeping"]
  /\ UNCHANGED <<locks, pc, mem, stops, agent, repo, history>>

(* The unlink names the file, not the request that was read in it.             *)
SweepRequest(o) ==
  /\ child[o].stage = "sweeping"
  /\ request' = Free
  /\ swept' = swept \cup ({request} \cap asked)
  /\ child' = [child EXCEPT ![o].stage = "cycling"]
  /\ UNCHANGED <<lock, gate, pc, mem, stop, asked, replaced, agent, repo, history>>

(* The loop looks for a request where no agent runs.                           *)
BeginCycle(o) ==
  /\ child[o].stage = "cycling" /\ Pid(o) \notin agent
  /\ request # Pid(o)
  /\ agent' = agent \cup {Pid(o)}
  /\ UNCHANGED <<locks, pc, mem, child, stops, repo, history>>

EndCycle(o) ==
  /\ child[o].stage = "cycling" /\ Pid(o) \in agent
  /\ agent' = agent \ {Pid(o)}
  /\ UNCHANGED <<locks, pc, mem, child, stops, repo, history>>

(* The run ends at a request, or on its own as it may; the finally blocks      *)
(* clear the request, then release the lock.  Nobody reads how Hand's run ends.*)
EndRun(o) ==
  /\ child[o].stage = "cycling" /\ Pid(o) \notin agent
  /\ \E code \in IF request = Pid(o) \/ o = Hand THEN {"ok"} ELSE Codes \ {LockHeld} :
       child' = [child EXCEPT ![o].stage = "leaving", ![o].code = code]
  /\ request' = Free
  /\ UNCHANGED <<lock, gate, pc, mem, stops, agent, repo, history>>

ReleaseGate(o) ==
  /\ child[o].stage = "leaving"
  /\ gate' = Free
  /\ Leave(o, child[o].code)
  /\ UNCHANGED <<lock, request, pc, mem, stops, agent, repo, history>>

(* On POSIX the process group of the child goes; an agent it started is in a   *)
(* session, so in a group, of its own.  On Windows taskkill walks the tree,    *)
(* unless it fails or times out: then the child alone goes.  Nobody removes    *)
(* the locks of the killed.                                                    *)
Killed(o, code) ==
  /\ Leave(o, code)
  /\ agent' \in {agent} \cup IF Posix THEN {} ELSE {agent \ {Pid(o)}}

AgentEnds ==
  /\ \E pid \in agent : ~Runs(pid) /\ agent' = agent \ {pid}
  /\ UNCHANGED <<locks, pc, mem, child, stops, repo, history>>

ChildCrashes(o) ==
  /\ Happens
  /\ child[o].stage \in {"starting"} \cup Looking
  /\ \E f \in Failures : Leave(o, f)
  /\ UNCHANGED <<locks, pc, mem, stops, agent, repo, raced, orphaned>>

(* A person takes a dead dispatcher's lock away, as the refusal asks.          *)
RemoveGate ==
  /\ Happens
  /\ gate # Free /\ ~Runs(gate)
  /\ gate' = Free
  /\ orphaned' = (orphaned \/ gate \in agent)
  /\ UNCHANGED <<lock, request, pc, mem, child, stops, agent, repo, raced>>

-----------------------------------------------------------------------------
(* `llm-handoff stop` (stop_command).                                          *)

StopOver(a) == stop' = [stop EXCEPT ![a] = [at |-> "done", pid |-> Free]]

StopReads(a) ==
  /\ Happens
  /\ stop[a].at = "idle"
  /\ IF gate = Free THEN StopOver(a)
     ELSE stop' = [stop EXCEPT ![a] = [at |-> "checking", pid |-> gate]]
  /\ UNCHANGED <<locks, pc, mem, child, asked, replaced, swept, agent, repo,
                 raced, orphaned>>

StopChecks(a) ==
  /\ stop[a].at = "checking"
  /\ IF Runs(stop[a].pid) THEN stop' = [stop EXCEPT ![a].at = "writing"] ELSE StopOver(a)
  /\ UNCHANGED <<locks, pc, mem, child, asked, replaced, swept, agent, repo, history>>

(* Git does not ignore the file: nothing is written.                           *)
StopRefused(a) ==
  /\ stop[a].at = "writing"
  /\ StopOver(a)
  /\ UNCHANGED <<locks, pc, mem, child, asked, replaced, swept, agent, repo, history>>

(* request_stop writes over what is there, whichever run it names and whether  *)
(* or not the one it is for still runs.                                        *)
StopWrites(a) ==
  LET pid == stop[a].pid
  IN /\ stop[a].at = "writing"
     /\ request' = pid
     /\ asked' = asked \cup {pid}
     /\ replaced' = (replaced \cup IF Runs(pid) THEN {} ELSE {request} \cap asked) \ {pid}
     /\ swept' = swept \ {pid}
     /\ StopOver(a)
     /\ UNCHANGED <<lock, gate, pc, mem, child, agent, repo, history>>

-----------------------------------------------------------------------------
(* _run_supervised_dispatch_locked.                                            *)

(* Commits and uncommitted changes are followed while a repair is judged; what *)
(* dispatchers and people make of the checkout before and after is open.       *)
JudgedBeside(s) == \E t \in Supervisors \ {s} : pc[t] \in {"repairing", "checking"}
Found(s) == IF JudgedBeside(s) THEN {dirty} ELSE {{}, {"code"}}
Followed(s, commits, left) ==
  /\ head' = IF JudgedBeside(s) THEN commits ELSE <<>>
  /\ dirty' = IF JudgedBeside(s) THEN left ELSE {}

(* A snapshot: a git command that fails leaves out what it was to say; a head  *)
(* is the set of the number that names it.                                     *)
Snapshots(uncommitted) ==
  LET snap == [head |-> {Len(head)}, dirty |-> Shown(uncommitted)]
  IN {[snap |-> snap, failed |-> FALSE]}
     \cup IF events = MaxEvents THEN {}
          ELSE {[snap |-> [snap EXCEPT !.head = {}], failed |-> TRUE],
                [snap |-> [snap EXCEPT !.dirty = {}], failed |-> TRUE]}

Spend(failed) == events' = IF failed THEN events + 1 ELSE events

Spawn(s) ==
  /\ pc[s] = "spawning"
  /\ Launched(s)
  /\ mem' = [mem EXCEPT ![s].before = NoSnap, ![s].made = {}, ![s].blind = FALSE]
  /\ Go(s, "watching")
  /\ UNCHANGED <<locks, stops, agent, repo, history>>

(* No output for the stall timeout: the tree is killed, exit 124.              *)
Stall(s) ==
  /\ Happens
  /\ pc[s] = "watching" /\ Alive(s)
  /\ Killed(s, "fatal")
  /\ UNCHANGED <<locks, pc, mem, stops, repo, raced, orphaned>>

StopWithIncident(s) ==
  /\ Go(s, "releasing")
  /\ UNCHANGED mem

Completed(s) ==
  /\ child[s].code = "ok"
  /\ Go(s, "releasing")
  /\ UNCHANGED mem

\* Mutant: the retry is not counted.
BugRetryTransient(s) ==
  /\ child[s].code = "transient" /\ mem[s].retries < MaxRetries[s]
  /\ Go(s, "spawning")
  /\ UNCHANGED mem

RetryTransient(s) ==
  /\ child[s].code = "transient" /\ mem[s].retries < MaxRetries[s]
  /\ mem' = [mem EXCEPT ![s].retries = @ + 1]
  /\ Go(s, "spawning")

GiveUp(s) ==
  /\ \/ child[s].code = "fatal"
     \/ child[s].code = "transient" /\ mem[s].retries >= MaxRetries[s]
     \/ child[s].code \in mem[s].seen
  /\ StopWithIncident(s)

\* Mutant: one repair too many.
BugNewFailure(s) ==
  LET f == child[s].code
  IN /\ f \in (Failures \cup {LockHeld}) \ mem[s].seen
     /\ mem' = [mem EXCEPT ![s].seen = @ \cup {f}]
     /\ Go(s, IF mem[s].repairs > MaxRepairs[s] THEN "releasing" ELSE "packing")

NewFailure(s) ==
  LET f == child[s].code
  IN /\ f \in (Failures \cup {LockHeld}) \ mem[s].seen
     /\ mem' = [mem EXCEPT ![s].seen = @ \cup {f}]
     /\ Go(s, IF mem[s].repairs >= MaxRepairs[s] THEN "releasing" ELSE "packing")

ReadResult(s) ==
  /\ pc[s] = "watching" /\ child[s].stage = "gone"
  /\ Completed(s) \/ RetryTransient(s) \/ GiveUp(s) \/ NewFailure(s)
  /\ child' = [child EXCEPT ![s].code = "ok"]
  /\ UNCHANGED <<locks, stops, agent, repo, history>>

(* The snapshot before, the failure packet, then the repair role.              *)
BeginRepair(s) ==
  /\ pc[s] = "packing"
  /\ dirty' \in Found(s)
  /\ \E t \in Snapshots(dirty') :
       /\ mem' = [mem EXCEPT ![s].before = t.snap, ![s].repairs = @ + 1,
                             ![s].blind = t.failed]
       /\ Spend(t.failed)
  /\ Go(s, "repairing")
  /\ UNCHANGED <<locks, child, stops, agent, head, raced, orphaned>>

(* The role edits files, commits some changes and leaves others, and fails or  *)
(* not; a failed repair is not looked at.                                      *)
RepairReturns(s) ==
  /\ pc[s] = "repairing"
  /\ \E commit, leave \in SUBSET Edits :
       /\ Cardinality(commit) <= MaxEdits /\ Cardinality(leave) <= MaxEdits
       /\ LET log == IF commit = {} THEN head ELSE Append(head, commit)
              left == (dirty \ commit) \cup leave
          IN \/ Go(s, "checking") /\ head' = log /\ dirty' = left
             \/ Go(s, "releasing") /\ Followed(s, log, left)
       /\ mem' = [mem EXCEPT ![s].made = commit \cup leave]
  /\ UNCHANGED <<locks, child, stops, agent, history>>

(* git diff --name-only before..after; a diff that cannot be had is empty.     *)
Diff(before, after) ==
  UNION {Shown(head[i]) : i \in {k \in DOMAIN head :
           \E b \in before, a \in after : b < k /\ k <= a}}

Diffs(before, after) ==
  {[shown |-> Diff(before, after), failed |-> FALSE]}
  \cup IF events = MaxEvents THEN {} ELSE {[shown |-> {}, failed |-> TRUE]}

\* Mutant: what the repair role left uncommitted is not looked at.
BugCheckRepair(s) ==
  /\ pc[s] = "checking"
  /\ \E t \in Snapshots(dirty) :
     \E d \in IF t.failed THEN {[shown |-> Diff(mem[s].before.head, t.snap.head),
                                 failed |-> FALSE]}
              ELSE Diffs(mem[s].before.head, t.snap.head) :
       /\ IF t.snap.head = mem[s].before.head \/ OutOfScope(d.shown) # {}
          THEN Go(s, "releasing")
          ELSE Go(s, "spawning")
       /\ mem' = [mem EXCEPT ![s].blind = @ \/ t.failed \/ d.failed]
       /\ Spend(t.failed \/ d.failed)
  /\ Followed(s, head, dirty)
  /\ UNCHANGED <<locks, child, stops, agent, raced, orphaned>>

CheckRepair(s) ==
  /\ pc[s] = "checking"
  /\ \E t \in Snapshots(dirty) :
     \E d \in IF t.failed THEN {[shown |-> Diff(mem[s].before.head, t.snap.head),
                                 failed |-> FALSE]}
              ELSE Diffs(mem[s].before.head, t.snap.head) :
       /\ IF \/ t.snap.head = mem[s].before.head
             \/ OutOfScope(d.shown) # {}
             \/ OutOfScope(t.snap.dirty \ mem[s].before.dirty) # {}
          THEN Go(s, "releasing")
          ELSE Go(s, "spawning")
       /\ mem' = [mem EXCEPT ![s].blind = @ \/ t.failed \/ d.failed]
       /\ Spend(t.failed \/ d.failed)
  /\ Followed(s, head, dirty)
  /\ UNCHANGED <<locks, child, stops, agent, raced, orphaned>>

(* Ctrl+C or an exception: the child's tree is killed, the lock released.      *)
Interrupt(s) ==
  /\ Happens
  /\ pc[s] \in {"preflight", "spawning", "watching", "packing", "repairing", "checking"}
  /\ IF pc[s] = "watching" /\ Alive(s) THEN Killed(s, "fatal")
     ELSE UNCHANGED <<child, agent>>
  /\ StopWithIncident(s)
  /\ UNCHANGED <<locks, stops, repo, raced, orphaned>>

(* The supervisor is killed: its lock stays, its child lives on.               *)
Crash(s) ==
  /\ Happens
  /\ pc[s] \in Managing
  /\ Ended(s, "dead")
  /\ UNCHANGED <<locks, child, stops, agent, repo, raced, orphaned>>

-----------------------------------------------------------------------------
Supervise(s) ==
  \/ CreateLock(s) \/ ReadLock(s) \/ UnlinkLock(s) \/ WriteLock(s)
  \/ Preflight(s) \/ Release(s) \/ Spawn(s) \/ ReadResult(s)
  \/ BeginRepair(s) \/ RepairReturns(s) \/ CheckRepair(s)

Dispatch(o) ==
  \/ TakeGate(o) \/ ClearStaleRequest(o) \/ SweepRequest(o)
  \/ EndCycle(o) \/ ReleaseGate(o)

StopCommand(a) == StopReads(a) \/ StopChecks(a) \/ StopRefused(a) \/ StopWrites(a)

Next ==
  \/ \E s \in Supervisors :
       \/ Start(s) \/ Supervise(s)
       \/ Stall(s) \/ Interrupt(s) \/ Crash(s)
  \/ \E o \in Owners :
       \/ Dispatch(o) \/ BeginCycle(o) \/ EndRun(o) \/ ChildCrashes(o)
  \/ \E a \in Stoppers : StopCommand(a)
  \/ AgentEnds \/ StartByHand \/ RemoveGate

Spec == Init /\ [][Next]_vars
-----------------------------------------------------------------------------
(* A snapshot may outlive the commits it was taken among (Followed).           *)
Snaps == [head : SUBSET Nat, dirty : SUBSET {"docs", "code"}]
Pids == [owner : Owners \cup {Ghost}, n : Nat]
LockFiles == {Free} \cup [owner : Supervisors \cup {Ghost}, written : BOOLEAN]

(* Every file, process and local variable of the model has its type.           *)
TypeOK ==
  /\ lock \in LockFiles
  /\ gate \in {Free} \cup Pids /\ request \in {Free} \cup Pids
  /\ pc \in [Supervisors -> Stages]
  /\ mem \in [Supervisors ->
        [saw : LockFiles, retries : Nat, repairs : Nat,
         seen : SUBSET (Failures \cup {LockHeld}), before : Snaps,
         made : SUBSET Edits, blind : BOOLEAN]]
  /\ \A s \in Supervisors : /\ mem[s].repairs <= MaxRepairs[s]
                            /\ mem[s].retries <= MaxRetries[s]
  /\ child \in [Owners -> [stage : ChildStages, n : Nat, code : Codes]]
  /\ stop \in [Stoppers -> [at : {"idle", "checking", "writing", "done"},
                           pid : {Free} \cup Pids]]
  /\ agent \subseteq Pids
  /\ head \in Seq(SUBSET Edits) /\ dirty \subseteq Edits
  /\ raced \in BOOLEAN /\ orphaned \in BOOLEAN
  /\ asked \subseteq Pids /\ replaced \subseteq asked /\ swept \subseteq asked
  /\ events \in 0..MaxEvents

(* However supervisors race, crash, stall or are interrupted, and whoever      *)
(* starts one by hand: at most one dispatcher is past .dispatch.lock, for a    *)
(* dispatcher never takes a lock over (_try_acquire_dispatch_lock), and only   *)
(* what no dispatcher holds is taken away.                                     *)
DispatcherAlone ==
  \A o, p \in Owners :
    child[o].stage \in PastLock /\ child[p].stage \in PastLock => o = p

(* Two supervisors manage the repository together only after two starts raced  *)
(* for the lock of a dead one: the second removed the lock the first had made  *)
(* meanwhile (_acquire_supervisor_lock reads the file, then unlinks the name). *)
OneSupervisor ==
  ~raced => \A s, t \in Supervisors :
              pc[s] \in Managing /\ pc[t] \in Managing => s = t

(* However often children fail and whatever the repairs do, one supervised run *)
(* starts no more dispatchers than its two budgets allow together.             *)
BoundedRestarts ==
  \A s \in Supervisors : child[s].n <= 1 + MaxRetries[s] + MaxRepairs[s]

(* The dispatcher is restarted after a repair only when nothing the role did,  *)
(* committed or left lying, is outside the repair scope, but for paths that    *)
(* were dirty before, files moved into the scope (git names only the new       *)
(* place) and repairs whose git commands failed (both checks then see nothing).*)
CleanRestart ==
  [][\A s \in Supervisors :
       pc[s] = "checking" /\ pc'[s] = "spawning" =>
         \/ mem'[s].blind
         \/ OutOfScope(mem[s].made) \subseteq {"moved"} \cup mem[s].before.dirty]_vars

(* Whatever kills a dispatcher and whether or not its agent survives: no agent *)
(* is started beside one still at work, since the dead dispatcher's lock stays *)
(* and refuses the next (_run_dispatch), unless a person took it away then.    *)
OneAgentAtWork == ~orphaned => \A p, q \in agent : p = q

(* As documented (_kill_process_tree): a dispatcher the supervisor killed, for *)
(* a stall or on Ctrl+C, leaves no agent at work.  Refuted on POSIX.           *)
KilledTreeIsGone ==
  \A o \in Owners :
    child[o].stage = "gone" /\ child[o].code = "fatal" => Pid(o) \notin agent

Kept(lost) ==
  \A o \in Owners :
    child[o].stage \in Looking /\ Pid(o) \in asked \ lost => request = Pid(o)

(* The stop request that `llm-handoff stop` wrote for a dispatcher is there as *)
(* long as it runs, whichever other runs start and end, whoever is killed and  *)
(* whatever people clear, but for two losses: to a stop command that had       *)
(* checked a dispatcher ended meanwhile, and to the sweep of a request that    *)
(* was there before it.                                                        *)
RequestKept == Kept(replaced \cup swept)

(* As stop_command tells its user: the dispatcher exits before the next        *)
(* dispatch.  Refuted: a late stop command of an ended run takes the request.  *)
RequestNotReplaced == Kept(swept)

(* As clear_stale_stop_request says: a request naming this run is kept.        *)
(* Refuted: it is swept when it is written after the pid was read.             *)
RequestNotSwept == Kept(replaced)
=============================================================================
