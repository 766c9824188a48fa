-------------------------- MODULE InFlightRecovery --------------------------
(***************************************************************************)
(* A role's work between its dispatch and the end of its cycle, and what a *)
(* start after a crash does with it: the in-flight record and its phases,  *)
(* the carry-over record, the recovery of an interrupted implementer,      *)
(* handback, planner, audit or finalizer, the commit the dispatcher makes  *)
(* for an implementer, the check of protected files and the work-claim     *)
(* gate (orchestrator.py, in_flight.py, work_claim.py,                     *)
(* dispatcher_commit.py, no_record_recovery.py).                           *)
(*                                                                         *)
(* A file's content is the sequence of edits since the last commit, each   *)
(* by its author: the operator or the story a role worked on.  Equal       *)
(* sequences are equal contents, so they serve as fingerprints too.        *)
(***************************************************************************)
EXTENDS Naturals, Sequences, SequencesExt

CONSTANTS
    Stories,        \* the stories of the epic
    MaxEvents,      \* crashes, stops, failed calls and a person's edits
    MaxDispatches,  \* dispatches in a behavior
    MaxEdits        \* edits to a file between two commits

ASSUME InFlightAssumption ==
    /\ Stories \cap {"none", "op", "note", "ledger", "unverified", "unheld"} = {}
    /\ MaxEvents \in Nat /\ MaxDispatches \in Nat /\ MaxEdits \in Nat \ {0}

VARIABLES
    handoff,   \* HANDOFF.md: what kind of text, for which story
    tree,      \* the uncommitted edits of each file
    head,      \* the commits of the branch, by who made them or what they hold
    record,    \* logs/dispatch/in-flight.json
    carry,     \* logs/dispatch/carry-over.json
    pc,        \* where the dispatcher is; "down" when none runs
    run,       \* the dispatcher's memory
    told,      \* what excuses a later step (history)
    spent      \* events and dispatches so far

vars == <<handoff, tree, head, record, carry, pc, run, told, spent>>

Roles == {"planner", "backend", "auditor", "finalizer"}
Kinds == {"assign", "claim", "stamped", "gated", "approved", "done", "half", "user"}
Files == {"code", "guard", "ledger"}

Text(k, s) == [kind |-> k, story |-> s]
Texts == [kind : Kinds, story : Stories]

\* The role a handoff names; a half-written text or one for a person names none.
Route == [k \in Kinds |->
    CASE k = "assign" -> "backend"
      [] k \in {"claim", "stamped", "gated"} -> "auditor"
      [] k = "approved" -> "finalizer"
      [] k = "done" -> "planner"
      [] OTHER -> "nobody"]

\* A handoff the role's own validation accepts, so the role finished writing it.
Finished(role, h) == h.kind = (IF role = "planner" THEN "assign" ELSE "done")

Unverified == <<"unverified">>   \* a digest no file has
NotHeld == <<"unheld">>        \* no recovered baseline waits for a dispatch
Nothing == <<>>
Dirty == {f \in Files : tree[f] # <<>>}
Prints(fs) == [f \in fs |-> tree[f]]

NoRecord == [role |-> "nobody", phase |-> "none", text |-> Nothing, dirty |-> Nothing,
             base |-> <<>>, guard |-> <<>>, back |-> Nothing, backHead |-> <<>>]
NoCarry == [story |-> "none", files |-> Nothing]
Idle == [role |-> "nobody", text |-> Nothing, pre |-> Nothing, base |-> <<>>,
         guard |-> <<>>, left |-> NoCarry, prev |-> <<>>, pending |-> "none",
         held |-> NotHeld, back |-> FALSE, written |-> FALSE, failed |-> FALSE]

\* A call that may fail, while the bound on events allows it.
Works == IF spent.events < MaxEvents THEN BOOLEAN ELSE {TRUE}
Event == spent' = [spent EXCEPT !.events = @ + 1]
Spend(ok) == spent' = [spent EXCEPT !.events = @ + (IF ok THEN 0 ELSE 1)]
Ask == BOOLEAN

(***************************************************************************)
(* The end of a run: at a request, an error or a crash.  The memory goes.  *)
(* What goes with it excuses a later step: a baseline or a pending         *)
(* recovery whose record was already deleted, a claim whose resumed cycle  *)
(* has no record, a commit the record does not hold yet.                   *)
(***************************************************************************)
Unrecorded ==
    \/ pc \in {"running", "returned"} /\ ~run.written
    \/ pc \in {"recorded", "checked", "refreshed"} /\ ~run.back
    \/ pc \in {"committed", "unnamed"}

\* A change of a protected file whose baseline is gone.
Lost == IF told.unseen = "yes" THEN "lost" ELSE told.unseen

Ends ==
    /\ pc' = "down"
    /\ run' = Idle
    /\ told' = [told EXCEPT
        !.waived = @ \/ Unrecorded \/ run.pending \in {"handback", "pause"},
        !.whole = @ \/ Unrecorded \/ run.pending = "auditor",
        !.unseen = IF Unrecorded \/ record.role = "nobody" THEN Lost ELSE @,
        !.again = @ \/ record.role # "finalizer"]

\* A recovery that is declined, discarded or cannot be read.
GivenUp == [told EXCEPT !.waived = TRUE, !.unseen = Lost, !.again = TRUE, !.whole = TRUE]

Delete(ok) == record' = IF ok THEN NoRecord ELSE record

(***************************************************************************)
(* Start-up recovery.                                                      *)
(***************************************************************************)
Start ==
    /\ pc = "down"
    /\ pc' = "recovering"
    /\ UNCHANGED <<handoff, tree, head, record, carry, run, told, spent>>

Anchored == IsPrefix(record.base, head)
AgentFiles == Dirty \ DOMAIN record.dirty
OperatorChanged == {f \in DOMAIN record.dirty : tree[f] # record.dirty[f]}
Since == {head[i] : i \in Len(record.base) + 1 .. Len(head)}

\* A protected file that differs from HEAD, whatever git status hides.
Uncommitted == "guard" \in Dirty

\* Mutant: the baseline is taken anew from the checkout.
BugBaseline == tree["guard"]

\* The protected files' baseline of a confirmed recovery: what the record
\* holds, except that a file uncommitted now matches nothing.
Baseline == IF Uncommitted THEN Unverified ELSE record.guard

\* What the next dispatch waits for after a confirmed recovery.
Waits(pending) == [Idle EXCEPT !.pending = pending, !.held = Baseline]

\* Nothing to recover, or no record; what is on disk stays as it is.
NoRecordFound ==
    /\ pc = "recovering" /\ record.role = "nobody"
    /\ pc' = IF carry = NoCarry THEN "unrecorded" ELSE "restoring"
    /\ UNCHANGED <<handoff, tree, head, record, carry, run, told, spent>>

\* The record cannot be read, or git status fails: it is kept for a later
\* start, and this one goes on without it.
RecordKept ==
    /\ pc = "recovering" /\ record.role # "nobody"
    /\ spent.events < MaxEvents /\ Event
    /\ pc' = "restoring"
    /\ told' = GivenUp
    /\ UNCHANGED <<handoff, tree, head, record, carry, run>>

\* A record other than an implementer's dispatch is also deleted with no
\* question when its role left the handoff whole or as it was, or when the
\* handback moved on.  No protected file is looked at: what the role changed is
\* in the next dispatch's baseline.
Unasked ==
    IF told.unseen = "yes" /\ ~(record.role = "backend" /\ record.phase = "dispatch")
    THEN "dropped" ELSE told.unseen

\* Delete a record that is discarded; one that stays on disk stops the run.
Discard(excused) ==
    \E ok \in Works :
        /\ Delete(ok) /\ Spend(ok)
        /\ pc' = IF ok THEN "restoring" ELSE "down"
        /\ told' = CASE ok /\ excused -> GivenUp
                     [] ok /\ ~excused -> [told EXCEPT !.unseen = Unasked]
                     [] OTHER -> told
        /\ UNCHANGED <<handoff, tree, head, carry, run>>

\* A record this version does not accept is deleted, and nothing recovered.
RecordInvalid ==
    /\ pc = "recovering" /\ record.role # "nobody"
    /\ spent.events < MaxEvents /\ Event
    /\ Delete(TRUE)
    /\ pc' = "restoring"
    /\ told' = GivenUp
    /\ UNCHANGED <<handoff, tree, head, carry, run>>

\* Commits no recovery may undo: the run stops before any dispatch.
StopAndKeep ==
    /\ pc' = "down"
    /\ UNCHANGED <<handoff, tree, head, record, carry, run, told, spent>>

\* The operator says yes: the handoff is restored and the record's baseline
\* is taken; a handoff that cannot be written drops the recovery.
Confirm(text, memory, vouched) ==
    \/ /\ handoff' = text
       /\ pc' = "adopting"
       /\ run' = memory
       /\ told' = [told EXCEPT !.excused = IF vouched THEN tree["code"] ELSE @,
                              !.whole = TRUE]
       /\ UNCHANGED <<tree, head, record, carry, spent>>
    \/ /\ text # handoff
       /\ spent.events < MaxEvents /\ Event
       /\ Delete(TRUE)
       /\ pc' = "restoring"
       /\ told' = GivenUp
       /\ UNCHANGED <<handoff, tree, head, carry, run>>

\* What the interrupted implementer left, as its story's work.
Interrupted == [story |-> record.text.story, files |-> Prints(AgentFiles)]

RecoverDispatch ==
    /\ pc = "recovering" /\ record.role = "backend" /\ record.phase = "dispatch"
    /\ LET found == \/ AgentFiles \cup OperatorChanged # {}
                    \/ handoff # record.text
                    \/ Uncommitted
           memory == [Waits(IF OperatorChanged = {} THEN "dispatch" ELSE "pause")
                EXCEPT !.left = Interrupted]
       IN \/ ~Anchored /\ Discard(TRUE)
          \/ Anchored /\ ~found /\ Discard(FALSE)
          \/ Anchored /\ found /\ \E yes \in Ask :
                \/ ~yes /\ Discard(TRUE)
                \/ yes /\ Confirm(record.text, memory, "code" \in AgentFiles)

RecoverHandback ==
    /\ pc = "recovering" /\ record.phase = "handback"
    /\ LET moved == head # record.backHead \/ handoff # record.back
           memory == [Waits(IF OperatorChanged = {} THEN "handback" ELSE "pause")
                EXCEPT !.left = Interrupted, !.text = record.text, !.pre = record.dirty]
       IN \/ moved /\ Discard(FALSE)
          \/ ~moved /\ ~Anchored /\ Discard(TRUE)
          \/ ~moved /\ Anchored /\ \E yes \in Ask :
                \/ ~yes /\ Discard(TRUE)
                \/ yes /\ Confirm(handoff, memory, "code" \in AgentFiles)

\* A planner that committed is first undone, when a person agrees, and only
\* if its commits hold nothing but the handoff.
ReconcilePlannerGit ==
    /\ pc = "recovering" /\ record.role = "planner"
    /\ Anchored /\ head # record.base
    /\ \/ ~(Since \subseteq {"note"}) /\ StopAndKeep
       \/ Since \subseteq {"note"} /\ \E yes \in Ask :
            \/ ~yes /\ Discard(TRUE)
            \/ /\ yes /\ head' = record.base
               /\ UNCHANGED <<handoff, tree, record, carry, pc, run, told, spent>>

RecoverPlanner ==
    /\ pc = "recovering" /\ record.role = "planner"
    /\ \/ ~Anchored /\ Discard(TRUE)
       \/ /\ head = record.base
          /\ \/ handoff = record.text \/ Finished("planner", handoff)
          /\ Discard(FALSE)
       \/ /\ head = record.base
          /\ handoff # record.text /\ ~Finished("planner", handoff)
          /\ \E yes \in Ask :
               \/ ~yes /\ Discard(TRUE)
               \/ yes /\ Confirm(record.text, Waits("planner"), FALSE)

\* Mutant: a handoff the interrupted audit changed is kept as finished.
BugRecoverAuditor ==
    /\ pc = "recovering" /\ record.role = "auditor"
    /\ \/ head = record.base /\ Discard(FALSE)
       \/ head # record.base /\ StopAndKeep

\* The reviewers only read, so an audit is recovered by its handoff alone.
RecoverAuditor ==
    /\ pc = "recovering" /\ record.role = "auditor"
    /\ \/ ~Anchored /\ Discard(TRUE)
       \/ Anchored /\ head # record.base /\ StopAndKeep
       \/ head = record.base /\ handoff = record.text /\ Discard(FALSE)
       \/ head = record.base /\ handoff # record.text /\ \E yes \in Ask :
            \/ ~yes /\ Discard(TRUE)
            \/ yes /\ Confirm(record.text, Waits("auditor"), FALSE)

\* Uncommitted changes of the ledger may be half of the finalizer's edit.
PartialLedger == "ledger" \in Dirty

\* What was committed since the finalizer's dispatch: the ledger, others' work.
LedgerCommitted == "ledger" \in Since
MovedOn == ~(Since \subseteq {"ledger"})

\* Never changes Git.  A ledger already committed sends the planner on from
\* it; a partial ledger edit is left to a person.
RecoverFinalizer ==
    /\ pc = "recovering" /\ record.role = "finalizer"
    /\ LET whole == handoff # record.text /\ Finished("finalizer", handoff)
           untouched == ~LedgerCommitted /\ handoff = record.text
       IN \/ ~Anchored /\ Discard(TRUE)
          \/ Anchored /\ (MovedOn \/ PartialLedger) /\ StopAndKeep
          \/ /\ Anchored /\ ~MovedOn /\ ~PartialLedger
             /\ \/ (whole \/ untouched) /\ Discard(FALSE)
                \/ ~(whole \/ untouched) /\ \E yes \in Ask :
                     \/ ~yes /\ Discard(TRUE)
                     \/ yes /\ Confirm(record.text,
                          Waits(IF LedgerCommitted THEN "finalizer" ELSE "none"), FALSE)

Recover ==
    \/ NoRecordFound \/ RecordKept \/ RecordInvalid
    \/ RecoverDispatch \/ RecoverHandback
    \/ ReconcilePlannerGit \/ RecoverPlanner \/ RecoverAuditor \/ RecoverFinalizer

Saved(left) == IF left.files = Nothing THEN NoCarry ELSE left

\* A confirmed recovery uses the record up before it saves what carries over.
Adopt ==
    /\ pc = "adopting"
    /\ \E ok \in Works :
        /\ Delete(ok) /\ Spend(ok)
        /\ IF ~ok
           THEN /\ Ends
                /\ UNCHANGED carry
           ELSE /\ pc' = CASE run.pending \in {"dispatch", "handback"} -> "top"
                           [] run.pending = "pause" -> "paused"
                           [] OTHER -> "restoring"
                /\ carry' = IF run.pending \in {"dispatch", "handback", "pause"}
                            THEN Saved(run.left) ELSE carry
                /\ UNCHANGED <<run, told>>
    /\ UNCHANGED <<handoff, tree, head>>

\* Mutant: a leftover is carried over whatever became of its content.
BugSame(left) == DOMAIN left.files \cap Dirty

Same(left) == {f \in DOMAIN left.files \cap Dirty : tree[f] = left.files[f]}
Pruned(left) == Saved([left EXCEPT !.files = [f \in Same(left) |-> left.files[f]]])

\* The carry-over record: only files unchanged since, and only on a yes.
RestoreLeftovers ==
    /\ pc = "restoring"
    /\ pc' = "top"
    /\ \E yes \in Ask :
        LET left == Pruned(carry)
        IN /\ carry' = IF left # NoCarry /\ yes THEN carry ELSE NoCarry
           /\ run' = [run EXCEPT !.left = IF yes THEN left ELSE NoCarry]
           /\ told' = [told EXCEPT !.excused =
                IF yes /\ "code" \in DOMAIN left.files THEN tree["code"] ELSE @]
    /\ UNCHANGED <<handoff, tree, head, record, spent>>

\* Neither record was there: the files an interrupted implementer may have
\* left, if no commit of another touched them since the story's own.
Untouched(s) ==
    \A i \in 1..Len(head) : head[i] = "op" => \E j \in i+1..Len(head) : head[j] = s

Offered ==
    IF Route[handoff.kind] = "backend" /\ Untouched(handoff.story)
    THEN Dirty \cap {"code"} ELSE {}

OfferUnrecorded ==
    /\ pc = "unrecorded"
    /\ pc' = "top"
    /\ \/ UNCHANGED <<run, told>>
       \/ /\ Offered # {}
          /\ run' = [run EXCEPT !.left =
                [story |-> handoff.story, files |-> Prints(Offered)]]
          /\ told' = [told EXCEPT !.excused = tree["code"]]
    /\ UNCHANGED <<handoff, tree, head, record, carry, spent>>

(***************************************************************************)
(* The loop top, the dispatch and what a role does.                        *)
(***************************************************************************)
ClearHandback ==
    /\ pc = "top" /\ run.back
    /\ \E ok \in Works :
        /\ Delete(ok) /\ Spend(ok)
        /\ IF ok
           THEN /\ run' = [run EXCEPT !.back = FALSE]
                /\ UNCHANGED <<pc, told>>
           ELSE Ends
    /\ UNCHANGED <<handoff, tree, head, carry>>

\* A stop request at the loop top, or a person who quits at a pause.
StopAtTop ==
    /\ pc \in {"top", "paused"} /\ ~run.back
    /\ spent.events < MaxEvents /\ Event
    /\ Ends
    /\ UNCHANGED <<handoff, tree, head, record, carry>>

\* Mutant: a ledger found committed does not send the planner on.
BugNextRole ==
    CASE run.prev = <<"finalizer", handoff>> -> "planner"
      [] run.pending = "dispatch" -> "backend"
      [] run.pending = "auditor" -> "auditor"
      [] run.pending = "planner" -> "planner"
      [] OTHER -> Route[handoff.kind]

\* The role a cycle dispatches: a confirmed recovery's, or the handoff's.
NextRole ==
    CASE run.prev = <<"finalizer", handoff>> -> "planner"
      [] run.pending = "dispatch" -> "backend"
      [] run.pending = "auditor" -> "auditor"
      [] run.pending \in {"planner", "finalizer"} -> "planner"
      [] OTHER -> Route[handoff.kind]

\* The same role again on the handoff its last cycle started from.
Stale == run.prev = <<NextRole, handoff>>

PauseForPerson ==
    /\ pc = "top" /\ ~run.back /\ run.pending = "none"
    /\ NextRole = "nobody" \/ Stale
    /\ pc' = "paused"
    /\ UNCHANGED <<handoff, tree, head, record, carry, run, told, spent>>

\* The handoff changed, or the person said to go on.
Resume ==
    /\ pc = "paused"
    /\ pc' = "top"
    /\ run' = [run EXCEPT !.pending = "none", !.prev = <<>>]
    /\ told' = [told EXCEPT !.waived = TRUE, !.again = TRUE]
    /\ UNCHANGED <<handoff, tree, head, record, carry, spent>>

DispatchRecord(role, pre, baseline) ==
    [NoRecord EXCEPT !.role = role, !.phase = "dispatch", !.text = handoff,
                     !.dirty = pre, !.base = head, !.guard = baseline]

Carried(s) == IF run.left.story = s THEN Same(run.left) ELSE {}

\* What the dispatcher knows of the checkout before the dispatch; a git
\* status that fails shows no file at all.
Dispatch(role) ==
    /\ pc = "top" /\ ~run.back /\ run.pending # "handback"
    /\ role = NextRole /\ ~Stale
    /\ spent.dispatches < MaxDispatches
    /\ pc' = "running"
    /\ \E seen \in Works, wrote \in Works :
        /\ seen \/ role = "backend"
        /\ seen \/ wrote
        /\ LET gated == role = "backend"
               pre == IF gated /\ seen THEN Prints(Dirty \ Carried(handoff.story)) ELSE Nothing
               baseline == IF run.held # NotHeld THEN run.held ELSE tree["guard"]
               left == IF gated /\ run.left.story # handoff.story THEN NoCarry ELSE run.left
           IN /\ carry' = IF left = run.left THEN carry ELSE NoCarry
              /\ run' = [Idle EXCEPT !.role = role, !.text = handoff, !.pre = pre,
                    !.base = head, !.guard = baseline, !.left = left, !.written = wrote]
              /\ record' = IF wrote THEN DispatchRecord(role, pre, baseline) ELSE record
              /\ told' = [told EXCEPT
                    !.excused = IF seen THEN @ ELSE tree["code"],
                    !.waived = \/ @ /\ role \in {"auditor", "finalizer"}
                               \/ ~wrote /\ record.role # "nobody",
                    !.closed = @ /\ role # "finalizer",
                    !.again = role = "planner" /\ handoff.kind = "approved",
                    !.unseen = IF run.held = NotHeld THEN "no" ELSE @]
        /\ spent' = [events |-> spent.events + (IF seen /\ wrote THEN 0 ELSE 1),
                     dispatches |-> spent.dispatches + 1]
    /\ UNCHANGED <<handoff, tree, head>>

\* A confirmed handback dispatches no role and writes no record.
ResumeHandback ==
    /\ pc = "top" /\ run.pending = "handback"
    /\ pc' = "recorded"
    /\ run' = [run EXCEPT !.pending = "none", !.role = "backend",
                          !.guard = run.held, !.held = NotHeld]
    /\ UNCHANGED <<handoff, tree, head, record, carry, told, spent>>

Edit(f, who) ==
    /\ Len(tree[f]) < MaxEdits
    /\ tree' = [tree EXCEPT ![f] = Append(@, who)]

RoleEdits ==
    /\ pc = "running"
    /\ \/ /\ run.role = "backend" /\ Edit("code", run.text.story)
          /\ UNCHANGED told
       \/ /\ run.role # "auditor" /\ Edit("guard", run.text.story)
          /\ told' = [told EXCEPT !.unseen = IF tree'["guard"] # run.guard THEN "yes" ELSE "no"]
       \/ /\ run.role = "finalizer" /\ head = run.base /\ tree["ledger"] = <<>>
          /\ Edit("ledger", run.text.story)
          /\ UNCHANGED told
    /\ UNCHANGED <<handoff, head, record, carry, pc, run, spent>>

\* A planner must not commit; the finalizer commits the ledger it edited.
RoleCommits ==
    /\ pc = "running"
    /\ \/ /\ run.role = "planner" /\ head = run.base
          /\ head' = Append(head, "note")
          /\ UNCHANGED <<tree, told>>
       \/ /\ run.role = "finalizer" /\ tree["ledger"] # <<>>
          /\ head' = Append(head, "ledger")
          /\ tree' = [tree EXCEPT !["ledger"] = <<>>]
          /\ told' = [told EXCEPT !.closed = TRUE]
    /\ UNCHANGED <<handoff, record, carry, pc, run, spent>>

Outcomes == [r \in Roles |->
    CASE r = "planner" -> {"assign"}
      [] r = "backend" -> {"claim"}
      [] r = "auditor" -> {"approved", "assign"}
      [] r = "finalizer" -> {"done"}]

\* The handoff is written piece by piece: an interrupt may leave half of it.
RoleWrites ==
    /\ pc = "running"
    /\ \/ handoff = run.text /\ handoff' = Text("half", handoff.story)
       \/ /\ handoff.kind = "half" \/ handoff = run.text
          /\ \E k \in Outcomes[run.role],
                s \in IF run.role = "planner" THEN Stories ELSE {run.text.story} :
                handoff' = Text(k, s)
    /\ told' = [told EXCEPT
         !.closed = @ /\ ~(run.role = "auditor" /\ handoff'.kind = "approved"),
         !.whole = FALSE]
    /\ UNCHANGED <<tree, head, record, carry, pc, run, spent>>

RoleReturns ==
    /\ pc = "running"
    /\ \E ok \in Works : Spend(ok) /\ run' = [run EXCEPT !.failed = ~ok]
    /\ pc' = "returned"
    /\ told' = [told EXCEPT !.whole = TRUE]
    /\ UNCHANGED <<handoff, tree, head, record, carry>>

(***************************************************************************)
(* After a role returned.                                                  *)
(***************************************************************************)
Escalate ==
    /\ handoff' = Text("user", run.text.story)
    /\ told' = [told EXCEPT !.unseen = "no", !.whole = TRUE]

Top(memory) ==
    /\ pc' = "top"
    /\ run' = [Idle EXCEPT !.left = memory.left, !.back = memory.back,
                !.prev = IF memory.failed THEN <<>> ELSE <<run.role, run.text>>]

\* A planner's, audit's or finalizer's record goes as soon as it returned;
\* a planner's own commits of the handoff are undone.
OtherReturned ==
    /\ pc = "returned" /\ run.role # "backend"
    /\ \E ok \in IF run.written THEN Works ELSE {TRUE} :
        /\ IF run.written THEN Delete(ok) ELSE UNCHANGED record
        /\ Spend(ok)
        /\ \/ ~ok /\ Ends /\ UNCHANGED <<handoff, head>>
           \/ /\ ok /\ Top(run)
              /\ head' = IF run.role = "planner" THEN run.base ELSE head
              /\ \/ tree["guard"] # run.guard /\ Escalate
                 \/ /\ tree["guard"] = run.guard
                    /\ told' = [told EXCEPT !.again = @ \/ run.failed]
                    /\ UNCHANGED handoff
    /\ UNCHANGED <<tree, carry>>

\* Mutant: the handback record lacks the text handed back.
BugHandback == [record EXCEPT !.phase = "handback", !.backHead = head]

Handback == [record EXCEPT !.phase = "handback", !.back = handoff, !.backHead = head]

\* An implementer's dispatch record becomes a handback record; one that
\* cannot be written is deleted, and a run that can do neither stops.
RecordHandback ==
    /\ pc = "returned" /\ run.role = "backend"
    /\ \/ ~run.written /\ pc' = "recorded" /\ UNCHANGED <<record, run, told, spent>>
       \/ /\ run.written
          /\ \E wrote \in Works, gone \in Works :
              /\ wrote => gone
              /\ spent.events + (IF wrote THEN 0 ELSE 1) + (IF gone THEN 0 ELSE 1) <= MaxEvents
              /\ spent' = [spent EXCEPT !.events =
                    @ + (IF wrote THEN 0 ELSE 1) + (IF gone THEN 0 ELSE 1)]
              /\ IF wrote THEN record' = Handback ELSE Delete(gone)
              /\ IF wrote \/ gone
                 THEN /\ pc' = "recorded"
                      /\ run' = [run EXCEPT !.back = wrote]
                      /\ UNCHANGED told
                 ELSE Ends
    /\ UNCHANGED <<handoff, tree, head, carry>>

\* What is left uncommitted and was not there before is this story's work.
\* Then the protected files, then the exit code, which ends the cycle.
CheckHandback ==
    /\ pc = "recorded"
    /\ \E listed \in Works :
        LET left == Saved([story |-> run.text.story,
                           files |-> Prints(IF listed THEN Dirty \ DOMAIN run.pre ELSE {})])
            memory == [run EXCEPT !.left = left]
            broken == tree["guard"] # run.guard
            claimed == handoff.kind \in {"claim", "stamped"}
        IN /\ Spend(listed)
           /\ carry' = left
           /\ \/ broken /\ Escalate /\ Top(memory)
              \/ /\ ~broken /\ ~run.failed /\ claimed
                 /\ pc' = "checked" /\ run' = memory
                 /\ UNCHANGED <<handoff, told>>
              \/ /\ ~broken /\ (run.failed \/ ~claimed)
                 /\ Top(memory)
                 /\ told' = [told EXCEPT !.waived = @ \/ run.failed]
                 /\ UNCHANGED handoff
    /\ UNCHANGED <<tree, head, record>>

\* The files of the Work Packet that were not dirty before the dispatch.
ToCommit == (Dirty \cap {"code"}) \ DOMAIN run.pre

\* Work is on the branch, perhaps the story's: what its base is, a restart
\* may have forgotten.
WorkCommitted == \E i \in 1..Len(head) : head[i] # "note"

CommitWork ==
    /\ pc = "checked"
    /\ \/ /\ ToCommit # {}
          /\ tree' = [tree EXCEPT !["code"] = <<>>]
          /\ head' = Append(head, run.text.story)
          /\ told' = [told EXCEPT !.excused = <<>>]
          /\ pc' = "committed"
          /\ UNCHANGED <<handoff, spent>>
       \/ /\ ToCommit = {} /\ WorkCommitted      \* the claim names HEAD
          /\ handoff' = [handoff EXCEPT !.kind = "stamped"]
          /\ pc' = "committed"
          /\ UNCHANGED <<tree, head, told, spent>>
       \/ /\ ToCommit = {} /\ pc' = "refreshed"
          /\ UNCHANGED <<handoff, tree, head, told, spent>>
       \/ /\ spent.events < MaxEvents /\ Event    \* git add or git commit fails
          /\ pc' = "refreshed"
          /\ UNCHANGED <<handoff, tree, head, told>>
       \/ /\ ToCommit # {}                         \* the new HEAD cannot be read
          /\ spent.events < MaxEvents /\ Event
          /\ tree' = [tree EXCEPT !["code"] = <<>>]
          /\ head' = Append(head, run.text.story)
          /\ told' = [told EXCEPT !.excused = <<>>]
          /\ pc' = "unnamed"
          /\ UNCHANGED handoff
    /\ UNCHANGED <<record, carry, run>>

Stamped == IF pc = "committed" THEN [handoff EXCEPT !.kind = "stamped"] ELSE handoff

\* Mutant: the record is not refreshed after the commit.
BugStampAndRefresh ==
    /\ pc \in {"committed", "unnamed"}
    /\ handoff' = Stamped
    /\ carry' = Pruned(run.left)
    /\ run' = [run EXCEPT !.left = carry']
    /\ pc' = "refreshed"
    /\ UNCHANGED <<tree, head, record, told, spent>>

\* scope_sha goes into the claim of a commit that has a name, committed files
\* leave the carry-over list (or stay in it with a fingerprint no dirty file
\* can have), and the handback record takes the new HEAD and text.  A record
\* that can be neither rewritten nor deleted stops the run before the gate.
StampAndRefresh ==
    /\ pc \in {"committed", "unnamed"}
    /\ handoff' = Stamped
    /\ LET left == Pruned(run.left)
       IN \E wrote \in Works, gone \in Works :
            /\ wrote => gone
            /\ ~run.back => wrote
            /\ spent.events + (IF wrote THEN 0 ELSE 1) + (IF gone THEN 0 ELSE 1) <= MaxEvents
            /\ spent' = [spent EXCEPT !.events =
                  @ + (IF wrote THEN 0 ELSE 1) + (IF gone THEN 0 ELSE 1)]
            /\ carry' = left
            /\ record' = CASE ~run.back -> record
                           [] run.back /\ wrote ->
                                [record EXCEPT !.back = handoff', !.backHead = head]
                           [] OTHER -> IF gone THEN NoRecord ELSE record
            /\ IF wrote \/ gone
               THEN /\ pc' = "refreshed"
                    /\ run' = [run EXCEPT !.left = left, !.back = run.back /\ wrote]
                    /\ UNCHANGED told
               ELSE Ends
    /\ UNCHANGED <<tree, head>>

\* The claim names the commit it claims.
ScopeHolds == handoff.kind = "stamped"

\* Nothing new is uncommitted, and what was dirty before is as it was.
TreeHolds ==
    /\ Dirty \subseteq DOMAIN run.pre
    /\ \A f \in DOMAIN run.pre : tree[f] \in {<<>>, run.pre[f]}

\* The claim passes when its verification commands do too; otherwise it
\* bounces to the implementer.
Gate ==
    /\ pc = "refreshed"
    /\ \E passes \in BOOLEAN :
         handoff' = [handoff EXCEPT !.kind =
            IF ScopeHolds /\ TreeHolds /\ passes THEN "gated" ELSE "assign"]
    /\ Top(run)
    /\ UNCHANGED <<tree, head, record, carry, told, spent>>

(***************************************************************************)
(* Crashes, and what a person does while no role runs.                     *)
(***************************************************************************)
Crash ==
    /\ pc # "down"
    /\ spent.events < MaxEvents /\ Event
    /\ Ends
    /\ UNCHANGED <<handoff, tree, head, record, carry>>

Person ==
    /\ pc \in {"down", "paused"}
    /\ spent.events < MaxEvents /\ Event
    /\ UNCHANGED <<record, carry, pc, run>>

PersonEdits ==
    /\ Person
    /\ \/ \E f \in {"code", "guard"} :
            /\ Edit(f, "op")
            /\ told' = [told EXCEPT !.unseen = IF f = "guard" THEN "no" ELSE @]
       \/ \E f \in Dirty :
            /\ tree' = [tree EXCEPT ![f] = <<>>]
            /\ told' = [told EXCEPT !.unseen = IF f = "guard" THEN "no" ELSE @]
    /\ UNCHANGED <<handoff, head>>

PersonCommits ==
    /\ Person
    /\ \/ /\ "code" \in Dirty
          /\ tree' = [tree EXCEPT !["code"] = <<>>]
          /\ head' = Append(head, "op")
          /\ told' = [told EXCEPT !.waived = TRUE, !.again = TRUE, !.whole = TRUE]
       \/ /\ head # <<>> /\ Last(head) # "op"
          /\ head' = Append(Front(head), "op")
          /\ told' = [told EXCEPT !.waived = TRUE, !.again = TRUE, !.whole = TRUE]
          /\ UNCHANGED tree
    /\ UNCHANGED handoff

PersonWrites ==
    /\ Person
    /\ \E k \in {"assign", "user", "approved"}, s \in Stories : handoff' = Text(k, s)
    /\ told' = [told EXCEPT !.waived = TRUE, !.again = TRUE, !.whole = TRUE]
    /\ UNCHANGED <<tree, head>>

(***************************************************************************)
Init ==
    /\ handoff \in [kind : {"assign", "approved"}, story : Stories]
    /\ tree \in {[f \in Files |-> IF f = "code" THEN c ELSE <<>>] : c \in {<<>>, <<"op">>}}
    /\ head = <<>>
    /\ record = NoRecord /\ carry = NoCarry
    /\ pc = "down" /\ run = Idle
    /\ told = [excused |-> <<>>, waived |-> FALSE, unseen |-> "no", whole |-> TRUE,
               closed |-> FALSE, again |-> FALSE]
    /\ spent = [events |-> 0, dispatches |-> 0]

Startup == Start \/ Recover \/ Adopt \/ RestoreLeftovers \/ OfferUnrecorded
LoopTop ==
    \/ ClearHandback \/ StopAtTop \/ PauseForPerson \/ Resume
    \/ ResumeHandback \/ \E role \in Roles : Dispatch(role)
RoleRuns == RoleEdits \/ RoleCommits \/ RoleWrites \/ RoleReturns
Aftermath ==
    \/ OtherReturned \/ RecordHandback \/ CheckHandback
    \/ CommitWork \/ StampAndRefresh \/ Gate
Outside == Crash \/ PersonEdits \/ PersonCommits \/ PersonWrites

Next == Startup \/ LoopTop \/ RoleRuns \/ Aftermath \/ Outside

Spec == Init /\ [][Next]_vars

(***************************************************************************)
(* Properties.                                                             *)
(***************************************************************************)
Contents == {c \in Seq(Stories \cup {"op"}) : Len(c) <= MaxEdits}

\* Every file, record and carry-over list holds what its reader expects.
TypeOK ==
    /\ handoff \in Texts
    /\ \A f \in Files : tree[f] \in Contents
    /\ record.role \in Roles \cup {"nobody"}
    /\ record.role # "nobody" => record.text \in Texts
    /\ record.phase = "handback" => record.role = "backend" /\ record.back \in Texts
    /\ carry.story \in Stories \cup {"none"}
    /\ \A f \in DOMAIN carry.files : f \in Files /\ carry.files[f] \in Contents
    /\ carry.files = Nothing => carry = NoCarry
    /\ told.excused \in Contents

Owned(s) == \A i \in 1..Len(tree["code"]) :
    tree["code"][i] = s \/ IsPrefix(SubSeq(tree["code"], 1, i), told.excused)

\* What the dispatcher commits for a story is that story's work: no edit of a
\* person's, nor another story's leftovers, however many crashes, declined
\* recoveries and stories lie between the edit and the commit.  Excused is
\* only content a person confirmed as a role's, or that a failed git status
\* hid before the dispatch.
CommittedAsOwned ==
    [][ pc = "checked" /\ head' # head => Owned(run.text.story) ]_vars

\* No crash lets an implementer's claim reach the auditor past the work-claim
\* gate: the handback record brings it back to the gate.  Excused are a
\* declined or unreadable recovery, a failed exit, a record that could not be
\* written (an older one may have stayed in its place), a crash right after the
\* commit, and what a person did.
HandbackGated ==
    [][ Dispatch("auditor") /\ handoff.kind \in {"claim", "stamped"} =>
            told.waived ]_vars

\* A change a role made to a protected file is not taken for the state before
\* a dispatch: a crash does not hide it from the check.  Excused are a record
\* that could not be written or read, or was declined, a baseline lost with the
\* memory after its record was used up, and a record deleted unasked: never an
\* implementer's before its handback.  An edit that gives the file the content
\* of its baseline again changes nothing.
GuardChecked ==
    [][ \A role \in Roles :
            Dispatch(role) /\ run.held = NotHeld => told.unseen # "yes" ]_vars

\* Every change a role makes to a protected file fails closed
\* (docs/ARCHITECTURE.md) unless its record was lost or declined.  Refuted: the
\* record of a planner that finished its handoff, or has not begun it, is deleted
\* at the next start without a look at the protected files.
GuardAlwaysChecked ==
    [][ \A role \in Roles :
            Dispatch(role) /\ run.held = NotHeld => told.unseen \notin {"yes", "dropped"} ]_vars

\* The finalizer acts on a verdict an audit finished, and once: an interrupted
\* audit's verdict is restored away first, and a ledger committed for an
\* approval is not written for it again after a crash.  Excused is a recovery
\* a person declined or that was lost on the way.
FinalizedOnce ==
    [][ Dispatch("finalizer") => told.whole /\ (~told.closed \/ told.again) ]_vars
=============================================================================
