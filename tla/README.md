# llm-handoff in TLA+

llm-handoff is a serial dispatcher: one file, `HANDOFF.md`, says whose turn it
is; a loop reads it, runs one role (planner, tpm, backend, frontend, auditor,
validator, finalizer), judges what the role left in the file, and goes round
again. Around the loop are a person who edits the file or answers a prompt, a
stop request, chat answers that may rewrite the file while a role runs, and the
crash and restart of the process; beside it the publication of a story through a
pull request, the audit by several reviewers at once, the recovery of what a crash
interrupted, and a supervisor that restarts the dispatcher. This directory models
that control: what runs next, what may be skipped, what is counted, who
overwrites whom, what survives a crash.

Paths below are relative to the repository; `orchestrator.py` and its
neighbours are in `llm_handoff/`.

## Inventory

| component | state it keeps | operations | hard behaviour | what makes it correct |
| --- | --- | --- | --- | --- |
| dispatch loop (`orchestrator.py`) | previous cycle, pending recovery, failure count, recovery and breaker flags | stop check, read and route, dispatch, return, validate, repair, gate, publish, pause | about fifteen orders in which a cycle can end, each resetting other flags; restarts | no unchecked claim reaches the auditor; a rejected story reaches no implementer; one recovery per pause streak; a stuck loop ends |
| bounce counts (`ledger.py`) | a table in memory, a table on disk | record, reset, seed, persist | restart between two bounces | the breaker's count survives |
| validation (`validator.py`) | none | faults of a handoff by kind | self-loops, stale content, contract faults | faults lead to repair, recovery or pause, never on |
| routing (`router.py`, `handoff_normalizer.py`) | none | frontmatter to route and confidence | conflicting fields, unknown names | one route for one text |
| work-claim gate (`work_claim.py`, `_run_work_claim_gate`) | the gate's mark in the handoff | verify, pass, bounce | long verification between read and write | see the loop; never writes over another's handoff |
| publishing (`publish.py`, `pr_review.py`) | story state and review responses on disk; branches; the pull request | branch, push, open, review, answer, merge, settle, resume | interruption between any two stages; people and Codex at the same pull request; findings of several rounds | what merges is what was audited and reviewed; findings are settled first; nothing is done twice; no story is forgotten |
| stop request (`stop_request.py`, `stop_command`) | a file naming a pid | read the lock, check the pid, write, detect, clear | arrives anywhere; a command that is slow writes for a run that is over, on another run's request | honoured, at most one more dispatch; kept as long as its run goes on |
| chat answers (`chat_answers.py`) | queue, active count, thread, stop event | submit, stop, answer | `submit` racing `stop` and the thread's exit | one answer at a time, none lost, `stop` returns |
| chat takeover (`chat_takeover.py`) | request, generation, armed flag | request, inspect, claim, clear, arm | answers racing the role's handback, the gate and the publish | no rewrite is forgotten, followed unseen or published |
| chat session and input (`chat_session.py`, `chat_line.py`, `chat_input.py`) | role, capture thread, buffer | set role, start, stop, submit | a thread that outlives its join | capture is off when `stop` returns |
| chat records (`chat_side_session.py`, `chat_changes.py`, `chat_queue.py`) | change record, saved queue | answer, record, hold | the record outliving its commit | every chat change is audited |
| operator prompt (`operator_prompt.py`) | one reader | read, parse, choose | edits while prompting | a choice applies to the handoff shown |
| agent processes (`agent_process.py`, `agent_roles.py`, `failover.py`, ...) | a child process | run, stream, time out, stop, fail over | timeout and takeover racing exit | the tree is dead when the call ends |
| in-flight recovery (`in_flight.py`, `no_record_recovery.py`) | in-flight record with its phases, carry-over record | write, refresh, delete, recover, adopt, offer | crash at any step; the recovery itself interrupted, declined, failing | what is committed for a story is its own work; a crash opens no way round the gate or the audit, and none round the protected-file check but those named below |
| audit fan-out (`audit_review.py`, `audit_linear_evidence.py`, ...) | a thread for each reviewer, the hash of the handoff, the posted outcome | verify, run, fall back, collect, restore, merge, post, accept | one fails, one writes what it must not, chat writes meanwhile | an approval is earned from every reviewer and told to Linear |
| dispatcher commit (`dispatcher_commit.py`) | index and HEAD | stage, commit, stamp, undo | git failing half-way | only in-scope files |
| supervisor (`supervisor.py`) | lock, budgets, fingerprints seen, snapshots | lock, start, watch, retry, repair, check, restart, release | a second supervisor; a stale lock; a repair that oversteps; git failing | one at a time; restarts are bounded; no restart after a repair out of scope |
| start-up (`__main__.py`, `config.py`, `init_workflow.py`, `doctor.py`) | configuration, `.dispatch.lock` | load, check, lock, `stop` | two dispatchers; locks of dead ones | one dispatcher per repository; a stop request reaches the run it was made for |
| texts and logs | none | formatting, redaction | - | - |

How they meet: the loop calls everything else. Roles, people and chat answers
all write `HANDOFF.md`; a chat answer runs on a thread of its own and meets the
loop only through the file, the takeover controller and `wait_for_answers`.
The stop request and the bounce counts are files. The in-flight record is written
and deleted by the loop around every dispatch and read by the next start only; the
publish state likewise, between its stages. The fan-out is one dispatch of the
loop; the supervisor meets the dispatcher through its process, the two locks and
the checkout. `PROJECT.json` names each
hazard of this code at its line, with the properties that watch it.

## Modules

- **DispatchLoop** - the loop with its ledger, stop file, prompts, process
  crash and restart. `MCDispatchLoop` gives it texts and habits of roles,
  `DispatchLoopProofs` and `DispatchLoopGateProofs` its theorems.
- **AnswerQueue** - what the chat worker promises: a queue whose messages are
  accepted or refused, answered one by one in order, or dropped together.
- **ChatAnswers** - the worker itself: threads, one condition variable, `stop`.
  It implements AnswerQueue (`KeepsPromise`, checked with its liveness;
  `PromiseKept`, its safety, proved). `MCChatAnswers`, `ChatAnswersProofs`.
- **ChatTakeover** - extends AnswerQueue (the worker may be replaced by its
  promise) with `HANDOFF.md`, the controller and the loop's windows around one
  dispatch. `MCChatTakeover`, `ChatTakeoverProofs`.
- **StoryPublish** - one story from its branch to its merge: the dispatcher's
  publish code, git, GitHub with its Codex review, people, crashes and resumptions.
  `MCStoryPublish`, `StoryPublishProofs`.
- **InFlightRecovery** - a dispatch and its records, a crash at any step of it, and
  what the next start does; the commit made for an implementer, the carry-over list,
  the protected-file check and the gate as far as they decide what a crash may
  change. `MCInFlightRecovery`, `InFlightRecoveryProofs`.
- **AuditFanOut** - one audit: reviewers in threads, what they write although told
  not to, the merge of their verdicts, the Linear post, chat. `MCAuditFanOut`,
  `AuditFanOutProofs`.
- **Supervisor** - supervisor processes, the dispatchers they start, both locks, the
  stop request and the repair loop. `MCSupervisor`, `SupervisorProofs`.

The four last ones stand beside the loop, not inside it: each shows in detail what
DispatchLoop has as one step (`PublishStory`, an auditor's `RoleWrites`) or as
`Crash` and `Restart`, and keeps of the loop only what routes work to and from it.

Mutated forms (`Bug...`) stand before the definitions they replace; each one is
a plausible slip (a dropped guard, a forgotten reset) and breaks the property
`PROJECT.json` lists it under.

### DispatchLoop

A handoff is a *text*, described by the record `Front[h]`: the route it leads to and
whether the router is sure, status, producer, story, faults by kind (repairable
hygiene, a missing SHA the gate would stamp, a broken contract), and whether it boasts
(a rationalization warning). Texts and who writes them are constants; every `*.cfg`
picks a set of them. The gate's mark is the only part of the file the dispatcher adds,
so equality of records is equality of content SHAs. Frontmatter repair and
normalization are folded into what a text leads to.

`pc` is the place in `_run_loop_cycles`: `LoopTop` (stop check),
`ReadAndRoute` (everything from reading to `_dispatch_route`: scheduled
recovery, stale finalizer, frontmatter repair, breaker, reconciliation, tpm
repair, stale route, low confidence, pauses; one action with three outcomes),
`Diagnose` (the validator role run for an unclear route), `RoleWrites`,
`RoleReturns`, `Validate`, `ValidateFinalizer`, `Repair`, `Rejected`, `Gate`,
`GateAfterRepair`, `PublishStory`, `AtPause` (with the prompt's choices),
`PersonEdits`, `StopRequested`, `Crash`, `Restart`. The variables have the names
of the loop's locals. History variables (`author`, `excuse`, `approval`,
`fails`, `after_stop`, `recoveries`) are read by properties only; no guard
reads them. `after_stop` and `recoveries` count to two, which is all their
properties (at most one) tell apart.

Left out of it: `recover_orphaned_story` in front of the routing
(orchestrator.py:1725-1772; StoryPublish has it), operator-edit interpretation,
tracker lease rebuild, proposal approval turns, deferred findings, the git-index lock,
dry runs and `max_cycles`, a missing handoff file, the chat hold, re-audits of chat
changes (takeovers are in ChatTakeover), records of interrupted dispatches, the
linear-evidence exception to pause recovery, and a failed write of the counts' file.
The gate is one step here; ChatTakeover splits it. Records are InFlightRecovery's
subject, the stages of a publish StoryPublish's.

### ChatAnswers

One action per critical section of `ChatAnswerWorker`: `Enqueue` and `Refuse`
(submit), `Stop` and `StopReturns`, and the thread's `Sleep`, `Leave`, `Take`,
`Finish`, `Release`, `Die`. `notify_all` wakes every sleeper. `fate` is history.
What an answer does to the file is ChatTakeover's subject.

### ChatTakeover

`handoff` is text and mark (`stamped` by the commit, `passed` by the gate).
An answer reads the file (`AnswerBegins`), may rewrite it any number of times,
reads it again (`AnswerOver`) and requests a takeover if the two differ
(`AnswerEnds`). The loop goes through `SetRole`, `ClearStale`, `Arm`, the role's
run, `Disarm`, `Settle`, `Inspect`, `Check`, `Claim`, `Decide`, then the stages
of the rest of the cycle with a `LateCheck` before commit, gate and publish;
`Follow` to `Judge` is `_follow_chat_takeover`. The finalizer's branch is the
same with nothing armed and nothing decided before its late check. A read of
the controller and the write that follows it are separate steps.

Left out: planner and tpm as roles (they go the way of the others that no commit or
gate follows), the chat marker carried into a handoff, a resumed handback, refused
and dropped messages (they change no file), a rewrite as what ends a pause; the
audit fan-out's own check is in AuditFanOut. Whether a text validates is a set
(`ValidTexts`).

### StoryPublish

A commit is its history since the story left the base branch, a sequence of kinds
(`work`, `ledger`, `merge`, `resolved`, `edited`, `stray`), so "the audited commit,
and above it only merges of the base" is a prefix and a set of kinds (`Covers`).
`git` is the checkout (branch, commits, an unfinished merge, an uncommitted file),
`base` what merging the remote base would meet, `hub` the pull request (state, head,
threads, review verdict, replies), `story` and `responses` the two files under
`logs/dispatch`, `run` the locals of the running publish, `conf` the project's
settings. `pc` names the place in `publish_story` and its helpers.

The actions are grouped in `Next` the way the code is: roles' handbacks on the story
branch; `PublishBegins`, the base merge (`Sync...`), `Push`, `OpenPullRequest`;
the answers on review threads (`Answer...`, one action for each outcome of
`_answer_findings`); the review and its rounds; the unresolved-thread check, the
merge and its retries (`Merge...`, `Threads...`); the settling of deferred findings
(`Settle...`); the loop's own look at orphaned state; merge-commit mode; the start
with its three kinds of resumption (`Resume...`, `Interrupted...`). A crash is
`RunEnds` anywhere; a call that GitHub took and the disk did not record is
`ReplyUnsaved` and `RequestUnsaved`. Codex, a moving base, and people at GitHub and
at the checkout are actions of their own. `hist` is read by properties only.

Abstracted: texts, comment ids and the parsing of them, times (a stale review is one
of an older head), local-base commits nobody audited, a person's own pushes to the
pull request, other branches or a detached HEAD, what a person does after taking the
publication over. People resolve review threads and do not reopen them. A few writes
that follow each other directly are one step: the switch to the new branch with the
save of the state (publish.py:378, 381), and neighbouring saves and deletions of the
two files (3866-3873, 4150-4158).

### InFlightRecovery

`handoff` is a kind of text and its story; a file's content is the sequence of edits
since its last commit, each by its author, so equal sequences stand for equal
fingerprints; `head` the branch's commits. `record` and `carry` are the two files:
role, phase, text, the files dirty at dispatch with their content, HEAD, the
protected baseline, and for a handback what it left. `run` is the dispatcher's
memory and disappears with it.

A start goes through `Recover` (one disjunct for each branch of
`_recover_interrupted_dispatch`: no record, unreadable, handback, planner, audit,
finalizer, implementer; resumed, restored, declined, stopped, discarded), `Adopt`,
`RestoreLeftovers` and `OfferUnrecorded`; then the loop top, `Dispatch`,
what a role does (edits, commits, half-written texts), and after an implementer's
return `RecordHandback`, `CheckHandback` (protected files), `CommitWork`,
`StampAndRefresh`, `Gate`. Every write and delete of the in-flight record and every
git call may fail; a crash may come between any two steps; people act while no role
runs. `told` collects, as history, the reasons that excuse a later step, each a gap the
code has (below) or a choice a person made.

`told.unseen` follows a role's change of a protected file: "yes" while a check of it
is still to come, "lost" when the run ends with the baseline in memory only or with no
record, or when the recovery is declined or fails, "dropped" when the record is deleted
with nobody asked and nothing compared (`Unasked`), and "no" once the files were
compared. A dispatch makes the files as they are its baseline, and the history starts anew.

Abstracted: one in-scope code file, one protected file and one ledger; writes and
deletions of the carry-over list succeed (the code logs a failure and goes on,
orchestrator.py:9012-9028, 9075-9089); the return of a role that is no implementer is
one step with its protected-file check and the deletion of its record; the audit is
one step; tpm is planner; published commits, branch switches, dry runs, links,
missing digests, chat-owned paths, scanners and verification commands (the gate's
verdict on them is free).

### AuditFanOut

`rev[r]` is a reviewer's thread: running, on its fallback CLI, ended or stopped, its
vote, whether it kept from writing, its error. `Collect` is the end of the pool:
hashes compared, faulty reviewers named; `Restore` writes the handoff back as it was
given to them; `Merge` and `WriteVerdict` make the one verdict; in Linear mode
`Posts` to `AgentEnds` stand for the evidence agent in between. `Inspect`, `Follow`,
`CheckProtected`, `Accept` and `Again` are the loop's part. `MayFallBack` is the
failover rule. A chat answer reads, rewrites and requests at any of these moments;
`Crash` and `Restart` use the in-flight record (`Restart` may restore the handoff also
where the code stops because HEAD moved: more behaviours, not fewer).

Abstracted: prompts, ranges, logs and usage; the fallback may or may not be
configured; a file a reviewer edits is looked at only where the code looks (the
protected ones, and in Linear mode the whole tree); the evidence agent's report is
truthful except for wrong posts.

### Supervisor

One action for each step on a shared file: `CreateLock` (O_EXCL), `ReadLock`,
`UnlinkLock` (by name), `WriteLock`, `Release` (by token); the dispatcher's
`TakeGate`, `ClearStaleRequest` (reads the pid in the request), `SweepRequest` (deletes
the file by name), `BeginCycle`, `EndCycle`, `EndRun`, `ReleaseGate`; and the person who
removes a dead dispatcher's lock. `llm-handoff stop` is a process of its own, as many as
`Stoppers` has: `StopReads` (the pid in the dispatch lock), `StopChecks` (does it run),
`StopRefused` (git does not ignore the file) and `StopWrites`, which overwrites whatever
is there without another look at the lock; between any two of them dispatchers end,
start and sweep, and other stop commands write. `asked` keeps whom a request was written
for, `replaced` and `swept` what became of it.

`ReadResult` classifies a child's exit (`Completed`, `RetryTransient`, `GiveUp`,
`NewFailure`), `BeginRepair` to `CheckRepair` are the repair with its two scope checks.
A change is of a kind (`docs`, `code`, `moved`), since the checks see paths only, and
git names a moved file by its new place (`Shown`). Commits and uncommitted changes are
followed while a repair is judged (`Found`, `Followed`); in between dispatchers and
people make of the checkout what they will.

`agent` is the set of dispatchers with an agent at work. `Killed` is the tree kill: on
POSIX the agent, in a session and a group of its own, works on (agent_process.py:193-197,
233); with `Posix = FALSE` `taskkill /T` takes it along or, failing or timing out, does
not. An agent whose dispatcher is gone ends when it is done (`AgentEnds`).

Abstracted: the preflight's checks, heartbeat, notifications, incident and summary
files; reuse of a pid; `.dispatch.lock` and the request file are written in one step, so
the poll of a stop command for a lock without a pid is time that passes between its read
and its check, and a poll that gives up changes nothing; a request made or deleted by
hand; removing a file does not fail; the repair role is one step.

## Runs

| run | question | size |
| --- | --- | --- |
| `loop_gate` | can a claim slip past the gate through repairs, escalations, hand edits, operator dispatches, recoveries? | 9 texts, 569,184 states |
| `loop_story` | from rejection to publication: does the breaker hold over restarts, is what is published what the auditor approved, does a stop let one dispatch begin at most? | 10 texts, counts to 4, 1,920,399 |
| `loop_live` | handoffs that lead nowhere: one recovery per pause streak, stop requests are honoured, stuck loops end | 10 texts, 311,960 |
| `chat_answers` | the worker and its promise, with liveness | 3 messages, 3 threads, 2 stoppers, 34,662 |
| `takeover` | rewrites against handback, claim, commit, gate, publish; a rewrite stops a role | 2 messages, 4 texts, 634,885 |
| `publish` | one story to its merge, interrupted anywhere: what merges, is it reviewed and settled, is anything done twice or forgotten? | 4 settings, 1 finding, 1 round, 2,420,138 |
| `supervisor` | two supervisors, a dispatcher by hand and two stop commands over stale locks: one dispatcher and one agent, bounded restarts, clean restarts, which requests are lost? | budgets of 1, 2 events, 4,179,011 (up to symmetry) |
| `inflight` | a crash, a failed call or a person between any two steps of a dispatch and of its recovery | 2 stories, 3 dispatches, 3 events, 4,342,018 (up to symmetry) |
| `audit` | three reviewers, forbidden writes, chat, the Linear post: is a verdict earned? | 2 audits, 1 answer, 2 faults, 4.8 million |

What each property is about:

- `loop_gate`: `AuditGated` (no auditor on a claim the gate has not passed) and
  `RecoverySparesClaims` (no planner recovery over such a claim).
- `loop_story`: `BreakerHolds`, `PublishedAsApproved`, and
  `OneDispatchAfterStop` (a stop request lets only the dispatch already chosen
  begin).
- `loop_live`: `OnePauseRecovery`; `StopHonoured` (a request ends the run, or the
  run ends first); `StuckLoopEnds` (a loop whose handoff no longer changes
  comes to a pause or an end).
- `chat_answers`: `OneAnswerAtATime` (no two threads answer),
  `QueueAttended` (a waiting message has a live thread that will look),
  `StopEnds` (whoever joins the thread gets past the join) and `KeepsPromise` (it implements
  AnswerQueue).
- `takeover`: `NoRewriteForgotten`, `PublishedQuietly`, `FollowedAsRequested` (a
  rewrite is followed only if it is what its request named or what an answer at it
  puts back, or if more is to come), `RewriteStopsRole` (a request ends the run of any
  role but the finalizer).
- `publish`: `PublishedAsAudited` (above the audited commit lie only base merges),
  `ReviewedOrWaived` (the head that a publish merges was reviewed, had its rounds, or
  was waived for that very head), `FindingsSettled` (whoever merges), `DoneOnce`
  (replies, review requests and the planner's pass, over any number of resumptions),
  `StoryNotForgotten`.
- `supervisor`: `DispatcherAlone`, `OneSupervisor`, `BoundedRestarts`,
  `CleanRestart`, `OneAgentAtWork` (no agent is started beside one that a killed
  dispatcher left, unless a person removed that dispatcher's lock meanwhile) and
  `RequestKept` (a request is there as long as its dispatcher runs; the two ways to
  lose it are named).
- `inflight`: `CommittedAsOwned` (a commit made for a story holds that story's work
  only), `HandbackGated` (no crash takes a claim past the gate), `GuardChecked` (a
  change of a protected file that waits for its check never becomes a baseline),
  `FinalizedOnce` (the finalizer acts on a whole verdict, and once).
- `audit`: `VerdictEarned` and `RequestAudited` (nothing a reviewer wrote becomes
  the next audit's claim).

Bounds. One story in DispatchLoop: the breaker, the streak and the gate look at the
story of one handoff, and no two stories' counts meet (the file of many stories is
listed as a hazard). `BounceCap` is one above the breaker's limit: the code does not
tell counts above it apart. `MaxFailures` is 1 or 2, so both "below" and "at" the
limit occur. `Events` chooses which of edits, stop requests and crashes happen:
`loop_gate` has edits only, because its property excuses a restart; `loop_live` has
stop requests only, because an edit is a change of the handoff that its property
excuses; `loop_story` has all three. `loop_story` runs without the gate, under which
the breaker does not hold over restarts (below); the gate is the subject of
`loop_gate`. The texts of a run are those its question needs; roles may write any of
theirs at any time while they run, any number of times. Three threads are one working,
one that follows it after a stop, and one after that; two stoppers are the least that
race. Two messages are the least for a request to be replaced by another.

The newer modules bound what may go wrong in one behaviour, and every step of the
code itself is free. `publish`: one commit of the implementer (`MaxWork`), one end
of the run at any step (`MaxEnds`), one interference of a person or the base
(`MaxActs`), one finding and one round, so that both "rounds left" and "used up"
occur. `inflight`: three events, enough for a crash, a second one in the
recovery of the first, and an edit between; three dispatches, so that work of
one story can meet another's; a file has at most two edits between commits, a
person's and a story's; the stories are interchangeable, hence the symmetry.
`audit`: two faults let a failed audit's leftovers meet the second audit and a
crash. `supervisor`: one supervisor with a retry and a repair, one with neither, so
that every budget is met at its limit and exhausted; two events, which stop commands,
kills, crashes, failed git calls and hand starts share. A supervisor's own retries cost
none, so two stop commands can meet two runs (the late write), and one of them the
removal of a stale lock whose request is still there (the sweep); with both excuses
taken away TLC finds each within seconds.

The deadlock check is off where a behaviour rightly stops: in `chat_answers` when
all threads are gone and all messages sent, in `supervisor`, `inflight` and `audit`
when every process is over or a bound on dispatches, audits or starts is used up.

Three further runs must find a violation, each of a statement of the
repository's own documents:

- `loop_breaker_gate`: the gate's own bounces are recorded without a path to the
  counts' file, so they are forgotten by a restart.
- `takeover_gate`: `RewriteOutlivesGate`; the gate writes back the claim it read
  before verification, over what a chat answer wrote meanwhile.
- `publish_replies`: `RepliesMatch`; findings deferred in different correction
  rounds may have the same number, and the planner's decision on one is posted on,
  and resolves, the thread of the other.

### Statements TLC refutes that no run checks

They are defined in the modules, for whoever wants to run them; each needs an
ordinary sequence of events.

- `AuditGatedAlways` (DispatchLoop): an implementer writes `ready_for_review` and
  exits non-zero; the cycle ends without the gate (orchestrator.py:3187) and the
  next one dispatches the auditor on the claim.
- `ApprovalOffered` (DispatchLoop): an approval that needed the hygiene repair is
  accepted in a block of its own (orchestrator.py:3466), which ends the cycle before
  it is published.
- `KilledTreeIsGone` (Supervisor): the supervisor kills a stalled dispatcher; `killpg`
  reaches the dispatcher's group only (agent_process.py:233), its agent was started in a
  session of its own (agent_process.py:193-197) and works on. The docstring says that
  "killing its process group reaches every descendant" (agent_process.py:217). What
  holds is `OneAgentAtWork`.
- `RequestNotReplaced` (Supervisor): stop command A reads and checks run 1 and is slow;
  run 1 ends, run 2 starts, stop command B is accepted for run 2; A writes its request
  for run 1 over B's (`__main__.py:757`, stop_request.py:117-125), and run 2 goes on,
  although B's user was told it "exits with code 0 before the next dispatch"
  (`__main__.py:759-761`).
- `RequestNotSwept` (Supervisor): a request written between the starting dispatcher's
  read of a stale one (stop_request.py:162) and its unlink by name (164, 171) is deleted
  as the stale one; the docstring says that "a request naming this pid is kept"
  (stop_request.py:156-157).
- `GuardAlwaysChecked` (InFlightRecovery): a planner changes a protected file, finishes
  its handoff and is killed before the check; the next start deletes its record without
  comparing anything (orchestrator.py:10749-10788), and the next dispatch hashes the
  changed file as its baseline. So for an interrupted finalizer (11255-11292) and a
  handback that has moved on (10126-10148). "Before every dispatch ... the orchestrator
  hashes every file that matches `protected_paths`", "After the dispatch it compares the
  hashes" and "Any other change fails closed" (docs/ARCHITECTURE.md:280-289). TLC needs
  one event and two dispatches.
- `RewriteNotRestored` (AuditFanOut): a chat answer that rewrote the handoff and
  still runs has requested nothing yet, so its rewrite is blamed on a reviewer and
  restored over, against the comment at audit_review.py:735.
- `NothingDropped` (StoryPublish): after a settled merge the local branch is deleted
  with `-D` (publish.py:1150), with whatever a person committed on it since.
- `ReviewedHoweverMerged` (StoryPublish): `ReviewedOrWaived` without its restriction to
  the merges of a publish. The docs say "The dispatcher only merges without a finished
  review when the operator types `merge` or `review_stall_action` is `merge`"
  (CONFIGURATION.md:1778). `settle_deferred_findings` compares the head with the
  reviewed one only to arm decisions the planner volunteered (publish.py:2943); once
  the pass is armed (publish.py:2970) it merges what the story branch has become. TLC
  needs two rounds, two ends of the run and two acts (about 100 s), so no run has it:
  the run ends after the arming, the base moves and a person commits on the branch,
  and the next start lets the planner decide and merges that commit unreviewed.

### Gaps the properties leave open

The premises of some properties name what the code does not cover; each was found by
TLC as a counterexample to the plain statement.

- DispatchLoop: whether the handoff is an unchecked claim is determined
  (orchestrator.py:3403) before the repair agent rewrites it, so a hygiene recovery
  may be scheduled over a claim; `RecoverySparesClaims` is therefore about pause and
  routing recoveries.
- ChatTakeover: the loop top waits for no answer: a rewrite made after a cycle's
  last check is routed on as an operator edit, and its request is dropped at the
  next dispatch (orchestrator.py:2814); the windows `NoRewriteForgotten` speaks of
  end there. An answer that runs across the comparison in `_follow_chat_takeover`
  (orchestrator.py:4250) and restores the bytes it began on has changed nothing and
  requests nothing, so those bytes, not the compared ones, are followed. It takes
  three messages and a request lost before; the proof attempt showed it, not the run.
- InFlightRecovery: when `git status` fails before a dispatch, the list of dirty files
  is empty and a person's edit may be committed as the story's (`excused`); a kept
  record is overwritten by the next dispatch; a baseline recovered from a record is
  lost if the run ends after the record's deletion and before the next dispatch writes
  its own ("lost"); the record of an interrupted planner or finalizer with a whole or
  untouched handoff, an auditor's with its handoff unchanged, and a handback's whose
  cycle moved on are deleted with no look at the protected files ("dropped",
  `GuardAlwaysChecked` above); a crash between the deletion of such a role's record
  (orchestrator.py:2924-2970) and the check after it is not in the model, which has
  the two in one step, and would lose the change in the same way; a crash between `git
  commit` and the refresh of the record, or in a resumed handback cycle, which has no
  record, leaves the claim to the auditor; a finalizer that fails after it committed
  the ledger may write it again; a failed exit sends the claim on ungated, as above;
  without a written record there is nothing to recover from; and where a new record
  could not be written, an older one that could not be read may have stayed in its
  place (`waived`). An edit that gives a protected file its baseline's content again
  is no change (`GuardChecked`). The last two need more events than the run has; the
  proof attempts showed them.
- Supervisor: two starts that race for a dead supervisor's lock may both run
  (`raced`): the file is read, then removed by name. A lock left empty by a crash
  refuses every later start. A late stop command and a sweep lose a request, as above.
  A person who removes the lock of a dead dispatcher, as the refusal asks, is not told
  whether its agent still works (`orphaned`). A failing git command makes both scope
  checks see nothing (`blind`); a file moved into the scope and a file dirty before
  the repair are not blamed on it.
- StoryPublish: a call that GitHub accepted and whose answer was lost is made once
  more, each time it is lost (`torn`). In merge-commit mode nothing holds back the next
  story. An audit with the base branch checked out and no implementer's commit on it
  is an audit of no commit, so `PublishedAsAudited` says nothing of what is committed
  after it. A story branch that is deleted because it holds no work counts as landed
  (`DropEmptyStoryBranch`). These four were wrong or too simple in the model until the
  proof attempts; the run's bounds did not show it.
- AuditFanOut: if a person declines the recovery of an interrupted audit, what a
  reviewer wrote stays.

## Fairness

The loop is one thread that never waits except for a role, an answer or a
pause: weak fairness of its steps. A role's process has a timeout, hence
`WF(RoleReturns)` in DispatchLoop; ChatTakeover does not need it and does not
assume it: what ends the run there is the runner's poll (`RoleStopped`). A pause
polls for a stop request (`poll_interval_seconds` > 0). Answers have a timeout.
Nothing is assumed of people: they need not edit, submit, stop, or answer a
prompt. StoryPublish, InFlightRecovery, AuditFanOut and Supervisor state no
fairness: their properties are about safety, and their code waits for people and
remote services at so many places that nothing need ever happen.

## Proofs

All proofs hold for every value of the constants under the named assumptions
(`HandoffsAssumption`, `SwitchesAssumption`, `NamesAssumption`, `MessagesAssumption`,
`TextsAssumption`, `SupervisorAssumption`, `InFlightAssumption`, `FindingsAssumption`,
`SettingsAssumption`, `RoundsAssumption`), which TLC evaluates in every run: that
constants which stand for different things differ, that bounds are numbers, that a
story's review has finitely many findings, that settings are of the kinds the
configuration knows, and that there is room for one edit (`MaxEdits`). Two theorems
have a hypothesis of their own and one a setting; each is named below with the reason.
Every inductive invariant was checked by TLC before it was proved.

`DispatchLoopProofs`:

- `TypeCorrect`: `Spec => []TypeOK`. The invariant `TypeInv` adds what the shape
  alone cannot show inductive: a cycle in work is a record with a role, a
  pause has the content it paused on.
- `BreakerCorrect`: `~EnforceWorkPacket => (Spec => []BreakerHolds)`. The
  assumption is not for convenience: with the gate on, the statement is false
  (`loop_breaker_gate`). The invariant says that memory and file agree and are
  no smaller than the true number of rejections (capped), and that a running
  implementer's story is below the limit.
- `RecoveryBounded`: `recoveries` is zero while `pause_recovery_used` is false,
  whatever ends the pause.
- `StopBounded`: between the loop top and the dispatch no second dispatch can
  begin, and at the loop top a stop request ends the run.

`DispatchLoopGateProofs`:

- `AuditGatedCorrect` and `ClaimsSpared`: an unchecked claim that nobody excuses is
  in its implementer's own cycle, under a pause that only another handoff ends, or in
  front of or inside the planner's hygiene cycle, which ends the run unless the
  planner writes (`Contained`); no other recovery is scheduled then.
- `ApprovalIsTheAuditors`: what leads from the audit to `publish_story` is the
  auditor's text and has passed validation, or a person wrote it (`ApprovalInv`).
  Hence `PersonsDoNotApprove`: no text of a person's has the status
  `verified_pass`. A person who writes an approval is not stopped by the code either.

`ChatAnswersProofs`: the invariant `Inv` says that exactly the thread that owns
the queue is alive, that `_active` counts its answer, that a queue with messages
has an owner which is awake and not told to stop, and that a waiting message is
in the queue. From it: `OneAnswer`, `Attended`, `TypesCorrect`, and
`PromiseKept`: every step of the worker is a step of AnswerQueue or a stutter.

`ChatTakeoverProofs` (`TakeoverInv`), for any number of messages and texts:

- `RewritesAreRemembered` needs, beside the property, that an answer which *began* on
  a rewrite began after the request for it (`Kept`), and that a request about to be
  claimed, if no newer one replaced it, is not that of a rewrite on disk
  (`Claiming`). The second holds since the loop compared the file with the request,
  and since generations only grow; it is what an unconditional clear would break.
- `PublishingIsQuiet`: from its validation on, an auditor's handoff is either the
  auditor's text or a chat's of which a request tells or will tell (`Vouched`), so
  the last look, taken with capture off, sees everything.
- `FollowingIsAsRequested`: after the comparison the file is the compared one, or an
  answer is at it, has requested, or has put back what it began on (`Judging`).
- `TakeoverTyped`: what the commit and the gate write back is what they read.

`AuditFanOutProofs`: `VerdictIsEarned` and `NothingForbiddenAudited` rest on
`AuditInv`: while reviewers run, one that wrote is over a changed handoff or will be
found out by its hash (`Watched`); past the collection nobody wrote; and a text that
a role was told not to write is only ever under the eyes of the audit or in front of
the recovery of its record (`Strayed`). The attempt showed that a text a reviewer
wrote may become the next audit's own claim after a declined recovery, so a forbidden
write has to be other bytes than the audit began with: writing the same bytes is no
change that anything could see. `AuditTyped` is the type invariant.

`InFlightRecoveryProofs`, for any number of stories, dispatches, edits, crashes and
failed calls; each theorem has an invariant of its own over the common types
(`RecordsTyped`):

- `ChangesAreChecked` (`UnseenInv`): the run that will check an unseen change holds a
  baseline that differs from the file; or a record on disk has it; or the loop waits
  with a recovered baseline that no content matches (`Unverified`). An implementer's
  dispatch record never goes unasked while a change waits: the changed file is among the
  uncommitted ones, so `RecoverDispatch` finds something and asks.
- `ClaimsAreGated` (`LinkInv`, `GatedInv`): a claim that nothing excuses is in a cycle
  of its implementer, in a record that leads back to the gate, or in a recovery that
  waits to resume it; no record of an audit holds another. What breaks this chain is
  listed among the gaps above.
- `VerdictsActedOnOnce` (`WholeInv`, `LedgerInv`, `ClosedInv`): an unfinished verdict
  has its auditor running or its auditor's record on disk; the branch is longer than
  a finalizer's record says once its ledger is committed, and until the planner's
  turn the record, the finalizer or the loop's memory tells so.
- `CommitsAreOwned` (`OwnInv`): what the carry-over list and the checkout hold as a
  story's is that story's, or content a person vouched for; it is kept for the list
  read back, the running implementer, the adopted handback and the commit.

`SupervisorProofs`, each for any number of supervisors, any budgets and any number
of crashes, kills and interrupts; `Shape` types what the steps read:

- `OneDispatcher` rests on `GateInv`: who is past the dispatch lock has its pid in it; a
  running dispatcher whose pid is known anywhere, in a file, to a stop command or as an
  agent's, is past the lock; and nobody knows a pid that is still to come (`Known`,
  `Numbered`).
- `NoRequestLost`: `RequestKept` is inductive beside `GateInv` (`KeptStep`). Who looks for
  a request is the one in the lock (`Looks`), so whoever writes for another writes for one
  that is over, which is `replaced`; and a sweep that finds a request written meanwhile is
  `swept`. A dispatcher that read its own pid sweeps nothing.
- `AgentsAlone` (`AgentInv`): an agent at work has its dispatcher's pid in the dispatch
  lock, dead or alive, unless a person removed the lock; hence the next dispatcher is
  refused while it works. Whether the kill reaches the agent does not matter.
- `SupervisorAlone` rests on `LockInv`: while no start raced, who manages the
  repository is the owner in the lock; and who is about to remove a lock has read
  that of a process that is over. The last part is what `raced` breaks.
- `RestartsAreBounded` rests on `BudgetInv`, which says for each stage how many
  starts the retries and repairs made so far have paid for.
- `CleanRestarts` (`JudgeInv`): the commit the repair is compared with stays on the
  branch below everything the repair made, whoever else commits meanwhile.
- `TypesHold`: the type invariant.

`StoryPublishProofs`, for any findings, settings, rounds, crashes, failed calls and
interference. Six of the seven rest on one invariant, `IInv`, since its parts need each
other, and the last adds `Matching` to it:

- `Typed`, `Placed`, `Checkout`: the types; which run may be at which place, with a
  saved story or without one; and the life of the branch: before it is cut nothing has
  happened (`Untouched`), while the pull request is worked on it is checked out, and in
  merge-commit mode there is nothing at GitHub.
- `Remembered` (`NoStoryForgotten`): a story that is not on disk although its branch was
  cut is merged, landed, or was handed to a person.
- `Once` (`NothingDoneTwice`): a head other than the one on record as asked has not been
  asked for; a finding still fresh has no recorded reply; before the pass is on record
  nothing of it has begun, by whichever path.
- `AtAudit` (`MergedAsAudited`): the audited commit cannot simply be required to be below
  the branch, as a person may amend or add commits between the runs. What stays true
  is that the branch is `Built` on it up to its last commit, and that each head the
  story remembers (where it paused, what it last asked about) is `Sound`: a branch that
  is at that head again, and still built on the audited commit, adds only merges to it.
  That is exactly what the resumptions compare. While a publish runs
  the branch itself adds only merges.
- `AtHead` (`ReviewedBeforeMerge`, `FindingsAreSettled`): while a publish reads the pull
  request its head is the branch; from the thread check to the merge the head is
  reviewed or waived, and no unresolved finding has an open thread.
- `TypeCorrect` is `Typed`; `InvariantHolds` is `Spec => []IInv`.
- `RepliesMatchInOneRound`: `MaxRounds <= 1 => (Spec => []RepliesMatch)`. The hypothesis is
  the one `publish_replies` shows to be needed: with two rounds a number can stand for two
  findings. With one, `Matching` is inductive: before the round nothing is answered; the
  findings that can be answered, open or deferred but never both, have different
  numbers; and what is written under such a number, in the handoff or in the saved
  responses, is about the finding that has it.

The attempts refuted three of these properties in their first form (a torn call was
counted once in a behaviour, not once for each time; `ReviewedOrWaived` was about
every merge) and corrected two actions; TLC confirmed each with larger bounds.

Only model-checked: liveness (`StopHonoured`, `StuckLoopEnds`, `StopEnds`,
`RewriteStopsRole`, the liveness of AnswerQueue), as the prover has no support for
fairness and ENABLED. Every other property of a passing run is stated by a theorem.

## Plan

Done: the loop and the two threads that meet it; then publication, the in-flight
records, the audit fan-out, the supervisor with the dispatch lock, and the proofs
of all of these. What is left, in this order:

1. **ChatInput**: the capture thread, its generations, bounded join and
   adoption, under `ChatSession.set_role`; refines the atomic switch of `capture`.
2. The counts' file of many stories, and a dispatcher whose write of it fails.
3. Dispatcher commits of chat changes and of the approved project state; the change
   record outliving its commit; the saved chat queue and its hold.
4. The operator edit watch, the prompt, console interrupts.
5. Pure operators: routing and normalization, validation by fault, Work Packets,
   each against a reference definition.

New modules follow the same form: constants with named assumptions, one action
per handler, invariants as conjunctions of named parts, no RECURSIVE operator
where something is to be proved.

## Not modelled

Prompts, formatting, redaction and logging, doctor and init
(one-time checks of files and versions), provider-specific command lines, the
parsing of frontmatter, Work Packets and GitHub's answers (a text is what it is
parsed to), the platform code that opens files safely, and in the supervisor its
preflight, heartbeat, notifications and incident files. The chat capture thread, the
counts' file of many stories and the chat records are planned, as above.
