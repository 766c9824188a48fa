------------------------------ MODULE StoryPublish ------------------------------
(* One story from its branch to its merge (llm_handoff/publish.py, and the      *)
(* places of orchestrator.py that call it): the push, the pull request, the     *)
(* Codex review and its correction rounds, the answers on the review threads,   *)
(* the planner's pass at deferred findings, the merge, and what a start does    *)
(* with a publish that paused or was cut off.                                   *)
EXTENDS Integers, Sequences, FiniteSets, SequencesExt

CONSTANTS
    Findings,       \* review comments Codex can post; each opens a thread
    Person,         \* the thread of a person's comment
    MaxRounds,      \* publish.max_review_rounds
    Settings,       \* the publish configurations to check
    MaxWork,        \* bound: commits of the implementer
    MaxEnds,        \* bound: crashes and failed commands
    MaxActs         \* bound: moves of the base branch, and what people do on the
                    \* checkout and on GitHub

ASSUME FindingsAssumption == IsFiniteSet(Findings) /\ Person \notin Findings
ASSUME SettingsAssumption ==
    Settings \subseteq [mode: {"pr", "merge-commit"}, auto: BOOLEAN, reviewers: BOOLEAN,
                        stall: {"prompt", "merge"}, planner: BOOLEAN, operator: BOOLEAN]
ASSUME RoundsAssumption == MaxRounds \in Nat

Threads == Findings \cup {Person}
Numbers == 1..Cardinality(Findings)

(* An answer stands under a finding's number; "about" is the finding its author *)
(* wrote it for.                                                                *)
Answers == [about: Findings, kind: {"fixed", "deferred", "follow"}]
NoAnswer == [about |-> Person, kind |-> "none"]
Silence == [n \in Numbers |-> NoAnswer]

(* A commit is its history: the kinds of the commits since the story left the   *)
(* base branch. "merge" is a clean merge of the base branch, "resolved" holds   *)
(* only a conflict resolution, "edited" more than that; "stray" is a person's.  *)
Kinds == {"work", "ledger", "merge", "resolved", "edited", "stray"}
NoCommit == <<>>
Covers(commit, head, kinds) ==
    /\ IsPrefix(commit, head)
    /\ \A i \in Len(commit) + 1 .. Len(head) : head[i] \in kinds

VARIABLES
    pc,
    conf,           \* the settings of this project
    git,            \* the checkout
    base,           \* what merging the remote base branch would meet
    hub,            \* the pull request on GitHub
    story,          \* logs/dispatch: the saved StoryState, or NoStory
    responses,      \* the saved review responses
    handoff,        \* HANDOFF.md
    run,            \* locals of the running publish
    hist,           \* history: what the properties look back at
    left            \* what is left of the bounds

world == <<git, base, hub>>
disk == <<story, responses, handoff>>
vars == <<pc, conf, git, base, hub, story, responses, handoff, run, hist, left>>

NoStory == [saved |-> FALSE]
Gone == [num |-> 0, st |-> "gone"]
FreshStory == [saved |-> TRUE, rounds |-> 0, open |-> [f \in Findings |-> Gone],
               deferred |-> [f \in Findings |-> 0], passed |-> FALSE,
               paused |-> "none", pausedAt |-> NoCommit, reviewed |-> NoCommit,
               retry |-> NoCommit]
Idle == [task |-> "publish", resumed |-> FALSE, again |-> FALSE, resolved |-> FALSE,
         stalled |-> FALSE, todo |-> {}, seen |-> {}, put |-> {}]

TypeOK ==
    /\ conf \in Settings
    /\ git.at \in {"base", "story"} /\ git.branch \in Seq(Kinds) /\ git.loose \in Seq(Kinds)
    /\ \A flag \in {git.cut, git.merging, git.dirty, git.landed} : flag \in BOOLEAN
    /\ base \in {"none", "clean", "state", "conflict"}
    /\ hub.state \in {"none", "open", "merged", "closed"} /\ hub.head \in Seq(Kinds)
    /\ hub.threads \in [Threads -> {"none", "open", "resolved"}]
    /\ hub.verdict \in {"none", "done", "failed", "limited"} /\ hub.found \subseteq Findings
    /\ story # NoStory =>
         /\ story.rounds \in 0..MaxRounds
         /\ \A f \in Findings :
              /\ story.open[f].num \in 0..Cardinality(Findings)
              /\ story.open[f].st \in {"gone", "fresh", "replied", "postponed", "resolved"}
              /\ story.deferred[f] \in 0..Cardinality(Findings)
         /\ story.passed \in BOOLEAN /\ story.paused \in {"none", "push", "merge"}
         /\ {story.pausedAt, story.reviewed, story.retry} \subseteq Seq(Kinds)
    /\ responses \in [Numbers -> Answers \cup {NoAnswer}]
    /\ handoff.kind \in {"work", "claim", "blocked", "pass", "deferral", "next", "user"}
    /\ handoff.said \in [Numbers -> Answers \cup {NoAnswer}] /\ handoff.scope \in Seq(Kinds)
    /\ run.task \in {"publish", "deferral", "settle"}
    /\ run.todo \cup run.seen \cup run.put \subseteq Findings

-----------------------------------------------------------------------------
(* Reading the saved state.                                                     *)

Open(s) == {f \in Findings : s.open[f].st # "gone"}
Deferred(s) == {f \in Findings : s.deferred[f] # 0}
UnresolvedFindings(s) ==
    {f \in Open(s) : s.open[f].st # "resolved"} \cup Deferred(s)
Known(s) == IF s = NoStory THEN {} ELSE UnresolvedFindings(s)
NumberOf(s, f) == IF f \in Open(s) THEN s.open[f].num ELSE s.deferred[f]
UnresolvedThreads == {t \in Threads : hub.threads[t] = "open"}

(* The saved findings whose thread is not resolved on GitHub either.            *)
StillUnresolved == {f \in UnresolvedFindings(story) : hub.threads[f] # "resolved"}

CheckedOut == story # NoStory /\ git.at = "story"

(* HANDOFF.md is the story's verified_pass; the audited commit is its scope.    *)
AuditedStoryCommit == handoff.kind = "pass"

(* Why the pull request's head may not merge outside the normal publish.        *)
HeadIsReviewed ==
    /\ hub.head = git.branch
    /\ story.reviewed # NoCommit
    /\ Covers(story.reviewed, git.branch, {"merge"})

(* What the run may leave on disk when it ends: nothing more than it wrote.     *)
Ends == pc' = "down" /\ run' = Idle

(* _pause clears the story state unless it is kept for a resume, and tells the  *)
(* operator to publish the story.                                               *)
PauseForPerson ==
    /\ Ends
    /\ story' = NoStory /\ responses' = Silence
    /\ hist' = [hist EXCEPT !.told = TRUE]
    /\ UNCHANGED <<conf, world, handoff, left>>
PauseKept(s) ==
    /\ Ends
    /\ story' = s
    /\ UNCHANGED <<conf, world, responses, handoff, hist, left>>

Bounded(bound) == left[bound] > 0 /\ left' = [left EXCEPT ![bound] = @ - 1]
Goto(place) ==
    /\ pc' = place
    /\ UNCHANGED <<conf, world, disk, run, hist, left>>

(* What a role may write about findings that stand under these numbers: one     *)
(* answer a number, about one of the findings that bear it.                     *)
Writings(numbers, fs, kinds) ==
    {said \in [Numbers -> [about: fs, kind: kinds] \cup {NoAnswer}] :
        \A n \in Numbers : said[n] = NoAnswer \/ numbers[said[n].about] = n}

-----------------------------------------------------------------------------
(* The roles.                                                                   *)

(* The handoff assigns the story: its branch is cut from the local base branch, *)
(* with the commits found there, or checked out again.                          *)
EnsureStoryBranch ==
    /\ pc = "up" /\ handoff.kind = "work" /\ ~(git.landed /\ story = NoStory)
    /\ \/ /\ git.at = "base" /\ ~git.cut
          /\ git' = [git EXCEPT !.at = "story", !.cut = TRUE, !.branch = git.loose,
                                !.loose = NoCommit]
          /\ story' = FreshStory /\ responses' = Silence
       \/ /\ git.at = "story" \/ git.cut
          /\ git' = [git EXCEPT !.at = "story"]
          /\ UNCHANGED <<story, responses>>
    /\ pc' = "impl"
    /\ UNCHANGED <<conf, base, hub, handoff, run, hist, left>>

Commit(kind) == git' = [git EXCEPT !.branch = Append(@, kind)]

(* The story is claimed, with a commit of the dispatcher's for what changed, if *)
(* anything did, and answers to some of the open findings. An empty branch is   *)
(* claimed when the planner routes the epic's close review from it.             *)
ImplementerClaims ==
    /\ pc = "impl"
    /\ \/ left.work > 0 /\ Commit("work") /\ left' = [left EXCEPT !.work = @ - 1]
       \/ UNCHANGED <<git, left>>
    /\ LET s == IF story = NoStory THEN FreshStory ELSE story
           numbers == [f \in Findings |-> s.open[f].num]
       IN \E said \in Writings(numbers, Open(s), {"fixed", "deferred"}) :
             handoff' = [kind |-> "claim", scope |-> NoCommit, said |-> said]
    /\ pc' = "up"
    /\ UNCHANGED <<conf, base, hub, story, responses, run, hist>>

(* A blocked handback that answers some of the findings, and changes nothing.   *)
ImplementerBlocks ==
    /\ pc = "impl" /\ story # NoStory /\ Open(story) # {}
    /\ LET numbers == [f \in Findings |-> story.open[f].num]
       IN \E said \in Writings(numbers, Open(story), {"deferred"}) :
             handoff' = [kind |-> "blocked", scope |-> NoCommit, said |-> said]
    /\ pc' = "handback"
    /\ UNCHANGED <<conf, world, story, responses, run, hist, left>>

(* The responses in the handoff replace the saved ones, number by number.       *)
Merged(said) == [n \in Numbers |-> IF said[n] = NoAnswer THEN responses[n] ELSE said[n]]

(* defer_blocked_handback: a blocked handback that defers every open finding    *)
(* counts as a deferral, when the pull request is still at its reviewed head.   *)
OnlyDefers ==
    LET pending == {f \in Open(story) : story.open[f].st # "resolved"}
    IN /\ CheckedOut /\ ~story.passed /\ ~git.dirty
       /\ pending # {}
       /\ \A f \in pending : handoff.said[story.open[f].num].kind = "deferred"
DeferBlockedHandback ==
    /\ pc = "handback"
    /\ \/ ~OnlyDefers /\ Goto("up")
       \/ /\ OnlyDefers /\ ~(hub.state = "open" /\ HeadIsReviewed)
          /\ PauseKept(story)
       \/ /\ OnlyDefers /\ hub.state = "open" /\ HeadIsReviewed
          /\ responses' = Merged(handoff.said)
          /\ pc' = "answer"
          /\ run' = [Idle EXCEPT !.task = "deferral",
                                 !.todo = {f \in Open(story) : story.open[f].st # "resolved"},
                                 !.seen = {f \in Findings : hub.threads[f] = "resolved"}]
          /\ UNCHANGED <<conf, world, story, handoff, hist, left>>

(* The auditor reads a claim; its responses are saved first, since the auditor  *)
(* rewrites the handoff. An audit on an empty branch closes the epic. One with  *)
(* the base branch checked out, where nothing of the story is, audits no commit *)
(* of it, whatever its scope says.                                              *)
Audit ==
    /\ pc = "up" /\ handoff.kind = "claim"
    /\ responses' = Merged(handoff.said)
    /\ \/ /\ LET head == IF git.at = "story" THEN git.branch ELSE git.loose
             IN /\ handoff' = [kind |-> "pass", scope |-> head, said |-> Silence]
                /\ hist' = [hist EXCEPT !.audited =
                                IF git.at = "story" \/ git.loose # NoCommit THEN head ELSE @]
          /\ pc' = "begin" /\ run' = Idle
       \/ /\ git.at = "story"
          /\ handoff' = [kind |-> "work", scope |-> NoCommit, said |-> Silence]
          /\ UNCHANGED <<pc, run, hist>>
    /\ UNCHANGED <<conf, world, story, left>>

(* The planner routes on, and may write decisions about unresolved findings.    *)
PlannerRuns ==
    /\ \/ pc = "up" /\ handoff.kind \in {"pass", "deferral", "blocked"}
       \/ pc = "paused"
    /\ \E kind \in {"work", "next", "user"} :
         \E said \in IF story = NoStory THEN {Silence}
                     ELSE Writings([f \in Findings |-> NumberOf(story, f)],
                                   UnresolvedFindings(story), {"follow"}) :
            handoff' = [kind |-> kind, scope |-> NoCommit, said |-> said]
    /\ pc' = IF conf.mode = "pr" THEN "decided" ELSE "up"
    /\ UNCHANGED <<conf, world, story, responses, run, hist, left>>

-----------------------------------------------------------------------------
(* publish_story up to the pull request.                                        *)

(* A story a person committed on the base branch: the last commit is audited,   *)
(* and whatever is below it only updates the ledger.                            *)
Adoptable ==
    /\ conf.mode = "pr" /\ git.at = "base" /\ ~git.cut /\ ~git.dirty
    /\ git.loose # NoCommit /\ handoff.scope = git.loose
    /\ \A i \in 1 .. Len(git.loose) - 1 : git.loose[i] = "ledger"
AdoptBaseBranchStory ==
    /\ pc = "begin" /\ AuditedStoryCommit /\ story = NoStory /\ Adoptable
    /\ git' = [git EXCEPT !.at = "story", !.cut = TRUE, !.branch = git.loose,
                          !.loose = NoCommit]
    /\ story' = FreshStory /\ responses' = Silence
    /\ pc' = "sync"
    /\ UNCHANGED <<conf, base, hub, handoff, run, hist, left>>

(* An epic close with no story branch has nothing to publish.                   *)
EpicCloseMerged ==
    /\ pc = "begin" /\ story = NoStory /\ git.at = "base" /\ git.loose = NoCommit
    /\ Goto("up")

(* The audited work must be on the branch the saved state names.                *)
PublishRefused ==
    /\ pc = "begin" /\ AuditedStoryCommit
    /\ \/ story # NoStory /\ git.at # "story"
       \/ story = NoStory /\ ~Adoptable /\ (git.at = "story" \/ git.loose # NoCommit)
    /\ Ends
    /\ UNCHANGED <<conf, world, disk, hist, left>>

(* Only a verified_pass publishes. A pause at the merge step is remembered in   *)
(* this run, and the saved marker is taken off.                                 *)
PublishBegins ==
    /\ pc = "begin"
    /\ \/ ~AuditedStoryCommit /\ Goto("up")
       \/ /\ AuditedStoryCommit /\ CheckedOut
          /\ IF conf.mode = "merge-commit"
             THEN pc' = "switch" /\ UNCHANGED <<story, run>>
             ELSE /\ pc' = "sync"
                  /\ run' = [run EXCEPT !.resumed = story.paused = "merge"]
                  /\ story' = [story EXCEPT !.paused = "none", !.pausedAt = NoCommit]
          /\ UNCHANGED <<conf, world, responses, handoff, hist, left>>

(* _sync_with_base, before the first push and again when the pull request is    *)
(* not mergeable.                                                               *)
Step == IF run.again \/ run.resumed THEN "merge" ELSE "push"
Paused == [story EXCEPT !.paused = Step, !.pausedAt = git.branch]
MayResolve ==
    /\ conf.planner
    /\ run.again => run.task = "publish" /\ ~run.resolved /\ ~run.stalled

(* Uncommitted files the merge would change are left alone: the merge does not  *)
(* start. A merge already in progress holds such files.                         *)
SetAsidePause ==
    /\ pc = "sync"
    /\ git.merging \/ (git.dirty /\ base # "none")
    /\ PauseKept(Paused)
SyncNothing ==
    /\ pc = "sync" /\ ~git.merging /\ base = "none"
    /\ Goto("push")
SyncClean ==
    /\ pc = "sync" /\ ~git.merging /\ base = "clean"
    /\ IF git.branch = NoCommit THEN UNCHANGED git ELSE Commit("merge")
    /\ base' = "none" /\ pc' = "push"
    /\ UNCHANGED <<conf, hub, disk, run, hist, left>>
SyncConflict ==
    /\ pc = "sync" /\ ~git.merging
    /\ base = "conflict" \/ (base = "state" /\ ~MayResolve)
    /\ PauseKept(Paused)
SyncStateConflict ==
    /\ pc = "sync" /\ ~git.merging /\ base = "state" /\ MayResolve
    /\ git' = [git EXCEPT !.merging = TRUE]
    /\ pc' = "resolving"
    /\ UNCHANGED <<conf, base, hub, disk, run, hist, left>>

(* _resolve_state_conflict: the planner's result is committed when it changed   *)
(* the state file only; otherwise the merge is aborted and the publish pauses.  *)
StateConflictResolved ==
    /\ pc = "resolving"
    /\ git' = [git EXCEPT !.merging = FALSE, !.branch = Append(@, "resolved")]
    /\ base' = "none" /\ pc' = "push"
    /\ run' = [run EXCEPT !.resolved = TRUE]
    /\ UNCHANGED <<conf, hub, disk, hist, left>>
StateConflictUnresolved ==
    /\ pc = "resolving"
    /\ Ends
    /\ git' = [git EXCEPT !.merging = FALSE]
    /\ story' = Paused
    /\ UNCHANGED <<conf, base, hub, responses, handoff, hist, left>>

(* An epic close on a branch with nothing of its own drops branch and state; the *)
(* base branch is forwarded to it first, so all of it is there.                  *)
DropEmptyStoryBranch ==
    /\ pc = "push" /\ ~run.again /\ git.branch = NoCommit
    /\ git' = [git EXCEPT !.at = "base", !.cut = FALSE, !.landed = TRUE]
    /\ story' = NoStory /\ responses' = Silence
    /\ pc' = "up" /\ run' = Idle
    /\ UNCHANGED <<conf, base, hub, handoff, hist, left>>

(* A review answers for one head: a new head has none of the old one's signals. *)
Push ==
    /\ pc = "push" /\ git.branch # NoCommit
    /\ IsPrefix(hub.head, git.branch)
    /\ hub' = IF hub.head = git.branch THEN hub
              ELSE [hub EXCEPT !.head = git.branch, !.verdict = "none", !.found = {}]
    /\ hist' = IF hub.head = git.branch THEN hist ELSE [hist EXCEPT !.asked = 0]
    /\ pc' = IF run.again THEN "merge" ELSE "open"
    /\ UNCHANGED <<conf, git, base, disk, run, left>>
PushRejected ==
    /\ pc = "push" /\ ~IsPrefix(hub.head, git.branch)
    /\ Ends
    /\ UNCHANGED <<conf, world, disk, hist, left>>

(* The open pull request gets the report, or a new one is opened. Then the      *)
(* publish waits for a review, or leaves the pull request to a person.          *)
OpenPullRequest ==
    /\ pc = "open"
    /\ hub' = IF hub.state = "open" THEN hub
              ELSE [hub EXCEPT !.state = "open", !.threads = [t \in Threads |-> "none"]]
    /\ IF ~conf.auto \/ (run.resumed /\ conf.reviewers)
       THEN /\ Ends
            /\ story' = NoStory /\ responses' = Silence
            /\ hist' = [hist EXCEPT !.told = TRUE]
       ELSE /\ pc' = IF ~conf.reviewers THEN "threads"
                     ELSE IF Open(story) = {} THEN "review" ELSE "answer"
            /\ run' = [run EXCEPT
                  !.todo = {f \in Open(story) : story.open[f].st # "resolved"},
                  !.seen = {f \in Findings : hub.threads[f] = "resolved"}]
            /\ UNCHANGED <<story, responses, hist>>
    /\ UNCHANGED <<conf, git, base, handoff, left>>

-----------------------------------------------------------------------------
(* _answer_findings: one finding after the other, lowest number first. Progress *)
(* is on disk after every reply and resolution; what was deferred so far is     *)
(* only in memory until the last one is done.                                   *)

Turn(f) == f \in run.todo /\ \A g \in run.todo : story.open[f].num <= story.open[g].num
Handled(f) == run' = [run EXCEPT !.todo = @ \ {f}]
PutOff(f) == run' = [run EXCEPT !.todo = @ \ {f}, !.put = @ \cup {f}]
(* As a bug: a posted reply is not saved.                                       *)
BugMark(f, st) == IF st = "replied" THEN UNCHANGED story
                  ELSE story' = [story EXCEPT !.open[f].st = st]
Mark(f, st) == story' = [story EXCEPT !.open[f].st = st]

AnswerTo(f) == responses[story.open[f].num]
Deferring(f) == story.open[f].st = "postponed" \/ AnswerTo(f).kind = "deferred"

(* What the dispatcher posts on a thread, and whom the text was written for.    *)
PostReply(f, answer) ==
    /\ hub' = [hub EXCEPT !.replies[f] = @ + 1]
    /\ hist' = IF answer.about = f THEN hist
               ELSE [hist EXCEPT !.crossed = @ \cup {<<f, answer.kind>>}]
Resolve(f) == hub' = [hub EXCEPT !.threads[f] = "resolved"]

AnswerResolvedThread ==
    /\ pc = "answer"
    /\ \E f \in run.seen : Turn(f) /\ Mark(f, "resolved") /\ Handled(f)
    /\ UNCHANGED <<pc, conf, world, responses, handoff, hist, left>>
AnswerMissing ==
    /\ pc = "answer"
    /\ \E f \in run.todo \ run.seen :
          /\ Turn(f) /\ story.open[f].st = "fresh" /\ AnswerTo(f) = NoAnswer
          /\ PutOff(f)
    /\ UNCHANGED <<pc, conf, world, disk, hist, left>>
AnswerReply ==
    /\ pc = "answer"
    /\ \E f \in run.todo \ run.seen :
          /\ Turn(f) /\ story.open[f].st = "fresh" /\ AnswerTo(f) # NoAnswer
          /\ hub.threads[f] # "none"
          /\ PostReply(f, AnswerTo(f))
          /\ Mark(f, IF AnswerTo(f).kind = "deferred" THEN "postponed" ELSE "replied")
    /\ UNCHANGED <<pc, conf, git, base, responses, handoff, run, left>>
AnswerDeferred ==
    /\ pc = "answer"
    /\ \E f \in run.todo \ run.seen :
          Turn(f) /\ story.open[f].st # "fresh" /\ Deferring(f) /\ PutOff(f)
    /\ UNCHANGED <<pc, conf, world, disk, hist, left>>
AnswerResolve ==
    /\ pc = "answer"
    /\ \E f \in run.todo \ run.seen :
          /\ Turn(f) /\ story.open[f].st = "replied" /\ ~Deferring(f)
          /\ IF hub.threads[f] = "none" THEN UNCHANGED <<hub, story>>
             ELSE Resolve(f) /\ Mark(f, "resolved")
          /\ Handled(f)
    /\ UNCHANGED <<pc, conf, git, base, responses, handoff, hist, left>>

(* Deferrals of earlier rounds are kept; the responses are used up. A blocked   *)
(* handback's deferral goes on to the planner; a publish whose correction       *)
(* rounds are used up waits for no further review.                              *)
AnswersDone ==
    /\ pc = "answer" /\ run.todo = {}
    /\ story' = [story EXCEPT
          !.deferred = [f \in Findings |->
               IF f \in run.put THEN story.open[f].num
               ELSE IF f \in Open(story) THEN 0 ELSE @[f]],
          !.open = [f \in Findings |-> Gone]]
    /\ responses' = Silence
    /\ pc' = IF run.task = "deferral" THEN "route" ELSE "review"
    /\ run' = [run EXCEPT !.seen = {}, !.put = {}]
    /\ UNCHANGED <<conf, world, handoff, hist, left>>

-----------------------------------------------------------------------------
(* _wait_for_reviewers. The wait ends as Codex's signals for the head say; a    *)
(* timeout is always possible while the review is not done.                     *)

(* Findings are numbered from 1 in every round.                                 *)
Numbered(fs) == CHOOSE num \in [fs -> 1..Cardinality(fs)] :
                   \A f, g \in fs : f # g => num[f] # num[g]

(* As a bug: one correction round too many.                                     *)
BugReviewing == pc = "review" /\ story.rounds <= MaxRounds
Reviewing == pc = "review" /\ story.rounds < MaxRounds
RoundsUsedUp ==
    /\ pc = "review" /\ story.rounds >= MaxRounds
    /\ Goto("threads")
(* As a bug: the reviewed head is not saved.                                    *)
BugReviewClean ==
    /\ Reviewing
    /\ hub.verdict = "done" /\ hub.found = {}
    /\ Goto("threads")
ReviewClean ==
    /\ Reviewing
    /\ hub.verdict = "done" /\ hub.found = {}
    /\ story' = [story EXCEPT !.reviewed = git.branch]
    /\ pc' = "threads"
    /\ UNCHANGED <<conf, world, responses, handoff, run, hist, left>>

(* A correction round: the findings are saved, then the handoff that routes     *)
(* them to the implementer is written.                                          *)
ReviewFindings ==
    /\ Reviewing
    /\ hub.verdict = "done" /\ hub.found # {}
    /\ responses' = Silence
    /\ story' = [story EXCEPT
          !.rounds = @ + 1, !.reviewed = git.branch,
          !.open = [f \in Findings |->
              IF f \in hub.found THEN [num |-> Numbered(hub.found)[f], st |-> "fresh"]
              ELSE Gone]]
    /\ hub' = [hub EXCEPT !.replies = [f \in Findings |-> IF f \in hub.found THEN 0 ELSE @[f]]]
    /\ pc' = "bounce"
    /\ UNCHANGED <<conf, git, base, handoff, run, hist, left>>
WriteBounceHandoff ==
    /\ pc = "bounce"
    /\ handoff' = [kind |-> "work", scope |-> NoCommit, said |-> Silence]
    /\ pc' = "up" /\ run' = Idle
    /\ UNCHANGED <<conf, world, story, responses, hist, left>>

(* A failed or unfinished review is requested again once per head; the request  *)
(* is on record before the next wait. A usage limit is never retried.           *)
Unfinished == hub.verdict \in {"none", "failed"}
(* As a bug: the request is not recorded.                                       *)
BugRequestReview == /\ hub' = [hub EXCEPT !.verdict = "none"]
                    /\ pc' = "review" /\ UNCHANGED story
RequestReview ==
    /\ hub' = [hub EXCEPT !.verdict = "none"]
    /\ story' = [story EXCEPT !.retry = git.branch]
    /\ pc' = "review"
RequestAgain ==
    /\ Reviewing
    /\ Unfinished /\ story.retry # git.branch
    /\ \/ RequestReview /\ hist' = [hist EXCEPT !.asked = @ + 1]
       \/ pc' = "prompt" /\ UNCHANGED <<hub, story, hist>>
    /\ UNCHANGED <<conf, git, base, responses, handoff, run, left>>

(* review_stall_action: merge. The audit must cover the head.                   *)
MayMergeUnreviewed ==
    /\ AuditedStoryCommit
    /\ Covers(handoff.scope, git.branch, {"merge"})
    /\ UnresolvedThreads = {}
Waived == hist' = [hist EXCEPT !.waived = git.branch]
RetryUnfinished ==
    /\ Reviewing
    /\ Unfinished /\ story.retry = git.branch
    /\ IF conf.stall = "merge" /\ MayMergeUnreviewed
       THEN pc' = "threads" /\ run' = [run EXCEPT !.stalled = TRUE] /\ Waived
       ELSE pc' = "prompt" /\ UNCHANGED <<run, hist>>
    /\ UNCHANGED <<conf, world, disk, left>>
ReviewLimited ==
    /\ Reviewing /\ hub.verdict = "limited"
    /\ Goto("prompt")

(* The operator merges without the review, retries or quits; with no operator   *)
(* the pull request is left to a person.                                        *)
PromptMerge ==
    /\ pc = "prompt" /\ conf.operator
    /\ Waived
    /\ pc' = "threads"
    /\ UNCHANGED <<conf, world, disk, run, left>>
PromptRetry ==
    /\ pc = "prompt" /\ conf.operator
    /\ RequestReview
    /\ UNCHANGED <<conf, git, base, responses, handoff, run, hist, left>>
PromptQuits == pc = "prompt" /\ PauseForPerson

-----------------------------------------------------------------------------
(* From the review to the merge.                                                *)

(* _route_deferred_to_planner: the planner's one pass.                          *)
(* As a bug: the pass is not recorded.                                          *)
BugArmed(fs) ==
    [story EXCEPT
        !.open = [f \in Findings |->
            IF f \in fs THEN [num |-> NumberOf(story, f), st |-> "fresh"] ELSE Gone],
        !.deferred = [f \in Findings |-> 0]]
Armed(fs) ==
    [story EXCEPT
        !.open = [f \in Findings |->
            IF f \in fs THEN [num |-> NumberOf(story, f), st |-> "fresh"] ELSE Gone],
        !.deferred = [f \in Findings |-> 0],
        !.passed = TRUE]
RouteDeferredToPlanner(fs) ==
    /\ story' = Armed(fs)
    /\ hub' = [hub EXCEPT !.replies = [f \in Findings |-> IF f \in fs THEN 0 ELSE @[f]]]
    /\ hist' = [hist EXCEPT !.passes = @ + 1]
    /\ pc' = "deferral" /\ run' = Idle
    /\ UNCHANGED <<conf, git, base, responses, handoff, left>>
DeferredOnly ==
    UnresolvedThreads # {} /\ UnresolvedThreads \subseteq Deferred(story)

(* As a bug: deferred findings do not hold the merge.                           *)
BugThreadsResolved ==
    /\ pc = "threads" /\ hub.state = "open" /\ UnresolvedThreads \subseteq Deferred(story)
    /\ Goto("merge")
ThreadsResolved ==
    /\ pc = "threads" /\ hub.state = "open" /\ UnresolvedThreads = {}
    /\ Goto("merge")
ThreadsDeferred ==
    /\ pc = "threads" /\ hub.state = "open"
    /\ DeferredOnly /\ ~story.passed
    /\ RouteDeferredToPlanner(UnresolvedThreads)
ThreadsUnresolved ==
    /\ pc = "threads" /\ hub.state = "open" /\ UnresolvedThreads # {}
    /\ ~(DeferredOnly /\ ~story.passed)
    /\ PauseForPerson
ThreadsUnread ==
    /\ pc \in {"threads", "settle"} /\ hub.state # "open"
    /\ Ends
    /\ UNCHANGED <<conf, world, disk, hist, left>>
RouteBlockedHandback ==
    /\ pc = "route"
    /\ IF Deferred(story) # {} THEN RouteDeferredToPlanner(Deferred(story))
       ELSE PauseKept(story)
WriteDeferredHandoff ==
    /\ pc = "deferral"
    /\ handoff' = [kind |-> "deferral", scope |-> NoCommit, said |-> Silence]
    /\ pc' = "up"
    /\ UNCHANGED <<conf, world, story, responses, run, hist, left>>

(* _merge_pull_request. A base that moved on can make the pull request not      *)
(* mergeable: it is synced, pushed and tried once more.                         *)
MergeAccepted ==
    /\ pc = "merge" /\ hub.state = "open" /\ base \notin {"state", "conflict"}
    /\ hub' = [hub EXCEPT !.state = "merged"]
    /\ pc' = "land"
    /\ UNCHANGED <<conf, git, base, disk, run, hist, left>>
NotMergeable ==
    /\ pc = "merge" /\ hub.state = "open" /\ base # "none" /\ ~run.again
    /\ pc' = "sync" /\ run' = [run EXCEPT !.again = TRUE]
    /\ UNCHANGED <<conf, world, disk, hist, left>>
MergeFailsAgain ==
    /\ pc = "merge" /\ run.again
    /\ \/ (base # "none" \/ hub.state # "open") /\ UNCHANGED left
       \/ Bounded("ends")
    /\ Ends
    /\ story' = Paused
    /\ UNCHANGED <<conf, world, responses, handoff, hist>>
MergeRefused ==
    /\ pc = "merge" /\ ~run.again /\ hub.state # "open"
    /\ Ends
    /\ UNCHANGED <<conf, world, disk, hist, left>>

(* switch, pull, branch -D, and the state is cleared.                           *)
Land ==
    /\ pc = "land"
    /\ git' = [git EXCEPT !.at = "base", !.cut = FALSE, !.landed = TRUE]
    /\ hist' = [hist EXCEPT !.dropped = @ \/ ~IsPrefix(git.branch, hub.head)]
    /\ story' = NoStory /\ responses' = Silence
    /\ pc' = "up" /\ run' = Idle
    /\ UNCHANGED <<conf, base, hub, handoff, left>>

-----------------------------------------------------------------------------
(* settle_deferred_findings, after a planner dispatch.                          *)

Decided == handoff.said # Silence
Undecided(fs) == {f \in fs : handoff.said[NumberOf(story, f)] = NoAnswer}
Decision(f) == handoff.said[story.open[f].num]

(* Decisions outside the planner's pass count only for every finding, on the    *)
(* reviewed head of an open pull request.                                       *)
DecisionsUnarmed == story # NoStory /\ ~story.passed /\ Decided /\ UnresolvedFindings(story) # {}
DecisionsCanSettle ==
    /\ Undecided(UnresolvedFindings(story)) = {}
    /\ git.at = "story" /\ hub.state = "open" /\ HeadIsReviewed
SettleUnarmed ==
    /\ pc = "decided" /\ DecisionsUnarmed
    /\ IF DecisionsCanSettle
       THEN /\ story' = Armed(UnresolvedFindings(story))
            /\ hub' = [hub EXCEPT !.replies = [f \in Findings |->
                          IF f \in UnresolvedFindings(story) THEN 0 ELSE @[f]]]
            /\ hist' = [hist EXCEPT !.passes = @ + 1]
            /\ UNCHANGED <<pc, conf, git, base, responses, handoff, run, left>>
       ELSE PauseKept(story)
PassOpen == story # NoStory /\ story.passed /\ Open(story) # {}
SettleNothing ==
    /\ pc = "decided" /\ ~DecisionsUnarmed
    /\ ~PassOpen
    /\ Goto("up")
SettleBegins ==
    /\ pc = "decided" /\ PassOpen
    /\ IF git.at # "story" THEN PauseForPerson
       ELSE /\ pc' = "settle"
            /\ run' = [Idle EXCEPT !.task = "settle", !.todo = Open(story),
                          !.seen = {f \in Findings : hub.threads[f] = "resolved"
                                                     \/ story.open[f].st = "resolved"}]
            /\ UNCHANGED <<conf, world, disk, hist, left>>

Settling == pc = "settle" /\ hub.state = "open"
FollowUp(f) == Decision(f).kind = "follow" /\ hub.threads[f] # "none"
SettleResolvedThread ==
    /\ Settling
    /\ \E f \in run.seen : Turn(f) /\ Mark(f, "resolved") /\ Handled(f)
    /\ UNCHANGED <<pc, conf, world, responses, handoff, hist, left>>
SettleRemains ==
    /\ Settling
    /\ \E f \in run.todo \ run.seen : Turn(f) /\ ~FollowUp(f) /\ PutOff(f)
    /\ UNCHANGED <<pc, conf, world, disk, hist, left>>
SettleReply ==
    /\ Settling
    /\ \E f \in run.todo \ run.seen :
          /\ Turn(f) /\ FollowUp(f) /\ story.open[f].st = "fresh"
          /\ PostReply(f, Decision(f)) /\ Mark(f, "replied")
    /\ UNCHANGED <<pc, conf, git, base, responses, handoff, run, left>>
SettleResolve ==
    /\ Settling
    /\ \E f \in run.todo \ run.seen :
          /\ Turn(f) /\ FollowUp(f) /\ story.open[f].st # "fresh"
          /\ Resolve(f) /\ Mark(f, "resolved") /\ Handled(f)
    /\ UNCHANGED <<pc, conf, git, base, responses, handoff, hist, left>>

(* What remains goes back to the implementer or waits for the user, or a person *)
(* takes over; when nothing remains the pull request merges.                    *)
SettleEnds ==
    /\ Settling /\ run.todo = {}
    /\ LET kept == [story EXCEPT !.open =
                       [f \in Findings |-> IF f \in run.put THEN @[f] ELSE Gone]]
       IN \/ /\ run.put # {} /\ handoff.kind \in {"work", "user"}
             /\ story' = kept
             /\ pc' = "up" /\ run' = Idle
             /\ UNCHANGED <<conf, world, responses, handoff, hist, left>>
          \/ /\ \/ run.put # {} /\ handoff.kind = "next"
                \/ run.put = {} /\ UnresolvedThreads # {}
             /\ PauseForPerson
          \/ /\ run.put = {} /\ UnresolvedThreads = {}
             /\ story' = kept
             /\ pc' = "merge" /\ run' = [run EXCEPT !.seen = {}]
             /\ UNCHANGED <<conf, world, responses, handoff, hist, left>>

-----------------------------------------------------------------------------
(* The loop top: a handoff that moves on from a saved story.                    *)

(* recover_orphaned_story.                                                      *)
MovesOn == pc = "up" /\ handoff.kind = "next"
Orphaned == MovesOn /\ story # NoStory /\ conf.mode = "pr"
CleanUpMergedStory ==
    /\ git' = IF git.at = "story"
              THEN [git EXCEPT !.at = "base", !.landed = TRUE,
                               !.cut = ~IsPrefix(git.branch, hub.head)]
              ELSE git
    /\ story' = NoStory /\ responses' = Silence
    /\ pc' = "up"
    /\ UNCHANGED <<conf, base, hub, handoff, run, hist, left>>
OrphanMerged ==
    /\ Orphaned /\ hub.state = "merged"
    /\ UnresolvedThreads = {} /\ StillUnresolved = {}
    /\ CleanUpMergedStory
OrphanRecoverable ==
    /\ hub.state = "open" /\ UnresolvedThreads # {} /\ ~story.passed
    /\ UnresolvedThreads \subseteq StillUnresolved
    /\ git.at = "story" /\ HeadIsReviewed /\ ~git.dirty
OrphanToPlanner ==
    /\ Orphaned /\ OrphanRecoverable
    /\ RouteDeferredToPlanner(UnresolvedThreads)
OrphanBlocked ==
    /\ Orphaned /\ ~OrphanRecoverable
    /\ ~(hub.state = "merged" /\ UnresolvedThreads = {} /\ StillUnresolved = {})
    /\ Goto("paused")

(* The next story starts on the base branch only.                               *)
(* As a bug: a saved story is not looked for.                                   *)
BugNextStory ==
    /\ pc = "up" /\ (handoff.kind = "next" \/ (handoff.kind = "work" /\ git.landed))
    /\ Goto("done")
NextStory ==
    /\ pc = "up" /\ (handoff.kind = "next" \/ (handoff.kind = "work" /\ git.landed))
    /\ (story = NoStory \/ conf.mode = "merge-commit")
    /\ IF git.at = "base" THEN Goto("done")
       ELSE IF story # NoStory THEN Goto("paused")
       ELSE Ends /\ UNCHANGED <<conf, world, disk, hist, left>>

-----------------------------------------------------------------------------
(* merge-commit mode: switch, merge, branch -d, clear.                          *)

SwitchToBase ==
    /\ pc = "switch"
    /\ git' = [git EXCEPT !.at = "base"]
    /\ pc' = "mergeLocally"
    /\ UNCHANGED <<conf, base, hub, disk, run, hist, left>>
MergeLocally ==
    /\ pc = "mergeLocally"
    /\ \/ /\ git' = [git EXCEPT !.landed = TRUE]
          /\ hub' = [hub EXCEPT !.head = git.branch]
          /\ pc' = "delete" /\ UNCHANGED run
       \/ /\ base # "none"
          /\ git' = [git EXCEPT !.merging = TRUE]
          /\ Ends /\ UNCHANGED hub
    /\ UNCHANGED <<conf, base, disk, hist, left>>
DeleteMergedBranch ==
    /\ pc = "delete"
    /\ git' = [git EXCEPT !.cut = FALSE]
    /\ pc' = "clear"
    /\ UNCHANGED <<conf, base, hub, disk, run, hist, left>>
ClearState ==
    /\ pc = "clear"
    /\ story' = NoStory /\ responses' = Silence
    /\ pc' = "up" /\ run' = Idle
    /\ UNCHANGED <<conf, world, handoff, hist, left>>

-----------------------------------------------------------------------------
(* A start.                                                                     *)

(* leave_merged_story_branch: no saved story, and HEAD is on the remote base.   *)
HeadOnRemoteBase == hub.state = "merged" /\ IsPrefix(git.branch, hub.head)
Start ==
    /\ pc = "down" /\ ~hist.told
    /\ git' = IF conf.mode = "pr" /\ git.at = "story" /\ story = NoStory
                 /\ ~git.dirty /\ HeadOnRemoteBase
              THEN [git EXCEPT !.at = "base", !.cut = FALSE, !.landed = TRUE] ELSE git
    /\ pc' = IF story = NoStory THEN "up" ELSE "resume"
    /\ UNCHANGED <<conf, base, hub, disk, run, hist, left>>

(* The operator was told to publish the story: what a person then does with the *)
(* branch and the pull request is left out.                                     *)
PersonTakesOver ==
    /\ pc = "down" /\ hist.told
    /\ Goto("done")

(* resume_paused_publish: a wait for a review that was requested again goes on. *)
ReviewRetryPending ==
    /\ story.paused = "none" /\ story.retry # NoCommit
    /\ AuditedStoryCommit /\ git.at = "story" /\ git.branch = story.retry
Resuming == pc = "resume" /\ conf.mode = "pr"
ResumeReviewRetry ==
    /\ Resuming /\ ReviewRetryPending
    /\ Goto("begin")

(* A paused publish goes on when only merges of the base branch were added,     *)
(* each of which holds nothing but the conflict resolution.                     *)
(* As a bug: what a resolution changed beyond the conflict is not looked at.    *)
BugResumeBlocked == ~Covers(story.pausedAt, git.branch, {"merge", "resolved", "edited"})
ResumeBlocked == ~Covers(story.pausedAt, git.branch, {"merge", "resolved"})
ResumePaused ==
    /\ Resuming /\ story.paused # "none"
    /\ IF git.at # "story"
       THEN /\ story' = [story EXCEPT !.paused = "none"]
            /\ pc' = "up" /\ UNCHANGED <<conf, world, responses, handoff, run, hist, left>>
       ELSE IF ResumeBlocked THEN PauseKept(story) ELSE Goto("begin")

(* resume_interrupted_publish.                                                  *)
InterruptedPublish ==
    /\ Resuming /\ story.paused = "none" /\ ~ReviewRetryPending
Resumable == git.at = "story" /\ AuditedStoryCommit
InterruptedProblem ==
    \/ git.merging \/ git.dirty
    \/ ~Covers(handoff.scope, git.branch, {"merge"})
    \/ hub.state = "closed"
    \/ hub.state = "merged" /\ (hub.head # git.branch \/ UnresolvedThreads # {}
                                \/ StillUnresolved # {})
    \/ story.reviewed = git.branch /\ UnresolvedFindings(story) # {}
NothingToResume ==
    /\ InterruptedPublish /\ ~Resumable
    /\ Goto("up")
InterruptedBlocked ==
    /\ InterruptedPublish /\ Resumable /\ InterruptedProblem
    /\ PauseKept(story)
InterruptedMerged ==
    /\ InterruptedPublish /\ Resumable /\ ~InterruptedProblem /\ hub.state = "merged"
    /\ CleanUpMergedStory
InterruptedConfirm ==
    /\ InterruptedPublish /\ Resumable /\ ~InterruptedProblem /\ hub.state # "merged"
    /\ Goto("up") \/ (conf.operator /\ Goto("begin"))

(* resume_interrupted_merge_commit: on the story branch the merge is made again *)
(* at exactly the audited commit; on the base branch only what the merge did is *)
(* finished.                                                                    *)
InterruptedMergeCommit == pc = "resume" /\ conf.mode = "merge-commit"
MergeCommitProblem ==
    \/ git.merging
    \/ git.at = "story" /\ (git.dirty \/ git.branch # handoff.scope)
    \/ git.at = "base" /\ git.cut /\ git.branch # handoff.scope
    \/ git.at = "base" /\ ~(git.landed /\ IsPrefix(handoff.scope, hub.head))
ResumeMergeCommit ==
    /\ InterruptedMergeCommit
    /\ IF ~AuditedStoryCommit THEN Goto("up")
       ELSE IF MergeCommitProblem THEN PauseKept(story)
       ELSE IF git.at = "base" THEN Goto(IF git.cut THEN "delete" ELSE "clear")
       ELSE Goto("up") \/ (conf.operator /\ Goto("begin"))

-----------------------------------------------------------------------------
(* What goes wrong, and what others do.                                         *)


(* A crash, or a git or gh command that fails: the run ends, and the next start *)
(* finds the disk as it is. A killed resolution leaves its merge in progress.   *)
(* The places left out have the disk and the hub of the place before them.      *)
RunEnds ==
    /\ pc \notin {"down", "resume", "prompt", "paused", "switch", "done"}
    /\ Bounded("ends") /\ Ends
    /\ UNCHANGED <<conf, world, disk, hist>>


(* The command was carried out, and the run ends before that is on disk.        *)
ReplyUnsaved ==
    /\ pc \in {"answer", "settle"} /\ Bounded("ends") /\ Ends
    /\ \E f \in run.todo \ run.seen :
          /\ Turn(f) /\ story.open[f].st = "fresh" /\ hub.threads[f] # "none"
          /\ LET answer == IF pc = "answer" THEN AnswerTo(f) ELSE Decision(f)
             IN /\ answer # NoAnswer
                /\ hub' = [hub EXCEPT !.replies[f] = @ + 1]
                /\ hist' = [hist EXCEPT !.torn[f] = @ + 1]
    /\ UNCHANGED <<conf, git, base, disk>>
RequestUnsaved ==
    /\ Reviewing /\ Unfinished /\ story.retry # git.branch
    /\ Bounded("ends") /\ Ends
    /\ hub' = [hub EXCEPT !.verdict = "none"]
    /\ hist' = [hist EXCEPT !.asked = @ + 1, !.torn[Person] = @ + 1]
    /\ UNCHANGED <<conf, git, base, disk>>
(* A thread GitHub does not find: the reply to it cannot be posted.             *)
ReplyFails ==
    /\ pc = "answer" /\ Ends
    /\ \E f \in run.todo \ run.seen :
          /\ Turn(f) /\ story.open[f].st = "fresh" /\ AnswerTo(f) # NoAnswer
          /\ hub.threads[f] = "none"
    /\ UNCHANGED <<conf, world, disk, hist, left>>
(* Codex reviews the head of an open pull request. Like the others below, it is *)
(* seen to act right before somebody reads what it changes.                     *)
CodexReviews ==
    /\ pc \in {"down", "review", "threads", "merge"}
    /\ hub.state = "open" /\ hub.verdict = "none" /\ conf.reviewers
    /\ \E verdict \in {"done", "failed", "limited"},
          fs \in SUBSET {f \in Findings : hub.threads[f] = "none" /\ f \notin Known(story)} :
          /\ verdict \in {"failed", "limited"} => fs = {}
          /\ hub' = [hub EXCEPT !.verdict = verdict, !.found = @ \cup fs,
                        !.threads = [t \in Threads |-> IF t \in fs THEN "open" ELSE @[t]]]
    /\ UNCHANGED <<pc, conf, git, base, disk, run, hist, left>>

BaseMoves ==
    /\ pc \in {"sync", "merge", "mergeLocally", "down"} /\ base = "none" /\ Bounded("acts")
    /\ base' \in {"clean", "state", "conflict"}
    /\ UNCHANGED <<pc, conf, git, hub, disk, run, hist>>

(* A person on GitHub.                                                          *)
OnGitHub ==
    /\ pc \in {"down", "open", "answer", "threads", "merge", "handback", "decided", "settle"}
          \/ Orphaned
    /\ hub.state = "open" /\ Bounded("acts")
    /\ \/ \E t \in Threads : /\ hub.threads[t] = "open"
                              /\ hub' = [hub EXCEPT !.threads[t] = "resolved"]
       \/ /\ hub.threads[Person] = "none"
          /\ hub' = [hub EXCEPT !.threads[Person] = "open"]
       \/ hub' = [hub EXCEPT !.state = "merged"]
       \/ hub' = [hub EXCEPT !.state = "closed"]
    /\ UNCHANGED <<pc, conf, git, base, disk, run, hist>>

(* A person at the checkout while no dispatcher runs.                           *)
AtCheckout ==
    /\ pc = "down" /\ Bounded("acts")
    /\ \/ /\ git.at = "story" /\ ~git.merging
          /\ \/ Commit("stray")
             \/ /\ git.branch # NoCommit
                /\ git' = [git EXCEPT !.branch = Append(Front(@), "stray")]
       \/ git' = [git EXCEPT !.dirty = TRUE]
       \/ /\ git.cut /\ ~git.merging
          /\ git' = [git EXCEPT !.at = IF @ = "base" THEN "story" ELSE "base"]
    /\ UNCHANGED <<pc, conf, base, hub, disk, run, hist>>

(* What a pause at a conflict asks for. The merge may hold more than that.      *)
PersonMergesBase ==
    /\ pc = "down" /\ git.at = "story" /\ base # "none" /\ ~git.merging
    /\ \E kind \in IF base = "clean" THEN {"merge", "edited"} ELSE {"resolved", "edited"} :
          Commit(kind)
    /\ base' = "none"
    /\ UNCHANGED <<pc, conf, hub, disk, run, hist, left>>

(* What the pauses ask a person for: the unaudited commit taken off again, the  *)
(* merge in progress ended, the uncommitted file set aside.                     *)
Tidied ==
    /\ pc = "down"
    /\ \/ git.dirty /\ git' = [git EXCEPT !.dirty = FALSE]
       \/ git.merging /\ git' = [git EXCEPT !.merging = FALSE]
       \/ /\ git.branch # NoCommit /\ Last(git.branch) = "stray" /\ git.at = "story"
          /\ IsPrefix(hist.audited, Front(git.branch))
          /\ git' = [git EXCEPT !.branch = Front(@)]
    /\ UNCHANGED <<pc, conf, base, hub, disk, run, hist, left>>

(* A person routes the handoff at a pause, or after a planner left it to them.  *)
PersonRoutes ==
    /\ pc = "paused" \/ (pc = "up" /\ handoff.kind = "user")
    /\ \E kind \in {"work", "next"} :
          handoff' = [kind |-> kind, scope |-> NoCommit, said |-> Silence]
    /\ pc' = "up"
    /\ UNCHANGED <<conf, world, story, responses, run, hist, left>>

-----------------------------------------------------------------------------
(* A planned story starts from its assignment; an operator's is already         *)
(* committed on the base branch, on top of what else is there. With nothing     *)
(* there the claim is an epic close.                                            *)
Init ==
    /\ conf \in Settings
    /\ \E loose \in {<<>>, <<"ledger", "work">>, <<"stray", "work">>} :
          /\ loose # <<>> => conf.mode = "pr"
          /\ git = [at |-> "base", branch |-> NoCommit, loose |-> loose, cut |-> FALSE,
                    merging |-> FALSE, dirty |-> FALSE, landed |-> FALSE]
          /\ \E kind \in IF loose = <<>> THEN {"work", "claim"} ELSE {"claim"} :
                handoff = [kind |-> kind, scope |-> NoCommit, said |-> Silence]
    /\ pc = "up" /\ base = "none"
    /\ hub = [state |-> "none", head |-> NoCommit, threads |-> [t \in Threads |-> "none"],
              verdict |-> "none", found |-> {}, replies |-> [f \in Findings |-> 0]]
    /\ story = NoStory /\ responses = Silence /\ run = Idle
    /\ hist = [audited |-> NoCommit, waived |-> NoCommit, told |-> FALSE, asked |-> 0,
               passes |-> 0, torn |-> [t \in Threads |-> 0], crossed |-> {}, dropped |-> FALSE]
    /\ left = [work |-> MaxWork, acts |-> MaxActs, ends |-> MaxEnds]

RoleSteps ==
    \/ EnsureStoryBranch \/ ImplementerClaims \/ ImplementerBlocks
    \/ DeferBlockedHandback \/ Audit \/ PlannerRuns
PublishSteps ==
    \/ AdoptBaseBranchStory \/ EpicCloseMerged \/ PublishRefused \/ PublishBegins
    \/ SetAsidePause \/ SyncNothing \/ SyncClean \/ SyncConflict \/ SyncStateConflict
    \/ StateConflictResolved \/ StateConflictUnresolved \/ DropEmptyStoryBranch
    \/ Push \/ PushRejected \/ OpenPullRequest
AnswerSteps ==
    \/ AnswerResolvedThread \/ AnswerMissing \/ AnswerReply \/ AnswerDeferred
    \/ AnswerResolve \/ AnswersDone
ReviewSteps ==
    \/ RoundsUsedUp \/ ReviewClean \/ ReviewFindings \/ WriteBounceHandoff
    \/ RequestAgain \/ RetryUnfinished \/ ReviewLimited
    \/ PromptMerge \/ PromptRetry \/ PromptQuits
MergeSteps ==
    \/ ThreadsResolved \/ ThreadsDeferred \/ ThreadsUnresolved \/ ThreadsUnread
    \/ RouteBlockedHandback \/ WriteDeferredHandoff
    \/ MergeAccepted \/ NotMergeable \/ MergeFailsAgain \/ MergeRefused \/ Land
SettleSteps ==
    \/ SettleUnarmed \/ SettleNothing \/ SettleBegins \/ SettleResolvedThread
    \/ SettleRemains \/ SettleReply \/ SettleResolve \/ SettleEnds
LoopTop == OrphanMerged \/ OrphanToPlanner \/ OrphanBlocked \/ NextStory
MergeCommitSteps == SwitchToBase \/ MergeLocally \/ DeleteMergedBranch \/ ClearState
StartSteps ==
    \/ Start \/ PersonTakesOver \/ ResumeReviewRetry \/ ResumePaused \/ NothingToResume
    \/ InterruptedBlocked \/ InterruptedMerged \/ InterruptedConfirm \/ ResumeMergeCommit
Others ==
    \/ RunEnds \/ ReplyUnsaved \/ ReplyFails \/ RequestUnsaved \/ CodexReviews \/ BaseMoves
    \/ OnGitHub \/ AtCheckout \/ PersonMergesBase \/ Tidied \/ PersonRoutes
StoryOver == pc = "done" /\ UNCHANGED vars

Next ==
    \/ RoleSteps \/ PublishSteps \/ AnswerSteps \/ ReviewSteps \/ MergeSteps
    \/ SettleSteps \/ LoopTop \/ MergeCommitSteps \/ StartSteps \/ Others \/ StoryOver

Spec == Init /\ [][Next]_vars

-----------------------------------------------------------------------------
(* What publishing promises.                                                    *)

MergesNow == pc = "merge" /\ pc' = "land"

(* A publish merges the audited commit; above it lie only merges of the base    *)
(* branch and conflict resolutions, whatever was interrupted, paused, amended   *)
(* or committed in between.                                                     *)
PublishedAsAudited ==
    [][(\/ MergesNow /\ run.task = "publish"
        \/ pc = "mergeLocally" /\ pc' = "delete")
       => Covers(hist.audited, hub'.head, {"merge", "resolved"})]_vars

(* Codex reviewed the head, its correction rounds are used up, or the review    *)
(* was waived for that very head, but for merges of the base branch.            *)
HeadWasReviewed ==
    \/ story.rounds >= MaxRounds
    \/ \E seen \in {story.reviewed, hist.waived} \ {NoCommit} :
          Covers(seen, hub.head, {"merge", "resolved"})

(* A publish merges a head that was reviewed.                                   *)
ReviewedOrWaived ==
    [][MergesNow /\ run.task = "publish" /\ conf.reviewers => HeadWasReviewed]_vars

(* What settle_deferred_findings merges is not always such a head: once its     *)
(* pass has begun it looks at no head again, so what a person committed on the  *)
(* branch between the planner's pass and its decisions merges with it.          *)
ReviewedHoweverMerged ==
    [][MergesNow /\ conf.reviewers => HeadWasReviewed]_vars

(* A finding the saved state knows of is settled on GitHub before the merge.    *)
FindingsSettled ==
    [][MergesNow => \A f \in UnresolvedFindings(story) : hub.threads[f] # "open"]_vars

(* However often the run ends and is resumed, nothing is done twice: a finding  *)
(* gets one reply a round, a head is asked to be reviewed again once without an *)
(* operator's word (each once more for a call GitHub took and the disk did      *)
(* not), and the planner gets one pass at the story's deferred findings,        *)
(* whichever of the four paths leads it there.                                  *)
DoneOnce ==
    /\ \A f \in Findings : hub.replies[f] <= 1 + hist.torn[f]
    /\ hist.asked <= 1 + hist.torn[Person]
    /\ hist.passes <= 1

(* What a reply says on a thread was written about that thread's finding.       *)
RepliesMatch == hist.crossed = {}

(* The local branch is deleted with nothing on it that is not merged.           *)
NothingDropped == ~hist.dropped

(* In pr mode the loop goes on to the next story only when this one is merged,  *)
(* was empty, or a person was told to publish it.                               *)
StoryNotForgotten ==
    pc = "done" /\ conf.mode = "pr" =>
                   \/ hub.state = "merged" \/ git.landed \/ hist.told
                   \/ ~git.cut \/ git.branch = NoCommit
=============================================================================
