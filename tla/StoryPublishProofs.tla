-------------------------- MODULE StoryPublishProofs --------------------------
(* Theorems about StoryPublish, for any findings, settings, review rounds,     *)
(* crashes and interference: a publish merges what was audited and reviewed,   *)
(* findings are settled before a merge, nothing is done twice, and no story is *)
(* forgotten.                                                                  *)
EXTENDS StoryPublish, FiniteSetTheorems, TLAPS

-----------------------------------------------------------------------------
(* Types.                                                                      *)

Commits == Seq(Kinds)
Gits == [at : {"base", "story"}, branch : Commits, loose : Commits, cut : BOOLEAN,
         merging : BOOLEAN, dirty : BOOLEAN, landed : BOOLEAN]
Hubs == [state : {"none", "open", "merged", "closed"}, head : Commits,
         threads : [Threads -> {"none", "open", "resolved"}],
         verdict : {"none", "done", "failed", "limited"}, found : SUBSET Findings,
         replies : [Findings -> Nat]]
Marks == [num : 0..Cardinality(Findings),
          st : {"gone", "fresh", "replied", "postponed", "resolved"}]
Stories == [saved : {TRUE}, rounds : 0..MaxRounds, open : [Findings -> Marks],
            deferred : [Findings -> 0..Cardinality(Findings)], passed : BOOLEAN,
            paused : {"none", "push", "merge"}, pausedAt : Commits, reviewed : Commits,
            retry : Commits]
Sayings == [Numbers -> Answers \cup {NoAnswer}]
Handoffs == [kind : {"work", "claim", "blocked", "pass", "deferral", "next", "user"},
             scope : Commits, said : Sayings]
Runs == [task : {"publish", "deferral", "settle"}, resumed : BOOLEAN, again : BOOLEAN,
         resolved : BOOLEAN, stalled : BOOLEAN, todo : SUBSET Findings,
         seen : SUBSET Findings, put : SUBSET Findings]
(* What replies were crossed no theorem looks at.                              *)
Hists(crossed) ==
    [audited : Commits, waived : Commits, told : BOOLEAN, asked : Nat, passes : Nat,
     torn : [Threads -> Nat], crossed : {crossed}, dropped : BOOLEAN]

Typed ==
    /\ conf \in Settings
    /\ git \in Gits
    /\ base \in {"none", "clean", "state", "conflict"}
    /\ hub \in Hubs
    /\ story \in Stories \cup {NoStory}
    /\ responses \in Sayings
    /\ handoff \in Handoffs
    /\ run \in Runs
    /\ hist \in Hists(hist.crossed)

-----------------------------------------------------------------------------
(* Where the program is.                                                       *)

(* The places of a publish that is under way with a saved story on its branch. *)
Reading == {"open", "review", "prompt", "threads"}
Syncing == {"sync", "resolving", "push"}
Finishing == {"switch", "mergeLocally", "delete", "clear"}
Resting == {"up", "impl", "handback", "decided", "paused", "begin", "down", "resume",
            "done", "deferral"} \cup Finishing
OnPullRequest == Syncing \cup Reading \cup
                 {"answer", "merge", "land", "bounce", "route", "settle", "deferral"}

Publishing == run.task = "publish" /\ pc \in Syncing \cup Reading \cup {"answer", "merge"}

Placed ==
    /\ pc \in Resting => run = Idle
    /\ pc \in Reading \cup {"bounce"} => run.task = "publish" /\ ~run.again
    /\ pc \in Syncing /\ ~run.again => run.task = "publish"
    /\ pc = "settle" => run.task = "settle" /\ ~run.again
    /\ pc = "route" => run.task = "deferral"
    /\ pc = "answer" => run.task \in {"publish", "deferral"} /\ ~run.again
    /\ pc \in Syncing \cup {"merge"} => run.task # "deferral"
    /\ pc \in OnPullRequest \cup Finishing \cup {"resume", "handback"} => story # NoStory
    /\ pc \in Finishing => conf.mode = "merge-commit"
    /\ conf.mode = "merge-commit" => pc \notin OnPullRequest \cup {"decided"}
    /\ Publishing \/ pc \in Finishing => handoff.kind = "pass"

(* The story's life: before its branch is cut nothing has happened; a story    *)
(* that is gone with its branch left behind was merged or handed to a person.  *)
Untouched == ~git.cut /\ ~git.landed
Checkout ==
    /\ git.at = "story" => git.cut
    /\ pc \in {"impl", "handback"} \cup OnPullRequest => git.cut
    /\ pc \in {"impl"} \cup OnPullRequest => git.at = "story"
    /\ Untouched =>
         /\ git.branch = NoCommit /\ hub.state = "none" /\ hub.head = NoCommit
         /\ story = NoStory /\ hist.asked = 0 /\ hist.passes = 0
         /\ hist.audited \in {NoCommit, git.loose}
    /\ git.loose # NoCommit => Untouched
    /\ story # NoStory /\ ~git.cut =>
         /\ pc \in {"clear", "down", "resume"} /\ handoff.kind = "pass"
         /\ conf.mode = "merge-commit"
    /\ conf.mode = "merge-commit" =>
         /\ hub.state = "none" /\ hist.asked = 0 /\ hist.passes = 0 /\ ~hist.told
         /\ story # NoStory => story.paused = "none"
    /\ pc \in {"mergeLocally", "delete", "clear"} =>
         git.at = "base" /\ git.cut = (pc # "clear")
    /\ pc = "delete" => git.landed

(* No story is forgotten.                                                      *)
Remembered ==
    /\ story = NoStory /\ git.cut => hist.told \/ git.landed \/ hub.state = "merged"
    /\ StoryNotForgotten

(* Nothing is done twice.                                                      *)
Once ==
    /\ DoneOnce
    /\ story # NoStory =>
         /\ story.retry # hub.head => hist.asked <= hist.torn[Person]
         /\ ~story.passed => hist.passes = 0
         /\ pc \in {"answer", "route"} /\ run.task = "deferral" => ~story.passed
         /\ \A f \in Findings :
               story.open[f].st = "fresh" => hub.replies[f] <= hist.torn[f]

-----------------------------------------------------------------------------
(* Commits.                                                                    *)

OnlyMerges(commit, head) == Covers(commit, head, {"merge", "resolved"})

(* A branch built on a commit keeps its history, but for an amended last       *)
(* commit.                                                                     *)
Built(commit, branch) ==
    commit # NoCommit =>
      /\ Len(commit) <= Len(branch)
      /\ \A i \in 1..Len(commit) - 1 : branch[i] = commit[i]
      /\ branch[Len(commit)] \in {commit[Len(commit)], "stray"}

(* A branch that is ever at this head again adds only merges to the commit.    *)
Sound(commit, head) == Built(commit, head) => OnlyMerges(commit, head)

(* A publish works on the audited commit and merges on top of it. Between the  *)
(* runs the branch is anybody's.                                               *)
Away == {"down", "resume", "done"}
AtAudit ==
    /\ git.cut \/ git.landed => Built(hist.audited, git.branch)
    /\ handoff.kind = "pass" => handoff.scope \in {hist.audited, NoCommit}
    /\ story # NoStory =>
         /\ Sound(hist.audited, story.retry)
         /\ story.paused # "none" =>
              /\ handoff.kind = "pass" => Sound(hist.audited, story.pausedAt)
              /\ pc \notin Away =>
                   git.at = "story" /\ IsPrefix(story.pausedAt, git.branch)
    /\ pc = "decided" \/ run.task = "settle" => handoff.kind # "pass"
    /\ Publishing \/ pc \in {"switch", "mergeLocally"}
          \/ (pc = "begin" /\ git.at = "story" /\ handoff.kind = "pass") =>
         OnlyMerges(hist.audited, git.branch)

(* The pull request is at the branch's head while a publish reads it.          *)
Merging == pc = "merge" \/ (pc \in Syncing /\ run.again)
Seen ==
    \/ story.rounds >= MaxRounds
    \/ \E seen \in {story.reviewed, hist.waived} \ {NoCommit} : OnlyMerges(seen, git.branch)
AtHead ==
    /\ Publishing /\ pc \notin Syncing => hub.head = git.branch /\ git.branch # NoCommit
    /\ pc = "threads" \/ (Merging /\ run.task = "publish") =>
         (conf.reviewers => Seen)
    /\ Merging => \A f \in UnresolvedFindings(story) : hub.threads[f] # "open"

(* The inductive invariant.                                                    *)
IInv == Typed /\ Placed /\ Checkout /\ Remembered /\ Once /\ AtAudit /\ AtHead

-----------------------------------------------------------------------------
(* What the types rest on.                                                     *)

LEMMA Constants ==
  /\ Cardinality(Findings) \in Nat /\ MaxRounds \in Nat
  /\ \A fs \in SUBSET Findings :
        Cardinality(fs) \in Nat /\ Cardinality(fs) <= Cardinality(Findings)
<1>1. IsFiniteSet(Findings)
  BY FindingsAssumption DEF FindingsAssumption
<1>2. Cardinality(Findings) \in Nat
  BY <1>1, FS_CardinalityType
<1>3. ASSUME NEW fs \in SUBSET Findings
      PROVE  Cardinality(fs) \in Nat /\ Cardinality(fs) <= Cardinality(Findings)
  <2>1. IsFiniteSet(fs) /\ Cardinality(fs) <= Cardinality(Findings)
    BY <1>1, FS_Subset
  <2> QED BY <2>1, FS_CardinalityType
<1> QED BY <1>2, <1>3, RoundsAssumption DEF RoundsAssumption

(* The findings of a round can be numbered from 1 on without a repetition.     *)
LEMMA NumberedType ==
  ASSUME NEW fs \in SUBSET Findings
  PROVE  /\ Numbered(fs) \in [fs -> 1..Cardinality(fs)]
         /\ \A f, g \in fs : f # g => Numbered(fs)[f] # Numbered(fs)[g]
<1>1. IsFiniteSet(fs)
  BY FS_Subset, FindingsAssumption DEF FindingsAssumption
<1>2. ExistsBijection(1..Cardinality(fs), fs)
  BY <1>1, FS_CardinalityType
<1>3. PICK b \in Bijection(1..Cardinality(fs), fs) : TRUE
  BY <1>2 DEF ExistsBijection
<1> DEFINE num == [f \in fs |-> CHOOSE n \in 1..Cardinality(fs) : b[n] = f]
<1>4. ASSUME NEW f \in fs
      PROVE  num[f] \in 1..Cardinality(fs) /\ b[num[f]] = f
  <2>1. \E n \in 1..Cardinality(fs) : b[n] = f
    BY <1>3 DEF Bijection, Surjection
  <2> QED BY <2>1
<1>5. \E given \in [fs -> 1..Cardinality(fs)] :
         \A f, g \in fs : f # g => given[f] # given[g]
  <2>1. num \in [fs -> 1..Cardinality(fs)]
    BY <1>4
  <2>2. \A f, g \in fs : f # g => num[f] # num[g]
    BY <1>4
  <2> QED BY <2>1, <2>2
<1> QED BY <1>5 DEF Numbered

LEMMA Values ==
  /\ Idle \in Runs /\ Silence \in Sayings
  /\ FreshStory \in Stories
  /\ \A s \in Stories : s # NoStory
  /\ NoCommit \in Commits
<1>1. ASSUME NEW s \in Stories
      PROVE  s # NoStory
  <2>1. s.saved = TRUE
    BY DEF Stories
  <2>2. NoStory.saved = FALSE
    BY DEF NoStory
  <2> QED BY <2>1, <2>2
<1>2. Idle \in Runs
  BY DEF Idle, Runs
<1>3. Silence \in Sayings
  BY DEF Silence, Sayings
<1>4. NoCommit \in Commits
  BY DEF NoCommit, Commits
<1>5. FreshStory \in Stories
  <2>1. Gone \in Marks
    BY Constants DEF Gone, Marks
  <2>2. 0 \in 0..MaxRounds /\ 0 \in 0..Cardinality(Findings)
    BY Constants
  <2> QED BY <2>1, <2>2, <1>4 DEF FreshStory, Stories
<1> QED BY <1>1, <1>2, <1>3, <1>4, <1>5

(* What is written under a number is an answer.                                *)
LEMMA WritingsType ==
  ASSUME NEW numbers, NEW fs \in SUBSET Findings,
         NEW kinds \in SUBSET {"fixed", "deferred", "follow"},
         NEW said \in Writings(numbers, fs, kinds)
  PROVE  said \in Sayings
BY DEF Writings, Sayings, Answers

LEMMA MergedType ==
  ASSUME responses \in Sayings, NEW said \in Sayings
  PROVE  Merged(said) \in Sayings
BY DEF Merged, Sayings

LEMMA AppendType ==
  ASSUME NEW c \in Commits, NEW k \in Kinds
  PROVE  Append(c, k) \in Commits
BY DEF Commits

LEMMA FrontType ==
  ASSUME NEW c \in Commits, c # NoCommit
  PROVE  /\ Front(c) \in Commits
         /\ Len(Front(c)) = Len(c) - 1
         /\ \A i \in 1..Len(c) - 1 : Front(c)[i] = c[i]
<1>1. Len(c) \in Nat /\ Len(c) >= 1
  BY DEF Commits, NoCommit
<1>2. PICK n \in Nat : n = Len(c) - 1
  BY <1>1
<1>3. Front(c) \in Commits
  BY <1>2 DEF Front, Commits
<1>4. DOMAIN Front(c) = 1..n /\ \A i \in 1..n : Front(c)[i] = c[i]
  BY <1>2 DEF Front, Commits
<1>5. DOMAIN Front(c) = 1..Len(Front(c)) /\ Len(Front(c)) \in Nat
  BY <1>3 DEF Commits
<1> QED BY <1>2, <1>3, <1>4, <1>5

-----------------------------------------------------------------------------
(* The types of what the actions write.                                        *)

LEMMA MarkType ==
  ASSUME story \in Stories, NEW f \in Findings,
         NEW st \in {"gone", "fresh", "replied", "postponed", "resolved"},
         story' = [story EXCEPT !.open[f].st = st]
  PROVE  /\ story' \in Stories
         /\ story'.open = [story.open EXCEPT ![f].st = st]
         /\ UNCHANGED <<story.rounds, story.deferred, story.passed, story.paused,
                        story.pausedAt, story.reviewed, story.retry>>
<1> DEFINE o == [story.open EXCEPT ![f].st = st]
<1>1. story.open \in [Findings -> Marks]
  BY DEF Stories
<1>2. story.open[f] \in Marks
  BY <1>1
<1>3. [story.open[f] EXCEPT !.st = st] \in Marks
  BY <1>2 DEF Marks
<1>4. o = [story.open EXCEPT ![f] = [story.open[f] EXCEPT !.st = st]]
  BY <1>1
<1>5. o \in [Findings -> Marks]
  BY <1>1, <1>3, <1>4
<1>6. story' = [story EXCEPT !.open = o]
  BY DEF Stories
<1> HIDE DEF o
<1>7. /\ story' \in Stories /\ story'.open = o
      /\ UNCHANGED <<story.rounds, story.deferred, story.passed, story.paused,
                     story.pausedAt, story.reviewed, story.retry>>
  BY <1>5, <1>6 DEF Stories
<1> QED BY <1>7 DEF o

LEMMA MarkedType ==
  ASSUME story \in Stories, NEW f \in Findings,
         NEW st \in {"gone", "fresh", "replied", "postponed", "resolved"}, Mark(f, st)
  PROVE  /\ story' \in Stories /\ story' # NoStory
         /\ \A g \in Findings :
               story'.open[g].st = IF g = f THEN st ELSE story.open[g].st
         /\ UNCHANGED <<story.rounds, story.deferred, story.passed, story.paused,
                        story.pausedAt, story.reviewed, story.retry>>
<1>1. /\ story' \in Stories /\ story'.open = [story.open EXCEPT ![f].st = st]
      /\ UNCHANGED <<story.rounds, story.deferred, story.passed, story.paused,
                     story.pausedAt, story.reviewed, story.retry>>
  BY MarkType DEF Mark
<1>2. story.open \in [Findings -> Marks]
  BY DEF Stories
<1>3. ASSUME NEW g \in Findings
      PROVE  story'.open[g].st = IF g = f THEN st ELSE story.open[g].st
  <2>1. CASE g = f
    <3>1. story'.open[f] = [story.open[f] EXCEPT !.st = st]
      BY <1>1, <1>2
    <3>2. story.open[f] \in Marks
      BY <1>2
    <3> QED BY <2>1, <3>1, <3>2 DEF Marks
  <2>2. CASE g # f
    BY <1>1, <1>2, <2>2
  <2> QED BY <2>1, <2>2
<1> QED BY <1>1, <1>3, Values

LEMMA NumberType ==
  ASSUME NEW s \in Stories, NEW f \in Findings
  PROVE  NumberOf(s, f) \in 0..Cardinality(Findings)
BY DEF NumberOf, Stories, Marks

LEMMA ArmedType ==
  ASSUME story \in Stories, NEW fs \in SUBSET Findings
  PROVE  /\ Armed(fs) \in Stories
         /\ Armed(fs).passed = TRUE
         /\ \A f \in Findings : Armed(fs).open[f].st = "fresh" => f \in fs
         /\ Armed(fs).retry = story.retry /\ Armed(fs).paused = story.paused
         /\ Armed(fs).pausedAt = story.pausedAt /\ Armed(fs).reviewed = story.reviewed
         /\ Armed(fs).rounds = story.rounds
<1> DEFINE o == [f \in Findings |->
                    IF f \in fs THEN [num |-> NumberOf(story, f), st |-> "fresh"] ELSE Gone]
           d == [f \in Findings |-> 0]
<1>1. o \in [Findings -> Marks]
  BY NumberType, Constants DEF Marks, Gone
<1>2. d \in [Findings -> 0..Cardinality(Findings)]
  BY Constants
<1>3. \A f \in Findings : o[f].st = "fresh" => f \in fs
  BY DEF Gone
<1>4. Armed(fs) = [story EXCEPT !.open = o, !.deferred = d, !.passed = TRUE]
  BY DEF Armed
<1> HIDE DEF o, d
<1>5. Armed(fs).open = o
  BY <1>4 DEF Stories
<1> QED BY <1>1, <1>2, <1>3, <1>4, <1>5 DEF Stories

LEMMA PausedType ==
  ASSUME story \in Stories, git \in Gits
  PROVE  /\ Paused \in Stories
         /\ Paused.paused \in {"push", "merge"} /\ Paused.pausedAt = git.branch
         /\ Paused.open = story.open /\ Paused.deferred = story.deferred
         /\ Paused.passed = story.passed /\ Paused.rounds = story.rounds
         /\ Paused.reviewed = story.reviewed /\ Paused.retry = story.retry
<1>1. Step \in {"push", "merge"}
  BY DEF Step
<1> QED BY <1>1 DEF Paused, Stories, Gits

(* A reply is counted; nothing else of the pull request changes.               *)
LEMMA PostType ==
  ASSUME hub \in Hubs, hist \in Hists(hist.crossed), NEW f \in Findings, NEW answer,
         PostReply(f, answer)
  PROVE  /\ hub' = [hub EXCEPT !.replies[f] = @ + 1] /\ hub' \in Hubs
         /\ hist' \in Hists(hist'.crossed)
         /\ UNCHANGED <<hist.audited, hist.waived, hist.told, hist.asked, hist.passes,
                        hist.torn, hist.dropped>>
<1>1. hub' = [hub EXCEPT !.replies[f] = @ + 1]
  BY DEF PostReply
<1>2. hub' \in Hubs
  BY <1>1 DEF Hubs
<1>3. \/ hist' = hist
      \/ hist' = [hist EXCEPT !.crossed = @ \cup {<<f, answer.kind>>}]
  BY DEF PostReply
<1> QED BY <1>1, <1>2, <1>3 DEF Hists

LEMMA SavedHere ==
  ASSUME Typed, Placed, pc \in OnPullRequest \cup Finishing \cup {"resume", "handback"}
  PROVE  story \in Stories
BY DEF Typed, Placed

LEMMA CommitType ==
  ASSUME git \in Gits, NEW kind \in Kinds, Commit(kind)
  PROVE  /\ git' \in Gits /\ git'.branch = Append(git.branch, kind)
         /\ UNCHANGED <<git.at, git.loose, git.cut, git.merging, git.dirty, git.landed>>
<1>1. Append(git.branch, kind) \in Commits
  BY AppendType DEF Gits
<1> QED BY <1>1 DEF Commit, Gits

LEMMA RouteType ==
  ASSUME story \in Stories, hub \in Hubs, hist \in Hists(hist.crossed),
         NEW fs \in SUBSET Findings, RouteDeferredToPlanner(fs)
  PROVE  /\ pc' = "deferral" /\ run' = Idle
         /\ story' = Armed(fs)
         /\ hub' \in Hubs
         /\ \A f \in Findings : hub'.replies[f] = IF f \in fs THEN 0 ELSE hub.replies[f]
         /\ UNCHANGED <<hub.state, hub.head, hub.threads, hub.verdict, hub.found>>
         /\ hist' \in Hists(hist'.crossed) /\ hist'.passes = hist.passes + 1
         /\ UNCHANGED <<hist.audited, hist.waived, hist.told, hist.asked, hist.torn>>
         /\ UNCHANGED <<conf, git, base, responses, handoff>>
<1> DEFINE r == [f \in Findings |-> IF f \in fs THEN 0 ELSE hub.replies[f]]
<1>1. r \in [Findings -> Nat]
  BY DEF Hubs
<1>2. hub' = [hub EXCEPT !.replies = r]
  BY DEF RouteDeferredToPlanner, Hubs
<1>3. \A f \in Findings : r[f] = IF f \in fs THEN 0 ELSE hub.replies[f]
  OBVIOUS
<1> HIDE DEF r
<1>4. hub' \in Hubs /\ hub'.replies = r
      /\ UNCHANGED <<hub.state, hub.head, hub.threads, hub.verdict, hub.found>>
  BY <1>1, <1>2 DEF Hubs
<1>5. hist' = [hist EXCEPT !.passes = @ + 1]
  BY DEF RouteDeferredToPlanner
<1>6. hist' \in Hists(hist'.crossed) /\ hist'.passes = hist.passes + 1
      /\ UNCHANGED <<hist.audited, hist.waived, hist.told, hist.asked, hist.torn>>
  BY <1>5 DEF Hists
<1> QED BY <1>3, <1>4, <1>6 DEF RouteDeferredToPlanner

LEMMA PersonType ==
  ASSUME hist \in Hists(hist.crossed), PauseForPerson
  PROVE  /\ pc' = "down" /\ run' = Idle /\ story' = NoStory /\ responses' = Silence
         /\ hist' \in Hists(hist'.crossed) /\ hist'.told = TRUE
         /\ UNCHANGED <<hist.audited, hist.waived, hist.asked, hist.passes, hist.torn>>
         /\ UNCHANGED <<conf, git, base, hub, handoff>>
BY DEF PauseForPerson, Ends, world, Hists

LEMMA KeptType ==
  ASSUME NEW s, PauseKept(s)
  PROVE  /\ pc' = "down" /\ run' = Idle /\ story' = s
         /\ UNCHANGED <<conf, git, base, hub, responses, handoff, hist>>
BY DEF PauseKept, Ends, world

LEMMA StayType ==
  ASSUME NEW place, Goto(place)
  PROVE  /\ pc' = place
         /\ UNCHANGED <<conf, git, base, hub, story, responses, handoff, run, hist>>
BY DEF Goto, world, disk

LEMMA CleanUpType ==
  ASSUME git \in Gits, CleanUpMergedStory
  PROVE  /\ git' \in Gits /\ pc' = "up" /\ story' = NoStory /\ responses' = Silence
         /\ \/ git' = git /\ git.at # "story"
            \/ git.at = "story" /\ git'.at = "base" /\ git'.landed = TRUE
               /\ git'.branch = git.branch /\ git'.loose = git.loose
         /\ UNCHANGED <<conf, base, hub, handoff, run, hist>>
<1> DEFINE c == ~IsPrefix(git.branch, hub.head)
<1>1. c \in BOOLEAN
  BY DEF IsPrefix
<1>2. git' = IF git.at = "story"
             THEN [git EXCEPT !.at = "base", !.landed = TRUE, !.cut = c] ELSE git
  BY DEF CleanUpMergedStory
<1> HIDE DEF c
<1>3. git' \in Gits
      /\ \/ git' = git /\ git.at # "story"
         \/ git.at = "story" /\ git'.at = "base" /\ git'.landed = TRUE
            /\ git'.branch = git.branch /\ git'.loose = git.loose
  BY <1>1, <1>2 DEF Gits
<1> QED BY <1>3 DEF CleanUpMergedStory

LEMMA AnswersDoneType ==
  ASSUME story \in Stories, AnswersDone
  PROVE  /\ story' \in Stories
         /\ \A f \in Findings : story'.open[f] = Gone
         /\ \A f \in Findings :
               story'.deferred[f] = IF f \in run.put THEN story.open[f].num
                                    ELSE IF f \in Open(story) THEN 0 ELSE story.deferred[f]
         /\ UNCHANGED <<story.rounds, story.passed, story.paused, story.pausedAt,
                        story.reviewed, story.retry>>
<1> DEFINE d == [f \in Findings |-> IF f \in run.put THEN story.open[f].num
                                   ELSE IF f \in Open(story) THEN 0 ELSE story.deferred[f]]
           o == [f \in Findings |-> Gone]
<1>1. d \in [Findings -> 0..Cardinality(Findings)]
  BY Constants DEF Stories, Marks
<1>2. o \in [Findings -> Marks]
  BY Constants DEF Marks, Gone
<1>3. story' = [story EXCEPT !.deferred = d, !.open = o]
  BY DEF AnswersDone, Stories
<1>4. \A f \in Findings : o[f] = Gone
  OBVIOUS
<1>5. \A f \in Findings : d[f] = IF f \in run.put THEN story.open[f].num
                                ELSE IF f \in Open(story) THEN 0 ELSE story.deferred[f]
  OBVIOUS
<1> HIDE DEF d, o
<1>6. /\ story' \in Stories /\ story'.open = o /\ story'.deferred = d
      /\ UNCHANGED <<story.rounds, story.passed, story.paused, story.pausedAt,
                     story.reviewed, story.retry>>
  BY <1>1, <1>2, <1>3 DEF Stories
<1> QED BY <1>4, <1>5, <1>6

(* A correction round starts its findings fresh, with no reply.                *)
LEMMA ReviewFindingsType ==
  ASSUME story \in Stories, hub \in Hubs, git \in Gits, ReviewFindings
  PROVE  /\ story' \in Stories
         /\ \A f \in Findings : story'.open[f].st = "fresh" => f \in hub.found
         /\ UNCHANGED <<story.passed, story.paused, story.pausedAt, story.retry>>
         /\ hub' \in Hubs
         /\ \A f \in Findings :
               hub'.replies[f] = IF f \in hub.found THEN 0 ELSE hub.replies[f]
         /\ UNCHANGED <<hub.state, hub.head, hub.threads, hub.verdict, hub.found>>
<1> DEFINE o == [f \in Findings |->
                    IF f \in hub.found THEN [num |-> Numbered(hub.found)[f], st |-> "fresh"]
                    ELSE Gone]
           r == [f \in Findings |-> IF f \in hub.found THEN 0 ELSE hub.replies[f]]
<1>1. hub.found \in SUBSET Findings
  BY DEF Hubs
<1>2. \A f \in hub.found : Numbered(hub.found)[f] \in 0..Cardinality(Findings)
  BY <1>1, NumberedType, Constants
<1>3. o \in [Findings -> Marks]
  BY <1>2, Constants DEF Marks, Gone
<1>4. r \in [Findings -> Nat]
  BY DEF Hubs
<1>5. story' = [story EXCEPT !.rounds = @ + 1, !.reviewed = git.branch, !.open = o]
      /\ hub' = [hub EXCEPT !.replies = r]
  BY DEF ReviewFindings, Hubs
<1>6. story.rounds + 1 \in 0..MaxRounds
  BY Constants DEF ReviewFindings, Reviewing, Stories
<1>7. \A f \in Findings : o[f].st = "fresh" => f \in hub.found
  BY DEF Gone
<1>8. \A f \in Findings : r[f] = IF f \in hub.found THEN 0 ELSE hub.replies[f]
  OBVIOUS
<1> HIDE DEF o, r
<1>9. /\ story' \in Stories /\ story'.open = o
      /\ UNCHANGED <<story.passed, story.paused, story.pausedAt, story.retry>>
  BY <1>3, <1>5, <1>6 DEF Stories, Gits
<1>10. /\ hub' \in Hubs /\ hub'.replies = r
       /\ UNCHANGED <<hub.state, hub.head, hub.threads, hub.verdict, hub.found>>
  BY <1>4, <1>5 DEF Hubs
<1> QED BY <1>7, <1>8, <1>9, <1>10

(* Decisions outside the planner's pass count as its pass.                     *)
LEMMA SettleUnarmedType ==
  ASSUME story \in Stories, hub \in Hubs, hist \in Hists(hist.crossed), SettleUnarmed,
         ~PauseKept(story)
  PROVE  /\ UNCHANGED <<pc, conf, git, base, responses, handoff, run>>
         /\ story' \in Stories /\ story' = Armed(UnresolvedFindings(story))
         /\ hub' \in Hubs
         /\ \A f \in Findings :
               hub'.replies[f] = IF f \in UnresolvedFindings(story) THEN 0
                                 ELSE hub.replies[f]
         /\ UNCHANGED <<hub.state, hub.head, hub.threads, hub.verdict, hub.found>>
         /\ hist' \in Hists(hist'.crossed) /\ hist'.passes = hist.passes + 1
         /\ UNCHANGED <<hist.audited, hist.waived, hist.told, hist.asked, hist.torn>>
<1> DEFINE r == [f \in Findings |-> IF f \in UnresolvedFindings(story) THEN 0
                                   ELSE hub.replies[f]]
<1>1. /\ UNCHANGED <<pc, conf, git, base, responses, handoff, run>>
      /\ story' = Armed(UnresolvedFindings(story))
      /\ hub' = [hub EXCEPT !.replies = r]
      /\ hist' = [hist EXCEPT !.passes = @ + 1]
  BY DEF SettleUnarmed, Hubs
<1>2. r \in [Findings -> Nat]
  BY DEF Hubs
<1>3. \A f \in Findings : r[f] = IF f \in UnresolvedFindings(story) THEN 0
                                ELSE hub.replies[f]
  OBVIOUS
<1> HIDE DEF r
<1>4. /\ hub' \in Hubs /\ hub'.replies = r
      /\ UNCHANGED <<hub.state, hub.head, hub.threads, hub.verdict, hub.found>>
  BY <1>1, <1>2 DEF Hubs
<1>5. /\ hist' \in Hists(hist'.crossed) /\ hist'.passes = hist.passes + 1
      /\ UNCHANGED <<hist.audited, hist.waived, hist.told, hist.asked, hist.torn>>
  BY <1>1 DEF Hists
<1>6. UnresolvedFindings(story) \in SUBSET Findings
  BY DEF UnresolvedFindings, Open, Deferred
<1>7. story' \in Stories
  BY <1>1, <1>6, ArmedType
<1> QED BY <1>1, <1>3, <1>4, <1>5, <1>7

(* What a settlement leaves: the findings that remain, as they are.            *)
LEMMA SettleEndsType ==
  ASSUME story \in Stories, SettleEnds, ~PauseForPerson
  PROVE  /\ story' \in Stories
         /\ \A f \in Findings : story'.open[f] \in {story.open[f], Gone}
         /\ UNCHANGED <<story.rounds, story.deferred, story.passed, story.paused,
                        story.pausedAt, story.reviewed, story.retry>>
         /\ run' \in {Idle, [run EXCEPT !.seen = {}]}
         /\ UNCHANGED <<conf, git, base, hub, responses, handoff, hist>>
         /\ \/ pc' = "up" /\ run' = Idle
            \/ /\ pc' = "merge" /\ run' = [run EXCEPT !.seen = {}]
               /\ UnresolvedThreads = {}
<1> DEFINE o == [f \in Findings |-> IF f \in run.put THEN story.open[f] ELSE Gone]
<1>1. o \in [Findings -> Marks]
  BY Constants DEF Stories, Marks, Gone
<1>2. /\ story' = [story EXCEPT !.open = o]
      /\ UNCHANGED <<conf, git, base, hub, responses, handoff, hist>>
      /\ \/ pc' = "up" /\ run' = Idle
         \/ /\ pc' = "merge" /\ run' = [run EXCEPT !.seen = {}]
            /\ UnresolvedThreads = {}
  BY DEF SettleEnds, world, Stories
<1>3. \A f \in Findings : o[f] \in {story.open[f], Gone}
  OBVIOUS
<1> HIDE DEF o
<1>4. /\ story' \in Stories /\ story'.open = o
      /\ UNCHANGED <<story.rounds, story.deferred, story.passed, story.paused,
                     story.pausedAt, story.reviewed, story.retry>>
  BY <1>1, <1>2 DEF Stories
<1> QED BY <1>2, <1>3, <1>4

(* A review opens threads only of findings the saved state does not know.      *)
LEMMA CodexReviewsType ==
  ASSUME hub \in Hubs, CodexReviews
  PROVE  /\ hub' \in Hubs
         /\ \A f \in Known(story) : hub'.threads[f] = hub.threads[f]
         /\ UNCHANGED <<hub.state, hub.head, hub.replies>>
<1>1. PICK verdict \in {"done", "failed", "limited"},
           fs \in SUBSET {f \in Findings : hub.threads[f] = "none" /\ f \notin Known(story)} :
           hub' = [hub EXCEPT !.verdict = verdict, !.found = @ \cup fs,
                     !.threads = [t \in Threads |-> IF t \in fs THEN "open" ELSE @[t]]]
  BY DEF CodexReviews
<1> DEFINE th == [t \in Threads |-> IF t \in fs THEN "open" ELSE hub.threads[t]]
           found == hub.found \cup fs
<1>2. hub' = [hub EXCEPT !.verdict = verdict, !.found = found, !.threads = th]
  BY <1>1 DEF Hubs
<1>3. th \in [Threads -> {"none", "open", "resolved"}] /\ found \in SUBSET Findings
  BY DEF Hubs
<1>4. \A f \in Known(story) : f \in Threads => th[f] = hub.threads[f]
  OBVIOUS
<1>5. Known(story) \subseteq Threads
  BY DEF Known, UnresolvedFindings, Open, Deferred, Threads
<1> HIDE DEF th, found
<1>6. hub' \in Hubs /\ hub'.threads = th /\ UNCHANGED <<hub.state, hub.head, hub.replies>>
  BY <1>2, <1>3 DEF Hubs
<1> QED BY <1>4, <1>5, <1>6

(* The three places that start the planner's pass.                             *)
LEMMA RoutedType ==
  ASSUME Typed, Placed,
         ThreadsDeferred \/ OrphanToPlanner \/ (RouteBlockedHandback /\ ~PauseKept(story))
  PROVE  /\ story \in Stories /\ conf.mode # "merge-commit"
         /\ pc' = "deferral" /\ run' = Idle
         /\ story' \in Stories /\ story' # NoStory /\ story'.passed = TRUE
         /\ UNCHANGED <<story.retry, story.paused, story.pausedAt, story.reviewed,
                        story.rounds>>
         /\ \A f \in Findings : story'.open[f].st = "fresh" => hub'.replies[f] = 0
         /\ \A f \in Findings : hub'.replies[f] \in {0, hub.replies[f]}
         /\ UNCHANGED <<hub.state, hub.head, hub.threads, hub.verdict, hub.found>>
         /\ hist'.passes = hist.passes + 1
         /\ UNCHANGED <<hist.audited, hist.waived, hist.told, hist.asked, hist.torn>>
         /\ UNCHANGED <<conf, git, base, responses, handoff>>
<1>1. story \in Stories /\ conf.mode # "merge-commit"
  <2>1. CASE ThreadsDeferred
    BY <2>1, SavedHere DEF ThreadsDeferred, OnPullRequest, Reading, Placed
  <2>2. CASE OrphanToPlanner
    BY <2>2 DEF OrphanToPlanner, Orphaned, Typed
  <2>3. CASE RouteBlockedHandback
    BY <2>3, SavedHere DEF RouteBlockedHandback, OnPullRequest, Placed
  <2> QED BY <2>1, <2>2, <2>3
<1>2. \E fs \in SUBSET Findings : RouteDeferredToPlanner(fs)
  <2>1. CASE ThreadsDeferred
    BY <2>1 DEF ThreadsDeferred, DeferredOnly, Deferred
  <2>2. CASE OrphanToPlanner
    BY <2>2 DEF OrphanToPlanner, OrphanRecoverable, StillUnresolved,
       UnresolvedFindings, Open, Deferred
  <2>3. CASE RouteBlockedHandback /\ ~PauseKept(story)
    BY <2>3 DEF RouteBlockedHandback, Deferred
  <2> QED BY <2>1, <2>2, <2>3
<1>3. PICK fs \in SUBSET Findings : RouteDeferredToPlanner(fs)
  BY <1>2
<1>4. /\ pc' = "deferral" /\ run' = Idle /\ story' = Armed(fs)
      /\ \A f \in Findings : hub'.replies[f] = IF f \in fs THEN 0 ELSE hub.replies[f]
      /\ UNCHANGED <<hub.state, hub.head, hub.threads, hub.verdict, hub.found>>
      /\ hist'.passes = hist.passes + 1
      /\ UNCHANGED <<hist.audited, hist.waived, hist.told, hist.asked, hist.torn>>
      /\ UNCHANGED <<conf, git, base, responses, handoff>>
  BY <1>1, <1>3, RouteType DEF Typed
<1>5. /\ story' \in Stories /\ story'.passed = TRUE
      /\ \A f \in Findings : story'.open[f].st = "fresh" => f \in fs
      /\ UNCHANGED <<story.retry, story.paused, story.pausedAt, story.reviewed,
                     story.rounds>>
  BY <1>1, <1>4, ArmedType
<1>6. story' # NoStory
  BY <1>5, Values
<1> QED BY <1>1, <1>4, <1>5, <1>6

-----------------------------------------------------------------------------
(* Commits built on one another.                                               *)

(* A prefix, and what lies above it, commit by commit.                         *)
LEMMA PrefixPointwise ==
  ASSUME NEW c \in Commits, NEW d \in Commits
  PROVE  IsPrefix(c, d) <=> Len(c) <= Len(d) /\ \A i \in 1..Len(c) : c[i] = d[i]
<1>1. Len(c) \in Nat /\ Len(d) \in Nat
  BY DEF Commits
<1>2. SubSeq(c, 1, Len(c)) = [i \in 1..Len(c) |-> c[i]]
  BY <1>1 DEF Commits
<1>3. ASSUME Len(c) <= Len(d)
      PROVE  SubSeq(d, 1, Len(c)) = [i \in 1..Len(c) |-> d[i]]
  BY <1>1, <1>3 DEF Commits
<1> QED BY <1>1, <1>2, <1>3 DEF IsPrefix

LEMMA CoversPointwise ==
  ASSUME NEW c \in Commits, NEW d \in Commits, NEW kinds
  PROVE  Covers(c, d, kinds) <=>
           /\ Len(c) <= Len(d)
           /\ \A i \in 1..Len(c) : d[i] = c[i]
           /\ \A i \in Len(c) + 1 .. Len(d) : d[i] \in kinds
BY PrefixPointwise DEF Covers

(* Lengths of commits.                                                         *)
LEMMA CommitFacts ==
  ASSUME NEW c \in Commits
  PROVE  /\ Len(c) \in Nat
         /\ c # NoCommit => Len(c) > 0
         /\ Len(NoCommit) = 0
BY DEF Commits, NoCommit

(* A commit is built on itself.                                                *)
LEMMA ItsOwn ==
  ASSUME NEW c \in Commits
  PROVE  Built(c, c) /\ OnlyMerges(c, c) /\ IsPrefix(c, c)
BY CoversPointwise, PrefixPointwise, CommitFacts DEF OnlyMerges, Built

(* A commit on top of the branch keeps what the branch was built on.           *)
LEMMA BuiltAppend ==
  ASSUME NEW c \in Commits, NEW d \in Commits, NEW k \in Kinds, Built(c, d)
  PROVE  Built(c, Append(d, k))
<1>1. Append(d, k) \in Commits /\ Len(Append(d, k)) = Len(d) + 1
      /\ \A i \in 1..Len(d) : Append(d, k)[i] = d[i]
  BY AppendType DEF Commits
<1> QED BY <1>1, CommitFacts DEF Built

LEMMA PrefixAppend ==
  ASSUME NEW c \in Commits, NEW d \in Commits, NEW k \in Kinds, IsPrefix(c, d)
  PROVE  IsPrefix(c, Append(d, k))
<1> DEFINE e == Append(d, k)
<1>1. e \in Commits /\ Len(e) = Len(d) + 1 /\ \A i \in 1..Len(d) : e[i] = d[i]
  BY AppendType DEF Commits
<1> HIDE DEF e
<1>2. Len(c) \in Nat /\ Len(d) \in Nat /\ Len(c) <= Len(d)
      /\ \A i \in 1..Len(c) : c[i] = d[i]
  BY PrefixPointwise, CommitFacts
<1>3. Len(c) <= Len(e) /\ \A i \in 1..Len(c) : c[i] = e[i]
  BY <1>1, <1>2
<1>4. IsPrefix(c, e)
  BY <1>1, <1>3, PrefixPointwise
<1> QED BY <1>4 DEF e

(* A merge on top of merges: there are still only merges.                      *)
LEMMA OnlyMergesAppend ==
  ASSUME NEW c \in Commits, NEW d \in Commits, NEW k \in {"merge", "resolved"},
         OnlyMerges(c, d)
  PROVE  OnlyMerges(c, Append(d, k))
<1> DEFINE e == Append(d, k)
<1>1. k \in Kinds
  BY DEF Kinds
<1>2. /\ e \in Commits /\ Len(e) = Len(d) + 1 /\ \A i \in 1..Len(d) : e[i] = d[i]
      /\ e[Len(d) + 1] = k
  BY <1>1, AppendType DEF Commits
<1> HIDE DEF e
<1>3. /\ Len(c) <= Len(d) /\ \A i \in 1..Len(c) : d[i] = c[i]
      /\ \A i \in Len(c) + 1 .. Len(d) : d[i] \in {"merge", "resolved"}
  BY CoversPointwise DEF OnlyMerges
<1>4. Len(c) \in Nat /\ Len(d) \in Nat
  BY CommitFacts
<1>5. ASSUME NEW i \in Len(c) + 1 .. Len(e)
      PROVE  e[i] \in {"merge", "resolved"}
  <2>1. CASE i = Len(d) + 1
    BY <1>2, <2>1
  <2>2. CASE i # Len(d) + 1
    <3>1. i \in 1..Len(d) /\ i \in Len(c) + 1 .. Len(d)
      BY <1>2, <1>4, <2>2
    <3> QED BY <1>2, <1>3, <3>1
  <2> QED BY <2>1, <2>2
<1>6. Len(c) <= Len(e) /\ \A i \in 1..Len(c) : e[i] = c[i]
  BY <1>2, <1>3, <1>4
<1>7. OnlyMerges(c, e)
  BY <1>2, <1>5, <1>6, CoversPointwise DEF OnlyMerges
<1> QED BY <1>7 DEF e

(* Amending the last commit, even the audited one, leaves the branch built on  *)
(* the audited commit but for that commit: it is a person's now, and no kind   *)
(* of merge.                                                                   *)
LEMMA BuiltAmend ==
  ASSUME NEW c \in Commits, NEW d \in Commits, d # NoCommit, Built(c, d)
  PROVE  Built(c, Append(Front(d), "stray"))
<1> DEFINE e == Append(Front(d), "stray")
<1>1. /\ Front(d) \in Commits /\ Len(Front(d)) = Len(d) - 1
      /\ \A i \in 1..Len(d) - 1 : Front(d)[i] = d[i]
  BY FrontType
<1>2. /\ e \in Commits /\ Len(e) = Len(d) /\ e[Len(d)] = "stray"
      /\ \A i \in 1..Len(d) - 1 : e[i] = d[i]
  BY <1>1, AppendType, CommitFacts DEF Commits, Kinds
<1> HIDE DEF e
<1>3. Built(c, e)
  BY <1>2, CommitFacts DEF Built
<1> QED BY <1>3 DEF e

(* A branch that still begins with the commit is built on it.                  *)
LEMMA BuiltPrefix ==
  ASSUME NEW c \in Commits, NEW d \in Commits, IsPrefix(c, d)
  PROVE  Built(c, d)
BY PrefixPointwise, CommitFacts DEF Built

(* A head that was sound for an earlier audit is sound for a later one on the  *)
(* same branch.                                                                *)
LEMMA SoundLater ==
  ASSUME NEW c \in Commits, NEW d \in Commits, NEW head \in Commits,
         Sound(c, head), Built(c, d)
  PROVE  Sound(d, head)
<1> SUFFICES ASSUME Built(d, head)
             PROVE  OnlyMerges(d, head)
  BY DEF Sound
<1>1. CASE d = NoCommit
  <2>1. c = NoCommit
    BY <1>1, CommitFacts DEF Built
  <2> QED BY <1>1, <2>1 DEF Sound
<1>2. CASE d # NoCommit
  <2>1. /\ Len(d) \in Nat /\ Len(d) > 0 /\ Len(d) <= Len(head)
        /\ \A i \in 1..Len(d) - 1 : head[i] = d[i]
        /\ head[Len(d)] \in {d[Len(d)], "stray"}
    BY <1>2, CommitFacts DEF Built
  <2>2. /\ Len(c) \in Nat /\ Len(head) \in Nat /\ Len(c) <= Len(d)
        /\ c # NoCommit =>
             /\ Len(c) > 0
             /\ \A i \in 1..Len(c) - 1 : d[i] = c[i]
             /\ d[Len(c)] \in {c[Len(c)], "stray"}
        /\ c = NoCommit => Len(c) = 0
    BY <2>1, CommitFacts DEF Built
  <2>3. Built(c, head)
    <3>1. CASE c = NoCommit
      BY <3>1 DEF Built
    <3>2. CASE c # NoCommit /\ Len(c) = Len(d)
      BY <2>1, <2>2, <3>2 DEF Built
    <3>3. CASE c # NoCommit /\ Len(c) < Len(d)
      BY <2>1, <2>2, <3>3 DEF Built
    <3> QED BY <2>1, <2>2, <3>1, <3>2, <3>3
  <2>4. /\ Len(c) <= Len(head) /\ \A i \in 1..Len(c) : head[i] = c[i]
        /\ \A i \in Len(c) + 1 .. Len(head) : head[i] \in {"merge", "resolved"}
    BY <2>3, CoversPointwise DEF Sound, OnlyMerges
  <2>5. head[Len(d)] = d[Len(d)]
    <3>1. CASE Len(c) < Len(d)
      BY <2>1, <2>2, <2>4, <3>1
    <3>2. CASE Len(c) = Len(d)
      BY <2>1, <2>2, <2>4, <3>2
    <3> QED BY <2>1, <2>2, <3>1, <3>2
  <2>6. \A i \in 1..Len(d) : head[i] = d[i]
    BY <2>1, <2>5
  <2>7. \A i \in Len(d) + 1 .. Len(head) : head[i] \in {"merge", "resolved"}
    BY <2>1, <2>2, <2>4
  <2> QED BY <2>1, <2>6, <2>7, CoversPointwise DEF OnlyMerges
<1> QED BY <1>1, <1>2

(* What a resume concludes: above the commit it compares with there are only   *)
(* merges, and that commit is sound, so above the audited commit there are     *)
(* only merges.                                                                *)
LEMMA SoundResume ==
  ASSUME NEW c \in Commits, NEW head \in Commits, NEW branch \in Commits,
         Sound(c, head), OnlyMerges(head, branch), Built(c, branch)
  PROVE  OnlyMerges(c, branch)
<1>1. /\ Len(c) \in Nat /\ Len(head) \in Nat /\ Len(branch) \in Nat
      /\ Len(head) <= Len(branch) /\ \A i \in 1..Len(head) : branch[i] = head[i]
      /\ \A i \in Len(head) + 1 .. Len(branch) : branch[i] \in {"merge", "resolved"}
  BY CoversPointwise, CommitFacts DEF OnlyMerges
<1>2. CASE Built(c, head)
  <2>1. /\ Len(c) <= Len(head) /\ \A i \in 1..Len(c) : head[i] = c[i]
        /\ \A i \in Len(c) + 1 .. Len(head) : head[i] \in {"merge", "resolved"}
    BY <1>2, CoversPointwise DEF Sound, OnlyMerges
  <2>2. \A i \in 1..Len(c) : branch[i] = c[i]
    BY <1>1, <2>1
  <2>3. \A i \in Len(c) + 1 .. Len(branch) : branch[i] \in {"merge", "resolved"}
    <3> TAKE i \in Len(c) + 1 .. Len(branch)
    <3>1. CASE i <= Len(head)
      BY <1>1, <2>1, <3>1
    <3>2. CASE i > Len(head)
      BY <1>1, <3>2
    <3> QED BY <1>1, <3>1, <3>2
  <2> QED BY <1>1, <2>1, <2>2, <2>3, CoversPointwise DEF OnlyMerges
<1>3. CASE ~Built(c, head)
  <2>1. c # NoCommit /\ Len(c) > 0
    BY <1>3, CommitFacts DEF Built
  <2>2. /\ Len(c) <= Len(branch)
        /\ \A i \in 1..Len(c) - 1 : branch[i] = c[i]
        /\ branch[Len(c)] \in {c[Len(c)], "stray"}
    BY <2>1 DEF Built
  <2>3. Len(c) > Len(head)
    <3> SUFFICES ASSUME Len(c) <= Len(head)
                 PROVE  FALSE
      BY <1>1
    <3>1. Built(c, head)
      BY <1>1, <2>1, <2>2 DEF Built
    <3> QED BY <3>1, <1>3
  <2>4. branch[Len(c)] = c[Len(c)]
    BY <1>1, <2>1, <2>2, <2>3
  <2>5. \A i \in 1..Len(c) : branch[i] = c[i]
    BY <1>1, <2>2, <2>4
  <2>6. \A i \in Len(c) + 1 .. Len(branch) : branch[i] \in {"merge", "resolved"}
    BY <1>1, <2>3
  <2> QED BY <2>2, <2>5, <2>6, CoversPointwise DEF OnlyMerges
<1> QED BY <1>2, <1>3

(* Heads that are sound for a commit: those that add only merges to it, those  *)
(* below it, and none at all.                                                  *)
LEMMA SoundFacts ==
  ASSUME NEW c \in Commits, NEW head \in Commits
  PROVE  /\ OnlyMerges(c, head) => Sound(c, head)
         /\ Sound(c, NoCommit)
         /\ IsPrefix(head, c) => Sound(c, head)
<1>1. OnlyMerges(c, head) => Sound(c, head)
  BY DEF Sound
<1>2. Sound(c, NoCommit)
  <2>1. CASE c = NoCommit
    BY <2>1, ItsOwn, Values DEF Sound
  <2>2. CASE c # NoCommit
    BY <2>2, CommitFacts DEF Sound, Built
  <2> QED BY <2>1, <2>2
<1>3. ASSUME IsPrefix(head, c), Built(c, head)
      PROVE  OnlyMerges(c, head)
  <2>1. /\ Len(head) <= Len(c) /\ \A i \in 1..Len(head) : head[i] = c[i]
        /\ Len(head) \in Nat /\ Len(c) \in Nat
    BY <1>3, PrefixPointwise, CommitFacts
  <2>2. Len(c) <= Len(head)
    BY <1>3, <2>1, CommitFacts DEF Built
  <2> QED BY <2>1, <2>2, CoversPointwise DEF OnlyMerges
<1> QED BY <1>1, <1>2, <1>3 DEF Sound

-----------------------------------------------------------------------------
(* Each step keeps the types.                                                  *)

LEMMA RoleTyped ==
  ASSUME Typed, Placed, RoleSteps
  PROVE  Typed'
<1>1. CASE EnsureStoryBranch
  <2>1. git' \in Gits
    BY <1>1, Values, AppendType DEF EnsureStoryBranch, Typed, Gits, Kinds
  <2>2. story' \in Stories \cup {NoStory}
    BY <1>1, Values DEF EnsureStoryBranch, Typed
  <2>3. responses' \in Sayings
    BY <1>1, Values DEF EnsureStoryBranch, Typed
  <2> QED
    BY <1>1, <2>1, <2>2, <2>3 DEF EnsureStoryBranch, Typed
<1>2. CASE ImplementerClaims
  <2> DEFINE s == IF story = NoStory THEN FreshStory ELSE story
  <2>1. PICK said \in Writings([f \in Findings |-> s.open[f].num], Open(s),
                              {"fixed", "deferred"}) :
           handoff' = [kind |-> "claim", scope |-> NoCommit, said |-> said]
    BY <1>2 DEF ImplementerClaims
  <2>2. said \in Sayings
    BY <2>1, WritingsType DEF Open
  <2>3. handoff' \in Handoffs
    BY <2>1, <2>2, Values DEF Handoffs
  <2>4. git' \in Gits
    BY <1>2, CommitType DEF ImplementerClaims, Kinds, Typed
  <2> QED BY <1>2, <2>3, <2>4 DEF ImplementerClaims, Typed
<1>3. CASE ImplementerBlocks
  <2>1. PICK said \in Writings([f \in Findings |-> story.open[f].num], Open(story),
                              {"deferred"}) :
           handoff' = [kind |-> "blocked", scope |-> NoCommit, said |-> said]
    BY <1>3 DEF ImplementerBlocks
  <2>2. said \in Sayings
    BY <2>1, WritingsType DEF Open
  <2>3. handoff' \in Handoffs
    BY <2>1, <2>2, Values DEF Handoffs
  <2> QED BY <1>3, <2>3 DEF ImplementerBlocks, world, Typed
<1>4. CASE DeferBlockedHandback
  <2>1. CASE Goto("up")
    BY <2>1, StayType DEF Typed
  <2>2. CASE PauseKept(story)
    BY <2>2, KeptType, Values DEF Typed
  <2>3. CASE responses' = Merged(handoff.said) /\ pc' = "answer"
    <3> DEFINE t == {f \in Open(story) : story.open[f].st # "resolved"}
               seen == {f \in Findings : hub.threads[f] = "resolved"}
    <3>1. /\ run' = [Idle EXCEPT !.task = "deferral", !.todo = t, !.seen = seen]
          /\ UNCHANGED <<conf, world, story, handoff, hist>>
      BY <1>4, <2>3 DEF DeferBlockedHandback, Goto, PauseKept, Ends
    <3>2. t \in SUBSET Findings /\ seen \in SUBSET Findings
      BY DEF Open
    <3> HIDE DEF t, seen
    <3>3. run' \in Runs
      BY <3>1, <3>2 DEF Runs, Idle
    <3>4. responses' \in Sayings
      BY <2>3, MergedType DEF Typed, Handoffs
    <3> QED BY <3>1, <3>3, <3>4 DEF Typed, world
  <2> QED BY <1>4, <2>1, <2>2, <2>3 DEF DeferBlockedHandback
<1>5. CASE Audit
  <2> DEFINE head == IF git.at = "story" THEN git.branch ELSE git.loose
             audited == IF git.at = "story" \/ git.loose # NoCommit THEN head
                        ELSE hist.audited
  <2>1. head \in Commits /\ audited \in Commits
    BY DEF Typed, Gits, Hists
  <2>2. \/ handoff' = [kind |-> "pass", scope |-> head, said |-> Silence]
           /\ hist' = [hist EXCEPT !.audited = audited] /\ run' = Idle
        \/ handoff' = [kind |-> "work", scope |-> NoCommit, said |-> Silence]
           /\ UNCHANGED <<run, hist>>
    BY <1>5 DEF Audit
  <2> HIDE DEF head, audited
  <2>3. handoff' \in Handoffs
    BY <2>1, <2>2, Values DEF Handoffs
  <2>4. hist' \in Hists(hist'.crossed)
    BY <2>1, <2>2 DEF Hists, Typed
  <2>5. run' \in Runs
    BY <2>2, Values DEF Typed
  <2>6. responses' \in Sayings
    BY <1>5, MergedType DEF Audit, Typed, Handoffs
  <2> QED BY <1>5, <2>3, <2>4, <2>5, <2>6 DEF Audit, world, Typed
<1>6. CASE PlannerRuns
  <2>1. PICK kind \in {"work", "next", "user"} :
          \E said \in IF story = NoStory THEN {Silence}
                     ELSE Writings([f \in Findings |-> NumberOf(story, f)],
                                   UnresolvedFindings(story), {"follow"}) :
            handoff' = [kind |-> kind, scope |-> NoCommit, said |-> said]
    BY <1>6 DEF PlannerRuns
  <2>2. PICK said \in IF story = NoStory THEN {Silence}
                     ELSE Writings([f \in Findings |-> NumberOf(story, f)],
                                   UnresolvedFindings(story), {"follow"}) :
            handoff' = [kind |-> kind, scope |-> NoCommit, said |-> said]
    BY <2>1
  <2>3. UnresolvedFindings(story) \in SUBSET Findings
    BY DEF UnresolvedFindings, Open, Deferred
  <2>4. said \in Sayings
    BY <2>2, <2>3, WritingsType, Values
  <2>5. handoff' \in Handoffs
    BY <2>2, <2>4, Values DEF Handoffs
  <2> QED BY <1>6, <2>5 DEF PlannerRuns, world, Typed
<1> QED
  BY <1>1, <1>2, <1>3, <1>4, <1>5, <1>6 DEF RoleSteps

LEMMA PublishTyped ==
  ASSUME Typed, Placed, PublishSteps
  PROVE  Typed'
<1>1. CASE AdoptBaseBranchStory
  <2>1. git' \in Gits
    BY <1>1, Values, AppendType DEF AdoptBaseBranchStory, Typed, Gits, Kinds
  <2>2. story' \in Stories \cup {NoStory}
    BY <1>1, Values DEF AdoptBaseBranchStory, Typed
  <2>3. responses' \in Sayings
    BY <1>1, Values DEF AdoptBaseBranchStory, Typed
  <2> QED
    BY <1>1, <2>1, <2>2, <2>3 DEF AdoptBaseBranchStory, Typed
<1>2. CASE EpicCloseMerged
  BY <1>2 DEF EpicCloseMerged, Goto, world, disk, Typed
<1>3. CASE PublishRefused
  <2>1. run' \in Runs
    BY <1>3, Values DEF PublishRefused, Ends, Typed, Runs
  <2> QED
    BY <1>3, <2>1 DEF PublishRefused, Ends, world, disk, Typed
<1>4. CASE PublishBegins
  <2>1. CASE Goto("up")
    BY <2>1, StayType DEF Typed
  <2>2. CASE CheckedOut /\ UNCHANGED <<conf, world, responses, handoff, hist, left>>
    <3>1. story \in Stories
      BY <2>2 DEF CheckedOut, Typed
    <3>2. \/ UNCHANGED <<story, run>>
          \/ /\ run' = [run EXCEPT !.resumed = story.paused = "merge"]
             /\ story' = [story EXCEPT !.paused = "none", !.pausedAt = NoCommit]
      BY <1>4 DEF PublishBegins, Goto, disk
    <3>3. run' \in Runs
      BY <3>2 DEF Typed, Runs
    <3>4. story' \in Stories
      BY <3>1, <3>2, Values DEF Stories
    <3> QED BY <2>2, <3>3, <3>4 DEF Typed, world
  <2> QED BY <1>4, <2>1, <2>2 DEF PublishBegins
<1>5. CASE SetAsidePause
  <2>1. story \in Stories
    BY <1>5, SavedHere DEF SetAsidePause, OnPullRequest, Syncing, Reading, Finishing
  <2>2. PauseKept(Paused)
    BY <1>5 DEF SetAsidePause
  <2> QED BY <2>1, <2>2, PausedType, KeptType, Values DEF Typed
<1>6. CASE SyncNothing
  BY <1>6 DEF SyncNothing, Goto, world, disk, Typed
<1>7. CASE SyncClean
  <2>1. git' \in Gits
    BY <1>7, CommitType DEF SyncClean, Kinds, Typed
  <2> QED BY <1>7, <2>1 DEF SyncClean, disk, Typed
<1>8. CASE SyncConflict
  <2>1. story \in Stories
    BY <1>8, SavedHere DEF SyncConflict, OnPullRequest, Syncing, Reading, Finishing
  <2>2. PauseKept(Paused)
    BY <1>8 DEF SyncConflict
  <2> QED BY <2>1, <2>2, PausedType, KeptType, Values DEF Typed
<1>9. CASE SyncStateConflict
  <2>1. git' \in Gits
    BY <1>9, Values, AppendType DEF SyncStateConflict, Typed, Gits, Kinds
  <2> QED
    BY <1>9, <2>1 DEF SyncStateConflict, disk, Typed
<1>10. CASE StateConflictResolved
  <2>1. git' \in Gits
    BY <1>10, Values, AppendType DEF StateConflictResolved, Typed, Gits, Kinds
  <2>2. base' \in {"none", "clean", "state", "conflict"}
    BY <1>10, Values DEF StateConflictResolved, Typed
  <2>3. run' \in Runs
    BY <1>10, Values DEF StateConflictResolved, Typed, Runs
  <2> QED
    BY <1>10, <2>1, <2>2, <2>3 DEF StateConflictResolved, disk, Typed
<1>11. CASE StateConflictUnresolved
  <2>1. story \in Stories
    BY <1>11, SavedHere DEF StateConflictUnresolved, OnPullRequest, Syncing,
       Reading, Finishing
  <2>2. git' \in Gits
    BY <1>11 DEF StateConflictUnresolved, Typed, Gits
  <2> QED
    BY <1>11, <2>1, <2>2, PausedType, Values DEF StateConflictUnresolved, Ends,
       Typed
<1>12. CASE DropEmptyStoryBranch
  <2>1. git' \in Gits
    BY <1>12, Values, AppendType DEF DropEmptyStoryBranch, Typed, Gits, Kinds
  <2>2. story' \in Stories \cup {NoStory}
    BY <1>12, Values DEF DropEmptyStoryBranch, Typed
  <2>3. responses' \in Sayings
    BY <1>12, Values DEF DropEmptyStoryBranch, Typed
  <2>4. run' \in Runs
    BY <1>12, Values DEF DropEmptyStoryBranch, Typed, Runs
  <2> QED
    BY <1>12, <2>1, <2>2, <2>3, <2>4 DEF DropEmptyStoryBranch, Typed
<1>13. CASE Push
  <2>1. hub' \in {hub, [hub EXCEPT !.head = git.branch, !.verdict = "none", !.found = {}]}
    BY <1>13 DEF Push
  <2>2. hub' \in Hubs
    BY <2>1 DEF Typed, Hubs, Gits
  <2>3. hist' \in Hists(hist'.crossed)
    BY <1>13 DEF Push, Typed, Hists
  <2> QED BY <1>13, <2>2, <2>3 DEF Push, disk, Typed
<1>14. CASE PushRejected
  <2>1. run' \in Runs
    BY <1>14, Values DEF PushRejected, Ends, Typed, Runs
  <2> QED
    BY <1>14, <2>1 DEF PushRejected, Ends, world, disk, Typed
<1>15. CASE OpenPullRequest
  <2> DEFINE due == {f \in Open(story) : story.open[f].st # "resolved"}
             seen == {f \in Findings : hub.threads[f] = "resolved"}
             none == [x \in Threads |-> "none"]
  <2>1. /\ hub' \in {hub, [hub EXCEPT !.state = "open", !.threads = none]}
        /\ \/ run' = Idle /\ story' = NoStory /\ responses' = Silence
              /\ hist' = [hist EXCEPT !.told = TRUE]
           \/ run' = [run EXCEPT !.todo = due, !.seen = seen]
              /\ UNCHANGED <<story, responses, hist>>
        /\ UNCHANGED <<conf, git, base, handoff>>
    BY <1>15 DEF OpenPullRequest, Ends
  <2>2. due \in SUBSET Findings /\ seen \in SUBSET Findings
    BY DEF Open
  <2>3. none \in [Threads -> {"none", "open", "resolved"}]
    OBVIOUS
  <2> HIDE DEF due, seen, none
  <2>4. hub' \in Hubs
    BY <2>1, <2>3 DEF Typed, Hubs
  <2>5. run' \in Runs
    BY <2>1, <2>2, Values DEF Typed, Runs
  <2>6. hist' \in Hists(hist'.crossed)
    BY <2>1 DEF Typed, Hists
  <2> QED BY <2>1, <2>4, <2>5, <2>6, Values DEF Typed
<1> QED
  BY <1>1, <1>2, <1>3, <1>4, <1>5, <1>6, <1>7, <1>8, <1>9, <1>10, <1>11, <1>12,
     <1>13, <1>14, <1>15 DEF PublishSteps

LEMMA AnswerTyped ==
  ASSUME Typed, Placed, AnswerSteps
  PROVE  Typed'
<1>1. CASE AnswerResolvedThread
  <2>1. PICK f \in run.seen : Turn(f) /\ Mark(f, "resolved") /\ Handled(f)
    BY <1>1 DEF AnswerResolvedThread
  <2>2. f \in Findings /\ story \in Stories
    BY <1>1, <2>1, SavedHere DEF AnswerResolvedThread, Settling, Typed, Runs,
       OnPullRequest, Syncing, Reading, Finishing
  <2>3. story' \in Stories
    BY <2>1, <2>2, MarkType DEF Mark
  <2>4. run' \in Runs
    BY <2>1 DEF Handled, Typed, Runs
  <2> QED BY <1>1, <2>3, <2>4 DEF AnswerResolvedThread, Settling, world, Typed
<1>2. CASE AnswerMissing
  <2>1. PICK f \in run.todo : PutOff(f)
    BY <1>2 DEF AnswerMissing
  <2>2. f \in Findings
    BY <2>1 DEF Typed, Runs
  <2>3. run' \in Runs
    BY <2>1, <2>2 DEF PutOff, Typed, Runs
  <2> QED BY <1>2, <2>3 DEF AnswerMissing, Settling, world, disk, Typed
<1>3. CASE AnswerReply
  <2>1. PICK f \in run.todo \ run.seen :
           /\ PostReply(f, AnswerTo(f))
           /\ Mark(f, IF AnswerTo(f).kind = "deferred" THEN "postponed" ELSE "replied")
    BY <1>3 DEF AnswerReply
  <2>2. f \in Findings /\ story \in Stories
    BY <1>3, <2>1, SavedHere DEF AnswerReply, Typed, Runs, OnPullRequest,
       Syncing, Reading, Finishing
  <2>3. PICK st \in {"postponed", "replied"} : Mark(f, st)
    BY <2>1
  <2>4. story' \in Stories
    BY <2>2, <2>3, MarkType DEF Mark
  <2>5. hub' \in Hubs /\ hist' \in Hists(hist'.crossed)
    BY <2>1, <2>2, PostType DEF Typed
  <2> QED BY <1>3, <2>4, <2>5 DEF AnswerReply, Typed
<1>4. CASE AnswerDeferred
  <2>1. PICK f \in run.todo : PutOff(f)
    BY <1>4 DEF AnswerDeferred
  <2>2. f \in Findings
    BY <2>1 DEF Typed, Runs
  <2>3. run' \in Runs
    BY <2>1, <2>2 DEF PutOff, Typed, Runs
  <2> QED BY <1>4, <2>3 DEF AnswerDeferred, Settling, world, disk, Typed
<1>5. CASE AnswerResolve
  <2>1. PICK f \in run.todo \ run.seen :
           /\ UNCHANGED <<hub, story>> \/ (Resolve(f) /\ Mark(f, "resolved"))
           /\ Handled(f)
    BY <1>5 DEF AnswerResolve
  <2>2. f \in Findings /\ story \in Stories
    BY <1>5, <2>1, SavedHere DEF AnswerResolve, Typed, Runs, OnPullRequest,
       Syncing, Reading, Finishing
  <2>3. story' \in Stories
    BY <2>1, <2>2, MarkType DEF Mark
  <2>4. hub' \in Hubs
    BY <2>1, <2>2 DEF Resolve, Typed, Hubs, Threads
  <2>5. run' \in Runs
    BY <2>1 DEF Handled, Typed, Runs
  <2> QED BY <1>5, <2>3, <2>4, <2>5 DEF AnswerResolve, Typed
<1>6. CASE AnswersDone
  <2>1. story \in Stories /\ story' \in Stories
    BY <1>6, AnswersDoneType, SavedHere DEF AnswersDone, OnPullRequest, Typed
  <2>2. run' \in Runs
    BY <1>6 DEF AnswersDone, Typed, Runs
  <2> QED BY <1>6, <2>1, <2>2, Values DEF AnswersDone, world, Typed
<1> QED
  BY <1>1, <1>2, <1>3, <1>4, <1>5, <1>6 DEF AnswerSteps

LEMMA ReviewTyped ==
  ASSUME Typed, Placed, ReviewSteps
  PROVE  Typed'
<1>1. CASE RoundsUsedUp
  BY <1>1 DEF RoundsUsedUp, Goto, world, disk, Typed
<1>2. CASE ReviewClean
  <2>1. story \in Stories
    BY <1>2, SavedHere DEF ReviewClean, Reviewing, OnPullRequest, Syncing,
       Reading, Finishing
  <2>2. story' \in Stories
    BY <1>2, <2>1 DEF ReviewClean, Typed, Gits, Stories
  <2> QED BY <1>2, <2>2 DEF ReviewClean, world, Typed
<1>3. CASE ReviewFindings
  <2>1. story \in Stories
    BY <1>3, SavedHere DEF ReviewFindings, Reviewing, OnPullRequest, Reading
  <2>2. story' \in Stories /\ hub' \in Hubs
    BY <1>3, <2>1, ReviewFindingsType DEF Typed
  <2> QED BY <1>3, <2>2, Values DEF ReviewFindings, Typed
<1>4. CASE WriteBounceHandoff
  <2>1. handoff' \in Handoffs
    BY <1>4, Values DEF WriteBounceHandoff, Typed, Handoffs
  <2>2. run' \in Runs
    BY <1>4, Values DEF WriteBounceHandoff, Typed, Runs
  <2> QED
    BY <1>4, <2>1, <2>2 DEF WriteBounceHandoff, world, Typed
<1>5. CASE RequestAgain
  <2>1. story \in Stories
    BY <1>5, SavedHere DEF RequestAgain, Reviewing, OnPullRequest, Syncing,
       Reading, Finishing
  <2>2. story' \in {story, [story EXCEPT !.retry = git.branch]}
        /\ hub' \in {hub, [hub EXCEPT !.verdict = "none"]}
        /\ hist' \in {hist, [hist EXCEPT !.asked = @ + 1]}
    BY <1>5 DEF RequestAgain, RequestReview
  <2>3. story' \in Stories
    BY <2>1, <2>2 DEF Typed, Gits, Stories
  <2>4. hub' \in Hubs
    BY <2>2 DEF Typed, Hubs
  <2>5. hist' \in Hists(hist'.crossed)
    BY <2>2 DEF Typed, Hists
  <2> QED BY <1>5, <2>3, <2>4, <2>5 DEF RequestAgain, Typed
<1>6. CASE RetryUnfinished
  <2>1. run' \in {run, [run EXCEPT !.stalled = TRUE]}
        /\ hist' \in {hist, [hist EXCEPT !.waived = git.branch]}
    BY <1>6 DEF RetryUnfinished, Waived
  <2>2. run' \in Runs
    BY <2>1 DEF Typed, Runs
  <2>3. hist' \in Hists(hist'.crossed)
    BY <2>1 DEF Typed, Hists, Gits
  <2> QED BY <1>6, <2>2, <2>3 DEF RetryUnfinished, world, disk, Typed
<1>7. CASE ReviewLimited
  BY <1>7 DEF ReviewLimited, Goto, world, disk, Typed
<1>8. CASE PromptMerge
  <2>1. hist' \in Hists(hist'.crossed)
    BY <1>8 DEF PromptMerge, Waived, Typed, Hists, Gits
  <2> QED BY <1>8, <2>1 DEF PromptMerge, world, disk, Typed
<1>9. CASE PromptRetry
  <2>1. story \in Stories
    BY <1>9, SavedHere DEF PromptRetry, OnPullRequest, Syncing, Reading, Finishing
  <2>2. story' \in Stories
    BY <1>9, <2>1 DEF PromptRetry, RequestReview, Typed, Gits, Stories
  <2>3. hub' \in Hubs
    BY <1>9 DEF PromptRetry, RequestReview, Typed, Hubs
  <2> QED BY <1>9, <2>2, <2>3 DEF PromptRetry, Typed
<1>10. CASE PromptQuits
  BY <1>10, PersonType, Values DEF PromptQuits, Typed
<1> QED
  BY <1>1, <1>2, <1>3, <1>4, <1>5, <1>6, <1>7, <1>8, <1>9, <1>10
     DEF ReviewSteps

LEMMA MergeTyped ==
  ASSUME Typed, Placed, MergeSteps
  PROVE  Typed'
<1>1. CASE ThreadsResolved
  BY <1>1 DEF ThreadsResolved, Goto, world, disk, Typed
<1>2. CASE ThreadsDeferred
  <2>1. RouteDeferredToPlanner(UnresolvedThreads) /\ story \in Stories
    BY <1>2, SavedHere DEF ThreadsDeferred, OnPullRequest, Syncing, Reading,
       Finishing
  <2>2. UnresolvedThreads \in SUBSET Findings
    BY <1>2 DEF ThreadsDeferred, DeferredOnly, Deferred
  <2>3. story' = Armed(UnresolvedThreads) /\ run' = Idle /\ hub' \in Hubs
        /\ hist' \in Hists(hist'.crossed) /\ UNCHANGED <<conf, git, base, responses, handoff>>
    BY <2>1, <2>2, RouteType DEF Typed
  <2>4. story' \in Stories
    BY <2>1, <2>2, <2>3, ArmedType
  <2> QED BY <2>3, <2>4, Values DEF Typed
<1>3. CASE ThreadsUnresolved
  BY <1>3, PersonType, Values DEF ThreadsUnresolved, Typed
<1>4. CASE ThreadsUnread
  <2>1. run' \in Runs
    BY <1>4, Values DEF ThreadsUnread, Ends, Typed, Runs
  <2> QED
    BY <1>4, <2>1 DEF ThreadsUnread, Ends, world, disk, Typed
<1>5. CASE RouteBlockedHandback
  <2>1. story \in Stories
    BY <1>5, SavedHere DEF RouteBlockedHandback, OnPullRequest, Syncing,
       Reading, Finishing
  <2>2. CASE PauseKept(story)
    BY <2>2, KeptType, Values DEF Typed
  <2>3. CASE RouteDeferredToPlanner(Deferred(story))
    <3>1. Deferred(story) \in SUBSET Findings
      BY DEF Deferred
    <3>2. story' = Armed(Deferred(story)) /\ run' = Idle /\ hub' \in Hubs
          /\ hist' \in Hists(hist'.crossed)
          /\ UNCHANGED <<conf, git, base, responses, handoff>>
      BY <2>1, <2>3, <3>1, RouteType DEF Typed
    <3>3. story' \in Stories
      BY <2>1, <3>1, <3>2, ArmedType
    <3> QED BY <3>2, <3>3, Values DEF Typed
  <2> QED BY <1>5, <2>2, <2>3 DEF RouteBlockedHandback
<1>6. CASE WriteDeferredHandoff
  <2>1. handoff' \in Handoffs
    BY <1>6, Values DEF WriteDeferredHandoff, Typed, Handoffs
  <2> QED
    BY <1>6, <2>1 DEF WriteDeferredHandoff, world, Typed
<1>7. CASE MergeAccepted
  <2>1. hub' \in Hubs
    BY <1>7, Values DEF MergeAccepted, Typed, Hubs
  <2> QED
    BY <1>7, <2>1 DEF MergeAccepted, disk, Typed
<1>8. CASE NotMergeable
  <2>1. run' \in Runs
    BY <1>8, Values DEF NotMergeable, Typed, Runs
  <2> QED
    BY <1>8, <2>1 DEF NotMergeable, world, disk, Typed
<1>9. CASE MergeFailsAgain
  <2>1. story \in Stories
    BY <1>9, SavedHere DEF MergeFailsAgain, OnPullRequest, Syncing, Reading,
       Finishing
  <2> QED BY <1>9, <2>1, PausedType, Values DEF MergeFailsAgain, Ends, world, Typed
<1>10. CASE MergeRefused
  <2>1. run' \in Runs
    BY <1>10, Values DEF MergeRefused, Ends, Typed, Runs
  <2> QED
    BY <1>10, <2>1 DEF MergeRefused, Ends, world, disk, Typed
<1>11. CASE Land
  <2>1. git' \in Gits
    BY <1>11 DEF Land, Typed, Gits
  <2> DEFINE d == hist.dropped \/ ~IsPrefix(git.branch, hub.head)
  <2>2. hist' = [hist EXCEPT !.dropped = d] /\ d \in BOOLEAN
    BY <1>11 DEF Land
  <2> HIDE DEF d
  <2>3. hist' \in Hists(hist'.crossed)
    BY <2>2 DEF Typed, Hists
  <2> QED BY <1>11, <2>1, <2>3, Values DEF Land, Typed
<1> QED
  BY <1>1, <1>2, <1>3, <1>4, <1>5, <1>6, <1>7, <1>8, <1>9, <1>10, <1>11
     DEF MergeSteps

LEMMA SettleTyped ==
  ASSUME Typed, Placed, SettleSteps
  PROVE  Typed'
<1>1. CASE SettleUnarmed
  <2>1. story \in Stories
    BY <1>1 DEF SettleUnarmed, DecisionsUnarmed, Typed
  <2>2. CASE PauseKept(story)
    BY <2>2, KeptType, Values DEF Typed
  <2>3. CASE ~PauseKept(story)
    <3>1. story' \in Stories /\ hub' \in Hubs /\ hist' \in Hists(hist'.crossed)
          /\ UNCHANGED <<conf, git, base, responses, handoff, run>>
      BY <1>1, <2>1, <2>3, SettleUnarmedType DEF Typed
    <3> QED BY <3>1, Values DEF Typed
  <2> QED BY <2>2, <2>3
<1>2. CASE SettleNothing
  BY <1>2 DEF SettleNothing, Goto, world, disk, Typed
<1>3. CASE SettleBegins
  <2>1. CASE PauseForPerson
    BY <2>1, PersonType, Values DEF Typed
  <2>2. CASE ~PauseForPerson
    <3> DEFINE seen == {f \in Findings : hub.threads[f] = "resolved"
                                         \/ story.open[f].st = "resolved"}
    <3>1. /\ run' = [Idle EXCEPT !.task = "settle", !.todo = Open(story), !.seen = seen]
          /\ UNCHANGED <<conf, world, disk, hist>>
      BY <1>3, <2>2 DEF SettleBegins
    <3>2. Open(story) \in SUBSET Findings /\ seen \in SUBSET Findings
      BY DEF Open
    <3> HIDE DEF seen
    <3>3. run' \in Runs
      BY <3>1, <3>2 DEF Runs, Idle
    <3> QED BY <3>1, <3>3 DEF Typed, world, disk
  <2> QED BY <2>1, <2>2
<1>4. CASE SettleResolvedThread
  <2>1. PICK f \in run.seen : Turn(f) /\ Mark(f, "resolved") /\ Handled(f)
    BY <1>4 DEF SettleResolvedThread
  <2>2. f \in Findings /\ story \in Stories
    BY <1>4, <2>1, SavedHere DEF SettleResolvedThread, Settling, Typed, Runs,
       OnPullRequest, Syncing, Reading, Finishing
  <2>3. story' \in Stories
    BY <2>1, <2>2, MarkType DEF Mark
  <2>4. run' \in Runs
    BY <2>1 DEF Handled, Typed, Runs
  <2> QED BY <1>4, <2>3, <2>4 DEF SettleResolvedThread, Settling, world, Typed
<1>5. CASE SettleRemains
  <2>1. PICK f \in run.todo : PutOff(f)
    BY <1>5 DEF SettleRemains
  <2>2. f \in Findings
    BY <2>1 DEF Typed, Runs
  <2>3. run' \in Runs
    BY <2>1, <2>2 DEF PutOff, Typed, Runs
  <2> QED BY <1>5, <2>3 DEF SettleRemains, Settling, world, disk, Typed
<1>6. CASE SettleReply
  <2>1. PICK f \in run.todo \ run.seen :
           PostReply(f, Decision(f)) /\ Mark(f, "replied")
    BY <1>6 DEF SettleReply
  <2>2. f \in Findings /\ story \in Stories
    BY <1>6, <2>1, SavedHere DEF SettleReply, Settling, Typed, Runs,
       OnPullRequest, Syncing, Reading, Finishing
  <2>3. story' \in Stories
    BY <2>1, <2>2, MarkType DEF Mark
  <2>4. hub' \in Hubs /\ hist' \in Hists(hist'.crossed)
    BY <2>1, <2>2, PostType DEF Typed
  <2> QED BY <1>6, <2>3, <2>4 DEF SettleReply, Settling, Typed
<1>7. CASE SettleResolve
  <2>1. PICK f \in run.todo \ run.seen :
           Resolve(f) /\ Mark(f, "resolved") /\ Handled(f)
    BY <1>7 DEF SettleResolve
  <2>2. f \in Findings /\ story \in Stories
    BY <1>7, <2>1, SavedHere DEF SettleResolve, Settling, Typed, Runs,
       OnPullRequest, Syncing, Reading, Finishing
  <2>3. story' \in Stories
    BY <2>1, <2>2, MarkType DEF Mark
  <2>4. hub' \in Hubs
    BY <2>1, <2>2 DEF Resolve, Typed, Hubs, Threads
  <2>5. run' \in Runs
    BY <2>1 DEF Handled, Typed, Runs
  <2> QED BY <1>7, <2>3, <2>4, <2>5 DEF SettleResolve, Settling, Typed
<1>8. CASE SettleEnds
  <2>1. story \in Stories
    BY <1>8, SavedHere DEF SettleEnds, Settling, OnPullRequest, Syncing,
       Reading, Finishing
  <2>2. CASE PauseForPerson
    BY <2>2, PersonType, Values DEF Typed
  <2>3. CASE ~PauseForPerson
    <3>1. /\ story' \in Stories
          /\ run' \in {Idle, [run EXCEPT !.seen = {}]}
          /\ UNCHANGED <<conf, git, base, hub, responses, handoff, hist>>
      BY <1>8, <2>1, <2>3, SettleEndsType
    <3>2. run' \in Runs
      BY <3>1, Values DEF Typed, Runs
    <3> QED BY <3>1, <3>2 DEF Typed
  <2> QED BY <2>2, <2>3
<1> QED
  BY <1>1, <1>2, <1>3, <1>4, <1>5, <1>6, <1>7, <1>8 DEF SettleSteps

LEMMA LoopTopTyped ==
  ASSUME Typed, Placed, LoopTop
  PROVE  Typed'
<1>1. CASE OrphanMerged
  BY <1>1, CleanUpType, Values DEF OrphanMerged, Typed
<1>2. CASE OrphanToPlanner
  <2>1. RouteDeferredToPlanner(UnresolvedThreads) /\ story \in Stories
    BY <1>2, SavedHere DEF OrphanToPlanner, Orphaned, Typed
  <2>2. UnresolvedThreads \in SUBSET Findings
    BY <1>2 DEF OrphanToPlanner, OrphanRecoverable, StillUnresolved,
       UnresolvedFindings, Open, Deferred
  <2>3. story' = Armed(UnresolvedThreads) /\ run' = Idle /\ hub' \in Hubs
        /\ hist' \in Hists(hist'.crossed) /\ UNCHANGED <<conf, git, base, responses, handoff>>
    BY <2>1, <2>2, RouteType DEF Typed
  <2>4. story' \in Stories
    BY <2>1, <2>2, <2>3, ArmedType
  <2> QED BY <2>3, <2>4, Values DEF Typed
<1>3. CASE OrphanBlocked
  BY <1>3 DEF OrphanBlocked, Goto, world, disk, Typed
<1>4. CASE NextStory
  <2>1. CASE Ends /\ UNCHANGED <<conf, world, disk, hist, left>>
    BY <2>1, Values DEF Ends, world, disk, Typed
  <2>2. CASE \E place \in {"done", "paused"} : Goto(place)
    BY <2>2, StayType DEF Typed
  <2> QED BY <1>4, <2>1, <2>2 DEF NextStory
<1> QED
  BY <1>1, <1>2, <1>3, <1>4 DEF LoopTop

LEMMA MergeCommitTyped ==
  ASSUME Typed, Placed, MergeCommitSteps
  PROVE  Typed'
<1>1. CASE SwitchToBase
  <2>1. git' \in Gits
    BY <1>1, Values, AppendType DEF SwitchToBase, Typed, Gits, Kinds
  <2> QED
    BY <1>1, <2>1 DEF SwitchToBase, disk, Typed
<1>2. CASE MergeLocally
  <2>1. git' \in Gits
    BY <1>2 DEF MergeLocally, Typed, Gits
  <2>2. hub' \in {hub, [hub EXCEPT !.head = git.branch]} /\ run' \in {run, Idle}
    BY <1>2 DEF MergeLocally, Ends
  <2>3. hub' \in Hubs
    BY <2>2 DEF Typed, Hubs, Gits
  <2> QED BY <1>2, <2>1, <2>2, <2>3, Values DEF MergeLocally, disk, Typed
<1>3. CASE DeleteMergedBranch
  <2>1. git' \in Gits
    BY <1>3, Values, AppendType DEF DeleteMergedBranch, Typed, Gits, Kinds
  <2> QED
    BY <1>3, <2>1 DEF DeleteMergedBranch, disk, Typed
<1>4. CASE ClearState
  <2>1. story' \in Stories \cup {NoStory}
    BY <1>4, Values DEF ClearState, Typed
  <2>2. responses' \in Sayings
    BY <1>4, Values DEF ClearState, Typed
  <2>3. run' \in Runs
    BY <1>4, Values DEF ClearState, Typed, Runs
  <2> QED
    BY <1>4, <2>1, <2>2, <2>3 DEF ClearState, world, Typed
<1> QED
  BY <1>1, <1>2, <1>3, <1>4 DEF MergeCommitSteps

LEMMA StartTyped ==
  ASSUME Typed, Placed, StartSteps
  PROVE  Typed'
<1>1. CASE Start
  <2>1. git' \in {git, [git EXCEPT !.at = "base", !.cut = FALSE, !.landed = TRUE]}
    BY <1>1 DEF Start
  <2>2. git' \in Gits
    BY <2>1 DEF Typed, Gits
  <2> QED BY <1>1, <2>2 DEF Start, disk, Typed
<1>2. CASE PersonTakesOver
  BY <1>2 DEF PersonTakesOver, Goto, world, disk, Typed
<1>3. CASE ResumeReviewRetry
  BY <1>3 DEF ResumeReviewRetry, Goto, world, disk, Typed
<1>4. CASE ResumePaused
  <2>1. story \in Stories
    BY <1>4, SavedHere DEF ResumePaused, Resuming
  <2>2. CASE PauseKept(story)
    BY <2>2, KeptType, Values DEF Typed
  <2>3. CASE Goto("begin")
    BY <2>3, StayType DEF Typed
  <2>4. CASE story' = [story EXCEPT !.paused = "none"]
             /\ UNCHANGED <<conf, world, responses, handoff, run, hist, left>>
    <3>1. story' \in Stories
      BY <2>1, <2>4 DEF Stories
    <3> QED BY <2>4, <3>1 DEF world, Typed
  <2> QED BY <1>4, <2>2, <2>3, <2>4 DEF ResumePaused
<1>5. CASE NothingToResume
  BY <1>5 DEF NothingToResume, Goto, world, disk, Typed
<1>6. CASE InterruptedBlocked
  BY <1>6, KeptType, Values DEF InterruptedBlocked, Typed
<1>7. CASE InterruptedMerged
  BY <1>7, CleanUpType, Values DEF InterruptedMerged, Typed
<1>8. CASE InterruptedConfirm
  BY <1>8 DEF InterruptedConfirm, Goto, world, disk, Typed
<1>9. CASE ResumeMergeCommit
  <2>1. CASE PauseKept(story)
    BY <2>1, KeptType, Values DEF Typed
  <2>2. CASE \E place \in {"up", "begin", "delete", "clear"} : Goto(place)
    BY <2>2, StayType DEF Typed
  <2> QED BY <1>9, <2>1, <2>2 DEF ResumeMergeCommit
<1> QED
  BY <1>1, <1>2, <1>3, <1>4, <1>5, <1>6, <1>7, <1>8, <1>9 DEF StartSteps

LEMMA OthersTyped ==
  ASSUME Typed, Placed, Others
  PROVE  Typed'
<1>1. CASE RunEnds
  <2>1. run' \in Runs
    BY <1>1, Values DEF RunEnds, Ends, Bounded, Typed, Runs
  <2> QED
    BY <1>1, <2>1 DEF RunEnds, Ends, world, disk, Bounded, Typed
<1>2. CASE ReplyUnsaved
  <2>1. PICK f \in run.todo : /\ hub' = [hub EXCEPT !.replies[f] = @ + 1]
                             /\ hist' = [hist EXCEPT !.torn[f] = @ + 1]
    BY <1>2 DEF ReplyUnsaved
  <2>2. f \in Findings
    BY <2>1 DEF Typed, Runs
  <2>3. hub' \in Hubs
    BY <2>1, <2>2 DEF Typed, Hubs
  <2>4. hist' \in Hists(hist'.crossed)
    BY <2>1, <2>2 DEF Typed, Hists, Threads
  <2> QED BY <1>2, <2>3, <2>4, Values DEF ReplyUnsaved, Ends, disk, Typed
<1>3. CASE ReplyFails
  <2>1. run' \in Runs
    BY <1>3, Values DEF ReplyFails, Ends, Typed, Runs
  <2> QED
    BY <1>3, <2>1 DEF ReplyFails, Ends, world, disk, Typed
<1>4. CASE RequestUnsaved
  <2>1. hub' \in Hubs
    BY <1>4 DEF RequestUnsaved, Typed, Hubs
  <2> DEFINE torn == [hist.torn EXCEPT ![Person] = @ + 1]
             asked == hist.asked + 1
  <2>2. torn \in [Threads -> Nat] /\ asked \in Nat
    BY DEF Typed, Hists, Threads
  <2>3. hist' = [hist EXCEPT !.asked = asked, !.torn = torn]
    BY <1>4 DEF RequestUnsaved, Typed, Hists
  <2> HIDE DEF torn, asked
  <2>4. hist' \in Hists(hist'.crossed)
    BY <2>2, <2>3 DEF Typed, Hists
  <2> QED BY <1>4, <2>1, <2>4, Values DEF RequestUnsaved, Ends, disk, Typed
<1>5. CASE CodexReviews
  <2>1. hub' \in Hubs
    BY <1>5, CodexReviewsType DEF Typed
  <2> QED BY <1>5, <2>1 DEF CodexReviews, disk, Typed
<1>6. CASE BaseMoves
  <2>1. base' \in {"none", "clean", "state", "conflict"}
    BY <1>6, Values DEF BaseMoves, Bounded, Typed
  <2> QED
    BY <1>6, <2>1 DEF BaseMoves, disk, Bounded, Typed
<1>7. CASE OnGitHub
  <2>1. \/ \E t \in Threads, st \in {"open", "resolved"} :
              hub' = [hub EXCEPT !.threads[t] = st]
        \/ \E st \in {"merged", "closed"} : hub' = [hub EXCEPT !.state = st]
    BY <1>7 DEF OnGitHub, Threads
  <2>2. hub' \in Hubs
    BY <2>1 DEF Typed, Hubs
  <2> QED BY <1>7, <2>2 DEF OnGitHub, disk, Typed
<1>8. CASE AtCheckout
  <2>1. \/ Commit("stray")
        \/ git.branch # NoCommit /\ git' = [git EXCEPT !.branch = Append(Front(@), "stray")]
        \/ git' = [git EXCEPT !.dirty = TRUE]
        \/ git' = [git EXCEPT !.at = IF @ = "base" THEN "story" ELSE "base"]
    BY <1>8 DEF AtCheckout
  <2>2. ASSUME git.branch # NoCommit
        PROVE  Append(Front(git.branch), "stray") \in Commits
    BY <2>2, FrontType, AppendType DEF Typed, Gits, Kinds
  <2>3. git' \in Gits
    BY <2>1, <2>2, CommitType DEF Typed, Gits, Kinds
  <2> QED BY <1>8, <2>3 DEF AtCheckout, disk, Typed
<1>9. CASE PersonMergesBase
  <2>1. \E kind \in {"merge", "resolved", "edited"} : Commit(kind)
    BY <1>9 DEF PersonMergesBase
  <2>2. git' \in Gits
    BY <2>1, CommitType DEF Typed, Kinds
  <2> QED BY <1>9, <2>2 DEF PersonMergesBase, disk, Typed
<1>10. CASE Tidied
  <2>1. \/ git' = [git EXCEPT !.dirty = FALSE]
        \/ git' = [git EXCEPT !.merging = FALSE]
        \/ git.branch # NoCommit /\ git' = [git EXCEPT !.branch = Front(@)]
    BY <1>10 DEF Tidied
  <2>2. git' \in Gits
    BY <2>1, FrontType DEF Typed, Gits
  <2> QED BY <1>10, <2>2 DEF Tidied, disk, Typed
<1>11. CASE PersonRoutes
  <2>1. handoff' \in Handoffs
    BY <1>11, Values DEF PersonRoutes, Typed, Handoffs
  <2> QED
    BY <1>11, <2>1 DEF PersonRoutes, world, Typed
<1> QED
  BY <1>1, <1>2, <1>3, <1>4, <1>5, <1>6, <1>7, <1>8, <1>9, <1>10, <1>11
     DEF Others

LEMMA TypedStep ==
  ASSUME Typed, Placed, [Next]_vars
  PROVE  Typed'
<1>1. CASE UNCHANGED vars
  BY <1>1 DEF vars, Typed
<1>2. CASE StoryOver
  BY <1>2 DEF StoryOver, vars, Typed
<1> QED
  BY <1>1, <1>2, RoleTyped, PublishTyped, AnswerTyped, ReviewTyped, MergeTyped,
     SettleTyped, LoopTopTyped, MergeCommitTyped, StartTyped, OthersTyped
     DEF Next

-----------------------------------------------------------------------------
(* Each step keeps the places.                                                 *)

LEMMA RolePlaced ==
  ASSUME Typed, Placed, Checkout, RoleSteps
  PROVE  Placed'
<1>1. CASE EnsureStoryBranch
  BY <1>1, Values DEF EnsureStoryBranch, Typed, Placed, Publishing, Resting,
     Reading, Syncing, Finishing, OnPullRequest
<1>2. CASE ImplementerClaims
  BY <1>2, CommitType, Values DEF ImplementerClaims, Kinds, Typed, Placed,
     Publishing, Resting, Reading, Syncing, Finishing, OnPullRequest
<1>3. CASE ImplementerBlocks
  BY <1>3, Values DEF ImplementerBlocks, world, Typed, Placed, Publishing,
     Resting, Reading, Syncing, Finishing, OnPullRequest
<1>4. CASE DeferBlockedHandback
  <2>1. CASE Goto("up")
    BY <2>1, <1>4, StayType, Values DEF DeferBlockedHandback, Placed,
       Publishing, Resting, Reading, Syncing, Finishing, OnPullRequest
  <2>2. CASE PauseKept(story)
    BY <2>2, KeptType, Values DEF Placed, Publishing, Resting, Reading,
       Syncing, Finishing, OnPullRequest
  <2>3. CASE responses' = Merged(handoff.said) /\ pc' = "answer"
    <3>1. /\ run'.task = "deferral" /\ run'.again = FALSE /\ pc = "handback"
          /\ UNCHANGED <<conf, story, handoff>>
      BY <1>4, <2>3 DEF DeferBlockedHandback, Goto, PauseKept, Ends, Idle
    <3>2. conf.mode # "merge-commit"
      BY <1>4, <2>3 DEF DeferBlockedHandback, Goto, PauseKept, Ends, Checkout
    <3> QED
      BY <3>1, <3>2, <2>3 DEF Placed, Publishing, Resting, Reading, Syncing,
         Finishing, OnPullRequest
  <2> QED
    BY <1>4, <2>1, <2>2, <2>3 DEF DeferBlockedHandback
<1>5. CASE Audit
  BY <1>5, Values DEF Audit, world, Typed, Placed, Publishing, Resting,
     Reading, Syncing, Finishing, OnPullRequest
<1>6. CASE PlannerRuns
  BY <1>6, Values DEF PlannerRuns, world, Typed, Placed, Publishing, Resting,
     Reading, Syncing, Finishing, OnPullRequest
<1> QED
  BY <1>1, <1>2, <1>3, <1>4, <1>5, <1>6 DEF RoleSteps

LEMMA PublishPlaced ==
  ASSUME Typed, Placed, Checkout, PublishSteps
  PROVE  Placed'
<1>1. CASE AdoptBaseBranchStory
  <2>1. story' # NoStory
    BY <1>1, Values DEF AdoptBaseBranchStory
  <2>2. conf.mode = "pr" /\ handoff.kind = "pass"
    BY <1>1 DEF AdoptBaseBranchStory, Adoptable, AuditedStoryCommit
  <2> QED
    BY <1>1, <2>1, <2>2 DEF AdoptBaseBranchStory, Idle, Placed, Publishing,
       Resting, Reading, Syncing, Finishing, OnPullRequest
<1>2. CASE EpicCloseMerged
  BY <1>2, StayType, Values DEF EpicCloseMerged, world, disk, Typed, Placed,
     Publishing, Resting, Reading, Syncing, Finishing, OnPullRequest
<1>3. CASE PublishRefused
  BY <1>3, Values DEF PublishRefused, Ends, world, disk, Typed, Placed,
     Publishing, Resting, Reading, Syncing, Finishing, OnPullRequest
<1>4. CASE PublishBegins
  <2>1. CASE Goto("up")
    BY <2>1, <1>4, StayType DEF PublishBegins, Placed, Publishing, Resting,
       Reading, Syncing, Finishing, OnPullRequest
  <2>2. CASE AuditedStoryCommit /\ CheckedOut
    <3>1. story \in Stories /\ handoff.kind = "pass" /\ run = Idle /\ pc = "begin"
          /\ UNCHANGED <<conf, handoff>>
      BY <1>4, <2>2 DEF PublishBegins, CheckedOut, Typed, AuditedStoryCommit,
         Placed, Resting, Goto, disk
    <3>2. CASE conf.mode = "merge-commit"
      <4>1. pc' = "switch" /\ UNCHANGED <<story, run>>
        BY <1>4, <2>2, <3>2 DEF PublishBegins, Goto, AuditedStoryCommit, disk
      <4> QED
        BY <3>1, <3>2, <4>1, Values DEF Placed, Publishing, Resting, Reading,
           Syncing, Finishing, OnPullRequest
    <3>3. CASE conf.mode # "merge-commit"
      <4>1. /\ pc' = "sync"
            /\ run' = [run EXCEPT !.resumed = story.paused = "merge"]
            /\ story' = [story EXCEPT !.paused = "none", !.pausedAt = NoCommit]
        BY <1>4, <2>2, <3>3 DEF PublishBegins, Goto, AuditedStoryCommit, disk
      <4>2. story' # NoStory
        BY <3>1, <4>1 DEF Stories, NoStory
      <4>3. run'.task = "publish" /\ run'.again = FALSE
        BY <3>1, <4>1 DEF Idle
      <4> QED
        BY <3>1, <3>3, <4>1, <4>2, <4>3 DEF Placed, Publishing, Resting,
           Reading, Syncing, Finishing, OnPullRequest
    <3> QED
      BY <3>2, <3>3
  <2> QED
    BY <1>4, <2>1, <2>2 DEF PublishBegins
<1>5. CASE SetAsidePause
  BY <1>5, KeptType, Values DEF SetAsidePause, world, Paused, Step, Typed,
     Placed, Publishing, Resting, Reading, Syncing, Finishing, OnPullRequest
<1>6. CASE SyncNothing
  BY <1>6, StayType, Values DEF SyncNothing, world, disk, Typed, Placed,
     Publishing, Resting, Reading, Syncing, Finishing, OnPullRequest
<1>7. CASE SyncClean
  BY <1>7, CommitType, Values DEF SyncClean, disk, Kinds, Typed, Placed,
     Publishing, Resting, Reading, Syncing, Finishing, OnPullRequest
<1>8. CASE SyncConflict
  BY <1>8, KeptType, Values DEF SyncConflict, world, Paused, Step, Typed,
     Placed, Publishing, Resting, Reading, Syncing, Finishing, OnPullRequest
<1>9. CASE SyncStateConflict
  BY <1>9, Values DEF SyncStateConflict, disk, Typed, Placed, Publishing,
     Resting, Reading, Syncing, Finishing, OnPullRequest
<1>10. CASE StateConflictResolved
  BY <1>10, Values DEF StateConflictResolved, disk, Typed, Placed, Publishing,
     Resting, Reading, Syncing, Finishing, OnPullRequest
<1>11. CASE StateConflictUnresolved
  BY <1>11, Values DEF StateConflictUnresolved, Ends, Paused, Step, Typed,
     Placed, Publishing, Resting, Reading, Syncing, Finishing, OnPullRequest
<1>12. CASE DropEmptyStoryBranch
  BY <1>12, Values DEF DropEmptyStoryBranch, Typed, Placed, Publishing,
     Resting, Reading, Syncing, Finishing, OnPullRequest
<1>13. CASE Push
  BY <1>13, Values DEF Push, disk, Typed, Placed, Publishing, Resting, Reading,
     Syncing, Finishing, OnPullRequest
<1>14. CASE PushRejected
  BY <1>14, Values DEF PushRejected, Ends, world, disk, Typed, Placed,
     Publishing, Resting, Reading, Syncing, Finishing, OnPullRequest
<1>15. CASE OpenPullRequest
  <2>1. \/ pc' = "down" /\ run' = Idle
        \/ /\ pc' \in {"threads", "review", "answer"} /\ UNCHANGED story
           /\ run'.task = run.task /\ run'.again = run.again
    BY <1>15 DEF OpenPullRequest, Ends, Typed, Runs
  <2>2. pc = "open" /\ UNCHANGED <<conf, handoff>>
    BY <1>15 DEF OpenPullRequest
  <2> QED
    BY <2>1, <2>2 DEF Placed, Publishing, Resting, Reading, Syncing, Finishing,
       OnPullRequest
<1> QED
  BY <1>1, <1>2, <1>3, <1>4, <1>5, <1>6, <1>7, <1>8, <1>9, <1>10, <1>11, <1>12,
     <1>13, <1>14, <1>15 DEF PublishSteps

LEMMA AnswerPlaced ==
  ASSUME Typed, Placed, Checkout, AnswerSteps
  PROVE  Placed'
<1>1. CASE AnswerResolvedThread
  <2>1. story \in Stories
    BY <1>1, SavedHere DEF AnswerResolvedThread, OnPullRequest, Syncing,
       Reading, Finishing
  <2>2. story' # NoStory
    BY <1>1, <2>1 DEF AnswerResolvedThread, Mark, Stories, NoStory
  <2>3. run'.task = run.task /\ run'.again = run.again
    BY <1>1 DEF AnswerResolvedThread, Handled, Typed, Runs
  <2>4. UNCHANGED <<pc, conf, handoff>>
    BY <1>1 DEF AnswerResolvedThread, world
  <2> QED
    BY <1>1, <2>2, <2>3, <2>4 DEF AnswerResolvedThread, Placed, Publishing,
       Resting, Reading, Syncing, Finishing, OnPullRequest
<1>2. CASE AnswerMissing
  BY <1>2, Values DEF AnswerMissing, world, disk, PutOff, Typed, Placed,
     Publishing, Resting, Reading, Syncing, Finishing, OnPullRequest
<1>3. CASE AnswerReply
  <2>1. story \in Stories
    BY <1>3, SavedHere DEF AnswerReply, OnPullRequest, Syncing, Reading,
       Finishing
  <2>2. story' # NoStory
    BY <1>3, <2>1 DEF AnswerReply, Mark, Stories, NoStory
  <2>3. run'.task = run.task /\ run'.again = run.again
    BY <1>3 DEF AnswerReply, Typed, Runs
  <2>4. UNCHANGED <<pc, conf, handoff>>
    BY <1>3 DEF AnswerReply, world
  <2> QED
    BY <1>3, <2>2, <2>3, <2>4 DEF AnswerReply, Placed, Publishing, Resting,
       Reading, Syncing, Finishing, OnPullRequest
<1>4. CASE AnswerDeferred
  BY <1>4, Values DEF AnswerDeferred, world, disk, PutOff, Typed, Placed,
     Publishing, Resting, Reading, Syncing, Finishing, OnPullRequest
<1>5. CASE AnswerResolve
  <2>1. story \in Stories
    BY <1>5, SavedHere DEF AnswerResolve, OnPullRequest, Syncing, Reading,
       Finishing
  <2>2. story' # NoStory
    BY <1>5, <2>1 DEF AnswerResolve, Mark, Stories, NoStory
  <2>3. run'.task = run.task /\ run'.again = run.again
    BY <1>5 DEF AnswerResolve, Handled, Typed, Runs
  <2>4. UNCHANGED <<pc, conf, handoff>>
    BY <1>5 DEF AnswerResolve, world
  <2> QED
    BY <1>5, <2>2, <2>3, <2>4 DEF AnswerResolve, Placed, Publishing, Resting,
       Reading, Syncing, Finishing, OnPullRequest
<1>6. CASE AnswersDone
  <2>1. story' # NoStory
    BY <1>6, AnswersDoneType, SavedHere, Values DEF AnswersDone, OnPullRequest
  <2>2. run'.task = run.task /\ run'.again = run.again /\ UNCHANGED <<conf, handoff>>
    BY <1>6 DEF AnswersDone, Typed, Runs
  <2>3. pc = "answer" /\ pc' = IF run.task = "deferral" THEN "route" ELSE "review"
    BY <1>6 DEF AnswersDone
  <2> QED
    BY <2>1, <2>2, <2>3 DEF Placed, Publishing, Resting, Reading, Syncing,
       Finishing, OnPullRequest
<1> QED
  BY <1>1, <1>2, <1>3, <1>4, <1>5, <1>6 DEF AnswerSteps

LEMMA ReviewPlaced ==
  ASSUME Typed, Placed, Checkout, ReviewSteps
  PROVE  Placed'
<1>1. CASE RoundsUsedUp
  BY <1>1, StayType, Values DEF RoundsUsedUp, world, disk, Typed, Placed,
     Publishing, Resting, Reading, Syncing, Finishing, OnPullRequest
<1>2. CASE ReviewClean
  <2>1. story \in Stories
    BY <1>2, SavedHere DEF ReviewClean, Reviewing, OnPullRequest, Syncing,
       Reading, Finishing
  <2>2. story' # NoStory
    BY <1>2, <2>1 DEF ReviewClean, Stories, NoStory
  <2> QED
    BY <1>2, <2>2 DEF ReviewClean, Reviewing, world, Placed, Publishing,
       Resting, Reading, Syncing, Finishing, OnPullRequest
<1>3. CASE ReviewFindings
  <2>1. story' # NoStory
    BY <1>3, ReviewFindingsType, SavedHere, Values DEF ReviewFindings,
       Reviewing, OnPullRequest, Reading, Typed
  <2> QED
    BY <1>3, <2>1 DEF ReviewFindings, Reviewing, Placed, Publishing, Resting,
       Reading, Syncing, Finishing, OnPullRequest
<1>4. CASE WriteBounceHandoff
  BY <1>4, Values DEF WriteBounceHandoff, world, Typed, Placed, Publishing,
     Resting, Reading, Syncing, Finishing, OnPullRequest
<1>5. CASE RequestAgain
  <2>1. story \in Stories
    BY <1>5, SavedHere DEF RequestAgain, Reviewing, OnPullRequest, Syncing,
       Reading, Finishing
  <2>2. story' # NoStory
    BY <1>5, <2>1 DEF RequestAgain, RequestReview, Stories, NoStory
  <2>3. pc = "review" /\ pc' \in {"review", "prompt"} /\ UNCHANGED <<conf, handoff, run>>
    BY <1>5 DEF RequestAgain, RequestReview, Reviewing
  <2> QED
    BY <2>2, <2>3 DEF Placed, Publishing, Resting, Reading, Syncing, Finishing,
       OnPullRequest
<1>6. CASE RetryUnfinished
  <2>1. pc = "review" /\ pc' \in {"threads", "prompt"} /\ UNCHANGED <<conf, story, handoff>>
    BY <1>6 DEF RetryUnfinished, Reviewing, disk
  <2>2. run'.task = run.task /\ run'.again = run.again
    BY <1>6 DEF RetryUnfinished, Typed, Runs
  <2> QED
    BY <2>1, <2>2 DEF Placed, Publishing, Resting, Reading, Syncing, Finishing,
       OnPullRequest
<1>7. CASE ReviewLimited
  BY <1>7, StayType, Values DEF ReviewLimited, Reviewing, world, disk, Typed,
     Placed, Publishing, Resting, Reading, Syncing, Finishing, OnPullRequest
<1>8. CASE PromptMerge
  BY <1>8, Values DEF PromptMerge, world, disk, Waived, Typed, Placed,
     Publishing, Resting, Reading, Syncing, Finishing, OnPullRequest
<1>9. CASE PromptRetry
  <2>1. story \in Stories
    BY <1>9, SavedHere DEF PromptRetry, OnPullRequest, Syncing, Reading,
       Finishing
  <2>2. story' # NoStory
    BY <1>9, <2>1 DEF PromptRetry, RequestReview, Stories, NoStory
  <2>3. pc = "prompt" /\ pc' = "review" /\ UNCHANGED <<conf, handoff, run>>
    BY <1>9 DEF PromptRetry, RequestReview
  <2> QED
    BY <2>2, <2>3 DEF Placed, Publishing, Resting, Reading, Syncing, Finishing,
       OnPullRequest
<1>10. CASE PromptQuits
  BY <1>10, PersonType, Values DEF PromptQuits, world, Typed, Placed,
     Publishing, Resting, Reading, Syncing, Finishing, OnPullRequest
<1> QED
  BY <1>1, <1>2, <1>3, <1>4, <1>5, <1>6, <1>7, <1>8, <1>9, <1>10
     DEF ReviewSteps

LEMMA MergePlaced ==
  ASSUME Typed, Placed, Checkout, MergeSteps
  PROVE  Placed'
<1>1. CASE ThreadsResolved
  BY <1>1, StayType, Values DEF ThreadsResolved, world, disk, Typed, Placed,
     Publishing, Resting, Reading, Syncing, Finishing, OnPullRequest
<1>2. CASE ThreadsDeferred
  <2>1. pc' = "deferral" /\ run' = Idle /\ UNCHANGED <<conf, handoff>>
    BY <1>2 DEF ThreadsDeferred, RouteDeferredToPlanner
  <2>2. pc = "threads" /\ story \in Stories
    BY <1>2, SavedHere DEF ThreadsDeferred, OnPullRequest, Syncing, Reading,
       Finishing
  <2>3. story' # NoStory
    BY <1>2, <2>2 DEF ThreadsDeferred, RouteDeferredToPlanner, Armed, Stories,
       NoStory
  <2> QED
    BY <2>1, <2>2, <2>3 DEF Placed, Publishing, Resting, Reading, Syncing,
       Finishing, OnPullRequest
<1>3. CASE ThreadsUnresolved
  BY <1>3, PersonType, Values DEF ThreadsUnresolved, world, Typed, Placed,
     Publishing, Resting, Reading, Syncing, Finishing, OnPullRequest
<1>4. CASE ThreadsUnread
  BY <1>4, Values DEF ThreadsUnread, Ends, world, disk, Typed, Placed,
     Publishing, Resting, Reading, Syncing, Finishing, OnPullRequest
<1>5. CASE RouteBlockedHandback
  <2>1. pc' \in {"deferral", "down"} /\ run' = Idle /\ UNCHANGED <<conf, handoff>>
    BY <1>5 DEF RouteBlockedHandback, RouteDeferredToPlanner, PauseKept, Ends
  <2>2. pc = "route" /\ story \in Stories
    BY <1>5, SavedHere DEF RouteBlockedHandback, OnPullRequest, Syncing,
       Reading, Finishing
  <2>3. story' # NoStory
    BY <1>5, <2>2, Values DEF RouteBlockedHandback, RouteDeferredToPlanner,
       PauseKept, Armed, Stories, NoStory
  <2> QED
    BY <2>1, <2>2, <2>3 DEF Placed, Publishing, Resting, Reading, Syncing,
       Finishing, OnPullRequest
<1>6. CASE WriteDeferredHandoff
  BY <1>6, Values DEF WriteDeferredHandoff, world, Typed, Placed, Publishing,
     Resting, Reading, Syncing, Finishing, OnPullRequest
<1>7. CASE MergeAccepted
  BY <1>7, Values DEF MergeAccepted, disk, Typed, Placed, Publishing, Resting,
     Reading, Syncing, Finishing, OnPullRequest
<1>8. CASE NotMergeable
  BY <1>8, Values DEF NotMergeable, world, disk, Typed, Placed, Publishing,
     Resting, Reading, Syncing, Finishing, OnPullRequest
<1>9. CASE MergeFailsAgain
  BY <1>9, Values DEF MergeFailsAgain, Ends, world, Paused, Step, Bounded,
     Typed, Placed, Publishing, Resting, Reading, Syncing, Finishing,
     OnPullRequest
<1>10. CASE MergeRefused
  BY <1>10, Values DEF MergeRefused, Ends, world, disk, Typed, Placed,
     Publishing, Resting, Reading, Syncing, Finishing, OnPullRequest
<1>11. CASE Land
  BY <1>11, Values DEF Land, Typed, Placed, Publishing, Resting, Reading,
     Syncing, Finishing, OnPullRequest
<1> QED
  BY <1>1, <1>2, <1>3, <1>4, <1>5, <1>6, <1>7, <1>8, <1>9, <1>10, <1>11
     DEF MergeSteps

LEMMA SettlePlaced ==
  ASSUME Typed, Placed, Checkout, SettleSteps
  PROVE  Placed'
<1>1. CASE SettleUnarmed
  BY <1>1, KeptType, Values DEF SettleUnarmed, DecisionsUnarmed, Armed, world,
     Typed, Placed, Publishing, Resting, Reading, Syncing, Finishing,
     OnPullRequest
<1>2. CASE SettleNothing
  BY <1>2, StayType, Values DEF SettleNothing, DecisionsUnarmed, world, disk,
     Typed, Placed, Publishing, Resting, Reading, Syncing, Finishing,
     OnPullRequest
<1>3. CASE SettleBegins
  <2>1. CASE PauseForPerson
    BY <2>1, PersonType DEF Typed, Placed, Publishing, Resting, Reading,
       Syncing, Finishing, OnPullRequest
  <2>2. CASE ~PauseForPerson
    <3>1. /\ pc = "decided" /\ pc' = "settle" /\ run'.task = "settle" /\ run'.again = FALSE
          /\ story # NoStory /\ UNCHANGED <<conf, story, handoff>>
      BY <1>3, <2>2 DEF SettleBegins, PassOpen, Idle, disk
    <3> QED
      BY <3>1 DEF Placed, Publishing, Resting, Reading, Syncing, Finishing,
         OnPullRequest
  <2> QED
    BY <2>1, <2>2
<1>4. CASE SettleResolvedThread
  <2>1. story \in Stories
    BY <1>4, SavedHere DEF SettleResolvedThread, Settling, OnPullRequest,
       Syncing, Reading, Finishing
  <2>2. story' # NoStory
    BY <1>4, <2>1 DEF SettleResolvedThread, Mark, Stories, NoStory
  <2>3. run'.task = run.task /\ run'.again = run.again
    BY <1>4 DEF SettleResolvedThread, Handled, Typed, Runs
  <2>4. UNCHANGED <<pc, conf, handoff>>
    BY <1>4 DEF SettleResolvedThread, world
  <2> QED
    BY <1>4, <2>2, <2>3, <2>4 DEF SettleResolvedThread, Settling, Placed,
       Publishing, Resting, Reading, Syncing, Finishing, OnPullRequest
<1>5. CASE SettleRemains
  BY <1>5, Values DEF SettleRemains, Settling, world, disk, PutOff, Typed,
     Placed, Publishing, Resting, Reading, Syncing, Finishing, OnPullRequest
<1>6. CASE SettleReply
  <2>1. story \in Stories
    BY <1>6, SavedHere DEF SettleReply, Settling, OnPullRequest, Syncing,
       Reading, Finishing
  <2>2. story' # NoStory
    BY <1>6, <2>1 DEF SettleReply, Mark, Stories, NoStory
  <2>3. run'.task = run.task /\ run'.again = run.again
    BY <1>6 DEF SettleReply, Typed, Runs
  <2>4. UNCHANGED <<pc, conf, handoff>>
    BY <1>6 DEF SettleReply, world
  <2> QED
    BY <1>6, <2>2, <2>3, <2>4 DEF SettleReply, Settling, Placed, Publishing,
       Resting, Reading, Syncing, Finishing, OnPullRequest
<1>7. CASE SettleResolve
  <2>1. story \in Stories
    BY <1>7, SavedHere DEF SettleResolve, Settling, OnPullRequest, Syncing,
       Reading, Finishing
  <2>2. story' # NoStory
    BY <1>7, <2>1 DEF SettleResolve, Mark, Stories, NoStory
  <2>3. run'.task = run.task /\ run'.again = run.again
    BY <1>7 DEF SettleResolve, Handled, Typed, Runs
  <2>4. UNCHANGED <<pc, conf, handoff>>
    BY <1>7 DEF SettleResolve, world
  <2> QED
    BY <1>7, <2>2, <2>3, <2>4 DEF SettleResolve, Settling, Placed, Publishing,
       Resting, Reading, Syncing, Finishing, OnPullRequest
<1>8. CASE SettleEnds
  <2>1. CASE PauseForPerson
    BY <2>1, PersonType DEF Typed, Placed, Publishing, Resting, Reading,
       Syncing, Finishing, OnPullRequest
  <2>2. CASE ~PauseForPerson
    <3>1. pc = "settle" /\ story \in Stories
      BY <1>8, SavedHere DEF SettleEnds, Settling, OnPullRequest, Syncing,
         Reading, Finishing
    <3>2. /\ story' # NoStory /\ UNCHANGED <<conf, handoff>>
          /\ \/ pc' = "up" /\ run' = Idle
             \/ pc' = "merge" /\ run' = [run EXCEPT !.seen = {}]
      BY <1>8, <2>2, <3>1, SettleEndsType, Values
    <3>3. \/ pc' = "up" /\ run' = Idle
          \/ pc' = "merge" /\ run'.task = run.task /\ run'.again = run.again
      BY <3>2 DEF Typed, Runs
    <3> QED
      BY <3>1, <3>2, <3>3 DEF Placed, Publishing, Resting, Reading, Syncing,
         Finishing, OnPullRequest
  <2> QED
    BY <2>1, <2>2
<1> QED
  BY <1>1, <1>2, <1>3, <1>4, <1>5, <1>6, <1>7, <1>8 DEF SettleSteps

LEMMA LoopTopPlaced ==
  ASSUME Typed, Placed, Checkout, LoopTop
  PROVE  Placed'
<1>1. CASE OrphanMerged
  <2>1. CleanUpMergedStory /\ run = Idle
    BY <1>1 DEF OrphanMerged, Orphaned, MovesOn, Placed, Resting
  <2> QED
    BY <2>1, CleanUpType DEF Typed, Placed, Publishing, Resting, Reading,
       Syncing, Finishing, OnPullRequest
<1>2. CASE OrphanToPlanner
  <2>1. pc' = "deferral" /\ run' = Idle /\ UNCHANGED <<conf, handoff>>
    BY <1>2 DEF OrphanToPlanner, RouteDeferredToPlanner
  <2>2. pc = "up" /\ story \in Stories /\ conf.mode = "pr"
    BY <1>2 DEF OrphanToPlanner, Orphaned, MovesOn, Typed
  <2>3. story' # NoStory
    BY <1>2, <2>2 DEF OrphanToPlanner, RouteDeferredToPlanner, Armed, Stories,
       NoStory
  <2> QED
    BY <2>1, <2>2, <2>3 DEF Placed, Publishing, Resting, Reading, Syncing,
       Finishing, OnPullRequest
<1>3. CASE OrphanBlocked
  BY <1>3, StayType, Values DEF OrphanBlocked, Orphaned, MovesOn, world, disk,
     Typed, Placed, Publishing, Resting, Reading, Syncing, Finishing,
     OnPullRequest
<1>4. CASE NextStory
  BY <1>4, StayType, Values DEF NextStory, world, disk, Ends, Typed, Placed,
     Publishing, Resting, Reading, Syncing, Finishing, OnPullRequest
<1> QED
  BY <1>1, <1>2, <1>3, <1>4 DEF LoopTop

LEMMA MergeCommitPlaced ==
  ASSUME Typed, Placed, Checkout, MergeCommitSteps
  PROVE  Placed'
<1>1. CASE SwitchToBase
  BY <1>1, Values DEF SwitchToBase, disk, Typed, Placed, Publishing, Resting,
     Reading, Syncing, Finishing, OnPullRequest
<1>2. CASE MergeLocally
  BY <1>2, Values DEF MergeLocally, disk, Ends, Typed, Placed, Publishing,
     Resting, Reading, Syncing, Finishing, OnPullRequest
<1>3. CASE DeleteMergedBranch
  BY <1>3, Values DEF DeleteMergedBranch, disk, Typed, Placed, Publishing,
     Resting, Reading, Syncing, Finishing, OnPullRequest
<1>4. CASE ClearState
  BY <1>4, Values DEF ClearState, world, Typed, Placed, Publishing, Resting,
     Reading, Syncing, Finishing, OnPullRequest
<1> QED
  BY <1>1, <1>2, <1>3, <1>4 DEF MergeCommitSteps

LEMMA StartPlaced ==
  ASSUME Typed, Placed, Checkout, StartSteps
  PROVE  Placed'
<1>1. CASE Start
  BY <1>1, Values DEF Start, disk, Typed, Placed, Publishing, Resting, Reading,
     Syncing, Finishing, OnPullRequest
<1>2. CASE PersonTakesOver
  BY <1>2, StayType, Values DEF PersonTakesOver, world, disk, Typed, Placed,
     Publishing, Resting, Reading, Syncing, Finishing, OnPullRequest
<1>3. CASE ResumeReviewRetry
  BY <1>3, StayType, Values DEF ResumeReviewRetry, Resuming, world, disk,
     Typed, Placed, Publishing, Resting, Reading, Syncing, Finishing,
     OnPullRequest
<1>4. CASE ResumePaused
  BY <1>4, KeptType, StayType, Values DEF ResumePaused, Resuming, world, disk,
     Typed, Placed, Publishing, Resting, Reading, Syncing, Finishing,
     OnPullRequest
<1>5. CASE NothingToResume
  BY <1>5, StayType, Values DEF NothingToResume, InterruptedPublish, Resuming,
     world, disk, Typed, Placed, Publishing, Resting, Reading, Syncing,
     Finishing, OnPullRequest
<1>6. CASE InterruptedBlocked
  BY <1>6, KeptType, Values DEF InterruptedBlocked, InterruptedPublish,
     Resuming, world, Typed, Placed, Publishing, Resting, Reading, Syncing,
     Finishing, OnPullRequest
<1>7. CASE InterruptedMerged
  <2>1. CleanUpMergedStory /\ run = Idle
    BY <1>7 DEF InterruptedMerged, InterruptedPublish, Resuming, Placed,
       Resting
  <2> QED
    BY <2>1, CleanUpType DEF Typed, Placed, Publishing, Resting, Reading,
       Syncing, Finishing, OnPullRequest
<1>8. CASE InterruptedConfirm
  BY <1>8, StayType, Values DEF InterruptedConfirm, InterruptedPublish,
     Resuming, world, disk, Typed, Placed, Publishing, Resting, Reading,
     Syncing, Finishing, OnPullRequest
<1>9. CASE ResumeMergeCommit
  <2>1. pc = "resume" /\ conf.mode = "merge-commit" /\ run = Idle /\ story # NoStory
    BY <1>9 DEF ResumeMergeCommit, InterruptedMergeCommit, Placed, Publishing,
       Resting, Reading, Syncing, Finishing, OnPullRequest
  <2>2. CASE PauseKept(story)
    BY <2>1, <2>2, KeptType DEF Placed, Publishing, Resting, Reading, Syncing,
       Finishing, OnPullRequest
  <2>3. CASE \/ \E place \in {"up", "begin"} : Goto(place)
             \/ AuditedStoryCommit /\ \E place \in {"delete", "clear"} : Goto(place)
    BY <2>1, <2>3, StayType DEF AuditedStoryCommit, Placed, Publishing,
       Resting, Reading, Syncing, Finishing, OnPullRequest
  <2> QED
    BY <1>9, <2>2, <2>3 DEF ResumeMergeCommit
<1> QED
  BY <1>1, <1>2, <1>3, <1>4, <1>5, <1>6, <1>7, <1>8, <1>9 DEF StartSteps

LEMMA OthersPlaced ==
  ASSUME Typed, Placed, Checkout, Others
  PROVE  Placed'
<1>1. CASE RunEnds
  BY <1>1, Values DEF RunEnds, Ends, world, disk, Bounded, Typed, Placed,
     Publishing, Resting, Reading, Syncing, Finishing, OnPullRequest
<1>2. CASE ReplyUnsaved
  BY <1>2, Values DEF ReplyUnsaved, Ends, disk, Bounded, Typed, Placed,
     Publishing, Resting, Reading, Syncing, Finishing, OnPullRequest
<1>3. CASE ReplyFails
  BY <1>3, Values DEF ReplyFails, Ends, world, disk, Typed, Placed, Publishing,
     Resting, Reading, Syncing, Finishing, OnPullRequest
<1>4. CASE RequestUnsaved
  BY <1>4, Values DEF RequestUnsaved, Reviewing, Ends, disk, Bounded, Typed,
     Placed, Publishing, Resting, Reading, Syncing, Finishing, OnPullRequest
<1>5. CASE CodexReviews
  BY <1>5, Values DEF CodexReviews, disk, Typed, Placed, Publishing, Resting,
     Reading, Syncing, Finishing, OnPullRequest
<1>6. CASE BaseMoves
  BY <1>6, Values DEF BaseMoves, disk, Bounded, Typed, Placed, Publishing,
     Resting, Reading, Syncing, Finishing, OnPullRequest
<1>7. CASE OnGitHub
  BY <1>7, Values DEF OnGitHub, Orphaned, MovesOn, disk, Bounded, Typed,
     Placed, Publishing, Resting, Reading, Syncing, Finishing, OnPullRequest
<1>8. CASE AtCheckout
  BY <1>8, CommitType, Values DEF AtCheckout, disk, Bounded, Kinds, Typed,
     Placed, Publishing, Resting, Reading, Syncing, Finishing, OnPullRequest
<1>9. CASE PersonMergesBase
  BY <1>9, CommitType, Values DEF PersonMergesBase, disk, Kinds, Typed, Placed,
     Publishing, Resting, Reading, Syncing, Finishing, OnPullRequest
<1>10. CASE Tidied
  BY <1>10, Values DEF Tidied, disk, Typed, Placed, Publishing, Resting,
     Reading, Syncing, Finishing, OnPullRequest
<1>11. CASE PersonRoutes
  BY <1>11, Values DEF PersonRoutes, world, Typed, Placed, Publishing, Resting,
     Reading, Syncing, Finishing, OnPullRequest
<1> QED
  BY <1>1, <1>2, <1>3, <1>4, <1>5, <1>6, <1>7, <1>8, <1>9, <1>10, <1>11
     DEF Others

LEMMA PlacedStep ==
  ASSUME Typed, Placed, Checkout, [Next]_vars
  PROVE  Placed'
<1>1. CASE UNCHANGED vars
  BY <1>1 DEF vars, Placed, Publishing
<1>2. CASE StoryOver
  BY <1>2 DEF StoryOver, vars, Placed, Publishing
<1> QED
  BY <1>1, <1>2, RolePlaced, PublishPlaced, AnswerPlaced, ReviewPlaced,
     MergePlaced, SettlePlaced, LoopTopPlaced, MergeCommitPlaced,
     StartPlaced, OthersPlaced
     DEF Next

-----------------------------------------------------------------------------
(* Each step keeps the checkout in step with the story's life.                 *)

LEMMA RoleCheckout ==
  ASSUME Typed, Placed, Checkout, RoleSteps
  PROVE  Checkout'
<1>1. CASE EnsureStoryBranch
  <2>1. CASE git.at = "base" /\ ~git.cut /\ story' = FreshStory
    BY <1>1, <2>1 DEF EnsureStoryBranch, FreshStory, Typed, Gits, Checkout,
       Untouched, Placed, Resting, Reading, Syncing, Finishing, OnPullRequest
  <2>2. CASE UNCHANGED story
    BY <1>1, <2>2, Values DEF EnsureStoryBranch, Typed, Gits, Checkout,
       Untouched, Placed, Resting, Reading, Syncing, Finishing, OnPullRequest
  <2> QED
    BY <1>1, <2>1, <2>2 DEF EnsureStoryBranch
<1>2. CASE ImplementerClaims
  BY <1>2, CommitType, Values DEF ImplementerClaims, Kinds, Typed, Gits, Hubs,
     Hists, Checkout, Untouched, Placed, Resting, Reading, Syncing, Finishing,
     OnPullRequest
<1>3. CASE ImplementerBlocks
  BY <1>3, Values DEF ImplementerBlocks, world, Typed, Gits, Hubs, Hists,
     Checkout, Untouched, Placed, Resting, Reading, Syncing, Finishing,
     OnPullRequest
<1>4. CASE DeferBlockedHandback
  <2>1. CASE Goto("up")
    BY <2>1, <1>4, StayType DEF DeferBlockedHandback, Checkout, Untouched,
       Placed, Resting, Reading, Syncing, Finishing, OnPullRequest
  <2>2. CASE PauseKept(story)
    BY <2>2, <1>4, KeptType DEF DeferBlockedHandback, Checkout, Untouched,
       Placed, Resting, Reading, Syncing, Finishing, OnPullRequest
  <2>3. CASE responses' = Merged(handoff.said) /\ pc' = "answer"
    <3>1. /\ pc = "handback" /\ git.at = "story" /\ conf.mode # "merge-commit"
          /\ UNCHANGED <<conf, git, hub, story, handoff, hist>>
      BY <1>4, <2>3 DEF DeferBlockedHandback, OnlyDefers, CheckedOut, Goto,
         PauseKept, Ends, world, Checkout
    <3> QED
      BY <2>3, <3>1 DEF Checkout, Untouched, Placed, Resting, Reading, Syncing,
         Finishing, OnPullRequest
  <2> QED
    BY <1>4, <2>1, <2>2, <2>3 DEF DeferBlockedHandback
<1>5. CASE Audit
  BY <1>5, Values DEF Audit, world, Typed, Gits, Hubs, Hists, Checkout,
     Untouched, Placed, Resting, Reading, Syncing, Finishing, OnPullRequest
<1>6. CASE PlannerRuns
  BY <1>6, Values DEF PlannerRuns, world, Typed, Gits, Hubs, Hists, Checkout,
     Untouched, Placed, Resting, Reading, Syncing, Finishing, OnPullRequest
<1> QED
  BY <1>1, <1>2, <1>3, <1>4, <1>5, <1>6 DEF RoleSteps

LEMMA PublishCheckout ==
  ASSUME Typed, Placed, Checkout, PublishSteps
  PROVE  Checkout'
<1>1. CASE AdoptBaseBranchStory
  <2>1. conf.mode = "pr"
    BY <1>1 DEF AdoptBaseBranchStory, Adoptable
  <2> QED
    BY <1>1, <2>1 DEF AdoptBaseBranchStory, FreshStory, Typed, Gits, Checkout,
       Untouched, Placed, Resting, Reading, Syncing, Finishing, OnPullRequest
<1>2. CASE EpicCloseMerged
  BY <1>2, StayType, Values DEF EpicCloseMerged, world, disk, Typed, Gits,
     Hubs, Hists, Checkout, Untouched, Placed, Resting, Reading, Syncing,
     Finishing, OnPullRequest
<1>3. CASE PublishRefused
  BY <1>3, Values DEF PublishRefused, Ends, world, disk, Typed, Gits, Hubs,
     Hists, Checkout, Untouched, Placed, Resting, Reading, Syncing, Finishing,
     OnPullRequest
<1>4. CASE PublishBegins
  BY <1>4, StayType, Values DEF PublishBegins, CheckedOut, world, disk, Typed,
     Gits, Hubs, Hists, Checkout, Untouched, Placed, Resting, Reading, Syncing,
     Finishing, OnPullRequest
<1>5. CASE SetAsidePause
  BY <1>5, KeptType, Values DEF SetAsidePause, world, Paused, Step, Typed,
     Gits, Hubs, Hists, Checkout, Untouched, Placed, Resting, Reading, Syncing,
     Finishing, OnPullRequest
<1>6. CASE SyncNothing
  BY <1>6, StayType, Values DEF SyncNothing, world, disk, Typed, Gits, Hubs,
     Hists, Checkout, Untouched, Placed, Resting, Reading, Syncing, Finishing,
     OnPullRequest
<1>7. CASE SyncClean
  BY <1>7, CommitType, Values DEF SyncClean, disk, Kinds, Typed, Gits, Hubs,
     Hists, Checkout, Untouched, Placed, Resting, Reading, Syncing, Finishing,
     OnPullRequest
<1>8. CASE SyncConflict
  BY <1>8, KeptType, Values DEF SyncConflict, world, Paused, Step, Typed, Gits,
     Hubs, Hists, Checkout, Untouched, Placed, Resting, Reading, Syncing,
     Finishing, OnPullRequest
<1>9. CASE SyncStateConflict
  BY <1>9, Values DEF SyncStateConflict, disk, Typed, Gits, Hubs, Hists,
     Checkout, Untouched, Placed, Resting, Reading, Syncing, Finishing,
     OnPullRequest
<1>10. CASE StateConflictResolved
  BY <1>10, Values DEF StateConflictResolved, disk, Typed, Gits, Hubs, Hists,
     Checkout, Untouched, Placed, Resting, Reading, Syncing, Finishing,
     OnPullRequest
<1>11. CASE StateConflictUnresolved
  BY <1>11, Values DEF StateConflictUnresolved, Ends, Paused, Step, Typed,
     Gits, Hubs, Hists, Checkout, Untouched, Placed, Resting, Reading, Syncing,
     Finishing, OnPullRequest
<1>12. CASE DropEmptyStoryBranch
  BY <1>12, Values DEF DropEmptyStoryBranch, Typed, Gits, Hubs, Hists,
     Checkout, Untouched, Placed, Resting, Reading, Syncing, Finishing,
     OnPullRequest
<1>13. CASE Push
  BY <1>13, Values DEF Push, disk, Typed, Gits, Hubs, Hists, Checkout,
     Untouched, Placed, Resting, Reading, Syncing, Finishing, OnPullRequest
<1>14. CASE PushRejected
  BY <1>14, Values DEF PushRejected, Ends, world, disk, Typed, Gits, Hubs,
     Hists, Checkout, Untouched, Placed, Resting, Reading, Syncing, Finishing,
     OnPullRequest
<1>15. CASE OpenPullRequest
  BY <1>15, Values DEF OpenPullRequest, Ends, Typed, Gits, Hubs, Hists,
     Checkout, Untouched, Placed, Resting, Reading, Syncing, Finishing,
     OnPullRequest
<1> QED
  BY <1>1, <1>2, <1>3, <1>4, <1>5, <1>6, <1>7, <1>8, <1>9, <1>10, <1>11, <1>12,
     <1>13, <1>14, <1>15 DEF PublishSteps

LEMMA AnswerCheckout ==
  ASSUME Typed, Placed, Checkout, AnswerSteps
  PROVE  Checkout'
<1>1. CASE AnswerResolvedThread
  BY <1>1, Values DEF AnswerResolvedThread, world, Mark, Handled, Typed, Gits,
     Hubs, Hists, Checkout, Untouched, Placed, Resting, Reading, Syncing,
     Finishing, OnPullRequest
<1>2. CASE AnswerMissing
  BY <1>2, Values DEF AnswerMissing, world, disk, PutOff, Typed, Gits, Hubs,
     Hists, Checkout, Untouched, Placed, Resting, Reading, Syncing, Finishing,
     OnPullRequest
<1>3. CASE AnswerReply
  BY <1>3, Values DEF AnswerReply, PostReply, Mark, Typed, Gits, Hubs, Hists,
     Checkout, Untouched, Placed, Resting, Reading, Syncing, Finishing,
     OnPullRequest
<1>4. CASE AnswerDeferred
  BY <1>4, Values DEF AnswerDeferred, world, disk, PutOff, Typed, Gits, Hubs,
     Hists, Checkout, Untouched, Placed, Resting, Reading, Syncing, Finishing,
     OnPullRequest
<1>5. CASE AnswerResolve
  BY <1>5, Values DEF AnswerResolve, Resolve, Mark, Handled, Typed, Gits, Hubs,
     Hists, Checkout, Untouched, Placed, Resting, Reading, Syncing, Finishing,
     OnPullRequest
<1>6. CASE AnswersDone
  BY <1>6, Values DEF AnswersDone, world, Typed, Gits, Hubs, Hists, Checkout,
     Untouched, Placed, Resting, Reading, Syncing, Finishing, OnPullRequest
<1> QED
  BY <1>1, <1>2, <1>3, <1>4, <1>5, <1>6 DEF AnswerSteps

LEMMA ReviewCheckout ==
  ASSUME Typed, Placed, Checkout, ReviewSteps
  PROVE  Checkout'
<1>1. CASE RoundsUsedUp
  BY <1>1, StayType, Values DEF RoundsUsedUp, world, disk, Typed, Gits, Hubs,
     Hists, Checkout, Untouched, Placed, Resting, Reading, Syncing, Finishing,
     OnPullRequest
<1>2. CASE ReviewClean
  BY <1>2, Values DEF ReviewClean, Reviewing, world, Typed, Gits, Hubs, Hists,
     Checkout, Untouched, Placed, Resting, Reading, Syncing, Finishing,
     OnPullRequest
<1>3. CASE ReviewFindings
  BY <1>3, Values DEF ReviewFindings, Reviewing, Typed, Gits, Hubs, Hists,
     Checkout, Untouched, Placed, Resting, Reading, Syncing, Finishing,
     OnPullRequest
<1>4. CASE WriteBounceHandoff
  BY <1>4, Values DEF WriteBounceHandoff, world, Typed, Gits, Hubs, Hists,
     Checkout, Untouched, Placed, Resting, Reading, Syncing, Finishing,
     OnPullRequest
<1>5. CASE RequestAgain
  BY <1>5, Values DEF RequestAgain, Reviewing, RequestReview, Typed, Gits,
     Hubs, Hists, Checkout, Untouched, Placed, Resting, Reading, Syncing,
     Finishing, OnPullRequest
<1>6. CASE RetryUnfinished
  BY <1>6, Values DEF RetryUnfinished, Reviewing, world, disk, Waived, Typed,
     Gits, Hubs, Hists, Checkout, Untouched, Placed, Resting, Reading, Syncing,
     Finishing, OnPullRequest
<1>7. CASE ReviewLimited
  BY <1>7, StayType, Values DEF ReviewLimited, Reviewing, world, disk, Typed,
     Gits, Hubs, Hists, Checkout, Untouched, Placed, Resting, Reading, Syncing,
     Finishing, OnPullRequest
<1>8. CASE PromptMerge
  BY <1>8, Values DEF PromptMerge, world, disk, Waived, Typed, Gits, Hubs,
     Hists, Checkout, Untouched, Placed, Resting, Reading, Syncing, Finishing,
     OnPullRequest
<1>9. CASE PromptRetry
  BY <1>9, Values DEF PromptRetry, RequestReview, Typed, Gits, Hubs, Hists,
     Checkout, Untouched, Placed, Resting, Reading, Syncing, Finishing,
     OnPullRequest
<1>10. CASE PromptQuits
  BY ZenonT(60), <1>10, PersonType, Values DEF PromptQuits, world, Typed, Gits,
     Hubs, Hists, Checkout, Untouched, Placed, Resting, Reading, Syncing,
     Finishing, OnPullRequest
<1> QED
  BY <1>1, <1>2, <1>3, <1>4, <1>5, <1>6, <1>7, <1>8, <1>9, <1>10
     DEF ReviewSteps

LEMMA MergeCheckout ==
  ASSUME Typed, Placed, Checkout, MergeSteps
  PROVE  Checkout'
<1>1. CASE ThreadsResolved
  BY <1>1, StayType, Values DEF ThreadsResolved, world, disk, Typed, Gits,
     Hubs, Hists, Checkout, Untouched, Placed, Resting, Reading, Syncing,
     Finishing, OnPullRequest
<1>2. CASE ThreadsDeferred
  <2>1. pc = "threads"
    BY <1>2 DEF ThreadsDeferred
  <2> QED
    BY <1>2, <2>1, RoutedType DEF Checkout, Untouched, Placed, Resting,
       Reading, Syncing, Finishing, OnPullRequest
<1>3. CASE ThreadsUnresolved
  BY <1>3, PersonType, Values DEF ThreadsUnresolved, world, Typed, Gits, Hubs,
     Hists, Checkout, Untouched, Placed, Resting, Reading, Syncing, Finishing,
     OnPullRequest
<1>4. CASE ThreadsUnread
  BY <1>4, Values DEF ThreadsUnread, Ends, world, disk, Typed, Gits, Hubs,
     Hists, Checkout, Untouched, Placed, Resting, Reading, Syncing, Finishing,
     OnPullRequest
<1>5. CASE RouteBlockedHandback
  <2>1. CASE PauseKept(story)
    BY <2>1, <1>5, KeptType DEF RouteBlockedHandback, Checkout, Untouched,
       Placed, Resting, Reading, Syncing, Finishing, OnPullRequest
  <2>2. CASE ~PauseKept(story)
    <3>1. pc = "route"
      BY <1>5 DEF RouteBlockedHandback
    <3> QED
      BY <1>5, <2>2, <3>1, RoutedType DEF Checkout, Untouched, Placed, Resting,
         Reading, Syncing, Finishing, OnPullRequest
  <2> QED
    BY <2>1, <2>2
<1>6. CASE WriteDeferredHandoff
  BY <1>6, Values DEF WriteDeferredHandoff, world, Typed, Gits, Hubs, Hists,
     Checkout, Untouched, Placed, Resting, Reading, Syncing, Finishing,
     OnPullRequest
<1>7. CASE MergeAccepted
  BY <1>7, Values DEF MergeAccepted, disk, Typed, Gits, Hubs, Hists, Checkout,
     Untouched, Placed, Resting, Reading, Syncing, Finishing, OnPullRequest
<1>8. CASE NotMergeable
  BY <1>8, Values DEF NotMergeable, world, disk, Typed, Gits, Hubs, Hists,
     Checkout, Untouched, Placed, Resting, Reading, Syncing, Finishing,
     OnPullRequest
<1>9. CASE MergeFailsAgain
  BY <1>9, Values DEF MergeFailsAgain, Ends, world, Paused, Step, Bounded,
     Typed, Gits, Hubs, Hists, Checkout, Untouched, Placed, Resting, Reading,
     Syncing, Finishing, OnPullRequest
<1>10. CASE MergeRefused
  BY <1>10, Values DEF MergeRefused, Ends, world, disk, Typed, Gits, Hubs,
     Hists, Checkout, Untouched, Placed, Resting, Reading, Syncing, Finishing,
     OnPullRequest
<1>11. CASE Land
  BY <1>11, Values DEF Land, Typed, Gits, Hubs, Hists, Checkout, Untouched,
     Placed, Resting, Reading, Syncing, Finishing, OnPullRequest
<1> QED
  BY <1>1, <1>2, <1>3, <1>4, <1>5, <1>6, <1>7, <1>8, <1>9, <1>10, <1>11
     DEF MergeSteps

LEMMA SettleCheckout ==
  ASSUME Typed, Placed, Checkout, SettleSteps
  PROVE  Checkout'
<1>1. CASE SettleUnarmed
  BY <1>1, KeptType, Values DEF SettleUnarmed, DecisionsUnarmed, Armed, world,
     Typed, Gits, Hubs, Hists, Checkout, Untouched, Placed, Resting, Reading,
     Syncing, Finishing, OnPullRequest
<1>2. CASE SettleNothing
  BY <1>2, StayType, Values DEF SettleNothing, DecisionsUnarmed, world, disk,
     Typed, Gits, Hubs, Hists, Checkout, Untouched, Placed, Resting, Reading,
     Syncing, Finishing, OnPullRequest
<1>3. CASE SettleBegins
  BY ZenonT(60), <1>3, PersonType, Values DEF SettleBegins, world, disk, Typed,
     Gits, Hubs, Hists, Checkout, Untouched, Placed, Resting, Reading, Syncing,
     Finishing, OnPullRequest
<1>4. CASE SettleResolvedThread
  BY <1>4, Values DEF SettleResolvedThread, Settling, world, Mark, Handled,
     Typed, Gits, Hubs, Hists, Checkout, Untouched, Placed, Resting, Reading,
     Syncing, Finishing, OnPullRequest
<1>5. CASE SettleRemains
  BY <1>5, Values DEF SettleRemains, Settling, world, disk, PutOff, Typed,
     Gits, Hubs, Hists, Checkout, Untouched, Placed, Resting, Reading, Syncing,
     Finishing, OnPullRequest
<1>6. CASE SettleReply
  BY <1>6, Values DEF SettleReply, Settling, PostReply, Mark, Typed, Gits,
     Hubs, Hists, Checkout, Untouched, Placed, Resting, Reading, Syncing,
     Finishing, OnPullRequest
<1>7. CASE SettleResolve
  BY <1>7, Values DEF SettleResolve, Settling, Resolve, Mark, Handled, Typed,
     Gits, Hubs, Hists, Checkout, Untouched, Placed, Resting, Reading, Syncing,
     Finishing, OnPullRequest
<1>8. CASE SettleEnds
  BY <1>8, PersonType, Values DEF SettleEnds, Settling, world, Typed, Gits,
     Hubs, Hists, Checkout, Untouched, Placed, Resting, Reading, Syncing,
     Finishing, OnPullRequest
<1> QED
  BY <1>1, <1>2, <1>3, <1>4, <1>5, <1>6, <1>7, <1>8 DEF SettleSteps

LEMMA LoopTopCheckout ==
  ASSUME Typed, Placed, Checkout, LoopTop
  PROVE  Checkout'
<1>1. CASE OrphanMerged
  BY ZenonT(60), <1>1, CleanUpType, Values DEF OrphanMerged, Orphaned, MovesOn,
     Typed, Gits, Hubs, Hists, Checkout, Untouched, Placed, Resting, Reading,
     Syncing, Finishing, OnPullRequest
<1>2. CASE OrphanToPlanner
  <2>1. git.at = "story"
    BY <1>2 DEF OrphanToPlanner, OrphanRecoverable
  <2> QED
    BY <1>2, <2>1, RoutedType DEF Checkout, Untouched, Placed, Resting,
       Reading, Syncing, Finishing, OnPullRequest
<1>3. CASE OrphanBlocked
  BY <1>3, StayType, Values DEF OrphanBlocked, Orphaned, MovesOn, world, disk,
     Typed, Gits, Hubs, Hists, Checkout, Untouched, Placed, Resting, Reading,
     Syncing, Finishing, OnPullRequest
<1>4. CASE NextStory
  BY <1>4, StayType, Values DEF NextStory, world, disk, Ends, Typed, Gits,
     Hubs, Hists, Checkout, Untouched, Placed, Resting, Reading, Syncing,
     Finishing, OnPullRequest
<1> QED
  BY <1>1, <1>2, <1>3, <1>4 DEF LoopTop

LEMMA MergeCommitCheckout ==
  ASSUME Typed, Placed, Checkout, MergeCommitSteps
  PROVE  Checkout'
<1>1. CASE SwitchToBase
  BY <1>1, Values DEF SwitchToBase, disk, Typed, Gits, Hubs, Hists, Checkout,
     Untouched, Placed, Resting, Reading, Syncing, Finishing, OnPullRequest
<1>2. CASE MergeLocally
  BY <1>2, Values DEF MergeLocally, disk, Ends, Typed, Gits, Hubs, Hists,
     Checkout, Untouched, Placed, Resting, Reading, Syncing, Finishing,
     OnPullRequest
<1>3. CASE DeleteMergedBranch
  BY <1>3, Values DEF DeleteMergedBranch, disk, Typed, Gits, Hubs, Hists,
     Checkout, Untouched, Placed, Resting, Reading, Syncing, Finishing,
     OnPullRequest
<1>4. CASE ClearState
  BY <1>4, Values DEF ClearState, world, Typed, Gits, Hubs, Hists, Checkout,
     Untouched, Placed, Resting, Reading, Syncing, Finishing, OnPullRequest
<1> QED
  BY <1>1, <1>2, <1>3, <1>4 DEF MergeCommitSteps

LEMMA StartCheckout ==
  ASSUME Typed, Placed, Checkout, StartSteps
  PROVE  Checkout'
<1>1. CASE Start
  BY <1>1, Values DEF Start, disk, Typed, Gits, Hubs, Hists, Checkout,
     Untouched, Placed, Resting, Reading, Syncing, Finishing, OnPullRequest
<1>2. CASE PersonTakesOver
  BY <1>2, StayType, Values DEF PersonTakesOver, world, disk, Typed, Gits,
     Hubs, Hists, Checkout, Untouched, Placed, Resting, Reading, Syncing,
     Finishing, OnPullRequest
<1>3. CASE ResumeReviewRetry
  BY <1>3, StayType, Values DEF ResumeReviewRetry, Resuming, world, disk,
     Typed, Gits, Hubs, Hists, Checkout, Untouched, Placed, Resting, Reading,
     Syncing, Finishing, OnPullRequest
<1>4. CASE ResumePaused
  BY <1>4, KeptType, StayType, Values DEF ResumePaused, Resuming, world, disk,
     Typed, Gits, Hubs, Hists, Checkout, Untouched, Placed, Resting, Reading,
     Syncing, Finishing, OnPullRequest
<1>5. CASE NothingToResume
  BY <1>5, StayType, Values DEF NothingToResume, InterruptedPublish, Resuming,
     world, disk, Typed, Gits, Hubs, Hists, Checkout, Untouched, Placed,
     Resting, Reading, Syncing, Finishing, OnPullRequest
<1>6. CASE InterruptedBlocked
  BY <1>6, KeptType, Values DEF InterruptedBlocked, InterruptedPublish,
     Resuming, world, Typed, Gits, Hubs, Hists, Checkout, Untouched, Placed,
     Resting, Reading, Syncing, Finishing, OnPullRequest
<1>7. CASE InterruptedMerged
  BY ZenonT(60), <1>7, CleanUpType, Values DEF InterruptedMerged,
     InterruptedPublish, Resuming, Typed, Gits, Hubs, Hists, Checkout,
     Untouched, Placed, Resting, Reading, Syncing, Finishing, OnPullRequest
<1>8. CASE InterruptedConfirm
  BY <1>8, StayType, Values DEF InterruptedConfirm, InterruptedPublish,
     Resuming, world, disk, Typed, Gits, Hubs, Hists, Checkout, Untouched,
     Placed, Resting, Reading, Syncing, Finishing, OnPullRequest
<1>9. CASE ResumeMergeCommit
  <2>1. pc = "resume" /\ conf.mode = "merge-commit" /\ story # NoStory
    BY <1>9 DEF ResumeMergeCommit, InterruptedMergeCommit, Placed
  <2>2. CASE PauseKept(story)
    BY <2>1, <2>2, KeptType DEF Checkout, Untouched, Placed, Resting, Reading,
       Syncing, Finishing, OnPullRequest
  <2>3. CASE ~AuditedStoryCommit /\ Goto("up")
    BY <2>1, <2>3, StayType DEF AuditedStoryCommit, Checkout, Untouched,
       Placed, Resting, Reading, Syncing, Finishing, OnPullRequest
  <2>4. CASE \/ git.at = "base" /\ git.landed /\ Goto(IF git.cut THEN "delete" ELSE "clear")
             \/ git.at = "story" /\ \E place \in {"up", "begin"} : Goto(place)
    BY <2>1, <2>4, StayType DEF Typed, Gits, Checkout, Untouched, Placed,
       Resting, Reading, Syncing, Finishing, OnPullRequest
  <2> QED
    BY <1>9, <2>2, <2>3, <2>4 DEF ResumeMergeCommit, MergeCommitProblem, Typed,
       Gits
<1> QED
  BY <1>1, <1>2, <1>3, <1>4, <1>5, <1>6, <1>7, <1>8, <1>9 DEF StartSteps

LEMMA OthersCheckout ==
  ASSUME Typed, Placed, Checkout, Others
  PROVE  Checkout'
<1>1. CASE RunEnds
  BY <1>1, Values DEF RunEnds, Ends, world, disk, Bounded, Typed, Gits, Hubs,
     Hists, Checkout, Untouched, Placed, Resting, Reading, Syncing, Finishing,
     OnPullRequest
<1>2. CASE ReplyUnsaved
  BY <1>2, Values DEF ReplyUnsaved, Ends, disk, Bounded, Typed, Gits, Hubs,
     Hists, Checkout, Untouched, Placed, Resting, Reading, Syncing, Finishing,
     OnPullRequest
<1>3. CASE ReplyFails
  BY <1>3, Values DEF ReplyFails, Ends, world, disk, Typed, Gits, Hubs, Hists,
     Checkout, Untouched, Placed, Resting, Reading, Syncing, Finishing,
     OnPullRequest
<1>4. CASE RequestUnsaved
  BY <1>4, Values DEF RequestUnsaved, Reviewing, Ends, disk, Bounded, Typed,
     Gits, Hubs, Hists, Checkout, Untouched, Placed, Resting, Reading, Syncing,
     Finishing, OnPullRequest
<1>5. CASE CodexReviews
  BY <1>5, Values DEF CodexReviews, disk, Typed, Gits, Hubs, Hists, Checkout,
     Untouched, Placed, Resting, Reading, Syncing, Finishing, OnPullRequest
<1>6. CASE BaseMoves
  BY <1>6, Values DEF BaseMoves, disk, Bounded, Typed, Gits, Hubs, Hists,
     Checkout, Untouched, Placed, Resting, Reading, Syncing, Finishing,
     OnPullRequest
<1>7. CASE OnGitHub
  BY <1>7, Values DEF OnGitHub, Orphaned, MovesOn, disk, Bounded, Typed, Gits,
     Hubs, Hists, Checkout, Untouched, Placed, Resting, Reading, Syncing,
     Finishing, OnPullRequest
<1>8. CASE AtCheckout
  BY ZenonT(60), <1>8, CommitType, Values DEF AtCheckout, disk, Bounded, Kinds,
     Typed, Gits, Hubs, Hists, Checkout, Untouched, Placed, Resting, Reading,
     Syncing, Finishing, OnPullRequest
<1>9. CASE PersonMergesBase
  BY <1>9, CommitType, Values DEF PersonMergesBase, disk, Kinds, Typed, Gits,
     Hubs, Hists, Checkout, Untouched, Placed, Resting, Reading, Syncing,
     Finishing, OnPullRequest
<1>10. CASE Tidied
  BY <1>10, Values DEF Tidied, disk, Typed, Gits, Hubs, Hists, Checkout,
     Untouched, Placed, Resting, Reading, Syncing, Finishing, OnPullRequest
<1>11. CASE PersonRoutes
  BY <1>11, Values DEF PersonRoutes, world, Typed, Gits, Hubs, Hists, Checkout,
     Untouched, Placed, Resting, Reading, Syncing, Finishing, OnPullRequest
<1> QED
  BY <1>1, <1>2, <1>3, <1>4, <1>5, <1>6, <1>7, <1>8, <1>9, <1>10, <1>11
     DEF Others

LEMMA CheckoutStep ==
  ASSUME Typed, Placed, Checkout, [Next]_vars
  PROVE  Checkout'
<1>1. CASE UNCHANGED vars
  BY <1>1 DEF vars, Checkout, Untouched
<1>2. CASE StoryOver
  BY <1>2 DEF StoryOver, vars, Checkout, Untouched
<1> QED
  BY <1>1, <1>2, RoleCheckout, PublishCheckout, AnswerCheckout,
     ReviewCheckout, MergeCheckout, SettleCheckout, LoopTopCheckout,
     MergeCommitCheckout, StartCheckout, OthersCheckout
     DEF Next

-----------------------------------------------------------------------------
(* Each step remembers the story.                                              *)

LEMMA RoleRemembered ==
  ASSUME Typed, Placed, Checkout, Remembered, Placed', RoleSteps
  PROVE  Remembered'
<1>1. CASE EnsureStoryBranch
  BY <1>1, Values DEF EnsureStoryBranch, Typed, Gits, Hubs, Hists, Remembered,
     StoryNotForgotten, Placed, OnPullRequest, Syncing, Reading, Finishing
<1>2. CASE ImplementerClaims
  BY <1>2, CommitType, Values DEF ImplementerClaims, Kinds, Typed, Gits, Hubs,
     Hists, Remembered, StoryNotForgotten, Placed, OnPullRequest, Syncing,
     Reading, Finishing
<1>3. CASE ImplementerBlocks
  BY <1>3, Values DEF ImplementerBlocks, world, Typed, Gits, Hubs, Hists,
     Remembered, StoryNotForgotten, Placed, OnPullRequest, Syncing, Reading,
     Finishing
<1>4. CASE DeferBlockedHandback
  <2>1. CASE Goto("up") \/ PauseKept(story)
    BY <2>1, KeptType, StayType DEF Remembered, StoryNotForgotten
  <2>2. CASE ~Goto("up") /\ ~PauseKept(story)
    <3>1. pc' = "answer" /\ UNCHANGED <<git, hub, story, hist>>
      BY <1>4, <2>2 DEF DeferBlockedHandback, world
    <3> QED BY <3>1 DEF Remembered, StoryNotForgotten
  <2> QED BY <2>1, <2>2
<1>5. CASE Audit
  BY <1>5, Values DEF Audit, world, Typed, Gits, Hubs, Hists, Remembered,
     StoryNotForgotten, Placed, OnPullRequest, Syncing, Reading, Finishing
<1>6. CASE PlannerRuns
  BY <1>6, Values DEF PlannerRuns, world, Typed, Gits, Hubs, Hists, Remembered,
     StoryNotForgotten, Placed, OnPullRequest, Syncing, Reading, Finishing
<1> QED
  BY <1>1, <1>2, <1>3, <1>4, <1>5, <1>6 DEF RoleSteps

LEMMA PublishRemembered ==
  ASSUME Typed, Placed, Checkout, Remembered, Placed', PublishSteps
  PROVE  Remembered'
<1>1. CASE AdoptBaseBranchStory
  BY <1>1, Values DEF AdoptBaseBranchStory, Typed, Gits, Hubs, Hists,
     Remembered, StoryNotForgotten, Placed, OnPullRequest, Syncing, Reading,
     Finishing
<1>2. CASE EpicCloseMerged
  BY <1>2, StayType, Values DEF EpicCloseMerged, world, disk, Typed, Gits,
     Hubs, Hists, Remembered, StoryNotForgotten, Placed, OnPullRequest,
     Syncing, Reading, Finishing
<1>3. CASE PublishRefused
  BY <1>3, Values DEF PublishRefused, Ends, world, disk, Typed, Gits, Hubs,
     Hists, Remembered, StoryNotForgotten, Placed, OnPullRequest, Syncing,
     Reading, Finishing
<1>4. CASE PublishBegins
  <2>1. CASE Goto("up")
    BY <2>1, StayType DEF Remembered, StoryNotForgotten
  <2>2. CASE pc' \in {"sync", "switch"}
    BY <2>2 DEF OnPullRequest, Syncing, Reading, Finishing, Placed, Remembered,
       StoryNotForgotten
  <2> QED
    BY <1>4, <2>1, <2>2 DEF PublishBegins
<1>5. CASE SetAsidePause
  <2>1. story \in Stories
    BY <1>5, SavedHere DEF SetAsidePause, OnPullRequest, Syncing, Reading,
       Finishing
  <2>2. pc' = "down" /\ story' = Paused
    BY <1>5 DEF SetAsidePause, PauseKept, Ends
  <2>3. story' # NoStory
    BY <2>1, <2>2, PausedType, Values DEF Typed
  <2> QED
    BY <2>2, <2>3 DEF Remembered, StoryNotForgotten
<1>6. CASE SyncNothing
  BY <1>6, StayType, Values DEF SyncNothing, world, disk, Typed, Gits, Hubs,
     Hists, Remembered, StoryNotForgotten, Placed, OnPullRequest, Syncing,
     Reading, Finishing
<1>7. CASE SyncClean
  BY <1>7, CommitType, Values DEF SyncClean, disk, Kinds, Typed, Gits, Hubs,
     Hists, Remembered, StoryNotForgotten, Placed, OnPullRequest, Syncing,
     Reading, Finishing
<1>8. CASE SyncConflict
  <2>1. story \in Stories
    BY <1>8, SavedHere DEF SyncConflict, OnPullRequest, Syncing, Reading,
       Finishing
  <2>2. pc' = "down" /\ story' = Paused
    BY <1>8 DEF SyncConflict, PauseKept, Ends
  <2>3. story' # NoStory
    BY <2>1, <2>2, PausedType, Values DEF Typed
  <2> QED
    BY <2>2, <2>3 DEF Remembered, StoryNotForgotten
<1>9. CASE SyncStateConflict
  BY <1>9, Values DEF SyncStateConflict, disk, Typed, Gits, Hubs, Hists,
     Remembered, StoryNotForgotten, Placed, OnPullRequest, Syncing, Reading,
     Finishing
<1>10. CASE StateConflictResolved
  BY <1>10, Values DEF StateConflictResolved, disk, Typed, Gits, Hubs, Hists,
     Remembered, StoryNotForgotten, Placed, OnPullRequest, Syncing, Reading,
     Finishing
<1>11. CASE StateConflictUnresolved
  <2>1. story \in Stories
    BY <1>11, SavedHere DEF StateConflictUnresolved, OnPullRequest, Syncing,
       Reading, Finishing
  <2>2. pc' = "down" /\ story' = Paused
    BY <1>11 DEF StateConflictUnresolved, PauseKept, Ends
  <2>3. story' # NoStory
    BY <2>1, <2>2, PausedType, Values DEF Typed
  <2> QED
    BY <2>2, <2>3 DEF Remembered, StoryNotForgotten
<1>12. CASE DropEmptyStoryBranch
  BY <1>12, Values DEF DropEmptyStoryBranch, Typed, Gits, Hubs, Hists,
     Remembered, StoryNotForgotten, Placed, OnPullRequest, Syncing, Reading,
     Finishing
<1>13. CASE Push
  BY <1>13, Values DEF Push, disk, Typed, Gits, Hubs, Hists, Remembered,
     StoryNotForgotten, Placed, OnPullRequest, Syncing, Reading, Finishing
<1>14. CASE PushRejected
  BY <1>14, Values DEF PushRejected, Ends, world, disk, Typed, Gits, Hubs,
     Hists, Remembered, StoryNotForgotten, Placed, OnPullRequest, Syncing,
     Reading, Finishing
<1>15. CASE OpenPullRequest
  BY <1>15, Values DEF OpenPullRequest, Ends, Typed, Gits, Hubs, Hists,
     Remembered, StoryNotForgotten, Placed, OnPullRequest, Syncing, Reading,
     Finishing
<1> QED
  BY <1>1, <1>2, <1>3, <1>4, <1>5, <1>6, <1>7, <1>8, <1>9, <1>10, <1>11, <1>12,
     <1>13, <1>14, <1>15 DEF PublishSteps

LEMMA AnswerRemembered ==
  ASSUME Typed, Placed, Checkout, Remembered, Placed', AnswerSteps
  PROVE  Remembered'
<1>1. CASE AnswerResolvedThread
  <2>1. pc' \in OnPullRequest
    BY <1>1 DEF AnswerResolvedThread, OnPullRequest, Syncing, Reading
  <2> QED
    BY <2>1 DEF OnPullRequest, Syncing, Reading, Finishing, Placed, Remembered,
       StoryNotForgotten
<1>2. CASE AnswerMissing
  BY <1>2, Values DEF AnswerMissing, world, disk, PutOff, Typed, Gits, Hubs,
     Hists, Remembered, StoryNotForgotten, Placed, OnPullRequest, Syncing,
     Reading, Finishing
<1>3. CASE AnswerReply
  <2>1. pc' \in OnPullRequest
    BY <1>3 DEF AnswerReply, OnPullRequest, Syncing, Reading
  <2> QED
    BY <2>1 DEF OnPullRequest, Syncing, Reading, Finishing, Placed, Remembered,
       StoryNotForgotten
<1>4. CASE AnswerDeferred
  BY <1>4, Values DEF AnswerDeferred, world, disk, PutOff, Typed, Gits, Hubs,
     Hists, Remembered, StoryNotForgotten, Placed, OnPullRequest, Syncing,
     Reading, Finishing
<1>5. CASE AnswerResolve
  <2>1. pc' \in OnPullRequest
    BY <1>5 DEF AnswerResolve, OnPullRequest, Syncing, Reading
  <2> QED
    BY <2>1 DEF OnPullRequest, Syncing, Reading, Finishing, Placed, Remembered,
       StoryNotForgotten
<1>6. CASE AnswersDone
  <2>1. pc' \in OnPullRequest
    BY <1>6 DEF AnswersDone, OnPullRequest, Syncing, Reading
  <2> QED
    BY <2>1 DEF OnPullRequest, Syncing, Reading, Finishing, Placed, Remembered,
       StoryNotForgotten
<1> QED
  BY <1>1, <1>2, <1>3, <1>4, <1>5, <1>6 DEF AnswerSteps

LEMMA ReviewRemembered ==
  ASSUME Typed, Placed, Checkout, Remembered, Placed', ReviewSteps
  PROVE  Remembered'
<1>1. CASE RoundsUsedUp
  BY <1>1, StayType, Values DEF RoundsUsedUp, world, disk, Typed, Gits, Hubs,
     Hists, Remembered, StoryNotForgotten, Placed, OnPullRequest, Syncing,
     Reading, Finishing
<1>2. CASE ReviewClean
  <2>1. pc' \in OnPullRequest
    BY <1>2 DEF ReviewClean, Reviewing, OnPullRequest, Syncing, Reading
  <2> QED
    BY <2>1 DEF OnPullRequest, Syncing, Reading, Finishing, Placed, Remembered,
       StoryNotForgotten
<1>3. CASE ReviewFindings
  <2>1. pc' \in OnPullRequest
    BY <1>3 DEF ReviewFindings, Reviewing, OnPullRequest, Syncing, Reading
  <2> QED
    BY <2>1 DEF OnPullRequest, Syncing, Reading, Finishing, Placed, Remembered,
       StoryNotForgotten
<1>4. CASE WriteBounceHandoff
  BY <1>4, Values DEF WriteBounceHandoff, world, Typed, Gits, Hubs, Hists,
     Remembered, StoryNotForgotten, Placed, OnPullRequest, Syncing, Reading,
     Finishing
<1>5. CASE RequestAgain
  <2>1. pc' \in OnPullRequest
    BY <1>5 DEF RequestAgain, Reviewing, RequestReview, OnPullRequest, Syncing,
       Reading
  <2> QED
    BY <2>1 DEF OnPullRequest, Syncing, Reading, Finishing, Placed, Remembered,
       StoryNotForgotten
<1>6. CASE RetryUnfinished
  BY <1>6, Values DEF RetryUnfinished, Reviewing, world, disk, Waived, Typed,
     Gits, Hubs, Hists, Remembered, StoryNotForgotten, Placed, OnPullRequest,
     Syncing, Reading, Finishing
<1>7. CASE ReviewLimited
  BY <1>7, StayType, Values DEF ReviewLimited, Reviewing, world, disk, Typed,
     Gits, Hubs, Hists, Remembered, StoryNotForgotten, Placed, OnPullRequest,
     Syncing, Reading, Finishing
<1>8. CASE PromptMerge
  BY <1>8, Values DEF PromptMerge, world, disk, Waived, Typed, Gits, Hubs,
     Hists, Remembered, StoryNotForgotten, Placed, OnPullRequest, Syncing,
     Reading, Finishing
<1>9. CASE PromptRetry
  <2>1. pc' \in OnPullRequest
    BY <1>9 DEF PromptRetry, RequestReview, OnPullRequest, Syncing, Reading
  <2> QED
    BY <2>1 DEF OnPullRequest, Syncing, Reading, Finishing, Placed, Remembered,
       StoryNotForgotten
<1>10. CASE PromptQuits
  BY <1>10, PersonType, Values DEF PromptQuits, world, Typed, Gits, Hubs,
     Hists, Remembered, StoryNotForgotten, Placed, OnPullRequest, Syncing,
     Reading, Finishing
<1> QED
  BY <1>1, <1>2, <1>3, <1>4, <1>5, <1>6, <1>7, <1>8, <1>9, <1>10
     DEF ReviewSteps

LEMMA MergeRemembered ==
  ASSUME Typed, Placed, Checkout, Remembered, Placed', MergeSteps
  PROVE  Remembered'
<1>1. CASE ThreadsResolved
  BY <1>1, StayType, Values DEF ThreadsResolved, world, disk, Typed, Gits,
     Hubs, Hists, Remembered, StoryNotForgotten, Placed, OnPullRequest,
     Syncing, Reading, Finishing
<1>2. CASE ThreadsDeferred
  <2>1. pc' \in OnPullRequest
    BY <1>2 DEF ThreadsDeferred, RouteDeferredToPlanner, OnPullRequest,
       Syncing, Reading
  <2> QED
    BY <2>1 DEF OnPullRequest, Syncing, Reading, Finishing, Placed, Remembered,
       StoryNotForgotten
<1>3. CASE ThreadsUnresolved
  BY <1>3, PersonType, Values DEF ThreadsUnresolved, world, Typed, Gits, Hubs,
     Hists, Remembered, StoryNotForgotten, Placed, OnPullRequest, Syncing,
     Reading, Finishing
<1>4. CASE ThreadsUnread
  BY <1>4, Values DEF ThreadsUnread, Ends, world, disk, Typed, Gits, Hubs,
     Hists, Remembered, StoryNotForgotten, Placed, OnPullRequest, Syncing,
     Reading, Finishing
<1>5. CASE RouteBlockedHandback
  <2>1. CASE PauseKept(story)
    BY <1>5, <2>1, KeptType, SavedHere, Values DEF RouteBlockedHandback,
       OnPullRequest, Syncing, Reading, Finishing, Placed, Remembered,
       StoryNotForgotten
  <2>2. CASE ~PauseKept(story)
    BY <1>5, <2>2, RoutedType DEF Remembered, StoryNotForgotten
  <2> QED
    BY <2>1, <2>2
<1>6. CASE WriteDeferredHandoff
  BY <1>6, Values DEF WriteDeferredHandoff, world, Typed, Gits, Hubs, Hists,
     Remembered, StoryNotForgotten, Placed, OnPullRequest, Syncing, Reading,
     Finishing
<1>7. CASE MergeAccepted
  BY <1>7, Values DEF MergeAccepted, disk, Typed, Gits, Hubs, Hists,
     Remembered, StoryNotForgotten, Placed, OnPullRequest, Syncing, Reading,
     Finishing
<1>8. CASE NotMergeable
  BY <1>8, Values DEF NotMergeable, world, disk, Typed, Gits, Hubs, Hists,
     Remembered, StoryNotForgotten, Placed, OnPullRequest, Syncing, Reading,
     Finishing
<1>9. CASE MergeFailsAgain
  <2>1. story \in Stories
    BY <1>9, SavedHere DEF MergeFailsAgain, OnPullRequest, Syncing, Reading,
       Finishing
  <2>2. pc' = "down" /\ story' = Paused
    BY <1>9 DEF MergeFailsAgain, PauseKept, Ends
  <2>3. story' # NoStory
    BY <2>1, <2>2, PausedType, Values DEF Typed
  <2> QED
    BY <2>2, <2>3 DEF Remembered, StoryNotForgotten
<1>10. CASE MergeRefused
  BY <1>10, Values DEF MergeRefused, Ends, world, disk, Typed, Gits, Hubs,
     Hists, Remembered, StoryNotForgotten, Placed, OnPullRequest, Syncing,
     Reading, Finishing
<1>11. CASE Land
  BY <1>11, Values DEF Land, Typed, Gits, Hubs, Hists, Remembered,
     StoryNotForgotten, Placed, OnPullRequest, Syncing, Reading, Finishing
<1> QED
  BY <1>1, <1>2, <1>3, <1>4, <1>5, <1>6, <1>7, <1>8, <1>9, <1>10, <1>11
     DEF MergeSteps

LEMMA SettleRemembered ==
  ASSUME Typed, Placed, Checkout, Remembered, Placed', SettleSteps
  PROVE  Remembered'
<1>1. CASE SettleUnarmed
  <2>1. story \in Stories /\ pc = "decided"
    BY <1>1 DEF SettleUnarmed, DecisionsUnarmed, Typed
  <2>2. CASE PauseKept(story)
    BY <2>1, <2>2, KeptType, Values DEF Remembered, StoryNotForgotten
  <2>3. CASE ~PauseKept(story)
    BY <1>1, <2>1, <2>3, SettleUnarmedType, Values DEF Remembered,
       StoryNotForgotten, Typed
  <2> QED
    BY <2>2, <2>3
<1>2. CASE SettleNothing
  BY <1>2, StayType, Values DEF SettleNothing, DecisionsUnarmed, world, disk,
     Typed, Gits, Hubs, Hists, Remembered, StoryNotForgotten, Placed,
     OnPullRequest, Syncing, Reading, Finishing
<1>3. CASE SettleBegins
  BY <1>3, PersonType, Values DEF SettleBegins, world, disk, Typed, Gits, Hubs,
     Hists, Remembered, StoryNotForgotten, Placed, OnPullRequest, Syncing,
     Reading, Finishing
<1>4. CASE SettleResolvedThread
  <2>1. pc' \in OnPullRequest
    BY <1>4 DEF SettleResolvedThread, Settling, OnPullRequest, Syncing, Reading
  <2> QED
    BY <2>1 DEF OnPullRequest, Syncing, Reading, Finishing, Placed, Remembered,
       StoryNotForgotten
<1>5. CASE SettleRemains
  BY <1>5, Values DEF SettleRemains, Settling, world, disk, PutOff, Typed,
     Gits, Hubs, Hists, Remembered, StoryNotForgotten, Placed, OnPullRequest,
     Syncing, Reading, Finishing
<1>6. CASE SettleReply
  <2>1. pc' \in OnPullRequest
    BY <1>6 DEF SettleReply, Settling, OnPullRequest, Syncing, Reading
  <2> QED
    BY <2>1 DEF OnPullRequest, Syncing, Reading, Finishing, Placed, Remembered,
       StoryNotForgotten
<1>7. CASE SettleResolve
  <2>1. pc' \in OnPullRequest
    BY <1>7 DEF SettleResolve, Settling, OnPullRequest, Syncing, Reading
  <2> QED
    BY <2>1 DEF OnPullRequest, Syncing, Reading, Finishing, Placed, Remembered,
       StoryNotForgotten
<1>8. CASE SettleEnds
  <2>1. CASE PauseForPerson
    BY <2>1, PersonType DEF Remembered, StoryNotForgotten, Typed
  <2>2. CASE ~PauseForPerson
    <3>1. story \in Stories
      BY <1>8, SavedHere DEF SettleEnds, Settling, OnPullRequest, Syncing,
         Reading, Finishing
    <3>2. story' # NoStory /\ pc' # "done"
      BY <1>8, <2>2, <3>1, SettleEndsType, Values
    <3> QED
      BY <3>2 DEF Remembered, StoryNotForgotten
  <2> QED
    BY <2>1, <2>2
<1> QED
  BY <1>1, <1>2, <1>3, <1>4, <1>5, <1>6, <1>7, <1>8 DEF SettleSteps

LEMMA LoopTopRemembered ==
  ASSUME Typed, Placed, Checkout, Remembered, Placed', LoopTop
  PROVE  Remembered'
<1>1. CASE OrphanMerged
  BY <1>1, CleanUpType, Values DEF OrphanMerged, Orphaned, MovesOn, Typed,
     Gits, Hubs, Hists, Remembered, StoryNotForgotten, Placed, OnPullRequest,
     Syncing, Reading, Finishing
<1>2. CASE OrphanToPlanner
  <2>1. pc' \in OnPullRequest
    BY <1>2 DEF OrphanToPlanner, Orphaned, MovesOn, RouteDeferredToPlanner,
       OnPullRequest, Syncing, Reading
  <2> QED
    BY <2>1 DEF OnPullRequest, Syncing, Reading, Finishing, Placed, Remembered,
       StoryNotForgotten
<1>3. CASE OrphanBlocked
  BY <1>3, StayType, Values DEF OrphanBlocked, Orphaned, MovesOn, world, disk,
     Typed, Gits, Hubs, Hists, Remembered, StoryNotForgotten, Placed,
     OnPullRequest, Syncing, Reading, Finishing
<1>4. CASE NextStory
  BY <1>4, StayType, Values DEF NextStory, world, disk, Ends, Typed, Gits,
     Hubs, Hists, Remembered, StoryNotForgotten, Placed, OnPullRequest,
     Syncing, Reading, Finishing
<1> QED
  BY <1>1, <1>2, <1>3, <1>4 DEF LoopTop

LEMMA MergeCommitRemembered ==
  ASSUME Typed, Placed, Checkout, Remembered, Placed', MergeCommitSteps
  PROVE  Remembered'
<1>1. CASE SwitchToBase
  BY <1>1, Values DEF SwitchToBase, disk, Typed, Gits, Hubs, Hists, Remembered,
     StoryNotForgotten, Placed, OnPullRequest, Syncing, Reading, Finishing
<1>2. CASE MergeLocally
  BY <1>2, Values DEF MergeLocally, disk, Ends, Typed, Gits, Hubs, Hists,
     Remembered, StoryNotForgotten, Placed, OnPullRequest, Syncing, Reading,
     Finishing
<1>3. CASE DeleteMergedBranch
  BY <1>3, Values DEF DeleteMergedBranch, disk, Typed, Gits, Hubs, Hists,
     Remembered, StoryNotForgotten, Placed, OnPullRequest, Syncing, Reading,
     Finishing
<1>4. CASE ClearState
  <2>1. ~git.cut /\ git' = git /\ pc' = "up"
    BY <1>4 DEF ClearState, world, Checkout, Typed, Gits
  <2> QED
    BY <2>1 DEF Remembered, StoryNotForgotten
<1> QED
  BY <1>1, <1>2, <1>3, <1>4 DEF MergeCommitSteps

LEMMA StartRemembered ==
  ASSUME Typed, Placed, Checkout, Remembered, Placed', StartSteps
  PROVE  Remembered'
<1>1. CASE Start
  BY <1>1, Values DEF Start, disk, Typed, Gits, Hubs, Hists, Remembered,
     StoryNotForgotten, Placed, OnPullRequest, Syncing, Reading, Finishing
<1>2. CASE PersonTakesOver
  BY <1>2, StayType, Values DEF PersonTakesOver, world, disk, Typed, Gits,
     Hubs, Hists, Remembered, StoryNotForgotten, Placed, OnPullRequest,
     Syncing, Reading, Finishing
<1>3. CASE ResumeReviewRetry
  BY <1>3, StayType, Values DEF ResumeReviewRetry, Resuming, world, disk,
     Typed, Gits, Hubs, Hists, Remembered, StoryNotForgotten, Placed,
     OnPullRequest, Syncing, Reading, Finishing
<1>4. CASE ResumePaused
  <2>1. story \in Stories
    BY <1>4, SavedHere DEF ResumePaused, Resuming
  <2>2. pc' \in {"up", "down", "begin"} /\ story' \in {story, [story EXCEPT !.paused = "none"]}
    BY <1>4 DEF ResumePaused, PauseKept, Goto, Ends, disk
  <2>3. story' # NoStory
    BY <2>1, <2>2, Values DEF Stories, NoStory
  <2> QED
    BY <2>2, <2>3 DEF Remembered, StoryNotForgotten
<1>5. CASE NothingToResume
  BY <1>5, StayType, Values DEF NothingToResume, InterruptedPublish, Resuming,
     world, disk, Typed, Gits, Hubs, Hists, Remembered, StoryNotForgotten,
     Placed, OnPullRequest, Syncing, Reading, Finishing
<1>6. CASE InterruptedBlocked
  BY <1>6, KeptType, Values DEF InterruptedBlocked, InterruptedPublish,
     Resuming, world, Typed, Gits, Hubs, Hists, Remembered, StoryNotForgotten,
     Placed, OnPullRequest, Syncing, Reading, Finishing
<1>7. CASE InterruptedMerged
  BY ZenonT(60), <1>7, CleanUpType, Values DEF InterruptedMerged,
     InterruptedPublish, Resuming, Typed, Gits, Hubs, Hists, Remembered,
     StoryNotForgotten, Placed, OnPullRequest, Syncing, Reading, Finishing
<1>8. CASE InterruptedConfirm
  BY <1>8, StayType, Values DEF InterruptedConfirm, InterruptedPublish,
     Resuming, world, disk, Typed, Gits, Hubs, Hists, Remembered,
     StoryNotForgotten, Placed, OnPullRequest, Syncing, Reading, Finishing
<1>9. CASE ResumeMergeCommit
  BY <1>9, KeptType, StayType, Values DEF ResumeMergeCommit,
     InterruptedMergeCommit, world, disk, Typed, Gits, Hubs, Hists, Remembered,
     StoryNotForgotten, Placed, OnPullRequest, Syncing, Reading, Finishing
<1> QED
  BY <1>1, <1>2, <1>3, <1>4, <1>5, <1>6, <1>7, <1>8, <1>9 DEF StartSteps

LEMMA OthersRemembered ==
  ASSUME Typed, Placed, Checkout, Remembered, Placed', Others
  PROVE  Remembered'
<1>1. CASE RunEnds
  BY <1>1, Values DEF RunEnds, Ends, world, disk, Bounded, Typed, Gits, Hubs,
     Hists, Remembered, StoryNotForgotten, Placed, OnPullRequest, Syncing,
     Reading, Finishing
<1>2. CASE ReplyUnsaved
  BY <1>2, Values DEF ReplyUnsaved, Ends, disk, Bounded, Typed, Gits, Hubs,
     Hists, Remembered, StoryNotForgotten, Placed, OnPullRequest, Syncing,
     Reading, Finishing
<1>3. CASE ReplyFails
  BY <1>3, Values DEF ReplyFails, Ends, world, disk, Typed, Gits, Hubs, Hists,
     Remembered, StoryNotForgotten, Placed, OnPullRequest, Syncing, Reading,
     Finishing
<1>4. CASE RequestUnsaved
  BY <1>4, Values DEF RequestUnsaved, Reviewing, Ends, disk, Bounded, Typed,
     Gits, Hubs, Hists, Remembered, StoryNotForgotten, Placed, OnPullRequest,
     Syncing, Reading, Finishing
<1>5. CASE CodexReviews
  BY <1>5, Values DEF CodexReviews, disk, Typed, Gits, Hubs, Hists, Remembered,
     StoryNotForgotten, Placed, OnPullRequest, Syncing, Reading, Finishing
<1>6. CASE BaseMoves
  BY <1>6, Values DEF BaseMoves, disk, Bounded, Typed, Gits, Hubs, Hists,
     Remembered, StoryNotForgotten, Placed, OnPullRequest, Syncing, Reading,
     Finishing
<1>7. CASE OnGitHub
  BY <1>7, Values DEF OnGitHub, Orphaned, MovesOn, disk, Bounded, Typed, Gits,
     Hubs, Hists, Remembered, StoryNotForgotten, Placed, OnPullRequest,
     Syncing, Reading, Finishing
<1>8. CASE AtCheckout
  BY <1>8, CommitType, Values DEF AtCheckout, disk, Bounded, Kinds, Typed,
     Gits, Hubs, Hists, Remembered, StoryNotForgotten, Placed, OnPullRequest,
     Syncing, Reading, Finishing
<1>9. CASE PersonMergesBase
  BY <1>9, CommitType, Values DEF PersonMergesBase, disk, Kinds, Typed, Gits,
     Hubs, Hists, Remembered, StoryNotForgotten, Placed, OnPullRequest,
     Syncing, Reading, Finishing
<1>10. CASE Tidied
  BY <1>10, Values DEF Tidied, disk, Typed, Gits, Hubs, Hists, Remembered,
     StoryNotForgotten, Placed, OnPullRequest, Syncing, Reading, Finishing
<1>11. CASE PersonRoutes
  BY <1>11, Values DEF PersonRoutes, world, Typed, Gits, Hubs, Hists,
     Remembered, StoryNotForgotten, Placed, OnPullRequest, Syncing, Reading,
     Finishing
<1> QED
  BY <1>1, <1>2, <1>3, <1>4, <1>5, <1>6, <1>7, <1>8, <1>9, <1>10, <1>11
     DEF Others

LEMMA RememberedStep ==
  ASSUME Typed, Placed, Checkout, Remembered, Placed', [Next]_vars
  PROVE  Remembered'
<1>1. CASE UNCHANGED vars
  BY <1>1 DEF vars, Remembered, StoryNotForgotten
<1>2. CASE StoryOver
  BY <1>2 DEF StoryOver, vars, Remembered, StoryNotForgotten
<1> QED
  BY <1>1, <1>2, RoleRemembered, PublishRemembered, AnswerRemembered,
     ReviewRemembered, MergeRemembered, SettleRemembered,
     LoopTopRemembered, MergeCommitRemembered, StartRemembered,
     OthersRemembered
     DEF Next

-----------------------------------------------------------------------------
(* Each step does nothing twice.                                               *)

(* What leaves replies, requests and passes alone, and makes no finding fresh. *)
LEMMA OnceKept ==
  ASSUME Typed, Placed, Once, story' = NoStory \/ story' \in Stories,
         UNCHANGED <<hub.head, hub.replies, hist.asked, hist.passes, hist.torn>>,
         story' # NoStory =>
           /\ story # NoStory /\ UNCHANGED <<story.retry, story.passed>>
           /\ \A f \in Findings :
                 story'.open[f].st = "fresh" => story.open[f].st = "fresh",
         pc' \in {"answer", "route"} /\ run'.task = "deferral" =>
           pc \in {"answer", "route"} /\ run.task = "deferral"
  PROVE  Once'
BY DEF Once, DoneOnce

LEMMA RoleOnce ==
  ASSUME Typed, Placed, Checkout, Once, AtHead, RoleSteps
  PROVE  Once'
<1>1. CASE EnsureStoryBranch
  BY <1>1, Values DEF EnsureStoryBranch, Typed, Gits, Hubs, Hists, Once,
     DoneOnce, Placed, Checkout, Untouched, OnPullRequest, Syncing, Reading,
     Finishing, FreshStory, Gone
<1>2. CASE ImplementerClaims
  BY <1>2, CommitType, Values DEF ImplementerClaims, Kinds, Typed, Gits, Hubs,
     Hists, Once, DoneOnce, Placed, Checkout, Untouched, OnPullRequest,
     Syncing, Reading, Finishing
<1>3. CASE ImplementerBlocks
  BY <1>3, Values DEF ImplementerBlocks, world, Typed, Gits, Hubs, Hists, Once,
     DoneOnce, Placed, Checkout, Untouched, OnPullRequest, Syncing, Reading,
     Finishing
<1>4. CASE DeferBlockedHandback
  <2>1. story \in Stories
    BY <1>4, SavedHere DEF DeferBlockedHandback
  <2>2. CASE Goto("up") \/ PauseKept(story)
    <3>1. UNCHANGED <<hub, story, hist>> /\ pc' \in {"up", "down"}
      BY <2>2, KeptType, StayType
    <3> QED BY <2>1, <3>1, OnceKept
  <2>3. CASE ~Goto("up") /\ ~PauseKept(story)
    <3>1. ~story.passed /\ UNCHANGED <<hub, story, hist>>
      BY <1>4, <2>3 DEF DeferBlockedHandback, OnlyDefers, world
    <3> QED BY <3>1 DEF Once, DoneOnce
  <2> QED BY <2>2, <2>3
<1>5. CASE Audit
  BY <1>5, Values DEF Audit, world, Typed, Gits, Hubs, Hists, Once, DoneOnce,
     Placed, Checkout, Untouched, OnPullRequest, Syncing, Reading, Finishing
<1>6. CASE PlannerRuns
  BY <1>6, Values DEF PlannerRuns, world, Typed, Gits, Hubs, Hists, Once,
     DoneOnce, Placed, Checkout, Untouched, OnPullRequest, Syncing, Reading,
     Finishing
<1> QED
  BY <1>1, <1>2, <1>3, <1>4, <1>5, <1>6 DEF RoleSteps

LEMMA PublishOnce ==
  ASSUME Typed, Placed, Checkout, Once, AtHead, PublishSteps
  PROVE  Once'
<1>1. CASE AdoptBaseBranchStory
  <2>1. hist.asked = 0 /\ hist.passes = 0
    BY <1>1 DEF AdoptBaseBranchStory, Adoptable, Checkout, Untouched
  <2>2. hist.torn[Person] \in Nat /\ \A f \in Findings : hist.torn[f] \in Nat
    BY Values DEF Typed, Hists, Threads
  <2>3. story' = FreshStory /\ pc' = "sync" /\ UNCHANGED <<hub, hist>>
    BY <1>1 DEF AdoptBaseBranchStory
  <2>4. \A f \in Findings : FreshStory.open[f].st = "gone"
    BY Values DEF FreshStory, Gone
  <2> QED
    BY <2>1, <2>2, <2>3, <2>4 DEF Once, DoneOnce
<1>2. CASE EpicCloseMerged
  BY <1>2, StayType, Values DEF EpicCloseMerged, world, disk, Typed, Gits,
     Hubs, Hists, Once, DoneOnce, Placed, Checkout, Untouched, OnPullRequest,
     Syncing, Reading, Finishing
<1>3. CASE PublishRefused
  BY <1>3, Values DEF PublishRefused, Ends, world, disk, Typed, Gits, Hubs,
     Hists, Once, DoneOnce, Placed, Checkout, Untouched, OnPullRequest,
     Syncing, Reading, Finishing
<1>4. CASE PublishBegins
  <2>1. CASE Goto("up")
    BY <2>1, StayType DEF Once, DoneOnce
  <2>2. CASE CheckedOut /\ pc' \in {"sync", "switch"} /\ UNCHANGED <<world, hist>>
    <3>1. story \in Stories
      BY <2>2 DEF CheckedOut, Typed
    <3>2. story' \in {story, [story EXCEPT !.paused = "none", !.pausedAt = NoCommit]}
      BY <1>4, <2>2 DEF PublishBegins, Goto, disk
    <3>3. story' \in Stories /\ UNCHANGED <<story.retry, story.passed, story.open>>
      BY <3>1, <3>2, Values DEF Stories
    <3> QED
      BY <2>2, <3>1, <3>3, OnceKept, Values DEF world
  <2> QED
    BY <1>4, <2>1, <2>2 DEF PublishBegins
<1>5. CASE SetAsidePause
  <2>1. story \in Stories
    BY <1>5, SavedHere DEF SetAsidePause, OnPullRequest, Syncing, Reading,
       Finishing
  <2>2. pc' = "down" /\ story' = Paused /\ UNCHANGED <<hub, hist>>
    BY <1>5 DEF SetAsidePause, PauseKept, Ends, world
  <2> QED
    BY <2>1, <2>2, PausedType, OnceKept, Values DEF Typed
<1>6. CASE SyncNothing
  BY <1>6, StayType, Values DEF SyncNothing, world, disk, Typed, Gits, Hubs,
     Hists, Once, DoneOnce, Placed, Checkout, Untouched, OnPullRequest,
     Syncing, Reading, Finishing
<1>7. CASE SyncClean
  BY <1>7, CommitType, Values DEF SyncClean, disk, Kinds, Typed, Gits, Hubs,
     Hists, Once, DoneOnce, Placed, Checkout, Untouched, OnPullRequest,
     Syncing, Reading, Finishing
<1>8. CASE SyncConflict
  <2>1. story \in Stories
    BY <1>8, SavedHere DEF SyncConflict, OnPullRequest, Syncing, Reading,
       Finishing
  <2>2. pc' = "down" /\ story' = Paused /\ UNCHANGED <<hub, hist>>
    BY <1>8 DEF SyncConflict, PauseKept, Ends, world
  <2> QED
    BY <2>1, <2>2, PausedType, OnceKept, Values DEF Typed
<1>9. CASE SyncStateConflict
  BY <1>9, Values DEF SyncStateConflict, disk, Typed, Gits, Hubs, Hists, Once,
     DoneOnce, Placed, Checkout, Untouched, OnPullRequest, Syncing, Reading,
     Finishing
<1>10. CASE StateConflictResolved
  BY <1>10, Values DEF StateConflictResolved, disk, Typed, Gits, Hubs, Hists,
     Once, DoneOnce, Placed, Checkout, Untouched, OnPullRequest, Syncing,
     Reading, Finishing
<1>11. CASE StateConflictUnresolved
  <2>1. story \in Stories
    BY <1>11, SavedHere DEF StateConflictUnresolved, OnPullRequest, Syncing,
       Reading, Finishing
  <2>2. pc' = "down" /\ story' = Paused /\ UNCHANGED <<hub, hist>>
    BY <1>11 DEF StateConflictUnresolved, PauseKept, Ends, world
  <2> QED
    BY <2>1, <2>2, PausedType, OnceKept, Values DEF Typed
<1>12. CASE DropEmptyStoryBranch
  BY <1>12, Values DEF DropEmptyStoryBranch, Typed, Gits, Hubs, Hists, Once,
     DoneOnce, Placed, Checkout, Untouched, OnPullRequest, Syncing, Reading,
     Finishing
<1>13. CASE Push
  <2>1. hist.torn[Person] \in Nat /\ hist.asked \in Nat
    BY Values DEF Typed, Hists, Threads
  <2>2. /\ pc' \in {"merge", "open"} /\ UNCHANGED <<story, hub.replies, hist.passes, hist.torn>>
        /\ UNCHANGED <<hub.head, hist.asked>> \/ hist'.asked = 0
    BY <1>13 DEF Push, disk, Typed, Hubs, Hists
  <2> QED
    BY <2>1, <2>2 DEF Once, DoneOnce
<1>14. CASE PushRejected
  BY <1>14, Values DEF PushRejected, Ends, world, disk, Typed, Gits, Hubs,
     Hists, Once, DoneOnce, Placed, Checkout, Untouched, OnPullRequest,
     Syncing, Reading, Finishing
<1>15. CASE OpenPullRequest
  <2>1. UNCHANGED <<hub.head, hub.replies, hist.asked, hist.passes, hist.torn>>
    BY <1>15 DEF OpenPullRequest, Typed, Hubs, Hists
  <2>2. run.task = "publish"
    BY <1>15 DEF OpenPullRequest, Placed, Reading
  <2>3. run' = Idle \/ run'.task = run.task
    BY <1>15 DEF OpenPullRequest, Ends, Typed, Runs
  <2>4. story' \in {story, NoStory}
    BY <1>15 DEF OpenPullRequest
  <2> QED
    BY <2>1, <2>2, <2>3, <2>4, OnceKept DEF Typed, Idle
<1> QED
  BY <1>1, <1>2, <1>3, <1>4, <1>5, <1>6, <1>7, <1>8, <1>9, <1>10, <1>11, <1>12,
     <1>13, <1>14, <1>15 DEF PublishSteps

LEMMA AnswerOnce ==
  ASSUME Typed, Placed, Checkout, Once, AtHead, AnswerSteps
  PROVE  Once'
<1>1. CASE AnswerResolvedThread
  <2>1. PICK f \in run.seen : Mark(f, "resolved")
    BY <1>1 DEF AnswerResolvedThread
  <2>2. f \in Findings /\ story \in Stories
    BY <1>1, <2>1, SavedHere DEF AnswerResolvedThread, Typed, Runs,
       OnPullRequest, Syncing, Reading, Finishing
  <2>3. /\ story' \in Stories /\ UNCHANGED <<story.retry, story.passed>>
        /\ \A g \in Findings :
              story'.open[g].st = "fresh" => story.open[g].st = "fresh"
    BY <2>1, <2>2, MarkedType
  <2>4. /\ UNCHANGED <<pc, run.task>>
        /\ UNCHANGED <<hub.head, hub.replies, hist.asked, hist.passes, hist.torn>>
    BY <1>1 DEF AnswerResolvedThread, Handled, world, Typed, Runs, Hubs
  <2> QED
    BY <2>2, <2>3, <2>4, OnceKept, Values
<1>2. CASE AnswerMissing
  BY <1>2, Values DEF AnswerMissing, world, disk, PutOff, Typed, Gits, Hubs,
     Hists, Once, DoneOnce, Placed, Checkout, Untouched, OnPullRequest,
     Syncing, Reading, Finishing
<1>3. CASE AnswerReply
  <2>1. PICK f \in run.todo \ run.seen :
           /\ story.open[f].st = "fresh" /\ hub' = [hub EXCEPT !.replies[f] = @ + 1]
           /\ \E st \in {"postponed", "replied"} : Mark(f, st)
    BY <1>3 DEF AnswerReply, PostReply
  <2>2. PICK st \in {"postponed", "replied"} : Mark(f, st)
    BY <2>1
  <2>3. f \in Findings /\ story \in Stories
    BY <1>3, <2>1, SavedHere DEF AnswerReply, Typed, Runs, OnPullRequest,
       Syncing, Reading, Finishing
  <2>4. /\ story' \in Stories /\ UNCHANGED <<story.retry, story.passed>>
        /\ \A g \in Findings :
              story'.open[g].st = "fresh" => g # f /\ story.open[g].st = "fresh"
    BY <2>2, <2>3, MarkedType
  <2>5. /\ UNCHANGED <<pc, run, hub.head, hist.asked, hist.passes, hist.torn>>
        /\ \A g \in Findings :
              hub'.replies[g] = IF g = f THEN hub.replies[f] + 1 ELSE hub.replies[g]
    BY <1>3, <2>1, <2>3, PostType DEF AnswerReply, PostReply, Typed, Hubs,
       Hists
  <2>6. hub.replies[f] <= hist.torn[f]
    BY <2>1, <2>3, Values DEF Once, DoneOnce
  <2>7. \A g \in Findings : hub.replies[g] \in Nat /\ hist.torn[g] \in Nat
    BY DEF Typed, Hubs, Hists, Threads
  <2>8. DoneOnce'
    BY <2>5, <2>6, <2>7 DEF Once, DoneOnce
  <2> QED
    BY <2>1, <2>3, <2>4, <2>5, <2>7, <2>8, Values DEF Once
<1>4. CASE AnswerDeferred
  BY <1>4, Values DEF AnswerDeferred, world, disk, PutOff, Typed, Gits, Hubs,
     Hists, Once, DoneOnce, Placed, Checkout, Untouched, OnPullRequest,
     Syncing, Reading, Finishing
<1>5. CASE AnswerResolve
  <2>1. CASE UNCHANGED story
    <3>1. /\ UNCHANGED <<pc, run.task>>
          /\ UNCHANGED <<hub.head, hub.replies, hist.asked, hist.passes, hist.torn>>
      BY <1>5 DEF AnswerResolve, Handled, Resolve, Typed, Runs, Hubs
    <3> QED
      BY <2>1, <3>1, OnceKept DEF Typed
  <2>2. CASE ~UNCHANGED story
    <3>1. PICK f \in run.todo \ run.seen : Mark(f, "resolved")
      BY <1>5, <2>2 DEF AnswerResolve
    <3>2. f \in Findings /\ story \in Stories
      BY <1>5, <3>1, SavedHere DEF AnswerResolve, Typed, Runs, OnPullRequest,
         Syncing, Reading, Finishing
    <3>3. /\ story' \in Stories /\ UNCHANGED <<story.retry, story.passed>>
          /\ \A g \in Findings :
                story'.open[g].st = "fresh" => story.open[g].st = "fresh"
      BY <3>1, <3>2, MarkedType
    <3>4. /\ UNCHANGED <<pc, run.task>>
          /\ UNCHANGED <<hub.head, hub.replies, hist.asked, hist.passes, hist.torn>>
      BY <1>5 DEF AnswerResolve, Handled, Resolve, Typed, Runs, Hubs
    <3> QED
      BY <3>2, <3>3, <3>4, OnceKept, Values
  <2> QED
    BY <2>1, <2>2
<1>6. CASE AnswersDone
  <2>1. story \in Stories
    BY <1>6, SavedHere DEF AnswersDone, OnPullRequest, Syncing, Reading,
       Finishing
  <2>2. /\ story' \in Stories /\ UNCHANGED <<story.retry, story.passed>>
        /\ \A f \in Findings : story'.open[f].st # "fresh"
    BY <1>6, <2>1, AnswersDoneType DEF Gone
  <2>3. pc = "answer" /\ UNCHANGED <<hub, hist, run.task>>
    BY <1>6 DEF AnswersDone, world, Typed, Runs
  <2> QED
    BY <2>1, <2>2, <2>3, OnceKept, Values
<1> QED
  BY <1>1, <1>2, <1>3, <1>4, <1>5, <1>6 DEF AnswerSteps

LEMMA ReviewOnce ==
  ASSUME Typed, Placed, Checkout, Once, AtHead, ReviewSteps
  PROVE  Once'
<1>1. CASE RoundsUsedUp
  BY <1>1, StayType, Values DEF RoundsUsedUp, world, disk, Typed, Gits, Hubs,
     Hists, Once, DoneOnce, Placed, Checkout, Untouched, OnPullRequest,
     Syncing, Reading, Finishing
<1>2. CASE ReviewClean
  <2>1. story \in Stories
    BY <1>2, SavedHere DEF ReviewClean, Reviewing, OnPullRequest, Syncing,
       Reading, Finishing
  <2>2. /\ story' \in Stories /\ UNCHANGED <<story.retry, story.passed, story.open>>
        /\ pc' = "threads" /\ UNCHANGED <<hub, hist>>
    BY <1>2, <2>1 DEF ReviewClean, world, Typed, Stories, Gits
  <2> QED
    BY <2>1, <2>2, OnceKept, Values
<1>3. CASE ReviewFindings
  <2>1. story \in Stories
    BY <1>3, SavedHere DEF ReviewFindings, Reviewing, OnPullRequest, Syncing,
       Reading, Finishing
  <2>2. /\ story' # NoStory /\ UNCHANGED <<story.retry, story.passed, hub.head, hist>>
        /\ \A f \in Findings : hub'.replies[f] \in {0, hub.replies[f]}
        /\ \A f \in Findings : story'.open[f].st = "fresh" => hub'.replies[f] = 0
        /\ pc' = "bounce"
    BY <1>3, <2>1, ReviewFindingsType, Values DEF ReviewFindings, Typed
  <2>3. \A f \in Findings : hist.torn[f] \in Nat
    BY Values DEF Typed, Hists, Threads
  <2> QED
    BY <2>1, <2>2, <2>3, Values DEF Once, DoneOnce
<1>4. CASE WriteBounceHandoff
  BY <1>4, Values DEF WriteBounceHandoff, world, Typed, Gits, Hubs, Hists,
     Once, DoneOnce, Placed, Checkout, Untouched, OnPullRequest, Syncing,
     Reading, Finishing
<1>5. CASE RequestAgain
  <2>1. story \in Stories
    BY <1>5, SavedHere DEF RequestAgain, Reviewing, OnPullRequest, Syncing,
       Reading, Finishing
  <2>2. hub.head = git.branch /\ story.retry # git.branch
    BY <1>5 DEF RequestAgain, Reviewing, AtHead, Publishing, Placed, Reading,
       Syncing
  <2>3. CASE hist' = [hist EXCEPT !.asked = @ + 1] /\ RequestReview
    <3>1. /\ hist'.asked = hist.asked + 1 /\ UNCHANGED <<hist.passes, hist.torn>>
          /\ UNCHANGED <<hub.head, hub.replies, story.passed, story.open>>
          /\ story'.retry = git.branch /\ pc' = "review"
      BY <2>1, <2>3 DEF RequestReview, Typed, Hists, Hubs, Stories
    <3>2. hist.asked \in Nat /\ hist.torn[Person] \in Nat
      BY Values DEF Typed, Hists, Threads
    <3> QED
      BY <2>1, <2>2, <3>1, <3>2, Values DEF Once, DoneOnce
  <2>4. CASE pc' = "prompt" /\ UNCHANGED <<hub, story, hist>>
    BY <2>4 DEF Once, DoneOnce
  <2> QED
    BY <1>5, <2>3, <2>4 DEF RequestAgain
<1>6. CASE RetryUnfinished
  BY <1>6, Values DEF RetryUnfinished, Reviewing, world, disk, Waived, Typed,
     Gits, Hubs, Hists, Once, DoneOnce, Placed, Checkout, Untouched,
     OnPullRequest, Syncing, Reading, Finishing
<1>7. CASE ReviewLimited
  BY <1>7, StayType, Values DEF ReviewLimited, Reviewing, world, disk, Typed,
     Gits, Hubs, Hists, Once, DoneOnce, Placed, Checkout, Untouched,
     OnPullRequest, Syncing, Reading, Finishing
<1>8. CASE PromptMerge
  BY <1>8, Values DEF PromptMerge, world, disk, Waived, Typed, Gits, Hubs,
     Hists, Once, DoneOnce, Placed, Checkout, Untouched, OnPullRequest,
     Syncing, Reading, Finishing
<1>9. CASE PromptRetry
  <2>1. story \in Stories
    BY <1>9, SavedHere DEF PromptRetry, OnPullRequest, Syncing, Reading,
       Finishing
  <2>2. hub.head = git.branch
    BY <1>9 DEF PromptRetry, AtHead, Publishing, Placed, Reading, Syncing
  <2>3. /\ UNCHANGED <<hist, hub.head, hub.replies, story.passed, story.open>>
        /\ story'.retry = git.branch /\ pc' = "review"
    BY <1>9, <2>1 DEF PromptRetry, RequestReview, Typed, Hubs, Stories
  <2> QED
    BY <2>1, <2>2, <2>3, Values DEF Once, DoneOnce
<1>10. CASE PromptQuits
  BY <1>10, PersonType, Values DEF PromptQuits, world, Typed, Gits, Hubs,
     Hists, Once, DoneOnce, Placed, Checkout, Untouched, OnPullRequest,
     Syncing, Reading, Finishing
<1> QED
  BY <1>1, <1>2, <1>3, <1>4, <1>5, <1>6, <1>7, <1>8, <1>9, <1>10
     DEF ReviewSteps

LEMMA MergeOnce ==
  ASSUME Typed, Placed, Checkout, Once, AtHead, MergeSteps
  PROVE  Once'
<1>1. CASE ThreadsResolved
  BY <1>1, StayType, Values DEF ThreadsResolved, world, disk, Typed, Gits,
     Hubs, Hists, Once, DoneOnce, Placed, Checkout, Untouched, OnPullRequest,
     Syncing, Reading, Finishing
<1>2. CASE ThreadsDeferred
  <2>1. story # NoStory /\ ~story.passed
    BY <1>2, RoutedType, Values DEF ThreadsDeferred
  <2>2. hist.passes = 0
    BY <2>1 DEF Once
  <2>3. \A f \in Findings : hist.torn[f] \in Nat
    BY Values DEF Typed, Hists, Threads
  <2>4. /\ pc' = "deferral" /\ story' # NoStory /\ story'.passed
        /\ UNCHANGED <<story.retry, hub.head, hist.asked, hist.torn>>
        /\ hist'.passes = hist.passes + 1
        /\ \A f \in Findings : story'.open[f].st = "fresh" => hub'.replies[f] = 0
        /\ \A f \in Findings : hub'.replies[f] \in {0, hub.replies[f]}
    BY <1>2, RoutedType
  <2>5. DoneOnce'
    BY <2>2, <2>3, <2>4 DEF Once, DoneOnce
  <2> QED
    BY <2>1, <2>3, <2>4, <2>5 DEF Once
<1>3. CASE ThreadsUnresolved
  BY <1>3, PersonType, Values DEF ThreadsUnresolved, world, Typed, Gits, Hubs,
     Hists, Once, DoneOnce, Placed, Checkout, Untouched, OnPullRequest,
     Syncing, Reading, Finishing
<1>4. CASE ThreadsUnread
  BY <1>4, Values DEF ThreadsUnread, Ends, world, disk, Typed, Gits, Hubs,
     Hists, Once, DoneOnce, Placed, Checkout, Untouched, OnPullRequest,
     Syncing, Reading, Finishing
<1>5. CASE RouteBlockedHandback
  <2>1. CASE PauseKept(story)
    BY <2>1, KeptType DEF Once, DoneOnce
  <2>2. CASE ~PauseKept(story)
    <3>1. pc = "route" /\ run.task = "deferral" /\ story \in Stories
      BY <1>5, <2>2, RoutedType DEF RouteBlockedHandback, Placed
    <3>2. ~story.passed /\ hist.passes = 0
      BY <3>1, Values DEF Once
    <3>3. \A f \in Findings : hist.torn[f] \in Nat
      BY Values DEF Typed, Hists, Threads
    <3>4. /\ pc' = "deferral" /\ story' # NoStory /\ story'.passed
          /\ UNCHANGED <<story.retry, hub.head, hist.asked, hist.torn>>
          /\ hist'.passes = hist.passes + 1
          /\ \A f \in Findings : story'.open[f].st = "fresh" => hub'.replies[f] = 0
          /\ \A f \in Findings : hub'.replies[f] \in {0, hub.replies[f]}
      BY <1>5, <2>2, RoutedType
    <3>5. DoneOnce'
      BY <3>2, <3>3, <3>4 DEF Once, DoneOnce
    <3> QED
      BY <3>1, <3>3, <3>4, <3>5, Values DEF Once
  <2> QED
    BY <2>1, <2>2
<1>6. CASE WriteDeferredHandoff
  BY <1>6, Values DEF WriteDeferredHandoff, world, Typed, Gits, Hubs, Hists,
     Once, DoneOnce, Placed, Checkout, Untouched, OnPullRequest, Syncing,
     Reading, Finishing
<1>7. CASE MergeAccepted
  BY <1>7, Values DEF MergeAccepted, disk, Typed, Gits, Hubs, Hists, Once,
     DoneOnce, Placed, Checkout, Untouched, OnPullRequest, Syncing, Reading,
     Finishing
<1>8. CASE NotMergeable
  BY <1>8, Values DEF NotMergeable, world, disk, Typed, Gits, Hubs, Hists,
     Once, DoneOnce, Placed, Checkout, Untouched, OnPullRequest, Syncing,
     Reading, Finishing
<1>9. CASE MergeFailsAgain
  <2>1. story \in Stories
    BY <1>9, SavedHere DEF MergeFailsAgain, OnPullRequest, Syncing, Reading,
       Finishing
  <2>2. pc' = "down" /\ story' = Paused /\ UNCHANGED <<hub, hist>>
    BY <1>9 DEF MergeFailsAgain, PauseKept, Ends, world
  <2> QED
    BY <2>1, <2>2, PausedType, OnceKept, Values DEF Typed
<1>10. CASE MergeRefused
  BY <1>10, Values DEF MergeRefused, Ends, world, disk, Typed, Gits, Hubs,
     Hists, Once, DoneOnce, Placed, Checkout, Untouched, OnPullRequest,
     Syncing, Reading, Finishing
<1>11. CASE Land
  BY <1>11, Values DEF Land, Typed, Gits, Hubs, Hists, Once, DoneOnce, Placed,
     Checkout, Untouched, OnPullRequest, Syncing, Reading, Finishing
<1> QED
  BY <1>1, <1>2, <1>3, <1>4, <1>5, <1>6, <1>7, <1>8, <1>9, <1>10, <1>11
     DEF MergeSteps

LEMMA SettleOnce ==
  ASSUME Typed, Placed, Checkout, Once, AtHead, SettleSteps
  PROVE  Once'
<1>1. CASE SettleUnarmed
  <2>1. story \in Stories /\ ~story.passed /\ pc = "decided"
    BY <1>1 DEF SettleUnarmed, DecisionsUnarmed, Typed
  <2>2. CASE PauseKept(story)
    BY <2>2, KeptType DEF Once, DoneOnce
  <2>3. CASE ~PauseKept(story)
    <3>1. UnresolvedFindings(story) \in SUBSET Findings
      BY Values DEF UnresolvedFindings, Open, Deferred
    <3>2. /\ story'.passed = TRUE /\ story' # NoStory /\ UNCHANGED story.retry
          /\ \A f \in Findings : story'.open[f].st = "fresh" => hub'.replies[f] = 0
          /\ \A f \in Findings : hub'.replies[f] \in {0, hub.replies[f]}
          /\ UNCHANGED <<pc, hub.head, hist.asked, hist.torn>> /\ hist'.passes = hist.passes + 1
      BY <1>1, <2>1, <2>3, <3>1, SettleUnarmedType, ArmedType, Values DEF Typed
    <3>3. hist.passes = 0 /\ \A f \in Findings : hist.torn[f] \in Nat
      BY <2>1, Values DEF Once, Typed, Hists, Threads
    <3> QED
      BY <2>1, <3>2, <3>3, Values DEF Once, DoneOnce
  <2> QED
    BY <2>2, <2>3
<1>2. CASE SettleNothing
  BY <1>2, StayType, Values DEF SettleNothing, DecisionsUnarmed, world, disk,
     Typed, Gits, Hubs, Hists, Once, DoneOnce, Placed, Checkout, Untouched,
     OnPullRequest, Syncing, Reading, Finishing
<1>3. CASE SettleBegins
  BY ZenonT(60), <1>3, PersonType, Values DEF SettleBegins, world, disk, Typed,
     Gits, Hubs, Hists, Once, DoneOnce, Placed, Checkout, Untouched,
     OnPullRequest, Syncing, Reading, Finishing
<1>4. CASE SettleResolvedThread
  <2>1. PICK f \in run.seen : Mark(f, "resolved")
    BY <1>4 DEF SettleResolvedThread
  <2>2. f \in Findings /\ story \in Stories
    BY <1>4, <2>1, SavedHere DEF SettleResolvedThread, Settling, Typed, Runs,
       OnPullRequest, Syncing, Reading, Finishing
  <2>3. /\ story' \in Stories /\ UNCHANGED <<story.retry, story.passed>>
        /\ \A g \in Findings :
              story'.open[g].st = "fresh" => story.open[g].st = "fresh"
    BY <2>1, <2>2, MarkedType
  <2>4. /\ UNCHANGED <<pc, run.task>>
        /\ UNCHANGED <<hub.head, hub.replies, hist.asked, hist.passes, hist.torn>>
    BY <1>4 DEF SettleResolvedThread, Handled, world, Typed, Runs, Hubs
  <2> QED
    BY <2>2, <2>3, <2>4, OnceKept, Values
<1>5. CASE SettleRemains
  BY <1>5, Values DEF SettleRemains, Settling, world, disk, PutOff, Typed,
     Gits, Hubs, Hists, Once, DoneOnce, Placed, Checkout, Untouched,
     OnPullRequest, Syncing, Reading, Finishing
<1>6. CASE SettleReply
  <2>1. PICK f \in run.todo \ run.seen :
           /\ story.open[f].st = "fresh" /\ hub' = [hub EXCEPT !.replies[f] = @ + 1]
           /\ \E st \in {"postponed", "replied"} : Mark(f, st)
    BY <1>6 DEF SettleReply, PostReply
  <2>2. PICK st \in {"postponed", "replied"} : Mark(f, st)
    BY <2>1
  <2>3. f \in Findings /\ story \in Stories
    BY <1>6, <2>1, SavedHere DEF SettleReply, Settling, Typed, Runs,
       OnPullRequest, Syncing, Reading, Finishing
  <2>4. /\ story' \in Stories /\ UNCHANGED <<story.retry, story.passed>>
        /\ \A g \in Findings :
              story'.open[g].st = "fresh" => g # f /\ story.open[g].st = "fresh"
    BY <2>2, <2>3, MarkedType
  <2>5. /\ UNCHANGED <<pc, run, hub.head, hist.asked, hist.passes, hist.torn>>
        /\ \A g \in Findings :
              hub'.replies[g] = IF g = f THEN hub.replies[f] + 1 ELSE hub.replies[g]
    BY <1>6, <2>1, <2>3, PostType DEF SettleReply, PostReply, Typed, Hubs,
       Hists
  <2>6. hub.replies[f] <= hist.torn[f]
    BY <2>1, <2>3, Values DEF Once, DoneOnce
  <2>7. \A g \in Findings : hub.replies[g] \in Nat /\ hist.torn[g] \in Nat
    BY DEF Typed, Hubs, Hists, Threads
  <2>8. DoneOnce'
    BY <2>5, <2>6, <2>7 DEF Once, DoneOnce
  <2> QED
    BY <2>1, <2>3, <2>4, <2>5, <2>7, <2>8, Values DEF Once
<1>7. CASE SettleResolve
  <2>1. PICK f \in run.todo \ run.seen : Mark(f, "resolved")
    BY <1>7 DEF SettleResolve
  <2>2. f \in Findings /\ story \in Stories
    BY <1>7, <2>1, SavedHere DEF SettleResolve, Settling, Typed, Runs,
       OnPullRequest, Syncing, Reading, Finishing
  <2>3. /\ story' \in Stories /\ UNCHANGED <<story.retry, story.passed>>
        /\ \A g \in Findings :
              story'.open[g].st = "fresh" => story.open[g].st = "fresh"
    BY <2>1, <2>2, MarkedType
  <2>4. /\ UNCHANGED <<pc, run.task>>
        /\ UNCHANGED <<hub.head, hub.replies, hist.asked, hist.passes, hist.torn>>
    BY <1>7 DEF SettleResolve, Handled, Resolve, Typed, Runs, Hubs
  <2> QED
    BY <2>2, <2>3, <2>4, OnceKept, Values
<1>8. CASE SettleEnds
  <2>1. CASE PauseForPerson
    BY <2>1, PersonType DEF Once, DoneOnce, Typed
  <2>2. CASE ~PauseForPerson
    <3>1. story \in Stories
      BY <1>8, SavedHere DEF SettleEnds, Settling, OnPullRequest, Syncing,
         Reading, Finishing
    <3>2. /\ story' \in Stories /\ UNCHANGED <<story.retry, story.passed, hub, hist>>
          /\ pc' \in {"up", "merge"}
          /\ \A f \in Findings : story'.open[f].st = "fresh" => story.open[f].st = "fresh"
      BY <1>8, <2>2, <3>1, SettleEndsType DEF Gone
    <3> QED
      BY <3>1, <3>2, OnceKept, Values
  <2> QED
    BY <2>1, <2>2
<1> QED
  BY <1>1, <1>2, <1>3, <1>4, <1>5, <1>6, <1>7, <1>8 DEF SettleSteps

LEMMA LoopTopOnce ==
  ASSUME Typed, Placed, Checkout, Once, AtHead, LoopTop
  PROVE  Once'
<1>1. CASE OrphanMerged
  BY <1>1, CleanUpType, Values DEF OrphanMerged, Orphaned, MovesOn, Typed,
     Gits, Hubs, Hists, Once, DoneOnce, Placed, Checkout, Untouched,
     OnPullRequest, Syncing, Reading, Finishing
<1>2. CASE OrphanToPlanner
  <2>1. story # NoStory /\ ~story.passed
    BY <1>2, RoutedType, Values DEF OrphanToPlanner, OrphanRecoverable
  <2>2. hist.passes = 0
    BY <2>1 DEF Once
  <2>3. \A f \in Findings : hist.torn[f] \in Nat
    BY Values DEF Typed, Hists, Threads
  <2>4. /\ pc' = "deferral" /\ story' # NoStory /\ story'.passed
        /\ UNCHANGED <<story.retry, hub.head, hist.asked, hist.torn>>
        /\ hist'.passes = hist.passes + 1
        /\ \A f \in Findings : story'.open[f].st = "fresh" => hub'.replies[f] = 0
        /\ \A f \in Findings : hub'.replies[f] \in {0, hub.replies[f]}
    BY <1>2, RoutedType
  <2>5. DoneOnce'
    BY <2>2, <2>3, <2>4 DEF Once, DoneOnce
  <2> QED
    BY <2>1, <2>3, <2>4, <2>5 DEF Once
<1>3. CASE OrphanBlocked
  BY <1>3, StayType, Values DEF OrphanBlocked, Orphaned, MovesOn, world, disk,
     Typed, Gits, Hubs, Hists, Once, DoneOnce, Placed, Checkout, Untouched,
     OnPullRequest, Syncing, Reading, Finishing
<1>4. CASE NextStory
  BY <1>4, StayType, Values DEF NextStory, world, disk, Ends, Typed, Gits,
     Hubs, Hists, Once, DoneOnce, Placed, Checkout, Untouched, OnPullRequest,
     Syncing, Reading, Finishing
<1> QED
  BY <1>1, <1>2, <1>3, <1>4 DEF LoopTop

LEMMA MergeCommitOnce ==
  ASSUME Typed, Placed, Checkout, Once, AtHead, MergeCommitSteps
  PROVE  Once'
<1>1. CASE SwitchToBase
  BY <1>1, Values DEF SwitchToBase, disk, Typed, Gits, Hubs, Hists, Once,
     DoneOnce, Placed, Checkout, Untouched, OnPullRequest, Syncing, Reading,
     Finishing
<1>2. CASE MergeLocally
  <2>1. hist.asked = 0 /\ hist.torn[Person] \in Nat
    BY <1>2 DEF MergeLocally, Checkout, Placed, Finishing, Typed, Hists,
       Threads
  <2>2. /\ pc' \in {"delete", "down"}
        /\ UNCHANGED <<story, hub.replies, hist>>
    BY <1>2 DEF MergeLocally, Ends, disk, Typed, Hubs
  <2> QED
    BY <2>1, <2>2 DEF Once, DoneOnce
<1>3. CASE DeleteMergedBranch
  BY <1>3, Values DEF DeleteMergedBranch, disk, Typed, Gits, Hubs, Hists, Once,
     DoneOnce, Placed, Checkout, Untouched, OnPullRequest, Syncing, Reading,
     Finishing
<1>4. CASE ClearState
  BY <1>4, Values DEF ClearState, world, Typed, Gits, Hubs, Hists, Once,
     DoneOnce, Placed, Checkout, Untouched, OnPullRequest, Syncing, Reading,
     Finishing
<1> QED
  BY <1>1, <1>2, <1>3, <1>4 DEF MergeCommitSteps

LEMMA StartOnce ==
  ASSUME Typed, Placed, Checkout, Once, AtHead, StartSteps
  PROVE  Once'
<1>1. CASE Start
  BY <1>1, Values DEF Start, disk, Typed, Gits, Hubs, Hists, Once, DoneOnce,
     Placed, Checkout, Untouched, OnPullRequest, Syncing, Reading, Finishing
<1>2. CASE PersonTakesOver
  BY <1>2, StayType, Values DEF PersonTakesOver, world, disk, Typed, Gits,
     Hubs, Hists, Once, DoneOnce, Placed, Checkout, Untouched, OnPullRequest,
     Syncing, Reading, Finishing
<1>3. CASE ResumeReviewRetry
  BY <1>3, StayType, Values DEF ResumeReviewRetry, Resuming, world, disk,
     Typed, Gits, Hubs, Hists, Once, DoneOnce, Placed, Checkout, Untouched,
     OnPullRequest, Syncing, Reading, Finishing
<1>4. CASE ResumePaused
  <2>1. story \in Stories
    BY <1>4, SavedHere DEF ResumePaused, Resuming, OnPullRequest, Syncing,
       Reading, Finishing
  <2>2. /\ story' \in {story, [story EXCEPT !.paused = "none"]}
        /\ pc' \in {"up", "down", "begin"} /\ UNCHANGED <<hub, hist>>
    BY <1>4 DEF ResumePaused, PauseKept, Goto, Ends, disk, world
  <2>3. story' \in Stories /\ UNCHANGED <<story.retry, story.passed, story.open>>
    BY <2>1, <2>2 DEF Stories
  <2> QED
    BY <2>1, <2>2, <2>3, OnceKept, Values
<1>5. CASE NothingToResume
  BY <1>5, StayType, Values DEF NothingToResume, InterruptedPublish, Resuming,
     world, disk, Typed, Gits, Hubs, Hists, Once, DoneOnce, Placed, Checkout,
     Untouched, OnPullRequest, Syncing, Reading, Finishing
<1>6. CASE InterruptedBlocked
  BY <1>6, KeptType, Values DEF InterruptedBlocked, InterruptedPublish,
     Resuming, world, Typed, Gits, Hubs, Hists, Once, DoneOnce, Placed,
     Checkout, Untouched, OnPullRequest, Syncing, Reading, Finishing
<1>7. CASE InterruptedMerged
  BY <1>7, CleanUpType, Values DEF InterruptedMerged, InterruptedPublish,
     Resuming, Typed, Gits, Hubs, Hists, Once, DoneOnce, Placed, Checkout,
     Untouched, OnPullRequest, Syncing, Reading, Finishing
<1>8. CASE InterruptedConfirm
  BY <1>8, StayType, Values DEF InterruptedConfirm, InterruptedPublish,
     Resuming, world, disk, Typed, Gits, Hubs, Hists, Once, DoneOnce, Placed,
     Checkout, Untouched, OnPullRequest, Syncing, Reading, Finishing
<1>9. CASE ResumeMergeCommit
  BY <1>9, KeptType, StayType, Values DEF ResumeMergeCommit,
     InterruptedMergeCommit, world, disk, Typed, Gits, Hubs, Hists, Once,
     DoneOnce, Placed, Checkout, Untouched, OnPullRequest, Syncing, Reading,
     Finishing
<1> QED
  BY <1>1, <1>2, <1>3, <1>4, <1>5, <1>6, <1>7, <1>8, <1>9 DEF StartSteps

LEMMA OthersOnce ==
  ASSUME Typed, Placed, Checkout, Once, AtHead, Others
  PROVE  Once'
<1>1. CASE RunEnds
  BY <1>1, Values DEF RunEnds, Ends, world, disk, Bounded, Typed, Gits, Hubs,
     Hists, Once, DoneOnce, Placed, Checkout, Untouched, OnPullRequest,
     Syncing, Reading, Finishing
<1>2. CASE ReplyUnsaved
  <2>1. PICK f \in run.todo : /\ hub' = [hub EXCEPT !.replies[f] = @ + 1]
                             /\ hist' = [hist EXCEPT !.torn[f] = @ + 1]
    BY <1>2 DEF ReplyUnsaved
  <2>2. f \in Findings /\ f # Person
    BY <2>1, FindingsAssumption DEF Typed, Runs, FindingsAssumption
  <2>3. \A t \in Threads : hist'.torn[t] = IF t = f THEN hist.torn[f] + 1 ELSE hist.torn[t]
    BY <2>1 DEF Typed, Hists
  <2>4. \A g \in Findings :
          hub'.replies[g] = IF g = f THEN hub.replies[f] + 1 ELSE hub.replies[g]
    BY <2>1, <2>2 DEF Typed, Hubs
  <2>5. pc' = "down" /\ UNCHANGED <<hub.head, hist.asked, hist.passes, story>>
    BY <1>2, <2>1 DEF ReplyUnsaved, Ends, disk, Typed, Hubs, Hists
  <2>6. \A g \in Findings : hub.replies[g] \in Nat /\ hist.torn[g] \in Nat
    BY Values DEF Typed, Hubs, Hists, Threads
  <2>7. Person \in Threads /\ Findings \subseteq Threads
    BY Values DEF Threads
  <2> QED
    BY <2>2, <2>3, <2>4, <2>5, <2>6, <2>7 DEF Once, DoneOnce
<1>3. CASE ReplyFails
  BY <1>3, Values DEF ReplyFails, Ends, world, disk, Typed, Gits, Hubs, Hists,
     Once, DoneOnce, Placed, Checkout, Untouched, OnPullRequest, Syncing,
     Reading, Finishing
<1>4. CASE RequestUnsaved
  <2>1. story # NoStory /\ hub.head = git.branch /\ story.retry # git.branch
    BY <1>4 DEF RequestUnsaved, Reviewing, AtHead, Publishing, Placed, Reading,
       Syncing, OnPullRequest
  <2>2. /\ hist'.asked = hist.asked + 1 /\ UNCHANGED hist.passes
        /\ \A t \in Threads :
              hist'.torn[t] = IF t = Person THEN hist.torn[t] + 1 ELSE hist.torn[t]
    BY <1>4 DEF RequestUnsaved, Typed, Hists
  <2>3. pc' = "down" /\ UNCHANGED <<hub.head, hub.replies, story>>
    BY <1>4 DEF RequestUnsaved, Ends, disk, Typed, Hubs
  <2>4. hist.asked \in Nat /\ \A t \in Threads : hist.torn[t] \in Nat
    BY Values DEF Typed, Hists
  <2>5. Person \in Threads /\ Findings \subseteq Threads /\ Person \notin Findings
    BY FindingsAssumption DEF Threads, FindingsAssumption
  <2> QED
    BY <2>1, <2>2, <2>3, <2>4, <2>5 DEF Once, DoneOnce
<1>5. CASE CodexReviews
  BY <1>5, Values DEF CodexReviews, disk, Typed, Gits, Hubs, Hists, Once,
     DoneOnce, Placed, Checkout, Untouched, OnPullRequest, Syncing, Reading,
     Finishing
<1>6. CASE BaseMoves
  BY <1>6, Values DEF BaseMoves, disk, Bounded, Typed, Gits, Hubs, Hists, Once,
     DoneOnce, Placed, Checkout, Untouched, OnPullRequest, Syncing, Reading,
     Finishing
<1>7. CASE OnGitHub
  BY <1>7, Values DEF OnGitHub, Orphaned, MovesOn, disk, Bounded, Typed, Gits,
     Hubs, Hists, Once, DoneOnce, Placed, Checkout, Untouched, OnPullRequest,
     Syncing, Reading, Finishing
<1>8. CASE AtCheckout
  BY <1>8, CommitType, Values DEF AtCheckout, disk, Bounded, Kinds, Typed,
     Gits, Hubs, Hists, Once, DoneOnce, Placed, Checkout, Untouched,
     OnPullRequest, Syncing, Reading, Finishing
<1>9. CASE PersonMergesBase
  BY <1>9, CommitType, Values DEF PersonMergesBase, disk, Kinds, Typed, Gits,
     Hubs, Hists, Once, DoneOnce, Placed, Checkout, Untouched, OnPullRequest,
     Syncing, Reading, Finishing
<1>10. CASE Tidied
  BY <1>10, Values DEF Tidied, disk, Typed, Gits, Hubs, Hists, Once, DoneOnce,
     Placed, Checkout, Untouched, OnPullRequest, Syncing, Reading, Finishing
<1>11. CASE PersonRoutes
  BY <1>11, Values DEF PersonRoutes, world, Typed, Gits, Hubs, Hists, Once,
     DoneOnce, Placed, Checkout, Untouched, OnPullRequest, Syncing, Reading,
     Finishing
<1> QED
  BY <1>1, <1>2, <1>3, <1>4, <1>5, <1>6, <1>7, <1>8, <1>9, <1>10, <1>11
     DEF Others

LEMMA OnceStep ==
  ASSUME Typed, Placed, Checkout, Once, AtHead, [Next]_vars
  PROVE  Once'
<1>1. CASE UNCHANGED vars
  BY <1>1 DEF vars, Once, DoneOnce
<1>2. CASE StoryOver
  BY <1>2 DEF StoryOver, vars, Once, DoneOnce
<1> QED
  BY <1>1, <1>2, RoleOnce, PublishOnce, AnswerOnce, ReviewOnce,
     MergeOnce, SettleOnce, LoopTopOnce, MergeCommitOnce, StartOnce,
     OthersOnce
     DEF Next

-----------------------------------------------------------------------------
(* Each step keeps the publish on the audited commit.                          *)

(* What leaves the branch, the audit and the handoff alone keeps this much.    *)
LEMMA AuditKept ==
  ASSUME AtAudit, UNCHANGED <<git.branch, hist.audited>>,
         git'.cut \/ git'.landed => git.cut \/ git.landed,
         handoff' = handoff \/ handoff'.kind # "pass",
         story' # NoStory =>
           /\ story # NoStory /\ UNCHANGED story.retry
           /\ story'.paused # "none" =>
                /\ UNCHANGED <<story.paused, story.pausedAt>>
                /\ pc' \notin Away => pc \notin Away /\ UNCHANGED git.at,
         pc' = "decided" \/ run'.task = "settle" =>
           handoff'.kind # "pass" \/ (pc = "decided" \/ run.task = "settle"),
         Publishing' \/ pc' \in {"switch", "mergeLocally"}
           \/ (pc' = "begin" /\ git'.at = "story" /\ handoff'.kind = "pass") =>
           OnlyMerges(hist.audited, git.branch)
  PROVE  AtAudit'
BY DEF AtAudit

(* A commit on top of the branch.                                              *)
LEMMA AuditAppend ==
  ASSUME Typed, AtAudit, NEW kind \in Kinds,
         git'.branch = Append(git.branch, kind), UNCHANGED hist.audited,
         UNCHANGED <<git.at, git.cut, git.landed, story>>,
         handoff' = handoff \/ handoff'.kind # "pass",
         pc' \notin Away => pc \notin Away,
         pc' = "decided" \/ run'.task = "settle" =>
           handoff'.kind # "pass" \/ (pc = "decided" \/ run.task = "settle"),
         Publishing' \/ pc' \in {"switch", "mergeLocally"}
           \/ (pc' = "begin" /\ git'.at = "story" /\ handoff'.kind = "pass") =>
           kind \in {"merge", "resolved"} /\ OnlyMerges(hist.audited, git.branch)
  PROVE  AtAudit'
<1>1. hist.audited \in Commits /\ git.branch \in Commits
  BY DEF Typed, Gits, Hists
<1>2. Built(hist.audited, git.branch) => Built(hist.audited, Append(git.branch, kind))
  BY <1>1, BuiltAppend
<1>3. OnlyMerges(hist.audited, git.branch) /\ kind \in {"merge", "resolved"} =>
        OnlyMerges(hist.audited, Append(git.branch, kind))
  BY <1>1, OnlyMergesAppend
<1>4. story # NoStory =>
        (IsPrefix(story.pausedAt, git.branch) =>
           IsPrefix(story.pausedAt, Append(git.branch, kind)))
  BY <1>1, PrefixAppend DEF Typed, Stories
<1> QED BY <1>2, <1>3, <1>4 DEF AtAudit

LEMMA RoleAudited ==
  ASSUME Typed, Placed, Checkout, AtAudit, RoleSteps
  PROVE  AtAudit'
<1>1. CASE EnsureStoryBranch
  <2>1. /\ pc = "up" /\ pc' = "impl" /\ run' = Idle /\ handoff' = handoff
        /\ handoff.kind = "work" /\ hist' = hist
    BY <1>1 DEF EnsureStoryBranch, Placed, Resting
  <2>2. CASE git.at = "base" /\ ~git.cut /\ story' = FreshStory
    <3>1. git'.branch = git.loose /\ git'.cut
      BY <1>1, <2>2 DEF EnsureStoryBranch, Typed, Gits
    <3>2. Built(hist.audited, git.loose)
      <4>1. hist.audited \in Commits /\ git.branch \in Commits /\ git.loose \in Commits
        BY Values DEF Typed, Gits, Hists
      <4>2. hist.audited \in {NoCommit, git.loose}
        BY <1>1, <2>2 DEF EnsureStoryBranch, Checkout, Untouched
      <4> QED
        BY <4>1, <4>2, ItsOwn DEF Built
    <3>3. Sound(hist.audited, NoCommit)
      BY SoundFacts DEF Typed, Hists
    <3>4. FreshStory.retry = NoCommit /\ FreshStory.paused = "none"
      BY Values DEF FreshStory
    <3> QED
      BY <2>1, <2>2, <3>1, <3>2, <3>3, <3>4 DEF Idle, AtAudit, Away,
         Publishing, Syncing, Reading
  <2>3. CASE UNCHANGED story /\ git' = [git EXCEPT !.at = "story"] /\ (git.at = "story" \/ git.cut)
    <3>1. git'.branch = git.branch /\ git'.at = "story" /\ git.cut
      BY <2>3 DEF Checkout, Typed, Gits
    <3> QED
      BY <2>1, <2>3, <3>1 DEF Idle, AtAudit, Away, Publishing, Syncing, Reading
  <2> QED
    BY <1>1, <2>2, <2>3 DEF EnsureStoryBranch
<1>2. CASE ImplementerClaims
  <2>1. /\ pc = "impl" /\ pc' = "up" /\ run' = Idle /\ handoff'.kind = "claim"
        /\ UNCHANGED <<story, hist>>
    BY <1>2 DEF ImplementerClaims, Placed, Resting
  <2>2. CASE UNCHANGED git
    BY <2>1, <2>2, AuditKept DEF Idle, Away, Publishing, Syncing, Reading
  <2>3. CASE Commit("work")
    <3>1. "work" \in Kinds /\ git'.branch = Append(git.branch, "work")
          /\ UNCHANGED <<git.at, git.cut, git.landed>>
      BY <2>3, CommitType DEF Kinds, Typed
    <3> QED
      BY <2>1, <3>1, AuditAppend DEF Idle, Away, Publishing, Syncing, Reading
  <2> QED
    BY <1>2, <2>2, <2>3 DEF ImplementerClaims
<1>3. CASE ImplementerBlocks
  BY <1>3, Values DEF ImplementerBlocks, world, AtAudit, Away, Publishing,
     Syncing, Reading, Typed, Gits, Hists, Placed, Checkout, OnPullRequest,
     Finishing, Resting
<1>4. CASE DeferBlockedHandback
  <2>1. CASE Goto("up")
    BY <1>4, <2>1, StayType, AuditKept DEF DeferBlockedHandback, Placed,
       Resting, Idle, Away, Publishing, Syncing, Reading
  <2>2. CASE PauseKept(story)
    BY <2>2, KeptType, AuditKept DEF Away, Idle, Publishing, Syncing, Reading
  <2>3. CASE responses' = Merged(handoff.said) /\ pc' = "answer"
    <3>1. /\ run'.task = "deferral" /\ pc = "handback"
          /\ UNCHANGED <<git, story, handoff, hist>>
      BY <1>4, <2>3 DEF DeferBlockedHandback, Goto, PauseKept, Ends, Idle,
         world
    <3> QED
      BY <2>3, <3>1, AuditKept DEF Away, Publishing
  <2> QED
    BY <1>4, <2>1, <2>2, <2>3 DEF DeferBlockedHandback
<1>5. CASE Audit
  <2>1. pc = "up" /\ run = Idle /\ handoff.kind = "claim" /\ UNCHANGED <<story, git>>
    BY <1>5 DEF Audit, world, Placed, Resting
  <2>2. CASE UNCHANGED hist /\ UNCHANGED pc /\ UNCHANGED run /\ handoff'.kind = "work"
    BY <2>1, <2>2, AuditKept DEF Idle, Publishing, Syncing, Reading
  <2> DEFINE audits == git.at = "story" \/ git.loose # NoCommit
             head == IF git.at = "story" THEN git.branch ELSE git.loose
  <2>3. CASE /\ pc' = "begin" /\ run' = Idle
             /\ handoff' = [kind |-> "pass", scope |-> head, said |-> Silence]
             /\ hist' = [hist EXCEPT !.audited = IF audits THEN head ELSE @]
    <3>1. /\ hist.audited \in Commits /\ git.branch \in Commits
          /\ hist'.audited = IF audits THEN head ELSE hist.audited
      BY <2>3 DEF Typed, Gits, Hists
    <3>2. CASE git.at = "story"
      <4>1. hist'.audited = git.branch /\ handoff'.scope = git.branch /\ git.cut
        BY <2>3, <3>1, <3>2 DEF Checkout
      <4>2. Built(git.branch, git.branch) /\ OnlyMerges(git.branch, git.branch)
        BY <3>1, ItsOwn
      <4>3. Built(hist.audited, git.branch)
        BY <4>1 DEF AtAudit
      <4>4. story # NoStory =>
              /\ Sound(git.branch, story.retry)
              /\ story.paused # "none" =>
                   Sound(git.branch, story.pausedAt) /\ IsPrefix(story.pausedAt, git.branch)
        <5>1. story # NoStory => story.retry \in Commits /\ story.pausedAt \in Commits
          BY Values DEF Typed, Stories
        <5>2. story # NoStory => Sound(git.branch, story.retry)
          BY <3>1, <4>3, <5>1, SoundLater DEF AtAudit
        <5>3. story # NoStory /\ story.paused # "none" => IsPrefix(story.pausedAt, git.branch)
          BY <2>1 DEF AtAudit, Away
        <5> QED
          BY <3>1, <5>1, <5>2, <5>3, SoundFacts
      <4> QED
        BY <2>1, <2>3, <3>2, <4>1, <4>2, <4>4 DEF Idle, AtAudit, Away,
           Publishing, Syncing, Reading
    <3>3. CASE git.at # "story"
      <4>1. handoff'.scope = git.loose
        BY <2>3, <3>3
      <4>2. CASE git.loose # NoCommit
        <5>1. ~git.cut /\ ~git.landed /\ story = NoStory /\ hist'.audited = git.loose
          BY <3>1, <3>3, <4>2 DEF Checkout, Untouched
        <5> QED
          BY <2>1, <2>3, <3>3, <4>1, <5>1 DEF Idle, AtAudit, Away, Publishing,
             Syncing, Reading
      <4>3. CASE git.loose = NoCommit
        <5>1. hist'.audited = hist.audited
          BY <3>1, <3>3, <4>3
        <5>2. story # NoStory => story.paused = "none"
          BY <2>1, <3>3 DEF AtAudit, Away
        <5> QED
          BY <2>1, <2>3, <3>3, <4>1, <4>3, <5>1, <5>2 DEF Idle, AtAudit, Away,
             Publishing, Syncing, Reading
      <4> QED
        BY <4>2, <4>3
    <3> QED
      BY <3>2, <3>3
  <2> QED
    BY <1>5, <2>2, <2>3 DEF Audit
<1>6. CASE PlannerRuns
  BY <1>6, Values DEF PlannerRuns, world, AtAudit, Away, Publishing, Syncing,
     Reading, Typed, Gits, Hists, Placed, Checkout, OnPullRequest, Finishing,
     Resting
<1> QED
  BY <1>1, <1>2, <1>3, <1>4, <1>5, <1>6 DEF RoleSteps

LEMMA PublishAudited ==
  ASSUME Typed, Placed, Checkout, AtAudit, PublishSteps
  PROVE  AtAudit'
<1>1. CASE AdoptBaseBranchStory
  <2>1. /\ pc' = "sync" /\ run' = Idle /\ story' = FreshStory
        /\ UNCHANGED <<handoff, hist>>
    BY <1>1 DEF AdoptBaseBranchStory, Placed, Resting
  <2>2. git'.branch = git.loose
    BY <1>1 DEF AdoptBaseBranchStory, Typed, Gits
  <2>3. handoff.kind = "pass" /\ handoff.scope = git.loose /\ git.loose # NoCommit
    BY <1>1 DEF AdoptBaseBranchStory, Adoptable, AuditedStoryCommit
  <2>4. hist.audited = git.loose
    BY <2>3 DEF AtAudit, Checkout, Untouched
  <2>5. hist.audited \in Commits
    BY Values DEF Typed, Hists
  <2>6. /\ Built(hist.audited, git.loose) /\ OnlyMerges(hist.audited, git.loose)
        /\ Sound(hist.audited, NoCommit)
    BY <2>4, <2>5, ItsOwn, SoundFacts
  <2>7. FreshStory.retry = NoCommit /\ FreshStory.paused = "none"
    BY Values DEF FreshStory
  <2> QED
    BY <2>1, <2>2, <2>3, <2>4, <2>6, <2>7 DEF Idle, AtAudit, Away, Publishing,
       Syncing, Reading
<1>2. CASE EpicCloseMerged
  BY <1>2, StayType, Values DEF EpicCloseMerged, world, disk, AtAudit, Away,
     Publishing, Syncing, Reading, Typed, Gits, Hists, Placed, Checkout,
     OnPullRequest, Finishing, Resting
<1>3. CASE PublishRefused
  BY <1>3, Values DEF PublishRefused, Ends, world, disk, AtAudit, Away,
     Publishing, Syncing, Reading, Typed, Gits, Hists, Placed, Checkout,
     OnPullRequest, Finishing, Resting
<1>4. CASE PublishBegins
  <2>1. CASE Goto("up")
    BY <1>4, <2>1, StayType, AuditKept DEF PublishBegins, Placed, Resting,
       Idle, Away, Publishing, Syncing, Reading
  <2>2. CASE AuditedStoryCommit /\ CheckedOut
    <3>1. /\ story \in Stories /\ pc = "begin" /\ run = Idle
          /\ OnlyMerges(hist.audited, git.branch)
      BY <1>4, <2>2 DEF PublishBegins, CheckedOut, AuditedStoryCommit, Typed,
         AtAudit, Placed, Resting
    <3>2. story' \in {story, [story EXCEPT !.paused = "none", !.pausedAt = NoCommit]}
      BY <1>4 DEF PublishBegins, Goto, disk
    <3>3. /\ story' = story \/ (UNCHANGED story.retry /\ story'.paused = "none")
          /\ pc' \in {"switch", "sync"} /\ UNCHANGED <<git, handoff, hist>>
      BY <1>4, <2>2, <3>1, <3>2 DEF PublishBegins, AuditedStoryCommit, Stories,
         world
    <3>4. run'.task = "publish"
      BY <1>4, <2>2, <3>1 DEF PublishBegins, AuditedStoryCommit, Idle
    <3> QED
      BY <3>1, <3>3, <3>4, AuditKept, Values DEF Away
  <2> QED
    BY <1>4, <2>1, <2>2 DEF PublishBegins
<1>5. CASE SetAsidePause
  <2>1. story \in Stories
    BY <1>5, SavedHere DEF SetAsidePause, OnPullRequest, Syncing, Reading,
       Finishing
  <2>2. /\ pc' = "down" /\ run' = Idle /\ story' = Paused
        /\ UNCHANGED <<git.branch, git.at, git.cut, git.landed, handoff, hist>>
    BY <1>5 DEF SetAsidePause, PauseKept, Ends, world, Typed, Gits
  <2>3. /\ Paused.pausedAt = git.branch /\ Paused.retry = story.retry
        /\ hist.audited \in Commits /\ git.branch \in Commits
    BY <2>1, PausedType DEF Typed, Gits, Hists
  <2>4. handoff.kind = "pass" => OnlyMerges(hist.audited, git.branch)
    BY <1>5 DEF SetAsidePause, AtAudit, Placed, Typed, Runs, Publishing,
       Syncing, Reading
  <2>5. handoff.kind = "pass" => Sound(hist.audited, git.branch)
    BY <2>3, <2>4, SoundFacts
  <2> QED
    BY <2>1, <2>2, <2>3, <2>5, Values DEF Idle, AtAudit, Away, Publishing,
       Syncing, Reading
<1>6. CASE SyncNothing
  BY <1>6, StayType, Values DEF SyncNothing, world, disk, AtAudit, Away,
     Publishing, Syncing, Reading, Typed, Gits, Hists, Placed, Checkout,
     OnPullRequest, Finishing, Resting
<1>7. CASE SyncClean
  <2>1. pc = "sync" /\ pc' = "push" /\ UNCHANGED <<run, story, handoff, hist>>
    BY <1>7 DEF SyncClean, disk
  <2>2. CASE UNCHANGED git
    BY <2>1, <2>2, AuditKept DEF AtAudit, Away, Publishing, Syncing, Reading
  <2>3. CASE Commit("merge")
    <3>1. "merge" \in Kinds /\ git'.branch = Append(git.branch, "merge")
          /\ UNCHANGED <<git.at, git.cut, git.landed>>
      BY <2>3, CommitType DEF Kinds, Typed
    <3> QED
      BY <2>1, <3>1, AuditAppend DEF AtAudit, Away, Publishing, Syncing,
         Reading
  <2> QED
    BY <1>7, <2>2, <2>3 DEF SyncClean
<1>8. CASE SyncConflict
  <2>1. story \in Stories
    BY <1>8, SavedHere DEF SyncConflict, OnPullRequest, Syncing, Reading,
       Finishing
  <2>2. /\ pc' = "down" /\ run' = Idle /\ story' = Paused
        /\ UNCHANGED <<git.branch, git.at, git.cut, git.landed, handoff, hist>>
    BY <1>8 DEF SyncConflict, PauseKept, Ends, world, Typed, Gits
  <2>3. /\ Paused.pausedAt = git.branch /\ Paused.retry = story.retry
        /\ hist.audited \in Commits /\ git.branch \in Commits
    BY <2>1, PausedType DEF Typed, Gits, Hists
  <2>4. handoff.kind = "pass" => OnlyMerges(hist.audited, git.branch)
    BY <1>8 DEF SyncConflict, AtAudit, Placed, Typed, Runs, Publishing,
       Syncing, Reading
  <2>5. handoff.kind = "pass" => Sound(hist.audited, git.branch)
    BY <2>3, <2>4, SoundFacts
  <2> QED
    BY <2>1, <2>2, <2>3, <2>5, Values DEF Idle, AtAudit, Away, Publishing,
       Syncing, Reading
<1>9. CASE SyncStateConflict
  BY <1>9, Values DEF SyncStateConflict, disk, AtAudit, Away, Publishing,
     Syncing, Reading, Typed, Gits, Hists, Placed, Checkout, OnPullRequest,
     Finishing, Resting
<1>10. CASE StateConflictResolved
  <2>1. pc = "resolving" /\ pc' = "push" /\ UNCHANGED <<run.task, story, handoff, hist>>
    BY <1>10 DEF StateConflictResolved, disk, Typed, Runs
  <2>2. "resolved" \in Kinds /\ git'.branch = Append(git.branch, "resolved")
        /\ UNCHANGED <<git.at, git.cut, git.landed>>
    BY <1>10 DEF StateConflictResolved, Kinds, Typed, Gits
  <2> QED
    BY <2>1, <2>2, AuditAppend DEF AtAudit, Away, Publishing, Syncing, Reading
<1>11. CASE StateConflictUnresolved
  <2>1. story \in Stories
    BY <1>11, SavedHere DEF StateConflictUnresolved, OnPullRequest, Syncing,
       Reading, Finishing
  <2>2. /\ pc' = "down" /\ run' = Idle /\ story' = Paused
        /\ UNCHANGED <<git.branch, git.at, git.cut, git.landed, handoff, hist>>
    BY <1>11 DEF StateConflictUnresolved, PauseKept, Ends, world, Typed, Gits
  <2>3. /\ Paused.pausedAt = git.branch /\ Paused.retry = story.retry
        /\ hist.audited \in Commits /\ git.branch \in Commits
    BY <2>1, PausedType DEF Typed, Gits, Hists
  <2>4. handoff.kind = "pass" => OnlyMerges(hist.audited, git.branch)
    BY <1>11 DEF StateConflictUnresolved, AtAudit, Placed, Typed, Runs,
       Publishing, Syncing, Reading
  <2>5. handoff.kind = "pass" => Sound(hist.audited, git.branch)
    BY <2>3, <2>4, SoundFacts
  <2> QED
    BY <2>1, <2>2, <2>3, <2>5, Values DEF Idle, AtAudit, Away, Publishing,
       Syncing, Reading
<1>12. CASE DropEmptyStoryBranch
  <2>1. git.cut
    BY <1>12 DEF DropEmptyStoryBranch, Checkout, OnPullRequest, Syncing
  <2>2. /\ pc' = "up" /\ run' = Idle /\ story' = NoStory
        /\ UNCHANGED <<git.branch, handoff, hist.audited>>
    BY <1>12 DEF DropEmptyStoryBranch, Typed, Gits, Hists
  <2> QED
    BY <2>1, <2>2, AuditKept DEF Away, Idle, Publishing, Syncing, Reading
<1>13. CASE Push
  BY <1>13, Values DEF Push, disk, AtAudit, Away, Publishing, Syncing, Reading,
     Typed, Gits, Hists, Placed, Checkout, OnPullRequest, Finishing, Resting
<1>14. CASE PushRejected
  <2>1. /\ pc' = "down" /\ run' = Idle
        /\ UNCHANGED <<git, story, handoff, hist.audited>>
    BY <1>14 DEF PushRejected, Ends, Bounded, world, disk
  <2> QED
    BY <2>1, AuditKept DEF Away, Idle, Publishing, Syncing, Reading
<1>15. CASE OpenPullRequest
  <2>1. run.task = "publish" /\ OnlyMerges(hist.audited, git.branch)
    BY <1>15 DEF OpenPullRequest, Placed, AtAudit, Publishing, Syncing, Reading
  <2>2. run' = Idle \/ run'.task = run.task
    BY <1>15 DEF OpenPullRequest, Ends, Typed, Runs
  <2>3. /\ pc = "open" /\ pc' \in {"down", "threads", "review", "answer"}
        /\ story' \in {story, NoStory} /\ UNCHANGED <<git, handoff, hist.audited>>
    BY <1>15 DEF OpenPullRequest, Ends, Typed, Hists
  <2> QED
    BY <2>1, <2>2, <2>3, AuditKept DEF Away, Idle, Publishing, Syncing, Reading
<1> QED
  BY <1>1, <1>2, <1>3, <1>4, <1>5, <1>6, <1>7, <1>8, <1>9, <1>10, <1>11, <1>12,
     <1>13, <1>14, <1>15 DEF PublishSteps

LEMMA AnswerAudited ==
  ASSUME Typed, Placed, Checkout, AtAudit, AnswerSteps
  PROVE  AtAudit'
<1>1. CASE AnswerResolvedThread
  BY <1>1, Values DEF AnswerResolvedThread, world, Mark, Handled, AtAudit,
     Away, Publishing, Syncing, Reading, Typed, Gits, Hists, Placed, Checkout,
     OnPullRequest, Finishing, Resting
<1>2. CASE AnswerMissing
  BY <1>2, Values DEF AnswerMissing, world, disk, PutOff, AtAudit, Away,
     Publishing, Syncing, Reading, Typed, Gits, Hists, Placed, Checkout,
     OnPullRequest, Finishing, Resting
<1>3. CASE AnswerReply
  BY <1>3, Values DEF AnswerReply, PostReply, Mark, AtAudit, Away, Publishing,
     Syncing, Reading, Typed, Gits, Hists, Placed, Checkout, OnPullRequest,
     Finishing, Resting
<1>4. CASE AnswerDeferred
  BY <1>4, Values DEF AnswerDeferred, world, disk, PutOff, AtAudit, Away,
     Publishing, Syncing, Reading, Typed, Gits, Hists, Placed, Checkout,
     OnPullRequest, Finishing, Resting
<1>5. CASE AnswerResolve
  <2>1. UNCHANGED story \/ \E f \in Findings : Mark(f, "resolved")
    BY <1>5 DEF AnswerResolve, Typed, Runs
  <2>2. story \in Stories
    BY <1>5, SavedHere DEF AnswerResolve, OnPullRequest, Syncing, Reading,
       Finishing
  <2>3. /\ story' \in Stories
        /\ UNCHANGED <<story.retry, story.paused, story.pausedAt>>
    BY <2>1, <2>2, MarkedType
  <2>4. UNCHANGED <<pc, run.task, git, handoff, hist>>
    BY <1>5 DEF AnswerResolve, Handled, Typed, Runs
  <2>5. Publishing' => Publishing
    BY <2>4 DEF Publishing, Syncing, Reading
  <2>6. pc = "answer" /\ run.task # "settle"
    BY <1>5 DEF AnswerResolve, Placed
  <2> QED
    BY <2>2, <2>3, <2>4, <2>5, <2>6, AuditKept, Values DEF AtAudit
<1>6. CASE AnswersDone
  BY <1>6, Values DEF AnswersDone, world, AtAudit, Away, Publishing, Syncing,
     Reading, Typed, Gits, Hists, Placed, Checkout, OnPullRequest, Finishing,
     Resting
<1> QED
  BY <1>1, <1>2, <1>3, <1>4, <1>5, <1>6 DEF AnswerSteps

LEMMA ReviewAudited ==
  ASSUME Typed, Placed, Checkout, AtAudit, ReviewSteps
  PROVE  AtAudit'
<1>1. CASE RoundsUsedUp
  BY <1>1, StayType, Values DEF RoundsUsedUp, world, disk, AtAudit, Away,
     Publishing, Syncing, Reading, Typed, Gits, Hists, Placed, Checkout,
     OnPullRequest, Finishing, Resting
<1>2. CASE ReviewClean
  BY <1>2, Values DEF ReviewClean, Reviewing, world, AtAudit, Away, Publishing,
     Syncing, Reading, Typed, Gits, Hists, Placed, Checkout, OnPullRequest,
     Finishing, Resting
<1>3. CASE ReviewFindings
  BY <1>3, Values DEF ReviewFindings, Reviewing, AtAudit, Away, Publishing,
     Syncing, Reading, Typed, Gits, Hists, Placed, Checkout, OnPullRequest,
     Finishing, Resting
<1>4. CASE WriteBounceHandoff
  BY <1>4, Values DEF WriteBounceHandoff, world, AtAudit, Away, Publishing,
     Syncing, Reading, Typed, Gits, Hists, Placed, Checkout, OnPullRequest,
     Finishing, Resting
<1>5. CASE RequestAgain
  <2>1. story \in Stories
    BY <1>5, SavedHere DEF RequestAgain, Reviewing, OnPullRequest, Syncing,
       Reading, Finishing
  <2>2. /\ pc \in {"review", "prompt"} /\ run.task = "publish"
        /\ OnlyMerges(hist.audited, git.branch)
    BY <1>5 DEF RequestAgain, Reviewing, Placed, AtAudit, Publishing, Syncing,
       Reading
  <2>3. hist.audited \in Commits /\ git.branch \in Commits
    BY Values DEF Typed, Gits, Hists
  <2>4. Sound(hist.audited, git.branch)
    BY <2>2, <2>3, SoundFacts
  <2>5. /\ story' \in {story, [story EXCEPT !.retry = git.branch]}
        /\ pc' \in {"review", "prompt"} /\ UNCHANGED <<run, git, handoff, hist.audited>>
    BY <1>5 DEF RequestAgain, RequestReview, Typed, Hists
  <2>6. /\ story'.retry \in {story.retry, git.branch} /\ story # NoStory
        /\ UNCHANGED <<story.paused, story.pausedAt>>
    BY <2>1, <2>5, Values DEF Stories
  <2> QED
    BY <2>2, <2>4, <2>5, <2>6 DEF AtAudit, Away, Publishing, Syncing, Reading
<1>6. CASE RetryUnfinished
  <2>1. /\ pc = "review" /\ run.task = "publish"
        /\ OnlyMerges(hist.audited, git.branch)
    BY <1>6 DEF RetryUnfinished, Reviewing, Placed, AtAudit, Publishing,
       Syncing, Reading
  <2>2. pc' \in {"threads", "prompt"} /\ UNCHANGED <<git, handoff, story, hist.audited>>
    BY <1>6 DEF RetryUnfinished, Waived, world, disk, Typed, Hists
  <2>3. run'.task = run.task
    BY <1>6 DEF RetryUnfinished, Typed, Runs
  <2> QED
    BY <2>1, <2>2, <2>3, AuditKept DEF Away
<1>7. CASE ReviewLimited
  BY <1>7, StayType, Values DEF ReviewLimited, Reviewing, world, disk, AtAudit,
     Away, Publishing, Syncing, Reading, Typed, Gits, Hists, Placed, Checkout,
     OnPullRequest, Finishing, Resting
<1>8. CASE PromptMerge
  BY <1>8, Values DEF PromptMerge, world, disk, Waived, AtAudit, Away,
     Publishing, Syncing, Reading, Typed, Gits, Hists, Placed, Checkout,
     OnPullRequest, Finishing, Resting
<1>9. CASE PromptRetry
  <2>1. story \in Stories
    BY <1>9, SavedHere DEF PromptRetry, OnPullRequest, Syncing, Reading,
       Finishing
  <2>2. /\ pc \in {"review", "prompt"} /\ run.task = "publish"
        /\ OnlyMerges(hist.audited, git.branch)
    BY <1>9 DEF PromptRetry, Reviewing, Placed, AtAudit, Publishing, Syncing,
       Reading
  <2>3. hist.audited \in Commits /\ git.branch \in Commits
    BY Values DEF Typed, Gits, Hists
  <2>4. Sound(hist.audited, git.branch)
    BY <2>2, <2>3, SoundFacts
  <2>5. /\ story' \in {story, [story EXCEPT !.retry = git.branch]}
        /\ pc' \in {"review", "prompt"} /\ UNCHANGED <<run, git, handoff, hist.audited>>
    BY <1>9 DEF PromptRetry, RequestReview, Typed, Hists
  <2>6. /\ story'.retry \in {story.retry, git.branch} /\ story # NoStory
        /\ UNCHANGED <<story.paused, story.pausedAt>>
    BY <2>1, <2>5, Values DEF Stories
  <2> QED
    BY <2>2, <2>4, <2>5, <2>6 DEF AtAudit, Away, Publishing, Syncing, Reading
<1>10. CASE PromptQuits
  <2>1. PauseForPerson
    BY <1>10 DEF PromptQuits
  <2> QED
    BY <2>1, PersonType, AuditKept DEF Typed, Away, Idle, Publishing, Syncing,
       Reading
<1> QED
  BY <1>1, <1>2, <1>3, <1>4, <1>5, <1>6, <1>7, <1>8, <1>9, <1>10
     DEF ReviewSteps

LEMMA MergeAudited ==
  ASSUME Typed, Placed, Checkout, AtAudit, MergeSteps
  PROVE  AtAudit'
<1>1. CASE ThreadsResolved
  BY <1>1, StayType, Values DEF ThreadsResolved, world, disk, AtAudit, Away,
     Publishing, Syncing, Reading, Typed, Gits, Hists, Placed, Checkout,
     OnPullRequest, Finishing, Resting
<1>2. CASE ThreadsDeferred
  <2>1. pc \notin Away
    BY <1>2 DEF ThreadsDeferred, Orphaned, MovesOn, Away
  <2>2. /\ pc' = "deferral" /\ run' = Idle /\ story # NoStory
        /\ UNCHANGED <<story.retry, story.paused, story.pausedAt, git, handoff, hist.audited>>
    BY <1>2, RoutedType, Values
  <2> QED
    BY <2>1, <2>2, AuditKept DEF Idle, Publishing, Syncing, Reading
<1>3. CASE ThreadsUnresolved
  <2>1. PauseForPerson
    BY <1>3 DEF ThreadsUnresolved
  <2> QED
    BY <2>1, PersonType, AuditKept DEF Typed, Away, Idle, Publishing, Syncing,
       Reading
<1>4. CASE ThreadsUnread
  <2>1. /\ pc' = "down" /\ run' = Idle
        /\ UNCHANGED <<git, story, handoff, hist.audited>>
    BY <1>4 DEF ThreadsUnread, Ends, Bounded, world, disk
  <2> QED
    BY <2>1, AuditKept DEF Away, Idle, Publishing, Syncing, Reading
<1>5. CASE RouteBlockedHandback
  <2>1. CASE PauseKept(story)
    BY <2>1, KeptType, AuditKept DEF Away, Idle, Publishing, Syncing, Reading
  <2>2. CASE ~PauseKept(story)
    <3>1. pc \notin Away
      BY <1>5 DEF RouteBlockedHandback, Away
    <3>2. /\ pc' = "deferral" /\ run' = Idle /\ story # NoStory
          /\ UNCHANGED <<story.retry, story.paused, story.pausedAt, git, handoff,
                         hist.audited>>
      BY <1>5, <2>2, RoutedType, Values
    <3> QED
      BY <3>1, <3>2, AuditKept DEF Idle, Publishing, Syncing, Reading
  <2> QED
    BY <2>1, <2>2
<1>6. CASE WriteDeferredHandoff
  BY <1>6, Values DEF WriteDeferredHandoff, world, AtAudit, Away, Publishing,
     Syncing, Reading, Typed, Gits, Hists, Placed, Checkout, OnPullRequest,
     Finishing, Resting
<1>7. CASE MergeAccepted
  BY <1>7, Values DEF MergeAccepted, disk, AtAudit, Away, Publishing, Syncing,
     Reading, Typed, Gits, Hists, Placed, Checkout, OnPullRequest, Finishing,
     Resting
<1>8. CASE NotMergeable
  BY <1>8, Values DEF NotMergeable, world, disk, AtAudit, Away, Publishing,
     Syncing, Reading, Typed, Gits, Hists, Placed, Checkout, OnPullRequest,
     Finishing, Resting
<1>9. CASE MergeFailsAgain
  <2>1. story \in Stories
    BY <1>9, SavedHere DEF MergeFailsAgain, OnPullRequest, Syncing, Reading,
       Finishing
  <2>2. /\ pc' = "down" /\ run' = Idle /\ story' = Paused
        /\ UNCHANGED <<git.branch, git.at, git.cut, git.landed, handoff, hist>>
    BY <1>9 DEF MergeFailsAgain, PauseKept, Ends, world, Typed, Gits
  <2>3. /\ Paused.pausedAt = git.branch /\ Paused.retry = story.retry
        /\ hist.audited \in Commits /\ git.branch \in Commits
    BY <2>1, PausedType DEF Typed, Gits, Hists
  <2>4. handoff.kind = "pass" => OnlyMerges(hist.audited, git.branch)
    BY <1>9 DEF MergeFailsAgain, AtAudit, Placed, Typed, Runs, Publishing,
       Syncing, Reading
  <2>5. handoff.kind = "pass" => Sound(hist.audited, git.branch)
    BY <2>3, <2>4, SoundFacts
  <2> QED
    BY <2>1, <2>2, <2>3, <2>5, Values DEF Idle, AtAudit, Away, Publishing,
       Syncing, Reading
<1>10. CASE MergeRefused
  <2>1. /\ pc' = "down" /\ run' = Idle
        /\ UNCHANGED <<git, story, handoff, hist.audited>>
    BY <1>10 DEF MergeRefused, Ends, Bounded, world, disk
  <2> QED
    BY <2>1, AuditKept DEF Away, Idle, Publishing, Syncing, Reading
<1>11. CASE Land
  <2>1. git.cut
    BY <1>11 DEF Land, Checkout, OnPullRequest, Syncing
  <2>2. /\ pc' = "up" /\ run' = Idle /\ story' = NoStory
        /\ UNCHANGED <<git.branch, handoff, hist.audited>>
    BY <1>11 DEF Land, Typed, Gits, Hists
  <2> QED
    BY <2>1, <2>2, AuditKept DEF Away, Idle, Publishing, Syncing, Reading
<1> QED
  BY <1>1, <1>2, <1>3, <1>4, <1>5, <1>6, <1>7, <1>8, <1>9, <1>10, <1>11
     DEF MergeSteps

LEMMA SettleAudited ==
  ASSUME Typed, Placed, Checkout, AtAudit, SettleSteps
  PROVE  AtAudit'
<1>1. CASE SettleUnarmed
  <2>1. story \in Stories /\ pc = "decided"
    BY <1>1 DEF SettleUnarmed, DecisionsUnarmed, Typed
  <2>2. CASE PauseKept(story)
    BY <2>2, KeptType, AuditKept DEF Away, Idle, Publishing, Syncing, Reading
  <2>3. CASE ~PauseKept(story)
    <3>1. UnresolvedFindings(story) \in SUBSET Findings
      BY Values DEF UnresolvedFindings, Open, Deferred
    <3>2. /\ UNCHANGED <<story.retry, story.paused, story.pausedAt>>
          /\ UNCHANGED <<pc, run, git, handoff, hist.audited>>
      BY <1>1, <2>1, <2>3, <3>1, SettleUnarmedType, ArmedType DEF Typed
    <3> QED
      BY <2>1, <3>2, AuditKept, Values DEF Publishing, Syncing, Reading
  <2> QED
    BY <2>2, <2>3
<1>2. CASE SettleNothing
  BY <1>2, StayType, Values DEF SettleNothing, DecisionsUnarmed, world, disk,
     AtAudit, Away, Publishing, Syncing, Reading, Typed, Gits, Hists, Placed,
     Checkout, OnPullRequest, Finishing, Resting
<1>3. CASE SettleBegins
  BY <1>3, PersonType, Values DEF SettleBegins, world, disk, AtAudit, Away,
     Publishing, Syncing, Reading, Typed, Gits, Hists, Placed, Checkout,
     OnPullRequest, Finishing, Resting
<1>4. CASE SettleResolvedThread
  BY <1>4, Values DEF SettleResolvedThread, Settling, world, Mark, Handled,
     AtAudit, Away, Publishing, Syncing, Reading, Typed, Gits, Hists, Placed,
     Checkout, OnPullRequest, Finishing, Resting
<1>5. CASE SettleRemains
  BY <1>5, Values DEF SettleRemains, Settling, world, disk, PutOff, AtAudit,
     Away, Publishing, Syncing, Reading, Typed, Gits, Hists, Placed, Checkout,
     OnPullRequest, Finishing, Resting
<1>6. CASE SettleReply
  BY <1>6, Values DEF SettleReply, Settling, PostReply, Mark, AtAudit, Away,
     Publishing, Syncing, Reading, Typed, Gits, Hists, Placed, Checkout,
     OnPullRequest, Finishing, Resting
<1>7. CASE SettleResolve
  BY <1>7, Values DEF SettleResolve, Settling, Resolve, Mark, Handled, AtAudit,
     Away, Publishing, Syncing, Reading, Typed, Gits, Hists, Placed, Checkout,
     OnPullRequest, Finishing, Resting
<1>8. CASE SettleEnds
  <2>1. CASE PauseForPerson
    BY <2>1, PersonType, AuditKept DEF Typed, Away, Idle, Publishing, Syncing,
       Reading
  <2>2. CASE ~PauseForPerson
    <3>1. story \in Stories
      BY <1>8, SavedHere DEF SettleEnds, Settling, OnPullRequest
    <3>2. pc = "settle" /\ run.task = "settle"
      BY <1>8 DEF SettleEnds, Settling, Placed
    <3>3. /\ UNCHANGED <<story.retry, story.paused, story.pausedAt, git, handoff, hist>>
          /\ \/ pc' = "up" /\ run' = Idle
             \/ pc' = "merge" /\ run' = [run EXCEPT !.seen = {}]
      BY <1>8, <2>2, <3>1, SettleEndsType
    <3>4. \/ pc' \in {"up", "merge"} /\ run'.task # "publish"
          \/ pc' = "up" /\ run' = Idle
      BY <3>2, <3>3 DEF Typed, Runs
    <3> QED
      BY <3>1, <3>2, <3>3, <3>4, AuditKept, Values DEF Away, Idle, Publishing,
         Syncing, Reading
  <2> QED
    BY <2>1, <2>2
<1> QED
  BY <1>1, <1>2, <1>3, <1>4, <1>5, <1>6, <1>7, <1>8 DEF SettleSteps

LEMMA LoopTopAudited ==
  ASSUME Typed, Placed, Checkout, AtAudit, LoopTop
  PROVE  AtAudit'
<1>1. CASE OrphanMerged
  BY <1>1, CleanUpType, Values DEF OrphanMerged, Orphaned, MovesOn, AtAudit,
     Away, Publishing, Syncing, Reading, Typed, Gits, Hists, Placed, Checkout,
     OnPullRequest, Finishing, Resting
<1>2. CASE OrphanToPlanner
  <2>1. pc \notin Away
    BY <1>2 DEF OrphanToPlanner, Orphaned, MovesOn, Away
  <2>2. /\ pc' = "deferral" /\ run' = Idle /\ story # NoStory
        /\ UNCHANGED <<story.retry, story.paused, story.pausedAt, git, handoff, hist.audited>>
    BY <1>2, RoutedType, Values
  <2> QED
    BY <2>1, <2>2, AuditKept DEF Idle, Publishing, Syncing, Reading
<1>3. CASE OrphanBlocked
  BY <1>3, StayType, Values DEF OrphanBlocked, Orphaned, MovesOn, world, disk,
     AtAudit, Away, Publishing, Syncing, Reading, Typed, Gits, Hists, Placed,
     Checkout, OnPullRequest, Finishing, Resting
<1>4. CASE NextStory
  BY <1>4, StayType, Values DEF NextStory, world, disk, Ends, AtAudit, Away,
     Publishing, Syncing, Reading, Typed, Gits, Hists, Placed, Checkout,
     OnPullRequest, Finishing, Resting
<1> QED
  BY <1>1, <1>2, <1>3, <1>4 DEF LoopTop

LEMMA MergeCommitAudited ==
  ASSUME Typed, Placed, Checkout, AtAudit, MergeCommitSteps
  PROVE  AtAudit'
<1>1. CASE SwitchToBase
  BY <1>1, Values DEF SwitchToBase, disk, AtAudit, Away, Publishing, Syncing,
     Reading, Typed, Gits, Hists, Placed, Checkout, OnPullRequest, Finishing,
     Resting
<1>2. CASE MergeLocally
  BY <1>2, Values DEF MergeLocally, disk, Ends, AtAudit, Away, Publishing,
     Syncing, Reading, Typed, Gits, Hists, Placed, Checkout, OnPullRequest,
     Finishing, Resting
<1>3. CASE DeleteMergedBranch
  BY <1>3, Values DEF DeleteMergedBranch, disk, AtAudit, Away, Publishing,
     Syncing, Reading, Typed, Gits, Hists, Placed, Checkout, OnPullRequest,
     Finishing, Resting
<1>4. CASE ClearState
  BY <1>4, Values DEF ClearState, world, AtAudit, Away, Publishing, Syncing,
     Reading, Typed, Gits, Hists, Placed, Checkout, OnPullRequest, Finishing,
     Resting
<1> QED
  BY <1>1, <1>2, <1>3, <1>4 DEF MergeCommitSteps

LEMMA StartAudited ==
  ASSUME Typed, Placed, Checkout, AtAudit, StartSteps
  PROVE  AtAudit'
<1>1. CASE Start
  BY <1>1, Values DEF Start, disk, AtAudit, Away, Publishing, Syncing, Reading,
     Typed, Gits, Hists, Placed, Checkout, OnPullRequest, Finishing, Resting
<1>2. CASE PersonTakesOver
  BY <1>2, StayType, Values DEF PersonTakesOver, world, disk, AtAudit, Away,
     Publishing, Syncing, Reading, Typed, Gits, Hists, Placed, Checkout,
     OnPullRequest, Finishing, Resting
<1>3. CASE ResumeReviewRetry
  <2>1. /\ story \in Stories /\ story.paused = "none" /\ git.branch = story.retry
        /\ git.at = "story"
    BY <1>3, SavedHere DEF ResumeReviewRetry, Resuming, ReviewRetryPending
  <2>2. OnlyMerges(hist.audited, git.branch)
    BY <2>1, Values DEF AtAudit, Checkout, Sound
  <2>3. /\ pc' = "begin" /\ UNCHANGED <<git, story, handoff, run, hist>>
    BY <1>3, StayType DEF ResumeReviewRetry
  <2> QED
    BY <2>1, <2>2, <2>3, AuditKept DEF AtAudit, Publishing, Syncing, Reading
<1>4. CASE ResumePaused
  <2>1. story \in Stories /\ story.paused # "none" /\ pc = "resume" /\ run = Idle
    BY <1>4, SavedHere DEF ResumePaused, Resuming, Placed, Resting
  <2>2. CASE PauseKept(story)
    BY <2>2, KeptType, AuditKept DEF Away, Idle, Publishing, Syncing, Reading
  <2>3. CASE Goto("begin") /\ git.at = "story" /\ ~ResumeBlocked
    <3>1. /\ OnlyMerges(story.pausedAt, git.branch) /\ story.pausedAt \in Commits
          /\ hist.audited \in Commits /\ git.branch \in Commits
      BY <2>1, <2>3 DEF ResumeBlocked, OnlyMerges, Typed, Gits, Hists, Stories
    <3>2. Built(hist.audited, git.branch)
      BY <2>3 DEF AtAudit, Checkout
    <3>3. handoff.kind = "pass" => OnlyMerges(hist.audited, git.branch)
      BY <2>1, <3>1, <3>2, SoundResume, Values DEF AtAudit
    <3>4. IsPrefix(story.pausedAt, git.branch)
      BY <3>1 DEF OnlyMerges, Covers
    <3>5. pc' = "begin" /\ UNCHANGED <<git, story, handoff, run, hist>>
      BY <2>3, StayType
    <3> QED
      BY <2>1, <2>3, <3>3, <3>4, <3>5 DEF Idle, AtAudit, Away, Publishing,
         Syncing, Reading
  <2>4. CASE story' = [story EXCEPT !.paused = "none"] /\ pc' = "up"
             /\ UNCHANGED <<conf, world, responses, handoff, run, hist, left>>
    <3>1. story'.paused = "none" /\ UNCHANGED story.retry
      BY <2>1, <2>4 DEF Stories
    <3> QED
      BY <2>1, <2>4, <3>1, AuditKept, Values DEF Away, Idle, world, Publishing,
         Syncing, Reading
  <2> QED
    BY <1>4, <2>2, <2>3, <2>4 DEF ResumePaused
<1>5. CASE NothingToResume
  BY <1>5, StayType, Values DEF NothingToResume, InterruptedPublish, Resuming,
     world, disk, AtAudit, Away, Publishing, Syncing, Reading, Typed, Gits,
     Hists, Placed, Checkout, OnPullRequest, Finishing, Resting
<1>6. CASE InterruptedBlocked
  BY <1>6, KeptType, Values DEF InterruptedBlocked, InterruptedPublish,
     Resuming, world, AtAudit, Away, Publishing, Syncing, Reading, Typed, Gits,
     Hists, Placed, Checkout, OnPullRequest, Finishing, Resting
<1>7. CASE InterruptedMerged
  BY <1>7, CleanUpType, Values DEF InterruptedMerged, InterruptedPublish,
     Resuming, AtAudit, Away, Publishing, Syncing, Reading, Typed, Gits, Hists,
     Placed, Checkout, OnPullRequest, Finishing, Resting
<1>8. CASE InterruptedConfirm
  <2>1. /\ story \in Stories /\ story.paused = "none" /\ pc = "resume" /\ run = Idle
        /\ git.at = "story" /\ handoff.kind = "pass"
        /\ Covers(handoff.scope, git.branch, {"merge"})
    BY <1>8, SavedHere DEF InterruptedConfirm, InterruptedPublish, Resuming,
       Resumable, InterruptedProblem, AuditedStoryCommit, Placed, Resting
  <2>2. /\ handoff.scope \in {hist.audited, NoCommit} /\ hist.audited \in Commits
        /\ git.branch \in Commits /\ handoff.scope \in Commits
    BY <2>1 DEF AtAudit, Typed, Gits, Hists, Handoffs
  <2>3. OnlyMerges(handoff.scope, git.branch) /\ Sound(hist.audited, handoff.scope)
    BY <2>1, <2>2, SoundFacts, ItsOwn DEF OnlyMerges, Covers
  <2>4. OnlyMerges(hist.audited, git.branch)
    BY <2>1, <2>2, <2>3, SoundResume DEF AtAudit, Checkout
  <2>5. pc' \in {"up", "begin"} /\ UNCHANGED <<git, story, handoff, run, hist>>
    BY <1>8, StayType DEF InterruptedConfirm
  <2> QED
    BY <2>1, <2>4, <2>5, AuditKept DEF Idle, Publishing, Syncing, Reading
<1>9. CASE ResumeMergeCommit
  <2>1. /\ story \in Stories /\ story.paused = "none" /\ pc = "resume" /\ run = Idle
    BY <1>9, SavedHere DEF ResumeMergeCommit, InterruptedMergeCommit, Checkout,
       Placed, Resting
  <2>2. CASE PauseKept(story)
    BY <2>2, KeptType, AuditKept DEF Away, Idle, Publishing, Syncing, Reading
  <2>3. CASE \E place \in {"up", "delete", "clear"} : Goto(place)
    BY <2>1, <2>3, StayType, AuditKept DEF Idle, Publishing, Syncing, Reading
  <2>4. CASE AuditedStoryCommit /\ git.at = "story" /\ git.branch = handoff.scope /\ Goto("begin")
    <3>1. /\ handoff.scope \in {hist.audited, NoCommit} /\ hist.audited \in Commits
          /\ handoff.scope \in Commits /\ git.branch \in Commits
      BY <2>4 DEF AuditedStoryCommit, AtAudit, Typed, Gits, Hists, Handoffs
    <3>2. OnlyMerges(handoff.scope, git.branch) /\ Sound(hist.audited, handoff.scope)
      BY <2>4, <3>1, SoundFacts, ItsOwn
    <3>3. OnlyMerges(hist.audited, git.branch)
      BY <2>4, <3>1, <3>2, SoundResume DEF AtAudit, Checkout
    <3> QED
      BY <2>1, <2>4, <3>3, StayType, AuditKept DEF Idle, Publishing, Syncing,
         Reading
  <2> QED
    BY <1>9, <2>2, <2>3, <2>4 DEF ResumeMergeCommit, MergeCommitProblem, Typed,
       Gits
<1> QED
  BY <1>1, <1>2, <1>3, <1>4, <1>5, <1>6, <1>7, <1>8, <1>9 DEF StartSteps

LEMMA OthersAudited ==
  ASSUME Typed, Placed, Checkout, AtAudit, Others
  PROVE  AtAudit'
<1>1. CASE RunEnds
  <2>1. /\ pc' = "down" /\ run' = Idle
        /\ UNCHANGED <<git, story, handoff, hist.audited>>
    BY <1>1 DEF RunEnds, Ends, Bounded, world, disk
  <2> QED
    BY <2>1, AuditKept DEF Away, Idle, Publishing, Syncing, Reading
<1>2. CASE ReplyUnsaved
  <2>1. /\ pc' = "down" /\ run' = Idle
        /\ UNCHANGED <<git, story, handoff, hist.audited>>
    BY <1>2 DEF ReplyUnsaved, Ends, Bounded, disk, Typed, Hists
  <2> QED
    BY <2>1, AuditKept DEF Away, Idle, Publishing, Syncing, Reading
<1>3. CASE ReplyFails
  <2>1. /\ pc' = "down" /\ run' = Idle
        /\ UNCHANGED <<git, story, handoff, hist.audited>>
    BY <1>3 DEF ReplyFails, Ends, Bounded, world, disk
  <2> QED
    BY <2>1, AuditKept DEF Away, Idle, Publishing, Syncing, Reading
<1>4. CASE RequestUnsaved
  <2>1. /\ pc' = "down" /\ run' = Idle
        /\ UNCHANGED <<git, story, handoff, hist.audited>>
    BY <1>4 DEF RequestUnsaved, Ends, Bounded, disk, Typed, Hists
  <2> QED
    BY <2>1, AuditKept DEF Away, Idle, Publishing, Syncing, Reading
<1>5. CASE CodexReviews
  BY <1>5, Values DEF CodexReviews, disk, AtAudit, Away, Publishing, Syncing,
     Reading, Typed, Gits, Hists, Placed, Checkout, OnPullRequest, Finishing,
     Resting
<1>6. CASE BaseMoves
  BY <1>6, Values DEF BaseMoves, disk, Bounded, AtAudit, Away, Publishing,
     Syncing, Reading, Typed, Gits, Hists, Placed, Checkout, OnPullRequest,
     Finishing, Resting
<1>7. CASE OnGitHub
  BY <1>7, Values DEF OnGitHub, Orphaned, MovesOn, disk, Bounded, AtAudit,
     Away, Publishing, Syncing, Reading, Typed, Gits, Hists, Placed, Checkout,
     OnPullRequest, Finishing, Resting
<1>8. CASE AtCheckout
  <2>1. pc = "down" /\ run = Idle /\ UNCHANGED <<pc, run, story, handoff, hist>>
    BY <1>8 DEF AtCheckout, disk, Placed, Resting
  <2>2. CASE Commit("stray")
    <3>1. "stray" \in Kinds /\ git'.branch = Append(git.branch, "stray")
          /\ UNCHANGED <<git.at, git.cut, git.landed>>
      BY <2>2, CommitType DEF Kinds, Typed
    <3> QED
      BY <2>1, <3>1, AuditAppend DEF Idle, Away, Publishing, Syncing, Reading
  <2>3. CASE git.branch # NoCommit /\ git' = [git EXCEPT !.branch = Append(Front(@), "stray")]
    <3>1. /\ git'.branch = Append(Front(git.branch), "stray")
          /\ UNCHANGED <<git.cut, git.landed>>
      BY <2>3 DEF Typed, Gits
    <3>2. Built(hist.audited, git.branch) =>
            Built(hist.audited, Append(Front(git.branch), "stray"))
      BY <2>3, BuiltAmend DEF Typed, Gits, Hists
    <3> QED
      BY <2>1, <3>1, <3>2 DEF Idle, AtAudit, Away, Publishing, Syncing, Reading
  <2>4. CASE UNCHANGED <<git.branch, git.cut, git.landed>>
    BY <2>1, <2>4, AuditKept DEF Idle, Away, Publishing, Syncing, Reading
  <2>5. \/ Commit("stray")
        \/ git.branch # NoCommit /\ git' = [git EXCEPT !.branch = Append(Front(@), "stray")]
        \/ UNCHANGED <<git.branch, git.cut, git.landed>>
    BY <1>8 DEF AtCheckout, Typed, Gits
  <2> QED
    BY <2>2, <2>3, <2>4, <2>5
<1>9. CASE PersonMergesBase
  <2>1. pc = "down" /\ run = Idle /\ UNCHANGED <<pc, run, story, handoff, hist>>
    BY <1>9 DEF PersonMergesBase, disk, Placed, Resting
  <2>2. PICK kind \in {"merge", "resolved", "edited"} : Commit(kind)
    BY <1>9 DEF PersonMergesBase
  <2>3. kind \in Kinds /\ git'.branch = Append(git.branch, kind)
        /\ UNCHANGED <<git.at, git.cut, git.landed>>
    BY <2>2, CommitType DEF Kinds, Typed
  <2> QED
    BY <2>1, <2>3, AuditAppend DEF Idle, Away, Publishing, Syncing, Reading
<1>10. CASE Tidied
  <2>1. pc = "down" /\ run = Idle /\ UNCHANGED <<pc, run, story, handoff, hist>>
    BY <1>10 DEF Tidied, disk, Placed, Resting
  <2>2. UNCHANGED <<git.cut, git.landed>>
    BY <1>10 DEF Tidied, Typed, Gits
  <2>3. CASE UNCHANGED git.branch
    BY <2>1, <2>2, <2>3, AuditKept DEF Idle, Away, Publishing, Syncing, Reading
  <2>4. CASE git'.branch = Front(git.branch) /\ git.branch # NoCommit
             /\ IsPrefix(hist.audited, Front(git.branch))
    <3>1. Built(hist.audited, Front(git.branch))
      BY <2>4, FrontType, BuiltPrefix DEF Typed, Gits, Hists
    <3> QED
      BY <2>1, <2>2, <2>4, <3>1 DEF Idle, AtAudit, Away, Publishing, Syncing,
         Reading
  <2> QED
    BY <1>10, <2>3, <2>4 DEF Tidied, Typed, Gits
<1>11. CASE PersonRoutes
  BY <1>11, Values DEF PersonRoutes, world, AtAudit, Away, Publishing, Syncing,
     Reading, Typed, Gits, Hists, Placed, Checkout, OnPullRequest, Finishing,
     Resting
<1> QED
  BY <1>1, <1>2, <1>3, <1>4, <1>5, <1>6, <1>7, <1>8, <1>9, <1>10, <1>11
     DEF Others

LEMMA AuditedStep ==
  ASSUME Typed, Placed, Checkout, AtAudit, [Next]_vars
  PROVE  AtAudit'
<1>1. CASE UNCHANGED vars
  BY <1>1 DEF vars, AtAudit, Publishing
<1>2. CASE StoryOver
  BY <1>2 DEF StoryOver, vars, AtAudit, Publishing
<1> QED
  BY <1>1, <1>2, RoleAudited, PublishAudited, AnswerAudited,
     ReviewAudited, MergeAudited, SettleAudited, LoopTopAudited,
     MergeCommitAudited, StartAudited, OthersAudited
     DEF Next

-----------------------------------------------------------------------------
(* Each step keeps what a publish has read of the pull request.                *)
LEMMA HeadAway ==
  ASSUME pc' \notin Syncing \cup Reading \cup {"merge"},
         pc' = "answer" => run'.task # "publish"
  PROVE  AtHead'
BY DEF AtHead, Publishing, Merging, Syncing, Reading

(* A place that reads the pull request leaves the head where it is.            *)
LEMMA HeadKept ==
  ASSUME Placed, AtHead, pc \in Reading \cup {"answer"}, run.task = "publish",
         pc' \in Reading \cup {"answer"},
         UNCHANGED <<git.branch, hub.head>>,
         pc' = "threads" => (conf.reviewers => Seen)'
  PROVE  AtHead'
BY DEF AtHead, Publishing, Merging, Syncing, Reading

(* What is seen stays seen when nothing but the kind of step is changed.       *)
LEMMA SeenKept ==
  ASSUME Seen, UNCHANGED <<git.branch, hist.waived, story.rounds, story.reviewed>>
  PROVE  Seen'
BY DEF Seen

LEMMA SeenAppend ==
  ASSUME git.branch \in Commits, story.reviewed \in Commits, hist.waived \in Commits,
         Seen, NEW kind \in {"merge", "resolved"}, git'.branch = Append(git.branch, kind),
         UNCHANGED <<hist.waived, story.rounds, story.reviewed>>
  PROVE  Seen'
<1>1. \A seen \in Commits : OnlyMerges(seen, git.branch) => OnlyMerges(seen, git'.branch)
  BY OnlyMergesAppend
<1> QED BY <1>1 DEF Seen

LEMMA FindingsOnThreads ==
  ASSUME NEW s
  PROVE  UnresolvedFindings(s) \subseteq Threads
BY DEF UnresolvedFindings, Open, Deferred, Threads

LEMMA RoleAtHead ==
  ASSUME Typed, Placed, AtHead, RoleSteps
  PROVE  AtHead'
<1>1. CASE EnsureStoryBranch
  BY <1>1, HeadAway DEF EnsureStoryBranch, Syncing, Reading
<1>2. CASE ImplementerClaims
  BY <1>2, CommitType, HeadAway DEF ImplementerClaims, Kinds, Syncing, Reading
<1>3. CASE ImplementerBlocks
  BY <1>3, HeadAway DEF ImplementerBlocks, world, Syncing, Reading
<1>4. CASE DeferBlockedHandback
  <2>1. pc' \in {"up", "down"} \/ (pc' = "answer" /\ run'.task = "deferral")
    BY <1>4 DEF DeferBlockedHandback, Goto, PauseKept, Ends, Idle
  <2> QED
    BY <2>1, HeadAway DEF Syncing, Reading
<1>5. CASE Audit
  BY <1>5, HeadAway DEF Audit, world, Syncing, Reading
<1>6. CASE PlannerRuns
  BY <1>6, HeadAway DEF PlannerRuns, world, Syncing, Reading
<1> QED
  BY <1>1, <1>2, <1>3, <1>4, <1>5, <1>6 DEF RoleSteps

LEMMA PublishAtHead ==
  ASSUME Typed, Placed, AtHead, PublishSteps
  PROVE  AtHead'
<1>1. CASE AdoptBaseBranchStory
  <2>1. pc' = "sync" /\ run' = Idle
    BY <1>1 DEF AdoptBaseBranchStory, Placed, Resting
  <2> QED
    BY <2>1 DEF AtHead, Publishing, Merging, Syncing, Reading, Idle
<1>2. CASE EpicCloseMerged
  BY <1>2, StayType, HeadAway DEF EpicCloseMerged, world, disk, Syncing,
     Reading
<1>3. CASE PublishRefused
  BY <1>3, HeadAway DEF PublishRefused, Ends, world, disk, Syncing, Reading
<1>4. CASE PublishBegins
  <2>1. pc' \in {"up", "switch", "sync"} /\ ~run'.again
    BY <1>4 DEF PublishBegins, Goto, Placed, Resting, Idle, Typed, Runs
  <2> QED
    BY <2>1 DEF AtHead, Publishing, Merging, Syncing, Reading
<1>5. CASE SetAsidePause
  BY <1>5, KeptType, HeadAway DEF SetAsidePause, world, Paused, Step, Syncing,
     Reading
<1>6. CASE SyncNothing
  <2>1. /\ pc = "sync" /\ pc' = "push"
        /\ UNCHANGED <<conf, git.branch, hub, story, hist, run.again, run.task>>
    BY <1>6 DEF SyncNothing, Goto, world, disk, Typed, Gits
  <2>2. Merging' => Merging
    BY <2>1 DEF Merging, Syncing
  <2> QED
    BY <2>1, <2>2, SeenKept DEF AtHead, Publishing, Merging, Syncing, Reading
<1>7. CASE SyncClean
  <2>1. /\ pc = "sync" /\ pc' = "push"
        /\ UNCHANGED <<conf, hub, story, hist, run.again, run.task>>
    BY <1>7 DEF SyncClean, disk, Typed, Runs
  <2>2. Merging' => Merging
    BY <2>1 DEF Merging, Syncing
  <2>3. CASE Commit("merge")
    <3>1. "merge" \in Kinds /\ git'.branch = Append(git.branch, "merge")
      BY <2>3, CommitType DEF Kinds, Typed, Gits
    <3>2. /\ git.branch \in Commits /\ story.reviewed \in Commits /\ hist.waived \in Commits
      BY <2>1, SavedHere DEF OnPullRequest, Syncing, Typed, Gits, Hists,
         Stories
    <3>3. Seen => Seen'
      BY <2>1, <3>1, <3>2, SeenAppend
    <3> QED
      BY <2>1, <2>2, <3>3 DEF AtHead, Publishing, Merging, Syncing, Reading
  <2>4. CASE UNCHANGED git
    BY <2>1, <2>2, <2>4, SeenKept DEF AtHead, Publishing, Merging, Syncing,
       Reading
  <2> QED
    BY <1>7, <2>3, <2>4 DEF SyncClean
<1>8. CASE SyncConflict
  BY <1>8, KeptType, HeadAway DEF SyncConflict, world, Paused, Step, Syncing,
     Reading
<1>9. CASE SyncStateConflict
  <2>1. /\ pc = "sync" /\ pc' = "resolving"
        /\ UNCHANGED <<conf, git.branch, hub, story, hist, run.again, run.task>>
    BY <1>9 DEF SyncStateConflict, Goto, world, disk, Typed, Gits
  <2>2. Merging' => Merging
    BY <2>1 DEF Merging, Syncing
  <2> QED
    BY <2>1, <2>2, SeenKept DEF AtHead, Publishing, Merging, Syncing, Reading
<1>10. CASE StateConflictResolved
  <2>1. /\ pc = "resolving" /\ pc' = "push"
        /\ UNCHANGED <<conf, hub, story, hist, run.again, run.task>>
    BY <1>10 DEF StateConflictResolved, disk, Typed, Runs
  <2>2. Merging' => Merging
    BY <2>1 DEF Merging, Syncing
  <2>3. CASE git' = [git EXCEPT !.merging = FALSE, !.branch = Append(@, "resolved")]
    <3>1. "resolved" \in Kinds /\ git'.branch = Append(git.branch, "resolved")
      BY <2>3 DEF Kinds, Typed, Gits
    <3>2. /\ git.branch \in Commits /\ story.reviewed \in Commits /\ hist.waived \in Commits
      BY <2>1, SavedHere DEF OnPullRequest, Syncing, Typed, Gits, Hists,
         Stories
    <3>3. Seen => Seen'
      BY <2>1, <3>1, <3>2, SeenAppend
    <3> QED
      BY <2>1, <2>2, <3>3 DEF AtHead, Publishing, Merging, Syncing, Reading
  <2> QED
    BY <1>10, <2>3 DEF StateConflictResolved
<1>11. CASE StateConflictUnresolved
  BY <1>11, HeadAway DEF StateConflictUnresolved, Ends, Paused, Step, Syncing,
     Reading
<1>12. CASE DropEmptyStoryBranch
  BY <1>12, HeadAway DEF DropEmptyStoryBranch, Syncing, Reading
<1>13. CASE Push
  <2>1. /\ pc = "push" /\ git.branch # NoCommit /\ pc' = IF run.again THEN "merge" ELSE "open"
        /\ UNCHANGED <<conf, git, story, run>>
    BY <1>13 DEF Push, disk
  <2>2. /\ hub'.head = git.branch
        /\ UNCHANGED <<hub.threads, hist.waived>>
    BY <1>13 DEF Push, Typed, Hubs, Hists
  <2>3. pc' = "merge" => Merging
    BY <2>1 DEF Merging, Syncing
  <2>4. Seen => Seen'
    BY <2>1, <2>2, SeenKept
  <2> QED
    BY <2>1, <2>2, <2>3, <2>4 DEF AtHead, Publishing, Merging, Syncing, Reading
<1>14. CASE PushRejected
  BY <1>14, HeadAway DEF PushRejected, Ends, Syncing, Reading
<1>15. CASE OpenPullRequest
  <2>1. /\ pc = "open" /\ run.task = "publish" /\ UNCHANGED <<conf, git, hub.head>>
        /\ pc' \in {"down", "review", "answer"} \/ (pc' = "threads" /\ ~conf.reviewers)
    BY <1>15 DEF OpenPullRequest, Ends, Typed, Hubs, Placed, Reading
  <2> QED
    BY <2>1, HeadKept, HeadAway DEF Syncing, Reading
<1> QED
  BY <1>1, <1>2, <1>3, <1>4, <1>5, <1>6, <1>7, <1>8, <1>9, <1>10, <1>11, <1>12,
     <1>13, <1>14, <1>15 DEF PublishSteps

LEMMA AnswerAtHead ==
  ASSUME Typed, Placed, AtHead, AnswerSteps
  PROVE  AtHead'
<1>1. CASE AnswerResolvedThread
  <2>1. /\ pc = "answer" /\ UNCHANGED <<pc, git, hub.head, run.task>>
    BY <1>1 DEF AnswerResolvedThread, world, Mark, Handled, Typed, Hubs, Runs
  <2> QED
    BY <2>1, HeadKept, HeadAway DEF Placed, Syncing, Reading
<1>2. CASE AnswerMissing
  <2>1. /\ pc = "answer" /\ UNCHANGED <<pc, git, hub.head, run.task>>
    BY <1>2 DEF AnswerMissing, world, disk, PutOff, Typed, Hubs, Runs
  <2> QED
    BY <2>1, HeadKept, HeadAway DEF Placed, Syncing, Reading
<1>3. CASE AnswerReply
  <2>1. /\ pc = "answer" /\ UNCHANGED <<pc, git, hub.head, run.task>>
    BY <1>3 DEF AnswerReply, PostReply, Mark, Typed, Hubs, Runs
  <2> QED
    BY <2>1, HeadKept, HeadAway DEF Placed, Syncing, Reading
<1>4. CASE AnswerDeferred
  <2>1. /\ pc = "answer" /\ UNCHANGED <<pc, git, hub.head, run.task>>
    BY <1>4 DEF AnswerDeferred, world, disk, PutOff, Typed, Hubs, Runs
  <2> QED
    BY <2>1, HeadKept, HeadAway DEF Placed, Syncing, Reading
<1>5. CASE AnswerResolve
  <2>1. /\ pc = "answer" /\ UNCHANGED <<pc, git, hub.head, run.task>>
    BY <1>5 DEF AnswerResolve, Resolve, Mark, Handled, Typed, Hubs, Runs
  <2> QED
    BY <2>1, HeadKept, HeadAway DEF Placed, Syncing, Reading
<1>6. CASE AnswersDone
  <2>1. /\ pc = "answer" /\ UNCHANGED <<git, hub>>
        /\ pc' = IF run.task = "deferral" THEN "route" ELSE "review"
    BY <1>6 DEF AnswersDone, world
  <2>2. run.task \in {"publish", "deferral"}
    BY <2>1 DEF Placed
  <2> QED
    BY <2>1, <2>2, HeadKept, HeadAway DEF Syncing, Reading
<1> QED
  BY <1>1, <1>2, <1>3, <1>4, <1>5, <1>6 DEF AnswerSteps

LEMMA ReviewAtHead ==
  ASSUME Typed, Placed, AtHead, ReviewSteps
  PROVE  AtHead'
<1>1. CASE RoundsUsedUp
  <2>1. /\ pc \in Reading \cup {"answer"} /\ pc' \in Reading \cup {"answer"}
        /\ UNCHANGED <<git.branch, hub.head>>
    BY <1>1, StayType DEF RoundsUsedUp, world, disk, Typed, Hubs, Reading
  <2>2. run.task = "publish" /\ Seen'
    BY <1>1, StayType DEF RoundsUsedUp, Placed, Reading, Seen
  <2> QED
    BY <2>1, <2>2, HeadKept
<1>2. CASE ReviewClean
  <2>1. /\ pc \in Reading \cup {"answer"} /\ pc' \in Reading \cup {"answer"}
        /\ UNCHANGED <<git.branch, hub.head>>
    BY <1>2 DEF ReviewClean, Reviewing, world, Typed, Hubs, Reading
  <2>2. run.task = "publish" /\ (pc = "review" \/ pc = "prompt")
    BY <1>2 DEF ReviewClean, Reviewing, world, Placed, Reading
  <2>3. git.branch # NoCommit /\ OnlyMerges(git.branch, git.branch)
    BY <2>2, ItsOwn DEF AtHead, Publishing, Merging, Syncing, Reading, Typed,
       Gits
  <2>4. story'.reviewed = git'.branch
    BY <1>2, <2>1, <2>2, SavedHere DEF ReviewClean, Stories, OnPullRequest,
       Reading
  <2>5. Seen'
    BY <2>1, <2>3, <2>4 DEF Seen
  <2> QED
    BY <2>1, <2>2, <2>5, HeadKept
<1>3. CASE ReviewFindings
  BY <1>3, HeadAway DEF ReviewFindings, Reviewing, Syncing, Reading
<1>4. CASE WriteBounceHandoff
  BY <1>4, HeadAway DEF WriteBounceHandoff, world, Syncing, Reading
<1>5. CASE RequestAgain
  <2>1. /\ pc \in Reading \cup {"answer"} /\ pc' \in Reading \cup {"answer"}
        /\ UNCHANGED <<git.branch, hub.head>>
    BY <1>5 DEF RequestAgain, Reviewing, RequestReview, Typed, Hubs, Reading
  <2>2. run.task = "publish" /\ pc' # "threads"
    BY <1>5 DEF RequestAgain, Reviewing, RequestReview, Placed, Reading
  <2> QED
    BY <2>1, <2>2, HeadKept
<1>6. CASE RetryUnfinished
  <2>1. /\ pc \in Reading \cup {"answer"} /\ pc' \in Reading \cup {"answer"}
        /\ UNCHANGED <<git.branch, hub.head>>
    BY <1>6 DEF RetryUnfinished, Reviewing, world, disk, Waived, Typed, Hubs,
       Reading
  <2>2. run.task = "publish" /\ (pc = "review" \/ pc = "prompt")
    BY <1>6 DEF RetryUnfinished, Reviewing, world, disk, Waived, Placed,
       Reading
  <2>3. git.branch # NoCommit /\ OnlyMerges(git.branch, git.branch)
    BY <2>2, ItsOwn DEF AtHead, Publishing, Merging, Syncing, Reading, Typed,
       Gits
  <2>4. pc' = "threads" => hist'.waived = git'.branch
    BY <1>6, <2>1 DEF RetryUnfinished, Waived, Typed, Hists
  <2>5. pc' = "threads" => Seen'
    BY <2>1, <2>3, <2>4 DEF Seen
  <2> QED
    BY <2>1, <2>2, <2>5, HeadKept
<1>7. CASE ReviewLimited
  <2>1. /\ pc \in Reading \cup {"answer"} /\ pc' \in Reading \cup {"answer"}
        /\ UNCHANGED <<git.branch, hub.head>>
    BY <1>7, StayType DEF ReviewLimited, Reviewing, world, disk, Typed, Hubs,
       Reading
  <2>2. run.task = "publish" /\ pc' # "threads"
    BY <1>7, StayType DEF ReviewLimited, Reviewing, world, disk, Placed,
       Reading
  <2> QED
    BY <2>1, <2>2, HeadKept
<1>8. CASE PromptMerge
  <2>1. /\ pc \in Reading \cup {"answer"} /\ pc' \in Reading \cup {"answer"}
        /\ UNCHANGED <<git.branch, hub.head>>
    BY <1>8 DEF PromptMerge, world, disk, Waived, Typed, Hubs, Reading
  <2>2. run.task = "publish" /\ (pc = "review" \/ pc = "prompt")
    BY <1>8 DEF PromptMerge, world, disk, Waived, Placed, Reading
  <2>3. git.branch # NoCommit /\ OnlyMerges(git.branch, git.branch)
    BY <2>2, ItsOwn DEF AtHead, Publishing, Merging, Syncing, Reading, Typed,
       Gits
  <2>4. hist'.waived = git'.branch
    BY <1>8, <2>1 DEF PromptMerge, Waived, Typed, Hists
  <2>5. Seen'
    BY <2>1, <2>3, <2>4 DEF Seen
  <2> QED
    BY <2>1, <2>2, <2>5, HeadKept
<1>9. CASE PromptRetry
  <2>1. /\ pc \in Reading \cup {"answer"} /\ pc' \in Reading \cup {"answer"}
        /\ UNCHANGED <<git.branch, hub.head>>
    BY <1>9 DEF PromptRetry, RequestReview, Typed, Hubs, Reading
  <2>2. run.task = "publish" /\ pc' # "threads"
    BY <1>9 DEF PromptRetry, RequestReview, Placed, Reading
  <2> QED
    BY <2>1, <2>2, HeadKept
<1>10. CASE PromptQuits
  BY <1>10, PersonType, HeadAway DEF PromptQuits, world, Syncing, Reading, Typed
<1> QED
  BY <1>1, <1>2, <1>3, <1>4, <1>5, <1>6, <1>7, <1>8, <1>9, <1>10
     DEF ReviewSteps

LEMMA MergeAtHead ==
  ASSUME Typed, Placed, AtHead, MergeSteps
  PROVE  AtHead'
<1>1. CASE ThreadsResolved
  <2>1. /\ pc = "threads" /\ pc' = "merge" /\ run.task = "publish" /\ UnresolvedThreads = {}
        /\ UNCHANGED <<conf, git, hub, story, run, hist>>
    BY <1>1, StayType DEF ThreadsResolved, Placed, Reading
  <2>2. \A f \in UnresolvedFindings(story) : hub.threads[f] # "open"
    BY <2>1, FindingsOnThreads DEF UnresolvedThreads
  <2>3. Seen => Seen'
    BY <2>1, SeenKept
  <2> QED
    BY <2>1, <2>2, <2>3 DEF AtHead, Publishing, Merging, Syncing, Reading
<1>2. CASE ThreadsDeferred
  BY <1>2, RoutedType, HeadAway DEF Syncing, Reading
<1>3. CASE ThreadsUnresolved
  BY <1>3, PersonType, HeadAway DEF ThreadsUnresolved, world, Syncing, Reading,
     Typed
<1>4. CASE ThreadsUnread
  BY <1>4, HeadAway DEF ThreadsUnread, Ends, world, disk, Syncing, Reading
<1>5. CASE RouteBlockedHandback
  <2>1. pc' \in {"down", "deferral"}
    BY <1>5 DEF RouteBlockedHandback, RouteDeferredToPlanner, PauseKept, Ends
  <2> QED
    BY <2>1, HeadAway DEF Syncing, Reading
<1>6. CASE WriteDeferredHandoff
  BY <1>6, HeadAway DEF WriteDeferredHandoff, world, Syncing, Reading
<1>7. CASE MergeAccepted
  BY <1>7, HeadAway DEF MergeAccepted, disk, Syncing, Reading
<1>8. CASE NotMergeable
  <2>1. /\ pc = "merge" /\ pc' = "sync"
        /\ UNCHANGED <<conf, git, hub, story, hist, run.task>>
    BY <1>8 DEF NotMergeable, world, disk, Typed, Runs
  <2>2. Seen => Seen'
    BY <2>1, SeenKept
  <2> QED
    BY <2>1, <2>2 DEF AtHead, Publishing, Merging, Syncing, Reading
<1>9. CASE MergeFailsAgain
  BY <1>9, HeadAway DEF MergeFailsAgain, Ends, world, Paused, Step, Bounded,
     Syncing, Reading
<1>10. CASE MergeRefused
  BY <1>10, HeadAway DEF MergeRefused, Ends, world, disk, Syncing, Reading
<1>11. CASE Land
  BY <1>11, HeadAway DEF Land, Syncing, Reading
<1> QED
  BY <1>1, <1>2, <1>3, <1>4, <1>5, <1>6, <1>7, <1>8, <1>9, <1>10, <1>11
     DEF MergeSteps

LEMMA SettleAtHead ==
  ASSUME Typed, Placed, AtHead, SettleSteps
  PROVE  AtHead'
<1>1. CASE SettleUnarmed
  <2>1. pc' \in {"down", "decided"}
    BY <1>1 DEF SettleUnarmed, PauseKept, Ends
  <2> QED
    BY <2>1, HeadAway DEF Syncing, Reading
<1>2. CASE SettleNothing
  BY <1>2, StayType, HeadAway DEF SettleNothing, DecisionsUnarmed, world, disk,
     Syncing, Reading
<1>3. CASE SettleBegins
  BY <1>3, HeadAway DEF SettleBegins, PauseForPerson, Ends, Syncing, Reading
<1>4. CASE SettleResolvedThread
  <2>1. pc' = "settle"
    BY <1>4 DEF SettleResolvedThread, Settling
  <2> QED
    BY <2>1, HeadAway DEF Syncing, Reading
<1>5. CASE SettleRemains
  <2>1. pc' = "settle"
    BY <1>5 DEF SettleRemains, Settling
  <2> QED
    BY <2>1, HeadAway DEF Syncing, Reading
<1>6. CASE SettleReply
  <2>1. pc' = "settle"
    BY <1>6 DEF SettleReply, Settling
  <2> QED
    BY <2>1, HeadAway DEF Syncing, Reading
<1>7. CASE SettleResolve
  <2>1. pc' = "settle"
    BY <1>7 DEF SettleResolve, Settling
  <2> QED
    BY <2>1, HeadAway DEF Syncing, Reading
<1>8. CASE SettleEnds
  <2>1. CASE PauseForPerson
    BY <2>1, PersonType, HeadAway DEF Typed, Syncing, Reading
  <2>2. CASE ~PauseForPerson
    <3>1. story \in Stories /\ run.task = "settle"
      BY <1>8, SavedHere DEF SettleEnds, Settling, OnPullRequest, Placed
    <3>2. \/ pc' = "up"
          \/ /\ pc' = "merge" /\ run' = [run EXCEPT !.seen = {}] /\ hub' = hub
             /\ UnresolvedThreads = {}
      BY <1>8, <2>2 DEF SettleEnds, world
    <3>3. CASE pc' = "up"
      BY <3>3, HeadAway DEF Syncing, Reading
    <3>4. CASE pc' = "merge" /\ run' = [run EXCEPT !.seen = {}] /\ hub' = hub
               /\ UnresolvedThreads = {}
      <4>1. run'.task = "settle"
        BY <3>1, <3>4 DEF Typed, Runs
      <4>2. \A f \in UnresolvedFindings(story') : hub'.threads[f] # "open"
        BY <3>4, FindingsOnThreads DEF UnresolvedThreads
      <4> QED
        BY <3>4, <4>1, <4>2 DEF AtHead, Publishing, Merging, Syncing, Reading
    <3> QED
      BY <3>2, <3>3, <3>4
  <2> QED
    BY <2>1, <2>2
<1> QED
  BY <1>1, <1>2, <1>3, <1>4, <1>5, <1>6, <1>7, <1>8 DEF SettleSteps

LEMMA LoopTopAtHead ==
  ASSUME Typed, Placed, AtHead, LoopTop
  PROVE  AtHead'
<1>1. CASE OrphanMerged
  BY <1>1, CleanUpType, HeadAway DEF OrphanMerged, Orphaned, MovesOn, Syncing,
     Reading, Typed
<1>2. CASE OrphanToPlanner
  BY <1>2, RoutedType, HeadAway DEF Syncing, Reading
<1>3. CASE OrphanBlocked
  BY <1>3, StayType, HeadAway DEF OrphanBlocked, Orphaned, MovesOn, world,
     disk, Syncing, Reading
<1>4. CASE NextStory
  <2>1. pc' \in {"done", "paused", "down"}
    BY <1>4 DEF NextStory, Goto, Ends
  <2> QED
    BY <2>1, HeadAway DEF Syncing, Reading
<1> QED
  BY <1>1, <1>2, <1>3, <1>4 DEF LoopTop

LEMMA MergeCommitAtHead ==
  ASSUME Typed, Placed, AtHead, MergeCommitSteps
  PROVE  AtHead'
<1>1. CASE SwitchToBase
  BY <1>1, HeadAway DEF SwitchToBase, disk, Syncing, Reading
<1>2. CASE MergeLocally
  BY <1>2, HeadAway DEF MergeLocally, disk, Ends, Syncing, Reading
<1>3. CASE DeleteMergedBranch
  BY <1>3, HeadAway DEF DeleteMergedBranch, disk, Syncing, Reading
<1>4. CASE ClearState
  BY <1>4, HeadAway DEF ClearState, world, Syncing, Reading
<1> QED
  BY <1>1, <1>2, <1>3, <1>4 DEF MergeCommitSteps

LEMMA StartAtHead ==
  ASSUME Typed, Placed, AtHead, StartSteps
  PROVE  AtHead'
<1>1. CASE Start
  BY <1>1, HeadAway DEF Start, disk, Syncing, Reading
<1>2. CASE PersonTakesOver
  BY <1>2, StayType, HeadAway DEF PersonTakesOver, world, disk, Syncing,
     Reading
<1>3. CASE ResumeReviewRetry
  BY <1>3, StayType, HeadAway DEF ResumeReviewRetry, Resuming, world, disk,
     Syncing, Reading
<1>4. CASE ResumePaused
  <2>1. pc' \in {"up", "down", "begin"}
    BY <1>4 DEF ResumePaused, Goto, PauseKept, Ends
  <2> QED
    BY <2>1, HeadAway DEF Syncing, Reading
<1>5. CASE NothingToResume
  BY <1>5, StayType, HeadAway DEF NothingToResume, InterruptedPublish,
     Resuming, world, disk, Syncing, Reading
<1>6. CASE InterruptedBlocked
  BY <1>6, KeptType, HeadAway DEF InterruptedBlocked, InterruptedPublish,
     Resuming, world, Syncing, Reading
<1>7. CASE InterruptedMerged
  BY <1>7, CleanUpType, HeadAway DEF InterruptedMerged, InterruptedPublish,
     Resuming, Syncing, Reading, Typed
<1>8. CASE InterruptedConfirm
  BY <1>8, StayType, HeadAway DEF InterruptedConfirm, InterruptedPublish,
     Resuming, world, disk, Syncing, Reading
<1>9. CASE ResumeMergeCommit
  <2>1. pc' \in {"up", "down", "begin", "delete", "clear"}
    BY <1>9 DEF ResumeMergeCommit, Goto, PauseKept, Ends
  <2> QED
    BY <2>1, HeadAway DEF Syncing, Reading
<1> QED
  BY <1>1, <1>2, <1>3, <1>4, <1>5, <1>6, <1>7, <1>8, <1>9 DEF StartSteps

LEMMA OthersAtHead ==
  ASSUME Typed, Placed, AtHead, Others
  PROVE  AtHead'
<1>1. CASE RunEnds
  BY <1>1, HeadAway DEF RunEnds, Ends, world, disk, Bounded, Syncing, Reading
<1>2. CASE ReplyUnsaved
  BY <1>2, HeadAway DEF ReplyUnsaved, Ends, disk, Bounded, Syncing, Reading
<1>3. CASE ReplyFails
  BY <1>3, HeadAway DEF ReplyFails, Ends, world, disk, Syncing, Reading
<1>4. CASE RequestUnsaved
  BY <1>4, HeadAway DEF RequestUnsaved, Reviewing, Ends, disk, Bounded,
     Syncing, Reading
<1>5. CASE CodexReviews
  <2>1. /\ UNCHANGED <<pc, conf, git, story, run, hist>>
        /\ pc \in {"down", "review", "threads", "merge"}
    BY <1>5 DEF CodexReviews, disk
  <2>2. /\ \A f \in Known(story) : hub'.threads[f] = hub.threads[f]
        /\ hub'.head = hub.head
    BY <1>5, CodexReviewsType DEF Typed
  <2>3. Seen => Seen'
    BY <2>1, SeenKept
  <2>4. pc = "merge" => story # NoStory
    BY DEF Placed, OnPullRequest
  <2> QED
    BY <2>1, <2>2, <2>3, <2>4 DEF AtHead, Publishing, Merging, Syncing,
       Reading, Known
<1>6. CASE BaseMoves
  <2>1. UNCHANGED <<pc, conf, git, hub, story, run, hist>>
    BY <1>6 DEF BaseMoves, disk
  <2>2. Seen => Seen'
    BY <2>1, SeenKept
  <2> QED
    BY <2>1, <2>2 DEF AtHead, Publishing, Merging, Syncing, Reading
<1>7. CASE OnGitHub
  <2>1. UNCHANGED <<pc, conf, git, story, run, hist>>
    BY <1>7 DEF OnGitHub, disk
  <2>2. /\ hub'.head = hub.head
        /\ \A f \in Findings : hub'.threads[f] \in {hub.threads[f], "resolved"}
    <3>1. Person \in Threads /\ Findings \subseteq Threads /\ Person \notin Findings
      BY FindingsAssumption DEF Threads
    <3>2. \/ UNCHANGED <<hub.head, hub.threads>>
          \/ \E t \in Threads : hub' = [hub EXCEPT !.threads[t] = "resolved"]
          \/ hub' = [hub EXCEPT !.threads[Person] = "open"]
      BY <1>7 DEF OnGitHub, Typed, Hubs
    <3> QED
      BY <3>1, <3>2 DEF Typed, Hubs
  <2>3. Seen => Seen'
    BY <2>1, SeenKept
  <2>4. UnresolvedFindings(story) \subseteq Findings
    BY DEF UnresolvedFindings, Open, Deferred
  <2> QED
    BY <2>1, <2>2, <2>3, <2>4 DEF AtHead, Publishing, Merging, Syncing, Reading
<1>8. CASE AtCheckout
  BY <1>8, CommitType, HeadAway DEF AtCheckout, disk, Bounded, Kinds, Syncing,
     Reading
<1>9. CASE PersonMergesBase
  BY <1>9, CommitType, HeadAway DEF PersonMergesBase, disk, Kinds, Syncing,
     Reading
<1>10. CASE Tidied
  BY <1>10, HeadAway DEF Tidied, disk, Syncing, Reading
<1>11. CASE PersonRoutes
  BY <1>11, HeadAway DEF PersonRoutes, world, Syncing, Reading
<1> QED
  BY <1>1, <1>2, <1>3, <1>4, <1>5, <1>6, <1>7, <1>8, <1>9, <1>10, <1>11
     DEF Others

LEMMA AtHeadStep ==
  ASSUME Typed, Placed, AtHead, [Next]_vars
  PROVE  AtHead'
<1>1. CASE UNCHANGED vars
  BY <1>1 DEF vars, AtHead, Publishing, Merging, Seen
<1>2. CASE StoryOver
  BY <1>2 DEF StoryOver, vars, AtHead, Publishing, Merging, Seen
<1> QED
  BY <1>1, <1>2, RoleAtHead, PublishAtHead, AnswerAtHead, ReviewAtHead,
     MergeAtHead, SettleAtHead, LoopTopAtHead, MergeCommitAtHead,
     StartAtHead, OthersAtHead
     DEF Next

-----------------------------------------------------------------------------
(* The theorems.                                                               *)

LEMMA InitIInv ==
  ASSUME Init
  PROVE  IInv
<1>1. PICK loose \in {<<>>, <<"ledger", "work">>, <<"stray", "work">>} :
        /\ loose # <<>> => conf.mode = "pr"
        /\ git = [at |-> "base", branch |-> NoCommit, loose |-> loose, cut |-> FALSE,
                  merging |-> FALSE, dirty |-> FALSE, landed |-> FALSE]
        /\ \E kind \in IF loose = <<>> THEN {"work", "claim"} ELSE {"claim"} :
              handoff = [kind |-> kind, scope |-> NoCommit, said |-> Silence]
  BY DEF Init
<1>2. loose \in Commits
  <2>1. CASE loose = <<"ledger", "work">>
    BY <2>1 DEF Commits, Kinds
  <2>2. CASE loose = <<"stray", "work">>
    BY <2>2 DEF Commits, Kinds
  <2>3. CASE loose = <<>>
    BY <2>3 DEF Commits
  <2> QED BY <2>1, <2>2, <2>3
<1>3. Typed
  <2>1. NoCommit \in Commits /\ Silence \in Sayings
    BY Values
  <2>2. git \in Gits
    BY <1>1, <1>2, <2>1 DEF Gits
  <2>3. hub \in Hubs
    BY <2>1 DEF Init, Hubs
  <2>4. hist \in Hists(hist.crossed)
    BY <2>1 DEF Init, Hists
  <2>5. run \in Runs
    BY DEF Init, Idle, Runs
  <2>6. handoff \in Handoffs
    BY <1>1, <2>1 DEF Handoffs
  <2> QED
    BY <2>1, <2>2, <2>3, <2>4, <2>5, <2>6 DEF Init, Typed
<1>4. Placed
  BY DEF Init, Placed, Idle, OnPullRequest, Syncing, Reading, Finishing,
     Resting, Publishing
<1>5. Checkout
  BY <1>1 DEF Init, Checkout, Untouched, OnPullRequest, Syncing, Reading
<1>6. Remembered /\ Once
  BY <1>1 DEF Init, Remembered, StoryNotForgotten, Once, DoneOnce, Threads
<1>7. AtAudit
  BY <1>1 DEF Init, AtAudit, Publishing, Syncing, Reading, Idle
<1>8. AtHead
  BY DEF Init, AtHead, Publishing, Merging, Syncing, Reading
<1> QED BY <1>3, <1>4, <1>5, <1>6, <1>7, <1>8 DEF IInv

LEMMA Inductive ==
  ASSUME IInv, [Next]_vars
  PROVE  IInv'
<1>1. Typed' /\ Placed'
  BY TypedStep, PlacedStep DEF IInv
<1>2. Checkout' /\ Remembered'
  BY <1>1, CheckoutStep, RememberedStep DEF IInv
<1>3. Once' /\ AtAudit' /\ AtHead'
  BY OnceStep, AuditedStep, AtHeadStep DEF IInv
<1> QED BY <1>1, <1>2, <1>3 DEF IInv

LEMMA InvariantHolds == Spec => []IInv
<1>1. Init => IInv
  BY InitIInv
<1>2. IInv /\ [Next]_vars => IInv'
  BY Inductive
<1> QED BY <1>1, <1>2, PTL DEF Spec

(* Every variable keeps its type: among it, that a story never has more        *)
(* correction rounds than the setting allows.                                  *)
THEOREM TypeCorrect == Spec => []TypeOK
<1>1. IInv => TypeOK
  BY ZenonT(60) DEF IInv, Typed, TypeOK, Gits, Hubs, Stories, Marks, Sayings,
     Handoffs, Runs, Commits
<1> QED BY <1>1, InvariantHolds, PTL

(* However often the run ends and is resumed, a finding gets one reply a round *)
(* and a head one request (each once more for a call that was torn), and the   *)
(* planner one pass.                                                           *)
THEOREM NothingDoneTwice == Spec => []DoneOnce
<1>1. IInv => DoneOnce
  BY DEF IInv, Once
<1> QED BY <1>1, InvariantHolds, PTL

(* The loop goes on to the next story only when this one was merged, was empty *)
(* or was handed to a person.                                                  *)
THEOREM NoStoryForgotten == Spec => []StoryNotForgotten
<1>1. IInv => StoryNotForgotten
  BY DEF IInv, Remembered
<1> QED BY <1>1, InvariantHolds, PTL

(* What merges: a pull request in one step, a branch in merge-commit mode in   *)
(* another.                                                                    *)
MergesLocally == pc = "mergeLocally" /\ pc' = "delete"
LEMMA OneMerge ==
  ASSUME [Next]_vars
  PROVE  (MergesNow => MergeAccepted) /\ (MergesLocally => MergeLocally)
<1>1. CASE RoleSteps
  BY <1>1 DEF RoleSteps, EnsureStoryBranch, ImplementerClaims,
     ImplementerBlocks, DeferBlockedHandback, Audit, PlannerRuns, Goto,
     PauseKept, Ends, MergesNow, MergesLocally
<1>2. CASE PublishSteps
  BY <1>2 DEF PublishSteps, AdoptBaseBranchStory, EpicCloseMerged,
     PublishRefused, PublishBegins, SetAsidePause, SyncNothing, SyncClean,
     SyncConflict, SyncStateConflict, StateConflictResolved,
     StateConflictUnresolved, DropEmptyStoryBranch, Push, PushRejected,
     OpenPullRequest, Goto, PauseKept, Ends, MergesNow, MergesLocally
<1>3. CASE AnswerSteps
  BY <1>3 DEF AnswerSteps, AnswerResolvedThread, AnswerMissing, AnswerReply,
     AnswerDeferred, AnswerResolve, AnswersDone, MergesNow, MergesLocally
<1>4. CASE ReviewSteps
  BY <1>4 DEF ReviewSteps, RoundsUsedUp, ReviewClean, ReviewFindings,
     WriteBounceHandoff, RequestAgain, RetryUnfinished, ReviewLimited,
     PromptMerge, PromptRetry, PromptQuits, Goto, PauseForPerson, Ends,
     Reviewing, RequestReview, MergesNow, MergesLocally
<1>5. CASE MergeSteps
  BY <1>5 DEF MergeSteps, ThreadsResolved, ThreadsDeferred, ThreadsUnresolved,
     ThreadsUnread, RouteBlockedHandback, WriteDeferredHandoff, MergeAccepted,
     NotMergeable, MergeFailsAgain, MergeRefused, Land, Goto, PauseForPerson,
     RouteDeferredToPlanner, Ends, PauseKept, MergesNow, MergesLocally
<1>6. CASE SettleSteps
  BY <1>6 DEF SettleSteps, SettleUnarmed, SettleNothing, SettleBegins,
     SettleResolvedThread, SettleRemains, SettleReply, SettleResolve,
     SettleEnds, Goto, PauseForPerson, Settling, PauseKept, Ends, MergesNow,
     MergesLocally
<1>7. CASE LoopTop
  BY <1>7 DEF LoopTop, OrphanMerged, OrphanToPlanner, OrphanBlocked, NextStory,
     Goto, Orphaned, MovesOn, RouteDeferredToPlanner, Ends, CleanUpMergedStory,
     MergesNow, MergesLocally
<1>8. CASE MergeCommitSteps
  BY <1>8 DEF MergeCommitSteps, SwitchToBase, MergeLocally, DeleteMergedBranch,
     ClearState, Ends, MergesNow, MergesLocally
<1>9. CASE StartSteps
  BY <1>9 DEF StartSteps, Start, PersonTakesOver, ResumeReviewRetry,
     ResumePaused, NothingToResume, InterruptedBlocked, InterruptedMerged,
     InterruptedConfirm, ResumeMergeCommit, Goto, Resuming, InterruptedPublish,
     InterruptedMergeCommit, MergesNow, MergesLocally
<1>10. CASE Others
  BY <1>10 DEF Others, RunEnds, ReplyUnsaved, ReplyFails, RequestUnsaved,
     CodexReviews, BaseMoves, OnGitHub, AtCheckout, PersonMergesBase, Tidied,
     PersonRoutes, Ends, Reviewing, MergesNow, MergesLocally
<1>11. CASE UNCHANGED vars \/ StoryOver
  BY <1>11 DEF StoryOver, vars, MergesNow, MergesLocally
<1> QED
  BY <1>1, <1>2, <1>3, <1>4, <1>5, <1>6, <1>7, <1>8, <1>9, <1>10, <1>11
     DEF Next

(* When a pull request is merged, its head is the branch on which the publish  *)
(* worked.                                                                     *)
LEMMA AtTheMerge ==
  ASSUME IInv, [Next]_vars, MergesNow
  PROVE  /\ hub'.head = hub.head
         /\ \A f \in UnresolvedFindings(story) : hub.threads[f] # "open"
         /\ run.task = "publish" =>
              /\ hub.head = git.branch /\ git.branch # NoCommit
              /\ conf.reviewers => Seen
              /\ OnlyMerges(hist.audited, git.branch)
<1>1. MergeAccepted
  BY OneMerge
<1>2. hub'.head = hub.head /\ pc = "merge"
  BY <1>1 DEF MergeAccepted, IInv, Typed, Hubs
<1> QED
  BY <1>2 DEF IInv, AtHead, AtAudit, Publishing, Merging, Syncing, Reading

(* A finding that the saved state still holds as unresolved has no open thread *)
(* on GitHub when its pull request is merged, on whichever of the two paths.   *)
THEOREM FindingsAreSettled == Spec => FindingsSettled
<1>1. IInv /\ [Next]_vars =>
        (MergesNow => \A f \in UnresolvedFindings(story) : hub.threads[f] # "open")
  BY AtTheMerge
<1>2. IInv /\ [Next]_vars =>
        [MergesNow => \A f \in UnresolvedFindings(story) : hub.threads[f] # "open"]_vars
  BY <1>1
<1> QED BY <1>2, InvariantHolds, PTL DEF Spec, FindingsSettled

(* A publish merges a head that Codex reviewed, whose correction rounds are    *)
(* used up, or for which the operator or the configured action waived the      *)
(* review; only merges of the base branch may lie above it.                    *)
THEOREM ReviewedBeforeMerge == Spec => ReviewedOrWaived
<1>1. IInv /\ [Next]_vars =>
        (MergesNow /\ run.task = "publish" /\ conf.reviewers => HeadWasReviewed)
  BY AtTheMerge DEF Seen, OnlyMerges, HeadWasReviewed
<1>2. IInv /\ [Next]_vars =>
        [MergesNow /\ run.task = "publish" /\ conf.reviewers => HeadWasReviewed]_vars
  BY <1>1
<1> QED BY <1>2, InvariantHolds, PTL DEF Spec, ReviewedOrWaived

(* A publish merges the audited commit with nothing above it but merges of the *)
(* base branch and conflict resolutions, in either mode, whatever crashed,     *)
(* paused or was committed, amended and taken off in between.                  *)
THEOREM MergedAsAudited == Spec => PublishedAsAudited
<1>1. ASSUME IInv, [Next]_vars, MergesLocally
      PROVE  hub'.head = git.branch /\ OnlyMerges(hist.audited, git.branch)
  <2>1. MergeLocally
    BY <1>1, OneMerge
  <2>2. hub'.head = git.branch
    BY <1>1, <2>1 DEF MergeLocally, MergesLocally, Ends, IInv, Typed, Hubs
  <2> QED
    BY <1>1, <2>2 DEF MergesLocally, IInv, AtAudit
<1>2. IInv /\ [Next]_vars =>
        ((\/ MergesNow /\ run.task = "publish"
          \/ pc = "mergeLocally" /\ pc' = "delete")
         => Covers(hist.audited, hub'.head, {"merge", "resolved"}))
  BY <1>1, AtTheMerge DEF MergesLocally, OnlyMerges
<1>3. IInv /\ [Next]_vars =>
        [(\/ MergesNow /\ run.task = "publish"
          \/ pc = "mergeLocally" /\ pc' = "delete")
         => Covers(hist.audited, hub'.head, {"merge", "resolved"})]_vars
  BY <1>2
<1> QED BY <1>3, InvariantHolds, PTL DEF Spec, PublishedAsAudited

-----------------------------------------------------------------------------
(* With one correction round: the findings that bear a number keep it, and no  *)
(* two bear the same, so what was written under a number is about the finding  *)
(* that bears it.                                                              *)

Bearing(s) == Open(s) \cup Deferred(s)
Matching ==
    /\ RepliesMatch
    /\ Untouched => responses = Silence /\ handoff.said = Silence
    /\ story # NoStory =>
         /\ story.rounds = 0 =>
              Bearing(story) = {} /\ responses = Silence /\ handoff.said = Silence
         /\ Open(story) = {} \/ Deferred(story) = {}
         /\ \A f \in Bearing(story) :
              /\ NumberOf(story, f) \in Numbers
              /\ \A g \in Bearing(story) : NumberOf(story, f) = NumberOf(story, g) => f = g
              /\ \A said \in {responses, handoff.said} :
                    said[NumberOf(story, f)] # NoAnswer =>
                      said[NumberOf(story, f)].about = f
    /\ pc \in {"answer", "settle"} => run.todo \cup run.put \subseteq Open(story)
    /\ pc \notin {"answer", "settle"} => run.put = {}

(* What a step may do to findings, numbers and what was written under them:    *)
(* take away, and nothing else.                                                *)
LEMMA MatchKept ==
  ASSUME Typed, Matching, Untouched' => Untouched, UNCHANGED hist.crossed,
         responses' \in {responses, Silence}, handoff'.said \in {handoff.said, Silence},
         story' # NoStory =>
           /\ story # NoStory /\ story'.rounds = story.rounds
           /\ Open(story') = {} \/ Deferred(story') = {}
           /\ \A f \in Bearing(story') :
                 f \in Bearing(story) /\ NumberOf(story', f) = NumberOf(story, f),
         pc' \in {"answer", "settle"} => run'.todo \cup run'.put \subseteq Open(story'),
         pc' \notin {"answer", "settle"} => run'.put = {}
  PROVE  Matching'
<1>1. \A n \in Numbers : Silence[n] = NoAnswer
  BY DEF Silence
<1>2. (Untouched => responses = Silence /\ handoff.said = Silence)'
  BY DEF Matching
<1>3. ASSUME story' # NoStory
      PROVE  /\ story'.rounds = 0 =>
                  Bearing(story') = {} /\ responses' = Silence /\ handoff'.said = Silence
             /\ \A f \in Bearing(story') :
                  /\ NumberOf(story', f) \in Numbers
                  /\ \A g \in Bearing(story') :
                        NumberOf(story', f) = NumberOf(story', g) => f = g
                  /\ \A said \in {responses', handoff'.said} :
                        said[NumberOf(story', f)] # NoAnswer =>
                          said[NumberOf(story', f)].about = f
  BY <1>1, <1>3 DEF Matching
<1> QED BY <1>2, <1>3 DEF Matching, RepliesMatch

LEMMA MatchSame ==
  ASSUME Typed, Matching, Untouched' => Untouched, UNCHANGED hist.crossed,
         responses' \in {responses, Silence}, handoff'.said \in {handoff.said, Silence},
         \/ story' = NoStory
         \/ story # NoStory /\ UNCHANGED <<story.rounds, story.open, story.deferred>>,
         pc' \in {"answer", "settle"} =>
           /\ pc' = pc /\ story' # NoStory
           /\ run'.todo \cup run'.put \subseteq run.todo \cup run.put,
         pc' \notin {"answer", "settle"} =>
           run'.put = {} \/ (pc \notin {"answer", "settle"} /\ UNCHANGED run.put)
  PROVE  Matching'
<1>1. story' # NoStory =>
        /\ story # NoStory /\ story'.rounds = story.rounds
        /\ Open(story') = Open(story) /\ Deferred(story') = Deferred(story)
        /\ \A f \in Findings : NumberOf(story', f) = NumberOf(story, f)
  BY DEF Open, Deferred, NumberOf
<1>2. Bearing(story) \subseteq Findings
  BY DEF Bearing, Open, Deferred
<1>3. Bearing(story') = Bearing(story) \/ story' = NoStory
  BY <1>1 DEF Bearing
<1>4. story' # NoStory => Open(story') = {} \/ Deferred(story') = {}
  BY <1>1 DEF Matching
<1> QED BY <1>1, <1>2, <1>3, <1>4, MatchKept DEF Matching

LEMMA MatchStays ==
  ASSUME Typed, Matching, UNCHANGED <<story, responses, handoff.said, hist.crossed>>,
         Untouched' => Untouched, story # NoStory,
         run'.todo \cup run'.put \subseteq Open(story),
         pc' \notin {"answer", "settle"} => run'.put = {}
  PROVE  Matching'
<1>1. Open(story) = {} \/ Deferred(story) = {}
  BY DEF Matching
<1>2. /\ Open(story') = Open(story) /\ Deferred(story') = Deferred(story)
      /\ Bearing(story') = Bearing(story)
      /\ \A f : NumberOf(story', f) = NumberOf(story, f)
  BY DEF Open, Deferred, Bearing, NumberOf
<1> QED BY <1>1, <1>2, MatchKept

(* A finding that is marked keeps its number.                                  *)
LEMMA MatchMarked ==
  ASSUME Typed, Matching, story \in Stories, pc \in {"answer", "settle"},
         NEW f \in run.todo, NEW st \in {"replied", "postponed", "resolved"}, Mark(f, st),
         Untouched' => Untouched, UNCHANGED <<pc, responses, handoff.said, hist.crossed>>,
         run'.todo \cup run'.put \subseteq run.todo \cup run.put
  PROVE  Matching'
<1>1. f \in Open(story) /\ f \in Findings
  BY DEF Matching, Open
<1>2. story.open \in [Findings -> Marks] /\ story.deferred \in [Findings -> 0..Cardinality(Findings)]
  BY DEF Stories
<1>3. story'.open = [story.open EXCEPT ![f].st = st] /\ story' \in Stories
      /\ UNCHANGED <<story.rounds, story.deferred>>
  BY <1>1, MarkType DEF Mark
<1>4. ASSUME NEW g \in Findings
      PROVE  /\ story'.open[g].num = story.open[g].num
             /\ story'.open[g].st # "gone" <=> story.open[g].st # "gone"
  <2>1. CASE g = f
    <3>1. story.open[f] \in Marks /\ story'.open[f] = [story.open[f] EXCEPT !.st = st]
      BY <1>1, <1>2, <1>3
    <3> QED BY <1>1, <2>1, <3>1 DEF Marks, Open
  <2>2. CASE g # f
    BY <1>2, <1>3, <2>2
  <2> QED BY <2>1, <2>2
<1>5. /\ Open(story') = Open(story) /\ Deferred(story') = Deferred(story)
      /\ \A g \in Findings : NumberOf(story', g) = NumberOf(story, g)
  BY <1>3, <1>4 DEF Open, Deferred, NumberOf
<1>6. Bearing(story') = Bearing(story) /\ Bearing(story) \subseteq Findings
  BY <1>5 DEF Bearing, Open, Deferred
<1>7. story # NoStory /\ story' # NoStory
  BY <1>3, Values
<1>8. Open(story) = {} \/ Deferred(story) = {}
  BY <1>7 DEF Matching
<1>9. run'.todo \cup run'.put \subseteq Open(story')
  BY <1>5 DEF Matching
<1> QED BY <1>3, <1>5, <1>6, <1>7, <1>8, <1>9, MatchKept

(* The planner's pass hands the findings on under the numbers they have.       *)
LEMMA MatchArmed ==
  ASSUME Typed, Matching, story \in Stories, NEW fs, fs \subseteq Bearing(story),
         story' = Armed(fs), UNCHANGED <<responses, handoff.said, hist.crossed>>,
         Untouched' => Untouched, pc' \notin {"answer", "settle"}, run'.put = {}
  PROVE  Matching'
<1>1. fs \in SUBSET Findings
  BY DEF Bearing, Open, Deferred
<1>2. story' \in Stories /\ story'.rounds = story.rounds
  BY <1>1, ArmedType
<1> DEFINE o == [f \in Findings |->
                    IF f \in fs THEN [num |-> NumberOf(story, f), st |-> "fresh"] ELSE Gone]
           d == [f \in Findings |-> 0]
<1>3. story' = [story EXCEPT !.open = o, !.deferred = d, !.passed = TRUE]
  BY DEF Armed
<1>4. \A f \in Findings : /\ f \in fs => o[f].num = NumberOf(story, f) /\ o[f].st = "fresh"
                          /\ f \notin fs => o[f].st = "gone"
                          /\ d[f] = 0
  BY DEF Gone
<1> HIDE DEF o, d
<1>5. story'.open = o /\ story'.deferred = d
  BY <1>3 DEF Stories
<1>6. Open(story') = fs /\ Deferred(story') = {}
  BY <1>1, <1>4, <1>5 DEF Open, Deferred
<1>7. \A f \in fs : NumberOf(story', f) = NumberOf(story, f)
  BY <1>1, <1>4, <1>5, <1>6 DEF NumberOf
<1> QED BY <1>2, <1>6, <1>7, MatchKept, Values DEF Bearing

(* What a role writes under a number is about a finding that bears it.         *)
LEMMA WritingsAbout ==
  ASSUME NEW numbers, NEW fs \in SUBSET Findings,
         NEW kinds \in SUBSET {"fixed", "deferred", "follow"},
         NEW said \in Writings(numbers, fs, kinds)
  PROVE  /\ said \in Sayings
         /\ \A n \in Numbers : said[n] # NoAnswer =>
               said[n].about \in fs /\ numbers[said[n].about] = n
BY WritingsType DEF Writings, NoAnswer

LEMMA Silent ==
  ASSUME NEW said \in Sayings, \A n \in Numbers : said[n] = NoAnswer
  PROVE  said = Silence
BY DEF Sayings, Silence

(* What roles write, and the saved copy of it that an audit or a blocked       *)
(* handback makes.                                                             *)
LEMMA MatchSaid ==
  ASSUME Typed, Checkout, Matching, UNCHANGED <<story, hist.crossed>>, Untouched' => Untouched,
         responses' \in {responses, Merged(handoff.said)}, handoff'.said \in Sayings,
         \/ handoff'.said \in {handoff.said, Silence}
         \/ \A n \in Numbers : handoff'.said[n] # NoAnswer =>
               /\ story # NoStory /\ handoff'.said[n].about \in Bearing(story)
               /\ NumberOf(story, handoff'.said[n].about) = n,
         pc' \in {"answer", "settle"} => run'.todo \cup run'.put \subseteq Open(story),
         pc' \notin {"answer", "settle"} => run'.put = {}
  PROVE  Matching'
<1>1. \A n \in Numbers : Silence[n] = NoAnswer
  BY DEF Silence
<1>2. \A n \in Numbers :
         Merged(handoff.said)[n] \in {responses[n], handoff.said[n]}
  BY DEF Merged
<1>3. responses = Silence /\ handoff.said = Silence => responses' = Silence
  <2>1. responses = Silence /\ handoff.said = Silence => Merged(handoff.said) = Silence
    BY <1>1 DEF Merged, Silence
  <2> QED BY <2>1
<1>4. ASSUME Untouched \/ (story # NoStory /\ story.rounds = 0)
      PROVE  responses' = Silence /\ handoff'.said = Silence
  <2>1. responses = Silence /\ handoff.said = Silence
    BY <1>4 DEF Matching
  <2>2. story = NoStory \/ Bearing(story) = {}
    BY <1>4 DEF Matching, Checkout
  <2>3. handoff'.said = Silence
    BY <1>1, <2>1, <2>2, Silent
  <2> QED BY <1>3, <2>1, <2>3
<1>5. ASSUME story # NoStory, NEW f \in Bearing(story)
      PROVE  \A said \in {responses', handoff'.said} :
                said[NumberOf(story, f)] # NoAnswer => said[NumberOf(story, f)].about = f
  <2>1. NumberOf(story, f) \in Numbers
    BY <1>5 DEF Matching
  <2>2. \A said \in {responses, handoff.said} :
           said[NumberOf(story, f)] # NoAnswer => said[NumberOf(story, f)].about = f
    BY <1>5 DEF Matching
  <2>3. responses'[NumberOf(story, f)] # NoAnswer => responses'[NumberOf(story, f)].about = f
    BY <1>2, <2>1, <2>2
  <2>4. handoff'.said[NumberOf(story, f)] # NoAnswer =>
           handoff'.said[NumberOf(story, f)].about = f
    BY <1>1, <1>5, <2>1, <2>2 DEF Matching
  <2> QED BY <2>3, <2>4
<1>6. /\ Open(story') = Open(story) /\ Deferred(story') = Deferred(story)
      /\ Bearing(story') = Bearing(story) /\ UNCHANGED story
  BY DEF Open, Deferred, Bearing
<1>7. story # NoStory =>
        \A f \in Bearing(story) :
          /\ NumberOf(story, f) \in Numbers
          /\ \A g \in Bearing(story) : NumberOf(story, f) = NumberOf(story, g) => f = g
  BY DEF Matching
<1>8. story # NoStory => (Open(story) = {} \/ Deferred(story) = {})
                         /\ (story.rounds = 0 => Bearing(story) = {})
  BY DEF Matching
<1>9. RepliesMatch'
  BY DEF Matching, RepliesMatch
<1>10. \A f : NumberOf(story', f) = NumberOf(story, f)
  BY <1>6
<1> QED BY <1>4, <1>5, <1>6, <1>7, <1>8, <1>9, <1>10 DEF Matching

(* The findings of a review have numbers of their own.                         *)
LEMMA NumberedApart ==
  ASSUME NEW fs \in SUBSET Findings
  PROVE  \A f, g \in fs : /\ Numbered(fs)[f] \in Numbers
                          /\ Numbered(fs)[f] = Numbered(fs)[g] => f = g
<1>1. Cardinality(fs) \in Nat /\ Cardinality(fs) <= Cardinality(Findings)
      /\ Cardinality(Findings) \in Nat
  BY Constants
<1>2. Numbered(fs) \in [fs -> 1..Cardinality(fs)]
      /\ \A f, g \in fs : f # g => Numbered(fs)[f] # Numbered(fs)[g]
  BY NumberedType
<1> QED BY <1>1, <1>2 DEF Numbers

LEMMA FindingsNumbered ==
  ASSUME story \in Stories, hub.found \in SUBSET Findings, ReviewFindings
  PROVE  /\ story'.rounds = story.rounds + 1 /\ UNCHANGED story.deferred
         /\ Open(story') = hub.found
         /\ \A f \in hub.found : story'.open[f].num = Numbered(hub.found)[f]
<1> DEFINE o == [f \in Findings |->
                    IF f \in hub.found THEN [num |-> Numbered(hub.found)[f], st |-> "fresh"]
                    ELSE Gone]
<1>1. story' = [story EXCEPT !.rounds = @ + 1, !.reviewed = git.branch, !.open = o]
  BY DEF ReviewFindings
<1>2. \A f \in Findings :
         /\ f \in hub.found => o[f].num = Numbered(hub.found)[f] /\ o[f].st = "fresh"
         /\ f \notin hub.found => o[f].st = "gone"
  BY DEF Gone
<1> HIDE DEF o
<1>3. story'.open = o /\ story'.rounds = story.rounds + 1 /\ UNCHANGED story.deferred
  BY <1>1 DEF Stories
<1> QED BY <1>2, <1>3 DEF Open

LEMMA RoleMatching ==
  ASSUME MaxRounds <= 1, Typed, Placed, Checkout, Matching, RoleSteps
  PROVE  Matching'
<1>1. CASE EnsureStoryBranch
  <2>1. run.put = {}
    <3>1. pc = "up"
      BY <1>1 DEF EnsureStoryBranch
    <3> QED
      BY <3>1 DEF Placed, Resting, Idle
  <2>2. git'.cut /\ pc' = "impl" /\ UNCHANGED <<handoff, run, hist>>
    BY <1>1 DEF EnsureStoryBranch, Typed, Gits, Checkout
  <2>3. CASE git.at = "base" /\ ~git.cut /\ story' = FreshStory /\ responses' = Silence
    <3>1. Untouched
      BY <1>1, <2>3 DEF EnsureStoryBranch, Untouched, Checkout
    <3>2. handoff.said = Silence
      BY <3>1 DEF Matching
    <3>3. Bearing(FreshStory) = {} /\ FreshStory.rounds = 0 /\ Open(FreshStory) = {}
      BY DEF Bearing, Open, Deferred, FreshStory, Gone
    <3> QED
      BY <2>1, <2>2, <2>3, <3>2, <3>3 DEF Matching, RepliesMatch, Untouched
  <2>4. CASE UNCHANGED <<story, responses>>
    BY <2>1, <2>2, <2>4, MatchSame DEF Untouched, Placed
  <2> QED
    BY <1>1, <2>3, <2>4 DEF EnsureStoryBranch
<1>2. CASE ImplementerClaims
  <2>1. PICK s, num :
           /\ s = IF story = NoStory THEN FreshStory ELSE story
           /\ num = [f \in Findings |-> s.open[f].num]
           /\ handoff'.said \in Writings(num, Open(s), {"fixed", "deferred"})
    BY <1>2 DEF ImplementerClaims
  <2>2. handoff'.said \in Writings(num, Open(s), {"fixed", "deferred"})
        /\ {"fixed", "deferred"} \in SUBSET {"fixed", "deferred", "follow"}
    BY <2>1
  <2>3. Open(s) \in SUBSET Findings
    BY DEF Open
  <2>4. handoff'.said \in Sayings /\ \A n \in Numbers : handoff'.said[n] # NoAnswer =>
           handoff'.said[n].about \in Open(s) /\ num[handoff'.said[n].about] = n
    BY <2>3, <2>2, WritingsAbout
  <2>5. \A n \in Numbers : handoff'.said[n] # NoAnswer =>
           /\ story # NoStory /\ handoff'.said[n].about \in Bearing(story)
           /\ NumberOf(story, handoff'.said[n].about) = n
    <3> SUFFICES ASSUME NEW n \in Numbers, handoff'.said[n] # NoAnswer
                 PROVE  /\ story # NoStory /\ handoff'.said[n].about \in Bearing(story)
                        /\ NumberOf(story, handoff'.said[n].about) = n
      OBVIOUS
    <3>1. handoff'.said[n].about \in Open(s) /\ num[handoff'.said[n].about] = n
      BY <2>4
    <3>2. Open(FreshStory) = {}
      BY DEF Open, FreshStory, Gone
    <3>3. s # FreshStory
      BY <3>1, <3>2
    <3>4. story # NoStory /\ s = story
      BY <2>1, <3>3
    <3>5. handoff'.said[n].about \in Findings
      BY <2>3, <3>1
    <3>6. num[handoff'.said[n].about] = story.open[handoff'.said[n].about].num
      BY <2>1, <3>4, <3>5
    <3> QED
      BY <3>1, <3>4, <3>6 DEF Bearing, NumberOf
  <2>6. UNCHANGED <<story, responses, run, hist>> /\ pc' = "up" /\ pc = "impl"
        /\ UNCHANGED <<git.cut, git.landed>>
    BY <1>2, CommitType DEF ImplementerClaims, Kinds, Typed
  <2>7. run.put = {}
    BY <2>6 DEF Placed, Resting, Idle
  <2> QED
    BY <2>4, <2>5, <2>6, <2>7, MatchSaid DEF Untouched
<1>3. CASE ImplementerBlocks
  <2>1. /\ story # NoStory /\ UNCHANGED <<story, responses, run, hist, git>>
        /\ pc = "impl" /\ pc' = "handback"
    BY <1>3 DEF ImplementerBlocks, world
  <2>2. PICK num : /\ num = [f \in Findings |-> story.open[f].num]
                   /\ handoff'.said \in Writings(num, Open(story), {"deferred"})
    BY <1>3 DEF ImplementerBlocks
  <2>3. handoff'.said \in Writings(num, Open(story), {"deferred"})
        /\ {"deferred"} \in SUBSET {"fixed", "deferred", "follow"}
    BY <2>2
  <2>4. Open(story) \in SUBSET Findings
    BY DEF Open
  <2>5. handoff'.said \in Sayings /\ \A n \in Numbers : handoff'.said[n] # NoAnswer =>
           handoff'.said[n].about \in Open(story) /\ num[handoff'.said[n].about] = n
    BY <2>4, <2>3, WritingsAbout
  <2>6. \A n \in Numbers : handoff'.said[n] # NoAnswer =>
           /\ story # NoStory /\ handoff'.said[n].about \in Bearing(story)
           /\ NumberOf(story, handoff'.said[n].about) = n
    BY <2>1, <2>2, <2>4, <2>5 DEF Bearing, NumberOf
  <2>7. run.put = {}
    BY <2>1 DEF Placed, Resting, Idle
  <2> QED
    BY <2>1, <2>5, <2>6, <2>7, MatchSaid DEF Untouched
<1>4. CASE DeferBlockedHandback
  <2>1. pc = "handback" /\ run = Idle /\ story \in Stories
    BY <1>4, SavedHere DEF DeferBlockedHandback, Placed, Resting
  <2>2. CASE Goto("up") \/ PauseKept(story)
    <3>1. UNCHANGED <<git, story, responses, handoff, hist>> /\ pc' \in {"up", "down"} /\ run' = Idle
      BY <2>1, <2>2, KeptType, StayType
    <3> QED
      BY <2>1, <3>1, MatchSame DEF Untouched, Idle
  <2>3. CASE ~Goto("up") /\ ~PauseKept(story)
    <3>1. /\ responses' = Merged(handoff.said) /\ UNCHANGED <<git, story, handoff, hist>>
          /\ pc' = "answer"
          /\ run' = [Idle EXCEPT !.task = "deferral",
                       !.todo = {f \in Open(story) : story.open[f].st # "resolved"},
                       !.seen = {f \in Findings : hub.threads[f] = "resolved"}]
      BY <1>4, <2>3 DEF DeferBlockedHandback, world
    <3>2. run'.put = {} /\ run'.todo \subseteq Open(story)
      BY <3>1 DEF Idle
    <3> QED
      BY <2>1, <3>1, <3>2, MatchSaid, Values DEF Untouched, Typed, Handoffs
  <2> QED
    BY <2>2, <2>3
<1>5. CASE Audit
  <2>1. /\ responses' = Merged(handoff.said) /\ handoff'.said = Silence
        /\ UNCHANGED <<git, story, hist.crossed>> /\ pc = "up" /\ pc' \in {"up", "begin"}
        /\ run' \in {run, Idle}
    BY <1>5 DEF Audit, world, Typed, Hists
  <2>2. run'.put = {}
    BY <2>1 DEF Placed, Resting, Idle
  <2> QED
    BY <2>1, <2>2, MatchSaid, Values DEF Untouched
<1>6. CASE PlannerRuns
  <2>1. /\ UNCHANGED <<story, responses, run, hist, git>>
        /\ pc \in {"up", "paused"} /\ pc' \in {"decided", "up"}
    BY <1>6 DEF PlannerRuns, world
  <2>2. run.put = {}
    BY <2>1 DEF Placed, Resting, Idle
  <2>3. CASE handoff'.said = Silence
    BY <2>1, <2>2, <2>3, MatchSaid, Values DEF Untouched
  <2>4. CASE story # NoStory /\ handoff'.said # Silence
    <3>1. PICK num :
             /\ num = [f \in Findings |-> NumberOf(story, f)]
             /\ handoff'.said \in Writings(num, UnresolvedFindings(story), {"follow"})
      BY <1>6, <2>4 DEF PlannerRuns
    <3>2. handoff'.said \in Writings(num, UnresolvedFindings(story), {"follow"})
          /\ {"follow"} \in SUBSET {"fixed", "deferred", "follow"}
      BY <3>1
    <3>3. UnresolvedFindings(story) \in SUBSET Findings
          /\ UnresolvedFindings(story) \subseteq Bearing(story)
      BY DEF UnresolvedFindings, Open, Deferred, Bearing
    <3>4. handoff'.said \in Sayings /\ \A n \in Numbers : handoff'.said[n] # NoAnswer =>
             handoff'.said[n].about \in UnresolvedFindings(story)
             /\ num[handoff'.said[n].about] = n
      BY <3>3, <3>2, WritingsAbout
    <3>5. \A n \in Numbers : handoff'.said[n] # NoAnswer =>
             /\ story # NoStory /\ handoff'.said[n].about \in Bearing(story)
             /\ NumberOf(story, handoff'.said[n].about) = n
      BY <2>4, <3>1, <3>3, <3>4
    <3> QED
      BY <2>1, <2>2, <3>4, <3>5, MatchSaid DEF Untouched
  <2> QED
    BY <1>6, <2>3, <2>4 DEF PlannerRuns
<1> QED
  BY <1>1, <1>2, <1>3, <1>4, <1>5, <1>6 DEF RoleSteps

LEMMA PublishMatching ==
  ASSUME MaxRounds <= 1, Typed, Placed, Checkout, Matching, PublishSteps
  PROVE  Matching'
<1>1. CASE AdoptBaseBranchStory
  <2>1. CASE /\ git.at = "base" /\ ~git.cut /\ story' = FreshStory /\ responses' = Silence
               /\ UNCHANGED <<handoff, run, hist>> /\ pc' \in {"impl", "sync"}
    <3>1. Untouched
      BY <1>1, <2>1 DEF AdoptBaseBranchStory, Untouched, Checkout, Adoptable
    <3>2. handoff.said = Silence
      BY <3>1 DEF Matching
    <3>3. Bearing(FreshStory) = {} /\ FreshStory.rounds = 0 /\ Open(FreshStory) = {}
      BY DEF Bearing, Open, Deferred, FreshStory, Gone
    <3>4. git'.cut /\ run.put = {}
      BY <1>1, <2>1 DEF AdoptBaseBranchStory, Typed, Gits, Placed, Resting,
         Idle, Adoptable
    <3> QED
      BY <2>1, <3>2, <3>3, <3>4 DEF Matching, RepliesMatch, Untouched
  <2> QED
    BY <1>1, <2>1 DEF AdoptBaseBranchStory, Adoptable
<1>2. CASE EpicCloseMerged
  BY <1>2, StayType, MatchSame, Values DEF EpicCloseMerged, world, disk, Typed,
     Gits, Hists, Untouched, Placed, Resting, Finishing
<1>3. CASE PublishRefused
  BY <1>3, MatchSame, Values DEF PublishRefused, Ends, world, disk, Typed,
     Gits, Hists, Untouched, Placed, Resting, Finishing
<1>4. CASE PublishBegins
  <2>1. pc = "begin" /\ run = Idle
    BY <1>4 DEF PublishBegins, Placed, Resting
  <2>2. /\ UNCHANGED <<git, responses, handoff, hist>>
        /\ pc' \in {"up", "switch", "sync"}
        /\ run' = run \/ run' = [run EXCEPT !.resumed = story.paused = "merge"]
        /\ \/ story' = story
           \/ /\ story # NoStory
              /\ story' = [story EXCEPT !.paused = "none", !.pausedAt = NoCommit]
    BY <1>4 DEF PublishBegins, Goto, CheckedOut, world, disk
  <2>3. run'.put = {}
    BY <2>1, <2>2 DEF Idle
  <2>4. \/ story' = NoStory
        \/ story # NoStory /\ UNCHANGED <<story.rounds, story.open, story.deferred>>
    BY <2>2 DEF Typed, Stories
  <2> QED
    BY <2>2, <2>3, <2>4, MatchSame DEF Untouched
<1>5. CASE SetAsidePause
  <2>1. story \in Stories
    BY <1>5, SavedHere DEF SetAsidePause, OnPullRequest, Syncing, Reading,
       Finishing
  <2>2. /\ pc' = "down" /\ run' = Idle /\ story' = Paused
        /\ UNCHANGED <<git, responses, handoff, hist>>
    BY <1>5, KeptType DEF SetAsidePause
  <2>3. UNCHANGED <<story.rounds, story.open, story.deferred>>
    BY <2>1, <2>2, PausedType DEF Typed
  <2> QED
    BY <2>1, <2>2, <2>3, MatchSame, Values DEF Untouched, Idle
<1>6. CASE SyncNothing
  BY <1>6, StayType, MatchSame, Values DEF SyncNothing, world, disk, Typed,
     Gits, Hists, Untouched, Placed, Resting, Finishing
<1>7. CASE SyncClean
  BY <1>7, CommitType, MatchSame, Values DEF SyncClean, disk, Kinds, Typed,
     Gits, Hists, Untouched, Placed, Resting, Finishing
<1>8. CASE SyncConflict
  <2>1. story \in Stories
    BY <1>8, SavedHere DEF SyncConflict, OnPullRequest, Syncing, Reading,
       Finishing
  <2>2. /\ pc' = "down" /\ run' = Idle /\ story' = Paused
        /\ UNCHANGED <<git, responses, handoff, hist>>
    BY <1>8, KeptType DEF SyncConflict
  <2>3. UNCHANGED <<story.rounds, story.open, story.deferred>>
    BY <2>1, <2>2, PausedType DEF Typed
  <2> QED
    BY <2>1, <2>2, <2>3, MatchSame, Values DEF Untouched, Idle
<1>9. CASE SyncStateConflict
  BY <1>9, MatchSame, Values DEF SyncStateConflict, disk, Typed, Gits, Hists,
     Untouched, Placed, Resting, Finishing
<1>10. CASE StateConflictResolved
  BY <1>10, MatchSame, Values DEF StateConflictResolved, disk, Typed, Gits,
     Hists, Untouched, Placed, Resting, Finishing
<1>11. CASE StateConflictUnresolved
  <2>1. story \in Stories
    BY <1>11, SavedHere DEF StateConflictUnresolved, OnPullRequest, Syncing,
       Reading, Finishing
  <2>2. UNCHANGED hist.crossed
    BY <1>11, <2>1 DEF StateConflictUnresolved, Ends, Paused, Step, Typed,
       Hists, disk, world
  <2>3. Untouched' => Untouched
    BY <1>11, <2>1 DEF StateConflictUnresolved, Ends, Paused, Step, Typed, Gits,
       Untouched, Checkout, disk, world
  <2>4. responses' \in {responses, Silence} /\ handoff'.said \in {handoff.said, Silence}
    BY <1>11, <2>1 DEF StateConflictUnresolved, Ends, Paused, Step, disk
  <2>5. \/ story' = NoStory
        \/ story # NoStory /\ UNCHANGED <<story.rounds, story.open, story.deferred>>
    BY <1>11, <2>1, Values DEF StateConflictUnresolved, Ends, Paused, Step,
       Typed, Stories, disk
  <2>6. /\ pc' \in {"answer", "settle"} =>
             /\ pc' = pc /\ story' # NoStory
             /\ run'.todo \cup run'.put \subseteq run.todo \cup run.put
        /\ pc' \notin {"answer", "settle"} =>
             run'.put = {} \/ (pc \notin {"answer", "settle"} /\ UNCHANGED run.put)
    BY <1>11, <2>1, Values DEF StateConflictUnresolved, Ends, Paused, Step,
       Typed, Runs, Idle, Placed, disk, world, Orphaned, MovesOn
  <2> QED
    BY <2>2, <2>3, <2>4, <2>5, <2>6, MatchSame
<1>12. CASE DropEmptyStoryBranch
  <2>1. story \in Stories
    BY <1>12, SavedHere DEF DropEmptyStoryBranch, OnPullRequest, Syncing,
       Reading, Finishing
  <2>2. UNCHANGED hist.crossed
    BY <1>12, <2>1 DEF DropEmptyStoryBranch, Typed, Hists, disk, world
  <2>3. Untouched' => Untouched
    BY <1>12, <2>1 DEF DropEmptyStoryBranch, Typed, Gits, Untouched, Checkout,
       disk, world
  <2>4. responses' \in {responses, Silence} /\ handoff'.said \in {handoff.said, Silence}
    BY <1>12, <2>1 DEF DropEmptyStoryBranch, disk
  <2>5. \/ story' = NoStory
        \/ story # NoStory /\ UNCHANGED <<story.rounds, story.open, story.deferred>>
    BY <1>12, <2>1, Values DEF DropEmptyStoryBranch, Typed, Stories, disk
  <2>6. /\ pc' \in {"answer", "settle"} =>
             /\ pc' = pc /\ story' # NoStory
             /\ run'.todo \cup run'.put \subseteq run.todo \cup run.put
        /\ pc' \notin {"answer", "settle"} =>
             run'.put = {} \/ (pc \notin {"answer", "settle"} /\ UNCHANGED run.put)
    BY <1>12, <2>1, Values DEF DropEmptyStoryBranch, Typed, Runs, Idle, Placed,
       disk, world, Orphaned, MovesOn
  <2> QED
    BY <2>2, <2>3, <2>4, <2>5, <2>6, MatchSame
<1>13. CASE Push
  BY <1>13, MatchSame, Values DEF Push, disk, Typed, Gits, Hists, Untouched,
     Placed, Resting, Finishing
<1>14. CASE PushRejected
  <2>1. story \in Stories
    BY <1>14, SavedHere DEF PushRejected, OnPullRequest, Syncing, Reading,
       Finishing
  <2>2. UNCHANGED hist.crossed
    BY <1>14, <2>1 DEF PushRejected, Ends, world, disk, Typed, Hists
  <2>3. Untouched' => Untouched
    BY <1>14, <2>1 DEF PushRejected, Ends, world, disk, Typed, Gits, Untouched,
       Checkout
  <2>4. responses' \in {responses, Silence} /\ handoff'.said \in {handoff.said, Silence}
    BY <1>14, <2>1 DEF PushRejected, Ends, world, disk
  <2>5. \/ story' = NoStory
        \/ story # NoStory /\ UNCHANGED <<story.rounds, story.open, story.deferred>>
    BY <1>14, <2>1, Values DEF PushRejected, Ends, world, disk, Typed, Stories
  <2>6. /\ pc' \in {"answer", "settle"} =>
             /\ pc' = pc /\ story' # NoStory
             /\ run'.todo \cup run'.put \subseteq run.todo \cup run.put
        /\ pc' \notin {"answer", "settle"} =>
             run'.put = {} \/ (pc \notin {"answer", "settle"} /\ UNCHANGED run.put)
    BY <1>14, <2>1, Values DEF PushRejected, Ends, world, disk, Typed, Runs,
       Idle, Placed, Orphaned, MovesOn
  <2> QED
    BY <2>2, <2>3, <2>4, <2>5, <2>6, MatchSame
<1>15. CASE OpenPullRequest
  <2>1. story \in Stories /\ UNCHANGED <<git, handoff>>
    BY <1>15, SavedHere DEF OpenPullRequest, OnPullRequest, Reading
  <2>2. CASE pc' = "down" /\ run' = Idle /\ story' = NoStory /\ responses' = Silence
             /\ UNCHANGED hist.crossed
    BY <2>1, <2>2, MatchSame DEF Untouched, Idle
  <2>3. CASE /\ UNCHANGED <<story, responses, hist>> /\ pc' \in {"threads", "review", "answer"}
             /\ run' = [run EXCEPT
                   !.todo = {f \in Open(story) : story.open[f].st # "resolved"},
                   !.seen = {f \in Findings : hub.threads[f] = "resolved"}]
    <3>1. run.put = {}
      <4>1. pc = "open"
        BY <1>15 DEF OpenPullRequest
      <4> QED
        BY <4>1 DEF Matching
    <3>2. run'.todo \subseteq Open(story) /\ run'.put = {}
      BY <2>3, <3>1 DEF Typed, Runs
    <3> QED
      BY <2>1, <2>3, <3>2, MatchStays, Values DEF Untouched
  <2> QED
    BY <1>15, <2>2, <2>3 DEF OpenPullRequest, Ends, Typed, Hists
<1> QED
  BY <1>1, <1>2, <1>3, <1>4, <1>5, <1>6, <1>7, <1>8, <1>9, <1>10, <1>11, <1>12,
     <1>13, <1>14, <1>15 DEF PublishSteps

LEMMA AnswerMatching ==
  ASSUME MaxRounds <= 1, Typed, Placed, Checkout, Matching, AnswerSteps
  PROVE  Matching'
<1>1. CASE AnswerResolvedThread
  <2>1. PICK f \in run.seen : Turn(f) /\ Mark(f, "resolved")
    BY <1>1 DEF AnswerResolvedThread
  <2>2. pc \in {"answer", "settle"} /\ story \in Stories /\ f \in run.todo
    BY <1>1, <2>1, SavedHere DEF AnswerResolvedThread, Settling, Turn,
       OnPullRequest
  <2>3. UNCHANGED <<pc, responses, handoff, hist, git>> /\ run'.todo \cup run'.put \subseteq run.todo \cup run.put
    BY <1>1 DEF AnswerResolvedThread, Handled, world, Typed, Runs
  <2> QED
    BY <2>1, <2>2, <2>3, MatchMarked DEF Untouched
<1>2. CASE AnswerMissing
  <2>1. story \in Stories
    BY <1>2, SavedHere DEF AnswerMissing, OnPullRequest, Syncing, Reading,
       Finishing
  <2>2. UNCHANGED hist.crossed
    BY <1>2, <2>1 DEF AnswerMissing, world, disk, PutOff, Typed, Hists
  <2>3. Untouched' => Untouched
    BY <1>2, <2>1 DEF AnswerMissing, world, disk, PutOff, Typed, Gits,
       Untouched, Checkout
  <2>4. responses' \in {responses, Silence} /\ handoff'.said \in {handoff.said, Silence}
    BY <1>2, <2>1 DEF AnswerMissing, world, disk, PutOff
  <2>5. \/ story' = NoStory
        \/ story # NoStory /\ UNCHANGED <<story.rounds, story.open, story.deferred>>
    BY <1>2, <2>1, Values DEF AnswerMissing, world, disk, PutOff, Typed,
       Stories
  <2>6. /\ pc' \in {"answer", "settle"} =>
             /\ pc' = pc /\ story' # NoStory
             /\ run'.todo \cup run'.put \subseteq run.todo \cup run.put
        /\ pc' \notin {"answer", "settle"} =>
             run'.put = {} \/ (pc \notin {"answer", "settle"} /\ UNCHANGED run.put)
    BY <1>2, <2>1, Values DEF AnswerMissing, world, disk, PutOff, Typed, Runs,
       Idle, Placed, Orphaned, MovesOn
  <2> QED
    BY <2>2, <2>3, <2>4, <2>5, <2>6, MatchSame
<1>3. CASE AnswerReply
  <2>1. PICK f \in run.todo : /\ PostReply(f, AnswerTo(f))
                               /\ \E st \in {"postponed", "replied"} : Mark(f, st)
                               /\ AnswerTo(f) # NoAnswer
    BY <1>3 DEF AnswerReply, FollowUp, NoAnswer
  <2>2. PICK st \in {"postponed", "replied"} : Mark(f, st)
    BY <2>1
  <2>3. pc \in {"answer", "settle"} /\ story \in Stories
    BY <1>3, SavedHere DEF AnswerReply, Settling, OnPullRequest
  <2>4. f \in Open(story)
    BY <2>1, <2>3 DEF Matching
  <2>5. (AnswerTo(f)).about = f
    BY <2>1, <2>3, <2>4, Values DEF Matching, Bearing, NumberOf, AnswerTo
  <2>6. UNCHANGED <<pc, responses, handoff, hist, git, run>>
    BY <1>3, <2>1, <2>5 DEF AnswerReply, PostReply
  <2> QED
    BY <2>1, <2>2, <2>3, <2>6, MatchMarked DEF Untouched
<1>4. CASE AnswerDeferred
  <2>1. story \in Stories
    BY <1>4, SavedHere DEF AnswerDeferred, OnPullRequest, Syncing, Reading,
       Finishing
  <2>2. UNCHANGED hist.crossed
    BY <1>4, <2>1 DEF AnswerDeferred, world, disk, PutOff, Typed, Hists
  <2>3. Untouched' => Untouched
    BY <1>4, <2>1 DEF AnswerDeferred, world, disk, PutOff, Typed, Gits,
       Untouched, Checkout
  <2>4. responses' \in {responses, Silence} /\ handoff'.said \in {handoff.said, Silence}
    BY <1>4, <2>1 DEF AnswerDeferred, world, disk, PutOff
  <2>5. \/ story' = NoStory
        \/ story # NoStory /\ UNCHANGED <<story.rounds, story.open, story.deferred>>
    BY <1>4, <2>1, Values DEF AnswerDeferred, world, disk, PutOff, Typed,
       Stories
  <2>6. /\ pc' \in {"answer", "settle"} =>
             /\ pc' = pc /\ story' # NoStory
             /\ run'.todo \cup run'.put \subseteq run.todo \cup run.put
        /\ pc' \notin {"answer", "settle"} =>
             run'.put = {} \/ (pc \notin {"answer", "settle"} /\ UNCHANGED run.put)
    BY <1>4, <2>1, Values DEF AnswerDeferred, world, disk, PutOff, Typed, Runs,
       Idle, Placed, Orphaned, MovesOn
  <2> QED
    BY <2>2, <2>3, <2>4, <2>5, <2>6, MatchSame
<1>5. CASE AnswerResolve
  <2>1. pc = "answer" /\ UNCHANGED <<pc, responses, handoff, hist, git>>
        /\ run'.todo \cup run'.put \subseteq run.todo \cup run.put
    BY <1>5 DEF AnswerResolve, Handled, Typed, Runs
  <2>2. story \in Stories
    BY <2>1, SavedHere DEF OnPullRequest
  <2>3. CASE UNCHANGED story
    BY <2>1, <2>2, <2>3, MatchSame, Values DEF Untouched
  <2>4. CASE ~UNCHANGED story
    <3>1. PICK f \in run.todo : Mark(f, "resolved")
      BY <1>5, <2>4 DEF AnswerResolve
    <3> QED
      BY <2>1, <2>2, <3>1, MatchMarked DEF Untouched
  <2> QED
    BY <2>3, <2>4
<1>6. CASE AnswersDone
  <2>1. story \in Stories /\ pc = "answer"
    BY <1>6, SavedHere DEF AnswersDone, OnPullRequest
  <2>2. /\ story' \in Stories /\ UNCHANGED story.rounds
        /\ Open(story') = {} /\ Deferred(story') \subseteq Bearing(story)
        /\ \A f \in Deferred(story') : NumberOf(story', f) = NumberOf(story, f)
    <3>1. /\ story' \in Stories /\ UNCHANGED story.rounds
          /\ \A f \in Findings : story'.open[f] = Gone
          /\ \A f \in Findings :
                story'.deferred[f] = IF f \in run.put THEN story.open[f].num
                                     ELSE IF f \in Open(story) THEN 0 ELSE story.deferred[f]
      BY <1>6, <2>1, AnswersDoneType
    <3>2. run.put \subseteq Open(story)
      BY <2>1 DEF Matching
    <3>3. Open(story') = {}
      BY <3>1 DEF Open, Gone
    <3> QED
      BY <3>1, <3>2, <3>3 DEF Deferred, Bearing, NumberOf
  <2>3. /\ responses' = Silence /\ run'.put = {} /\ pc' \in {"route", "review"}
        /\ UNCHANGED <<git, handoff, hist>>
    BY <1>6 DEF AnswersDone, world, Typed, Runs
  <2> QED
    BY <2>1, <2>2, <2>3, MatchKept, Values DEF Untouched, Bearing
<1> QED
  BY <1>1, <1>2, <1>3, <1>4, <1>5, <1>6 DEF AnswerSteps

LEMMA ReviewMatching ==
  ASSUME MaxRounds <= 1, Typed, Placed, Checkout, Matching, ReviewSteps
  PROVE  Matching'
<1>1. CASE RoundsUsedUp
  BY <1>1, StayType, MatchSame, Values DEF RoundsUsedUp, world, disk, Typed,
     Gits, Hists, Untouched, Placed, Resting, Finishing
<1>2. CASE ReviewClean
  <2>1. story \in Stories
    BY <1>2, SavedHere DEF ReviewClean, Reviewing, OnPullRequest, Syncing,
       Reading, Finishing
  <2>2. UNCHANGED hist.crossed
    BY <1>2, <2>1 DEF ReviewClean, Reviewing, world, Typed, Hists, disk
  <2>3. Untouched' => Untouched
    BY <1>2, <2>1 DEF ReviewClean, Reviewing, world, Typed, Gits, Untouched,
       Checkout, disk
  <2>4. responses' \in {responses, Silence} /\ handoff'.said \in {handoff.said, Silence}
    BY <1>2, <2>1 DEF ReviewClean, Reviewing, world, disk
  <2>5. \/ story' = NoStory
        \/ story # NoStory /\ UNCHANGED <<story.rounds, story.open, story.deferred>>
    BY <1>2, <2>1, Values DEF ReviewClean, Reviewing, world, Typed, Stories,
       disk
  <2>6. /\ pc' \in {"answer", "settle"} =>
             /\ pc' = pc /\ story' # NoStory
             /\ run'.todo \cup run'.put \subseteq run.todo \cup run.put
        /\ pc' \notin {"answer", "settle"} =>
             run'.put = {} \/ (pc \notin {"answer", "settle"} /\ UNCHANGED run.put)
    BY <1>2, <2>1, Values DEF ReviewClean, Reviewing, world, Typed, Runs, Idle,
       Placed, disk, Orphaned, MovesOn
  <2> QED
    BY <2>2, <2>3, <2>4, <2>5, <2>6, MatchSame
<1>3. CASE ReviewFindings
  <2>1. story \in Stories /\ hub.found \in SUBSET Findings /\ pc = "review"
    BY <1>3, SavedHere DEF ReviewFindings, Reviewing, OnPullRequest, Reading,
       Typed, Hubs
  <2>2. story.rounds = 0
    BY <1>3, <2>1, Constants DEF ReviewFindings, Reviewing, Stories
  <2>3. Deferred(story) = {} /\ handoff.said = Silence
    BY <2>1, <2>2, Values DEF Matching, Bearing
  <2>4. /\ story' \in Stories /\ story'.rounds = 1 /\ UNCHANGED story.deferred
        /\ Open(story') = hub.found
        /\ \A f \in hub.found : story'.open[f].num = Numbered(hub.found)[f]
    BY <1>3, <2>1, <2>2, ReviewFindingsType, FindingsNumbered DEF Typed
  <2>5. /\ responses' = Silence /\ pc' = "bounce"
        /\ UNCHANGED <<git, handoff, run, hist>>
    BY <1>3 DEF ReviewFindings
  <2>6. Deferred(story') = {}
    BY <2>3, <2>4 DEF Deferred
  <2>7. \A f \in hub.found :
           /\ NumberOf(story', f) \in Numbers
           /\ \A g \in hub.found : NumberOf(story', f) = NumberOf(story', g) => f = g
    BY <2>1, <2>4, NumberedApart DEF NumberOf
  <2>8. \A n \in Numbers : Silence[n] = NoAnswer
    BY DEF Silence
  <2>9. run.put = {}
    BY <2>1 DEF Matching
  <2> QED
    BY <2>1, <2>3, <2>4, <2>5, <2>6, <2>7, <2>8, <2>9 DEF Matching,
       RepliesMatch, Bearing, Untouched
<1>4. CASE WriteBounceHandoff
  <2>1. story \in Stories
    BY <1>4, SavedHere DEF WriteBounceHandoff, OnPullRequest, Syncing, Reading,
       Finishing
  <2>2. UNCHANGED hist.crossed
    BY <1>4, <2>1 DEF WriteBounceHandoff, world, Typed, Hists, disk
  <2>3. Untouched' => Untouched
    BY <1>4, <2>1 DEF WriteBounceHandoff, world, Typed, Gits, Untouched,
       Checkout, disk
  <2>4. responses' \in {responses, Silence} /\ handoff'.said \in {handoff.said, Silence}
    BY <1>4, <2>1 DEF WriteBounceHandoff, world, disk
  <2>5. \/ story' = NoStory
        \/ story # NoStory /\ UNCHANGED <<story.rounds, story.open, story.deferred>>
    BY <1>4, <2>1, Values DEF WriteBounceHandoff, world, Typed, Stories, disk
  <2>6. /\ pc' \in {"answer", "settle"} =>
             /\ pc' = pc /\ story' # NoStory
             /\ run'.todo \cup run'.put \subseteq run.todo \cup run.put
        /\ pc' \notin {"answer", "settle"} =>
             run'.put = {} \/ (pc \notin {"answer", "settle"} /\ UNCHANGED run.put)
    BY <1>4, <2>1, Values DEF WriteBounceHandoff, world, Typed, Runs, Idle,
       Placed, disk, Orphaned, MovesOn
  <2> QED
    BY <2>2, <2>3, <2>4, <2>5, <2>6, MatchSame
<1>5. CASE RequestAgain
  <2>1. story \in Stories
    BY <1>5, SavedHere DEF RequestAgain, Reviewing, OnPullRequest, Syncing,
       Reading, Finishing
  <2>2. UNCHANGED hist.crossed
    BY <1>5, <2>1 DEF RequestAgain, Reviewing, RequestReview, Typed, Hists,
       disk, world
  <2>3. Untouched' => Untouched
    BY <1>5, <2>1 DEF RequestAgain, Reviewing, RequestReview, Typed, Gits,
       Untouched, Checkout, disk, world
  <2>4. responses' \in {responses, Silence} /\ handoff'.said \in {handoff.said, Silence}
    BY <1>5, <2>1 DEF RequestAgain, Reviewing, RequestReview, disk
  <2>5. \/ story' = NoStory
        \/ story # NoStory /\ UNCHANGED <<story.rounds, story.open, story.deferred>>
    BY <1>5, <2>1, Values DEF RequestAgain, Reviewing, RequestReview, Typed,
       Stories, disk
  <2>6. /\ pc' \in {"answer", "settle"} =>
             /\ pc' = pc /\ story' # NoStory
             /\ run'.todo \cup run'.put \subseteq run.todo \cup run.put
        /\ pc' \notin {"answer", "settle"} =>
             run'.put = {} \/ (pc \notin {"answer", "settle"} /\ UNCHANGED run.put)
    BY <1>5, <2>1, Values DEF RequestAgain, Reviewing, RequestReview, Typed,
       Runs, Idle, Placed, disk, world, Orphaned, MovesOn
  <2> QED
    BY <2>2, <2>3, <2>4, <2>5, <2>6, MatchSame
<1>6. CASE RetryUnfinished
  <2>1. story \in Stories
    BY <1>6, SavedHere DEF RetryUnfinished, Reviewing, OnPullRequest, Syncing,
       Reading, Finishing
  <2>2. UNCHANGED hist.crossed
    BY <1>6, <2>1 DEF RetryUnfinished, Reviewing, world, disk, Waived, Typed,
       Hists
  <2>3. Untouched' => Untouched
    BY <1>6, <2>1 DEF RetryUnfinished, Reviewing, world, disk, Waived, Typed,
       Gits, Untouched, Checkout
  <2>4. responses' \in {responses, Silence} /\ handoff'.said \in {handoff.said, Silence}
    BY <1>6, <2>1 DEF RetryUnfinished, Reviewing, world, disk, Waived
  <2>5. \/ story' = NoStory
        \/ story # NoStory /\ UNCHANGED <<story.rounds, story.open, story.deferred>>
    BY <1>6, <2>1, Values DEF RetryUnfinished, Reviewing, world, disk, Waived,
       Typed, Stories
  <2>6. /\ pc' \in {"answer", "settle"} =>
             /\ pc' = pc /\ story' # NoStory
             /\ run'.todo \cup run'.put \subseteq run.todo \cup run.put
        /\ pc' \notin {"answer", "settle"} =>
             run'.put = {} \/ (pc \notin {"answer", "settle"} /\ UNCHANGED run.put)
    BY <1>6, <2>1, Values DEF RetryUnfinished, Reviewing, world, disk, Waived,
       Typed, Runs, Idle, Placed, Orphaned, MovesOn
  <2> QED
    BY <2>2, <2>3, <2>4, <2>5, <2>6, MatchSame
<1>7. CASE ReviewLimited
  BY <1>7, StayType, MatchSame, Values DEF ReviewLimited, Reviewing, world,
     disk, Typed, Gits, Hists, Untouched, Placed, Resting, Finishing
<1>8. CASE PromptMerge
  BY <1>8, MatchSame, Values DEF PromptMerge, world, disk, Waived, Typed, Gits,
     Hists, Untouched, Placed, Resting, Finishing
<1>9. CASE PromptRetry
  <2>1. story \in Stories
    BY <1>9, SavedHere DEF PromptRetry, OnPullRequest, Syncing, Reading,
       Finishing
  <2>2. UNCHANGED hist.crossed
    BY <1>9, <2>1 DEF PromptRetry, RequestReview, Typed, Hists, disk, world
  <2>3. Untouched' => Untouched
    BY <1>9, <2>1 DEF PromptRetry, RequestReview, Typed, Gits, Untouched,
       Checkout, disk, world
  <2>4. responses' \in {responses, Silence} /\ handoff'.said \in {handoff.said, Silence}
    BY <1>9, <2>1 DEF PromptRetry, RequestReview, disk
  <2>5. \/ story' = NoStory
        \/ story # NoStory /\ UNCHANGED <<story.rounds, story.open, story.deferred>>
    BY <1>9, <2>1, Values DEF PromptRetry, RequestReview, Typed, Stories, disk
  <2>6. /\ pc' \in {"answer", "settle"} =>
             /\ pc' = pc /\ story' # NoStory
             /\ run'.todo \cup run'.put \subseteq run.todo \cup run.put
        /\ pc' \notin {"answer", "settle"} =>
             run'.put = {} \/ (pc \notin {"answer", "settle"} /\ UNCHANGED run.put)
    BY <1>9, <2>1, Values DEF PromptRetry, RequestReview, Typed, Runs, Idle,
       Placed, disk, world, Orphaned, MovesOn
  <2> QED
    BY <2>2, <2>3, <2>4, <2>5, <2>6, MatchSame
<1>10. CASE PromptQuits
  <2>1. UNCHANGED hist.crossed
    BY <1>10 DEF PromptQuits, PauseForPerson, Typed, Hists
  <2> QED
    BY <1>10, <2>1, PersonType, MatchSame DEF PromptQuits, Typed, Untouched,
       Idle
<1> QED
  BY <1>1, <1>2, <1>3, <1>4, <1>5, <1>6, <1>7, <1>8, <1>9, <1>10
     DEF ReviewSteps

LEMMA MergeMatching ==
  ASSUME MaxRounds <= 1, Typed, Placed, Checkout, Matching, MergeSteps
  PROVE  Matching'
<1>1. CASE ThreadsResolved
  BY <1>1, StayType, MatchSame, Values DEF ThreadsResolved, world, disk, Typed,
     Gits, Hists, Untouched, Placed, Resting, Finishing
<1>2. CASE ThreadsDeferred
  <2>1. story \in Stories /\ pc' = "deferral" /\ run' = Idle
        /\ UNCHANGED <<git, responses, handoff>>
    BY <1>2, RoutedType
  <2>2. story' = Armed(UnresolvedThreads) /\ UNCHANGED hist.crossed
    BY <1>2 DEF ThreadsDeferred, RouteDeferredToPlanner, Typed, Hists
  <2>3. UnresolvedThreads \subseteq Bearing(story)
    BY <1>2 DEF ThreadsDeferred, DeferredOnly, Bearing
  <2> QED
    BY <2>1, <2>2, <2>3, MatchArmed DEF Untouched, Idle
<1>3. CASE ThreadsUnresolved
  <2>1. UNCHANGED hist.crossed
    BY <1>3 DEF ThreadsUnresolved, PauseForPerson, Typed, Hists
  <2> QED
    BY <1>3, <2>1, PersonType, MatchSame DEF ThreadsUnresolved, Typed,
       Untouched, Idle
<1>4. CASE ThreadsUnread
  <2>1. story \in Stories
    BY <1>4, SavedHere DEF ThreadsUnread, OnPullRequest, Syncing, Reading,
       Finishing
  <2>2. UNCHANGED hist.crossed
    BY <1>4, <2>1 DEF ThreadsUnread, Ends, world, disk, Typed, Hists
  <2>3. Untouched' => Untouched
    BY <1>4, <2>1 DEF ThreadsUnread, Ends, world, disk, Typed, Gits, Untouched,
       Checkout
  <2>4. responses' \in {responses, Silence} /\ handoff'.said \in {handoff.said, Silence}
    BY <1>4, <2>1 DEF ThreadsUnread, Ends, world, disk
  <2>5. \/ story' = NoStory
        \/ story # NoStory /\ UNCHANGED <<story.rounds, story.open, story.deferred>>
    BY <1>4, <2>1, Values DEF ThreadsUnread, Ends, world, disk, Typed, Stories
  <2>6. /\ pc' \in {"answer", "settle"} =>
             /\ pc' = pc /\ story' # NoStory
             /\ run'.todo \cup run'.put \subseteq run.todo \cup run.put
        /\ pc' \notin {"answer", "settle"} =>
             run'.put = {} \/ (pc \notin {"answer", "settle"} /\ UNCHANGED run.put)
    BY <1>4, <2>1, Values DEF ThreadsUnread, Ends, world, disk, Typed, Runs,
       Idle, Placed, Orphaned, MovesOn
  <2> QED
    BY <2>2, <2>3, <2>4, <2>5, <2>6, MatchSame
<1>5. CASE RouteBlockedHandback
  <2>1. CASE PauseKept(story)
    <3>1. pc' = "down" /\ run' = Idle /\ UNCHANGED <<git, story, responses, handoff, hist>>
      BY <2>1, KeptType
    <3> QED
      BY <3>1, MatchSame DEF Untouched, Idle
  <2>2. CASE ~PauseKept(story)
    <3>1. story \in Stories /\ pc' = "deferral" /\ run' = Idle
          /\ UNCHANGED <<git, responses, handoff>>
      BY <1>5, <2>2, RoutedType
    <3>2. story' = Armed(Deferred(story)) /\ UNCHANGED hist.crossed
      BY <1>5, <2>2 DEF RouteBlockedHandback, RouteDeferredToPlanner, Typed,
         Hists
    <3> QED
      BY <3>1, <3>2, MatchArmed DEF Untouched, Idle, Bearing
  <2> QED
    BY <2>1, <2>2
<1>6. CASE WriteDeferredHandoff
  BY <1>6, MatchSame, Values DEF WriteDeferredHandoff, world, Typed, Gits,
     Hists, Untouched, Placed, Resting, Finishing
<1>7. CASE MergeAccepted
  BY <1>7, MatchSame, Values DEF MergeAccepted, disk, Typed, Gits, Hists,
     Untouched, Placed, Resting, Finishing
<1>8. CASE NotMergeable
  BY <1>8, MatchSame, Values DEF NotMergeable, world, disk, Typed, Gits, Hists,
     Untouched, Placed, Resting, Finishing
<1>9. CASE MergeFailsAgain
  <2>1. story \in Stories
    BY <1>9, SavedHere DEF MergeFailsAgain, OnPullRequest, Syncing, Reading,
       Finishing
  <2>2. UNCHANGED hist.crossed
    BY <1>9, <2>1 DEF MergeFailsAgain, Ends, world, Paused, Step, Bounded,
       Typed, Hists, disk
  <2>3. Untouched' => Untouched
    BY <1>9, <2>1 DEF MergeFailsAgain, Ends, world, Paused, Step, Bounded,
       Typed, Gits, Untouched, Checkout, disk
  <2>4. responses' \in {responses, Silence} /\ handoff'.said \in {handoff.said, Silence}
    BY <1>9, <2>1 DEF MergeFailsAgain, Ends, world, Paused, Step, Bounded, disk
  <2>5. \/ story' = NoStory
        \/ story # NoStory /\ UNCHANGED <<story.rounds, story.open, story.deferred>>
    BY <1>9, <2>1, Values DEF MergeFailsAgain, Ends, world, Paused, Step,
       Bounded, Typed, Stories, disk
  <2>6. /\ pc' \in {"answer", "settle"} =>
             /\ pc' = pc /\ story' # NoStory
             /\ run'.todo \cup run'.put \subseteq run.todo \cup run.put
        /\ pc' \notin {"answer", "settle"} =>
             run'.put = {} \/ (pc \notin {"answer", "settle"} /\ UNCHANGED run.put)
    BY <1>9, <2>1, Values DEF MergeFailsAgain, Ends, world, Paused, Step,
       Bounded, Typed, Runs, Idle, Placed, disk, Orphaned, MovesOn
  <2> QED
    BY <2>2, <2>3, <2>4, <2>5, <2>6, MatchSame
<1>10. CASE MergeRefused
  <2>1. story \in Stories
    BY <1>10, SavedHere DEF MergeRefused, OnPullRequest, Syncing, Reading,
       Finishing
  <2>2. UNCHANGED hist.crossed
    BY <1>10, <2>1 DEF MergeRefused, Ends, world, disk, Typed, Hists
  <2>3. Untouched' => Untouched
    BY <1>10, <2>1 DEF MergeRefused, Ends, world, disk, Typed, Gits, Untouched,
       Checkout
  <2>4. responses' \in {responses, Silence} /\ handoff'.said \in {handoff.said, Silence}
    BY <1>10, <2>1 DEF MergeRefused, Ends, world, disk
  <2>5. \/ story' = NoStory
        \/ story # NoStory /\ UNCHANGED <<story.rounds, story.open, story.deferred>>
    BY <1>10, <2>1, Values DEF MergeRefused, Ends, world, disk, Typed, Stories
  <2>6. /\ pc' \in {"answer", "settle"} =>
             /\ pc' = pc /\ story' # NoStory
             /\ run'.todo \cup run'.put \subseteq run.todo \cup run.put
        /\ pc' \notin {"answer", "settle"} =>
             run'.put = {} \/ (pc \notin {"answer", "settle"} /\ UNCHANGED run.put)
    BY <1>10, <2>1, Values DEF MergeRefused, Ends, world, disk, Typed, Runs,
       Idle, Placed, Orphaned, MovesOn
  <2> QED
    BY <2>2, <2>3, <2>4, <2>5, <2>6, MatchSame
<1>11. CASE Land
  <2>1. story \in Stories
    BY <1>11, SavedHere DEF Land, OnPullRequest, Syncing, Reading, Finishing
  <2>2. UNCHANGED hist.crossed
    BY <1>11, <2>1 DEF Land, Typed, Hists, disk, world
  <2>3. Untouched' => Untouched
    BY <1>11, <2>1 DEF Land, Typed, Gits, Untouched, Checkout, disk, world
  <2>4. responses' \in {responses, Silence} /\ handoff'.said \in {handoff.said, Silence}
    BY <1>11, <2>1 DEF Land, disk
  <2>5. \/ story' = NoStory
        \/ story # NoStory /\ UNCHANGED <<story.rounds, story.open, story.deferred>>
    BY <1>11, <2>1, Values DEF Land, Typed, Stories, disk
  <2>6. /\ pc' \in {"answer", "settle"} =>
             /\ pc' = pc /\ story' # NoStory
             /\ run'.todo \cup run'.put \subseteq run.todo \cup run.put
        /\ pc' \notin {"answer", "settle"} =>
             run'.put = {} \/ (pc \notin {"answer", "settle"} /\ UNCHANGED run.put)
    BY <1>11, <2>1, Values DEF Land, Typed, Runs, Idle, Placed, disk, world,
       Orphaned, MovesOn
  <2> QED
    BY <2>2, <2>3, <2>4, <2>5, <2>6, MatchSame
<1> QED
  BY <1>1, <1>2, <1>3, <1>4, <1>5, <1>6, <1>7, <1>8, <1>9, <1>10, <1>11
     DEF MergeSteps

LEMMA SettleMatching ==
  ASSUME MaxRounds <= 1, Typed, Placed, Checkout, Matching, SettleSteps
  PROVE  Matching'
<1>1. CASE SettleUnarmed
  <2>1. story \in Stories /\ pc = "decided" /\ run = Idle
    BY <1>1 DEF SettleUnarmed, DecisionsUnarmed, Typed, Placed, Resting
  <2>2. CASE PauseKept(story)
    <3>1. pc' = "down" /\ run' = Idle /\ UNCHANGED <<git, story, responses, handoff, hist>>
      BY <2>2, KeptType
    <3> QED
      BY <2>1, <3>1, MatchSame DEF Untouched, Idle
  <2>3. CASE ~PauseKept(story)
    <3>1. UNCHANGED <<pc, git, responses, handoff, run>> /\ story' = Armed(UnresolvedFindings(story))
      BY <1>1, <2>1, <2>3, SettleUnarmedType DEF Typed
    <3>2. UNCHANGED hist.crossed
      BY <1>1, <2>3 DEF SettleUnarmed, Typed, Hists
    <3>3. UnresolvedFindings(story) \subseteq Bearing(story)
      BY DEF UnresolvedFindings, Bearing, Open, Deferred
    <3> QED
      BY <2>1, <3>1, <3>2, <3>3, MatchArmed DEF Untouched, Idle
  <2> QED
    BY <2>2, <2>3
<1>2. CASE SettleNothing
  BY <1>2, StayType, MatchSame, Values DEF SettleNothing, DecisionsUnarmed,
     world, disk, Typed, Gits, Hists, Untouched, Placed, Resting, Finishing
<1>3. CASE SettleBegins
  <2>1. CASE PauseForPerson
    <3>1. UNCHANGED hist.crossed
      BY <2>1 DEF PauseForPerson, Typed, Hists
    <3> QED
      BY <2>1, <3>1, PersonType, MatchSame DEF Typed, Untouched, Idle
  <2>2. CASE ~PauseForPerson
    <3>1. /\ UNCHANGED <<git, story, responses, handoff, hist>> /\ story # NoStory
          /\ pc' = "settle" /\ run'.todo = Open(story) /\ run'.put = {}
      BY <1>3, <2>2 DEF SettleBegins, PassOpen, world, disk, Idle
    <3> QED
      BY <3>1, MatchStays DEF Untouched
  <2> QED
    BY <2>1, <2>2
<1>4. CASE SettleResolvedThread
  <2>1. PICK f \in run.seen : Turn(f) /\ Mark(f, "resolved")
    BY <1>4 DEF SettleResolvedThread
  <2>2. pc \in {"answer", "settle"} /\ story \in Stories /\ f \in run.todo
    BY <1>4, <2>1, SavedHere DEF SettleResolvedThread, Settling, Turn,
       OnPullRequest
  <2>3. UNCHANGED <<pc, responses, handoff, hist, git>> /\ run'.todo \cup run'.put \subseteq run.todo \cup run.put
    BY <1>4 DEF SettleResolvedThread, Handled, world, Typed, Runs
  <2> QED
    BY <2>1, <2>2, <2>3, MatchMarked DEF Untouched
<1>5. CASE SettleRemains
  <2>1. story \in Stories
    BY <1>5, SavedHere DEF SettleRemains, Settling, OnPullRequest, Syncing,
       Reading, Finishing
  <2>2. UNCHANGED hist.crossed
    BY <1>5, <2>1 DEF SettleRemains, Settling, world, disk, PutOff, Typed,
       Hists
  <2>3. Untouched' => Untouched
    BY <1>5, <2>1 DEF SettleRemains, Settling, world, disk, PutOff, Typed,
       Gits, Untouched, Checkout
  <2>4. responses' \in {responses, Silence} /\ handoff'.said \in {handoff.said, Silence}
    BY <1>5, <2>1 DEF SettleRemains, Settling, world, disk, PutOff
  <2>5. \/ story' = NoStory
        \/ story # NoStory /\ UNCHANGED <<story.rounds, story.open, story.deferred>>
    BY <1>5, <2>1, Values DEF SettleRemains, Settling, world, disk, PutOff,
       Typed, Stories
  <2>6. /\ pc' \in {"answer", "settle"} =>
             /\ pc' = pc /\ story' # NoStory
             /\ run'.todo \cup run'.put \subseteq run.todo \cup run.put
        /\ pc' \notin {"answer", "settle"} =>
             run'.put = {} \/ (pc \notin {"answer", "settle"} /\ UNCHANGED run.put)
    BY <1>5, <2>1, Values DEF SettleRemains, Settling, world, disk, PutOff,
       Typed, Runs, Idle, Placed, Orphaned, MovesOn
  <2> QED
    BY <2>2, <2>3, <2>4, <2>5, <2>6, MatchSame
<1>6. CASE SettleReply
  <2>1. PICK f \in run.todo : /\ PostReply(f, Decision(f))
                               /\ \E st \in {"postponed", "replied"} : Mark(f, st)
                               /\ Decision(f) # NoAnswer
    BY <1>6 DEF SettleReply, FollowUp, NoAnswer
  <2>2. PICK st \in {"postponed", "replied"} : Mark(f, st)
    BY <2>1
  <2>3. pc \in {"answer", "settle"} /\ story \in Stories
    BY <1>6, SavedHere DEF SettleReply, Settling, OnPullRequest
  <2>4. f \in Open(story)
    BY <2>1, <2>3 DEF Matching
  <2>5. (Decision(f)).about = f
    BY <2>1, <2>3, <2>4, Values DEF Matching, Bearing, NumberOf, Decision
  <2>6. UNCHANGED <<pc, responses, handoff, hist, git, run>>
    BY <1>6, <2>1, <2>5 DEF SettleReply, PostReply
  <2> QED
    BY <2>1, <2>2, <2>3, <2>6, MatchMarked DEF Untouched
<1>7. CASE SettleResolve
  <2>1. PICK f \in run.todo \ run.seen : Turn(f) /\ Mark(f, "resolved")
    BY <1>7 DEF SettleResolve
  <2>2. pc \in {"answer", "settle"} /\ story \in Stories /\ f \in run.todo
    BY <1>7, <2>1, SavedHere DEF SettleResolve, Settling, Turn, OnPullRequest
  <2>3. UNCHANGED <<pc, responses, handoff, hist, git>> /\ run'.todo \cup run'.put \subseteq run.todo \cup run.put
    BY <1>7 DEF SettleResolve, Resolve, Handled, world, Typed, Runs
  <2> QED
    BY <2>1, <2>2, <2>3, MatchMarked DEF Untouched
<1>8. CASE SettleEnds
  <2>1. CASE PauseForPerson
    <3>1. UNCHANGED hist.crossed
      BY <2>1 DEF PauseForPerson, Typed, Hists
    <3> QED
      BY <2>1, <3>1, PersonType, MatchSame DEF Typed, Untouched, Idle
  <2>2. CASE ~PauseForPerson
    <3>1. story \in Stories /\ pc = "settle"
      BY <1>8, SavedHere DEF SettleEnds, Settling, OnPullRequest
    <3>2. /\ story' \in Stories /\ UNCHANGED <<story.rounds, story.deferred>>
          /\ \A f \in Findings : story'.open[f] \in {story.open[f], Gone}
          /\ UNCHANGED <<git, responses, handoff, hist>>
          /\ pc' \in {"up", "merge"}
      BY <1>8, <2>2, <3>1, SettleEndsType
    <3>3. run'.put = {}
      BY <1>8, <2>2 DEF SettleEnds, Idle, Typed, Runs
    <3>4. /\ Open(story') \subseteq Open(story) /\ Deferred(story') = Deferred(story)
          /\ \A f \in Open(story') : story'.open[f] = story.open[f]
      BY <3>2 DEF Open, Deferred, Gone
    <3>5. Open(story) = {} \/ Deferred(story) = {}
      BY <3>1, Values DEF Matching
    <3>6. \A f \in Bearing(story') :
             f \in Bearing(story) /\ NumberOf(story', f) = NumberOf(story, f)
      BY <3>2, <3>4, <3>5 DEF Bearing, NumberOf, Open, Deferred
    <3> QED
      BY <3>1, <3>2, <3>3, <3>4, <3>5, <3>6, MatchKept, Values DEF Untouched
  <2> QED
    BY <2>1, <2>2
<1> QED
  BY <1>1, <1>2, <1>3, <1>4, <1>5, <1>6, <1>7, <1>8 DEF SettleSteps

LEMMA LoopTopMatching ==
  ASSUME MaxRounds <= 1, Typed, Placed, Checkout, Matching, LoopTop
  PROVE  Matching'
<1>1. CASE OrphanMerged
  BY <1>1, CleanUpType, MatchSame, Values DEF OrphanMerged, Orphaned, MovesOn,
     Typed, Gits, Hists, Untouched, Placed, Resting, Finishing
<1>2. CASE OrphanToPlanner
  <2>1. story \in Stories /\ pc' = "deferral" /\ run' = Idle
        /\ UNCHANGED <<git, responses, handoff>>
    BY <1>2, RoutedType
  <2>2. story' = Armed(UnresolvedThreads) /\ UNCHANGED hist.crossed
    BY <1>2 DEF OrphanToPlanner, RouteDeferredToPlanner, Typed, Hists
  <2>3. UnresolvedThreads \subseteq Bearing(story)
    BY <1>2 DEF OrphanToPlanner, OrphanRecoverable, StillUnresolved,
       UnresolvedFindings, Bearing
  <2> QED
    BY <2>1, <2>2, <2>3, MatchArmed DEF Untouched, Idle
<1>3. CASE OrphanBlocked
  <2>1. UNCHANGED hist.crossed
    BY <1>3, StayType DEF OrphanBlocked, Orphaned, MovesOn, world, disk, Typed,
       Hists
  <2>2. Untouched' => Untouched
    BY <1>3, StayType DEF OrphanBlocked, Orphaned, MovesOn, world, disk, Typed,
       Gits, Untouched, Checkout
  <2>3. responses' \in {responses, Silence} /\ handoff'.said \in {handoff.said, Silence}
    BY <1>3, StayType DEF OrphanBlocked, Orphaned, MovesOn, world, disk
  <2>4. \/ story' = NoStory
        \/ story # NoStory /\ UNCHANGED <<story.rounds, story.open, story.deferred>>
    BY <1>3, StayType, Values DEF OrphanBlocked, Orphaned, MovesOn, world,
       disk, Typed, Stories
  <2>5. /\ pc' \in {"answer", "settle"} =>
             /\ pc' = pc /\ story' # NoStory
             /\ run'.todo \cup run'.put \subseteq run.todo \cup run.put
        /\ pc' \notin {"answer", "settle"} =>
             run'.put = {} \/ (pc \notin {"answer", "settle"} /\ UNCHANGED run.put)
    BY <1>3, StayType, Values DEF OrphanBlocked, Orphaned, MovesOn, world,
       disk, Typed, Runs, Idle, Placed
  <2> QED
    BY <2>1, <2>2, <2>3, <2>4, <2>5, MatchSame
<1>4. CASE NextStory
  BY <1>4, StayType, MatchSame, Values DEF NextStory, world, disk, Ends, Typed,
     Gits, Hists, Untouched, Placed, Resting, Finishing
<1> QED
  BY <1>1, <1>2, <1>3, <1>4 DEF LoopTop

LEMMA MergeCommitMatching ==
  ASSUME MaxRounds <= 1, Typed, Placed, Checkout, Matching, MergeCommitSteps
  PROVE  Matching'
<1>1. CASE SwitchToBase
  BY <1>1, MatchSame, Values DEF SwitchToBase, disk, Typed, Gits, Hists,
     Untouched, Placed, Resting, Finishing
<1>2. CASE MergeLocally
  BY <1>2, MatchSame, Values DEF MergeLocally, disk, Ends, Typed, Gits, Hists,
     Untouched, Placed, Resting, Finishing
<1>3. CASE DeleteMergedBranch
  <2>1. story \in Stories
    BY <1>3, SavedHere DEF DeleteMergedBranch, OnPullRequest, Syncing, Reading,
       Finishing
  <2>2. UNCHANGED hist.crossed
    BY <1>3, <2>1 DEF DeleteMergedBranch, disk, Typed, Hists, world
  <2>3. Untouched' => Untouched
    BY <1>3, <2>1 DEF DeleteMergedBranch, disk, Typed, Gits, Untouched,
       Checkout, world
  <2>4. responses' \in {responses, Silence} /\ handoff'.said \in {handoff.said, Silence}
    BY <1>3, <2>1 DEF DeleteMergedBranch, disk
  <2>5. \/ story' = NoStory
        \/ story # NoStory /\ UNCHANGED <<story.rounds, story.open, story.deferred>>
    BY <1>3, <2>1, Values DEF DeleteMergedBranch, disk, Typed, Stories
  <2>6. /\ pc' \in {"answer", "settle"} =>
             /\ pc' = pc /\ story' # NoStory
             /\ run'.todo \cup run'.put \subseteq run.todo \cup run.put
        /\ pc' \notin {"answer", "settle"} =>
             run'.put = {} \/ (pc \notin {"answer", "settle"} /\ UNCHANGED run.put)
    BY <1>3, <2>1, Values DEF DeleteMergedBranch, disk, Typed, Runs, Idle,
       Placed, world, Orphaned, MovesOn
  <2> QED
    BY <2>2, <2>3, <2>4, <2>5, <2>6, MatchSame
<1>4. CASE ClearState
  BY <1>4, MatchSame, Values DEF ClearState, world, Typed, Gits, Hists,
     Untouched, Placed, Resting, Finishing
<1> QED
  BY <1>1, <1>2, <1>3, <1>4 DEF MergeCommitSteps

LEMMA StartMatching ==
  ASSUME MaxRounds <= 1, Typed, Placed, Checkout, Matching, StartSteps
  PROVE  Matching'
<1>1. CASE Start
  BY <1>1, MatchSame, Values DEF Start, disk, Typed, Gits, Hists, Untouched,
     Placed, Resting, Finishing
<1>2. CASE PersonTakesOver
  BY <1>2, StayType, MatchSame, Values DEF PersonTakesOver, world, disk, Typed,
     Gits, Hists, Untouched, Placed, Resting, Finishing
<1>3. CASE ResumeReviewRetry
  BY <1>3, StayType, MatchSame, Values DEF ResumeReviewRetry, Resuming, world,
     disk, Typed, Gits, Hists, Untouched, Placed, Resting, Finishing
<1>4. CASE ResumePaused
  <2>1. story \in Stories
    BY <1>4, SavedHere DEF ResumePaused, Resuming, OnPullRequest, Syncing,
       Reading, Finishing
  <2>2. UNCHANGED hist.crossed
    BY <1>4, KeptType, StayType, <2>1 DEF ResumePaused, Resuming, world, disk,
       Typed, Hists
  <2>3. Untouched' => Untouched
    BY <1>4, KeptType, StayType, <2>1 DEF ResumePaused, Resuming, world, disk,
       Typed, Gits, Untouched, Checkout
  <2>4. responses' \in {responses, Silence} /\ handoff'.said \in {handoff.said, Silence}
    BY <1>4, KeptType, StayType, <2>1 DEF ResumePaused, Resuming, world, disk
  <2>5. \/ story' = NoStory
        \/ story # NoStory /\ UNCHANGED <<story.rounds, story.open, story.deferred>>
    BY <1>4, KeptType, StayType, <2>1, Values DEF ResumePaused, Resuming,
       world, disk, Typed, Stories
  <2>6. /\ pc' \in {"answer", "settle"} =>
             /\ pc' = pc /\ story' # NoStory
             /\ run'.todo \cup run'.put \subseteq run.todo \cup run.put
        /\ pc' \notin {"answer", "settle"} =>
             run'.put = {} \/ (pc \notin {"answer", "settle"} /\ UNCHANGED run.put)
    BY <1>4, KeptType, StayType, <2>1, Values DEF ResumePaused, Resuming,
       world, disk, Typed, Runs, Idle, Placed, Orphaned, MovesOn
  <2> QED
    BY <2>2, <2>3, <2>4, <2>5, <2>6, MatchSame
<1>5. CASE NothingToResume
  BY <1>5, StayType, MatchSame, Values DEF NothingToResume, InterruptedPublish,
     Resuming, world, disk, Typed, Gits, Hists, Untouched, Placed, Resting,
     Finishing
<1>6. CASE InterruptedBlocked
  BY <1>6, KeptType, MatchSame, Values DEF InterruptedBlocked,
     InterruptedPublish, Resuming, world, Typed, Gits, Hists, Untouched,
     Placed, Resting, Finishing
<1>7. CASE InterruptedMerged
  BY <1>7, CleanUpType, MatchSame, Values DEF InterruptedMerged,
     InterruptedPublish, Resuming, Typed, Gits, Hists, Untouched, Placed,
     Resting, Finishing
<1>8. CASE InterruptedConfirm
  BY <1>8, StayType, MatchSame, Values DEF InterruptedConfirm,
     InterruptedPublish, Resuming, world, disk, Typed, Gits, Hists, Untouched,
     Placed, Resting, Finishing
<1>9. CASE ResumeMergeCommit
  BY <1>9, KeptType, StayType, MatchSame, Values DEF ResumeMergeCommit,
     InterruptedMergeCommit, world, disk, Typed, Gits, Hists, Untouched,
     Placed, Resting, Finishing
<1> QED
  BY <1>1, <1>2, <1>3, <1>4, <1>5, <1>6, <1>7, <1>8, <1>9 DEF StartSteps

LEMMA OthersMatching ==
  ASSUME MaxRounds <= 1, Typed, Placed, Checkout, Matching, Others
  PROVE  Matching'
<1>1. CASE RunEnds
  <2>1. UNCHANGED hist.crossed
    BY <1>1 DEF RunEnds, Ends, world, disk, Bounded, Typed, Hists
  <2>2. Untouched' => Untouched
    BY <1>1 DEF RunEnds, Ends, world, disk, Bounded, Typed, Gits, Untouched,
       Checkout
  <2>3. responses' \in {responses, Silence} /\ handoff'.said \in {handoff.said, Silence}
    BY <1>1 DEF RunEnds, Ends, world, disk, Bounded
  <2>4. \/ story' = NoStory
        \/ story # NoStory /\ UNCHANGED <<story.rounds, story.open, story.deferred>>
    BY <1>1, Values DEF RunEnds, Ends, world, disk, Bounded, Typed, Stories
  <2>5. /\ pc' \in {"answer", "settle"} =>
             /\ pc' = pc /\ story' # NoStory
             /\ run'.todo \cup run'.put \subseteq run.todo \cup run.put
        /\ pc' \notin {"answer", "settle"} =>
             run'.put = {} \/ (pc \notin {"answer", "settle"} /\ UNCHANGED run.put)
    BY <1>1, Values DEF RunEnds, Ends, world, disk, Bounded, Typed, Runs, Idle,
       Placed, Orphaned, MovesOn
  <2> QED
    BY <2>1, <2>2, <2>3, <2>4, <2>5, MatchSame
<1>2. CASE ReplyUnsaved
  <2>1. UNCHANGED hist.crossed
    BY <1>2 DEF ReplyUnsaved, Ends, disk, Bounded, Typed, Hists, world
  <2>2. Untouched' => Untouched
    BY <1>2 DEF ReplyUnsaved, Ends, disk, Bounded, Typed, Gits, Untouched,
       Checkout, world
  <2>3. responses' \in {responses, Silence} /\ handoff'.said \in {handoff.said, Silence}
    BY <1>2 DEF ReplyUnsaved, Ends, disk, Bounded
  <2>4. \/ story' = NoStory
        \/ story # NoStory /\ UNCHANGED <<story.rounds, story.open, story.deferred>>
    BY <1>2, Values DEF ReplyUnsaved, Ends, disk, Bounded, Typed, Stories
  <2>5. /\ pc' \in {"answer", "settle"} =>
             /\ pc' = pc /\ story' # NoStory
             /\ run'.todo \cup run'.put \subseteq run.todo \cup run.put
        /\ pc' \notin {"answer", "settle"} =>
             run'.put = {} \/ (pc \notin {"answer", "settle"} /\ UNCHANGED run.put)
    BY <1>2, Values DEF ReplyUnsaved, Ends, disk, Bounded, Typed, Runs, Idle,
       Placed, world, Orphaned, MovesOn
  <2> QED
    BY <2>1, <2>2, <2>3, <2>4, <2>5, MatchSame
<1>3. CASE ReplyFails
  <2>1. UNCHANGED hist.crossed
    BY <1>3 DEF ReplyFails, Ends, world, disk, Typed, Hists
  <2>2. Untouched' => Untouched
    BY <1>3 DEF ReplyFails, Ends, world, disk, Typed, Gits, Untouched, Checkout
  <2>3. responses' \in {responses, Silence} /\ handoff'.said \in {handoff.said, Silence}
    BY <1>3 DEF ReplyFails, Ends, world, disk
  <2>4. \/ story' = NoStory
        \/ story # NoStory /\ UNCHANGED <<story.rounds, story.open, story.deferred>>
    BY <1>3, Values DEF ReplyFails, Ends, world, disk, Typed, Stories
  <2>5. /\ pc' \in {"answer", "settle"} =>
             /\ pc' = pc /\ story' # NoStory
             /\ run'.todo \cup run'.put \subseteq run.todo \cup run.put
        /\ pc' \notin {"answer", "settle"} =>
             run'.put = {} \/ (pc \notin {"answer", "settle"} /\ UNCHANGED run.put)
    BY <1>3, Values DEF ReplyFails, Ends, world, disk, Typed, Runs, Idle,
       Placed, Orphaned, MovesOn
  <2> QED
    BY <2>1, <2>2, <2>3, <2>4, <2>5, MatchSame
<1>4. CASE RequestUnsaved
  <2>1. UNCHANGED hist.crossed
    BY <1>4 DEF RequestUnsaved, Reviewing, Ends, disk, Bounded, Typed, Hists,
       world
  <2>2. Untouched' => Untouched
    BY <1>4 DEF RequestUnsaved, Reviewing, Ends, disk, Bounded, Typed, Gits,
       Untouched, Checkout, world
  <2>3. responses' \in {responses, Silence} /\ handoff'.said \in {handoff.said, Silence}
    BY <1>4 DEF RequestUnsaved, Reviewing, Ends, disk, Bounded
  <2>4. \/ story' = NoStory
        \/ story # NoStory /\ UNCHANGED <<story.rounds, story.open, story.deferred>>
    BY <1>4, Values DEF RequestUnsaved, Reviewing, Ends, disk, Bounded, Typed,
       Stories
  <2>5. /\ pc' \in {"answer", "settle"} =>
             /\ pc' = pc /\ story' # NoStory
             /\ run'.todo \cup run'.put \subseteq run.todo \cup run.put
        /\ pc' \notin {"answer", "settle"} =>
             run'.put = {} \/ (pc \notin {"answer", "settle"} /\ UNCHANGED run.put)
    BY <1>4, Values DEF RequestUnsaved, Reviewing, Ends, disk, Bounded, Typed,
       Runs, Idle, Placed, world, Orphaned, MovesOn
  <2> QED
    BY <2>1, <2>2, <2>3, <2>4, <2>5, MatchSame
<1>5. CASE CodexReviews
  BY <1>5, MatchSame, Values DEF CodexReviews, disk, Typed, Gits, Hists,
     Untouched, Placed, Resting, Finishing
<1>6. CASE BaseMoves
  BY <1>6, MatchSame, Values DEF BaseMoves, disk, Bounded, Typed, Gits, Hists,
     Untouched, Placed, Resting, Finishing
<1>7. CASE OnGitHub
  <2>1. UNCHANGED <<pc, git, story, responses, handoff, run, hist>>
    BY <1>7 DEF OnGitHub, disk
  <2>2. pc \in {"answer", "settle"} => story # NoStory
    BY DEF Placed, OnPullRequest
  <2> QED
    BY <2>1, <2>2, MatchSame DEF Untouched
<1>8. CASE AtCheckout
  BY <1>8, CommitType, MatchSame, Values DEF AtCheckout, disk, Bounded, Kinds,
     Typed, Gits, Hists, Untouched, Placed, Resting, Finishing
<1>9. CASE PersonMergesBase
  BY <1>9, CommitType, MatchSame, Values DEF PersonMergesBase, disk, Kinds,
     Typed, Gits, Hists, Untouched, Placed, Resting, Finishing
<1>10. CASE Tidied
  BY <1>10, MatchSame, Values DEF Tidied, disk, Typed, Gits, Hists, Untouched,
     Placed, Resting, Finishing
<1>11. CASE PersonRoutes
  BY <1>11, MatchSame, Values DEF PersonRoutes, world, Typed, Gits, Hists,
     Untouched, Placed, Resting, Finishing
<1> QED
  BY <1>1, <1>2, <1>3, <1>4, <1>5, <1>6, <1>7, <1>8, <1>9, <1>10, <1>11
     DEF Others

LEMMA MatchingStep ==
  ASSUME MaxRounds <= 1, Typed, Placed, Checkout, Matching, [Next]_vars
  PROVE  Matching'
<1>1. CASE UNCHANGED vars
  <2>1. UNCHANGED <<pc, git, story, responses, handoff, run, hist>>
    BY <1>1 DEF vars
  <2> QED
    BY <2>1 DEF Matching, RepliesMatch, Untouched, Bearing, Open, Deferred, NumberOf
<1>2. CASE StoryOver
  <2>1. UNCHANGED <<pc, git, story, responses, handoff, run, hist>>
    BY <1>2 DEF StoryOver, vars
  <2> QED
    BY <2>1 DEF Matching, RepliesMatch, Untouched, Bearing, Open, Deferred, NumberOf
<1> QED
  BY <1>1, <1>2, RoleMatching, PublishMatching, AnswerMatching,
     ReviewMatching, MergeMatching, SettleMatching, LoopTopMatching,
     MergeCommitMatching, StartMatching, OthersMatching
     DEF Next

(* With a single correction round, what the dispatcher posts on a thread was   *)
(* written about that thread's finding, however findings are deferred, routed  *)
(* to the planner and settled: it takes the second round's numbers to cross    *)
(* two replies.                                                                *)
THEOREM RepliesMatchInOneRound == MaxRounds <= 1 => (Spec => []RepliesMatch)
<1> SUFFICES ASSUME MaxRounds <= 1 PROVE Spec => []RepliesMatch
  OBVIOUS
<1>1. Init => Matching
  BY DEF Init, Matching, RepliesMatch, Idle
<1>2. IInv /\ Matching /\ [Next]_vars => Matching'
  BY MatchingStep DEF IInv
<1>3. Matching => RepliesMatch
  BY DEF Matching
<1> QED BY <1>1, <1>2, <1>3, InvariantHolds, PTL DEF Spec
===============================================================================
