-------------------------- MODULE AuditFanOutProofs --------------------------
(***************************************************************************)
(* Theorems about AuditFanOut, for any reviewers and any number of audits, *)
(* chat answers, faults and crashes: what an accepted approval means, and  *)
(* that no text a reviewer wrote becomes the claim of the next audit.      *)
(***************************************************************************)
EXTENDS AuditFanOut, TLAPS

Stages == {"off", "running", "fallback", "ended", "stopped"}
Threads == [stage : Stages, vote : [vote : {"none", "pass", "fail"}, worst : Worst],
            kept : BOOLEAN, error : {"none", "failed", "unstarted"}]
Trees == {"clean", "code", "guard"}
Heads == {"scope", "moved"}
Agents == [handoff : Texts \cup {NoText}, tree : Trees, head : Heads,
           posted : {"none", "passed", "failed"}]

Shape ==
    /\ handoff \in Texts
    /\ source \in Auditable \cup {NoText}
    /\ record \in Auditable \cup {NoText}
    /\ request \in Texts \cup {NoText}
    /\ rev \in [Reviewers -> Threads]
    /\ tree \in Trees /\ head \in Heads
    /\ agent \in Agents
    /\ told \in [spoilers : SUBSET Reviewers, declined : BOOLEAN]

\* From the dispatch to the end of the fan-out the record is on disk.
InAudit == {"scoped", "planned", "reviewing", "collected", "merging", "posting",
            "verdict", "written", "failed", "stopped"}

Recorded == pc \in InAudit => source # NoText /\ record # NoText

ThreadsWaitedFor ==
    \A r \in Reviewers : rev[r].stage \in {"running", "fallback"} => pc = "reviewing"

WrittenByAudit == pc = "written" => handoff \in ByAuditor \cup {"chat"}

\* Every reviewer answered, and none wrote HANDOFF.md.
Unanimous ==
    /\ told.spoilers = {}
    /\ \A r \in Reviewers : rev[r].stage = "ended" /\ rev[r].vote \in Votes[r]

\* A reviewer that wrote is running over a changed handoff, or was found out.
Watched ==
    /\ pc \in {"scoped", "planned"} => told.spoilers = {}
    /\ pc = "reviewing" /\ told.spoilers # {} => handoff # source
    /\ pc \in {"reviewing", "collected"} =>
         \A r \in Reviewers :
            /\ rev[r].stage = "ended" /\ rev[r].kept => r \notin told.spoilers
            /\ rev[r].stage = "ended" /\ rev[r].error = "none" => rev[r].vote \in Votes[r]
    /\ pc = "collected" => \A r \in Reviewers : rev[r].stage = "ended"
    /\ pc \in {"merging", "posting", "verdict"} => Unanimous

\* What Linear was told, and what the handoff of a finished audit says.
Heard ==
    /\ pc = "posting" /\ agent.posted # "none" => tracker = agent.posted
    /\ pc = "verdict" /\ conf.linear => tracker = Outcome

Earned ==
    handoff \in {"approved", "blocked"} =>
        /\ Unanimous
        /\ handoff = Merged
        /\ conf.linear => tracker = Outcome

VerdictInv ==
    /\ Shape /\ Recorded /\ ThreadsWaitedFor /\ WrittenByAudit
    /\ Watched /\ Heard
    /\ pc \in {"written", "checking", "accepted"} => Earned
    /\ pc = "checking" /\ record = NoText => tree # "guard"
    /\ pc = "accepted" => tree # "guard" /\ ~chat.busy

\* Where a text can be that a role was told not to write: under the eyes of
\* the audit, in front of the recovery of its record, or in a handoff a
\* takeover sent on.
Strayed ==
    \/ pc = "followed"
    \/ pc \in {"reviewing", "collected", "posting", "raised", "down"} /\ record # NoText

ForbiddenInv ==
    ~told.declined =>
        /\ source \notin Forbidden /\ record \notin Forbidden
        /\ pc = "posting" => agent.handoff \notin Forbidden
        /\ handoff \in Forbidden => Strayed

AuditInv == VerdictInv /\ ForbiddenInv

(***************************************************************************)
(* What the records are made of.                                           *)
(***************************************************************************)
LEMMA RestingThread == Resting \in Threads
  BY DEF Resting, Threads, NoVote, Vote, Stages, Worst

LEMMA VoteIsTyped ==
    ASSUME NEW r \in Reviewers, NEW v \in Votes[r]
    PROVE  /\ v \in [vote : {"none", "pass", "fail"}, worst : Worst]
           /\ v.vote \in {"pass", "fail"} /\ v # NoVote
<1>1. r \in {"quality", "security", "codex-local"}
  BY AuditAssumption
<1>2. CASE r = "codex-local"
  <2>1. v \in {Vote("pass", "nothing"), Vote("fail", "below"), Vote("fail", "above")}
    BY <1>2 DEF Votes
  <2> QED BY <2>1 DEF Vote, NoVote, Worst
<1>3. CASE r # "codex-local"
  <2>1. v \in [vote : {"pass", "fail"}, worst : Worst]
    BY <1>1, <1>3 DEF Votes
  <2> QED BY <2>1 DEF Vote, NoVote, Worst
<1> QED BY <1>2, <1>3

\* A thread that ends keeps every other thread as it was.
LEMMA EndedThread ==
    ASSUME Shape, NEW r \in Reviewers,
           NEW v \in [vote : {"none", "pass", "fail"}, worst : Worst],
           NEW e \in {"none", "failed", "unstarted"}, Ended(r, v, e)
    PROVE  /\ rev' \in [Reviewers -> Threads]
           /\ \A q \in Reviewers \ {r} : rev'[q] = rev[q]
           /\ rev'[r].stage = "ended" /\ rev'[r].vote = v /\ rev'[r].error = e
           /\ rev'[r].kept = (handoff = source)
<1> DEFINE t == [rev[r] EXCEPT !.stage = "ended", !.vote = v,
                               !.kept = (handoff = source), !.error = e]
<1>1. rev[r] \in Threads
  BY DEF Shape
<1>2. /\ t.stage = "ended" /\ t.vote = v /\ t.error = e
      /\ t.kept = (handoff = source)
  BY <1>1 DEF Threads
<1>3. t \in Threads
  BY <1>1 DEF Threads, Stages
<1>4. rev' = [rev EXCEPT ![r] = t]
  BY DEF Ended, Shape
<1> HIDE DEF t
<1> QED BY <1>2, <1>3, <1>4 DEF Shape

\* The same of a thread that only changes its stage.
LEMMA MovedThread ==
    ASSUME Shape, NEW r \in Reviewers, NEW stage \in Stages,
           rev' = [rev EXCEPT ![r].stage = stage]
    PROVE  /\ rev' \in [Reviewers -> Threads]
           /\ \A q \in Reviewers \ {r} : rev'[q] = rev[q]
           /\ rev'[r].stage = stage
  BY DEF Shape, Threads

LEMMA MergedTexts ==
    /\ Merged \in {"approved", "blocked"}
    /\ Outcome \in {"passed", "failed"}
  BY DEF Merged, Outcome

(***************************************************************************)
(* The invariant, step by step.                                            *)
(***************************************************************************)
LEMMA AuditInit == Init => AuditInv
<1> SUFFICES ASSUME Init PROVE AuditInv
  OBVIOUS
<1>1. Shape
  BY RestingThread
  DEF Init, Shape, Texts, Auditable, Trees, Heads, Agents, NoAgent, NoText
<1>2. ThreadsWaitedFor
  BY DEF Init, ThreadsWaitedFor, Resting
<1>3. Recorded /\ WrittenByAudit /\ Watched /\ Heard
  BY DEF Init, Recorded, InAudit, WrittenByAudit, Watched, Heard
<1>4. ForbiddenInv
  BY DEF Init, ForbiddenInv, Forbidden, NoText
<1> QED
  BY <1>1, <1>2, <1>3, <1>4 DEF Init, AuditInv, VerdictInv, NoText

\* Before the reviewers.
LEMMA BeforeReview ==
    ASSUME AuditInv, Begin \/ VerifyFirst \/ Launch
    PROVE  AuditInv'
<1> USE DEF AuditInv, VerdictInv, system, memory, talk
<1>1. CASE Begin
  <2>1. /\ pc' \in {"scoped", "failed"} /\ pc = "idle"
        /\ handoff \in Auditable /\ UNCHANGED <<handoff, tree, head>>
        /\ record' = handoff /\ source' = handoff /\ request' = NoText
        /\ rev' = [r \in Reviewers |-> Resting] /\ agent' = NoAgent
        /\ told' = [told EXCEPT !.spoilers = {}]
    BY <1>1 DEF Begin
  <2>2. Shape'
    BY <2>1, RestingThread
    DEF Shape, Texts, Trees, Heads, Agents, NoAgent, NoText
  <2>3. ThreadsWaitedFor'
    BY <2>1 DEF ThreadsWaitedFor, Resting
  <2>4. Recorded' /\ WrittenByAudit' /\ Watched' /\ Heard'
    BY <2>1 DEF Shape, Recorded, WrittenByAudit, Watched, Heard, Auditable, Forbidden,
                NoText
  <2>5. told'.declined = told.declined
    BY <2>1 DEF Shape
  <2>6. ForbiddenInv'
    BY <2>1, <2>5 DEF ForbiddenInv, Strayed
  <2> QED BY <2>1, <2>2, <2>3, <2>4, <2>6
<1>2. CASE VerifyFirst
  <2>1. /\ pc = "scoped" /\ pc' \in {"planned", "written"}
        /\ \/ UNCHANGED <<handoff, source>> /\ pc' = "planned"
           \/ handoff' = "recorded" /\ source' = "recorded" /\ pc' = "planned"
           \/ handoff' = "prefail" /\ source' = source
        /\ UNCHANGED <<conf, system, record, rev, agent, talk, told>>
    BY <1>2 DEF VerifyFirst
  <2>2. Shape'
    BY <2>1 DEF Shape, Texts, Auditable
  <2>3. ThreadsWaitedFor'
    BY <2>1 DEF ThreadsWaitedFor
  <2>4. Recorded' /\ WrittenByAudit' /\ Watched' /\ Heard'
    BY <2>1 DEF Recorded, InAudit, WrittenByAudit, ByAuditor, Watched, Heard, NoText
  <2>5. ForbiddenInv' /\ (pc' = "written" => Earned')
    BY <2>1 DEF ForbiddenInv, Forbidden, Strayed, Earned
  <2> QED BY <2>1, <2>2, <2>3, <2>4, <2>5
<1>3. CASE Launch
  <2>1. /\ pc = "planned" /\ pc' = "reviewing"
        /\ rev' = [r \in Reviewers |-> [Resting EXCEPT !.stage = "running"]]
        /\ UNCHANGED <<conf, handoff, system, source, record, agent, talk, told>>
    BY <1>3 DEF Launch
  <2>2. [Resting EXCEPT !.stage = "running"] \in Threads
    BY RestingThread DEF Threads, Stages
  <2>3. Shape'
    BY <2>1, <2>2 DEF Shape
  <2>4. Recorded' /\ ThreadsWaitedFor' /\ WrittenByAudit'
    BY <2>1 DEF Recorded, InAudit, ThreadsWaitedFor, WrittenByAudit
  <2>5. Watched' /\ Heard'
    BY <2>1, RestingThread DEF Watched, Heard, Threads
  <2>6. ForbiddenInv'
    BY <2>1 DEF ForbiddenInv, Strayed
  <2> QED BY <2>1, <2>3, <2>4, <2>5, <2>6
<1> QED BY <1>1, <1>2, <1>3

\* A reviewer's thread: it ends, falls back, is stopped, or does what it was
\* told not to.
LEMMA ThreadEnds ==
    ASSUME AuditInv, NEW r \in Reviewers, Running(r),
           NEW v \in [vote : {"none", "pass", "fail"}, worst : Worst],
           NEW e \in {"none", "failed", "unstarted"}, Ended(r, v, e),
           e = "none" => v \in Votes[r],
           UNCHANGED <<conf, handoff, system, pc, source, record, agent, talk, told>>
    PROVE  AuditInv'
<1> USE DEF AuditInv, VerdictInv, system, talk
<1>1. /\ rev' \in [Reviewers -> Threads]
      /\ \A q \in Reviewers \ {r} : rev'[q] = rev[q]
      /\ rev'[r].stage = "ended" /\ rev'[r].vote = v /\ rev'[r].error = e
      /\ rev'[r].kept = (handoff = source)
  BY EndedThread
<1>2. pc = "reviewing"
  BY DEF Running
<1>3. Shape' /\ Recorded' /\ WrittenByAudit' /\ Heard'
  BY <1>1, <1>2 DEF Shape, Recorded, WrittenByAudit, Heard
<1>4. ThreadsWaitedFor'
  BY <1>2 DEF ThreadsWaitedFor
<1>5. Watched'
  <2>1. ASSUME NEW q \in Reviewers
        PROVE  /\ rev'[q].stage = "ended" /\ rev'[q].kept => q \notin told.spoilers
               /\ rev'[q].stage = "ended" /\ rev'[q].error = "none"
                     => rev'[q].vote \in Votes[q]
    <3>1. CASE q = r
      BY <1>1, <1>2, <3>1 DEF Watched
    <3>2. CASE q # r
      BY <1>1, <1>2, <3>2 DEF Watched
    <3> QED BY <3>1, <3>2
  <2> QED BY <1>2, <2>1 DEF Watched
<1>6. ForbiddenInv'
  BY DEF ForbiddenInv, Strayed
<1> QED BY <1>2, <1>3, <1>4, <1>5, <1>6

LEMMA ThreadGoesOn ==
    ASSUME AuditInv, NEW r \in Reviewers, Running(r),
           NEW stage \in {"fallback", "stopped"}, rev' = [rev EXCEPT ![r].stage = stage],
           UNCHANGED <<conf, handoff, system, pc, source, record, agent, talk, told>>
    PROVE  AuditInv'
<1> USE DEF AuditInv, VerdictInv, system, talk
<1>1. /\ rev' \in [Reviewers -> Threads]
      /\ \A q \in Reviewers \ {r} : rev'[q] = rev[q]
      /\ rev'[r].stage = stage
  BY MovedThread DEF Stages
<1>2. pc = "reviewing"
  BY DEF Running
<1>3. Shape' /\ Recorded' /\ WrittenByAudit' /\ Heard'
  BY <1>1, <1>2 DEF Shape, Recorded, WrittenByAudit, Heard
<1>4. ThreadsWaitedFor'
  BY <1>2 DEF ThreadsWaitedFor
<1>5. Watched'
  BY <1>1, <1>2 DEF Watched
<1>6. ForbiddenInv'
  BY DEF ForbiddenInv, Strayed
<1> QED BY <1>2, <1>3, <1>4, <1>5, <1>6

\* Whoever writes the handoff during an audit leaves a text the audit did not
\* begin with.
LEMMA WritingIsNew ==
    ASSUME Shape, NEW by \in {"reviewer", "agent"}
    PROVE  Writing(by) \in Forbidden \ {source} /\ Writing(by) \in Texts
  BY DEF Writing, Forbidden, Texts

LEMMA ThreadStrays ==
    ASSUME AuditInv, NEW r \in Reviewers, Strays(r)
    PROVE  AuditInv'
<1> USE DEF AuditInv, VerdictInv, memory, talk
<1>1. /\ pc = "reviewing" /\ rev[r].stage \in {"running", "fallback"}
      /\ UNCHANGED <<conf, tracker, pc, memory, talk>>
      /\ \/ /\ handoff' = Writing("reviewer")
            /\ told' = [told EXCEPT !.spoilers = @ \cup {r}]
            /\ UNCHANGED <<tree, head>>
         \/ tree' \in {"code", "guard"} /\ UNCHANGED <<handoff, head, told>>
         \/ head' = "moved" /\ UNCHANGED <<handoff, tree, told>>
  BY DEF Strays, Running
<1>2. Shape' /\ told'.declined = told.declined /\ told'.spoilers \subseteq told.spoilers \cup {r}
  BY <1>1, WritingIsNew DEF Shape, Trees, Heads
<1>3. Recorded' /\ ThreadsWaitedFor' /\ WrittenByAudit' /\ Heard'
  BY <1>1 DEF Recorded, ThreadsWaitedFor, WrittenByAudit, Heard
<1>4. Watched'
  BY <1>1, <1>2, WritingIsNew DEF Watched
<1>5. ForbiddenInv'
  BY <1>1, <1>2 DEF ForbiddenInv, Strayed, Recorded, InAudit
<1> QED BY <1>1, <1>2, <1>3, <1>4, <1>5

LEMMA ReviewStep ==
    ASSUME AuditInv, Reviewing
    PROVE  AuditInv'
<1> USE DEF system, talk
<1>1. NoVote \in [vote : {"none", "pass", "fail"}, worst : Worst]
  BY DEF NoVote, Vote, Worst
<1>2. CASE Misdirected
  <2>1. "codex-local" \in Reviewers
    BY <1>2 DEF Misdirected
  <2> QED BY <1>1, <1>2, <2>1, ThreadEnds DEF Misdirected
<1>3. ASSUME NEW r \in Reviewers, Answers(r)
      PROVE  AuditInv'
  <2>1. PICK v \in Votes[r] : Ended(r, v, "none")
    BY <1>3 DEF Answers
  <2>2. v \in [vote : {"none", "pass", "fail"}, worst : Worst]
    BY VoteIsTyped
  <2> QED BY <1>3, <2>1, <2>2, ThreadEnds DEF Answers
<1>4. ASSUME NEW r \in Reviewers, Fails(r)
      PROVE  AuditInv'
  <2>1. PICK e \in {"failed", "unstarted"} : Ended(r, NoVote, e)
    BY <1>4 DEF Fails
  <2> QED BY <1>1, <1>4, <2>1, ThreadEnds DEF Fails
<1>5. ASSUME NEW r \in Reviewers, FallsBack(r) \/ Stopped(r)
      PROVE  AuditInv'
  BY <1>5, ThreadGoesOn DEF FallsBack, Stopped
<1> QED BY <1>2, <1>3, <1>4, <1>5, ThreadStrays DEF Reviewing

\* The threads are over: what a reviewer wrote is taken back, and only an
\* audit without an error is merged.
LEMMA CollectStep ==
    ASSUME AuditInv, Collect \/ Restore \/ Merge \/ WriteVerdict
    PROVE  AuditInv'
<1> USE DEF AuditInv, VerdictInv, system, memory, talk
<1>1. CASE Collect
  <2>1. /\ pc = "reviewing" /\ \A r \in Reviewers : Over(r)
        /\ \/ pc' = "raised"
           \/ pc' = "collected" /\ \A r \in Reviewers : rev[r].stage # "stopped"
        /\ UNCHANGED <<conf, handoff, system, memory, talk, told>>
    BY <1>1 DEF Collect
  <2>2. Shape' /\ Recorded' /\ WrittenByAudit' /\ Heard'
    BY <2>1 DEF Shape, Recorded, InAudit, WrittenByAudit, Heard
  <2>3. ThreadsWaitedFor'
    BY <2>1 DEF ThreadsWaitedFor, Over
  <2>4. Watched'
    BY <2>1 DEF Watched, Over
  <2>5. ForbiddenInv'
    BY <2>1 DEF ForbiddenInv, Strayed, Recorded, InAudit
  <2> QED BY <2>1, <2>2, <2>3, <2>4, <2>5
<1>2. CASE Restore
  <2>1. /\ pc = "collected" /\ handoff' = source
        /\ \/ pc' = "merging" /\ rev' = rev /\ \A r \in Reviewers : ~Faulty(r)
           \/ pc' \in {"stopped", "failed"} /\ rev' = [r \in Reviewers |-> Resting]
        /\ UNCHANGED <<conf, system, source, record, agent, talk, told>>
    BY <1>2 DEF Restore
  <2>2. source \in Auditable
    BY <2>1 DEF Shape, Recorded, InAudit
  <2>3. Shape'
    BY <2>1, <2>2, RestingThread DEF Shape, Auditable, Forbidden, Texts
  <2>4. Recorded' /\ WrittenByAudit' /\ Heard'
    BY <2>1 DEF Recorded, InAudit, WrittenByAudit, Heard
  <2>5. ThreadsWaitedFor'
    BY <2>1 DEF ThreadsWaitedFor, Resting
  <2>6. Watched'
    <3>1. CASE pc' = "merging"
      <4>1. \A r \in Reviewers :
              /\ rev[r].stage = "ended" /\ rev[r].vote \in Votes[r]
              /\ r \notin told.spoilers
        BY <2>1, <3>1 DEF Watched, Faulty
      <4>2. Unanimous
        BY <4>1 DEF Unanimous, Shape
      <4> QED BY <2>1, <3>1, <4>2 DEF Watched, Unanimous
    <3>2. CASE pc' # "merging"
      BY <2>1, <3>2 DEF Watched
    <3> QED BY <3>1, <3>2
  <2>7. ForbiddenInv'
    BY <2>1, <2>2 DEF ForbiddenInv
  <2> QED BY <2>1, <2>3, <2>4, <2>5, <2>6, <2>7
<1>3. CASE Merge
  <2>1. /\ pc = "merging"
        /\ \/ /\ conf.linear /\ pc' = "posting"
              /\ agent' = [handoff |-> handoff, tree |-> tree, head |-> head,
                           posted |-> "none"]
           \/ ~conf.linear /\ pc' = "verdict" /\ UNCHANGED agent
        /\ UNCHANGED <<conf, handoff, system, source, record, rev, talk, told>>
    BY <1>3 DEF Merge
  <2>2. Shape' /\ Recorded' /\ WrittenByAudit' /\ Heard'
    BY <2>1 DEF Shape, Agents, Recorded, InAudit, WrittenByAudit, Heard
  <2>3. ThreadsWaitedFor' /\ Watched'
    BY <2>1 DEF ThreadsWaitedFor, Watched, Unanimous
  <2>4. ForbiddenInv'
    BY <2>1 DEF ForbiddenInv, Strayed
  <2> QED BY <2>1, <2>2, <2>3, <2>4
<1>4. CASE WriteVerdict
  <2>1. /\ pc = "verdict" /\ pc' = "written" /\ handoff' = Merged
        /\ UNCHANGED <<conf, system, memory, talk, told>>
    BY <1>4 DEF WriteVerdict
  <2>2. Shape' /\ Recorded' /\ WrittenByAudit' /\ Heard'
    BY <2>1, MergedTexts
    DEF Shape, Texts, Recorded, InAudit, WrittenByAudit, ByAuditor, Heard
  <2>3. ThreadsWaitedFor' /\ Watched'
    BY <2>1 DEF ThreadsWaitedFor, Watched
  <2>4. Merged' = Merged /\ Outcome' = Outcome
    BY <2>1 DEF Merged, Outcome, Blocks
  <2>5. Earned'
    BY <2>1, <2>4 DEF Earned, Watched, Unanimous, Heard
  <2>6. ForbiddenInv'
    BY <2>1, MergedTexts DEF ForbiddenInv, Forbidden
  <2> QED BY <2>1, <2>2, <2>3, <2>5, <2>6
<1> QED BY <1>1, <1>2, <1>3, <1>4

\* The evidence agent posts; what it posted is what the tracker says.
LEMMA PostStep ==
    ASSUME AuditInv, Posting
    PROVE  AuditInv'
<1> USE DEF AuditInv, VerdictInv, system, memory, talk
<1>1. pc = "posting"
  BY DEF Posting, Posts, AgentStrays, AgentEnds, AgentStopped
<1>2. CASE Posts
  <2>1. PICK event \in {"passed", "failed"} :
           tracker' = event /\ agent' = [agent EXCEPT !.posted = event]
    BY <1>2 DEF Posts
  <2>2. UNCHANGED <<conf, handoff, tree, head, pc, source, record, rev, talk, told>>
    BY <1>2 DEF Posts
  <2>3. agent' \in Agents /\ agent'.posted = event /\ agent'.handoff = agent.handoff
    BY <2>1 DEF Shape, Agents
  <2>4. Shape' /\ Recorded' /\ WrittenByAudit' /\ Heard'
    BY <1>1, <2>1, <2>2, <2>3 DEF Shape, Recorded, WrittenByAudit, Heard
  <2>5. ThreadsWaitedFor' /\ Watched'
    BY <1>1, <2>2 DEF ThreadsWaitedFor, Watched, Unanimous
  <2>6. ForbiddenInv'
    BY <2>2, <2>3 DEF ForbiddenInv, Strayed
  <2> QED BY <1>1, <2>2, <2>4, <2>5, <2>6
<1>3. CASE AgentStrays
  <2>1. /\ \/ handoff' = Writing("agent") /\ UNCHANGED <<tree, head>>
           \/ tree' \in {"code", "guard"} /\ UNCHANGED <<handoff, head>>
           \/ head' = "moved" /\ UNCHANGED <<handoff, tree>>
        /\ UNCHANGED <<conf, tracker, pc, memory, talk, told>>
    BY <1>3 DEF AgentStrays
  <2>2. Shape' /\ Recorded' /\ WrittenByAudit' /\ Heard'
    BY <1>1, <2>1, WritingIsNew
    DEF Shape, Trees, Heads, Recorded, WrittenByAudit, Heard
  <2>3. ThreadsWaitedFor' /\ Watched'
    BY <1>1, <2>1 DEF ThreadsWaitedFor, Watched, Unanimous
  <2>4. ForbiddenInv'
    BY <1>1, <2>1 DEF ForbiddenInv, Strayed, Recorded, InAudit
  <2> QED BY <1>1, <2>1, <2>2, <2>3, <2>4
<1>4. CASE AgentEnds
  <2>1. /\ \/ pc' = "verdict" /\ UNCHANGED handoff /\ Untouched /\ Posted
           \/ pc' = "stopped" /\ handoff' = source
        /\ UNCHANGED <<conf, system, memory, talk, told>>
    BY <1>4 DEF AgentEnds
  <2>2. source \in Auditable
    BY <1>1 DEF Shape, Recorded, InAudit
  <2>3. Shape'
    BY <2>1, <2>2 DEF Shape, Auditable, Forbidden, Texts
  <2>4. Outcome' = Outcome /\ Outcome # "none"
    BY <2>1, MergedTexts DEF Outcome, Merged, Blocks
  <2>5. Recorded' /\ WrittenByAudit' /\ Heard'
    BY <1>1, <2>1, <2>4 DEF Recorded, InAudit, WrittenByAudit, Heard, Posted
  <2>6. ThreadsWaitedFor' /\ Watched'
    BY <1>1, <2>1 DEF ThreadsWaitedFor, Watched, Unanimous
  <2>7. ForbiddenInv'
    BY <1>1, <2>1 DEF ForbiddenInv, Untouched, Strayed
  <2> QED BY <2>1, <2>3, <2>5, <2>6, <2>7
<1>5. CASE AgentStopped
  <2>1. pc' = "raised" /\ UNCHANGED <<conf, handoff, system, memory, talk, told>>
    BY <1>5 DEF AgentStopped
  <2>2. Shape' /\ Recorded' /\ WrittenByAudit' /\ Heard'
    BY <2>1 DEF Shape, Recorded, InAudit, WrittenByAudit, Heard
  <2>3. ThreadsWaitedFor' /\ Watched'
    BY <1>1, <2>1 DEF ThreadsWaitedFor, Watched
  <2>4. ForbiddenInv'
    BY <1>1, <2>1 DEF ForbiddenInv, Strayed
  <2> QED BY <2>1, <2>2, <2>3, <2>4
<1> QED BY <1>2, <1>3, <1>4, <1>5 DEF Posting

\* The loop after the fan-out, chat, crashes and starts.
LEMMA LoopStep ==
    ASSUME AuditInv, Inspect \/ Follow \/ CheckProtected \/ Accept \/ Again
    PROVE  AuditInv'
<1> USE DEF AuditInv, VerdictInv, system, memory, talk
<1>1. pc \notin {"scoped", "planned", "reviewing", "collected", "merging", "posting",
                 "verdict"}
  BY DEF Inspect, Follow, CheckProtected, Accept, Again
<1>2. pc' \notin {"scoped", "planned", "reviewing", "collected", "merging", "posting",
                  "verdict", "written"}
  BY DEF Inspect, Follow, CheckProtected, Accept, Again
<1>3. UNCHANGED <<conf, system, source, rev, agent, chat, told>>
  BY DEF Inspect, Follow, CheckProtected, Accept, Again
<1>4. /\ handoff' = handoff \/ handoff' = "user"
      /\ record' = record \/ record' = NoText
      /\ request' = request \/ request' = NoText
  BY DEF Inspect, Follow, CheckProtected, Accept, Again
<1>5. Shape'
  BY <1>3, <1>4 DEF Shape, Texts
<1>6. WrittenByAudit' /\ Watched' /\ Heard'
  BY <1>2, <1>3 DEF WrittenByAudit, Watched, Heard
<1>7. ThreadsWaitedFor'
  BY <1>1, <1>2, <1>3 DEF ThreadsWaitedFor
<1>8. ASSUME UNCHANGED handoff, pc \in {"written", "checking", "accepted"}
      PROVE  Earned'
  BY <1>3, <1>8 DEF Earned, Unanimous, Merged, Outcome, Blocks
<1>9. CASE Inspect
  <2>1. Recorded' /\ ForbiddenInv'
    BY <1>3, <1>9 DEF Inspect, Recorded, InAudit, ForbiddenInv, Strayed
  <2> QED
    BY <1>3, <1>5, <1>6, <1>7, <1>8, <1>9, <2>1 DEF Inspect, Recorded, InAudit
<1>10. CASE Follow
  <2>1. Recorded' /\ ForbiddenInv'
    BY <1>3, <1>10 DEF Follow, Recorded, InAudit, ForbiddenInv, Forbidden, Strayed, NoText
  <2> QED BY <1>5, <1>6, <1>7, <1>10, <2>1 DEF Follow
<1>11. CASE CheckProtected
  <2>1. Recorded' /\ ForbiddenInv'
    BY <1>3, <1>11
    DEF CheckProtected, Recorded, InAudit, ForbiddenInv, Forbidden, Strayed, NoText
  <2> QED
    BY <1>3, <1>5, <1>6, <1>7, <1>8, <1>11, <2>1 DEF CheckProtected
<1>12. CASE Accept
  <2>1. Recorded' /\ ForbiddenInv'
    BY <1>3, <1>12 DEF Accept, Recorded, InAudit, ForbiddenInv, Strayed
  <2> QED BY <1>3, <1>5, <1>6, <1>7, <1>8, <1>12, <2>1 DEF Accept
<1>13. CASE Again
  <2>1. Recorded' /\ ForbiddenInv'
    BY <1>3, <1>13 DEF Again, Recorded, InAudit, ForbiddenInv, Strayed
  <2> QED BY <1>5, <1>6, <1>7, <1>13, <2>1 DEF Again
<1> QED BY <1>9, <1>10, <1>11, <1>12, <1>13

LEMMA ChatStep ==
    ASSUME AuditInv, Chatting
    PROVE  AuditInv'
<1> USE DEF AuditInv, VerdictInv, system, memory
<1>1. /\ UNCHANGED <<conf, system, pc, memory, told>>
      /\ handoff' = handoff \/ handoff' = "chat"
      /\ pc # "accepted"
      /\ request' = request \/ request' = handoff
  <2>1. CASE AnswerBegins
    BY <2>1 DEF AnswerBegins
  <2>2. CASE AnswerRewrites
    BY <2>2 DEF AnswerRewrites, talk
  <2>3. CASE AnswerEnds
    BY <2>3 DEF AnswerEnds
  <2> QED BY <2>1, <2>2, <2>3 DEF Chatting
<1>2. Shape' /\ Recorded' /\ ThreadsWaitedFor' /\ WrittenByAudit' /\ Heard'
  <2>1. Outcome' = Outcome
    BY <1>1 DEF Outcome, Merged, Blocks
  <2> QED
    BY <1>1, <2>1
    DEF Shape, Texts, Recorded, ThreadsWaitedFor, WrittenByAudit, Heard
<1>3. Watched'
  <2>1. handoff' # source \/ handoff' = handoff
    BY <1>1 DEF Shape, Auditable, Forbidden, NoText
  <2> QED BY <1>1, <2>1 DEF Watched, Unanimous
<1>4. ForbiddenInv'
  BY <1>1 DEF ForbiddenInv, Forbidden, Strayed
<1>5. Earned => Earned'
  BY <1>1 DEF Earned, Unanimous, Merged, Outcome, Blocks
<1> QED BY <1>1, <1>2, <1>3, <1>4, <1>5

LEMMA CrashStep ==
    ASSUME AuditInv, Crash \/ Restart
    PROVE  AuditInv'
<1> USE DEF AuditInv, VerdictInv, system, talk
<1>1. CASE Crash
  <2>1. /\ pc' = "down" /\ pc \notin {"idle", "down", "accepted", "followed", "escalated"}
        /\ rev' = [r \in Reviewers |-> Resting] /\ agent' = NoAgent
        /\ source' = NoText /\ request' = NoText
        /\ UNCHANGED <<conf, handoff, system, record, told>>
    BY <1>1 DEF Crash
  <2>2. Shape'
    BY <2>1, RestingThread DEF Shape, Agents, NoAgent, Trees, Heads
  <2>3. ThreadsWaitedFor'
    BY <2>1 DEF ThreadsWaitedFor, Resting
  <2>4. Recorded' /\ WrittenByAudit' /\ Watched' /\ Heard'
    BY <2>1 DEF Recorded, InAudit, WrittenByAudit, Watched, Heard
  <2>5. ForbiddenInv'
    BY <2>1 DEF ForbiddenInv, Strayed, Forbidden, NoText
  <2> QED BY <2>1, <2>2, <2>3, <2>4, <2>5
<1>2. CASE Restart
  <2>1. /\ pc = "down" /\ pc' = "idle" /\ record' = NoText
        /\ \/ handoff' = (IF record = NoText THEN handoff ELSE record) /\ UNCHANGED told
           \/ UNCHANGED handoff /\ told' = [told EXCEPT !.declined = TRUE]
        /\ UNCHANGED <<conf, system, source, rev, agent, talk>>
    BY <1>2 DEF Restart
  <2>2. Shape'
    <3>1. handoff' \in Texts
      BY <2>1 DEF Shape, Auditable, Forbidden, Texts
    <3>2. told' \in [spoilers : SUBSET Reviewers, declined : BOOLEAN]
      BY <2>1 DEF Shape
    <3> QED BY <2>1, <3>1, <3>2 DEF Shape
  <2>3. ThreadsWaitedFor'
    BY <2>1 DEF ThreadsWaitedFor
  <2>4. Recorded' /\ WrittenByAudit' /\ Watched' /\ Heard'
    BY <2>1 DEF Recorded, InAudit, WrittenByAudit, Watched, Heard
  <2>5. \/ told'.declined = TRUE
        \/ told' = told /\ handoff' = (IF record = NoText THEN handoff ELSE record)
    BY <2>1 DEF Shape
  <2>6. ForbiddenInv'
    BY <2>1, <2>5 DEF ForbiddenInv, Strayed, Forbidden, NoText
  <2> QED BY <2>1, <2>2, <2>3, <2>4, <2>6
<1> QED BY <1>1, <1>2

LEMMA AuditStep == AuditInv /\ [Next]_vars => AuditInv'
<1> SUFFICES ASSUME AuditInv, [Next]_vars PROVE AuditInv'
  OBVIOUS
<1>1. CASE UNCHANGED vars
  BY <1>1
  DEF vars, AuditInv, VerdictInv, Shape, Recorded, ThreadsWaitedFor, WrittenByAudit,
      Watched, Heard, Earned, Unanimous, Merged, Outcome, Blocks, ForbiddenInv, Strayed
<1>2. CASE Next
  BY <1>2, BeforeReview, ReviewStep, CollectStep, PostStep, LoopStep, ChatStep, CrashStep
  DEF Next, Dispatching
<1> QED BY <1>1, <1>2

LEMMA AuditAlways == Spec => []AuditInv
  BY AuditInit, AuditStep, PTL DEF Spec

\* Threads run only while they are waited for, and the record outlives the
\* audit, for any reviewers and however often chat, faults and crashes strike.
THEOREM AuditTyped == Spec => []TypeOK
<1>1. AuditInv => TypeOK
  BY DEF AuditInv, VerdictInv, Shape, Recorded, InAudit, ThreadsWaitedFor, WrittenByAudit,
         TypeOK, Auditable, Forbidden, Texts
<1> QED BY <1>1, AuditAlways, PTL

\* What the votes of a unanimous audit must be for the merge to approve.
LEMMA ApprovalVotes ==
    ASSUME Unanimous, Merged = "approved", NEW r \in Reviewers
    PROVE  /\ rev[r].stage = "ended" /\ rev[r].vote # NoVote
           /\ rev[r].vote.worst # "above"
           /\ rev[r].vote.vote = "fail" => rev[r].vote.worst = "below"
           /\ r = "quality" => rev[r].vote.vote = "pass"
<1>1. ~Blocks(r)
  BY DEF Merged
<1>2. /\ rev[r].stage = "ended" /\ rev[r].vote # NoVote
      /\ rev[r].vote.worst \in Worst /\ rev[r].vote.vote \in {"pass", "fail"}
  BY VoteIsTyped DEF Unanimous
<1> QED BY <1>1, <1>2 DEF Blocks, Worst

\* An approval the loop accepts was earned from every reviewer, with nobody
\* having written HANDOFF.md meanwhile, and Linear heard the outcome.
THEOREM VerdictIsEarned == Spec => VerdictEarned
<1> DEFINE Approval ==
      /\ handoff = "approved" =>
           /\ told.spoilers = {} /\ tree # "guard"
           /\ rev["quality"].vote.vote = "pass"
           /\ \A r \in Reviewers :
               /\ rev[r].stage = "ended" /\ rev[r].vote # NoVote
               /\ rev[r].vote.worst # "above"
               /\ rev[r].vote.vote = "fail" => rev[r].vote.worst = "below"
      /\ conf.linear /\ handoff \in {"approved", "blocked"} =>
           tracker = (IF handoff = "approved" THEN "passed" ELSE "failed")
<1>1. ASSUME Earned, tree # "guard"
      PROVE  Approval
  <2>1. "quality" \in Reviewers
    BY AuditAssumption
  <2>2. CASE handoff = "approved"
    BY <1>1, <2>1, <2>2, ApprovalVotes DEF Earned, Unanimous, Outcome
  <2>3. CASE handoff # "approved"
    BY <1>1, <2>3 DEF Earned, Outcome
  <2> QED BY <2>2, <2>3
<1>2. ASSUME AuditInv, Next, pc' = "accepted"
      PROVE  Earned /\ tree # "guard"
  <2>1. pc = "accepted" \/ (Accept /\ pc = "checking" /\ record = NoText)
    BY <1>2
    DEF Next, Reviewing, Misdirected, Answers, Fails, FallsBack, Strays, Stopped, Running,
        Dispatching, Begin, VerifyFirst, Launch, Collect, Restore, Merge, WriteVerdict,
        Inspect, Follow, CheckProtected, Accept, Again, Posting, Posts, AgentStrays,
        AgentEnds, AgentStopped, Chatting, AnswerBegins, AnswerRewrites, AnswerEnds,
        Crash, Restart
  <2> QED BY <1>2, <2>1 DEF AuditInv, VerdictInv
<1>3. AuditInv /\ [Next]_vars => [pc' = "accepted" => Approval]_vars
  BY <1>1, <1>2
<1> QED BY <1>3, AuditAlways, PTL DEF Spec, VerdictEarned

\* What a reviewer or the evidence agent wrote is restored away before it can
\* be audited, unless a person declined the restoration.
THEOREM NothingForbiddenAudited == Spec => RequestAudited
<1>1. ASSUME AuditInv, Next, pc = "idle", pc' \in {"scoped", "failed"}
      PROVE  handoff \in {"request", "recorded"} \/ told.declined
  <2>1. Begin
    BY <1>1
    DEF Next, Reviewing, Misdirected, Answers, Fails, FallsBack, Strays, Stopped, Running,
        Dispatching, VerifyFirst, Launch, Collect, Restore, Merge, WriteVerdict,
        Inspect, Follow, CheckProtected, Accept, Again, Posting, Posts, AgentStrays,
        AgentEnds, AgentStopped, Chatting, AnswerBegins, AnswerRewrites, AnswerEnds,
        Crash, Restart
  <2> QED
    BY <1>1, <2>1 DEF Begin, Auditable, AuditInv, ForbiddenInv, Strayed
<1>2. AuditInv /\ [Next]_vars =>
        [pc = "idle" /\ pc' \in {"scoped", "failed"} =>
            handoff \in {"request", "recorded"} \/ told.declined]_vars
  BY <1>1
<1> QED BY <1>2, AuditAlways, PTL DEF Spec, RequestAudited
=============================================================================
