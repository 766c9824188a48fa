-------------------------- MODULE ChatTakeoverProofs --------------------------
(***************************************************************************)
(* Theorems about ChatTakeover, for any messages and any texts: a chat's   *)
(* rewrite of the handoff is never forgotten, what is published is the     *)
(* role's own and nobody can be rewriting it, and what is followed as a    *)
(* chat's handoff is what its request named.                               *)
(***************************************************************************)
EXTENDS ChatTakeover, TLAPS

FromChat == {Plain(t) : t \in ChatTexts}

\* Written by a chat answer since the window of this cycle opened.
Fresh == {Plain(t) : t \in ChatTexts \ stale}

\* What the stages that write the handoff back have read.
HeldFits == pc \in {"stamp", "verdict"} => cycle.held \in Handoffs

\* Between two answers nothing is kept of one, and what an answer found when it
\* was over is what a chat's handoff is then.
Answer ==
    /\ current = NoMessage => before = NoHandoff /\ seen = Unread
    /\ seen # Unread /\ handoff \in FromChat => handoff = seen

Generations == cycle.inspected.generation <= request.generation

ShapeInv == TypeOK /\ HeldFits /\ Answer /\ Generations

(* A rewrite on disk has its request, or the answer that will make it; an       *)
(* answer that began on a rewrite began after the request for that.             *)
Kept ==
    InWindow =>
        /\ handoff \in Fresh =>
             request.on \/ (current # NoMessage /\ before # handoff)
        /\ current # NoMessage /\ before \in Fresh => request.on

\* Where only chat answers write, an answer that has not written sees what it began on.
Undisturbed ==
    \/ pc \in {"inspect", "check", "claim"}
    \/ pc = "validate" /\ cycle.route = "auditor"
    => (current # NoMessage => handoff \in FromChat \/ before = handoff)

\* Without a newer request, the one about to be claimed is no chat answer's.
Claiming ==
    pc = "claim" /\ request.generation = cycle.inspected.generation =>
        /\ handoff \in Fresh => current # NoMessage /\ before # handoff
        /\ current # NoMessage => before \notin Fresh

Committing == pc \in {"commit", "stamp"} => cycle.route = "implementer"

KeptInv == Kept /\ Undisturbed /\ Claiming /\ Committing

\* From its validation on an auditor's handoff is the auditor's, or a chat's of
\* which a request tells or will tell.
Vouched ==
    pc \in {"late_gate", "hush", "late_publish"} /\ cycle.route = "auditor" =>
        /\ handoff.text \in RoleTexts \/ handoff \in FromChat
        /\ \/ handoff.text \in RoleTexts
           \/ request.on
           \/ current # NoMessage /\ before # handoff
        /\ current # NoMessage /\ before.text \notin RoleTexts => request.on

Hushed ==
    /\ pc \in {"hush", "late_publish", "publish"} => cycle.route = "auditor"
    /\ pc \in {"late_publish", "publish"} => ~capture

QuietInv == Vouched /\ Hushed /\ PublishedQuietly

\* From the wait for the answers to the end of the following only answers write.
Settled ==
    pc \in {"inspect", "check", "claim", "decide", "follow", "forget", "compare",
            "judge"} /\ seen # Unread
    => handoff = seen

Judging ==
    pc = "judge" =>
        /\ handoff = cycle.held \/ handoff \in FromChat
        /\ \/ request.on
           \/ current = NoMessage /\ (handoff = cycle.held \/ handoff.text \in stale)
           \/ current # NoMessage /\ (before = cycle.held \/ before.text \in stale)

FollowInv == Settled /\ Judging

TakeoverInv == ShapeInv /\ KeptInv /\ QuietInv /\ FollowInv

(***************************************************************************)
(* Texts and handoffs.                                                     *)
(***************************************************************************)
LEMMA PlainHandoff ==
  /\ \A t : Plain(t).text = t /\ Plain(t).mark = "plain"
  /\ \A t \in Texts : Plain(t) \in Handoffs
  BY DEF Plain, Handoffs

LEMMA NoHandoffIsNone ==
  /\ NoHandoff \notin Handoffs
  /\ NoHandoff.text = NoText
  BY TextsAssumption DEF NoHandoff, Plain, Handoffs, Texts

LEMMA MarkedHandoff ==
  ASSUME NEW h \in Handoffs, NEW mark \in {"plain", "stamped", "passed"}
  PROVE  /\ Marked(h, mark) \in Handoffs
         /\ Marked(h, mark).mark = mark
  BY DEF Marked, Handoffs

LEMMA ChatHandoffs ==
  /\ FromChat \subseteq Handoffs
  /\ \A h \in FromChat : /\ h.text \in ChatTexts /\ h.text \notin RoleTexts
                         /\ h.mark = "plain" /\ h = Plain(h.text)
  /\ NoHandoff \notin FromChat
  BY PlainHandoff, NoHandoffIsNone, TextsAssumption DEF FromChat, Texts

LEMMA FreshHandoffs ==
  /\ Fresh \subseteq FromChat
  /\ \A h \in Fresh : h.text \notin stale
  BY PlainHandoff DEF Fresh, FromChat

LEMMA DroppedRequest ==
  ASSUME request \in Requests
  PROVE  /\ Dropped \in Requests
         /\ ~Dropped.on
         /\ Dropped.generation = request.generation
  BY DEF Dropped, Requests

LEMMA NewRequest ==
  ASSUME request \in Requests, seen \in Handoffs \cup {NoHandoff}
  PROVE  /\ Requested \in Requests
         /\ Requested.on
         /\ Requested.generation = request.generation + 1
  BY DEF Requested, Requests

LEMMA FirstCycle ==
  /\ NoCycle \in Cycles
  /\ NoCycle.inspected \in Requests
  /\ NoCycle.inspected.generation = 0
  /\ ~NoCycle.inspected.on
  /\ ~NoCycle.returned
  BY DEF NoCycle, Cycles, Requests, Routes

(***************************************************************************)
(* What the answers do to the queue of messages.                           *)
(***************************************************************************)
LEMMA QueueTypes ==
  ASSUME QueueTypeOK
  PROVE  /\ \A m \in Messages : Accept(m) => QueueTypeOK'
         /\ Begin => QueueTypeOK' /\ current' \in Messages /\ current' # NoMessage
         /\ End => QueueTypeOK'
         /\ UNCHANGED queueVars => QueueTypeOK'
<1>1. ASSUME NEW m \in Messages, Accept(m) PROVE QueueTypeOK'
  <2>1. line' \in Seq(Messages)
    BY <1>1 DEF Accept, QueueTypeOK
  <2>2. fate' \in [Messages -> Fates]
    BY <1>1 DEF Accept, QueueTypeOK, Fates
  <2> QED
    BY <1>1, <2>1, <2>2 DEF Accept, QueueTypeOK
<1>2. ASSUME Begin PROVE QueueTypeOK' /\ current' \in Messages /\ current' # NoMessage
  <2>1. Head(line) \in Messages /\ Tail(line) \in Seq(Messages)
    BY <1>2 DEF Begin, QueueTypeOK
  <2>2. fate' \in [Messages -> Fates]
    BY <1>2 DEF Begin, QueueTypeOK, Fates
  <2> QED
    BY <1>2, <2>1, <2>2, MessagesAssumption DEF Begin, QueueTypeOK
<1>3. ASSUME End PROVE QueueTypeOK'
  <2>1. fate' \in [Messages -> Fates]
    BY <1>3 DEF End, QueueTypeOK, Fates
  <2> QED
    BY <1>3, <2>1 DEF End, QueueTypeOK
<1>4. ASSUME UNCHANGED queueVars PROVE QueueTypeOK'
  BY <1>4 DEF QueueTypeOK, queueVars
<1> QED
  BY <1>1, <1>2, <1>3, <1>4

(***************************************************************************)
(* Types, what the gate has read, and what belongs to a running answer.    *)
(***************************************************************************)
LEMMA ShapeInit == Init => ShapeInv
<1> SUFFICES ASSUME Init PROVE ShapeInv
  OBVIOUS
<1>1. QueueTypeOK
  BY DEF Init, QueueInit, QueueTypeOK, Fates
<1>2. handoff \in Handoffs
  BY PlainHandoff DEF Init, Texts
<1>3. TypeOK
  BY <1>1, <1>2, FirstCycle DEF Init, TypeOK, Locations, Unread
<1> QED
  BY <1>3, FirstCycle
     DEF Init, QueueInit, ShapeInv, HeldFits, Answer, Generations, Unread, Requests

LEMMA ShapeChatting == ShapeInv /\ Chatting => ShapeInv'
<1> SUFFICES ASSUME ShapeInv, Chatting PROVE ShapeInv'
  OBVIOUS
<1> USE DEF ShapeInv, TypeOK
<1>1. ASSUME NEW m \in Messages, Submit(m) PROVE ShapeInv'
  <2>1. QueueTypeOK'
    BY <1>1, QueueTypes DEF Submit
  <2> QED
    BY <1>1, <2>1 DEF Submit, Accept, controller, HeldFits, Answer, Generations
<1>2. CASE AnswerBegins
  <2>1. QueueTypeOK' /\ current' # NoMessage
    BY <1>2, QueueTypes DEF AnswerBegins
  <2>2. seen' = Unread
    BY <1>2 DEF AnswerBegins, Begin, Answer
  <2> QED
    BY <1>2, <2>1, <2>2 DEF AnswerBegins, controller, HeldFits, Answer, Generations
<1>3. CASE ChatWrites
  <2>1. QueueTypeOK'
    BY <1>3, QueueTypes DEF ChatWrites, chat
  <2>2. handoff' \in Handoffs
    BY <1>3, PlainHandoff DEF ChatWrites, Texts
  <2> QED
    BY <1>3, <2>1, <2>2
       DEF ChatWrites, chat, queueVars, controller, HeldFits, Answer, Generations
<1>4. CASE AnswerOver
  <2>1. QueueTypeOK'
    BY <1>4, QueueTypes DEF AnswerOver
  <2> QED
    BY <1>4, <2>1
       DEF AnswerOver, queueVars, controller, HeldFits, Answer, Generations
<1>5. CASE AnswerEnds
  <2>1. QueueTypeOK' /\ current' = NoMessage
    BY <1>5, QueueTypes DEF AnswerEnds, End
  <2>2. request' \in Requests /\ request'.generation >= request.generation
    BY <1>5, NewRequest DEF AnswerEnds, Requests
  <2>3. cycle' = cycle /\ cycle.inspected.generation \in Nat
    BY <1>5 DEF AnswerEnds, Cycles, Requests
  <2>4. Generations'
    BY <2>2, <2>3 DEF Generations, Requests
  <2> QED
    BY <1>5, <2>1, <2>2, <2>4 DEF AnswerEnds, HeldFits, Answer, Unread
<1> QED
  BY <1>1, <1>2, <1>3, <1>4, <1>5 DEF Chatting, Answering

LEMMA HandoffTexts ==
  \A h \in Handoffs \cup {NoHandoff} : h.text \in Texts \cup {NoText}
  BY NoHandoffIsNone DEF Handoffs

\* The dispatch loop, the role and the operator leave the answers alone.
Looping == LoopStep \/ RoleWrites \/ RoleReturns \/ RoleStopped \/ PauseEnds

LEMMA LoopingAnswersNothing == Looping => UNCHANGED chat
  BY DEF Looping, LoopStep, BeforeReturn, AfterReturn, Stages, Following, LoopTop,
         ReadHandoff, SetRole, ClearStale, Arm, Disarm, Settle, Inspect, Check,
         Claim, Decide, EndsEarly, LateChecks, LateCheck, Commit, Stamp, Validate,
         GateReads, Reads, GateWrites, Hush, Publish, Follow, Forget,
         ProtectedFileChanged, Compare, Judge, Pause, RoleWrites, RoleReturns,
         RoleStopped, PauseEnds

LEMMA ShapeLooping == ShapeInv /\ Looping => ShapeInv'
<1> SUFFICES ASSUME ShapeInv, Looping PROVE ShapeInv'
  OBVIOUS
<1>0. UNCHANGED <<queueVars, before, seen>> /\ QueueTypeOK'
  BY LoopingAnswersNothing, QueueTypes DEF chat, ShapeInv, TypeOK
<1> USE <1>0 DEF ShapeInv, TypeOK, Step, queueVars
<1>1. CASE LoopTop
  <2>1. cycle' = NoCycle /\ cycle' \in Cycles /\ Generations'
    BY <1>1, FirstCycle DEF LoopTop, controller, Generations, Requests
  <2> QED
    BY <1>1, <2>1 DEF LoopTop, controller, HeldFits, Answer, Locations, FromChat
<1>2. CASE ReadHandoff
  BY <1>2 DEF ReadHandoff,
         controller, HeldFits, Answer, Generations, Locations, Cycles, Requests, FromChat
<1>3. CASE SetRole
  BY <1>3 DEF SetRole,
         controller, HeldFits, Answer, Generations, Locations, Cycles, Requests, FromChat
<1>4. CASE ClearStale
  <2>1. stale' \subseteq Texts \cup {NoText}
    BY <1>4, HandoffTexts DEF ClearStale
  <2> QED
    BY <1>4, <2>1, DroppedRequest
       DEF ClearStale, controller, HeldFits, Answer, Generations, Locations, FromChat
<1>5. CASE Arm
  BY <1>5 DEF Arm,
         controller, HeldFits, Answer, Generations, Locations, Cycles, Requests, FromChat
<1>6. CASE Disarm
  BY <1>6 DEF Disarm,
         controller, HeldFits, Answer, Generations, Locations, Cycles, Requests, FromChat
<1>7. CASE Settle
  BY <1>7 DEF Settle,
         controller, HeldFits, Answer, Generations, Locations, Cycles, Requests, FromChat
<1>8. CASE Inspect
  BY <1>8 DEF Inspect,
         controller, HeldFits, Answer, Generations, Locations, Cycles, Requests, FromChat
<1>9. CASE Check
  BY <1>9 DEF Check,
         controller, HeldFits, Answer, Generations, Locations, Cycles, Requests, FromChat
<1>10. CASE Claim
  BY <1>10, DroppedRequest DEF Claim,
         controller, HeldFits, Answer, Generations, Locations, Cycles, Requests, FromChat
<1>11. CASE Decide
  BY <1>11 DEF Decide,
         controller, HeldFits, Answer, Generations, Locations, Cycles, Requests, FromChat
<1>12. CASE EndsEarly
  <2>1. handoff' \in Handoffs /\ (handoff' = handoff \/ handoff' \notin FromChat)
    BY <1>12, PlainHandoff, ChatHandoffs, TextsAssumption
       DEF EndsEarly, Texts, HeldFits
  <2> QED
    BY <1>12, <2>1 DEF EndsEarly, controller, HeldFits, Answer, Generations, Locations, FromChat
<1>13. CASE LateChecks
  <2>1. /\ pc' \in Locations \ {"stamp", "verdict"}
        /\ UNCHANGED <<handoff, capture, controller, cycle, stale>>
    BY <1>13 DEF LateChecks, LateCheck, AfterValidation, Locations, Cycles, Routes
  <2> QED
    BY <2>1 DEF controller, HeldFits, Answer, Generations, FromChat
<1>14. CASE Commit
  BY <1>14 DEF Commit, Reads,
         controller, HeldFits, Answer, Generations, Locations, Cycles, Requests, FromChat
<1>15. CASE Stamp
  <2>1. handoff' \in Handoffs /\ (handoff' = handoff \/ handoff' \notin FromChat)
    BY <1>15, MarkedHandoff, ChatHandoffs
       DEF Stamp, Texts, HeldFits
  <2> QED
    BY <1>15, <2>1 DEF Stamp, controller, HeldFits, Answer, Generations, Locations, FromChat
<1>16. CASE Validate
  BY <1>16 DEF Validate,
         controller, HeldFits, Answer, Generations, Locations, Cycles, Requests, FromChat
<1>17. CASE GateReads
  BY <1>17 DEF GateReads, Reads,
         controller, HeldFits, Answer, Generations, Locations, Cycles, Requests, FromChat
<1>18. CASE GateWrites
  <2>1. handoff' \in Handoffs /\ (handoff' = handoff \/ handoff' \notin FromChat)
    BY <1>18, PlainHandoff, MarkedHandoff, ChatHandoffs, TextsAssumption
       DEF GateWrites, Texts, HeldFits
  <2> QED
    BY <1>18, <2>1 DEF GateWrites, controller, HeldFits, Answer, Generations, Locations, FromChat
<1>19. CASE Hush
  BY <1>19 DEF Hush,
         controller, HeldFits, Answer, Generations, Locations, Cycles, Requests, FromChat
<1>20. CASE Publish
  BY <1>20 DEF Publish,
         controller, HeldFits, Answer, Generations, Locations, Cycles, Requests, FromChat
<1>21. CASE Follow
  BY <1>21 DEF Follow,
         controller, HeldFits, Answer, Generations, Locations, Cycles, Requests, FromChat
<1>22. CASE Forget
  BY <1>22, DroppedRequest DEF Forget,
         controller, HeldFits, Answer, Generations, Locations, Cycles, Requests, FromChat
<1>23. CASE ProtectedFileChanged
  <2>1. handoff' \in Handoffs /\ (handoff' = handoff \/ handoff' \notin FromChat)
    BY <1>23, PlainHandoff, ChatHandoffs, TextsAssumption
       DEF ProtectedFileChanged, Texts, HeldFits
  <2> QED
    BY <1>23, <2>1 DEF ProtectedFileChanged, controller, HeldFits, Answer, Generations, Locations, FromChat
<1>24. CASE Compare
  <2>1. stale' \subseteq Texts \cup {NoText}
    BY <1>24, HandoffTexts DEF Compare
  <2> QED
    BY <1>24, <2>1
       DEF Compare, controller, HeldFits, Answer, Generations, Locations, FromChat
<1>25. CASE Judge
  BY <1>25 DEF Judge,
         controller, HeldFits, Answer, Generations, Locations, Cycles, Requests, FromChat
<1>26. CASE Pause
  BY <1>26 DEF Pause,
         controller, HeldFits, Answer, Generations, Locations, Cycles, Requests, FromChat
<1>27. CASE RoleWrites
  <2>1. handoff' \in Handoffs /\ (handoff' = handoff \/ handoff' \notin FromChat)
    BY <1>27, PlainHandoff, ChatHandoffs
       DEF RoleWrites, Texts, HeldFits
  <2> QED
    BY <1>27, <2>1 DEF RoleWrites, controller, HeldFits, Answer, Generations, Locations, FromChat
<1>28. CASE RoleReturns
  BY <1>28 DEF RoleReturns,
         controller, HeldFits, Answer, Generations, Locations, Cycles, Requests, FromChat
<1>29. CASE RoleStopped
  BY <1>29 DEF RoleStopped,
         controller, HeldFits, Answer, Generations, Locations, Cycles, Requests, FromChat
<1>30. CASE PauseEnds
  BY <1>30 DEF PauseEnds,
         controller, HeldFits, Answer, Generations, Locations, Cycles, Requests, FromChat
<1> QED
  BY <1>1, <1>2, <1>3, <1>4, <1>5, <1>6, <1>7, <1>8, <1>9, <1>10, <1>11, <1>12, <1>13, <1>14, <1>15, <1>16, <1>17, <1>18, <1>19, <1>20, <1>21, <1>22, <1>23, <1>24, <1>25, <1>26, <1>27, <1>28, <1>29, <1>30 DEF Looping, LoopStep, BeforeReturn, AfterReturn, Stages, Following

(***************************************************************************)
(* No rewrite is forgotten.                                                *)
(***************************************************************************)
LEMMA KeptChatting == ShapeInv /\ KeptInv /\ Chatting => KeptInv'
<1> SUFFICES ASSUME ShapeInv, KeptInv, Chatting PROVE KeptInv'
  OBVIOUS
<1>0. /\ UNCHANGED <<pc, cycle, stale>> /\ Committing' /\ Fresh' = Fresh /\ InWindow' = InWindow
      /\ FromChat' = FromChat
  BY DEF Chatting, Answering, Submit, AnswerBegins, ChatWrites, AnswerOver, AnswerEnds,
         Fresh, InWindow, FromChat, KeptInv, Committing
<1> USE DEF KeptInv
<1>1. ASSUME NEW m \in Messages, Submit(m) PROVE KeptInv'
  BY <1>0, <1>1 DEF Submit, Accept, controller, Kept, Undisturbed, Claiming
<1>2. CASE AnswerBegins
  <2>1. /\ current = NoMessage /\ current' # NoMessage
        /\ before' = handoff /\ UNCHANGED <<handoff, request>>
    BY <1>2, QueueTypes DEF AnswerBegins, Begin, controller, ShapeInv, TypeOK
  <2>2. Kept'
    BY <1>0, <2>1 DEF Kept
  <2>3. Undisturbed'
    BY <1>0, <2>1 DEF Undisturbed
  <2>4. Claiming'
    BY <1>0, <2>1 DEF Claiming
  <2> QED
    BY <1>0, <2>2, <2>3, <2>4
<1>3. CASE ChatWrites
  <2>1. current # NoMessage /\ handoff' \in FromChat /\ UNCHANGED <<current, before, request>>
    BY <1>3 DEF ChatWrites, chat, queueVars, controller, FromChat
  <2>2. Kept'
    BY <1>0, <2>1 DEF Kept
  <2>3. Undisturbed'
    BY <1>0, <2>1 DEF Undisturbed
  <2>4. Claiming'
    BY <1>0, <2>1 DEF Claiming
  <2> QED
    BY <1>0, <2>2, <2>3, <2>4
<1>4. CASE AnswerOver
  BY <1>0, <1>4 DEF AnswerOver, queueVars, controller, Kept, Undisturbed, Claiming
<1>5. CASE AnswerEnds
  <2>1. /\ current # NoMessage /\ current' = NoMessage /\ seen # Unread
        /\ handoff' = handoff
        /\ IF seen # before THEN request' = Requested ELSE request' = request
    BY <1>5 DEF AnswerEnds, End
  <2>2. handoff \in Fresh => handoff = seen
    BY <2>1, FreshHandoffs DEF ShapeInv, Answer
  <2>3. /\ request.on => request'.on
        /\ seen # before => /\ request'.on
                            /\ request'.generation = request.generation + 1
    BY <2>1, NewRequest DEF ShapeInv, TypeOK
  <2>4. Kept'
    BY <1>0, <2>1, <2>2, <2>3 DEF Kept
  <2>5. Undisturbed'
    BY <1>0, <2>1 DEF Undisturbed
  <2>6. seen # before => request'.generation # cycle'.inspected.generation
    <3>1. /\ cycle.inspected.generation \in Nat /\ request.generation \in Nat
          /\ cycle.inspected.generation <= request.generation
      BY DEF ShapeInv, TypeOK, Cycles, Requests, Generations
    <3> QED
      BY <1>0, <2>3, <3>1
  <2>7. seen = before => request' = request
    BY <2>1
  <2>8. Claiming'
    BY <1>0, <2>1, <2>2, <2>6, <2>7 DEF Claiming
  <2> QED
    BY <1>0, <2>4, <2>5, <2>8
<1> QED
  BY <1>1, <1>2, <1>3, <1>4, <1>5 DEF Chatting, Answering

LEMMA KeptLooping == ShapeInv /\ KeptInv /\ Looping => KeptInv'
<1> SUFFICES ASSUME ShapeInv, KeptInv, Looping PROVE KeptInv'
  OBVIOUS
<1>0. UNCHANGED <<current, line, before, seen>> /\ FromChat' = FromChat
  BY LoopingAnswersNothing DEF chat, queueVars, FromChat
\* Outside the window, and where nothing that matters has changed.
<1>1. ASSUME ~InWindow', pc' \notin {"check", "claim", "validate"} PROVE KeptInv'
  BY <1>1 DEF KeptInv, Kept, Undisturbed, Claiming, Committing, InWindow, Locations
<1>2. ASSUME UNCHANGED <<handoff, request, stale>>, InWindow \/ ~InWindow' PROVE Kept'
  BY <1>0, <1>2 DEF KeptInv, Kept, Fresh
<1>3. ASSUME UNCHANGED <<request, stale>>, InWindow \/ ~InWindow', handoff' \notin FromChat
      PROVE Kept'
  BY <1>0, <1>3, FreshHandoffs DEF KeptInv, Kept, Fresh
<1> USE DEF Step
<1>4. CASE \/ LoopTop \/ ReadHandoff \/ SetRole \/ EndsEarly \/ Publish \/ Follow
           \/ Forget \/ ProtectedFileChanged \/ Compare \/ Judge \/ Pause
           \/ PauseEnds \/ GateWrites
  BY <1>1, <1>4
     DEF LoopTop, ReadHandoff, SetRole, EndsEarly, Publish, Follow, Forget,
         ProtectedFileChanged, Compare, Judge, Pause, PauseEnds, GateWrites,
         InWindow, Locations
<1>5. CASE ClearStale
  <2>1. /\ handoff.text \in stale' /\ before.text \in stale' /\ UNCHANGED handoff
        /\ pc' \in {"running", "arm"}
    BY <1>5 DEF ClearStale
  <2>2. handoff' \notin Fresh' /\ before' \notin Fresh'
    BY <1>0, <2>1, PlainHandoff DEF Fresh
  <2> QED
    BY <2>1, <2>2 DEF KeptInv, Kept, Undisturbed, Claiming, Committing
<1>6. CASE Arm
  <2>1. /\ UNCHANGED <<handoff, request, stale>> /\ InWindow
        /\ pc' \in {"running", "disarm", "settle", "stamp", "verdict", "late_publish"}
        /\ pc' = "stamp" => pc = "commit" /\ cycle'.route = cycle.route
    BY <1>6 DEF Arm, controller, InWindow, Locations
  <2> QED
    BY <1>2, <2>1 DEF KeptInv, Undisturbed, Claiming, Committing
<1>7. CASE RoleReturns
  <2>1. /\ UNCHANGED <<handoff, request, stale>> /\ InWindow
        /\ pc' \in {"running", "disarm", "settle", "stamp", "verdict", "late_publish"}
        /\ pc' = "stamp" => pc = "commit" /\ cycle'.route = cycle.route
    BY <1>7 DEF RoleReturns, controller, InWindow, Locations
  <2> QED
    BY <1>2, <2>1 DEF KeptInv, Undisturbed, Claiming, Committing
<1>8. CASE RoleStopped
  <2>1. /\ UNCHANGED <<handoff, request, stale>> /\ InWindow
        /\ pc' \in {"running", "disarm", "settle", "stamp", "verdict", "late_publish"}
        /\ pc' = "stamp" => pc = "commit" /\ cycle'.route = cycle.route
    BY <1>8 DEF RoleStopped, controller, InWindow, Locations
  <2> QED
    BY <1>2, <2>1 DEF KeptInv, Undisturbed, Claiming, Committing
<1>9. CASE Disarm
  <2>1. /\ UNCHANGED <<handoff, request, stale>> /\ InWindow
        /\ pc' \in {"running", "disarm", "settle", "stamp", "verdict", "late_publish"}
        /\ pc' = "stamp" => pc = "commit" /\ cycle'.route = cycle.route
    BY <1>9 DEF Disarm, controller, InWindow, Locations
  <2> QED
    BY <1>2, <2>1 DEF KeptInv, Undisturbed, Claiming, Committing
<1>10. CASE Commit
  <2>1. /\ UNCHANGED <<handoff, request, stale>> /\ InWindow
        /\ pc' \in {"running", "disarm", "settle", "stamp", "verdict", "late_publish"}
        /\ pc' = "stamp" => pc = "commit" /\ cycle'.route = cycle.route
    BY <1>10 DEF Commit, Reads, controller, InWindow, Locations, ShapeInv, TypeOK, Cycles
  <2> QED
    BY <1>2, <2>1 DEF KeptInv, Undisturbed, Claiming, Committing
<1>11. CASE GateReads
  <2>1. /\ UNCHANGED <<handoff, request, stale>> /\ InWindow
        /\ pc' \in {"running", "disarm", "settle", "stamp", "verdict", "late_publish"}
        /\ pc' = "stamp" => pc = "commit" /\ cycle'.route = cycle.route
    BY <1>11 DEF GateReads, Reads, controller, InWindow, Locations
  <2> QED
    BY <1>2, <2>1 DEF KeptInv, Undisturbed, Claiming, Committing
<1>12. CASE Hush
  <2>1. /\ UNCHANGED <<handoff, request, stale>> /\ InWindow
        /\ pc' \in {"running", "disarm", "settle", "stamp", "verdict", "late_publish"}
        /\ pc' = "stamp" => pc = "commit" /\ cycle'.route = cycle.route
    BY <1>12 DEF Hush, controller, InWindow, Locations
  <2> QED
    BY <1>2, <2>1 DEF KeptInv, Undisturbed, Claiming, Committing
<1>13. CASE RoleWrites
  <2>1. UNCHANGED <<request, stale, pc, cycle>> /\ pc = "running" /\ handoff' \notin FromChat
    BY <1>13, PlainHandoff, ChatHandoffs DEF RoleWrites, controller
  <2> QED
    BY <1>3, <2>1 DEF KeptInv, InWindow, Undisturbed, Claiming, Committing
<1>14. CASE Settle
  <2>1. /\ UNCHANGED <<handoff, request, stale, cycle>> /\ InWindow
        /\ pc' = "inspect" /\ current' = NoMessage
    BY <1>14 DEF Settle, Idle, chat, queueVars, controller, InWindow, Locations
  <2> QED
    BY <1>2, <2>1 DEF KeptInv, Undisturbed, Claiming, Committing
<1>15. CASE Inspect
  <2>1. /\ UNCHANGED <<handoff, request, stale>> /\ InWindow
        /\ pc = "inspect" /\ pc' \in {"check", "decide"}
    BY <1>15 DEF Inspect, controller, InWindow, Locations
  <2> QED
    BY <1>0, <1>2, <2>1 DEF KeptInv, Undisturbed, Claiming, Committing
<1>16. CASE Check
  <2>1. /\ UNCHANGED <<handoff, request, stale, cycle>> /\ InWindow
        /\ pc = "check" /\ pc' \in {"claim", "decide"}
        /\ pc' = "claim" => handoff.text \in RoleTexts
    BY <1>16 DEF Check, RoleHandback, controller, InWindow, Locations
  <2>2. Kept' /\ Undisturbed' /\ Committing'
    BY <1>0, <1>2, <2>1 DEF KeptInv, Undisturbed, Committing
  <2>3. pc' = "claim" => handoff \notin FromChat
    BY <2>1, ChatHandoffs
  <2>4. Claiming'
    BY <1>0, <2>1, <2>3, FreshHandoffs DEF KeptInv, Undisturbed, Claiming, Fresh
  <2> QED
    BY <2>2, <2>4 DEF KeptInv
<1>17. CASE Claim
  <2>1. /\ UNCHANGED <<handoff, stale>> /\ pc = "claim" /\ pc' = "decide"
        /\ request.generation # cycle.inspected.generation => request' = request
    BY <1>17 DEF Claim
  <2>2. Kept'
    BY <1>0, <2>1 DEF KeptInv, Kept, Claiming, Fresh, InWindow, Locations
  <2> QED
    BY <2>1, <2>2 DEF KeptInv, Undisturbed, Claiming, Committing
<1>18. CASE Decide
  <2>1. /\ UNCHANGED <<handoff, request, stale>> /\ InWindow
        /\ pc' \in {"follow", "late"}
    BY <1>18 DEF Decide, controller, InWindow, Locations
  <2> QED
    BY <1>2, <2>1 DEF KeptInv, Undisturbed, Claiming, Committing
<1>19. CASE LateChecks
  <2>1. /\ UNCHANGED <<handoff, request, stale, cycle>> /\ InWindow
        /\ pc' \notin {"inspect", "check", "claim", "stamp"} /\ current' = NoMessage
        /\ pc' = "commit" => cycle.route = "implementer"
    BY <1>19 DEF LateChecks, LateCheck, AfterValidation, Idle, chat, queueVars, controller,
             InWindow, Locations, ShapeInv, TypeOK, Cycles, Routes
  <2> QED
    BY <1>2, <2>1 DEF KeptInv, Undisturbed, Claiming, Committing
<1>20. CASE Stamp
  <2>1. /\ UNCHANGED <<request, stale, cycle>> /\ InWindow
        /\ pc = "stamp" /\ pc' = "validate"
        /\ handoff' = handoff \/ handoff' \notin FromChat
    BY <1>20, MarkedHandoff, ChatHandoffs DEF Stamp, controller, InWindow, Locations, ShapeInv, HeldFits
  <2>2. Kept'
    BY <1>2, <1>3, <2>1
  <2> QED
    BY <2>1, <2>2 DEF KeptInv, Undisturbed, Claiming, Committing
<1>21. CASE Validate
  <2>1. /\ UNCHANGED <<handoff, request, stale>> /\ InWindow
        /\ pc' \in {"late_gate", "top", "pause"}
    BY <1>21 DEF Validate, controller, InWindow, Locations
  <2> QED
    BY <1>2, <2>1 DEF KeptInv, Undisturbed, Claiming, Committing
<1> QED
  BY <1>4, <1>5, <1>6, <1>7, <1>8, <1>9, <1>10, <1>11, <1>12, <1>13, <1>14,
     <1>15, <1>16, <1>17, <1>18, <1>19, <1>20, <1>21
     DEF Looping, LoopStep, BeforeReturn, AfterReturn, Stages, Following

(***************************************************************************)
(* What is published is the auditor's, and nobody is at it.                *)
(***************************************************************************)
LEMMA QuietChatting == ShapeInv /\ QuietInv /\ Chatting => QuietInv'
<1> SUFFICES ASSUME ShapeInv, QuietInv, Chatting PROVE QuietInv'
  OBVIOUS
<1>0. /\ UNCHANGED <<pc, cycle, capture>> /\ FromChat' = FromChat
      /\ Hushed'
  BY DEF Chatting, Answering, Submit, AnswerBegins, ChatWrites, AnswerOver, AnswerEnds,
         FromChat, QuietInv, Hushed
<1>1. pc # "publish"
  <2> SUFFICES ASSUME pc = "publish" PROVE FALSE
    OBVIOUS
  <2>1. Idle /\ ~capture
    BY DEF QuietInv, PublishedQuietly
  <2>2. seen = Unread
    BY <2>1 DEF Idle, ShapeInv, Answer
  <2> QED
    BY <2>1, <2>2 DEF Idle, Chatting, Answering, Submit, AnswerBegins, Begin, ChatWrites,
                      AnswerOver, AnswerEnds
<1>2. PublishedQuietly'
  BY <1>0, <1>1 DEF PublishedQuietly
<1> SUFFICES Vouched'
  BY <1>0, <1>2 DEF QuietInv
<1>3. ASSUME NEW m \in Messages, Submit(m) PROVE Vouched'
  BY <1>0, <1>3 DEF Submit, Accept, controller, QuietInv, Vouched
<1>4. CASE AnswerBegins
  <2>1. /\ current = NoMessage /\ before' = handoff /\ UNCHANGED <<handoff, request>>
    BY <1>4 DEF AnswerBegins, Begin, controller
  <2> QED
    BY <1>0, <2>1 DEF QuietInv, Vouched
<1>5. CASE ChatWrites
  <2>1. /\ current # NoMessage /\ handoff' \in FromChat /\ handoff'.text \notin RoleTexts
        /\ UNCHANGED <<current, before, request>>
    BY <1>5, ChatHandoffs DEF ChatWrites, chat, queueVars, controller, FromChat
  <2> QED
    BY <1>0, <2>1 DEF QuietInv, Vouched
<1>6. CASE AnswerOver
  BY <1>0, <1>6 DEF AnswerOver, queueVars, controller, QuietInv, Vouched
<1>7. CASE AnswerEnds
  <2>1. /\ current' = NoMessage /\ seen # Unread
        /\ handoff' = handoff
        /\ IF seen # before THEN request' = Requested ELSE request' = request
    BY <1>7 DEF AnswerEnds, End
  <2>2. handoff \in FromChat => handoff = seen
    BY <2>1 DEF ShapeInv, Answer
  <2>3. (seen # before => request'.on) /\ (request.on => request'.on)
    BY <2>1, NewRequest DEF ShapeInv, TypeOK
  <2> QED
    BY <1>0, <2>1, <2>2, <2>3 DEF QuietInv, Vouched
<1> QED
  BY <1>3, <1>4, <1>5, <1>6, <1>7 DEF Chatting, Answering

LEMMA QuietLooping == ShapeInv /\ KeptInv /\ QuietInv /\ Looping => QuietInv'
<1> SUFFICES ASSUME ShapeInv, KeptInv, QuietInv, Looping PROVE QuietInv'
  OBVIOUS
<1>0. UNCHANGED <<current, line, before, seen>> /\ FromChat' = FromChat
  BY LoopingAnswersNothing DEF chat, queueVars, FromChat
<1> USE DEF Step
<1>1. ASSUME pc' \notin {"late_gate", "hush", "late_publish", "publish"} PROVE QuietInv'
  BY <1>1 DEF QuietInv, Vouched, Hushed, PublishedQuietly
<1>2. CASE Validate
  <2>1. SUFFICES ASSUME pc' = "late_gate" PROVE QuietInv'
    BY <1>1, <1>2 DEF Validate
  <2>2. /\ pc = "validate" /\ UNCHANGED <<handoff, request, cycle>>
        /\ cycle.route = "auditor" => handoff.text \in RoleTexts
    BY <1>2, <2>1 DEF Validate, Validated, Acceptable, controller
  <2>3. cycle.route = "auditor" /\ current # NoMessage => before = handoff
    BY <2>2, ChatHandoffs DEF KeptInv, Undisturbed
  <2>4. Vouched'
    BY <1>0, <2>2, <2>3 DEF Vouched
  <2> QED
    BY <2>1, <2>4 DEF QuietInv, Hushed, PublishedQuietly
<1>3. CASE LateChecks
  <2>1. /\ UNCHANGED <<handoff, request, cycle, capture>> /\ Idle /\ Idle'
        /\ pc' \in {"hush", "late_gate", "late_publish"} =>
             pc = "late_gate" /\ pc' = "hush" /\ cycle.route = "auditor"
        /\ pc' = "publish" => pc = "late_publish" /\ ~request.on
    BY <1>0, <1>3 DEF LateChecks, LateCheck, AfterValidation, controller, Idle,
                      ShapeInv, TypeOK, Cycles, Routes
  <2>2. Vouched'
    BY <1>0, <2>1 DEF QuietInv, Vouched
  <2>3. Hushed'
    BY <2>1 DEF QuietInv, Hushed
  <2>4. PublishedQuietly'
    BY <2>1 DEF QuietInv, Vouched, Hushed, PublishedQuietly, Idle
  <2> QED
    BY <2>2, <2>3, <2>4 DEF QuietInv
<1>4. CASE Hush
  <2>1. /\ UNCHANGED <<handoff, request, cycle>> /\ ~capture'
        /\ pc = "hush" /\ pc' = "late_publish"
    BY <1>4 DEF Hush, controller
  <2> QED
    BY <1>0, <2>1 DEF QuietInv, Vouched, Hushed, PublishedQuietly
<1>5. ASSUME ~Validate, ~LateChecks, ~Hush
      PROVE pc' \notin {"late_gate", "hush", "late_publish", "publish"}
  <2>1. CASE BeforeReturn \/ AfterReturn \/ Following
    BY <2>1 DEF BeforeReturn, AfterReturn, Following, LoopTop, ReadHandoff, SetRole,
         ClearStale, Arm, Disarm, Settle, Inspect, Check, Claim, Decide, EndsEarly,
         Follow, Forget, ProtectedFileChanged, Compare, Judge, Pause
  <2>2. CASE Stages
    BY <1>5, <2>2 DEF Stages, Commit, Stamp, GateReads, Reads, GateWrites, Publish
  <2>3. CASE RoleWrites \/ RoleReturns \/ RoleStopped \/ PauseEnds
    BY <2>3 DEF RoleWrites, RoleReturns, RoleStopped, PauseEnds
  <2> QED
    BY <2>1, <2>2, <2>3 DEF Looping, LoopStep
<1> QED
  BY <1>1, <1>2, <1>3, <1>4, <1>5

(***************************************************************************)
(* What is followed is what was asked for.                                 *)
(***************************************************************************)
LEMMA FollowChatting == ShapeInv /\ FollowInv /\ Chatting => FollowInv'
<1> SUFFICES ASSUME ShapeInv, FollowInv, Chatting PROVE FollowInv'
  OBVIOUS
<1>0. UNCHANGED <<pc, cycle, stale>> /\ FromChat' = FromChat
  BY DEF Chatting, Answering, Submit, AnswerBegins, ChatWrites, AnswerOver, AnswerEnds,
         FromChat
<1> USE DEF FollowInv
<1>1. ASSUME NEW m \in Messages, Submit(m) PROVE FollowInv'
  BY <1>0, <1>1 DEF Submit, Accept, controller, Settled, Judging
<1>2. CASE AnswerBegins
  <2>1. /\ current = NoMessage /\ current' # NoMessage
        /\ before' = handoff /\ UNCHANGED <<handoff, seen, request>>
    BY <1>2, QueueTypes DEF AnswerBegins, Begin, controller, ShapeInv, TypeOK
  <2>2. Settled'
    BY <1>0, <2>1 DEF Settled
  <2>3. Judging'
    BY <1>0, <2>1 DEF Judging
  <2> QED
    BY <2>2, <2>3
<1>3. CASE ChatWrites
  <2>1. /\ current # NoMessage /\ seen = Unread /\ handoff' \in FromChat
        /\ UNCHANGED <<current, before, seen, request>>
    BY <1>3 DEF ChatWrites, chat, queueVars, controller, FromChat
  <2>2. Settled'
    BY <1>0, <2>1 DEF Settled
  <2>3. Judging'
    BY <1>0, <2>1 DEF Judging
  <2> QED
    BY <2>2, <2>3
<1>4. CASE AnswerOver
  <2>1. seen' = handoff /\ UNCHANGED <<current, handoff, before, request>>
    BY <1>4 DEF AnswerOver, queueVars, controller
  <2> QED
    BY <1>0, <2>1 DEF Settled, Judging
<1>5. CASE AnswerEnds
  <2>1. /\ current # NoMessage /\ current' = NoMessage /\ seen # Unread /\ seen' = Unread
        /\ handoff' = handoff
        /\ IF seen # before THEN request' = Requested ELSE request' = request
    BY <1>5 DEF AnswerEnds, End
  <2>2. (seen # before => request'.on) /\ (request.on => request'.on)
    BY <2>1, NewRequest DEF ShapeInv, TypeOK
  <2>3. pc = "judge" => handoff = seen
    BY <2>1 DEF Settled
  <2>4. Settled'
    BY <2>1 DEF Settled
  <2>5. Judging'
    BY <1>0, <2>1, <2>2, <2>3 DEF Judging
  <2> QED
    BY <2>4, <2>5
<1> QED
  BY <1>1, <1>2, <1>3, <1>4, <1>5 DEF Chatting, Answering

LEMMA FollowLooping == ShapeInv /\ FollowInv /\ Looping => FollowInv'
<1> SUFFICES ASSUME ShapeInv, FollowInv, Looping PROVE FollowInv'
  OBVIOUS
<1>0. UNCHANGED <<current, line, before, seen>> /\ FromChat' = FromChat
  BY LoopingAnswersNothing DEF chat, queueVars, FromChat
<1> DEFINE InHand == {"inspect", "check", "claim", "decide", "follow", "forget",
                      "compare", "judge"}
<1> USE DEF FollowInv, Step
<1>1. ASSUME pc' \notin InHand PROVE FollowInv'
  BY <1>1 DEF Settled, Judging
<1>2. CASE Inspect \/ Check \/ Claim \/ Decide \/ Follow \/ Forget
  <2>1. handoff' = handoff /\ pc \in InHand /\ pc' # "judge"
    BY <1>2 DEF Inspect, Check, Claim, Decide, Follow, Forget
  <2> QED
    BY <1>0, <2>1 DEF Settled, Judging
<1>3. CASE Settle \/ LateChecks
  <2>1. current = NoMessage /\ pc' # "judge"
    BY <1>3 DEF Settle, LateChecks, LateCheck, AfterValidation, Idle, ShapeInv,
                TypeOK, Cycles, Routes
  <2>2. seen' = Unread
    BY <1>0, <2>1 DEF ShapeInv, Answer
  <2> QED
    BY <2>1, <2>2 DEF Settled, Judging
<1>4. CASE Compare
  <2>1. /\ UNCHANGED <<handoff, request, cycle>> /\ pc = "compare"
        /\ pc' = "judge" => handoff = cycle.held
        /\ before.text \in stale'
    BY <1>4 DEF Compare, controller
  <2> QED
    BY <1>0, <2>1 DEF Settled, Judging
<1>5. ASSUME ~(Inspect \/ Check \/ Claim \/ Decide \/ Follow \/ Forget),
             ~(Settle \/ LateChecks), ~Compare
      PROVE  pc' \notin InHand
  <2>1. CASE BeforeReturn \/ AfterReturn \/ Following
    BY <1>5, <2>1 DEF BeforeReturn, AfterReturn, Following, LoopTop, ReadHandoff, SetRole,
         ClearStale, Arm, Disarm, EndsEarly, ProtectedFileChanged, Judge, Pause
  <2>2. CASE Stages
    BY <1>5, <2>2 DEF Stages, Commit, Stamp, Validate, GateReads, Reads, GateWrites,
                      Hush, Publish
  <2>3. CASE RoleWrites \/ RoleReturns \/ RoleStopped \/ PauseEnds
    BY <2>3 DEF RoleWrites, RoleReturns, RoleStopped, PauseEnds
  <2> QED
    BY <2>1, <2>2, <2>3 DEF Looping, LoopStep
<1> QED
  BY <1>1, <1>2, <1>3, <1>4, <1>5

(***************************************************************************)
(* The theorems.                                                           *)
(***************************************************************************)
LEMMA StutterKeepsInv == TakeoverInv /\ UNCHANGED vars => TakeoverInv'
  BY DEF vars, chat, queueVars, controller, TakeoverInv, ShapeInv, TypeOK, QueueTypeOK,
         HeldFits, Answer, Generations, FromChat, KeptInv, Kept, Fresh, InWindow,
         Undisturbed, Claiming, Committing, QuietInv, Vouched, Hushed,
         PublishedQuietly, Idle, FollowInv, Settled, Judging

LEMMA TakeoverInductive == Spec => []TakeoverInv
<1>1. Init => TakeoverInv
  <2> SUFFICES ASSUME Init PROVE TakeoverInv
    OBVIOUS
  <2>1. pc = "top"
    BY DEF Init
  <2>2. KeptInv /\ QuietInv /\ FollowInv
    BY <2>1 DEF KeptInv, Kept, InWindow, Undisturbed, Claiming, Committing, QuietInv,
         Vouched, Hushed, PublishedQuietly, FollowInv, Settled, Judging
  <2> QED
    BY <2>2, ShapeInit DEF TakeoverInv
<1>2. TakeoverInv /\ [Next]_vars => TakeoverInv'
  <2>1. Next => Chatting \/ Looping
    BY DEF Next, Looping
  <2> QED
    BY <2>1, ShapeChatting, ShapeLooping, KeptChatting, KeptLooping, QuietChatting,
       QuietLooping, FollowChatting, FollowLooping, StutterKeepsInv DEF TakeoverInv
<1> QED
  BY <1>1, <1>2, PTL DEF Spec

(* Every variable keeps its type, whatever the order of answers and loop; what  *)
(* is written back to HANDOFF.md was read from it.                              *)
THEOREM TakeoverTyped == Spec => []TypeOK
<1>1. TakeoverInv => TypeOK
  BY DEF TakeoverInv, ShapeInv
<1> QED
  BY <1>1, TakeoverInductive, PTL

(* No chat's rewrite is forgotten while its cycle lasts: not by the claim of    *)
(* the role's own handback (clear_takeover_if), not by a request that an answer *)
(* in between leaves alone.                                                     *)
THEOREM RewritesAreRemembered == Spec => []NoRewriteForgotten
<1>1. TakeoverInv => NoRewriteForgotten
  <2> SUFFICES ASSUME TakeoverInv, InWindow, handoff \in Fresh
               PROVE  \/ request.on
                      \/ current # NoMessage
                         /\ before # (IF seen = Unread THEN handoff ELSE seen)
    BY DEF NoRewriteForgotten, Fresh
  <2>1. seen # Unread => handoff = seen
    BY FreshHandoffs DEF TakeoverInv, ShapeInv, Answer
  <2>2. request.on \/ (current # NoMessage /\ before # handoff)
    BY DEF TakeoverInv, KeptInv, Kept
  <2> QED
    BY <2>1, <2>2
<1> QED
  BY <1>1, TakeoverInductive, PTL

(* What reaches publish is a text of the role's, with no answer running or      *)
(* waiting, none accepted any more, and no takeover pending.                    *)
THEOREM PublishingIsQuiet == Spec => []PublishedQuietly
<1>1. TakeoverInv => PublishedQuietly
  BY DEF TakeoverInv, QuietInv
<1> QED
  BY <1>1, TakeoverInductive, PTL

(* A chat's handoff is followed only if it is what the kept request named, if   *)
(* an answer that ran across the comparison put back what it had found, or if   *)
(* another answer or request is at it.                                          *)
THEOREM FollowingIsAsRequested == Spec => FollowedAsRequested
<1>1. TakeoverInv /\ [Next]_vars =>
        [ pc = "judge" /\ pc' = "top" =>
            \/ handoff \in {cycle.held} \cup {Plain(t) : t \in stale}
            \/ ~Idle \/ request.on ]_vars
  <2> SUFFICES ASSUME TakeoverInv, pc = "judge", Idle, ~request.on
               PROVE  handoff \in {cycle.held} \cup {Plain(t) : t \in stale}
    OBVIOUS
  <2>1. /\ handoff = cycle.held \/ handoff \in FromChat
        /\ handoff = cycle.held \/ handoff.text \in stale
    BY DEF TakeoverInv, FollowInv, Judging, Idle
  <2>2. handoff \in FromChat => handoff = Plain(handoff.text)
    BY ChatHandoffs
  <2> QED
    BY <2>1, <2>2
<1> QED
  BY <1>1, TakeoverInductive, PTL DEF Spec, FollowedAsRequested
===============================================================================
