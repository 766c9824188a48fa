--------------------------- MODULE ChatAnswersProofs ---------------------------
(* ChatAnswers, for any number of messages, worker threads and callers of       *)
(* stop(): one answer at a time, no message left unattended, and the safety of  *)
(* AnswerQueue's promise.                                                       *)
EXTENDS ChatAnswers, SequenceTheorems, TLAPS

(* A thread that has begun and not given up ownership is the owner.             *)
Owned ==
    /\ \A w \in Workers : pc[w] \in Live => thread = w
    /\ thread # NoWorker => pc[thread] \in Live

(* What a thread's state says about its stop event and the counter.             *)
ThreadsOK ==
    /\ active = IF thread # NoWorker /\ pc[thread] = "answering" THEN 1 ELSE 0
    /\ \A w \in Workers :
          /\ pc[w] = "answering" => holding[w] \in Messages
          /\ w \in stopped => pc[w] \notin {"unborn", "asleep"}
          /\ pc[w] = "exiting" => w \in stopped

(* Stopping empties the queue, sleeping needs an empty one, and only the owner  *)
(* empties it by answering.                                                     *)
QueueOK ==
    /\ thread # NoWorker /\ (thread \in stopped \/ pc[thread] = "asleep") => queue = <<>>
    /\ thread = NoWorker => queue = <<>>

(* A message counted as waiting is in the queue.                                *)
WaitingIsQueued ==
    \A m \in Messages : fate[m] = "waiting" => \E i \in 1 .. Len(queue) : queue[i] = m

Inv == TypeOK /\ Owned /\ ThreadsOK /\ QueueOK /\ WaitingIsQueued

--------------------------------------------------------------------------------
LEMMA AppendFacts ==
    ASSUME NEW q \in Seq(Messages), NEW m \in Messages
    PROVE  /\ Append(q, m) \in Seq(Messages) /\ Append(q, m) # <<>>
           /\ Len(q) \in Nat
           /\ Len(Append(q, m)) = Len(q) + 1
           /\ Append(q, m)[Len(q) + 1] = m
           /\ \A i \in 1 .. Len(q) : Append(q, m)[i] = q[i]
  BY AppendProperties, LenProperties, EmptySeq

LEMMA HeadFacts ==
    ASSUME NEW q \in Seq(Messages), q # <<>>
    PROVE  /\ Head(q) \in Messages /\ Head(q) = q[1]
           /\ Tail(q) \in Seq(Messages)
           /\ Len(q) \in Nat \ {0} /\ Len(Tail(q)) = Len(q) - 1
           /\ \A i \in 1 .. Len(q) - 1 : Tail(q)[i] = q[i + 1]
  BY HeadTailProperties, EmptySeq

LEMMA InitInv == Init => Inv
<1> SUFFICES ASSUME Init PROVE Inv
  OBVIOUS
<1>1. TypeOK
  BY NamesAssumption DEF Init, TypeOK, Live, Fates
<1>2. Owned /\ ThreadsOK /\ QueueOK /\ WaitingIsQueued
  BY DEF Init, Owned, ThreadsOK, QueueOK, WaitingIsQueued, Live
<1> QED BY <1>1, <1>2 DEF Inv

(* Waking the sleepers keeps everybody who was alive alive.                     *)
LEMMA NotifiedFacts ==
    ASSUME TypeOK
    PROVE  /\ Notified \in [Workers -> Live \cup {"unborn", "released", "dead"}]
           /\ \A w \in Workers :
                 /\ Notified[w] # "asleep"
                 /\ pc[w] # "asleep" => Notified[w] = pc[w]
                 /\ pc[w] = "asleep" => Notified[w] = "checking"
  BY DEF TypeOK, Notified, Live

--------------------------------------------------------------------------------
(* submit()                                                                     *)
LEMMA EnqueueStep ==
    ASSUME Inv, NEW m \in Messages, Enqueue(m)
    PROVE  Inv'
<1> USE DEF Inv
<1>1. /\ pc' \in [Workers -> Live \cup {"unborn", "released", "dead"}]
      /\ thread' \in Workers
      /\ \A w \in Workers \ {thread'} : pc'[w] = Notified[w]
      /\ thread # NoWorker => thread' = thread /\ pc' = Notified
      /\ thread = NoWorker => pc[thread'] = "unborn" /\ pc'[thread'] = "checking"
  BY NotifiedFacts DEF Enqueue, EnsureThread, TypeOK, Live
<1>2. Owned'
  BY <1>1, NotifiedFacts, NamesAssumption DEF Owned, TypeOK, Live
<1>3. thread' \notin stopped
  BY <1>1 DEF Enqueue, Stopping, ThreadsOK
<1>4. ThreadsOK'
  BY <1>1, <1>3, NotifiedFacts, NamesAssumption
     DEF ThreadsOK, Enqueue, TypeOK, Owned, Live
<1>5. TypeOK'
  BY <1>1, AppendFacts DEF Enqueue, TypeOK, Fates
<1>6. QueueOK'
  BY <1>1, <1>3, NotifiedFacts, NamesAssumption DEF QueueOK, Enqueue, TypeOK
<1>7. WaitingIsQueued'
  <2> SUFFICES ASSUME NEW n \in Messages, fate'[n] = "waiting"
               PROVE  \E i \in 1 .. Len(queue') : queue'[i] = n
    BY DEF WaitingIsQueued
  <2>1. queue \in Seq(Messages) /\ queue' = Append(queue, m)
    BY DEF Enqueue, TypeOK
  <2>2. CASE n = m
    BY <2>1, <2>2, AppendFacts
  <2>3. CASE n # m
    <3>1. fate[n] = "waiting"
      BY <2>3 DEF Enqueue, TypeOK
    <3>2. PICK i \in 1 .. Len(queue) : queue[i] = n
      BY <3>1 DEF WaitingIsQueued
    <3> QED BY <3>2, <2>1, AppendFacts
  <2> QED BY <2>2, <2>3
<1> QED BY <1>2, <1>4, <1>5, <1>6, <1>7

LEMMA RefuseStep ==
    ASSUME Inv, NEW m \in Messages, Refuse(m)
    PROVE  Inv'
<1>1. TypeOK' /\ WaitingIsQueued'
  BY DEF Inv, Refuse, TypeOK, WaitingIsQueued, Fates
<1>2. Owned' /\ ThreadsOK' /\ QueueOK'
  BY DEF Inv, Refuse, Owned, ThreadsOK, QueueOK
<1> QED BY <1>1, <1>2 DEF Inv

--------------------------------------------------------------------------------
(* stop()                                                                       *)
LEMMA StopStep ==
    ASSUME Inv, NEW s \in Stoppers, Stop(s) \/ StopReturns(s)
    PROVE  Inv'
<1> USE DEF Inv
<1>1. CASE StopReturns(s)
  <2>1. TypeOK'
    BY <1>1 DEF StopReturns, TypeOK
  <2>2. Owned' /\ ThreadsOK' /\ QueueOK' /\ WaitingIsQueued'
    BY <1>1 DEF StopReturns, Owned, ThreadsOK, QueueOK, WaitingIsQueued
  <2> QED BY <2>1, <2>2
<1>2. CASE Stop(s) /\ Stopping
  <2>1. TypeOK'
    BY <1>2 DEF Stop, TypeOK
  <2>2. Owned' /\ ThreadsOK' /\ QueueOK' /\ WaitingIsQueued'
    BY <1>2 DEF Stop, Owned, ThreadsOK, QueueOK, WaitingIsQueued
  <2> QED BY <2>1, <2>2
<1>3. CASE Stop(s) /\ ~Stopping
  <2>1. /\ queue' = <<>> /\ pc' = Notified /\ stopped' = stopped \cup {thread}
        /\ thread \in Workers
        /\ UNCHANGED <<active, thread, holding>>
    BY <1>3 DEF Stop, TypeOK
  <2>2. TypeOK'
    BY <1>3, <2>1, NotifiedFacts, EmptySeq DEF Stop, TypeOK, Fates
  <2>3. Owned'
    BY <2>1, NotifiedFacts DEF Owned, Live
  <2>4. ThreadsOK'
    BY <2>1, NotifiedFacts, NamesAssumption DEF ThreadsOK, Owned, Live, TypeOK
  <2>5. QueueOK'
    BY <2>1 DEF QueueOK
  <2>6. WaitingIsQueued'
    BY <1>3 DEF Stop, WaitingIsQueued, TypeOK
  <2> QED BY <2>2, <2>3, <2>4, <2>5, <2>6
<1> QED BY <1>1, <1>2, <1>3

--------------------------------------------------------------------------------
(* The worker thread.                                                           *)
LEMMA TakeStep ==
    ASSUME Inv, NEW w \in Workers, Take(w)
    PROVE  Inv'
<1> USE DEF Inv
<1>1. /\ thread = w /\ w # NoWorker /\ active = 0
      /\ queue \in Seq(Messages) /\ queue # <<>> /\ queue' = Tail(queue)
      /\ Head(queue) \in Messages
  BY HeadFacts, NamesAssumption DEF Take, Owned, ThreadsOK, TypeOK, Live
<1>2. TypeOK'
  BY <1>1, HeadFacts DEF Take, TypeOK, Live, Fates
<1>3. Owned' /\ ThreadsOK' /\ QueueOK'
  BY <1>1 DEF Take, Owned, ThreadsOK, QueueOK, TypeOK, Live
<1>4. WaitingIsQueued'
  <2> SUFFICES ASSUME NEW n \in Messages, fate'[n] = "waiting"
               PROVE  \E i \in 1 .. Len(queue') : queue'[i] = n
    BY DEF WaitingIsQueued
  <2>1. n # queue[1] /\ fate[n] = "waiting"
    BY <1>1, HeadFacts DEF Take, TypeOK
  <2>2. PICK i \in 1 .. Len(queue) : queue[i] = n
    BY <2>1 DEF WaitingIsQueued
  <2>3. i - 1 \in 1 .. Len(Tail(queue)) /\ Tail(queue)[i - 1] = n
    BY <1>1, <2>1, <2>2, HeadFacts
  <2> QED BY <1>1, <2>3
<1> QED BY <1>2, <1>3, <1>4

LEMMA FinishStep ==
    ASSUME Inv, NEW w \in Workers, Finish(w)
    PROVE  Inv'
<1> USE DEF Inv
<1>1. /\ thread = w /\ w # NoWorker /\ active = 1 /\ active' = 0
      /\ pc' = [Notified EXCEPT ![w] = "checking"]
      /\ UNCHANGED <<queue, thread, stopped, holding, joining>>
  BY NamesAssumption DEF Finish, Owned, ThreadsOK, TypeOK, Live
<1>2. /\ pc[w] = "answering" /\ pc'[w] = "checking"
      /\ holding[w] \in Messages /\ fate' = [fate EXCEPT ![holding[w]] = "answered"]
  <2>1. pc'[w] = "checking"
    BY <1>1, NotifiedFacts
  <2>2. pc[w] = "answering" /\ fate' = [fate EXCEPT ![holding[w]] = "answered"]
    BY DEF Finish
  <2> QED BY <2>1, <2>2 DEF ThreadsOK
<1>3. TypeOK'
  <2>1. pc' \in [Workers -> Live \cup {"unborn", "released", "dead"}]
    BY <1>1, NotifiedFacts DEF Live
  <2>2. fate' \in [Messages -> Fates]
    BY <1>2 DEF TypeOK, Fates
  <2> QED BY <1>1, <2>1, <2>2 DEF TypeOK
<1>4. Owned' /\ ThreadsOK'
  BY <1>1, NotifiedFacts DEF Finish, Owned, ThreadsOK, TypeOK, Live
<1>5. QueueOK'
  BY <1>1, <1>2 DEF QueueOK
<1>6. WaitingIsQueued'
  <2>1. \A n \in Messages : fate'[n] = "waiting" => fate[n] = "waiting"
    BY <1>2 DEF TypeOK
  <2> QED BY <1>1, <2>1 DEF WaitingIsQueued
<1> QED BY <1>3, <1>4, <1>5, <1>6

LEMMA ReleaseStep ==
    ASSUME Inv, NEW w \in Workers, Release(w)
    PROVE  Inv'
<1> USE DEF Inv
<1>1. /\ thread = w /\ w # NoWorker /\ w \in stopped /\ queue = <<>> /\ active = 0
      /\ thread' = NoWorker /\ pc' = [Notified EXCEPT ![w] = "released"]
      /\ UNCHANGED <<queue, active, stopped, holding, joining, fate>>
  BY NamesAssumption DEF Release, Owned, ThreadsOK, QueueOK, TypeOK, Live
<1>2. TypeOK'
  BY <1>1, NotifiedFacts DEF TypeOK, Live
<1>3. Owned' /\ ThreadsOK' /\ QueueOK'
  BY <1>1, NotifiedFacts DEF Owned, ThreadsOK, QueueOK, TypeOK, Live
<1>4. WaitingIsQueued'
  BY <1>1 DEF WaitingIsQueued
<1> QED BY <1>2, <1>3, <1>4

LEMMA WorkerStep ==
    ASSUME Inv, NEW w \in Workers, Worker(w)
    PROVE  Inv'
<1>1. CASE Sleep(w)
  BY <1>1, NamesAssumption
     DEF Inv, Sleep, TypeOK, Owned, ThreadsOK, QueueOK, WaitingIsQueued, Live
<1>2. CASE Leave(w)
  BY <1>2, NamesAssumption
     DEF Inv, Leave, TypeOK, Owned, ThreadsOK, QueueOK, WaitingIsQueued, Live
<1>3. CASE Die(w)
  BY <1>3, NamesAssumption
     DEF Inv, Die, TypeOK, Owned, ThreadsOK, QueueOK, WaitingIsQueued, Live
<1> QED BY <1>1, <1>2, <1>3, TakeStep, FinishStep, ReleaseStep DEF Worker

LEMMA InvStep == Inv /\ [Next]_vars => Inv'
<1> SUFFICES ASSUME Inv, [Next]_vars PROVE Inv'
  OBVIOUS
<1>1. CASE UNCHANGED vars
  BY <1>1 DEF vars, Inv, TypeOK, Owned, ThreadsOK, QueueOK, WaitingIsQueued
<1>2. CASE Next
  BY <1>2, EnqueueStep, RefuseStep, StopStep, WorkerStep DEF Next
<1> QED BY <1>1, <1>2

LEMMA Invariance == Spec => []Inv
  BY InitInv, InvStep, PTL DEF Spec

--------------------------------------------------------------------------------
(* No two answers ever run at once, whatever stop() and submit() race with the  *)
(* thread that is leaving: ownership is given up after the last answer.         *)
THEOREM OneAnswer == Spec => []OneAnswerAtATime
<1>1. Inv => OneAnswerAtATime
  BY DEF Inv, Owned, OneAnswerAtATime, Live
<1> QED BY <1>1, Invariance, PTL

(* A queued message always has a thread that will come to it.                   *)
THEOREM Attended == Spec => []QueueAttended
<1>1. Inv => QueueAttended
  BY DEF Inv, TypeOK, Owned, ThreadsOK, QueueOK, QueueAttended, Live
<1> QED BY <1>1, Invariance, PTL

THEOREM TypesCorrect == Spec => []TypeOK
<1>1. Inv => TypeOK
  BY DEF Inv
<1> QED BY <1>1, Invariance, PTL

--------------------------------------------------------------------------------
(* Every step of the worker is a step of AnswerQueue or none that it can see.   *)
LEMMA CurrentFacts ==
    ASSUME Inv
    PROVE  /\ \A w \in Workers : pc[w] = "answering" =>
                 thread = w /\ Current = holding[w] /\ Current # NoMessage
           /\ (\A w \in Workers : pc[w] # "answering") => Current = NoMessage
  BY NamesAssumption DEF Inv, TypeOK, Owned, ThreadsOK, Current, Live

(* Who answers what changes only when a thread takes a message or is done.      *)
LEMMA CurrentKept ==
    ASSUME Inv, Inv', UNCHANGED holding,
           \A w \in Workers : (pc'[w] = "answering") <=> (pc[w] = "answering")
    PROVE  UNCHANGED Current
<1>1. CASE \E w \in Workers : pc[w] = "answering"
  <2>1. PICK w \in Workers : pc[w] = "answering"
    BY <1>1
  <2>2. Current = holding[w]
    BY <2>1, CurrentFacts
  <2>3. pc'[w] = "answering" /\ thread' = w
    BY <2>1 DEF Inv, Owned, Live
  <2>4. Current' = holding'[w]
    BY <2>3, NamesAssumption DEF Current
  <2> QED BY <2>2, <2>4
<1>2. CASE \A w \in Workers : pc[w] # "answering"
  <2>1. Current = NoMessage
    BY <1>2, CurrentFacts
  <2>2. Current' = NoMessage
    BY <1>2 DEF Inv, TypeOK, Current
  <2> QED BY <2>1, <2>2
<1> QED BY <1>1, <1>2

LEMMA SubmitRefines ==
    ASSUME Inv, Inv', NEW m \in Messages, Enqueue(m) \/ Refuse(m)
    PROVE  Promise!Accept(m) \/ Promise!Refuse(m)
<1>1. CASE Enqueue(m)
  <2>1. \A w \in Workers : (pc'[w] = "answering") <=> (pc[w] = "answering")
    BY <1>1, NotifiedFacts DEF Inv, Enqueue, EnsureThread
  <2>2. UNCHANGED Current
    BY <1>1, <2>1, CurrentKept DEF Enqueue
  <2> QED BY <1>1, <2>2 DEF Enqueue, Promise!Accept
<1>2. CASE Refuse(m)
  <2>1. UNCHANGED Current
    BY <1>2, CurrentKept DEF Refuse
  <2> QED BY <1>2, <2>1 DEF Refuse, Promise!Refuse
<1> QED BY <1>1, <1>2

LEMMA StopRefines ==
    ASSUME Inv, Inv', NEW s \in Stoppers, Stop(s) \/ StopReturns(s)
    PROVE  Promise!Drop \/ UNCHANGED Promise!queueVars
<1>1. \A w \in Workers : (pc'[w] = "answering") <=> (pc[w] = "answering")
  BY NotifiedFacts DEF Inv, Stop, StopReturns
<1>2. UNCHANGED Current
  BY <1>1, CurrentKept DEF Stop, StopReturns
<1>3. CASE UNCHANGED <<queue, fate>>
  BY <1>2, <1>3 DEF Promise!queueVars
<1>4. CASE /\ queue' = <<>>
           /\ fate' = [m \in Messages |->
                          IF fate[m] = "waiting" THEN "dropped" ELSE fate[m]]
  <2>1. CASE queue # <<>>
    BY <1>2, <1>4, <2>1 DEF Promise!Drop
  <2>2. CASE queue = <<>>
    <3>1. \A m \in Messages : fate[m] # "waiting"
      BY <2>2, EmptySeq DEF Inv, WaitingIsQueued
    <3>2. fate' = fate
      BY <1>4, <3>1 DEF Inv, TypeOK
    <3> QED BY <1>2, <1>4, <2>2, <3>2 DEF Promise!queueVars
  <2> QED BY <2>1, <2>2
<1> QED BY <1>3, <1>4 DEF Stop, StopReturns

LEMMA WorkerRefines ==
    ASSUME Inv, Inv', NEW w \in Workers, Worker(w)
    PROVE  Promise!Begin \/ Promise!End \/ UNCHANGED Promise!queueVars
<1>1. CASE Take(w)
  <2>1. Current = NoMessage
    BY <1>1, CurrentFacts DEF Inv, Take, Owned, Live
  <2>2. pc'[w] = "answering" /\ holding'[w] = Head(queue)
    BY <1>1 DEF Inv, TypeOK, Take
  <2>3. Current' = Head(queue)
    BY <2>2, NamesAssumption DEF Inv, Owned, Current, Live
  <2> QED BY <1>1, <2>1, <2>3 DEF Take, Promise!Begin
<1>2. CASE Finish(w)
  <2>1. Current = holding[w] /\ Current # NoMessage
    BY <1>2, CurrentFacts DEF Finish
  <2>2. thread' = w /\ pc'[w] = "checking"
    BY <1>2, NotifiedFacts DEF Inv, Owned, Finish, Live
  <2>3. Current' = NoMessage
    BY <2>2 DEF Current
  <2> QED BY <1>2, <2>1, <2>3 DEF Finish, Promise!End
<1>3. CASE Sleep(w) \/ Leave(w) \/ Release(w) \/ Die(w)
  <2>1. \A v \in Workers : (pc'[v] = "answering") <=> (pc[v] = "answering")
    BY <1>3, NotifiedFacts DEF Inv, TypeOK, Sleep, Leave, Release, Die
  <2>2. UNCHANGED Current
    BY <1>3, <2>1, CurrentKept DEF Sleep, Leave, Release, Die
  <2> QED BY <1>3, <2>2 DEF Sleep, Leave, Release, Die, Promise!queueVars
<1> QED BY <1>1, <1>2, <1>3 DEF Worker

(* The threads, their condition variable and stop() implement the queue that    *)
(* AnswerQueue promises: every message is accepted or refused once, answered in *)
(* order and alone, or dropped with the others that wait.                       *)
THEOREM PromiseKept == Spec => Promise!QueueSpec
<1>1. Init => Promise!QueueInit
  BY DEF Init, Promise!QueueInit, Current
<1>2. Inv /\ Inv' /\ [Next]_vars => [Promise!QueueNext]_(Promise!queueVars)
  <2> SUFFICES ASSUME Inv, Inv', [Next]_vars
               PROVE  Promise!QueueNext \/ UNCHANGED Promise!queueVars
    OBVIOUS
  <2>1. CASE UNCHANGED vars
    BY <2>1 DEF vars, Promise!queueVars, Current
  <2>2. CASE Next
    BY <2>2, SubmitRefines, StopRefines, WorkerRefines DEF Next, Promise!QueueNext
  <2> QED BY <2>1, <2>2
<1> QED BY <1>1, <1>2, Invariance, PTL DEF Spec, Promise!QueueSpec
================================================================================
