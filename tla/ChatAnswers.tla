------------------------------ MODULE ChatAnswers ------------------------------
(* llm_handoff/chat_answers.py: ChatAnswerWorker. The capture thread submits,   *)
(* a daemon thread that is started on demand answers, and stop() waits for it;  *)
(* all three share one condition variable. Each action below is one critical    *)
(* section of it, or the answer between two of them.                            *)
EXTENDS Integers, Sequences, FiniteSets

CONSTANTS
    Messages, NoMessage,
    Workers,        \* bound: the threads ever started
    NoWorker,
    Stoppers        \* callers of stop()

ASSUME NamesAssumption == NoMessage \notin Messages /\ NoWorker \notin Workers

VARIABLES
    queue,          \* self._queue
    active,         \* self._active
    thread,         \* self._thread; its event is self._stop_event
    stopped,        \* the threads whose stop event is set
    pc,             \* where each worker thread is
    holding,        \* the message each worker thread last took
    joining,        \* the thread each caller of stop() waits for, or NoWorker
    fate            \* history: what has become of each message

vars == <<queue, active, thread, stopped, pc, holding, joining, fate>>

Live == {"checking", "asleep", "answering", "exiting"}
Fates == {"unsent", "refused", "waiting", "answering", "answered", "dropped"}

TypeOK ==
    /\ queue \in Seq(Messages)
    /\ active \in 0 .. 1
    /\ thread \in Workers \cup {NoWorker}
    /\ stopped \subseteq Workers
    /\ pc \in [Workers -> Live \cup {"unborn", "released", "dead"}]
    /\ holding \in [Workers -> Messages \cup {NoMessage}]
    /\ joining \in [Stoppers -> Workers \cup {NoWorker}]
    /\ fate \in [Messages -> Fates]

(* self._cond.notify_all()                                                      *)
Notified ==
    [w \in Workers |-> IF pc[w] = "asleep" THEN "checking" ELSE pc[w]]

Stopping == thread \in stopped

--------------------------------------------------------------------------------
(* submit()                                                                     *)

Refuse(m) ==
    /\ fate[m] = "unsent"
    /\ fate' = [fate EXCEPT ![m] = "refused"]
    /\ UNCHANGED <<queue, active, thread, stopped, pc, holding, joining>>

(* _ensure_thread_locked: the thread there is, or a new one.                    *)
EnsureThread ==
    IF thread # NoWorker
    THEN pc' = Notified /\ UNCHANGED thread
    ELSE \E w \in Workers :
            /\ pc[w] = "unborn"
            /\ thread' = w
            /\ pc' = [Notified EXCEPT ![w] = "checking"]

BugEnqueue(m) ==
    /\ fate[m] = "unsent"
    /\ queue' = Append(queue, m)
    /\ fate' = [fate EXCEPT ![m] = "waiting"]
    /\ EnsureThread
    /\ UNCHANGED <<active, stopped, holding, joining>>

Enqueue(m) ==
    /\ ~Stopping
    /\ fate[m] = "unsent"
    /\ queue' = Append(queue, m)
    /\ fate' = [fate EXCEPT ![m] = "waiting"]
    /\ EnsureThread
    /\ UNCHANGED <<active, stopped, holding, joining>>

--------------------------------------------------------------------------------
(* stop()                                                                       *)

BugStop(s) ==
    /\ joining[s] = NoWorker /\ thread # NoWorker
    /\ joining' = [joining EXCEPT ![s] = thread]
    /\ stopped' = stopped \cup {thread}
    /\ queue' = <<>>
    /\ fate' = [m \in Messages |-> IF fate[m] = "waiting" THEN "dropped" ELSE fate[m]]
    /\ pc' = Notified
    /\ thread' = NoWorker
    /\ UNCHANGED <<active, holding>>

BugStopQuietly(s) ==
    /\ joining[s] = NoWorker /\ thread # NoWorker
    /\ joining' = [joining EXCEPT ![s] = thread]
    /\ IF Stopping
       THEN UNCHANGED <<queue, stopped, pc, fate>>
       ELSE /\ stopped' = stopped \cup {thread}
            /\ queue' = <<>>
            /\ fate' = [m \in Messages |->
                            IF fate[m] = "waiting" THEN "dropped" ELSE fate[m]]
            /\ UNCHANGED pc
    /\ UNCHANGED <<active, thread, holding>>

(* Only the first stop() of a thread drops messages; all of them then join it.  *)
(* Without a thread stop() returns at once, which changes nothing.              *)
Stop(s) ==
    /\ joining[s] = NoWorker /\ thread # NoWorker
    /\ joining' = [joining EXCEPT ![s] = thread]
    /\ IF Stopping
       THEN UNCHANGED <<queue, stopped, pc, fate>>
       ELSE /\ stopped' = stopped \cup {thread}
            /\ queue' = <<>>
            /\ fate' = [m \in Messages |->
                            IF fate[m] = "waiting" THEN "dropped" ELSE fate[m]]
            /\ pc' = Notified
    /\ UNCHANGED <<active, thread, holding>>

StopReturns(s) ==
    /\ joining[s] # NoWorker /\ pc[joining[s]] = "dead"
    /\ joining' = [joining EXCEPT ![s] = NoWorker]
    /\ UNCHANGED <<queue, active, thread, stopped, pc, holding, fate>>

--------------------------------------------------------------------------------
(* The worker thread: _run and _run_loop.                                       *)

Sleep(w) ==
    /\ pc[w] = "checking" /\ queue = <<>> /\ w \notin stopped
    /\ pc' = [pc EXCEPT ![w] = "asleep"]
    /\ UNCHANGED <<queue, active, thread, stopped, holding, joining, fate>>

Leave(w) ==
    /\ pc[w] = "checking" /\ w \in stopped
    /\ pc' = [pc EXCEPT ![w] = "exiting"]
    /\ UNCHANGED <<queue, active, thread, stopped, holding, joining, fate>>

Take(w) ==
    /\ pc[w] = "checking" /\ queue # <<>> /\ w \notin stopped
    /\ holding' = [holding EXCEPT ![w] = Head(queue)]
    /\ queue' = Tail(queue)
    /\ active' = active + 1
    /\ fate' = [fate EXCEPT ![Head(queue)] = "answering"]
    /\ pc' = [pc EXCEPT ![w] = "answering"]
    /\ UNCHANGED <<thread, stopped, joining>>

BugFinish(w) ==
    /\ pc[w] = "answering"
    /\ fate' = [fate EXCEPT ![holding[w]] = "answered"]
    /\ pc' = [Notified EXCEPT ![w] = "checking"]
    /\ UNCHANGED <<queue, active, thread, stopped, holding, joining>>

(* The answer is over, whether it failed or not.                                *)
Finish(w) ==
    /\ pc[w] = "answering"
    /\ active' = active - 1
    /\ fate' = [fate EXCEPT ![holding[w]] = "answered"]
    /\ pc' = [Notified EXCEPT ![w] = "checking"]
    /\ UNCHANGED <<queue, thread, stopped, holding, joining>>

(* The finally of _run: ownership is given up once no answer can be running.    *)
Release(w) ==
    /\ pc[w] = "exiting"
    /\ thread' = IF thread = w THEN NoWorker ELSE thread
    /\ pc' = [Notified EXCEPT ![w] = "released"]
    /\ UNCHANGED <<queue, active, stopped, holding, joining, fate>>

Die(w) ==
    /\ pc[w] = "released"
    /\ pc' = [pc EXCEPT ![w] = "dead"]
    /\ UNCHANGED <<queue, active, thread, stopped, holding, joining, fate>>

--------------------------------------------------------------------------------
Init ==
    /\ queue = <<>>
    /\ active = 0
    /\ thread = NoWorker
    /\ stopped = {}
    /\ pc = [w \in Workers |-> "unborn"]
    /\ holding = [w \in Workers |-> NoMessage]
    /\ joining = [s \in Stoppers |-> NoWorker]
    /\ fate = [m \in Messages |-> "unsent"]

Worker(w) == Sleep(w) \/ Leave(w) \/ Take(w) \/ Finish(w) \/ Release(w) \/ Die(w)

Next ==
    \/ \E m \in Messages : Enqueue(m) \/ Refuse(m)
    \/ \E s \in Stoppers : Stop(s) \/ StopReturns(s)
    \/ \E w \in Workers : Worker(w)

(* Every answer is given a timeout (chat_side_session._resolve_timeout_ms), and *)
(* the threads run; nobody has to call submit() or stop().                      *)
Fairness ==
    /\ \A w \in Workers : WF_vars(Worker(w))
    /\ \A s \in Stoppers : WF_vars(StopReturns(s))

Spec == Init /\ [][Next]_vars
FairSpec == Spec /\ Fairness

--------------------------------------------------------------------------------
(* Properties.                                                                  *)

(* No two answers run at once, whatever stop() and submit() race with the       *)
(* thread that is on its way out: two would rewrite HANDOFF.md and the change   *)
(* record over each other.                                                      *)
OneAnswerAtATime ==
    \A v, w \in Workers : pc[v] = "answering" /\ pc[w] = "answering" => v = w

(* A queued message has a thread that will come to it: one that is neither      *)
(* asleep nor told to stop. No wake-up is lost and none is queued behind a      *)
(* thread that is leaving.                                                      *)
QueueAttended ==
    queue # <<>> =>
        /\ thread # NoWorker /\ thread \notin stopped
        /\ pc[thread] \in {"checking", "answering"}

(* The message being answered.                                                  *)
Current ==
    IF thread # NoWorker /\ pc[thread] = "answering" THEN holding[thread] ELSE NoMessage

Promise == INSTANCE AnswerQueue WITH line <- queue, current <- Current

(* The worker keeps AnswerQueue's promise, its liveness included: messages are  *)
(* answered in order, each once, or dropped together.                           *)
KeepsPromise == Promise!QueueFairSpec

(* stop() returns.                                                              *)
StopEnds == \A s \in Stoppers : joining[s] # NoWorker ~> joining[s] = NoWorker
================================================================================
