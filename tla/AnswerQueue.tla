------------------------------ MODULE AnswerQueue ------------------------------
(* What the chat answer worker promises whoever talks to it: messages that are  *)
(* accepted are answered one at a time in the order they were accepted, or      *)
(* dropped together when chat stops; nothing is lost and nothing is answered    *)
(* twice. ChatAnswers shows how llm_handoff/chat_answers.py keeps the promise,  *)
(* ChatTakeover how the dispatch loop relies on it.                               *)
EXTENDS Sequences

CONSTANTS
    Messages,       \* the messages an operator ever sends (bound)
    NoMessage

ASSUME MessagesAssumption == NoMessage \notin Messages

VARIABLES
    line,           \* accepted, in order, not yet begun
    current,        \* the message being answered, or NoMessage
    fate            \* what has become of each message

queueVars == <<line, current, fate>>

Fates == {"unsent", "refused", "waiting", "answering", "answered", "dropped"}

QueueTypeOK ==
    /\ line \in Seq(Messages)
    /\ current \in Messages \cup {NoMessage}
    /\ fate \in [Messages -> Fates]

Accept(m) ==
    /\ fate[m] = "unsent"
    /\ line' = Append(line, m)
    /\ fate' = [fate EXCEPT ![m] = "waiting"]
    /\ UNCHANGED current

(* No role is running, the provider has no chat, or chat is stopping.           *)
Refuse(m) ==
    /\ fate[m] = "unsent"
    /\ fate' = [fate EXCEPT ![m] = "refused"]
    /\ UNCHANGED <<line, current>>

Begin ==
    /\ current = NoMessage /\ line # <<>>
    /\ current' = Head(line)
    /\ line' = Tail(line)
    /\ fate' = [fate EXCEPT ![Head(line)] = "answering"]

End ==
    /\ current # NoMessage
    /\ fate' = [fate EXCEPT ![current] = "answered"]
    /\ current' = NoMessage
    /\ UNCHANGED line

(* stop(): the waiting messages go; the one being answered is finished.         *)
Drop ==
    /\ line # <<>>
    /\ fate' = [m \in Messages |-> IF fate[m] = "waiting" THEN "dropped" ELSE fate[m]]
    /\ line' = <<>>
    /\ UNCHANGED current

Idle == line = <<>> /\ current = NoMessage

QueueInit ==
    /\ line = <<>>
    /\ current = NoMessage
    /\ fate = [m \in Messages |-> "unsent"]

QueueNext ==
    \/ \E m \in Messages : Accept(m) \/ Refuse(m)
    \/ Begin \/ End \/ Drop

QueueSpec == QueueInit /\ [][QueueNext]_queueVars

(* Every answer ends (its provider process has a timeout), and a waiting        *)
(* message does not wait for ever behind nobody.                                *)
QueueFairSpec == QueueSpec /\ WF_queueVars(Begin) /\ WF_queueVars(End)
================================================================================
