---------------------------- MODULE MCChatAnswers ----------------------------
(* Three messages, three threads and two callers of stop(): a thread, the one   *)
(* that follows it after a stop, and one more.                                  *)
EXTENDS ChatAnswers

CONSTANTS m1, m2, m3, w1, w2, w3, s1, s2

MCMessages == {m1, m2, m3}
MCWorkers == {w1, w2, w3}
MCStoppers == {s1, s2}
===============================================================================
