---------------------------- MODULE MCSupervisor ----------------------------
(* Up to two supervisors, a dispatcher started by hand, stop commands and the  *)
(* locks a dead process left.  One supervisor may retry and repair once, the   *)
(* other does neither.                                                         *)
EXTENDS Supervisor, TLC

CONSTANTS s1, s2, a1, a2

MCBudget == [s \in Supervisors |-> IF s = s1 THEN 1 ELSE 0]
MCStopSymmetry == Permutations(Stoppers)
=============================================================================
