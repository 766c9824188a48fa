------------------------- MODULE MCInFlightRecovery -------------------------
(* A small instance of InFlightRecovery for TLC. *)
EXTENDS InFlightRecovery, TLC

\* No story is told from another by its name.
StorySymmetry == Permutations(Stories)
=============================================================================
