---------------------------- MODULE MCStoryPublish ----------------------------
EXTENDS StoryPublish
Full == [mode |-> "pr", auto |-> TRUE, reviewers |-> TRUE, stall |-> "merge",
         planner |-> TRUE, operator |-> TRUE]
Unreviewed == [Full EXCEPT !.reviewers = FALSE]
HandedOver == [Full EXCEPT !.auto = FALSE]
MergeCommit == [Full EXCEPT !.mode = "merge-commit"]
MCSettings == {Full, Unreviewed, HandedOver, MergeCommit}
MCFull == {Full}
=============================================================================
