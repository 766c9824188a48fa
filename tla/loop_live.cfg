CONSTANTS
    S1 = S1
    Stories <- MCStories
    Handoffs <- LostTexts
    Front <- LostFront
    RoleTexts <- LostRoles
    PersonTexts <- OnlyAssign
    BounceTexts <- Nothing
    FirstTexts <- OnlyAssign
    Escalation = "stop"
    PauseRecovery = TRUE
    Reconcile = FALSE
    Events = {"stop"}
    EnforceWorkPacket = TRUE
    TpmConfigured = FALSE
    Publishing = FALSE
    Polling = TRUE
    MaxFailures = 2
    BounceCap = 4
SPECIFICATION FairSpec
INVARIANT OnePauseRecovery
PROPERTIES StopHonoured StuckLoopEnds
