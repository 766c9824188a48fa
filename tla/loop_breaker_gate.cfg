CONSTANTS
    S1 = S1
    Stories <- MCStories
    Handoffs <- StoryTexts
    Front <- StoryFront
    RoleTexts <- StoryRoles
    PersonTexts <- OnlyAssign
    BounceTexts <- StoryBounces
    FirstTexts <- OnlyAssign
    Escalation = "stop"
    PauseRecovery = TRUE
    Reconcile = FALSE
    Events = {"crash"}
    EnforceWorkPacket = TRUE
    TpmConfigured = FALSE
    Publishing = FALSE
    Polling = TRUE
    MaxFailures = 1
    BounceCap = 4
SPECIFICATION Spec
INVARIANT BreakerHolds
