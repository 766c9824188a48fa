CONSTANTS
    S1 = S1
    Stories <- MCStories
    Handoffs <- StoryTexts
    Front <- StoryFront
    RoleTexts <- StoryRoles
    PersonTexts <- OnlyAssign
    BounceTexts <- StoryBounces
    FirstTexts <- OnlyAssign
    Escalation = "stop"
    PauseRecovery = TRUE
    Reconcile = TRUE
    Events = {"edit", "stop", "crash"}
    EnforceWorkPacket = FALSE
    TpmConfigured = FALSE
    Publishing = TRUE
    Polling = TRUE
    MaxFailures = 1
    BounceCap = 4
SPECIFICATION Spec
INVARIANTS OneDispatchAfterStop BreakerHolds
PROPERTY PublishedAsApproved
