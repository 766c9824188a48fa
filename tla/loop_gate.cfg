CONSTANTS
    S1 = S1
    Stories <- MCStories
    Handoffs <- GateTexts
    Front <- GateFront
    RoleTexts <- GateRoles
    PersonTexts <- OnlyAssign
    BounceTexts <- GateBounces
    FirstTexts <- OnlyAssign
    Escalation = "stop"
    PauseRecovery = TRUE
    Reconcile = FALSE
    Events = {"edit"}
    EnforceWorkPacket = TRUE
    TpmConfigured = TRUE
    Publishing = FALSE
    Polling = TRUE
    MaxFailures = 2
    BounceCap = 4
SPECIFICATION Spec
INVARIANTS TypeOK AuditGated RecoverySparesClaims
