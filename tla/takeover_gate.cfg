CONSTANTS
    m1 = m1
    m2 = m2
    NoMessage = NoMessage
    Messages <- MCMessages
    ChatTexts <- MCChatTexts
    ValidTexts <- MCValidTexts
    RoleTexts <- MCRoleTexts
    OtherTexts <- MCOtherTexts
    NoText = "none"
SPECIFICATION Spec
PROPERTY RewriteOutlivesGate
