---------------------------- MODULE MCChatTakeover ----------------------------
(* Two answers, one text of each kind that matters, and any number of cycles.   *)
EXTENDS ChatTakeover

CONSTANTS m1, m2

MCMessages == {m1, m2}
MCChatTexts == {"redirect", "scrawl"}
MCValidTexts == {"redirect"}
MCRoleTexts == {"handback"}
MCOtherTexts == {"assignment"}
===============================================================================
