SPECIFICATION Spec
CONSTANTS
    Exp <- MCExp
    Session <- MCSession
    Before <- MCBefore
    PlanChoices <- MCPlans
    RuleChoices <- MCRules
    Subresources <- MCSubresources
    Policy = "program"
    Profile <- MCProfile
    Issued <- MCIssued
    BROWSER_PAGE_MAX_NETWORK_REQUESTS = 2
    MaxTime = 3
INVARIANTS
    ContactWithinScope
    RateWindowKept
    CookieBoundToItsLogin
    RequestsWithinCharge
CHECK_DEADLOCK FALSE
