SPECIFICATION Spec
CONSTANTS
    Runners = {r1, r2}
    Driver = "steps"
    Origin <- MCOrigin
    Path <- Home
    Identities = {}
    Sessions = {}
    InScope <- MCInScope
    Site <- MCSite
    Statuses = {"OBSERVATION_PRODUCED", "NO_OBSERVATION", "REAUTHORIZATION_REQUIRED", "INVOCATION_FAILED", "DISPATCH_DENIED"}
    Bounds <- Bounds3
    MaxCrashes = 1
INVARIANTS LegalHistory ObservedIsProjected
SYMMETRY Twins
CHECK_DEADLOCK FALSE
