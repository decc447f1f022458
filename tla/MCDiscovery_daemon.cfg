SPECIFICATION Spec
CONSTANTS
    Runners = {"r1"}
    Driver = "daemon"
    Origin <- MCOrigin
    Path <- Home
    Identities = {}
    Sessions = {}
    InScope <- MCInScope
    Site <- MCSite
    Statuses = {"OBSERVATION_PRODUCED"}
    Bounds <- Bounds3
    MaxCrashes = 1
PROPERTY EveryObservationIsProjected
CHECK_DEADLOCK FALSE
