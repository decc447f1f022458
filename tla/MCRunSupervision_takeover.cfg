SPECIFICATION FairSpec
CONSTANTS
  Runtime = {r1, r2}
  NoOwner = NoOwner
  Experiment = {x1}
  NoExperiment = NoExperiment
  TTL = 1
  Attempt = {a1}
  NoAttempt = NoAttempt
  MaxCycles = 1
  MaxEpoch = 2
  CycleBound = 0
  MaxCommands = 0
  Command = {"START", "PAUSE", "RESUME", "CANCEL"}
CHECK_DEADLOCK FALSE
PROPERTIES StopEndsSupervision AbandonedRunIsFree
