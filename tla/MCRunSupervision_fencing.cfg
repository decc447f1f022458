SPECIFICATION Spec
CONSTANTS
  Runtime = {r1, r2}
  NoOwner = NoOwner
  Experiment = {x1}
  NoExperiment = NoExperiment
  TTL = 1
  Attempt = {a1, a2}
  NoAttempt = NoAttempt
  MaxCycles = 1
  MaxEpoch = 2
  CycleBound = 1
  MaxCommands = 1
  Command = {"START", "PAUSE", "RESUME", "CANCEL"}
CHECK_DEADLOCK FALSE
SYMMETRY Symmetry
INVARIANTS SecondCallNeedsStaleSave  ResumableWasNeverSent
PROPERTIES EpochFallsByStaleSaveOnly 
