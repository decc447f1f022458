SPECIFICATION FairSpec
CONSTANTS
  Hypothesis = {h1, h2, h3}
  Experiment = {x1, x2, x3, x4}
  None = None
  MaxCycles = 3
  MaxExperiments = 2
  MaxModelCalls = 3
  MaxInvocations = 2
  RepeatControl = TRUE
  MaxRounds = 3
  MaxCrashes = 2
  CycleBound = 1
CHECK_DEADLOCK FALSE
INVARIANTS OneExperimentPerHypothesis ExperimentsWithinBound CyclesRecorded
PROPERTY EveryExperimentIsClosed
