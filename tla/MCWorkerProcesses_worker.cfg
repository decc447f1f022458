SPECIFICATION FairSpec
CONSTANTS
  Clients = {"browser", "oneshot", "argv"}
  Setups <- McSetups
  MaxCalls = 2
  MaxFaults = 1
CHECK_DEADLOCK FALSE
INVARIANTS BrowserIsContained OneBrowserTree AnswerIsForThisRequest
PROPERTY HangsOnlyOnPipes
