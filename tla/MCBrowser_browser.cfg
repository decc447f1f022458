SPECIFICATION Spec
CONSTANTS
  Contexts = {c1, c2, c3}
  Bindings <- McBindings
  NoSession = "none"
  None = None
  Urls = {"home", "shop", "data"}
  Opaque = {"data"}
  Blank = "blank"
  Envelopes <- McEnvelopes
  Asked = {2}
  MaxContexts = 2
  MaxAttempted = 1
  MaxActions = 3
  MaxEvents = 2
SYMMETRY McContexts
CHECK_DEADLOCK FALSE
INVARIANTS RequestsWithinLimits SessionsStayApart
PROPERTY CrossedIsLeft
