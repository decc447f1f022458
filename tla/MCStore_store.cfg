SPECIFICATION Spec
INVARIANTS SchemaFollowsItsRevision EveryRowIsReadable LineageWithinOneRun
INVARIANT HistoryIsKept
CHECK_DEADLOCK FALSE
