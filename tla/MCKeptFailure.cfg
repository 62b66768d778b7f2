SPECIFICATION RetentionSpec
CONSTANTS
  Run = {r1}
  Event = {e1, e2}
  Syncer = {s1}
  Main = main
  Policy = {"never"}
  MaxTrouble = 0
INVARIANT FailedHandoffKept
CHECK_DEADLOCK FALSE
