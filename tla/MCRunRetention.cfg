SPECIFICATION RetentionSpec
CONSTANTS
  Run = {r1}
  Event = {e1, e2}
  Syncer = {s1}
  Main = main
  Policy = {"never"}
  MaxTrouble = 1
INVARIANTS
  RetentionTypeOK
  ReportIsDurable
  NoLeakedDirectory
PROPERTIES
  RemovalIsEarned
  RetainedForGood
  DeliveryRefined
SYMMETRY Symmetry
CHECK_DEADLOCK FALSE
