SPECIFICATION DaemonSpec
CONSTANTS
  Syncer = {h1}
  Job = {j1}
  UserRun = {}
  Mutation = {}
  MaxRevision = 3
  Fault <- AllFaults
  Work <- LeaseIds
  Lineage <- LeaseIds
INVARIANTS
  DaemonTypeOK
  StopWaitsForThreads
  EscapesAreCounted
  UndecidedDrainWaits
PROPERTIES
  NoJobWhileStopping
