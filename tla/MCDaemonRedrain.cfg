SPECIFICATION DaemonSpec
CONSTANTS
  Syncer = {}
  Job = {j1}
  UserRun = {u1}
  Mutation = {m1}
  MaxRevision = 4
  Fault = {"network"}
  Work <- LeaseIds
  Lineage <- LeaseIds
INVARIANTS
  StopWaitsForThreads
PROPERTIES
  ClaimedRunsOnly
