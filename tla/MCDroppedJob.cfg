SPECIFICATION DaemonSpec
CONSTANTS
  Syncer = {h1}
  Job = {j1}
  UserRun = {}
  Mutation = {}
  MaxRevision = 2
  Fault = {"store"}
  Work <- LeaseIds
  Lineage <- LeaseIds
INVARIANTS
  StopFailsClosed
