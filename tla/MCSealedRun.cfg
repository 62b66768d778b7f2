SPECIFICATION DaemonSpec
CONSTANTS
  Syncer = {h1}
  Job = {j1}
  UserRun = {}
  Mutation = {}
  MaxRevision = 1
  Fault = {}
  Work <- LeaseIds
  Lineage <- LeaseIds
INVARIANTS
  RunsPersist
