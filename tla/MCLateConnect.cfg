SPECIFICATION DaemonSpec
CONSTANTS
  Syncer = {h1}
  Job = {}
  UserRun = {}
  Mutation = {m1}
  MaxRevision = 2
  Fault = {}
  Work <- LeaseIds
  Lineage <- LeaseIds
INVARIANTS
  NoCentralLease
