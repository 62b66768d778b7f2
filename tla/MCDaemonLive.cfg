SPECIFICATION FairDaemonSpec
CONSTANTS
  Syncer = {h1}
  Job = {j1}
  UserRun = {}
  Mutation = {}
  MaxRevision = 2
  Fault = {"store", "thread"}
  Work <- LeaseIds
  Lineage <- LeaseIds
PROPERTIES
  DrainDecides
  ClaimsSettle
