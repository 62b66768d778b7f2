SPECIFICATION DaemonSpec
CONSTANTS
  Syncer = {h1}
  Job = {}
  UserRun = {u1}
  Mutation = {}
  MaxRevision = 2
  Fault = {"thread"}
  Work <- LeaseIds
  Lineage <- LeaseIds
INVARIANTS
  IdleRunsAreTerminal
