SPECIFICATION Spec
CONSTANTS
  Work = {w1, w2}
  Lineage = {l1, l2}
  MaxRevision = 4
INVARIANTS
  TypeOK
  StoppingRunsOnlyFlushes
  NoMissedCommit
  LineagesAccounted
PROPERTIES
  DoubtNeverCommits
  CommitIsFinal
  PromiseSpec
SYMMETRY Symmetry
