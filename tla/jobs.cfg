\* Jobs submitted, run, aborted, deleted and delivered again.
CONSTANTS
  Job = {j1, j2}
  NoJob = NoJob
  MaxRetries = 2
  JobsPerWorker = {1, 2}
  MaxRestarts = 1
  MaxActs = 2

SPECIFICATION Spec
INVARIANTS
  TypeOK
  SuccessMeansDone
  CommitsBounded
  OwnResult
  RunsOnlyCommitted
PROPERTIES
  JobFinishes
CHECK_DEADLOCK FALSE
