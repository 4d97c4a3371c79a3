CONSTANTS
  a1 = a1
  a2 = a2
  c = c
  NoTask = NoTask
  Task <- MCVersions
  Name <- MCName
  Config <- MCConfig
  NameOf <- MCNameOf
  ConfigOf <- MCConfigOf
  IntervalOf <- MCIntervalOf
  MaxTasks = 2

SPECIFICATION Spec
CHECK_DEADLOCK FALSE

INVARIANT TypeOK
INVARIANT ExecutorStateAgrees
INVARIANT NoOverlap
INVARIANT CleanupIsFinal
PROPERTY ImplementsTaskLife
PROPERTY EventuallyCleaned
PROPERTY AddedTaskStarts
PROPERTY ResumedTaskRuns
