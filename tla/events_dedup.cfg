SPECIFICATION Spec
CONSTANTS
  interface = interface
  disk = disk
  cpu = cpu
  Class <- MCOneClass
  QueueOf <- MCOneQueueOf
  Options <- MCDeduplicating
  MaxEvents = 4
  MaxFailures = 2
INVARIANTS MergingKeepsCount
CHECK_DEADLOCK FALSE
