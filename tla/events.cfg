SPECIFICATION Spec
CONSTANTS
  interface = interface
  disk = disk
  cpu = cpu
  Class <- MCTwoClasses
  QueueOf <- MCTwoQueueOf
  Options <- MCOptions
  MaxEvents = 3
  MaxFailures = 2
INVARIANTS TypeOK Conservation ArrivalOrder HubReflectsLatest StopFlushes
PROPERTIES EventsReachHub StopCompletes
CHECK_DEADLOCK FALSE
