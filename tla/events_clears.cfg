SPECIFICATION Spec
CONSTANTS
  interface = interface
  disk = disk
  cpu = cpu
  Class <- MCClass
  QueueOf <- MCQueueOf
  Options <- MCDefault
  MaxEvents = 4
  MaxFailures = 1
INVARIANTS DroppedClearsAreKnown
CHECK_DEADLOCK FALSE
