SPECIFICATION Spec
CONSTANTS
  w1 = w1
  w2 = w2
  w3 = w3
  Worker <- MCWorker
  NumWorkers = 2
  WorkersReservedForEvents = 2
  CallLimit = 2
  MaxJobs = 3
  MaxCrashes = 0

PROPERTIES NoWorkWhileStopping
CHECK_DEADLOCK FALSE
