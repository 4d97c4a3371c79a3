\* Model changes, the events that tell of them, and the submission of jobs.
CONSTANTS
  Object = {o1, o2}
  MaxTransactions = 2
  MaxCalls = 3
  MaxOthers = 1

SPECIFICATION Spec
SYMMETRY Symmetry
INVARIANTS
  TypeOK
  ConsumerAgrees
  OneVerdict
PROPERTIES
  ToldOnlyCommitted
  ImplementsSubmission
CHECK_DEADLOCK FALSE
