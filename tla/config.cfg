\* Changes of the model on their way to a collector.
CONSTANTS
  Device = {d1, d2}
  Movable = {d1}
  Class = Class
  Prefs = Prefs
  BatchSize = 1
  MaxChanges = 2
  Budget = 3

SPECIFICATION Spec
INVARIANTS
  TypeOK
  PushesSuffice
PROPERTIES
  Converges
CHECK_DEADLOCK FALSE
