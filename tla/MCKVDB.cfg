CONSTANTS
  Sync = sync
  Locals = {local}
  Versions = {a}
  Keep = 2
  MaxBatch = 3
  MaxResets = 2
  MaxCrashes = 1
SPECIFICATION Spec
CHECK_DEADLOCK FALSE
INVARIANT OneHistory
PROPERTIES FailsAtGapOnly IsStore
