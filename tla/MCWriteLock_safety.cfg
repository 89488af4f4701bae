\* Three workers: one stores a result, perhaps after a failed POST, and they print.
SPECIFICATION Spec
CONSTANTS
  NumberWorkers = 3
  NumberStores = 1
  MaxFailures = 1
  TimeoutWorkers <- NoWorkers
CONSTRAINT
  PrintersBound
INVARIANTS
  TypeOK
  MutualExclusion
  RepliesAccounted
  DeferredComeLater
  OpenUntilFailure
\* A deferred request may stay unanswered for ever: the workers can get stuck.
CHECK_DEADLOCK FALSE
