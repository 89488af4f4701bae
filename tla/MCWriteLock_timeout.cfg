\* The time is over while a result is stored.
SPECIFICATION Spec
CONSTANTS
  NumberWorkers = 3
  NumberStores = 1
  MaxFailures = 0
  TimeoutWorkers <- TwoWorkers
INVARIANT
  OneWorkerAtATime
\* A deferred request may stay unanswered for ever: the workers can get stuck.
CHECK_DEADLOCK FALSE
