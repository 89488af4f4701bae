\* One HTTP request fails.
SPECIFICATION Spec
CONSTANTS
  NumberWorkers = 2
  NumberStores = 2
  MaxFailures = 1
  TimeoutWorkers <- NoWorkers
INVARIANT
  OpenMeansRequesting
\* A deferred request may stay unanswered for ever: the workers can get stuck.
CHECK_DEADLOCK FALSE
