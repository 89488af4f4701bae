\* The final requests of two workers.
SPECIFICATION FairSpec
CONSTANTS
  NumberWorkers = 2
  NumberStores = 0
  MaxFailures = 0
  TimeoutWorkers <- NoWorkers
PROPERTY
  PrintRequestGranted
\* A deferred request may stay unanswered for ever: the workers can get stuck.
CHECK_DEADLOCK FALSE
