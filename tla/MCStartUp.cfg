\* Two workers start, store two results, one HTTP request may fail, and print.
SPECIFICATION StartFairSpec
CONSTANTS
  NumberWorkers = 2
  NumberStores = 2
  MaxFailures = 1
  TimeoutWorkers <- NoWorkers
INVARIANTS
  MessagesHaveSubscribers
  PostIsCurrentTask
  MutualExclusion
  RepliesAccounted
PROPERTIES
  AllStart
  StoreRequestGranted
  LockImplemented
\* The workers end by having nothing to do, and may get stuck.
CHECK_DEADLOCK FALSE
