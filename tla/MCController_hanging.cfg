\* One worker may stop answering while its RPC connection stays open.
SPECIFICATION FairSpec
CONSTANTS
  NumberFields = 1
  ChunksPerRow = 2
  NumberWorkers = 2
  MaxFailures = 0
  AckLoss = FALSE
  HangingWorkers <- FirstWorker
  LostWorkers <- NoWorkers
PROPERTY
  BlockedWorkerLosesTask
