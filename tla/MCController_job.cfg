\* No chunk whose POST failed was added: the controller implements MatrixJob.
SPECIFICATION Spec
CONSTANTS
  NumberFields = 2
  ChunksPerRow = 2
  NumberWorkers = 2
  MaxFailures = 1
  AckLoss = FALSE
  HangingWorkers <- NoWorkers
  LostWorkers <- FirstWorker
INVARIANTS
  TypeOK
  TasksConserved
  MutexTasksNeverLeaked
  FinishedIsComplete
PROPERTY
  JobImplemented
