\* Every worker answers its RPCs; healthchecks block any of them at any time, and
\* the database may have added a chunk whose POST failed for the worker.
SPECIFICATION FairSpec
CONSTANTS
  NumberFields = 1
  ChunksPerRow = 3
  NumberWorkers = 2
  MaxFailures = 1
  AckLoss = TRUE
  HangingWorkers <- NoWorkers
  LostWorkers <- NoWorkers
INVARIANTS
  TasksConserved
  AnnouncedFieldsComplete
  FinishedIsComplete
PROPERTIES
  ControllerTerminates
  SurvivorFinishesJob
