SPECIFICATION Spec
CONSTANTS
  NumberWorkers <- SomeWorkers
  ResultFields <- SomeFields
  MatrixACols <- SomeCols
  MaxChunkSizes <- SomeChunkSizes
INVARIANTS
  TypeOK
  TasksInRow
  RowCovered
  ChunksSlightlyExceed
  EnoughTasks
\* createTasks() returns.
CHECK_DEADLOCK FALSE
