\* Two fields, one of two chunks; two cuts of a message or an answer; one page.
SPECIFICATION FairSpec
CONSTANTS
  Tasks <- MCTasks
  Queries <- MCQueries
  IntValues = 16
  MaxFailures = 2
  MaxGets = 1
  NoTask = NoTask
INVARIANTS
  TypeOK
  ValidPostIsWhole
  ShownWasStored
  LastChunkCompletes
PROPERTIES
  StoreImplemented
  PostReturns
\* The database and the worker stop.
CHECK_DEADLOCK FALSE
