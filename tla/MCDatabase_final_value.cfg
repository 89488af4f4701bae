\* Two fields, one of two chunks; the browser asks twice.
SPECIFICATION Spec
CONSTANTS
  Tasks <- MCTasks
  Queries <- MCQueries
  IntValues = 256
  MaxFailures = 0
  MaxGets = 2
  NoTask = NoTask
INVARIANT ShownIsFinal
CHECK_DEADLOCK FALSE
