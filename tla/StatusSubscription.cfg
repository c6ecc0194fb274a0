CONSTANTS
  Tasks <- MCTasks
  Capacity = 1
  MaxSet = 2
SPECIFICATION FairSpec
INVARIANTS
  TypeOK
  ChangeIsAnnounced
PROPERTIES
  ClientCatchesUp
  StreamEnds
CHECK_DEADLOCK FALSE
