CONSTANTS
  r1 = r1
  r2 = r2
  Requests = {r1, r2}
  CommandCapacity = 2
  CompletionCapacity = 1
  MaxToken = 5
SPECIFICATION FairSpec
INVARIANTS
  TypeOK
  EveryCompletionExpected
  AnswerMatchesRequest
PROPERTIES
  AnsweredInOrder
  RefinesQueues
  PendingAnswered
  WorkerStopsAfterOwner
CHECK_DEADLOCK FALSE
