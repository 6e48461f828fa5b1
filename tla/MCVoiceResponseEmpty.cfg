\* The same instance, asked whether a reply may end without a response.done.
CONSTANTS
  QueueCap = 2
  MaxSegments = 4
  MaxChunks = 2
  MaxCancels = 2
SPECIFICATION Spec
INVARIANTS
  EveryReplyIsDone
