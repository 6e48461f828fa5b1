\* One response: channel of 2, replies of up to 4 segments, 2 chunks each.
CONSTANTS
  QueueCap = 2
  MaxSegments = 4
  MaxChunks = 2
  MaxCancels = 2
SPECIFICATION FairSpec
INVARIANTS
  TypeOK
  InOrder
  SpokenReplyIsDone
PROPERTIES
  CompletedIsEarned
  CancelEnds
  AnsweredEnds
  SpeechEnds
  KeepsContract
