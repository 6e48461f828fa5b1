\* Two turns and one response.create.
CONSTANTS
  MaxTurns = 2
  MaxRequests = 1
SPECIFICATION FairSpec
INVARIANTS
  TypeOK
  SlotIsLive
  RunningTraceIsHeld
  EndedLeavesNoTrace
PROPERTIES
  TurnsWindDown
