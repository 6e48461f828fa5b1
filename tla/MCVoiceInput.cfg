\* Two streams; the client may use an id twice.
CONSTANTS
  Release = 2
  Growth = 1
  FreshIds = FALSE
  MaxStreams = 2
  MaxFrames = 4
  MaxPartials = 3
SPECIFICATION Spec
INVARIANTS
  TypeOK
  PartialIsHeld
  StreamIsAccounted
  PartialsInOrder
CHECK_DEADLOCK FALSE
