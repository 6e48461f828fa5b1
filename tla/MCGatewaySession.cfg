\* Two ids, two openings of up to two frames; the server wires providers
\* of which none fails while it speaks.
CONSTANTS
  NoStream = NoStream
  Streams = {s1, s2}
  MaxOpenings = 2
  MaxFrames = 2
  MaxOther = 2
  MaxDeltas = 1
  MaxChunks = 1
  UpRoom = 2
  DownRoom = 2
  MayFail = {"asr", "llm"}
SPECIFICATION FairSpec
INVARIANTS
  TypeOK
  TurnIsWholeStream
  TraceTellsTheOutcome
PROPERTIES
  UplinkIsOneStream
  DownlinkIsOneStream
  StopIsAnswered
CHECK_DEADLOCK FALSE
