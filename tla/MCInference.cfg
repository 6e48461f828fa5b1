\* Two requests over a store of one trace; texts of up to two sentences.
CONSTANTS
  Traces = {r1, r2}
  Words = {w1, w2}
  Blank = Blank
  NoAsset = NoAsset
  Limit = 1
  MaxAsset = 2
  MaxStored = 1
  HeaderBytes = 1
  MaxWords = 3
  MaxChunks = 2
  MaxParts = 2
  AudioSizes = {0, 2}
  ChunkSizes = {1, 2}
  SilenceBytes = 1
SPECIFICATION Spec
SYMMETRY Symmetry
INVARIANTS
  TypeOK
  HeldAreLatest
  TraceTellsTheOutcome
  ReplyIsWhole
  RecordIsFaithful
CHECK_DEADLOCK FALSE
