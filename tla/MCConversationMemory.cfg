\* Two responses at a time, four turns, the clock up to three.
CONSTANTS
  Responses = {r1, r2}
  Limits <- TwoKinds
  MaxTurns = 4
  MaxSize = 2
  MaxTime = 3
SYMMETRY Permuted
SPECIFICATION Spec
INVARIANTS
  TypeOK
  MemoryInOrder
  PromptHasNoPause
CHECK_DEADLOCK FALSE
