SPECIFICATION XSpec
CONSTANTS
  InRequired = 4
  DictBits = 1
  Filters = {7, 8, 10}
  Inputs <- MCInputs
  DstSizes <- MCInputs
INVARIANTS
  MemorySafe
  WholeDecoded
  DamageNoticed
PROPERTIES
  KeepsPromise
