SPECIFICATION GSpec
CONSTANTS
  UintMax <- MCUintMax
  Inputs <- MCInputs
  DstSizes <- MCInputs
INVARIANTS
  MemorySafe
  WholeDecoded
  DamageNoticed
PROPERTIES
  KeepsPromise
