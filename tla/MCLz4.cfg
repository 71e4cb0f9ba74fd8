SPECIFICATION RTSpec
CONSTANTS
  Nibble <- MCNibble
  SizeMax <- MCSizeMax
  MinMatch <- MCMinMatch
  Magic <- MCMagic
  Inputs <- MCInputs
  DstSizes <- MCDstSizes
INVARIANTS
  TypeOK
  MemorySafe
  RoundTrip
  CutNeverForges
PROPERTIES
  KeepsPromise
  Terminates
