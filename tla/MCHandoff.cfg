SPECIFICATION Spec
CONSTANTS
  Top <- MCTop
  Line <- MCLine
  MagicAt <- MCMagicAt
  Builds <- MCBuilds
INVARIANTS
  NoStrayWrite
  HandoffIntact
  InitrdToldTruly
  ImageSynced
PROPERTIES
  AlignmentCheckKept
