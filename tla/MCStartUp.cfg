SPECIFICATION FairSpec
CONSTANTS
  Top <- MCTop
  SignBit <- MCSignBit
  Builds <- MCBuilds
INVARIANTS
  MainStartsClean
  NoStrayWrite
PROPERTIES
  ReachesMain
