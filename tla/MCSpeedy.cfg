SPECIFICATION FairSpec
CONSTANT
  Script <- MCScript
  PollLimit = 4
  Stale <- MCStale
  Chip <- MCChip
INVARIANT ReadsOwn
PROPERTY KeepsPromise
PROPERTY Returns
