SPECIFICATION FdtSpec
CONSTANT
  Header <- MCHeader
  Guard <- MCGuard
  Edits <- MCEdits
  Patches <- MCPatches
INVARIANT InsideBuffer
INVARIANT RoomEnough
PROPERTY KeepsTree
