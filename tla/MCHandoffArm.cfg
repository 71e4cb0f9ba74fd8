SPECIFICATION Spec
CONSTANTS
  Top <- MCTop
  Line <- MCLine
  MagicAt <- MCMagicAt
  Builds <- OneArmBuild
INVARIANTS
  InitrdToldOnArm
