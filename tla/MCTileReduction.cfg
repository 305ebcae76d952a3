SPECIFICATION Spec
CONSTANTS
  TileSize = 4
  NumTiles = 2
  Garbage <- MCGarbage
INVARIANTS
  NoRace
  NoDivergence
  RoundsKeepSum
  ReductionsAgree
PROPERTY Reduces
CHECK_DEADLOCK FALSE
