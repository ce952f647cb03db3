SPECIFICATION Spec
CONSTANTS
  Names = {"a", "A", "b"}
  Fold <- MCFold
  Key <- MCKey
  hashbits0 = 2
  Start <- MCStart
  Kinds = {"hash", "table", "f83"}
  MaxWords = 10
  MaxWordlists = 3
  MaxMarkers = 1
INVARIANTS FindRight NoDangling
PROPERTY RebuildEnds
