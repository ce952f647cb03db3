SPECIFICATION Spec
CONSTANTS
  SectionSize = 10000
  DOER_MAX = 1
  RELINFOBITS = 2
  Commands <- MCCommands
  Files <- MCFiles
  Paths <- MCPaths
  Engines <- MCEngines
  TableSize = 100
  Places <- MCPlaces
  RwxMayFail = TRUE
  FloatSize = 4
  UCellMax = 99999
  Garbage = {7}
  MaxStarts = 2
CHECK_DEADLOCK FALSE
INVARIANT NoDynamicKept
