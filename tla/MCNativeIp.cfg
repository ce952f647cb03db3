SPECIFICATION Spec
CONSTANTS
  Prims <- Table
  N_noop = 1
  N_branch = 4
  ip_dead = {6}
  TPA_SIZE = 7
  AreaSize = 27
  MaxAreas = 2
  GotoLen = 1
  CODE_ALIGNMENT = 4
  MAX_PADDING = 1
  MAX_BB = 3
  Options <- IpOptions
  Definitions <- MCDefinitions
  HeaderSize = 2
  MaxHere = 11
  MaxMarks = 1
CHECK_DEADLOCK FALSE
INVARIANT IpUpdatesEnd
