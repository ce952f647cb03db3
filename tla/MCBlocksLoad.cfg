SPECIFICATION Spec
CONSTANTS
  Files = {F}
  Values = {X}
  Blank = Blank  Nul = Nul  Torn = Torn  Absent = Absent  NoData = NoData
  Fids = {h1}
  NoFid = NoFid  NoFile = NoFile
  Default = F
  buffers = 2
  blockLimit = 5
  offset = 2
  Unassigned = 9
  NoBuffer = NoBuffer
  NotIncluded = NotIncluded
  Requests = {0, 1, 2, 4}
  Lengths = {1}
  Faults = {"write"}
  MaxFaults = 1
  MaxNest = 1
INVARIANT Coherent
SYMMETRY HandleSymmetry
PROPERTY StoreSpec
