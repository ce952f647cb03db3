SPECIFICATION Spec
CONSTANTS
  Files = {F, G}
  Values = {X}
  Blank = Blank  Nul = Nul  Torn = Torn  Absent = Absent  NoData = NoData
  Fids = {h1, h2}
  NoFid = NoFid  NoFile = NoFile
  Default = F
  buffers = 2
  blockLimit = 3
  offset = 0
  Unassigned = 7
  NoBuffer = NoBuffer
  NotIncluded = NotIncluded
  Requests = {0, 2}
  Lengths = {1}
  Faults = {"open", "seek", "write", "read"}
  MaxFaults = 1
  MaxNest = 0
INVARIANTS TypeOK BuffersBelong
PROPERTY StoreSpec
SYMMETRY HandleSymmetry
