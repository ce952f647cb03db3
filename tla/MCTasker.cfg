SPECIFICATION FairSpec
CONSTANTS
  Tasks = {m, a, b, c, d}
  main = m
  sleepers = sleepers
  killer = killer
INVARIANTS TypeOK Rings OneRing
PROPERTY EveryoneRuns
