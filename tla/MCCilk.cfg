SPECIFICATION FairSpec
CONSTANTS
  Workers = {w1, w2, w3, w4}
  cores = 2
  MaxJobs = 3
  Bye = Bye
INVARIANTS Counted ListedIdle NoStrays
PROPERTIES ForkJoinSpec WordsReturn WorkDone
