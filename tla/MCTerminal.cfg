SPECIFICATION Spec
CONSTANTS
  Typed <- MCTyped
  Contents <- MCContents
  LineSize = 2
  MaxSignals = 2
  die_on_signal = TRUE
  ShellRestores = FALSE
CHECK_DEADLOCK FALSE
INVARIANTS KeysConserved LinesRight LookaheadKnown TerminalRestored InterruptsOpen
PROPERTY InterruptDelivered
