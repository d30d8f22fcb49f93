\* Two cores, on a kernel without scheduling contexts; counters wrap within a sample.
SPECIFICATION Spec
CONSTANTS
  NoThread = NoThread
  Cores = 2
  Tests = 2
  Runs = 2
  MCS = FALSE
  CountBits = 2
  MaxCalls = 3
INVARIANTS
  ThroughputIsExact
  NoPairIsStuck
