\* One core, on an MCS kernel.
SPECIFICATION Spec
CONSTANTS
  NoThread = NoThread
  Cores = 1
  Tests = 2
  Runs = 2
  MCS = TRUE
  CountBits = 2
  MaxCalls = 3
INVARIANT
  ConvertedWhileWaiting
