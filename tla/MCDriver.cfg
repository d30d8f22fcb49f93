\* Three benchmarks, one of them not configured, two iterations each, and a
\* timer that needs two frames.
SPECIFICATION FairSpec
CONSTANTS
  TimerFrames = 2
  benchmarks <- MCBenchmarks
  enabled = {"ipc", "irquser"}
  Iterations = 2
INVARIANTS
  CleanStart
  ProcessedResultsAreFinal
  FreesGoToOwner
PROPERTY
  DriverStops
