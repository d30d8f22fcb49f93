\* main of apps/scheduler.
\* MaxPrio = 9 with words of 4 bits is the tightest case of N_PRIOS: the last
\* priority is the highest.  Six yields with up to three ticks at any step.
SPECIFICATION MainSpec
CONSTANTS
  Main = main
  High = high
  Low = low
  Runs = 3
  MaxPrio = 9
  WordBits = 4
  Yielder = yielder
  YieldRuns = 6
  Ticks = 3
INVARIANTS
  PrioritiesAreLegal
  SampleMeasuresSwitch
  NoStraySignal
  TickSpoilsAtMostTwo
PROPERTIES
  RunsAllRounds
  YieldTerminates
