\* Three or four samples that count, below, at and above the overhead, read from a
\* counter that wraps; their sums are rarely divisible by their number.  Series of four
\* for ipc, so that the two ranges the driver looks at differ at both ends, and three
\* attempts; a sample may be as short as an overhead.
SPECIFICATION MCSpec
CONSTANTS
  Width = 8
  AllowUnstable = FALSE
  Apps = {"hardware", "signal"}
  Runs = 4
  Ignoreds = {0, 1}
  OverheadTimes = {1, 2}
  Times = {0, 2, 6}
  IpcRuns = 4
  IpcRetries = 3
  IpcOverheadTimes = {1, 2, 3}
  IpcTimes = {3, 5}
INVARIANTS
  EarlyResultIsExact
  LateResultIsExact
  OrderStatistics
  OverheadIsSound
