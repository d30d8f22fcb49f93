\* The reported mode, on the hardware benchmark.
SPECIFICATION Spec
CONSTANTS
  Width = 8
  AllowUnstable = FALSE
  Apps = {"hardware"}
  Runs = 4
  Ignoreds = {1}
  OverheadTimes = {1, 2}
  Times = {2, 6}
INVARIANT
  ModeIsMostFrequent
