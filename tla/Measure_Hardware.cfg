\* The hardware benchmark: is the minimum overhead there when it is needed?
SPECIFICATION Spec
CONSTANTS
  Width = 8
  AllowUnstable = FALSE
  Apps = {"hardware"}
  Runs = 3
  Ignoreds = {1}
  OverheadTimes = {1, 2}
  Times = {2, 6}
INVARIANT
  EarlySubtractsMinOverhead
