\* A result of the ipc benchmark is two words of two bits, and the counter wraps.  In
\* irquser two of five samples count; the counter wraps within a few passes of the
\* spinner's loop, and its low word twice as often.  In page mapping the untyped and the
\* cspace have room for the largest test.
SPECIFICATION MCSpec
CONSTANTS
  NoThread = NoThread
  WordBits = 2
  CcntWords = 2
  Runs = 2
  Warmups = 2
  MaxPrio = 3
  IrqRuns = 5
  IrqIgnored = 3
  Period = 24
  Latency = 2
  IrqWordBits = 4
  CcntBits = 5
  PageRuns = 2
  NPages <- MCNPages
  PagePerTable = 2
  UntypedSize = 10
  CSpaceSize = 12
INVARIANTS
  OneWay
  LatencyIsExact
  AssertionsHold
  RowsAreLabelled
PROPERTIES
  RunsAllIpcBenchmarks
  AllPhasesFinish
