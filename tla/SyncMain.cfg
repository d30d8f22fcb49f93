\* main of apps/sync.
\* Four waiters: one woken by the broadcaster, two that wake another, one that is
\* the last.  Three runs: two restarts.  Four items of which one is ignored: each
\* side of the fifo gets ahead, waits and is woken again.
SPECIFICATION MainSpec
CONSTANTS
  Main = main
  Broadcaster = broadcaster
  Waiter = {w1, w2, w3, w4}
  Runs = 3
  Producer = producer
  Consumer = consumer
  Items = 4
  Ignored = 1
INVARIANTS
  MutualExclusion
  BroadcastFindsAllWaiting
  FreshSamples
  CleanRestart
  FifoMatchesProgress
  SamplesMatchSignals
  CleanHandover
PROPERTIES
  Termination
  ProducerConsumerTerminates
