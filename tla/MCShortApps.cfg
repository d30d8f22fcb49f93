\* In phase 3 of the signal application the waiter takes two of the merged signals,
\* so with four runs it does not finish, as with the 110 of the code.  In the fault
\* application one of four samples is ignored, and a stamp has three bits, so that the
\* counter wraps within every function.  In vcpu there are three samples of each
\* benchmark and any failure at any of them.
SPECIFICATION MCSpec
CONSTANTS
  NoThread = NoThread
  SignalRuns = 4
  HiSignals = 8
  MaxPrio = 4
  FaultRuns = 4
  FaultIgnored = 1
  FaultWidth = 3
  VcpuIterations = 3
  VcpuThreshold = 5
  VcpuFailures = {"magic", "not_el1", "el1_exception", "sel4_fault"}
INVARIANTS
  SampleIsSound
  PhaseIsComplete
  SampleIsOneLeg
  ElapsedIsOneLeg
  AveragesAreSound
PROPERTIES
  SignalTerminates
  ResumesBehindFault
  RunsAllFaultBenchmarks
  WrongModeEndsInError
