# A TLA+ model of sel4bench

sel4bench measures the seL4 microkernel. A driver (the root task) starts one process per
benchmark, the process measures and leaves its samples in a shared page, and the driver turns
them into statistics and prints them as JSON. Hardly anything of this is covered by tests: a
sample that was measured from the wrong time stamp, or a run that inherits a pending signal from
the run before, gives a plausible wrong number and no other symptom. This project models the
concurrent parts of all benchmarks, the driver with the life of a benchmark process, and the path
from a cycle counter read to a reported figure.

All paths below are relative to `src/`.

## The system and its parts

| part | source | model |
|---|---|---|
| driver: launches benchmarks, serves their RPCs, reclaims, outputs | `apps/sel4bench/src/main.c` | `Driver` |
| life of a benchmark process, timer RPC, exit | `libsel4benchsupport/src/support.c` | `BenchApp` |
| transfer of a result from child to main | `libsel4benchsupport/src/support.c` | `Results` |
| statistics, processing of samples | `apps/sel4bench/src/math.c`, `processing.c` | `Statistics`, `Measure` |
| per-benchmark processing | `apps/sel4bench/src/{hardware,signal,ipc,page_mapping}.c` | `Measure`, `IpcResults`, `PageMapping` |
| sync benchmark | `apps/sync` | `Broadcast`, `ProducerConsumer`, composed in `SyncMain` |
| scheduler benchmark | `apps/scheduler` | `Scheduler` (priorities), `Yield`, composed in `SchedulerMain` |
| signal benchmark | `apps/signal` | `Signal` (threads), `Measure` (samples) |
| hardware benchmark | `apps/hardware` | `Measure` |
| ipc benchmark | `apps/ipc` | `Ipc` (threads), `IpcResults` (overheads) |
| fault benchmark | `apps/fault` | `Fault` |
| irquser benchmark | `apps/irquser` | `IrqUser` |
| smp benchmark | `apps/smp` | `Smp` |
| page mapping benchmark | `apps/page_mapping` | `PageMapping` |
| vcpu benchmark | `apps/vcpu` | `Vcpu` |
| JSON formatting, per-architecture assembly | `json.c`, `printing.c`, `arch*` | not modelled |

Three modules stand for code outside the repository, modelled from how it is used: `Kernel` (seL4
threads, priorities, notifications, endpoints), `Rpc` (calls, replies, scheduling contexts) and
`SyncLib` (binary semaphore and condition variable of libsel4sync). `Yield` has its own kernel
part, because there the order of the ready queue matters, which the other benchmarks leave open.

`ForkJoin` is an abstract specification: what every benchmark with child threads promises,
whatever the children measure. It proceeds in rounds, starts each child once in a round, goes on
only when all children have delivered, and gets through all its rounds. `Scheduler`, `Ipc` and
`Fault` are shown to implement it.

The driver and a process interact by the process's calls on its fault endpoint (`Driver` extends
`BenchApp`; the variable `call` is the message under way). The threads of a benchmark interact
through kernel objects and shared variables; their main thread restarts and suspends them. Two
benchmarks never run at the same time, and have no state in common but what `Driver` reclaims.

## Conventions

* A thread's program is a `pc` label; each system call or shared memory access is one step. A
  thread that blocks has its `pc` already past the call.
* `CanRun` is fixed-priority preemptive scheduling on one core. Between threads of one priority
  any interleaving is allowed: a time slice may end at any step.
* Starting or suspending a thread cancels whatever it was blocked on.
* On an MCS kernel (`mcs`) a thread runs only while it holds a scheduling context; a call lends the
  caller's to a passive receiver and the reply returns it.
* Time is abstracted to what tells a right sample from a wrong one. In `Broadcast`,
  `ProducerConsumer`, `Scheduler` and `Signal` a stamp is the number of the iteration or run that
  wrote it. In `Yield`, `Ipc` and `Fault` the counter counts counter reads, system calls or kernel
  entries, so that a sample says how many of them it spans. In `Vcpu` a system call takes one unit to
  get in, one inside and one to get out. `IrqUser` and `Measure` have cycles.
* Definitions named `X_Something` and marked "Mutant" are plausible mistakes in `X`; they are used
  to confirm that each property can fail.

## Modules

**Broadcast** (`benchmark_broadcast`). Waiters lock, test `shared`, wait on the condition variable;
the broadcaster sets `shared`, stamps and broadcasts; a broadcast is passed on by each woken waiter.
Main restarts everybody `N_RUNS` times on the same objects. **ProducerConsumer**
(`benchmark_producer_consumer` and `_ep`). A one-place fifo, one lock, two condition variables; the
late and the early variant run one after the other. **SyncMain** is the application's main.

**Scheduler** (`benchmark_prio_*`). Four benchmarks, `N_PRIOS` rounds each. High signals, stamps and
waits; low samples and signals back. **Yield** (`benchmark_yield_*`). Two threads at `seL4_MaxPrio`
that yield to each other in a ready queue; `Tick` is the end of a time slice. **SchedulerMain** is the application's
main.

**Signal** (`benchmark`). Signals to a thread of higher priority, twice, and then to one of lower
priority. The averaged signals of the third phase only count towards `HiSignals`.

**Ipc**. The table of benchmarks with its seven kinds of function pairs, `RUNS` times. Each child
sends one of its two last stamps to main, through `Results`, and main takes their difference. On an
MCS kernel main takes a passive server's scheduling context away and gives it back for the report.
**IpcResults**. The overhead loops with their retries, and the ranges that `process_ipc_results`
checks and minimises.

**Fault**. Six pairs of faulter and handler. An instruction address is the label of a `fault()`; the
handler's copy of the instruction pointer, kept between system calls, is `ip`.

**IrqUser**. Spinner, ticker and a periodic timer in four phases. The spinner's stamp is stored in two
parts, with the interrupt possible in between; the interrupt is masked until acknowledged, and main's
steps take an unknown time.

**Smp**. Ping and pong on each core, main on core 0; the cores go on between any two steps of main. A
checkpoint is a label; a restored thread executes the system call it was blocked in again.

**PageMapping**. The child's five phases step by step over a cspace, an untyped and the tables and pages
of its address space; main's loop, which revokes and hands out the same slot again; the flattening and
labelling of the results by the driver.

**Vcpu**. The VMM's receive loop and hypercalls, and a guest through its five benchmarks and its report;
a guest may fail in one of four ways, two at its checks and two in any iteration. An exception of the
guest's kernel hangs it: `VBAR_EL1` does not hold the address of the vector table (disagreement 5), so
`guest_vector_common` is not reached and not modelled. A fault is one after which the label of the reply
decides whether seL4 restarts the thread (user exception, unknown system call); faults of the VM and the
VCPU are retried whatever the label, and would only repeat themselves. The reply leg includes the VMM's next receive,
the call leg its `SaveCaller`, since that is where the code reads the counter.

**BenchApp, Driver**. The driver's loops over benchmarks and iterations, the start of a process,
the receive loop, the clean-up in its order, processing and output. A process may fail or abort in
its initialisation and in its benchmark, its timer allocation may be refused, and it may fault at
any step with any of the interesting values (0, 1, 9000) in the first message register.
`ZF_LOGF` in the driver is the final state `fatal`.

**Statistics, Measure**. `Statistics` has the functions of `math.c` and `process_result` as
operators over words of `Width` bits; the `long double` means are exact fractions, medians and
quartiles are kept doubled and quadrupled. `Measure` runs the flow of the hardware and signal
benchmarks: overhead, minimum overhead (signal only), stored samples, summed samples (the
`DATACOLLECT_GET_SUMS` macro with its bit trick), and the driver's processing of both, including
its refusal of unstable overheads.

`MCProcessing`, `MCShortApps` and `MCLongApps` put several small models into one run: the initial
state chooses the application, and the others do not move.

## Runs

| run | instance | what it shows |
|---|---|---|
| `sync` | 4 waiters, 3 runs; then 4 items, 1 ignored, 2 benchmarks | mutual exclusion; the broadcast finds all waiters asleep; every sample belongs to its run or exchange; the fifo holds what was put and not taken; nothing is left over between runs and benchmarks; termination |
| `scheduler` | 3 rounds of 3 iterations, 4 benchmarks; then 6 yields, 3 ticks, 4 benchmarks | legal priorities; a sample holds exactly the switch from high to low; no signal is lost or left over; `ForkJoin`; a tick spoils at most two samples; termination |
| `short_apps` | signal: 4 runs, 8 high signals | stamps are fresh; the low waiter does not disturb high samples; phases are complete; termination |
| | fault: 4 runs, 1 ignored, 3-bit stamps, with and without MCS | samples span exactly their legs; replies resume behind the fault; `ForkJoin` |
| | vcpu: 1 guest, 3 iterations, every pattern of anomalies in a benchmark, four ways to fail | samples are single legs; averages are sound; a guest in the wrong mode ends in an error |
| `long_apps` | ipc: 2 runs of the whole table, 2 warm-ups, 4-bit counter in two words, with and without MCS | samples are one way of one IPC; `ForkJoin` |
| | irquser: 5 runs, 3 ignored, 5-bit counter in 4-bit words | samples are latency plus age of the stamp; all phases finish |
| | page mapping: 1, 2 and 5 pages, 2 to 4 levels of tables | no assertion fails; every row belongs to its labels |
| `smp` | 2 cores, 2 tests, 2 samples, 2-bit counters | totals are exact; no pair is stuck after a restore |
| `driver` | 3 benchmarks, 1 disabled, 2 iterations, 2 timer frames | clean start of each process; only final results are processed; memory returns to its owner; the driver stops |
| `processing` | 4 samples of hardware, 3 that count of signal, 8-bit words; ipc series of 4, 3 attempts | early sums and early and late statistics are exact; order statistics; an accepted overhead exceeds no sample |
| `measure_hardware` (violated) | 3 samples | the hardware benchmark never sets the overhead its early processing subtracts |
| `measure_mode` (violated) | 4 samples | the reported mode need not be a most frequent value |
| `vcpu_fault` (violated) | 1 guest | a guest stopped by an seL4 fault does not end in an error |
| `vcpu_exception` (violated) | 1 guest | a guest whose kernel takes an exception does not end in an error |
| `smp_passive` (violated) | 1 core, MCS | pong is made passive before it waits |

Bounds. Four waiters give the three roles in a broadcast (woken by the broadcaster, woken by a waiter
with another to wake, last), the middle one twice; three runs give two restarts. Four items let each side
of the fifo run ahead, wait and be woken again. `MaxPrio = 9` with 4-bit words is the tightest case of
`N_PRIOS`: the last priority equals the highest. In `Signal` the waiter can consume only two of the
merged signals of phase 3, so with four runs it does not finish, as with the 110 of the code. In `Fault`
and `Ipc` the loops have a first, a middle and a last pass, and the counters wrap. In `IrqUser` three
samples are ignored because ticks that come while main sets a phase up are delivered before the spinner
runs; the period is long enough for the ticker, as the code assumes. The page counts need one table that
is not full, one that is, and three. Two cores and two tests in `Smp` give a core that joins in the test
after a restore. In `Measure` three or four samples count, so odd and even cases occur, rarely with an
integral mean; samples lie below, at and above the overhead; the counter wraps.

Fairness. The benchmarks assume weak fairness of their next-state relation only: the processor does not
stop. Where threads of one priority interleave freely this suffices, because no thread spins for ever;
the spinner of `IrqUser` is interrupted by the timer. In `Yield` the ticks are bounded, so the threads get
on. `Driver` asks for weak fairness of the driver and of the process, which share a priority; a benchmark
itself is taken to end. `Vcpu_Fault.cfg` and `Vcpu_Exception.cfg` use weak fairness of the VMM and of each guest. No fairness is
asked of the choice to fail.

Deadlock is checked in every passing run; a finished system takes a stuttering step.

## What is proved

Eight modules hold the proofs. A theorem named in parentheses with a property states that property of the
run's specification; each rests on an inductive invariant that TLC has checked on the run's instance as well.

`SyncProofs` proves about the broadcast benchmark, for every number of waiters and of runs: `TypeCorrect`
(in particular the semaphore never exceeds 1), `LockExcludes` (`MutualExclusion`), `RestartsAreSafe`
(`RestartOnlyFinished`), `RunsAreIndependent` (`CleanRestart`), `SamplesAreFresh` (`FreshSamples`) and
`AllWaitersAsleep` (`BroadcastFindsAllWaiting`).

Assumptions: the waiters are a finite, non-empty set, main and broadcaster are distinct from them
and each other, and `Runs` is a natural number. Only `AllWaitersAsleep` uses the priorities; the others
depend on the locks and on main's counting only. None of them is inductive alone. The invariant `IInv`
adds:

* `LockInv`: there is one token for the lock. It is an owner, a signal about to be sent, a pending
  signal, or the value 1.
* `CountInv`: the semaphore's value is 1 minus the number of threads inside, and `cv.waiters` is the
  number of threads in the condition variable. The value alone says who may signal.
* `MainInv`: which thread states go with which labels.
* `BarrierInv`: the messages main waits for are as many as there are threads that have not reported.
  This turns main's counting into "everybody has reported".
* `ChainInv`: a broadcast is in the hands of one woken waiter at a time, or pending, and only after
  `shared` is set. Hence nothing of it is left when all have reported.
* `StampInv`: once `shared` is set the stamp is of this run, and a waiter past its test has a sample of
  this run.

The proof has one lemma per action, and `Invariance` combines them.

For `AllWaitersAsleep` a second invariant `PriorityInv` rests on `IInv`. The broadcaster, which is the least
urgent child, runs only when every waiter is blocked. `BlockedInv` says where a thread can be blocked at
all, and `TokenInv` that the token of the lock is not lost: when nobody holds it or can pass it on,
nobody waits for it. What remains for a blocked waiter on its way is the condition variable (`SleepInv`).

The same module proves about the producer/consumer benchmarks, for every number of items and of ignored
samples: `FifoIsBounded` (`FifoMatchesProgress`), `SamplesAreCaused` (`SamplesMatchSignals`) and
`HandoverIsClean` (`CleanHandover`). All follow from `ProducerConsumerInvariance`, whose invariant `PInv`
again has one token of the lock (`PLockInv`) and main's counting (`PMainInv`). New is `PCvInv`: a thread
counted by its condition variable has been signalled exactly when its condition no longer makes it wait.
With it the fifo can be neither overfilled nor drained twice, and `PFifoInv` ties fifo, stamps, samples
and reported sets to the two iteration counters. The priorities are not used.

`SchedulerProofs` proves for every number of runs, every `seL4_MaxPrio` and word size that
`SchedulerAssumption` admits: `LegalPriorities` (`PrioritiesAreLegal`), `SamplesMeasureSwitches`
(`SampleMeasuresSwitch`), `SignalsAreNotLost` (`NoStraySignal`), and `ImplementsForkJoin`
(`Spec => FJ!Spec`), the safety part of the refinement. Here the priorities are what the argument is
about. The invariant is a disjunction `Joint` of eight joint situations of main, high and low (between
rounds, low started, high signals, high stamps, low measures, both done, one reported, both reported),
each with its labels, thread states, pending signals and counters. A step of low that would spoil one of
them is excluded because a more urgent thread can run (`LowRunsLast`). `CountInv` has main's counters.
For the legality of the last priority, `PriosRoundedUp` and `NextPrioIsLegal` do the arithmetic of
`N_PRIOS`. `Stages`, `Rounds`, `MainImplements` and `ChildImplements` map each step to a step of
`ForkJoin` or a stutter.

The same module proves `TicksAreLocal` (`TickSpoilsAtMostTwo`) about the yield benchmarks, for every
number of iterations and of ticks. That the wrong samples are at most twice the ticks is not inductive: a
tick puts the two loops out of step, and the samples it spoils are taken later, at the end of main's loop
even when the yielder has gone. `Debt` is the number of samples that are bound to be wrong without a
further tick, by the places of both threads, the ready queue and their remaining iterations. The invariant
is `spoiled + Debt <= 2 * ticks`: a tick raises the debt by at most two, a wrong sample moves one from
`Debt` to `spoiled`, and every other step leaves the sum or lowers it.

`ShortAppsProofs` proves about the signal benchmark, for every number of runs and of signals in phase 3
and every `seL4_MaxPrio` that `SignalAssumption` admits: `SamplesAreSound` (`SampleIsSound`) and
`PhasesAreComplete` (`PhaseIsComplete`), both from `SignalInvariance`. As in `SchedulerProofs` the invariant
is a list of joint situations, seven for phases 1 and 2 and four for phase 3, and the step that would leave
the list is one of a thread that cannot run (`SOrder`). That at least three runs are assumed is used in one
place: the waiter takes two signals in phase 3 and must not finish, or main could take its report for the
signaller's.

The same module proves about the fault benchmark, for every number of runs, of ignored samples and every
width of the counter that `FaultAssumption` admits, with and without MCS: `SamplesAreOneLeg`
(`SampleIsOneLeg`), `RepliesResume` (`ResumesBehindFault`) and `FaultForksAndJoins` (`MCSpec => F!FJ!Spec`,
the safety part of `RunsAllFaultBenchmarks`). Faulter and handler each have a loop of their own and share the
stamp without a lock. What keeps them in step is that the faults the handler has replied to are those the
faulter has behind it, in the first fault, the loop or the last one (`Agree`); `FPairs` shows for each of the
six pairs that they also raise and answer the same number. `FInv`, proved by `FaultInvariance`, has `Agree` in
each of nine joint situations of the three threads, with the scheduling contexts that go with them (each its
own; the handler without one; the faulter's lent to the handler), and `FStamps`, what the stamp is worth at each
place of a measurement. The assumption that at least one sample is ignored is needed: the first one may
include the handler's start. So is a counter of more than two values, or a round trip could not be told from
none.

`VcpuProofs` proves about the vcpu benchmark with its one guest, for every number of iterations, every
threshold and every set of failures: `ElapsedOneLeg` (`ElapsedIsOneLeg`) and `AveragesSound`
(`AveragesAreSound`), from `VcpuInvariance`. A sample is made of stamps that guest, kernel and VMM take, and
passes through a message before it is in the shared results. `VInv` follows it: `VLogged`, `VCalled` and
`VStamped` say how far the clock has gone since the first stamp, `VMessage` which message goes with which
place of the guest, `VRecorded` which samples have arrived. `VAverages` is
the invariant of the second theorem: the record has the sum of the samples so far, and the sum of those that
are no anomalies lies between multiples of two of them. The first sample is never an anomaly, so the divisor
is positive.

`LongAppsProofs` proves about the irquser benchmark, for every latency, every width of the counter and of a
word and every period that leaves the ticker three passes of its loop and the spinner two of its own:
`LatencyExact` (`LatencyIsExact`), from `IrqUserInvariance`. Assumed is also that `N_IGNORED` is at least three
(the code has 10). `QTiming` says how old the spinner's stored counter is: stale, read again, stored again, or
stored and now being sampled. Up to three ticks can be on their way when the spinner starts (one raised, one
delivered and one that comes meanwhile), and they are sampled with a stale store; after them `QUntilStored`
bounds the cycles that the ticker and the spinner need until the counter is stored again, and the next tick is
further away. The subtraction of the low words is exact since the two readings are less than a word apart
(`QElapsed`). The provers know no power of two; `IrqUserAssumption` says what is used of them.

It also proves about the page mapping benchmark, for every list of page numbers, number of runs and
size of a page table and for two to four levels of tables: `NoAssertionFails` (`AssertionsHold`) and
`RowsLabelled` (`RowsAreLabelled`), from `PageMappingInvariance`. Assumed is that the untyped and the cspace
have room for every single test. `PmMemory` says that the used slots, the used part of the untyped and the
installed tables are those of the objects made so far in this test, and that nothing is left after the revoke;
`PmTesting` that main has taken as many results as the child has handed over. The labels are computed from a
row's position by a division, whose quotient and remainder are shown to be those of the results' flattening.

`ProcessingProofs` proves about the way of the samples to the figures, for every number of runs, of ignored
samples and of retries and every width of a word:

* `EarlyExact` (`EarlyResultIsExact`), `LateExact` (`LateResultIsExact`) and `OrderExact` (`OrderStatistics`),
  from `MeasureInvariance`. `MInv` says that the stored samples are the real times although the counter
  wraps, that the minimum overhead is the smallest of the overheads, and that `num`, `sum` and `sum2` are the
  number, the sum and the sum of squares of the samples that count, modulo a word. Assumed is that these sums
  fit into a word (`MeasureAssumption`): the code has no guard against it.
* `OverheadSound` (`OverheadIsSound`), from `IpcInvariance`: the series that the retries leave is complete,
  and stable unless it was the last attempt's. If samples 1 to `RUNS`-1 are equal, the minimum of samples 0 to
  `RUNS`-2 is at most their common value.

What the statistics compute is stated in the lemmas of `DriverProofs`, for every series of integers:
`MeanIsExact` (the recurrence of `results_mean` gives the sum divided by the number), `QsortSorts` (the sorted
samples are a permutation, each at the place of its rank), `TotalPermuted` (so sorting does not change mean and
variance), `QuartilesInOrder`, `RankedSample` (the median is the middle sample), `EarlyResult` (the variance from
sums of squares), `HighestBit` (the test without a branch in `DATACOLLECT_GET_SUMS`), `ProcessedResult` (what
`process_result` drops, refuses and reduces). These are recursive functions, and the library's induction
theorems cannot be used by the provers. `LeastNumber`, which follows from the well-founded order of the natural
numbers, takes their place: of the places where a claim fails there would be a first. `Counting` and
`Recursion` follow from it. The provers know no power of two; what is used of `2^Width` is that it is even and
positive, and `StatisticsAssumption` says so.

`SmpProofs` proves for every number of cores, tests and runs and every width of the counters
`TotalIsExact` (`ThroughputIsExact`, on both kinds of kernel) and `PairsRun` (`NoPairIsStuck`, on a kernel
without MCS; with MCS it is false, see disagreement 4). For the first, `CounterInv` says that a counter
shows as many calls after main's first reading as have been made since, modulo `2^CountBits`; fewer calls
than a counter has values fit into a period, so the difference of two readings is exact
(`DifferenceIsExact`). For the second, `Rendezvous` relates the states of ping and pong (ping awaits a
reply exactly when pong owes it one and can run; a pong that receives finds no ping calling), and
`PairStage` says how far the pair of each core is by the place of main: asleep, on its way to the
synchronisation point, signalled, past it, or half reset.

`DriverProofs` proves for every set of benchmarks, number of iterations and of timer frames:
`SuccessorsStartClean` (`CleanStart`), `OnlyFinalResults` (`ProcessedResultsAreFinal`) and
`FreesAreMatched` (`FreesGoToOwner`), with a process that may fail, abort or fault at any step. The
invariant has three parts: `CallInv`, what a process may have sent at each of its labels; `FramesInv`,
what it holds of the driver's memory; `DriverInv`, what the driver may conclude at each of its own. The
point of the argument is that a message with label null fault and code 0 can only be `Exit(EXIT_SUCCESS)`,
and is sent only by a process that has completed its page and returned its frames.

## What is only model-checked

* All liveness properties (`Termination`, `ProducerConsumerTerminates`, `RunsAllRounds`, `YieldTerminates`,
  `SignalTerminates`, `DriverStops`, `RunsAllFaultBenchmarks`, `RunsAllIpcBenchmarks`, `AllPhasesFinish`,
  `WrongModeEndsInError`): the prover handles neither fairness nor `ENABLED`.
* `OneWay` of `Ipc`: no proof has been written.

## Disagreements found

1. `apps/hardware/src/main.c:53` subtracts `overhead_min`, which nothing sets.
   `libsel4benchsupport/include/benchmark.h:51-52` asks for the minimum overhead to be calculated
   first. The early result therefore includes the overhead and the late one does not.
2. `apps/sel4bench/src/math.c:117`: the last run of equal values is not compared with the others, so
   the value reported as `Mode` may be wrong.
3. `apps/vcpu/src/main.c:522` answers an seL4 fault of a guest with a label that leaves it stopped. It
   never exits, and main waits for ever, although lines 711-712 promise an error if any guest failed.
4. `apps/smp/src/main.c:220`: from the second test on, on an MCS kernel, pong is made passive before it
   has executed its wait. Its notification then lends the scheduling context to nobody, and the pair
   makes no calls. The comment at line 120 says that pong waits and is then converted.

5. `apps/vcpu/src/guest.c:512-517` loads into `VBAR_EL1` what is stored at `aarch64_el1_vector_table`,
   which line 35 declares as a pointer and `guest_asm.S:24` defines as the table itself; the table is
   also aligned to 0x100 instead of 0x800. An exception of the guest's kernel never gets to
   `guest_vector_common`, no exit status is sent, and main waits for ever, again against lines 711-712.

Smaller observations, made while reading and not checked by a run:

* `README.md:23-24` names the delimiters `BEGIN JSON OUPUT` and `END JSON OUPUT` of the output. The code
  prints `JSON OUTPUT` and `END JSON OUTPUT` (`apps/sel4bench/src/main.c:318-327`).
* `apps/ipc/src/main.c:345-347`: the comment says to clean the server first, the code suspends the
  client first. Neither call frees anything.
* `apps/smp/src/main.c:206-209`: two yields do not make the threads of another core run to their
  synchronisation point.
* `apps/vcpu/src/guest.c:731`: `guest_results` is one static variable for all guests. With more than one
  guest they would overwrite each other's samples (`main.c:18` says that several guests are supported).
* `apps/vcpu/src/guest.c:702`: the minimum starts from the zero that `memset` leaves.
* `apps/scheduler/src/main.c:91` subtracts the minimum of another overhead than the driver does for the
  same benchmark processed late.
* `apps/signal/src/main.c:289`: the slab allocator is sized for two threads, and three are configured.

## Limits of the models

* The kernel is the one the benchmarks assume: no kernel errors from system calls that the code
  only asserts on, and no faulting child threads but in `Fault` and `Vcpu`. A fault of the main
  thread of a process is in `BenchApp`.
* `LateResultIsExact`, `OrderStatistics` and `EarlyResultIsExact` speak of samples that are not below
  the overhead. The code subtracts without a guard (`processing.c:60`), and a smaller sample wraps.
* Square roots (standard deviations) and floating point rounding are left out.
* `Smp` assumes that a timer period is long enough for the threads to synchronise, and that fewer calls
  fit into it than a counter can count. The delay loops take no step and the scaling of the total is left
  out. `NoPairIsStuck` is checked for a kernel without MCS; with MCS it fails as in disagreement 4.
  `ThroughputIsExact` compares each core with its own window between the two readings of its counter: the
  windows of two cores are not the same, since main reads the counters one after the other.
* In `PageMapping` a second level table may be there before the child maps its own, as where `Map` then
  returns `seL4_DeleteFirst` (x86_64). On AArch64 `Map` would go deeper instead; `START_ADDR` is chosen to
  avoid this (`main.c:14-16`), and it is not modelled.
* `OneWay` excepts a counter that wraps between the two stamps of a sample: the code then takes the larger
  minus the smaller all the same.

## Not modelled

* The overhead measurements of the scheduler, fault, page mapping and irquser benchmarks: loops without
  other threads, like those in `Measure` and `IpcResults`.
* The averages over performance counters (scheduler, signal) and `process_average_results`: what the
  counters count is not in this code.
* The capability enumeration of `init_simple`, the creation of threads and processes and `init_vspace`:
  they fill structures for libraries of other repositories, and what those do with them is not here. In
  particular `existing_frames` (`support.c:140`) has no room for the frame that is appended last.
* The boot of the root task, JSON and printing: straight-line code without state of its own.
* Assembly (per-architecture system calls, the guest's vectors), cache maintenance, the overhead of
  reading the counter in `apps/vcpu`, and the distribution in `apps/smp/src/rnorrexp.h`: no protocol, or
  numeric code over floating point.
* The rest of the per-benchmark processing arranges calls of `process_results` and columns of constants.
