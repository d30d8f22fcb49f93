----------------------------- MODULE MCShortApps ----------------------------
(***************************************************************************)
(* One application, chosen at the start: the signal, the fault or the vcpu *)
(* benchmark.  The driver runs them one after the other, each in a process *)
(* of its own; they have no state in common.                               *)
(***************************************************************************)
EXTENDS Integers, Sequences

CONSTANTS
  NoThread,
  SignalRuns,   \* Runs, HiSignals and MaxPrio of the signal application
  HiSignals,
  MaxPrio,
  FaultRuns,    \* Runs, Ignored and Width of the fault application
  FaultIgnored,
  FaultWidth,
  VcpuIterations,   \* Iterations, Threshold and Failures of the vcpu application
  VcpuThreshold,
  VcpuFailures

VARIABLES
  app,   \* the application that runs
  s_tcb, s_pc, s_active, s_phase, prio, s_iter, s_end, seen, s_sample, left, f_tcb,
  f_pc, f_active, f_caller, f_sc, mcs, bench, f_iter, f_start, f_sample, ip,
  f_clock, g_tcb, g_pc, g_active, g_caller, g_sc, g_clock, log, msg, bm, g_i,
  g_start, g_end, r, g_results, exitstatus, n_guests_exited, pl2, status, drift,
  g_failed

signalvars == <<s_tcb, s_pc, s_active, s_phase, prio, s_iter, s_end, seen, s_sample,
                left>>
faultvars == <<f_tcb, f_pc, f_active, f_caller, f_sc, mcs, bench, f_iter, f_start,
               f_sample, ip, f_clock>>
vcpuvars == <<g_tcb, g_pc, g_active, g_caller, g_sc, g_clock, log, msg, bm, g_i,
              g_start, g_end, r, g_results, exitstatus, n_guests_exited, pl2,
              status, drift, g_failed>>

S == INSTANCE Signal WITH
  Main <- "main", Waiter <- "waiter", Signaller <- "signaller", Runs <- SignalRuns,
  tcb <- s_tcb, pc <- s_pc, active <- s_active,
  phase <- s_phase, iter <- s_iter, end <- s_end, sample <- s_sample

F == INSTANCE Fault WITH
  Runs <- FaultRuns, Ignored <- FaultIgnored, Width <- FaultWidth, tcb <- f_tcb,
  pc <- f_pc, active <- f_active, caller <- f_caller, sc <- f_sc, iter <- f_iter,
  start <- f_start, sample <- f_sample, clock <- f_clock

\* One guest, as in the code.
G == INSTANCE Vcpu WITH
  NGuests <- 1, Iterations <- VcpuIterations, Threshold <- VcpuThreshold,
  Failures <- VcpuFailures, tcb <- g_tcb, pc <- g_pc, active <- g_active,
  caller <- g_caller, sc <- g_sc, clock <- g_clock, i <- g_i, start <- g_start,
  end <- g_end, results <- g_results, failed <- g_failed

ASSUME SignalPartAssumption == S!SignalAssumption
ASSUME FaultPartAssumption == F!FaultAssumption
ASSUME VcpuPartAssumption == G!VcpuAssumption

\* What an application that does not run could choose is fixed.
MCInit ==
  /\ app \in {"signal", "fault", "vcpu"}
  /\ S!Init
  /\ F!Init
  /\ G!Init
  /\ app # "fault" => ~mcs /\ f_clock = 0
  /\ app # "vcpu" => \A b \in G!Benchmark, q \in G!Iteration : drift[1][b][q] = 0

MCNext ==
  /\ UNCHANGED app
  /\ \/ app = "signal" /\ S!Next /\ UNCHANGED <<faultvars, vcpuvars>>
     \/ app = "fault" /\ F!Next /\ UNCHANGED <<signalvars, vcpuvars>>
     \/ app = "vcpu" /\ G!Next /\ UNCHANGED <<signalvars, faultvars>>

allvars == <<app, signalvars, faultvars, vcpuvars>>

\* The processor does not stop.
MCSpec == MCInit /\ [][MCNext]_allvars /\ WF_allvars(MCNext)

-----------------------------------------------------------------------------
(* Properties.                                                             *)

\* Signal: a sample is measured to the stamp of its own iteration, and in phase 3
\* holds no switch to another thread.
SampleIsSound == S!SampleIsSound

\* Signal: benchmark stops the children only when every sample is taken, leaves no
\* signal pending for the next phase, and every first signal is waited for.
PhaseIsComplete == S!PhaseIsComplete

\* Signal: all three phases finish, the third although wait_fn then never does.
SignalTerminates == app = "signal" => S!Termination

\* Fault: every sample that is reported spans the kernel entries it is named after,
\* although the two threads share the stamp without a lock.
SampleIsOneLeg == F!SampleIsOneLeg

\* Fault: a reply makes the faulter go on right behind the instruction that faulted.
ResumesBehindFault == F!ResumesBehindFault

\* Fault: run_benchmark forks and joins faulter and handler for all six pairs; each
\* handler replies to exactly as many faults as its faulter raises.
RunsAllFaultBenchmarks == F!FJ!Spec /\ (app = "fault" => F!FJ!Completes)

\* Vcpu: with success, every sample is the time of its own leg plus its drift.
ElapsedIsOneLeg == G!ElapsedIsOneLeg

\* Vcpu: the averages divide by a positive number and lie among their samples.
AveragesAreSound == G!AveragesAreSound

\* Vcpu: a guest in the wrong mode or with an exception ends in an error.
WrongModeEndsInError == G!WrongModeEndsInError

=============================================================================
