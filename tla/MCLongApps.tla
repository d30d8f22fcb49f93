------------------------------ MODULE MCLongApps -----------------------------
(***************************************************************************)
(* One application, chosen at the start: the ipc, the irquser or the page  *)
(* mapping benchmark.  As in MCShortApps they have no state in common.     *)
(***************************************************************************)
EXTENDS Ipc

CONSTANTS
  IrqRuns, IrqIgnored, Period, Latency, IrqWordBits, CcntBits,   \* of IrqUser
  PageRuns, NPages, PagePerTable, UntypedSize, CSpaceSize        \* of PageMapping

VARIABLES
  app,   \* the application that runs
  q_tcb, q_pc, q_active, phase, q_clock, due, raised, masked, q_iter, reg, low, high,
  q_end, q_sample,
  p_tcb, p_pc, p_active, levels, topMapped, cspace, next_free, used, tables, rights,
  p_run, test, k, p_results, p_phase, p_i, free_slot, page_ptr_start, cost, p_mr,
  p_failed

irqvars == <<q_tcb, q_pc, q_active, phase, q_clock, due, raised, masked, q_iter, reg, low,
             high, q_end, q_sample>>
pagemappingvars == <<p_tcb, p_pc, p_active, levels, topMapped, cspace, next_free, used,
                     tables, rights, p_run, test, k, p_results, p_phase, p_i,
                     free_slot, page_ptr_start, cost, p_mr, p_failed>>

Q == INSTANCE IrqUser WITH
  Runs <- IrqRuns, Ignored <- IrqIgnored, WordBits <- IrqWordBits, tcb <- q_tcb,
  pc <- q_pc, active <- q_active, clock <- q_clock, iter <- q_iter, end <- q_end,
  sample <- q_sample

P == INSTANCE PageMapping WITH
  Runs <- PageRuns, tcb <- p_tcb, pc <- p_pc, active <- p_active, run <- p_run,
  results <- p_results, phase <- p_phase, i <- p_i, mr <- p_mr, failed <- p_failed

\* Numbers of pages that need one page table, not full; one, full; three, of which
\* the last is not full.
MCNPages == <<1, 2, 5>>

ASSUME IpcAssumption
ASSUME ResultsAssumption
ASSUME IrqUserPartAssumption == Q!IrqUserAssumption
ASSUME PageMappingPartAssumption == P!PageMappingAssumption

\* What an application that does not run could choose is fixed.
MCInit ==
  /\ app \in {"ipc", "irquser", "page_mapping"}
  /\ Init
  /\ Q!Init
  /\ P!Init
  /\ app # "ipc" => ~mcs
  /\ app # "irquser" => q_clock = 0
  /\ app # "page_mapping" => levels = 2

MCNext ==
  /\ UNCHANGED app
  /\ \/ app = "ipc" /\ Next /\ UNCHANGED <<irqvars, pagemappingvars>>
     \/ app = "irquser" /\ Q!Next /\ UNCHANGED <<vars, pagemappingvars>>
     \/ app = "page_mapping" /\ P!Next /\ UNCHANGED <<vars, irqvars>>

allvars == <<app, vars, irqvars, pagemappingvars>>

\* The processor does not stop.
MCSpec == MCInit /\ [][MCNext]_allvars /\ WF_allvars(MCNext)

-----------------------------------------------------------------------------
(* Properties; OneWay is used as it is.                                    *)

\* Ipc: run_bench forks and joins client and server for every entry of
\* benchmark_params, whatever the order of equally urgent threads, passive server or
\* not.
RunsAllIpcBenchmarks == FJ!Spec /\ (app = "ipc" => FJ!Completes)

\* Irquser: a sample is the interrupt latency plus the age of the spinner's last
\* write, wherever its two-part store is interrupted and the counter wraps.
LatencyIsExact == Q!LatencyIsExact

\* Irquser: all four phases finish, whatever ticks are lost or kept back between.
AllPhasesFinish == app = "irquser" => Q!AllPhasesFinish

\* Page mapping: no assertion of bench_proc fails, in whatever order the tests
\* follow each other.
AssertionsHold == P!AssertionsHold

\* Page mapping: every row of the reported table holds the cost of the phase and of
\* the number of pages of its labels.
RowsAreLabelled == P!RowsAreLabelled

=============================================================================
