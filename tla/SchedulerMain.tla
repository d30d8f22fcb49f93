---------------------------- MODULE SchedulerMain ----------------------------
(***************************************************************************)
(* main of src/apps/scheduler: the four priority benchmarks (Scheduler),   *)
(* then the four yield benchmarks (Yield), with new objects and threads.   *)
(***************************************************************************)
EXTENDS Scheduler

CONSTANTS Yielder, YieldRuns, Ticks   \* YieldRuns is N_RUNS again

VARIABLES ready, y_pc, y_bench, reads, y_start, end, y_iter, caller, ticks, spoiled

yieldvars == <<ready, y_pc, y_bench, reads, y_start, end, y_iter, caller, ticks, spoiled>>

Y == INSTANCE Yield WITH
  Runs <- YieldRuns, pc <- y_pc, bench <- y_bench, start <- y_start, iter <- y_iter

ASSUME SecondPartAssumption == Y!YieldAssumption

MainInit == Init /\ Y!Init

\* benchmark_prio_threads and its variants, and when they have returned,
\* benchmark_yield_thread and its variants.
MainNext ==
  \/ Next /\ UNCHANGED yieldvars
  \/ AtEnd /\ Y!Next /\ UNCHANGED vars

\* The processor does not stop.  Since time slices end at most Ticks times in a
\* yield benchmark, the threads get on as well.
MainSpec == MainInit /\ [][MainNext]_<<vars, yieldvars>> /\ WF_<<vars, yieldvars>>(MainNext)

-----------------------------------------------------------------------------
(* Properties; those of Scheduler are used as they are.                    *)

\* A tick in the middle of a yield benchmark spoils at most two of its samples.
TickSpoilsAtMostTwo == Y!TickSpoilsAtMostTwo

\* The application gets to the end of the last yield benchmark, whichever of main
\* and the yielder gets ahead through ticks.
YieldTerminates == Y!Termination

=============================================================================
