----------------------------- MODULE IpcResults -----------------------------
(***************************************************************************)
(* The samples of the ipc benchmark on their way to a figure.              *)
(* MEASURE_OVERHEAD of src/apps/ipc repeats a series of overhead samples   *)
(* until it is stable, a limited number of times; process_ipc_results of   *)
(* src/apps/sel4bench checks the last series again, over another range of  *)
(* it, and takes its minimum over a third.  One of the six overheads and   *)
(* one benchmark that uses it are modelled: the others are alike.          *)
(***************************************************************************)
EXTENDS Statistics

CONSTANTS
  Runs,            \* RUNS
  Retries,         \* OVERHEAD_RETRIES
  OverheadTimes,   \* what a measured overhead may be
  Times            \* what a measured IPC may be

IpcResultsAssumption ==
  /\ Runs \in Nat /\ Runs >= 3 /\ Retries \in Nat \ {0}
  /\ OverheadTimes \subseteq 0..Modulus - 1 /\ Times \subseteq 0..Modulus - 1

VARIABLES
  phase,
  attempt,      \* series of overhead samples begun
  overhead,     \* overhead_benchmarks: the current series
  benchmark,    \* benchmarks: the samples
  result        \* what the driver makes of them; <<>> if it refuses them

vars == <<phase, attempt, overhead, benchmark, result>>

Init ==
  /\ phase = "overhead"
  /\ attempt = 1
  /\ overhead = <<>>
  /\ benchmark = <<>>
  /\ result = <<>>

\* One sample of MEASURE_OVERHEAD; it counts the last of WARMUPS passes.  A complete
\* series ends it if it is stable, or if it was the last.
MeasureOverhead ==
  /\ phase = "overhead"
  /\ \E time \in OverheadTimes : LET dest == Append(overhead, time) IN
        IF Len(dest) = Runs /\ ~results_stable(dest) /\ attempt < Retries
        THEN overhead' = <<>> /\ attempt' = attempt + 1 /\ UNCHANGED phase
        ELSE /\ overhead' = dest
             /\ phase' = IF Len(dest) = Runs THEN "benchmark" ELSE phase
             /\ UNCHANGED attempt
  /\ UNCHANGED <<benchmark, result>>

\* A sample of run_bench.
MeasureBenchmark ==
  /\ phase = "benchmark"
  /\ \E time \in Times : benchmark' = Append(benchmark, time)
  /\ phase' = IF Len(benchmark) + 1 = Runs THEN "process" ELSE phase
  /\ UNCHANGED <<attempt, overhead, result>>

Desc(o) == [stable |-> FALSE, ignored |-> 0, overhead |-> o]

\* Mutant: the check leaves out the last sample too.
Accepted_Shorter == results_stable(SubSeq(overhead, 2, Runs - 1)) \/ AllowUnstable

\* The check of process_ipc_results leaves out the first sample,
Accepted == results_stable(SubSeq(overhead, 2, Runs)) \/ AllowUnstable

\* its minimum leaves out the last.
Overhead == process_result(SubSeq(overhead, 1, Runs - 1), Desc(0)).min

process_ipc_results ==
  /\ phase = "process"
  /\ phase' = "done"
  /\ result' = IF Accepted THEN process_result(benchmark, Desc(Overhead)) ELSE <<>>
  /\ UNCHANGED <<attempt, overhead, benchmark>>

Done == phase = "done" /\ UNCHANGED vars

Next == MeasureOverhead \/ MeasureBenchmark \/ process_ipc_results \/ Done

Spec == Init /\ [][Next]_vars

-----------------------------------------------------------------------------
(* Properties.                                                             *)

\* Although the driver checks one range of the overhead samples and takes the
\* minimum of another, an accepted overhead exceeds none of the samples, so that a
\* benchmark is never reduced by more than every measurement of the overhead shows;
\* and results are refused only if all OVERHEAD_RETRIES series were unstable.
OverheadIsSound ==
  phase = "done" =>
    IF result = <<>> THEN attempt = Retries /\ ~results_stable(overhead)
    ELSE ~AllowUnstable => \A i \in 1..Runs : Overhead <= overhead[i]

=============================================================================
