---------------------------- MODULE MCProcessing ----------------------------
(***************************************************************************)
(* The samples of one benchmark on their way to its figures: of the        *)
(* hardware or the signal benchmark (Measure), or of the ipc benchmark     *)
(* (IpcResults).                                                           *)
(***************************************************************************)
EXTENDS Statistics

CONSTANTS
  Apps, Runs, Ignoreds, OverheadTimes, Times,       \* of Measure
  IpcRuns, IpcRetries, IpcOverheadTimes, IpcTimes   \* of IpcResults

VARIABLES
  which,   \* whose samples these are
  m_app, m_ignored, m_phase, m_overhead, late, early, overhead_min, sum, sum2, num,
  late_result, early_result, ipc_phase, attempt, ipc_overhead, benchmark, ipc_result

measurevars == <<m_app, m_ignored, m_phase, m_overhead, late, early, overhead_min, sum,
                 sum2, num, late_result, early_result>>
ipcvars == <<ipc_phase, attempt, ipc_overhead, benchmark, ipc_result>>

M == INSTANCE Measure WITH
  app <- m_app, ignored <- m_ignored, phase <- m_phase, overhead <- m_overhead

Ipc == INSTANCE IpcResults WITH
  Runs <- IpcRuns, Retries <- IpcRetries, OverheadTimes <- IpcOverheadTimes,
  Times <- IpcTimes, phase <- ipc_phase, overhead <- ipc_overhead,
  result <- ipc_result

ASSUME MeasurePartAssumption == M!MeasureAssumption
ASSUME IpcPartAssumption == Ipc!IpcResultsAssumption

\* What a benchmark that does not run could choose is fixed.
MCInit ==
  /\ which \in {"measure", "ipc"}
  /\ M!Init
  /\ Ipc!Init
  /\ which # "measure" => m_app = "signal" /\ m_ignored = 0

MCNext ==
  /\ UNCHANGED which
  /\ \/ which = "measure" /\ M!Next /\ UNCHANGED ipcvars
     \/ which = "ipc" /\ Ipc!Next /\ UNCHANGED measurevars

allvars == <<which, measurevars, ipcvars>>

MCSpec == MCInit /\ [][MCNext]_allvars

-----------------------------------------------------------------------------
(* Properties.                                                             *)

\* The mean and the variance of the samples that were summed up are exact.
EarlyResultIsExact == M!EarlyResultIsExact

\* The mean and the variance of the samples that were stored are exact.
LateResultIsExact == M!LateResultIsExact

\* The order statistics are in order and the median is in the middle.
OrderStatistics == M!OrderStatistics

\* Although process_ipc_results checks one range of the overhead samples and takes
\* the minimum of another, an accepted overhead exceeds none of them, and results
\* are refused only if all OVERHEAD_RETRIES series were unstable.
OverheadIsSound == Ipc!OverheadIsSound

=============================================================================
