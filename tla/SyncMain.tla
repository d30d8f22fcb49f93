------------------------------ MODULE SyncMain ------------------------------
(***************************************************************************)
(* main of src/apps/sync: the broadcast benchmark, then, with a new lock   *)
(* and new condition variables, the two producer/consumer benchmarks.  The *)
(* lock and the condition variable of the first are destroyed before.  The *)
(* endpoint done_ep serves all three; that the broadcast leaves nobody     *)
(* sending on it is part of CleanRestart.                                  *)
(***************************************************************************)
EXTENDS Broadcast

CONSTANTS Producer, Consumer, Items, Ignored   \* Items is the N_RUNS of the second part

VARIABLES p_tcb, p_pc, p_active, p_value, p_cv, phase, fifo_head, iter, stamp, p_sample,
          reported, p_todo, p_left

pcvars == <<p_tcb, p_pc, p_active, p_value, p_cv, phase, fifo_head, iter, stamp, p_sample,
            reported, p_todo, p_left>>

PC == INSTANCE ProducerConsumer WITH
  Runs <- Items, tcb <- p_tcb, pc <- p_pc, active <- p_active, value <- p_value,
  cv <- p_cv, sample <- p_sample, todo <- p_todo, left <- p_left

ASSUME SecondPartAssumption == PC!PCAssumption

MainInit == Init /\ PC!Init

\* benchmark_broadcast, and when it has returned, benchmark_producer_consumer and
\* benchmark_producer_consumer_ep.
MainNext ==
  \/ Next /\ UNCHANGED pcvars
  \/ pc[Main] = "end" /\ PC!Next /\ UNCHANGED vars

\* The processor does not stop.
MainSpec == MainInit /\ [][MainNext]_<<vars, pcvars>> /\ WF_<<vars, pcvars>>(MainNext)

-----------------------------------------------------------------------------
(* Properties; those of Broadcast are used as they are.                    *)

\* The fifo of the producer/consumer benchmarks holds what has been put in and not
\* been taken out, between every two accesses.
FifoMatchesProgress == PC!FifoMatchesProgress

\* Each sample of the producer/consumer benchmarks is measured from the stamp of the
\* signal that caused it.
SamplesMatchSignals == PC!SamplesMatchSignals

\* Lock, condition variables and fifo are as new when the early processing variant
\* of the producer/consumer benchmark starts with them.
CleanHandover == PC!CleanHandover

\* The application gets to the end of the last benchmark: no wakeup is lost between
\* the test of the fifo and the wait on a condition variable.
ProducerConsumerTerminates == PC!Termination

=============================================================================
