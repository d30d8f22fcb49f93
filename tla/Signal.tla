-------------------------------- MODULE Signal --------------------------------
(***************************************************************************)
(* src/apps/signal: three phases over one endpoint and one notification.   *)
(* In phase 1 (late processing) and phase 2 (early processing) a signaller *)
(* wakes a waiter of higher priority, which stamps *end, and measures from *)
(* its own stamp to the waiter's.  In phase 3 the priorities are swapped,  *)
(* main is put below both, and the signaller measures signals that do not  *)
(* switch threads.                                                         *)
(*                                                                         *)
(* Phase 2 uses a thread of its own as the signaller; since the one of     *)
(* phase 1 is suspended meanwhile, both are Signaller here.  A stamp of    *)
(* the waiter is abstracted to the phase and the iteration that wrote it.  *)
(***************************************************************************)
EXTENDS Kernel

CONSTANTS
  Main, Waiter, Signaller,
  Runs,          \* N_RUNS
  HiSignals,     \* signals of phase 3: N_RUNS single ones and the averaged ones
  MaxPrio        \* seL4_MaxPrio

SignalAssumption ==
  /\ Main # Waiter /\ Main # Signaller /\ Waiter # Signaller
  /\ Runs \in Nat /\ Runs >= 3
  /\ HiSignals \in Nat /\ HiSignals >= Runs
  /\ MaxPrio \in Nat /\ MaxPrio >= 2

VARIABLES
  phase,     \* phases begun
  prio,      \* thread -> priority
  iter,      \* thread -> iterations of its loop that are complete
  end,       \* the waiter's stamp, shared with the signaller
  seen,      \* waiter iterations complete when the signaller read its start stamp
  sample,    \* the stamp the signaller last measured to
  left       \* messages benchmark_wait_children still waits for

vars == <<tcb, pc, active, phase, prio, iter, end, seen, sample, left>>

Phases == 3
Child == {Waiter, Signaller}
Thread == Child \cup {Main}
Ntfn == "ntfn"
DoneEp == "done_ep"

\* Mutant: waiter and signaller share a priority.
Configure_SamePrio ==
  [t \in Thread |-> IF t = Main THEN MaxPrio ELSE MaxPrio - 1]

\* benchmark_configure_thread of the children; main has the highest priority.
Configure ==
  [t \in Thread |-> IF t = Signaller THEN MaxPrio - 1 ELSE MaxPrio]

Init ==
  /\ tcb = [t \in Thread |-> IF t = Main THEN Running ELSE Inactive]
  /\ pc = [t \in Thread |-> IF t = Main THEN "begin" ELSE "off"]
  /\ active = [n \in {Ntfn} |-> FALSE]
  /\ phase = 0
  /\ prio = Configure
  /\ iter = [t \in Child |-> 0]
  /\ end = <<0, 0>>
  /\ seen = 0
  /\ sample = <<0, 0>>
  /\ left = 0

-----------------------------------------------------------------------------
(* The children.                                                           *)

\* wait_fn's loop: DO_REAL_WAIT, SEL4BENCH_READ_CCNT(*end).
WaiterStep ==
  \/ /\ Step(Waiter, "loop", "stamp")
     /\ Wait(Waiter, Ntfn)
     /\ UNCHANGED <<iter, end>>
  \/ /\ Step(Waiter, "stamp", IF iter[Waiter] + 1 < Runs THEN "loop" ELSE "done")
     /\ end' = <<phase, iter[Waiter] + 1>>
     /\ iter' = [iter EXCEPT ![Waiter] = @ + 1]
     /\ UNCHANGED <<tcb, active>>

Signals == IF phase = 3 THEN HiSignals ELSE Runs

\* The loops of low_prio_signal_fn, low_prio_signal_early_proc_fn and
\* high_prio_signal_fn: read the start, DO_REAL_SIGNAL, take the sample.
SignallerStep ==
  \/ /\ Step(Signaller, "loop", "signal")
     /\ seen' = iter[Waiter]
     /\ UNCHANGED <<tcb, active, iter, sample>>
  \/ /\ Step(Signaller, "signal", "sample")
     /\ Signal(Ntfn)
     /\ UNCHANGED <<iter, seen, sample>>
  \/ /\ Step(Signaller, "sample", "next")
     /\ sample' = end
     /\ UNCHANGED <<tcb, active, iter, seen>>
  \/ /\ Step(Signaller, "next", IF iter[Signaller] + 1 < Signals THEN "loop" ELSE "done")
     /\ iter' = [iter EXCEPT ![Signaller] = @ + 1]
     /\ UNCHANGED <<tcb, active, seen, sample>>

\* The end of every child: seL4_Send(done_ep), seL4_Wait(ntfn).
Report(t) ==
  \/ Step(t, "done", "block") /\ Send(t, DoneEp)
  \/ Step(t, "block", "off") /\ Wait(t, Ntfn)

ChildStep(t) ==
  /\ CanRun(t, prio)
  /\ \/ t = Waiter /\ WaiterStep /\ UNCHANGED <<seen, sample>>
     \/ t = Signaller /\ SignallerStep /\ UNCHANGED end
     \/ Report(t) /\ UNCHANGED <<iter, end, seen, sample>>
  /\ UNCHANGED <<phase, prio, left>>

-----------------------------------------------------------------------------
(* benchmark, the main thread.                                             *)

\* The order in which start_threads and stop_threads treat the children.
First  == IF phase = 3 THEN Waiter ELSE Signaller
Second == IF phase = 3 THEN Signaller ELSE Waiter

\* The three calls of seL4_TCB_SetPriority before phase 3.
SwapPriorities ==
  [t \in Thread |-> CASE t = Waiter    -> MaxPrio - 1
                      [] t = Signaller -> MaxPrio
                      [] t = Main      -> MaxPrio - 2]

BeginPhase ==
  /\ pc[Main] = "begin" /\ phase < Phases
  /\ pc' = [pc EXCEPT ![Main] = "start1"]
  /\ phase' = phase + 1
  /\ prio' = IF phase' = 3 THEN SwapPriorities ELSE prio
  /\ UNCHANGED <<tcb, active, iter, end, seen, sample, left>>

\* Mutant: one message is enough in every phase.
Children_One == 1

\* Mutant: main waits for both children in every phase.
Children_Two == 2

\* What benchmark_wait_children is asked to wait for.
Children == IF phase = 3 THEN 1 ELSE 2

StartChild ==
  /\ \/ /\ pc[Main] = "start1"
        /\ pc' = [pc EXCEPT ![First] = "loop", ![Main] = "start2"]
        /\ iter' = [iter EXCEPT ![First] = 0]
        /\ SetState(First, Running)
        /\ UNCHANGED left
     \/ /\ pc[Main] = "start2"
        /\ pc' = [pc EXCEPT ![Second] = "loop", ![Main] = "collect"]
        /\ iter' = [iter EXCEPT ![Second] = 0]
        /\ SetState(Second, Running)
        /\ left' = Children
  /\ UNCHANGED <<active, phase, prio, end, seen, sample>>

WaitChild ==
  /\ pc[Main] = "collect"
  /\ \/ /\ left > 0
        /\ left' = left - 1
        /\ Recv(Main, DoneEp)
        /\ UNCHANGED pc
     \/ /\ left = 0
        /\ pc' = [pc EXCEPT ![Main] = "stop1"]
        /\ UNCHANGED <<tcb, active, left>>
  /\ UNCHANGED <<phase, prio, iter, end, seen, sample>>

StopChild ==
  /\ \/ /\ pc[Main] = "stop1"
        /\ pc' = [pc EXCEPT ![First] = "off", ![Main] = "stop2"]
        /\ SetState(First, Inactive)
     \/ /\ pc[Main] = "stop2"
        /\ pc' = [pc EXCEPT ![Second] = "off", ![Main] = "begin"]
        /\ SetState(Second, Inactive)
  /\ UNCHANGED <<active, phase, prio, iter, end, seen, sample, left>>

MainStep == CanRun(Main, prio) /\ (BeginPhase \/ StartChild \/ WaitChild \/ StopChild)

AtEnd == pc[Main] = "begin" /\ phase = Phases

Finished == AtEnd /\ UNCHANGED vars

Next ==
  \/ MainStep
  \/ \E t \in Child : ChildStep(t)
  \/ Finished

Spec == Init /\ [][Next]_vars
FairSpec == Spec /\ WF_vars(Next)

-----------------------------------------------------------------------------
(* Properties.                                                             *)

\* In phases 1 and 2 the stamp that low_prio_signal_fn subtracts its start from is
\* the one that wait_fn wrote in the same iteration of the same phase, although
\* nothing but the priorities makes the signaller wait for it.  In phase 3 wait_fn
\* makes no progress between the start and the end stamp of high_prio_signal_fn: a
\* sample there holds no switch to another thread.
SampleIsSound ==
  /\ pc[Signaller] = "next" /\ phase < 3 => sample = <<phase, iter[Signaller] + 1>>
  /\ pc[Signaller] \in {"signal", "sample", "next"} /\ phase = 3 => iter[Waiter] = seen

\* benchmark stops the children only when every sample of the phase is taken, and
\* phases 2 and 3 begin with no signal pending that would wake the waiter too early.
\* The first signal of every phase finds the waiter waiting for it; in phase 3 this
\* is why benchmark lowers its own priority ("so the waiting thread can get on the
\* endpoint").
PhaseIsComplete ==
  /\ pc[Main] = "stop1" => /\ iter[Signaller] = Signals
                           /\ phase < 3 => iter[Waiter] = Runs
  /\ pc[Main] \in {"begin", "start1", "start2"} /\ phase < 3 => ~active[Ntfn]
  /\ pc[Signaller] = "signal" /\ iter[Signaller] = 0 => tcb[Waiter] = WaitingOn(Ntfn)

\* All three phases finish, the third although wait_fn then never does.
Termination == <>AtEnd

=============================================================================
