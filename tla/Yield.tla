-------------------------------- MODULE Yield --------------------------------
(***************************************************************************)
(* The yield benchmarks of src/apps/scheduler (benchmark_yield_thread,     *)
(* benchmark_yield_process and their early-processing variants): main      *)
(* stamps start and yields, the yielder stamps *end and yields back, N_RUNS*)
(* times each.  Both run at seL4_MaxPrio, so what happens is decided by    *)
(* the order of the ready queue, which is modelled here as the kernel has  *)
(* it: the head runs, a yield and the end of a time slice move it to the   *)
(* tail.                                                                   *)
(*                                                                         *)
(* A stamp is the number of cycle counter reads made so far in this        *)
(* benchmark; 0 is the uninitialised variable.                             *)
(***************************************************************************)
EXTENDS Integers, Sequences

CONSTANTS
  Main, Yielder,
  Runs,     \* N_RUNS
  Ticks     \* bound on the time slices that end while a benchmark runs

YieldAssumption ==
  /\ Main # Yielder
  /\ Runs \in Nat \ {0}
  /\ Ticks \in Nat

VARIABLES
  ready,     \* the ready queue of seL4_MaxPrio
  pc,
  bench,     \* benchmarks begun
  reads,     \* cycle counter reads in this benchmark
  start, end,
  iter,      \* thread -> iterations of its loop that are complete
  caller,    \* is the yielder blocked in its seL4_Call?
  ticks,     \* time slices that ended in this benchmark
  spoiled    \* samples that are not the time of exactly one yield

vars == <<ready, pc, bench, reads, start, end, iter, caller, ticks, spoiled>>

Thread == {Main, Yielder}
Benchmarks == 4

Init ==
  /\ ready = <<Main>>
  /\ pc = [t \in Thread |-> IF t = Main THEN "begin" ELSE "off"]
  /\ bench = 0
  /\ reads = 0
  /\ start = 0
  /\ end = 0
  /\ iter = [t \in Thread |-> 0]
  /\ caller = FALSE
  /\ ticks = 0
  /\ spoiled = 0

-----------------------------------------------------------------------------
(* The kernel (external).                                                  *)

Current(t) == ready # <<>> /\ Head(ready) = t

Running(t, from, to) ==
  /\ Current(t)
  /\ pc[t] = from
  /\ pc' = [pc EXCEPT ![t] = to]

Rotate == ready' = Append(Tail(ready), Head(ready))

\* The timer ends the time slice of the thread that runs.
Tick ==
  /\ ready # <<>> /\ pc[Main] # "begin" /\ ticks < Ticks
  /\ ticks' = ticks + 1
  /\ Rotate
  /\ UNCHANGED <<pc, bench, reads, start, end, iter, caller, spoiled>>

-----------------------------------------------------------------------------
(* yield_fn.                                                               *)

YielderStamp ==
  /\ Running(Yielder, "stamp", "yield")
  /\ reads' = reads + 1
  /\ end' = reads + 1
  /\ UNCHANGED <<ready, bench, start, iter, caller, ticks, spoiled>>

\* Mutant: the yielder does not yield back.
YielderYield_NoYield ==
  /\ Running(Yielder, "yield", IF iter[Yielder] + 1 < Runs THEN "stamp" ELSE "call")
  /\ iter' = [iter EXCEPT ![Yielder] = @ + 1]
  /\ UNCHANGED <<ready, bench, reads, start, end, caller, ticks, spoiled>>

YielderYield ==
  /\ Running(Yielder, "yield", IF iter[Yielder] + 1 < Runs THEN "stamp" ELSE "call")
  /\ iter' = [iter EXCEPT ![Yielder] = @ + 1]
  /\ Rotate
  /\ UNCHANGED <<bench, reads, start, end, caller, ticks, spoiled>>

\* Mutant: the yielder stops without telling main.
YielderCall_Silent ==
  /\ Running(Yielder, "call", "off")
  /\ ready' = Tail(ready)
  /\ UNCHANGED <<bench, reads, start, end, iter, caller, ticks, spoiled>>

\* The seL4_Call that does not return; it wakes main if main waits already.
YielderCall ==
  /\ Running(Yielder, "call", "off")
  /\ IF pc[Main] = "waiting"
     THEN /\ ready' = Append(Tail(ready), Main)
          /\ caller' = FALSE
     ELSE /\ ready' = Tail(ready)
          /\ caller' = TRUE
  /\ UNCHANGED <<bench, reads, start, end, iter, ticks, spoiled>>

-----------------------------------------------------------------------------
(* benchmark_yield and its callers.                                        *)

\* sel4utils_start_thread or benchmark_spawn_process of a new yielder.
StartYielder ==
  /\ bench < Benchmarks
  /\ Current(Main) /\ pc[Main] = "begin"
  /\ pc' = [pc EXCEPT ![Main] = "stamp", ![Yielder] = "stamp"]
  /\ bench' = bench + 1
  /\ ready' = Append(ready, Yielder)
  /\ reads' = 0
  /\ end' = 0
  /\ iter' = [t \in Thread |-> 0]
  /\ ticks' = 0
  /\ spoiled' = 0
  /\ UNCHANGED <<start, caller>>

MainStamp ==
  /\ Running(Main, "stamp", "yield")
  /\ reads' = reads + 1
  /\ start' = reads + 1
  /\ UNCHANGED <<ready, bench, end, iter, caller, ticks, spoiled>>

MainYield ==
  /\ Running(Main, "yield", "sample")
  /\ Rotate
  /\ UNCHANGED <<bench, reads, start, end, iter, caller, ticks, spoiled>>

\* results[i] = *end - start
MainSample ==
  /\ Running(Main, "sample", IF iter[Main] + 1 < Runs THEN "stamp" ELSE "wait")
  /\ iter' = [iter EXCEPT ![Main] = @ + 1]
  /\ spoiled' = IF end # start + 1 THEN spoiled + 1 ELSE spoiled
  /\ UNCHANGED <<ready, bench, reads, start, end, caller, ticks>>

\* benchmark_wait_children(ep, "yielder", 1)
MainWait ==
  /\ \/ /\ caller
        /\ Running(Main, "wait", "suspend")
        /\ UNCHANGED ready
     \/ /\ ~caller
        /\ Running(Main, "wait", "waiting")
        /\ ready' = Tail(ready)
  /\ caller' = FALSE
  /\ UNCHANGED <<bench, reads, start, end, iter, ticks, spoiled>>

\* seL4_TCB_Suspend of the yielder, which blocks until a reply that never comes; it
\* leaves nobody but main in the queue.
SuspendYielder ==
  /\ Current(Main) /\ pc[Main] \in {"suspend", "waiting"}
  /\ pc' = [pc EXCEPT ![Main] = "begin", ![Yielder] = "off"]
  /\ ready' = <<Main>>
  /\ UNCHANGED <<bench, reads, start, end, iter, caller, ticks, spoiled>>

AtEnd == pc[Main] = "begin" /\ bench = Benchmarks

Finished == AtEnd /\ UNCHANGED vars

ThreadStep ==
  \/ StartYielder \/ MainStamp \/ MainYield \/ MainSample \/ MainWait \/ SuspendYielder
  \/ YielderStamp \/ YielderYield \/ YielderCall

Next == ThreadStep \/ Tick \/ Finished

Spec == Init /\ [][Next]_vars
FairSpec == Spec /\ WF_vars(ThreadStep)

-----------------------------------------------------------------------------
(* Properties.                                                             *)

\* Without a timer tick every sample is the time from main's stamp to the
\* yielder's next one, with one switch in between.  A tick that ends a time
\* slice in the middle puts the two loops out of step, but only locally: it
\* spoils at most two samples, among them those where the yielder is already
\* done and *end - start wraps below zero.
TickSpoilsAtMostTwo == spoiled <= 2 * ticks

\* The benchmarks finish, whichever of the two gets ahead through ticks: main
\* never waits for a yielder that has gone, nor the yielder's call for main.
Termination == <>AtEnd

=============================================================================
