------------------------------ MODULE Scheduler ------------------------------
(***************************************************************************)
(* The priority benchmarks of src/apps/scheduler: benchmark_prio_threads,  *)
(* benchmark_prio_processes and their early-processing variants, one after *)
(* the other on the same endpoint and notifications.  In each round high   *)
(* is given another priority and both threads are restarted; high signals  *)
(* produce, stamps *start and blocks on consume; low, at the lowest        *)
(* priority, measures how long the switch to it took.                      *)
(*                                                                         *)
(* A stamp is abstracted to the iteration of high that wrote it, counted   *)
(* over the whole benchmark (0 for the uninitialised variable), so that a  *)
(* stamp of an earlier round is told apart as well.                        *)
(***************************************************************************)
EXTENDS Kernel

CONSTANTS
  Main, High, Low,
  Runs,         \* N_RUNS
  MaxPrio,      \* seL4_MaxPrio
  WordBits      \* seL4_WordBits

ASSUME SchedulerAssumption ==
  /\ Main # High /\ Main # Low /\ High # Low
  /\ Runs \in Nat \ {0}
  /\ MaxPrio \in 1..255
  /\ WordBits \in Nat \ {0}

VARIABLES
  bench,    \* benchmarks begun
  round,    \* rounds begun in this benchmark
  hprio,    \* high's priority
  iter,     \* thread -> iterations of its loop that are complete
  start,    \* the shared stamp
  sample,   \* the stamp of low's last sample
  left      \* messages benchmark_wait_children still waits for

svars == <<bench, round, hprio, iter, start, sample, left>>
vars == <<tcb, pc, active, bench, round, hprio, iter, start, sample, left>>

MinPrio == 0
Benchmarks == 4
Child == {High, Low}
Thread == Child \cup {Main}
Produce == "produce"
Consume == "consume"
DoneEp == "done_ep"

\* Mutant: rounded up to the next multiple of the word size, and one more.
N_PRIOS_OneMore == (MaxPrio + WordBits - 1) \div WordBits + 1

N_PRIOS == (MaxPrio + WordBits - 1) \div WordBits

gen_next_prio(i) == MinPrio + 1 + i * WordBits

prio == [t \in Thread |-> CASE t = Main -> MaxPrio
                            [] t = High -> hprio
                            [] t = Low  -> MinPrio]

\* The number of the iteration of high that is under way, over all rounds.
Stamp == ((bench - 1) * N_PRIOS + round - 1) * Runs + iter[High] + 1

Init ==
  /\ tcb = [t \in Thread |-> IF t = Main THEN Running ELSE Inactive]
  /\ pc = [t \in Thread |-> IF t = Main THEN "begin" ELSE "off"]
  /\ active = [n \in {Produce, Consume} |-> FALSE]
  /\ bench = 0
  /\ round = 0
  /\ hprio = MinPrio
  /\ iter = [t \in Child |-> 0]
  /\ start = 0
  /\ sample = 0
  /\ left = 0

-----------------------------------------------------------------------------
(* The two children.                                                       *)

NextLabel(t) == IF iter[t] + 1 < Runs THEN "loop" ELSE "done"

\* high_fn's loop: DO_REAL_SIGNAL, SEL4BENCH_READ_CCNT, DO_REAL_WAIT.
HighStep ==
  \/ /\ Step(High, "loop", "stamp")
     /\ Signal(Produce)
     /\ UNCHANGED <<iter, start>>
  \/ /\ Step(High, "stamp", "wait")
     /\ start' = Stamp
     /\ UNCHANGED <<tcb, active, iter>>
  \/ /\ Step(High, "wait", NextLabel(High))
     /\ iter' = [iter EXCEPT ![High] = @ + 1]
     /\ Wait(High, Consume)
     /\ UNCHANGED start

\* Mutant: low does not wake high (DO_NOP_SIGNAL for DO_REAL_SIGNAL).
LowStep_NopSignal ==
  \/ /\ Step(Low, "loop", "sample")
     /\ Wait(Low, Produce)
     /\ UNCHANGED <<iter, sample>>
  \/ /\ Step(Low, "sample", NextLabel(Low))
     /\ sample' = start
     /\ iter' = [iter EXCEPT ![Low] = @ + 1]
     /\ UNCHANGED <<tcb, active>>

\* low_fn's and low_fn_ep's loop: DO_REAL_WAIT, the sample, DO_REAL_SIGNAL.
LowStep ==
  \/ /\ Step(Low, "loop", "sample")
     /\ Wait(Low, Produce)
     /\ UNCHANGED <<iter, sample>>
  \/ /\ Step(Low, "sample", "signal")
     /\ sample' = start
     /\ UNCHANGED <<tcb, active, iter>>
  \/ /\ Step(Low, "signal", NextLabel(Low))
     /\ iter' = [iter EXCEPT ![Low] = @ + 1]
     /\ Signal(Consume)
     /\ UNCHANGED sample

\* The end of both functions: seL4_Send(done_ep), seL4_Wait(produce).
Report(t) ==
  \/ Step(t, "done", "block") /\ Send(t, DoneEp)
  \/ Step(t, "block", "off") /\ Wait(t, Produce)

ChildStep(t) ==
  /\ CanRun(t, prio)
  /\ \/ t = High /\ HighStep /\ UNCHANGED sample
     \/ t = Low /\ LowStep /\ UNCHANGED start
     \/ Report(t) /\ UNCHANGED <<iter, start, sample>>
  /\ UNCHANGED <<bench, round, hprio, left>>

-----------------------------------------------------------------------------
(* The main thread.                                                        *)

\* Enter the next benchmark: two new threads at the lowest priority.
BeginBenchmark ==
  /\ pc[Main] = "begin" /\ bench < Benchmarks
  /\ pc' = [pc EXCEPT ![Main] = "round"]
  /\ bench' = bench + 1
  /\ round' = 0
  /\ hprio' = MinPrio
  /\ UNCHANGED <<tcb, active, iter, start, sample, left>>

\* Mutant: high stays at the priority it was configured with.
BeginRound_NoSetPriority ==
  /\ pc[Main] = "round" /\ round < N_PRIOS
  /\ pc' = [pc EXCEPT ![Main] = "start_low"]
  /\ round' = round + 1
  /\ UNCHANGED <<tcb, active, bench, hprio, iter, start, sample, left>>

\* seL4_TCB_SetPriority(high, gen_next_prio(i))
BeginRound ==
  /\ pc[Main] = "round" /\ round < N_PRIOS
  /\ pc' = [pc EXCEPT ![Main] = "start_low"]
  /\ round' = round + 1
  /\ hprio' = gen_next_prio(round)
  /\ UNCHANGED <<tcb, active, bench, iter, start, sample, left>>

\* sel4utils_start_thread, low first; high is a process in two benchmarks.
StartLow ==
  /\ pc[Main] = "start_low"
  /\ pc' = [pc EXCEPT ![Low] = "loop", ![Main] = "start_high"]
  /\ iter' = [iter EXCEPT ![Low] = 0]
  /\ SetState(Low, Running)
  /\ UNCHANGED <<active, bench, round, hprio, start, sample, left>>

\* Mutant: main waits for one child only.
StartHigh_OneChild ==
  /\ pc[Main] = "start_high"
  /\ pc' = [pc EXCEPT ![High] = "loop", ![Main] = "collect"]
  /\ iter' = [iter EXCEPT ![High] = 0]
  /\ left' = 1
  /\ SetState(High, Running)
  /\ UNCHANGED <<active, bench, round, hprio, start, sample>>

StartHigh ==
  /\ pc[Main] = "start_high"
  /\ pc' = [pc EXCEPT ![High] = "loop", ![Main] = "collect"]
  /\ iter' = [iter EXCEPT ![High] = 0]
  /\ left' = 2
  /\ SetState(High, Running)
  /\ UNCHANGED <<active, bench, round, hprio, start, sample>>

\* benchmark_wait_children(ep, ..., 2)
WaitChild ==
  /\ pc[Main] = "collect"
  /\ \/ /\ left > 0
        /\ left' = left - 1
        /\ Recv(Main, DoneEp)
        /\ UNCHANGED pc
     \/ /\ left = 0
        /\ pc' = [pc EXCEPT ![Main] = "round"]
        /\ UNCHANGED <<tcb, active, left>>
  /\ UNCHANGED <<bench, round, hprio, iter, start, sample>>

\* seL4_TCB_Suspend of both threads, high first.
SuspendChildren ==
  /\ pc[Main] = "round" /\ round = N_PRIOS
  /\ \/ /\ tcb[High] # Inactive
        /\ SetState(High, Inactive)
        /\ pc' = [pc EXCEPT ![High] = "off"]
     \/ /\ tcb[High] = Inactive
        /\ SetState(Low, Inactive)
        /\ pc' = [pc EXCEPT ![Low] = "off", ![Main] = "begin"]
  /\ UNCHANGED <<active, bench, round, hprio, iter, start, sample, left>>

MainStep ==
  /\ CanRun(Main, prio)
  /\ \/ BeginBenchmark
     \/ BeginRound
     \/ StartLow
     \/ StartHigh
     \/ WaitChild
     \/ SuspendChildren

AtEnd == pc[Main] = "begin" /\ bench = Benchmarks

Finished == AtEnd /\ UNCHANGED vars

Next ==
  \/ MainStep
  \/ \E t \in Child : ChildStep(t)
  \/ Finished

Spec == Init /\ [][Next]_vars
FairSpec == Spec /\ WF_vars(Next)

-----------------------------------------------------------------------------
(* Properties.                                                             *)

\* Every variable has its type.
TypeOK ==
  /\ tcb \in [Thread -> ThreadState({Produce, Consume}, {DoneEp})]
  /\ pc \in [Thread -> {"off", "loop", "stamp", "wait", "sample", "signal", "done",
                        "block", "begin", "round", "start_low", "start_high",
                        "collect"}]
  /\ active \in [{Produce, Consume} -> BOOLEAN]
  /\ bench \in 0..Benchmarks
  /\ round \in 0..N_PRIOS
  /\ hprio \in Nat
  /\ iter \in [Child -> 0..Runs]
  /\ start \in Int
  /\ sample \in Int
  /\ left \in 0..2

\* The priorities that gen_next_prio makes up for N_PRIOS rounds are ones that main,
\* with seL4_MaxPrio, may set (the last round included, where N_PRIOS is rounded
\* up), and above low's in every round that is measured.
PrioritiesAreLegal ==
  /\ hprio \in MinPrio..MaxPrio
  /\ pc[Main] \in {"start_low", "start_high", "collect"} => hprio > MinPrio

\* Low's sample is measured from the stamp high wrote in the same iteration of
\* the same round, with high blocked on consume: the interval holds exactly the
\* switch from high to low.  It rests on the priorities alone: nothing else
\* keeps low from running between high's signal and its stamp.
SampleMeasuresSwitch ==
  pc[Low] = "signal" =>
    /\ sample = ((bench - 1) * N_PRIOS + round - 1) * Runs + iter[Low] + 1
    /\ tcb[High] = WaitingOn(Consume)

\* The two notifications never hold a signal twice, and so never lose one: a
\* thread signals only when its last signal has been consumed.  Between two
\* rounds none is pending that would let the next round's low start without
\* high, and no child is in the middle of its function.
NoStraySignal ==
  /\ pc[High] = "loop" /\ tcb[High] = Running => ~active[Produce]
  /\ pc[Low] = "signal" => ~active[Consume]
  /\ pc[Main] \in {"round", "start_low", "begin"} =>
       /\ ~active[Produce] /\ ~active[Consume]
       /\ \A t \in Child : pc[t] \in {"off", "block"}

\* The rounds of all benchmarks that are over.
RoundsOver ==
  IF bench = 0 THEN 0
  ELSE (bench - 1) * N_PRIOS
         + IF pc[Main] \in {"start_low", "start_high", "collect"} THEN round - 1 ELSE round

\* Where a child is in the round under way.
Stage(t) ==
  CASE pc[Main] \in {"begin", "round", "start_low"} -> "idle"
    [] pc[Main] = "start_high" /\ t = High         -> "idle"
    [] pc[Main] = "start_high" /\ t = Low          -> "busy"
    [] pc[Main] = "collect" ->
         IF pc[t] \in {"block", "off"} /\ tcb[t] # SendingTo(DoneEp) THEN "done"
         ELSE "busy"

FJ == INSTANCE ForkJoin WITH
        Rounds <- Benchmarks * N_PRIOS,
        round  <- RoundsOver,
        stage  <- [t \in Child |-> Stage(t)]

\* The benchmarks are a sequence of forks and joins: a child delivers once in a
\* round, no round begins before both have delivered, and all rounds of all
\* benchmarks finish, so that high and low never block on each other for good.
RunsAllRounds == FJ!Promise

=============================================================================
