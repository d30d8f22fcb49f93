--------------------------- MODULE SchedulerProofs ---------------------------
(***************************************************************************)
(* Proofs about the scheduler application, for every number of runs, every *)
(* highest priority and every word size.  In the priority benchmarks       *)
(* nothing but the scheduler orders high and low, so that the argument is  *)
(* by the joint control state of the three threads, and every case that a  *)
(* step of low could spoil is excluded by CanRun.  The yield benchmarks    *)
(* run main and the yielder at one priority, under a tick at any moment;   *)
(* the argument there is an account of the samples that the ticks so far   *)
(* may still make wrong.                                                   *)
(***************************************************************************)
EXTENDS SchedulerMain, SequenceTheorems, TLAPS

-----------------------------------------------------------------------------
(* The inductive invariant.                                                *)

\* The number of the last iteration before the round under way.
Base == ((bench - 1) * N_PRIOS + round - 1) * Runs

Quiet == ~active[Produce] /\ ~active[Consume]

\* Not started, or reported to main in an earlier round or in this one.
Over(t) ==
  \/ pc[t] = "off" /\ tcb[t] = Inactive
  \/ pc[t] = "off" /\ tcb[t] = WaitingOn(Produce)
  \/ pc[t] = "block" /\ tcb[t] = Running

\* Main has heard from nobody in this round, and perhaps waits.
NoneHeard ==
  \/ tcb[Main] = Running /\ left = 2
  \/ tcb[Main] = RecvingOn(DoneEp) /\ left = 1

\* High's signal has reached low, or will when low waits for it.
LowIsSignalled ==
  \/ pc[Low] = "loop" /\ tcb[Low] = Running /\ active[Produce]
  \/ pc[Low] = "sample" /\ tcb[Low] = Running /\ ~active[Produce]

BetweenRounds ==
  /\ pc[Main] \in {"begin", "round", "start_low"}
  /\ tcb[Main] = Running
  /\ Quiet /\ Over(High) /\ Over(Low)

LowStarted ==
  /\ pc[Main] = "start_high"
  /\ tcb[Main] = Running
  /\ Quiet /\ Over(High)
  /\ pc[Low] = "loop" /\ tcb[Low] = Running /\ iter[Low] = 0

\* High is about to signal.
HighSignals ==
  /\ pc[Main] = "collect" /\ NoneHeard
  /\ pc[High] = "loop" /\ tcb[High] = Running
  /\ iter[High] = iter[Low] /\ iter[High] < Runs
  /\ Quiet
  /\ \/ pc[Low] = "loop" /\ tcb[Low] = Running
     \/ pc[Low] = "sample" /\ tcb[Low] = WaitingOn(Produce)

\* High has signalled and not yet blocked.
HighStamps ==
  /\ pc[Main] = "collect" /\ NoneHeard
  /\ pc[High] \in {"stamp", "wait"} /\ tcb[High] = Running
  /\ pc[High] = "wait" => start = Base + iter[High] + 1
  /\ iter[High] = iter[Low] /\ iter[High] < Runs
  /\ ~active[Consume] /\ LowIsSignalled

\* High is blocked, low measures.
LowMeasures ==
  /\ pc[Main] = "collect" /\ NoneHeard
  /\ pc[High] = IF iter[High] < Runs THEN "loop" ELSE "done"
  /\ tcb[High] = WaitingOn(Consume)
  /\ iter[High] = iter[Low] + 1
  /\ start = Base + iter[Low] + 1
  /\ ~active[Consume]
  /\ \/ LowIsSignalled
     \/ /\ pc[Low] = "signal" /\ tcb[Low] = Running /\ ~active[Produce]
        /\ sample = start

BothDone ==
  /\ pc[Main] = "collect" /\ tcb[Main] = RecvingOn(DoneEp) /\ left = 1
  /\ \A t \in Child : pc[t] = "done" /\ tcb[t] = Running
  /\ Quiet

HighReported ==
  /\ pc[Main] = "collect"
  /\ \/ tcb[Main] = Running /\ left = 1
     \/ tcb[Main] = RecvingOn(DoneEp) /\ left = 0
  /\ Over(High) /\ pc[Low] = "done" /\ tcb[Low] = Running
  /\ Quiet

BothReported ==
  /\ pc[Main] = "collect" /\ tcb[Main] = Running /\ left = 0
  /\ Quiet /\ Over(High) /\ Over(Low)

\* What main has counted.
CountInv ==
  /\ pc[Main] = "begin" /\ bench > 0 => round = N_PRIOS
  /\ pc[Main] # "begin" => bench > 0
  /\ pc[Main] \in {"start_low", "start_high", "collect"} => round > 0 /\ hprio > MinPrio

Joint ==
  \/ BetweenRounds \/ LowStarted \/ HighSignals \/ HighStamps
  \/ LowMeasures \/ BothDone \/ HighReported \/ BothReported

IInv == TypeOK /\ CountInv /\ hprio <= MaxPrio /\ Joint

-----------------------------------------------------------------------------
(* Facts about the constants and about the scheduler.                      *)

\* The states a thread can be in are pairwise distinct.
LEMMA StatesDistinct ==
  /\ Running \notin {Inactive, WaitingOn(Produce), WaitingOn(Consume),
                     SendingTo(DoneEp), RecvingOn(DoneEp)}
  /\ Inactive \notin {WaitingOn(Produce), WaitingOn(Consume),
                      SendingTo(DoneEp), RecvingOn(DoneEp)}
  /\ WaitingOn(Produce) \notin {WaitingOn(Consume), SendingTo(DoneEp), RecvingOn(DoneEp)}
  /\ WaitingOn(Consume) \notin {SendingTo(DoneEp), RecvingOn(DoneEp)}
  /\ SendingTo(DoneEp) # RecvingOn(DoneEp)
BY Zenon DEF Running, Inactive, WaitingOn, SendingTo, RecvingOn, Produce, Consume, DoneEp

\* The three threads and the two notifications are different ones.
LEMMA Distinct ==
  /\ Main # High /\ Main # Low /\ High # Low
  /\ Thread = {Main, High, Low}
  /\ Produce # Consume
BY SchedulerAssumption, Zenon DEF Thread, Child, Produce, Consume

\* N_PRIOS is MaxPrio / WordBits, rounded up.
LEMMA PriosRoundedUp ==
  /\ N_PRIOS \in Nat
  /\ N_PRIOS * WordBits < MaxPrio + WordBits
<1>1. MaxPrio \in Nat /\ WordBits \in Nat /\ WordBits > 0
  BY SchedulerAssumption
<1>2. MaxPrio + WordBits - 1 \in Nat
  BY <1>1
<1>3. \A a, b \in Nat : b > 0 => a \div b \in Nat /\ (a \div b) * b <= a
  OBVIOUS
<1> QED
  BY <1>1, <1>2, <1>3 DEF N_PRIOS

\* gen_next_prio(i) is a legal priority above low's in each of the N_PRIOS rounds.
LEMMA NextPrioIsLegal ==
  ASSUME NEW i \in 0..N_PRIOS - 1
  PROVE  gen_next_prio(i) \in Nat /\ gen_next_prio(i) > MinPrio /\ gen_next_prio(i) <= MaxPrio
<1>1. MaxPrio \in Nat /\ WordBits \in Nat /\ N_PRIOS \in Nat /\ i \in Nat /\ i + 1 <= N_PRIOS
  BY SchedulerAssumption, PriosRoundedUp
<1>2. \A a, b, c \in Nat : a <= b => a * c <= b * c /\ a * c \in Nat
  OBVIOUS
<1>3. (i + 1) * WordBits <= N_PRIOS * WordBits
  BY <1>1, <1>2
<1>4. (i + 1) * WordBits = i * WordBits + WordBits /\ i * WordBits \in Nat
  BY <1>1
<1>5. i * WordBits < MaxPrio
  BY <1>1, <1>3, <1>4, PriosRoundedUp
<1> QED
  BY <1>1, <1>4, <1>5 DEF gen_next_prio, MinPrio

\* Low runs only when main is blocked, and high too if its priority has been set.
LEMMA LowRunsLast ==
  ASSUME TypeOK, CanRun(Low, prio)
  PROVE  /\ tcb[Main] # Running
         /\ hprio > MinPrio => tcb[High] # Running
<1>1. DOMAIN tcb = Thread /\ hprio \in Nat
  BY Zenon DEF TypeOK
<1>2. prio[Main] = MaxPrio /\ prio[High] = hprio /\ prio[Low] = MinPrio
  BY Distinct, Zenon DEF prio
<1> QED
  BY <1>1, <1>2, Distinct, SchedulerAssumption DEF CanRun, MinPrio

-----------------------------------------------------------------------------
(* Every step preserves the invariant.                                     *)

\* Base only depends on what main has counted, and is a number.
LEMMA BaseIsInt ==
  ASSUME TypeOK
  PROVE  Base \in Int /\ (UNCHANGED <<bench, round>> => Base' = Base)
<1>1. bench \in Int /\ round \in Int /\ N_PRIOS \in Int /\ Runs \in Int
  BY PriosRoundedUp, SchedulerAssumption DEF TypeOK, Benchmarks
<1>2. (bench - 1) * N_PRIOS \in Int
  BY <1>1
<1>3. Base \in Int
  BY <1>1, <1>2 DEF Base
<1> QED
  BY <1>3, Zenon DEF Base

\* high_fn's signal to low.
LEMMA HighSignalStep ==
  ASSUME IInv, CanRun(High, prio), Step(High, "loop", "stamp"), Signal(Produce),
         UNCHANGED <<iter, start, sample, bench, round, hprio, left>>
  PROVE  IInv'
<1> USE Distinct, StatesDistinct
<1>1. HighSignals
  BY Zenon DEF IInv, Joint, CanRun, Step, BetweenRounds, LowStarted, HighStamps, LowMeasures,
         BothDone, HighReported, BothReported, Over, Child
<1>2. TypeOK'
  BY Zenon DEF IInv, TypeOK, Step, Signal, SetState, Blocked, ThreadState
<1>3. /\ pc' = [pc EXCEPT ![High] = "stamp"]
      /\ tcb'[Main] = tcb[Main] /\ tcb'[High] = Running
      /\ active'[Consume] = active[Consume]
      /\ \/ tcb[Low] = Running /\ tcb'[Low] = Running /\ active'[Produce]
         \/ tcb[Low] = WaitingOn(Produce) /\ tcb'[Low] = Running
            /\ active'[Produce] = active[Produce]
  BY <1>1 DEF IInv, TypeOK, Step, Signal, SetState, Blocked, HighSignals, NoneHeard
<1>4. HighStamps'
  BY <1>1, <1>3, Zenon DEF IInv, TypeOK, HighSignals, HighStamps, NoneHeard, LowIsSignalled,
     Quiet
<1>5. CountInv'
  BY <1>3, Zenon DEF IInv, TypeOK, CountInv
<1> QED
  BY <1>2, <1>4, <1>5, Zenon DEF IInv, Joint

\* high_fn's stamp.
LEMMA HighStampStep ==
  ASSUME IInv, CanRun(High, prio), Step(High, "stamp", "wait"), start' = Stamp,
         UNCHANGED <<tcb, active, iter, sample, bench, round, hprio, left>>
  PROVE  IInv'
<1> USE Distinct
<1>1. HighStamps
  BY Zenon DEF IInv, Joint, Step, BetweenRounds, LowStarted, HighSignals, LowMeasures,
         BothDone, HighReported, BothReported, Over, Child
<1>2. start' = Base + iter[High] + 1
  BY Zenon DEF Stamp, Base
<1>3. TypeOK'
  BY <1>2, BaseIsInt DEF IInv, TypeOK, Step, Child
<1>4. HighStamps'
  BY <1>1, <1>2, BaseIsInt, Zenon
     DEF IInv, TypeOK, Step, HighStamps, NoneHeard, LowIsSignalled
<1>5. CountInv'
  BY Zenon DEF IInv, TypeOK, CountInv, Step
<1> QED
  BY <1>3, <1>4, <1>5, Zenon DEF IInv, Joint

\* high_fn's wait for low.
LEMMA HighWaitStep ==
  ASSUME IInv, CanRun(High, prio), Step(High, "wait", NextLabel(High)), Wait(High, Consume),
         iter' = [iter EXCEPT ![High] = @ + 1],
         UNCHANGED <<start, sample, bench, round, hprio, left>>
  PROVE  IInv'
<1> USE Distinct
<1>1. HighStamps /\ pc[High] = "wait"
  BY Zenon DEF IInv, Joint, Step, BetweenRounds, LowStarted, HighSignals, LowMeasures,
         BothDone, HighReported, BothReported, Over, Child
<1>2. /\ tcb' = [tcb EXCEPT ![High] = WaitingOn(Consume)]
      /\ UNCHANGED active
      /\ iter'[High] = iter[High] + 1 /\ iter'[Low] = iter[Low]
  BY <1>1, Zenon DEF IInv, TypeOK, Wait, SetState, HighStamps, Child
<1>3. TypeOK'
  BY <1>1, <1>2, SchedulerAssumption
     DEF IInv, TypeOK, Step, ThreadState, NextLabel, Child, HighStamps
<1>4. LowMeasures'
  BY <1>1, <1>2, BaseIsInt, SchedulerAssumption, Zenon
  DEF IInv, TypeOK, Step, HighStamps, LowMeasures, NoneHeard, LowIsSignalled, NextLabel, Child
<1>5. CountInv'
  BY Zenon DEF IInv, TypeOK, CountInv, Step
<1> QED
  BY <1>3, <1>4, <1>5, Zenon DEF IInv, Joint

\* low_fn's wait for high.
LEMMA LowWaitStep ==
  ASSUME IInv, CanRun(Low, prio), Step(Low, "loop", "sample"), Wait(Low, Produce),
         UNCHANGED <<iter, start, sample, bench, round, hprio, left>>
  PROVE  IInv'
<1> USE Distinct, StatesDistinct
<1>1. tcb[Main] # Running /\ (hprio > MinPrio => tcb[High] # Running)
  BY LowRunsLast, Zenon DEF IInv
<1>2. LowMeasures /\ pc[Low] = "loop" /\ active[Produce]
  BY <1>1, Zenon
     DEF IInv, CountInv, Joint, CanRun, Step, BetweenRounds, LowStarted, HighSignals,
         HighStamps, LowMeasures, BothDone, HighReported, BothReported, Over, Child,
         LowIsSignalled
<1>3. /\ active' = [active EXCEPT ![Produce] = FALSE]
      /\ UNCHANGED tcb
  BY <1>2, Zenon DEF Wait
<1>4. TypeOK'
  BY <1>3, Zenon DEF IInv, TypeOK, Step
<1>5. LowMeasures'
  BY <1>2, <1>3, BaseIsInt, Zenon DEF IInv, TypeOK, Step, LowMeasures, NoneHeard, LowIsSignalled
<1>6. CountInv'
  BY Zenon DEF IInv, TypeOK, CountInv, Step
<1> QED
  BY <1>4, <1>5, <1>6, Zenon DEF IInv, Joint

\* low_fn's sample.
LEMMA LowSampleStep ==
  ASSUME IInv, CanRun(Low, prio), Step(Low, "sample", "signal"), sample' = start,
         UNCHANGED <<tcb, active, iter, start, bench, round, hprio, left>>
  PROVE  IInv'
<1> USE Distinct, StatesDistinct
<1>1. tcb[Main] # Running /\ (hprio > MinPrio => tcb[High] # Running)
  BY LowRunsLast, Zenon DEF IInv
<1>2. LowMeasures /\ pc[Low] = "sample" /\ ~active[Produce]
  BY <1>1, Zenon
     DEF IInv, CountInv, Joint, CanRun, Step, BetweenRounds, LowStarted, HighSignals,
         HighStamps, LowMeasures, BothDone, HighReported, BothReported, Over, Child,
         LowIsSignalled
<1>3. TypeOK'
  BY Zenon DEF IInv, TypeOK, Step
<1>4. LowMeasures'
  BY <1>2, BaseIsInt, Zenon DEF IInv, TypeOK, CanRun, Step, LowMeasures, NoneHeard
<1>5. CountInv'
  BY Zenon DEF IInv, TypeOK, CountInv, Step
<1> QED
  BY <1>3, <1>4, <1>5, Zenon DEF IInv, Joint

\* low_fn's signal to high.
LEMMA LowSignalStep ==
  ASSUME IInv, CanRun(Low, prio), Step(Low, "signal", NextLabel(Low)), Signal(Consume),
         iter' = [iter EXCEPT ![Low] = @ + 1],
         UNCHANGED <<start, sample, bench, round, hprio, left>>
  PROVE  IInv'
<1> USE Distinct, StatesDistinct
<1>1. tcb[Main] # Running
  BY LowRunsLast, Zenon DEF IInv
<1>2. LowMeasures /\ pc[Low] = "signal"
  BY Zenon DEF IInv, Joint, Step, BetweenRounds, LowStarted, HighSignals, HighStamps,
         LowMeasures, BothDone, HighReported, BothReported, Over, Child, LowIsSignalled
<1>3. /\ tcb' = [tcb EXCEPT ![High] = Running]
      /\ UNCHANGED active
      /\ iter'[Low] = iter[Low] + 1 /\ iter'[High] = iter[High]
  BY <1>2 DEF IInv, TypeOK, CanRun, Signal, SetState, Blocked, LowMeasures, NoneHeard, Child
<1>4. TypeOK'
  BY <1>2, <1>3, SchedulerAssumption, Zenon
     DEF IInv, TypeOK, Step, ThreadState, NextLabel, Child, LowMeasures
<1>5. ASSUME iter[High] < Runs  PROVE  Joint'
  <2>1. HighSignals'
    BY <1>2, <1>3, <1>5, Zenon
       DEF IInv, TypeOK, CanRun, Step, LowMeasures, HighSignals, LowIsSignalled, NoneHeard,
           NextLabel, Quiet, Child
  <2> QED
    BY <2>1, Zenon DEF Joint
<1>6. ASSUME ~(iter[High] < Runs)  PROVE  Joint'
  <2>1. BothDone'
    BY <1>1, <1>2, <1>3, <1>6, Zenon
       DEF IInv, TypeOK, CanRun, Step, LowMeasures, BothDone, LowIsSignalled, NoneHeard,
           NextLabel, Quiet, Child
  <2> QED
    BY <2>1, Zenon DEF Joint
<1>7. CountInv'
  BY Zenon DEF IInv, TypeOK, CountInv, Step
<1> QED
  BY <1>4, <1>5, <1>6, <1>7, Zenon DEF IInv, Joint

\* The message of high_fn and low_fn to main finds main waiting for it.
LEMMA SendStep ==
  ASSUME IInv, NEW t \in Child, CanRun(t, prio), Step(t, "done", "block"), Send(t, DoneEp),
         UNCHANGED <<iter, start, sample, bench, round, hprio, left>>
  PROVE  IInv' /\ tcb'[t] # SendingTo(DoneEp)
<1> USE Distinct, StatesDistinct
<1>1. \/ BothDone /\ t = High
      \/ HighReported /\ t = Low /\ tcb[Main] = RecvingOn(DoneEp) /\ left = 0
  <2>1. CASE t = High
    BY <2>1, Zenon DEF IInv, Joint, CanRun, Step, BetweenRounds, LowStarted, HighSignals,
         HighStamps, LowMeasures, HighReported, BothReported, Over, Child
  <2>2. CASE t = Low
    <3>1. tcb[Main] # Running /\ (hprio > MinPrio => tcb[High] # Running)
      BY <2>2, LowRunsLast, Zenon DEF IInv
    <3> QED
      BY <2>2, <3>1, Zenon
         DEF IInv, CountInv, Joint, Step, BetweenRounds, LowStarted, HighSignals,
             HighStamps, LowMeasures, LowIsSignalled, BothDone, HighReported, BothReported,
             Over, Child
  <2> QED
    BY <2>1, <2>2, Zenon DEF Child
<1>2. /\ tcb' = [tcb EXCEPT ![Main] = Running]
      /\ UNCHANGED active
      /\ pc' = [pc EXCEPT ![t] = "block"]
  BY <1>1 DEF IInv, TypeOK, CanRun, Step, Send, SetState, Blocked, BothDone, HighReported,
         Over, Child
<1>3. TypeOK'
  BY <1>2, Zenon DEF IInv, TypeOK, ThreadState
<1>4. ASSUME BothDone /\ t = High  PROVE  Joint'
  <2>1. HighReported'
    BY <1>2, <1>4, Zenon DEF IInv, TypeOK, BothDone, HighReported, Over, Quiet, Child
  <2> QED
    BY <2>1, Zenon DEF Joint
<1>5. ASSUME HighReported /\ t = Low /\ left = 0  PROVE  Joint'
  <2>1. BothReported'
    BY <1>2, <1>5, Zenon DEF IInv, TypeOK, HighReported, BothReported, Over, Quiet, Child
  <2> QED
    BY <2>1, Zenon DEF Joint
<1>6. CountInv'
  BY <1>2, Zenon DEF IInv, TypeOK, CountInv, Child
<1> QED
  BY <1>1, <1>2, <1>3, <1>4, <1>5, <1>6, Zenon DEF IInv, TypeOK, CanRun, Child

\* After its message a child blocks for good.
LEMMA BlockStep ==
  ASSUME IInv, NEW t \in Child, CanRun(t, prio), Step(t, "block", "off"), Wait(t, Produce),
         UNCHANGED <<iter, start, sample, bench, round, hprio, left>>
  PROVE  IInv'
<1> USE Distinct, StatesDistinct
<1>1. /\ Over(t)
      /\ \/ BetweenRounds
         \/ LowStarted /\ t = High
         \/ HighReported /\ t = High
         \/ BothReported
  BY Zenon DEF IInv, Joint, CanRun, Step, BetweenRounds, LowStarted, HighSignals, HighStamps,
         LowMeasures, LowIsSignalled, BothDone, HighReported, BothReported, Over, Child
<1>2. /\ tcb' = [tcb EXCEPT ![t] = WaitingOn(Produce)]
      /\ UNCHANGED active
      /\ pc' = [pc EXCEPT ![t] = "off"]
  BY <1>1, Zenon DEF Step, Wait, SetState, BetweenRounds, LowStarted, HighReported,
     BothReported, Quiet
<1>3. TypeOK'
  BY <1>2, Zenon DEF IInv, TypeOK, ThreadState
<1>4. Over(t)' /\ \A u \in Child : Over(u) => Over(u)'
  BY <1>2, Zenon DEF IInv, TypeOK, Over, Child
<1>5. /\ tcb'[Main] = tcb[Main] /\ pc'[Main] = pc[Main]
      /\ t = High => tcb'[Low] = tcb[Low] /\ pc'[Low] = pc[Low]
  BY <1>2, Zenon DEF IInv, TypeOK, Child
<1>6. Joint'
  BY <1>1, <1>2, <1>4, <1>5, Zenon
  DEF Joint, BetweenRounds, LowStarted, HighReported, BothReported, Quiet, Child
<1>7. CountInv'
  BY <1>5, Zenon DEF IInv, CountInv
<1> QED
  BY <1>3, <1>6, <1>7, Zenon DEF IInv

\* The steps of main between two rounds.
LEMMA BetweenStep ==
  ASSUME IInv, BeginBenchmark \/ BeginRound \/ SuspendChildren
  PROVE  IInv'
<1> USE Distinct, StatesDistinct, PriosRoundedUp, SchedulerAssumption
<1>1. BetweenRounds
  BY Zenon
     DEF IInv, Joint, BeginBenchmark, BeginRound, SuspendChildren, LowStarted, HighSignals,
         HighStamps, LowMeasures, BothDone, HighReported, BothReported
<1>2. CASE BeginBenchmark
  <2>1. TypeOK'
    BY <1>2 DEF IInv, TypeOK, BeginBenchmark, Benchmarks, MinPrio
  <2>2. BetweenRounds'
    BY <1>1, <1>2, Zenon DEF IInv, TypeOK, BeginBenchmark, BetweenRounds, Quiet, Over
  <2>3. CountInv' /\ hprio' <= MaxPrio
    BY <1>2 DEF IInv, TypeOK, BeginBenchmark, CountInv, Benchmarks, MinPrio
  <2> QED
    BY <2>1, <2>2, <2>3, Zenon DEF IInv, Joint
<1>3. CASE BeginRound
  <2>1. hprio' \in Nat /\ hprio' > MinPrio /\ hprio' <= MaxPrio
    BY <1>3, NextPrioIsLegal DEF IInv, TypeOK, BeginRound
  <2>2. TypeOK'
    BY <1>3, <2>1 DEF IInv, TypeOK, BeginRound
  <2>3. BetweenRounds'
    BY <1>1, <1>3, Zenon DEF IInv, TypeOK, BeginRound, BetweenRounds, Quiet, Over
  <2>4. CountInv'
    BY <1>3, <2>1 DEF IInv, TypeOK, BeginRound, CountInv
  <2> QED
    BY <2>1, <2>2, <2>3, <2>4, Zenon DEF IInv, Joint
<1>4. CASE SuspendChildren
  <2>1. TypeOK'
    BY <1>4 DEF IInv, TypeOK, SuspendChildren, SetState, ThreadState
  <2>2. BetweenRounds'
    BY <1>1, <1>4 DEF IInv, TypeOK, SuspendChildren, SetState, BetweenRounds, Quiet, Over
  <2>3. CountInv' /\ hprio' <= MaxPrio
    BY <1>4 DEF IInv, TypeOK, SuspendChildren, CountInv
  <2> QED
    BY <2>1, <2>2, <2>3, Zenon DEF IInv, Joint
<1> QED
  BY <1>2, <1>3, <1>4, Zenon

\* sel4utils_start_thread of low, then of high.
LEMMA StartStep ==
  ASSUME IInv, StartLow \/ StartHigh
  PROVE  IInv'
<1> USE Distinct, StatesDistinct, SchedulerAssumption
<1>1. CASE StartLow
  <2>1. BetweenRounds
    BY <1>1, Zenon DEF IInv, Joint, StartLow, LowStarted, HighSignals, HighStamps, LowMeasures,
         BothDone, HighReported, BothReported
  <2>2. TypeOK'
    BY <1>1 DEF IInv, TypeOK, StartLow, SetState, ThreadState, Child
  <2>3. LowStarted'
    BY <1>1, <2>1, Zenon DEF IInv, TypeOK, StartLow, SetState, BetweenRounds, LowStarted, Quiet,
         Over, Child
  <2>4. CountInv' /\ hprio' <= MaxPrio
    BY <1>1, Zenon DEF IInv, TypeOK, StartLow, CountInv
  <2> QED
    BY <2>2, <2>3, <2>4, Zenon DEF IInv, Joint
<1>2. CASE StartHigh
  <2>1. LowStarted
    BY <1>2, Zenon
       DEF IInv, Joint, StartHigh, BetweenRounds, HighSignals, HighStamps, LowMeasures,
           BothDone, HighReported, BothReported
  <2>2. TypeOK'
    BY <1>2 DEF IInv, TypeOK, StartHigh, SetState, ThreadState, Child
  <2>3. HighSignals'
    BY <1>2, <2>1 DEF IInv, TypeOK, StartHigh, SetState, LowStarted, HighSignals, NoneHeard,
         Quiet, Child
  <2>4. CountInv' /\ hprio' <= MaxPrio
    BY <1>2, Zenon DEF IInv, TypeOK, StartHigh, CountInv
  <2> QED
    BY <2>2, <2>3, <2>4, Zenon DEF IInv, Joint
<1> QED
  BY <1>1, <1>2, Zenon

\* benchmark_wait_children: main blocks, since no child is ever kept waiting with a
\* message, and goes on when both have reported.
LEMMA CollectStep ==
  ASSUME IInv, CanRun(Main, prio), WaitChild
  PROVE  /\ IInv'
         /\ left > 0 => pc' = pc /\ tcb' = [tcb EXCEPT ![Main] = RecvingOn(DoneEp)]
         /\ left = 0 => BothReported
<1> USE Distinct, StatesDistinct
<1>1. /\ tcb[Main] = Running /\ pc[Main] = "collect"
      /\ UNCHANGED <<active, bench, round, hprio, iter, start, sample>>
  BY Zenon DEF CanRun, WaitChild, Recv
<1>2. ASSUME left > 0
      PROVE  IInv' /\ pc' = pc /\ tcb' = [tcb EXCEPT ![Main] = RecvingOn(DoneEp)]
  <2>1. HighSignals \/ HighStamps \/ LowMeasures \/ HighReported
    BY <1>1, <1>2 DEF IInv, Joint, BetweenRounds, LowStarted, BothDone, BothReported
  <2>2. tcb[High] # SendingTo(DoneEp) /\ tcb[Low] # SendingTo(DoneEp)
    BY <2>1, Zenon DEF HighSignals, HighStamps, LowMeasures, HighReported, LowIsSignalled, Over
  <2>3. pc' = pc /\ left' = left - 1 /\ tcb' = [tcb EXCEPT ![Main] = RecvingOn(DoneEp)]
    BY <1>1, <1>2, <2>2 DEF IInv, TypeOK, WaitChild, Recv, SetState, Blocked
  <2>4. /\ tcb'[High] = tcb[High] /\ tcb'[Low] = tcb[Low]
        /\ tcb'[Main] = RecvingOn(DoneEp)
    BY <2>3, Zenon DEF IInv, TypeOK
  <2>5. TypeOK'
    BY <1>1, <1>2, <2>3 DEF IInv, TypeOK, ThreadState
  <2>6. Joint'
    <3>1. Base' = Base
      BY <1>1, BaseIsInt, Zenon DEF IInv
    <3>2. NoneHeard => NoneHeard'
      BY <1>1, <2>3, <2>4 DEF IInv, TypeOK, NoneHeard
    <3>3. HighSignals => HighSignals'
      BY <1>1, <2>3, <2>4, <3>2, Zenon DEF HighSignals, Quiet
    <3>4. HighStamps => HighStamps'
      BY <1>1, <2>3, <2>4, <3>1, <3>2, Zenon DEF HighStamps, LowIsSignalled
    <3>5. LowMeasures => LowMeasures'
      BY <1>1, <2>3, <2>4, <3>1, <3>2, Zenon DEF LowMeasures, LowIsSignalled
    <3>6. HighReported => HighReported'
      BY <1>1, <2>3, <2>4 DEF IInv, TypeOK, HighReported, Quiet, Over
    <3> QED
      BY <2>1, <3>3, <3>4, <3>5, <3>6, Zenon DEF Joint
  <2>7. CountInv'
    BY <1>1, <2>3, Zenon DEF IInv, CountInv
  <2> QED
    BY <1>1, <2>3, <2>5, <2>6, <2>7, Zenon DEF IInv
<1>3. ASSUME left = 0
      PROVE  IInv' /\ BothReported
  <2>1. BothReported
    BY <1>1, <1>3 DEF IInv, Joint, BetweenRounds, LowStarted, HighSignals, HighStamps,
         LowMeasures, NoneHeard, BothDone, HighReported
  <2>2. pc' = [pc EXCEPT ![Main] = "round"] /\ UNCHANGED <<tcb, left>>
    BY <1>3 DEF WaitChild
  <2>3. TypeOK'
    BY <1>1, <2>2, Zenon DEF IInv, TypeOK
  <2>4. BetweenRounds'
    BY <1>1, <2>1, <2>2, Zenon DEF IInv, TypeOK, BothReported, BetweenRounds, Quiet, Over
  <2>5. CountInv'
    BY <1>1, <2>2, Zenon DEF IInv, TypeOK, CountInv
  <2> QED
    BY <1>1, <2>1, <2>3, <2>4, <2>5, Zenon DEF IInv, Joint
<1>4. left > 0 \/ left = 0
  BY DEF IInv, TypeOK
<1>5. ~(left > 0 /\ left = 0)
  BY DEF IInv, TypeOK
<1> QED
  BY <1>2, <1>3, <1>4, <1>5, Zenon

\* Every step of the benchmarks preserves the invariant.
LEMMA Inductive == IInv /\ [Next]_vars => IInv'
<1> SUFFICES ASSUME IInv, [Next]_vars PROVE IInv'
  BY Zenon
<1>1. CASE MainStep
  BY <1>1, BetweenStep, StartStep, CollectStep, Zenon DEF MainStep
<1>2. ASSUME NEW t \in Child, ChildStep(t) PROVE IInv'
  <2>1. CASE t = High /\ HighStep /\ UNCHANGED sample
    BY <1>2, <2>1, HighSignalStep, HighStampStep, HighWaitStep, Zenon DEF ChildStep, HighStep
  <2>2. CASE t = Low /\ LowStep /\ UNCHANGED start
    BY <1>2, <2>2, LowWaitStep, LowSampleStep, LowSignalStep, Zenon DEF ChildStep, LowStep
  <2>3. CASE Report(t) /\ UNCHANGED <<iter, start, sample>>
    BY <1>2, <2>3, SendStep, BlockStep, Zenon DEF ChildStep, Report
  <2> QED
    BY <1>2, <2>1, <2>2, <2>3, Zenon DEF ChildStep
<1>3. CASE UNCHANGED vars
  BY <1>3, Zenon
     DEF vars, IInv, TypeOK, CountInv, Joint, BetweenRounds, LowStarted, HighSignals,
         HighStamps, LowMeasures, BothDone, HighReported, BothReported, NoneHeard,
         LowIsSignalled, Quiet, Over, Base
<1> QED
  BY <1>1, <1>2, <1>3, Zenon DEF Next, Finished

\* It holds when the benchmarks begin.
LEMMA InitIInv == Init => IInv
<1> SUFFICES ASSUME Init PROVE IInv
  BY Zenon
<1> USE Distinct, StatesDistinct, PriosRoundedUp, SchedulerAssumption
<1>1. TypeOK
  BY DEF Init, TypeOK, ThreadState, Benchmarks, MinPrio, Child
<1>2. BetweenRounds
  BY Zenon DEF Init, BetweenRounds, Quiet, Over
<1>3. CountInv /\ hprio <= MaxPrio
  BY DEF Init, CountInv, MinPrio
<1> QED
  BY <1>1, <1>2, <1>3, Zenon DEF IInv, Joint

\* The invariant holds throughout.
LEMMA Invariance == Spec => []IInv
BY InitIInv, Inductive, PTL DEF Spec

\* What the invariant says of the properties that are checked.
LEMMA Consequences ==
  IInv => PrioritiesAreLegal /\ SampleMeasuresSwitch /\ NoStraySignal
<1> SUFFICES ASSUME IInv PROVE PrioritiesAreLegal /\ SampleMeasuresSwitch /\ NoStraySignal
  BY Zenon
<1> USE Distinct, StatesDistinct
<1>1. PrioritiesAreLegal
  BY SchedulerAssumption, SMTT(90) DEF IInv, TypeOK, CountInv, PrioritiesAreLegal, MinPrio
<1>2. pc[Low] = "signal" => LowMeasures /\ sample = start
  BY Zenon DEF IInv, Joint, BetweenRounds, LowStarted, HighSignals, HighStamps, LowMeasures,
         BothDone, HighReported, BothReported, Over, Child, LowIsSignalled
<1>3. SampleMeasuresSwitch
  BY <1>2, Zenon DEF SampleMeasuresSwitch, LowMeasures, Base
<1>4. pc[High] = "loop" /\ tcb[High] = Running => ~active[Produce]
  BY Zenon DEF IInv, Joint, BetweenRounds, LowStarted, HighSignals, HighStamps, LowMeasures,
         BothDone, HighReported, BothReported, Over, Child, Quiet
<1>5. pc[Main] \in {"round", "start_low", "begin"} => BetweenRounds
  BY Zenon DEF IInv, Joint, LowStarted, HighSignals, HighStamps, LowMeasures, BothDone,
         HighReported, BothReported
<1>6. NoStraySignal
  BY <1>2, <1>4, <1>5, Zenon DEF NoStraySignal, LowMeasures, BetweenRounds, Quiet, Over, Child
<1> QED
  BY <1>1, <1>3, <1>6, Zenon

\* gen_next_prio and N_PRIOS never make up a priority that main may not set or that
\* does not let high preempt low, for any seL4_MaxPrio and seL4_WordBits.
THEOREM LegalPriorities == Spec => []PrioritiesAreLegal
BY Invariance, Consequences, PTL

\* Every sample of low_fn is the switch from high to low of its own iteration.
THEOREM SamplesMeasureSwitches == Spec => []SampleMeasuresSwitch
BY Invariance, Consequences, PTL

\* No signal on produce or consume is lost, or left over from one round to the next.
THEOREM SignalsAreNotLost == Spec => []NoStraySignal
BY Invariance, Consequences, PTL

-----------------------------------------------------------------------------
(* The benchmarks implement ForkJoin.                                      *)

\* Where the children are, by main's control state: no child is ever left waiting
\* with its message.
LEMMA Stages ==
  ASSUME IInv
  PROVE  /\ pc[Main] \in {"begin", "round", "start_low", "start_high", "collect"}
         /\ pc[Main] \in {"begin", "round", "start_low"} => \A t \in Child : Stage(t) = "idle"
         /\ pc[Main] = "start_high" => Stage(High) = "idle" /\ Stage(Low) = "busy"
         /\ pc[Main] = "collect" =>
              \A t \in Child : Stage(t) = IF pc[t] \in {"block", "off"} THEN "done" ELSE "busy"
<1> USE Distinct, StatesDistinct
<1>1. pc[Main] \in {"begin", "round", "start_low", "start_high", "collect"}
  BY Zenon DEF IInv, Joint, BetweenRounds, LowStarted, HighSignals, HighStamps, LowMeasures,
         BothDone, HighReported, BothReported
<1>2. \A t \in Child : tcb[t] # SendingTo(DoneEp)
  BY Zenon DEF IInv, Joint, BetweenRounds, LowStarted, HighSignals, HighStamps, LowMeasures,
         LowIsSignalled, BothDone, HighReported, BothReported, Over, Child
<1> QED
  BY <1>1, <1>2, Zenon DEF Stage, Child

\* The same of the next state.
LEMMA NextStages ==
  ASSUME IInv'
  PROVE  /\ pc'[Main] \in {"begin", "round", "start_low"} =>
              \A t \in Child : Stage(t)' = "idle"
         /\ pc'[Main] = "start_high" => Stage(High)' = "idle" /\ Stage(Low)' = "busy"
         /\ pc'[Main] = "collect" =>
              \A t \in Child : Stage(t)' = IF pc'[t] \in {"block", "off"} THEN "done" ELSE "busy"
<1> USE Distinct, StatesDistinct
<1>1. \A t \in Child : tcb'[t] # SendingTo(DoneEp)
  BY Zenon DEF IInv, Joint, BetweenRounds, LowStarted, HighSignals, HighStamps, LowMeasures,
         LowIsSignalled, BothDone, HighReported, BothReported, Over, Child
<1> QED
  BY <1>1, Zenon DEF Stage, Child

\* The count of the rounds that are over, step by step.
LEMMA Rounds ==
  ASSUME IInv
  PROVE  /\ RoundsOver \in Int
         /\ BeginBenchmark \/ BeginRound \/ SuspendChildren \/ StartLow \/ StartHigh
              => UNCHANGED RoundsOver
         /\ WaitChild /\ left = 0 => RoundsOver' = RoundsOver + 1
         /\ pc[Main] \in {"start_low", "start_high"} => RoundsOver < Benchmarks * N_PRIOS
<1> USE Distinct, PriosRoundedUp
<1>1. /\ bench \in 0..4 /\ round \in 0..N_PRIOS /\ DOMAIN pc = Thread
      /\ pc[Main] = "begin" /\ bench > 0 => round = N_PRIOS
      /\ pc[Main] # "begin" => bench > 0
      /\ pc[Main] \in {"start_low", "start_high", "collect"} => round > 0
  BY Zenon DEF IInv, TypeOK, CountInv, Benchmarks
<1>2. (bench - 1) * N_PRIOS \in Int /\ bench * N_PRIOS = (bench - 1) * N_PRIOS + N_PRIOS
  BY <1>1
<1>3. bench > 0 => (bench - 1) * N_PRIOS + N_PRIOS <= Benchmarks * N_PRIOS
  BY <1>1 DEF Benchmarks
<1>4. RoundsOver \in Int
  BY <1>1, <1>2 DEF RoundsOver
<1>5. BeginBenchmark => UNCHANGED RoundsOver
  <2> SUFFICES ASSUME BeginBenchmark PROVE RoundsOver' = RoundsOver
    BY Zenon
  <2>1. /\ pc[Main] = "begin" /\ pc'[Main] = "round" /\ bench' = bench + 1 /\ round' = 0
    BY <1>1, Zenon DEF BeginBenchmark
  <2>2. RoundsOver' = bench * N_PRIOS
    BY <1>1, <1>2, <2>1 DEF RoundsOver
  <2>3. RoundsOver = bench * N_PRIOS
    BY <1>1, <1>2, <2>1 DEF RoundsOver
  <2> QED
    BY <2>2, <2>3, Zenon
<1>6. BeginRound => UNCHANGED RoundsOver
  BY <1>1, <1>2 DEF BeginRound, RoundsOver
<1>7. SuspendChildren \/ StartLow \/ StartHigh => UNCHANGED RoundsOver
  BY <1>1, <1>2, Zenon DEF SuspendChildren, StartLow, StartHigh, RoundsOver
<1>8. WaitChild /\ left = 0 => RoundsOver' = RoundsOver + 1
  BY <1>1, <1>2 DEF WaitChild, RoundsOver
<1>9. pc[Main] \in {"start_low", "start_high"} => RoundsOver < Benchmarks * N_PRIOS
  BY <1>1, <1>2, <1>3 DEF RoundsOver, Benchmarks
<1> QED
  BY <1>4, <1>5, <1>6, <1>7, <1>8, <1>9, Zenon

\* Main's steps start a child, end a round, or change nothing that ForkJoin sees.
LEMMA MainImplements ==
  ASSUME IInv, IInv', MainStep
  PROVE  [FJ!Next]_(FJ!vars)
<1> DEFINE st == [t \in Child |-> Stage(t)]
<1> USE Distinct
<1>1. DOMAIN pc = Thread /\ left \in 0..2
  BY Zenon DEF IInv, TypeOK
<1>2. CASE BeginBenchmark \/ BeginRound \/ SuspendChildren
  <2>1. pc[Main] \in {"begin", "round"} /\ pc'[Main] \in {"begin", "round", "start_low"}
    BY <1>1, <1>2, Zenon DEF BeginBenchmark, BeginRound, SuspendChildren
  <2>2. st' = st
    BY <2>1, Stages, NextStages, Zenon
  <2> QED
    BY <1>2, <2>2, Rounds, Zenon DEF FJ!vars
<1>3. CASE StartLow
  <2>1. pc[Main] = "start_low" /\ pc'[Main] = "start_high"
    BY <1>1, <1>3, Zenon DEF StartLow
  <2>2. st[Low] = "idle" /\ st' = [st EXCEPT ![Low] = "busy"]
    BY <2>1, Stages, NextStages, Zenon DEF Child
  <2>3. FJ!Start(Low)
    BY <1>3, <2>1, <2>2, Rounds, Zenon DEF FJ!Start
  <2> QED
    BY <2>3, Zenon DEF FJ!Next, Child
<1>4. CASE StartHigh
  <2>1. pc[Main] = "start_high" /\ pc'[Main] = "collect" /\ pc'[High] = "loop" /\ pc'[Low] = pc[Low]
    BY <1>1, <1>4, Zenon DEF StartHigh
  <2>2. pc[Low] = "loop"
    BY <2>1, Zenon
       DEF IInv, Joint, BetweenRounds, LowStarted, HighSignals, HighStamps, LowMeasures,
           BothDone, HighReported, BothReported
  <2>3. st[High] = "idle" /\ st' = [st EXCEPT ![High] = "busy"]
    BY <2>1, <2>2, Stages, NextStages, Zenon DEF Child
  <2>4. FJ!Start(High)
    BY <1>4, <2>1, <2>3, Rounds, Zenon DEF FJ!Start
  <2> QED
    BY <2>4, Zenon DEF FJ!Next, Child
<1>5. CASE WaitChild /\ left > 0
  <2>1. pc' = pc /\ UNCHANGED <<bench, round>> /\ pc[Main] = "collect"
    BY <1>5, CollectStep, Zenon DEF MainStep, WaitChild
  <2>2. st' = st
    BY <2>1, Stages, NextStages, Zenon
  <2> QED
    BY <2>1, <2>2, Zenon DEF FJ!vars, RoundsOver
<1>6. CASE WaitChild /\ left = 0
  <2>1. pc[Main] = "collect" /\ pc'[Main] = "round" /\ BothReported
    BY <1>1, <1>6, CollectStep, SMTT(90) DEF MainStep, WaitChild
  <2>2. \A t \in Child : st[t] = "done"
    BY <2>1, Stages, Zenon DEF BothReported, Over, Child
  <2>3. st' = [t \in Child |-> "idle"]
    BY <2>1, NextStages, Zenon
  <2>4. FJ!NextRound
    BY <1>6, <2>2, <2>3, Rounds, Zenon DEF FJ!NextRound
  <2> QED
    BY <2>4, Zenon DEF FJ!Next
<1> QED
  BY <1>1, <1>2, <1>3, <1>4, <1>5, <1>6, Zenon DEF MainStep, WaitChild

\* A child's step delivers, or changes nothing that ForkJoin sees.
LEMMA ChildImplements ==
  ASSUME IInv, IInv', NEW t \in Child, ChildStep(t)
  PROVE  [FJ!Next]_(FJ!vars)
<1> DEFINE st == [u \in Child |-> Stage(u)]
<1> USE Distinct
<1>1. /\ DOMAIN pc = Thread /\ pc'[Main] = pc[Main]
      /\ \A u \in Child : u # t => pc'[u] = pc[u]
      /\ UNCHANGED <<bench, round>>
  BY ZenonT(90) DEF IInv, TypeOK, ChildStep, HighStep, LowStep, Report, Step, Child
<1>2. UNCHANGED RoundsOver
  BY <1>1, Zenon DEF RoundsOver
<1>3. CASE pc[Main] # "collect"
  <2>1. st' = st
    BY <1>1, <1>3, Stages, NextStages, Zenon DEF Child
  <2> QED
    BY <1>2, <2>1, Zenon DEF FJ!vars
<1>4. CASE pc[Main] = "collect" /\ pc[t] = "done"
  <2>1. pc'[t] = "block"
    BY <1>1, <1>4, Zenon DEF ChildStep, HighStep, LowStep, Report, Step, Child
  <2>2. st[t] = "busy" /\ st' = [st EXCEPT ![t] = "done"]
    BY <1>1, <1>4, <2>1, Stages, NextStages, Zenon
  <2>3. FJ!Deliver(t)
    BY <1>2, <2>2, Zenon DEF FJ!Deliver
  <2> QED
    BY <2>3, Zenon DEF FJ!Next
<1>5. CASE pc[Main] = "collect" /\ pc[t] # "done"
  <2>1. pc'[t] \in {"block", "off"} <=> pc[t] \in {"block", "off"}
    BY <1>1, <1>5, Zenon DEF ChildStep, HighStep, LowStep, Report, Step, NextLabel, Child
  <2>2. st' = st
    BY <1>1, <1>5, <2>1, Stages, NextStages, Zenon
  <2> QED
    BY <1>2, <2>2 DEF FJ!vars
<1> QED
  BY <1>3, <1>4, <1>5, Zenon

\* The priority benchmarks implement ForkJoin: low and high are started once in each
\* round, and a round ends only when main holds a message from both.
THEOREM ImplementsForkJoin == Spec => FJ!Spec
<1>1. Init => FJ!Init
  <2> SUFFICES ASSUME Init PROVE FJ!Init
    BY Zenon
  <2>1. RoundsOver = 0 /\ pc[Main] = "begin"
    BY Distinct, Zenon DEF Init, RoundsOver
  <2>2. [t \in Child |-> Stage(t)] = [t \in Child |-> "idle"]
    BY <2>1, Stages, InitIInv, Zenon
  <2> QED
    BY <2>1, <2>2, Zenon DEF FJ!Init
<1>2. IInv /\ IInv' /\ [Next]_vars => [FJ!Next]_(FJ!vars)
  <2> SUFFICES ASSUME IInv, IInv', [Next]_vars PROVE [FJ!Next]_(FJ!vars)
    BY Zenon
  <2>1. CASE UNCHANGED vars
    BY <2>1 DEF vars, FJ!vars, RoundsOver, Stage
  <2> QED
    BY <2>1, MainImplements, ChildImplements, Zenon DEF Next, Finished
<1> QED
  BY <1>1, <1>2, Invariance, PTL DEF Spec, FJ!Spec

-----------------------------------------------------------------------------
(* The yield benchmarks.  Both threads have the same priority, so that the *)
(* argument is by the ready queue.  A tick may make a sample that main has *)
(* begun wrong, and may put the yielder one iteration ahead, for which the *)
(* yielder will be missing at the end: Debt counts the samples that will   *)
(* still be wrong if no further tick comes, and no step but a tick makes   *)
(* spoiled + Debt larger.                                                  *)

YBoth == {<<Main, Yielder>>, <<Yielder, Main>>}
YLoop == {"stamp", "yield", "sample"}
YLabel == YLoop \cup {"off", "call", "begin", "wait", "waiting", "suspend"}

\* The types, and who is in the ready queue.
YInv ==
  /\ y_pc \in [Y!Thread -> YLabel]
  /\ y_pc[Main] \in YLoop \cup {"begin", "wait", "waiting", "suspend"}
  /\ y_pc[Yielder] \in {"stamp", "yield", "call", "off"}
  /\ reads \in Nat /\ y_start \in Nat /\ end \in Nat /\ ticks \in Nat /\ spoiled \in Nat
  /\ y_iter \in [Y!Thread -> 0..YieldRuns]
  /\ y_pc[Main] \in YLoop => y_iter[Main] < YieldRuns
  /\ y_pc[Yielder] \in {"stamp", "yield"} => y_iter[Yielder] < YieldRuns
  /\ caller \in BOOLEAN
  /\ caller <=> y_pc[Yielder] = "off" /\ y_pc[Main] \in YLoop \cup {"wait"}
  /\ y_pc[Main] \in {"begin", "suspend"} => y_pc[Yielder] = "off"
  /\ y_pc[Main] \in YLoop /\ y_pc[Yielder] \in {"call", "off"} => y_iter[Yielder] = YieldRuns
  /\ y_pc[Yielder] = "off" => ready = <<Main>>
  /\ y_pc[Yielder] # "off" /\ y_pc[Main] = "waiting" => ready = <<Yielder>>
  /\ y_pc[Yielder] # "off" /\ y_pc[Main] # "waiting" => ready \in YBoth

YNum(b) == IF b THEN 1 ELSE 0
Pos(x) == IF x > 0 THEN x ELSE 0

\* The samples main has to take, and the yields left to the yielder.
SamplesLeft == YieldRuns - y_iter[Main]
YieldsLeft == YieldRuns - y_iter[Yielder]

\* The sample main has begun is wrong as it stands, and will be wrong when the
\* yielder has had its turn.
WrongNow == YNum(end # y_start + 1)
WrongThen == IF y_pc[Yielder] = "stamp" THEN YNum(y_start # reads) ELSE WrongNow

\* When the yielder has gone.
DebtAlone == IF y_pc[Main] = "sample" THEN WrongNow + SamplesLeft - 1 ELSE SamplesLeft

\* When main is the one that runs.
DebtMain ==
  CASE y_pc[Main] = "stamp"  -> YNum(y_pc[Yielder] = "yield") + Pos(SamplesLeft - YieldsLeft)
    [] y_pc[Main] = "yield"  -> WrongThen + Pos(SamplesLeft - YieldsLeft)
    [] y_pc[Main] = "sample" -> WrongNow + YNum(y_pc[Yielder] = "yield")
                                  + Pos(SamplesLeft - 1 - YieldsLeft)

\* When the yielder is.
DebtYielder ==
  CASE y_pc[Main] = "stamp"  -> Pos(SamplesLeft + 1 - YieldsLeft)
    [] y_pc[Main] = "yield"  -> 1 + Pos(SamplesLeft + 1 - YieldsLeft)
    [] y_pc[Main] = "sample" -> WrongThen + Pos(SamplesLeft - YieldsLeft)

Debt ==
  CASE y_pc[Main] \notin YLoop -> 0
    [] y_pc[Main] \in YLoop /\ y_pc[Yielder] \in {"call", "off"} -> DebtAlone
    [] y_pc[Main] \in YLoop /\ y_pc[Yielder] \in {"stamp", "yield"} ->
         IF ready = <<Main, Yielder>> THEN DebtMain ELSE DebtYielder

YDebtInv == YInv /\ spoiled + Debt <= 2 * ticks

\* If what is owed grows by at most two, so does what two per tick allow.
LEMMA YArithmetic ==
  ASSUME NEW a \in Nat, NEW n \in Nat, NEW c \in Int, NEW d \in Int,
         a + c <= 2 * n, d <= c + 2
  PROVE  a + d <= 2 * (n + 1)
OBVIOUS

\* The constants of the second part, and its two threads.
LEMMA YConstants ==
  /\ Main # Yielder /\ Y!Thread = {Main, Yielder}
  /\ YieldRuns \in Nat /\ YieldRuns > 0 /\ Ticks \in Nat
BY SecondPartAssumption DEF Y!YieldAssumption, Y!Thread

\* What the operations of the kernel do to the queues there are.
LEMMA YQueues ==
  ASSUME NEW t, NEW u
  PROVE  /\ Head(<<t>>) = t /\ Head(<<t, u>>) = t
         /\ Tail(<<t>>) = <<>> /\ Tail(<<t, u>>) = <<u>>
         /\ Append(<<>>, t) = <<t>> /\ Append(<<t>>, u) = <<t, u>>
<1>1. Head(<<t>>) = t /\ Head(<<t, u>>) = t
  OBVIOUS
<1>2. Tail(<<t>>) = <<>> /\ Tail(<<t, u>>) = <<u>>
  OBVIOUS
<1>3. Append(<<>>, t) = <<t>>
  OBVIOUS
<1>4. Append(<<t>>, u) = <<t, u>>
  <2>1. Append(<<t>>, u) \in Seq({t, u}) /\ <<t, u>> \in Seq({t, u})
    OBVIOUS
  <2>2. Len(Append(<<t>>, u)) = 2 /\ Len(<<t, u>>) = 2
    OBVIOUS
  <2>3. Append(<<t>>, u)[1] = t /\ Append(<<t>>, u)[2] = u
    OBVIOUS
  <2>4. \A k \in 1..2 : Append(<<t>>, u)[k] = <<t, u>>[k]
    BY <2>3
  <2> QED
    BY <2>1, <2>2, <2>4, SeqEqual, Zenon
<1> QED
  BY <1>1, <1>2, <1>3, <1>4, Zenon

\* The queues there are differ from each other.
LEMMA YDifferent ==
  /\ <<Main, Yielder>> # <<Yielder, Main>> /\ <<Main>> # <<Yielder>>
  /\ <<Main>> \notin YBoth /\ <<Yielder>> \notin YBoth
BY YConstants, Zenon DEF YBoth

\* Only the head of the queue runs.
LEMMA YHead ==
  ASSUME YInv, NEW t \in Y!Thread, Y!Current(t)
  PROVE  /\ t = Main => ready = <<Main>> \/ ready = <<Main, Yielder>>
         /\ t = Yielder => ready = <<Yielder>> \/ ready = <<Yielder, Main>>
BY YConstants DEF YInv, YBoth, Y!Current

\* The end of a time slice adds at most two to what is owed.
LEMMA YTick ==
  ASSUME YDebtInv, Y!Tick
  PROVE  YDebtInv'
<1> USE YConstants
<1>1. /\ y_pc' = y_pc /\ y_iter' = y_iter /\ reads' = reads /\ y_start' = y_start /\ end' = end
      /\ spoiled' = spoiled /\ caller' = caller /\ ticks' = ticks + 1
  BY Zenon DEF Y!Tick
<1>2. \/ ready = <<Main>> /\ ready' = ready
      \/ ready = <<Yielder>> /\ ready' = ready
      \/ ready = <<Main, Yielder>> /\ ready' = <<Yielder, Main>>
      \/ ready = <<Yielder, Main>> /\ ready' = <<Main, Yielder>>
  <2>1. ready \in YBoth \cup {<<Main>>, <<Yielder>>} /\ ready' = Append(Tail(ready), Head(ready))
    BY Zenon DEF YDebtInv, YInv, Y!Tick, Y!Rotate
  <2>2. CASE ready = <<Main>>
    BY <2>1, <2>2, YQueues, ZenonT(90)
  <2>3. CASE ready = <<Yielder>>
    BY <2>1, <2>3, YQueues, ZenonT(90)
  <2>4. CASE ready = <<Main, Yielder>>
    BY <2>1, <2>4, YQueues, ZenonT(90)
  <2>5. CASE ready = <<Yielder, Main>>
    BY <2>1, <2>5, YQueues, ZenonT(90)
  <2> QED
    BY <2>1, <2>2, <2>3, <2>4, <2>5, Zenon DEF YBoth
<1>3. YInv'
  <2>1. ready \in YBoth => ready' \in YBoth
    BY <1>2, YDifferent, Zenon DEF YBoth
  <2>2. ready = <<Main>> => ready' = <<Main>>
    BY <1>2, YDifferent, Zenon DEF YBoth
  <2>3. ready = <<Yielder>> => ready' = <<Yielder>>
    BY <1>2, YDifferent, Zenon DEF YBoth
  <2> QED
    BY <1>1, <2>1, <2>2, <2>3 DEF YDebtInv, YInv
<1>4. Debt' <= Debt + 2
  BY <1>1, <1>2 DEF YDebtInv, YInv, YBoth, YLoop, YNum, Pos, SamplesLeft, YieldsLeft, WrongNow,
       WrongThen, DebtAlone, DebtMain, DebtYielder, Debt
<1>5. Debt \in Int /\ Debt' \in Int
  BY <1>1, <1>2 DEF YDebtInv, YInv, YBoth, YLoop, YNum, Pos, SamplesLeft, YieldsLeft, WrongNow,
       WrongThen, DebtAlone, DebtMain, DebtYielder, Debt
<1>6. spoiled \in Nat /\ ticks \in Nat /\ spoiled + Debt <= 2 * ticks
  BY Zenon DEF YDebtInv, YInv
<1>7. spoiled + Debt' <= 2 * (ticks + 1)
  BY <1>4, <1>5, <1>6, YArithmetic, Zenon
<1>8. spoiled' + Debt' <= 2 * ticks'
  BY <1>1, <1>7, Zenon
<1> QED
  BY <1>3, <1>8, Zenon DEF YDebtInv

\* What is owed is a number.
LEMMA YDebtNumber == (YInv => Debt \in Nat) /\ (YInv' => Debt' \in Nat)
<1>1. YInv => Debt \in Nat
  BY YConstants DEF YInv, YBoth, YLoop, YNum, Pos, SamplesLeft, YieldsLeft, WrongNow,
       WrongThen, DebtAlone, DebtMain, DebtYielder, Debt
<1>2. YInv' => Debt' \in Nat
  BY YConstants DEF YInv, YBoth, YLoop, YNum, Pos, SamplesLeft, YieldsLeft, WrongNow,
       WrongThen, DebtAlone, DebtMain, DebtYielder, Debt
<1> QED
  BY <1>1, <1>2, Zenon

\* Sums with what is owed.
LEMMA YSums ==
  ASSUME NEW a \in Nat, NEW c \in Nat, NEW d \in Nat
  PROVE  /\ d <= c => a + d <= a + c
         /\ \A w \in 0..1 : w + d <= c => (a + w) + d <= a + c
         /\ \A b, n \in Nat : a + c <= 2 * n /\ b + d <= a + c => b + d <= 2 * n
         /\ \A n \in Nat : a + c <= 2 * n => a <= 2 * n
OBVIOUS

\* A step without a tick that does not make more samples wrong.
Owed == YInv' /\ ticks' = ticks /\ spoiled' + Debt' <= spoiled + Debt

\* Such a step keeps the account of ticks and wrong samples in balance.
LEMMA YOwed ==
  ASSUME YDebtInv, Owed
  PROVE  YDebtInv'
<1>1. /\ spoiled \in Nat /\ Debt \in Nat /\ ticks \in Nat
      /\ spoiled' \in Nat /\ Debt' \in Nat
  BY YDebtNumber, Zenon DEF YDebtInv, YInv, Owed
<1>2. spoiled + Debt <= 2 * ticks /\ spoiled' + Debt' <= spoiled + Debt
  BY Zenon DEF YDebtInv, Owed
<1>3. spoiled' + Debt' <= 2 * ticks
  BY <1>1, <1>2, YSums, Zenon
<1> QED
  BY <1>3, Zenon DEF YDebtInv, Owed

\* yield_fn stamps the end.
LEMMA YStampEnd ==
  ASSUME YInv, Y!YielderStamp
  PROVE  Owed
<1> USE YConstants
<1>1. /\ y_pc[Yielder] = "stamp" /\ y_pc'[Yielder] = "yield" /\ y_pc'[Main] = y_pc[Main]
      /\ y_pc' \in [Y!Thread -> YLabel]
  BY Zenon DEF Y!YielderStamp, Y!Running, YInv, YLoop, YLabel
<1>2. UNCHANGED <<ready, y_bench, y_start, y_iter, caller, ticks, spoiled>>
  BY Zenon DEF Y!YielderStamp
<1>3. reads' = reads + 1 /\ end' = reads + 1
  BY Zenon DEF Y!YielderStamp
<1>4. ready = <<Yielder>> \/ ready = <<Yielder, Main>>
  BY YHead, Zenon DEF Y!YielderStamp, Y!Running
<1>5. YInv'
  BY <1>1, <1>2, <1>3 DEF YInv
<1>6. Debt' <= Debt
  BY <1>1, <1>2, <1>3, <1>4, YDifferent DEF YInv, YBoth, YLoop, YNum, Pos, SamplesLeft,
       YieldsLeft, WrongNow, WrongThen, DebtAlone, DebtMain, DebtYielder, Debt
<1>7. spoiled \in Nat /\ Debt \in Nat /\ Debt' \in Nat
  BY <1>5, YDebtNumber, Zenon DEF YInv
<1>8. spoiled + Debt' <= spoiled + Debt
  BY <1>6, <1>7, YSums, Zenon
<1> QED
  BY <1>2, <1>5, <1>8, Zenon DEF Owed

\* yield_fn yields to main, if main is in the queue.
LEMMA YYieldBack ==
  ASSUME YInv, Y!YielderYield
  PROVE  Owed
<1> USE YConstants
<1>1. /\ y_pc[Yielder] = "yield" /\ y_pc'[Main] = y_pc[Main]
      /\ y_pc'[Yielder] = IF y_iter[Yielder] + 1 < YieldRuns THEN "stamp" ELSE "call"
      /\ y_pc' \in [Y!Thread -> YLabel]
  BY Zenon DEF Y!YielderYield, Y!Running, YInv, YLoop, YLabel
<1>2. UNCHANGED <<y_bench, reads, y_start, end, caller, ticks, spoiled>>
  BY Zenon DEF Y!YielderYield
<1>3. /\ y_iter'[Yielder] = y_iter[Yielder] + 1 /\ y_iter'[Main] = y_iter[Main]
      /\ y_iter' \in [Y!Thread -> 0..YieldRuns]
  BY <1>1 DEF Y!YielderYield, YInv
<1>4. \/ ready = <<Yielder>> /\ ready' = <<Yielder>>
      \/ ready = <<Yielder, Main>> /\ ready' = <<Main, Yielder>>
  <2>1. CASE ready = <<Yielder>>
    BY <2>1, YQueues, ZenonT(90) DEF Y!YielderYield, Y!Rotate
  <2>2. CASE ready = <<Yielder, Main>>
    BY <2>2, YQueues, ZenonT(90) DEF Y!YielderYield, Y!Rotate
  <2> QED
    BY <2>1, <2>2, YHead, Zenon DEF Y!YielderYield, Y!Running
<1>5. YInv'
  BY <1>1, <1>2, <1>3, <1>4, YDifferent, SMTT(90) DEF YInv, YBoth
<1>6. Debt' <= Debt
  <2>1. CASE y_pc[Main] \notin YLoop
    BY <1>1, <2>1 DEF Debt
  <2>2. CASE y_pc[Main] \in YLoop
    <3>1. ready = <<Yielder, Main>> /\ ready' = <<Main, Yielder>>
      BY <1>1, <1>4, <2>2, YDifferent, Zenon DEF YInv, YLoop
    <3>2. y_iter[Main] \in 0..YieldRuns - 1 /\ y_iter[Yielder] \in 0..YieldRuns - 1
      BY <1>1, <2>2 DEF YInv
    <3>3. y_start \in Nat /\ end \in Nat /\ reads \in Nat
      BY Zenon DEF YInv
    <3>4. CASE y_pc'[Yielder] = "stamp"
      <4>1. Debt = DebtYielder /\ Debt' = DebtMain'
        BY <1>1, <2>2, <3>1, <3>4, YDifferent, Zenon DEF Debt
      <4>2. SamplesLeft' = SamplesLeft /\ YieldsLeft' = YieldsLeft - 1 /\ WrongNow' = WrongNow
        BY <1>2, <1>3, <3>2 DEF SamplesLeft, YieldsLeft, WrongNow
      <4>3. SamplesLeft \in Nat /\ YieldsLeft \in Nat /\ WrongNow \in 0..1
        BY <3>2 DEF SamplesLeft, YieldsLeft, WrongNow, YNum
      <4>4. WrongThen = WrongNow /\ WrongThen' \in 0..1
        BY <1>1, <3>4 DEF WrongThen, YNum
      <4>5. CASE y_pc[Main] = "stamp"
        BY <1>1, <3>4, <4>1, <4>2, <4>3, <4>5 DEF DebtMain, DebtYielder, Pos, YNum
      <4>6. CASE y_pc[Main] = "yield"
        BY <1>1, <3>4, <4>1, <4>2, <4>3, <4>4, <4>6 DEF DebtMain, DebtYielder, Pos
      <4>7. CASE y_pc[Main] = "sample"
        BY <1>1, <3>4, <4>1, <4>2, <4>3, <4>4, <4>7 DEF DebtMain, DebtYielder, Pos, YNum
      <4> QED
        BY <2>2, <4>5, <4>6, <4>7, Zenon DEF YLoop
    <3>5. CASE y_pc'[Yielder] = "call"
      <4>1. Debt = DebtYielder /\ Debt' = DebtAlone'
        BY <1>1, <2>2, <3>1, <3>5, YDifferent, Zenon DEF Debt
      <4>2. SamplesLeft' = SamplesLeft /\ YieldsLeft = 1 /\ WrongNow' = WrongNow
        BY <1>1, <1>2, <1>3, <3>2, <3>5 DEF SamplesLeft, YieldsLeft, WrongNow
      <4>3. SamplesLeft \in Nat /\ SamplesLeft > 0 /\ WrongNow \in 0..1 /\ WrongThen = WrongNow
        BY <1>1, <3>2 DEF SamplesLeft, WrongNow, WrongThen, YNum
      <4>4. CASE y_pc[Main] = "stamp"
        BY <1>1, <4>1, <4>2, <4>3, <4>4 DEF DebtAlone, DebtYielder, Pos
      <4>5. CASE y_pc[Main] = "yield"
        BY <1>1, <4>1, <4>2, <4>3, <4>5 DEF DebtAlone, DebtYielder, Pos
      <4>6. CASE y_pc[Main] = "sample"
        BY <1>1, <4>1, <4>2, <4>3, <4>6 DEF DebtAlone, DebtYielder, Pos
      <4> QED
        BY <2>2, <4>4, <4>5, <4>6, Zenon DEF YLoop
    <3> QED
      BY <1>1, <3>4, <3>5, Zenon
  <2> QED
    BY <2>1, <2>2, Zenon
<1>7. spoiled \in Nat /\ Debt \in Nat /\ Debt' \in Nat
  BY <1>5, YDebtNumber, Zenon DEF YInv
<1>8. spoiled + Debt' <= spoiled + Debt
  BY <1>6, <1>7, YSums, Zenon
<1> QED
  BY <1>2, <1>5, <1>8, Zenon DEF Owed

\* yield_fn calls main when it is done, and is gone.
LEMMA YCall ==
  ASSUME YInv, Y!YielderCall
  PROVE  Owed
<1> USE YConstants
<1>1. /\ y_pc[Yielder] = "call" /\ y_pc'[Main] = y_pc[Main] /\ y_pc'[Yielder] = "off"
      /\ y_pc' \in [Y!Thread -> YLabel]
  BY Zenon DEF Y!YielderCall, Y!Running, YInv, YLoop, YLabel
<1>2. UNCHANGED <<y_bench, reads, y_start, end, y_iter, ticks, spoiled>>
  BY Zenon DEF Y!YielderCall
<1>3. ready' = <<Main>> /\ (caller' <=> y_pc[Main] # "waiting") /\ caller' \in BOOLEAN
  <2>1. CASE y_pc[Main] = "waiting"
    BY <1>1, <2>1, YQueues, ZenonT(90) DEF Y!YielderCall, YInv
  <2>2. CASE y_pc[Main] # "waiting"
    <3>1. ready = <<Yielder, Main>>
      BY <1>1, <2>2, YHead, YDifferent, Zenon DEF Y!YielderCall, Y!Running, YInv
    <3> QED
      BY <2>2, <3>1, YQueues, ZenonT(90) DEF Y!YielderCall
  <2> QED
    BY <2>1, <2>2, Zenon
<1>4. YInv'
  BY <1>1, <1>2, <1>3, Zenon DEF YInv, YLoop
<1>5. Debt' <= Debt
  BY <1>1, <1>2, YDifferent DEF YInv, YBoth, YLoop, YNum, Pos, SamplesLeft, YieldsLeft,
       WrongNow, WrongThen, DebtAlone, DebtMain, DebtYielder, Debt
<1>6. spoiled \in Nat /\ Debt \in Nat /\ Debt' \in Nat
  BY <1>4, YDebtNumber DEF YInv
<1>7. spoiled + Debt' <= spoiled + Debt
  BY <1>5, <1>6, YSums, Zenon
<1> QED
  BY <1>2, <1>4, <1>7, Zenon DEF Owed

\* benchmark_yield stamps the start.
LEMMA YStampStart ==
  ASSUME YInv, Y!MainStamp
  PROVE  Owed
<1> USE YConstants
<1>1. /\ y_pc[Main] = "stamp" /\ y_pc'[Main] = "yield" /\ y_pc'[Yielder] = y_pc[Yielder]
      /\ y_pc' \in [Y!Thread -> YLabel]
  BY Zenon DEF Y!MainStamp, Y!Running, YInv, YLoop, YLabel
<1>2. UNCHANGED <<ready, y_bench, end, y_iter, caller, ticks, spoiled>>
  BY Zenon DEF Y!MainStamp
<1>3. reads' = reads + 1 /\ y_start' = reads + 1
  BY Zenon DEF Y!MainStamp
<1>4. ready = <<Main>> \/ ready = <<Main, Yielder>>
  BY YHead, Zenon DEF Y!MainStamp, Y!Running
<1>5. YInv'
  BY <1>1, <1>2, <1>3 DEF YInv, YLoop
<1>6. Debt' <= Debt
  BY <1>1, <1>2, <1>3, <1>4, YDifferent DEF YInv, YBoth, YLoop, YNum, Pos, SamplesLeft,
       YieldsLeft, WrongNow, WrongThen, DebtAlone, DebtMain, DebtYielder, Debt
<1>7. spoiled \in Nat /\ Debt \in Nat /\ Debt' \in Nat
  BY <1>5, YDebtNumber, Zenon DEF YInv
<1>8. spoiled + Debt' <= spoiled + Debt
  BY <1>6, <1>7, YSums
<1> QED
  BY <1>2, <1>5, <1>8 DEF Owed

\* benchmark_yield yields to the yielder, if it is in the queue.
LEMMA YYield ==
  ASSUME YInv, Y!MainYield
  PROVE  Owed
<1> USE YConstants
<1>1. /\ y_pc[Main] = "yield" /\ y_pc'[Main] = "sample" /\ y_pc'[Yielder] = y_pc[Yielder]
      /\ y_pc' \in [Y!Thread -> YLabel]
  BY Zenon DEF Y!MainYield, Y!Running, YInv, YLoop, YLabel
<1>2. UNCHANGED <<y_bench, reads, y_start, end, y_iter, caller, ticks, spoiled>>
  BY Zenon DEF Y!MainYield
<1>3. \/ ready = <<Main>> /\ ready' = <<Main>>
      \/ ready = <<Main, Yielder>> /\ ready' = <<Yielder, Main>>
  <2>1. CASE ready = <<Main>>
    BY <2>1, YQueues, ZenonT(90) DEF Y!MainYield, Y!Rotate
  <2>2. CASE ready = <<Main, Yielder>>
    BY <2>2, YQueues, ZenonT(90) DEF Y!MainYield, Y!Rotate
  <2> QED
    BY <2>1, <2>2, YHead, Zenon DEF Y!MainYield, Y!Running
<1>4. YInv'
  BY <1>1, <1>2, <1>3, YDifferent, Zenon DEF YInv, YLoop, YBoth
<1>5. Debt' <= Debt
  <2>1. CASE y_pc[Yielder] \in {"call", "off"}
    BY <2>1, <1>1, <1>2, <1>3, YDifferent, SMTT(90)
       DEF YInv, YBoth, YLoop, YNum, Pos, SamplesLeft, YieldsLeft, WrongNow, WrongThen,
           DebtAlone, DebtMain, DebtYielder, Debt
  <2>2. CASE y_pc[Yielder] = "stamp"
    BY <2>2, <1>1, <1>2, <1>3, YDifferent, SMTT(90)
       DEF YInv, YBoth, YLoop, YNum, Pos, SamplesLeft, YieldsLeft, WrongNow, WrongThen,
           DebtAlone, DebtMain, DebtYielder, Debt
  <2>3. CASE y_pc[Yielder] = "yield"
    <3>1. ready = <<Main, Yielder>> /\ ready' # <<Main, Yielder>>
      BY <2>3, <1>3, YDifferent DEF YInv, YBoth
    <3>2. Debt = WrongNow + Pos(SamplesLeft - YieldsLeft)
      BY <2>3, <3>1, <1>1 DEF Debt, DebtMain, WrongThen, YLoop
    <3>3. Debt' = WrongNow' + Pos(SamplesLeft' - YieldsLeft')
      BY <2>3, <3>1, <1>1 DEF Debt, DebtYielder, WrongThen, YLoop
    <3>4. WrongNow' = WrongNow /\ SamplesLeft' = SamplesLeft /\ YieldsLeft' = YieldsLeft
      BY <1>2 DEF WrongNow, SamplesLeft, YieldsLeft
    <3>5. Debt \in Nat /\ Debt' = Debt
      BY <3>2, <3>3, <3>4, YDebtNumber
    <3> QED
      BY <3>5
  <2> QED
    BY <2>1, <2>2, <2>3 DEF YInv
<1>6. spoiled \in Nat /\ Debt \in Nat /\ Debt' \in Nat
  BY <1>4, YDebtNumber DEF YInv
<1>7. spoiled + Debt' <= spoiled + Debt
  BY <1>5, <1>6, YSums
<1> QED
  BY <1>2, <1>4, <1>7, Zenon DEF Owed

\* benchmark_yield takes the sample.
LEMMA YSample ==
  ASSUME YInv, Y!MainSample
  PROVE  Owed
<1> USE YConstants
<1>1. /\ y_pc[Main] = "sample" /\ y_pc'[Yielder] = y_pc[Yielder]
      /\ y_pc'[Main] = IF y_iter[Main] + 1 < YieldRuns THEN "stamp" ELSE "wait"
      /\ y_pc' \in [Y!Thread -> YLabel]
  BY Zenon DEF Y!MainSample, Y!Running, YInv, YLoop, YLabel
<1>2. UNCHANGED <<ready, y_bench, reads, y_start, end, caller, ticks>>
  BY Zenon DEF Y!MainSample
<1>3. /\ y_iter'[Main] = y_iter[Main] + 1 /\ y_iter'[Yielder] = y_iter[Yielder]
      /\ y_iter' \in [Y!Thread -> 0..YieldRuns]
  BY <1>1 DEF Y!MainSample, YInv, YLoop
<1>4. spoiled' = spoiled + WrongNow /\ WrongNow \in 0..1
  BY DEF Y!MainSample, WrongNow, YNum, YInv
<1>5. ready = <<Main>> \/ ready = <<Main, Yielder>>
  BY YHead, Zenon DEF Y!MainSample, Y!Running
<1>6. YInv'
  BY <1>1, <1>2, <1>3, <1>4 DEF YInv, YLoop
<1>7. WrongNow + Debt' <= Debt
  BY <1>1, <1>2, <1>3, <1>5, YDifferent DEF YInv, YBoth, YLoop, YNum, Pos, SamplesLeft,
       YieldsLeft, WrongNow, WrongThen, DebtAlone, DebtMain, DebtYielder, Debt
<1>8. spoiled \in Nat /\ Debt \in Nat /\ Debt' \in Nat
  BY <1>6, YDebtNumber DEF YInv
<1>9. (spoiled + WrongNow) + Debt' <= spoiled + Debt
  BY <1>4, <1>7, <1>8, YSums, Zenon
<1> QED
  BY <1>2, <1>4, <1>6, <1>9, Zenon DEF Owed

\* The steps of main outside its loop begin a benchmark with nothing owed, or leave
\* none of the counters of a benchmark changed.
LEMMA YStart ==
  ASSUME YInv, Y!StartYielder
  PROVE  YDebtInv'
<1> USE YConstants
<1>1. /\ y_pc[Main] = "begin" /\ y_pc'[Main] = "stamp" /\ y_pc'[Yielder] = "stamp"
      /\ y_pc' \in [Y!Thread -> YLabel]
  BY Zenon DEF Y!StartYielder, YInv, YLoop, YLabel
<1>2. /\ reads' = 0 /\ end' = 0 /\ y_iter' = [t \in Y!Thread |-> 0] /\ ticks' = 0 /\ spoiled' = 0
      /\ UNCHANGED <<y_start, caller>>
  BY Zenon DEF Y!StartYielder
<1>3. ready' = <<Main, Yielder>>
  BY <1>1, YQueues, ZenonT(90) DEF Y!StartYielder, YInv
<1>4. y_iter' \in [Y!Thread -> 0..YieldRuns] /\ y_iter'[Main] = 0 /\ y_iter'[Yielder] = 0
  BY <1>2
<1>5. YInv'
  BY <1>1, <1>2, <1>3, <1>4, Zenon DEF YInv, YLoop, YBoth
<1>6. Debt' = 0
  BY <1>1, <1>3, <1>4 DEF YLoop, YNum, Pos, SamplesLeft, YieldsLeft, WrongNow,
       WrongThen, DebtAlone, DebtMain, DebtYielder, Debt
<1> QED
  BY <1>2, <1>5, <1>6 DEF YDebtInv

\* benchmark_wait_children receives the yielder's message, or blocks for it.
LEMMA YWait ==
  ASSUME YInv, Y!MainWait
  PROVE  Owed
<1> USE YConstants
<1>1. UNCHANGED <<y_bench, reads, y_start, end, y_iter, ticks, spoiled>>
  BY Zenon DEF Y!MainWait
<1>2. /\ y_pc[Main] = "wait" /\ y_pc'[Main] \in {"suspend", "waiting"}
      /\ y_pc'[Yielder] = y_pc[Yielder] /\ caller' = FALSE
      /\ y_pc' \in [Y!Thread -> YLabel]
  BY Zenon DEF Y!MainWait, Y!Running, YInv, YLoop, YLabel
<1>3. \/ y_pc[Yielder] = "off" /\ y_pc'[Main] = "suspend" /\ ready' = <<Main>>
      \/ y_pc[Yielder] # "off" /\ y_pc'[Main] = "waiting" /\ ready' = <<Yielder>>
  <2>1. CASE caller
    BY <1>2, <2>1, Zenon DEF Y!MainWait, Y!Running, YInv, YLoop
  <2>2. CASE ~caller
    <3>1. ready = <<Main, Yielder>> /\ y_pc[Yielder] # "off"
      BY <1>2, <2>2, YHead, YDifferent, Zenon DEF Y!MainWait, Y!Running, YInv, YLoop
    <3> QED
      BY <1>2, <2>2, <3>1, YQueues, ZenonT(90) DEF Y!MainWait, Y!Running, YInv
  <2> QED
    BY <2>1, <2>2, Zenon
<1>4. YInv'
  BY <1>1, <1>2, <1>3, Zenon DEF YInv, YLoop
<1>5. Debt' = 0 /\ Debt = 0
  BY <1>2, Zenon DEF Debt, YLoop
<1> QED
  BY <1>1, <1>4, <1>5 DEF Owed, YInv

\* Main suspends the yielder.
LEMMA YSuspend ==
  ASSUME YInv, Y!SuspendYielder
  PROVE  Owed
<1> USE YConstants
<1>1. UNCHANGED <<y_bench, reads, y_start, end, y_iter, caller, ticks, spoiled>>
  BY Zenon DEF Y!SuspendYielder
<1>2. /\ y_pc[Main] \in {"suspend", "waiting"} /\ y_pc'[Main] = "begin" /\ y_pc'[Yielder] = "off"
      /\ y_pc' \in [Y!Thread -> YLabel]
  BY Zenon DEF Y!SuspendYielder, YInv, YLoop, YLabel
<1>3. ready' = <<Main>>
  BY Zenon DEF Y!SuspendYielder
<1>4. YInv'
  BY <1>1, <1>2, <1>3, Zenon DEF YInv, YLoop
<1>5. Debt' = 0 /\ Debt = 0
  BY <1>2, Zenon DEF Debt, YLoop
<1> QED
  BY <1>1, <1>4, <1>5 DEF Owed, YInv

\* Nothing changes: the priority benchmarks still run, or all benchmarks are over.
LEMMA YStutter ==
  ASSUME YDebtInv, UNCHANGED yieldvars
  PROVE  YDebtInv'
<1>1. /\ ready' = ready /\ y_pc' = y_pc /\ reads' = reads /\ y_start' = y_start /\ end' = end
      /\ y_iter' = y_iter /\ caller' = caller /\ ticks' = ticks /\ spoiled' = spoiled
  BY Zenon DEF yieldvars
<1>2. YInv'
  BY <1>1, Zenon DEF YDebtInv, YInv
<1>3. Debt' = Debt
  BY <1>1 DEF SamplesLeft, YieldsLeft, WrongNow, WrongThen, DebtAlone, DebtMain, DebtYielder,
     Debt
<1> QED
  BY <1>1, <1>2, <1>3, Zenon DEF YDebtInv

(***************************************************************************)
(* The end of a time slice in the middle of a yield benchmark spoils at    *)
(* most two of its samples, those at the end of benchmark_yield's loop     *)
(* included for which the yielder has gone already: for every number of    *)
(* iterations and of ticks, wherever the ticks fall.                       *)
(***************************************************************************)
THEOREM TicksAreLocal == MainSpec => []TickSpoilsAtMostTwo
<1>1. MainInit => YDebtInv
  <2> SUFFICES ASSUME Y!Init PROVE YDebtInv
    BY Zenon DEF MainInit
  <2>1. YInv
    <3>1. /\ y_pc[Main] = "begin" /\ y_pc[Yielder] = "off"
          /\ y_pc \in [Y!Thread -> YLabel]
          /\ y_iter \in [Y!Thread -> 0..YieldRuns]
      BY YConstants DEF Y!Init, YLabel
    <3>2. ready = <<Main>> /\ caller = FALSE
      BY Zenon DEF Y!Init
    <3>3. reads = 0 /\ y_start = 0 /\ end = 0 /\ ticks = 0 /\ spoiled = 0
      BY Zenon DEF Y!Init
    <3> QED
      BY <3>1, <3>2, <3>3, Zenon DEF YInv, YLoop
  <2>2. Debt = 0
    BY YConstants, Zenon DEF Y!Init, Debt, YLoop
  <2> QED
    BY <2>1, <2>2 DEF YDebtInv, Y!Init
<1>2. YDebtInv /\ [MainNext]_<<vars, yieldvars>> => YDebtInv'
  <2> SUFFICES ASSUME YDebtInv, [MainNext]_<<vars, yieldvars>> PROVE YDebtInv'
    BY Zenon
  <2>1. YInv
    BY Zenon DEF YDebtInv
  <2>2. CASE UNCHANGED yieldvars
    BY <2>2, YStutter, Zenon
  <2>3. CASE Y!ThreadStep
    BY <2>1, <2>3, YOwed, YStampEnd, YYieldBack, YCall, YStampStart, YYield, YSample, YStart,
       YWait, YSuspend, Zenon DEF Y!ThreadStep
  <2>4. CASE Y!Finished
    BY <2>4, YStutter, Zenon DEF Y!Finished, Y!vars, yieldvars
  <2> QED
    BY <2>2, <2>3, <2>4, YTick, Zenon DEF MainNext, Y!Next
<1>3. YDebtInv => TickSpoilsAtMostTwo
  <2> SUFFICES ASSUME YDebtInv PROVE spoiled <= 2 * ticks
    BY Zenon DEF TickSpoilsAtMostTwo, Y!TickSpoilsAtMostTwo
  <2>1. Debt \in Nat /\ spoiled \in Nat /\ ticks \in Nat /\ spoiled + Debt <= 2 * ticks
    BY YDebtNumber, Zenon DEF YDebtInv, YInv
  <2> QED
    BY <2>1, YSums, Zenon
<1> QED
  BY <1>1, <1>2, <1>3, PTL DEF MainSpec

=============================================================================
