-------------------------- MODULE ProducerConsumer --------------------------
(***************************************************************************)
(* benchmark_producer_consumer and benchmark_producer_consumer_ep of       *)
(* src/apps/sync: a producer and a consumer exchange N_RUNS items through  *)
(* a bounded fifo guarded by one lock and two condition variables.  The    *)
(* two benchmarks run one after the other on the same lock and condition   *)
(* variables, with new threads.                                            *)
(*                                                                         *)
(* The variable a thread reads as *start is the one its peer writes as     *)
(* *signal.  Its value is abstracted to the peer's iteration that wrote it *)
(* (counted from 1; 0 for the uninitialised variable).                     *)
(***************************************************************************)
EXTENDS SyncLib, FiniteSets

CONSTANTS
  Main, Producer, Consumer,
  Runs,      \* N_RUNS
  Ignored    \* N_IGNORED

PCAssumption ==
  /\ Main # Producer /\ Main # Consumer /\ Producer # Consumer
  /\ Runs \in Nat \ {0}
  /\ Ignored \in 1..Runs

VARIABLES
  phase,      \* benchmarks begun: 1 storing every sample, 2 summing them
  fifo_head,
  iter,       \* thread -> iterations of its loop that are complete
  stamp,      \* thread -> what it reads as *start
  sample,     \* thread -> <<iteration, stamp>> of its last sample
  reported,   \* thread -> the stamps of the samples its statistics use
  todo, left  \* as in Broadcast

pvars == <<phase, fifo_head, iter, stamp, sample, reported, todo, left>>
vars == <<tcb, pc, active, value, cv, phase, fifo_head, iter, stamp, sample,
          reported, todo, left>>

Phases == 2

\* Mutant: a larger fifo.
FIFO_SIZE_Two == 2

FIFO_SIZE == 1
Child == {Producer, Consumer}
Thread == Child \cup {Main}
ProducerCv == "producer_cv"
ConsumerCv == "consumer_cv"
DoneEp == "done_ep"
BlockEp == "block_ep"

MaxPrio == 255
prio == [t \in Thread |-> MaxPrio]

\* The arguments of the two instances of SYNC_PRODUCER_CONSUMER_FUNC.
Peer(t)      == IF t = Producer THEN Consumer ELSE Producer
wait_cv(t)   == IF t = Producer THEN ConsumerCv ELSE ProducerCv

\* Mutant: a thread signals the condition variable it waits on itself.
signal_cv_Own(t) == wait_cv(t)

signal_cv(t) == IF t = Producer THEN ProducerCv ELSE ConsumerCv

\* Mutant: the producer tests for a full fifo one item too late.
condition_Late(t) == IF t = Producer THEN fifo_head > FIFO_SIZE ELSE fifo_head = 0

condition(t) == IF t = Producer THEN fifo_head = FIFO_SIZE ELSE fifo_head = 0
work(t)      == fifo_head' = IF t = Producer THEN fifo_head + 1 ELSE fifo_head - 1

Init ==
  /\ tcb = [t \in Thread |-> IF t = Main THEN Running ELSE Inactive]
  /\ pc = [t \in Thread |-> IF t = Main THEN "begin" ELSE "off"]
  /\ active = [n \in {Lock, ProducerCv, ConsumerCv} |-> FALSE]
  /\ value = 1
  /\ cv = [c \in {ProducerCv, ConsumerCv} |-> NewCv]
  /\ phase = 0
  /\ fifo_head = 0
  /\ iter = [t \in Child |-> 0]
  /\ stamp = [t \in Child |-> 0]
  /\ sample = [t \in Child |-> <<0, 0>>]
  /\ reported = [t \in Child |-> {}]
  /\ todo = {}
  /\ left = 0

-----------------------------------------------------------------------------
(* The producer and the consumer.                                          *)

AcquireLock(t) ==
  /\ \/ SemWait(t, "lock", "lock_wait", "locked")
     \/ SemBlock(t, "lock_wait", "locked")
  /\ UNCHANGED pvars

\* while (condition) { sync_cv_wait(lock, wait_cv); }
CvWait(t) ==
  /\ \/ /\ condition(t)
        /\ Step(t, "locked", "cv_post")
        /\ CvEnter(wait_cv(t))
        /\ UNCHANGED <<tcb, active, value>>
     \/ SemPost(t, "cv_post", "cv_post_signal", "cv_block")
     \/ SemSignal(t, "cv_post_signal", "cv_block")
     \/ CvBlock(t, wait_cv(t), "cv_block", "cv_lock")
     \/ SemWait(t, "cv_lock", "cv_lock_wait", "cv_leave")
     \/ SemBlock(t, "cv_lock_wait", "cv_leave")
     \/ CvLeave(t, wait_cv(t), "cv_leave", "locked")
  /\ UNCHANGED pvars

\* The first N_IGNORED samples of a thread enter no statistics: the driver
\* skips them in the first benchmark, DATACOLLECT_GET_SUMS in the second.
IsReported(i) == i >= Ignored

\* Mutant: the signal is stamped after the peer was signalled and the lock
\* released, too late for the sample that is measured from it.
Work_LateStamp(t) ==
  /\ ~condition(t)
  /\ Step(t, "locked", "post")
  /\ sample' = [sample EXCEPT ![t] = <<iter[t], stamp[t]>>]
  /\ reported' = [reported EXCEPT ![t] =
                    IF IsReported(iter[t]) THEN @ \cup {stamp[t]} ELSE @]
  /\ work(t)
  /\ stamp' = [stamp EXCEPT ![Peer(t)] = iter[t]]
  /\ iter' = [iter EXCEPT ![t] = @ + 1]
  /\ sync_cv_signal(signal_cv(t))
  /\ UNCHANGED <<value, phase, todo, left>>

\* The rest of the critical section: take the sample, change the fifo, stamp
\* the signal and signal the peer.
Work(t) ==
  /\ ~condition(t)
  /\ Step(t, "locked", "post")
  /\ sample' = [sample EXCEPT ![t] = <<iter[t], stamp[t]>>]
  /\ reported' = [reported EXCEPT ![t] =
                    IF IsReported(iter[t]) THEN @ \cup {stamp[t]} ELSE @]
  /\ work(t)
  /\ stamp' = [stamp EXCEPT ![Peer(t)] = iter[t] + 1]
  /\ iter' = [iter EXCEPT ![t] = @ + 1]
  /\ sync_cv_signal(signal_cv(t))
  /\ UNCHANGED <<value, phase, todo, left>>

ReleaseLock(t) ==
  LET next == IF iter[t] < Runs THEN "lock" ELSE "done"
  IN  /\ \/ SemPost(t, "post", "post_signal", next)
         \/ SemSignal(t, "post_signal", next)
      /\ UNCHANGED pvars

Report(t) ==
  /\ \/ Step(t, "done", "block") /\ Send(t, DoneEp)
     \/ Step(t, "block", "off") /\ Recv(t, BlockEp)
  /\ UNCHANGED <<value, cv, pvars>>

ChildStep(t) ==
  /\ CanRun(t, prio)
  /\ AcquireLock(t) \/ CvWait(t) \/ Work(t) \/ ReleaseLock(t) \/ Report(t)

-----------------------------------------------------------------------------
(* The main thread.                                                        *)

\* Enter benchmark_producer_consumer, or its early-processing variant: the
\* fifo is empty and the two stamps are uninitialised local variables.
BeginPhase ==
  /\ pc[Main] = "begin" /\ phase < Phases
  /\ pc' = [pc EXCEPT ![Main] = "start"]
  /\ phase' = phase + 1
  /\ fifo_head' = 0
  /\ iter' = [t \in Child |-> 0]
  /\ stamp' = [t \in Child |-> 0]
  /\ sample' = [t \in Child |-> <<0, 0>>]
  /\ reported' = [t \in Child |-> {}]
  /\ todo' = Child
  /\ UNCHANGED <<tcb, active, value, cv, left>>

\* sel4utils_start_thread, the producer first.
StartChild(t) ==
  /\ pc[Main] = "start" /\ t \in todo
  /\ Producer \in todo => t = Producer
  /\ todo' = todo \ {t}
  /\ left' = 2
  /\ pc' = [pc EXCEPT ![t] = "lock",
                      ![Main] = IF todo = {t} THEN "collect" ELSE "start"]
  /\ SetState(t, Running)
  /\ UNCHANGED <<active, value, cv, phase, fifo_head, iter, stamp, sample, reported>>

\* benchmark_wait_children(ep, ..., 2)
WaitChild ==
  /\ pc[Main] = "collect" /\ left > 0
  /\ left' = left - 1
  /\ Recv(Main, DoneEp)
  /\ UNCHANGED <<pc, value, cv, phase, fifo_head, iter, stamp, sample, reported, todo>>

EndCollect ==
  /\ pc[Main] = "collect" /\ left = 0
  /\ pc' = [pc EXCEPT ![Main] = "suspend"]
  /\ todo' = Child
  /\ UNCHANGED <<tcb, active, value, cv, phase, fifo_head, iter, stamp, sample,
                 reported, left>>

\* seL4_TCB_Suspend, the producer first.
SuspendChild(t) ==
  /\ pc[Main] = "suspend" /\ t \in todo
  /\ Producer \in todo => t = Producer
  /\ todo' = todo \ {t}
  /\ pc' = [pc EXCEPT ![t] = "off",
                      ![Main] = IF todo = {t} THEN "begin" ELSE "suspend"]
  /\ SetState(t, Inactive)
  /\ UNCHANGED <<active, value, cv, phase, fifo_head, iter, stamp, sample,
                 reported, left>>

MainStep ==
  /\ CanRun(Main, prio)
  /\ \/ BeginPhase
     \/ WaitChild
     \/ EndCollect
     \/ \E t \in Child : StartChild(t) \/ SuspendChild(t)

AtEnd == pc[Main] = "begin" /\ phase = Phases

Finished == AtEnd /\ UNCHANGED vars

Next ==
  \/ MainStep
  \/ \E t \in Child : ChildStep(t)
  \/ Finished

Spec == Init /\ [][Next]_vars
FairSpec == Spec /\ WF_vars(Next)

-----------------------------------------------------------------------------
(* Properties.                                                             *)

AllReported == pc[Main] = "collect" /\ left = 0 /\ tcb[Main] = Running

\* The fifo never holds fewer than 0 or more than FIFO_SIZE items, and what it
\* holds is exactly what the producer put in and the consumer has not taken.
FifoMatchesProgress ==
  /\ fifo_head \in 0..FIFO_SIZE
  /\ fifo_head = iter[Producer] - iter[Consumer]

\* A sample is measured from the peer's signal that made it possible: the
\* consumer's i-th from the producer's i-th put, the producer's i-th from the
\* consumer's (i-1)-th get (main.c:158-161).  A stale or a later stamp would
\* give a wrong latency without any other symptom.  When main has heard from both,
\* the statistics of each rest on exactly N_RUNS - N_IGNORED samples (main.c:252
\* reports that number), from different signals and none on an uninitialised stamp.
SamplesMatchSignals ==
  /\ iter[Consumer] > 0 => sample[Consumer] = <<iter[Consumer] - 1, iter[Consumer]>>
  /\ iter[Producer] > 0 => sample[Producer] = <<iter[Producer] - 1, iter[Producer] - 1>>
  /\ AllReported => \A t \in Child : /\ Cardinality(reported[t]) = Runs - Ignored
                                     /\ 0 \notin reported[t]

\* The second benchmark finds the lock and the condition variables as the first
\* one did: free, with no waiter and no pending signal (main.c:354-358 reuse
\* them).  It holds because a fifo of size 1 leaves no signal unconsumed.
CleanHandover ==
  pc[Main] \in {"begin", "suspend"} \/ AllReported =>
    /\ value = 1
    /\ \A c \in DOMAIN cv : cv[c] = NewCv
    /\ \A n \in DOMAIN active : ~active[n]
    /\ fifo_head = 0

\* Both benchmarks finish: no wakeup is lost between the test of the fifo and
\* the wait on the condition variable.
Termination == <>AtEnd

=============================================================================
