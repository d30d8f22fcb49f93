------------------------------ MODULE Broadcast ------------------------------
(***************************************************************************)
(* benchmark_broadcast of src/apps/sync: in every run main restarts the    *)
(* waiters and the broadcaster, the waiters block on a condition variable, *)
(* the broadcaster wakes them, and main counts the N_WAITERS + 1 messages  *)
(* with which the threads report that they are done.                       *)
(*                                                                         *)
(* A time stamp is abstracted to the number of the run that read it (0 for *)
(* the uninitialised variable), which is what tells a right sample from a  *)
(* stale one.                                                              *)
(***************************************************************************)
EXTENDS SyncLib, FiniteSets

CONSTANTS
  Main,         \* the application's initial thread
  Broadcaster,
  Waiter,       \* the N_WAITERS waiter threads
  Runs          \* N_RUNS

ASSUME ThreadAssumption ==
  /\ IsFiniteSet(Waiter)
  /\ Waiter # {}
  /\ Main # Broadcaster
  /\ Main \notin Waiter
  /\ Broadcaster \notin Waiter
ASSUME RunsAssumption == Runs \in Nat

VARIABLES
  shared,   \* the predicate the waiters wait for
  start,    \* the run in which the broadcaster last read *start
  run,      \* main's loop counter, counted from 1
  todo,     \* threads main still has to start or to suspend
  left,     \* messages benchmark_wait_children still waits for
  sample    \* waiter -> the stamp its last result was computed from

bvars == <<shared, start, run, todo, left, sample>>
vars == <<tcb, pc, active, value, cv, shared, start, run, todo, left, sample>>

Cv == "cv"
DoneEp == "done_ep"
BlockEp == "block_ep"
Child == Waiter \cup {Broadcaster}
Thread == Child \cup {Main}
N_WAITERS == Cardinality(Waiter)

MaxPrio == 255

\* Mutant: the broadcaster is configured at the waiters' priority.
prio_Equal == [t \in Thread |-> MaxPrio]

prio == [t \in Thread |-> IF t = Broadcaster THEN MaxPrio - 1 ELSE MaxPrio]

Init ==
  /\ tcb = [t \in Thread |-> IF t = Main THEN Running ELSE Inactive]
  /\ pc = [t \in Thread |-> IF t = Main THEN "collect" ELSE "off"]
  /\ active = [n \in {Lock, Cv} |-> FALSE]
  /\ value = 1
  /\ cv = [c \in {Cv} |-> NewCv]
  /\ shared = 0
  /\ start = 0
  /\ run = 0
  /\ todo = {}
  /\ left = 0
  /\ sample = [w \in Waiter |-> 0]

-----------------------------------------------------------------------------
(* The waiters and the broadcaster.                                        *)

\* Mutant: the broadcaster does not take the lock.
AcquireLock_WaitersOnly(t) ==
  /\ \/ t # Broadcaster /\ SemWait(t, "lock", "lock_wait", "locked")
     \/ SemBlock(t, "lock_wait", "locked")
     \/ t = Broadcaster /\ Step(t, "lock", "locked") /\ UNCHANGED <<tcb, active, value, cv>>
  /\ UNCHANGED bvars

\* sync_bin_sem_wait(lock), at the start of either function.
AcquireLock(t) ==
  /\ \/ SemWait(t, "lock", "lock_wait", "locked")
     \/ SemBlock(t, "lock_wait", "locked")
  /\ UNCHANGED bvars

\* The test of the waiter's loop: wait once more, or take the sample.
TestShared(w) ==
  /\ w \in Waiter
  /\ \/ /\ shared = 0
        /\ Step(w, "locked", "cv_post")
        /\ CvEnter(Cv)
        /\ UNCHANGED <<tcb, active, value, bvars>>
     \/ /\ shared # 0
        /\ Step(w, "locked", "post")
        /\ sample' = [sample EXCEPT ![w] = start]
        /\ UNCHANGED <<tcb, active, value, cv, shared, start, run, todo, left>>

\* The rest of sync_cv_wait(lock, cv).
CvWait(w) ==
  /\ \/ SemPost(w, "cv_post", "cv_post_signal", "cv_block")
     \/ SemSignal(w, "cv_post_signal", "cv_block")
     \/ CvBlock(w, Cv, "cv_block", "cv_lock")
     \/ SemWait(w, "cv_lock", "cv_lock_wait", "cv_leave")
     \/ SemBlock(w, "cv_lock_wait", "cv_leave")
     \/ CvLeave(w, Cv, "cv_leave", "locked")
  /\ UNCHANGED bvars

\* The broadcaster's critical section.
DoBroadcast(t) ==
  /\ t = Broadcaster
  /\ Step(t, "locked", "post")
  /\ shared' = N_WAITERS
  /\ start' = run
  /\ sync_cv_broadcast(Cv)
  /\ UNCHANGED <<value, run, todo, left, sample>>

\* Mutant: the broadcaster uses dummy_bin_sem_post, which does nothing, without
\* a broadcast that releases the lock in its stead.
ReleaseLock_Dummy(t) ==
  /\ \/ t # Broadcaster /\ SemPost(t, "post", "post_signal", "done")
     \/ SemSignal(t, "post_signal", "done")
     \/ t = Broadcaster /\ Step(t, "post", "done") /\ UNCHANGED <<tcb, active, value, cv>>
  /\ UNCHANGED bvars

\* sync_bin_sem_post(lock), at the end of either function.
ReleaseLock(t) ==
  /\ \/ SemPost(t, "post", "post_signal", "done")
     \/ SemSignal(t, "post_signal", "done")
  /\ UNCHANGED bvars

\* The waiter's seL4_Yield changes nothing: a switch to a thread of the same
\* priority is possible at every step.  Nobody sends to block_ep.
Report(t) ==
  /\ \/ Step(t, "done", "block") /\ Send(t, DoneEp)
     \/ Step(t, "block", "off") /\ Recv(t, BlockEp)
  /\ UNCHANGED <<value, cv, bvars>>

ChildStep(t) ==
  /\ CanRun(t, prio)
  /\ \/ AcquireLock(t)
     \/ TestShared(t)
     \/ CvWait(t)
     \/ DoBroadcast(t)
     \/ ReleaseLock(t)
     \/ Report(t)

-----------------------------------------------------------------------------
(* The main thread.                                                        *)

\* Mutant: shared is not reset between the runs.
BeginRun_NoReset ==
  /\ pc[Main] = "collect" /\ left = 0
  /\ run' = IF run < Runs THEN run + 1 ELSE run
  /\ todo' = IF run < Runs THEN Waiter ELSE Child
  /\ pc' = [pc EXCEPT ![Main] = IF run < Runs THEN "start" ELSE "suspend"]
  /\ UNCHANGED <<tcb, active, value, cv, shared, start, left, sample>>

BeginRun ==
  /\ pc[Main] = "collect" /\ left = 0
  /\ IF run < Runs
     THEN /\ run' = run + 1
          /\ shared' = 0
          /\ todo' = Waiter
          /\ pc' = [pc EXCEPT ![Main] = "start"]
     ELSE /\ todo' = Child
          /\ pc' = [pc EXCEPT ![Main] = "suspend"]
          /\ UNCHANGED <<run, shared>>
  /\ UNCHANGED <<tcb, active, value, cv, start, left, sample>>

\* sel4utils_start_thread cancels whatever the thread is blocked on.
StartWaiter(w) ==
  /\ pc[Main] = "start" /\ w \in todo
  /\ todo' = todo \ {w}
  /\ pc' = [pc EXCEPT ![w] = "lock"]
  /\ SetState(w, Running)
  /\ UNCHANGED <<active, value, cv, shared, start, run, left, sample>>

\* Mutant: main waits for one message too few.
StartBroadcaster_TooFew ==
  /\ pc[Main] = "start" /\ todo = {}
  /\ pc' = [pc EXCEPT ![Broadcaster] = "lock", ![Main] = "collect"]
  /\ left' = N_WAITERS
  /\ SetState(Broadcaster, Running)
  /\ UNCHANGED <<active, value, cv, shared, start, run, todo, sample>>

StartBroadcaster ==
  /\ pc[Main] = "start" /\ todo = {}
  /\ pc' = [pc EXCEPT ![Broadcaster] = "lock", ![Main] = "collect"]
  /\ left' = N_WAITERS + 1
  /\ SetState(Broadcaster, Running)
  /\ UNCHANGED <<active, value, cv, shared, start, run, todo, sample>>

\* benchmark_wait_children; no child of this benchmark faults.
WaitChild ==
  /\ pc[Main] = "collect" /\ left > 0
  /\ left' = left - 1
  /\ Recv(Main, DoneEp)
  /\ UNCHANGED <<pc, value, cv, shared, start, run, todo, sample>>

\* seL4_TCB_Suspend, the broadcaster first.
SuspendChild(t) ==
  /\ pc[Main] = "suspend" /\ t \in todo
  /\ Broadcaster \in todo => t = Broadcaster
  /\ todo' = todo \ {t}
  /\ pc' = [pc EXCEPT ![t] = "off",
                      ![Main] = IF todo = {t} THEN "end" ELSE "suspend"]
  /\ SetState(t, Inactive)
  /\ UNCHANGED <<active, value, cv, shared, start, run, left, sample>>

MainStep ==
  /\ CanRun(Main, prio)
  /\ \/ BeginRun
     \/ \E w \in Waiter : StartWaiter(w)
     \/ StartBroadcaster
     \/ WaitChild
     \/ \E t \in Child : SuspendChild(t)

Finished == pc[Main] = "end" /\ UNCHANGED vars

Next ==
  \/ MainStep
  \/ \E t \in Child : ChildStep(t)
  \/ Finished

Spec == Init /\ [][Next]_vars
FairSpec == Spec /\ WF_vars(Next)

-----------------------------------------------------------------------------
(* Properties.                                                             *)

Label == {"off", "lock", "lock_wait", "locked", "cv_post", "cv_post_signal",
          "cv_block", "cv_lock", "cv_lock_wait", "cv_leave", "post",
          "post_signal", "done", "block"}

\* Every variable has its type.  In particular the semaphore never rises above
\* its initial value 1: no thread posts a lock it did not take.
TypeOK ==
  /\ tcb \in [Thread -> ThreadState({Lock, Cv}, {DoneEp, BlockEp})]
  /\ pc \in [Thread -> Label \cup {"collect", "start", "suspend", "end"}]
  /\ active \in [{Lock, Cv} -> BOOLEAN]
  /\ value \in Int /\ value <= 1
  /\ cv \in [{Cv} -> [waiters : Int, broadcasting : BOOLEAN]]
  /\ shared \in Nat
  /\ start \in 0..Runs
  /\ run \in 0..Runs
  /\ todo \in SUBSET Child
  /\ left \in Nat
  /\ sample \in [Waiter -> 0..Runs]

\* A thread between the return of sync_bin_sem_wait and its next post.
Holding(t) ==
  /\ pc[t] \in {"locked", "cv_post", "cv_leave", "post"}
  /\ tcb[t] # WaitingOn(Lock)

\* A child that main has started and has not yet heard from.
Pending(t) == pc[t] \notin {"block", "off"} \/ tcb[t] = SendingTo(DoneEp)

\* Main has received all the messages it counts on (main.c:129).
AllReported == pc[Main] = "collect" /\ left = 0 /\ tcb[Main] = Running

\* No two threads are inside the lock, however the waiters' lock, wait and
\* post steps and the broadcaster's interleave, over all the restarts.
MutualExclusion ==
  \A t, u \in Child : Holding(t) /\ Holding(u) => t = u

\* The broadcast is measured with every waiter asleep on the condition variable
\* (main.c:104-106 give the waiters the higher priority for this): none is late,
\* queued on the lock or still between its post and its wait.
BroadcastFindsAllWaiting ==
  Holding(Broadcaster) /\ pc[Broadcaster] = "locked" =>
    /\ \A w \in Waiter : tcb[w] = WaitingOn(Cv)
    /\ cv[Cv].waiters = N_WAITERS

\* When benchmark_wait_children returns, every waiter has stored a result of this
\* run, computed from the stamp that this run's broadcaster read (main.c:53,74).
FreshSamples == AllReported => \A w \in Waiter : sample[w] = run

\* Between runs nothing is left over: no child is pending, the lock is free, the
\* condition variable has no waiter and no broadcast, no signal is pending.  The
\* next run reuses all of them without reinitialising them (main.c:109-130).
CleanRestart ==
  AllReported => /\ \A t \in Child : ~Pending(t)
                 /\ value = 1
                 /\ cv[Cv] = NewCv
                 /\ ~active[Lock] /\ ~active[Cv]

\* Main never restarts or suspends a child that has not reported.
RestartOnlyFinished ==
  /\ pc[Main] = "start" => \A t \in todo \cup {Broadcaster} : ~Pending(t)
  /\ pc[Main] = "suspend" => \A t \in Child : ~Pending(t)

\* The benchmark comes to its end: no wakeup of the chain that one broadcast
\* starts is lost, so that all N_WAITERS + 1 messages of every run arrive.
Termination == <>(pc[Main] = "end")

=============================================================================
