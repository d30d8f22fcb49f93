------------------------------- MODULE SyncLib -------------------------------
(***************************************************************************)
(* libsel4sync's binary semaphore and condition variable, the external     *)
(* library that src/apps/sync measures.  A semaphore is an integer plus a  *)
(* notification; a condition variable is a waiter count, a broadcasting    *)
(* flag and a notification.  Each operator is one atomic step of a library *)
(* call: at most one atomic update or one system call.                     *)
(***************************************************************************)
EXTENDS Kernel

VARIABLES
  value,   \* sync_bin_sem_t.value: 1 free, otherwise minus the number queued
  cv       \* condition variable -> sync_cv_t's counter and flag

Lock == "lock"      \* the semaphore's notification

NewCv == [waiters |-> 0, broadcasting |-> FALSE]

\* sync_bin_sem_wait: the atomic decrement decides whether to block.
SemWait(t, from, contended, to) ==
  /\ Step(t, from, IF value <= 0 THEN contended ELSE to)
  /\ value' = value - 1
  /\ UNCHANGED <<tcb, active, cv>>

SemBlock(t, from, to) ==
  /\ Step(t, from, to)
  /\ Wait(t, Lock)
  /\ UNCHANGED <<value, cv>>

\* sync_bin_sem_post: the atomic increment decides whether to signal.
SemPost(t, from, contended, to) ==
  /\ Step(t, from, IF value + 1 <= 0 THEN contended ELSE to)
  /\ value' = value + 1
  /\ UNCHANGED <<tcb, active, cv>>

SemSignal(t, from, to) ==
  /\ Step(t, from, to)
  /\ Signal(Lock)
  /\ UNCHANGED <<value, cv>>

\* The steps of sync_cv_wait other than its SemPost and SemWait.
CvEnter(c) ==
  cv' = [cv EXCEPT ![c] = [waiters |-> @.waiters + 1, broadcasting |-> FALSE]]

CvBlock(t, c, from, to) ==
  /\ Step(t, from, to)
  /\ Wait(t, c)
  /\ UNCHANGED <<value, cv>>

CvLeave(t, c, from, to) ==
  LET more == cv[c].waiters - 1 > 0
  IN  /\ Step(t, from, to)
      /\ cv' = [cv EXCEPT ![c] = [waiters |-> @.waiters - 1,
                                  broadcasting |-> @.broadcasting /\ more]]
      /\ IF cv[c].broadcasting /\ more
         THEN Signal(c)
         ELSE UNCHANGED <<tcb, active>>
      /\ UNCHANGED value

sync_cv_signal(c) ==
  /\ IF cv[c].waiters > 0 THEN Signal(c) ELSE UNCHANGED <<tcb, active>>
  /\ UNCHANGED cv

sync_cv_broadcast(c) ==
  IF cv[c].waiters > 0
  THEN /\ cv' = [cv EXCEPT ![c] = [waiters |-> @.waiters, broadcasting |-> TRUE]]
       /\ Signal(c)
  ELSE UNCHANGED <<cv, tcb, active>>

=============================================================================
