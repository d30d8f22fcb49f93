------------------------------- MODULE Kernel -------------------------------
(***************************************************************************)
(* The part of seL4 that the benchmark applications rely on, modelled from *)
(* how src/apps and src/libsel4benchsupport use it (the kernel itself is   *)
(* not in this repository).                                                *)
(*                                                                         *)
(* A thread is running, inactive or blocked on one kernel object.  A       *)
(* notification is a binary semaphore.  An endpoint is a rendezvous.  The  *)
(* queue of an object is the set of the threads blocked on it: which of    *)
(* several waiters a Signal or a Send picks is left open, since the order  *)
(* differs between kernel configurations.  A blocked thread's pc already   *)
(* points past the system call it will return from.                        *)
(***************************************************************************)
EXTENDS Integers

VARIABLES
  tcb,     \* thread -> <<state, object it is blocked on>>
  pc,      \* thread -> label of the next step of its program
  active   \* notification -> is a signal pending?

Running      == <<"running", "none">>
Inactive     == <<"inactive", "none">>
WaitingOn(n) == <<"waiting", n>>
SendingTo(e) == <<"sending", e>>
RecvingOn(e) == <<"receiving", e>>

ThreadState(Ntfn, Endpoint) ==
  {Running, Inactive} \cup {WaitingOn(n) : n \in Ntfn}
    \cup {SendingTo(e) : e \in Endpoint} \cup {RecvingOn(e) : e \in Endpoint}

Blocked(s) == {t \in DOMAIN tcb : tcb[t] = s}

\* Fixed-priority preemptive scheduling on one core.  Between threads of the
\* same priority the choice is left open: a time slice may end at any step.
CanRun(t, prio) ==
  /\ tcb[t] = Running
  /\ \A u \in DOMAIN tcb : tcb[u] = Running => prio[u] <= prio[t]

SetState(t, s) == tcb' = [tcb EXCEPT ![t] = s]

Step(t, from, to) ==
  /\ pc[t] = from
  /\ pc' = [pc EXCEPT ![t] = to]

\* seL4_Signal: hand the signal to a waiter, or leave it pending.
Signal(n) ==
  \/ \E w \in Blocked(WaitingOn(n)) : SetState(w, Running) /\ UNCHANGED active
  \/ /\ Blocked(WaitingOn(n)) = {}
     /\ active' = [active EXCEPT ![n] = TRUE]
     /\ UNCHANGED tcb

\* seL4_Wait on a notification: consume the pending signal, or block.
Wait(t, n) ==
  \/ /\ active[n]
     /\ active' = [active EXCEPT ![n] = FALSE]
     /\ UNCHANGED tcb
  \/ /\ ~active[n]
     /\ SetState(t, WaitingOn(n))
     /\ UNCHANGED active

\* seL4_Send on an endpoint: meet a receiver, or block.
Send(t, e) ==
  /\ \/ \E r \in Blocked(RecvingOn(e)) : SetState(r, Running)
     \/ Blocked(RecvingOn(e)) = {} /\ SetState(t, SendingTo(e))
  /\ UNCHANGED active

\* seL4_Recv (api_wait) on an endpoint: meet a sender, or block.
Recv(t, e) ==
  /\ \/ \E s \in Blocked(SendingTo(e)) : SetState(s, Running)
     \/ Blocked(SendingTo(e)) = {} /\ SetState(t, RecvingOn(e))
  /\ UNCHANGED active

=============================================================================
