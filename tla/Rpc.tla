-------------------------------- MODULE Rpc --------------------------------
(***************************************************************************)
(* Calls, replies and scheduling contexts of seL4, modelled from how the   *)
(* ipc, fault, smp and vcpu benchmarks use them (the kernel is not in this *)
(* repository).                                                            *)
(*                                                                         *)
(* On an MCS kernel a thread runs only while it holds a scheduling         *)
(* context.  A call lends the caller's to a receiver that has none (a      *)
(* passive server) and the reply gives it back.  On other kernels every    *)
(* thread holds its own for ever, which is the same as never unbinding     *)
(* one.                                                                    *)
(***************************************************************************)
EXTENDS Kernel

CONSTANT NoThread   \* a value that is no thread

VARIABLES
  caller,   \* server -> the thread it owes a reply, or NoThread
  sc        \* scheduling context, named by its owner -> the thread that holds it

CallingOn(e)  == <<"calling", e>>
AwaitingReply == <<"awaiting_reply", "none">>

HasSc(t, ctx) == \E x \in DOMAIN ctx : ctx[x] = t
Ready(t) == tcb[t] = Running /\ HasSc(t, sc)

\* CanRun of Kernel for threads that need a scheduling context.
Scheduled(t, prio) ==
  /\ Ready(t)
  /\ \A u \in DOMAIN tcb : Ready(u) => prio[u] <= prio[t]

\* The scheduling contexts once from has passed its one to a thread without one.
Passed(ctx, from, to) ==
  [x \in DOMAIN ctx |-> IF ctx[x] = from /\ ~HasSc(to, ctx) THEN to ELSE ctx[x]]

\* seL4_Call: meet a receiver, or block; either way wait for the reply.
Call(t, e) ==
  /\ \/ \E r \in Blocked(RecvingOn(e)) :
           /\ tcb' = [tcb EXCEPT ![r] = Running, ![t] = AwaitingReply]
           /\ caller' = [caller EXCEPT ![r] = t]
           /\ sc' = Passed(sc, t, r)
     \/ /\ Blocked(RecvingOn(e)) = {}
        /\ SetState(t, CallingOn(e))
        /\ UNCHANGED <<caller, sc>>
  /\ UNCHANGED active

\* Receive on e, from thread states S and contexts ctx that an earlier half of the
\* same system call has left.
RecvIn(t, e, S, ctx) ==
  /\ \/ \E s \in DOMAIN S : /\ S[s] = SendingTo(e)
                            /\ tcb' = [S EXCEPT ![s] = Running]
                            /\ caller' = [caller EXCEPT ![t] = NoThread]
                            /\ sc' = ctx
     \/ \E s \in DOMAIN S : /\ S[s] = CallingOn(e)
                            /\ tcb' = [S EXCEPT ![s] = AwaitingReply]
                            /\ caller' = [caller EXCEPT ![t] = s]
                            /\ sc' = Passed(ctx, s, t)
     \/ /\ \A s \in DOMAIN S : S[s] \notin {SendingTo(e), CallingOn(e)}
        /\ tcb' = [S EXCEPT ![t] = RecvingOn(e)]
        /\ caller' = [caller EXCEPT ![t] = NoThread]
        /\ sc' = ctx
  /\ UNCHANGED active

RecvCall(t, e) == RecvIn(t, e, tcb, sc)

Owes(t) == caller[t] # NoThread

\* api_reply_recv: a reply without a caller is dropped by the kernel.
ReplyRecv(t, e) ==
  IF Owes(t) THEN RecvIn(t, e, [tcb EXCEPT ![caller[t]] = Running], Passed(sc, t, caller[t]))
  ELSE RecvIn(t, e, tcb, sc)

\* api_reply
Reply(t) ==
  /\ IF Owes(t)
     THEN /\ SetState(caller[t], Running)
          /\ sc' = Passed(sc, t, caller[t])
          /\ caller' = [caller EXCEPT ![t] = NoThread]
     ELSE UNCHANGED <<tcb, caller, sc>>
  /\ UNCHANGED active

\* api_nbsend_recv: a message to d, lost if nobody is there, and a receive on e,
\* in one system call.
NBSendRecv(t, d, e) ==
  \/ \E r \in Blocked(RecvingOn(d)) : RecvIn(t, e, [tcb EXCEPT ![r] = Running], sc)
  \/ Blocked(RecvingOn(d)) = {} /\ RecvIn(t, e, tcb, sc)

\* seL4_TCB_Suspend: what the thread was waiting for is cancelled; nobody owes it a
\* reply any more.
CancelIpc(t) ==
  /\ SetState(t, Inactive)
  /\ caller' = [s \in DOMAIN caller |-> IF caller[s] = t THEN NoThread ELSE caller[s]]

Suspend(t) == CancelIpc(t) /\ UNCHANGED <<active, sc>>

\* api_sc_unbind_object, api_sc_bind
UnbindSc(t) == sc' = [sc EXCEPT ![t] = NoThread] /\ UNCHANGED <<tcb, active, caller>>
BindSc(t)   == sc' = [sc EXCEPT ![t] = t]        /\ UNCHANGED <<tcb, active, caller>>

=============================================================================
