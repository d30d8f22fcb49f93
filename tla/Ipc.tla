-------------------------------- MODULE Ipc --------------------------------
(***************************************************************************)
(* src/apps/ipc: for every entry of benchmark_params, RUNS times, main     *)
(* starts a server and a client.  They exchange messages over ep, WARMUPS  *)
(* times, and each sends one of its two last stamps to main, which stores  *)
(* the difference.  On an MCS kernel a server may be passive: main takes   *)
(* its scheduling context away once it is initialised, and gives it back   *)
(* after the first result so that it can send its own.                     *)
(*                                                                         *)
(* The cycle counter counts system calls here, so that a sample says how   *)
(* many of them lie between its two stamps.  Message lengths, FPU states   *)
(* and address spaces are left out; main has the highest priority.         *)
(***************************************************************************)
EXTENDS Rpc, Results

CONSTANTS
  Runs,       \* RUNS
  Warmups,    \* WARMUPS
  MaxPrio     \* seL4_MaxPrio

IpcAssumption ==
  /\ Runs \in Nat \ {0} /\ Warmups \in Nat /\ Warmups >= 2
  /\ MaxPrio \in Nat /\ MaxPrio >= 2

VARIABLES
  mcs,        \* CONFIG_KERNEL_MCS
  run, job,   \* main's loop counters i and j (job from 1)
  iter,       \* child -> iterations of its loop that are complete
  start, end, \* child -> its last stamps
  mr,         \* thread -> its message registers
  ret,        \* the results that run_bench has got
  sample,     \* the sample main stored last
  clock       \* the cycle counter

mainvars == <<run, job, ret, sample>>
stamps == <<iter, start, end>>
vars == <<tcb, pc, active, caller, sc, mcs, run, job, iter, start, end, mr, ret, sample,
          clock>>

Main == "main"
Client == "client"
Servers == {"server_thread", "server_process"}
Child == Servers \cup {Client}
Thread == Child \cup {Main}
Ep == "ep"
ResultEp == "result_ep"

Param(client_fn, server_fn, same_vspace, client_prio, passive) ==
  [client_fn |-> client_fn, server_fn |-> server_fn, same_vspace |-> same_vspace,
   client_prio |-> client_prio, server_prio |-> MaxPrio - 1, passive |-> passive]

\* The table of ipc.h, without names, message lengths, overheads and FPU states.
benchmark_params ==
  << Param("call_func2", "replyrecv_func2", TRUE, MaxPrio - 1, TRUE),
     Param("call_func", "replyrecv_func", TRUE, MaxPrio - 1, TRUE),
     Param("call_func2", "replyrecv_func2", FALSE, MaxPrio - 1, TRUE),
     Param("call_func2", "replyrecv_func2", FALSE, MaxPrio - 1, TRUE),
     Param("call_func", "replyrecv_func", FALSE, MaxPrio - 1, TRUE),
     Param("call_func", "replyrecv_func", FALSE, MaxPrio - 1, TRUE),
     Param("send_func", "recv_func", FALSE, MaxPrio - 2, FALSE),
     Param("call_func2", "replyrecv_func2", FALSE, MaxPrio - 1, FALSE),
     Param("call_func", "replyrecv_func", FALSE, MaxPrio - 1, FALSE) >>

params == benchmark_params[job]
Server == IF params.same_vspace THEN "server_thread" ELSE "server_process"

prio == [t \in Thread |-> CASE t = Main   -> MaxPrio
                            [] t = Client -> params.client_prio
                            [] OTHER      -> params.server_prio]

Init ==
  /\ mcs \in BOOLEAN
  /\ tcb = [t \in Thread |-> IF t = Main THEN Running ELSE Inactive]
  /\ pc = [t \in Thread |-> IF t = Main THEN "spawn_server" ELSE "off"]
  /\ active = [n \in {} |-> FALSE]
  /\ caller = [t \in Thread |-> NoThread]
  /\ sc = [t \in Thread |-> t]
  /\ run = 0 /\ job = 1
  /\ iter = [t \in Child |-> 0]
  /\ start = [t \in Child |-> 0]
  /\ end = [t \in Child |-> 0]
  /\ mr = [t \in Thread |-> send_result(0)]
  /\ ret = <<>>
  /\ sample = 1
  /\ clock = 0

-----------------------------------------------------------------------------
(* The children.                                                           *)

\* A child function: what it does before its loop, in its loop between the two
\* stamps, after its loop, and which stamp it sends.
Function(first, op, after, stamp) ==
  [first |-> first, op |-> op, after |-> after, stamp |-> stamp]

\* Mutant: the last message, which releases a server that waits in its last
\* api_reply_recv, is not sent.
ipc_call_func_NoLastSend == Function("none", "call", <<"result", "none", "wait">>, "end")

ipc_call_func == Function("none", "call", <<"result", "send", "wait">>, "end")

ipc_call_func2 == Function("call", "call", <<"result", "none", "wait">>, "start")

ipc_replyrecv_func2 == Function("init", "replyrecv", <<"reply", "result", "wait">>, "end")

ipc_replyrecv_func == Function("init", "replyrecv", <<"none", "result", "wait">>, "start")

ipc_recv_func == Function("none", "recv", <<"recv", "result", "return">>, "end")

ipc_send_func == Function("none", "send", <<"result", "send", "return">>, "start")

bench_funcs ==
  [call_func |-> ipc_call_func, call_func2 |-> ipc_call_func2,
   replyrecv_func2 |-> ipc_replyrecv_func2, replyrecv_func |-> ipc_replyrecv_func,
   recv_func |-> ipc_recv_func, send_func |-> ipc_send_func]

fn(t) == bench_funcs[IF t = Client THEN params.client_fn ELSE params.server_fn]

\* One more system call on the cycle counter.
Tick == clock' = (clock + 1) % CcntModulus

\* send_result: the message goes to main at once, or waits with its sender.
SendResult(t, result) ==
  /\ Send(t, ResultEp)
  /\ mr' = [mr EXCEPT ![IF tcb[Main] = RecvingOn(ResultEp) THEN Main ELSE t] =
                 send_result(result)]
  /\ UNCHANGED <<caller, sc>>

\* The operations of the child functions.  A function that returns does not come
\* back: nothing follows "return".
Perform(t, op) ==
  /\ \/ op = "none" /\ UNCHANGED <<tcb, active, caller, sc, mr, clock>>
     \/ op = "call" /\ Call(t, Ep) /\ Tick /\ UNCHANGED mr
     \/ op = "send" /\ Send(t, Ep) /\ Tick /\ UNCHANGED <<caller, sc, mr>>
     \/ op \in {"recv", "wait"} /\ RecvCall(t, Ep) /\ Tick /\ UNCHANGED mr
     \/ op = "replyrecv" /\ ReplyRecv(t, Ep) /\ Tick /\ UNCHANGED mr
     \/ op = "reply" /\ Reply(t) /\ Tick /\ UNCHANGED mr
     \/ /\ op = "init"
        /\ IF mcs THEN NBSendRecv(t, Ep, Ep) ELSE RecvCall(t, Ep)
        /\ Tick /\ UNCHANGED mr
     \/ /\ op = "result"
        /\ SendResult(t, IF fn(t).stamp = "start" THEN start[t] ELSE end[t])
        /\ Tick
  /\ UNCHANGED stamps

\* Where a child continues after its loop.
After == <<"after_1", "after_2", "after_3">>

ChildStep(t) ==
  /\ Scheduled(t, prio)
  /\ \/ Step(t, "first", "start") /\ Perform(t, fn(t).first)
     \/ /\ Step(t, "start", "op")
        /\ start' = [start EXCEPT ![t] = clock]
        /\ UNCHANGED <<tcb, active, caller, sc, mr, clock, iter, end>>
     \/ Step(t, "op", "end") /\ Perform(t, fn(t).op)
     \/ /\ Step(t, "end", IF iter[t] + 1 < Warmups THEN "start" ELSE "after_1")
        /\ end' = [end EXCEPT ![t] = clock]
        /\ iter' = [iter EXCEPT ![t] = @ + 1]
        /\ UNCHANGED <<tcb, active, caller, sc, mr, clock, start>>
     \/ \E k \in 1..3 : /\ Step(t, After[k], IF k < 3 THEN After[k + 1] ELSE "off")
                        /\ Perform(t, fn(t).after[k])
  /\ UNCHANGED <<mcs, mainvars>>

-----------------------------------------------------------------------------
(* main and run_bench.                                                     *)

\* benchmark_spawn_process
Spawn(t) ==
  /\ SetState(t, Running)
  /\ iter' = [iter EXCEPT ![t] = 0]
  /\ UNCHANGED <<active, caller, sc, start, end, mr, ret, sample, run, job>>

Initialises == mcs /\ params.server_fn # "recv_func"
Passive == Initialises /\ params.passive

SpawnServer ==
  /\ pc[Main] = "spawn_server"
  /\ pc' = [pc EXCEPT ![Server] = "first",
                      ![Main] = IF Initialises THEN "wait_init" ELSE "spawn_client"]
  /\ Spawn(Server)

\* Wait for the server to tell us it is initialised.
WaitInit ==
  /\ Step(Main, "wait_init", IF params.passive THEN "unbind" ELSE "spawn_client")
  /\ Recv(Main, Ep)
  /\ UNCHANGED <<caller, sc, stamps, mr, mainvars>>

Unbind ==
  /\ Step(Main, "unbind", "spawn_client")
  /\ UnbindSc(Server)
  /\ UNCHANGED <<stamps, mr, mainvars>>

SpawnClient ==
  /\ pc[Main] = "spawn_client"
  /\ pc' = [pc EXCEPT ![Client] = "first", ![Main] = "get"]
  /\ Spawn(Client)

\* get_result: the wait, and the message registers put together.
WaitResult ==
  /\ Step(Main, "get", "got")
  /\ Recv(Main, ResultEp)
  /\ mr' = [mr EXCEPT ![Main] = IF \E t \in Child : tcb'[t] # tcb[t]
                                THEN mr[CHOOSE t \in Child : tcb'[t] # tcb[t]] ELSE @]
  /\ UNCHANGED <<caller, sc, stamps, mainvars>>

GotResult ==
  /\ Step(Main, "got", CASE Len(ret) = 1 -> "suspend_client"
                         [] Len(ret) = 0 /\ Passive -> "bind"
                         [] OTHER -> "get")
  /\ ret' = Append(ret, get_result(mr[Main]))
  /\ UNCHANGED <<tcb, active, caller, sc, stamps, mr, run, job, sample>>

\* Convert the server to active so it can send us the result.
Bind ==
  /\ Step(Main, "bind", "get")
  /\ BindSc(Server)
  /\ UNCHANGED <<stamps, mr, mainvars>>

SuspendChild ==
  /\ \/ /\ pc[Main] = "suspend_client"
        /\ pc' = [pc EXCEPT ![Client] = "off", ![Main] = "suspend_server"]
        /\ Suspend(Client)
     \/ /\ pc[Main] = "suspend_server"
        /\ pc' = [pc EXCEPT ![Server] = "off", ![Main] = "store"]
        /\ Suspend(Server)
  /\ UNCHANGED <<stamps, mr, mainvars>>

\* Mutant: the stamps taken for what the parameters of run_bench call them.
Difference_Signed(e, s) == (e - s) % CcntModulus

\* Whichever of the two came first, the larger minus the smaller.
Difference(e, s) == IF e > s THEN e - s ELSE s - e

Store ==
  /\ pc[Main] = "store"
  /\ sample' = Difference(ret[1], ret[2])
  /\ ret' = <<>>
  /\ job' = IF job < Len(benchmark_params) THEN job + 1 ELSE 1
  /\ run' = IF job < Len(benchmark_params) THEN run ELSE run + 1
  /\ pc' = [pc EXCEPT ![Main] = IF run' < Runs THEN "spawn_server" ELSE "finished"]
  /\ UNCHANGED <<tcb, active, caller, sc, stamps, mr>>

MainStep ==
  /\ Scheduled(Main, prio)
  /\ \/ SpawnServer \/ WaitInit \/ Unbind \/ SpawnClient \/ WaitResult \/ GotResult \/ Bind
     \/ SuspendChild \/ Store
  /\ UNCHANGED <<mcs, clock>>

AtEnd == pc[Main] = "finished"

Finished == AtEnd /\ UNCHANGED vars

Next ==
  \/ MainStep
  \/ \E t \in Child : ChildStep(t)
  \/ Finished

Spec == Init /\ [][Next]_vars
FairSpec == Spec /\ WF_vars(Next)

-----------------------------------------------------------------------------
(* Properties.                                                             *)

\* A sample stored by main is one way of one IPC: its two stamps come from two
\* threads, in an order nothing fixes, and exactly one system call lies between
\* them.  The one exception is a counter that wraps between the two stamps: the code
\* then takes the larger minus the smaller all the same.
OneWay ==
  pc[Main] = "store" =>
    \/ Difference(ret[1], ret[2]) = 1
    \/ {ret[1], ret[2]} = {0, CcntModulus - 1}

\* A child has delivered once it is past its send_result.
Delivered(t) == \E k \in 1..3 : /\ fn(t).after[k] = "result"
                                /\ pc[t] \in {After[i] : i \in k + 1..3} \cup {"off"}

Stage(t) == CASE pc[Main] \in {"spawn_server", "finished"} -> "idle"
              [] pc[Main] \in {"wait_init", "unbind", "spawn_client"} /\ t = Client -> "idle"
              [] OTHER -> IF Delivered(t) THEN "done" ELSE "busy"

FJ == INSTANCE ForkJoin WITH
        Child <- {"client", "server"},
        Rounds <- Runs * Len(benchmark_params),
        round <- run * Len(benchmark_params) + job - 1,
        stage <- [c \in {"client", "server"} |-> Stage(IF c = "client" THEN Client ELSE Server)]

\* run_bench starts both children once, takes one result from each before it goes
\* on to the next entry of benchmark_params, and gets through all of them: no order
\* of the equally urgent threads, and no passive server, leaves it waiting.
RunsAllBenchmarks == FJ!Promise

=============================================================================
