--------------------------------- MODULE Smp ---------------------------------
(***************************************************************************)
(* src/apps/smp: on each core a ping thread calls a pong thread for ever   *)
(* and counts its calls, and main, on core 0, reads the counters at the    *)
(* ticks of a periodic timer.  The cores join one after the other; in the  *)
(* first test main lets the threads of a core run to a synchronisation     *)
(* point, which it checkpoints, and before every further test it suspends  *)
(* all threads and restores them there.  On an MCS kernel pong becomes     *)
(* passive, its scheduling context being bound to its notification.        *)
(*                                                                         *)
(* A thread is <<role, core>> and is also the name of the notification it  *)
(* synchronises on.  The delay loops of ping and pong take no step.  A     *)
(* checkpoint is the label at which a restored thread goes on; one that is *)
(* blocked in a system call executes it again.                             *)
(***************************************************************************)
EXTENDS Rpc, Sequences, FiniteSetsExt

CONSTANTS
  Cores,       \* simple_get_core_count
  Tests,       \* TESTS
  Runs,        \* RUNS
  MCS,         \* CONFIG_KERNEL_MCS
  CountBits,   \* bits of a calls_completed, uint32_t in the code
  MaxCalls     \* bound: calls of one core that a timer period has room for

ASSUME SmpAssumption ==
  /\ Cores \in Nat \ {0} /\ Tests \in Nat \ {0} /\ Runs \in Nat \ {0}
  /\ MCS \in BOOLEAN
  /\ CountBits \in Nat /\ MaxCalls \in 1..2^CountBits - 1

VARIABLES
  prio,          \* thread -> priority
  cp,            \* thread -> checkpoint
  calls,         \* core -> calls_completed
  test, core_idx, it, i,    \* main's loop counters: test, core, sample and counter
  start, end,    \* core -> the counters main has read
  made, window   \* history: calls since main read start, and those up to end

loopvars == <<test, core_idx, it, i>>
readvars == <<start, end, window>>
vars == <<tcb, pc, active, caller, sc, prio, cp, calls, loopvars, readvars, made>>

Core == 0..Cores - 1
Main == <<"main", 0>>
Ping(c) == <<"ping", c>>
Pong(c) == <<"pong", c>>
Child == {Ping(c) : c \in Core} \cup {Pong(c) : c \in Core}
Thread == Child \cup {Main}
Ep(c) == <<"ep", c>>
SyncNtfn(c) == <<"ntfn", c>>    \* what holds pong's scheduling context meanwhile
MinPrio == 0
MaxPrio == 1

ASSUME NoThreadAssumption == NoThread \notin Thread

Init ==
  /\ tcb = [t \in Thread |-> IF t = Main THEN Running ELSE Inactive]
  /\ pc = [t \in Thread |-> IF t = Main THEN "first_tick" ELSE "init"]
  /\ active = [t \in Thread |-> FALSE]
  /\ caller = [t \in Thread |-> NoThread]
  /\ sc = [t \in Thread |-> t]
  /\ prio = [t \in Thread |-> IF t = Main THEN MaxPrio ELSE MinPrio]
  /\ cp = [t \in Child |-> "init"]
  /\ calls = [c \in Core |-> 0]
  /\ test = 0 /\ core_idx = 0 /\ it = 0 /\ i = 0
  /\ start = [c \in Core |-> 0]
  /\ end = start /\ made = start /\ window = start

\* One scheduler per core.
Executes(t) ==
  /\ Ready(t)
  /\ \A u \in Thread : u[2] = t[2] /\ Ready(u) => prio[u] <= prio[t]

-----------------------------------------------------------------------------
(* The children.                                                           *)

\* The way to the synchronisation point.  A notification lends the scheduling
\* context that is bound to it to the thread it wakes.
Synchronise(t) ==
  /\ \/ Step(t, "init", "sync") /\ UNCHANGED <<tcb, active>>
     \/ Step(t, "sync", "loop") /\ Wait(t, t)
  /\ UNCHANGED <<caller, sc, calls, made>>

ping_fn(c) ==
  \/ Synchronise(Ping(c))
  \/ /\ Step(Ping(c), "loop", "count")
     /\ Call(Ping(c), Ep(c))
     /\ UNCHANGED <<calls, made>>
  \/ /\ made[c] < MaxCalls
     /\ Step(Ping(c), "count", "loop")
     /\ calls' = [calls EXCEPT ![c] = (@ + 1) % 2^CountBits]
     /\ made' = [made EXCEPT ![c] = @ + 1]
     /\ UNCHANGED <<tcb, active, caller, sc>>

\* A pong that blocks gives a borrowed scheduling context back to the notification.
pong_fn(c) ==
  \/ Synchronise(Pong(c))
  \/ /\ Step(Pong(c), "loop", "loop")
     /\ LET ctx == IF MCS /\ sc[Pong(c)] = Pong(c) THEN [sc EXCEPT ![Pong(c)] = SyncNtfn(c)]
                   ELSE sc
        IN  IF Owes(Pong(c))
            THEN RecvIn(Pong(c), Ep(c), [tcb EXCEPT ![caller[Pong(c)]] = Running],
                        Passed(ctx, Pong(c), caller[Pong(c)]))
            ELSE RecvIn(Pong(c), Ep(c), tcb, ctx)
     /\ UNCHANGED <<calls, made>>

ChildStep(c) ==
  /\ \/ Executes(Ping(c)) /\ ping_fn(c)
     \/ Executes(Pong(c)) /\ pong_fn(c)
  /\ UNCHANGED <<prio, cp, loopvars, readvars>>

\* Threads that could run and have not reached their synchronisation point.
Underway == {t \in Child : Ready(t) /\ pc[t] \in {"init", "sync"}}

\* The timer.  A period is long enough for every thread to synchronise.
Tick ==
  /\ Underway = {}
  /\ ~active[Main] /\ pc[Main] # "finished"
  /\ Signal(Main)
  /\ UNCHANGED <<pc, caller, sc, prio, cp, calls, loopvars, readvars, made>>

-----------------------------------------------------------------------------
(* benchmark_multicore_ipc_throughput, the main thread.                    *)

threadvars == <<tcb, active, caller, sc>>
PP == {Ping(core_idx), Pong(core_idx)}

SetPriority(from, to, p) ==
  /\ Step(Main, from, to)
  /\ prio' = [t \in Thread |-> IF t \in PP THEN p ELSE prio[t]]
  /\ UNCHANGED <<threadvars, cp, calls, loopvars, readvars, made>>

\* The three system calls that resume or signal a thread of the current core.
Resume(from, to, t) ==
  /\ Step(Main, from, to)
  /\ SetState(t, Running)
  /\ UNCHANGED <<active, caller, sc, prio, cp, calls, loopvars, readvars, made>>

\* Mutant: pong is not woken.
Wake_PingOnly(from, to, t) ==
  /\ Step(Main, from, to)
  /\ IF t = Ping(core_idx) THEN Signal(t) ELSE UNCHANGED <<tcb, active>>
  /\ sc' = [sc EXCEPT ![t] = IF @ = SyncNtfn(t[2]) /\ tcb[t] = WaitingOn(t) THEN t ELSE @]
  /\ UNCHANGED <<caller, prio, cp, calls, loopvars, readvars, made>>

Wake(from, to, t) ==
  /\ Step(Main, from, to)
  /\ Signal(t)
  /\ sc' = [sc EXCEPT ![t] = IF @ = SyncNtfn(t[2]) /\ tcb[t] = WaitingOn(t) THEN t ELSE @]
  /\ UNCHANGED <<caller, prio, cp, calls, loopvars, readvars, made>>

\* Main goes on after a yield when no other thread of its priority and core can run.
Yield(from, to) ==
  /\ Step(Main, from, to)
  /\ \A t \in Child : t[2] = 0 /\ Ready(t) => prio[t] < MaxPrio
  /\ UNCHANGED <<threadvars, prio, cp, calls, loopvars, readvars, made>>

\* Convert pong to passive: its scheduling context goes to its notification.
MakePassive ==
  /\ Step(Main, "passive", "checkpoint")
  /\ sc' = [sc EXCEPT ![Pong(core_idx)] = IF MCS THEN SyncNtfn(core_idx) ELSE @]
  /\ UNCHANGED <<tcb, active, caller, prio, cp, calls, loopvars, readvars, made>>

Checkpoint ==
  /\ Step(Main, "checkpoint", "wake_ping")
  /\ cp' = [t \in Child |-> CASE t \notin PP -> cp[t]
                              [] tcb[t] = WaitingOn(t) -> "sync"
                              [] OTHER -> pc[t]]
  /\ UNCHANGED <<threadvars, prio, calls, loopvars, readvars, made>>

PrepareCore ==
  \/ SetPriority("prepare", "resume_ping", IF test = 0 THEN MaxPrio ELSE prio[Ping(core_idx)])
  \/ Resume("resume_ping", "resume_pong", Ping(core_idx))
  \/ Resume("resume_pong", IF test = 0 THEN "yield_1" ELSE "passive", Pong(core_idx))
  \/ Yield("yield_1", "yield_2")
  \/ Yield("yield_2", "lower")
  \/ SetPriority("lower", "passive", MinPrio)
  \/ MakePassive
  \/ Checkpoint
  \/ Wake("wake_ping", "wake_pong", Ping(core_idx))
  \/ Wake("wake_pong", "tick", Pong(core_idx))

\* wait_for_benchmark: the interrupt is acknowledged at once.
WaitForBenchmark ==
  /\ \/ Step(Main, "first_tick", "prepare")
     \/ Step(Main, "tick", "read_start")
     \/ Step(Main, "measure", "read_end")
  /\ Wait(Main, Main)
  /\ UNCHANGED <<caller, sc, prio, cp, calls, loopvars, readvars, made>>

\* benchmark_multicore_do_ping_pong reads the counters of the first core_idx + 1 cores.
ReadStart ==
  /\ Step(Main, "read_start", IF i = core_idx THEN "measure" ELSE "read_start")
  /\ start' = [start EXCEPT ![i] = calls[i]]
  /\ made' = [made EXCEPT ![i] = 0]
  /\ i' = IF i = core_idx THEN 0 ELSE i + 1
  /\ UNCHANGED <<threadvars, prio, cp, calls, test, core_idx, it, end, window>>

ReadEnd ==
  /\ Step(Main, "read_end", IF i = core_idx THEN "total" ELSE "read_end")
  /\ end' = [end EXCEPT ![i] = calls[i]]
  /\ window' = [window EXCEPT ![i] = made[i]]
  /\ i' = IF i = core_idx THEN 0 ELSE i + 1
  /\ UNCHANGED <<threadvars, prio, cp, calls, test, core_idx, it, start, made>>

\* Mutant: the difference is taken in the type of the total, which is wider.
Completed_Wide(c) == end[c] - start[c]

\* A difference of two uint32_t.
Completed(c) == (end[c] - start[c]) % 2^CountBits

SumOver(f, S) == MapThenSumSet(LAMBDA c : f[c], S)

total == SumOver([c \in Core |-> Completed(c)], 0..core_idx)

\* The result of a sample is the total, scaled to a second; the next sample, the
\* next core, and after the last core the end of the test follow.  The arrays are
\* local to do_ping_pong.
NextSample ==
  /\ it' = (it + 1) % Runs
  /\ core_idx' = IF it' = 0 THEN (core_idx + 1) % Cores ELSE core_idx
  /\ Step(Main, "total", CASE it' # 0 -> "read_start"
                            [] it' = 0 /\ core_idx' # 0 -> "prepare"
                            [] it' = 0 /\ core_idx' = 0 -> "suspend_ping")
  /\ start' = [c \in Core |-> 0] /\ end' = start' /\ window' = start'
  /\ UNCHANGED <<threadvars, prio, cp, calls, test, i, made>>

\* benchmark_multicore_reset_test, core by core.
SuspendPing ==
  /\ Step(Main, "suspend_ping", "restore")
  /\ Suspend(Ping(i))
  /\ UNCHANGED <<active, sc, prio, cp, calls, loopvars, readvars, made>>

Restore ==
  /\ CancelIpc(Pong(i))
  /\ calls' = [calls EXCEPT ![i] = 0]
  /\ sc' = [sc EXCEPT ![Ping(i)] = Ping(i), ![Pong(i)] = Pong(i)]
  /\ i' = (i + 1) % Cores
  /\ test' = IF i' = 0 THEN test + 1 ELSE test
  /\ pc[Main] = "restore"
  /\ pc' = [t \in Thread |->
              CASE t = Main -> IF i' # 0 THEN "suspend_ping"
                               ELSE IF test' < Tests THEN "prepare" ELSE "finished"
                [] t \in {Ping(i), Pong(i)} -> cp[t]
                [] OTHER -> pc[t]]
  /\ UNCHANGED <<active, prio, cp, core_idx, it, readvars, made>>

MainStep ==
  /\ Executes(Main)
  /\ \/ PrepareCore
     \/ WaitForBenchmark
     \/ ReadStart
     \/ ReadEnd
     \/ NextSample
     \/ SuspendPing
     \/ Restore

\* benchmark_finished.
Done ==
  /\ pc[Main] = "finished"
  /\ UNCHANGED vars

Next == MainStep \/ Tick \/ Done \/ \E c \in Core : ChildStep(c)

Spec == Init /\ [][Next]_vars

-----------------------------------------------------------------------------
(***************************************************************************)
(* The total of a sample (do_ping_pong) is the number of calls each core   *)
(* completed between the two readings of its own counter: the cores go on  *)
(* while main reads the counters one by one, and a counter may wrap.       *)
(***************************************************************************)
ThroughputIsExact ==
  pc[Main] = "total" => total = SumOver(window, 0..core_idx)

(***************************************************************************)
(* While main measures, no pair is stuck: on every core that has joined    *)
(* ping or pong can run, in every test and after every restore, wherever   *)
(* the two were when they were checkpointed, woken up or suspended         *)
(* (ipc_throughput, reset_test).  On an MCS kernel this needs the property *)
(* below, which the code does not have.                                    *)
(***************************************************************************)
NoPairIsStuck ==
  pc[Main] \in {"read_start", "read_end", "total"}
    => \A c \in 0..core_idx : Ready(Ping(c)) \/ Ready(Pong(c))

(***************************************************************************)
(* "wait and let the main thread convert us to passive (on MCS)"           *)
(* (pong_fn): pong waits when main takes its scheduling context away.      *)
(***************************************************************************)
ConvertedWhileWaiting ==
  MCS /\ pc[Main] = "passive"
    => tcb[Pong(core_idx)] = WaitingOn(Pong(core_idx))
=============================================================================
