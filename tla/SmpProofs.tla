------------------------------ MODULE SmpProofs ------------------------------
(***************************************************************************)
(* Proofs about the smp benchmark, for every number of cores, tests and    *)
(* runs and every width of the counters.                                   *)
(***************************************************************************)
EXTENDS Smp, TLAPS

-----------------------------------------------------------------------------
(* Arithmetic modulo 2^CountBits.                                          *)

M == 2^CountBits

\* The counters have at least one value, and a period has room for fewer calls.
LEMMA Width == M \in Nat /\ M > 0 /\ MaxCalls \in Nat /\ MaxCalls < M
<1>1. CountBits \in Nat /\ MaxCalls \in 1..M - 1
  BY SmpAssumption, Zenon DEF M
<1>2. M \in Int
  BY <1>1 DEF M
<1> QED
  BY <1>1, <1>2

\* What % does to a counter that is incremented.
LEMMA Increment ==
  ASSUME NEW x \in 0..M - 1
  PROVE  (x + 1) % M = IF x + 1 = M THEN 0 ELSE x + 1
  BY Width, SMTT(90)

\* And to the difference of two counters.
LEMMA Difference ==
  ASSUME NEW x \in 0..M - 1, NEW y \in 0..M - 1
  PROVE  (x - y) % M = IF x >= y THEN x - y ELSE x - y + M
  BY Width, SMTT(90)

-----------------------------------------------------------------------------
(* The counters: the inductive invariant.                                  *)

ChildLabel == {"init", "sync", "loop", "count"}

MainLabel == {"first_tick", "prepare", "resume_ping", "resume_pong", "yield_1", "yield_2",
              "lower", "passive", "checkpoint", "wake_ping", "wake_pong", "tick",
              "read_start", "measure", "read_end", "total", "suspend_ping", "restore",
              "finished"}

TypeInv ==
  /\ pc \in [Thread -> ChildLabel \cup MainLabel]
  /\ pc[Main] \in MainLabel
  /\ \A t \in Child : pc[t] \in ChildLabel
  /\ cp \in [Child -> ChildLabel]
  /\ calls \in [Core -> 0..M - 1]
  /\ start \in [Core -> 0..M - 1] /\ end \in [Core -> 0..M - 1]
  /\ made \in [Core -> 0..MaxCalls] /\ window \in [Core -> 0..MaxCalls]
  /\ test \in Nat /\ it \in Nat /\ core_idx \in Core /\ i \in Core

\* y is what a counter shows n calls after x.
After(x, n, y) == y = IF x + n < M THEN x + n ELSE x + n - M

\* Main has read the counter of a core, by main's place in
\* benchmark_multicore_do_ping_pong.
StartRead(c) == \/ pc[Main] = "read_start" /\ c < i
                \/ pc[Main] \in {"measure", "read_end", "total"} /\ c <= core_idx

EndRead(c) == \/ pc[Main] = "read_end" /\ c < i
              \/ pc[Main] = "total" /\ c <= core_idx

CounterInv(c) ==
  /\ StartRead(c) => After(start[c], made[c], calls[c])
  /\ EndRead(c) => After(start[c], window[c], end[c])
  /\ ~StartRead(c) => start[c] = 0
  /\ ~EndRead(c) => end[c] = 0 /\ window[c] = 0

LoopInv ==
  /\ pc[Main] \notin {"read_start", "read_end", "suspend_ping", "restore"} => i = 0
  /\ pc[Main] \in {"read_start", "read_end"} => i <= core_idx

CountInv == TypeInv /\ LoopInv /\ \A c \in Core : CounterInv(c)

\* The threads are different from each other, and numbered by their cores.
LEMMA Threads ==
  /\ Main \in Thread /\ Main \notin Child /\ Child \subseteq Thread
  /\ \A c \in Core : /\ Ping(c) \in Child /\ Pong(c) \in Child /\ Ping(c) # Pong(c)
                     /\ Ping(c) # Main /\ Pong(c) # Main
  /\ \A c, d \in Core : /\ Ping(c) # Pong(d)
                        /\ Ping(c) = Ping(d) => c = d
                        /\ Pong(c) = Pong(d) => c = d
  /\ \A t \in Child : \E c \in Core : t = Ping(c) \/ t = Pong(c)
BY Zenon DEF Main, Child, Thread, Ping, Pong

\* The cores are the numbers below simple_get_core_count, which is positive.
LEMMA CoreNumbers ==
  /\ Cores \in Nat /\ Cores > 0 /\ 0 \in Core
  /\ \A c \in Core : c \in Nat /\ c < Cores
  /\ \A n \in Nat : n < Cores => n \in Core
  /\ Runs \in Nat /\ Runs > 0 /\ MaxCalls \in Nat
BY SmpAssumption, Width DEF Core

\* A step of main that reads no counter.
LEMMA Elsewhere ==
  ASSUME CountInv, NEW to \in MainLabel, pc' = [pc EXCEPT ![Main] = to],
         UNCHANGED <<calls, made, start, end, window, loopvars>>,
         cp' \in [Child -> ChildLabel],
         \/ /\ pc[Main] \notin {"read_start", "measure", "read_end", "total"}
            /\ to \notin {"measure", "read_end", "total"}
            /\ pc[Main] \in {"suspend_ping", "restore"} => to \in {"suspend_ping", "restore"}
         \/ pc[Main] = "measure" /\ to = "read_end"
  PROVE  CountInv'
<1> USE DEF CountInv, loopvars
<1>1. /\ pc'[Main] = to /\ \A t \in Child : pc'[t] = pc[t]
      /\ pc' \in [Thread -> ChildLabel \cup MainLabel]
  BY Threads, Zenon DEF TypeInv
<1>2. core_idx \in Nat /\ i \in Nat /\ \A c \in Core : c \in Nat
  BY CoreNumbers, Zenon DEF TypeInv
<1>3. TypeInv'
  BY <1>1, Zenon DEF TypeInv
<1>4. LoopInv'
  <2>1. i' = i /\ core_idx' = core_idx
    BY Zenon
  <2>2. pc'[Main] \notin {"read_start", "read_end", "suspend_ping", "restore"} => i = 0
    BY <1>1, Zenon DEF LoopInv
  <2>3. pc'[Main] \in {"read_start", "read_end"} => i <= core_idx
    BY <1>1, <1>2 DEF LoopInv
  <2> QED
    BY <2>1, <2>2, <2>3, Zenon DEF LoopInv
<1>5. \A c \in Core : (StartRead(c)' <=> StartRead(c)) /\ (EndRead(c)' <=> EndRead(c))
  BY <1>1, <1>2 DEF StartRead, EndRead, LoopInv
<1> QED
  BY <1>3, <1>4, <1>5, Zenon DEF CounterInv, After


\* Main goes on with its program, as seen by the counters.
MainLeaves(to) ==
  /\ pc' = [pc EXCEPT ![Main] = to]
  /\ UNCHANGED <<calls, made, start, end, window, loopvars>>

\* Preparing a core (ipc_throughput) touches no counter.
LEMMA CountPrepare ==
  ASSUME CountInv, PrepareCore
  PROVE  CountInv'
<1> USE DEF Step
<1>1. pc[Main] \in {"prepare", "resume_ping", "resume_pong", "yield_1", "yield_2", "lower",
                    "passive", "checkpoint", "wake_ping", "wake_pong"}
  BY Zenon DEF PrepareCore, SetPriority, Resume, Yield, MakePassive, Checkpoint, Wake
<1>2. \E to \in {"resume_ping", "resume_pong", "yield_1", "yield_2", "lower",
                 "passive", "checkpoint", "wake_ping", "wake_pong", "tick"} : MainLeaves(to)
  BY Zenon
     DEF PrepareCore, SetPriority, Resume, Yield, MakePassive, Checkpoint, Wake, MainLeaves,
         readvars
<1>3. cp' \in [Child -> ChildLabel]
  <2>1. CASE Checkpoint
    BY <2>1, Threads, Zenon DEF Checkpoint, CountInv, TypeInv, ChildLabel
  <2>2. CASE cp' = cp
    BY <2>2, Zenon DEF CountInv, TypeInv
  <2> QED
    BY <2>1, <2>2, Zenon DEF PrepareCore, SetPriority, Resume, Yield, MakePassive, Wake
<1> QED
  BY <1>1, <1>2, <1>3, Elsewhere, Zenon DEF MainLeaves, MainLabel

\* wait_for_benchmark moves main to where i is 0 and it begins to read.
LEMMA CountWait ==
  ASSUME CountInv, WaitForBenchmark
  PROVE  CountInv'
<1>1. cp' \in [Child -> ChildLabel]
  BY Zenon DEF WaitForBenchmark, CountInv, TypeInv
<1>2. UNCHANGED <<calls, made, start, end, window, loopvars>>
  BY Zenon DEF WaitForBenchmark, readvars
<1>3. \/ pc[Main] = "first_tick" /\ pc' = [pc EXCEPT ![Main] = "prepare"]
      \/ pc[Main] = "tick" /\ pc' = [pc EXCEPT ![Main] = "read_start"]
      \/ pc[Main] = "measure" /\ pc' = [pc EXCEPT ![Main] = "read_end"]
  BY Zenon DEF WaitForBenchmark, Step
<1> QED
  BY <1>1, <1>2, <1>3, Elsewhere, Zenon DEF MainLabel

\* Suspending a ping (reset_test) touches no counter.
LEMMA CountSuspend ==
  ASSUME CountInv, SuspendPing
  PROVE  CountInv'
<1>1. cp' \in [Child -> ChildLabel]
  BY Zenon DEF SuspendPing, CountInv, TypeInv
<1>2. UNCHANGED <<calls, made, start, end, window, loopvars>>
  BY Zenon DEF SuspendPing, readvars
<1>3. pc[Main] = "suspend_ping" /\ pc' = [pc EXCEPT ![Main] = "restore"]
  BY Zenon DEF SuspendPing, Step
<1> QED
  BY <1>1, <1>2, <1>3, Elsewhere, Zenon DEF MainLabel

\* A call that is completed: calls_completed and the history move together.
LEMMA CountChild ==
  ASSUME CountInv, NEW c \in Core, ChildStep(c)
  PROVE  CountInv'
<1>1. PICK t \in Child, to \in ChildLabel : pc' = [pc EXCEPT ![t] = to]
  BY Threads, Zenon DEF ChildStep, ping_fn, pong_fn, Synchronise, Step, ChildLabel
<1>2. /\ pc'[Main] = pc[Main] /\ UNCHANGED <<start, end, window, cp, loopvars>>
      /\ pc' \in [Thread -> ChildLabel \cup MainLabel]
      /\ \A u \in Child : pc'[u] \in ChildLabel
  BY <1>1, Threads, Zenon DEF CountInv, TypeInv, ChildStep, readvars
<1>3. \A d \in Core : (StartRead(d)' <=> StartRead(d)) /\ (EndRead(d)' <=> EndRead(d))
  BY <1>2, Zenon DEF StartRead, EndRead, loopvars
<1>4. LoopInv'
  BY <1>2, Zenon DEF CountInv, LoopInv, loopvars
<1>5. \/ UNCHANGED <<calls, made>>
      \/ /\ made[c] < MaxCalls
         /\ calls' = [calls EXCEPT ![c] = (@ + 1) % M]
         /\ made' = [made EXCEPT ![c] = @ + 1]
  BY Zenon DEF ChildStep, ping_fn, pong_fn, Synchronise, M
<1>6. CASE UNCHANGED <<calls, made>>
  BY <1>2, <1>3, <1>4, <1>6, Zenon DEF CountInv, TypeInv, CounterInv, After, loopvars
<1>7. CASE /\ made[c] < MaxCalls
           /\ calls' = [calls EXCEPT ![c] = (@ + 1) % M]
           /\ made' = [made EXCEPT ![c] = @ + 1]
  <2>1. /\ calls[c] \in 0..M - 1 /\ start[c] \in 0..M - 1 /\ made[c] \in 0..MaxCalls
        /\ calls \in [Core -> 0..M - 1] /\ made \in [Core -> 0..MaxCalls]
    BY Zenon DEF CountInv, TypeInv
  <2>2. (calls[c] + 1) % M = IF calls[c] + 1 = M THEN 0 ELSE calls[c] + 1
    BY <2>1, Increment, Zenon
  <2>3. (calls[c] + 1) % M \in 0..M - 1 /\ made[c] + 1 \in 0..MaxCalls
    BY <1>7, <2>1, <2>2, Width
  <2>4. TypeInv'
    BY <1>2, <1>7, <2>1, <2>3, Zenon DEF CountInv, TypeInv, loopvars
  <2>5. \A d \in Core : d # c => calls'[d] = calls[d] /\ made'[d] = made[d]
    BY <1>7, <2>1, Zenon
  <2>6. After(start[c], made[c], calls[c]) => After(start'[c], made'[c], calls'[c])
    BY <1>2, <1>7, <2>1, <2>2, Width DEF After
  <2>7. \A d \in Core : CounterInv(d)'
    BY <1>2, <1>3, <2>5, <2>6, Zenon DEF CountInv, CounterInv, After
  <2> QED
    BY <1>4, <2>4, <2>7, Zenon DEF CountInv
<1> QED
  BY <1>5, <1>6, <1>7, Zenon

\* A tick of the timer touches no counter.
LEMMA CountTick ==
  ASSUME CountInv, Tick
  PROVE  CountInv'
BY Zenon DEF Tick, CountInv, TypeInv, LoopInv, CounterInv, After, StartRead, EndRead, loopvars,
   readvars

\* What main knows of its own place when it reads a counter.
LEMMA Reading ==
  ASSUME CountInv, pc[Main] \in {"read_start", "read_end"}
  PROVE  /\ i \in Nat /\ core_idx \in Nat /\ i <= core_idx /\ i \in Core /\ core_idx \in Core
         /\ i # core_idx => i + 1 \in Core /\ i + 1 <= core_idx
         /\ 0 \in Core /\ \A c \in Core : c \in Nat
<1>1. i \in Core /\ core_idx \in Core /\ i <= core_idx
  BY Zenon DEF CountInv, TypeInv, LoopInv
<1> QED
  BY <1>1, CoreNumbers

\* Reading a counter into start begins the count of that core's calls.
LEMMA CountReadStart ==
  ASSUME CountInv, ReadStart
  PROVE  CountInv'
<1> USE DEF ReadStart, Step
<1>1. pc[Main] = "read_start"
  BY Zenon
<1>2. /\ i \in Nat /\ core_idx \in Nat /\ i <= core_idx /\ i \in Core /\ core_idx \in Core
      /\ i # core_idx => i + 1 \in Core /\ i + 1 <= core_idx
      /\ 0 \in Core /\ \A c \in Core : c \in Nat
  BY <1>1, Reading, Zenon
<1>3. TypeInv'
  BY <1>2, Threads, Width DEF CountInv, TypeInv, MainLabel
<1>4. pc'[Main] = IF i = core_idx THEN "measure" ELSE "read_start"
  BY Threads, Zenon DEF CountInv, TypeInv
<1>5. LoopInv'
  BY <1>2, <1>4 DEF LoopInv
<1>6. \A c \in Core : (StartRead(c)' <=> StartRead(c) \/ c = i) /\ ~EndRead(c) /\ ~EndRead(c)'
  BY <1>1, <1>2, <1>4 DEF StartRead, EndRead
<1>7. /\ start'[i] = calls[i] /\ made'[i] = 0 /\ calls[i] \in 0..M - 1
      /\ \A c \in Core : c # i => start'[c] = start[c] /\ made'[c] = made[c]
  BY <1>2, Zenon DEF CountInv, TypeInv
<1>8. After(start'[i], made'[i], calls'[i])
  BY <1>7, Width DEF After
<1>9. \A c \in Core : CounterInv(c)'
  BY <1>6, <1>7, <1>8, <1>2, Zenon DEF CountInv, CounterInv, After
<1> QED
  BY <1>3, <1>5, <1>9, Zenon DEF CountInv

\* Reading a counter into end fixes the window of that core.
LEMMA CountReadEnd ==
  ASSUME CountInv, ReadEnd
  PROVE  CountInv'
<1> USE DEF ReadEnd, Step
<1>1. pc[Main] = "read_end"
  BY Zenon
<1>2. /\ i \in Nat /\ core_idx \in Nat /\ i <= core_idx /\ i \in Core /\ core_idx \in Core
      /\ i # core_idx => i + 1 \in Core /\ i + 1 <= core_idx
      /\ 0 \in Core /\ \A c \in Core : c \in Nat
  BY <1>1, Reading, Zenon
<1>3. TypeInv'
  BY <1>2, Threads, Width, Zenon DEF CountInv, TypeInv, MainLabel
<1>4. pc'[Main] = IF i = core_idx THEN "total" ELSE "read_end"
  BY Threads, Zenon DEF CountInv, TypeInv
<1>5. LoopInv'
  BY <1>2, <1>4 DEF LoopInv
<1>6. \A c \in Core : (EndRead(c)' <=> EndRead(c) \/ c = i) /\ (StartRead(c)' <=> StartRead(c))
  BY <1>1, <1>2, <1>4 DEF StartRead, EndRead
<1>7. /\ end'[i] = calls[i] /\ window'[i] = made[i] /\ StartRead(i)
      /\ \A c \in Core : c # i => end'[c] = end[c] /\ window'[c] = window[c]
  BY <1>1, <1>2, Zenon DEF CountInv, TypeInv, StartRead
<1>8. After(start'[i], window'[i], end'[i])
  BY <1>2, <1>7, Zenon DEF CountInv, CounterInv, After
<1>9. \A c \in Core : CounterInv(c)'
  BY <1>6, <1>7, <1>8, <1>2 DEF CountInv, CounterInv, After
<1> QED
  BY <1>3, <1>5, <1>9, Zenon DEF CountInv

\* After the total main forgets what it read and goes on to the next sample.
LEMMA CountNextSample ==
  ASSUME CountInv, NextSample
  PROVE  CountInv'
<1> USE DEF NextSample, Step
<1>1. /\ it \in Nat /\ core_idx \in Core /\ core_idx \in Nat /\ core_idx < Cores /\ i = 0
      /\ Runs \in Nat /\ Runs > 0 /\ Cores \in Nat /\ Cores > 0
  BY CoreNumbers, Zenon DEF CountInv, TypeInv, LoopInv
<1>2. (it + 1) % Runs \in Nat
  BY <1>1
<1>3. (core_idx + 1) % Cores \in 0..Cores - 1
  BY <1>1
<1>4. core_idx' \in Core /\ it' \in Nat
  BY <1>1, <1>2, <1>3, Zenon DEF Core
<1>5. \E to \in {"read_start", "prepare", "suspend_ping"} : pc' = [pc EXCEPT ![Main] = to]
  BY Zenon
<1>6. /\ pc' \in [Thread -> ChildLabel \cup MainLabel]
      /\ pc'[Main] \in {"read_start", "prepare", "suspend_ping"}
      /\ \A t \in Child : pc'[t] = pc[t]
  BY <1>5, Threads, Zenon DEF CountInv, TypeInv, MainLabel
<1>7. TypeInv'
  BY <1>4, <1>6, Width DEF CountInv, TypeInv, MainLabel
<1>8. LoopInv'
  BY <1>1, <1>4, <1>6, CoreNumbers DEF LoopInv
<1>9. \A c \in Core : ~StartRead(c)' /\ ~EndRead(c)'
  BY <1>1, <1>6, CoreNumbers DEF StartRead, EndRead
<1>10. \A c \in Core : start'[c] = 0 /\ end'[c] = 0 /\ window'[c] = 0
  BY Zenon
<1>11. \A c \in Core : CounterInv(c)'
  BY <1>9, <1>10, Zenon DEF CounterInv
<1> QED
  BY <1>7, <1>8, <1>11, Zenon DEF CountInv

\* reset_test clears a counter when main has read none.
LEMMA CountRestore ==
  ASSUME CountInv, Restore
  PROVE  CountInv'
<1> USE DEF Restore
<1>1. /\ i \in Core /\ i \in Nat /\ Cores \in Nat /\ Cores > 0 /\ test \in Nat
      /\ pc[Main] = "restore"
  BY CoreNumbers, Zenon DEF CountInv, TypeInv
<1>2. i' \in Core /\ i' \in Nat
  BY <1>1 DEF Core
<1>3. test' \in Nat
  BY <1>1
<1>4. pc'[Main] \in {"suspend_ping", "prepare", "finished"} /\ (i' # 0 => pc'[Main] = "suspend_ping")
  <2>1. pc'[Main] = IF i' # 0 THEN "suspend_ping"
                    ELSE IF test' < Tests THEN "prepare" ELSE "finished"
    BY <1>1, Threads, Zenon
  <2> QED
    BY <2>1, Zenon
<1>5. \A t \in Child : pc'[t] \in ChildLabel
  BY Threads, Zenon DEF CountInv, TypeInv
<1>6. pc' \in [Thread -> ChildLabel \cup MainLabel]
  <2>1. \A t \in Thread : pc'[t] \in ChildLabel \cup MainLabel
    BY <1>4, <1>5, Zenon DEF Thread, MainLabel
  <2> QED
    BY <2>1, Zenon
<1>7. TypeInv'
  BY <1>1, <1>2, <1>3, <1>4, <1>5, <1>6, Width DEF CountInv, TypeInv, MainLabel, readvars
<1>8. LoopInv'
  BY <1>4, Zenon DEF LoopInv
<1>9. \A c \in Core : ~StartRead(c) /\ ~EndRead(c) /\ ~StartRead(c)' /\ ~EndRead(c)'
  BY <1>1, <1>4, Zenon DEF StartRead, EndRead
<1>10. \A c \in Core : CounterInv(c)'
  BY <1>9, Zenon DEF CountInv, CounterInv, readvars
<1> QED
  BY <1>7, <1>8, <1>10, Zenon DEF CountInv

\* At boot every counter is 0 and main has read none.
LEMMA CountInit ==
  ASSUME Init
  PROVE  CountInv
<1> USE DEF Init
<1>1. TypeInv
  BY Threads, CoreNumbers, Width DEF TypeInv, ChildLabel, MainLabel
<1>2. pc[Main] = "first_tick"
  BY Threads, Zenon
<1> QED
  BY <1>1, <1>2, Zenon DEF CountInv, LoopInv, CounterInv, StartRead, EndRead

\* A step that changes nothing keeps the invariant.
LEMMA CountStutter ==
  ASSUME CountInv, UNCHANGED vars
  PROVE  CountInv'
BY Zenon DEF vars, CountInv, TypeInv, LoopInv, CounterInv, After, StartRead, EndRead, loopvars,
   readvars

\* Every step of main, the timer and the pairs keeps the invariant of the counters.
LEMMA CountNext ==
  ASSUME CountInv, [Next]_vars
  PROVE  CountInv'
BY CountPrepare, CountWait, CountSuspend, CountChild, CountTick, CountReadStart, CountReadEnd,
   CountNextSample, CountRestore, CountStutter, Zenon DEF Next, MainStep, Done

\* Once both readings are taken, their difference is the number of calls between them.
LEMMA DifferenceIsExact ==
  ASSUME CountInv, pc[Main] = "total", NEW c \in Core
  PROVE  Completed(c) = window[c]
<1>1. /\ start[c] \in 0..M - 1 /\ end[c] \in 0..M - 1 /\ window[c] \in 0..MaxCalls
      /\ core_idx \in Nat /\ c \in Nat
  BY CoreNumbers, Zenon DEF CountInv, TypeInv
<1>2. Completed(c) = IF end[c] >= start[c] THEN end[c] - start[c] ELSE end[c] - start[c] + M
  BY <1>1, Difference, Zenon DEF Completed, M
<1>3. CASE c <= core_idx
  <2>1. After(start[c], window[c], end[c])
    BY <1>3, Zenon DEF CountInv, CounterInv, EndRead
  <2> QED
    BY <1>1, <1>2, <2>1, Width DEF After
<1>4. CASE ~(c <= core_idx)
  <2>1. start[c] = 0 /\ end[c] = 0 /\ window[c] = 0
    BY <1>1, <1>4, Zenon DEF CountInv, CounterInv, EndRead, StartRead
  <2> QED
    BY <1>1, <1>2, <2>1
<1> QED
  BY <1>3, <1>4, Zenon

(***************************************************************************)
(* The total of a sample of benchmark_multicore_do_ping_pong is the number *)
(* of calls the cores completed between the two readings of their own      *)
(* counters, however the cores run while main reads one counter after the  *)
(* other, and wherever a uint32_t counter wraps: for every number of cores *)
(* and tests, on both kinds of kernel, provided a period has room for      *)
(* fewer calls than a counter has values.                                  *)
(***************************************************************************)
THEOREM TotalIsExact == Spec => []ThroughputIsExact
<1>1. Init => CountInv
  BY CountInit, Zenon
<1>2. CountInv /\ [Next]_vars => CountInv'
  BY CountNext, Zenon
<1>3. CountInv => ThroughputIsExact
  <2> SUFFICES ASSUME CountInv, pc[Main] = "total"
               PROVE  total = SumOver(window, 0..core_idx)
    BY Zenon DEF ThroughputIsExact
  <2>1. window = [c \in Core |-> window[c]]
    BY Zenon DEF CountInv, TypeInv
  <2>2. [c \in Core |-> Completed(c)] = [c \in Core |-> window[c]]
    BY DifferenceIsExact, Zenon
  <2> QED
    BY <2>1, <2>2, Zenon DEF total
<1> QED
  BY <1>1, <1>2, <1>3, PTL DEF Spec

-----------------------------------------------------------------------------
(* The pairs: on a kernel without scheduling contexts a pair is asleep,    *)
(* on its way to the synchronisation point, or past it, as far as main's   *)
(* program says, and past it ping and pong never block both.               *)

\* Before main resumes it.
Asleep(t) == tcb[t] = Inactive /\ pc[t] \in {"init", "sync"} /\ ~active[t]

\* Resumed, but not signalled.
Fresh(t) ==
  /\ ~active[t]
  /\ \/ tcb[t] = Running /\ pc[t] \in {"init", "sync"}
     \/ tcb[t] = WaitingOn(t) /\ pc[t] = "loop"

\* Signalled before it came to its synchronisation point.
Signalled(t) == tcb[t] = Running /\ pc[t] \in {"init", "sync"} /\ active[t]

PingPast(c) ==
  /\ ~active[Ping(c)]
  /\ \/ tcb[Ping(c)] = Running /\ pc[Ping(c)] \in {"loop", "count"}
     \/ tcb[Ping(c)] \in {CallingOn(Ep(c)), AwaitingReply} /\ pc[Ping(c)] = "count"

PongPast(c) ==
  ~active[Pong(c)] /\ pc[Pong(c)] = "loop" /\ tcb[Pong(c)] \in {Running, RecvingOn(Ep(c))}

PairAsleep(c) == Asleep(Ping(c)) /\ Asleep(Pong(c))
PairFresh(c)  == Fresh(Ping(c)) /\ Fresh(Pong(c))
PairPast(c)   == PingPast(c) /\ PongPast(c)
PingAwake(c)  == Signalled(Ping(c)) \/ PingPast(c)
PongAwake(c)  == Signalled(Pong(c)) \/ PongPast(c)

\* Between the suspension of ping and that of pong in reset_test.
PingGone(c) ==
  tcb[Ping(c)] = Inactive /\ ~active[Ping(c)] /\ PongPast(c) /\ caller[Pong(c)] = NoThread

\* Ping awaits the reply of a pong that can run, and meets a pong that receives.
Rendezvous(c) ==
  /\ tcb[Ping(c)] \in {Running, Inactive, WaitingOn(Ping(c)), CallingOn(Ep(c)), AwaitingReply}
  /\ tcb[Pong(c)] \in {Running, Inactive, WaitingOn(Pong(c)), RecvingOn(Ep(c))}
  /\ caller[Ping(c)] = NoThread /\ caller[Pong(c)] \in {Ping(c), NoThread}
  /\ tcb[Ping(c)] = AwaitingReply <=> caller[Pong(c)] = Ping(c)
  /\ caller[Pong(c)] = Ping(c) => tcb[Pong(c)] = Running /\ pc[Pong(c)] = "loop"
  /\ tcb[Pong(c)] = RecvingOn(Ep(c)) => pc[Pong(c)] = "loop" /\ tcb[Ping(c)] # CallingOn(Ep(c))

\* A tick that came after the last core joined: every thread is past its
\* synchronisation point.
Settled ==
  \/ pc[Main] = "total"
  \/ pc[Main] = "read_end" /\ tcb[Main] = Running
  \/ pc[Main] \in {"read_start", "measure"} /\ (active[Main] \/ it > 0)

Current(c) ==
  /\ pc[Main] \in {"first_tick", "prepare", "resume_ping"} => PairAsleep(c)
  /\ pc[Main] = "resume_pong" => Fresh(Ping(c)) /\ Asleep(Pong(c))
  /\ pc[Main] \in {"yield_1", "yield_2", "lower", "passive", "checkpoint", "wake_ping"}
       => PairFresh(c)
  /\ pc[Main] = "wake_pong" => PingAwake(c) /\ Fresh(Pong(c))
  /\ pc[Main] \in {"tick", "read_start", "measure", "read_end", "total"}
       => PingAwake(c) /\ PongAwake(c)
  /\ Settled => PairPast(c)

Joined(c) ==
  /\ c < core_idx => PairPast(c)
  /\ c = core_idx => Current(c)
  /\ c > core_idx => PairAsleep(c)

Resetting(c) ==
  /\ c < i => PairAsleep(c)
  /\ c = i => IF pc[Main] = "restore" THEN PingGone(c) ELSE PairPast(c)
  /\ c > i => PairPast(c)

PairStage(c) ==
  /\ pc[Main] \notin {"suspend_ping", "restore", "finished"} => Joined(c)
  /\ pc[Main] \in {"suspend_ping", "restore"} => Resetting(c)
  /\ pc[Main] = "finished" => PairAsleep(c)

MainInv ==
  /\ tcb[Main] \in {Running, WaitingOn(Main)} /\ caller[Main] = NoThread
  /\ pc[Main] \in {"first_tick", "suspend_ping", "restore", "finished"} => core_idx = 0
  /\ pc[Main] \notin {"read_start", "measure", "read_end", "total"} => it = 0
  /\ \A t \in Child : cp[t] \in {"init", "sync"}

StateInv ==
  /\ sc = [t \in Thread |-> t]
  /\ DOMAIN tcb = Thread /\ tcb = [t \in Thread |-> tcb[t]]
  /\ DOMAIN caller = Thread /\ caller = [t \in Thread |-> caller[t]]
  /\ active \in [Thread -> BOOLEAN]

PairInv ==
  /\ CountInv /\ StateInv /\ MainInv
  /\ \A c \in Core : Rendezvous(c) /\ PairStage(c)

\* The states of a thread are different from each other.
LEMMA States ==
  /\ Running # Inactive /\ Running # AwaitingReply /\ Inactive # AwaitingReply
  /\ \A x : /\ WaitingOn(x) \notin {Running, Inactive, AwaitingReply}
            /\ CallingOn(x) \notin {Running, Inactive, AwaitingReply}
            /\ RecvingOn(x) \notin {Running, Inactive, AwaitingReply}
            /\ SendingTo(x) \notin {Running, Inactive, AwaitingReply}
  /\ \A x, y : /\ WaitingOn(x) \notin {CallingOn(y), RecvingOn(y), SendingTo(y)}
               /\ CallingOn(x) \notin {RecvingOn(y), SendingTo(y)}
               /\ RecvingOn(x) # SendingTo(y)
               /\ WaitingOn(x) = WaitingOn(y) => x = y
               /\ CallingOn(x) = CallingOn(y) => x = y
               /\ RecvingOn(x) = RecvingOn(y) => x = y
BY Zenon DEF Running, Inactive, AwaitingReply, WaitingOn, CallingOn, RecvingOn, SendingTo

\* Every core has an endpoint of its own.
LEMMA Endpoints == \A c, d \in Core : Ep(c) = Ep(d) => c = d
BY Zenon DEF Ep

\* The state of every thread names an object of its own core.
ObjectInv ==
  /\ StateInv
  /\ tcb[Main] \in {Running, WaitingOn(Main)}
  /\ \A c \in Core : Rendezvous(c)

\* What the invariant of the pairs says about the objects threads block on.
LEMMA PairObjects == PairInv => ObjectInv
BY Zenon DEF PairInv, MainInv, ObjectInv

\* Only a thread itself waits on its notification (seL4_Wait in ping_fn, pong_fn
\* and wait_for_benchmark).
LEMMA Waiters ==
  ASSUME ObjectInv, NEW t \in Thread
  PROVE  Blocked(WaitingOn(t)) = IF tcb[t] = WaitingOn(t) THEN {t} ELSE {}
<1>1. \A u \in Thread : tcb[u] = WaitingOn(t) => u = t
  <2> SUFFICES ASSUME NEW u \in Thread, tcb[u] = WaitingOn(t)
               PROVE  u = t
    BY Zenon
  <2>1. CASE u = Main
    BY <2>1, States, Zenon DEF ObjectInv
  <2>2. CASE u \in Child
    <3>1. PICK c \in Core : u = Ping(c) \/ u = Pong(c)
      BY <2>2, Threads, Zenon
    <3> QED
      BY <3>1, States DEF ObjectInv, Rendezvous
  <2> QED
    BY <2>1, <2>2, Zenon DEF Thread
<1> QED
  BY <1>1, Zenon DEF Blocked, ObjectInv, StateInv

\* Only pong receives on the endpoint of its core (seL4_ReplyRecv in pong_fn).
LEMMA Receivers ==
  ASSUME ObjectInv, NEW c \in Core
  PROVE  Blocked(RecvingOn(Ep(c))) =
           IF tcb[Pong(c)] = RecvingOn(Ep(c)) THEN {Pong(c)} ELSE {}
<1>1. \A u \in Thread : tcb[u] = RecvingOn(Ep(c)) => u = Pong(c)
  <2> SUFFICES ASSUME NEW u \in Thread, tcb[u] = RecvingOn(Ep(c))
               PROVE  u = Pong(c)
    BY Zenon
  <2>1. CASE u = Main
    BY <2>1, States, Zenon DEF ObjectInv
  <2>2. CASE u \in Child
    <3>1. PICK d \in Core : u = Ping(d) \/ u = Pong(d)
      BY <2>2, Threads, Zenon
    <3> QED
      BY <3>1, States, Endpoints DEF ObjectInv, Rendezvous
  <2> QED
    BY <2>1, <2>2, Zenon DEF Thread
<1> QED
  BY <1>1, Threads, ZenonT(90) DEF Blocked, ObjectInv, StateInv

\* Only ping calls on the endpoint of its core (seL4_Call in ping_fn).
LEMMA Callers ==
  ASSUME ObjectInv, NEW c \in Core, NEW u \in Thread
  PROVE  /\ tcb[u] = CallingOn(Ep(c)) => u = Ping(c)
         /\ tcb[u] # SendingTo(Ep(c))
<1>1. CASE u = Main
  BY <1>1, States, Zenon DEF ObjectInv
<1>2. CASE u \in Child
  <2>1. PICK d \in Core : u = Ping(d) \/ u = Pong(d)
    BY <1>2, Threads, Zenon
  <2> QED
    BY <2>1, States, Endpoints DEF ObjectInv, Rendezvous
<1> QED
  BY <1>1, <1>2, Zenon DEF Thread

\* Nobody gives its scheduling context away.
LEMMA ContextsStay ==
  ASSUME StateInv, NEW from \in Thread, NEW to \in Thread
  PROVE  Passed(sc, from, to) = sc
BY Zenon DEF StateInv, Passed, HasSc

\* Without scheduling contexts that move, a thread is ready when it runs.
LEMMA ReadyIsRunning ==
  ASSUME StateInv, NEW t \in Thread
  PROVE  Ready(t) <=> tcb[t] = Running
BY Zenon DEF StateInv, Ready, HasSc

-----------------------------------------------------------------------------
(* What a step of a pair does.                                             *)

Same(t) == /\ tcb'[t] = tcb[t] /\ pc'[t] = pc[t]
           /\ active'[t] = active[t] /\ caller'[t] = caller[t]

Syncs(t) ==
  /\ tcb[t] = Running /\ caller'[t] = caller[t]
  /\ \/ /\ pc[t] = "init" /\ pc'[t] = "sync"
        /\ tcb'[t] = Running /\ active'[t] = active[t]
     \/ /\ pc[t] = "sync" /\ pc'[t] = "loop"
        /\ ~active'[t]
        /\ tcb'[t] = IF active[t] THEN Running ELSE WaitingOn(t)

Counts(c) ==
  /\ tcb[Ping(c)] = Running /\ pc[Ping(c)] = "count" /\ pc'[Ping(c)] = "loop"
  /\ tcb'[Ping(c)] = Running /\ active'[Ping(c)] = active[Ping(c)]
  /\ caller'[Ping(c)] = caller[Ping(c)] /\ Same(Pong(c))

Calls(c) ==
  /\ tcb[Ping(c)] = Running /\ pc[Ping(c)] = "loop" /\ pc'[Ping(c)] = "count"
  /\ active'[Ping(c)] = active[Ping(c)] /\ active'[Pong(c)] = active[Pong(c)]
  /\ caller'[Ping(c)] = caller[Ping(c)] /\ pc'[Pong(c)] = pc[Pong(c)]
  /\ \/ /\ tcb[Pong(c)] = RecvingOn(Ep(c))
        /\ tcb'[Ping(c)] = AwaitingReply /\ tcb'[Pong(c)] = Running
        /\ caller'[Pong(c)] = Ping(c)
     \/ /\ tcb[Pong(c)] # RecvingOn(Ep(c))
        /\ tcb'[Ping(c)] = CallingOn(Ep(c)) /\ tcb'[Pong(c)] = tcb[Pong(c)]
        /\ caller'[Pong(c)] = caller[Pong(c)]

Serves(c) ==
  /\ tcb[Pong(c)] = Running /\ pc[Pong(c)] = "loop" /\ pc'[Pong(c)] = "loop"
  /\ active'[Ping(c)] = active[Ping(c)] /\ active'[Pong(c)] = active[Pong(c)]
  /\ caller'[Ping(c)] = caller[Ping(c)] /\ pc'[Ping(c)] = pc[Ping(c)]
  /\ \/ /\ caller[Pong(c)] = Ping(c)
        /\ tcb'[Ping(c)] = Running /\ tcb'[Pong(c)] = RecvingOn(Ep(c))
        /\ caller'[Pong(c)] = NoThread
     \/ /\ caller[Pong(c)] = NoThread /\ tcb[Ping(c)] = CallingOn(Ep(c))
        /\ tcb'[Ping(c)] = AwaitingReply /\ tcb'[Pong(c)] = Running
        /\ caller'[Pong(c)] = Ping(c)
     \/ /\ caller[Pong(c)] = NoThread /\ tcb[Ping(c)] # CallingOn(Ep(c))
        /\ tcb'[Ping(c)] = tcb[Ping(c)] /\ tcb'[Pong(c)] = RecvingOn(Ep(c))
        /\ caller'[Pong(c)] = NoThread

Moves(c) == \/ Syncs(Ping(c)) /\ Same(Pong(c))
            \/ Syncs(Pong(c)) /\ Same(Ping(c))
            \/ Counts(c)
            \/ Calls(c)
            \/ Serves(c)

\* What a step that is not main's leaves as it is.
Keeps(c) ==
  /\ Rendezvous(c)'
  /\ PairAsleep(c) => PairAsleep(c)'
  /\ Fresh(Ping(c)) /\ Asleep(Pong(c)) => Fresh(Ping(c))' /\ Asleep(Pong(c))'
  /\ PairFresh(c) => PairFresh(c)'
  /\ PingAwake(c) /\ Fresh(Pong(c)) => PingAwake(c)' /\ Fresh(Pong(c))'
  /\ PingAwake(c) /\ PongAwake(c) => PingAwake(c)' /\ PongAwake(c)'
  /\ PairPast(c) => PairPast(c)'
  /\ PingGone(c) => PingGone(c)'

\* A step that leaves a pair alone keeps it where it is.
LEMMA StayKeeps ==
  ASSUME NEW c \in Core, Rendezvous(c), Same(Ping(c)), Same(Pong(c))
  PROVE  Keeps(c)
BY Zenon
   DEF Keeps, Same, PairAsleep, PairFresh, PingAwake, PongAwake, PairPast, PingGone,
       PingPast, PongPast, Asleep, Fresh, Signalled, Rendezvous

\* The steps a pair can take keep it in its stage.
LEMMA MoveKeeps ==
  ASSUME NEW c \in Core, Rendezvous(c), Moves(c)
  PROVE  Keeps(c)
<1> USE DEF Keeps, PairAsleep, PairFresh, PingAwake, PongAwake, PairPast, PingGone, PingPast, PongPast,
            Asleep, Fresh, Signalled, Rendezvous
<1>1. CASE Syncs(Ping(c)) /\ Same(Pong(c))
  BY <1>1, States, Zenon DEF Syncs, Same
<1>2. CASE Syncs(Pong(c)) /\ Same(Ping(c))
  BY <1>2, States, Zenon DEF Syncs, Same
<1>3. CASE Counts(c)
  BY <1>3, States, Zenon DEF Counts, Same
<1>0. Ping(c) # NoThread
  BY Threads, NoThreadAssumption, Zenon
<1>4. CASE Calls(c)
  <2>1. Rendezvous(c)'
    BY <1>0, <1>4, States, Zenon DEF Calls
  <2>2. ~Fresh(Ping(c)) /\ ~Asleep(Ping(c)) /\ ~PingGone(c) /\ ~Signalled(Ping(c))
    BY <1>4, States, Zenon DEF Calls
  <2>3. PingPast(c) => PingPast(c)'
    BY <1>4, Zenon DEF Calls
  <2>4. Fresh(Pong(c)) => Fresh(Pong(c))'
    BY <1>4, States, Zenon DEF Calls
  <2>5. PongAwake(c) => PongAwake(c)'
    BY <1>4, States, Zenon DEF Calls
  <2>6. PongPast(c) => PongPast(c)'
    BY <1>4, States, Zenon DEF Calls
  <2> HIDE DEF Fresh, Asleep, Signalled, PingGone, PingPast, PongPast, PongAwake
  <2> QED
    BY <2>1, <2>2, <2>3, <2>4, <2>5, <2>6, Zenon
<1>5. CASE Serves(c)
  <2>1. Rendezvous(c)'
    BY <1>0, <1>5, States, Zenon DEF Serves
  <2> QED
    BY <1>0, <1>5, <2>1, States, Zenon DEF Serves
<1> QED
  BY <1>1, <1>2, <1>3, <1>4, <1>5, Zenon DEF Moves

Apart(c) == \A t \in Thread : t \notin {Ping(c), Pong(c)} => Same(t)

\* The way of a thread to its synchronisation point concerns no other thread.
LEMMA SynchroniseMoves ==
  ASSUME ObjectInv, TypeInv, NEW t \in Thread, tcb[t] = Running, Synchronise(t)
  PROVE  StateInv' /\ Syncs(t) /\ \A u \in Thread : u # t => Same(u)
<1> USE DEF ObjectInv, StateInv, TypeInv, Synchronise, Step, Same, Syncs
<1>1. CASE pc[t] = "init"
  BY <1>1, Zenon DEF Wait
<1>2. CASE pc[t] = "sync"
  BY <1>2, Zenon DEF Wait, SetState
<1> QED
  BY <1>1, <1>2, Zenon

\* A step of ping_fn moves its own pair along, and no other thread.
LEMMA PingMoves ==
  ASSUME ObjectInv, TypeInv, NEW c \in Core, tcb[Ping(c)] = Running, ping_fn(c)
  PROVE  StateInv' /\ Moves(c) /\ Apart(c)
<1>0. /\ Ping(c) \in Thread /\ Pong(c) \in Thread /\ Ping(c) # Pong(c)
      /\ DOMAIN tcb = Thread /\ DOMAIN caller = Thread /\ DOMAIN pc = Thread
      /\ tcb = [t \in Thread |-> tcb[t]] /\ caller = [t \in Thread |-> caller[t]]
  BY Threads, Zenon DEF ObjectInv, StateInv, TypeInv
<1>1. CASE Synchronise(Ping(c))
  BY <1>0, <1>1, SynchroniseMoves, Zenon DEF Moves, Apart
<1>2. CASE /\ Step(Ping(c), "loop", "count")
           /\ Call(Ping(c), Ep(c))
  <2>1. active' = active
    BY <1>2, Zenon DEF Call
  <2>2. CASE tcb[Pong(c)] = RecvingOn(Ep(c))
    <3>1. /\ tcb' = [tcb EXCEPT ![Pong(c)] = Running, ![Ping(c)] = AwaitingReply]
          /\ caller' = [caller EXCEPT ![Pong(c)] = Ping(c)]
          /\ sc' = Passed(sc, Ping(c), Pong(c))
      BY <1>2, <2>2, Receivers, Zenon DEF Call
    <3>2. sc' = sc
      BY <1>0, <3>1, ContextsStay, Zenon DEF ObjectInv
    <3>3. StateInv'
      BY <1>0, <2>1, <3>1, <3>2, Zenon DEF ObjectInv, StateInv
    <3>4. Calls(c)
      BY <1>0, <1>2, <2>1, <2>2, <3>1, Zenon DEF Calls, Step
    <3>5. Apart(c)
      BY <1>0, <1>2, <2>1, <3>1, Zenon DEF Apart, Same, Step
    <3> QED
      BY <3>3, <3>4, <3>5, Zenon DEF Moves
  <2>3. CASE tcb[Pong(c)] # RecvingOn(Ep(c))
    <3>1. /\ tcb' = [tcb EXCEPT ![Ping(c)] = CallingOn(Ep(c))]
          /\ caller' = caller /\ sc' = sc
      BY <1>2, <2>3, Receivers, Zenon DEF Call, SetState
    <3>3. StateInv'
      BY <1>0, <2>1, <3>1, Zenon DEF ObjectInv, StateInv
    <3>4. Calls(c)
      BY <1>0, <1>2, <2>1, <2>3, <3>1, Zenon DEF Calls, Step
    <3>5. Apart(c)
      BY <1>0, <1>2, <2>1, <3>1, Zenon DEF Apart, Same, Step
    <3> QED
      BY <3>3, <3>4, <3>5, Zenon DEF Moves
  <2> QED
    BY <2>2, <2>3, Zenon
<1>3. CASE /\ Step(Ping(c), "count", "loop")
           /\ UNCHANGED <<tcb, active, caller, sc>>
  <2>1. StateInv'
    BY <1>3, Zenon DEF ObjectInv, StateInv
  <2> QED
    BY <1>0, <1>3, <2>1, Zenon DEF Moves, Counts, Apart, Same, Step
<1> QED
  BY <1>1, <1>2, <1>3, Zenon DEF ping_fn

\* A step of pong_fn moves its own pair along, and no other thread.
LEMMA PongMoves ==
  ASSUME ~MCS, ObjectInv, TypeInv, NEW c \in Core, tcb[Pong(c)] = Running, pong_fn(c)
  PROVE  StateInv' /\ Moves(c) /\ Apart(c)
<1>0. /\ Ping(c) \in Thread /\ Pong(c) \in Thread /\ Ping(c) # Pong(c)
      /\ Ping(c) # NoThread
      /\ DOMAIN tcb = Thread /\ DOMAIN caller = Thread /\ DOMAIN pc = Thread
      /\ tcb = [t \in Thread |-> tcb[t]] /\ caller = [t \in Thread |-> caller[t]]
  BY Threads, NoThreadAssumption, Zenon DEF ObjectInv, StateInv, TypeInv
<1>1. CASE Synchronise(Pong(c))
  BY <1>0, <1>1, SynchroniseMoves, Zenon DEF Moves, Apart
<1>2. CASE Step(Pong(c), "loop", "loop") /\ ~Synchronise(Pong(c))
  <2>1. CASE caller[Pong(c)] # NoThread
    <3> DEFINE S == [tcb EXCEPT ![Ping(c)] = Running]
    <3>1. caller[Pong(c)] = Ping(c)
      BY <2>1, Zenon DEF ObjectInv, Rendezvous
    <3>2. Passed(sc, Pong(c), Ping(c)) = sc
      BY <1>0, ContextsStay, Zenon DEF ObjectInv
    <3>3. RecvIn(Pong(c), Ep(c), S, sc)
      BY <1>2, <2>1, <3>1, <3>2, Zenon DEF pong_fn, Owes
    <3>4. DOMAIN S = Thread /\ \A s \in Thread : S[s] \notin {SendingTo(Ep(c)), CallingOn(Ep(c))}
      BY <1>0, Callers, States, Zenon
    <3> HIDE DEF S
    <3>5. /\ tcb' = [S EXCEPT ![Pong(c)] = RecvingOn(Ep(c))]
          /\ caller' = [caller EXCEPT ![Pong(c)] = NoThread]
          /\ sc' = sc /\ active' = active
      BY <3>3, <3>4, Zenon DEF RecvIn
    <3> USE DEF S
    <3>6. StateInv'
      BY <1>0, <3>5, Zenon DEF ObjectInv, StateInv
    <3>7. Serves(c)
      BY <1>0, <1>2, <3>1, <3>5, Zenon DEF Serves, Step
    <3>8. Apart(c)
      BY <1>0, <1>2, <3>5, Zenon DEF Apart, Same, Step
    <3> QED
      BY <3>6, <3>7, <3>8, Zenon DEF Moves
  <2>2. CASE caller[Pong(c)] = NoThread
    <3>1. RecvIn(Pong(c), Ep(c), tcb, sc)
      BY <1>2, <2>2, Zenon DEF pong_fn, Owes
    <3>2. CASE tcb[Ping(c)] = CallingOn(Ep(c))
      <4>1. /\ tcb' = [tcb EXCEPT ![Ping(c)] = AwaitingReply]
            /\ caller' = [caller EXCEPT ![Pong(c)] = Ping(c)]
            /\ sc' = Passed(sc, Ping(c), Pong(c)) /\ active' = active
        BY <1>0, <3>1, <3>2, Callers, Zenon DEF RecvIn
      <4>2. sc' = sc
        BY <1>0, <4>1, ContextsStay, Zenon DEF ObjectInv
      <4>3. StateInv'
        BY <1>0, <4>1, <4>2, Zenon DEF ObjectInv, StateInv
      <4>4. Serves(c)
        BY <1>0, <1>2, <2>2, <3>2, <4>1, Zenon DEF Serves, Step
      <4>5. Apart(c)
        BY <1>0, <1>2, <4>1, Zenon DEF Apart, Same, Step
      <4> QED
        BY <4>3, <4>4, <4>5, Zenon DEF Moves
    <3>3. CASE tcb[Ping(c)] # CallingOn(Ep(c))
      <4>1. /\ tcb' = [tcb EXCEPT ![Pong(c)] = RecvingOn(Ep(c))]
            /\ caller' = [caller EXCEPT ![Pong(c)] = NoThread]
            /\ sc' = sc /\ active' = active
        BY <1>0, <3>1, <3>3, Callers, Zenon DEF RecvIn
      <4>3. StateInv'
        BY <1>0, <4>1, Zenon DEF ObjectInv, StateInv
      <4>4. Serves(c)
        BY <1>0, <1>2, <2>2, <3>3, <4>1, Zenon DEF Serves, Step
      <4>5. Apart(c)
        BY <1>0, <1>2, <4>1, Zenon DEF Apart, Same, Step
      <4> QED
        BY <4>3, <4>4, <4>5, Zenon DEF Moves
    <3> QED
      BY <3>2, <3>3, Zenon
  <2> QED
    BY <2>1, <2>2, Zenon
<1> QED
  BY <1>1, <1>2, Zenon DEF pong_fn

\* A pair that stays where it is is where main's unchanged place says.
LEMMA StageKept ==
  ASSUME NEW c \in Core, Keeps(c), PairStage(c), Same(Main), UNCHANGED loopvars
  PROVE  PairStage(c)'
<1>1. /\ pc'[Main] = pc[Main] /\ tcb'[Main] = tcb[Main] /\ active'[Main] = active[Main]
      /\ core_idx' = core_idx /\ it' = it /\ i' = i
  BY Zenon DEF Same, loopvars
<1>2. Settled' <=> Settled
  BY <1>1, Zenon DEF Settled
<1>3. Current(c) => Current(c)'
  BY <1>1, <1>2, Zenon DEF Current, Keeps
<1>4. Joined(c) => Joined(c)'
  BY <1>1, <1>3, Zenon DEF Joined, Keeps
<1>5. Resetting(c) => Resetting(c)'
  BY <1>1, Zenon DEF Resetting, Keeps
<1> QED
  BY <1>1, <1>4, <1>5, Zenon DEF PairStage, Keeps

\* Steps of ping and pong keep the invariant of the pairs.
LEMMA PairChild ==
  ASSUME ~MCS, PairInv, NEW c \in Core, ChildStep(c)
  PROVE  PairInv'
<1>0. /\ ObjectInv /\ TypeInv /\ StateInv
      /\ Ping(c) \in Thread /\ Pong(c) \in Thread /\ Main \in Thread
      /\ Main \notin {Ping(c), Pong(c)}
  BY PairObjects, Threads, Zenon DEF PairInv, CountInv
<1>1. CountInv'
  BY CountChild, Zenon DEF PairInv
<1>2. StateInv' /\ Moves(c) /\ Apart(c)
  <2>1. CASE Executes(Ping(c)) /\ ping_fn(c)
    BY <1>0, <2>1, PingMoves, ReadyIsRunning, Zenon DEF Executes
  <2>2. CASE Executes(Pong(c)) /\ pong_fn(c)
    BY <1>0, <2>2, PongMoves, ReadyIsRunning, Zenon DEF Executes
  <2> QED
    BY <2>1, <2>2, Zenon DEF ChildStep
<1>3. UNCHANGED loopvars /\ UNCHANGED cp
  BY Zenon DEF ChildStep
<1>4. Same(Main)
  BY <1>0, <1>2, Zenon DEF Apart
<1>5. MainInv'
  BY <1>3, <1>4, Zenon DEF PairInv, MainInv, Same, loopvars
<1>6. \A d \in Core : Keeps(d)
  <2> SUFFICES ASSUME NEW d \in Core
               PROVE  Keeps(d)
    BY Zenon
  <2>1. Rendezvous(d)
    BY Zenon DEF PairInv
  <2>2. CASE d = c
    BY <1>2, <2>1, <2>2, MoveKeeps, Zenon
  <2>3. CASE d # c
    <3>1. Ping(d) \notin {Ping(c), Pong(c)} /\ Pong(d) \notin {Ping(c), Pong(c)}
      BY <2>3, Threads, Zenon
    <3>2. Same(Ping(d)) /\ Same(Pong(d))
      BY <1>2, <3>1, Threads, Zenon DEF Apart
    <3> QED
      BY <2>1, <3>2, StayKeeps, Zenon
  <2> QED
    BY <2>2, <2>3, Zenon
<1>7. \A d \in Core : Rendezvous(d)' /\ PairStage(d)'
  BY <1>3, <1>4, <1>6, StageKept, Zenon DEF PairInv, Keeps
<1> QED
  BY <1>1, <1>2, <1>5, <1>7, Zenon DEF PairInv

\* A tick finds no thread on its way to its synchronisation point.
LEMMA PairTick ==
  ASSUME PairInv, Tick
  PROVE  PairInv'
<1>0. /\ ObjectInv /\ StateInv /\ Main \in Thread /\ DOMAIN tcb = Thread
      /\ ~active[Main] /\ pc' = pc /\ caller' = caller /\ sc' = sc /\ cp' = cp
      /\ UNCHANGED loopvars
  BY PairObjects, Threads, Zenon DEF PairInv, StateInv, Tick
<1>1. CountInv'
  BY CountTick, Zenon DEF PairInv
<1>2. \/ tcb[Main] = WaitingOn(Main) /\ tcb' = [tcb EXCEPT ![Main] = Running] /\ active' = active
      \/ /\ tcb[Main] = Running /\ tcb' = tcb
         /\ active' = [active EXCEPT ![Main] = TRUE]
  BY <1>0, Waiters, States DEF Tick, Signal, SetState, PairInv, MainInv
<1>3. StateInv'
  BY <1>0, <1>2, ZenonT(90) DEF StateInv
<1>4. \A t \in Child : Same(t)
  BY <1>0, <1>2, Threads, Zenon DEF Same, StateInv
<1>5. tcb'[Main] = Running
  BY <1>0, <1>2, Zenon DEF StateInv
<1>6. MainInv'
  BY <1>0, <1>5, Zenon DEF PairInv, MainInv, loopvars
<1>7. \A c \in Core : Keeps(c)
  BY <1>4, StayKeeps, Threads, Zenon DEF PairInv
<1>8. \A c \in Core : PingAwake(c) /\ PongAwake(c) => PairPast(c)
  <2>1. \A t \in Child : ~Signalled(t)
    BY <1>0, ReadyIsRunning, Threads, Zenon DEF Tick, Underway, Signalled
  <2> QED
    BY <2>1, Threads, Zenon DEF PingAwake, PongAwake, PairPast
<1>9. \A c \in Core : PairStage(c)'
  <2> SUFFICES ASSUME NEW c \in Core
               PROVE  PairStage(c)'
    BY Zenon
  <2>1. pc'[Main] = pc[Main] /\ core_idx' = core_idx /\ it' = it /\ i' = i
    BY <1>0, Zenon DEF loopvars
  <2>2. Keeps(c) /\ (PingAwake(c) /\ PongAwake(c) => PairPast(c)')
    BY <1>7, <1>8, Zenon DEF Keeps
  <2>3. Current(c) => Current(c)'
    BY <2>1, <2>2, Zenon DEF Current, Keeps, Settled
  <2>4. Joined(c) => Joined(c)'
    BY <2>1, <2>2, <2>3, Zenon DEF Joined, Keeps
  <2>5. Resetting(c) => Resetting(c)'
    BY <2>1, <2>2, Zenon DEF Resetting, Keeps
  <2> QED
    BY <2>1, <2>2, <2>4, <2>5, Zenon DEF PairInv, PairStage, Keeps
<1> QED
  BY <1>1, <1>3, <1>6, <1>7, <1>9, Zenon DEF PairInv, Keeps

-----------------------------------------------------------------------------
(* The steps of main.                                                      *)

Measuring == {"read_start", "measure", "read_end", "total"}

\* Main goes on with the cores it has: only the pair of core_idx can change its
\* stage.
LEMMA MainGoesOn ==
  ASSUME PairInv, CountInv', StateInv', NEW k \in Core, k = core_idx, core_idx' = core_idx,
         NEW to \in MainLabel \ {"first_tick", "suspend_ping", "restore", "finished"},
         pc[Main] \notin {"suspend_ping", "restore", "finished"}, pc'[Main] = to,
         tcb'[Main] \in {Running, WaitingOn(Main)}, caller'[Main] = NoThread,
         to \notin Measuring => it' = 0,
         \A t \in Child : cp'[t] \in {"init", "sync"},
         \A c \in Core : c # k => Keeps(c),
         Rendezvous(k)', Current(k)'
  PROVE  PairInv'
<1>1. MainInv'
  BY Zenon DEF MainInv, Measuring
<1>2. \A c \in Core : c # k => PairStage(c)'
  <2> SUFFICES ASSUME NEW c \in Core, c # k
               PROVE  PairStage(c)'
    BY Zenon
  <2>1. Keeps(c) /\ Joined(c)
    BY Zenon DEF PairInv, PairStage
  <2>2. Joined(c)'
    BY <2>1, Zenon DEF Joined, Keeps
  <2> QED
    BY <2>2, Zenon DEF PairStage
<1>3. PairStage(k)'
  <2>1. ~(k < core_idx') /\ ~(k > core_idx')
    BY CoreNumbers
  <2> QED
    BY <2>1, Zenon DEF PairStage, Joined
<1> QED
  BY <1>1, <1>2, <1>3, Zenon DEF PairInv, Keeps

\* The facts that the steps of main share.
LEMMA MainFacts ==
  ASSUME PairInv, Executes(Main)
  PROVE  /\ ObjectInv /\ StateInv /\ TypeInv /\ CountInv
         /\ Main \in Thread /\ tcb[Main] = Running /\ caller[Main] = NoThread
         /\ core_idx \in Core /\ DOMAIN pc = Thread
         /\ \A c \in Core : Rendezvous(c) /\ PairStage(c)
         /\ pc[Main] \notin {"suspend_ping", "restore", "finished"}
              => Joined(core_idx) /\ Current(core_idx)
         /\ \A t \in Child : cp[t] \in {"init", "sync"}
<1>1. ObjectInv /\ StateInv /\ TypeInv /\ CountInv /\ Main \in Thread
  BY PairObjects, Threads, Zenon DEF PairInv, CountInv
<1>2. tcb[Main] = Running
  BY <1>1, ReadyIsRunning, Zenon DEF Executes
<1>3. core_idx \in Core /\ DOMAIN pc = Thread
  BY <1>1, Zenon DEF TypeInv
<1> QED
  BY <1>1, <1>2, <1>3, Zenon DEF PairInv, MainInv, PairStage, Joined

\* Main goes on and touches no other thread.
LEMMA MainAlone ==
  ASSUME PairInv, Executes(Main), CountInv', NEW to \in MainLabel,
         pc' = [pc EXCEPT ![Main] = to], UNCHANGED threadvars
  PROVE  /\ StateInv' /\ pc'[Main] = to /\ tcb'[Main] = Running /\ caller'[Main] = NoThread
         /\ active'[Main] = active[Main]
         /\ \A c \in Core : Keeps(c)
<1>1. /\ StateInv /\ Main \in Thread /\ DOMAIN pc = Thread /\ tcb[Main] = Running
      /\ caller[Main] = NoThread /\ \A c \in Core : Rendezvous(c)
  BY MainFacts, Zenon
<1>2. tcb' = tcb /\ active' = active /\ caller' = caller /\ sc' = sc
  BY Zenon DEF threadvars
<1>3. StateInv'
  BY <1>1, <1>2, Zenon DEF StateInv
<1>4. \A t \in Child : Same(t)
  BY <1>1, <1>2, Threads, Zenon DEF Same
<1>5. \A c \in Core : Keeps(c)
  BY <1>1, <1>4, StayKeeps, Threads, Zenon
<1> QED
  BY <1>1, <1>2, <1>3, <1>5, Zenon

\* The steps of PrepareCore that touch no other thread.
LEMMA PairSetPriority ==
  ASSUME ~MCS, PairInv, Executes(Main), CountInv', NEW to \in MainLabel,
         pc' = [pc EXCEPT ![Main] = to], UNCHANGED <<threadvars, loopvars>>,
         \/ pc[Main] = "prepare" /\ to = "resume_ping"
         \/ /\ pc[Main] \in {"yield_1", "yield_2", "lower", "passive", "checkpoint"}
            /\ to \in {"yield_2", "lower", "passive", "checkpoint", "wake_ping"},
         \A t \in Child : cp'[t] \in {"init", "sync"}
  PROVE  PairInv'
<1>1. /\ StateInv' /\ pc'[Main] = to /\ tcb'[Main] = Running /\ caller'[Main] = NoThread
      /\ \A c \in Core : Keeps(c)
  BY MainAlone, Zenon
<1>2. PICK k \in Core : k = core_idx
  BY MainFacts, Zenon
<1>3. Current(k)
  BY <1>2, MainFacts, Zenon
<1>4. Current(k)'
  BY <1>1, <1>3, Zenon DEF Current, Keeps, Settled
<1>5. it' = 0 /\ core_idx' = core_idx
  BY Zenon DEF loopvars, PairInv, MainInv
<1>6. Rendezvous(k)'
  BY <1>1, Zenon DEF Keeps
<1> QED
  BY <1>1, <1>2, <1>4, <1>5, <1>6, MainGoesOn, Zenon DEF MainLabel

\* Main resumes or signals a thread of the core that joins.
LEMMA MainTouches ==
  ASSUME PairInv, Executes(Main), NEW k \in Core, NEW t \in {Ping(k), Pong(k)},
         NEW to, pc' = [pc EXCEPT ![Main] = to], StateInv', caller' = caller,
         \A u \in Thread : u # t => tcb'[u] = tcb[u] /\ active'[u] = active[u]
  PROVE  /\ pc'[Main] = to /\ tcb'[Main] = Running /\ caller'[Main] = NoThread
         /\ pc'[t] = pc[t] /\ caller'[t] = caller[t]
         /\ \A u \in Child : u # t => Same(u)
         /\ \A c \in Core : c # k => Keeps(c)
<1>1. /\ StateInv /\ Main \in Thread /\ DOMAIN pc = Thread /\ tcb[Main] = Running
      /\ caller[Main] = NoThread /\ \A c \in Core : Rendezvous(c)
  BY MainFacts, Zenon
<1>2. t \in Child /\ t # Main
  BY Threads, Zenon
<1>3. \A u \in Child : u # t => Same(u)
  BY <1>1, <1>2, Threads, Zenon DEF Same
<1>4. \A c \in Core : c # k => Same(Ping(c)) /\ Same(Pong(c))
  BY <1>3, Threads, Zenon
<1>5. \A c \in Core : c # k => Keeps(c)
  BY <1>1, <1>4, StayKeeps, Zenon
<1> QED
  BY <1>1, <1>2, <1>3, <1>5, Threads, Zenon

\* seL4_TCB_Resume of a thread of the current core (ipc_throughput).
LEMMA PairResume ==
  ASSUME PairInv, Executes(Main), CountInv', NEW to \in MainLabel, NEW k \in Core, k = core_idx,
         NEW t \in {Ping(k), Pong(k)}, UNCHANGED <<active, caller, sc, cp, loopvars>>,
         pc' = [pc EXCEPT ![Main] = to], tcb' = [tcb EXCEPT ![t] = Running],
         \/ pc[Main] = "resume_ping" /\ to = "resume_pong" /\ t = Ping(k)
         \/ pc[Main] = "resume_pong" /\ to \in {"yield_1", "passive"} /\ t = Pong(k)
  PROVE  PairInv'
<1>1. StateInv /\ t \in Thread /\ tcb'[t] = Running /\ active'[t] = active[t] /\ Rendezvous(k)
  BY MainFacts, Threads, Zenon DEF StateInv
<1>2. StateInv' /\ \A u \in Thread : u # t => tcb'[u] = tcb[u] /\ active'[u] = active[u]
  BY <1>1, Zenon DEF StateInv
<1>3. /\ pc'[Main] = to /\ tcb'[Main] = Running /\ caller'[Main] = NoThread
      /\ pc'[t] = pc[t] /\ caller'[t] = caller[t]
      /\ \A u \in Child : u # t => Same(u)
      /\ \A c \in Core : c # k => Keeps(c)
  BY <1>2, MainTouches, Zenon
<1>4. Asleep(t) => Fresh(t)'
  BY <1>1, <1>3, Zenon DEF Asleep, Fresh
<1>5. \A u \in Child : u # t => (Asleep(u) => Asleep(u)') /\ (Fresh(u) => Fresh(u)')
  BY <1>3, Zenon DEF Same, Asleep, Fresh
<1>6. Current(k)
  BY MainFacts, Zenon
<1>7. Asleep(t)
  BY <1>6, Zenon DEF Current, PairAsleep
<1>8. Current(k)'
  BY <1>3, <1>4, <1>5, <1>6, Threads, Zenon DEF Current, PairAsleep, PairFresh, Settled
<1>9. Rendezvous(k)'
  BY <1>1, <1>3, <1>7, Threads, States, NoThreadAssumption, SMTT(90) DEF Rendezvous, Same, Asleep
<1>10. it' = 0 /\ core_idx' = core_idx /\ \A u \in Child : cp'[u] \in {"init", "sync"}
  BY Zenon DEF loopvars, PairInv, MainInv
<1> QED
  BY <1>2, <1>3, <1>8, <1>9, <1>10, MainGoesOn, Zenon DEF MainLabel

\* seL4_Signal of the notification of a thread of the current core
\* (ipc_throughput).
LEMMA PairWake ==
  ASSUME PairInv, Executes(Main), CountInv', NEW to \in MainLabel, NEW k \in Core, k = core_idx,
         NEW t \in {Ping(k), Pong(k)}, UNCHANGED <<caller, cp, loopvars>>,
         pc' = [pc EXCEPT ![Main] = to], Signal(t),
         sc' = [sc EXCEPT ![t] = IF @ = SyncNtfn(t[2]) /\ tcb[t] = WaitingOn(t) THEN t ELSE @],
         \/ pc[Main] = "wake_ping" /\ to = "wake_pong" /\ t = Ping(k)
         \/ pc[Main] = "wake_pong" /\ to = "tick" /\ t = Pong(k)
  PROVE  PairInv'
<1>1. ObjectInv /\ StateInv /\ t \in Thread /\ Rendezvous(k) /\ Current(k)
  BY MainFacts, Threads, Zenon
<1>2. sc' = sc
  BY <1>1, Zenon DEF StateInv
<1>3. \/ tcb[t] = WaitingOn(t) /\ tcb' = [tcb EXCEPT ![t] = Running] /\ active' = active
      \/ tcb[t] # WaitingOn(t) /\ tcb' = tcb /\ active' = [active EXCEPT ![t] = TRUE]
  BY <1>1, Waiters DEF Signal, SetState
<1>4. StateInv' /\ \A u \in Thread : u # t => tcb'[u] = tcb[u] /\ active'[u] = active[u]
  BY <1>1, <1>2, <1>3, Zenon DEF StateInv
<1>5. \/ tcb[t] = WaitingOn(t) /\ tcb'[t] = Running /\ active'[t] = active[t]
      \/ tcb[t] # WaitingOn(t) /\ tcb'[t] = tcb[t] /\ active'[t]
  BY <1>1, <1>3, Zenon DEF StateInv
<1>6. /\ pc'[Main] = to /\ tcb'[Main] = Running /\ caller'[Main] = NoThread
      /\ pc'[t] = pc[t] /\ caller'[t] = caller[t]
      /\ \A u \in Child : u # t => Same(u)
      /\ \A c \in Core : c # k => Keeps(c)
  BY <1>4, MainTouches, Zenon
<1>7. Fresh(t)
  BY <1>1, Zenon DEF Current, PairFresh
<1>8. /\ t = Ping(k) => PingAwake(k)'
      /\ t = Pong(k) => PongAwake(k)'
  <2>1. CASE tcb[t] = WaitingOn(t)
    <3>1. tcb'[t] = Running /\ pc'[t] = "loop" /\ ~active'[t]
      BY <1>5, <1>6, <1>7, <2>1, States, Zenon DEF Fresh
    <3> QED
      BY <3>1, Zenon DEF PingAwake, PongAwake, PingPast, PongPast
  <2>2. CASE tcb[t] # WaitingOn(t)
    <3>1. Signalled(t)'
      BY <1>5, <1>6, <1>7, <2>2, Zenon DEF Fresh, Signalled
    <3> QED
      BY <3>1, Zenon DEF PingAwake, PongAwake
  <2> QED
    BY <2>1, <2>2, Zenon
<1>9. \A u \in Child : u # t => (Fresh(u) => Fresh(u)')
  BY <1>6, Zenon DEF Same, Fresh
<1>10. t = Pong(k) => (PingAwake(k) => PingAwake(k)')
  BY <1>6, Threads, Zenon DEF Same, PingAwake, PingPast, Signalled
<1>11. Current(k)'
  BY <1>1, <1>6, <1>8, <1>9, <1>10, Threads, Zenon DEF Current, PairFresh, Settled
<1>12. Rendezvous(k)'
  BY <1>1, <1>5, <1>6, <1>7, Threads, States, NoThreadAssumption, SMTT(90) DEF Rendezvous, Same, Fresh
<1>13. it' = 0 /\ core_idx' = core_idx /\ \A u \in Child : cp'[u] \in {"init", "sync"}
  BY Zenon DEF loopvars, PairInv, MainInv
<1> QED
  BY <1>4, <1>6, <1>11, <1>12, <1>13, MainGoesOn, Zenon DEF MainLabel

\* Preparing a core keeps the invariant of the pairs.
LEMMA PairPrepare ==
  ASSUME ~MCS, PairInv, Executes(Main), PrepareCore
  PROVE  PairInv'
<1>0. PICK k \in Core : k = core_idx
  BY MainFacts, Zenon
<1>1. CountInv'
  BY CountPrepare, Zenon DEF PairInv
<1>2. \A t \in Child : cp[t] \in {"init", "sync"}
  BY MainFacts, Zenon
<1>3. CASE \E p : SetPriority("prepare", "resume_ping", p)
  BY <1>1, <1>2, <1>3, PairSetPriority, Zenon DEF SetPriority, Step, MainLabel
<1>4. CASE Resume("resume_ping", "resume_pong", Ping(core_idx))
  BY <1>0, <1>1, <1>4, PairResume, Zenon DEF Resume, Step, SetState, MainLabel
<1>5. CASE Resume("resume_pong", IF test = 0 THEN "yield_1" ELSE "passive", Pong(core_idx))
  BY <1>0, <1>1, <1>5, PairResume, Zenon DEF Resume, Step, SetState, MainLabel
<1>6. CASE Yield("yield_1", "yield_2") \/ Yield("yield_2", "lower")
  BY <1>1, <1>2, <1>6, PairSetPriority, Zenon DEF Yield, Step, MainLabel
<1>7. CASE \E p : SetPriority("lower", "passive", p)
  BY <1>1, <1>2, <1>7, PairSetPriority, Zenon DEF SetPriority, Step, MainLabel
<1>8. CASE MakePassive
  <2>1. sc' = sc
    <3>1. sc = [t \in Thread |-> t]
      BY MainFacts, Zenon DEF StateInv
    <3> QED
      BY <1>8, <3>1, Zenon DEF MakePassive
  <2> QED
    BY <1>1, <1>2, <1>8, <2>1, PairSetPriority, Zenon
       DEF MakePassive, Step, MainLabel, threadvars
<1>9. CASE Checkpoint
  <2>1. pc[Main] = "checkpoint"
    BY <1>9, Zenon DEF Checkpoint, Step
  <2>2. Fresh(Ping(core_idx)) /\ Fresh(Pong(core_idx))
    BY <2>1, MainFacts, Zenon DEF Current, PairFresh
  <2>3. \A t \in Child : cp'[t] \in {"init", "sync"}
    BY <1>2, <1>9, <2>2, Zenon DEF Checkpoint, PP, Fresh
  <2> QED
    BY <1>1, <1>9, <2>3, PairSetPriority, Zenon DEF Checkpoint, Step, MainLabel
<1>10. CASE Wake("wake_ping", "wake_pong", Ping(core_idx))
  BY <1>0, <1>1, <1>10, PairWake, Zenon DEF Wake, Step, MainLabel
<1>11. CASE Wake("wake_pong", "tick", Pong(core_idx))
  BY <1>0, <1>1, <1>11, PairWake, Zenon DEF Wake, Step, MainLabel
<1> QED
  BY <1>3, <1>4, <1>5, <1>6, <1>7, <1>8, <1>9, <1>10, <1>11, Zenon DEF PrepareCore

\* wait_for_benchmark: a tick taken after the last core joined finds all pairs
\* past their synchronisation points.
LEMMA PairWait ==
  ASSUME PairInv, Executes(Main), WaitForBenchmark
  PROVE  PairInv'
<1>0. PICK k \in Core : k = core_idx
  BY MainFacts, Zenon
<1>1. CountInv'
  BY CountWait, Zenon DEF PairInv
<1>2. PICK to \in MainLabel : /\ pc' = [pc EXCEPT ![Main] = to]
                              /\ \/ pc[Main] = "first_tick" /\ to = "prepare"
                                 \/ pc[Main] = "tick" /\ to = "read_start"
                                 \/ pc[Main] = "measure" /\ to = "read_end"
  BY Zenon DEF WaitForBenchmark, Step, MainLabel
<1>3. /\ StateInv /\ Main \in Thread /\ DOMAIN pc = Thread /\ tcb[Main] = Running
      /\ caller[Main] = NoThread /\ Rendezvous(k) /\ Current(k)
      /\ \A c \in Core : Rendezvous(c)
      /\ \A t \in Child : cp[t] \in {"init", "sync"}
  BY <1>0, <1>2, MainFacts, Zenon
<1>4. caller' = caller /\ sc' = sc /\ cp' = cp /\ UNCHANGED loopvars
  BY Zenon DEF WaitForBenchmark
<1>5. \/ active[Main] /\ active' = [active EXCEPT ![Main] = FALSE] /\ tcb' = tcb
      \/ ~active[Main] /\ active' = active /\ tcb' = [tcb EXCEPT ![Main] = WaitingOn(Main)]
  BY Zenon DEF WaitForBenchmark, Wait, SetState
<1>6. StateInv'
  BY <1>3, <1>4, <1>5, Zenon DEF StateInv
<1>7. \A t \in Child : Same(t)
  BY <1>2, <1>3, <1>4, <1>5, Threads, Zenon DEF Same, StateInv
<1>8. \A c \in Core : Keeps(c)
  BY <1>3, <1>7, StayKeeps, Threads, Zenon
<1>9. /\ pc'[Main] = to /\ ~active'[Main]
      /\ tcb'[Main] = IF active[Main] THEN Running ELSE WaitingOn(Main)
  BY <1>2, <1>3, <1>5, Zenon DEF StateInv
<1>10. /\ core_idx' = core_idx /\ it' = it
       /\ pc[Main] # "measure" => it = 0
  BY <1>2, <1>4, Zenon DEF loopvars, PairInv, MainInv
<1>11. Current(k)'
  <2>1. Settled' => pc[Main] = "measure" /\ active[Main]
    BY <1>2, <1>9, <1>10, States, SMTT(90) DEF Settled
  <2>2. Settled' => Settled
    BY <2>1, Zenon DEF Settled
  <2> QED
    BY <1>2, <1>3, <1>8, <1>9, <2>2, Zenon DEF Current, Keeps
<1>12. Rendezvous(k)'
  BY <1>8, Zenon DEF Keeps
<1> QED
  BY <1>0, <1>1, <1>2, <1>3, <1>4, <1>6, <1>8, <1>9, <1>10, <1>11, <1>12, MainGoesOn, Zenon
     DEF Measuring, MainLabel

\* Main's steps from one counter to the next leave the pairs alone.
LEMMA PairRead ==
  ASSUME PairInv, Executes(Main), CountInv', NEW to \in MainLabel,
         pc' = [pc EXCEPT ![Main] = to], UNCHANGED <<threadvars, cp, core_idx, it>>,
         \/ pc[Main] = "read_start" /\ to \in {"read_start", "measure"}
         \/ pc[Main] = "read_end" /\ to \in {"read_end", "total"}
  PROVE  PairInv'
<1>1. /\ StateInv' /\ pc'[Main] = to /\ tcb'[Main] = Running /\ caller'[Main] = NoThread
      /\ active'[Main] = active[Main]
      /\ \A c \in Core : Keeps(c)
  BY MainAlone, Zenon
<1>2. PICK k \in Core : k = core_idx
  BY MainFacts, Zenon
<1>3. Current(k) /\ tcb[Main] = Running /\ \A t \in Child : cp'[t] \in {"init", "sync"}
  BY <1>2, MainFacts, Zenon
<1>4. Settled' => Settled
  BY <1>1, <1>3, Zenon DEF Settled
<1>5. Current(k)'
  BY <1>1, <1>3, <1>4, Zenon DEF Current, Keeps
<1>6. Rendezvous(k)'
  BY <1>1, Zenon DEF Keeps
<1> QED
  BY <1>1, <1>2, <1>3, <1>5, <1>6, MainGoesOn, Zenon DEF MainLabel, Measuring

\* The first readings of the counters keep the invariant of the pairs.
LEMMA PairReadStart ==
  ASSUME PairInv, Executes(Main), ReadStart
  PROVE  PairInv'
<1>1. CountInv'
  BY CountReadStart, Zenon DEF PairInv
<1> QED
  BY <1>1, PairRead, Zenon DEF ReadStart, Step, MainLabel

\* The second readings of the counters keep the invariant of the pairs.
LEMMA PairReadEnd ==
  ASSUME PairInv, Executes(Main), ReadEnd
  PROVE  PairInv'
<1>1. CountInv'
  BY CountReadEnd, Zenon DEF PairInv
<1> QED
  BY <1>1, PairRead, Zenon DEF ReadEnd, Step, MainLabel

\* From the total main goes on to the same cores, the next core or the reset.
LEMMA PairNextSample ==
  ASSUME PairInv, Executes(Main), NextSample
  PROVE  PairInv'
<1>1. CountInv'
  BY CountNextSample DEF PairInv
<1>2. PICK to \in {"read_start", "prepare", "suspend_ping"} : pc' = [pc EXCEPT ![Main] = to]
  BY Zenon DEF NextSample, Step
<1>3. /\ StateInv' /\ pc'[Main] = to /\ tcb'[Main] = Running /\ caller'[Main] = NoThread
      /\ active'[Main] = active[Main]
      /\ \A c \in Core : Keeps(c)
  BY <1>1, <1>2, MainAlone, Zenon DEF NextSample, MainLabel
<1>4. /\ pc[Main] = "total" /\ TypeInv /\ Main \in Thread /\ DOMAIN pc = Thread
      /\ core_idx \in Core /\ it \in Nat /\ i = 0 /\ i' = 0
      /\ Joined(core_idx) /\ \A t \in Child : cp'[t] \in {"init", "sync"}
  BY MainFacts, Zenon DEF NextSample, Step, TypeInv, CountInv, LoopInv
<1>5. PairPast(core_idx)
  BY <1>4, CoreNumbers, Zenon DEF Joined, Current, Settled
<1>6. \A c \in Core : c < core_idx => PairPast(c)
  BY <1>4, MainFacts, Zenon DEF PairStage, Joined
<1>7. \A c \in Core : c > core_idx => PairAsleep(c)
  BY <1>4, MainFacts, Zenon DEF PairStage, Joined
<1>8. \/ /\ to = "read_start" /\ it' \in Nat /\ it' > 0 /\ core_idx' = core_idx
      \/ /\ to = "prepare" /\ it' = 0 /\ core_idx' = core_idx + 1 /\ core_idx' \in Core
      \/ /\ to = "suspend_ping" /\ it' = 0 /\ core_idx' = 0 /\ core_idx = Cores - 1
  <2>1. it' \in Nat /\ core_idx' \in Core
    BY <1>1, Zenon DEF CountInv, TypeInv
  <2>2. CASE it' # 0
    BY <1>3, <1>4, <2>1, <2>2 DEF NextSample, Step
  <2>3. CASE it' = 0
    <3>1. core_idx' = (core_idx + 1) % Cores
      BY <2>3, Zenon DEF NextSample
    <3>2. (core_idx + 1) % Cores = IF core_idx = Cores - 1 THEN 0 ELSE core_idx + 1
      BY <1>4, CoreNumbers
    <3>3. core_idx' = 0 => to = "suspend_ping"
      BY <1>3, <1>4, <2>3, Zenon DEF NextSample, Step
    <3>4. core_idx' # 0 => to = "prepare"
      BY <1>3, <1>4, <2>3, Zenon DEF NextSample, Step
    <3> QED
      BY <1>4, <2>1, <2>3, <3>1, <3>2, <3>3, <3>4, CoreNumbers
  <2> QED
    BY <2>2, <2>3, Zenon
<1>9. MainInv'
  BY <1>2, <1>3, <1>4, <1>8, Zenon DEF MainInv
<1>10. \A c \in Core : PairStage(c)'
  <2> SUFFICES ASSUME NEW c \in Core
               PROVE  PairStage(c)'
    BY Zenon
  <2>0. c \in Nat /\ core_idx \in Nat /\ c < Cores /\ Cores \in Nat
    BY <1>4, CoreNumbers, Zenon
  <2>1. Keeps(c) /\ (PairPast(c) => PairPast(c)') /\ (PairAsleep(c) => PairAsleep(c)')
    BY <1>3, Zenon DEF Keeps
  <2>2. CASE to = "read_start"
    <3>1. c = core_idx => Current(c)'
      BY <1>3, <1>5, <1>8, <2>1, <2>2, Zenon
         DEF Current, Settled, PairPast, PingAwake, PongAwake
    <3>2. Joined(c)'
      BY <1>6, <1>7, <1>8, <2>1, <2>2, <3>1, Zenon DEF Joined
    <3> QED
      BY <1>3, <2>2, <3>2, Zenon DEF PairStage
  <2>3. CASE to = "prepare"
    <3>1. PairAsleep(c)' => Current(c)'
      BY <1>3, <2>3, Zenon DEF Current, Settled
    <3>2. /\ c < core_idx + 1 => PairPast(c)'
          /\ c >= core_idx + 1 => PairAsleep(c)'
      BY <1>5, <1>6, <1>7, <2>0, <2>1
    <3>3. Joined(c)'
      BY <1>8, <2>0, <2>3, <3>1, <3>2 DEF Joined
    <3> QED
      BY <1>3, <2>3, <3>3, Zenon DEF PairStage
  <2>4. CASE to = "suspend_ping"
    <3>1. PairPast(c)'
      BY <1>5, <1>6, <1>8, <2>0, <2>1, <2>4
    <3>2. Resetting(c)'
      BY <1>3, <1>4, <2>0, <2>4, <3>1 DEF Resetting
    <3> QED
      BY <1>3, <2>4, <3>2, Zenon DEF PairStage
  <2> QED
    BY <2>2, <2>3, <2>4, Zenon
<1> QED
  BY <1>1, <1>3, <1>9, <1>10, Zenon DEF PairInv, Keeps

\* Suspending ping (reset_test) withdraws its call and the reply pong owes.
LEMMA PairSuspend ==
  ASSUME PairInv, Executes(Main), SuspendPing
  PROVE  PairInv'
<1>1. CountInv'
  BY CountSuspend, Zenon DEF PairInv
<1>2. PICK k \in Core : k = i
  BY MainFacts, Zenon DEF TypeInv
<1>3. /\ pc[Main] = "suspend_ping" /\ pc' = [pc EXCEPT ![Main] = "restore"]
      /\ tcb' = [tcb EXCEPT ![Ping(k)] = Inactive]
      /\ caller' = [s \in DOMAIN caller |-> IF caller[s] = Ping(k) THEN NoThread ELSE caller[s]]
      /\ active' = active /\ sc' = sc /\ cp' = cp /\ UNCHANGED loopvars
  BY <1>2, Zenon DEF SuspendPing, Step, Suspend, CancelIpc, SetState
<1>4. /\ StateInv /\ Main \in Thread /\ DOMAIN pc = Thread /\ tcb[Main] = Running
      /\ caller[Main] = NoThread
      /\ \A c \in Core : Rendezvous(c) /\ PairStage(c)
      /\ \A t \in Child : cp[t] \in {"init", "sync"}
  BY MainFacts, Zenon
<1>5. StateInv'
  BY <1>3, <1>4, Zenon DEF StateInv
<1>6. \A c \in Core : c # k => Same(Ping(c)) /\ Same(Pong(c))
  <2> SUFFICES ASSUME NEW c \in Core, c # k
               PROVE  Same(Ping(c)) /\ Same(Pong(c))
    BY Zenon
  <2>1. /\ Ping(c) \in Thread /\ Pong(c) \in Thread /\ Main \notin {Ping(c), Pong(c)}
        /\ Ping(k) \notin {Ping(c), Pong(c)}
    BY Threads, Zenon
  <2>2. caller[Ping(c)] = NoThread /\ caller[Pong(c)] \in {Ping(c), NoThread}
    BY <1>4, Zenon DEF Rendezvous
  <2> QED
    BY <1>3, <1>4, <2>1, <2>2, Zenon DEF Same, StateInv
<1>7. /\ tcb'[Ping(k)] = Inactive /\ active'[Ping(k)] = active[Ping(k)]
      /\ tcb'[Pong(k)] = tcb[Pong(k)] /\ pc'[Pong(k)] = pc[Pong(k)]
      /\ active'[Pong(k)] = active[Pong(k)]
      /\ caller'[Pong(k)] = NoThread /\ caller'[Ping(k)] = NoThread
  BY <1>3, <1>4, Threads, Zenon DEF StateInv, Rendezvous
<1>8. pc'[Main] = "restore" /\ tcb'[Main] = Running /\ caller'[Main] = NoThread
  BY <1>3, <1>4, Threads, NoThreadAssumption, Zenon DEF StateInv
<1>9. MainInv'
  BY <1>3, <1>4, <1>8, Zenon DEF PairInv, MainInv, loopvars
<1>10. PairPast(k)
  BY <1>2, <1>3, <1>4, Zenon DEF PairStage, Resetting
<1>11. PingGone(k)' /\ Rendezvous(k)'
  BY <1>4, <1>7, <1>10, States, Threads, NoThreadAssumption, SMTT(90)
     DEF PairPast, PingPast, PongPast, PingGone, Rendezvous
<1>12. \A c \in Core : c # k => Keeps(c)
  BY <1>4, <1>6, StayKeeps, Zenon
<1>13. \A c \in Core : Resetting(c)'
  <2>1. i' = i /\ k = i /\ pc[Main] = "suspend_ping" /\ pc'[Main] = "restore"
    BY <1>2, <1>3, <1>8, Zenon DEF loopvars
  <2> SUFFICES ASSUME NEW c \in Core
               PROVE  Resetting(c)'
    BY Zenon
  <2>2. Resetting(c)
    BY <1>4, <2>1, Zenon DEF PairStage
  <2>3. CASE c = k
    BY <1>11, <2>1, <2>3, CoreNumbers DEF Resetting
  <2>4. CASE c # k
    BY <1>12, <2>1, <2>2, <2>4, Zenon DEF Resetting, Keeps
  <2> QED
    BY <2>3, <2>4, Zenon
<1> QED
  BY <1>1, <1>5, <1>8, <1>9, <1>11, <1>12, <1>13, Zenon DEF PairInv, PairStage, Keeps

\* Restoring the checkpoint of a core (reset_test) puts its pair to sleep.
LEMMA PairRestore ==
  ASSUME PairInv, Executes(Main), Restore
  PROVE  PairInv'
<1>1. CountInv'
  BY CountRestore DEF PairInv
<1>2. PICK k \in Core : k = i
  BY MainFacts, Zenon DEF TypeInv
<1>3. /\ pc[Main] = "restore"
      /\ tcb' = [tcb EXCEPT ![Pong(k)] = Inactive]
      /\ caller' = [s \in DOMAIN caller |-> IF caller[s] = Pong(k) THEN NoThread ELSE caller[s]]
      /\ sc' = [sc EXCEPT ![Ping(k)] = Ping(k), ![Pong(k)] = Pong(k)]
      /\ active' = active /\ cp' = cp /\ core_idx' = core_idx /\ it' = it
      /\ i' = (k + 1) % Cores
  BY <1>2, Zenon DEF Restore, CancelIpc, SetState
<1>4. /\ StateInv /\ Main \in Thread /\ DOMAIN pc = Thread /\ tcb[Main] = Running
      /\ caller[Main] = NoThread
      /\ \A c \in Core : Rendezvous(c) /\ PairStage(c)
      /\ \A t \in Child : cp[t] \in {"init", "sync"}
  BY MainFacts, Zenon
<1>5. sc' = sc
  BY <1>3, <1>4, Threads, Zenon DEF StateInv
<1>6. StateInv'
  BY <1>3, <1>4, <1>5, Zenon DEF StateInv
<1>7. /\ pc'[Main] = IF i' # 0 THEN "suspend_ping"
                     ELSE IF test' < Tests THEN "prepare" ELSE "finished"
      /\ pc'[Ping(k)] = cp[Ping(k)] /\ pc'[Pong(k)] = cp[Pong(k)]
      /\ \A t \in Child : t \notin {Ping(k), Pong(k)} => pc'[t] = pc[t]
  BY <1>2, Threads, Zenon DEF Restore
<1>8. \A c \in Core : c # k => Same(Ping(c)) /\ Same(Pong(c))
  BY <1>3, <1>4, <1>7, Threads DEF Same, StateInv, Rendezvous
<1>9. PingGone(k)
  BY <1>2, <1>3, <1>4, Zenon DEF PairStage, Resetting
<1>10. /\ tcb'[Ping(k)] = Inactive /\ tcb'[Pong(k)] = Inactive
       /\ ~active'[Ping(k)] /\ ~active'[Pong(k)]
       /\ caller'[Ping(k)] = NoThread /\ caller'[Pong(k)] = NoThread
  BY <1>3, <1>4, <1>9, Threads, Zenon DEF PingGone, PongPast, StateInv, Rendezvous
<1>11. PairAsleep(k)' /\ Rendezvous(k)'
  <2>1. pc'[Ping(k)] \in {"init", "sync"} /\ pc'[Pong(k)] \in {"init", "sync"}
    BY <1>4, <1>7, Threads, Zenon
  <2> QED
    BY <1>10, <2>1, States, Threads, NoThreadAssumption, Zenon
       DEF PairAsleep, Asleep, Rendezvous
<1>12. \A c \in Core : c # k => Keeps(c)
  BY <1>4, <1>8, StayKeeps, Zenon
<1>13. tcb'[Main] = Running /\ caller'[Main] = NoThread
  BY <1>3, <1>4, Threads, Zenon DEF StateInv
<1>14. core_idx = 0 /\ it = 0
  BY <1>3, Zenon DEF PairInv, MainInv
<1>15. MainInv'
  BY <1>3, <1>4, <1>13, <1>14, Zenon DEF MainInv
<1>16. i' = IF k = Cores - 1 THEN 0 ELSE k + 1
  BY <1>3, CoreNumbers
<1>17. \A c \in Core : PairStage(c)'
  <2> SUFFICES ASSUME NEW c \in Core
               PROVE  PairStage(c)'
    BY Zenon
  <2>0. c \in Nat /\ k \in Nat /\ c < Cores /\ k < Cores /\ Cores \in Nat
    BY CoreNumbers, Zenon
  <2>1. /\ c < k => PairAsleep(c)
        /\ c > k => PairPast(c)
    BY <1>2, <1>3, <1>4, Zenon DEF PairStage, Resetting
  <2>2. /\ c <= k => PairAsleep(c)'
        /\ c > k => PairPast(c)'
    BY <1>11, <1>12, <2>0, <2>1 DEF Keeps
  <2>3. CASE k = Cores - 1
    <3>1. PairAsleep(c)' /\ pc'[Main] \in {"prepare", "finished"}
      BY <1>7, <1>16, <2>0, <2>2, <2>3
    <3>2. ~(c < core_idx')
      BY <1>3, <1>14, <2>0
    <3> QED
      BY <3>1, <3>2, Zenon DEF PairStage, Joined, Current, Settled
  <2>4. CASE k # Cores - 1
    <3>1. i' = k + 1 /\ pc'[Main] = "suspend_ping"
      BY <1>7, <1>16, <2>0, <2>4
    <3>2. Resetting(c)'
      BY <2>0, <2>2, <3>1 DEF Resetting
    <3> QED
      BY <3>1, <3>2, Zenon DEF PairStage
  <2> QED
    BY <2>3, <2>4, Zenon
<1> QED
  BY <1>1, <1>6, <1>11, <1>12, <1>15, <1>17, Zenon DEF PairInv, Keeps

\* At boot all pairs are asleep.
LEMMA PairInit ==
  ASSUME Init
  PROVE  PairInv
<1> USE DEF Init
<1>1. CountInv
  BY CountInit, Zenon
<1>2. StateInv
  BY Zenon DEF StateInv
<1>3. /\ pc[Main] = "first_tick" /\ tcb[Main] = Running /\ caller[Main] = NoThread
      /\ core_idx = 0 /\ it = 0 /\ ~active[Main]
  BY Threads, Zenon
<1>4. MainInv
  BY <1>3, Zenon DEF MainInv
<1>5. \A t \in Child : Asleep(t) /\ caller[t] = NoThread
  BY Threads, Zenon DEF Asleep
<1>6. \A c \in Core : PairAsleep(c) /\ Rendezvous(c)
  BY <1>5, Threads, States, NoThreadAssumption, Zenon DEF PairAsleep, Asleep, Rendezvous
<1>7. \A c \in Core : PairStage(c)
  BY <1>3, <1>6, CoreNumbers DEF PairStage, Joined, Current, Settled
<1> QED
  BY <1>1, <1>2, <1>4, <1>6, <1>7, Zenon DEF PairInv

\* A step that changes nothing keeps the invariant of the pairs.
LEMMA PairStutter ==
  ASSUME PairInv, UNCHANGED vars
  PROVE  PairInv'
<1>1. CountInv'
  BY CountStutter, Zenon DEF PairInv
<1>2. /\ tcb' = tcb /\ pc' = pc /\ active' = active /\ caller' = caller /\ sc' = sc
      /\ cp' = cp /\ UNCHANGED loopvars
  BY Zenon DEF vars
<1>3. \A c \in Core : Keeps(c)
  BY <1>2, StayKeeps, Zenon DEF PairInv, Same
<1>4. \A c \in Core : PairStage(c)'
  BY <1>2, <1>3, StageKept, Zenon DEF PairInv, Same
<1>5. StateInv' /\ MainInv'
  BY <1>2, Zenon DEF PairInv, StateInv, MainInv, loopvars
<1> QED
  BY <1>1, <1>3, <1>4, <1>5, Zenon DEF PairInv, Keeps

\* Every step of main, the timer and the pairs keeps the invariant of the pairs.
LEMMA PairNext ==
  ASSUME ~MCS, PairInv, [Next]_vars
  PROVE  PairInv'
BY PairPrepare, PairWait, PairSuspend, PairChild, PairTick, PairReadStart, PairReadEnd,
   PairNextSample, PairRestore, PairStutter, Zenon DEF Next, MainStep, Done

\* Whatever the places of the two, one of them runs.
LEMMA PairNotStuck == PairInv => NoPairIsStuck
<1> SUFFICES ASSUME PairInv, pc[Main] \in {"read_start", "read_end", "total"},
                    NEW c \in 0..core_idx
             PROVE  Ready(Ping(c)) \/ Ready(Pong(c))
  BY Zenon DEF NoPairIsStuck
<1>1. StateInv /\ core_idx \in Core
  BY Zenon DEF PairInv, CountInv, TypeInv
<1>2. c \in Core /\ c \in Nat /\ core_idx \in Nat /\ c <= core_idx
  BY <1>1, CoreNumbers
<1>3. Rendezvous(c) /\ Joined(c)
  BY <1>2, Zenon DEF PairInv, PairStage
<1>4. PingAwake(c) /\ PongAwake(c)
  BY <1>2, <1>3 DEF Joined, Current, PairPast, PingAwake, PongAwake
<1>5. tcb[Ping(c)] = Running \/ tcb[Pong(c)] = Running
  BY <1>3, <1>4, States, Zenon DEF PingAwake, PongAwake, Signalled, PingPast, PongPast,
     Rendezvous
<1> QED
  BY <1>1, <1>2, <1>5, ReadyIsRunning, Threads, Zenon

(***************************************************************************)
(* While main measures, ping or pong of every core that has joined can     *)
(* run, in every test and after every reset_test: for every number of      *)
(* cores, tests and runs, on a kernel without scheduling contexts (on an   *)
(* MCS kernel the pair of a core other than main's can be stuck, since     *)
(* pong need not wait when it is made passive).                            *)
(***************************************************************************)
THEOREM PairsRun == ~MCS => (Spec => []NoPairIsStuck)
<1> SUFFICES ASSUME ~MCS PROVE Spec => []NoPairIsStuck
  BY Zenon
<1>1. Init => PairInv
  BY PairInit, Zenon
<1>2. PairInv /\ [Next]_vars => PairInv'
  BY PairNext, Zenon
<1>3. PairInv => NoPairIsStuck
  BY PairNotStuck, Zenon
<1> QED
  BY <1>1, <1>2, <1>3, PTL DEF Spec

=============================================================================
