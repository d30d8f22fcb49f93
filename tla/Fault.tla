-------------------------------- MODULE Fault --------------------------------
(***************************************************************************)
(* src/apps/fault: six benchmarks in which a faulter executes undefined    *)
(* instructions and a handler of lower priority replies to the fault       *)
(* messages with the address at which to go on.  The handler is passive on *)
(* an MCS kernel while the faulter runs.                                   *)
(*                                                                         *)
(* The cycle counter counts kernel entries.  An instruction address is the *)
(* pc label of a fault() in the faulter's program: a thread blocked on its *)
(* fault keeps its pc there, and the reply moves it.                       *)
(***************************************************************************)
EXTENDS Rpc, Sequences

CONSTANTS
  Runs,      \* N_RUNS
  Ignored,   \* N_IGNORED
  Width      \* bits of a ccnt_t

VARIABLES
  mcs,         \* CONFIG_KERNEL_MCS
  bench,       \* the current benchmark, from 1
  iter,        \* child -> iterations of its loop that are complete
  start,       \* the stamp a sample is measured from
  sample,      \* the last sample
  ip,          \* the handler's copy of the faulter's instruction pointer
  clock        \* the cycle counter

vars == <<tcb, pc, active, caller, sc, mcs, bench, iter, start, sample, ip, clock>>

Main == "main"
Faulter == "faulter"
Handler == "handler"
Child == {Faulter, Handler}
Thread == Child \cup {Main}
FaultEp == "fault_endpoint"
DoneEp == "done_ep"

\* The first sample may be off, so it has to be ignored; a stamp must tell the two
\* kernel entries of a round trip apart.
FaultAssumption ==
  /\ Runs \in Nat /\ Ignored \in 1..Runs - 1
  /\ Width \in Nat /\ 2^Width \in Nat /\ 2^Width > 2
  /\ NoThread \notin Thread

\* benchmark_configure_thread of the children.
prio == [t \in Thread |-> CASE t = Handler -> 0 [] t = Faulter -> 1 [] t = Main -> 2]

\* A faulter function: a fault before the loop?, passes of the loop, a fault after
\* it?; which of the loops stamp and sample.
Faults(first, loops, last, stamps, samples) ==
  [first |-> first, loops |-> loops, last |-> last, stamps |-> stamps, samples |-> samples]
Handles(loops, stamps, samples) == [loops |-> loops, stamps |-> stamps, samples |-> samples]

\* Mutant: as many faults as samples.
measure_fault_fn_OneLess == Faults(FALSE, Runs, FALSE, TRUE, FALSE)

measure_fault_fn == Faults(FALSE, Runs + 1, FALSE, TRUE, FALSE)

measure_fault_handler_fn == Handles(Runs, FALSE, TRUE)

measure_fault_handler_fn_ep == Handles(Runs, FALSE, TRUE)

measure_fault_reply_fn == Faults(TRUE, Runs + 1, FALSE, FALSE, TRUE)

measure_fault_reply_fn_ep == Faults(TRUE, Runs, TRUE, FALSE, TRUE)

\* Mutant: one pass too few.
measure_fault_reply_handler_fn_Short == Handles(Runs, TRUE, FALSE)

measure_fault_reply_handler_fn == Handles(Runs + 1, TRUE, FALSE)

measure_fault_roundtrip_fn == Faults(FALSE, Runs + 1, FALSE, TRUE, TRUE)

measure_fault_roundtrip_fn_ep == Faults(FALSE, Runs, TRUE, TRUE, TRUE)

measure_fault_roundtrip_handler_fn == Handles(Runs, FALSE, FALSE)

\* The pairs of run_fault_benchmark and the kernel entries that each measures.
Pair(f, h, legs) == [f |-> f, h |-> h, legs |-> legs]
run_fault_benchmark ==
  << Pair(measure_fault_fn, measure_fault_handler_fn, 1),
     Pair(measure_fault_fn, measure_fault_handler_fn_ep, 1),
     Pair(measure_fault_reply_fn, measure_fault_reply_handler_fn, 1),
     Pair(measure_fault_reply_fn_ep, measure_fault_reply_handler_fn, 1),
     Pair(measure_fault_roundtrip_fn, measure_fault_roundtrip_handler_fn, 2),
     Pair(measure_fault_roundtrip_fn_ep, measure_fault_roundtrip_handler_fn, 2) >>

faulter_fn == run_fault_benchmark[bench].f
handler_fn == run_fault_benchmark[bench].h

Init ==
  /\ mcs \in BOOLEAN
  /\ tcb = [t \in Thread |-> IF t = Main THEN Running ELSE Inactive]
  /\ pc = [t \in Thread |-> IF t = Main THEN "start_handler" ELSE "off"]
  /\ active = [n \in {} |-> FALSE]
  /\ caller = [t \in Thread |-> NoThread]
  /\ sc = [t \in Thread |-> t]
  /\ bench = 1
  /\ iter = [t \in Child |-> 0]
  /\ start = 0 /\ sample = 0
  /\ ip = "off"
  /\ clock \in 0..2^Width - 1

-----------------------------------------------------------------------------
(* The children.                                                           *)

Tick == clock' = (clock + 1) % 2^Width
Sample == sample' = (clock - start) % 2^Width
Stamp(really) == start' = IF really THEN clock ELSE start

\* Mutant: the message register is read after the first fault only.
FaultMessage_ReadOnce ==
  ip' = IF caller'[Handler] = Faulter /\ ip = "off" THEN pc[Faulter] ELSE ip

\* A fault message tells the handler where the faulter is.
FaultMessage == ip' = IF caller'[Handler] = Faulter THEN pc[Faulter] ELSE ip

\* ip += UD_INSTRUCTION_SIZE
Resume == [first |-> "loop", fault |-> "sample", last |-> "done", return |-> "return"]

Fault(site) ==
  /\ pc[Faulter] = site
  /\ Call(Faulter, FaultEp)
  /\ FaultMessage
  /\ Tick
  /\ UNCHANGED <<pc, iter, start, sample>>

\* A faulter function.  At its end it returns to nowhere, which is a fault again.
FaulterStep ==
  \/ \E site \in {"first", "fault", "last", "return"} : Fault(site)
  \/ /\ iter[Faulter] < faulter_fn.loops
     /\ Step(Faulter, "loop", "fault")
     /\ Stamp(faulter_fn.stamps)
     /\ UNCHANGED <<tcb, active, caller, sc, iter, sample, ip, clock>>
  \/ /\ Step(Faulter, "sample", "loop")
     /\ IF faulter_fn.samples THEN Sample ELSE UNCHANGED sample
     /\ iter' = [iter EXCEPT ![Faulter] = @ + 1]
     /\ UNCHANGED <<tcb, active, caller, sc, start, ip, clock>>
  \/ /\ iter[Faulter] = faulter_fn.loops
     /\ Step(Faulter, "loop", IF faulter_fn.last THEN "last" ELSE "done")
     /\ UNCHANGED <<tcb, active, caller, sc, iter, start, sample, ip, clock>>
  \/ /\ Step(Faulter, "done", "return")
     /\ Send(Faulter, DoneEp)
     /\ Tick
     /\ UNCHANGED <<caller, sc, iter, start, sample, ip>>

fault_handler_start ==
  /\ Step(Handler, "begin", "loop")
  /\ IF mcs THEN NBSendRecv(Handler, DoneEp, FaultEp) ELSE RecvCall(Handler, FaultEp)
  /\ FaultMessage
  /\ Tick
  /\ UNCHANGED <<iter, start, sample>>

\* A reply to the pending fault, by ReplyRecv or by Reply.
ReplyToFault(from, to) ==
  /\ pc[Handler] = from
  /\ pc' = [pc EXCEPT ![Handler] = to, ![Faulter] = IF Owes(Handler) THEN Resume[ip] ELSE @]
  /\ Tick
  /\ UNCHANGED <<start, sample>>

fault_handler_done ==
  \/ /\ iter[Handler] = handler_fn.loops
     /\ ReplyToFault("loop", "send")
     /\ Reply(Handler)
     /\ UNCHANGED <<iter, ip>>
  \/ /\ Step(Handler, "send", "block")
     /\ Send(Handler, DoneEp)
     /\ Tick
     /\ UNCHANGED <<caller, sc, iter, start, sample, ip>>
  \/ /\ Step(Handler, "block", "off")
     /\ RecvCall(Handler, FaultEp)
     /\ Tick
     /\ UNCHANGED <<iter, start, sample, ip>>

HandlerStep ==
  \/ fault_handler_start
  \/ /\ iter[Handler] < handler_fn.loops
     /\ Step(Handler, "loop", "reply")
     /\ Stamp(handler_fn.stamps)
     /\ UNCHANGED <<tcb, active, caller, sc, iter, sample, ip, clock>>
  \/ /\ ReplyToFault("reply", "sample")
     /\ ReplyRecv(Handler, FaultEp)
     /\ FaultMessage
     /\ UNCHANGED iter
  \/ /\ Step(Handler, "sample", "loop")
     /\ IF handler_fn.samples THEN Sample ELSE UNCHANGED sample
     /\ iter' = [iter EXCEPT ![Handler] = @ + 1]
     /\ UNCHANGED <<tcb, active, caller, sc, start, ip, clock>>
  \/ fault_handler_done

ChildStep(t) ==
  /\ Scheduled(t, prio)
  /\ \/ t = Faulter /\ FaulterStep
     \/ t = Handler /\ HandlerStep
  /\ UNCHANGED <<mcs, bench>>

-----------------------------------------------------------------------------
(* run_benchmark, the main thread.                                         *)

Kept == <<start, sample, ip, clock, mcs>>

StartHandler ==
  /\ pc[Main] = "start_handler"
  /\ pc' = [pc EXCEPT ![Handler] = "begin", ![Main] = IF mcs THEN "wait_init" ELSE "start_faulter"]
  /\ SetState(Handler, Running)
  /\ iter' = [iter EXCEPT ![Handler] = 0]
  /\ UNCHANGED <<active, caller, sc, bench>>

StartFaulter ==
  /\ pc[Main] = "start_faulter"
  /\ pc' = [pc EXCEPT ![Faulter] = IF faulter_fn.first THEN "first" ELSE "loop",
                      ![Main] = "wait_faulter"]
  /\ SetState(Faulter, Running)
  /\ iter' = [iter EXCEPT ![Faulter] = 0]
  /\ UNCHANGED <<active, caller, sc, bench>>

WaitChild ==
  /\ \/ Step(Main, "wait_init", "unbind")
     \/ Step(Main, "wait_faulter", IF mcs THEN "bind" ELSE "wait_handler")
     \/ Step(Main, "wait_handler", "suspend_faulter")
  /\ Recv(Main, DoneEp)
  /\ UNCHANGED <<caller, sc, iter, bench>>

\* Convert the fault handler to passive, and to active.
ConvertHandler ==
  /\ \/ Step(Main, "unbind", "start_faulter") /\ UnbindSc(Handler)
     \/ Step(Main, "bind", "wait_handler") /\ BindSc(Handler)
  /\ UNCHANGED <<iter, bench>>

SuspendChild ==
  /\ \/ /\ pc[Main] = "suspend_faulter"
        /\ pc' = [pc EXCEPT ![Faulter] = "off", ![Main] = "suspend_handler"]
        /\ Suspend(Faulter)
        /\ UNCHANGED bench
     \/ /\ pc[Main] = "suspend_handler"
        /\ bench' = bench + 1
        /\ pc' = [pc EXCEPT ![Handler] = "off",
                            ![Main] = IF bench' <= Len(run_fault_benchmark) THEN "start_handler"
                                      ELSE "finished"]
        /\ Suspend(Handler)
  /\ UNCHANGED iter

run_benchmark ==
  /\ Scheduled(Main, prio)
  /\ StartHandler \/ StartFaulter \/ WaitChild \/ ConvertHandler \/ SuspendChild
  /\ UNCHANGED Kept

AtEnd == pc[Main] = "finished"

Finished == AtEnd /\ UNCHANGED vars

Next ==
  \/ run_benchmark
  \/ \E t \in Child : ChildStep(t)
  \/ Finished

Spec == Init /\ [][Next]_vars
FairSpec == Spec /\ WF_vars(Next)

-----------------------------------------------------------------------------
(* Properties.                                                             *)

\* Every sample that is reported spans the kernel entries it is named after: one for
\* the way to the handler or back, two for the round trip.  It is never measured from
\* a stale start, which the two threads share without a lock.  Only sample N_RUNS,
\* which fault.h says is ignored, may be, and only the first sample may include the
\* handler's start.
SampleIsOneLeg ==
  \A t \in Child :
    pc[t] = "loop" /\ iter[t] \in Ignored + 1..Runs
        /\ (IF t = Faulter THEN faulter_fn.samples ELSE handler_fn.samples)
      => sample = run_fault_benchmark[bench].legs

\* A reply makes the faulter go on right behind the instruction that faulted, in
\* functions with more than one of them too: the address the handler keeps between
\* two system calls is that of the fault it replies to.
ResumesBehindFault ==
  [][tcb[Faulter] = AwaitingReply /\ tcb'[Faulter] = Running
       => pc'[Faulter] = Resume[pc[Faulter]]]_vars

Stage(t) ==
  CASE pc[Main] \in {"start_handler", "finished"} -> "idle"
    [] pc[Main] \in {"wait_init", "unbind", "start_faulter"} /\ t = Faulter -> "idle"
    [] OTHER -> IF pc[t] \in {"return", "block", "off"} THEN "done" ELSE "busy"

FJ == INSTANCE ForkJoin WITH
        Rounds <- Len(run_fault_benchmark), round <- bench - 1,
        stage <- [t \in Child |-> Stage(t)]

\* run_benchmark starts both threads once, waits until both are done, and gets
\* through all six pairs: in each of them the handler replies to exactly as many
\* faults as the faulter raises, and it can run whenever it has to, passive or not.
RunsAllBenchmarks == FJ!Promise

=============================================================================
