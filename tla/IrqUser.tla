------------------------------- MODULE IrqUser -------------------------------
(***************************************************************************)
(* src/apps/irquser: a spinner keeps writing the cycle counter to a shared *)
(* variable; a ticker of higher priority waits for the interrupts of a     *)
(* periodic timer and measures from the spinner's last write.  Four phases *)
(* one after the other, with the spinner in the same and in another        *)
(* address space, and with late and early processing.                      *)
(*                                                                         *)
(* Time is discrete: a step of a child takes one cycle, an interrupt       *)
(* Latency cycles, a step of main an unknown time of up to a period.  The  *)
(* timer fires every Period cycles.  The interrupt is masked until the     *)
(* ticker acknowledges it, and one that comes meanwhile is kept back.      *)
(***************************************************************************)
EXTENDS Kernel

CONSTANTS
  Runs,        \* N_RUNS
  Ignored,     \* N_IGNORED
  Period,      \* INTERRUPT_PERIOD_NS, in cycles
  Latency,     \* from an interrupt to the first instruction after it
  WordBits,    \* seL4_WordBits
  CcntBits     \* bits of a ccnt_t

\* Cycles of one pass of the ticker's and of the spinner's loop.
TickerPass == 4
SpinnerPass == 3

\* Up to three ticks that come while a phase is set up are sampled late.  The third line is
\* what the proofs use of powers of two.
IrqUserAssumption ==
  /\ Runs \in Nat /\ Ignored \in 3..Runs - 1
  /\ WordBits \in Nat /\ CcntBits \in Nat /\ WordBits <= CcntBits
  /\ 2^WordBits \in Nat \ {0} /\ 2^CcntBits \in Nat \ {0} /\ 2^CcntBits % 2^WordBits = 0
  /\ Latency \in Nat /\ Latency + 2 * SpinnerPass <= 2^WordBits
  /\ Period \in Nat /\ Period >= 3 * (Latency + TickerPass) + 2 * SpinnerPass

VARIABLES
  phase,     \* phases begun
  clock,     \* the cycle counter
  due,       \* cycles until the timer fires
  raised,    \* the timer has fired and the interrupt is not delivered yet
  masked,    \* the interrupt is delivered and not acknowledged yet
  iter,      \* samples the ticker has taken in this phase
  reg,       \* the spinner's register
  low, high, \* *current_time, in two parts
  end,       \* the ticker's stamp
  sample     \* its last sample

timevars == <<clock, due, raised>>
vars == <<tcb, pc, active, phase, clock, due, raised, masked, iter, reg, low, high, end, sample>>

Phases == 4
Main == "main"
Ticker == "ticker"
Spinner == "spinner"
Child == {Ticker, Spinner}
Thread == Child \cup {Main}
TimerSignal == "timer_signal"
DoneEp == "done_ep"

prio == [t \in Thread |-> CASE t = Spinner -> 0 [] t = Ticker -> 1 [] t = Main -> 2]

Init ==
  /\ tcb = [t \in Thread |-> IF t = Main THEN Running ELSE Inactive]
  /\ pc = [t \in Thread |-> IF t = Main THEN "start_ticker" ELSE "off"]
  /\ active = [n \in {TimerSignal} |-> FALSE]
  /\ phase = 1
  /\ clock \in 0..2^CcntBits - 1
  /\ due = Period
  /\ raised = FALSE /\ masked = FALSE
  /\ iter = 0
  /\ reg = 0 /\ low = 0 /\ high = 0
  /\ end = 0
  /\ sample = 0

-----------------------------------------------------------------------------
(* Time and the timer.                                                     *)

\* n cycles pass, at most a period; pending says whether an interrupt was waiting
\* already.
Advance(n, pending) ==
  /\ clock' = (clock + n) % 2^CcntBits
  /\ due' = IF n < due THEN due - n ELSE due + Period - n
  /\ raised' = (pending \/ n >= due)

\* A thread runs unless an interrupt is to be delivered.
Executes(t) == CanRun(t, prio) /\ ~(raised /\ ~masked)

\* The kernel delivers the interrupt to the notification.
Interrupt ==
  /\ raised /\ ~masked
  /\ Signal(TimerSignal)
  /\ masked' = TRUE
  /\ Advance(Latency, FALSE)
  /\ UNCHANGED <<pc, phase, iter, reg, low, high, end, sample>>

-----------------------------------------------------------------------------
(* The children.                                                           *)

\* SEL4BENCH_READ_CCNT(*current_time): the counter is read, and then stored in as
\* many parts as the machine needs, in an order the compiler chooses.
spinner_fn ==
  /\ Executes(Spinner)
  /\ \/ /\ pc[Spinner] = "read"
        /\ \E first \in {"low", "high"} : pc' = [pc EXCEPT ![Spinner] = first]
        /\ reg' = clock
        /\ UNCHANGED <<low, high>>
     \/ /\ pc[Spinner] \in {"low", "then_low"}
        /\ low' = reg % 2^WordBits
        /\ pc' = [pc EXCEPT ![Spinner] = IF pc[Spinner] = "low" THEN "then_high" ELSE "read"]
        /\ UNCHANGED <<reg, high>>
     \/ /\ pc[Spinner] \in {"high", "then_high"}
        /\ high' = reg \div 2^WordBits
        /\ pc' = [pc EXCEPT ![Spinner] = IF pc[Spinner] = "high" THEN "then_low" ELSE "read"]
        /\ UNCHANGED <<reg, low>>
  /\ Advance(1, raised)
  /\ UNCHANGED <<tcb, active, phase, masked, iter, end, sample>>

\* Mutant: the difference of the whole counters.
Elapsed_Whole == (end - (high * 2^WordBits + low)) % 2^CcntBits

\* end_low - start: both are cut to words.
Elapsed == ((end % 2^WordBits) - low) % 2^WordBits

\* Mutant: the interrupt is not acknowledged.
irq_handle_Nothing == UNCHANGED masked

\* sel4platsupport_irq_handle
irq_handle == masked' = FALSE

\* ticker_fn and ticker_fn_ep: they differ in what becomes of the sample.  After its
\* report the function returns to nowhere, a fault that is sent to done_ep as well.
ticker_fn ==
  /\ Executes(Ticker)
  /\ \/ /\ Step(Ticker, "wait", "read")
        /\ Wait(Ticker, TimerSignal)
        /\ UNCHANGED <<masked, iter, end, sample>>
     \/ /\ Step(Ticker, "read", "handle")
        /\ end' = clock
        /\ UNCHANGED <<tcb, active, masked, iter, sample>>
     \/ /\ Step(Ticker, "handle", "sample")
        /\ irq_handle
        /\ UNCHANGED <<tcb, active, iter, end, sample>>
     \/ /\ Step(Ticker, "sample", IF iter + 1 < Runs THEN "wait" ELSE "send")
        /\ sample' = Elapsed
        /\ iter' = iter + 1
        /\ UNCHANGED <<tcb, active, masked, end>>
     \/ /\ Step(Ticker, "send", "return") \/ Step(Ticker, "return", "faulted")
        /\ Send(Ticker, DoneEp)
        /\ UNCHANGED <<masked, iter, end, sample>>
  /\ Advance(1, raised)
  /\ UNCHANGED <<phase, reg, low, high>>

-----------------------------------------------------------------------------
(* main.                                                                   *)

StartTicker ==
  /\ pc[Main] = "start_ticker"
  /\ pc' = [pc EXCEPT ![Ticker] = "wait", ![Main] = "start_spinner"]
  /\ SetState(Ticker, Running)
  /\ iter' = 0
  /\ UNCHANGED <<active, phase>>

\* In the third phase the spinner's process is created in between.
StartSpinner ==
  /\ pc[Main] = "start_spinner"
  /\ pc' = [pc EXCEPT ![Spinner] = "read", ![Main] = "wait_child"]
  /\ SetState(Spinner, Running)
  /\ UNCHANGED <<active, phase, iter>>

\* benchmark_wait_children: a fault message makes it abort.
WaitChild ==
  /\ \/ Step(Main, "wait_child", "check") /\ Recv(Main, DoneEp)
     \/ /\ Step(Main, "check", IF pc[Ticker] = "faulted" THEN "abort" ELSE "suspend_spinner")
        /\ UNCHANGED <<tcb, active>>
  /\ UNCHANGED <<phase, iter>>

\* Both are suspended; after the last phase they are left alone.
StopChildren ==
  /\ \/ /\ pc[Main] = "suspend_spinner" /\ phase < Phases
        /\ pc' = [pc EXCEPT ![Spinner] = "off", ![Main] = "suspend_ticker"]
        /\ SetState(Spinner, Inactive)
        /\ UNCHANGED phase
     \/ /\ pc[Main] = "suspend_ticker"
        /\ pc' = [pc EXCEPT ![Ticker] = "off", ![Main] = "start_ticker"]
        /\ SetState(Ticker, Inactive)
        /\ phase' = phase + 1
     \/ /\ Step(Main, "suspend_spinner", "finished") /\ phase = Phases
        /\ UNCHANGED <<tcb, phase>>
  /\ UNCHANGED <<active, iter>>

MainStep ==
  /\ Executes(Main)
  /\ StartTicker \/ StartSpinner \/ WaitChild \/ StopChildren
  /\ \E n \in {1, Period} : Advance(n, raised)
  /\ UNCHANGED <<masked, reg, low, high, end, sample>>

AtEnd == pc[Main] = "finished"

Finished == pc[Main] \in {"finished", "abort"} /\ UNCHANGED vars

Next == MainStep \/ ticker_fn \/ spinner_fn \/ Interrupt \/ Finished

Spec == Init /\ [][Next]_vars
FairSpec == Spec /\ WF_vars(Next)

-----------------------------------------------------------------------------
(* Properties.                                                             *)

\* From sample N_IGNORED on, a sample is the interrupt latency plus the age of the
\* spinner's last write, which is less than two passes of its loop, wherever in its
\* two-part store the spinner is interrupted and wherever the counter wraps.  The
\* first samples of a phase may be older: ticks that came while main was setting the
\* phase up are delivered before the spinner has run.
LatencyIsExact ==
  pc[Ticker] \in {"wait", "send"} /\ iter > Ignored
    => sample \in Latency + 1..Latency + 2 * SpinnerPass

\* All four phases finish, and main never takes a fault of the ticker's, which shares
\* the endpoint, for its report: ticks lost or kept back between the phases do not
\* stop the ticker, and it is stopped before it runs off its function.
AllPhasesFinish == <>AtEnd

=============================================================================
