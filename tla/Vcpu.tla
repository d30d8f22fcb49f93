-------------------------------- MODULE Vcpu --------------------------------
(***************************************************************************)
(* src/apps/vcpu: a VMM thread (main.c) serves the hypercalls of guest     *)
(* threads on virtual CPUs (guest.c), which time five paths through the    *)
(* kernel and report their results to it.                                  *)
(*                                                                         *)
(* Time passes in the kernel only: a system call takes one unit to get in, *)
(* one inside and one to get out; in the timed call the cycle counter may  *)
(* drift by Threshold besides.  The VMM has a higher priority than the     *)
(* guests, which have the same.  The kernel logs its entries since the log *)
(* was reset.  A guest may fail at the start of any iteration.             *)
(***************************************************************************)
EXTENDS Rpc, Sequences, FiniteSets

CONSTANTS
  NGuests,      \* VCPU_BENCH_N_GUESTS
  Iterations,   \* VCPU_BENCH_N_ITERATIONS
  Threshold,    \* VCPU_BENCH_CYCLE_COUNTER_ANOMALY_THRESHOLD
  Failures      \* ways a guest may fail, of FailureKind

FailureKind == {"magic", "not_el1", "el1_exception", "sel4_fault"}

VARIABLES
  clock, log,      \* the cycle counter; the kernel's log
  msg,             \* guest -> message of its hypercall
  bm, i,           \* guest -> benchmark, iteration
  start, end,      \* guest -> the two stamps
  r,               \* guest_results
  results,         \* the results in shared memory: benchmark -> iteration -> elapsed
  exitstatus, n_guests_exited, pl2,   \* of the VMM
  status,          \* what benchmark_finished is called with
  drift, failed    \* history: guest -> drift of each sample, its failure

Guest == 1..NGuests
Vmm == 0
Thread == Guest \cup {Vmm}
Ep == "all_guests_fault_ep"
Benchmark == 1..5
Iteration == 1..Iterations

VcpuAssumption ==
  /\ NGuests \in Nat \ {0} /\ Iterations \in Nat \ {0} /\ Threshold \in Nat \ {0}
  /\ NoThread \notin Thread
  /\ Failures \subseteq FailureKind

guestvars == <<bm, i, start, end>>
histvars == <<drift, failed>>
vmmvars == <<results, exitstatus, n_guests_exited, pl2, status>>
vars == <<tcb, pc, active, caller, sc, clock, log, msg, guestvars, r, vmmvars, histvars>>

prio == [t \in Thread |-> IF t = Vmm THEN 1 ELSE 0]

NoResults ==
  [start |-> [q \in Iteration |-> 0], end |-> [q \in Iteration |-> 0],
   min |-> 0, max |-> 0, clipped_total |-> 0, complete_total |-> 0,
   clipped_avg |-> 0, complete_avg |-> 0, n_anomalies |-> 0]

\* drift: which of the samples of one benchmark are disturbed.
Init ==
  /\ tcb = [t \in Thread |-> IF t = Vmm THEN Running ELSE Inactive]
  /\ pc = [t \in Thread |-> IF t = Vmm THEN "setup" ELSE "guest_main"]
  /\ active = <<>> /\ caller = [t \in Thread |-> NoThread] /\ sc = [t \in Thread |-> t]
  /\ clock = 0 /\ log = <<>>
  /\ msg = [g \in Guest |-> <<g, "none">>]
  /\ bm = [g \in Guest |-> 1] /\ i = [g \in Guest |-> 1]
  /\ start = [g \in Guest |-> 0] /\ end = [g \in Guest |-> 0]
  /\ r = NoResults
  /\ results = [b \in Benchmark |-> [q \in Iteration |-> -1]]
  /\ exitstatus = [g \in Guest |-> 0] /\ n_guests_exited = 0 /\ pl2 = FALSE
  /\ status = "none"
  /\ \E b \in Benchmark, D \in SUBSET Iteration :
       drift = [g \in Guest |-> [x \in Benchmark |-> [q \in Iteration |->
                  IF x = b /\ q \in D THEN Threshold ELSE 0]]]
  /\ failed = [g \in Guest |-> "no"]

-----------------------------------------------------------------------------
(* Time in the kernel.                                                     *)

LogSize == 3   \* bound: the entries of the log that anyone could look at

\* The log after an entry to the kernel at this time.
Logged(time) == IF Len(log) < LogSize THEN Append(log, time) ELSE log

\* A system call.
KernelEntry ==
  /\ clock' = clock + 3
  /\ log' = Logged(clock + 1)

ResetLog ==
  /\ clock' = clock + 3
  /\ log' = <<clock + 1>>

\* Entry time and duration of the entry the guest looks up.
StartTime(entry) == entry
Duration == 1

-----------------------------------------------------------------------------
(* The guest.                                                              *)

\* A message to the VMM through the capability with this badge; wait for the answer.
CallThrough(g, badge, m) ==
  /\ Call(g, Ep)
  /\ msg' = [msg EXCEPT ![g] = <<badge>> \o m]

vmm_call(g, m) == CallThrough(g, g, m) /\ KernelEntry

no_call == UNCHANGED <<tcb, active, caller, sc, msg>>

\* guest_main: the message, the checks, the benchmarks, the exit.
guest_main(g) ==
  \/ /\ Step(g, "guest_main", "check")
     /\ vmm_call(g, <<"puts">>)
     /\ UNCHANGED <<guestvars, r, histvars>>
  \/ /\ Step(g, "check", "run")
     /\ no_call
     /\ UNCHANGED <<clock, log, guestvars, r, histvars>>
  \/ /\ "magic" \in Failures                     \* returns to guest__start
     /\ Step(g, "check", "hang")
     /\ failed' = [failed EXCEPT ![g] = "magic"]
     /\ no_call
     /\ UNCHANGED <<clock, log, guestvars, r, drift>>
  \/ /\ "not_el1" \in Failures
     /\ Step(g, "check", "fail")
     /\ failed' = [failed EXCEPT ![g] = "not_el1"]
     /\ vmm_call(g, <<"puts">>)
     /\ UNCHANGED <<guestvars, r, drift>>
  \/ /\ Step(g, "fail", "unreachable")
     /\ vmm_call(g, <<"exit", -1>>)
     /\ UNCHANGED <<guestvars, r, histvars>>
  \/ /\ Step(g, "exit", "unreachable")
     /\ vmm_call(g, <<"exit", 0>>)
     /\ UNCHANGED <<guestvars, r, histvars>>

(***************************************************************************)
(* An exception of a guest's kernel.  guest_install_vector_table has put   *)
(* into VBAR_EL1 not the address of aarch64_el1_vector_table but what is   *)
(* stored there, its first instructions.  Nothing can be fetched from that *)
(* address, which is an exception again, and so on for ever:               *)
(* guest_vector_common is not reached.                                     *)
(***************************************************************************)
El1Exception(g) ==
  /\ "el1_exception" \in Failures
  /\ Step(g, "iter", "hang")
  /\ failed' = [failed EXCEPT ![g] = "el1_exception"]
  /\ no_call
  /\ UNCHANGED <<clock, log, guestvars, r, drift>>

(***************************************************************************)
(* A user exception or an unknown system call, which seL4 delivers to the  *)
(* VMM in the guest's name.  Left out are the faults that seL4 retries     *)
(* whatever the label of the reply (of the VM and of the VCPU): the guest  *)
(* faults again, is answered again, and exits as little as it does here.   *)
(***************************************************************************)
Sel4Fault(g) ==
  /\ "sel4_fault" \in Failures
  /\ Step(g, "iter", "faulted")
  /\ failed' = [failed EXCEPT ![g] = "sel4_fault"]
  /\ CallThrough(g, g, <<"fault">>) /\ KernelEntry
  /\ UNCHANGED <<guestvars, r, drift>>

Drift(g) == drift[g][bm[g]][i[g]]
SetStart(g, stamp) == start' = [start EXCEPT ![g] = stamp]
SetEnd(g, stamp) == end' = [end EXCEPT ![g] = stamp]

\* Mutant: the entry after the one of the null system call.
GUEST_BM_LOG_BUFFER_INDEX_Next == 3

\* The entry the guest looks up; the first one is that of the reset (from 0 in C).
GUEST_BM_LOG_BUFFER_INDEX == 2

\* The two benchmarks that read a stamp of the kernel yield and reset the log first.
UsesLog(b) == b \in {1, 2}

PrepareStamp(g) ==
  /\ \/ Step(g, "iter", "reset") /\ UsesLog(bm[g]) /\ KernelEntry
     \/ Step(g, "iter", "stamp") /\ ~UsesLog(bm[g]) /\ UNCHANGED <<clock, log>>
     \/ Step(g, "reset", "stamp") /\ ResetLog
  /\ no_call
  /\ UNCHANGED <<guestvars, r, histvars>>

\* guest_run_bm_hvc_priv_escalate, _eret_priv_deescalate, _hvc_null_syscall: the
\* counter drifts on the way in in the first and on the way out in the others.
NullKcall(g) ==
  LET enter == clock + 1 + (IF bm[g] = 1 THEN Drift(g) ELSE 0)
      leave == clock + 3 + Drift(g)
  IN  /\ bm[g] \in {1, 2, 3}
      /\ Step(g, "stamp", IF UsesLog(bm[g]) THEN "log" ELSE "account")
      /\ clock' = leave
      /\ log' = Logged(enter)
      /\ IF bm[g] = 2 THEN UNCHANGED start ELSE SetStart(g, clock)
      /\ IF bm[g] = 1 THEN UNCHANGED end ELSE SetEnd(g, leave)
      /\ no_call
      /\ UNCHANGED <<bm, i, r, histvars>>

\* seL4_ARMHyp_Page_Clean_Data, and the stamp of the kernel.
ReadLog(g) ==
  /\ Step(g, "log", "account")
  /\ KernelEntry
  /\ IF bm[g] = 1 THEN SetEnd(g, StartTime(log'[GUEST_BM_LOG_BUFFER_INDEX])) /\ UNCHANGED start
     ELSE SetStart(g, StartTime(log'[GUEST_BM_LOG_BUFFER_INDEX]) + Duration) /\ UNCHANGED end
  /\ no_call
  /\ UNCHANGED <<bm, i, r, histvars>>

\* guest_run_bm_call_syscall, _reply_syscall: the other stamp is in the answer.
StampCall(g) ==
  /\ bm[g] \in {4, 5}
  /\ Step(g, "stamp", "answered")
  /\ CallThrough(g, g, IF bm[g] = 4 THEN <<"call_end">> ELSE <<"reply_start">>)
  /\ clock' = clock + 3 + (IF bm[g] = 4 THEN Drift(g) ELSE 0)
  /\ log' = Logged(clock + 1)
  /\ IF bm[g] = 4 THEN SetStart(g, clock) ELSE UNCHANGED start
  /\ UNCHANGED <<bm, i, end, r, histvars>>

\* The answer has the VMM's stamp in its only register.
StampAnswer(g) ==
  /\ Step(g, "answered", "account")
  /\ clock' = clock + (IF bm[g] = 5 THEN Drift(g) ELSE 0)
  /\ IF bm[g] = 4 THEN SetEnd(g, msg[g][3]) /\ UNCHANGED start
     ELSE SetStart(g, msg[g][3]) /\ SetEnd(g, clock')
  /\ no_call
  /\ UNCHANGED <<log, bm, i, r, histvars>>

\* Is this sample out of the ordinary, compared with the one before?
guest_bm_cycle_counter_anomaly_detected(g, elapsed) ==
  /\ i[g] > 1
  /\ elapsed - (r.end[i[g] - 1] - r.start[i[g] - 1]) >= Threshold

\* Mutant: the anomalies count in the divisor.
guest_bm_calc_clipped_average_All(x) == x.clipped_total \div Iterations

guest_bm_calc_clipped_average(x) == x.clipped_total \div (Iterations - x.n_anomalies)
guest_bm_calc_complete_average(x) == x.complete_total \div Iterations

Averaged(x) == [x EXCEPT !.clipped_avg = guest_bm_calc_clipped_average(x),
                         !.complete_avg = guest_bm_calc_complete_average(x)]

Smaller(a, b) == IF a < b THEN a ELSE b
Larger(a, b) == IF a > b THEN a ELSE b

\* guest_run_bm with a sample added to guest_results.
Counted(g, elapsed) ==
  LET anomaly == guest_bm_cycle_counter_anomaly_detected(g, elapsed)
  IN  [r EXCEPT !.start[i[g]] = start[g], !.end[i[g]] = end[g],
                !.complete_total = @ + elapsed,
                !.clipped_total = IF anomaly THEN @ ELSE @ + elapsed,
                !.n_anomalies = IF anomaly THEN @ + 1 ELSE @,
                !.min = Smaller(@, elapsed), !.max = Larger(@, elapsed)]

guest_run_bm(g) ==
  \/ /\ Step(g, "run", "iter")
     /\ r' = NoResults
     /\ i' = [i EXCEPT ![g] = 1]
     /\ no_call
     /\ UNCHANGED <<clock, log, bm, start, end, histvars>>
  \/ /\ PrepareStamp(g) \/ NullKcall(g) \/ ReadLog(g) \/ StampCall(g) \/ StampAnswer(g)
  \/ /\ Step(g, "account", IF i[g] < Iterations THEN "iter" ELSE "report")
     /\ LET x == Counted(g, end[g] - start[g])
        IN  r' = IF i[g] < Iterations THEN x ELSE Averaged(x)
     /\ i' = [i EXCEPT ![g] = IF @ < Iterations THEN @ + 1 ELSE 1]
     /\ no_call
     /\ UNCHANGED <<clock, log, bm, start, end, histvars>>

\* guest_report_bm_results, and on to the next benchmark (guest_run_benchmarks).
guest_report_bm_results(g) ==
  \/ /\ Step(g, "report", "deep")
     /\ vmm_call(g, <<"end_results">>)
     /\ UNCHANGED <<guestvars, r, histvars>>
  \/ /\ Step(g, "deep", CASE i[g] < Iterations -> "deep"
                          [] i[g] = Iterations /\ bm[g] < 5 -> "run"
                          [] i[g] = Iterations /\ bm[g] = 5 -> "exit")
     /\ vmm_call(g, <<"deep_results", bm[g], i[g], r.start[i[g]], r.end[i[g]]>>)
     /\ i' = [i EXCEPT ![g] = IF @ < Iterations THEN @ + 1 ELSE 1]
     /\ bm' = [bm EXCEPT ![g] = IF i[g] = Iterations /\ @ < 5 THEN @ + 1 ELSE @]
     /\ UNCHANGED <<start, end, r, histvars>>

GuestStep(g) ==
  /\ Scheduled(g, prio)
  /\ \/ guest_main(g)
     \/ El1Exception(g)
     \/ Sel4Fault(g)
     \/ guest_run_bm(g)
     \/ guest_report_bm_results(g)
  /\ UNCHANGED vmmvars

-----------------------------------------------------------------------------
(* The VMM.                                                                *)

client == caller[Vmm]
badge == msg[client][1]
label == msg[client][2]

\* Counting in the kernel is switched on, then the log buffer is set up, or not.
Setup ==
  /\ Step(Vmm, "setup", "exec") \/ Step(Vmm, "setup", "returned")
  /\ pl2' = TRUE
  /\ UNCHANGED <<tcb, active, caller, sc, clock, log, msg,
                 results, exitstatus, n_guests_exited, status>>

\* guest_init and guest_exec of all guests.
guest_exec ==
  /\ Step(Vmm, "exec", "recv")
  /\ tcb' = [t \in Thread |-> Running]
  /\ UNCHANGED <<active, caller, sc, clock, log, msg, vmmvars>>

Receive ==
  /\ Step(Vmm, "recv", "save")
  /\ RecvCall(Vmm, Ep)
  /\ KernelEntry
  /\ UNCHANGED <<msg, vmmvars>>

SaveCaller ==
  /\ Step(Vmm, "save", "handle")
  /\ KernelEntry
  /\ UNCHANGED <<tcb, active, caller, sc, msg, vmmvars>>

\* Mutant: the exit status is not kept.
ExitThread_NoStatus ==
  /\ n_guests_exited' = n_guests_exited + 1
  /\ SetState(badge, Inactive)
  /\ caller' = [caller EXCEPT ![Vmm] = NoThread]
  /\ UNCHANGED exitstatus

\* HYPCALL_SYS_EXIT_THREAD: the thread is cleaned up and the reply capability deleted.
ExitThread ==
  /\ n_guests_exited' = n_guests_exited + 1
  /\ SetState(badge, Inactive)
  /\ caller' = [caller EXCEPT ![Vmm] = NoThread]
  /\ exitstatus' = [exitstatus EXCEPT ![badge] = msg[client][3]]

\* vmm_handle_hypcall and vmm_handle_sel4_fault.
vmm_handle ==
  /\ pc[Vmm] = "handle"
  /\ \/ /\ label = "exit"
        /\ ExitThread
        /\ Step(Vmm, "handle", IF n_guests_exited' = NGuests THEN "finish" ELSE "recv")
        /\ KernelEntry
        /\ UNCHANGED <<active, sc, msg, results, pl2, status>>
     \/ /\ label \in {"call_end", "reply_start"}
        /\ Step(Vmm, "handle", "reply")
        /\ msg' = [msg EXCEPT ![client] = <<badge, "answer", clock>>]
        /\ UNCHANGED <<tcb, active, caller, sc, clock, log, vmmvars>>
     \/ /\ label = "deep_results"
        /\ Step(Vmm, "handle", "reply")
        /\ results' = [results EXCEPT ![msg[client][3]][msg[client][4]] =
                         msg[client][6] - msg[client][5]]
        /\ UNCHANGED <<tcb, active, caller, sc, clock, log, msg,
                       exitstatus, n_guests_exited, pl2, status>>
     \/ /\ label \in {"puts", "end_results", "fault"}
        /\ Step(Vmm, "handle", "reply")
        /\ UNCHANGED <<tcb, active, caller, sc, clock, log, msg, vmmvars>>

\* The reply to a fault has the label 1, with which seL4 does not restart a thread
\* after a user exception or an unknown system call.
SendReply ==
  /\ Step(Vmm, "reply", "recv")
  /\ IF label = "fault"
     THEN /\ SetState(client, Inactive)
          /\ caller' = [caller EXCEPT ![Vmm] = NoThread]
          /\ UNCHANGED <<active, sc>>
     ELSE Reply(Vmm)
  /\ KernelEntry
  /\ UNCHANGED <<msg, vmmvars>>

\* benchmark_finished, with the first exit status that is an error.
Finish ==
  /\ Step(Vmm, "finish", "finished")
  /\ pl2' = FALSE
  /\ status' = IF \E g \in Guest : exitstatus[g] # 0 THEN "error" ELSE "success"
  /\ UNCHANGED <<tcb, active, caller, sc, clock, log, msg, results, exitstatus, n_guests_exited>>

VmmStep ==
  /\ Scheduled(Vmm, prio)
  /\ \/ Setup
     \/ guest_exec
     \/ Receive
     \/ SaveCaller
     \/ vmm_handle
     \/ SendReply
     \/ Finish
  /\ UNCHANGED <<guestvars, r, histvars>>

\* The application has ended, or nobody can go on.
Ended ==
  /\ \/ pc[Vmm] \in {"finished", "returned"}
     \/ \A t \in Thread : ~Ready(t) \/ pc[t] = "hang"
  /\ UNCHANGED vars

Next == VmmStep \/ Ended \/ \E g \in Guest : GuestStep(g)

Spec == Init /\ [][Next]_vars

\* The processor does not stop; it switches between guests.
FairSpec == Spec /\ WF_vars(VmmStep) /\ \A g \in Guest : WF_vars(GuestStep(g))

-----------------------------------------------------------------------------
(***************************************************************************)
(* The time each benchmark is about: the way in, the way out, a null       *)
(* system call; a call up to the stamp the VMM takes after SaveCaller; a   *)
(* reply, after which the VMM, of higher priority, first receives again.   *)
(***************************************************************************)
Leg == <<1, 1, 3, 6, 6>>

(***************************************************************************)
(* The application reports success only if every sample of every benchmark *)
(* has reached the shared results, each being the time of its own leg plus *)
(* the drift in it: the kernel's log entry is the one of the null system   *)
(* call, and the stamps of guest and VMM belong together.                  *)
(***************************************************************************)
ElapsedIsOneLeg ==
  status = "success" =>
    \A b \in Benchmark, q \in Iteration : results[b][q] = Leg[b] + drift[1][b][q]

(***************************************************************************)
(* The averages of guest_run_bm exist and mean what they say, whatever the *)
(* pattern of anomalies: the clipped average divides by a positive number  *)
(* and lies among the samples that are kept, the total is that of all.     *)
(***************************************************************************)
AveragesAreSound ==
  \A g \in Guest : pc[g] = "report" =>
    LET elapsed == [q \in Iteration |-> r.end[q] - r.start[q]]
        kept == {q \in Iteration : q = 1 \/ elapsed[q] - elapsed[q - 1] < Threshold}
        total[n \in 0..Iterations] == IF n = 0 THEN 0 ELSE total[n - 1] + elapsed[n]
    IN  /\ r.n_anomalies < Iterations
        /\ r.n_anomalies + Cardinality(kept) = Iterations
        /\ \E q \in kept : elapsed[q] <= r.clipped_avg
        /\ \E q \in kept : elapsed[q] >= r.clipped_avg
        /\ r.complete_total = total[Iterations]

(***************************************************************************)
(* A guest that finds itself in the wrong mode makes the application end   *)
(* with an error (guest_main, HYPCALL_SYS_EXIT_THREAD and the end of main).*)
(***************************************************************************)
WrongModeEndsInError ==
  \A g \in Guest : failed[g] = "not_el1" ~> status = "error"

(***************************************************************************)
(* "Check the return value from each guest thread. If any failed, then the *)
(* benchmark results are in an unknown state, so return error." (main):    *)
(* any guest that fails makes the application end with an error.           *)
(***************************************************************************)
FailureEndsInError ==
  \A g \in Guest : failed[g] # "no" ~> status = "error"
=============================================================================
