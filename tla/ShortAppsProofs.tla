-------------------------- MODULE ShortAppsProofs --------------------------
(***************************************************************************)
(* Proofs about the fault application, for every number of runs and of     *)
(* ignored samples and every width of the cycle counter, and about the     *)
(* signal application, for every number of runs and of signals and every   *)
(* range of priorities.                                                    *)
(*                                                                         *)
(* Faulter and handler share the stamp and have loops of their own.  What  *)
(* keeps them in step is that the handler has replied to exactly the       *)
(* faults that the faulter has behind it; FJoint says so in each of the    *)
(* joint states of the three threads, and FStamps what the stamp is then   *)
(* worth.                                                                  *)
(*                                                                         *)
(* Nothing but the priorities makes the signaller wait for the waiter's    *)
(* stamp, or the waiter for the signaller's samples.  The invariant is     *)
(* therefore the list of the joint states of the three threads; a step     *)
(* that would leave the list is one that the scheduler does not allow.     *)
(***************************************************************************)
EXTENDS MCShortApps, TLAPS

-----------------------------------------------------------------------------
(* The fault application: the inductive invariant.                         *)

Modulus == 2^FaultWidth

\* The counter one kernel entry later.
Later(c) == (c + 1) % Modulus

Ff(b) == F!run_fault_benchmark[b].f
Hf(b) == F!run_fault_benchmark[b].h
Legs(b) == F!run_fault_benchmark[b].legs

\* The faults before and after the faulter's loop.
First(b) == IF Ff(b).first THEN 1 ELSE 0
Last(b) == IF Ff(b).last THEN 1 ELSE 0

FLabel == {"start_handler", "wait_init", "unbind", "start_faulter", "wait_faulter", "bind",
           "wait_handler", "suspend_faulter", "suspend_handler", "finished", "begin", "loop",
           "reply", "sample", "send", "block", "off", "first", "fault", "last", "done",
           "return"}

FState == {F!Running, F!Inactive, F!AwaitingReply, F!CallingOn(F!FaultEp),
           F!RecvingOn(F!FaultEp), F!RecvingOn(F!DoneEp)}

FTypeOK ==
  /\ f_pc \in [F!Thread -> FLabel]
  /\ f_tcb \in [F!Thread -> FState]
  /\ f_caller \in [F!Thread -> {"faulter", NoThread}]
  /\ f_caller["main"] = NoThread /\ f_caller["faulter"] = NoThread
  /\ f_iter \in [F!Child -> Nat]
  /\ mcs \in BOOLEAN
  /\ bench \in 1..7
  /\ f_clock \in 0..Modulus - 1
  /\ f_start \in 0..Modulus - 1

\* Who holds which scheduling context: each thread its own; on an MCS kernel the handler
\* has none while main waits for the faulter; it has the faulter's while the latter
\* waits for the reply.
Own == [t \in F!Thread |-> t]
Idle == IF mcs THEN [Own EXCEPT !["handler"] = NoThread] ELSE Own
Lent == IF mcs THEN [Own EXCEPT !["handler"] = NoThread, !["faulter"] = "handler"] ELSE Own

\* The label and the state of a thread.
FAt(t, l, s) == f_pc[t] = l /\ f_tcb[t] = s

FCalling == F!CallingOn(F!FaultEp)
FReceiving == F!RecvingOn(F!FaultEp)
FCollecting == F!RecvingOn(F!DoneEp)
Raised == f_iter["faulter"]
Handled == f_iter["handler"]

\* The faulter of benchmark b is at label l of pass i, with n faults behind it.
Behind(l, i, b, n) ==
  \/ l = "first" /\ First(b) = 1 /\ i = 0 /\ n = 0
  \/ l = "loop" /\ i <= Ff(b).loops /\ n = First(b) + i
  \/ l = "fault" /\ i < Ff(b).loops /\ n = First(b) + i
  \/ l = "sample" /\ i < Ff(b).loops /\ n = First(b) + i + 1
  \/ l = "last" /\ Last(b) = 1 /\ i = Ff(b).loops /\ n = First(b) + i
  \/ l = "done" /\ i = Ff(b).loops /\ n = First(b) + i + Last(b)

\* The faults the handler has replied to, n, are those the faulter has behind it.
Agree(n) == Behind(f_pc["faulter"], Raised, bench, n)

\* Before and between the benchmarks.
FApart ==
  /\ \/ FAt("main", "start_handler", F!Running) /\ bench \in 1..6
     \/ FAt("main", "finished", F!Running) /\ bench = 7
  /\ FAt("faulter", "off", F!Inactive) /\ FAt("handler", "off", F!Inactive)
  /\ f_caller["handler"] = NoThread /\ f_sc = Own

\* On an MCS kernel main waits until the handler is initialised.
FInitialising ==
  /\ mcs /\ bench \in 1..6 /\ Handled = 0
  /\ FAt("faulter", "off", F!Inactive)
  /\ \/ FAt("main", "wait_init", F!Running) /\ FAt("handler", "begin", F!Running)
     \/ FAt("main", "unbind", FCollecting) /\ FAt("handler", "begin", F!Running)
     \/ FAt("main", "unbind", F!Running) /\ FAt("handler", "loop", FReceiving)
  /\ f_caller["handler"] = NoThread /\ f_sc = Own

\* The handler has not got the first fault.
FUntouched ==
  /\ bench \in 1..6 /\ Handled = 0 /\ f_caller["handler"] = NoThread /\ f_sc = Idle
  /\ IF mcs THEN FAt("handler", "loop", FReceiving) ELSE FAt("handler", "begin", F!Running)

FPrepared ==
  FUntouched /\ FAt("main", "start_faulter", F!Running) /\ FAt("faulter", "off", F!Inactive)

\* Main waits for the faulter's end.
MainWaits == FAt("main", IF mcs THEN "bind" ELSE "wait_handler", FCollecting)

\* The faulter before its first fault; on other kernels it reaches that before the
\* handler, which is less urgent, has begun.
FBefore ==
  /\ FUntouched /\ Agree(0)
  /\ \/ FAt("main", "wait_faulter", F!Running) /\ f_tcb["faulter"] = F!Running
     \/ MainWaits /\ f_tcb["faulter"] = F!Running
     \/ /\ MainWaits /\ f_tcb["faulter"] = FCalling /\ ~mcs
        /\ f_pc["faulter"] \in {"first", "fault"}

\* The handler has the faulter's message, and the address in it.
FFaulted ==
  /\ bench \in 1..6 /\ MainWaits
  /\ f_tcb["faulter"] = F!AwaitingReply /\ f_pc["faulter"] \in {"first", "fault", "last"}
  /\ f_caller["handler"] = "faulter" /\ f_sc = Lent /\ ip = f_pc["faulter"]
  /\ \/ FAt("handler", "loop", F!Running) /\ Handled <= Hf(bench).loops /\ Agree(Handled)
     \/ FAt("handler", "reply", F!Running) /\ Handled < Hf(bench).loops /\ Agree(Handled)
     \/ /\ FAt("handler", "sample", F!Running) /\ Handled < Hf(bench).loops
        /\ Agree(Handled + 1)

\* The handler has replied and waits for the next fault.
FReplied ==
  /\ bench \in 1..6 /\ MainWaits
  /\ f_tcb["faulter"] = F!Running
  /\ f_caller["handler"] = NoThread /\ f_sc = Idle
  /\ FAt("handler", "sample", FReceiving) /\ Handled < Hf(bench).loops /\ Agree(Handled + 1)

\* It has replied to the last fault.
FEnding ==
  /\ bench \in 1..6 /\ MainWaits
  /\ f_tcb["faulter"] = F!Running
  /\ f_caller["handler"] = NoThread /\ f_sc = Idle
  /\ FAt("handler", "send", F!Running) /\ Agree(Hf(bench).loops + 1)

\* The faulter has come to its end, and faults again when it returns.
FReturned ==
  /\ bench \in 1..6 /\ f_caller["handler"] = NoThread
  /\ FAt("handler", "send", F!Running)
  /\ \/ /\ mcs /\ f_sc = Idle
        /\ FAt("main", "bind", F!Running) /\ FAt("faulter", "return", F!Running)
     \/ /\ f_sc = Own
        /\ FAt("main", "wait_handler", F!Running) /\ FAt("faulter", "return", F!Running)
     \/ /\ f_sc = Own /\ FAt("main", "suspend_faulter", FCollecting)
        /\ FAt("faulter", "return", F!Running) \/ FAt("faulter", "return", FCalling)

\* So has the handler, and main stops both.
FStopped ==
  /\ bench \in 1..6 /\ f_caller["handler"] = NoThread /\ f_sc = Own
  /\ FAt("handler", "block", F!Running)
  /\ \/ FAt("main", "suspend_faulter", F!Running) /\ FAt("faulter", "return", FCalling)
     \/ FAt("main", "suspend_handler", F!Running) /\ FAt("faulter", "off", F!Inactive)

FJoint ==
  \/ FApart \/ FInitialising \/ FPrepared \/ FBefore \/ FFaulted \/ FReplied \/ FEnding
  \/ FReturned \/ FStopped

\* What the stamp is worth while one of the two is measuring.
FStamps ==
  /\ Ff(bench).stamps =>
       /\ f_pc["faulter"] = "fault" /\ f_tcb["faulter"] = F!Running => f_clock = f_start
       /\ f_pc["faulter"] = "fault" /\ f_tcb["faulter"] = F!AwaitingReply /\ Raised > 0 =>
            f_clock = Later(f_start)
       /\ f_pc["faulter"] = "sample" /\ Raised > 0 => f_clock = Later(Later(f_start))
  /\ Hf(bench).stamps =>
       /\ f_pc["handler"] = "reply" => f_clock = f_start
       /\ f_pc["handler"] = "sample" /\ f_pc["faulter"] = "sample" => f_clock = Later(f_start)

\* The samples taken so far in this benchmark, the last of them.
FSampled ==
  /\ Hf(bench).samples /\ f_pc["handler"] # "off" /\ Handled > 0 => f_sample = Legs(bench)
  /\ Ff(bench).samples /\ f_pc["faulter"] # "off" /\ Raised \in 2..FaultRuns =>
       f_sample = Legs(bench)

FStarting == FInitialising \/ FPrepared
FMeasuring == FBefore \/ FFaulted \/ FReplied \/ FEnding

FInv == FTypeOK /\ FJoint /\ (bench < 7 => FStamps /\ FSampled)

-----------------------------------------------------------------------------
(* The fault application: the constants and the functions.                 *)

\* What the assumption on N_RUNS, N_IGNORED and the width of the counter gives, and who the
\* threads of run_benchmark are.
LEMMA FConstants ==
  /\ FaultRuns \in Nat /\ FaultIgnored \in Nat /\ FaultIgnored >= 1
  /\ FaultIgnored < FaultRuns
  /\ Modulus \in Nat /\ Modulus > 2
  /\ F!Child = {"faulter", "handler"}
  /\ F!Thread = {"faulter", "handler", "main"}
  /\ NoThread # "faulter" /\ NoThread # "handler" /\ NoThread # "main"
<1>1. /\ FaultRuns \in Nat /\ FaultIgnored \in 1..FaultRuns - 1
      /\ 2^FaultWidth \in Nat /\ 2^FaultWidth > 2
      /\ NoThread \notin F!Thread
  BY FaultPartAssumption, Zenon DEF F!FaultAssumption
<1>2. F!Child = {"faulter", "handler"} /\ F!Thread = {"faulter", "handler", "main"}
  BY Zenon DEF F!Child, F!Thread, F!Faulter, F!Handler, F!Main
<1>3. Modulus \in Nat /\ Modulus > 2
  BY <1>1, Zenon DEF Modulus
<1>4. FaultIgnored \in Nat /\ FaultIgnored >= 1 /\ FaultIgnored < FaultRuns
  BY <1>1
<1> QED
  BY <1>1, <1>2, <1>3, <1>4, Zenon

\* The counter between two stamps.
LEMMA FCounter ==
  ASSUME NEW c \in 0..Modulus - 1
  PROVE  /\ Later(c) \in 0..Modulus - 1
         /\ Later(Later(c)) \in 0..Modulus - 1
         /\ (Later(c) - c) % Modulus = 1
         /\ (Later(Later(c)) - c) % Modulus = 2
<1>1. Modulus \in Nat /\ Modulus > 2
  BY FConstants, Zenon
<1>2. \A m \in Nat, d \in Nat : m > 2 /\ d < m =>
        (d + 1) % m = IF d + 1 < m THEN d + 1 ELSE 0
  OBVIOUS
<1>3. ASSUME NEW d \in 0..Modulus - 1
      PROVE  /\ Later(d) = IF d + 1 < Modulus THEN d + 1 ELSE 0
             /\ Later(d) \in 0..Modulus - 1
  <2>1. d \in Nat /\ d < Modulus
    BY <1>1
  <2>2. Later(d) = IF d + 1 < Modulus THEN d + 1 ELSE 0
    BY <1>1, <1>2, <2>1, Zenon DEF Later
  <2> QED
    BY <1>1, <2>1, <2>2
<1>4. \A m \in Nat : m > 2 => 1 % m = 1 /\ 2 % m = 2 /\ (1 - m) % m = 1 /\ (2 - m) % m = 2
  OBVIOUS
<1>5. Later(c) - c = 1 \/ Later(c) - c = 1 - Modulus
  BY <1>1, <1>3
<1>6. Later(Later(c)) - c = 2 \/ Later(Later(c)) - c = 2 - Modulus
  BY <1>1, <1>3
<1> QED
  BY <1>1, <1>3, <1>4, <1>5, <1>6, Zenon

\* In each of the six pairs the handler replies to as many faults as the faulter
\* raises, and one of the two stamps.
LEMMA FPairs ==
  ASSUME NEW b \in 1..6
  PROVE  /\ Ff(b).loops \in Nat /\ Ff(b).loops > 0
         /\ Hf(b).loops \in Nat /\ Hf(b).loops > 0
         /\ First(b) \in {0, 1} /\ (Ff(b).first <=> First(b) = 1)
         /\ Last(b) \in {0, 1} /\ (Ff(b).last <=> Last(b) = 1)
         /\ First(b) + Ff(b).loops + Last(b) = Hf(b).loops + 1
         /\ Ff(b).stamps => ~Hf(b).stamps
         /\ Hf(b).samples =>
              Ff(b).stamps /\ ~Ff(b).samples /\ First(b) = 0 /\ Last(b) # 1 /\ Legs(b) = 1
         /\ Ff(b).samples /\ Ff(b).stamps => Legs(b) = 2
         /\ Ff(b).samples /\ ~Ff(b).stamps =>
              Hf(b).stamps /\ First(b) = 1 /\ Hf(b).loops = FaultRuns + 1 /\ Legs(b) = 1
<1>1. CASE b = 1
  <2>1. F!run_fault_benchmark[b] = F!Pair(F!measure_fault_fn, F!measure_fault_handler_fn, 1)
    BY <1>1 DEF F!run_fault_benchmark
  <2>2. Ff(b) = F!measure_fault_fn /\ Hf(b) = F!measure_fault_handler_fn /\ Legs(b) = 1
    BY <2>1 DEF Ff, Hf, Legs, F!Pair
  <2>3. /\ ~Ff(b).first /\ Ff(b).loops = FaultRuns + 1 /\ ~Ff(b).last
        /\ Ff(b).stamps /\ ~Ff(b).samples
    BY <2>2 DEF F!Faults, F!measure_fault_fn
  <2>4. Hf(b).loops = FaultRuns /\ ~Hf(b).stamps /\ Hf(b).samples
    BY <2>2 DEF F!Handles, F!measure_fault_handler_fn
  <2>5. First(b) = 0 /\ Last(b) = 0
    BY <2>3, Zenon DEF First, Last
  <2>6. /\ Ff(b).loops \in Nat /\ Ff(b).loops > 0 /\ Hf(b).loops \in Nat /\ Hf(b).loops > 0
        /\ First(b) + Ff(b).loops + Last(b) = Hf(b).loops + 1
        /\ First(b) # 1 /\ Last(b) # 1
    <3>1. Ff(b).loops = FaultRuns + 1 /\ Hf(b).loops = FaultRuns
      BY <2>3, <2>4, Zenon
    <3> QED
      BY <2>5, <3>1, FConstants
  <2> QED
    BY <2>2, <2>3, <2>4, <2>5, <2>6, Zenon
<1>2. CASE b = 2
  <2>1. F!run_fault_benchmark[b] =
          F!Pair(F!measure_fault_fn, F!measure_fault_handler_fn_ep, 1)
    BY <1>2 DEF F!run_fault_benchmark
  <2>2. Ff(b) = F!measure_fault_fn /\ Hf(b) = F!measure_fault_handler_fn_ep /\ Legs(b) = 1
    BY <2>1 DEF Ff, Hf, Legs, F!Pair
  <2>3. /\ ~Ff(b).first /\ Ff(b).loops = FaultRuns + 1 /\ ~Ff(b).last
        /\ Ff(b).stamps /\ ~Ff(b).samples
    BY <2>2 DEF F!Faults, F!measure_fault_fn
  <2>4. Hf(b).loops = FaultRuns /\ ~Hf(b).stamps /\ Hf(b).samples
    BY <2>2 DEF F!Handles, F!measure_fault_handler_fn_ep
  <2>5. First(b) = 0 /\ Last(b) = 0
    BY <2>3, Zenon DEF First, Last
  <2>6. /\ Ff(b).loops \in Nat /\ Ff(b).loops > 0 /\ Hf(b).loops \in Nat /\ Hf(b).loops > 0
        /\ First(b) + Ff(b).loops + Last(b) = Hf(b).loops + 1
        /\ First(b) # 1 /\ Last(b) # 1
    <3>1. Ff(b).loops = FaultRuns + 1 /\ Hf(b).loops = FaultRuns
      BY <2>3, <2>4, Zenon
    <3> QED
      BY <2>5, <3>1, FConstants
  <2> QED
    BY <2>2, <2>3, <2>4, <2>5, <2>6, Zenon
<1>3. CASE b = 3
  <2>1. F!run_fault_benchmark[b] =
          F!Pair(F!measure_fault_reply_fn, F!measure_fault_reply_handler_fn, 1)
    BY <1>3 DEF F!run_fault_benchmark
  <2>2. /\ Ff(b) = F!measure_fault_reply_fn
        /\ Hf(b) = F!measure_fault_reply_handler_fn
        /\ Legs(b) = 1
    BY <2>1 DEF Ff, Hf, Legs, F!Pair
  <2>3. /\ Ff(b).first /\ Ff(b).loops = FaultRuns + 1 /\ ~Ff(b).last
        /\ ~Ff(b).stamps /\ Ff(b).samples
    BY <2>2 DEF F!Faults, F!measure_fault_reply_fn
  <2>4. Hf(b).loops = FaultRuns + 1 /\ Hf(b).stamps /\ ~Hf(b).samples
    BY <2>2 DEF F!Handles, F!measure_fault_reply_handler_fn
  <2>5. First(b) = 1 /\ Last(b) = 0
    BY <2>3, Zenon DEF First, Last
  <2>6. /\ Ff(b).loops \in Nat /\ Ff(b).loops > 0 /\ Hf(b).loops \in Nat /\ Hf(b).loops > 0
        /\ First(b) + Ff(b).loops + Last(b) = Hf(b).loops + 1
        /\ First(b) = 1 /\ Last(b) # 1
    <3>1. Ff(b).loops = FaultRuns + 1 /\ Hf(b).loops = FaultRuns + 1
      BY <2>3, <2>4, Zenon
    <3> QED
      BY <2>5, <3>1, FConstants
  <2> QED
    BY <2>2, <2>3, <2>4, <2>5, <2>6, Zenon
<1>4. CASE b = 4
  <2>1. F!run_fault_benchmark[b] =
          F!Pair(F!measure_fault_reply_fn_ep, F!measure_fault_reply_handler_fn, 1)
    BY <1>4 DEF F!run_fault_benchmark
  <2>2. /\ Ff(b) = F!measure_fault_reply_fn_ep
        /\ Hf(b) = F!measure_fault_reply_handler_fn
        /\ Legs(b) = 1
    BY <2>1 DEF Ff, Hf, Legs, F!Pair
  <2>3. /\ Ff(b).first /\ Ff(b).loops = FaultRuns /\ Ff(b).last
        /\ ~Ff(b).stamps /\ Ff(b).samples
    BY <2>2 DEF F!Faults, F!measure_fault_reply_fn_ep
  <2>4. Hf(b).loops = FaultRuns + 1 /\ Hf(b).stamps /\ ~Hf(b).samples
    BY <2>2 DEF F!Handles, F!measure_fault_reply_handler_fn
  <2>5. First(b) = 1 /\ Last(b) = 1
    BY <2>3, Zenon DEF First, Last
  <2>6. /\ Ff(b).loops \in Nat /\ Ff(b).loops > 0 /\ Hf(b).loops \in Nat /\ Hf(b).loops > 0
        /\ First(b) + Ff(b).loops + Last(b) = Hf(b).loops + 1
        /\ First(b) = 1 /\ Last(b) = 1
    <3>1. Ff(b).loops = FaultRuns /\ Hf(b).loops = FaultRuns + 1
      BY <2>3, <2>4, Zenon
    <3> QED
      BY <2>5, <3>1, FConstants
  <2> QED
    BY <2>2, <2>3, <2>4, <2>5, <2>6, Zenon
<1>5. CASE b = 5
  <2>1. F!run_fault_benchmark[b] =
          F!Pair(F!measure_fault_roundtrip_fn, F!measure_fault_roundtrip_handler_fn, 2)
    BY <1>5 DEF F!run_fault_benchmark
  <2>2. /\ Ff(b) = F!measure_fault_roundtrip_fn
        /\ Hf(b) = F!measure_fault_roundtrip_handler_fn
        /\ Legs(b) = 2
    BY <2>1 DEF Ff, Hf, Legs, F!Pair
  <2>3. /\ ~Ff(b).first /\ Ff(b).loops = FaultRuns + 1 /\ ~Ff(b).last
        /\ Ff(b).stamps /\ Ff(b).samples
    BY <2>2 DEF F!Faults, F!measure_fault_roundtrip_fn
  <2>4. Hf(b).loops = FaultRuns /\ ~Hf(b).stamps /\ ~Hf(b).samples
    BY <2>2 DEF F!Handles, F!measure_fault_roundtrip_handler_fn
  <2>5. First(b) = 0 /\ Last(b) = 0
    BY <2>3, Zenon DEF First, Last
  <2>6. /\ Ff(b).loops \in Nat /\ Ff(b).loops > 0 /\ Hf(b).loops \in Nat /\ Hf(b).loops > 0
        /\ First(b) + Ff(b).loops + Last(b) = Hf(b).loops + 1
        /\ First(b) # 1 /\ Last(b) # 1
    <3>1. Ff(b).loops = FaultRuns + 1 /\ Hf(b).loops = FaultRuns
      BY <2>3, <2>4, Zenon
    <3> QED
      BY <2>5, <3>1, FConstants
  <2> QED
    BY <2>2, <2>3, <2>4, <2>5, <2>6, Zenon
<1>6. CASE b = 6
  <2>1. F!run_fault_benchmark[b] =
          F!Pair(F!measure_fault_roundtrip_fn_ep, F!measure_fault_roundtrip_handler_fn, 2)
    BY <1>6 DEF F!run_fault_benchmark
  <2>2. /\ Ff(b) = F!measure_fault_roundtrip_fn_ep
        /\ Hf(b) = F!measure_fault_roundtrip_handler_fn
        /\ Legs(b) = 2
    BY <2>1 DEF Ff, Hf, Legs, F!Pair
  <2>3. /\ ~Ff(b).first /\ Ff(b).loops = FaultRuns /\ Ff(b).last
        /\ Ff(b).stamps /\ Ff(b).samples
    BY <2>2 DEF F!Faults, F!measure_fault_roundtrip_fn_ep
  <2>4. Hf(b).loops = FaultRuns /\ ~Hf(b).stamps /\ ~Hf(b).samples
    BY <2>2 DEF F!Handles, F!measure_fault_roundtrip_handler_fn
  <2>5. First(b) = 0 /\ Last(b) = 1
    BY <2>3, Zenon DEF First, Last
  <2>6. /\ Ff(b).loops \in Nat /\ Ff(b).loops > 0 /\ Hf(b).loops \in Nat /\ Hf(b).loops > 0
        /\ First(b) + Ff(b).loops + Last(b) = Hf(b).loops + 1
        /\ First(b) # 1 /\ Last(b) = 1
    <3>1. Ff(b).loops = FaultRuns /\ Hf(b).loops = FaultRuns
      BY <2>3, <2>4, Zenon
    <3> QED
      BY <2>5, <3>1, FConstants
  <2> QED
    BY <2>2, <2>3, <2>4, <2>5, <2>6, Zenon
<1>7. b = 1 \/ b = 2 \/ b = 3 \/ b = 4 \/ b = 5 \/ b = 6
  OBVIOUS
<1> QED
  BY <1>1, <1>2, <1>3, <1>4, <1>5, <1>6, <1>7, Zenon

\* What the faulter's steps and the handler's replies do to the faults behind it.
LEMMA FBehind ==
  ASSUME NEW b \in 1..6, NEW i \in Nat, NEW n \in Nat
  PROVE  /\ First(b) = 1 => Behind("first", 0, b, 0)
         /\ First(b) # 1 => Behind("loop", 0, b, 0)
         /\ Behind("loop", i, b, n) /\ i < Ff(b).loops => Behind("fault", i, b, n)
         /\ Behind("loop", i, b, n) /\ i = Ff(b).loops =>
              Behind(IF Last(b) = 1 THEN "last" ELSE "done", i, b, n)
         /\ Behind("sample", i, b, n) => Behind("loop", i + 1, b, n)
         /\ Behind("first", i, b, n) => Behind("loop", i, b, n + 1)
         /\ Behind("fault", i, b, n) => Behind("sample", i, b, n + 1)
         /\ Behind("last", i, b, n) => Behind("done", i, b, n + 1)
<1>1. /\ First(b) \in {0, 1} /\ Last(b) \in {0, 1} /\ Ff(b).loops \in Nat /\ Ff(b).loops > 0
      /\ Hf(b).loops \in Nat /\ First(b) + Ff(b).loops + Last(b) = Hf(b).loops + 1
  BY FPairs, Zenon
<1> DEFINE f == First(b)
           m == Last(b)
           k == Ff(b).loops
<1> HIDE DEF f, m, k
<1>2. f \in {0, 1} /\ m \in {0, 1} /\ k \in Nat /\ k > 0
  BY <1>1, Zenon DEF f, m, k
<1>3. \A l : Behind(l, i, b, n) =
        \/ l = "first" /\ f = 1 /\ i = 0 /\ n = 0
        \/ l = "loop" /\ i <= k /\ n = f + i
        \/ l = "fault" /\ i < k /\ n = f + i
        \/ l = "sample" /\ i < k /\ n = f + i + 1
        \/ l = "last" /\ m = 1 /\ i = k /\ n = f + i
        \/ l = "done" /\ i = k /\ n = f + i + m
  BY Zenon DEF Behind, f, m, k
<1>4. First(b) = 1 => Behind("first", 0, b, 0)
  BY Zenon DEF Behind
<1>5. ASSUME f # 1 PROVE Behind("loop", 0, b, 0)
  <2>1. 0 <= k /\ 0 = f + 0
    BY <1>2, <1>5
  <2> QED
    BY <2>1, Zenon DEF Behind, f, k
<1>6. Behind("loop", i, b, n) /\ i < k => Behind("fault", i, b, n)
  BY <1>3, Zenon
<1>7. ASSUME Behind("loop", i, b, n), i = k
      PROVE  Behind(IF Last(b) = 1 THEN "last" ELSE "done", i, b, n)
  <2>1. n = f + i
    BY <1>3, <1>7, Zenon
  <2>2. CASE m = 1
    BY <1>3, <1>7, <2>1, <2>2, Zenon DEF m
  <2>3. CASE m # 1
    <3>1. n = f + i + m
      BY <1>2, <2>1, <2>3
    <3> QED
      BY <1>3, <1>7, <2>3, <3>1, Zenon DEF m
  <2> QED
    BY <2>2, <2>3, Zenon
<1>8. ASSUME Behind("sample", i, b, n) PROVE Behind("loop", i + 1, b, n)
  <2>1. i < k /\ n = f + i + 1
    BY <1>3, <1>8, Zenon
  <2>2. i + 1 <= k /\ n = f + (i + 1)
    BY <1>2, <2>1
  <2> QED
    BY <2>2, Zenon DEF Behind, f, k
<1>9. ASSUME Behind("first", i, b, n) PROVE Behind("loop", i, b, n + 1)
  <2>1. f = 1 /\ i = 0 /\ n = 0
    BY <1>3, <1>9, Zenon
  <2>2. i <= k /\ n + 1 = f + i
    BY <1>2, <2>1
  <2> QED
    BY <2>2, Zenon DEF Behind, f, k
<1>10. ASSUME Behind("fault", i, b, n) PROVE Behind("sample", i, b, n + 1)
  <2>1. i < k /\ n = f + i
    BY <1>3, <1>10, Zenon
  <2> QED
    BY <2>1, Zenon DEF Behind, f, k
<1>11. ASSUME Behind("last", i, b, n) PROVE Behind("done", i, b, n + 1)
  <2>1. m = 1 /\ i = k /\ n = f + i
    BY <1>3, <1>11, Zenon
  <2> QED
    BY <2>1, Zenon DEF Behind, f, k, m
<1> QED
  BY <1>4, <1>5, <1>6, <1>7, <1>8, <1>9, <1>10, <1>11, Zenon DEF f, k

\* Where the faulter is before the first and after the last fault.
LEMMA FWhere ==
  ASSUME NEW b \in 1..6, NEW i \in Nat, NEW l
  PROVE  /\ \A n \in Nat : Behind(l, i, b, n) =>
              l \in {"first", "loop", "fault", "sample", "last", "done"}
         /\ Behind(l, i, b, 0) => l \in {"first", "loop", "fault"} /\ i = 0
         /\ \A n \in Nat : Behind(l, i, b, n) /\ n <= Hf(b).loops =>
              l # "done" /\ (l = "loop" /\ i = Ff(b).loops => Last(b) = 1)
         /\ Behind(l, i, b, Hf(b).loops + 1) =>
              l \in {"loop", "sample", "done"} /\ (l = "loop" => i = Ff(b).loops)
         /\ \A n \in Nat : Behind(l, i, b, n + 1) /\ l = "fault" /\ First(b) = 0 => i > 0
         /\ \A n : Behind(l, i, b, n) /\ l = "first" => First(b) = 1
         /\ \A n : Behind(l, i, b, n) /\ l = "last" => Last(b) = 1
         /\ Behind(l, i, b, Hf(b).loops + 1) /\ l = "sample" /\ First(b) = 1 =>
              i + 1 = Hf(b).loops
<1>1. /\ First(b) \in {0, 1} /\ Last(b) \in {0, 1} /\ Ff(b).loops \in Nat /\ Ff(b).loops > 0
      /\ Hf(b).loops \in Nat /\ First(b) + Ff(b).loops + Last(b) = Hf(b).loops + 1
  BY FPairs, Zenon
<1> QED
  BY <1>1, SMTT(90) DEF Behind

-----------------------------------------------------------------------------
(* What the kernel does to the threads of the fault application.           *)

\* The states of a thread differ, and nobody is ever blocked in a send.
LEMMA FStates ==
  /\ F!Running # F!Inactive /\ F!Running # F!AwaitingReply /\ F!Running # FCalling
  /\ F!Running # FReceiving /\ F!Running # FCollecting /\ F!Inactive # F!AwaitingReply
  /\ F!Inactive # FCalling /\ F!Inactive # FReceiving /\ F!Inactive # FCollecting
  /\ F!AwaitingReply # FCalling /\ F!AwaitingReply # FReceiving
  /\ F!AwaitingReply # FCollecting /\ FCalling # FReceiving /\ FCalling # FCollecting
  /\ FReceiving # FCollecting
  /\ FState = {F!Running, F!Inactive, F!AwaitingReply, FCalling, FReceiving, FCollecting}
  /\ \A s \in FState : s # F!SendingTo(F!FaultEp) /\ s # F!SendingTo(F!DoneEp)
<1> USE DEF FState, FCalling, FReceiving, FCollecting, F!Running, F!Inactive,
            F!AwaitingReply, F!CallingOn, F!RecvingOn, F!SendingTo, F!FaultEp, F!DoneEp
<1>1. /\ F!Running # F!Inactive /\ F!Running # F!AwaitingReply /\ F!Running # FCalling
      /\ F!Running # FReceiving /\ F!Running # FCollecting /\ F!Inactive # F!AwaitingReply
      /\ F!Inactive # FCalling /\ F!Inactive # FReceiving /\ F!Inactive # FCollecting
  BY Zenon
<1>2. /\ F!AwaitingReply # FCalling /\ F!AwaitingReply # FReceiving
      /\ F!AwaitingReply # FCollecting /\ FCalling # FReceiving /\ FCalling # FCollecting
      /\ FReceiving # FCollecting
  BY Zenon
<1>3. FState = {F!Running, F!Inactive, F!AwaitingReply, FCalling, FReceiving, FCollecting}
  BY Zenon
<1>4. \A s \in FState : s # F!SendingTo(F!FaultEp) /\ s # F!SendingTo(F!DoneEp)
  BY SMT
<1> HIDE DEF FState, FCalling, FReceiving, FCollecting, F!Running, F!Inactive,
             F!AwaitingReply, F!CallingOn, F!RecvingOn, F!SendingTo, F!FaultEp, F!DoneEp
<1> QED
  BY <1>1, <1>2, <1>3, <1>4, Zenon

\* Who can run with which scheduling contexts, and what a fault and a reply do to them.
LEMMA FContexts ==
  ASSUME mcs \in BOOLEAN
  PROVE  /\ \A t \in F!Thread : F!HasSc(t, Own)
         /\ F!HasSc("main", Idle) /\ F!HasSc("faulter", Idle)
         /\ F!HasSc("handler", Idle) <=> ~mcs
         /\ F!HasSc("main", Lent) /\ F!HasSc("handler", Lent)
         /\ F!Passed(Idle, "faulter", "handler") = Lent
         /\ F!Passed(Lent, "handler", "faulter") = Idle
         /\ ~mcs => Idle = Own
<1>1. /\ Own["main"] = "main" /\ Own["faulter"] = "faulter" /\ Own["handler"] = "handler"
      /\ DOMAIN Own = F!Thread
  BY FConstants, Zenon DEF Own
<1>2. CASE mcs
  <2>1. /\ Idle["main"] = "main" /\ Idle["faulter"] = "faulter" /\ Idle["handler"] = NoThread
        /\ DOMAIN Idle = F!Thread /\ Idle = [t \in F!Thread |-> Idle[t]]
        /\ Lent["main"] = "main" /\ Lent["faulter"] = "handler" /\ Lent["handler"] = NoThread
        /\ DOMAIN Lent = F!Thread /\ Lent = [t \in F!Thread |-> Lent[t]]
    BY <1>1, <1>2, FConstants, Zenon DEF Idle, Lent, Own
  <2>2. F!HasSc("faulter", Idle) /\ ~F!HasSc("handler", Idle) /\ F!HasSc("main", Idle)
    BY <2>1, FConstants, Zenon DEF F!HasSc
  <2>3. ~F!HasSc("faulter", Lent) /\ F!HasSc("handler", Lent) /\ F!HasSc("main", Lent)
    BY <2>1, FConstants, Zenon DEF F!HasSc
  <2>4. F!Passed(Idle, "faulter", "handler") = Lent
    <3>1. F!Passed(Idle, "faulter", "handler")
            = [t \in F!Thread |-> IF Idle[t] = "faulter" THEN "handler" ELSE Idle[t]]
      BY <2>1, <2>2, Zenon DEF F!Passed
    <3>2. \A t \in F!Thread : Lent[t] = IF Idle[t] = "faulter" THEN "handler" ELSE Idle[t]
      BY <2>1, FConstants, Zenon
    <3> QED
      BY <2>1, <3>1, <3>2, Zenon
  <2>5. F!Passed(Lent, "handler", "faulter") = Idle
    <3>1. F!Passed(Lent, "handler", "faulter")
            = [t \in F!Thread |-> IF Lent[t] = "handler" THEN "faulter" ELSE Lent[t]]
      BY <2>1, <2>3, Zenon DEF F!Passed
    <3>2. \A t \in F!Thread : Idle[t] = IF Lent[t] = "handler" THEN "faulter" ELSE Lent[t]
      BY <2>1, FConstants, Zenon
    <3> QED
      BY <2>1, <3>1, <3>2, Zenon
  <2> QED
    BY <1>1, <1>2, <2>2, <2>3, <2>4, <2>5, FConstants, Zenon DEF F!HasSc
<1>3. CASE ~mcs
  <2>1. Idle = Own /\ Lent = Own
    BY <1>3, Zenon DEF Idle, Lent
  <2>2. \A t \in F!Thread : F!HasSc(t, Own)
    BY <1>1, FConstants, Zenon DEF F!HasSc
  <2>3. \A t \in F!Thread, u \in F!Thread : F!Passed(Own, t, u) = Own
    BY <1>1, <2>2, Zenon DEF F!Passed, Own
  <2> QED
    BY <1>3, <2>1, <2>2, <2>3, FConstants, Zenon
<1> QED
  BY <1>2, <1>3, Zenon

\* The priorities: main is above the faulter and the faulter above the handler.
LEMMA FOrder ==
  ASSUME FTypeOK, NEW t \in F!Thread, F!Scheduled(t, F!prio), f_sc \in {Own, Idle, Lent}
  PROVE  /\ f_tcb[t] = F!Running
         /\ t # "main" => f_tcb["main"] # F!Running
         /\ t = "handler" /\ (f_sc = Own \/ f_sc = Idle) => f_tcb["faulter"] # F!Running
         /\ t = "handler" /\ mcs => f_sc # Idle
<1>1. DOMAIN f_tcb = F!Thread /\ mcs \in BOOLEAN
  BY Zenon DEF FTypeOK
<1>2. F!prio["main"] = 2 /\ F!prio["faulter"] = 1 /\ F!prio["handler"] = 0
  BY FConstants, Zenon DEF F!prio, F!Main, F!Faulter, F!Handler
<1>3. F!Ready(t) /\ \A u \in F!Thread : F!Ready(u) => F!prio[u] <= F!prio[t]
  BY <1>1, Zenon DEF F!Scheduled
<1>4. F!Ready("main") <=> f_tcb["main"] = F!Running
  BY <1>1, FConstants, FContexts, Zenon DEF F!Ready
<1>5. f_sc = Own \/ f_sc = Idle => (F!Ready("faulter") <=> f_tcb["faulter"] = F!Running)
  BY <1>1, FConstants, FContexts, Zenon DEF F!Ready
<1>6. f_tcb[t] = F!Running /\ F!HasSc(t, f_sc)
  BY <1>3, Zenon DEF F!Ready
<1>7. t # "main" => ~F!Ready("main")
  BY <1>2, <1>3, FConstants
<1>8. t = "handler" => ~F!Ready("faulter")
  BY <1>2, <1>3, FConstants
<1> QED
  BY <1>1, <1>4, <1>5, <1>6, <1>7, <1>8, FContexts, Zenon

\* A fault: the handler gets the message, or the faulter waits for it to receive.
LEMMA FCalls ==
  ASSUME FTypeOK, F!Call("faulter", F!FaultEp), f_tcb["faulter"] = F!Running,
         f_tcb["main"] # FReceiving
  PROVE  /\ f_tcb["handler"] = FReceiving =>
              /\ f_tcb' = [f_tcb EXCEPT !["handler"] = F!Running,
                                          !["faulter"] = F!AwaitingReply]
              /\ f_caller' = [f_caller EXCEPT !["handler"] = "faulter"]
              /\ f_sc' = F!Passed(f_sc, "faulter", "handler")
         /\ f_tcb["handler"] # FReceiving =>
              f_tcb' = [f_tcb EXCEPT !["faulter"] = FCalling] /\ UNCHANGED <<f_caller, f_sc>>
<1>1. F!Blocked(FReceiving) = {u \in F!Thread : f_tcb[u] = FReceiving}
  BY Zenon DEF FTypeOK, F!Blocked
<1>2. CASE f_tcb["handler"] = FReceiving
  <2>1. F!Blocked(FReceiving) = {"handler"}
    BY <1>1, <1>2, FConstants, FStates, Zenon
  <2> QED
    BY <1>2, <2>1, Zenon DEF F!Call, FReceiving
<1>3. CASE f_tcb["handler"] # FReceiving
  <2>1. F!Blocked(FReceiving) = {}
    BY <1>1, <1>3, FConstants, FStates, Zenon
  <2> QED
    BY <1>3, <2>1, Zenon DEF F!Call, FReceiving, F!SetState, FCalling
<1> QED
  BY <1>2, <1>3, Zenon

\* A receive of the handler: it takes the faulter's message or waits for one.
LEMMA FTakes ==
  ASSUME NEW T \in [F!Thread -> FState], NEW ctx, F!RecvIn("handler", F!FaultEp, T, ctx),
         T["main"] # FCalling, T["handler"] # FCalling
  PROVE  /\ T["faulter"] = FCalling =>
              /\ f_tcb' = [T EXCEPT !["faulter"] = F!AwaitingReply]
              /\ f_caller' = [f_caller EXCEPT !["handler"] = "faulter"]
              /\ f_sc' = F!Passed(ctx, "faulter", "handler")
         /\ T["faulter"] # FCalling =>
              /\ f_tcb' = [T EXCEPT !["handler"] = FReceiving]
              /\ f_caller' = [f_caller EXCEPT !["handler"] = NoThread]
              /\ f_sc' = ctx
<1>1. DOMAIN T = F!Thread /\ \A u \in F!Thread : T[u] # F!SendingTo(F!FaultEp)
  BY FStates, Zenon
<1>2. CASE T["faulter"] = FCalling
  <2>1. \A u \in F!Thread : T[u] = FCalling <=> u = "faulter"
    BY <1>2, FConstants, Zenon
  <2> QED
    BY <1>1, <1>2, <2>1, FConstants, Zenon DEF F!RecvIn, FCalling
<1>3. CASE T["faulter"] # FCalling
  <2>1. \A u \in F!Thread : T[u] # FCalling
    BY <1>3, FConstants, Zenon
  <2> QED
    BY <1>1, <1>3, <2>1, Zenon DEF F!RecvIn, FCalling, FReceiving
<1> QED
  BY <1>2, <1>3, Zenon

\* A message to main, which receives it; main never finds one waiting.
LEMMA FSends ==
  ASSUME FTypeOK, NEW t, F!Send(t, F!DoneEp), f_tcb["main"] = FCollecting,
         f_tcb["faulter"] # FCollecting, f_tcb["handler"] # FCollecting
  PROVE  f_tcb' = [f_tcb EXCEPT !["main"] = F!Running]
<1>1. F!Blocked(FCollecting) = {u \in F!Thread : f_tcb[u] = FCollecting}
  BY Zenon DEF FTypeOK, F!Blocked
<1>2. F!Blocked(FCollecting) = {"main"}
  BY <1>1, FConstants, Zenon
<1> QED
  BY <1>2, Zenon DEF F!Send, FCollecting, F!SetState

\* seL4_Recv of main on done_ep when nobody sends there yet: main blocks.
LEMMA FReceives ==
  ASSUME FTypeOK, F!Recv("main", F!DoneEp)
  PROVE  f_tcb' = [f_tcb EXCEPT !["main"] = FCollecting]
<1>1. F!Blocked(F!SendingTo(F!DoneEp)) = {u \in F!Thread : f_tcb[u] = F!SendingTo(F!DoneEp)}
  BY Zenon DEF FTypeOK, F!Blocked
<1>2. F!Blocked(F!SendingTo(F!DoneEp)) = {}
  BY <1>1, FStates, Zenon DEF FTypeOK
<1> QED
  BY <1>2, Zenon DEF F!Recv, FCollecting, F!SetState

\* A step of a thread moves its label only.
LEMMA FMovesOn ==
  ASSUME FTypeOK, NEW t \in F!Thread, NEW l, NEW m \in FLabel, F!Step(t, l, m)
  PROVE  /\ f_pc[t] = l /\ f_pc'[t] = m
         /\ \A u \in F!Thread : u # t => f_pc'[u] = f_pc[u]
         /\ f_pc' \in [F!Thread -> FLabel]
BY Zenon DEF FTypeOK, F!Step

-----------------------------------------------------------------------------
(* The fault application: one lemma for every step.                        *)

\* How the joint states follow each other.
FProceeds ==
  \/ /\ bench' = bench
     /\ \/ FApart /\ FStarting'
        \/ FStarting /\ (FStarting' \/ FMeasuring')
        \/ FMeasuring /\ (FMeasuring' \/ FReturned')
        \/ FReturned /\ (FReturned' \/ FStopped')
        \/ FStopped /\ FStopped'
  \/ bench' = bench + 1 /\ FStopped /\ FApart'

\* The parts of the invariant that the steps of run_benchmark and of the children use.
LEMMA FBasics ==
  ASSUME FInv
  PROVE  /\ FTypeOK /\ FJoint /\ f_sc \in {Own, Idle, Lent}
         /\ bench \in 1..6 => FStamps /\ FSampled
<1>1. FTypeOK /\ FJoint /\ (bench < 7 => FStamps /\ FSampled)
  BY Zenon DEF FInv
<1>2. f_sc \in {Own, Idle, Lent}
  BY <1>1, Zenon DEF FJoint, FApart, FInitialising, FPrepared, FUntouched, FBefore, FFaulted,
                     FReplied, FEnding, FReturned, FStopped
<1>3. bench \in 1..6 => bench < 7
  OBVIOUS
<1> QED
  BY <1>1, <1>2, <1>3, Zenon

\* The counters of the two loops are numbers, and so are their bounds.
LEMMA FNumbers ==
  ASSUME FTypeOK, bench \in 1..6
  PROVE  /\ Raised \in Nat /\ Handled \in Nat /\ Handled + 1 \in Nat /\ 0 \in Nat
         /\ Ff(bench).loops \in Nat /\ 0 < Ff(bench).loops /\ Hf(bench).loops \in Nat
         /\ Hf(bench).loops + 1 \in Nat /\ 0 <= Hf(bench).loops
         /\ Handled < Hf(bench).loops => Handled + 1 <= Hf(bench).loops
         /\ Raised < Ff(bench).loops => Raised # Ff(bench).loops
<1>1. Ff(bench).loops \in Nat /\ Ff(bench).loops > 0 /\ Hf(bench).loops \in Nat
  BY FPairs, Zenon
<1>2. Raised \in Nat /\ Handled \in Nat
  BY FConstants, Zenon DEF FTypeOK, Raised, Handled
<1> QED
  BY <1>1, <1>2

\* CONFIG_KERNEL_MCS and what follows from it for the scheduling contexts do not change.
LEMMA FSame ==
  ASSUME mcs' = mcs
  PROVE  Idle' = Idle /\ Lent' = Lent /\ (mcs' <=> mcs)
<1>1. Idle' = Idle /\ Lent' = Lent
  BY Zenon DEF Idle, Lent
<1>2. mcs' <=> mcs
  OBVIOUS
<1> QED
  BY <1>1, <1>2, Zenon

\* Main goes on waiting.
LEMMA FMainStays ==
  ASSUME MainWaits, mcs' = mcs, f_pc'["main"] = f_pc["main"], f_tcb'["main"] = f_tcb["main"]
  PROVE  MainWaits'
<1>1. CASE mcs
  <2>1. mcs'
    BY <1>1, Zenon
  <2> QED
    BY <1>1, <2>1, Zenon DEF MainWaits, FAt
<1>2. CASE ~mcs
  <2>1. ~mcs'
    BY <1>2, Zenon
  <2> QED
    BY <1>2, <2>1, Zenon DEF MainWaits, FAt
<1> QED
  BY <1>1, <1>2, Zenon

\* The invariant is there again.
LEMMA FRestored ==
  ASSUME FTypeOK', FJoint', bench' \in 1..6 => FStamps' /\ FSampled'
  PROVE  FInv'
<1>1. bench' \in 1..7
  BY Zenon DEF FTypeOK
<1>2. bench' < 7 => bench' \in 1..6
  BY <1>1
<1> QED
  BY <1>2, Zenon DEF FInv

\* run_benchmark starts the handler.
LEMMA FStartsHandler ==
  ASSUME FInv, F!Scheduled("main", F!prio), F!StartHandler, UNCHANGED F!Kept
  PROVE  FInv' /\ FProceeds
<1>1. FTypeOK /\ FJoint /\ f_sc \in {Own, Idle, Lent}
  BY FBasics, Zenon
<1>2. f_tcb["main"] = F!Running
  BY <1>1, FConstants, FOrder, Zenon
<1>3. /\ f_pc["main"] = "start_handler"
      /\ f_pc' = [f_pc EXCEPT !["handler"] = "begin",
                              !["main"] = IF mcs THEN "wait_init" ELSE "start_faulter"]
      /\ f_tcb' = [f_tcb EXCEPT !["handler"] = F!Running]
      /\ f_iter' = [f_iter EXCEPT !["handler"] = 0]
      /\ f_caller' = f_caller /\ f_sc' = f_sc /\ bench' = bench
      /\ f_start' = f_start /\ f_sample' = f_sample /\ f_clock' = f_clock /\ mcs' = mcs
  BY Zenon DEF F!StartHandler, F!SetState, F!Main, F!Handler, F!Kept
<1>4. FApart /\ bench \in 1..6
  <2>1. FApart
    BY <1>1, <1>2, <1>3, Zenon
       DEF FJoint, FAt, MainWaits, FInitialising, FPrepared, FUntouched, FBefore, FFaulted,
           FReplied, FEnding, FReturned, FStopped
  <2> QED
    BY <1>3, <2>1, Zenon DEF FApart, FAt
<1>5. /\ f_pc'["handler"] = "begin" /\ f_pc'["faulter"] = f_pc["faulter"]
      /\ f_pc'["main"] = IF mcs THEN "wait_init" ELSE "start_faulter"
      /\ f_pc' \in [F!Thread -> FLabel]
  BY <1>1, <1>3, FConstants, Zenon DEF FTypeOK, FLabel
<1>6. /\ f_tcb'["handler"] = F!Running /\ f_tcb'["faulter"] = f_tcb["faulter"]
      /\ f_tcb'["main"] = F!Running /\ f_tcb' \in [F!Thread -> FState]
  BY <1>1, <1>2, <1>3, FConstants, Zenon DEF FTypeOK
<1>7. f_iter' \in [F!Child -> Nat] /\ Handled' = 0 /\ ~(Handled' > 0)
  BY <1>1, <1>3, FConstants DEF FTypeOK, Handled
<1>8. FTypeOK'
  BY <1>1, <1>3, <1>5, <1>6, <1>7, Zenon DEF FTypeOK
<1>9. mcs => FInitialising'
  BY <1>3, <1>4, <1>5, <1>6, <1>7, Zenon DEF FApart, FInitialising, FAt
<1>10. ~mcs => FPrepared'
  <2>1. ~mcs => Own = Idle'
    BY <1>3, FSame, Zenon DEF Idle
  <2> QED
    BY <1>3, <1>4, <1>5, <1>6, <1>7, <2>1, Zenon DEF FApart, FPrepared, FUntouched, FAt
<1>11. FStamps' /\ FSampled'
  BY <1>4, <1>5, <1>7, Zenon DEF FApart, FAt, FStamps, FSampled
<1>12. FInv'
  BY <1>8, <1>9, <1>10, <1>11, FRestored, Zenon DEF FJoint
<1> QED
  BY <1>3, <1>4, <1>9, <1>10, <1>12, Zenon DEF FProceeds, FStarting

\* It starts the faulter.
LEMMA FStartsFaulter ==
  ASSUME FInv, F!Scheduled("main", F!prio), F!StartFaulter, UNCHANGED F!Kept
  PROVE  FInv' /\ FProceeds
<1>1. FTypeOK /\ FJoint /\ f_sc \in {Own, Idle, Lent}
  BY FBasics, Zenon
<1>2. f_tcb["main"] = F!Running
  BY <1>1, FConstants, FOrder, Zenon
<1>3. /\ f_pc["main"] = "start_faulter"
      /\ f_pc' = [f_pc EXCEPT !["faulter"] = IF Ff(bench).first THEN "first" ELSE "loop",
                              !["main"] = "wait_faulter"]
      /\ f_tcb' = [f_tcb EXCEPT !["faulter"] = F!Running]
      /\ f_iter' = [f_iter EXCEPT !["faulter"] = 0]
      /\ f_caller' = f_caller /\ f_sc' = f_sc /\ bench' = bench
      /\ f_start' = f_start /\ f_sample' = f_sample /\ f_clock' = f_clock /\ mcs' = mcs
  BY Zenon DEF F!StartFaulter, F!SetState, F!Main, F!Faulter, F!Kept, F!faulter_fn, Ff
<1>4. FPrepared
  BY <1>1, <1>2, <1>3, Zenon
     DEF FJoint, FAt, MainWaits, FApart, FInitialising, FBefore, FFaulted, FReplied,
         FEnding, FReturned, FStopped
<1>5. bench \in 1..6 /\ FStamps /\ FSampled
  BY <1>4, FBasics, Zenon DEF FPrepared, FUntouched
<1>6. /\ f_pc'["faulter"] = IF First(bench) = 1 THEN "first" ELSE "loop"
      /\ f_pc'["handler"] = f_pc["handler"] /\ f_pc'["main"] = "wait_faulter"
      /\ f_pc' \in [F!Thread -> FLabel]
  BY <1>1, <1>3, <1>5, FConstants, FPairs, Zenon DEF FTypeOK, FLabel
<1>7. /\ f_tcb'["handler"] = f_tcb["handler"] /\ f_tcb'["faulter"] = F!Running
      /\ f_tcb'["main"] = F!Running /\ f_tcb' \in [F!Thread -> FState]
  BY <1>1, <1>2, <1>3, FConstants, Zenon DEF FTypeOK
<1>8. f_iter' \in [F!Child -> Nat] /\ Raised' = 0 /\ Raised' \notin 2..FaultRuns
      /\ Handled' = Handled
  BY <1>1, <1>3, FConstants DEF FTypeOK, Raised, Handled
<1>9. FTypeOK'
  BY <1>1, <1>3, <1>6, <1>7, <1>8, Zenon DEF FTypeOK
<1>10. Agree(0)'
  <2>1. 0 \in Nat
    OBVIOUS
  <2> QED
    BY <1>3, <1>5, <1>6, <1>8, <2>1, FConstants, FBehind, Zenon DEF Agree
<1>11. FBefore'
  <2>1. FUntouched'
    BY <1>3, <1>4, <1>6, <1>7, <1>8, FSame, Zenon DEF FPrepared, FUntouched, FAt
  <2> QED
    BY <1>6, <1>7, <1>10, <2>1, Zenon DEF FBefore, FAt
<1>12. FStamps' /\ FSampled'
  <2>1. f_pc["handler"] # "reply" /\ f_pc["handler"] # "sample" /\ f_pc["handler"] # "off"
    BY <1>4, Zenon DEF FPrepared, FUntouched, FAt
  <2> QED
    BY <1>3, <1>5, <1>6, <1>8, <2>1, FConstants, Zenon DEF FStamps, FSampled
<1>13. FInv'
  BY <1>9, <1>11, <1>12, FRestored, Zenon DEF FJoint
<1> QED
  BY <1>3, <1>4, <1>11, <1>13, Zenon DEF FProceeds, FStarting, FMeasuring

\* A step of main that moves only main and perhaps a context.
LEMMA FMainKeeps ==
  ASSUME FTypeOK, FStamps, FSampled,
         NEW l \in FLabel, f_pc' = [f_pc EXCEPT !["main"] = l],
         NEW s \in FState, f_tcb' = [f_tcb EXCEPT !["main"] = s],
         UNCHANGED <<f_caller, f_iter, bench>>, UNCHANGED F!Kept
  PROVE  /\ FTypeOK' /\ FStamps' /\ FSampled'
         /\ f_pc'["main"] = l /\ f_tcb'["main"] = s
         /\ f_pc'["faulter"] = f_pc["faulter"] /\ f_tcb'["faulter"] = f_tcb["faulter"]
         /\ f_pc'["handler"] = f_pc["handler"] /\ f_tcb'["handler"] = f_tcb["handler"]
         /\ Raised' = Raised /\ Handled' = Handled /\ f_caller' = f_caller
         /\ bench' = bench /\ mcs' = mcs
<1>1. /\ f_caller' = f_caller /\ f_iter' = f_iter /\ bench' = bench /\ f_start' = f_start
      /\ f_sample' = f_sample /\ f_clock' = f_clock /\ mcs' = mcs
  BY Zenon DEF F!Kept
<1>2. /\ f_pc'["main"] = l /\ f_tcb'["main"] = s
      /\ f_pc'["faulter"] = f_pc["faulter"] /\ f_tcb'["faulter"] = f_tcb["faulter"]
      /\ f_pc'["handler"] = f_pc["handler"] /\ f_tcb'["handler"] = f_tcb["handler"]
      /\ f_pc' \in [F!Thread -> FLabel] /\ f_tcb' \in [F!Thread -> FState]
  BY FConstants, Zenon DEF FTypeOK
<1>3. Raised' = Raised /\ Handled' = Handled
  BY <1>1, Zenon DEF Raised, Handled
<1>4. FTypeOK'
  BY <1>1, <1>2, Zenon DEF FTypeOK
<1>5. FStamps' /\ FSampled'
  BY <1>1, <1>2, <1>3, FConstants, Zenon DEF FStamps, FSampled
<1> QED
  BY <1>1, <1>2, <1>3, <1>4, <1>5, Zenon

\* It waits for a child.
LEMMA FWaits ==
  ASSUME FInv, F!Scheduled("main", F!prio), F!WaitChild, UNCHANGED F!Kept
  PROVE  FInv' /\ FProceeds
<1>1. FTypeOK /\ FJoint /\ f_sc \in {Own, Idle, Lent}
  BY FBasics, Zenon
<1>2. f_tcb["main"] = F!Running
  BY <1>1, FConstants, FOrder, Zenon
<1>3. /\ f_tcb' = [f_tcb EXCEPT !["main"] = FCollecting]
      /\ f_caller' = f_caller /\ f_sc' = f_sc /\ f_iter' = f_iter /\ bench' = bench
  BY <1>1, FReceives, Zenon DEF F!WaitChild, F!Main
<1>4. mcs' = mcs /\ Idle' = Idle
  BY FSame, Zenon DEF F!Kept
<1>5. CASE F!Step("main", "wait_init", "unbind")
  <2>1. f_pc["main"] = "wait_init" /\ f_pc' = [f_pc EXCEPT !["main"] = "unbind"]
    BY <1>5, Zenon DEF F!Step
  <2>2. FInitialising
    BY <1>1, <1>2, <2>1, Zenon
       DEF FJoint, FAt, MainWaits, FApart, FPrepared, FUntouched, FBefore, FFaulted,
           FReplied, FEnding, FReturned, FStopped
  <2>3. bench \in 1..6 /\ FStamps /\ FSampled
    BY <2>2, FBasics, Zenon DEF FInitialising
  <2>4. /\ FTypeOK' /\ FStamps' /\ FSampled'
        /\ f_pc'["main"] = "unbind" /\ f_tcb'["main"] = FCollecting
        /\ f_pc'["faulter"] = f_pc["faulter"] /\ f_tcb'["faulter"] = f_tcb["faulter"]
        /\ f_pc'["handler"] = f_pc["handler"] /\ f_tcb'["handler"] = f_tcb["handler"]
        /\ Handled' = Handled
    BY <1>1, <1>3, <2>1, <2>3, FStates, FMainKeeps, Zenon DEF FLabel
  <2>5. FInitialising'
    BY <1>3, <1>4, <2>1, <2>2, <2>4, Zenon DEF FInitialising, FAt
  <2> QED
    BY <1>3, <2>2, <2>4, <2>5, FRestored, Zenon DEF FJoint, FProceeds, FStarting
<1>6. CASE F!Step("main", "wait_faulter", IF mcs THEN "bind" ELSE "wait_handler")
  <2>1. /\ f_pc["main"] = "wait_faulter"
        /\ f_pc' = [f_pc EXCEPT !["main"] = IF mcs THEN "bind" ELSE "wait_handler"]
    BY <1>6, Zenon DEF F!Step
  <2>2. FBefore
    BY <1>1, <1>2, <2>1, Zenon
       DEF FJoint, FAt, MainWaits, FApart, FInitialising, FPrepared, FFaulted, FReplied,
           FEnding, FReturned, FStopped
  <2>3. bench \in 1..6 /\ FStamps /\ FSampled
    BY <2>2, FBasics, Zenon DEF FBefore, FUntouched
  <2>4. (IF mcs THEN "bind" ELSE "wait_handler") \in FLabel
    BY Zenon DEF FLabel
  <2>5. /\ FTypeOK' /\ FStamps' /\ FSampled'
        /\ f_pc'["main"] = IF mcs THEN "bind" ELSE "wait_handler"
        /\ f_tcb'["main"] = FCollecting
        /\ f_pc'["faulter"] = f_pc["faulter"] /\ f_tcb'["faulter"] = f_tcb["faulter"]
        /\ f_pc'["handler"] = f_pc["handler"] /\ f_tcb'["handler"] = f_tcb["handler"]
        /\ Raised' = Raised /\ Handled' = Handled
    BY <1>1, <1>3, <2>1, <2>3, <2>4, FStates, FMainKeeps, Zenon
  <2>6. f_tcb["faulter"] = F!Running
    BY <1>2, <2>2, FStates, Zenon DEF FBefore, MainWaits, FAt
  <2>7. FBefore'
    <3>1. FUntouched'
      BY <1>3, <1>4, <2>2, <2>5, Zenon DEF FBefore, FUntouched, FAt
    <3>2. Agree(0)'
      BY <1>3, <2>2, <2>5, Zenon DEF FBefore, Agree
    <3> QED
      BY <1>4, <2>5, <2>6, <3>1, <3>2, Zenon DEF FBefore, MainWaits, FAt
  <2> QED
    BY <1>3, <2>2, <2>5, <2>7, FRestored, Zenon DEF FJoint, FProceeds, FMeasuring
<1>7. CASE F!Step("main", "wait_handler", "suspend_faulter")
  <2>1. f_pc["main"] = "wait_handler" /\ f_pc' = [f_pc EXCEPT !["main"] = "suspend_faulter"]
    BY <1>7, Zenon DEF F!Step
  <2>2. FReturned
    BY <1>1, <1>2, <2>1, FStates, Zenon
       DEF FJoint, FAt, MainWaits, FApart, FInitialising, FPrepared, FUntouched, FBefore,
           FFaulted, FReplied, FEnding, FStopped
  <2>3. bench \in 1..6 /\ FStamps /\ FSampled
    BY <2>2, FBasics, Zenon DEF FReturned
  <2>4. /\ FTypeOK' /\ FStamps' /\ FSampled'
        /\ f_pc'["main"] = "suspend_faulter" /\ f_tcb'["main"] = FCollecting
        /\ f_pc'["faulter"] = f_pc["faulter"] /\ f_tcb'["faulter"] = f_tcb["faulter"]
        /\ f_pc'["handler"] = f_pc["handler"] /\ f_tcb'["handler"] = f_tcb["handler"]
    BY <1>1, <1>3, <2>1, <2>3, FStates, FMainKeeps, Zenon DEF FLabel
  <2>5. FReturned'
    BY <1>2, <1>3, <2>1, <2>2, <2>4, Zenon DEF FReturned, FAt
  <2> QED
    BY <1>3, <2>2, <2>4, <2>5, FRestored, Zenon DEF FJoint, FProceeds
<1> QED
  BY <1>5, <1>6, <1>7, Zenon DEF F!WaitChild, F!Main

\* It makes the handler passive, and active again.
LEMMA FConverts ==
  ASSUME FInv, F!Scheduled("main", F!prio), F!ConvertHandler, UNCHANGED F!Kept
  PROVE  FInv' /\ FProceeds
<1>1. FTypeOK /\ FJoint /\ f_sc \in {Own, Idle, Lent}
  BY FBasics, Zenon
<1>2. f_tcb["main"] = F!Running
  BY <1>1, FConstants, FOrder, Zenon
<1>3. /\ f_tcb' = f_tcb /\ f_caller' = f_caller /\ f_iter' = f_iter /\ bench' = bench
      /\ mcs' = mcs
  BY Zenon DEF F!ConvertHandler, F!UnbindSc, F!BindSc, F!Kept
<1>4. f_tcb' = [f_tcb EXCEPT !["main"] = F!Running]
  BY <1>1, <1>2, <1>3, Zenon DEF FTypeOK
<1>5. Idle' = Idle
  BY <1>3, FSame, Zenon
<1>6. CASE F!Step("main", "unbind", "start_faulter") /\ F!UnbindSc("handler")
  <2>1. /\ f_pc["main"] = "unbind" /\ f_pc' = [f_pc EXCEPT !["main"] = "start_faulter"]
        /\ f_sc' = [f_sc EXCEPT !["handler"] = NoThread]
    BY <1>6, Zenon DEF F!Step, F!UnbindSc
  <2>2. FInitialising
    BY <1>1, <1>2, <2>1, Zenon
       DEF FJoint, FAt, MainWaits, FApart, FPrepared, FUntouched, FBefore, FFaulted,
           FReplied, FEnding, FReturned, FStopped
  <2>3. bench \in 1..6 /\ FStamps /\ FSampled
    BY <2>2, FBasics, Zenon DEF FInitialising
  <2>4. /\ FTypeOK' /\ FStamps' /\ FSampled'
        /\ f_pc'["main"] = "start_faulter" /\ f_tcb'["main"] = F!Running
        /\ f_pc'["faulter"] = f_pc["faulter"] /\ f_tcb'["faulter"] = f_tcb["faulter"]
        /\ f_pc'["handler"] = f_pc["handler"] /\ f_tcb'["handler"] = f_tcb["handler"]
        /\ Handled' = Handled
    BY <1>1, <1>3, <1>4, <2>1, <2>3, FStates, FMainKeeps, Zenon DEF FLabel
  <2>5. FPrepared'
    <3>1. f_sc' = Idle
      BY <2>1, <2>2, Zenon DEF FInitialising, Idle
    <3> QED
      BY <1>2, <1>3, <1>5, <2>1, <2>2, <2>4, <3>1, FStates, Zenon
         DEF FInitialising, FPrepared, FUntouched, FAt
  <2> QED
    BY <1>3, <2>2, <2>4, <2>5, FRestored, Zenon DEF FJoint, FProceeds, FStarting
<1>7. CASE F!Step("main", "bind", "wait_handler") /\ F!BindSc("handler")
  <2>1. /\ f_pc["main"] = "bind" /\ f_pc' = [f_pc EXCEPT !["main"] = "wait_handler"]
        /\ f_sc' = [f_sc EXCEPT !["handler"] = "handler"]
    BY <1>7, Zenon DEF F!Step, F!BindSc
  <2>2. FReturned
    BY <1>1, <1>2, <2>1, FStates, Zenon
       DEF FJoint, FAt, MainWaits, FApart, FInitialising, FPrepared, FUntouched, FBefore,
           FFaulted, FReplied, FEnding, FStopped
  <2>3. bench \in 1..6 /\ FStamps /\ FSampled
    BY <2>2, FBasics, Zenon DEF FReturned
  <2>4. /\ FTypeOK' /\ FStamps' /\ FSampled'
        /\ f_pc'["main"] = "wait_handler" /\ f_tcb'["main"] = F!Running
        /\ f_pc'["faulter"] = f_pc["faulter"] /\ f_tcb'["faulter"] = f_tcb["faulter"]
        /\ f_pc'["handler"] = f_pc["handler"] /\ f_tcb'["handler"] = f_tcb["handler"]
    BY <1>1, <1>3, <1>4, <2>1, <2>3, FStates, FMainKeeps, Zenon DEF FLabel
  <2>5. FReturned'
    <3>1. mcs /\ f_sc = Idle
      BY <2>1, <2>2, Zenon DEF FReturned, FAt
    <3>2. f_sc' = Own
      BY <2>1, <3>1, Zenon DEF Idle, Own
    <3> QED
      BY <1>3, <2>1, <2>2, <2>4, <3>2, Zenon DEF FReturned, FAt
  <2> QED
    BY <1>3, <2>2, <2>4, <2>5, FRestored, Zenon DEF FJoint, FProceeds
<1> QED
  BY <1>6, <1>7, Zenon DEF F!ConvertHandler, F!Main, F!Handler

\* It stops both children.
LEMMA FSuspends ==
  ASSUME FInv, F!Scheduled("main", F!prio), F!SuspendChild, UNCHANGED F!Kept
  PROVE  FInv' /\ FProceeds
<1>1. FTypeOK /\ FJoint /\ f_sc \in {Own, Idle, Lent}
  BY FBasics, Zenon
<1>2. f_tcb["main"] = F!Running
  BY <1>1, FConstants, FOrder, Zenon
<1>3. /\ f_iter' = f_iter /\ f_start' = f_start /\ f_sample' = f_sample
      /\ f_clock' = f_clock /\ mcs' = mcs
  BY Zenon DEF F!SuspendChild, F!Kept
<1>4. Raised' = Raised /\ Handled' = Handled
  BY <1>3, Zenon DEF Raised, Handled
<1>5. FStopped /\ bench \in 1..6 /\ FStamps /\ FSampled
  <2>1. f_pc["main"] \in {"suspend_faulter", "suspend_handler"}
    BY Zenon DEF F!SuspendChild, F!Main
  <2>2. FStopped
    BY <1>1, <1>2, <2>1, FStates, Zenon
       DEF FJoint, FAt, MainWaits, FApart, FInitialising, FPrepared, FUntouched, FBefore,
           FFaulted, FReplied, FEnding, FReturned
  <2> QED
    BY <2>2, FBasics, Zenon DEF FStopped
<1>6. ASSUME NEW t \in F!Child, F!Suspend(t)
      PROVE  /\ f_tcb'[t] = F!Inactive /\ \A u \in F!Thread : u # t => f_tcb'[u] = f_tcb[u]
             /\ f_tcb' \in [F!Thread -> FState]
             /\ f_caller' = f_caller /\ f_sc' = f_sc
  <2>1. /\ f_tcb' = [f_tcb EXCEPT ![t] = F!Inactive] /\ f_sc' = f_sc
        /\ f_caller' = [s \in DOMAIN f_caller |->
                          IF f_caller[s] = t THEN NoThread ELSE f_caller[s]]
    BY <1>6, Zenon DEF F!Suspend, F!CancelIpc, F!SetState
  <2>2. \A u \in F!Thread : f_caller[u] = NoThread
    BY <1>1, <1>5, FConstants, Zenon DEF FTypeOK, FStopped
  <2>3. f_caller' = f_caller
    BY <1>1, <2>1, <2>2, Zenon DEF FTypeOK
  <2> QED
    BY <1>1, <2>1, <2>3, FConstants, FStates, Zenon DEF FTypeOK
<1>7. CASE /\ f_pc["main"] = "suspend_faulter"
           /\ f_pc' = [f_pc EXCEPT !["faulter"] = "off", !["main"] = "suspend_handler"]
           /\ F!Suspend("faulter")
           /\ bench' = bench
  <2>1. /\ f_pc'["faulter"] = "off" /\ f_pc'["main"] = "suspend_handler"
        /\ f_pc'["handler"] = f_pc["handler"] /\ f_pc' \in [F!Thread -> FLabel]
    BY <1>1, <1>7, FConstants, Zenon DEF FTypeOK, FLabel
  <2>2. FTypeOK'
    BY <1>1, <1>3, <1>6, <1>7, <2>1, FConstants, Zenon DEF FTypeOK
  <2>3. FStopped'
    BY <1>2, <1>5, <1>6, <1>7, <2>1, FConstants, Zenon DEF FStopped, FAt
  <2>4. FStamps' /\ FSampled'
    <3>1. f_pc["handler"] = "block"
      BY <1>5, Zenon DEF FStopped, FAt
    <3> QED
      BY <1>3, <1>4, <1>5, <1>7, <2>1, <3>1, Zenon DEF FStamps, FSampled
  <2> QED
    BY <1>5, <1>7, <2>2, <2>3, <2>4, FRestored, Zenon DEF FJoint, FProceeds
<1>8. CASE /\ f_pc["main"] = "suspend_handler"
           /\ bench' = bench + 1
           /\ f_pc' = [f_pc EXCEPT !["handler"] = "off",
                                   !["main"] = IF bench' <= 6 THEN "start_handler"
                                               ELSE "finished"]
           /\ F!Suspend("handler")
  <2>1. /\ f_pc'["handler"] = "off" /\ f_pc'["faulter"] = f_pc["faulter"]
        /\ f_pc'["main"] = IF bench' <= 6 THEN "start_handler" ELSE "finished"
        /\ f_pc' \in [F!Thread -> FLabel]
    BY <1>1, <1>8, FConstants, Zenon DEF FTypeOK, FLabel
  <2>2. bench' \in 1..7 /\ (bench' <= 6 => bench' \in 1..6) /\ (~(bench' <= 6) => bench' = 7)
    BY <1>5, <1>8
  <2>3. FTypeOK'
    BY <1>1, <1>3, <1>6, <1>8, <2>1, <2>2, FConstants, Zenon DEF FTypeOK
  <2>4. FAt("faulter", "off", F!Inactive)
    BY <1>5, <1>8, Zenon DEF FStopped, FAt
  <2>5. FApart'
    BY <1>2, <1>5, <1>6, <1>8, <2>1, <2>2, <2>4, FConstants, Zenon DEF FStopped, FApart, FAt
  <2>6. FStamps' /\ FSampled'
    BY <2>1, <2>4, Zenon DEF FStamps, FSampled, FAt
  <2> QED
    BY <1>5, <1>8, <2>3, <2>5, <2>6, FRestored, Zenon DEF FJoint, FProceeds
<1>9. Len(F!run_fault_benchmark) = 6
  BY DEF F!run_fault_benchmark
<1> QED
  BY <1>7, <1>8, <1>9, Zenon DEF F!SuspendChild, F!Main, F!Faulter, F!Handler

\* A kernel entry on the cycle counter.
LEMMA FTicks ==
  ASSUME FTypeOK, F!Tick
  PROVE  f_clock' = Later(f_clock) /\ f_clock' \in 0..Modulus - 1
<1>1. f_clock' = Later(f_clock)
  BY Zenon DEF F!Tick, Later, Modulus
<1> QED
  BY <1>1, FCounter, Zenon DEF FTypeOK

\* The faulter faults.
LEMMA FFaults ==
  ASSUME FInv, F!Scheduled("faulter", F!prio),
         NEW site \in {"first", "fault", "last", "return"}, F!Fault(site),
         UNCHANGED <<mcs, bench>>
  PROVE  FInv' /\ FProceeds
<1>1. FTypeOK /\ FJoint /\ f_sc \in {Own, Idle, Lent}
  BY FBasics, Zenon
<1>2. f_tcb["faulter"] = F!Running /\ f_tcb["main"] # F!Running
  BY <1>1, FConstants, FOrder, Zenon
<1>3. /\ f_pc["faulter"] = site
      /\ f_pc' = f_pc /\ f_iter' = f_iter /\ f_start' = f_start /\ f_sample' = f_sample
      /\ mcs' = mcs /\ bench' = bench /\ Idle' = Idle /\ Lent' = Lent
      /\ Raised' = Raised /\ Handled' = Handled
      /\ F!Call("faulter", F!FaultEp)
      /\ ip' = IF f_caller'["handler"] = "faulter" THEN f_pc["faulter"] ELSE ip
  BY FSame, Zenon DEF F!Fault, F!FaultMessage, F!Faulter, F!Handler, Raised, Handled
<1>4. f_clock' = Later(f_clock) /\ f_clock' \in 0..Modulus - 1
  BY <1>1, FTicks, Zenon DEF F!Fault
<1>5. bench \in 1..6 => Raised \in Nat /\ Handled \in Nat /\ Handled + 1 \in Nat /\ 0 \in Nat
                        /\ Hf(bench).loops \in Nat /\ 0 <= Hf(bench).loops
  <2>1. bench \in 1..6 => Hf(bench).loops \in Nat
    BY FPairs, Zenon
  <2> QED
    BY <1>1, <2>1, FConstants DEF FTypeOK, Raised, Handled
<1>6. FBefore \/ FReplied \/ FReturned
  <2>1. ~FEnding
    BY <1>3, <1>5, FConstants, FWhere, Zenon DEF FEnding, Agree
  <2> QED
    BY <1>1, <1>2, <1>3, <2>1, FStates, Zenon
       DEF FJoint, FAt, MainWaits, FApart, FInitialising, FPrepared, FUntouched, FFaulted,
           FStopped
<1>7. bench \in 1..6 /\ FStamps /\ FSampled
  BY <1>6, FBasics, Zenon DEF FBefore, FUntouched, FReplied, FReturned
<1>8. f_tcb["main"] # FReceiving
  BY <1>2, <1>6, FStates, Zenon DEF FBefore, FReplied, FReturned, MainWaits, FAt
<1>9. FSampled'
  BY <1>3, <1>7, Zenon DEF FSampled
<1>10. CASE f_tcb["handler"] = FReceiving
  <2>1. FBefore \/ FReplied
    BY <1>6, <1>10, FStates, Zenon DEF FReturned, FAt
  <2>2. f_sc = Idle /\ MainWaits /\ site # "return"
    BY <1>2, <1>3, <1>5, <1>7, <2>1, FConstants, FWhere, Zenon
       DEF FBefore, FUntouched, FReplied, FAt, Agree
  <2>3. /\ f_tcb' = [f_tcb EXCEPT !["handler"] = F!Running, !["faulter"] = F!AwaitingReply]
        /\ f_caller' = [f_caller EXCEPT !["handler"] = "faulter"]
        /\ f_sc' = F!Passed(f_sc, "faulter", "handler")
    BY <1>1, <1>2, <1>3, <1>8, <1>10, FCalls, Zenon
  <2>4. /\ f_tcb'["handler"] = F!Running /\ f_tcb'["faulter"] = F!AwaitingReply
        /\ f_tcb'["main"] = f_tcb["main"] /\ f_caller'["handler"] = "faulter"
        /\ f_caller'["main"] = NoThread /\ f_caller'["faulter"] = NoThread
        /\ f_tcb' \in [F!Thread -> FState]
        /\ f_caller' \in [F!Thread -> {"faulter", NoThread}]
    BY <1>1, <2>3, FConstants, FStates, Zenon DEF FTypeOK
  <2>5. FTypeOK'
    BY <1>1, <1>3, <1>4, <2>4, Zenon DEF FTypeOK
  <2>6. f_sc' = Lent'
    BY <1>1, <1>3, <2>2, <2>3, FContexts, Zenon DEF FTypeOK
  <2>7. FBefore => f_pc["handler"] = "loop" /\ Handled = 0 /\ Agree(Handled)
    BY <1>10, FStates, Zenon DEF FBefore, FUntouched, FAt
  <2>8. FReplied =>
          f_pc["handler"] = "sample" /\ Handled < Hf(bench).loops /\ Agree(Handled + 1)
    BY Zenon DEF FReplied, FAt
  <2>9. MainWaits'
    BY <1>3, <2>2, <2>4, FMainStays, Zenon
  <2>10. FFaulted'
    BY <1>3, <1>5, <1>7, <2>1, <2>2, <2>4, <2>6, <2>7, <2>8, <2>9, Zenon
       DEF FFaulted, FAt, Agree
  <2>11. FStamps'
    BY <1>2, <1>3, <1>4, <1>7, <2>1, <2>2, <2>4, <2>7, <2>8, FStates, Zenon DEF FStamps
  <2> QED
    BY <1>3, <1>9, <2>1, <2>5, <2>10, <2>11, FRestored, Zenon DEF FJoint, FProceeds, FMeasuring
<1>11. CASE f_tcb["handler"] # FReceiving
  <2>1. /\ f_tcb' = [f_tcb EXCEPT !["faulter"] = FCalling]
        /\ f_caller' = f_caller /\ f_sc' = f_sc
    BY <1>1, <1>2, <1>3, <1>8, <1>11, FCalls, Zenon
  <2>2. /\ f_tcb'["handler"] = f_tcb["handler"] /\ f_tcb'["faulter"] = FCalling
        /\ f_tcb'["main"] = f_tcb["main"] /\ f_tcb' \in [F!Thread -> FState]
    BY <1>1, <2>1, FConstants, FStates, Zenon DEF FTypeOK
  <2>3. FTypeOK'
    BY <1>1, <1>3, <1>4, <2>1, <2>2, Zenon DEF FTypeOK
  <2>4. CASE FBefore
    <3>1. ~mcs /\ f_pc["handler"] = "begin" /\ MainWaits /\ site \in {"first", "fault"}
      BY <1>2, <1>3, <1>5, <1>7, <1>11, <2>4, FStates, FWhere, Zenon
         DEF FBefore, FUntouched, FAt, Agree
    <3>2. ~mcs'
      BY <1>3, <3>1, FSame, Zenon
    <3>3. FBefore'
      <4>1. FUntouched'
        BY <1>3, <2>1, <2>2, <2>4, <3>1, <3>2, Zenon DEF FBefore, FUntouched, FAt
      <4>2. Agree(0)'
        BY <1>3, <2>4, Zenon DEF FBefore, Agree
      <4>3. MainWaits'
        BY <1>3, <2>2, <3>1, FMainStays, Zenon
      <4> QED
        BY <1>3, <2>2, <3>1, <3>2, <4>1, <4>2, <4>3, Zenon DEF FBefore
    <3>4. FStamps'
      BY <1>3, <2>2, <3>1, FStates, Zenon DEF FStamps
    <3> QED
      BY <1>3, <1>9, <2>3, <2>4, <3>3, <3>4, FRestored, Zenon
         DEF FJoint, FProceeds, FMeasuring
  <2>5. CASE FReturned
    <3>1. FReturned'
      BY <1>2, <1>3, <2>1, <2>2, <2>5, Zenon DEF FReturned, FAt
    <3>2. FStamps'
      BY <1>3, <2>5, Zenon DEF FReturned, FStamps, FAt
    <3> QED
      BY <1>3, <1>9, <2>3, <2>5, <3>1, <3>2, FRestored, Zenon DEF FJoint, FProceeds
  <2>6. ~FReplied
    BY <1>11, Zenon DEF FReplied, FAt
  <2> QED
    BY <1>6, <2>4, <2>5, <2>6, Zenon
<1> QED
  BY <1>10, <1>11, Zenon

\* It stamps, in the functions that do.
LEMMA FFaulterStamps ==
  ASSUME FInv, F!Scheduled("faulter", F!prio),
         Raised < Ff(bench).loops, F!Step("faulter", "loop", "fault"),
         f_start' = IF Ff(bench).stamps THEN f_clock ELSE f_start,
         UNCHANGED <<f_tcb, f_caller, f_sc, f_iter, f_sample, f_clock>>,
         UNCHANGED <<mcs, bench>>
  PROVE  FInv' /\ FProceeds
<1>1. FTypeOK /\ FJoint /\ f_sc \in {Own, Idle, Lent}
  BY FBasics, Zenon
<1>2. f_tcb["faulter"] = F!Running
  BY <1>1, FConstants, FOrder, Zenon
<1>3. /\ f_pc["faulter"] = "loop" /\ f_pc'["faulter"] = "fault"
      /\ f_pc'["main"] = f_pc["main"] /\ f_pc'["handler"] = f_pc["handler"]
      /\ f_pc' \in [F!Thread -> FLabel]
  BY <1>1, FConstants, FMovesOn, Zenon DEF FLabel
<1>4. /\ Raised' = Raised /\ Handled' = Handled /\ Idle' = Idle
      /\ f_start' \in 0..Modulus - 1
  BY <1>1, FSame, Zenon DEF Raised, Handled, FTypeOK
<1>5. FBefore \/ FReplied
  <2>1. ~FEnding
    BY <1>1, <1>3, FStates, FNumbers, FWhere, Zenon DEF FEnding, Agree
  <2> QED
    BY <1>1, <1>2, <1>3, <2>1, Zenon
       DEF FJoint, FAt, MainWaits, FApart, FInitialising, FPrepared, FUntouched, FFaulted,
           FReturned, FStopped
<1>6. bench \in 1..6 /\ FStamps /\ FSampled
  BY <1>5, FBasics, Zenon DEF FBefore, FUntouched, FReplied
<1>7. FTypeOK'
  BY <1>1, <1>3, <1>4, Zenon DEF FTypeOK
<1>8. FSampled'
  BY <1>3, <1>4, <1>6, Zenon DEF FSampled
<1>9. FStamps'
  <2>1. f_pc["handler"] # "reply" /\ (Ff(bench).stamps => f_start' = f_clock)
    BY <1>5, Zenon DEF FBefore, FUntouched, FReplied, FAt
  <2> QED
    BY <1>2, <1>3, <1>6, <2>1, FStates, Zenon DEF FStamps
<1>10. CASE FBefore
  <2>1. Agree(0)'
    BY <1>1, <1>3, <1>4, <1>6, <1>10, FNumbers, FBehind, Zenon DEF FBefore, Agree
  <2>2. FUntouched'
    BY <1>3, <1>4, <1>10, FSame, Zenon DEF FBefore, FUntouched, FAt
  <2>3. FBefore'
    BY <1>2, <1>3, <1>10, <2>1, <2>2, FMainStays, Zenon DEF FBefore, FAt
  <2> QED
    BY <1>7, <1>8, <1>9, <1>10, <2>3, FRestored, Zenon DEF FJoint, FProceeds, FMeasuring
<1>11. CASE FReplied
  <2>1. Agree(Handled + 1)'
    <3>1. Behind("loop", Raised, bench, Handled + 1) /\ Raised \in Nat /\ Handled + 1 \in Nat
      BY <1>1, <1>3, <1>6, <1>11, FNumbers, Zenon DEF FReplied, Agree
    <3>2. Behind("fault", Raised, bench, Handled + 1)
      BY <1>6, <3>1, FBehind, Zenon
    <3> QED
      BY <1>3, <1>4, <3>2, Zenon DEF Agree
  <2>2. FReplied'
    BY <1>3, <1>4, <1>11, <2>1, FMainStays, Zenon DEF FReplied, FAt
  <2> QED
    BY <1>7, <1>8, <1>9, <1>11, <2>2, FRestored, Zenon DEF FJoint, FProceeds, FMeasuring
<1> QED
  BY <1>5, <1>10, <1>11, Zenon

\* It takes its sample, in the functions that do.
LEMMA FFaulterSamples ==
  ASSUME FInv, F!Scheduled("faulter", F!prio),
         F!Step("faulter", "sample", "loop"),
         f_sample' = IF Ff(bench).samples THEN (f_clock - f_start) % Modulus ELSE f_sample,
         f_iter' = [f_iter EXCEPT !["faulter"] = @ + 1],
         UNCHANGED <<f_tcb, f_caller, f_sc, f_start, f_clock>>,
         UNCHANGED <<mcs, bench>>
  PROVE  FInv' /\ FProceeds
<1>1. FTypeOK /\ FJoint /\ f_sc \in {Own, Idle, Lent}
  BY FBasics, Zenon
<1>2. f_tcb["faulter"] = F!Running
  BY <1>1, FConstants, FOrder, Zenon
<1>3. /\ f_pc["faulter"] = "sample" /\ f_pc'["faulter"] = "loop"
      /\ f_pc'["main"] = f_pc["main"] /\ f_pc'["handler"] = f_pc["handler"]
      /\ f_pc' \in [F!Thread -> FLabel]
  BY <1>1, FConstants, FMovesOn, Zenon DEF FLabel
<1>4. /\ Raised' = Raised + 1 /\ Handled' = Handled /\ Idle' = Idle
      /\ f_iter' \in [F!Child -> Nat]
      /\ Raised' \in 2..FaultRuns => Raised > 0 /\ Raised # FaultRuns
  <2>1. f_iter \in [F!Child -> Nat] /\ Idle' = Idle
    BY <1>1, FSame, Zenon DEF FTypeOK
  <2> QED
    BY <2>1, FConstants DEF Raised, Handled
<1>5. FReplied \/ FEnding
  <2>1. ~FBefore
    BY <1>1, <1>3, FNumbers, FWhere, Zenon DEF FBefore, FUntouched, Agree
  <2> QED
    BY <1>1, <1>2, <1>3, <2>1, Zenon
       DEF FJoint, FAt, MainWaits, FApart, FInitialising, FPrepared, FUntouched, FFaulted,
           FReturned, FStopped
<1>6. bench \in 1..6 /\ FStamps /\ FSampled
  BY <1>5, FBasics, Zenon DEF FReplied, FEnding
<1>7. FTypeOK'
  BY <1>1, <1>3, <1>4, Zenon DEF FTypeOK
<1>8. FStamps'
  <2>1. f_pc["handler"] # "reply"
    BY <1>5, Zenon DEF FReplied, FEnding, FAt
  <2> QED
    BY <1>3, <2>1, Zenon DEF FStamps
<1>9. FSampled'
  <2>1. Hf(bench).samples => f_sample' = f_sample
    BY <1>6, FPairs, Zenon
  <2>2. ASSUME Ff(bench).samples, Raised > 0, Raised # FaultRuns
        PROVE  f_sample' = Legs(bench)
    <3>1. f_start \in 0..Modulus - 1
      BY <1>1, Zenon DEF FTypeOK
    <3>2. CASE Ff(bench).stamps
      <4>1. f_clock = Later(Later(f_start))
        BY <1>3, <1>6, <2>2, <3>2, Zenon DEF FStamps
      <4> QED
        BY <1>6, <2>2, <3>1, <3>2, <4>1, FCounter, FPairs, Zenon
    <3>3. CASE ~Ff(bench).stamps
      <4>1. /\ Hf(bench).stamps /\ First(bench) = 1 /\ Hf(bench).loops = FaultRuns + 1
            /\ Legs(bench) = 1
        BY <1>6, <2>2, <3>3, FPairs, Zenon
      <4>2. ~FEnding
        <5>1. FEnding => Raised + 1 = Hf(bench).loops
          BY <1>1, <1>3, <1>6, <4>1, FStates, FNumbers, FWhere, Zenon DEF FEnding, Agree
        <5>2. Raised \in Nat
          BY <1>1, <1>6, FNumbers, Zenon
        <5> QED
          BY <2>2, <4>1, <5>1, <5>2, FConstants
      <4>3. f_clock = Later(f_start)
        BY <1>3, <1>5, <1>6, <4>1, <4>2, Zenon DEF FStamps, FReplied, FAt
      <4> QED
        BY <2>2, <3>1, <4>1, <4>3, FCounter, Zenon
    <3> QED
      BY <3>2, <3>3, Zenon
  <2>3. f_pc["handler"] # "off"
    BY <1>5, Zenon DEF FReplied, FEnding, FAt
  <2> QED
    BY <1>3, <1>4, <1>6, <2>1, <2>2, <2>3, Zenon DEF FSampled
<1>10. CASE FReplied
  <2>1. Agree(Handled + 1)'
    <3>1. Behind("sample", Raised, bench, Handled + 1) /\ Raised \in Nat /\ Handled + 1 \in Nat
      BY <1>1, <1>3, <1>6, <1>10, FNumbers, Zenon DEF FReplied, Agree
    <3>2. Behind("loop", Raised + 1, bench, Handled + 1)
      BY <1>6, <3>1, FBehind, Zenon
    <3> QED
      BY <1>3, <1>4, <3>2, Zenon DEF Agree
  <2>2. FReplied'
    BY <1>3, <1>4, <1>10, <2>1, FMainStays, Zenon DEF FReplied, FAt
  <2> QED
    BY <1>7, <1>8, <1>9, <1>10, <2>2, FRestored, Zenon DEF FJoint, FProceeds, FMeasuring
<1>11. CASE FEnding
  <2>1. Agree(Hf(bench).loops + 1)'
    <3>1. /\ Behind("sample", Raised, bench, Hf(bench).loops + 1)
          /\ Raised \in Nat /\ Hf(bench).loops + 1 \in Nat
      BY <1>1, <1>3, <1>6, <1>11, FNumbers, Zenon DEF FEnding, Agree
    <3>2. Behind("loop", Raised + 1, bench, Hf(bench).loops + 1)
      BY <1>6, <3>1, FBehind, Zenon
    <3> QED
      BY <1>3, <1>4, <3>2, Zenon DEF Agree
  <2>2. FEnding'
    BY <1>3, <1>4, <1>11, <2>1, FMainStays, Zenon DEF FEnding, FAt
  <2> QED
    BY <1>7, <1>8, <1>9, <1>11, <2>2, FRestored, Zenon DEF FJoint, FProceeds, FMeasuring
<1> QED
  BY <1>5, <1>10, <1>11, Zenon

\* It leaves its loop.
LEMMA FFaulterLeaves ==
  ASSUME FInv, F!Scheduled("faulter", F!prio),
         Raised = Ff(bench).loops,
         F!Step("faulter", "loop", IF Ff(bench).last THEN "last" ELSE "done"),
         UNCHANGED <<f_tcb, f_caller, f_sc, f_iter, f_start, f_sample, f_clock>>,
         UNCHANGED <<mcs, bench>>
  PROVE  FInv' /\ FProceeds
<1>1. FTypeOK /\ FJoint /\ f_sc \in {Own, Idle, Lent}
  BY FBasics, Zenon
<1>2. f_tcb["faulter"] = F!Running
  BY <1>1, FConstants, FOrder, Zenon
<1>3. /\ f_pc["faulter"] = "loop"
      /\ f_pc'["faulter"] = IF Ff(bench).last THEN "last" ELSE "done"
      /\ f_pc'["main"] = f_pc["main"] /\ f_pc'["handler"] = f_pc["handler"]
      /\ f_pc' \in [F!Thread -> FLabel]
  <2>1. (IF Ff(bench).last THEN "last" ELSE "done") \in FLabel
    BY Zenon DEF FLabel
  <2> QED
    BY <1>1, <2>1, FConstants, FStates, FMovesOn, Zenon
<1>4. Raised' = Raised /\ Handled' = Handled /\ Idle' = Idle
  BY FSame, Zenon DEF Raised, Handled
<1>5. FReplied \/ FEnding
  <2>1. ~FBefore
    <3>1. FBefore => bench \in 1..6 /\ Behind("loop", Raised, bench, 0)
      BY <1>3, Zenon DEF FBefore, FUntouched, Agree
    <3>2. bench \in 1..6 /\ Behind("loop", Raised, bench, 0) => Raised = 0
      BY <1>1, FStates, FNumbers, FWhere, Zenon
    <3>3. bench \in 1..6 => Ff(bench).loops \in Nat /\ Ff(bench).loops > 0
      BY FPairs, Zenon
    <3> QED
      BY <3>1, <3>2, <3>3
  <2> QED
    BY <1>1, <1>2, <1>3, <2>1, Zenon
       DEF FJoint, FAt, MainWaits, FApart, FInitialising, FPrepared, FUntouched, FFaulted,
           FReturned, FStopped
<1>6. bench \in 1..6 /\ FStamps /\ FSampled
  BY <1>5, FBasics, Zenon DEF FReplied, FEnding
<1>7. FTypeOK'
  BY <1>1, <1>3, <1>4, Zenon DEF FTypeOK
<1>8. FStamps' /\ FSampled'
  <2>1. /\ f_pc["handler"] # "reply"
        /\ f_pc'["faulter"] # "fault" /\ f_pc'["faulter"] # "sample"
    BY <1>3, <1>5, Zenon DEF FReplied, FEnding, FAt
  <2> QED
    BY <1>3, <1>4, <1>6, <2>1, Zenon DEF FStamps, FSampled
<1>9. f_pc'["faulter"] = IF Last(bench) = 1 THEN "last" ELSE "done"
  BY <1>3, <1>6, FPairs, Zenon
<1>10. CASE FReplied
  <2>1. Agree(Handled + 1)'
    <3>1. Behind("loop", Raised, bench, Handled + 1) /\ Raised \in Nat /\ Handled + 1 \in Nat
      BY <1>1, <1>3, <1>6, <1>10, FNumbers, Zenon DEF FReplied, Agree
    <3>2. Behind(IF Last(bench) = 1 THEN "last" ELSE "done", Raised, bench, Handled + 1)
      BY <1>6, <3>1, FBehind, Zenon
    <3> QED
      BY <1>4, <1>9, <3>2, Zenon DEF Agree
  <2>2. FReplied'
    BY <1>3, <1>4, <1>10, <2>1, FMainStays, Zenon DEF FReplied, FAt
  <2> QED
    BY <1>7, <1>8, <1>10, <2>2, FRestored, Zenon DEF FJoint, FProceeds, FMeasuring
<1>11. CASE FEnding
  <2>1. Agree(Hf(bench).loops + 1)'
    <3>1. /\ Behind("loop", Raised, bench, Hf(bench).loops + 1)
          /\ Raised \in Nat /\ Hf(bench).loops + 1 \in Nat
      BY <1>1, <1>3, <1>6, <1>11, FNumbers, Zenon DEF FEnding, Agree
    <3>2. Behind(IF Last(bench) = 1 THEN "last" ELSE "done", Raised, bench, Hf(bench).loops + 1)
      BY <1>6, <3>1, FBehind, Zenon
    <3> QED
      BY <1>4, <1>9, <3>2, Zenon DEF Agree
  <2>2. FEnding'
    BY <1>3, <1>4, <1>11, <2>1, FMainStays, Zenon DEF FEnding, FAt
  <2> QED
    BY <1>7, <1>8, <1>11, <2>2, FRestored, Zenon DEF FJoint, FProceeds, FMeasuring
<1> QED
  BY <1>5, <1>10, <1>11, Zenon

\* It reports to main, which has waited for it.
LEMMA FFaulterReports ==
  ASSUME FInv, F!Scheduled("faulter", F!prio),
         F!Step("faulter", "done", "return"), F!Send("faulter", F!DoneEp), F!Tick,
         UNCHANGED <<f_caller, f_sc, f_iter, f_start, f_sample>>,
         UNCHANGED <<mcs, bench>>
  PROVE  FInv' /\ FProceeds
<1>1. FTypeOK /\ FJoint /\ f_sc \in {Own, Idle, Lent}
  BY FBasics, Zenon
<1>2. f_tcb["faulter"] = F!Running
  BY <1>1, FConstants, FOrder, Zenon
<1>3. /\ f_pc["faulter"] = "done" /\ f_pc'["faulter"] = "return"
      /\ f_pc'["main"] = f_pc["main"] /\ f_pc'["handler"] = f_pc["handler"]
      /\ f_pc' \in [F!Thread -> FLabel]
  BY <1>1, FConstants, FMovesOn, Zenon DEF FLabel
<1>4. FEnding
  <2>1. ~FBefore
    BY <1>1, <1>3, FNumbers, FWhere, Zenon DEF FBefore, FUntouched, Agree
  <2>2. ~FReplied
    BY <1>1, <1>3, FNumbers, FWhere, Zenon DEF FReplied, Agree
  <2> QED
    BY <1>1, <1>2, <1>3, <2>1, <2>2, Zenon
       DEF FJoint, FAt, MainWaits, FApart, FInitialising, FPrepared, FUntouched, FFaulted,
           FReturned, FStopped
<1>5. bench \in 1..6 /\ FStamps /\ FSampled
  BY <1>4, FBasics, Zenon DEF FEnding
<1>6. /\ Raised' = Raised /\ Handled' = Handled /\ Idle' = Idle /\ (mcs' <=> mcs)
      /\ f_clock' \in 0..Modulus - 1
  BY <1>1, FSame, FTicks, Zenon DEF Raised, Handled
<1>7. f_tcb' = [f_tcb EXCEPT !["main"] = F!Running]
  BY <1>1, <1>2, <1>4, FStates, FSends, Zenon DEF FEnding, MainWaits, FAt
<1>8. /\ f_tcb'["main"] = F!Running /\ f_tcb'["faulter"] = F!Running
      /\ f_tcb'["handler"] = f_tcb["handler"] /\ f_tcb' \in [F!Thread -> FState]
  BY <1>1, <1>2, <1>7, FConstants, Zenon DEF FTypeOK
<1>9. FTypeOK'
  BY <1>1, <1>3, <1>6, <1>8, Zenon DEF FTypeOK
<1>10. FStamps' /\ FSampled'
  BY <1>3, <1>4, <1>5, <1>6, Zenon DEF FStamps, FSampled, FEnding, FAt
<1>11. FReturned'
  <2>1. ~mcs => f_sc = Own
    BY <1>1, <1>4, FContexts, Zenon DEF FEnding, FTypeOK
  <2> QED
    BY <1>3, <1>4, <1>6, <1>8, <2>1, Zenon DEF FEnding, FReturned, MainWaits, FAt
<1> QED
  BY <1>4, <1>9, <1>10, <1>11, FRestored, Zenon DEF FJoint, FProceeds, FMeasuring

\* fault_handler_start: the handler tells main that it is there, on an MCS kernel, and
\* waits for the first fault, which on other kernels has waited for it.
LEMMA FHandlerBegins ==
  ASSUME FInv, F!Scheduled("handler", F!prio),
         F!fault_handler_start,
         UNCHANGED <<mcs, bench>>
  PROVE  FInv' /\ FProceeds
<1>1. FTypeOK /\ FJoint /\ f_sc \in {Own, Idle, Lent}
  BY FBasics, Zenon
<1>2. f_tcb["handler"] = F!Running /\ f_tcb["main"] # F!Running
  BY <1>1, FConstants, FOrder, Zenon
<1>3. /\ f_pc["handler"] = "begin" /\ f_pc'["handler"] = "loop"
      /\ f_pc'["main"] = f_pc["main"] /\ f_pc'["faulter"] = f_pc["faulter"]
      /\ f_pc' \in [F!Thread -> FLabel]
  BY <1>1, FConstants, FStates, FMovesOn, Zenon DEF FLabel, F!fault_handler_start, F!Handler
<1>4. /\ f_iter' = f_iter /\ f_start' = f_start /\ f_sample' = f_sample
      /\ ip' = IF f_caller'["handler"] = "faulter" THEN f_pc["faulter"] ELSE ip
      /\ f_clock' \in 0..Modulus - 1 /\ Idle' = Idle /\ Lent' = Lent /\ (mcs' <=> mcs)
      /\ Raised' = Raised /\ Handled' = Handled
  BY <1>1, FTicks, FSame, Zenon
     DEF F!fault_handler_start, F!FaultMessage, F!Faulter, F!Handler, Raised, Handled
<1>5. FInitialising \/ FBefore
  BY <1>1, <1>2, <1>3, Zenon
     DEF FJoint, FAt, MainWaits, FApart, FPrepared, FFaulted, FReplied, FEnding, FReturned,
         FStopped
<1>6. bench \in 1..6 /\ FStamps /\ FSampled
  BY <1>5, FBasics, Zenon DEF FInitialising, FBefore, FUntouched
<1>7. FSampled'
  BY <1>3, <1>4, <1>6, Zenon DEF FSampled
<1>8. CASE FInitialising
  <2>1. mcs /\ f_tcb["main"] = FCollecting /\ f_tcb["faulter"] = F!Inactive /\ f_sc = Own
        /\ f_pc["main"] = "unbind" /\ f_pc["faulter"] = "off" /\ Handled = 0
    BY <1>2, <1>3, <1>8, Zenon DEF FInitialising, FAt
  <2>2. F!Blocked(FCollecting) = {"main"}
    <3>1. F!Blocked(FCollecting) = {u \in F!Thread : f_tcb[u] = FCollecting}
      BY <1>1, Zenon DEF FTypeOK, F!Blocked
    <3> QED
      BY <1>2, <2>1, <3>1, FConstants, FStates, Zenon
  <2>3. F!NBSendRecv("handler", F!DoneEp, F!FaultEp)
    BY <2>1, Zenon DEF F!fault_handler_start, F!Handler
  <2>4. F!RecvIn("handler", F!FaultEp, [f_tcb EXCEPT !["main"] = F!Running], f_sc)
    BY <2>2, <2>3, Zenon DEF F!NBSendRecv, FCollecting
  <2> DEFINE T == [f_tcb EXCEPT !["main"] = F!Running]
  <2>5. /\ T \in [F!Thread -> FState] /\ T["main"] = F!Running /\ T["handler"] = F!Running
        /\ T["faulter"] = F!Inactive
    BY <1>1, <1>2, <2>1, FConstants, Zenon DEF FTypeOK
  <2>6. F!RecvIn("handler", F!FaultEp, T, f_sc)
    BY <2>4, Zenon
  <2> HIDE DEF T
  <2>7. /\ f_tcb' = [T EXCEPT !["handler"] = FReceiving]
        /\ f_caller' = [f_caller EXCEPT !["handler"] = NoThread] /\ f_sc' = f_sc
    BY <2>5, <2>6, FStates, FTakes, Zenon
  <2>8. /\ f_tcb'["handler"] = FReceiving /\ f_tcb'["main"] = F!Running
        /\ f_tcb'["faulter"] = F!Inactive /\ f_tcb' \in [F!Thread -> FState]
    BY <2>5, <2>7, FConstants, FStates, Zenon
  <2>9. /\ f_caller'["handler"] = NoThread /\ f_caller'["main"] = NoThread
        /\ f_caller'["faulter"] = NoThread
        /\ f_caller' \in [F!Thread -> {"faulter", NoThread}]
    BY <1>1, <2>7, FConstants, Zenon DEF FTypeOK
  <2>10. FTypeOK'
    BY <1>1, <1>3, <1>4, <2>8, <2>9, Zenon DEF FTypeOK
  <2>11. FInitialising'
    BY <1>3, <1>4, <1>8, <2>1, <2>7, <2>8, <2>9, Zenon DEF FInitialising, FAt
  <2>12. FStamps'
    BY <1>3, <2>1, Zenon DEF FStamps
  <2> QED
    BY <1>7, <1>8, <2>10, <2>11, <2>12, FRestored, Zenon DEF FJoint, FProceeds, FStarting
<1>9. CASE FBefore
  <2>1. ~mcs /\ f_sc = Idle /\ Handled = 0
    BY <1>3, <1>9, Zenon DEF FBefore, FUntouched, FAt
  <2>2. /\ f_tcb["faulter"] = FCalling /\ MainWaits /\ Agree(0)
        /\ f_pc["faulter"] \in {"first", "fault"}
    <3>1. f_tcb["faulter"] # F!Running
      BY <1>1, <2>1, FConstants, FOrder, Zenon
    <3> QED
      BY <1>2, <1>9, <3>1, Zenon DEF FBefore, FAt
  <2>3. f_tcb["main"] = FCollecting
    BY <2>2, Zenon DEF MainWaits, FAt
  <2>4. F!RecvIn("handler", F!FaultEp, f_tcb, f_sc)
    BY <2>1, Zenon DEF F!fault_handler_start, F!Handler, F!RecvCall
  <2>5. f_tcb \in [F!Thread -> FState]
    BY <1>1, Zenon DEF FTypeOK
  <2>6. /\ f_tcb' = [f_tcb EXCEPT !["faulter"] = F!AwaitingReply]
        /\ f_caller' = [f_caller EXCEPT !["handler"] = "faulter"]
        /\ f_sc' = F!Passed(f_sc, "faulter", "handler")
    BY <1>2, <2>2, <2>3, <2>4, <2>5, FStates, FTakes, Zenon
  <2>7. /\ f_tcb'["handler"] = F!Running /\ f_tcb'["main"] = f_tcb["main"]
        /\ f_tcb'["faulter"] = F!AwaitingReply /\ f_tcb' \in [F!Thread -> FState]
    BY <1>2, <2>5, <2>6, FConstants, FStates, Zenon
  <2>8. /\ f_caller'["handler"] = "faulter" /\ f_caller'["main"] = NoThread
        /\ f_caller'["faulter"] = NoThread
        /\ f_caller' \in [F!Thread -> {"faulter", NoThread}]
    BY <1>1, <2>6, FConstants, Zenon DEF FTypeOK
  <2>9. f_sc' = Lent'
    BY <1>1, <1>4, <2>1, <2>6, FContexts, Zenon DEF FTypeOK
  <2>10. FTypeOK'
    BY <1>1, <1>3, <1>4, <2>7, <2>8, Zenon DEF FTypeOK
  <2>11. FFaulted'
    <3>1. MainWaits'
      BY <1>3, <2>2, <2>7, FMainStays, Zenon
    <3>2. Agree(Handled)'
      BY <1>3, <1>4, <2>1, <2>2, Zenon DEF Agree
    <3>3. Handled' <= Hf(bench').loops
      BY <1>1, <1>4, <1>6, <2>1, FNumbers, Zenon
    <3> QED
      BY <1>3, <1>4, <1>6, <2>2, <2>7, <2>8, <2>9, <3>1, <3>2, <3>3, Zenon DEF FFaulted, FAt
  <2>12. FStamps'
    <3>1. Raised = 0 /\ ~(Raised > 0)
      <4>1. Raised = 0
        BY <1>1, <1>6, <2>2, FConstants, FNumbers, FWhere, Zenon DEF Agree
      <4> QED
        BY <4>1
    <3> QED
      BY <1>3, <1>4, <2>2, <2>7, <3>1, FStates, Zenon DEF FStamps
  <2> QED
    BY <1>7, <1>9, <2>10, <2>11, <2>12, FRestored, Zenon DEF FJoint, FProceeds, FMeasuring
<1> QED
  BY <1>5, <1>8, <1>9, Zenon

\* The handler stamps, in the functions that do.
LEMMA FHandlerStamps ==
  ASSUME FInv, F!Scheduled("handler", F!prio),
         Handled < Hf(bench).loops, F!Step("handler", "loop", "reply"),
         f_start' = IF Hf(bench).stamps THEN f_clock ELSE f_start,
         UNCHANGED <<f_tcb, f_caller, f_sc, f_iter, f_sample, ip, f_clock>>,
         UNCHANGED <<mcs, bench>>
  PROVE  FInv' /\ FProceeds
<1>1. FTypeOK /\ FJoint /\ f_sc \in {Own, Idle, Lent}
  BY FBasics, Zenon
<1>2. f_tcb["handler"] = F!Running
  BY <1>1, FConstants, FOrder, Zenon
<1>3. /\ f_pc["handler"] = "loop" /\ f_pc'["handler"] = "reply"
      /\ f_pc'["main"] = f_pc["main"] /\ f_pc'["faulter"] = f_pc["faulter"]
      /\ f_pc' \in [F!Thread -> FLabel]
  BY <1>1, FConstants, FMovesOn, Zenon DEF FLabel
<1>4. /\ Raised' = Raised /\ Handled' = Handled /\ Lent' = Lent
      /\ f_start' \in 0..Modulus - 1
  BY <1>1, FSame, Zenon DEF Raised, Handled, FTypeOK
<1>5. FFaulted
  BY <1>1, <1>2, <1>3, FStates, Zenon
     DEF FJoint, FAt, MainWaits, FApart, FInitialising, FPrepared, FUntouched, FBefore,
         FReplied, FEnding, FReturned, FStopped
<1>6. bench \in 1..6 /\ FStamps /\ FSampled
  BY <1>5, FBasics, Zenon DEF FFaulted
<1>7. FTypeOK'
  BY <1>1, <1>3, <1>4, Zenon DEF FTypeOK
<1>8. FSampled'
  BY <1>3, <1>4, <1>6, Zenon DEF FSampled
<1>9. FStamps'
  <2>1. Ff(bench).stamps => f_start' = f_start
    BY <1>6, FPairs, Zenon
  <2> QED
    BY <1>3, <1>4, <1>6, <2>1, Zenon DEF FStamps
<1>10. FFaulted'
  <2>1. Agree(Handled)' /\ MainWaits'
    BY <1>3, <1>4, <1>5, FMainStays, Zenon DEF FFaulted, FAt, Agree
  <2> QED
    BY <1>2, <1>3, <1>4, <1>5, <2>1, Zenon DEF FFaulted, FAt
<1> QED
  BY <1>5, <1>7, <1>8, <1>9, <1>10, FRestored, Zenon DEF FJoint, FProceeds, FMeasuring

\* A reply makes the faulter go on behind its fault.
LEMMA FResumes ==
  ASSUME FInv, FFaulted,
         NEW from, NEW to \in FLabel, F!ReplyToFault(from, to), UNCHANGED <<mcs, bench>>
  PROVE  /\ f_pc["handler"] = from /\ f_pc'["handler"] = to
         /\ f_pc'["main"] = f_pc["main"] /\ f_pc' \in [F!Thread -> FLabel]
         /\ f_pc'["faulter"] = F!Resume[f_pc["faulter"]]
         /\ f_pc'["faulter"] \in {"loop", "sample", "done"}
         /\ f_pc'["faulter"] = "sample" => f_pc["faulter"] = "fault"
         /\ f_start' = f_start /\ f_sample' = f_sample
         /\ f_clock' = Later(f_clock) /\ f_clock' \in 0..Modulus - 1
         /\ \A n \in Nat : Agree(n) => Behind(f_pc'["faulter"], Raised, bench, n + 1)
<1>1. FTypeOK /\ bench \in 1..6
  BY FBasics, Zenon DEF FFaulted
<1>2. /\ f_pc["handler"] = from
      /\ f_pc' = [f_pc EXCEPT !["handler"] = to, !["faulter"] = F!Resume[ip]]
      /\ f_start' = f_start /\ f_sample' = f_sample
      /\ f_clock' = Later(f_clock) /\ f_clock' \in 0..Modulus - 1
  <2>1. F!Owes("handler")
    BY FConstants, Zenon DEF FFaulted, F!Owes
  <2> QED
    BY <1>1, <2>1, FTicks, Zenon DEF F!ReplyToFault, F!Handler, F!Faulter
<1>3. ip = f_pc["faulter"] /\ ip \in {"first", "fault", "last"}
  BY Zenon DEF FFaulted
<1>4. F!Resume["first"] = "loop" /\ F!Resume["fault"] = "sample" /\ F!Resume["last"] = "done"
  BY DEF F!Resume
<1>5. F!Resume[ip] \in {"loop", "sample", "done"} /\ F!Resume[ip] \in FLabel
  BY <1>3, <1>4, Zenon DEF FLabel
<1>6. /\ f_pc'["handler"] = to /\ f_pc'["main"] = f_pc["main"]
      /\ f_pc'["faulter"] = F!Resume[ip] /\ f_pc' \in [F!Thread -> FLabel]
  BY <1>1, <1>2, <1>5, FConstants, Zenon DEF FTypeOK
<1>7. ASSUME NEW n \in Nat, Agree(n)
      PROVE  Behind(f_pc'["faulter"], Raised, bench, n + 1)
  <2>1. Raised \in Nat
    BY <1>1, FNumbers, Zenon
  <2> QED
    BY <1>1, <1>3, <1>4, <1>6, <1>7, <2>1, FBehind, Zenon DEF Agree
<1> QED
  BY <1>2, <1>3, <1>4, <1>5, <1>6, <1>7, Zenon

\* The handler replies and waits for the next fault.
LEMMA FHandlerReplies ==
  ASSUME FInv, F!Scheduled("handler", F!prio),
         F!ReplyToFault("reply", "sample"), F!ReplyRecv("handler", F!FaultEp),
         f_iter' = f_iter,
         UNCHANGED <<mcs, bench>>
  PROVE  FInv' /\ FProceeds
<1>1. FTypeOK /\ FJoint /\ f_sc \in {Own, Idle, Lent}
  BY FBasics, Zenon
<1>2. f_tcb["handler"] = F!Running
  BY <1>1, FConstants, FOrder, Zenon
<1>3. FFaulted
  <2>1. f_pc["handler"] = "reply"
    BY Zenon DEF F!ReplyToFault, F!Handler
  <2> QED
    BY <1>1, <1>2, <2>1, Zenon
       DEF FJoint, FAt, MainWaits, FApart, FInitialising, FPrepared, FUntouched, FBefore,
           FReplied, FEnding, FReturned, FStopped
<1>4. bench \in 1..6 /\ FStamps /\ FSampled /\ MainWaits
  BY <1>3, FBasics, Zenon DEF FFaulted
<1>5. /\ f_pc["handler"] = "reply" /\ f_pc'["handler"] = "sample"
      /\ f_pc'["main"] = f_pc["main"] /\ f_pc' \in [F!Thread -> FLabel]
      /\ f_pc'["faulter"] \in {"loop", "sample", "done"}
      /\ f_pc'["faulter"] = "sample" => f_pc["faulter"] = "fault"
      /\ f_start' = f_start /\ f_sample' = f_sample
      /\ f_clock' = Later(f_clock) /\ f_clock' \in 0..Modulus - 1
      /\ \A n \in Nat : Agree(n) => Behind(f_pc'["faulter"], Raised, bench, n + 1)
  BY <1>3, FConstants, FResumes, Zenon DEF FLabel
<1>6. Raised' = Raised /\ Handled' = Handled /\ Idle' = Idle
  BY FSame, Zenon DEF Raised, Handled
<1>7. /\ f_tcb["main"] = FCollecting /\ f_tcb["faulter"] = F!AwaitingReply
      /\ f_caller["handler"] = "faulter" /\ f_sc = Lent
  BY <1>3, Zenon DEF FFaulted, MainWaits, FAt
<1> DEFINE T == [f_tcb EXCEPT !["faulter"] = F!Running]
<1>8. /\ T \in [F!Thread -> FState] /\ T["main"] = FCollecting /\ T["handler"] = F!Running
      /\ T["faulter"] = F!Running
  BY <1>1, <1>2, <1>7, FConstants, Zenon DEF FTypeOK
<1>9. F!RecvIn("handler", F!FaultEp, T, Idle)
  <2>1. F!Passed(f_sc, "handler", "faulter") = Idle
    BY <1>1, <1>7, FContexts, Zenon DEF FTypeOK
  <2>2. F!Owes("handler")
    BY <1>7, FConstants, Zenon DEF F!Owes
  <2> QED
    BY <1>7, <2>1, <2>2, Zenon DEF F!ReplyRecv
<1> HIDE DEF T
<1>10. /\ f_tcb' = [T EXCEPT !["handler"] = FReceiving]
       /\ f_caller' = [f_caller EXCEPT !["handler"] = NoThread] /\ f_sc' = Idle
  BY <1>8, <1>9, FStates, FTakes, Zenon
<1>11. /\ f_tcb'["handler"] = FReceiving /\ f_tcb'["main"] = f_tcb["main"]
       /\ f_tcb'["faulter"] = F!Running /\ f_tcb' \in [F!Thread -> FState]
  BY <1>7, <1>8, <1>10, FConstants, FStates, Zenon
<1>12. /\ f_caller'["handler"] = NoThread /\ f_caller'["main"] = NoThread
       /\ f_caller'["faulter"] = NoThread
       /\ f_caller' \in [F!Thread -> {"faulter", NoThread}]
  BY <1>1, <1>10, FConstants, Zenon DEF FTypeOK
<1>13. FTypeOK'
  BY <1>1, <1>5, <1>11, <1>12, Zenon DEF FTypeOK
<1>14. FReplied'
  <2>1. MainWaits'
    BY <1>4, <1>5, <1>11, FMainStays, Zenon
  <2>2. Handled < Hf(bench).loops /\ Agree(Handled) /\ Handled \in Nat
    BY <1>1, <1>3, <1>4, <1>5, FNumbers, Zenon DEF FFaulted, FAt
  <2>3. Agree(Handled + 1)'
    <3>1. Behind(f_pc'["faulter"], Raised, bench, Handled + 1)
      BY <1>5, <2>2, Zenon
    <3> QED
      BY <1>6, <3>1, Zenon DEF Agree
  <2> QED
    BY <1>4, <1>5, <1>6, <1>10, <1>11, <1>12, <2>1, <2>2, <2>3, Zenon DEF FReplied, FAt
<1>15. FSampled'
  <2>1. f_pc["faulter"] # "off"
    BY <1>3, Zenon DEF FFaulted
  <2> QED
    BY <1>4, <1>5, <1>6, <2>1, Zenon DEF FSampled
<1>16. FStamps'
  BY <1>4, <1>5, <1>6, <1>7, Zenon DEF FStamps
<1> QED
  BY <1>3, <1>13, <1>14, <1>15, <1>16, FRestored, Zenon DEF FJoint, FProceeds, FMeasuring

\* The handler takes its sample, in the functions that do.
LEMMA FHandlerSamples ==
  ASSUME FInv, F!Scheduled("handler", F!prio),
         F!Step("handler", "sample", "loop"),
         f_sample' = IF Hf(bench).samples THEN (f_clock - f_start) % Modulus ELSE f_sample,
         f_iter' = [f_iter EXCEPT !["handler"] = @ + 1],
         UNCHANGED <<f_tcb, f_caller, f_sc, f_start, ip, f_clock>>,
         UNCHANGED <<mcs, bench>>
  PROVE  FInv' /\ FProceeds
<1>1. FTypeOK /\ FJoint /\ f_sc \in {Own, Idle, Lent}
  BY FBasics, Zenon
<1>2. f_tcb["handler"] = F!Running
  BY <1>1, FConstants, FOrder, Zenon
<1>3. /\ f_pc["handler"] = "sample" /\ f_pc'["handler"] = "loop"
      /\ f_pc'["main"] = f_pc["main"] /\ f_pc'["faulter"] = f_pc["faulter"]
      /\ f_pc' \in [F!Thread -> FLabel]
  BY <1>1, FConstants, FMovesOn, Zenon DEF FLabel
<1>4. /\ Raised' = Raised /\ Handled' = Handled + 1 /\ Lent' = Lent
      /\ f_iter' \in [F!Child -> Nat]
  <2>1. f_iter \in [F!Child -> Nat] /\ Lent' = Lent
    BY <1>1, FSame, Zenon DEF FTypeOK
  <2> QED
    BY <2>1, FConstants DEF Raised, Handled
<1>5. FFaulted
  BY <1>1, <1>2, <1>3, FStates, Zenon
     DEF FJoint, FAt, MainWaits, FApart, FInitialising, FPrepared, FUntouched, FBefore,
         FReplied, FEnding, FReturned, FStopped
<1>6. /\ bench \in 1..6 /\ FStamps /\ FSampled
      /\ Handled < Hf(bench).loops /\ Agree(Handled + 1) /\ Handled \in Nat
      /\ f_pc["faulter"] \in {"first", "fault", "last"} /\ f_tcb["faulter"] = F!AwaitingReply
  BY <1>1, <1>3, <1>5, FBasics, FNumbers, Zenon DEF FFaulted, FAt
<1>7. FTypeOK'
  BY <1>1, <1>3, <1>4, Zenon DEF FTypeOK
<1>8. FStamps'
  BY <1>3, <1>4, <1>6, Zenon DEF FStamps
<1>9. FSampled'
  <2>1. ASSUME Hf(bench).samples
        PROVE  f_sample' = Legs(bench)
    <3>1. /\ Ff(bench).stamps /\ First(bench) = 0 /\ First(bench) # 1 /\ Last(bench) # 1
          /\ Legs(bench) = 1
      <4>1. /\ Ff(bench).stamps /\ First(bench) = 0 /\ Last(bench) # 1 /\ Legs(bench) = 1
        BY <1>6, <2>1, FPairs, Zenon
      <4>2. 0 # 1
        OBVIOUS
      <4> QED
        BY <4>1, <4>2, Zenon
    <3>2. f_pc["faulter"] = "fault" /\ Raised > 0
      <4>1. Raised \in Nat /\ Behind(f_pc["faulter"], Raised, bench, Handled + 1)
        BY <1>1, <1>6, FNumbers, Zenon DEF Agree
      <4>2. f_pc["faulter"] = "fault"
        BY <1>6, <3>1, <4>1, FWhere, Zenon
      <4>3. \A n \in Nat : /\ Behind(f_pc["faulter"], Raised, bench, n + 1)
                           /\ f_pc["faulter"] = "fault" /\ First(bench) = 0
                           => Raised > 0
        BY <1>6, <4>1, FWhere, Zenon
      <4> QED
        BY <1>6, <3>1, <4>1, <4>2, <4>3, Zenon
    <3>3. f_clock = Later(f_start) /\ f_start \in 0..Modulus - 1
      BY <1>1, <1>6, <3>1, <3>2, Zenon DEF FStamps, FTypeOK
    <3> QED
      BY <2>1, <3>1, <3>3, FCounter, Zenon
  <2>2. Ff(bench).samples => f_sample' = f_sample
    BY <1>6, FPairs, Zenon
  <2>3. f_pc["faulter"] # "off"
    BY <1>6, Zenon
  <2> QED
    BY <1>3, <1>4, <1>6, <2>1, <2>2, <2>3, Zenon DEF FSampled
<1>10. FFaulted'
  <2>1. Agree(Handled)'
    BY <1>3, <1>4, <1>6, Zenon DEF Agree
  <2>2. MainWaits'
    BY <1>3, <1>5, FMainStays, Zenon DEF FFaulted
  <2>3. Handled' <= Hf(bench').loops
    BY <1>1, <1>4, <1>6, FNumbers, Zenon
  <2> QED
    BY <1>2, <1>3, <1>4, <1>5, <2>1, <2>2, <2>3, Zenon DEF FFaulted, FAt
<1> QED
  BY <1>5, <1>7, <1>8, <1>9, <1>10, FRestored, Zenon DEF FJoint, FProceeds, FMeasuring

\* fault_handler_done: the handler replies to the last fault, which the faulter has
\* raised by then.
LEMMA FHandlerEnds ==
  ASSUME FInv, F!Scheduled("handler", F!prio),
         Handled = Hf(bench).loops, F!ReplyToFault("loop", "send"), F!Reply("handler"),
         f_iter' = f_iter,
         UNCHANGED <<mcs, bench>>
  PROVE  FInv' /\ FProceeds
<1>1. FTypeOK /\ FJoint /\ f_sc \in {Own, Idle, Lent}
  BY FBasics, Zenon
<1>2. f_tcb["handler"] = F!Running
  BY <1>1, FConstants, FOrder, Zenon
<1>3. FFaulted
  <2>1. f_pc["handler"] = "loop"
    BY Zenon DEF F!ReplyToFault, F!Handler
  <2> QED
    BY <1>1, <1>2, <2>1, FStates, Zenon
       DEF FJoint, FAt, MainWaits, FApart, FInitialising, FPrepared, FUntouched, FBefore,
           FReplied, FEnding, FReturned, FStopped
<1>4. bench \in 1..6 /\ FStamps /\ FSampled /\ MainWaits
  BY <1>3, FBasics, Zenon DEF FFaulted
<1>5. /\ f_pc["handler"] = "loop" /\ f_pc'["handler"] = "send"
      /\ f_pc'["main"] = f_pc["main"] /\ f_pc' \in [F!Thread -> FLabel]
      /\ f_pc'["faulter"] \in {"loop", "sample", "done"}
      /\ f_pc'["faulter"] = "sample" => f_pc["faulter"] = "fault"
      /\ f_start' = f_start /\ f_sample' = f_sample
      /\ f_clock' = Later(f_clock) /\ f_clock' \in 0..Modulus - 1
      /\ \A n \in Nat : Agree(n) => Behind(f_pc'["faulter"], Raised, bench, n + 1)
  BY <1>3, FConstants, FResumes, Zenon DEF FLabel
<1>6. Raised' = Raised /\ Handled' = Handled /\ Idle' = Idle
  BY FSame, Zenon DEF Raised, Handled
<1>7. /\ f_tcb["main"] = FCollecting /\ f_tcb["faulter"] = F!AwaitingReply
      /\ f_caller["handler"] = "faulter" /\ f_sc = Lent
  BY <1>3, Zenon DEF FFaulted, MainWaits, FAt
<1>8. /\ f_tcb' = [f_tcb EXCEPT !["faulter"] = F!Running]
      /\ f_caller' = [f_caller EXCEPT !["handler"] = NoThread] /\ f_sc' = Idle
  <2>1. F!Passed(f_sc, "handler", "faulter") = Idle
    BY <1>1, <1>7, FContexts, Zenon DEF FTypeOK
  <2>2. F!Owes("handler")
    BY <1>7, FConstants, Zenon DEF F!Owes
  <2> QED
    BY <1>7, <2>1, <2>2, Zenon DEF F!Reply, F!SetState
<1>9. /\ f_tcb'["handler"] = F!Running /\ f_tcb'["main"] = f_tcb["main"]
      /\ f_tcb'["faulter"] = F!Running /\ f_tcb' \in [F!Thread -> FState]
  BY <1>1, <1>2, <1>8, FConstants, Zenon DEF FTypeOK
<1>10. /\ f_caller'["handler"] = NoThread /\ f_caller'["main"] = NoThread
       /\ f_caller'["faulter"] = NoThread
       /\ f_caller' \in [F!Thread -> {"faulter", NoThread}]
  BY <1>1, <1>8, FConstants, Zenon DEF FTypeOK
<1>11. FTypeOK'
  BY <1>1, <1>5, <1>9, <1>10, Zenon DEF FTypeOK
<1>12. FEnding'
  <2>1. MainWaits'
    BY <1>4, <1>5, <1>9, FMainStays, Zenon
  <2>2. Agree(Hf(bench).loops) /\ Hf(bench).loops \in Nat
    BY <1>1, <1>3, <1>4, <1>5, FNumbers, Zenon DEF FFaulted, FAt
  <2>3. Agree(Hf(bench).loops + 1)'
    <3>1. Behind(f_pc'["faulter"], Raised, bench, Hf(bench).loops + 1)
      BY <1>5, <2>2, Zenon
    <3> QED
      BY <1>6, <3>1, Zenon DEF Agree
  <2> QED
    BY <1>4, <1>5, <1>6, <1>8, <1>9, <1>10, <2>1, <2>3, Zenon DEF FEnding, FAt
<1>13. FSampled'
  <2>1. f_pc["faulter"] # "off"
    BY <1>3, Zenon DEF FFaulted
  <2> QED
    BY <1>4, <1>5, <1>6, <2>1, Zenon DEF FSampled
<1>14. FStamps'
  BY <1>4, <1>5, <1>6, <1>7, Zenon DEF FStamps
<1> QED
  BY <1>3, <1>11, <1>12, <1>13, <1>14, FRestored, Zenon DEF FJoint, FProceeds, FMeasuring

\* It reports to main once the faulter is blocked in the fault of its return.
LEMMA FHandlerReports ==
  ASSUME FInv, F!Scheduled("handler", F!prio),
         F!Step("handler", "send", "block"), F!Send("handler", F!DoneEp), F!Tick,
         UNCHANGED <<f_caller, f_sc, f_iter, f_start, f_sample>>,
         UNCHANGED <<mcs, bench>>
  PROVE  FInv' /\ FProceeds
<1>1. FTypeOK /\ FJoint /\ f_sc \in {Own, Idle, Lent}
  BY FBasics, Zenon
<1>2. f_tcb["handler"] = F!Running /\ f_tcb["main"] # F!Running
  BY <1>1, FConstants, FOrder, Zenon
<1>3. /\ f_pc["handler"] = "send" /\ f_pc'["handler"] = "block"
      /\ f_pc'["main"] = f_pc["main"] /\ f_pc'["faulter"] = f_pc["faulter"]
      /\ f_pc' \in [F!Thread -> FLabel]
  BY <1>1, FConstants, FMovesOn, Zenon DEF FLabel
<1>4. FReturned
  <2>1. ~FEnding
    BY <1>1, FConstants, FOrder, Zenon DEF FEnding
  <2> QED
    BY <1>1, <1>2, <1>3, <2>1, Zenon
       DEF FJoint, FAt, MainWaits, FApart, FInitialising, FPrepared, FUntouched, FBefore,
           FFaulted, FReplied, FStopped
<1>5. /\ bench \in 1..6 /\ FStamps /\ FSampled /\ f_sc = Own
      /\ FAt("main", "suspend_faulter", FCollecting) /\ FAt("faulter", "return", FCalling)
  <2>1. bench \in 1..6 /\ FStamps /\ FSampled
    BY <1>4, FBasics, Zenon DEF FReturned
  <2>2. f_sc = Own /\ FAt("main", "suspend_faulter", FCollecting)
    BY <1>2, <1>4, Zenon DEF FReturned, FAt
  <2>3. f_tcb["faulter"] # F!Running
    BY <1>1, <2>2, FConstants, FOrder, Zenon
  <2> QED
    BY <1>2, <1>4, <2>1, <2>2, <2>3, Zenon DEF FReturned, FAt
<1>6. Raised' = Raised /\ Handled' = Handled /\ f_clock' \in 0..Modulus - 1
  BY <1>1, FTicks, Zenon DEF Raised, Handled
<1>7. f_tcb' = [f_tcb EXCEPT !["main"] = F!Running]
  BY <1>1, <1>2, <1>5, FStates, FSends, Zenon DEF FAt
<1>8. /\ f_tcb'["main"] = F!Running /\ f_tcb'["faulter"] = f_tcb["faulter"]
      /\ f_tcb'["handler"] = F!Running /\ f_tcb' \in [F!Thread -> FState]
  BY <1>1, <1>2, <1>7, FConstants, Zenon DEF FTypeOK
<1>9. FTypeOK'
  BY <1>1, <1>3, <1>6, <1>8, Zenon DEF FTypeOK
<1>10. FStamps' /\ FSampled'
  BY <1>3, <1>5, <1>6, Zenon DEF FStamps, FSampled, FAt
<1>11. FStopped'
  BY <1>3, <1>4, <1>5, <1>8, Zenon DEF FReturned, FStopped, FAt
<1> QED
  BY <1>4, <1>9, <1>10, <1>11, FRestored, Zenon DEF FJoint, FProceeds

\* Main stops the handler before that blocks.
LEMMA FHandlerNeverBlocks ==
  ASSUME FInv, F!Scheduled("handler", F!prio)
  PROVE  f_pc["handler"] # "block"
<1>1. FTypeOK /\ FJoint /\ f_sc \in {Own, Idle, Lent}
  BY FBasics, Zenon
<1>2. f_tcb["handler"] = F!Running /\ f_tcb["main"] # F!Running
  BY <1>1, FConstants, FOrder, Zenon
<1> QED
  BY <1>1, <1>2, Zenon DEF FJoint, FAt, FApart, FInitialising, FPrepared, FUntouched, FBefore,
                           FFaulted, FReplied, FEnding, FReturned, FStopped

\* A step of a child.
LEMMA FChild ==
  ASSUME FInv, NEW t \in F!Child, F!ChildStep(t)
  PROVE  FInv' /\ FProceeds
<1>1. F!Scheduled(t, F!prio) /\ UNCHANGED <<mcs, bench>>
  BY Zenon DEF F!ChildStep
<1>2. CASE t = "faulter" /\ F!FaulterStep
  <2>1. ASSUME NEW site \in {"first", "fault", "last", "return"}, F!Fault(site)
        PROVE  FInv' /\ FProceeds
    BY <1>1, <1>2, <2>1, FFaults, Zenon
  <2>2. CASE /\ Raised < Ff(bench).loops /\ F!Step("faulter", "loop", "fault")
             /\ f_start' = IF Ff(bench).stamps THEN f_clock ELSE f_start
             /\ UNCHANGED <<f_tcb, f_active, f_caller, f_sc, f_iter, f_sample, ip, f_clock>>
    BY <1>1, <1>2, <2>2, FFaulterStamps, Zenon
  <2>3. CASE /\ F!Step("faulter", "sample", "loop")
             /\ IF Ff(bench).samples THEN f_sample' = (f_clock - f_start) % Modulus
                ELSE UNCHANGED f_sample
             /\ f_iter' = [f_iter EXCEPT !["faulter"] = @ + 1]
             /\ UNCHANGED <<f_tcb, f_active, f_caller, f_sc, f_start, ip, f_clock>>
    <3>1. f_sample' = IF Ff(bench).samples THEN (f_clock - f_start) % Modulus ELSE f_sample
      BY <2>3, Zenon
    <3> QED
      BY <1>1, <1>2, <2>3, <3>1, FFaulterSamples, Zenon
  <2>4. CASE /\ Raised = Ff(bench).loops
             /\ F!Step("faulter", "loop", IF Ff(bench).last THEN "last" ELSE "done")
             /\ UNCHANGED <<f_tcb, f_active, f_caller, f_sc, f_iter, f_start, f_sample, ip,
                            f_clock>>
    BY <1>1, <1>2, <2>4, FFaulterLeaves, Zenon
  <2>5. CASE /\ F!Step("faulter", "done", "return") /\ F!Send("faulter", F!DoneEp) /\ F!Tick
             /\ UNCHANGED <<f_caller, f_sc, f_iter, f_start, f_sample, ip>>
    BY <1>1, <1>2, <2>5, FFaulterReports, Zenon
  <2> QED
    BY <1>2, <2>1, <2>2, <2>3, <2>4, <2>5, Zenon
       DEF F!FaulterStep, F!Faulter, F!faulter_fn, F!Stamp, F!Sample, Ff, Raised, Modulus
<1>3. CASE t = "handler" /\ F!HandlerStep
  <2>1. CASE F!fault_handler_start
    BY <1>1, <1>3, <2>1, FHandlerBegins, Zenon
  <2>2. CASE /\ Handled < Hf(bench).loops /\ F!Step("handler", "loop", "reply")
             /\ f_start' = IF Hf(bench).stamps THEN f_clock ELSE f_start
             /\ UNCHANGED <<f_tcb, f_active, f_caller, f_sc, f_iter, f_sample, ip, f_clock>>
    BY <1>1, <1>3, <2>2, FHandlerStamps, Zenon
  <2>3. CASE /\ F!ReplyToFault("reply", "sample") /\ F!ReplyRecv("handler", F!FaultEp)
             /\ UNCHANGED f_iter
    BY <1>1, <1>3, <2>3, FHandlerReplies, Zenon
  <2>4. CASE /\ F!Step("handler", "sample", "loop")
             /\ IF Hf(bench).samples THEN f_sample' = (f_clock - f_start) % Modulus
                ELSE UNCHANGED f_sample
             /\ f_iter' = [f_iter EXCEPT !["handler"] = @ + 1]
             /\ UNCHANGED <<f_tcb, f_active, f_caller, f_sc, f_start, ip, f_clock>>
    <3>1. f_sample' = IF Hf(bench).samples THEN (f_clock - f_start) % Modulus ELSE f_sample
      BY <2>4, Zenon
    <3> QED
      BY <1>1, <1>3, <2>4, <3>1, FHandlerSamples, Zenon
  <2>5. CASE /\ Handled = Hf(bench).loops /\ F!ReplyToFault("loop", "send")
             /\ F!Reply("handler") /\ UNCHANGED <<f_iter, ip>>
    BY <1>1, <1>3, <2>5, FHandlerEnds, Zenon
  <2>6. CASE /\ F!Step("handler", "send", "block") /\ F!Send("handler", F!DoneEp) /\ F!Tick
             /\ UNCHANGED <<f_caller, f_sc, f_iter, f_start, f_sample, ip>>
    BY <1>1, <1>3, <2>6, FHandlerReports, Zenon
  <2>7. ~F!Step("handler", "block", "off")
    BY <1>1, <1>3, FHandlerNeverBlocks, Zenon DEF F!Step
  <2>8. CASE F!fault_handler_done
    BY <2>5, <2>6, <2>7, <2>8, Zenon
       DEF F!fault_handler_done, F!Handler, F!handler_fn, Hf, Handled
  <2> QED
    BY <1>3, <2>1, <2>2, <2>3, <2>4, <2>8, Zenon
       DEF F!HandlerStep, F!Handler, F!handler_fn, F!Stamp, F!Sample, Hf, Handled, Modulus
<1> QED
  BY <1>2, <1>3, Zenon DEF F!ChildStep, F!Faulter, F!Handler

\* Steps of another application leave this one alone.
LEMMA FStutters ==
  ASSUME FInv, UNCHANGED faultvars
  PROVE  FInv'
<1>1. /\ f_tcb' = f_tcb /\ f_pc' = f_pc /\ f_caller' = f_caller /\ f_sc' = f_sc
      /\ bench' = bench /\ f_iter' = f_iter /\ f_start' = f_start /\ f_sample' = f_sample
      /\ ip' = ip /\ f_clock' = f_clock /\ mcs' = mcs
  BY Zenon DEF faultvars
<1>2. /\ Raised' = Raised /\ Handled' = Handled
      /\ Idle' = Idle /\ Lent' = Lent /\ (mcs' <=> mcs)
  BY <1>1, FSame, Zenon DEF Raised, Handled
<1>3. (MainWaits' <=> MainWaits) /\ (\A l, x, u : FAt(u, l, x)' <=> FAt(u, l, x))
  BY <1>1, <1>2, Zenon DEF MainWaits, FAt
<1>4. FTypeOK'
  BY <1>1, Zenon DEF FInv, FTypeOK
<1>5. FUntouched' <=> FUntouched
  BY <1>1, <1>2, <1>3, Zenon DEF FUntouched
<1>6. FApart \/ FInitialising \/ FPrepared => FApart' \/ FInitialising' \/ FPrepared'
  BY <1>1, <1>2, <1>3, <1>5, Zenon DEF FApart, FInitialising, FPrepared
<1>7. FBefore \/ FFaulted => FBefore' \/ FFaulted'
  BY <1>1, <1>2, <1>3, <1>5, Zenon DEF FBefore, FFaulted, Agree
<1>8. FReplied \/ FEnding \/ FReturned \/ FStopped =>
        FReplied' \/ FEnding' \/ FReturned' \/ FStopped'
  BY <1>1, <1>2, <1>3, Zenon DEF FReplied, FEnding, FReturned, FStopped, Agree
<1>9. bench < 7 => FStamps' /\ FSampled'
  BY <1>1, <1>2, Zenon DEF FInv, FStamps, FSampled
<1> QED
  BY <1>1, <1>4, <1>6, <1>7, <1>8, <1>9, Zenon DEF FInv, FJoint

\* A step of the fault application keeps the invariant and goes from one joint state
\* to the next.
LEMMA FSteps ==
  ASSUME FInv, F!Next
  PROVE  FInv' /\ (FProceeds \/ UNCHANGED faultvars)
<1>1. CASE F!run_benchmark
  BY <1>1, FStartsHandler, FStartsFaulter, FWaits, FConverts, FSuspends, Zenon
     DEF F!run_benchmark, F!Main
<1>2. CASE \E t \in F!Child : F!ChildStep(t)
  BY <1>2, FChild, Zenon
<1>3. CASE F!Finished
  BY <1>3, FStutters, Zenon DEF F!Finished, F!vars, faultvars
<1> QED
  BY <1>1, <1>2, <1>3, Zenon DEF F!Next

-----------------------------------------------------------------------------
(* The fault application: what follows from the invariant.                 *)

\* The three threads of the fault application are in one of the joint states: the
\* handler has replied to exactly the faults the faulter has behind it, whatever the
\* numbers of runs and the width of the counter, on an MCS kernel and on others.
THEOREM FaultInvariance == MCSpec => []FInv
<1>1. MCInit => FInv
  <2> SUFFICES ASSUME MCInit PROVE FInv
    BY Zenon
  <2>1. F!Init
    BY Zenon DEF MCInit
  <2>2. /\ f_tcb = [t \in F!Thread |-> IF t = "main" THEN F!Running ELSE F!Inactive]
        /\ f_pc = [t \in F!Thread |-> IF t = "main" THEN "start_handler" ELSE "off"]
        /\ f_caller = [t \in F!Thread |-> NoThread]
        /\ f_sc = Own /\ bench = 1 /\ f_iter = [t \in F!Child |-> 0]
        /\ f_start = 0 /\ f_sample = 0 /\ f_clock \in 0..Modulus - 1 /\ mcs \in BOOLEAN
    BY <2>1, Zenon DEF F!Init, F!Main, Own, Modulus
  <2>3. /\ FAt("main", "start_handler", F!Running)
        /\ FAt("faulter", "off", F!Inactive) /\ FAt("handler", "off", F!Inactive)
        /\ f_caller["main"] = NoThread /\ f_caller["faulter"] = NoThread
        /\ f_caller["handler"] = NoThread
    BY <2>2, FConstants, Zenon DEF FAt
  <2>4. /\ Raised = 0 /\ bench \in 1..7 /\ bench \in 1..6
        /\ 0 \in 0..Modulus - 1 /\ 0 \notin 2..FaultRuns
    BY <2>2, FConstants DEF Raised
  <2>5. FTypeOK
    <3>1. f_iter \in [F!Child -> Nat]
      BY <2>2
    <3>2. /\ f_pc \in [F!Thread -> FLabel] /\ f_tcb \in [F!Thread -> FState]
          /\ f_caller \in [F!Thread -> {"faulter", NoThread}]
      BY <2>2, Zenon DEF FLabel, FState
    <3> QED
      BY <2>2, <2>3, <2>4, <3>1, <3>2, Zenon DEF FTypeOK
  <2>6. FApart
    BY <2>2, <2>3, <2>4, Zenon DEF FApart
  <2>7. FStamps /\ FSampled
    BY <2>3, <2>4, Zenon DEF FStamps, FSampled, FAt
  <2> QED
    BY <2>5, <2>6, <2>7, Zenon DEF FInv, FJoint
<1>2. FInv /\ [MCNext]_allvars => FInv'
  BY FSteps, FStutters, Zenon DEF MCNext, allvars
<1> QED
  BY <1>1, <1>2, PTL DEF MCSpec

\* Every sample of the fault application that is reported spans the kernel entries
\* it is named after, although the two threads share the stamp without a lock.
THEOREM SamplesAreOneLeg == MCSpec => []SampleIsOneLeg
<1>1. FInv => SampleIsOneLeg
  <2> SUFFICES ASSUME FInv, NEW t \in F!Child,
                      f_pc[t] = "loop", f_iter[t] \in FaultIgnored + 1..FaultRuns,
                      IF t = "faulter" THEN Ff(bench).samples ELSE Hf(bench).samples
               PROVE  f_sample = Legs(bench)
    BY Zenon DEF SampleIsOneLeg, F!SampleIsOneLeg, F!Faulter, F!faulter_fn, F!handler_fn, Ff,
                 Hf, Legs
  <2>1. FTypeOK /\ FJoint /\ (bench \in 1..6 => FSampled)
    BY FBasics, Zenon
  <2>2. t = "faulter" \/ t = "handler"
    BY FConstants, Zenon
  <2>3. bench \in 1..6
    BY <2>1, <2>2, Zenon
       DEF FJoint, FAt, FApart, FInitialising, FPrepared, FUntouched, FBefore, FFaulted,
           FReplied, FEnding, FReturned, FStopped
  <2>4. f_iter[t] \in 2..FaultRuns /\ f_iter[t] > 0
    BY FConstants
  <2> QED
    BY <2>1, <2>2, <2>3, <2>4, Zenon DEF FSampled, Raised, Handled
<1> QED
  BY <1>1, FaultInvariance, PTL

\* A reply makes the faulter go on right behind the instruction that faulted: the
\* address that the handler keeps between two system calls is that of the pending fault.
THEOREM RepliesResume == MCSpec => ResumesBehindFault
<1> DEFINE A == f_tcb["faulter"] = F!AwaitingReply /\ f_tcb'["faulter"] = F!Running =>
                  f_pc'["faulter"] = F!Resume[f_pc["faulter"]]
<1>1. FInv /\ [MCNext]_allvars => [A]_(F!vars)
  <2> SUFFICES ASSUME FInv, F!Next,
                      f_tcb["faulter"] = F!AwaitingReply, f_tcb'["faulter"] = F!Running
               PROVE  f_pc'["faulter"] = F!Resume[f_pc["faulter"]]
    BY Zenon DEF MCNext, allvars, faultvars, F!vars
  <2>1. FTypeOK /\ FJoint /\ f_sc \in {Own, Idle, Lent}
    BY FBasics, Zenon
  <2>2. FFaulted
    BY <2>1, FStates, Zenon
       DEF FJoint, FAt, MainWaits, FApart, FInitialising, FPrepared, FUntouched, FBefore,
           FReplied, FEnding, FReturned, FStopped
  <2>3. f_tcb["main"] # F!Running /\ f_tcb'["faulter"] # f_tcb["faulter"]
    BY <2>2, FStates, Zenon DEF FFaulted, MainWaits, FAt
  <2>4. ~F!run_benchmark /\ ~F!Finished
    BY <2>1, <2>3, FConstants, FOrder, Zenon DEF F!run_benchmark, F!Main, F!Finished, F!vars
  <2>5. PICK t \in F!Child : F!ChildStep(t)
    BY <2>4, Zenon DEF F!Next
  <2>6. F!HandlerStep /\ UNCHANGED <<mcs, bench>>
    <3>1. t = "faulter" => f_tcb["faulter"] = F!Running
      BY <2>1, <2>5, FConstants, FOrder, Zenon DEF F!ChildStep
    <3> QED
      BY <2>3, <2>5, <3>1, Zenon DEF F!ChildStep, F!Faulter
  <2>7. f_pc["handler"] \in {"loop", "reply", "sample"}
    BY <2>2, Zenon DEF FFaulted, FAt
  <2>8. \/ F!ReplyToFault("reply", "sample")
        \/ F!ReplyToFault("loop", "send")
    BY <2>3, <2>6, <2>7, Zenon
       DEF F!HandlerStep, F!fault_handler_start, F!fault_handler_done, F!Step, F!Handler
  <2> QED
    BY <2>2, <2>6, <2>8, FResumes, Zenon DEF FLabel
<1>2. MCSpec => [][A]_(F!vars)
  BY <1>1, FaultInvariance, PTL DEF MCSpec
<1> QED
  BY <1>2, Zenon DEF ResumesBehindFault, F!ResumesBehindFault, F!Faulter

\* The stages of the two children in the refinement.
FStages(f, h) ==
  [t \in F!Child |-> F!Stage(t)] = [t \in F!Child |-> IF t = "faulter" THEN f ELSE h]

\* The stages of faulter and handler in the joint states.
LEMMA FStaged ==
  ASSUME FTypeOK
  PROVE  /\ FApart => FStages("idle", "idle")
         /\ FStarting => FStages("idle", "busy")
         /\ FMeasuring => FStages("busy", "busy")
         /\ FReturned => FStages("done", "busy")
         /\ FStopped => FStages("done", "done")
<1>1. FApart => FStages("idle", "idle")
  BY Zenon DEF FApart, FAt, FStages, F!Stage, F!Main
<1>2. FStarting => FStages("idle", "busy")
  BY FConstants, Zenon
     DEF FStarting, FInitialising, FPrepared, FUntouched, FAt, FStages, F!Stage, F!Main,
         F!Faulter
<1>3. FMeasuring => FStages("busy", "busy")
  <2> SUFFICES ASSUME FMeasuring PROVE FStages("busy", "busy")
    BY Zenon
  <2>1. f_pc["main"] \in {"wait_faulter", "bind", "wait_handler"}
    BY Zenon DEF FMeasuring, FBefore, FFaulted, FReplied, FEnding, MainWaits, FAt
  <2>2. f_pc["handler"] \in {"begin", "loop", "reply", "sample", "send"}
    BY Zenon DEF FMeasuring, FBefore, FUntouched, FFaulted, FReplied, FEnding, FAt
  <2>3. f_pc["faulter"] \in {"first", "loop", "fault", "sample", "last", "done"}
    BY Zenon DEF FMeasuring, FBefore, FFaulted, FReplied, FEnding, Agree, Behind
  <2> QED
    BY <2>1, <2>2, <2>3, FConstants, Zenon DEF FStages, F!Stage, F!Main, F!Faulter
<1>4. FReturned => FStages("done", "busy")
  BY FConstants, Zenon DEF FReturned, FAt, FStages, F!Stage, F!Main, F!Faulter
<1>5. FStopped => FStages("done", "done")
  BY FConstants, Zenon DEF FStopped, FAt, FStages, F!Stage, F!Main, F!Faulter
<1> QED
  BY <1>1, <1>2, <1>3, <1>4, <1>5, Zenon

\* run_benchmark forks and joins faulter and handler: in each of the six rounds it
\* starts each of them once, and goes on only when both have delivered.
THEOREM FaultForksAndJoins == MCSpec => F!FJ!Spec
<1> DEFINE St == [t \in F!Child |-> F!Stage(t)]
           Rd == bench - 1
<1>1. MCInit /\ FInv => F!FJ!Init
  <2> SUFFICES ASSUME MCInit, FInv PROVE F!FJ!Init
    BY Zenon
  <2>1. bench = 1 /\ f_pc["main"] = "start_handler"
    BY FConstants, Zenon DEF MCInit, F!Init, F!Main
  <2>2. Rd = 0
    BY <2>1
  <2>3. \A t \in F!Child : F!Stage(t) = "idle"
    BY <2>1, Zenon DEF F!Stage, F!Main
  <2> QED
    BY <2>2, <2>3, Zenon DEF F!FJ!Init
<1>2. FInv /\ FInv' /\ FProceeds => [F!FJ!Next]_(F!FJ!vars)
  <2> SUFFICES ASSUME FInv, FInv', FProceeds PROVE [F!FJ!Next]_(F!FJ!vars)
    BY Zenon
  <2>1. /\ FApart => FStages("idle", "idle")
        /\ FStarting => FStages("idle", "busy")
        /\ FMeasuring => FStages("busy", "busy")
        /\ FReturned => FStages("done", "busy")
        /\ FStopped => FStages("done", "done")
    BY FStaged, Zenon DEF FInv
  <2>2. /\ FApart' => FStages("idle", "idle")'
        /\ FStarting' => FStages("idle", "busy")'
        /\ FMeasuring' => FStages("busy", "busy")'
        /\ FReturned' => FStages("done", "busy")'
        /\ FStopped' => FStages("done", "done")'
    <3>1. FTypeOK'
      BY Zenon DEF FInv
    <3> QED
      BY <3>1, FStaged, PTL
  <2>3. CASE bench' = bench + 1 /\ FStopped /\ FApart'
    <3>1. (bench - 1)' = (bench - 1) + 1
      <4>1. bench \in 1..7 
        BY Zenon DEF FInv, FTypeOK
      <4> QED
        BY <2>3, <4>1
    <3>2. F!FJ!NextRound
      BY <2>1, <2>2, <2>3, <3>1, FConstants, Zenon DEF F!FJ!NextRound, FStages
    <3> QED
      BY <3>2, Zenon DEF F!FJ!Next
  <2>4. CASE bench' = bench /\ FApart /\ FStarting'
    <3>1. bench - 1 < 6
      <4>1. bench \in 1..6
        BY <2>4, Zenon DEF FStarting, FInitialising, FPrepared, FUntouched
      <4> QED
        BY <4>1
    <3>2. F!FJ!Start("handler")
      BY <2>1, <2>2, <2>4, <3>1, FConstants DEF F!FJ!Start, FStages, F!run_fault_benchmark
    <3> QED
      BY <3>2, FConstants, Zenon DEF F!FJ!Next
  <2>5. CASE bench' = bench /\ FStarting /\ FMeasuring'
    <3>1. bench - 1 < 6
      <4>1. bench \in 1..6
        BY <2>5, Zenon DEF FStarting, FInitialising, FPrepared, FUntouched
      <4> QED
        BY <4>1
    <3>2. F!FJ!Start("faulter")
      BY <2>1, <2>2, <2>5, <3>1, FConstants DEF F!FJ!Start, FStages, F!run_fault_benchmark
    <3> QED
      BY <3>2, FConstants, Zenon DEF F!FJ!Next
  <2>6. CASE bench' = bench /\ FMeasuring /\ FReturned'
    <3>1. F!FJ!Deliver("faulter")
      BY <2>1, <2>2, <2>6, FConstants DEF F!FJ!Deliver, FStages
    <3> QED
      BY <3>1, FConstants, Zenon DEF F!FJ!Next
  <2>7. CASE bench' = bench /\ FReturned /\ FStopped'
    <3>1. F!FJ!Deliver("handler")
      BY <2>1, <2>2, <2>7, FConstants DEF F!FJ!Deliver, FStages
    <3> QED
      BY <3>1, FConstants, Zenon DEF F!FJ!Next
  <2>8. CASE /\ bench' = bench
             /\ \/ FStarting /\ FStarting'
                \/ FMeasuring /\ FMeasuring'
                \/ FReturned /\ FReturned'
                \/ FStopped /\ FStopped'
    BY <2>1, <2>2, <2>8, Zenon DEF F!FJ!vars, FStages
  <2> QED
    BY <2>3, <2>4, <2>5, <2>6, <2>7, <2>8, Zenon DEF FProceeds
<1>3. UNCHANGED faultvars => UNCHANGED F!FJ!vars
  BY Zenon DEF faultvars, F!FJ!vars, F!Stage
<1>4. FInv /\ FInv' /\ [MCNext]_allvars => [F!FJ!Next]_(F!FJ!vars)
  BY <1>2, <1>3, FSteps, Zenon DEF MCNext, allvars
<1> QED
  BY <1>1, <1>4, FaultInvariance, PTL DEF MCSpec, F!FJ!Spec

-----------------------------------------------------------------------------
(* The signal application: the inductive invariant.                        *)

\* The labels of all three threads.
SLabel == {"begin", "start1", "start2", "collect", "stop1", "stop2", "loop", "stamp",
           "signal", "sample", "next", "done", "block", "off"}

\* The types, and the priorities of the phase.
STypeOK ==
  /\ s_pc \in [S!Thread -> SLabel]
  /\ s_tcb \in [S!Thread -> S!ThreadState({S!Ntfn}, {S!DoneEp})]
  /\ s_active \in [{S!Ntfn} -> BOOLEAN]
  /\ s_iter \in [S!Child -> Nat]
  /\ s_phase \in 0..3
  /\ prio = IF s_phase = 3 THEN S!SwapPriorities ELSE S!Configure

\* The label and the state of a thread.
At(t, l, s) == s_pc[t] = l /\ s_tcb[t] = s

Asleep == S!WaitingOn(S!Ntfn)
Receiving == S!RecvingOn(S!DoneEp)
Pending == s_active[S!Ntfn]
Taken == s_iter["signaller"]
Woken == s_iter["waiter"]

\* Before and between the phases.
SApart ==
  /\ At("signaller", "off", S!Inactive) /\ At("waiter", "off", S!Inactive) /\ ~Pending
  /\ \/ At("main", "begin", S!Running)
     \/ At("main", "start1", S!Running) /\ s_phase > 0

\* Phases 1 and 2: main starts the signaller, which cannot run before main waits, and
\* then the waiter.
SStarting ==
  /\ s_phase \in 1..2 /\ Taken = 0 /\ ~Pending
  /\ At("signaller", "loop", S!Running)
  /\ \/ At("main", "start2", S!Running) /\ At("waiter", "off", S!Inactive)
     \/ /\ Woken = 0
        /\ At("waiter", "loop", S!Running) \/ At("waiter", "stamp", Asleep)
        /\ \/ At("main", "collect", S!Running) /\ left = 2
           \/ At("main", "collect", Receiving) /\ left = 1

\* The waiter waits for the signal of this iteration.
SWaited ==
  /\ s_phase \in 1..2 /\ Taken < SignalRuns /\ Woken = Taken /\ ~Pending
  /\ At("signaller", "loop", S!Running) \/ At("signaller", "signal", S!Running)
  /\ At("waiter", "stamp", Asleep)
  /\ At("main", "collect", Receiving) /\ left = 1

\* It has it, and runs before the signaller goes on.
SWoken ==
  /\ s_phase \in 1..2 /\ Taken < SignalRuns /\ Woken = Taken /\ ~Pending
  /\ At("signaller", "sample", S!Running)
  /\ At("waiter", "stamp", S!Running)
  /\ At("main", "collect", Receiving) /\ left = 1

\* It has stamped, and waits for the next signal before the signaller goes on.
SStamped ==
  /\ s_phase \in 1..2 /\ Taken + 1 < SignalRuns /\ Woken = Taken + 1 /\ ~Pending
  /\ s_end = <<s_phase, Taken + 1>>
  /\ \/ /\ At("signaller", "sample", S!Running)
        /\ At("waiter", "loop", S!Running) \/ At("waiter", "stamp", Asleep)
     \/ /\ At("signaller", "next", S!Running) /\ s_sample = <<s_phase, Taken + 1>>
        /\ At("waiter", "stamp", Asleep)
  /\ At("main", "collect", Receiving) /\ left = 1

\* The same in the last iteration, after which the waiter reports to main.
SLast ==
  /\ s_phase \in 1..2 /\ Taken + 1 = SignalRuns /\ Woken = SignalRuns /\ ~Pending
  /\ s_end = <<s_phase, Taken + 1>>
  /\ \/ /\ At("signaller", "sample", S!Running)
        /\ At("waiter", "done", S!Running)
        /\ At("main", "collect", Receiving) /\ left = 1
     \/ /\ At("signaller", "sample", S!Running)
        /\ At("waiter", "block", S!Running) \/ At("waiter", "off", Asleep)
        /\ \/ At("main", "collect", S!Running) /\ left = 1
           \/ At("main", "collect", Receiving) /\ left = 0
     \/ /\ At("signaller", "next", S!Running) /\ s_sample = <<s_phase, Taken + 1>>
        /\ At("waiter", "off", Asleep)
        /\ At("main", "collect", Receiving) /\ left = 0

\* The signaller reports to main, which stops both.
SReported ==
  /\ s_phase \in 1..2 /\ Taken = SignalRuns /\ Woken = SignalRuns /\ ~Pending
  /\ At("waiter", "off", Asleep)
  /\ \/ /\ At("signaller", "done", S!Running)
        /\ At("main", "collect", Receiving) /\ left = 0
     \/ /\ At("signaller", "block", S!Running)
        /\ \/ At("main", "collect", S!Running) /\ left = 0
           \/ At("main", "stop1", S!Running)
     \/ At("signaller", "off", S!Inactive) /\ At("main", "stop2", S!Running)

\* Phase 3: main is below the waiter, and goes on when that waits.
SSettling ==
  /\ s_phase = 3 /\ Woken = 0 /\ ~Pending
  /\ At("signaller", "off", S!Inactive)
  /\ At("waiter", "loop", S!Running) \/ At("waiter", "stamp", Asleep)
  /\ At("main", "start2", S!Running)

\* The first signal wakes the waiter, which cannot run; the second is pending.
SSignalling ==
  /\ s_phase = 3 /\ Taken < HiSignals /\ Woken = 0
  /\ \/ /\ Taken = 0 /\ ~Pending /\ At("waiter", "stamp", Asleep)
        /\ \/ At("signaller", "loop", S!Running)
           \/ At("signaller", "signal", S!Running) /\ seen = 0
     \/ /\ Taken > 0 /\ (Pending <=> Taken > 1) /\ At("waiter", "stamp", S!Running)
        /\ \/ At("signaller", "loop", S!Running)
           \/ At("signaller", "signal", S!Running) /\ seen = 0
     \/ /\ Pending <=> Taken > 0
        /\ At("waiter", "stamp", S!Running) /\ seen = 0
        /\ At("signaller", "sample", S!Running) \/ At("signaller", "next", S!Running)
  /\ At("main", "collect", S!Running) /\ left = 1

\* The signaller waits for main to receive its report.  The waiter takes the signals
\* it has been given, two, and waits for a third.
SReporting ==
  /\ s_phase = 3 /\ Taken = HiSignals
  /\ \/ /\ At("signaller", "done", S!Running)
        /\ At("waiter", "stamp", S!Running) /\ Woken = 0 /\ Pending
     \/ /\ At("signaller", "block", S!SendingTo(S!DoneEp))
        /\ \/ At("waiter", "stamp", S!Running) /\ Woken = 0 /\ Pending
           \/ At("waiter", "loop", S!Running) /\ Woken = 1 /\ Pending
           \/ At("waiter", "stamp", S!Running) /\ Woken = 1 /\ ~Pending
           \/ At("waiter", "loop", S!Running) /\ Woken = 2 /\ ~Pending
           \/ At("waiter", "stamp", Asleep) /\ ~Pending
  /\ At("main", "collect", S!Running) /\ left = 1

\* Main has the report, and stops both.
SStopping ==
  /\ s_phase = 3 /\ Taken = HiSignals /\ ~Pending
  /\ \/ /\ At("signaller", "block", S!Running)
        /\ At("waiter", "stamp", Asleep)
        /\ At("main", "collect", S!Running) /\ left = 0
     \/ /\ At("signaller", "off", Asleep)
        /\ At("waiter", "stamp", Asleep)
        /\ \/ At("main", "collect", S!Running) /\ left = 0
           \/ At("main", "stop1", S!Running)
     \/ /\ At("signaller", "off", Asleep)
        /\ At("waiter", "off", S!Inactive)
        /\ At("main", "stop2", S!Running)

SJoint ==
  \/ SApart \/ SStarting \/ SWaited \/ SWoken \/ SStamped \/ SLast \/ SReported
  \/ SSettling \/ SSignalling \/ SReporting \/ SStopping

SInv == STypeOK /\ SJoint

-----------------------------------------------------------------------------
(* What the kernel does to the threads of the signal application.          *)

\* The constants of the signal application, and its threads.
LEMMA SConstants ==
  /\ SignalRuns \in Nat /\ SignalRuns >= 3
  /\ HiSignals \in Nat /\ HiSignals >= SignalRuns
  /\ MaxPrio \in Nat /\ MaxPrio >= 2
  /\ S!Child = {"waiter", "signaller"}
  /\ S!Thread = {"waiter", "signaller", "main"}
BY SignalPartAssumption, Zenon DEF S!SignalAssumption, S!Child, S!Thread

\* The states of a thread differ.
LEMMA SStates ==
  /\ S!Running # S!Inactive /\ S!Running # Asleep /\ S!Running # Receiving
  /\ S!Running # S!SendingTo(S!DoneEp) /\ S!Inactive # Asleep /\ S!Inactive # Receiving
  /\ S!Inactive # S!SendingTo(S!DoneEp) /\ Asleep # Receiving
  /\ Asleep # S!SendingTo(S!DoneEp) /\ Receiving # S!SendingTo(S!DoneEp)
  /\ {S!Running, S!Inactive, Asleep, Receiving, S!SendingTo(S!DoneEp)}
       = S!ThreadState({S!Ntfn}, {S!DoneEp})
BY Zenon DEF Asleep, Receiving, S!Running, S!Inactive, S!WaitingOn, S!RecvingOn, S!SendingTo,
       S!ThreadState, S!Ntfn, S!DoneEp

\* The priorities: below main and the waiter in phases 1 and 2, the signaller is
\* above both in phase 3, and main below the waiter.
LEMMA SOrder ==
  ASSUME STypeOK
  PROVE  /\ \A t \in S!Thread : S!CanRun(t, prio) => s_tcb[t] = S!Running
         /\ s_phase < 3 /\ S!CanRun("signaller", prio) =>
              s_tcb["main"] # S!Running /\ s_tcb["waiter"] # S!Running
         /\ s_phase = 3 /\ S!CanRun("main", prio) =>
              s_tcb["waiter"] # S!Running /\ s_tcb["signaller"] # S!Running
         /\ s_phase = 3 /\ S!CanRun("waiter", prio) => s_tcb["signaller"] # S!Running
<1>1. DOMAIN s_tcb = S!Thread
  BY Zenon DEF STypeOK
<1>2. s_phase < 3 => /\ prio["main"] = MaxPrio /\ prio["waiter"] = MaxPrio
                     /\ prio["signaller"] = MaxPrio - 1
  BY SConstants DEF STypeOK, S!Configure
<1>3. s_phase = 3 => /\ prio["main"] = MaxPrio - 2 /\ prio["waiter"] = MaxPrio - 1
                     /\ prio["signaller"] = MaxPrio
  BY SConstants, Zenon DEF STypeOK, S!SwapPriorities
<1> QED
  BY <1>1, <1>2, <1>3, SConstants DEF S!CanRun

\* A thread goes from one label to another.
LEMMA SMoves ==
  ASSUME STypeOK, NEW t \in S!Thread, NEW l, NEW m \in SLabel, S!Step(t, l, m)
  PROVE  /\ s_pc[t] = l /\ s_pc'[t] = m
         /\ \A u \in S!Thread : u # t => s_pc'[u] = s_pc[u]
         /\ s_pc' \in [S!Thread -> SLabel]
BY Zenon DEF STypeOK, S!Step

\* A thread is given a state.
LEMMA SIsSet ==
  ASSUME STypeOK, NEW t \in S!Thread, NEW s \in S!ThreadState({S!Ntfn}, {S!DoneEp}),
         S!SetState(t, s)
  PROVE  /\ s_tcb'[t] = s
         /\ \A u \in S!Thread : u # t => s_tcb'[u] = s_tcb[u]
         /\ s_tcb' \in [S!Thread -> S!ThreadState({S!Ntfn}, {S!DoneEp})]
BY Zenon DEF STypeOK, S!SetState

\* seL4_Wait takes the pending signal, or blocks the caller.
LEMMA SWaits ==
  ASSUME STypeOK, NEW t \in S!Thread, S!Wait(t, S!Ntfn)
  PROVE  /\ s_tcb' \in [S!Thread -> S!ThreadState({S!Ntfn}, {S!DoneEp})]
         /\ s_active' \in [{S!Ntfn} -> BOOLEAN]
         /\ ~Pending'
         /\ s_tcb'[t] = IF Pending THEN s_tcb[t] ELSE Asleep
         /\ \A u \in S!Thread : u # t => s_tcb'[u] = s_tcb[u]
<1>1. CASE Pending
  <2>1. s_active' = [s_active EXCEPT ![S!Ntfn] = FALSE] /\ s_tcb' = s_tcb
    BY <1>1, Zenon DEF S!Wait, Pending
  <2> QED
    BY <1>1, <2>1, Zenon DEF STypeOK, Pending
<1>2. CASE ~Pending
  <2>1. S!SetState(t, Asleep) /\ s_active' = s_active
    BY <1>2, Zenon DEF S!Wait, Pending, Asleep
  <2>2. Asleep \in S!ThreadState({S!Ntfn}, {S!DoneEp})
    BY SStates, Zenon
  <2> QED
    BY <1>2, <2>1, <2>2, SIsSet, Zenon DEF STypeOK, Pending
<1> QED
  BY <1>1, <1>2, Zenon

\* seL4_Signal wakes the waiter if that is the only thread that may wait, or the
\* signal is pending.
LEMMA SSignals ==
  ASSUME STypeOK, S!Signal(S!Ntfn), s_tcb["main"] # Asleep, s_tcb["signaller"] # Asleep
  PROVE  /\ s_tcb' \in [S!Thread -> S!ThreadState({S!Ntfn}, {S!DoneEp})]
         /\ s_active' \in [{S!Ntfn} -> BOOLEAN]
         /\ s_tcb["waiter"] = Asleep =>
              s_tcb'["waiter"] = S!Running /\ s_active' = s_active
         /\ s_tcb["waiter"] # Asleep => s_tcb'["waiter"] = s_tcb["waiter"] /\ Pending'
         /\ \A u \in S!Thread : u # "waiter" => s_tcb'[u] = s_tcb[u]
<1>1. S!Blocked(Asleep) = {t \in S!Thread : s_tcb[t] = Asleep}
  BY Zenon DEF STypeOK, S!Blocked
<1>2. CASE s_tcb["waiter"] = Asleep
  <2>1. S!Blocked(Asleep) = {"waiter"}
    BY <1>1, <1>2, SConstants, Zenon
  <2>2. S!SetState("waiter", S!Running) /\ s_active' = s_active
    BY <2>1, Zenon DEF S!Signal, Asleep
  <2> QED
    BY <1>2, <2>2, SIsSet, SStates, SConstants, Zenon DEF STypeOK
<1>3. CASE s_tcb["waiter"] # Asleep
  <2>1. S!Blocked(Asleep) = {}
    BY <1>1, <1>3, SConstants, Zenon
  <2>2. s_active' = [s_active EXCEPT ![S!Ntfn] = TRUE] /\ s_tcb' = s_tcb
    BY <2>1, Zenon DEF S!Signal, Asleep
  <2> QED
    BY <1>3, <2>2, Zenon DEF STypeOK, Pending
<1> QED
  BY <1>2, <1>3, Zenon

\* seL4_Send meets main if that receives, or blocks the caller.
LEMMA SSends ==
  ASSUME STypeOK, NEW t \in S!Child, S!Send(t, S!DoneEp),
         s_tcb["waiter"] # Receiving, s_tcb["signaller"] # Receiving
  PROVE  /\ s_tcb' \in [S!Thread -> S!ThreadState({S!Ntfn}, {S!DoneEp})]
         /\ s_active' = s_active
         /\ s_tcb["main"] = Receiving =>
              s_tcb'["main"] = S!Running /\ s_tcb'[t] = s_tcb[t]
         /\ s_tcb["main"] # Receiving =>
              s_tcb'["main"] = s_tcb["main"] /\ s_tcb'[t] = S!SendingTo(S!DoneEp)
         /\ \A u \in S!Thread : u # t /\ u # "main" => s_tcb'[u] = s_tcb[u]
<1>1. S!Blocked(Receiving) = {u \in S!Thread : s_tcb[u] = Receiving}
  BY Zenon DEF STypeOK, S!Blocked
<1>2. CASE s_tcb["main"] = Receiving
  <2>1. S!Blocked(Receiving) = {"main"}
    BY <1>1, <1>2, SConstants, Zenon
  <2>2. S!SetState("main", S!Running) /\ s_active' = s_active
    BY <2>1, Zenon DEF S!Send, Receiving
  <2> QED
    BY <1>2, <2>2, SIsSet, SStates, SConstants, Zenon
<1>3. CASE s_tcb["main"] # Receiving
  <2>1. S!Blocked(Receiving) = {}
    BY <1>1, <1>3, SConstants, Zenon
  <2>2. S!SetState(t, S!SendingTo(S!DoneEp)) /\ s_active' = s_active
    BY <2>1, Zenon DEF S!Send, Receiving
  <2> QED
    BY <1>3, <2>2, SIsSet, SStates, SConstants, Zenon
<1> QED
  BY <1>2, <1>3, Zenon

\* seL4_Recv meets the signaller if that sends, or blocks main.
LEMMA SReceives ==
  ASSUME STypeOK, S!Recv("main", S!DoneEp),
         s_tcb["waiter"] # S!SendingTo(S!DoneEp), s_tcb["main"] # S!SendingTo(S!DoneEp)
  PROVE  /\ s_tcb' \in [S!Thread -> S!ThreadState({S!Ntfn}, {S!DoneEp})]
         /\ s_active' = s_active
         /\ s_tcb["signaller"] = S!SendingTo(S!DoneEp) =>
              s_tcb'["signaller"] = S!Running /\ s_tcb'["main"] = s_tcb["main"]
         /\ s_tcb["signaller"] # S!SendingTo(S!DoneEp) =>
              s_tcb'["signaller"] = s_tcb["signaller"] /\ s_tcb'["main"] = Receiving
         /\ s_tcb'["waiter"] = s_tcb["waiter"]
<1>1. S!Blocked(S!SendingTo(S!DoneEp)) = {u \in S!Thread : s_tcb[u] = S!SendingTo(S!DoneEp)}
  BY Zenon DEF STypeOK, S!Blocked
<1>2. CASE s_tcb["signaller"] = S!SendingTo(S!DoneEp)
  <2>1. S!Blocked(S!SendingTo(S!DoneEp)) = {"signaller"}
    BY <1>1, <1>2, SConstants, Zenon
  <2>2. S!SetState("signaller", S!Running) /\ s_active' = s_active
    BY <2>1, Zenon DEF S!Recv
  <2> QED
    BY <1>2, <2>2, SIsSet, SStates, SConstants, Zenon
<1>3. CASE s_tcb["signaller"] # S!SendingTo(S!DoneEp)
  <2>1. S!Blocked(S!SendingTo(S!DoneEp)) = {}
    BY <1>1, <1>3, SConstants, Zenon
  <2>2. S!SetState("main", Receiving) /\ s_active' = s_active
    BY <2>1, Zenon DEF S!Recv, Receiving
  <2> QED
    BY <1>3, <2>2, SIsSet, SStates, SConstants, Zenon
<1> QED
  BY <1>2, <1>3, Zenon

-----------------------------------------------------------------------------
(* The signal application: one lemma for every step.                       *)

\* wait_fn waits for a signal.
LEMMA SWaiterWaits ==
  ASSUME SInv,
         S!CanRun("waiter", prio),
         S!Step("waiter", "loop", "stamp"),
         S!Wait("waiter", S!Ntfn),
         UNCHANGED <<s_iter, s_end, seen, s_sample, s_phase, prio, left>>
  PROVE  SInv'
<1> USE SConstants, SStates
<1>1. STypeOK /\ SJoint
  BY Zenon DEF SInv
<1>2. /\ s_pc["waiter"] = "loop" /\ s_pc'["waiter"] = "stamp"
      /\ s_pc'["main"] = s_pc["main"] /\ s_pc'["signaller"] = s_pc["signaller"]
      /\ s_pc' \in [S!Thread -> SLabel]
  BY <1>1, SMoves, Zenon DEF SLabel
<1>3. s_tcb["waiter"] = S!Running /\ (s_phase = 3 => s_tcb["signaller"] # S!Running)
  BY <1>1, SOrder, Zenon
<1>4. SStarting \/ SStamped \/ SSettling \/ SReporting
  BY <1>1, <1>2, <1>3, Zenon
     DEF SJoint, At, SApart, SWaited, SWoken, SLast, SReported, SSignalling, SStopping
<1>5. /\ s_tcb' \in [S!Thread -> S!ThreadState({S!Ntfn}, {S!DoneEp})]
      /\ s_active' \in [{S!Ntfn} -> BOOLEAN]
      /\ ~Pending' /\ s_tcb'["waiter"] = IF Pending THEN S!Running ELSE Asleep
      /\ s_tcb'["main"] = s_tcb["main"] /\ s_tcb'["signaller"] = s_tcb["signaller"]
  BY <1>1, <1>3, SWaits, Zenon
<1>6. STypeOK'
  BY <1>1, <1>2, <1>5, Zenon DEF STypeOK
<1>7. SStarting => SStarting'
  BY <1>2, <1>3, <1>5, Zenon DEF SStarting, At, Taken, Woken
<1>8. SStamped => SStamped'
  BY <1>2, <1>3, <1>5, Zenon DEF SStamped, At, Taken, Woken
<1>9. SSettling => SSettling'
  BY <1>2, <1>3, <1>5, Zenon DEF SSettling, At, Taken, Woken
<1>10. SReporting => SReporting'
  BY <1>2, <1>3, <1>5, Zenon DEF SReporting, At, Taken, Woken
<1> QED
  BY <1>4, <1>6, <1>7, <1>8, <1>9, <1>10, Zenon DEF SInv, SJoint

\* wait_fn stamps.
LEMMA SWaiterStamps ==
  ASSUME SInv,
         S!CanRun("waiter", prio),
         S!Step("waiter", "stamp",
                IF s_iter["waiter"] + 1 < SignalRuns THEN "loop" ELSE "done"),
         s_end' = <<s_phase, s_iter["waiter"] + 1>>,
         s_iter' = [s_iter EXCEPT !["waiter"] = @ + 1],
         UNCHANGED <<s_tcb, s_active, seen, s_sample, s_phase, prio, left>>
  PROVE  SInv'
<1> USE SConstants, SStates
<1>1. STypeOK /\ SJoint
  BY Zenon DEF SInv
<1>2. /\ s_pc["waiter"] = "stamp"
      /\ s_pc'["waiter"] = IF s_iter["waiter"] + 1 < SignalRuns THEN "loop" ELSE "done"
      /\ s_pc'["main"] = s_pc["main"] /\ s_pc'["signaller"] = s_pc["signaller"]
      /\ s_pc' \in [S!Thread -> SLabel]
  BY <1>1, SMoves, Zenon DEF SLabel
<1>3. s_tcb["waiter"] = S!Running /\ (s_phase = 3 => s_tcb["signaller"] # S!Running)
  BY <1>1, SOrder, Zenon
<1>4. SWoken \/ SReporting
  BY <1>1, <1>2, <1>3, Zenon
     DEF SJoint, At, SApart, SStarting, SWaited, SStamped, SLast, SReported, SSettling,
         SSignalling, SStopping
<1>5. /\ s_iter' \in [S!Child -> Nat]
      /\ Woken' = Woken + 1 /\ Taken' = Taken /\ Woken \in Nat /\ Taken \in Nat
      /\ Woken = s_iter["waiter"] /\ (Pending' <=> Pending)
  BY <1>1 DEF STypeOK, Woken, Taken, Pending
<1>6. STypeOK'
  BY <1>1, <1>2, <1>5, Zenon DEF STypeOK
<1>7. SWoken => SStamped' \/ SLast'
  BY <1>2, <1>3, <1>5 DEF SWoken, SStamped, SLast, At
<1>8. SReporting => SReporting'
  BY <1>2, <1>3, <1>5 DEF SReporting, At
<1> QED
  BY <1>4, <1>6, <1>7, <1>8, Zenon DEF SInv, SJoint

\* The signaller reads its start.
LEMMA SSignallerStamps ==
  ASSUME SInv,
         S!CanRun("signaller", prio),
         S!Step("signaller", "loop", "signal"),
         seen' = s_iter["waiter"],
         UNCHANGED <<s_tcb, s_active, s_iter, s_sample, s_end, s_phase, prio, left>>
  PROVE  SInv'
<1> USE SConstants, SStates
<1>1. STypeOK /\ SJoint
  BY Zenon DEF SInv
<1>2. /\ s_pc["signaller"] = "loop" /\ s_pc'["signaller"] = "signal"
      /\ s_pc'["main"] = s_pc["main"] /\ s_pc'["waiter"] = s_pc["waiter"]
      /\ s_pc' \in [S!Thread -> SLabel]
  BY <1>1, SMoves, Zenon DEF SLabel
<1>3. /\ s_tcb["signaller"] = S!Running
      /\ s_phase < 3 => s_tcb["main"] # S!Running /\ s_tcb["waiter"] # S!Running
  BY <1>1, SOrder, Zenon
<1>4. SStarting \/ SWaited \/ SSignalling
  BY <1>1, <1>2, <1>3, Zenon
     DEF SJoint, At, SApart, SWoken, SStamped, SLast, SReported, SSettling, SReporting,
         SStopping
<1>5. /\ seen' = Woken /\ Woken' = Woken /\ Taken' = Taken
      /\ Taken \in Nat /\ (Pending' <=> Pending)
  BY <1>1, Zenon DEF STypeOK, Woken, Taken, Pending
<1>6. STypeOK'
  BY <1>1, <1>2, <1>5, Zenon DEF STypeOK
<1>7. SStarting => SWaited'
  BY <1>2, <1>3, <1>5 DEF SStarting, SWaited, At
<1>8. SWaited => SWaited'
  BY <1>2, <1>3, <1>5, Zenon DEF SWaited, At
<1>9. SSignalling => SSignalling'
  BY <1>2, <1>3, <1>5, Zenon DEF SSignalling, At
<1> QED
  BY <1>4, <1>6, <1>7, <1>8, <1>9, Zenon DEF SInv, SJoint

\* The signaller signals.
LEMMA SSignallerSignals ==
  ASSUME SInv,
         S!CanRun("signaller", prio),
         S!Step("signaller", "signal", "sample"),
         S!Signal(S!Ntfn),
         UNCHANGED <<s_iter, seen, s_sample, s_end, s_phase, prio, left>>
  PROVE  SInv'
<1> USE SConstants, SStates
<1>1. STypeOK /\ SJoint
  BY Zenon DEF SInv
<1>2. /\ s_pc["signaller"] = "signal" /\ s_pc'["signaller"] = "sample"
      /\ s_pc'["main"] = s_pc["main"] /\ s_pc'["waiter"] = s_pc["waiter"]
      /\ s_pc' \in [S!Thread -> SLabel]
  BY <1>1, SMoves, Zenon DEF SLabel
<1>3. /\ s_tcb["signaller"] = S!Running
      /\ s_phase < 3 => s_tcb["main"] # S!Running /\ s_tcb["waiter"] # S!Running
  BY <1>1, SOrder, Zenon
<1>4. SWaited \/ SSignalling
  BY <1>1, <1>2, <1>3, Zenon
     DEF SJoint, At, SApart, SStarting, SWoken, SStamped, SLast, SReported, SSettling,
         SReporting, SStopping
<1>5. /\ s_tcb' \in [S!Thread -> S!ThreadState({S!Ntfn}, {S!DoneEp})]
      /\ s_active' \in [{S!Ntfn} -> BOOLEAN]
      /\ s_tcb["waiter"] = Asleep =>
           s_tcb'["waiter"] = S!Running /\ (Pending' <=> Pending)
      /\ s_tcb["waiter"] # Asleep => s_tcb'["waiter"] = s_tcb["waiter"] /\ Pending'
      /\ s_tcb'["main"] = s_tcb["main"] /\ s_tcb'["signaller"] = s_tcb["signaller"]
      /\ Woken' = Woken /\ Taken' = Taken /\ Taken \in Nat
  <2>1. s_tcb["main"] # Asleep /\ s_tcb["signaller"] # Asleep
    BY <1>3, <1>4, Zenon DEF SWaited, SSignalling, At
  <2> QED
    BY <1>1, <2>1, SSignals, Zenon DEF Pending, STypeOK, Woken, Taken
<1>6. STypeOK'
  BY <1>1, <1>2, <1>5, Zenon DEF STypeOK
<1>7. SWaited => SWoken'
  BY <1>2, <1>3, <1>5, Zenon DEF SWaited, SWoken, At
<1>8. SSignalling => SSignalling'
  BY <1>2, <1>3, <1>5 DEF SSignalling, At
<1> QED
  BY <1>4, <1>6, <1>7, <1>8, Zenon DEF SInv, SJoint

\* The signaller takes a sample.
LEMMA SSignallerSamples ==
  ASSUME SInv,
         S!CanRun("signaller", prio),
         S!Step("signaller", "sample", "next"),
         s_sample' = s_end,
         UNCHANGED <<s_tcb, s_active, s_iter, seen, s_end, s_phase, prio, left>>
  PROVE  SInv'
<1> USE SConstants, SStates
<1>1. STypeOK /\ SJoint
  BY Zenon DEF SInv
<1>2. /\ s_pc["signaller"] = "sample" /\ s_pc'["signaller"] = "next"
      /\ s_pc'["main"] = s_pc["main"] /\ s_pc'["waiter"] = s_pc["waiter"]
      /\ s_pc' \in [S!Thread -> SLabel]
  BY <1>1, SMoves, Zenon DEF SLabel
<1>3. /\ s_tcb["signaller"] = S!Running
      /\ s_phase < 3 => s_tcb["main"] # S!Running /\ s_tcb["waiter"] # S!Running
  BY <1>1, SOrder, Zenon
<1>4. SWoken \/ SStamped \/ SLast \/ SSignalling
  BY <1>1, <1>2, <1>3, Zenon
     DEF SJoint, At, SApart, SStarting, SWaited, SReported, SSettling, SReporting, SStopping
<1>5. /\ s_sample' = s_end /\ Woken' = Woken /\ Taken' = Taken
      /\ Taken \in Nat /\ (Pending' <=> Pending)
  BY <1>1, Zenon DEF STypeOK, Woken, Taken, Pending
<1>6. STypeOK'
  BY <1>1, <1>2, <1>5, Zenon DEF STypeOK
<1>7. SWoken => SWoken'
  BY <1>2, <1>3, <1>5 DEF SWoken, At
<1>8. SStamped => SStamped'
  BY <1>2, <1>3, <1>5 DEF SStamped, At
<1>9. SLast => SLast'
  BY <1>2, <1>3, <1>5 DEF SLast, At
<1>10. SSignalling => SSignalling'
  BY <1>2, <1>3, <1>5, Zenon DEF SSignalling, At
<1> QED
  BY <1>4, <1>6, <1>7, <1>8, <1>9, <1>10, Zenon DEF SInv, SJoint

\* The signaller begins its next iteration, or has done its last.
LEMMA SSignallerLoops ==
  ASSUME SInv,
         S!CanRun("signaller", prio),
         S!Step("signaller", "next",
                IF s_iter["signaller"] + 1 < S!Signals THEN "loop" ELSE "done"),
         s_iter' = [s_iter EXCEPT !["signaller"] = @ + 1],
         UNCHANGED <<s_tcb, s_active, seen, s_sample, s_end, s_phase, prio, left>>
  PROVE  SInv'
<1> USE SConstants, SStates
<1>1. STypeOK /\ SJoint
  BY Zenon DEF SInv
<1>2. /\ s_pc["signaller"] = "next"
      /\ s_pc'["signaller"] = IF s_iter["signaller"] + 1 < S!Signals THEN "loop" ELSE "done"
      /\ s_pc'["main"] = s_pc["main"] /\ s_pc'["waiter"] = s_pc["waiter"]
      /\ s_pc' \in [S!Thread -> SLabel]
  BY <1>1, SMoves, Zenon DEF SLabel
<1>3. /\ s_tcb["signaller"] = S!Running
      /\ s_phase < 3 => s_tcb["main"] # S!Running /\ s_tcb["waiter"] # S!Running
  BY <1>1, SOrder, Zenon
<1>4. SStamped \/ SLast \/ SSignalling
  BY <1>1, <1>2, <1>3, Zenon
     DEF SJoint, At, SApart, SStarting, SWaited, SWoken, SReported, SSettling, SReporting,
         SStopping
<1>5. /\ s_iter' \in [S!Child -> Nat]
      /\ Woken' = Woken /\ Taken' = Taken + 1 /\ Woken \in Nat /\ Taken \in Nat
      /\ Taken = s_iter["signaller"] /\ (Pending' <=> Pending)
  BY <1>1 DEF STypeOK, Woken, Taken, Pending
<1>6. STypeOK'
  BY <1>1, <1>2, <1>5, Zenon DEF STypeOK
<1>7. SStamped => SWaited'
  BY <1>2, <1>3, <1>5 DEF S!Signals, SStamped, SWaited, At
<1>8. SLast => SReported'
  BY <1>2, <1>3, <1>5 DEF S!Signals, SLast, SReported, At
<1>9. SSignalling => SSignalling' \/ SReporting'
  BY <1>2, <1>3, <1>5 DEF S!Signals, SSignalling, SReporting, At
<1> QED
  BY <1>4, <1>6, <1>7, <1>8, <1>9, Zenon DEF SInv, SJoint

\* The waiter reports to main.
LEMMA SWaiterSends ==
  ASSUME SInv,
         S!CanRun("waiter", prio),
         S!Step("waiter", "done", "block"),
         S!Send("waiter", S!DoneEp),
         UNCHANGED <<s_iter, s_end, seen, s_sample, s_phase, prio, left>>
  PROVE  SInv'
<1> USE SConstants, SStates
<1>1. STypeOK /\ SJoint
  BY Zenon DEF SInv
<1>2. /\ s_pc["waiter"] = "done" /\ s_pc'["waiter"] = "block"
      /\ s_pc'["main"] = s_pc["main"] /\ s_pc'["signaller"] = s_pc["signaller"]
      /\ s_pc' \in [S!Thread -> SLabel]
  BY <1>1, SMoves, Zenon DEF SLabel
<1>3. s_tcb["waiter"] = S!Running /\ (s_phase = 3 => s_tcb["signaller"] # S!Running)
  BY <1>1, SOrder, Zenon
<1>4. SLast
  BY <1>1, <1>2, <1>3, Zenon
     DEF SJoint, At, SApart, SStarting, SWaited, SWoken, SStamped, SReported, SSettling,
         SSignalling, SReporting, SStopping
<1>5. /\ s_tcb' \in [S!Thread -> S!ThreadState({S!Ntfn}, {S!DoneEp})]
      /\ s_active' = s_active /\ s_tcb'["signaller"] = s_tcb["signaller"]
      /\ s_tcb["main"] = Receiving =>
           s_tcb'["main"] = S!Running /\ s_tcb'["waiter"] = S!Running
      /\ s_tcb["main"] # Receiving =>
           s_tcb'["main"] = s_tcb["main"] /\ s_tcb'["waiter"] = S!SendingTo(S!DoneEp)
  <2>1. s_tcb["waiter"] # Receiving /\ s_tcb["signaller"] # Receiving
    BY <1>3, <1>4, Zenon DEF SLast, At
  <2> QED
    BY <1>1, <1>3, <2>1, SSends, Zenon
<1>6. STypeOK'
  BY <1>1, <1>2, <1>5, Zenon DEF STypeOK
<1>7. SLast => SLast'
  BY <1>2, <1>3, <1>5, Zenon DEF SLast, At, Pending, Taken, Woken
<1> QED
  BY <1>4, <1>6, <1>7, Zenon DEF SInv, SJoint

\* The signaller reports to main.
LEMMA SSignallerSends ==
  ASSUME SInv,
         S!CanRun("signaller", prio),
         S!Step("signaller", "done", "block"),
         S!Send("signaller", S!DoneEp),
         UNCHANGED <<s_iter, s_end, seen, s_sample, s_phase, prio, left>>
  PROVE  SInv'
<1> USE SConstants, SStates
<1>1. STypeOK /\ SJoint
  BY Zenon DEF SInv
<1>2. /\ s_pc["signaller"] = "done" /\ s_pc'["signaller"] = "block"
      /\ s_pc'["main"] = s_pc["main"] /\ s_pc'["waiter"] = s_pc["waiter"]
      /\ s_pc' \in [S!Thread -> SLabel]
  BY <1>1, SMoves, Zenon DEF SLabel
<1>3. /\ s_tcb["signaller"] = S!Running
      /\ s_phase < 3 => s_tcb["main"] # S!Running /\ s_tcb["waiter"] # S!Running
  BY <1>1, SOrder, Zenon
<1>4. SReported \/ SReporting
  BY <1>1, <1>2, <1>3, Zenon
     DEF SJoint, At, SApart, SStarting, SWaited, SWoken, SStamped, SLast, SSettling,
         SSignalling, SStopping
<1>5. /\ s_tcb' \in [S!Thread -> S!ThreadState({S!Ntfn}, {S!DoneEp})]
      /\ s_active' = s_active /\ s_tcb'["waiter"] = s_tcb["waiter"]
      /\ s_tcb["main"] = Receiving =>
           s_tcb'["main"] = S!Running /\ s_tcb'["signaller"] = S!Running
      /\ s_tcb["main"] # Receiving =>
           s_tcb'["main"] = s_tcb["main"] /\ s_tcb'["signaller"] = S!SendingTo(S!DoneEp)
  <2>1. s_tcb["waiter"] # Receiving /\ s_tcb["signaller"] # Receiving
    BY <1>3, <1>4, Zenon DEF SReported, SReporting, At
  <2> QED
    BY <1>1, <1>3, <2>1, SSends, Zenon
<1>6. STypeOK'
  BY <1>1, <1>2, <1>5, Zenon DEF STypeOK
<1>7. SReported => SReported'
  BY <1>2, <1>3, <1>5, Zenon DEF SReported, At, Pending, Taken, Woken
<1>8. SReporting => SReporting'
  BY <1>2, <1>3, <1>5, Zenon DEF SReporting, At, Pending, Taken, Woken
<1> QED
  BY <1>4, <1>6, <1>7, <1>8, Zenon DEF SInv, SJoint

\* The waiter has reported, and waits for good.
LEMMA SWaiterBlocks ==
  ASSUME SInv,
         S!CanRun("waiter", prio),
         S!Step("waiter", "block", "off"),
         S!Wait("waiter", S!Ntfn),
         UNCHANGED <<s_iter, s_end, seen, s_sample, s_phase, prio, left>>
  PROVE  SInv'
<1> USE SConstants, SStates
<1>1. STypeOK /\ SJoint
  BY Zenon DEF SInv
<1>2. /\ s_pc["waiter"] = "block" /\ s_pc'["waiter"] = "off"
      /\ s_pc'["main"] = s_pc["main"] /\ s_pc'["signaller"] = s_pc["signaller"]
      /\ s_pc' \in [S!Thread -> SLabel]
  BY <1>1, SMoves, Zenon DEF SLabel
<1>3. s_tcb["waiter"] = S!Running /\ (s_phase = 3 => s_tcb["signaller"] # S!Running)
  BY <1>1, SOrder, Zenon
<1>4. SLast
  BY <1>1, <1>2, <1>3, Zenon
     DEF SJoint, At, SApart, SStarting, SWaited, SWoken, SStamped, SReported, SSettling,
         SSignalling, SReporting, SStopping
<1>5. /\ s_tcb' \in [S!Thread -> S!ThreadState({S!Ntfn}, {S!DoneEp})]
      /\ s_active' \in [{S!Ntfn} -> BOOLEAN]
      /\ ~Pending' /\ s_tcb'["waiter"] = IF Pending THEN S!Running ELSE Asleep
      /\ s_tcb'["main"] = s_tcb["main"] /\ s_tcb'["signaller"] = s_tcb["signaller"]
  BY <1>1, <1>3, SWaits, Zenon
<1>6. STypeOK'
  BY <1>1, <1>2, <1>5, Zenon DEF STypeOK
<1>7. SLast => SLast'
  BY <1>2, <1>3, <1>5, Zenon DEF SLast, At, Taken, Woken
<1> QED
  BY <1>4, <1>6, <1>7, Zenon DEF SInv, SJoint

\* The signaller has reported, and waits for good.
LEMMA SSignallerBlocks ==
  ASSUME SInv,
         S!CanRun("signaller", prio),
         S!Step("signaller", "block", "off"),
         S!Wait("signaller", S!Ntfn),
         UNCHANGED <<s_iter, s_end, seen, s_sample, s_phase, prio, left>>
  PROVE  SInv'
<1> USE SConstants, SStates
<1>1. STypeOK /\ SJoint
  BY Zenon DEF SInv
<1>2. /\ s_pc["signaller"] = "block" /\ s_pc'["signaller"] = "off"
      /\ s_pc'["main"] = s_pc["main"] /\ s_pc'["waiter"] = s_pc["waiter"]
      /\ s_pc' \in [S!Thread -> SLabel]
  BY <1>1, SMoves, Zenon DEF SLabel
<1>3. /\ s_tcb["signaller"] = S!Running
      /\ s_phase < 3 => s_tcb["main"] # S!Running /\ s_tcb["waiter"] # S!Running
  BY <1>1, SOrder, Zenon
<1>4. SReported \/ SStopping
  BY <1>1, <1>2, <1>3, Zenon
     DEF SJoint, At, SApart, SStarting, SWaited, SWoken, SStamped, SLast, SSettling,
         SSignalling, SReporting
<1>5. /\ s_tcb' \in [S!Thread -> S!ThreadState({S!Ntfn}, {S!DoneEp})]
      /\ s_active' \in [{S!Ntfn} -> BOOLEAN]
      /\ ~Pending' /\ s_tcb'["signaller"] = IF Pending THEN S!Running ELSE Asleep
      /\ s_tcb'["main"] = s_tcb["main"] /\ s_tcb'["waiter"] = s_tcb["waiter"]
  BY <1>1, <1>3, SWaits, Zenon
<1>6. STypeOK'
  BY <1>1, <1>2, <1>5, Zenon DEF STypeOK
<1>7. SReported => SReported'
  BY <1>2, <1>3, <1>5 DEF SReported, At, Taken, Woken
<1>8. SStopping => SStopping'
  BY <1>2, <1>3, <1>5, Zenon DEF SStopping, At, Taken, Woken
<1> QED
  BY <1>4, <1>6, <1>7, <1>8, Zenon DEF SInv, SJoint

\* Every step of a child.
LEMMA SChild ==
  ASSUME SInv, NEW t \in S!Child, S!ChildStep(t)
  PROVE  SInv'
<1> USE SConstants
<1>1. S!CanRun(t, prio) /\ UNCHANGED <<s_phase, prio, left>>
  BY Zenon DEF S!ChildStep
<1>2. CASE t = "waiter" /\ S!WaiterStep /\ UNCHANGED <<seen, s_sample>>
  <2>1. CASE /\ S!Step("waiter", "loop", "stamp") /\ S!Wait("waiter", S!Ntfn)
             /\ UNCHANGED <<s_iter, s_end>>
    BY <1>1, <1>2, <2>1, SWaiterWaits, Zenon
  <2>2. CASE /\ S!Step("waiter", "stamp",
                       IF s_iter["waiter"] + 1 < SignalRuns THEN "loop" ELSE "done")
             /\ s_end' = <<s_phase, s_iter["waiter"] + 1>>
             /\ s_iter' = [s_iter EXCEPT !["waiter"] = @ + 1]
             /\ UNCHANGED <<s_tcb, s_active>>
    BY <1>1, <1>2, <2>2, SWaiterStamps, Zenon
  <2> QED
    BY <1>2, <2>1, <2>2, Zenon DEF S!WaiterStep
<1>3. CASE t = "signaller" /\ S!SignallerStep /\ UNCHANGED s_end
  <2>1. CASE /\ S!Step("signaller", "loop", "signal") /\ seen' = s_iter["waiter"]
             /\ UNCHANGED <<s_tcb, s_active, s_iter, s_sample>>
    BY <1>1, <1>3, <2>1, SSignallerStamps, Zenon
  <2>2. CASE /\ S!Step("signaller", "signal", "sample") /\ S!Signal(S!Ntfn)
             /\ UNCHANGED <<s_iter, seen, s_sample>>
    BY <1>1, <1>3, <2>2, SSignallerSignals, Zenon
  <2>3. CASE /\ S!Step("signaller", "sample", "next") /\ s_sample' = s_end
             /\ UNCHANGED <<s_tcb, s_active, s_iter, seen>>
    BY <1>1, <1>3, <2>3, SSignallerSamples, Zenon
  <2>4. CASE /\ S!Step("signaller", "next",
                       IF s_iter["signaller"] + 1 < S!Signals THEN "loop" ELSE "done")
             /\ s_iter' = [s_iter EXCEPT !["signaller"] = @ + 1]
             /\ UNCHANGED <<s_tcb, s_active, seen, s_sample>>
    BY <1>1, <1>3, <2>4, SSignallerLoops, Zenon
  <2> QED
    BY <1>3, <2>1, <2>2, <2>3, <2>4, Zenon DEF S!SignallerStep
<1>4. CASE S!Report(t) /\ UNCHANGED <<s_iter, s_end, seen, s_sample>>
  <2>1. t = "waiter" \/ t = "signaller"
    BY Zenon
  <2>2. CASE S!Step(t, "done", "block") /\ S!Send(t, S!DoneEp)
    BY <1>1, <1>4, <2>1, <2>2, SWaiterSends, SSignallerSends, Zenon
  <2>3. CASE S!Step(t, "block", "off") /\ S!Wait(t, S!Ntfn)
    BY <1>1, <1>4, <2>1, <2>3, SWaiterBlocks, SSignallerBlocks, Zenon
  <2> QED
    BY <1>4, <2>2, <2>3, Zenon DEF S!Report
<1> QED
  BY <1>2, <1>3, <1>4, Zenon DEF S!ChildStep

\* benchmark begins a phase, with the priorities of the phase.
LEMMA SBegins ==
  ASSUME SInv, S!CanRun("main", prio), S!BeginPhase
  PROVE  SInv'
<1> USE SConstants, SStates
<1>1. STypeOK /\ SJoint
  BY Zenon DEF SInv
<1>2. /\ s_pc["main"] = "begin" /\ s_pc'["main"] = "start1"
      /\ s_pc'["waiter"] = s_pc["waiter"] /\ s_pc'["signaller"] = s_pc["signaller"]
      /\ s_pc' \in [S!Thread -> SLabel]
  BY <1>1, Zenon DEF S!BeginPhase, STypeOK, SLabel
<1>3. /\ s_phase \in 0..2 /\ s_phase' = s_phase + 1
      /\ prio' = IF s_phase' = 3 THEN S!SwapPriorities ELSE prio
      /\ UNCHANGED <<s_tcb, s_active, s_iter>>
  BY <1>1 DEF S!BeginPhase, STypeOK, S!Phases
<1>4. SApart
  BY <1>1, <1>2, Zenon DEF SJoint, At, SStarting, SWaited, SWoken, SStamped, SLast, SReported,
                    SSettling, SSignalling, SReporting, SStopping
<1>5. STypeOK'
  <2>1. S!SwapPriorities' = S!SwapPriorities /\ S!Configure' = S!Configure
    BY Zenon DEF S!SwapPriorities, S!Configure
  <2>2. prio = S!Configure
    BY <1>1, <1>3 DEF STypeOK
  <2>3. prio' = IF s_phase' = 3 THEN S!SwapPriorities' ELSE S!Configure'
    BY <1>3, <2>1, <2>2, Zenon
  <2>4. s_phase' \in 0..3
    BY <1>3
  <2>5. /\ s_tcb' \in [S!Thread -> S!ThreadState({S!Ntfn}, {S!DoneEp})]
        /\ s_active' \in [{S!Ntfn} -> BOOLEAN] /\ s_iter' \in [S!Child -> Nat]
    BY <1>1, <1>3, Zenon DEF STypeOK
  <2> QED
    BY <1>2, <2>3, <2>4, <2>5, Zenon DEF STypeOK
<1>6. SApart'
  BY <1>2, <1>3, <1>4 DEF SApart, At, Pending
<1> QED
  BY <1>5, <1>6, Zenon DEF SInv, SJoint

\* It starts one child and then the other.
LEMMA SStarts ==
  ASSUME SInv, S!CanRun("main", prio), S!StartChild
  PROVE  SInv'
<1> USE SConstants, SStates
<1>1. STypeOK /\ SJoint
  BY Zenon DEF SInv
<1>2. /\ s_tcb["main"] = S!Running /\ s_phase = 3 => s_tcb["waiter"] # S!Running
      /\ UNCHANGED <<s_active, s_phase, prio>>
  BY <1>1, SOrder, Zenon DEF S!StartChild
<1>3. S!First \in S!Child /\ S!Second \in S!Child
  BY Zenon DEF S!First, S!Second
<1>4. ASSUME NEW c \in S!Child, NEW l \in SLabel,
             s_pc' = [s_pc EXCEPT ![c] = "loop", !["main"] = l],
             s_iter' = [s_iter EXCEPT ![c] = 0], S!SetState(c, S!Running)
      PROVE  /\ STypeOK'
             /\ s_pc'[c] = "loop" /\ s_pc'["main"] = l
             /\ s_tcb'[c] = S!Running /\ s_tcb'["main"] = s_tcb["main"] /\ s_iter'[c] = 0
             /\ \A u \in S!Child : u # c => /\ s_pc'[u] = s_pc[u] /\ s_tcb'[u] = s_tcb[u]
                                            /\ s_iter'[u] = s_iter[u]
  <2>1. s_pc' \in [S!Thread -> SLabel] /\ s_iter' \in [S!Child -> Nat]
    BY <1>1, <1>4, Zenon DEF STypeOK, SLabel
  <2>2. STypeOK'
    BY <1>1, <1>2, <1>4, <2>1, SIsSet, Zenon DEF STypeOK
  <2> QED
    BY <1>1, <1>4, <2>2, SIsSet, Zenon DEF STypeOK
<1>5. CASE s_pc["main"] = "start1"
  <2>1. /\ s_pc' = [s_pc EXCEPT ![S!First] = "loop", !["main"] = "start2"]
        /\ s_iter' = [s_iter EXCEPT ![S!First] = 0] /\ S!SetState(S!First, S!Running)
    BY <1>5, Zenon DEF S!StartChild
  <2>2. SApart /\ s_phase > 0
    BY <1>1, <1>5, Zenon DEF SJoint, At, SApart, SStarting, SWaited, SWoken, SStamped, SLast,
                      SReported, SSettling, SSignalling, SReporting, SStopping
  <2>3. STypeOK'
    BY <1>3, <1>4, <2>1, Zenon DEF SLabel
  <2>4. CASE s_phase = 3
    <3>1. S!First = "waiter"
      BY <2>4, Zenon DEF S!First
    <3>2. SSettling'
      BY <1>2, <1>4, <2>1, <2>2, <2>4, <3>1, Zenon
         DEF SApart, SSettling, At, Pending, Woken, SLabel
    <3> QED
      BY <2>3, <3>2, Zenon DEF SInv, SJoint
  <2>5. CASE s_phase # 3
    <3>1. S!First = "signaller" /\ s_phase \in 1..2
      BY <1>1, <2>2, <2>5 DEF S!First, STypeOK
    <3>2. SStarting'
      BY <1>2, <1>4, <2>1, <2>2, <3>1, Zenon DEF SApart, SStarting, At, Pending, Taken, SLabel
    <3> QED
      BY <2>3, <3>2, Zenon DEF SInv, SJoint
  <2> QED
    BY <2>4, <2>5, Zenon
<1>6. CASE s_pc["main"] = "start2"
  <2>1. /\ s_pc' = [s_pc EXCEPT ![S!Second] = "loop", !["main"] = "collect"]
        /\ s_iter' = [s_iter EXCEPT ![S!Second] = 0] /\ S!SetState(S!Second, S!Running)
        /\ left' = S!Children
    BY <1>6, Zenon DEF S!StartChild
  <2>2. SStarting \/ SSettling
    BY <1>1, <1>6, Zenon DEF SJoint, At, SApart, SWaited, SWoken, SStamped, SLast, SReported,
                      SSignalling, SReporting, SStopping
  <2>3. STypeOK'
    BY <1>3, <1>4, <2>1, Zenon DEF SLabel
  <2>4. CASE SSettling
    <3>1. S!Second = "signaller" /\ left' = 1
      BY <2>1, <2>4, Zenon DEF S!Second, S!Children, SSettling
    <3>2. SSignalling'
      BY <1>2, <1>4, <2>1, <2>4, <3>1
         DEF SSettling, SSignalling, At, Pending, Woken, Taken, SLabel
    <3> QED
      BY <2>3, <3>2, Zenon DEF SInv, SJoint
  <2>5. CASE SStarting
    <3>1. S!Second = "waiter" /\ left' = 2
      BY <2>1, <2>5 DEF S!Second, S!Children, SStarting
    <3>2. SStarting'
      BY <1>2, <1>4, <1>6, <2>1, <2>5, <3>1, Zenon
         DEF SStarting, At, Pending, Woken, Taken, SLabel
    <3> QED
      BY <2>3, <3>2, Zenon DEF SInv, SJoint
  <2> QED
    BY <2>2, <2>4, <2>5, Zenon
<1> QED
  BY <1>5, <1>6, Zenon DEF S!StartChild

\* benchmark_wait_children receives the reports.
LEMMA SCollects ==
  ASSUME SInv, S!CanRun("main", prio), S!WaitChild
  PROVE  SInv'
<1> USE SConstants, SStates
<1>1. STypeOK /\ SJoint
  BY Zenon DEF SInv
<1>2. /\ s_tcb["main"] = S!Running
      /\ s_phase = 3 => s_tcb["waiter"] # S!Running /\ s_tcb["signaller"] # S!Running
      /\ s_pc["main"] = "collect" /\ UNCHANGED <<s_phase, prio, s_iter, s_end, seen, s_sample>>
  BY <1>1, SOrder, Zenon DEF S!WaitChild
<1>3. SStarting \/ SLast \/ SReported \/ SReporting \/ SStopping
  BY <1>1, <1>2, Zenon DEF SJoint, At, SApart, SWaited, SWoken, SStamped, SSettling, SSignalling
<1>4. CASE left > 0 /\ left' = left - 1 /\ S!Recv("main", S!DoneEp) /\ UNCHANGED s_pc
  <2>1. /\ s_tcb' \in [S!Thread -> S!ThreadState({S!Ntfn}, {S!DoneEp})]
        /\ s_active' = s_active /\ s_tcb'["waiter"] = s_tcb["waiter"]
        /\ s_tcb["signaller"] = S!SendingTo(S!DoneEp) =>
             s_tcb'["signaller"] = S!Running /\ s_tcb'["main"] = S!Running
        /\ s_tcb["signaller"] # S!SendingTo(S!DoneEp) =>
             s_tcb'["signaller"] = s_tcb["signaller"] /\ s_tcb'["main"] = Receiving
    <3>1. s_tcb["waiter"] # S!SendingTo(S!DoneEp)
      BY <1>3, Zenon DEF SStarting, SLast, SReported, SReporting, SStopping, At
    <3> QED
      BY <1>1, <1>2, <1>4, <3>1, SReceives, Zenon
  <2>2. STypeOK'
    BY <1>1, <1>2, <1>4, <2>1, Zenon DEF STypeOK
  <2>3. CASE SStarting
    <3>1. left = 2 /\ s_pc["waiter"] # "off"
      BY <1>2, <2>3, Zenon DEF SStarting, At
    <3>2. SStarting'
      BY <1>2, <1>4, <2>1, <2>3, <3>1 DEF SStarting, At, Pending, Taken, Woken
    <3> QED
      BY <2>2, <3>2, Zenon DEF SInv, SJoint
  <2>4. CASE SLast
    <3>1. left = 1
      BY <1>2, <2>4, Zenon DEF SLast, At
    <3>2. SLast'
      BY <1>2, <1>4, <2>1, <2>4, <3>1 DEF SLast, At, Pending, Taken, Woken
    <3> QED
      BY <2>2, <3>2, Zenon DEF SInv, SJoint
  <2>5. CASE SReporting
    <3>1. /\ left = 1 /\ At("signaller", "block", S!SendingTo(S!DoneEp))
          /\ At("waiter", "stamp", Asleep) /\ ~Pending
      BY <1>2, <2>5, Zenon DEF SReporting, At
    <3>2. SStopping'
      BY <1>2, <1>4, <2>1, <2>5, <3>1 DEF SReporting, SStopping, At, Pending, Taken
    <3> QED
      BY <2>2, <3>2, Zenon DEF SInv, SJoint
  <2>6. ~SReported /\ ~SStopping
    BY <1>2, <1>4 DEF SReported, SStopping, At
  <2> QED
    BY <1>3, <2>3, <2>4, <2>5, <2>6, Zenon
<1>5. CASE /\ left = 0 /\ s_pc' = [s_pc EXCEPT !["main"] = "stop1"]
           /\ UNCHANGED <<s_tcb, s_active, left>>
  <2>1. /\ s_pc'["main"] = "stop1" /\ s_pc'["waiter"] = s_pc["waiter"]
        /\ s_pc'["signaller"] = s_pc["signaller"] /\ s_pc' \in [S!Thread -> SLabel]
    BY <1>1, <1>5, Zenon DEF STypeOK, SLabel
  <2>2. STypeOK'
    BY <1>1, <1>2, <1>5, <2>1, Zenon DEF STypeOK
  <2>3. SReported \/ SStopping
    BY <1>2, <1>3, <1>5 DEF SStarting, SLast, SReporting, At
  <2>4. SReported => SReported'
    BY <1>2, <1>5, <2>1, Zenon DEF SReported, At, Pending, Taken, Woken
  <2>5. SStopping => SStopping'
    BY <1>2, <1>5, <2>1, Zenon DEF SStopping, At, Pending, Taken
  <2> QED
    BY <2>2, <2>3, <2>4, <2>5, Zenon DEF SInv, SJoint
<1> QED
  BY <1>4, <1>5, Zenon DEF S!WaitChild

\* It stops one child and then the other.
LEMMA SStops ==
  ASSUME SInv, S!CanRun("main", prio), S!StopChild
  PROVE  SInv'
<1> USE SConstants, SStates
<1>1. STypeOK /\ SJoint
  BY Zenon DEF SInv
<1>2. s_tcb["main"] = S!Running /\ UNCHANGED <<s_active, s_phase, prio, s_iter, s_end, left>>
  BY <1>1, SOrder, Zenon DEF S!StopChild
<1>3. S!First \in S!Child /\ S!Second \in S!Child
  BY Zenon DEF S!First, S!Second
<1>4. ASSUME NEW c \in S!Child, NEW l \in SLabel,
             s_pc' = [s_pc EXCEPT ![c] = "off", !["main"] = l], S!SetState(c, S!Inactive)
      PROVE  /\ STypeOK'
             /\ s_pc'[c] = "off" /\ s_pc'["main"] = l
             /\ s_tcb'[c] = S!Inactive /\ s_tcb'["main"] = s_tcb["main"]
             /\ \A u \in S!Child : u # c => s_pc'[u] = s_pc[u] /\ s_tcb'[u] = s_tcb[u]
  <2>1. s_pc' \in [S!Thread -> SLabel]
    BY <1>1, <1>4, Zenon DEF STypeOK, SLabel
  <2>2. STypeOK'
    BY <1>1, <1>2, <1>4, <2>1, SIsSet, Zenon DEF STypeOK
  <2> QED
    BY <1>1, <1>4, <2>2, SIsSet, Zenon DEF STypeOK
<1>5. CASE s_pc["main"] = "stop1"
  <2>1. /\ s_pc' = [s_pc EXCEPT ![S!First] = "off", !["main"] = "stop2"]
        /\ S!SetState(S!First, S!Inactive)
    BY <1>5, Zenon DEF S!StopChild
  <2>2. SReported \/ SStopping
    BY <1>1, <1>5, Zenon DEF SJoint, At, SApart, SStarting, SWaited, SWoken, SStamped, SLast,
                      SSettling, SSignalling, SReporting
  <2>3. STypeOK'
    BY <1>3, <1>4, <2>1, Zenon DEF SLabel
  <2>4. SReported => SReported'
    <3>1. SReported => S!First = "signaller"
      BY DEF SReported, S!First
    <3> QED
      BY <1>2, <1>4, <1>5, <2>1, <3>1, Zenon DEF SReported, At, Pending, Taken, Woken, SLabel
  <2>5. SStopping => SStopping'
    <3>1. SStopping => S!First = "waiter"
      BY Zenon DEF SStopping, S!First
    <3> QED
      BY <1>2, <1>4, <1>5, <2>1, <3>1, Zenon DEF SStopping, At, Pending, Taken, SLabel
  <2> QED
    BY <2>2, <2>3, <2>4, <2>5, Zenon DEF SInv, SJoint
<1>6. CASE s_pc["main"] = "stop2"
  <2>1. /\ s_pc' = [s_pc EXCEPT ![S!Second] = "off", !["main"] = "begin"]
        /\ S!SetState(S!Second, S!Inactive)
    BY <1>6, Zenon DEF S!StopChild
  <2>2. SReported \/ SStopping
    BY <1>1, <1>6, Zenon DEF SJoint, At, SApart, SStarting, SWaited, SWoken, SStamped, SLast,
                      SSettling, SSignalling, SReporting
  <2>3. STypeOK'
    BY <1>3, <1>4, <2>1, Zenon DEF SLabel
  <2>4. SReported => SApart'
    <3>1. SReported => S!Second = "waiter"
      BY DEF SReported, S!Second
    <3> QED
      BY <1>2, <1>4, <1>6, <2>1, <3>1, Zenon DEF SReported, SApart, At, Pending, SLabel
  <2>5. SStopping => SApart'
    <3>1. SStopping => S!Second = "signaller"
      BY Zenon DEF SStopping, S!Second
    <3> QED
      BY <1>2, <1>4, <1>6, <2>1, <3>1, Zenon DEF SStopping, SApart, At, Pending, SLabel
  <2> QED
    BY <2>2, <2>3, <2>4, <2>5, Zenon DEF SInv, SJoint
<1> QED
  BY <1>5, <1>6, Zenon DEF S!StopChild

\* Steps of another application leave this one alone.
LEMMA SStutters ==
  ASSUME SInv, UNCHANGED signalvars
  PROVE  SInv'
<1>1. /\ s_tcb' = s_tcb /\ s_pc' = s_pc /\ s_active' = s_active /\ s_phase' = s_phase
      /\ prio' = prio /\ s_iter' = s_iter /\ s_end' = s_end /\ seen' = seen
      /\ s_sample' = s_sample /\ left' = left
  BY Zenon DEF signalvars
<1>2. STypeOK'
  BY <1>1, Zenon DEF SInv, STypeOK, S!SwapPriorities, S!Configure
<1>3. /\ (Pending' <=> Pending) /\ Taken' = Taken /\ Woken' = Woken
      /\ \A t, l, x : At(t, l, x)' <=> At(t, l, x)
  BY <1>1, Zenon DEF Pending, Taken, Woken, At
<1>4. SApart \/ SStarting \/ SWaited \/ SWoken =>
        SApart' \/ SStarting' \/ SWaited' \/ SWoken'
  BY <1>1, <1>3, Zenon DEF SApart, SStarting, SWaited, SWoken
<1>5. SStamped \/ SLast \/ SReported => SStamped' \/ SLast' \/ SReported'
  BY <1>1, <1>3, Zenon DEF SStamped, SLast, SReported
<1>6. SSettling \/ SSignalling \/ SReporting \/ SStopping =>
        SSettling' \/ SSignalling' \/ SReporting' \/ SStopping'
  BY <1>1, <1>3, Zenon DEF SSettling, SSignalling, SReporting, SStopping
<1> QED
  BY <1>2, <1>4, <1>5, <1>6, Zenon DEF SInv, SJoint

\* The signal application is in one of the joint states at any time, for every number
\* of runs and of signals and every range of priorities.
THEOREM SignalInvariance == MCSpec => []SInv
<1>1. MCInit => SInv
  <2> SUFFICES ASSUME S!Init PROVE SInv
    BY Zenon DEF MCInit
  <2> USE SConstants, SStates
  <2>1. STypeOK
    <3>1. /\ s_pc \in [S!Thread -> SLabel] /\ s_active \in [{S!Ntfn} -> BOOLEAN]
          /\ s_iter \in [S!Child -> Nat] /\ s_phase \in 0..3
      BY DEF S!Init, SLabel
    <3>2. s_tcb \in [S!Thread -> S!ThreadState({S!Ntfn}, {S!DoneEp})]
      BY Zenon DEF S!Init
    <3>3. prio = IF s_phase = 3 THEN S!SwapPriorities ELSE S!Configure
      BY DEF S!Init
    <3> QED
      BY <3>1, <3>2, <3>3, Zenon DEF STypeOK
  <2>2. SApart
    BY Zenon DEF SApart, S!Init, At, Pending
  <2> QED
    BY <2>1, <2>2, Zenon DEF SInv, SJoint
<1>2. SInv /\ [MCNext]_allvars => SInv'
  <2> SUFFICES ASSUME SInv, [MCNext]_allvars PROVE SInv'
    BY Zenon
  <2>1. CASE S!Next
    <3>1. CASE S!MainStep
      BY <3>1, SBegins, SStarts, SCollects, SStops, Zenon DEF S!MainStep
    <3>2. CASE \E t \in S!Child : S!ChildStep(t)
      BY <3>2, SChild, Zenon
    <3>3. CASE S!Finished
      BY <3>3, SStutters, Zenon DEF S!Finished, S!vars, signalvars
    <3> QED
      BY <2>1, <3>1, <3>2, <3>3, Zenon DEF S!Next
  <2>2. CASE UNCHANGED signalvars
    BY <2>2, SStutters, Zenon
  <2> QED
    BY <2>1, <2>2, Zenon DEF MCNext, allvars
<1> QED
  BY <1>1, <1>2, PTL DEF MCSpec

\* A sample of the signal application is measured to the stamp of its own iteration;
\* in phase 3 the waiter makes no progress during a sample.
THEOREM SamplesAreSound == MCSpec => []SampleIsSound
<1>1. SInv => SampleIsSound
  <2> SUFFICES ASSUME SInv PROVE SampleIsSound
    BY Zenon
  <2>1. CASE SApart
    BY <2>1, Zenon DEF SApart, SampleIsSound, S!SampleIsSound, At, Taken, Woken
  <2>2. CASE SStarting
    BY <2>2, Zenon DEF SStarting, SampleIsSound, S!SampleIsSound, At, Taken, Woken
  <2>3. CASE SWaited
    BY <2>3 DEF SWaited, SampleIsSound, S!SampleIsSound, At, Taken, Woken
  <2>4. CASE SWoken
    BY <2>4 DEF SWoken, SampleIsSound, S!SampleIsSound, At, Taken, Woken
  <2>5. CASE SStamped
    BY <2>5 DEF SStamped, SampleIsSound, S!SampleIsSound, At, Taken, Woken
  <2>6. CASE SLast
    BY <2>6 DEF SLast, SampleIsSound, S!SampleIsSound, At, Taken, Woken
  <2>7. CASE SReported
    BY <2>7, Zenon DEF SReported, SampleIsSound, S!SampleIsSound, At, Taken, Woken
  <2>8. CASE SSettling
    BY <2>8, Zenon DEF SSettling, SampleIsSound, S!SampleIsSound, At, Taken, Woken
  <2>9. CASE SSignalling
    BY <2>9 DEF SSignalling, SampleIsSound, S!SampleIsSound, At, Taken, Woken
  <2>10. CASE SReporting
    BY <2>10, Zenon DEF SReporting, SampleIsSound, S!SampleIsSound, At, Taken, Woken
  <2>11. CASE SStopping
    BY <2>11, Zenon DEF SStopping, SampleIsSound, S!SampleIsSound, At, Taken, Woken
  <2> QED
    BY <2>1, <2>2, <2>3, <2>4, <2>5, <2>6, <2>7, <2>8, <2>9, <2>10, <2>11, ZenonT(90)
       DEF SInv, SJoint
<1> QED
  BY <1>1, SignalInvariance, PTL

\* The signal application stops its children only when the samples of the phase are
\* complete, leaves no signal to the next phase, and every first signal is waited for.
THEOREM PhasesAreComplete == MCSpec => []PhaseIsComplete
<1>1. SInv => PhaseIsComplete
  <2> SUFFICES ASSUME SInv PROVE PhaseIsComplete
    OBVIOUS
  <2>1. CASE SApart
    BY <2>1, Zenon
       DEF SApart, PhaseIsComplete, S!PhaseIsComplete, S!Signals, At, Taken, Woken, Pending,
           Asleep
  <2>2. CASE SStarting
    BY <2>2, Zenon
       DEF SStarting, PhaseIsComplete, S!PhaseIsComplete, S!Signals, At, Taken, Woken,
           Pending, Asleep
  <2>3. CASE SWaited
    BY <2>3, Zenon
       DEF SWaited, PhaseIsComplete, S!PhaseIsComplete, S!Signals, At, Taken, Woken,
           Pending, Asleep
  <2>4. CASE SWoken
    BY <2>4, Zenon
       DEF SWoken, PhaseIsComplete, S!PhaseIsComplete, S!Signals, At, Taken, Woken, Pending,
           Asleep
  <2>5. CASE SStamped
    BY <2>5, Zenon
       DEF SStamped, PhaseIsComplete, S!PhaseIsComplete, S!Signals, At, Taken, Woken,
           Pending, Asleep
  <2>6. CASE SLast
    BY <2>6, Zenon
       DEF SLast, PhaseIsComplete, S!PhaseIsComplete, S!Signals, At, Taken, Woken, Pending,
           Asleep
  <2>7. CASE SReported
    BY <2>7
       DEF SReported, PhaseIsComplete, S!PhaseIsComplete, S!Signals, At, Taken, Woken,
           Pending, Asleep
  <2>8. CASE SSettling
    BY <2>8, Zenon
       DEF SSettling, PhaseIsComplete, S!PhaseIsComplete, S!Signals, At, Taken, Woken,
           Pending, Asleep
  <2>9. CASE SSignalling
    BY <2>9
       DEF SSignalling, PhaseIsComplete, S!PhaseIsComplete, S!Signals, At, Taken, Woken,
           Pending, Asleep
  <2>10. CASE SReporting
    BY <2>10, Zenon
       DEF SReporting, PhaseIsComplete, S!PhaseIsComplete, S!Signals, At, Taken, Woken,
           Pending, Asleep
  <2>11. CASE SStopping
    BY <2>11
       DEF SStopping, PhaseIsComplete, S!PhaseIsComplete, S!Signals, At, Taken, Woken,
           Pending, Asleep
  <2> QED
    BY <2>1, <2>2, <2>3, <2>4, <2>5, <2>6, <2>7, <2>8, <2>9, <2>10, <2>11, Zenon
       DEF SInv, SJoint
<1> QED
  BY <1>1, SignalInvariance, PTL

=============================================================================
