----------------------------- MODULE VcpuProofs -----------------------------
(***************************************************************************)
(* Proofs about the vcpu application, for every number of iterations,      *)
(* every threshold and every set of failures of the guest.                 *)
(*                                                                         *)
(* A sample is put together of stamps that guest, kernel and VMM take, and *)
(* passes through a message before it is in the shared results.  The       *)
(* invariant says of each of these places how far the clock has gone since *)
(* the first stamp.  The averages are those of the first samples for as    *)
(* many as the loop that adds them up has seen.                            *)
(***************************************************************************)
EXTENDS MCShortApps, FiniteSets, TLAPS

-----------------------------------------------------------------------------
(* The vcpu application: the inductive invariant.                          *)

\* The VMM is blocked in its receive.
VReceiving == G!RecvingOn(G!Ep)

\* The states of the two threads.
VState == {G!Running, G!Inactive, VReceiving, G!AwaitingReply}

\* The iterations of a benchmark.
VIteration == 1..VcpuIterations

\* One number for every sample.
VTable == [1..5 -> [VIteration -> Int]]

\* The types of what the kernel keeps of the threads; each has its own scheduling context.
VThreadsOK ==
  /\ g_tcb \in [{0, 1} -> VState]
  /\ DOMAIN g_pc = {0, 1}
  /\ g_caller \in [{0, 1} -> {1, NoThread}]
  /\ g_sc = [t \in {0, 1} |-> t]

\* The stamps in guest_results.
VResultsOK ==
  /\ {"start", "end"} \subseteq DOMAIN r
  /\ r.start \in [VIteration -> Int] /\ r.end \in [VIteration -> Int]

\* The types of the guest's and of the VMM's data.
VDataOK ==
  /\ g_clock \in Int /\ log \in Seq(Int)
  /\ DOMAIN msg = {1} /\ DOMAIN exitstatus = {1}
  /\ bm \in [{1} -> 1..5] /\ g_i \in [{1} -> VIteration]
  /\ g_start \in [{1} -> Int] /\ g_end \in [{1} -> Int]
  /\ drift \in [{1} -> VTable] /\ g_results \in VTable
  /\ VResultsOK

\* The types of the variables that the other conjuncts speak of.
VTypeOK == VThreadsOK /\ VDataOK

\* A thread is at this place in this state.
VAt(t, l, s) == g_pc[t] = l /\ g_tcb[t] = s

\* The drift of the sample that is being taken.
VDrift == drift[1][bm[1]][g_i[1]]

\* The label of the guest's message.
VLabel == msg[1][2]

\* The guest has not been started yet.
VApart ==
  /\ g_pc[0] \in {"setup", "exec", "returned"} /\ g_tcb[0] = G!Running
  /\ VAt(1, "guest_main", G!Inactive) /\ g_caller[0] = NoThread

\* The VMM is about to receive.
VReady ==
  /\ VAt(0, "recv", G!Running) /\ g_caller[0] = NoThread
  /\ g_tcb[1] \in {G!Running, G!Inactive}

\* It is blocked in its receive, and the guest runs or has stopped.
VIdle ==
  /\ VAt(0, "save", VReceiving) /\ g_caller[0] = NoThread
  /\ g_tcb[1] \in {G!Running, G!Inactive}

\* It serves a call, and the guest waits for the reply.
VServing ==
  /\ g_pc[0] \in {"save", "handle", "reply"} /\ g_tcb[0] = G!Running
  /\ g_caller[0] = 1 /\ g_tcb[1] = G!AwaitingReply

\* The guest has exited.
VOver ==
  /\ g_pc[0] \in {"finish", "finished"} /\ g_tcb[0] = G!Running
  /\ g_caller[0] = NoThread /\ g_tcb[1] = G!Inactive

\* Where the two threads are.
VJoint == VApart \/ VReady \/ VIdle \/ VServing \/ VOver

\* A call the VMM has not handled yet.
VPending == VServing /\ g_pc[0] \in {"save", "handle"}

\* Is this sample to be in the shared results?
VBefore(b, q) ==
  IF VPending /\ VLabel = "deep_results"
  THEN b < msg[1][3] \/ (b = msg[1][3] /\ q < msg[1][4])
  ELSE CASE g_pc[1] = "deep" -> b < bm[1] \/ (b = bm[1] /\ q < g_i[1])
         [] g_pc[1] = "exit" \/ (g_pc[1] = "unreachable" /\ msg[1][3] = 0) -> TRUE
         [] OTHER -> b < bm[1]

\* The time a sample should show.
VExpected(b, q) == G!Leg[b] + drift[1][b][q]

\* Every sample that was sent is in the shared results, with the time it should show.
VRecorded ==
  \A b \in 1..5, q \in VIteration : VBefore(b, q) => g_results[b][q] = VExpected(b, q)

\* The message of a call says where the guest is.
VMessage ==
  VPending =>
    /\ msg[1][1] = 1
    /\ \/ /\ VLabel \in {"puts", "end_results", "fault"}
          /\ g_pc[1] \in {"check", "fail", "deep", "faulted"}
       \/ VLabel = "exit" /\ g_pc[1] = "unreachable"
       \/ VLabel = "call_end" /\ g_pc[1] = "answered" /\ bm[1] = 4
       \/ VLabel = "reply_start" /\ g_pc[1] = "answered" /\ bm[1] = 5
       \/ /\ VLabel = "deep_results"
          /\ msg[1][3] \in 1..5 /\ msg[1][4] \in VIteration
          /\ msg[1][5] \in Int /\ msg[1][6] \in Int
          /\ msg[1][6] - msg[1][5] = VExpected(msg[1][3], msg[1][4])
          /\ \/ g_pc[1] = "deep" /\ bm[1] = msg[1][3] /\ g_i[1] = msg[1][4] + 1
             \/ /\ g_pc[1] = "run" /\ bm[1] = msg[1][3] + 1 /\ msg[1][4] = VcpuIterations
             \/ g_pc[1] = "exit" /\ msg[1][3] = 5 /\ msg[1][4] = VcpuIterations

\* The time of the leg that is under way.
VLogged ==
  /\ g_pc[1] = "stamp" /\ bm[1] \in {1, 2} => Len(log) = 1
  /\ g_pc[1] = "log" =>
       /\ bm[1] \in {1, 2} /\ Len(log) = 2
       /\ bm[1] = 1 => log[2] = g_start[1] + 1 + VDrift
       /\ bm[1] = 2 => log[2] = g_end[1] - 2 - VDrift

\* The stamps of a call are those of this call, and the clock says how far it has got.
VCalled ==
  g_pc[1] = "answered" =>
    /\ bm[1] \in {4, 5}
    /\ VPending /\ bm[1] = 4 =>
         g_clock = g_start[1] + VDrift + IF g_pc[0] = "save" THEN 3 ELSE 6
    /\ ~VPending =>
         /\ msg[1][3] \in Int
         /\ bm[1] = 4 => msg[1][3] = g_start[1] + VDrift + 6
         /\ bm[1] = 5 =>
              g_clock = msg[1][3] + (IF VServing THEN 0
                                     ELSE IF g_tcb[0] = G!Running THEN 3 ELSE 6)

\* The two stamps of a sample are one leg apart.
VStamped == g_pc[1] = "account" => g_end[1] - g_start[1] = VExpected(bm[1], g_i[1])

\* The samples the guest keeps.
VKept(q) ==
  IF g_pc[1] \in {"report", "deep"} THEN TRUE
  ELSE g_pc[1] \in {"iter", "reset", "stamp", "log", "answered", "account"} /\ q < g_i[1]

\* Every sample the guest keeps shows the time it should.
VSampled == \A q \in VIteration : VKept(q) => r.end[q] - r.start[q] = VExpected(bm[1], q)

\* What holds at single places of the guest.
VGuest ==
  /\ g_pc[1] \in {"guest_main", "check"} => bm[1] = 1
  /\ g_pc[1] = "report" => g_i[1] = 1
  /\ g_pc[1] \in {"iter", "reset", "stamp", "log", "account", "report"} => VIdle

\* At the end: a success means that every sample was sent.
VOutcome ==
  /\ n_guests_exited = IF VOver THEN 1 ELSE 0
  /\ status # "none" => g_pc[0] = "finished"
  /\ (g_pc[0] = "finish" /\ exitstatus[1] = 0) \/ status = "success" =>
       \A b \in 1..5, q \in VIteration : g_results[b][q] = VExpected(b, q)

\* The inductive invariant.
VInv == /\ VTypeOK /\ VJoint /\ VMessage /\ VLogged /\ VCalled /\ VStamped /\ VSampled
        /\ VRecorded /\ VGuest /\ VOutcome

-----------------------------------------------------------------------------

\* What VcpuAssumption says of the constants, and the sets of one guest.
LEMMA VConstants ==
  /\ VcpuIterations \in Nat /\ VcpuIterations > 0 /\ VcpuThreshold \in Nat
  /\ NoThread # 0 /\ NoThread # 1
  /\ G!Guest = {1} /\ G!Vmm = 0 /\ G!Thread = {0, 1}
  /\ G!Benchmark = 1..5 /\ G!Iteration = VIteration
<1>1. /\ VcpuIterations \in Nat \ {0} /\ VcpuThreshold \in Nat \ {0} /\ NoThread \notin G!Thread
  BY VcpuPartAssumption, Zenon DEF G!VcpuAssumption
<1>2. G!Guest = {1}
  BY DEF G!Guest
<1>3. G!Vmm = 0 /\ G!Thread = {0, 1}
  BY <1>2 DEF G!Vmm, G!Thread
<1>4. G!Benchmark = 1..5 /\ G!Iteration = VIteration
  BY Zenon DEF G!Benchmark, G!Iteration, VIteration
<1> QED
  BY <1>1, <1>2, <1>3, <1>4

\* The states of a thread are distinct, and none is a blocked call.
LEMMA VStates ==
  /\ G!Running # G!Inactive /\ G!Running # VReceiving /\ G!Running # G!AwaitingReply
  /\ G!Inactive # VReceiving /\ G!Inactive # G!AwaitingReply /\ VReceiving # G!AwaitingReply
  /\ \A t \in VState : t # G!CallingOn(G!Ep) /\ t # G!SendingTo(G!Ep)
BY DEF G!Running, G!Inactive, VReceiving, G!AwaitingReply, G!RecvingOn, G!CallingOn,
       G!SendingTo, VState

\* Both threads keep their own scheduling context, so the VMM runs when it can.
LEMMA VRuns ==
  ASSUME VTypeOK
  PROVE  /\ G!Scheduled(0, G!prio) => g_tcb[0] = G!Running
         /\ G!Scheduled(1, G!prio) => g_tcb[1] = G!Running /\ g_tcb[0] # G!Running
<1>1. DOMAIN g_tcb = {0, 1} /\ DOMAIN g_sc = {0, 1} /\ g_sc[0] = 0 /\ g_sc[1] = 1
  BY Zenon DEF VTypeOK, VThreadsOK
<1>2. G!HasSc(0, g_sc)
  BY <1>1, Zenon DEF G!HasSc
<1>3. G!prio[0] = 1 /\ G!prio[1] = 0
  BY VConstants DEF G!prio
<1>4. ~(1 <= 0)
  OBVIOUS
<1> QED
  BY <1>1, <1>2, <1>3, <1>4, Zenon DEF G!Scheduled, G!Ready

\* The guest calls while the VMM is blocked in its receive.
LEMMA VCalls ==
  ASSUME VTypeOK, VIdle, g_tcb[1] = G!Running, NEW m, G!CallThrough(1, 1, m)
  PROVE  /\ g_tcb' = [g_tcb EXCEPT ![0] = G!Running, ![1] = G!AwaitingReply]
         /\ g_caller' = [g_caller EXCEPT ![0] = 1] /\ g_sc' = g_sc
         /\ msg' = [msg EXCEPT ![1] = <<1>> \o m]
<1>1. DOMAIN g_tcb = {0, 1} /\ g_tcb[0] = VReceiving
  BY Zenon DEF VTypeOK, VThreadsOK, VIdle, VAt
<1>2. G!Blocked(VReceiving) = {0}
  BY <1>1, VStates, Zenon DEF G!Blocked
<1>3. G!Passed(g_sc, 1, 0) = g_sc
  <2>1. DOMAIN g_sc = {0, 1} /\ g_sc[0] = 0
    BY Zenon DEF VTypeOK, VThreadsOK
  <2>2. G!HasSc(0, g_sc)
    BY <2>1, Zenon DEF G!HasSc
  <2>3. G!Passed(g_sc, 1, 0) = [x \in {0, 1} |-> g_sc[x]]
    BY <2>1, <2>2, Zenon DEF G!Passed
  <2>4. g_sc = [t \in {0, 1} |-> t]
    BY Zenon DEF VTypeOK, VThreadsOK
  <2> QED
    BY <2>3, <2>4
<1>4. 0 # 1
  OBVIOUS
<1> QED
  BY <1>2, <1>3, <1>4, Zenon DEF G!CallThrough, G!Call, VReceiving

\* The VMM receives while no call is there to be received.
LEMMA VReceives ==
  ASSUME VTypeOK, G!RecvCall(0, G!Ep)
  PROVE  /\ g_tcb' = [g_tcb EXCEPT ![0] = VReceiving]
         /\ g_caller' = [g_caller EXCEPT ![0] = NoThread] /\ g_sc' = g_sc
<1>1. \A t \in DOMAIN g_tcb : g_tcb[t] # G!SendingTo(G!Ep) /\ g_tcb[t] # G!CallingOn(G!Ep)
  BY VStates, Zenon DEF VTypeOK, VThreadsOK
<1> QED
  BY <1>1, Zenon DEF G!RecvCall, G!RecvIn, VReceiving

\* A reply makes the guest run; each keeps its own scheduling context.
LEMMA VReplies ==
  ASSUME VTypeOK, g_caller[0] = 1, G!Reply(0)
  PROVE  /\ g_tcb' = [g_tcb EXCEPT ![1] = G!Running]
         /\ g_caller' = [g_caller EXCEPT ![0] = NoThread] /\ g_sc' = g_sc
<1>1. G!Passed(g_sc, 0, 1) = g_sc
  <2>1. DOMAIN g_sc = {0, 1} /\ g_sc[1] = 1
    BY Zenon DEF VTypeOK, VThreadsOK
  <2>2. G!HasSc(1, g_sc)
    BY <2>1, Zenon DEF G!HasSc
  <2>3. G!Passed(g_sc, 0, 1) = [x \in {0, 1} |-> g_sc[x]]
    BY <2>1, <2>2, Zenon DEF G!Passed
  <2>4. g_sc = [t \in {0, 1} |-> t]
    BY Zenon DEF VTypeOK, VThreadsOK
  <2> QED
    BY <2>3, <2>4
<1> QED
  BY <1>1, VConstants, Zenon DEF G!Reply, G!Owes, G!SetState

-----------------------------------------------------------------------------
(* The guest.                                                              *)

\* The guest runs only while the VMM is blocked.
LEMMA VGuestRuns ==
  ASSUME VInv, G!Scheduled(1, G!prio)
  PROVE  VTypeOK /\ VIdle /\ g_tcb[1] = G!Running
<1>1. VTypeOK /\ VJoint
  BY Zenon DEF VInv
<1>2. g_tcb[1] = G!Running /\ g_tcb[0] # G!Running
  BY <1>1, VRuns, Zenon
<1> QED
  BY <1>1, <1>2, VStates, Zenon DEF VJoint, VApart, VReady, VServing, VOver, VAt

\* The time a sample should show does not change.
LEMMA VSameLeg ==
  ASSUME drift' = drift
  PROVE  \A b, q : VExpected(b, q)' = VExpected(b, q)
BY Zenon DEF VExpected, G!Leg

\* An entry to the kernel.
LEMMA VEntry ==
  ASSUME VDataOK, G!KernelEntry
  PROVE  /\ g_clock' = g_clock + 3 /\ g_clock' \in Int /\ log' \in Seq(Int)
         /\ Len(log) = 2 => log'[2] = log[2]
<1>1. g_clock \in Int /\ log \in Seq(Int)
  BY Zenon DEF VDataOK
<1>2. /\ g_clock' = g_clock + 3
      /\ log' = IF Len(log) < 3 THEN Append(log, g_clock + 1) ELSE log
  BY Zenon DEF G!KernelEntry, G!Logged, G!LogSize
<1> QED
  BY <1>1, <1>2

\* A step of the guest that is no call: what remains to be shown is about its own data.
LEMMA VGuestAlone ==
  ASSUME VInv, VIdle, g_tcb[1] = G!Running, NEW l, g_pc' = [g_pc EXCEPT ![1] = l],
         l \in {"run", "hang", "iter", "reset", "stamp", "log", "account", "report"},
         g_pc[1] \in {"check", "run", "iter", "reset", "stamp", "log", "answered", "account"},
         g_tcb' = g_tcb, g_caller' = g_caller, g_sc' = g_sc, msg' = msg,
         g_results' = g_results, exitstatus' = exitstatus,
         n_guests_exited' = n_guests_exited, status' = status, drift' = drift, bm' = bm
  PROVE  /\ VThreadsOK' /\ VIdle' /\ VJoint' /\ VMessage' /\ VCalled' /\ VRecorded' /\ VOutcome'
         /\ g_pc'[1] = l
<1>1. VTypeOK /\ VRecorded /\ VOutcome
  BY Zenon DEF VInv
<1>2. 0 # 1
  OBVIOUS
<1>3. DOMAIN g_pc' = {0, 1} /\ g_pc'[0] = g_pc[0] /\ g_pc'[1] = l
  BY <1>1, <1>2, Zenon DEF VTypeOK, VThreadsOK
<1>4. VThreadsOK'
  BY <1>1, <1>3, Zenon DEF VTypeOK, VThreadsOK
<1>5. VIdle'
  BY <1>3, Zenon DEF VIdle, VAt
<1>6. ~VServing /\ ~VServing' /\ ~VOver /\ ~VOver'
  BY <1>5, VStates, Zenon DEF VServing, VOver, VIdle, VAt
<1>7. VMessage'
  BY <1>6, Zenon DEF VMessage, VPending
<1>8. VCalled'
  BY <1>3, Zenon DEF VCalled
<1>9. VRecorded'
  <2>1. ASSUME NEW b, NEW q
        PROVE  VBefore(b, q) = (b < bm[1]) /\ VBefore(b, q)' = (b < bm[1])
    BY <1>3, <1>6, Zenon DEF VBefore, VPending
  <2> QED
    BY <1>1, <2>1, VSameLeg, Zenon DEF VRecorded
<1>10. VOutcome'
  BY <1>1, <1>3, <1>6, VSameLeg, Zenon DEF VOutcome
<1> QED
  BY <1>3, <1>4, <1>5, <1>7, <1>8, <1>9, <1>10, Zenon DEF VJoint

\* A call of the guest reaches the VMM: what remains is about the message.
LEMMA VGuestCalls ==
  ASSUME VInv, VIdle, g_tcb[1] = G!Running, NEW l, g_pc' = [g_pc EXCEPT ![1] = l],
         l \in {"check", "fail", "faulted", "unreachable", "deep", "run", "exit", "answered"},
         NEW m, G!CallThrough(1, 1, m),
         g_results' = g_results, exitstatus' = exitstatus,
         n_guests_exited' = n_guests_exited, status' = status, drift' = drift
  PROVE  /\ VThreadsOK' /\ VServing' /\ VPending' /\ VJoint' /\ VOutcome'
         /\ VLogged' /\ VStamped'
         /\ g_pc'[1] = l /\ g_pc'[0] = "save" /\ DOMAIN msg' = {1} /\ msg'[1] = <<1>> \o m
<1>1. VTypeOK /\ VOutcome
  BY Zenon DEF VInv
<1>2. 0 # 1
  OBVIOUS
<1>3. DOMAIN g_pc' = {0, 1} /\ g_pc'[0] = "save" /\ g_pc'[1] = l
  BY <1>1, <1>2, Zenon DEF VTypeOK, VThreadsOK, VIdle, VAt
<1>4. /\ g_tcb' = [g_tcb EXCEPT ![0] = G!Running, ![1] = G!AwaitingReply]
      /\ g_caller' = [g_caller EXCEPT ![0] = 1] /\ g_sc' = g_sc
      /\ msg' = [msg EXCEPT ![1] = <<1>> \o m]
  BY <1>1, VCalls, Zenon
<1>5. /\ g_tcb' \in [{0, 1} -> VState] /\ g_tcb'[0] = G!Running /\ g_tcb'[1] = G!AwaitingReply
      /\ g_caller' \in [{0, 1} -> {1, NoThread}] /\ g_caller'[0] = 1
  BY <1>1, <1>2, <1>4, Zenon DEF VTypeOK, VThreadsOK, VState
<1>6. VThreadsOK'
  BY <1>1, <1>3, <1>4, <1>5, Zenon DEF VTypeOK, VThreadsOK
<1>7. VServing' /\ VPending' /\ VJoint'
  BY <1>3, <1>5, Zenon DEF VServing, VPending, VJoint
<1>8. DOMAIN msg' = {1} /\ msg'[1] = <<1>> \o m
  BY <1>1, <1>4, Zenon DEF VTypeOK, VDataOK
<1>9. VLogged' /\ VStamped'
  BY <1>3, Zenon DEF VLogged, VStamped
<1>10. VOutcome'
  <2>1. ~VOver /\ ~VOver' /\ g_pc[0] = "save"
    BY <1>3, Zenon DEF VOver, VIdle, VAt
  <2> QED
    BY <1>1, <1>3, <2>1, VSameLeg, Zenon DEF VOutcome
<1> QED
  BY <1>3, <1>6, <1>7, <1>8, <1>9, <1>10, Zenon

\* A step that leaves the guest's variables and the results alone.
LEMMA VDataStays ==
  ASSUME VDataOK, g_clock' \in Int, log' \in Seq(Int), DOMAIN msg' = {1},
         bm' = bm, g_i' = g_i, g_start' = g_start, g_end' = g_end, r' = r, drift' = drift,
         g_results' = g_results, exitstatus' = exitstatus
  PROVE  VDataOK'
<1>1. VResultsOK'
  BY Zenon DEF VDataOK, VResultsOK
<1> QED
  BY <1>1, Zenon DEF VDataOK

\* guest_main's messages, and a fault.
LEMMA VPuts ==
  ASSUME VInv, VIdle, g_tcb[1] = G!Running, NEW l, g_pc' = [g_pc EXCEPT ![1] = l],
         \/ g_pc[1] = "guest_main" /\ l = "check"
         \/ g_pc[1] \in {"check", "iter"} /\ l \in {"fail", "faulted"},
         NEW x \in {"puts", "fault"}, G!CallThrough(1, 1, <<x>>), G!KernelEntry,
         bm' = bm, g_i' = g_i, g_start' = g_start, g_end' = g_end, r' = r, drift' = drift,
         g_results' = g_results, exitstatus' = exitstatus,
         n_guests_exited' = n_guests_exited, status' = status
  PROVE  VInv'
<1>1. VTypeOK /\ VRecorded /\ VGuest
  BY Zenon DEF VInv
<1>2. l \in {"check", "fail", "faulted"}
      /\ l \in {"check", "fail", "faulted", "unreachable", "deep", "run", "exit", "answered"}
      /\ g_pc[1] \in {"guest_main", "check", "iter"}
  BY Zenon
<1>3. /\ VThreadsOK' /\ VServing' /\ VPending' /\ VJoint' /\ VOutcome' /\ VLogged' /\ VStamped'
      /\ g_pc'[1] = l /\ g_pc'[0] = "save" /\ DOMAIN msg' = {1} /\ msg'[1] = <<1>> \o <<x>>
  BY <1>2, VGuestCalls, Zenon
<1>4. msg'[1][1] = 1 /\ msg'[1][2] = x
  BY <1>3
<1>5. VDataOK'
  BY <1>1, <1>3, VEntry, VDataStays, Zenon DEF VTypeOK
<1>6. VMessage'
  BY <1>2, <1>3, <1>4, Zenon DEF VMessage, VLabel
<1>7. VCalled'
  BY <1>2, <1>3, Zenon DEF VCalled
<1>8. VSampled'
  BY <1>2, <1>3, Zenon DEF VSampled, VKept
<1>9. VRecorded'
  <2>1. ~VPending
    BY VStates, Zenon DEF VPending, VServing, VIdle, VAt
  <2>2. ASSUME NEW b, NEW q
        PROVE  VBefore(b, q) = (b < bm[1]) /\ VBefore(b, q)' = (b < bm[1])
    BY <1>2, <1>3, <1>4, <2>1, Zenon DEF VBefore, VLabel
  <2> QED
    BY <1>1, <2>2, VSameLeg, Zenon DEF VRecorded
<1>10. VGuest'
  BY <1>1, <1>2, <1>3, Zenon DEF VGuest
<1> QED
  BY <1>3, <1>5, <1>6, <1>7, <1>8, <1>9, <1>10, Zenon DEF VInv, VTypeOK

\* HYPCALL_SYS_EXIT_THREAD, with success only from the end of guest_main.
LEMMA VExits ==
  ASSUME VInv, VIdle, g_tcb[1] = G!Running, g_pc' = [g_pc EXCEPT ![1] = "unreachable"],
         NEW x \in {0, -1}, g_pc[1] = IF x = 0 THEN "exit" ELSE "fail",
         G!CallThrough(1, 1, <<"exit", x>>), G!KernelEntry,
         bm' = bm, g_i' = g_i, g_start' = g_start, g_end' = g_end, r' = r, drift' = drift,
         g_results' = g_results, exitstatus' = exitstatus,
         n_guests_exited' = n_guests_exited, status' = status
  PROVE  VInv'
<1>1. VTypeOK /\ VRecorded
  BY Zenon DEF VInv
<1>2. "unreachable"
        \in {"check", "fail", "faulted", "unreachable", "deep", "run", "exit", "answered"}
  BY Zenon
<1>3. /\ VThreadsOK' /\ VServing' /\ VPending' /\ VJoint' /\ VOutcome' /\ VLogged' /\ VStamped'
      /\ g_pc'[1] = "unreachable" /\ g_pc'[0] = "save" /\ DOMAIN msg' = {1}
      /\ msg'[1] = <<1>> \o <<"exit", x>>
  BY <1>2, VGuestCalls, Zenon
<1>4. msg'[1][1] = 1 /\ msg'[1][2] = "exit" /\ msg'[1][3] = x
  BY <1>3
<1>5. VDataOK'
  BY <1>1, <1>3, VEntry, VDataStays, Zenon DEF VTypeOK
<1>6. VMessage'
  BY <1>3, <1>4, Zenon DEF VMessage, VLabel
<1>7. VCalled'
  BY <1>3, Zenon DEF VCalled
<1>8. VSampled'
  BY <1>3, Zenon DEF VSampled, VKept
<1>9. VRecorded'
  <2>1. ~VPending
    BY VStates, Zenon DEF VPending, VServing, VIdle, VAt
  <2>2. ASSUME NEW b, NEW q, VBefore(b, q)'
        PROVE  VBefore(b, q)
    <3>1. CASE x = 0
      BY <2>1, <3>1, Zenon DEF VBefore
    <3>2. CASE x # 0
      <4>1. b < bm[1]
        BY <1>3, <1>4, <2>2, <3>2, Zenon DEF VBefore, VLabel
      <4> QED
        BY <2>1, <3>2, <4>1, Zenon DEF VBefore
    <3> QED
      BY <3>1, <3>2, Zenon
  <2> QED
    BY <1>1, <2>2, VSameLeg, Zenon DEF VRecorded
<1>10. VGuest'
  BY <1>3, Zenon DEF VGuest
<1> QED
  BY <1>3, <1>5, <1>6, <1>7, <1>8, <1>9, <1>10, Zenon DEF VInv, VTypeOK

\* The end of a benchmark: its averages are reported.
LEMMA VReports ==
  ASSUME VInv, VIdle, g_tcb[1] = G!Running, g_pc[1] = "report",
         g_pc' = [g_pc EXCEPT ![1] = "deep"],
         G!CallThrough(1, 1, <<"end_results">>), G!KernelEntry,
         bm' = bm, g_i' = g_i, g_start' = g_start, g_end' = g_end, r' = r, drift' = drift,
         g_results' = g_results, exitstatus' = exitstatus,
         n_guests_exited' = n_guests_exited, status' = status
  PROVE  VInv'
<1>1. VTypeOK /\ VRecorded /\ VGuest /\ VSampled
  BY Zenon DEF VInv
<1>2. "deep"
        \in {"check", "fail", "faulted", "unreachable", "deep", "run", "exit", "answered"}
  BY Zenon
<1>3. /\ VThreadsOK' /\ VServing' /\ VPending' /\ VJoint' /\ VOutcome' /\ VLogged' /\ VStamped'
      /\ g_pc'[1] = "deep" /\ g_pc'[0] = "save" /\ DOMAIN msg' = {1}
      /\ msg'[1] = <<1>> \o <<"end_results">>
  BY <1>2, VGuestCalls, Zenon
<1>4. msg'[1][1] = 1 /\ msg'[1][2] = "end_results"
  BY <1>3
<1>5. VDataOK'
  BY <1>1, <1>3, VEntry, VDataStays, Zenon DEF VTypeOK
<1>6. VMessage'
  BY <1>3, <1>4, Zenon DEF VMessage, VLabel
<1>7. VCalled'
  BY <1>3, Zenon DEF VCalled
<1>8. VSampled'
  BY <1>1, <1>3, VSameLeg, Zenon DEF VSampled, VKept
<1>9. VRecorded'
  <2>1. ~VPending
    BY VStates, Zenon DEF VPending, VServing, VIdle, VAt
  <2>2. g_i[1] = 1
    BY <1>1, Zenon DEF VGuest
  <2>3. ASSUME NEW b, NEW q \in VIteration, VBefore(b, q)'
        PROVE  VBefore(b, q)
    <3>1. ~(q < 1)
      BY DEF VIteration
    <3>2. b < bm[1]
      BY <1>3, <1>4, <2>2, <2>3, <3>1, Zenon DEF VBefore, VLabel
    <3> QED
      BY <2>1, <3>2, Zenon DEF VBefore
  <2> QED
    BY <1>1, <2>3, VSameLeg, Zenon DEF VRecorded
<1>10. VGuest'
  BY <1>3, Zenon DEF VGuest
<1> QED
  BY <1>3, <1>5, <1>6, <1>7, <1>8, <1>9, <1>10, Zenon DEF VInv, VTypeOK

\* One sample is sent; behind the last one comes the next benchmark, or the end.
LEMMA VDeep ==
  ASSUME VInv, VIdle, g_tcb[1] = G!Running, g_pc[1] = "deep", NEW l,
         g_pc' = [g_pc EXCEPT ![1] = l],
         \/ /\ l = "deep" /\ g_i[1] < VcpuIterations
            /\ g_i' = [g_i EXCEPT ![1] = g_i[1] + 1] /\ bm' = bm
         \/ /\ l = "run" /\ g_i[1] = VcpuIterations /\ bm[1] < 5
            /\ g_i' = [g_i EXCEPT ![1] = 1] /\ bm' = [bm EXCEPT ![1] = bm[1] + 1]
         \/ /\ l = "exit" /\ g_i[1] = VcpuIterations /\ bm[1] = 5
            /\ g_i' = [g_i EXCEPT ![1] = 1] /\ bm' = bm,
         NEW x, x = r.start[g_i[1]], NEW y, y = r.end[g_i[1]],
         G!CallThrough(1, 1, <<"deep_results", bm[1], g_i[1], x, y>>), G!KernelEntry,
         g_start' = g_start, g_end' = g_end, r' = r, drift' = drift,
         g_results' = g_results, exitstatus' = exitstatus,
         n_guests_exited' = n_guests_exited, status' = status
  PROVE  VInv'
<1>1. VTypeOK /\ VRecorded /\ VSampled
  BY Zenon DEF VInv
<1>2. /\ l \in {"deep", "run", "exit"}
      /\ l \in {"check", "fail", "faulted", "unreachable", "deep", "run", "exit", "answered"}
  BY Zenon
<1>3. /\ VThreadsOK' /\ VServing' /\ VPending' /\ VJoint' /\ VOutcome' /\ VLogged' /\ VStamped'
      /\ g_pc'[1] = l /\ g_pc'[0] = "save" /\ DOMAIN msg' = {1}
      /\ msg'[1] = <<1>> \o <<"deep_results", bm[1], g_i[1], x, y>>
  BY <1>2, VGuestCalls, Zenon
<1>4. /\ msg'[1][1] = 1 /\ msg'[1][2] = "deep_results" /\ msg'[1][3] = bm[1]
      /\ msg'[1][4] = g_i[1] /\ msg'[1][5] = x /\ msg'[1][6] = y
  BY <1>3
<1>5. /\ bm \in [{1} -> 1..5] /\ g_i \in [{1} -> VIteration]
      /\ bm[1] \in 1..5 /\ g_i[1] \in VIteration /\ x \in Int /\ y \in Int
  BY <1>1, Zenon DEF VTypeOK, VDataOK, VResultsOK
<1>6. /\ bm' \in [{1} -> 1..5] /\ g_i' \in [{1} -> VIteration]
      /\ \/ l = "deep" /\ bm'[1] = bm[1] /\ g_i'[1] = g_i[1] + 1
         \/ l = "run" /\ bm'[1] = bm[1] + 1 /\ g_i[1] = VcpuIterations
         \/ l = "exit" /\ bm[1] = 5 /\ g_i[1] = VcpuIterations
  <2>1. 1 \in VIteration
    BY VConstants DEF VIteration
  <2>2. CASE l = "deep"
    <3>1. g_i[1] + 1 \in VIteration
      BY <1>5, <2>2, VConstants DEF VIteration
    <3> QED
      BY <1>5, <2>2, <3>1, Zenon
  <2>3. CASE l = "run"
    <3>1. bm[1] + 1 \in 1..5
      BY <1>5, <2>3
    <3> QED
      BY <1>5, <2>1, <2>3, <3>1, Zenon
  <2>4. CASE l = "exit"
    BY <1>5, <2>1, <2>4, Zenon
  <2> QED
    BY <1>2, <2>2, <2>3, <2>4, Zenon
<1>7. VDataOK'
  <2>1. VResultsOK'
    BY <1>1, Zenon DEF VTypeOK, VDataOK, VResultsOK
  <2> QED
    BY <1>1, <1>3, <1>6, <2>1, VEntry, Zenon DEF VTypeOK, VDataOK
<1>8. VMessage'
  <2>1. y - x = VExpected(bm[1], g_i[1])
    BY <1>1, <1>5, Zenon DEF VSampled, VKept
  <2>2. y - x = VExpected(msg[1][3], msg[1][4])'
    BY <1>4, <2>1, Zenon DEF VExpected, G!Leg
  <2> QED
    BY <1>2, <1>3, <1>4, <1>5, <1>6, <2>2, Zenon DEF VMessage, VLabel
<1>9. VCalled'
  BY <1>2, <1>3, Zenon DEF VCalled
<1>10. VSampled'
  <2>1. CASE l = "deep"
    <3>1. bm'[1] = bm[1]
      BY <2>1, Zenon
    <3>2. \A q : VKept(q)
      BY Zenon DEF VKept
    <3>3. \A q : VExpected(bm[1], q)' = VExpected(bm[1], q)
      BY <3>1, VSameLeg, Zenon DEF VExpected, G!Leg
    <3> QED
      BY <1>1, <3>2, <3>3, Zenon DEF VSampled
  <2>2. CASE l # "deep"
    BY <1>2, <1>3, <2>2, Zenon DEF VSampled, VKept
  <2> QED
    BY <2>1, <2>2, Zenon
<1>11. VRecorded'
  <2>1. ~VPending
    BY VStates, Zenon DEF VPending, VServing, VIdle, VAt
  <2>2. ASSUME NEW b, NEW q, VBefore(b, q)'
        PROVE  VBefore(b, q)
    <3>1. b < bm[1] \/ (b = bm[1] /\ q < g_i[1])
      BY <1>3, <1>4, <2>2, Zenon DEF VBefore, VLabel
    <3> QED
      BY <2>1, <3>1, Zenon DEF VBefore
  <2> QED
    <3>1. \A b, q : VExpected(b, q)' = VExpected(b, q)
      BY VSameLeg, Zenon
    <3> QED
      BY <1>1, <2>2, <3>1, Zenon DEF VRecorded
<1>12. VGuest'
  BY <1>2, <1>3, Zenon DEF VGuest
<1> QED
  BY <1>3, <1>7, <1>8, <1>9, <1>10, <1>11, <1>12, Zenon DEF VInv, VTypeOK

\* The call of the last two benchmarks, which asks for the VMM's stamp.
LEMMA VStampCalls ==
  ASSUME VInv, VIdle, g_tcb[1] = G!Running, G!StampCall(1), g_pc[1] = "stamp",
         g_pc' = [g_pc EXCEPT ![1] = "answered"],
         g_results' = g_results, exitstatus' = exitstatus,
         n_guests_exited' = n_guests_exited, status' = status
  PROVE  VInv'
<1>1. VTypeOK /\ VRecorded /\ VSampled
  BY Zenon DEF VInv
<1>2. /\ bm[1] \in {4, 5} /\ bm' = bm /\ g_i' = g_i /\ g_end' = g_end /\ r' = r
      /\ drift' = drift
      /\ G!CallThrough(1, 1, <<IF bm[1] = 4 THEN "call_end" ELSE "reply_start">>)
      /\ g_clock' = g_clock + 3 + (IF bm[1] = 4 THEN VDrift ELSE 0)
      /\ log' = G!Logged(g_clock + 1)
      /\ g_start' = IF bm[1] = 4 THEN [g_start EXCEPT ![1] = g_clock] ELSE g_start
  <2>1. (IF bm[1] = 4 THEN <<"call_end">> ELSE <<"reply_start">>)
          = <<IF bm[1] = 4 THEN "call_end" ELSE "reply_start">>
    BY Zenon
  <2> QED
    BY <2>1, Zenon DEF G!StampCall, G!guestvars, G!histvars, G!SetStart, G!Drift, VDrift
<1> DEFINE x == IF bm[1] = 4 THEN "call_end" ELSE "reply_start"
<1>3. "answered"
        \in {"check", "fail", "faulted", "unreachable", "deep", "run", "exit", "answered"}
  BY Zenon
<1>4. /\ VThreadsOK' /\ VServing' /\ VPending' /\ VJoint' /\ VOutcome' /\ VLogged' /\ VStamped'
      /\ g_pc'[1] = "answered" /\ g_pc'[0] = "save" /\ DOMAIN msg' = {1}
      /\ msg'[1] = <<1>> \o <<x>>
  BY <1>2, <1>3, VGuestCalls, Zenon
<1>5. msg'[1][1] = 1 /\ msg'[1][2] = x
  <2> HIDE DEF x
  <2> QED
    BY <1>4
<1>6. VDataOK'
  <2>1. VResultsOK'
    BY <1>1, <1>2, Zenon DEF VTypeOK, VDataOK, VResultsOK
  <2>2. g_clock \in Int /\ log \in Seq(Int) /\ VDrift \in Int
    <3>1. drift[1] \in VTable /\ bm[1] \in 1..5 /\ g_i[1] \in VIteration
      BY <1>1, Zenon DEF VTypeOK, VDataOK
    <3>2. VDrift \in Int
      BY <3>1, Zenon DEF VDrift, VTable
    <3> QED
      BY <1>1, <3>2, Zenon DEF VTypeOK, VDataOK
  <2>3. g_clock' \in Int
    BY <1>2, <2>2
  <2>4. log' \in Seq(Int)
    BY <1>2, <2>2 DEF G!Logged, G!LogSize
  <2>5. g_start' \in [{1} -> Int]
    BY <1>1, <1>2, <2>2, Zenon DEF VTypeOK, VDataOK
  <2> QED
    BY <1>1, <1>2, <1>4, <2>1, <2>3, <2>4, <2>5, Zenon DEF VTypeOK, VDataOK
<1>7. VMessage'
  <2>1. 4 # 5
    OBVIOUS
  <2> QED
    BY <1>2, <1>4, <1>5, <2>1, Zenon DEF VMessage, VLabel
<1>8. VCalled'
  <2>1. ASSUME bm'[1] = 4
        PROVE  g_clock' = g_start'[1] + VDrift' + 3
    <3>1. /\ g_start'[1] = g_clock /\ VDrift' = VDrift /\ VDrift \in Int
          /\ g_clock' = g_clock + 3 + VDrift
      <4>1. drift[1] \in VTable /\ bm[1] \in 1..5 /\ g_i[1] \in VIteration
        BY <1>1, Zenon DEF VTypeOK, VDataOK
      <4>2. VDrift \in Int
        BY <4>1, Zenon DEF VDrift, VTable
      <4> QED
        BY <1>1, <1>2, <2>1, <4>2, Zenon DEF VTypeOK, VDataOK, VDrift
    <3>2. g_clock \in Int
      BY <1>1, Zenon DEF VTypeOK, VDataOK
    <3> QED
      BY <3>1, <3>2
  <2> QED
    BY <1>2, <1>4, <2>1, Zenon DEF VCalled
<1>9. VSampled'
  BY <1>1, <1>2, <1>4, VSameLeg, Zenon DEF VSampled, VKept
<1>10. VRecorded'
  <2>1. ~VPending
    BY VStates, Zenon DEF VPending, VServing, VIdle, VAt
  <2>2. ASSUME NEW b, NEW q
        PROVE  VBefore(b, q) = (b < bm[1]) /\ VBefore(b, q)' = (b < bm[1])
    BY <1>2, <1>4, <1>5, <2>1, Zenon DEF VBefore, VLabel
  <2> QED
    BY <1>1, <1>2, <2>2, VSameLeg, Zenon DEF VRecorded
<1>11. VGuest'
  BY <1>4, Zenon DEF VGuest
<1> QED
  BY <1>4, <1>6, <1>7, <1>8, <1>9, <1>10, <1>11, Zenon DEF VInv, VTypeOK

\* guest_main's checks pass or not; the way to the stamp of an iteration, or an exception.
LEMMA VPrepares ==
  ASSUME VInv, VIdle, g_tcb[1] = G!Running, NEW l, g_pc' = [g_pc EXCEPT ![1] = l],
         \/ g_pc[1] = "check" /\ l \in {"run", "hang"}
         \/ g_pc[1] \in {"iter", "reset"} /\ l \in {"reset", "stamp", "hang"},
         l = "stamp" /\ bm[1] \in {1, 2} => Len(log') = 1,
         g_clock' \in Int, log' \in Seq(Int),
         g_tcb' = g_tcb, g_caller' = g_caller, g_sc' = g_sc, msg' = msg,
         bm' = bm, g_i' = g_i, g_start' = g_start, g_end' = g_end, r' = r, drift' = drift,
         g_results' = g_results, exitstatus' = exitstatus,
         n_guests_exited' = n_guests_exited, status' = status
  PROVE  VInv'
<1>1. VTypeOK /\ VSampled
  BY Zenon DEF VInv
<1>2. /\ l \in {"run", "hang", "reset", "stamp"}
      /\ l \in {"run", "hang", "iter", "reset", "stamp", "log", "account", "report"}
      /\ g_pc[1] \in {"check", "run", "iter", "reset", "stamp", "log", "answered", "account"}
  BY Zenon
<1>3. /\ VThreadsOK' /\ VIdle' /\ VJoint' /\ VMessage' /\ VCalled' /\ VRecorded' /\ VOutcome'
      /\ g_pc'[1] = l
  BY <1>2, VGuestAlone, Zenon
<1>4. VDataOK'
  <2>1. VDataOK /\ DOMAIN msg' = {1}
    BY <1>1, Zenon DEF VTypeOK, VDataOK
  <2> QED
    BY <2>1, VDataStays, Zenon
<1>5. VLogged' /\ VStamped'
  BY <1>2, <1>3, Zenon DEF VLogged, VStamped
<1>6. VSampled'
  BY <1>1, <1>2, <1>3, VSameLeg, Zenon DEF VSampled, VKept
<1>7. VGuest'
  BY <1>2, <1>3, Zenon DEF VGuest
<1> QED
  BY <1>3, <1>4, <1>5, <1>6, <1>7, Zenon DEF VInv, VTypeOK

\* guest_run_bm starts with no results.
LEMMA VStarts ==
  ASSUME VInv, VIdle, g_tcb[1] = G!Running, g_pc[1] = "run",
         g_pc' = [g_pc EXCEPT ![1] = "iter"],
         r' = G!NoResults, g_i' = [g_i EXCEPT ![1] = 1],
         g_clock' = g_clock, log' = log,
         g_tcb' = g_tcb, g_caller' = g_caller, g_sc' = g_sc, msg' = msg,
         bm' = bm, g_start' = g_start, g_end' = g_end, drift' = drift,
         g_results' = g_results, exitstatus' = exitstatus,
         n_guests_exited' = n_guests_exited, status' = status
  PROVE  VInv'
<1>1. VTypeOK
  BY Zenon DEF VInv
<1>2. /\ "iter" \in {"run", "hang", "iter", "reset", "stamp", "log", "account", "report"}
      /\ g_pc[1] \in {"check", "run", "iter", "reset", "stamp", "log", "answered", "account"}
  BY Zenon
<1>3. /\ VThreadsOK' /\ VIdle' /\ VJoint' /\ VMessage' /\ VCalled' /\ VRecorded' /\ VOutcome'
      /\ g_pc'[1] = "iter"
  BY <1>2, VGuestAlone, Zenon
<1>4. g_i' \in [{1} -> VIteration] /\ g_i'[1] = 1
  <2>1. 1 \in VIteration
    BY VConstants DEF VIteration
  <2> QED
    BY <1>1, <2>1, Zenon DEF VTypeOK, VDataOK
<1>5. VDataOK'
  <2>1. VResultsOK'
    BY VConstants DEF VResultsOK, G!NoResults
  <2> QED
    BY <1>1, <1>4, <2>1, Zenon DEF VTypeOK, VDataOK
<1>6. VLogged' /\ VStamped'
  BY <1>3, Zenon DEF VLogged, VStamped
<1>7. VSampled'
  <2>1. \A q \in VIteration : ~(q < 1)
    BY DEF VIteration
  <2> QED
    BY <1>3, <1>4, <2>1, Zenon DEF VSampled, VKept
<1>8. VGuest'
  BY <1>3, Zenon DEF VGuest
<1> QED
  BY <1>3, <1>5, <1>6, <1>7, <1>8, Zenon DEF VInv, VTypeOK

\* The drift of the sample that is being taken, and the time it should show.
LEMMA VSample ==
  ASSUME VDataOK
  PROVE  /\ VDrift \in Int /\ bm[1] \in 1..5 /\ g_i[1] \in VIteration
         /\ g_start[1] \in Int /\ g_end[1] \in Int /\ g_clock \in Int /\ log \in Seq(Int)
         /\ VExpected(bm[1], g_i[1]) = G!Leg[bm[1]] + VDrift
         /\ G!Leg[1] = 1 /\ G!Leg[2] = 1 /\ G!Leg[3] = 3 /\ G!Leg[4] = 6 /\ G!Leg[5] = 6
<1>1. /\ drift[1] \in VTable /\ bm[1] \in 1..5 /\ g_i[1] \in VIteration
      /\ g_start[1] \in Int /\ g_end[1] \in Int /\ g_clock \in Int /\ log \in Seq(Int)
  BY Zenon DEF VDataOK
<1>2. VDrift \in Int
  BY <1>1, Zenon DEF VDrift, VTable
<1>3. VExpected(bm[1], g_i[1]) = G!Leg[bm[1]] + VDrift
  BY Zenon DEF VExpected, VDrift
<1>4. G!Leg[1] = 1 /\ G!Leg[2] = 1 /\ G!Leg[3] = 3 /\ G!Leg[4] = 6 /\ G!Leg[5] = 6
  BY DEF G!Leg
<1> QED
  BY <1>1, <1>2, <1>3, <1>4, Zenon

\* A step that takes a stamp of the guest's: the samples before it stay.
LEMMA VTakes ==
  ASSUME VInv, VIdle, g_tcb[1] = G!Running, NEW l, g_pc' = [g_pc EXCEPT ![1] = l],
         l \in {"log", "account"}, g_pc[1] \in {"stamp", "log", "answered"},
         g_clock' \in Int, log' \in Seq(Int),
         g_start' \in [{1} -> Int], g_end' \in [{1} -> Int],
         VLogged', VStamped',
         g_tcb' = g_tcb, g_caller' = g_caller, g_sc' = g_sc, msg' = msg,
         bm' = bm, g_i' = g_i, r' = r, drift' = drift,
         g_results' = g_results, exitstatus' = exitstatus,
         n_guests_exited' = n_guests_exited, status' = status
  PROVE  VInv'
<1>1. VTypeOK /\ VSampled
  BY Zenon DEF VInv
<1>2. /\ l \in {"run", "hang", "iter", "reset", "stamp", "log", "account", "report"}
      /\ g_pc[1] \in {"check", "run", "iter", "reset", "stamp", "log", "answered", "account"}
  BY Zenon
<1>3. /\ VThreadsOK' /\ VIdle' /\ VJoint' /\ VMessage' /\ VCalled' /\ VRecorded' /\ VOutcome'
      /\ g_pc'[1] = l
  BY <1>2, VGuestAlone, Zenon
<1>4. VDataOK'
  <2>1. VResultsOK'
    BY <1>1, Zenon DEF VTypeOK, VDataOK, VResultsOK
  <2> QED
    BY <1>1, <2>1, Zenon DEF VTypeOK, VDataOK
<1>5. VSampled'
  BY <1>1, <1>3, VSameLeg, Zenon DEF VSampled, VKept
<1>6. VGuest'
  BY <1>3, Zenon DEF VGuest
<1> QED
  BY <1>3, <1>4, <1>5, <1>6, Zenon DEF VInv, VTypeOK

\* The stamps around a null system call, and the entry of the log it makes.
LEMMA VNulls ==
  ASSUME VInv, VIdle, g_tcb[1] = G!Running, G!NullKcall(1),
         G!Step(1, "stamp", IF bm[1] = 3 THEN "account" ELSE "log"),
         g_results' = g_results, exitstatus' = exitstatus,
         n_guests_exited' = n_guests_exited, status' = status
  PROVE  VInv'
<1> DEFINE l == IF bm[1] = 3 THEN "account" ELSE "log"
           early == IF bm[1] = 1 THEN VDrift ELSE 0
<1>1. VTypeOK /\ VDataOK /\ VLogged
  BY Zenon DEF VInv, VTypeOK
<1>2. /\ g_pc[1] = "stamp" /\ g_pc' = [g_pc EXCEPT ![1] = l] /\ bm[1] \in {1, 2, 3}
      /\ g_clock' = g_clock + 3 + VDrift /\ log' = G!Logged(g_clock + 1 + early)
      /\ g_start' = IF bm[1] = 2 THEN g_start ELSE [g_start EXCEPT ![1] = g_clock]
      /\ g_end' = IF bm[1] = 1 THEN g_end ELSE [g_end EXCEPT ![1] = g_clock + 3 + VDrift]
      /\ g_tcb' = g_tcb /\ g_caller' = g_caller /\ g_sc' = g_sc /\ msg' = msg
      /\ bm' = bm /\ g_i' = g_i /\ r' = r /\ drift' = drift
  BY Zenon DEF G!NullKcall, G!Step, G!SetStart, G!SetEnd, G!no_call, G!histvars, G!Drift, VDrift
<1>3. /\ VDrift \in Int /\ g_start[1] \in Int /\ g_end[1] \in Int /\ g_clock \in Int
      /\ log \in Seq(Int) /\ G!Leg[3] = 3 /\ VExpected(bm[1], g_i[1]) = G!Leg[bm[1]] + VDrift
      /\ g_start \in [{1} -> Int] /\ g_end \in [{1} -> Int]
  BY <1>1, VSample, Zenon DEF VDataOK
<1>4. g_clock' \in Int /\ g_clock + 3 + VDrift \in Int /\ g_clock + 1 + early \in Int
  BY <1>2, <1>3
<1>5. /\ log' \in Seq(Int)
      /\ Len(log) = 1 => Len(log') = 2 /\ log'[2] = g_clock + 1 + early
  <2> HIDE DEF early
  <2> QED
    BY <1>2, <1>3, <1>4, SMTT(90) DEF G!Logged, G!LogSize
<1>6. g_start' \in [{1} -> Int] /\ g_end' \in [{1} -> Int]
  BY <1>2, <1>3, <1>4, Zenon
<1>7. /\ g_pc'[1] = l
      /\ bm[1] # 2 => g_start'[1] = g_clock
      /\ bm[1] # 1 => g_end'[1] = g_clock + 3 + VDrift
  BY <1>1, <1>2, <1>3, Zenon DEF VTypeOK, VThreadsOK
<1>8. VDrift' = VDrift /\ VExpected(bm[1], g_i[1])' = VExpected(bm[1], g_i[1])
  BY <1>2, VSameLeg, Zenon DEF VDrift, VExpected, G!Leg
<1>9. VLogged'
  <2>1. bm[1] \in {1, 2} => Len(log) = 1
    BY <1>1, <1>2, Zenon DEF VLogged
  <2>2. CASE bm[1] = 1
    <3>1. early = VDrift /\ bm[1] # 2 /\ bm'[1] # 2 /\ bm'[1] = 1
      BY <1>2, <2>2
    <3>2. /\ log'[2] = g_clock + 1 + VDrift /\ Len(log') = 2
          /\ g_start'[1] = g_clock /\ VDrift' = VDrift
      BY <1>5, <1>7, <1>8, <2>1, <2>2, <3>1, Zenon
    <3>3. log'[2] = g_start'[1] + 1 + VDrift'
      BY <3>2, Zenon
    <3>4. g_pc'[1] = "log" /\ bm'[1] \in {1, 2}
      BY <1>2, <1>7, <2>2, <3>1
    <3> QED
      BY <3>1, <3>2, <3>3, <3>4, Zenon DEF VLogged
  <2>3. CASE bm[1] = 2
    <3>1. early = 0 /\ bm[1] # 1 /\ bm'[1] # 1 /\ bm'[1] = 2
      BY <1>2, <2>3
    <3>2. /\ log'[2] = g_clock + 1 + 0 /\ Len(log') = 2
          /\ g_end'[1] = g_clock + 3 + VDrift /\ VDrift' = VDrift
      BY <1>5, <1>7, <1>8, <2>1, <2>3, <3>1, Zenon
    <3>3. log'[2] = g_end'[1] - 2 - VDrift'
      BY <1>3, <3>2
    <3>4. g_pc'[1] = "log" /\ bm'[1] \in {1, 2}
      BY <1>2, <1>7, <2>3, <3>1
    <3> QED
      BY <3>1, <3>2, <3>3, <3>4, Zenon DEF VLogged
  <2>4. CASE bm[1] = 3
    BY <1>7, <2>4, Zenon DEF VLogged
  <2> QED
    BY <1>2, <2>2, <2>3, <2>4, Zenon
<1>10. VStamped'
  <2>1. CASE bm[1] = 3
    <3>1. g_end'[1] - g_start'[1] = VExpected(bm[1], g_i[1])
      BY <1>3, <1>7, <2>1
    <3> QED
      BY <1>2, <1>8, <3>1, Zenon DEF VStamped
  <2>2. CASE bm[1] # 3
    BY <1>7, <2>2, Zenon DEF VStamped
  <2> QED
    BY <2>1, <2>2, Zenon
<1>11. l \in {"log", "account"} /\ g_pc[1] \in {"stamp", "log", "answered"}
  BY <1>2, Zenon
<1> QED
  BY <1>2, <1>4, <1>5, <1>6, <1>9, <1>10, <1>11, VTakes, Zenon

\* The stamp of the kernel is that of the null system call.
LEMMA VReads ==
  ASSUME VInv, VIdle, g_tcb[1] = G!Running, G!ReadLog(1), G!Step(1, "log", "account"),
         g_results' = g_results, exitstatus' = exitstatus,
         n_guests_exited' = n_guests_exited, status' = status
  PROVE  VInv'
<1>1. VTypeOK /\ VDataOK /\ VLogged
  BY Zenon DEF VInv, VTypeOK
<1>2. /\ g_pc[1] = "log" /\ g_pc' = [g_pc EXCEPT ![1] = "account"] /\ G!KernelEntry
      /\ g_start' = IF bm[1] = 1 THEN g_start ELSE [g_start EXCEPT ![1] = log'[2] + 1]
      /\ g_end' = IF bm[1] = 1 THEN [g_end EXCEPT ![1] = log'[2]] ELSE g_end
      /\ g_tcb' = g_tcb /\ g_caller' = g_caller /\ g_sc' = g_sc /\ msg' = msg
      /\ bm' = bm /\ g_i' = g_i /\ r' = r /\ drift' = drift
  BY Zenon DEF G!ReadLog, G!Step, G!SetStart, G!SetEnd, G!no_call, G!histvars,
               G!GUEST_BM_LOG_BUFFER_INDEX, G!StartTime, G!Duration
<1>3. /\ VDrift \in Int /\ g_start[1] \in Int /\ g_end[1] \in Int
      /\ G!Leg[1] = 1 /\ G!Leg[2] = 1 /\ VExpected(bm[1], g_i[1]) = G!Leg[bm[1]] + VDrift
      /\ g_start \in [{1} -> Int] /\ g_end \in [{1} -> Int] /\ log \in Seq(Int)
  BY <1>1, VSample, Zenon DEF VDataOK
<1>4. /\ bm[1] \in {1, 2} /\ Len(log) = 2
      /\ bm[1] = 1 => log[2] = g_start[1] + 1 + VDrift
      /\ bm[1] = 2 => log[2] = g_end[1] - 2 - VDrift
  BY <1>1, <1>2, Zenon DEF VLogged
<1>5. g_clock' \in Int /\ log' \in Seq(Int) /\ log'[2] = log[2]
  BY <1>1, <1>2, <1>4, VEntry, Zenon
<1>6. log[2] \in Int /\ log'[2] + 1 \in Int
  BY <1>3, <1>4, <1>5
<1>7. g_start' \in [{1} -> Int] /\ g_end' \in [{1} -> Int]
  BY <1>2, <1>3, <1>5, <1>6, Zenon
<1>8. g_pc'[1] = "account"
  BY <1>1, <1>2, Zenon DEF VTypeOK, VThreadsOK
<1>9. VExpected(bm[1], g_i[1])' = VExpected(bm[1], g_i[1])
  BY <1>2, VSameLeg, Zenon DEF VExpected, G!Leg
<1>10. VLogged'
  BY <1>8, Zenon DEF VLogged
<1>11. VStamped'
  <2>1. CASE bm[1] = 1
    <3>1. g_start'[1] = g_start[1] /\ g_end'[1] = log[2]
      BY <1>2, <1>3, <1>5, <2>1, Zenon
    <3>2. g_end'[1] - g_start'[1] = VExpected(bm[1], g_i[1])
      BY <1>3, <1>4, <1>6, <2>1, <3>1
    <3> QED
      BY <1>9, <3>2, Zenon DEF VStamped
  <2>2. CASE bm[1] = 2
    <3>1. bm[1] # 1
      BY <2>2
    <3>2. g_start'[1] = log[2] + 1 /\ g_end'[1] = g_end[1]
      BY <1>2, <1>3, <1>5, <3>1, Zenon
    <3>3. g_end'[1] - g_start'[1] = VExpected(bm[1], g_i[1])
      BY <1>3, <1>4, <1>6, <2>2, <3>2
    <3> QED
      BY <1>9, <3>3, Zenon DEF VStamped
  <2> QED
    BY <1>4, <2>1, <2>2, Zenon
<1>12. "account" \in {"log", "account"} /\ g_pc[1] \in {"stamp", "log", "answered"}
  BY <1>2, Zenon
<1> QED
  BY <1>2, <1>5, <1>7, <1>10, <1>11, <1>12, VTakes, Zenon

\* The answer has come with the stamp the VMM took for this call.
LEMMA VAnswers ==
  ASSUME VInv, VIdle, g_tcb[1] = G!Running, G!StampAnswer(1), G!Step(1, "answered", "account"),
         g_results' = g_results, exitstatus' = exitstatus,
         n_guests_exited' = n_guests_exited, status' = status
  PROVE  VInv'
<1>1. VTypeOK /\ VDataOK /\ VCalled
  BY Zenon DEF VInv, VTypeOK
<1>2. /\ g_pc[1] = "answered" /\ g_pc' = [g_pc EXCEPT ![1] = "account"]
      /\ g_clock' = g_clock + (IF bm[1] = 5 THEN VDrift ELSE 0) /\ log' = log
      /\ g_start' = IF bm[1] = 4 THEN g_start ELSE [g_start EXCEPT ![1] = msg[1][3]]
      /\ g_end' = [g_end EXCEPT ![1] = IF bm[1] = 4 THEN msg[1][3] ELSE g_clock']
      /\ g_tcb' = g_tcb /\ g_caller' = g_caller /\ g_sc' = g_sc /\ msg' = msg
      /\ bm' = bm /\ g_i' = g_i /\ r' = r /\ drift' = drift
  BY Zenon DEF G!StampAnswer, G!Step, G!SetStart, G!SetEnd, G!no_call, G!histvars, G!Drift,
               VDrift
<1>3. /\ VDrift \in Int /\ g_start[1] \in Int /\ g_end[1] \in Int /\ g_clock \in Int
      /\ G!Leg[4] = 6 /\ G!Leg[5] = 6 /\ VExpected(bm[1], g_i[1]) = G!Leg[bm[1]] + VDrift
      /\ g_start \in [{1} -> Int] /\ g_end \in [{1} -> Int] /\ log \in Seq(Int)
  BY <1>1, VSample, Zenon DEF VDataOK
<1>4. /\ bm[1] \in {4, 5} /\ msg[1][3] \in Int
      /\ bm[1] = 4 => msg[1][3] = g_start[1] + VDrift + 6
      /\ bm[1] = 5 => g_clock = msg[1][3] + 6
  <2>1. ~VServing /\ g_tcb[0] # G!Running
    BY VStates, Zenon DEF VServing, VIdle, VAt
  <2> QED
    BY <1>1, <1>2, <2>1, Zenon DEF VCalled, VPending
<1>5. g_clock' \in Int
  BY <1>2, <1>3
<1>6. g_start' \in [{1} -> Int] /\ g_end' \in [{1} -> Int]
  BY <1>2, <1>3, <1>4, <1>5, Zenon
<1>7. g_pc'[1] = "account"
  BY <1>1, <1>2, Zenon DEF VTypeOK, VThreadsOK
<1>8. VExpected(bm[1], g_i[1])' = VExpected(bm[1], g_i[1])
  BY <1>2, VSameLeg, Zenon DEF VExpected, G!Leg
<1>9. VLogged'
  BY <1>7, Zenon DEF VLogged
<1>10. VStamped'
  <2>1. CASE bm[1] = 4
    <3>1. g_start'[1] = g_start[1] /\ g_end'[1] = msg[1][3]
      BY <1>2, <1>3, <2>1, Zenon
    <3>2. g_end'[1] - g_start'[1] = VExpected(bm[1], g_i[1])
      BY <1>3, <1>4, <2>1, <3>1
    <3> QED
      BY <1>8, <3>2, Zenon DEF VStamped
  <2>2. CASE bm[1] = 5
    <3>1. bm[1] # 4
      BY <2>2
    <3>2. g_start'[1] = msg[1][3] /\ g_end'[1] = g_clock + VDrift
      BY <1>2, <1>3, <2>2, <3>1, Zenon
    <3>3. g_end'[1] - g_start'[1] = VExpected(bm[1], g_i[1])
      BY <1>3, <1>4, <2>2, <3>2
    <3> QED
      BY <1>8, <3>3, Zenon DEF VStamped
  <2> QED
    BY <1>4, <2>1, <2>2, Zenon
<1>11. "account" \in {"log", "account"} /\ g_pc[1] \in {"stamp", "log", "answered"}
  BY <1>2, Zenon
<1> QED
  BY <1>2, <1>3, <1>5, <1>6, <1>9, <1>10, <1>11, VTakes, Zenon

\* One stamp of a sample is stored.
VAdded(old, stamp, new) ==
  \A q \in VIteration : new[q] = IF q = g_i[1] THEN stamp ELSE old[q]

\* A sample is added to the results.
LEMMA VCounts ==
  ASSUME VDataOK, NEW x, x = G!Counted(1, g_end[1] - g_start[1]), r' = x \/ r' = G!Averaged(x)
  PROVE  VResultsOK' /\ VAdded(r.start, g_start[1], r'.start) /\ VAdded(r.end, g_end[1], r'.end)
<1>1. /\ {"start", "end"} \subseteq DOMAIN r
      /\ r.start \in [VIteration -> Int] /\ r.end \in [VIteration -> Int]
      /\ g_start[1] \in Int /\ g_end[1] \in Int
  BY Zenon DEF VDataOK, VResultsOK
<1>2. /\ {"start", "end"} \subseteq DOMAIN x
      /\ x.start = [r.start EXCEPT ![g_i[1]] = g_start[1]]
      /\ x.end = [r.end EXCEPT ![g_i[1]] = g_end[1]]
  BY <1>1 DEF G!Counted
<1>3. /\ {"start", "end"} \subseteq DOMAIN r'
      /\ r'.start = [r.start EXCEPT ![g_i[1]] = g_start[1]]
      /\ r'.end = [r.end EXCEPT ![g_i[1]] = g_end[1]]
  BY <1>2 DEF G!Averaged
<1>4. r'.start \in [VIteration -> Int] /\ r'.end \in [VIteration -> Int]
  BY <1>1, <1>3
<1>5. VAdded(r.start, g_start[1], r'.start) /\ VAdded(r.end, g_end[1], r'.end)
  BY <1>1, <1>3 DEF VAdded
<1>6. VResultsOK'
  BY <1>3, <1>4 DEF VResultsOK
<1> QED
  BY <1>5, <1>6, Zenon

\* guest_run_bm stores the sample and goes on to the next one or to the report.
LEMMA VAccounts ==
  ASSUME VInv, VIdle, g_tcb[1] = G!Running,
         G!Step(1, "account", IF g_i[1] < VcpuIterations THEN "iter" ELSE "report"),
         VResultsOK', VAdded(r.start, g_start[1], r'.start), VAdded(r.end, g_end[1], r'.end),
         g_i' = [g_i EXCEPT ![1] = IF @ < VcpuIterations THEN @ + 1 ELSE 1],
         g_clock' = g_clock, log' = log,
         g_tcb' = g_tcb, g_caller' = g_caller, g_sc' = g_sc, msg' = msg,
         bm' = bm, g_start' = g_start, g_end' = g_end, drift' = drift,
         g_results' = g_results, exitstatus' = exitstatus,
         n_guests_exited' = n_guests_exited, status' = status
  PROVE  VInv'
<1> DEFINE l == IF g_i[1] < VcpuIterations THEN "iter" ELSE "report"
<1>1. VTypeOK /\ VDataOK /\ VSampled /\ VStamped /\ g_pc[1] = "account"
      /\ g_pc' = [g_pc EXCEPT ![1] = l]
  BY Zenon DEF VInv, VTypeOK, G!Step
<1>2. /\ l \in {"run", "hang", "iter", "reset", "stamp", "log", "account", "report"}
      /\ g_pc[1] \in {"check", "run", "iter", "reset", "stamp", "log", "answered", "account"}
      /\ l \in {"iter", "report"}
  BY <1>1, Zenon
<1>3. /\ VThreadsOK' /\ VIdle' /\ VJoint' /\ VMessage' /\ VCalled' /\ VRecorded' /\ VOutcome'
      /\ g_pc'[1] = l
  BY <1>1, <1>2, VGuestAlone, Zenon
<1>4. /\ g_i[1] \in VIteration /\ g_i \in [{1} -> VIteration]
      /\ r.start \in [VIteration -> Int] /\ r.end \in [VIteration -> Int]
  BY <1>1, Zenon DEF VDataOK, VResultsOK
<1>5. /\ g_i' \in [{1} -> VIteration]
      /\ l = "report" => g_i'[1] = 1
      /\ \A q \in VIteration : l = "report" \/ q < g_i'[1] => q = g_i[1] \/ q < g_i[1]
  <2>1. CASE g_i[1] < VcpuIterations
    <3>1. g_i[1] + 1 \in VIteration
      BY <1>4, <2>1, VConstants DEF VIteration
    <3>2. g_i' \in [{1} -> VIteration] /\ g_i'[1] = g_i[1] + 1 /\ l # "report"
      BY <1>4, <2>1, <3>1, Zenon
    <3>3. \A q \in VIteration : q < g_i[1] + 1 => q = g_i[1] \/ q < g_i[1]
      BY <1>4, VConstants DEF VIteration
    <3> QED
      BY <3>2, <3>3, Zenon
  <2>2. CASE ~(g_i[1] < VcpuIterations)
    <3>1. 1 \in VIteration
      BY VConstants DEF VIteration
    <3>2. g_i' \in [{1} -> VIteration] /\ g_i'[1] = 1
      BY <1>4, <2>2, <3>1, Zenon
    <3>3. \A q \in VIteration : q = g_i[1] \/ q < g_i[1]
      BY <1>4, <2>2, VConstants DEF VIteration
    <3> QED
      BY <3>2, <3>3, Zenon
  <2> QED
    BY <2>1, <2>2, Zenon
<1>6. VDataOK'
  <2>1. VDataOK /\ g_i' \in [{1} -> VIteration]
    BY <1>1, <1>5, Zenon
  <2> QED
    BY <2>1, Zenon DEF VDataOK
<1>7. VLogged' /\ VStamped'
  BY <1>2, <1>3, Zenon DEF VLogged, VStamped
<1>8. VSampled'
  <2>1. ASSUME NEW q \in VIteration, VKept(q)'
        PROVE  r'.end[q] - r'.start[q] = VExpected(bm[1], q)'
    <3>1. q = g_i[1] \/ q < g_i[1]
      BY <1>2, <1>3, <1>5, <2>1, Zenon DEF VKept
    <3>2. VExpected(bm[1], q)' = VExpected(bm[1], q)
      BY VSameLeg, Zenon DEF VExpected, G!Leg
    <3>3. CASE q = g_i[1]
      <4>1. r'.start[q] = g_start[1] /\ r'.end[q] = g_end[1]
        BY <3>3, Zenon DEF VAdded
      <4> QED
        BY <1>1, <3>2, <3>3, <4>1, Zenon DEF VStamped
    <3>4. CASE q < g_i[1]
      <4>1. q # g_i[1]
        BY <1>4, <3>4 DEF VIteration
      <4>2. r'.start[q] = r.start[q] /\ r'.end[q] = r.end[q]
        BY <4>1, Zenon DEF VAdded
      <4>3. VKept(q)
        BY <1>1, <3>4, Zenon DEF VKept
      <4> QED
        BY <1>1, <3>2, <4>2, <4>3, Zenon DEF VSampled
    <3> QED
      BY <3>1, <3>3, <3>4, Zenon
  <2> QED
    BY <2>1, Zenon DEF VSampled
<1>9. VGuest'
  BY <1>2, <1>3, <1>5, Zenon DEF VGuest
<1> QED
  BY <1>3, <1>6, <1>7, <1>8, <1>9, Zenon DEF VInv, VTypeOK

\* guest_main, an exception of the guest's kernel and a fault.
LEMMA VMain ==
  ASSUME VInv, VIdle, g_tcb[1] = G!Running,
         G!guest_main(1) \/ G!El1Exception(1) \/ G!Sel4Fault(1), UNCHANGED G!vmmvars
  PROVE  VInv'
<1>1. /\ g_results' = g_results /\ exitstatus' = exitstatus
      /\ n_guests_exited' = n_guests_exited /\ status' = status
  BY Zenon DEF G!vmmvars
<1>2. VDataOK
  BY Zenon DEF VInv, VTypeOK
<1> USE DEF G!guestvars, G!histvars, G!Step
<1>3. CASE G!guest_main(1)
  <2>1. CASE G!Step(1, "guest_main", "check") /\ G!vmm_call(1, <<"puts">>)
             /\ UNCHANGED <<G!guestvars, r, G!histvars>>
    BY <1>1, <2>1, VPuts, Zenon DEF G!vmm_call
  <2>2. CASE /\ G!Step(1, "check", "run") \/ G!Step(1, "check", "hang")
             /\ G!no_call /\ UNCHANGED <<g_clock, log, G!guestvars, r, drift>>
    <3>1. g_clock' \in Int /\ log' \in Seq(Int)
      BY <1>2, <2>2, Zenon DEF VDataOK
    <3> QED
      BY <1>1, <2>2, <3>1, VPrepares, Zenon DEF G!no_call
  <2>3. CASE G!Step(1, "check", "fail") /\ G!vmm_call(1, <<"puts">>)
             /\ UNCHANGED <<G!guestvars, r, drift>>
    BY <1>1, <2>3, VPuts, Zenon DEF G!vmm_call
  <2>4. CASE G!Step(1, "exit", "unreachable") /\ G!vmm_call(1, <<"exit", 0>>)
             /\ UNCHANGED <<G!guestvars, r, G!histvars>>
    BY <1>1, <2>4, VExits, Zenon DEF G!vmm_call
  <2>5. CASE G!Step(1, "fail", "unreachable") /\ G!vmm_call(1, <<"exit", -1>>)
             /\ UNCHANGED <<G!guestvars, r, G!histvars>>
    <3>1. -1 \in {0, -1} /\ -1 # 0
      OBVIOUS
    <3> QED
      BY <1>1, <2>5, <3>1, VExits, Zenon DEF G!vmm_call
  <2> QED
    BY <1>3, <2>1, <2>2, <2>3, <2>4, <2>5, Zenon DEF G!guest_main
<1>4. CASE G!El1Exception(1)
  <2>1. g_clock' \in Int /\ log' \in Seq(Int)
    BY <1>2, <1>4, Zenon DEF VDataOK, G!El1Exception
  <2> QED
    BY <1>1, <1>4, <2>1, VPrepares, Zenon DEF G!El1Exception, G!no_call
<1>5. CASE G!Sel4Fault(1)
  BY <1>1, <1>5, VPuts, Zenon DEF G!Sel4Fault
<1> QED
  BY <1>3, <1>4, <1>5, Zenon

\* guest_run_bm.
LEMMA VRunBm ==
  ASSUME VInv, VIdle, g_tcb[1] = G!Running, G!guest_run_bm(1), UNCHANGED G!vmmvars
  PROVE  VInv'
<1>1. /\ g_results' = g_results /\ exitstatus' = exitstatus
      /\ n_guests_exited' = n_guests_exited /\ status' = status
  BY Zenon DEF G!vmmvars
<1>2. VDataOK /\ g_clock \in Int /\ log \in Seq(Int)
  BY Zenon DEF VInv, VTypeOK, VDataOK
<1>3. CASE /\ G!Step(1, "run", "iter") /\ r' = G!NoResults /\ g_i' = [g_i EXCEPT ![1] = 1]
           /\ G!no_call /\ UNCHANGED <<g_clock, log, bm, g_start, g_end, G!histvars>>
  BY <1>1, <1>3, VStarts, Zenon DEF G!Step, G!no_call, G!histvars
<1>4. CASE G!PrepareStamp(1)
  <2>1. /\ g_tcb' = g_tcb /\ g_caller' = g_caller /\ g_sc' = g_sc /\ msg' = msg
        /\ bm' = bm /\ g_i' = g_i /\ g_start' = g_start /\ g_end' = g_end /\ r' = r
        /\ drift' = drift
    BY <1>4, Zenon DEF G!PrepareStamp, G!no_call, G!guestvars, G!histvars
  <2>2. CASE G!Step(1, "iter", "reset") /\ G!KernelEntry
    <3>1. g_clock' \in Int /\ log' \in Seq(Int)
      BY <1>2, <2>2, VEntry, Zenon
    <3> QED
      BY <1>1, <2>1, <2>2, <3>1, VPrepares, Zenon DEF G!Step
  <2>3. CASE G!Step(1, "iter", "stamp") /\ ~G!UsesLog(bm[1]) /\ UNCHANGED <<g_clock, log>>
    BY <1>1, <1>2, <2>1, <2>3, VPrepares, Zenon DEF G!Step, G!UsesLog
  <2>4. CASE G!Step(1, "reset", "stamp") /\ G!ResetLog
    <3>1. g_clock' \in Int /\ log' \in Seq(Int) /\ Len(log') = 1
      BY <1>2, <2>4 DEF G!ResetLog
    <3> QED
      BY <1>1, <2>1, <2>4, <3>1, VPrepares, Zenon DEF G!Step
  <2> QED
    BY <1>4, <2>2, <2>3, <2>4, Zenon DEF G!PrepareStamp
<1>5. CASE G!NullKcall(1)
  <2>1. bm[1] \in {1, 2, 3} /\ G!Step(1, "stamp", IF bm[1] \in {1, 2} THEN "log" ELSE "account")
    BY <1>5, Zenon DEF G!NullKcall, G!UsesLog
  <2>2. 1 # 3 /\ 2 # 3 /\ 3 \notin {1, 2}
    OBVIOUS
  <2>3. (IF bm[1] \in {1, 2} THEN "log" ELSE "account") = IF bm[1] = 3 THEN "account" ELSE "log"
    BY <2>1, <2>2, Zenon
  <2>4. G!Step(1, "stamp", IF bm[1] = 3 THEN "account" ELSE "log")
    BY <2>1, <2>3, Zenon
  <2> QED
    BY <1>1, <1>5, <2>4, VNulls, Zenon
<1>6. CASE G!ReadLog(1)
  <2>1. G!Step(1, "log", "account")
    BY <1>6, Zenon DEF G!ReadLog
  <2> QED
    BY <1>1, <1>6, <2>1, VReads, Zenon
<1>7. CASE G!StampCall(1)
  <2>1. g_pc[1] = "stamp" /\ g_pc' = [g_pc EXCEPT ![1] = "answered"]
    BY <1>7, Zenon DEF G!StampCall, G!Step
  <2> QED
    BY <1>1, <1>7, <2>1, VStampCalls, Zenon
<1>8. CASE G!StampAnswer(1)
  <2>1. G!Step(1, "answered", "account")
    BY <1>8, Zenon DEF G!StampAnswer
  <2> QED
    BY <1>1, <1>8, <2>1, VAnswers, Zenon
<1>9. CASE /\ G!Step(1, "account", IF g_i[1] < VcpuIterations THEN "iter" ELSE "report")
           /\ LET x == G!Counted(1, g_end[1] - g_start[1])
              IN  r' = IF g_i[1] < VcpuIterations THEN x ELSE G!Averaged(x)
           /\ g_i' = [g_i EXCEPT ![1] = IF @ < VcpuIterations THEN @ + 1 ELSE 1]
           /\ G!no_call /\ UNCHANGED <<g_clock, log, bm, g_start, g_end, G!histvars>>
  <2>1. \E x : x = G!Counted(1, g_end[1] - g_start[1]) /\ (r' = x \/ r' = G!Averaged(x))
    BY <1>9, Zenon
  <2>2. VResultsOK' /\ VAdded(r.start, g_start[1], r'.start) /\ VAdded(r.end, g_end[1], r'.end)
    BY <1>2, <2>1, VCounts, Zenon
  <2>3. UNCHANGED <<g_tcb, g_caller, g_sc, msg, drift>>
    BY <1>9, Zenon DEF G!no_call, G!histvars
  <2> QED
    BY <1>1, <1>9, <2>2, <2>3, VAccounts, Zenon
<1> QED
  BY <1>3, <1>4, <1>5, <1>6, <1>7, <1>8, <1>9, Zenon DEF G!guest_run_bm

\* A step of the guest preserves the invariant.
LEMMA VGuestStep ==
  ASSUME VInv, G!GuestStep(1)
  PROVE  VInv'
<1>1. VTypeOK /\ VIdle /\ g_tcb[1] = G!Running
  BY VGuestRuns, Zenon DEF G!GuestStep
<1>2. UNCHANGED G!vmmvars
  BY Zenon DEF G!GuestStep
<1>3. CASE G!guest_main(1) \/ G!El1Exception(1) \/ G!Sel4Fault(1)
  BY <1>1, <1>2, <1>3, VMain, Zenon
<1>4. CASE G!guest_run_bm(1)
  BY <1>1, <1>2, <1>4, VRunBm, Zenon
<1>5. CASE G!guest_report_bm_results(1)
  <2>1. /\ g_results' = g_results /\ exitstatus' = exitstatus
        /\ n_guests_exited' = n_guests_exited /\ status' = status
    BY <1>2, Zenon DEF G!vmmvars
  <2>2. CASE G!Step(1, "report", "deep") /\ G!vmm_call(1, <<"end_results">>)
             /\ UNCHANGED <<G!guestvars, r, G!histvars>>
    BY <1>1, <2>1, <2>2, VReports, Zenon DEF G!vmm_call, G!Step, G!guestvars, G!histvars
  <2> DEFINE l == CASE g_i[1] < VcpuIterations -> "deep"
                    [] g_i[1] = VcpuIterations /\ bm[1] < 5 -> "run"
                    [] g_i[1] = VcpuIterations /\ bm[1] = 5 -> "exit"
  <2>3. CASE /\ G!Step(1, "deep", l)
             /\ G!vmm_call(1, <<"deep_results", bm[1], g_i[1], r.start[g_i[1]], r.end[g_i[1]]>>)
             /\ g_i' = [g_i EXCEPT ![1] = IF @ < VcpuIterations THEN @ + 1 ELSE 1]
             /\ bm' = [bm EXCEPT ![1] = IF g_i[1] = VcpuIterations /\ @ < 5 THEN @ + 1 ELSE @]
             /\ UNCHANGED <<g_start, g_end, r, G!histvars>>
    <3>1. g_i \in [{1} -> VIteration] /\ bm \in [{1} -> 1..5]
          /\ g_i[1] \in VIteration /\ bm[1] \in 1..5
      BY <1>1, Zenon DEF VTypeOK, VDataOK
    <3>2. \/ g_i[1] < VcpuIterations /\ g_i[1] # VcpuIterations
          \/ ~(g_i[1] < VcpuIterations) /\ g_i[1] = VcpuIterations /\ bm[1] < 5 /\ bm[1] # 5
          \/ ~(g_i[1] < VcpuIterations) /\ g_i[1] = VcpuIterations /\ bm[1] = 5 /\ ~(bm[1] < 5)
      BY <3>1, VConstants DEF VIteration
    <3>3. [bm EXCEPT ![1] = bm[1]] = bm
      BY <3>1, Zenon
    <3>4. \/ /\ l = "deep" /\ g_i[1] < VcpuIterations
             /\ g_i' = [g_i EXCEPT ![1] = g_i[1] + 1] /\ bm' = bm
          \/ /\ l = "run" /\ g_i[1] = VcpuIterations /\ bm[1] < 5
             /\ g_i' = [g_i EXCEPT ![1] = 1] /\ bm' = [bm EXCEPT ![1] = bm[1] + 1]
          \/ /\ l = "exit" /\ g_i[1] = VcpuIterations /\ bm[1] = 5
             /\ g_i' = [g_i EXCEPT ![1] = 1] /\ bm' = bm
      BY <2>3, <3>2, <3>3, Zenon
    <3>5. /\ g_pc[1] = "deep" /\ g_pc' = [g_pc EXCEPT ![1] = l]
          /\ g_start' = g_start /\ g_end' = g_end /\ r' = r /\ drift' = drift
      BY <2>3, Zenon DEF G!Step, G!histvars
    <3>6. /\ G!CallThrough(1, 1, <<"deep_results", bm[1], g_i[1], r.start[g_i[1]],
                                   r.end[g_i[1]]>>)
          /\ G!KernelEntry
      BY <2>3, Zenon DEF G!vmm_call
    <3> HIDE DEF l
    <3> QED
      BY <1>1, <2>1, <3>4, <3>5, <3>6, VDeep, Zenon
  <2> QED
    BY <1>5, <2>2, <2>3, Zenon DEF G!guest_report_bm_results
<1> QED
  BY <1>3, <1>4, <1>5, Zenon DEF G!GuestStep

-----------------------------------------------------------------------------
(* The VMM.                                                                *)

\* While the VMM runs the guest takes no stamp: its data stays as it is.
LEMMA VVmmAlone ==
  ASSUME VInv, g_tcb[0] = G!Running, NEW l, g_pc' = [g_pc EXCEPT ![0] = l],
         bm' = bm, g_i' = g_i, g_start' = g_start, g_end' = g_end, r' = r, drift' = drift
  PROVE  /\ DOMAIN g_pc' = {0, 1} /\ g_pc'[0] = l /\ g_pc'[1] = g_pc[1]
         /\ VLogged' /\ VStamped' /\ VSampled' /\ VGuest'
<1>1. VTypeOK /\ VSampled /\ VGuest
  BY Zenon DEF VInv
<1>2. 0 # 1
  OBVIOUS
<1>3. DOMAIN g_pc' = {0, 1} /\ g_pc'[0] = l /\ g_pc'[1] = g_pc[1]
  BY <1>1, <1>2, Zenon DEF VTypeOK, VThreadsOK
<1>4. g_pc[1] \notin {"iter", "reset", "stamp", "log", "account", "report"}
  BY <1>1, VStates, Zenon DEF VGuest, VIdle, VAt
<1>5. VLogged' /\ VStamped' /\ VGuest'
  BY <1>1, <1>3, <1>4, Zenon DEF VLogged, VStamped, VGuest
<1>6. VSampled'
  BY <1>1, <1>3, VSameLeg, Zenon DEF VSampled, VKept
<1> QED
  BY <1>3, <1>5, <1>6, Zenon

\* Nothing is pending, before and after: the same samples are in the shared results.
LEMMA VSameRecorded ==
  ASSUME VRecorded, ~VPending, ~VPending', g_pc'[1] = g_pc[1], msg' = msg, bm' = bm, g_i' = g_i,
         g_results' = g_results, drift' = drift
  PROVE  VRecorded'
<1>1. ASSUME NEW b, NEW q
      PROVE  VBefore(b, q)' = VBefore(b, q)
  BY Zenon DEF VBefore
<1> QED
  BY <1>1, VSameLeg, Zenon DEF VRecorded

\* The state before the guests start, and their start.
LEMMA VSetup ==
  ASSUME VInv, g_tcb[0] = G!Running, G!Setup \/ G!guest_exec,
         bm' = bm, g_i' = g_i, g_start' = g_start, g_end' = g_end, r' = r, drift' = drift
  PROVE  VInv'
<1>1. VTypeOK /\ VJoint /\ VRecorded /\ VOutcome
  BY Zenon DEF VInv
<1>2. PICK l \in {"exec", "returned", "recv"} :
        /\ g_pc[0] = (IF l = "recv" THEN "exec" ELSE "setup")
        /\ g_pc' = [g_pc EXCEPT ![0] = l]
        /\ g_tcb' = IF l = "recv" THEN [t \in {0, 1} |-> G!Running] ELSE g_tcb
  BY VConstants, Zenon DEF G!Setup, G!guest_exec, G!Step
<1>3. /\ g_caller' = g_caller /\ g_sc' = g_sc /\ g_clock' = g_clock /\ log' = log /\ msg' = msg
      /\ g_results' = g_results /\ exitstatus' = exitstatus
      /\ n_guests_exited' = n_guests_exited /\ status' = status
  BY Zenon DEF G!Setup, G!guest_exec, G!vmmvars
<1>4. /\ DOMAIN g_pc' = {0, 1} /\ g_pc'[0] = l /\ g_pc'[1] = g_pc[1]
      /\ VLogged' /\ VStamped' /\ VSampled' /\ VGuest'
  BY <1>2, VVmmAlone, Zenon
<1>5. VApart
  BY <1>1, <1>2, Zenon DEF VJoint, VReady, VIdle, VServing, VOver, VAt
<1>6. /\ g_tcb' \in [{0, 1} -> VState] /\ g_tcb'[0] = G!Running
      /\ g_tcb'[1] \in {G!Running, G!Inactive}
      /\ l # "recv" => g_tcb'[1] = G!Inactive
  BY <1>1, <1>2, <1>5, Zenon DEF VTypeOK, VThreadsOK, VState, VApart, VAt
<1>7. VTypeOK'
  <2>1. VThreadsOK'
    BY <1>1, <1>3, <1>4, <1>6, Zenon DEF VTypeOK, VThreadsOK
  <2>2. VDataOK'
    BY <1>1, <1>3, VDataStays, Zenon DEF VTypeOK, VDataOK
  <2> QED
    BY <2>1, <2>2, Zenon DEF VTypeOK
<1>8. VJoint'
  BY <1>2, <1>3, <1>4, <1>5, <1>6, Zenon DEF VJoint, VApart, VReady, VAt
<1>9. ~VPending /\ ~VPending' /\ ~VOver /\ ~VOver' /\ g_pc[1] = "guest_main"
  BY <1>2, <1>4, <1>5, Zenon DEF VPending, VServing, VOver, VApart, VAt
<1>10. VMessage' /\ VCalled'
  BY <1>4, <1>9, Zenon DEF VMessage, VCalled
<1>11. VRecorded'
  BY <1>1, <1>3, <1>4, <1>9, VSameRecorded, Zenon
<1>12. VOutcome'
  BY <1>1, <1>2, <1>3, <1>4, <1>9, Zenon DEF VOutcome
<1> QED
  BY <1>4, <1>7, <1>8, <1>10, <1>11, <1>12, Zenon DEF VInv

\* The VMM waits for a call: the guest goes on behind one more system call.
LEMMA VWaits ==
  ASSUME VInv, g_tcb[0] = G!Running, G!Receive,
         bm' = bm, g_i' = g_i, g_start' = g_start, g_end' = g_end, r' = r, drift' = drift
  PROVE  VInv'
<1>1. VTypeOK /\ VJoint /\ VRecorded /\ VOutcome /\ VCalled
  BY Zenon DEF VInv
<1>2. /\ g_pc[0] = "recv" /\ g_pc' = [g_pc EXCEPT ![0] = "save"] /\ G!RecvCall(0, G!Ep)
      /\ G!KernelEntry /\ msg' = msg
      /\ g_results' = g_results /\ exitstatus' = exitstatus
      /\ n_guests_exited' = n_guests_exited /\ status' = status
  BY VConstants, Zenon DEF G!Receive, G!Step, G!vmmvars
<1>3. /\ DOMAIN g_pc' = {0, 1} /\ g_pc'[0] = "save" /\ g_pc'[1] = g_pc[1]
      /\ VLogged' /\ VStamped' /\ VSampled' /\ VGuest'
  BY <1>2, VVmmAlone, Zenon
<1>4. VReady
  BY <1>1, <1>2, Zenon DEF VJoint, VApart, VIdle, VServing, VOver, VAt
<1>5. /\ g_tcb' = [g_tcb EXCEPT ![0] = VReceiving]
      /\ g_caller' = [g_caller EXCEPT ![0] = NoThread] /\ g_sc' = g_sc
  BY <1>1, <1>2, VReceives, Zenon
<1>6. 0 # 1
  OBVIOUS
<1>7. /\ g_tcb' \in [{0, 1} -> VState] /\ g_tcb'[0] = VReceiving /\ g_tcb'[1] = g_tcb[1]
      /\ g_caller' \in [{0, 1} -> {1, NoThread}] /\ g_caller'[0] = NoThread
  BY <1>1, <1>5, <1>6, Zenon DEF VTypeOK, VThreadsOK, VState
<1>8. VTypeOK'
  <2>1. VThreadsOK'
    BY <1>1, <1>3, <1>5, <1>7, Zenon DEF VTypeOK, VThreadsOK
  <2>2. DOMAIN msg' = {1} /\ VDataOK
    BY <1>1, <1>2, Zenon DEF VTypeOK, VDataOK
  <2>3. VDataOK'
    BY <1>2, <2>2, VEntry, VDataStays, Zenon
  <2> QED
    BY <2>1, <2>3, Zenon DEF VTypeOK
<1>9. VIdle' /\ VJoint'
  BY <1>3, <1>4, <1>7, Zenon DEF VJoint, VReady, VIdle, VAt
<1>10. ~VPending /\ ~VPending' /\ ~VServing /\ ~VServing' /\ ~VOver /\ ~VOver'
  BY <1>2, <1>3, <1>7, VStates, Zenon DEF VPending, VServing, VOver
<1>11. VMessage'
  BY <1>10, Zenon DEF VMessage
<1>12. VCalled'
  <2>1. ASSUME g_pc[1] = "answered", bm[1] = 5
        PROVE  g_clock' = msg[1][3] + 6
    <3>1. msg[1][3] \in Int /\ g_clock = msg[1][3] + 3
      BY <1>1, <1>10, <2>1, Zenon DEF VCalled
    <3>2. g_clock' = g_clock + 3
      BY <1>1, <1>2, VEntry, Zenon DEF VTypeOK
    <3> QED
      BY <3>1, <3>2
  <2>2. VDrift' = VDrift
    BY Zenon DEF VDrift
  <2>3. g_tcb'[0] # G!Running
    BY <1>7, VStates, Zenon
  <2>4. ASSUME g_pc[1] = "answered"
        PROVE  /\ bm[1] \in {4, 5} /\ msg[1][3] \in Int
               /\ bm[1] = 4 => msg[1][3] = g_start[1] + VDrift + 6
    BY <1>1, <1>10, <2>4, Zenon DEF VCalled
  <2> QED
    BY <1>2, <1>3, <1>10, <2>1, <2>2, <2>3, <2>4, Zenon DEF VCalled
<1>13. VRecorded'
  BY <1>1, <1>2, <1>3, <1>10, VSameRecorded, Zenon
<1>14. VOutcome'
  BY <1>1, <1>2, <1>3, <1>10, Zenon DEF VOutcome
<1> QED
  BY <1>3, <1>8, <1>9, <1>11, <1>12, <1>13, <1>14, Zenon DEF VInv

\* The reply capability is saved: one more system call before the call is looked at.
LEMMA VSaves ==
  ASSUME VInv, g_tcb[0] = G!Running, G!SaveCaller,
         bm' = bm, g_i' = g_i, g_start' = g_start, g_end' = g_end, r' = r, drift' = drift
  PROVE  VInv'
<1>1. VTypeOK /\ VJoint /\ VRecorded /\ VOutcome /\ VCalled /\ VMessage
  BY Zenon DEF VInv
<1>2. /\ g_pc[0] = "save" /\ g_pc' = [g_pc EXCEPT ![0] = "handle"]
      /\ G!KernelEntry /\ msg' = msg /\ g_tcb' = g_tcb /\ g_caller' = g_caller /\ g_sc' = g_sc
      /\ g_results' = g_results /\ exitstatus' = exitstatus
      /\ n_guests_exited' = n_guests_exited /\ status' = status
  BY VConstants, Zenon DEF G!SaveCaller, G!Step, G!vmmvars
<1>3. /\ DOMAIN g_pc' = {0, 1} /\ g_pc'[0] = "handle" /\ g_pc'[1] = g_pc[1]
      /\ VLogged' /\ VStamped' /\ VSampled' /\ VGuest'
  BY <1>2, VVmmAlone, Zenon
<1>4. VServing
  BY <1>1, <1>2, VStates, Zenon DEF VJoint, VApart, VReady, VIdle, VOver, VAt
<1>5. VPending /\ VServing' /\ VPending' /\ VJoint'
  BY <1>2, <1>3, <1>4, Zenon DEF VJoint, VServing, VPending
<1>6. VTypeOK'
  <2>1. VThreadsOK'
    BY <1>1, <1>2, <1>3, Zenon DEF VTypeOK, VThreadsOK
  <2>2. DOMAIN msg' = {1} /\ VDataOK
    BY <1>1, <1>2, Zenon DEF VTypeOK, VDataOK
  <2>3. VDataOK'
    BY <1>2, <2>2, VEntry, VDataStays, Zenon
  <2> QED
    BY <2>1, <2>3, Zenon DEF VTypeOK
<1>7. VMessage'
  BY <1>1, <1>2, <1>3, <1>5, VSameLeg, Zenon DEF VMessage, VLabel
<1>8. VCalled'
  <2>1. ASSUME g_pc[1] = "answered", bm[1] = 4
        PROVE  g_clock' = g_start[1] + VDrift + 6
    <3>1. g_clock = g_start[1] + VDrift + 3
      BY <1>1, <1>2, <1>5, <2>1, Zenon DEF VCalled
    <3>2. g_clock' = g_clock + 3 /\ g_start[1] \in Int /\ VDrift \in Int
      BY <1>1, <1>2, VEntry, VSample, Zenon DEF VTypeOK
    <3> QED
      BY <3>1, <3>2
  <2>2. VDrift' = VDrift
    BY Zenon DEF VDrift
  <2>3. g_pc[1] = "answered" => bm[1] \in {4, 5}
    BY <1>1, Zenon DEF VCalled
  <2>4. g_pc'[0] # "save"
    BY <1>3, Zenon
  <2> QED
    BY <1>3, <1>5, <2>1, <2>2, <2>3, <2>4, Zenon DEF VCalled
<1>9. VRecorded'
  <2>1. ASSUME NEW b, NEW q
        PROVE  VBefore(b, q)' = VBefore(b, q)
    BY <1>2, <1>3, <1>5, Zenon DEF VBefore, VLabel
  <2> QED
    BY <1>1, <1>2, <2>1, VSameLeg, Zenon DEF VRecorded
<1>10. VOutcome'
  <2>1. ~VOver /\ ~VOver'
    BY <1>2, <1>3, Zenon DEF VOver
  <2> QED
    BY <1>1, <1>2, <1>3, <2>1, Zenon DEF VOutcome
<1> QED
  BY <1>3, <1>5, <1>6, <1>7, <1>8, <1>9, <1>10, Zenon DEF VInv

\* The client that the VMM serves is the guest.
LEMMA VClient ==
  ASSUME VServing
  PROVE  G!client = 1 /\ G!label = VLabel /\ G!badge = msg[1][1]
BY VConstants, Zenon DEF VServing, VLabel, G!client, G!label, G!badge

\* The reply: the caller goes on, unless it is one to a fault.
LEMMA VSendsReply ==
  ASSUME VInv, g_tcb[0] = G!Running, G!SendReply,
         bm' = bm, g_i' = g_i, g_start' = g_start, g_end' = g_end, r' = r, drift' = drift
  PROVE  VInv'
<1>1. VTypeOK /\ VJoint /\ VRecorded /\ VOutcome /\ VCalled
  BY Zenon DEF VInv
<1>2. /\ g_pc[0] = "reply" /\ g_pc' = [g_pc EXCEPT ![0] = "recv"]
      /\ G!KernelEntry /\ msg' = msg
      /\ g_results' = g_results /\ exitstatus' = exitstatus
      /\ n_guests_exited' = n_guests_exited /\ status' = status
  BY VConstants, Zenon DEF G!SendReply, G!Step, G!vmmvars
<1>3. /\ DOMAIN g_pc' = {0, 1} /\ g_pc'[0] = "recv" /\ g_pc'[1] = g_pc[1]
      /\ VLogged' /\ VStamped' /\ VSampled' /\ VGuest'
  BY <1>2, VVmmAlone, Zenon
<1>4. VServing
  BY <1>1, <1>2, Zenon DEF VJoint, VApart, VReady, VIdle, VOver, VAt
<1>5. /\ \E s \in {G!Running, G!Inactive} : g_tcb' = [g_tcb EXCEPT ![1] = s]
      /\ g_caller' = [g_caller EXCEPT ![0] = NoThread] /\ g_sc' = g_sc
  <2>1. g_caller[0] = 1 /\ G!client = 1
    BY <1>4, VClient, Zenon DEF VServing
  <2>2. CASE G!label = "fault"
    BY <2>1, <2>2, VConstants, Zenon DEF G!SendReply, G!SetState
  <2>3. CASE G!label # "fault"
    <3>1. G!Reply(0)
      BY <2>3, VConstants, Zenon DEF G!SendReply
    <3> QED
      BY <1>1, <2>1, <3>1, VReplies, Zenon
  <2> QED
    BY <2>2, <2>3, Zenon
<1>6. 0 # 1
  OBVIOUS
<1>7. /\ g_tcb' \in [{0, 1} -> VState] /\ g_tcb'[0] = G!Running
      /\ g_tcb'[1] \in {G!Running, G!Inactive}
      /\ g_caller' \in [{0, 1} -> {1, NoThread}] /\ g_caller'[0] = NoThread
  BY <1>1, <1>5, <1>6, ZenonT(90) DEF VTypeOK, VThreadsOK, VState
<1>8. VTypeOK'
  <2>1. VThreadsOK'
    BY <1>1, <1>3, <1>5, <1>7, Zenon DEF VTypeOK, VThreadsOK
  <2>2. DOMAIN msg' = {1} /\ VDataOK
    BY <1>1, <1>2, Zenon DEF VTypeOK, VDataOK
  <2>3. VDataOK'
    BY <1>2, <2>2, VEntry, VDataStays, Zenon
  <2> QED
    BY <2>1, <2>3, Zenon DEF VTypeOK
<1>9. VReady' /\ VJoint'
  BY <1>3, <1>7, Zenon DEF VJoint, VReady, VAt
<1>10. ~VPending /\ ~VPending' /\ ~VServing' /\ ~VOver /\ ~VOver'
  BY <1>2, <1>3, Zenon DEF VPending, VServing, VOver
<1>11. VMessage'
  BY <1>10, Zenon DEF VMessage
<1>12. VCalled'
  <2>1. ASSUME g_pc[1] = "answered", bm[1] = 5
        PROVE  g_clock' = msg[1][3] + 3
    <3>1. msg[1][3] \in Int /\ g_clock = msg[1][3] + 0
      BY <1>1, <1>4, <1>10, <2>1, Zenon DEF VCalled
    <3>2. g_clock' = g_clock + 3
      BY <1>1, <1>2, VEntry, Zenon DEF VTypeOK
    <3> QED
      BY <3>1, <3>2
  <2>2. VDrift' = VDrift
    BY Zenon DEF VDrift
  <2>3. g_tcb'[0] = G!Running
    BY <1>7, Zenon
  <2>4. ASSUME g_pc[1] = "answered"
        PROVE  /\ bm[1] \in {4, 5} /\ msg[1][3] \in Int
               /\ bm[1] = 4 => msg[1][3] = g_start[1] + VDrift + 6
    BY <1>1, <1>10, <2>4, Zenon DEF VCalled
  <2> QED
    BY <1>2, <1>3, <1>10, <2>1, <2>2, <2>3, <2>4, Zenon DEF VCalled
<1>13. VRecorded'
  BY <1>1, <1>2, <1>3, <1>10, VSameRecorded, Zenon
<1>14. VOutcome'
  BY <1>1, <1>2, <1>3, <1>10, Zenon DEF VOutcome
<1> QED
  BY <1>3, <1>8, <1>9, <1>11, <1>12, <1>13, <1>14, Zenon DEF VInv

\* benchmark_finished.
LEMMA VFinishes ==
  ASSUME VInv, g_tcb[0] = G!Running, G!Finish,
         bm' = bm, g_i' = g_i, g_start' = g_start, g_end' = g_end, r' = r, drift' = drift
  PROVE  VInv'
<1>1. VTypeOK /\ VJoint /\ VRecorded /\ VOutcome /\ VCalled
  BY Zenon DEF VInv
<1>2. /\ g_pc[0] = "finish" /\ g_pc' = [g_pc EXCEPT ![0] = "finished"]
      /\ g_tcb' = g_tcb /\ g_caller' = g_caller /\ g_sc' = g_sc
      /\ g_clock' = g_clock /\ log' = log /\ msg' = msg
      /\ g_results' = g_results /\ exitstatus' = exitstatus
      /\ n_guests_exited' = n_guests_exited
      /\ status' = IF exitstatus[1] # 0 THEN "error" ELSE "success"
  <2>1. (\E g \in {1} : exitstatus[g] # 0) <=> exitstatus[1] # 0
    BY Zenon
  <2> QED
    BY <2>1, VConstants, Zenon DEF G!Finish, G!Step
<1>3. /\ DOMAIN g_pc' = {0, 1} /\ g_pc'[0] = "finished" /\ g_pc'[1] = g_pc[1]
      /\ VLogged' /\ VStamped' /\ VSampled' /\ VGuest'
  BY <1>2, VVmmAlone, Zenon
<1>4. VOver
  BY <1>1, <1>2, Zenon DEF VJoint, VApart, VReady, VIdle, VServing, VAt
<1>5. VOver' /\ VJoint'
  BY <1>2, <1>3, <1>4, Zenon DEF VJoint, VOver
<1>6. VTypeOK'
  <2>1. VThreadsOK'
    BY <1>1, <1>2, <1>3, Zenon DEF VTypeOK, VThreadsOK
  <2>2. VDataOK'
    BY <1>1, <1>2, VDataStays, Zenon DEF VTypeOK, VDataOK
  <2> QED
    BY <2>1, <2>2, Zenon DEF VTypeOK
<1>7. ~VServing /\ ~VServing' /\ ~VPending /\ ~VPending'
  BY <1>2, <1>3, Zenon DEF VPending, VServing
<1>8. VMessage'
  BY <1>7, Zenon DEF VMessage
<1>9. VCalled'
  <2>1. VDrift' = VDrift
    BY Zenon DEF VDrift
  <2> QED
    BY <1>1, <1>2, <1>3, <1>7, <2>1, Zenon DEF VCalled
<1>10. VRecorded'
  BY <1>1, <1>2, <1>3, <1>7, VSameRecorded, Zenon
<1>11. VOutcome'
  <2>1. status' = "success" => exitstatus[1] = 0
    BY <1>2, Zenon
  <2> QED
    BY <1>1, <1>2, <1>3, <1>4, <1>5, <2>1, VSameLeg, ZenonT(90) DEF VOutcome
<1> QED
  BY <1>3, <1>5, <1>6, <1>8, <1>9, <1>10, <1>11, Zenon DEF VInv

\* HYPCALL_SYS_EXIT_THREAD: with the status 0 every sample is in the shared results.
LEMMA VExited ==
  ASSUME VInv, VServing, g_pc[0] = "handle", VLabel = "exit", msg[1][1] = 1,
         g_pc' = [g_pc EXCEPT ![0] = "finish"],
         g_tcb' = [g_tcb EXCEPT ![1] = G!Inactive],
         g_caller' = [g_caller EXCEPT ![0] = NoThread], g_sc' = g_sc, G!KernelEntry,
         exitstatus' = [exitstatus EXCEPT ![1] = msg[1][3]],
         msg' = msg, g_results' = g_results, n_guests_exited' = 1, status' = status,
         bm' = bm, g_i' = g_i, g_start' = g_start, g_end' = g_end, r' = r, drift' = drift
  PROVE  VInv'
<1>1. VTypeOK /\ VRecorded /\ VOutcome /\ VMessage
  BY Zenon DEF VInv
<1>2. VPending /\ g_tcb[0] = G!Running /\ g_pc[1] = "unreachable"
  BY <1>1, Zenon DEF VPending, VServing, VMessage
<1>3. /\ DOMAIN g_pc' = {0, 1} /\ g_pc'[0] = "finish" /\ g_pc'[1] = "unreachable"
      /\ VLogged' /\ VStamped' /\ VSampled' /\ VGuest'
  BY <1>2, VVmmAlone, Zenon
<1>4. 0 # 1
  OBVIOUS
<1>5. /\ g_tcb' \in [{0, 1} -> VState] /\ g_tcb'[0] = G!Running /\ g_tcb'[1] = G!Inactive
      /\ g_caller' \in [{0, 1} -> {1, NoThread}] /\ g_caller'[0] = NoThread
      /\ DOMAIN exitstatus' = {1} /\ exitstatus'[1] = msg[1][3]
  BY <1>1, <1>2, <1>4, Zenon DEF VTypeOK, VThreadsOK, VDataOK, VState
<1>6. VTypeOK'
  <2>1. VThreadsOK'
    BY <1>1, <1>3, <1>5, Zenon DEF VTypeOK, VThreadsOK
  <2>2. VResultsOK' /\ g_clock' \in Int /\ log' \in Seq(Int)
    BY <1>1, VEntry, Zenon DEF VTypeOK, VDataOK, VResultsOK
  <2>3. VDataOK'
    BY <1>1, <1>5, <2>2, Zenon DEF VTypeOK, VDataOK
  <2> QED
    BY <2>1, <2>3, Zenon DEF VTypeOK
<1>7. VOver' /\ VJoint' /\ ~VServing' /\ ~VPending'
  BY <1>3, <1>5, Zenon DEF VJoint, VOver, VPending, VServing
<1>8. VMessage' /\ VCalled'
  BY <1>3, <1>7, Zenon DEF VMessage, VCalled
<1>9. ASSUME NEW b, NEW q
      PROVE  /\ VBefore(b, q)' = VBefore(b, q)
             /\ msg[1][3] = 0 => VBefore(b, q)
  BY <1>2, <1>3, <1>7, Zenon DEF VBefore
<1>10. VRecorded'
  BY <1>1, <1>9, VSameLeg, Zenon DEF VRecorded
<1>11. VOutcome'
  <2>1. status = "none"
    BY <1>1, Zenon DEF VOutcome
  <2>2. ASSUME msg[1][3] = 0, NEW b \in 1..5, NEW q \in VIteration
        PROVE  g_results'[b][q] = VExpected(b, q)'
    BY <1>1, <1>9, <2>2, VSameLeg, Zenon DEF VRecorded
  <2> QED
    BY <1>3, <1>5, <1>7, <2>1, <2>2, Zenon DEF VOutcome
<1> QED
  BY <1>3, <1>6, <1>7, <1>8, <1>10, <1>11, Zenon DEF VInv

\* The VMM goes on to its reply: what it owes and who waits stays.
LEMMA VHandled ==
  ASSUME VInv, VServing, g_pc[0] = "handle", g_pc' = [g_pc EXCEPT ![0] = "reply"],
         g_tcb' = g_tcb, g_caller' = g_caller, g_sc' = g_sc, g_clock' = g_clock, log' = log,
         exitstatus' = exitstatus, n_guests_exited' = n_guests_exited, status' = status,
         bm' = bm, g_i' = g_i, g_start' = g_start, g_end' = g_end, r' = r, drift' = drift
  PROVE  /\ VThreadsOK' /\ VJoint' /\ VServing' /\ VPending /\ ~VPending' /\ g_pc'[1] = g_pc[1]
         /\ VMessage' /\ VLogged' /\ VStamped' /\ VSampled' /\ VGuest' /\ VOutcome'
<1>1. VTypeOK /\ VOutcome
  BY Zenon DEF VInv
<1>2. VPending /\ g_tcb[0] = G!Running
  BY Zenon DEF VPending, VServing
<1>3. /\ DOMAIN g_pc' = {0, 1} /\ g_pc'[0] = "reply" /\ g_pc'[1] = g_pc[1]
      /\ VLogged' /\ VStamped' /\ VSampled' /\ VGuest'
  BY <1>2, VVmmAlone, Zenon
<1>4. VThreadsOK'
  BY <1>1, <1>3, Zenon DEF VTypeOK, VThreadsOK
<1>5. VServing' /\ VJoint' /\ ~VPending' /\ ~VOver /\ ~VOver'
  BY <1>3, Zenon DEF VServing, VJoint, VPending, VOver
<1>6. VMessage'
  BY <1>5, Zenon DEF VMessage
<1>7. VOutcome'
  BY <1>1, <1>3, <1>5, Zenon DEF VOutcome
<1> QED
  BY <1>2, <1>3, <1>4, <1>5, <1>6, <1>7, Zenon

\* HYPCALL_VMM_GET_CALL_END_STAMP and _REPLY_START_STAMP: the answer has the time.
LEMMA VStamps ==
  ASSUME VInv, VServing, g_pc[0] = "handle", g_pc' = [g_pc EXCEPT ![0] = "reply"],
         VLabel \in {"call_end", "reply_start"}, NEW y,
         msg' = [msg EXCEPT ![1] = <<y, "answer", g_clock>>],
         g_tcb' = g_tcb, g_caller' = g_caller, g_sc' = g_sc, g_clock' = g_clock, log' = log,
         exitstatus' = exitstatus, n_guests_exited' = n_guests_exited, status' = status,
         g_results' = g_results,
         bm' = bm, g_i' = g_i, g_start' = g_start, g_end' = g_end, r' = r, drift' = drift
  PROVE  VInv'
<1>1. VTypeOK /\ VRecorded /\ VCalled /\ VMessage
  BY Zenon DEF VInv
<1>2. /\ VThreadsOK' /\ VJoint' /\ VServing' /\ VPending /\ ~VPending' /\ g_pc'[1] = g_pc[1]
      /\ VMessage' /\ VLogged' /\ VStamped' /\ VSampled' /\ VGuest' /\ VOutcome'
  BY VHandled, Zenon
<1>3. g_pc[1] = "answered" /\ bm[1] \in {4, 5}
  BY <1>1, <1>2, Zenon DEF VMessage
<1>4. DOMAIN msg' = {1} /\ msg'[1] = <<y, "answer", g_clock>>
  BY <1>1, Zenon DEF VTypeOK, VDataOK
<1>5. msg'[1][3] = g_clock /\ msg'[1][2] = "answer"
  BY <1>4
<1>6. VDataOK'
  BY <1>1, <1>4, VDataStays, Zenon DEF VTypeOK, VDataOK
<1>7. VCalled'
  <2>1. g_clock \in Int
    BY <1>1, Zenon DEF VTypeOK, VDataOK
  <2>2. bm[1] = 4 => g_clock = g_start[1] + VDrift + 6
    BY <1>1, <1>2, <1>3, Zenon DEF VCalled
  <2>3. g_clock = g_clock + 0
    BY <2>1
  <2>4. VDrift' = VDrift
    BY Zenon DEF VDrift
  <2> QED
    BY <1>2, <1>3, <1>5, <2>1, <2>2, <2>3, <2>4, Zenon DEF VCalled
<1>8. VRecorded'
  <2>1. ASSUME NEW b, NEW q
        PROVE  VBefore(b, q) = (b < bm[1]) /\ VBefore(b, q)' = (b < bm[1])
    BY <1>2, <1>3, Zenon DEF VBefore
  <2> QED
    BY <1>1, <2>1, VSameLeg, Zenon DEF VRecorded
<1> QED
  BY <1>2, <1>6, <1>7, <1>8, Zenon DEF VInv, VTypeOK

\* A message, the end of the results or a fault: nothing but the reply.
LEMMA VNoted ==
  ASSUME VInv, VServing, g_pc[0] = "handle", g_pc' = [g_pc EXCEPT ![0] = "reply"],
         VLabel \in {"puts", "end_results", "fault"}, msg' = msg,
         g_tcb' = g_tcb, g_caller' = g_caller, g_sc' = g_sc, g_clock' = g_clock, log' = log,
         exitstatus' = exitstatus, n_guests_exited' = n_guests_exited, status' = status,
         g_results' = g_results,
         bm' = bm, g_i' = g_i, g_start' = g_start, g_end' = g_end, r' = r, drift' = drift
  PROVE  VInv'
<1>1. VTypeOK /\ VRecorded /\ VMessage
  BY Zenon DEF VInv
<1>2. /\ VThreadsOK' /\ VJoint' /\ VServing' /\ VPending /\ ~VPending' /\ g_pc'[1] = g_pc[1]
      /\ VMessage' /\ VLogged' /\ VStamped' /\ VSampled' /\ VGuest' /\ VOutcome'
  BY VHandled, Zenon
<1>3. g_pc[1] # "answered" /\ VLabel # "deep_results"
  BY <1>1, <1>2, Zenon DEF VMessage
<1>4. VDataOK'
  BY <1>1, VDataStays, Zenon DEF VTypeOK, VDataOK
<1>5. VCalled'
  BY <1>2, <1>3, Zenon DEF VCalled
<1>6. VRecorded'
  <2>1. ASSUME NEW b, NEW q
        PROVE  VBefore(b, q)' = VBefore(b, q)
    BY <1>2, <1>3, Zenon DEF VBefore
  <2> QED
    BY <1>1, <2>1, VSameLeg, Zenon DEF VRecorded
<1> QED
  BY <1>2, <1>4, <1>5, <1>6, Zenon DEF VInv, VTypeOK

\* HYPCALL_ADD_DEEP_RESULT (a sample): it takes its place in the shared results.
LEMMA VStores ==
  ASSUME VInv, VServing, g_pc[0] = "handle", g_pc' = [g_pc EXCEPT ![0] = "reply"],
         VLabel = "deep_results", msg' = msg,
         g_results' = [g_results EXCEPT ![msg[1][3]][msg[1][4]] = msg[1][6] - msg[1][5]],
         g_tcb' = g_tcb, g_caller' = g_caller, g_sc' = g_sc, g_clock' = g_clock, log' = log,
         exitstatus' = exitstatus, n_guests_exited' = n_guests_exited, status' = status,
         bm' = bm, g_i' = g_i, g_start' = g_start, g_end' = g_end, r' = r, drift' = drift
  PROVE  VInv'
<1>1. VTypeOK /\ VRecorded /\ VMessage
  BY Zenon DEF VInv
<1>2. /\ VThreadsOK' /\ VJoint' /\ VServing' /\ VPending /\ ~VPending' /\ g_pc'[1] = g_pc[1]
      /\ VMessage' /\ VLogged' /\ VStamped' /\ VSampled' /\ VGuest' /\ VOutcome'
  BY VHandled, Zenon
<1> DEFINE b0 == msg[1][3]
           q0 == msg[1][4]
<1>3. /\ b0 \in 1..5 /\ q0 \in VIteration
      /\ msg[1][5] \in Int /\ msg[1][6] \in Int
      /\ msg[1][6] - msg[1][5] = VExpected(b0, q0)
      /\ \/ g_pc[1] = "deep" /\ bm[1] = b0 /\ g_i[1] = q0 + 1
         \/ g_pc[1] = "run" /\ bm[1] = b0 + 1 /\ q0 = VcpuIterations
         \/ g_pc[1] = "exit" /\ b0 = 5 /\ q0 = VcpuIterations
  BY <1>1, <1>2, Zenon DEF VMessage
<1>4. msg[1][6] - msg[1][5] \in Int
  BY <1>3
<1> HIDE DEF b0, q0
<1>5. g_results \in VTable /\ g_results' = [g_results EXCEPT ![b0][q0] = VExpected(b0, q0)]
      /\ VExpected(b0, q0) \in Int
  BY <1>1, <1>3, <1>4, Zenon DEF VTypeOK, VDataOK, b0, q0
<1>6. /\ g_results' \in VTable
      /\ g_results'[b0][q0] = VExpected(b0, q0)
      /\ \A b \in 1..5, q \in VIteration :
           b # b0 \/ q # q0 => g_results'[b][q] = g_results[b][q]
  <2>1. g_results[b0] \in [VIteration -> Int]
    BY <1>3, <1>5, Zenon DEF VTable
  <2> DEFINE new == [g_results[b0] EXCEPT ![q0] = VExpected(b0, q0)]
  <2>2. /\ new \in [VIteration -> Int] /\ new[q0] = VExpected(b0, q0)
        /\ \A q \in VIteration : q # q0 => new[q] = g_results[b0][q]
    BY <1>3, <1>5, <2>1, Zenon
  <2>3. g_results' = [g_results EXCEPT ![b0] = new]
    BY <1>5, Zenon
  <2> HIDE DEF new
  <2>4. /\ g_results' \in VTable /\ g_results'[b0] = new
        /\ \A b \in 1..5 : b # b0 => g_results'[b] = g_results[b]
    BY <1>3, <1>5, <2>2, <2>3, Zenon DEF VTable
  <2> QED
    BY <2>2, <2>4, Zenon
<1>7. VDataOK'
  <2>1. VResultsOK'
    BY <1>1, Zenon DEF VTypeOK, VDataOK, VResultsOK
  <2> QED
    BY <1>1, <1>6, <2>1, Zenon DEF VTypeOK, VDataOK
<1>8. VCalled'
  BY <1>2, <1>3, Zenon DEF VCalled
<1>9. VRecorded'
  <2>1. ASSUME NEW b \in 1..5, NEW q \in VIteration, VBefore(b, q)'
        PROVE  (b = b0 /\ q = q0) \/ b < b0 \/ (b = b0 /\ q < q0)
    <3>1. CASE g_pc[1] = "deep"
      <4>1. b < bm[1] \/ (b = bm[1] /\ q < g_i[1])
        BY <1>2, <2>1, <3>1, Zenon DEF VBefore
      <4>2. bm[1] = b0 /\ g_i[1] = q0 + 1
        BY <1>3, <3>1, Zenon
      <4> QED
        BY <1>3, <4>1, <4>2, VConstants DEF VIteration
    <3>2. CASE g_pc[1] = "run"
      <4>1. b < bm[1]
        BY <1>2, <2>1, <3>2, Zenon DEF VBefore
      <4>2. bm[1] = b0 + 1 /\ q0 = VcpuIterations
        BY <1>3, <3>2, Zenon
      <4> QED
        BY <1>3, <4>1, <4>2, VConstants DEF VIteration
    <3>3. CASE g_pc[1] = "exit"
      <4>1. b0 = 5 /\ q0 = VcpuIterations
        BY <1>3, <3>3, Zenon
      <4> QED
        BY <4>1, VConstants DEF VIteration
    <3> QED
      BY <1>3, <3>1, <3>2, <3>3, Zenon
  <2>2. ASSUME NEW b \in 1..5, NEW q \in VIteration, b < b0 \/ (b = b0 /\ q < q0)
        PROVE  g_results'[b][q] = VExpected(b, q)
    <3>1. b # b0 \/ q # q0
      BY <1>3, <2>2, VConstants DEF VIteration
    <3>2. VBefore(b, q)
      BY <1>2, <2>2, Zenon DEF VBefore, b0, q0
    <3> QED
      BY <1>1, <1>6, <3>1, <3>2, Zenon DEF VRecorded
  <2>3. ASSUME NEW b \in 1..5, NEW q \in VIteration, VBefore(b, q)'
        PROVE  g_results'[b][q] = VExpected(b, q)'
    <3>1. VExpected(b, q)' = VExpected(b, q)
      BY VSameLeg, Zenon
    <3> QED
      BY <1>6, <2>1, <2>2, <2>3, <3>1, Zenon
  <2> QED
    BY <2>3, Zenon DEF VRecorded
<1> QED
  BY <1>2, <1>7, <1>8, <1>9, Zenon DEF VInv, VTypeOK

\* vmm_handle_hypcall and vmm_handle_sel4_fault.
LEMMA VHandles ==
  ASSUME VInv, g_tcb[0] = G!Running, G!vmm_handle,
         bm' = bm, g_i' = g_i, g_start' = g_start, g_end' = g_end, r' = r, drift' = drift
  PROVE  VInv'
<1>1. VTypeOK /\ VJoint /\ VOutcome /\ VMessage /\ g_pc[0] = "handle"
  BY VConstants, Zenon DEF VInv, G!vmm_handle
<1>2. VServing
  BY <1>1, Zenon DEF VJoint, VApart, VReady, VIdle, VOver, VAt
<1>3. G!client = 1 /\ G!label = VLabel /\ G!badge = 1 /\ msg[1][1] = 1
  BY <1>1, <1>2, VClient, Zenon DEF VMessage, VPending
<1>4. n_guests_exited = 0
  BY <1>1, <1>2, Zenon DEF VOutcome, VOver, VServing
<1>5. CASE /\ VLabel = "exit" /\ G!ExitThread
           /\ G!Step(0, "handle", IF n_guests_exited' = 1 THEN "finish" ELSE "recv")
           /\ G!KernelEntry /\ UNCHANGED <<g_active, g_sc, msg, g_results, pl2, status>>
  <2>1. n_guests_exited' = 1
    <3>1. n_guests_exited' = n_guests_exited + 1
      BY <1>5, Zenon DEF G!ExitThread
    <3> QED
      BY <1>4, <3>1
  <2>2. /\ g_tcb' = [g_tcb EXCEPT ![1] = G!Inactive]
        /\ g_caller' = [g_caller EXCEPT ![0] = NoThread]
        /\ exitstatus' = [exitstatus EXCEPT ![1] = msg[1][3]]
    BY <1>3, <1>5, VConstants, Zenon DEF G!ExitThread, G!SetState
  <2>3. g_pc' = [g_pc EXCEPT ![0] = "finish"]
    BY <1>5, <2>1, Zenon DEF G!Step
  <2> QED
    BY <1>1, <1>2, <1>3, <1>5, <2>1, <2>2, <2>3, VExited, Zenon
<1>6. CASE /\ VLabel \in {"call_end", "reply_start"} /\ G!Step(0, "handle", "reply")
           /\ msg' = [msg EXCEPT ![1] = <<1, "answer", g_clock>>]
           /\ UNCHANGED <<g_tcb, g_active, g_caller, g_sc, g_clock, log, G!vmmvars>>
  BY <1>1, <1>2, <1>6, VStamps, Zenon DEF G!Step, G!vmmvars
<1>7. CASE /\ VLabel = "deep_results" /\ G!Step(0, "handle", "reply")
           /\ g_results' = [g_results EXCEPT ![msg[1][3]][msg[1][4]] = msg[1][6] - msg[1][5]]
           /\ UNCHANGED <<g_tcb, g_active, g_caller, g_sc, g_clock, log, msg, exitstatus,
                          n_guests_exited, pl2, status>>
  <2>1. g_pc' = [g_pc EXCEPT ![0] = "reply"]
    BY <1>7, Zenon DEF G!Step
  <2> QED
    BY <1>1, <1>2, <1>7, <2>1, VStores, Zenon
<1>8. CASE /\ VLabel \in {"puts", "end_results", "fault"} /\ G!Step(0, "handle", "reply")
           /\ UNCHANGED <<g_tcb, g_active, g_caller, g_sc, g_clock, log, msg, G!vmmvars>>
  BY <1>1, <1>2, <1>8, VNoted, Zenon DEF G!Step, G!vmmvars
<1> QED
  BY <1>3, <1>5, <1>6, <1>7, <1>8, VConstants, Zenon DEF G!vmm_handle

\* A step of another application preserves the invariant.
LEMMA VStutters ==
  ASSUME VInv, UNCHANGED vcpuvars
  PROVE  VInv'
<1>1. /\ g_tcb' = g_tcb /\ g_pc' = g_pc /\ g_caller' = g_caller /\ g_sc' = g_sc
      /\ g_clock' = g_clock /\ log' = log /\ msg' = msg /\ bm' = bm /\ g_i' = g_i
      /\ g_start' = g_start /\ g_end' = g_end /\ r' = r /\ g_results' = g_results
      /\ exitstatus' = exitstatus /\ n_guests_exited' = n_guests_exited /\ status' = status
      /\ drift' = drift
  BY Zenon DEF vcpuvars
<1>2. VTypeOK'
  <2>1. VThreadsOK'
    BY <1>1, Zenon DEF VInv, VTypeOK, VThreadsOK
  <2>2. VDataOK'
    BY <1>1, VDataStays, Zenon DEF VInv, VTypeOK, VDataOK
  <2> QED
    BY <2>1, <2>2, Zenon DEF VTypeOK
<1>3. /\ VApart' = VApart /\ VReady' = VReady /\ VIdle' = VIdle /\ VServing' = VServing
      /\ VOver' = VOver /\ VPending' = VPending /\ VDrift' = VDrift /\ VLabel' = VLabel
  BY <1>1, Zenon DEF VApart, VReady, VIdle, VServing, VOver, VPending, VAt, VDrift, VLabel
<1>4. VJoint'
  BY <1>3, Zenon DEF VInv, VJoint
<1>5. VMessage'
  BY <1>1, <1>3, VSameLeg, Zenon DEF VInv, VMessage
<1>6. VLogged' /\ VStamped'
  BY <1>1, <1>3, VSameLeg, Zenon DEF VInv, VLogged, VStamped
<1>7. VCalled'
  BY <1>1, <1>3, Zenon DEF VInv, VCalled
<1>8. VSampled'
  BY <1>1, VSameLeg, Zenon DEF VInv, VSampled, VKept
<1>9. VRecorded'
  <2>1. ASSUME NEW b, NEW q
        PROVE  VBefore(b, q)' = VBefore(b, q)
    BY <1>1, <1>3, Zenon DEF VBefore
  <2> QED
    BY <1>1, <2>1, VSameLeg, Zenon DEF VInv, VRecorded
<1>10. VGuest' /\ VOutcome'
  BY <1>1, <1>3, VSameLeg, Zenon DEF VInv, VGuest, VOutcome
<1> QED
  BY <1>2, <1>4, <1>5, <1>6, <1>7, <1>8, <1>9, <1>10, Zenon DEF VInv

\* Every step of the application preserves the invariant.
LEMMA VStep ==
  ASSUME VInv, G!Next
  PROVE  VInv'
<1>1. CASE G!VmmStep
  <2>1. g_tcb[0] = G!Running
    BY <1>1, VRuns, VConstants, Zenon DEF G!VmmStep, VInv
  <2>2. /\ bm' = bm /\ g_i' = g_i /\ g_start' = g_start /\ g_end' = g_end /\ r' = r
        /\ drift' = drift
    BY <1>1, Zenon DEF G!VmmStep, G!guestvars, G!histvars
  <2> QED
    BY <1>1, <2>1, <2>2, VSetup, VWaits, VSaves, VHandles, VSendsReply, VFinishes, Zenon
       DEF G!VmmStep
<1>2. CASE G!Ended
  <2>1. UNCHANGED vcpuvars
    BY <1>2, Zenon DEF G!Ended, G!vars, G!guestvars, G!vmmvars, G!histvars, vcpuvars
  <2> QED
    BY <2>1, VStutters, Zenon
<1>3. CASE G!GuestStep(1)
  BY <1>3, VGuestStep, Zenon
<1> QED
  BY <1>1, <1>2, <1>3, VConstants, Zenon DEF G!Next

\* VMM and guest never run at the same time; a stamp that one of them takes for the
\* other still belongs to the call it was taken for; and every sample up to the last one
\* that was sent is in the shared results as the time of its own leg plus its drift.
THEOREM VcpuInvariance == MCSpec => []VInv
<1>1. MCInit => VInv
  <2> SUFFICES ASSUME MCInit PROVE VInv
    BY Zenon
  <2>1. G!Init
    BY Zenon DEF MCInit
  <2>2. /\ g_tcb = [t \in {0, 1} |-> IF t = 0 THEN G!Running ELSE G!Inactive]
        /\ g_pc = [t \in {0, 1} |-> IF t = 0 THEN "setup" ELSE "guest_main"]
        /\ g_caller = [t \in {0, 1} |-> NoThread] /\ g_sc = [t \in {0, 1} |-> t]
        /\ g_clock = 0 /\ log = <<>> /\ msg = [g \in {1} |-> <<g, "none">>]
        /\ bm = [g \in {1} |-> 1] /\ g_i = [g \in {1} |-> 1]
        /\ g_start = [g \in {1} |-> 0] /\ g_end = [g \in {1} |-> 0]
        /\ r = G!NoResults
        /\ g_results = [b \in 1..5 |-> [q \in VIteration |-> -1]]
        /\ exitstatus = [g \in {1} |-> 0] /\ n_guests_exited = 0 /\ status = "none"
    BY <2>1, VConstants, Zenon DEF G!Init
  <2>3. 0 # 1 /\ 0 \in Int /\ -1 \in Int /\ 1 \in 1..5 /\ <<>> \in Seq(Int)
    OBVIOUS
  <2>4. 1 \in VIteration
    BY VConstants DEF VIteration
  <2>5. /\ g_tcb[0] = G!Running /\ g_tcb[1] = G!Inactive /\ g_caller[0] = NoThread
        /\ g_pc[0] = "setup" /\ g_pc[1] = "guest_main" /\ bm[1] = 1
    BY <2>2, <2>3, Zenon
  <2>6. VThreadsOK
    BY <2>2, Zenon DEF VThreadsOK, VState
  <2>7. drift \in [{1} -> VTable]
    <3>1. PICK b \in G!Benchmark, d \in SUBSET G!Iteration :
            drift = [g \in G!Guest |-> [x \in G!Benchmark |-> [q \in G!Iteration |->
                       IF x = b /\ q \in d THEN VcpuThreshold ELSE 0]]]
      BY <2>1, Zenon DEF G!Init
    <3>2. VcpuThreshold \in Int /\ 0 \in Int
      BY VConstants
    <3>3. drift \in [G!Guest -> [G!Benchmark -> [G!Iteration -> Int]]]
      BY <3>1, <3>2, Zenon
    <3> QED
      BY <3>3, VConstants, Zenon DEF VTable
  <2>8. VDataOK
    <3>1. VResultsOK
      BY <2>2, VConstants DEF VResultsOK, G!NoResults
    <3>2. g_results \in VTable
      BY <2>2, <2>3, Zenon DEF VTable
    <3> QED
      BY <2>2, <2>3, <2>4, <2>7, <3>1, <3>2, Zenon DEF VDataOK
  <2>9. VApart /\ VJoint /\ ~VPending /\ ~VOver
    BY <2>5, Zenon DEF VApart, VJoint, VPending, VServing, VOver, VAt
  <2>10. VMessage /\ VLogged /\ VCalled /\ VStamped /\ VGuest
    BY <2>5, <2>9, Zenon DEF VMessage, VLogged, VCalled, VStamped, VGuest
  <2>11. VSampled
    BY <2>5, Zenon DEF VSampled, VKept
  <2>12. VRecorded
    <3>1. \A b \in 1..5 : ~(b < 1)
      OBVIOUS
    <3> QED
      BY <2>5, <2>9, <3>1, Zenon DEF VRecorded, VBefore
  <2>13. VOutcome
    BY <2>2, <2>5, <2>9, Zenon DEF VOutcome
  <2> QED
    BY <2>6, <2>8, <2>9, <2>10, <2>11, <2>12, <2>13, Zenon DEF VInv, VTypeOK
<1>2. VInv /\ [MCNext]_allvars => VInv'
  BY VStep, VStutters, Zenon DEF MCNext, allvars
<1> QED
  BY <1>1, <1>2, PTL DEF MCSpec

\* When main reports success, every sample of every benchmark is in the shared results
\* and is the time of its own leg plus the drift in it, for every number of iterations,
\* every threshold and every set of failures a guest may meet.
THEOREM ElapsedOneLeg == MCSpec => []ElapsedIsOneLeg
<1>1. VInv => ElapsedIsOneLeg
  BY VConstants, Zenon DEF VInv, VOutcome, VExpected, ElapsedIsOneLeg, G!ElapsedIsOneLeg
<1> QED
  BY <1>1, VcpuInvariance, PTL

-----------------------------------------------------------------------------
(* The averages.                                                           *)

\* A product is monotone in its first factor.
LEMMA VTimes ==
  ASSUME NEW a \in Int, NEW b \in Int, NEW c \in Nat, a <= b
  PROVE  a * c <= b * c /\ a * (c + 1) = a * c + a
<1>1. (b - a) * c >= 0
  <2> DEFINE d == b - a
  <2>1. d \in Nat
    OBVIOUS
  <2> HIDE DEF d
  <2>2. d * c >= 0
    BY <2>1
  <2> QED
    BY <2>2 DEF d
<1>2. b * c = (b - a) * c + a * c
  OBVIOUS
<1>3. a * (c + 1) = a * c + a
  OBVIOUS
<1> QED
  BY <1>1, <1>2, <1>3

\* With one more sample, the sum is still at least as large as if all were like one of them,
LEMMA VLower ==
  ASSUME NEW a \in Int, NEW b \in Int, NEW c \in Nat, NEW t \in Int, a * c <= t
  PROVE  a * (c + 1) <= t + b \/ b * (c + 1) <= t + b
<1>1. CASE a <= b
  BY <1>1, VTimes
<1>2. CASE b <= a
  <2>1. b * c <= a * c /\ b * (c + 1) = b * c + b
    BY <1>2, VTimes
  <2>2. b * c \in Int /\ a * c \in Int
    OBVIOUS
  <2> QED
    BY <2>1, <2>2
<1> QED
  BY <1>1, <1>2

\* and at most as large.
LEMMA VUpper ==
  ASSUME NEW a \in Int, NEW b \in Int, NEW c \in Nat, NEW t \in Int, a * c >= t
  PROVE  a * (c + 1) >= t + b \/ b * (c + 1) >= t + b
<1>1. CASE b <= a
  <2>1. a * (c + 1) = a * c + a /\ a * c \in Int
    OBVIOUS
  <2> QED
    BY <1>1, <2>1
<1>2. CASE a <= b
  <2>1. a * c <= b * c /\ b * (c + 1) = b * c + b
    BY <1>2, VTimes
  <2>2. b * c \in Int /\ a * c \in Int
    OBVIOUS
  <2> QED
    BY <2>1, <2>2
<1> QED
  BY <1>1, <1>2

\* A quotient lies between numbers that the dividend lies between the multiples of.
LEMMA VQuotient ==
  ASSUME NEW a \in Int, NEW c \in Nat, c > 0, NEW t \in Int
  PROVE  /\ a * c <= t => a <= t \div c
         /\ a * c >= t => a >= t \div c
<1> DEFINE d == t \div c
<1>1. d \in Int /\ t % c \in 0..c - 1 /\ t = d * c + (t % c)
  OBVIOUS
<1> HIDE DEF d
<1>2. d * c <= t /\ t < d * c + c /\ d * c \in Int
  BY <1>1
<1>3. ASSUME a * c <= t PROVE a <= d
  <2> SUFFICES ASSUME d + 1 <= a PROVE FALSE
    BY <1>1
  <2>1. (d + 1) * c <= a * c
    BY <1>1, VTimes
  <2>2. (d + 1) * c = d * c + c /\ a * c \in Int
    BY <1>1
  <2> QED
    BY <1>2, <1>3, <2>1, <2>2
<1>4. ASSUME a * c >= t PROVE a >= d
  <2> SUFFICES ASSUME a + 1 <= d PROVE FALSE
    BY <1>1
  <2>1. (a + 1) * c <= d * c
    BY <1>1, VTimes
  <2>2. (a + 1) * c = a * c + c /\ a * c \in Int
    OBVIOUS
  <2> QED
    BY <1>2, <1>4, <2>1, <2>2
<1> QED
  BY <1>3, <1>4 DEF d

\* What the samples of guest_results show.
VElapsed == [q \in VIteration |-> r.end[q] - r.start[q]]

\* This sample is no anomaly.
VKeeps(q) == q = 1 \/ VElapsed[q] - VElapsed[q - 1] < VcpuThreshold

\* Those of the first n samples that are none.
VKeptUpTo(n) == {q \in 1..n : VKeeps(q)}

\* The first n of these numbers are the sums of the first samples.
VPartial(s, n) == s[0] = 0 /\ \A q \in 1..n : s[q] = s[q - 1] + VElapsed[q]

\* The fields of guest_results that count and add.
VFieldsOK ==
  /\ {"n_anomalies", "clipped_total", "complete_total", "clipped_avg", "complete_avg"}
       \subseteq DOMAIN r
  /\ r.n_anomalies \in Nat /\ r.clipped_total \in Int /\ r.complete_total \in Int

\* The sum of the samples that are kept lies between multiples of two of them.
VBetween(n) ==
  /\ r.n_anomalies < n
  /\ \E q \in VKeptUpTo(n) : VElapsed[q] * (n - r.n_anomalies) <= r.clipped_total
  /\ \E q \in VKeptUpTo(n) : VElapsed[q] * (n - r.n_anomalies) >= r.clipped_total

\* The complete total is the sum of the first n samples.
VTotal(n) ==
  /\ \E s : DOMAIN s = 0..VcpuIterations /\ VPartial(s, n)
  /\ \A s : VPartial(s, n) => r.complete_total = s[n]

\* The counts and sums are those of the first n samples.
VSums(n) ==
  /\ r.n_anomalies + Cardinality(VKeptUpTo(n)) = n
  /\ IF n = 0 THEN r.clipped_total = 0 /\ r.n_anomalies = 0 ELSE VBetween(n)
  /\ VTotal(n)

\* The guest is in an iteration of guest_run_bm.
VCounting == g_pc[1] \in {"iter", "reset", "stamp", "log", "answered", "account"}

\* The inductive invariant about the averages.
VAverages ==
  /\ VFieldsOK
  /\ VCounting => VSums(g_i[1] - 1)
  /\ g_pc[1] = "report" =>
       /\ VSums(VcpuIterations)
       /\ r.clipped_avg = r.clipped_total \div (VcpuIterations - r.n_anomalies)

\* What one more sample does to the record.
LEMMA VAddsFields ==
  ASSUME VFieldsOK, VDataOK, NEW x, x = G!Counted(1, g_end[1] - g_start[1]),
         r' = x \/ r' = G!Averaged(x)
  PROVE  /\ VFieldsOK'
         /\ r'.complete_total = r.complete_total + (g_end[1] - g_start[1])
         /\ IF G!guest_bm_cycle_counter_anomaly_detected(1, g_end[1] - g_start[1])
            THEN r'.n_anomalies = r.n_anomalies + 1 /\ r'.clipped_total = r.clipped_total
            ELSE /\ r'.n_anomalies = r.n_anomalies
                 /\ r'.clipped_total = r.clipped_total + (g_end[1] - g_start[1])
         /\ r' = G!Averaged(x) =>
              r'.clipped_avg = r'.clipped_total \div (VcpuIterations - r'.n_anomalies)
<1> DEFINE e == g_end[1] - g_start[1]
           anomaly == G!guest_bm_cycle_counter_anomaly_detected(1, e)
<1>1. e \in Int
  <2>1. g_end[1] \in Int /\ g_start[1] \in Int
    BY Zenon DEF VDataOK
  <2> QED
    BY <2>1
<1>2. /\ {"n_anomalies", "clipped_total", "complete_total", "clipped_avg", "complete_avg"}
           \subseteq DOMAIN r
      /\ r.n_anomalies \in Nat /\ r.clipped_total \in Int /\ r.complete_total \in Int
  BY Zenon DEF VFieldsOK
<1> HIDE DEF e, anomaly
<1>3. /\ {"n_anomalies", "clipped_total", "complete_total", "clipped_avg", "complete_avg"}
           \subseteq DOMAIN x
      /\ x.complete_total = r.complete_total + e
      /\ x.clipped_total = IF anomaly THEN r.clipped_total ELSE r.clipped_total + e
      /\ x.n_anomalies = IF anomaly THEN r.n_anomalies + 1 ELSE r.n_anomalies
  BY <1>2 DEF G!Counted, e, anomaly
<1>4. /\ {"n_anomalies", "clipped_total", "complete_total", "clipped_avg", "complete_avg"}
           \subseteq DOMAIN r'
      /\ r'.complete_total = x.complete_total
      /\ r'.clipped_total = x.clipped_total
      /\ r'.n_anomalies = x.n_anomalies
      /\ r' = G!Averaged(x) =>
           r'.clipped_avg = x.clipped_total \div (VcpuIterations - x.n_anomalies)
  BY <1>3 DEF G!Averaged, G!guest_bm_calc_clipped_average
<1>5. r'.n_anomalies \in Nat /\ r'.clipped_total \in Int /\ r'.complete_total \in Int
  BY <1>1, <1>2, <1>3, <1>4
<1>6. VFieldsOK'
  BY <1>4, <1>5, Zenon DEF VFieldsOK
<1> QED
  BY <1>3, <1>4, <1>6, Zenon DEF e, anomaly

\* What it does to the samples.
LEMMA VAddsSample ==
  ASSUME VDataOK, NEW n \in Nat, g_i[1] = n + 1,
         VAdded(r.start, g_start[1], r'.start), VAdded(r.end, g_end[1], r'.end)
  PROVE  /\ n + 1 \in VIteration
         /\ VElapsed \in [VIteration -> Int] /\ VElapsed' \in [VIteration -> Int]
         /\ VElapsed'[n + 1] = g_end[1] - g_start[1]
         /\ \A q \in 1..n : VElapsed'[q] = VElapsed[q]
<1>1. /\ g_i[1] \in VIteration /\ g_end[1] \in Int /\ g_start[1] \in Int
      /\ r.start \in [VIteration -> Int] /\ r.end \in [VIteration -> Int]
  BY Zenon DEF VDataOK, VResultsOK
<1>2. \A q \in VIteration : r.start[q] \in Int /\ r.end[q] \in Int
  BY <1>1, Zenon
<1>3. \A q \in VIteration : VElapsed[q] = r.end[q] - r.start[q]
  BY Zenon DEF VElapsed
<1>4. \A q \in VIteration : VElapsed'[q] = r'.end[q] - r'.start[q]
  BY Zenon DEF VElapsed
<1>5. /\ \A q \in VIteration : r'.start[q] = IF q = n + 1 THEN g_start[1] ELSE r.start[q]
      /\ \A q \in VIteration : r'.end[q] = IF q = n + 1 THEN g_end[1] ELSE r.end[q]
  BY Zenon DEF VAdded
<1>6. n + 1 \in VIteration /\ \A q \in 1..n : q \in VIteration /\ q # n + 1
  BY <1>1, VConstants DEF VIteration
<1>7. VElapsed'[n + 1] = g_end[1] - g_start[1]
  BY <1>4, <1>5, <1>6, Zenon
<1>8. ASSUME NEW q \in 1..n
      PROVE  VElapsed'[q] = VElapsed[q]
  <2>1. q \in VIteration /\ q # n + 1
    BY <1>6, Zenon
  <2>2. r'.start[q] = r.start[q] /\ r'.end[q] = r.end[q]
    BY <1>5, <2>1, Zenon
  <2> QED
    BY <1>3, <1>4, <2>1, <2>2, Zenon
<1>9. \A q \in VIteration : r'.end[q] - r'.start[q] \in Int /\ r.end[q] - r.start[q] \in Int
  <2>1. \A q \in VIteration : r'.start[q] \in Int /\ r'.end[q] \in Int
    BY <1>1, <1>2, <1>5, Zenon
  <2> QED
    BY <1>2, <2>1
<1>10. VElapsed \in [VIteration -> Int] /\ VElapsed' \in [VIteration -> Int]
  BY <1>9, Zenon DEF VElapsed
<1> QED
  BY <1>6, <1>7, <1>8, <1>10, Zenon

\* Which of the samples are kept with one more.
LEMMA VAddsKept ==
  ASSUME VDataOK, NEW n \in Nat, g_i[1] = n + 1,
         VAdded(r.start, g_start[1], r'.start), VAdded(r.end, g_end[1], r'.end)
  PROVE  VKeptUpTo(n + 1)' =
           IF G!guest_bm_cycle_counter_anomaly_detected(1, g_end[1] - g_start[1])
           THEN VKeptUpTo(n) ELSE VKeptUpTo(n) \cup {n + 1}
<1> DEFINE e == g_end[1] - g_start[1]
           anomaly == G!guest_bm_cycle_counter_anomaly_detected(1, e)
<1>1. /\ n + 1 \in VIteration
      /\ VElapsed \in [VIteration -> Int] /\ VElapsed' \in [VIteration -> Int]
      /\ VElapsed'[n + 1] = e
      /\ \A q \in 1..n : VElapsed'[q] = VElapsed[q]
  BY VAddsSample, Zenon
<1>2. VcpuThreshold \in Nat /\ VcpuIterations \in Nat
  BY VConstants
<1>3. VKeeps(n + 1)' <=> ~anomaly
  <2>1. CASE n = 0
    <3>1. ~(g_i[1] > 1) /\ n + 1 = 1
      BY <2>1
    <3>2. ~anomaly
      BY <3>1, Zenon DEF anomaly, G!guest_bm_cycle_counter_anomaly_detected
    <3> QED
      BY <3>1, <3>2, Zenon DEF VKeeps
  <2>2. CASE n # 0
    <3>1. n \in 1..n /\ n \in VIteration /\ g_i[1] > 1 /\ g_i[1] - 1 = n /\ n + 1 # 1
          /\ (n + 1) - 1 = n
      BY <1>1, <1>2, <2>2 DEF VIteration
    <3>2. VElapsed[n] = r.end[n] - r.start[n]
      BY <3>1, Zenon DEF VElapsed
    <3>3. anomaly <=> e - VElapsed[n] >= VcpuThreshold
      BY <3>1, <3>2, Zenon DEF anomaly, G!guest_bm_cycle_counter_anomaly_detected
    <3>4. VKeeps(n + 1)' <=> e - VElapsed[n] < VcpuThreshold
      <4>1. VKeeps(n + 1)' <=> VElapsed'[n + 1] - VElapsed'[(n + 1) - 1] < VcpuThreshold
        BY <3>1, Zenon DEF VKeeps
      <4> QED
        BY <1>1, <3>1, <4>1, Zenon
    <3>5. VElapsed[n] \in Int /\ e \in Int
      BY <1>1, <3>1, Zenon
    <3> HIDE DEF e, anomaly
    <3> QED
      BY <1>2, <3>3, <3>4, <3>5
  <2> QED
    BY <2>1, <2>2, Zenon
<1>4. ASSUME NEW q \in 1..n
      PROVE  VKeeps(q)' <=> VKeeps(q)
  <2>1. q = 1 \/ q - 1 \in 1..n
    OBVIOUS
  <2> QED
    BY <1>1, <2>1, Zenon DEF VKeeps
<1>5. 1..n + 1 = (1..n) \cup {n + 1}
  OBVIOUS
<1>6. VKeptUpTo(n + 1)' = {q \in (1..n) \cup {n + 1} : VKeeps(q)'}
  BY <1>5, Zenon DEF VKeptUpTo
<1> HIDE DEF anomaly, e
<1>7. VKeptUpTo(n) = {q \in 1..n : VKeeps(q)'}
  BY <1>4, Zenon DEF VKeptUpTo
<1>8. CASE anomaly
  BY <1>3, <1>6, <1>7, <1>8, Zenon DEF anomaly, e
<1>9. CASE ~anomaly
  <2>1. \A q : q \in VKeptUpTo(n + 1)' <=> q \in VKeptUpTo(n) \cup {n + 1}
    BY <1>3, <1>6, <1>7, <1>9, Zenon
  <2>2. VKeptUpTo(n + 1)' = VKeptUpTo(n) \cup {n + 1}
    BY <2>1, Zenon
  <2> QED
    BY <1>9, <2>2, Zenon DEF anomaly, e
<1> QED
  BY <1>8, <1>9, Zenon

\* The total with one more sample.
LEMMA VAddsTotal ==
  ASSUME VDataOK, VFieldsOK, NEW n \in Nat, g_i[1] = n + 1, VTotal(n),
         VAdded(r.start, g_start[1], r'.start), VAdded(r.end, g_end[1], r'.end),
         r'.complete_total = r.complete_total + (g_end[1] - g_start[1])
  PROVE  VTotal(n + 1)'
<1> DEFINE e == g_end[1] - g_start[1]
<1>1. /\ n + 1 \in VIteration
      /\ VElapsed'[n + 1] = e
      /\ \A q \in 1..n : VElapsed'[q] = VElapsed[q]
  BY VAddsSample, Zenon
<1>2. /\ 1..n + 1 = (1..n) \cup {n + 1} /\ n + 1 \notin 1..n /\ (n + 1) - 1 = n
      /\ n + 1 \in 0..VcpuIterations /\ 0 # n + 1
  BY <1>1, VConstants DEF VIteration
<1> HIDE DEF e
<1>3. ASSUME NEW s
      PROVE  VPartial(s, n + 1)' <=> VPartial(s, n) /\ s[n + 1] = s[n] + e
  <2>1. VPartial(s, n + 1)'
          <=> /\ s[0] = 0
              /\ \A q \in (1..n) \cup {n + 1} : s[q] = s[q - 1] + VElapsed'[q]
    BY <1>2, Zenon DEF VPartial
  <2> QED
    BY <1>1, <1>2, <2>1, Zenon DEF VPartial
<1>4. \E s : DOMAIN s = 0..VcpuIterations /\ VPartial(s, n + 1)'
  <2>1. PICK s : DOMAIN s = 0..VcpuIterations /\ VPartial(s, n)
    BY Zenon DEF VTotal
  <2> DEFINE u == [m \in 0..VcpuIterations |-> IF m = n + 1 THEN s[n] + e ELSE s[m]]
  <2>2. n \in 0..VcpuIterations /\ n # n + 1 /\ 0 \in 0..VcpuIterations
    BY <1>2, VConstants
  <2>3. u[n + 1] = u[n] + e
    BY <1>2, <2>2, Zenon
  <2>4. u[0] = 0
    BY <1>2, <2>1, <2>2, Zenon DEF VPartial
  <2>5. ASSUME NEW q \in 1..n
        PROVE  u[q] = u[q - 1] + VElapsed[q]
    <3>1. q \in 0..VcpuIterations /\ q - 1 \in 0..VcpuIterations /\ q # n + 1 /\ q - 1 # n + 1
      BY <1>2, <2>2, VConstants
    <3>2. u[q] = s[q] /\ u[q - 1] = s[q - 1]
      BY <3>1, Zenon
    <3> QED
      BY <2>1, <3>2, Zenon DEF VPartial
  <2>6. DOMAIN u = 0..VcpuIterations
    BY Zenon
  <2> HIDE DEF u
  <2>7. VPartial(u, n)
    BY <2>4, <2>5, Zenon DEF VPartial
  <2> QED
    BY <1>3, <2>3, <2>6, <2>7, Zenon
<1>5. ASSUME NEW s, VPartial(s, n + 1)'
      PROVE  r'.complete_total = s[n + 1]
  <2>1. VPartial(s, n) /\ s[n + 1] = s[n] + e
    BY <1>3, <1>5, Zenon
  <2>2. r.complete_total = s[n]
    BY <2>1, Zenon DEF VTotal
  <2> QED
    BY <2>1, <2>2, Zenon DEF e
<1> QED
  BY <1>4, <1>5, Zenon DEF VTotal

\* The cardinality in Vcpu is that of the library.
LEMMA VCardinality == \A X : G!Cardinality(X) = Cardinality(X)
BY DEF G!Cardinality, Cardinality

\* The sum of the kept samples with one more.
LEMMA VAddsBetween ==
  ASSUME VDataOK, VFieldsOK, VFieldsOK', NEW n \in Nat, g_i[1] = n + 1,
         IF n = 0 THEN r.clipped_total = 0 /\ r.n_anomalies = 0 ELSE VBetween(n),
         VAdded(r.start, g_start[1], r'.start), VAdded(r.end, g_end[1], r'.end),
         IF G!guest_bm_cycle_counter_anomaly_detected(1, g_end[1] - g_start[1])
         THEN r'.n_anomalies = r.n_anomalies + 1 /\ r'.clipped_total = r.clipped_total
         ELSE /\ r'.n_anomalies = r.n_anomalies
              /\ r'.clipped_total = r.clipped_total + (g_end[1] - g_start[1])
  PROVE  VBetween(n + 1)'
<1> DEFINE e == g_end[1] - g_start[1]
           anomaly == G!guest_bm_cycle_counter_anomaly_detected(1, e)
           a == r.n_anomalies
           t == r.clipped_total
<1>1. /\ n + 1 \in VIteration
      /\ VElapsed \in [VIteration -> Int] /\ VElapsed' \in [VIteration -> Int]
      /\ VElapsed'[n + 1] = e
      /\ \A q \in 1..n : VElapsed'[q] = VElapsed[q]
  BY VAddsSample, Zenon
<1>2. VKeptUpTo(n + 1)' = IF anomaly THEN VKeptUpTo(n) ELSE VKeptUpTo(n) \cup {n + 1}
  BY VAddsKept, Zenon
<1>3. a \in Nat /\ t \in Int /\ r'.n_anomalies \in Nat /\ r'.clipped_total \in Int
  BY Zenon DEF VFieldsOK
<1>4. IF anomaly THEN r'.n_anomalies = a + 1 /\ r'.clipped_total = t
      ELSE r'.n_anomalies = a /\ r'.clipped_total = t + e
  BY Zenon
<1>5. anomaly => n # 0
  <2>1. n = 0 => ~(g_i[1] > 1)
    OBVIOUS
  <2> QED
    BY <2>1, Zenon DEF G!guest_bm_cycle_counter_anomaly_detected
<1>6. \A q \in VKeptUpTo(n) : q \in 1..n /\ q \in VIteration
  <2>1. \A q \in 1..n : q \in VIteration
    BY <1>1, VConstants DEF VIteration
  <2> QED
    BY <2>1, Zenon DEF VKeptUpTo
<1>7. e \in Int
  BY <1>1, Zenon
<1> HIDE DEF e, anomaly, a, t
<1>8. n # 0 => /\ a < n
               /\ \E q \in VKeptUpTo(n) : VElapsed[q] * (n - a) <= t
               /\ \E q \in VKeptUpTo(n) : VElapsed[q] * (n - a) >= t
  BY Zenon DEF VBetween, a, t
<1>9. CASE anomaly
  <2>1. a < n /\ r'.n_anomalies = a + 1 /\ r'.clipped_total = t /\ VKeptUpTo(n + 1)' = VKeptUpTo(n)
    BY <1>2, <1>4, <1>5, <1>8, <1>9, Zenon
  <2>2. (n + 1) - r'.n_anomalies = n - a /\ r'.n_anomalies < n + 1
    BY <1>3, <2>1
  <2>3. \A q \in VKeptUpTo(n) : VElapsed'[q] = VElapsed[q]
    BY <1>1, <1>6, Zenon
  <2> QED
    BY <1>5, <1>8, <1>9, <2>1, <2>2, <2>3, Zenon DEF VBetween
<1>10. CASE ~anomaly
  <2>1. /\ r'.n_anomalies = a /\ r'.clipped_total = t + e
        /\ VKeptUpTo(n + 1)' = VKeptUpTo(n) \cup {n + 1}
    BY <1>2, <1>4, <1>10, Zenon
  <2>2. CASE n = 0
    <3>1. a = 0 /\ t = 0
      BY <2>2, Zenon DEF a, t
    <3>2. /\ r'.n_anomalies < n + 1
          /\ e * ((n + 1) - r'.n_anomalies) = r'.clipped_total
      BY <1>3, <1>7, <2>1, <2>2, <3>1
    <3>3. e * ((n + 1) - r'.n_anomalies) <= r'.clipped_total
          /\ e * ((n + 1) - r'.n_anomalies) >= r'.clipped_total
      BY <1>3, <3>2
    <3>4. n + 1 \in VKeptUpTo(n + 1)'
      BY <2>1, Zenon
    <3> QED
      BY <1>1, <3>2, <3>3, <3>4, Zenon DEF VBetween
  <2>3. CASE n # 0
    <3> DEFINE c == n - a
    <3>1. c \in Nat /\ a < n /\ (n + 1) - r'.n_anomalies = c + 1 /\ r'.n_anomalies < n + 1
      BY <1>3, <1>8, <2>1, <2>3
    <3>2. PICK l \in VKeptUpTo(n) : VElapsed[l] * c <= t
      BY <1>8, <2>3, Zenon
    <3>3. PICK h \in VKeptUpTo(n) : VElapsed[h] * c >= t
      BY <1>8, <2>3, Zenon
    <3>4. /\ VElapsed[l] \in Int /\ VElapsed'[l] = VElapsed[l]
          /\ VElapsed[h] \in Int /\ VElapsed'[h] = VElapsed[h]
      BY <1>1, <1>6, Zenon
    <3> HIDE DEF c
    <3>5. VElapsed[l] * (c + 1) <= t + e \/ e * (c + 1) <= t + e
      BY <1>3, <1>7, <3>1, <3>2, <3>4, VLower, Zenon
    <3>6. VElapsed[h] * (c + 1) >= t + e \/ e * (c + 1) >= t + e
      BY <1>3, <1>7, <3>1, <3>3, <3>4, VUpper, Zenon
    <3>7. /\ l \in VKeptUpTo(n + 1)' /\ h \in VKeptUpTo(n + 1)'
          /\ n + 1 \in VKeptUpTo(n + 1)'
      BY <2>1, Zenon
    <3>8. \E q \in VKeptUpTo(n + 1)' : VElapsed'[q] * ((n + 1) - r'.n_anomalies) <= r'.clipped_total
      BY <1>1, <2>1, <3>1, <3>4, <3>5, <3>7, Zenon
    <3>9. \E q \in VKeptUpTo(n + 1)' : VElapsed'[q] * ((n + 1) - r'.n_anomalies) >= r'.clipped_total
      BY <1>1, <2>1, <3>1, <3>4, <3>6, <3>7, Zenon
    <3> QED
      BY <3>1, <3>8, <3>9, Zenon DEF VBetween
  <2> QED
    BY <2>2, <2>3, Zenon
<1> QED
  BY <1>9, <1>10, Zenon

\* A step that keeps the results and does not enter an iteration or the report.
LEMMA VAveragesStay ==
  ASSUME VAverages, r' = r,
         \/ g_i' = g_i /\ (VCounting' => VCounting)
         \/ ~VCounting',
         g_pc'[1] # "report" \/ g_pc'[1] = g_pc[1]
  PROVE  VAverages'
<1>1. VElapsed' = VElapsed
  BY Zenon DEF VElapsed, VIteration
<1>2. \A q : VKeeps(q)' <=> VKeeps(q)
  BY <1>1, Zenon DEF VKeeps
<1>3. \A n : VKeptUpTo(n)' = VKeptUpTo(n)
  BY <1>2, Zenon DEF VKeptUpTo
<1>4. \A n, s : VPartial(s, n)' <=> VPartial(s, n)
  BY <1>1, Zenon DEF VPartial
<1>5. \A n : VSums(n)' <=> VSums(n)
  BY <1>1, <1>3, <1>4, Zenon DEF VSums, VBetween, VTotal
<1>6. VFieldsOK' <=> VFieldsOK
  BY Zenon DEF VFieldsOK
<1> QED
  BY <1>5, <1>6, Zenon DEF VAverages

INSTANCE FiniteSetTheorems

\* The kept samples are finitely many, and numbered.
LEMMA VKeptIsFinite ==
  ASSUME NEW n \in Nat
  PROVE  IsFiniteSet(VKeptUpTo(n)) /\ VKeptUpTo(n) \subseteq 1..n
<1>1. IsFiniteSet(1..n)
  BY FS_Interval
<1>2. VKeptUpTo(n) \subseteq 1..n
  BY Zenon DEF VKeptUpTo
<1> QED
  BY <1>1, <1>2, FS_Subset, Zenon

\* One more sample is counted.
LEMMA VAddsToSums ==
  ASSUME VDataOK, VFieldsOK, NEW n \in Nat, g_i[1] = n + 1, VSums(n),
         NEW x, x = G!Counted(1, g_end[1] - g_start[1]), r' = x \/ r' = G!Averaged(x)
  PROVE  VSums(n + 1)'
<1> DEFINE e == g_end[1] - g_start[1]
           anomaly == G!guest_bm_cycle_counter_anomaly_detected(1, e)
<1>1. VAdded(r.start, g_start[1], r'.start) /\ VAdded(r.end, g_end[1], r'.end)
  BY VCounts, Zenon
<1>2. /\ VFieldsOK'
      /\ r'.complete_total = r.complete_total + e
      /\ IF anomaly
         THEN r'.n_anomalies = r.n_anomalies + 1 /\ r'.clipped_total = r.clipped_total
         ELSE r'.n_anomalies = r.n_anomalies /\ r'.clipped_total = r.clipped_total + e
  BY VAddsFields, Zenon
<1>3. VKeptUpTo(n + 1)' = IF anomaly THEN VKeptUpTo(n) ELSE VKeptUpTo(n) \cup {n + 1}
  BY <1>1, VAddsKept, Zenon
<1>4. VBetween(n + 1)'
  BY <1>1, <1>2, VAddsBetween, Zenon DEF VSums
<1>5. VTotal(n + 1)'
  BY <1>1, <1>2, VAddsTotal, Zenon DEF VSums
<1>6. r'.n_anomalies + Cardinality(VKeptUpTo(n + 1)') = n + 1
  <2> DEFINE K == VKeptUpTo(n)
  <2>1. IsFiniteSet(K) /\ n + 1 \notin K
    BY VKeptIsFinite
  <2> HIDE DEF K
  <2>2. Cardinality(K) \in Nat /\ Cardinality(K \cup {n + 1}) = Cardinality(K) + 1
    BY <2>1, FS_CardinalityType, FS_AddElement, Zenon
  <2>3. r.n_anomalies \in Nat /\ r.n_anomalies + Cardinality(K) = n
    BY Zenon DEF VSums, VFieldsOK, K
  <2> HIDE DEF anomaly, e
  <2>4. CASE anomaly
    <3>1. r'.n_anomalies = r.n_anomalies + 1 /\ VKeptUpTo(n + 1)' = K
      BY <1>2, <1>3, <2>4, Zenon DEF K
    <3> QED
      BY <2>2, <2>3, <3>1
  <2>5. CASE ~anomaly
    <3>1. r'.n_anomalies = r.n_anomalies /\ VKeptUpTo(n + 1)' = K \cup {n + 1}
      BY <1>2, <1>3, <2>5, Zenon DEF K
    <3>2. Cardinality(VKeptUpTo(n + 1)') = Cardinality(K) + 1
      BY <2>2, <3>1, Zenon
    <3> QED
      BY <2>2, <2>3, <3>1, <3>2
  <2> QED
    BY <2>4, <2>5, Zenon
<1>7. n + 1 # 0
  OBVIOUS
<1> QED
  BY <1>4, <1>5, <1>6, <1>7, Zenon DEF VSums

\* No sample has been taken yet.
LEMMA VNoSamples == r = G!NoResults => VFieldsOK /\ VSums(0)
<1> SUFFICES ASSUME r = G!NoResults PROVE VFieldsOK /\ VSums(0)
  BY Zenon
<1>1. VFieldsOK
  BY DEF VFieldsOK, G!NoResults
<1>2. r.clipped_total = 0 /\ r.complete_total = 0 /\ r.n_anomalies = 0
  BY DEF G!NoResults
<1>3. 1..0 = {}
  OBVIOUS
<1>4. VKeptUpTo(0) = {}
  BY <1>3, Zenon DEF VKeptUpTo
<1>5. r.n_anomalies + Cardinality(VKeptUpTo(0)) = 0
  <2>1. Cardinality(VKeptUpTo(0)) = 0
    BY <1>4, FS_EmptySet, Zenon
  <2> QED
    BY <1>2, <2>1
<1>6. \A s : VPartial(s, 0) <=> s[0] = 0
  BY <1>3, Zenon DEF VPartial
<1>7. \E s : DOMAIN s = 0..VcpuIterations /\ VPartial(s, 0)
  <2> DEFINE u == [m \in 0..VcpuIterations |-> 0]
  <2>1. 0 \in 0..VcpuIterations
    BY VConstants
  <2>2. DOMAIN u = 0..VcpuIterations /\ u[0] = 0
    BY <2>1, Zenon
  <2> QED
    BY <1>6, <2>2, Zenon
<1>8. VTotal(0)
  BY <1>2, <1>6, <1>7, Zenon DEF VTotal
<1> QED
  BY <1>1, <1>2, <1>5, <1>8, Zenon DEF VSums

\* guest_run_bm counts a sample.
LEMMA VAveragesCount ==
  ASSUME VAverages, VDataOK, g_pc[1] = "account",
         NEW x, x = G!Counted(1, g_end[1] - g_start[1]),
         \/ /\ g_i[1] < VcpuIterations /\ g_i'[1] = g_i[1] + 1 /\ g_pc'[1] = "iter"
            /\ r' = x
         \/ g_i[1] = VcpuIterations /\ g_pc'[1] = "report" /\ r' = G!Averaged(x)
  PROVE  VAverages'
<1>1. PICK n : n = g_i[1] - 1
  BY Zenon
<1>2. g_i[1] \in VIteration
  BY Zenon DEF VDataOK
<1>3. n \in Nat /\ g_i[1] = n + 1 /\ (g_i[1] + 1) - 1 = n + 1
  BY <1>1, <1>2, VConstants DEF VIteration
<1>4. VFieldsOK /\ VSums(n)
  BY <1>1, Zenon DEF VAverages, VCounting
<1>5. VSums(n + 1)' /\ VFieldsOK'
  <2>1. r' = x \/ r' = G!Averaged(x)
    BY Zenon
  <2> QED
    BY <1>3, <1>4, <2>1, VAddsToSums, VAddsFields, Zenon
<1>6. CASE /\ g_i[1] < VcpuIterations /\ g_i'[1] = g_i[1] + 1 /\ g_pc'[1] = "iter"
           /\ r' = x
  <2>1. g_i'[1] - 1 = n + 1 /\ g_pc'[1] # "report"
    BY <1>3, <1>6
  <2> QED
    BY <1>5, <2>1, Zenon DEF VAverages
<1>7. CASE g_i[1] = VcpuIterations /\ g_pc'[1] = "report" /\ r' = G!Averaged(x)
  <2>1. r'.clipped_avg = r'.clipped_total \div (VcpuIterations - r'.n_anomalies)
    BY <1>4, <1>7, VAddsFields, Zenon
  <2>2. ~VCounting' /\ VcpuIterations = n + 1
    BY <1>3, <1>7, Zenon DEF VCounting
  <2> QED
    BY <1>5, <1>7, <2>1, <2>2, Zenon DEF VAverages
<1> QED
  BY <1>6, <1>7, Zenon

\* Every step of the application preserves the invariant about the averages.
LEMMA VAveragesStep ==
  ASSUME VInv, VAverages, G!Next
  PROVE  VAverages'
<1>1. VDataOK /\ DOMAIN g_pc = {0, 1} /\ g_i \in [{1} -> VIteration]
  BY Zenon DEF VInv, VTypeOK, VThreadsOK, VDataOK
<1>2. 0 # 1
  OBVIOUS
<1>3. ASSUME NEW a, NEW l, G!Step(1, a, l)
      PROVE  g_pc[1] = a /\ g_pc'[1] = l
  BY <1>1, <1>3, Zenon DEF G!Step
<1>4. CASE G!VmmStep
  <2>1. ASSUME NEW a, NEW l, G!Step(0, a, l)
        PROVE  g_pc'[1] = g_pc[1]
    BY <1>1, <1>2, <2>1, Zenon DEF G!Step
  <2>2. g_pc'[1] = g_pc[1]
    BY <1>4, <2>1, VConstants, Zenon DEF G!VmmStep, G!Setup, G!guest_exec, G!Receive,
       G!SaveCaller, G!vmm_handle, G!SendReply, G!Finish
  <2>3. r' = r /\ g_i' = g_i
    BY <1>4, Zenon DEF G!VmmStep, G!guestvars
  <2> QED
    BY <2>2, <2>3, VAveragesStay, Zenon DEF VCounting
<1>5. CASE G!Ended
  BY <1>5, VAveragesStay, Zenon DEF G!Ended, G!vars, G!guestvars, VCounting
<1>6. CASE G!GuestStep(1)
  <2>1. CASE G!guest_main(1)
    <3>1. r' = r /\ g_pc'[1] \in {"check", "run", "hang", "fail", "unreachable"}
      BY <1>3, <2>1, Zenon DEF G!guest_main
    <3> QED
      BY <3>1, VAveragesStay, Zenon DEF VCounting
  <2>2. CASE G!El1Exception(1)
    <3>1. r' = r /\ g_pc'[1] = "hang"
      BY <1>3, <2>2, Zenon DEF G!El1Exception
    <3> QED
      BY <3>1, VAveragesStay, Zenon DEF VCounting
  <2>3. CASE G!Sel4Fault(1)
    <3>1. r' = r /\ g_pc'[1] = "faulted"
      BY <1>3, <2>3, Zenon DEF G!Sel4Fault
    <3> QED
      BY <3>1, VAveragesStay, Zenon DEF VCounting
  <2>4. CASE G!guest_report_bm_results(1)
    <3>1. r' = r /\ g_pc'[1] \in {"deep", "run", "exit"}
      <4>1. CASE G!Step(1, "report", "deep") /\ r' = r
        BY <1>3, <4>1, Zenon
      <4>2. CASE /\ G!Step(1, "deep", CASE g_i[1] < VcpuIterations -> "deep"
                                        [] g_i[1] = VcpuIterations /\ bm[1] < 5 -> "run"
                                        [] g_i[1] = VcpuIterations /\ bm[1] = 5 -> "exit")
                 /\ r' = r
        <5>1. \/ g_i[1] < VcpuIterations
              \/ g_i[1] = VcpuIterations /\ bm[1] < 5
              \/ g_i[1] = VcpuIterations /\ bm[1] = 5
          <6>1. g_i[1] \in VIteration /\ bm[1] \in 1..5
            BY <1>1, VSample, Zenon
          <6> QED
            BY <6>1, VConstants DEF VIteration
        <5> QED
          BY <1>3, <4>2, <5>1, Zenon
      <4> QED
        BY <2>4, <4>1, <4>2, Zenon DEF G!guest_report_bm_results
    <3> QED
      BY <3>1, VAveragesStay, Zenon DEF VCounting
  <2>5. CASE /\ G!Step(1, "run", "iter") /\ r' = G!NoResults
             /\ g_i' = [g_i EXCEPT ![1] = 1]
    <3>1. VFieldsOK' /\ VSums(0)'
      <4>1. (r = G!NoResults)'
        BY <2>5, Zenon DEF G!NoResults, G!Iteration
      <4>2. (r = G!NoResults => VFieldsOK /\ VSums(0))'
        BY VNoSamples, PTL
      <4> QED
        BY <4>1, <4>2, Zenon
    <3>2. g_pc'[1] = "iter" /\ g_i'[1] = 1 /\ 1 - 1 = 0
      BY <1>1, <1>3, <2>5
    <3> QED
      BY <3>1, <3>2, Zenon DEF VAverages
  <2>6. CASE \/ G!PrepareStamp(1) \/ G!NullKcall(1) \/ G!ReadLog(1) \/ G!StampCall(1)
             \/ G!StampAnswer(1)
    <3>1. r' = r /\ g_i' = g_i
      BY <2>6, Zenon DEF G!PrepareStamp, G!NullKcall, G!ReadLog, G!StampCall, G!StampAnswer,
         G!guestvars
    <3>2. g_pc[1] \in {"iter", "reset", "stamp", "log", "answered"}
      BY <1>3, <2>6, Zenon DEF G!PrepareStamp, G!NullKcall, G!ReadLog, G!StampCall,
         G!StampAnswer
    <3>3. g_pc'[1] # "report"
      <4>1. CASE G!NullKcall(1)
        <5>1. g_pc'[1] = IF G!UsesLog(bm[1]) THEN "log" ELSE "account"
          BY <1>3, <4>1, Zenon DEF G!NullKcall
        <5> QED
          BY <5>1, Zenon
      <4>2. CASE G!PrepareStamp(1)
        <5>1. g_pc'[1] \in {"reset", "stamp"}
          BY <1>3, <4>2, Zenon DEF G!PrepareStamp
        <5> QED
          BY <5>1, Zenon
      <4>3. CASE G!ReadLog(1) \/ G!StampCall(1) \/ G!StampAnswer(1)
        <5>1. g_pc'[1] \in {"answered", "account"}
          BY <1>3, <4>3, Zenon DEF G!ReadLog, G!StampCall, G!StampAnswer
        <5> QED
          BY <5>1, Zenon
      <4> QED
        BY <2>6, <4>1, <4>2, <4>3, Zenon
    <3> QED
      BY <3>1, <3>2, <3>3, VAveragesStay, Zenon DEF VCounting
  <2>7. CASE /\ G!Step(1, "account", IF g_i[1] < VcpuIterations THEN "iter" ELSE "report")
             /\ LET x == G!Counted(1, g_end[1] - g_start[1])
                IN  r' = IF g_i[1] < VcpuIterations THEN x ELSE G!Averaged(x)
             /\ g_i' = [g_i EXCEPT ![1] = IF @ < VcpuIterations THEN @ + 1 ELSE 1]
    <3>1. g_pc[1] = "account"
          /\ g_pc'[1] = IF g_i[1] < VcpuIterations THEN "iter" ELSE "report"
      BY <1>3, <2>7, Zenon
    <3>2. g_i'[1] = IF g_i[1] < VcpuIterations THEN g_i[1] + 1 ELSE 1
      BY <1>1, <2>7, Zenon
    <3>3. g_i[1] < VcpuIterations \/ (~(g_i[1] < VcpuIterations) /\ g_i[1] = VcpuIterations)
      <4>1. g_i[1] \in VIteration
        BY <1>1, Zenon
      <4> QED
        BY <4>1, VConstants DEF VIteration
    <3>4. \E x : /\ x = G!Counted(1, g_end[1] - g_start[1])
                 /\ r' = IF g_i[1] < VcpuIterations THEN x ELSE G!Averaged(x)
      BY <2>7, Zenon
    <3> QED
      BY <1>1, <3>1, <3>2, <3>3, <3>4, VAveragesCount, Zenon
  <2> QED
    BY <1>6, <2>1, <2>2, <2>3, <2>4, <2>5, <2>6, <2>7, Zenon
       DEF G!GuestStep, G!guest_run_bm
<1> QED
  BY <1>4, <1>5, <1>6, VConstants, Zenon DEF G!Next

\* The averages that guest_run_bm reports exist and mean what they say: the clipped one
\* divides by a positive number and lies among the samples that are no anomalies, the
\* total is the sum of all, whatever the drift, the threshold and the number of iterations.
THEOREM AveragesSound == MCSpec => []AveragesAreSound
<1>1. MCInit => VAverages
  <2> SUFFICES ASSUME MCInit PROVE VAverages
    BY Zenon
  <2>1. g_pc = [t \in {0, 1} |-> IF t = 0 THEN "setup" ELSE "guest_main"] /\ r = G!NoResults
    BY VConstants, Zenon DEF MCInit, G!Init
  <2>2. 0 # 1
    OBVIOUS
  <2>3. g_pc[1] = "guest_main"
    BY <2>1, <2>2, Zenon
  <2>4. VFieldsOK
    BY <2>1, VNoSamples, Zenon
  <2> QED
    BY <2>3, <2>4, Zenon DEF VAverages, VCounting
<1>2. VInv /\ VAverages /\ [MCNext]_allvars => VAverages'
  <2>1. VAverages /\ UNCHANGED vcpuvars => VAverages'
    BY VAveragesStay, Zenon DEF vcpuvars, VCounting
  <2> QED
    BY <2>1, VAveragesStep, Zenon DEF MCNext, allvars
<1>3. VInv /\ VAverages => AveragesAreSound
  <2> SUFFICES ASSUME VInv, VAverages PROVE AveragesAreSound
    BY Zenon
  <2> DEFINE kept == {q \in VIteration :
                        q = 1 \/ VElapsed[q] - VElapsed[q - 1] < VcpuThreshold}
             total == CHOOSE t : t = [n \in 0..VcpuIterations |->
                                        IF n = 0 THEN 0 ELSE t[n - 1] + VElapsed[n]]
             reported == /\ r.n_anomalies < VcpuIterations
                         /\ r.n_anomalies + Cardinality(kept) = VcpuIterations
                         /\ \E q \in kept : VElapsed[q] <= r.clipped_avg
                         /\ \E q \in kept : VElapsed[q] >= r.clipped_avg
                         /\ r.complete_total = total[VcpuIterations]
  <2>1. ASSUME g_pc[1] = "report" PROVE reported
    <3>1. /\ VSums(VcpuIterations) /\ r.n_anomalies \in Nat /\ r.clipped_total \in Int
          /\ r.clipped_avg = r.clipped_total \div (VcpuIterations - r.n_anomalies)
      BY <2>1, Zenon DEF VAverages, VFieldsOK
    <3>2. VcpuIterations \in Nat /\ VcpuIterations # 0
      BY VConstants
    <3>3. kept = VKeptUpTo(VcpuIterations)
      BY Zenon DEF VKeptUpTo, VKeeps, VIteration
    <3>4. VBetween(VcpuIterations) /\ VTotal(VcpuIterations)
          /\ r.n_anomalies + Cardinality(kept) = VcpuIterations
      BY <3>1, <3>2, <3>3, Zenon DEF VSums
    <3> DEFINE c == VcpuIterations - r.n_anomalies
    <3>5. r.n_anomalies < VcpuIterations /\ c \in Nat /\ c > 0
      <4>1. r.n_anomalies < VcpuIterations
        BY <3>4, Zenon DEF VBetween
      <4> QED
        BY <3>1, <3>2, <4>1
    <3>6. \A q \in kept : VElapsed[q] \in Int
      <4>1. \A q \in VIteration : r.end[q] \in Int /\ r.start[q] \in Int
        BY Zenon DEF VInv, VTypeOK, VDataOK, VResultsOK
      <4>2. \A q \in VIteration : r.end[q] - r.start[q] \in Int
        BY <4>1
      <4> QED
        BY <4>2, Zenon DEF VElapsed
    <3>7. \E q \in kept : VElapsed[q] * c <= r.clipped_total
      BY <3>3, <3>4, Zenon DEF VBetween
    <3>8. \E q \in kept : VElapsed[q] * c >= r.clipped_total
      BY <3>3, <3>4, Zenon DEF VBetween
    <3> HIDE DEF c, kept
    <3>9. \E q \in kept : VElapsed[q] <= r.clipped_total \div c
      BY <3>1, <3>5, <3>6, <3>7, VQuotient, Zenon
    <3>10. \E q \in kept : VElapsed[q] >= r.clipped_total \div c
      BY <3>1, <3>5, <3>6, <3>8, VQuotient, Zenon
    <3>11. r.complete_total = total[VcpuIterations]
      <4>1. PICK s : DOMAIN s = 0..VcpuIterations /\ VPartial(s, VcpuIterations)
        BY <3>4, Zenon DEF VTotal
      <4>2. \A n \in 0..VcpuIterations : n = 0 \/ (n # 0 /\ n \in 1..VcpuIterations)
        BY <3>2
      <4> DEFINE u == [n \in 0..VcpuIterations |-> s[n]]
      <4>3. u = [n \in 0..VcpuIterations |-> IF n = 0 THEN 0 ELSE u[n - 1] + VElapsed[n]]
        <5>1. ASSUME NEW n \in 0..VcpuIterations
              PROVE  u[n] = IF n = 0 THEN 0 ELSE u[n - 1] + VElapsed[n]
          <6>1. n # 0 => n - 1 \in 0..VcpuIterations
            BY <3>2
          <6> QED
            BY <4>1, <4>2, <6>1, Zenon DEF VPartial
        <5> QED
          BY <5>1, Zenon
      <4> HIDE DEF u
      <4>4. total = [n \in 0..VcpuIterations |->
                       IF n = 0 THEN 0 ELSE total[n - 1] + VElapsed[n]]
        BY <4>3, Zenon
      <4> HIDE DEF total
      <4>5. 0 \in 0..VcpuIterations /\ \A n \in 1..VcpuIterations : n \in 0..VcpuIterations /\ n # 0
        BY <3>2
      <4>6. VPartial(total, VcpuIterations)
        <5>1. total[0] = 0
          BY <4>4, <4>5, Zenon
        <5>2. ASSUME NEW n \in 1..VcpuIterations
              PROVE  total[n] = total[n - 1] + VElapsed[n]
          BY <4>4, <4>5, Zenon
        <5> QED
          BY <5>1, <5>2, Zenon DEF VPartial
      <4> QED
        BY <3>4, <4>6, Zenon DEF VTotal
    <3> HIDE DEF total
    <3> QED
      BY <3>1, <3>4, <3>5, <3>9, <3>10, <3>11, Zenon DEF c
  <2>2. G!Guest = {1}
    BY VConstants, Zenon
  <2> QED
    BY <2>1, <2>2, VCardinality, Zenon DEF AveragesAreSound, G!AveragesAreSound, VElapsed,
       VIteration, G!Iteration
<1> QED
  BY <1>1, <1>2, <1>3, VcpuInvariance, PTL DEF MCSpec

=============================================================================
