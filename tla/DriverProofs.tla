---------------------------- MODULE DriverProofs ----------------------------
(***************************************************************************)
(* Proofs about the driver and the process it has started, for every list  *)
(* of benchmarks, number of iterations and number of timer frames; and     *)
(* lemmas about the statistics that the driver computes with math.c and    *)
(* processing.c, for every series of samples and every width of a word.    *)
(*                                                                         *)
(* What a recursive function of Statistics computes is proved by the       *)
(* least-number principle: of the places where a claim fails there would   *)
(* be a first.                                                             *)
(***************************************************************************)
EXTENDS Driver, Statistics, TLAPS

-----------------------------------------------------------------------------
(* The inductive invariant.                                                *)

\* The driver's labels without a process, with one, and with one that has stopped.
Between == {"next", "launch", "start", "process", "add", "end", "fatal"}
Serving == {"recv", "serve"}
Reclaiming == {"unmap", "revoke", "destroy"}

\* What a process may have sent at each of its labels.
CallInv ==
  \/ app = "none" /\ call = NoCall
  \/ app \in {"get_env", "main"} /\ call = NoCall /\ utspace = "slab"
  \/ app = "timer" /\ call \in {NoCall, Rpc(ALLOCATE)} /\ utspace = "parent"
  \/ app = "finished" /\ call = NoCall
  \/ app = "finished" /\ call = Rpc(FREE) /\ utspace = "parent" /\ frames > 0
  \/ app = "gone" /\ call = Exit(code)
  \/ app = "faulted" /\ call.label = VMFault /\ call.action = "none"

\* What the process holds of the driver's memory.  Only with EXIT_FAILURE does it
\* leave something behind.
FramesInv ==
  /\ frames \in Nat
  /\ code \in {EXIT_SUCCESS, EXIT_FAILURE}
  /\ app \in {"get_env", "timer"} => ~timer
  /\ app = "get_env" => frames = 0
  /\ app = "main" /\ ~timer => frames = 0
  /\ app = "finished" /\ code = EXIT_SUCCESS =>
       page = "complete" /\ (~timer => frames = 0)
  /\ app = "gone" /\ code = EXIT_SUCCESS => page = "complete" /\ frames = 0

\* The driver's view.
DriverInv ==
  /\ pc \in Between \cup Serving \cup Reclaiming
  /\ pc \in Between => app = "none" /\ ~derived /\ ~shared
  /\ pc \in {"next", "launch", "start", "add", "end"} => held = 0
  /\ pc \in Serving => app # "none" /\ held = frames
  /\ pc = "serve" => call \in {Rpc(ALLOCATE), Rpc(FREE)}
  /\ pc \in Reclaiming => app \in {"gone", "faulted"} /\ held = frames
  /\ pc \in Reclaiming /\ result = EXIT_SUCCESS => app = "gone" /\ code = EXIT_SUCCESS
  /\ pc \in {"revoke", "destroy"} => ~shared
  /\ pc = "destroy" => ~derived
  /\ pc = "process" /\ result = EXIT_SUCCESS => page = "complete" /\ held = 0

IInv == CallInv /\ FramesInv /\ DriverInv

-----------------------------------------------------------------------------
(* Messages.                                                               *)

\* The messages of a process are told apart by their label, their first register and
\* what they ask for.
LEMMA Messages ==
  /\ NoCall.label = "none" /\ NoCall.action = "none"
  /\ \A a : Rpc(a).label = NullFault /\ Rpc(a).mr0 = PROTOBUF_RPC /\ Rpc(a).action = a
  /\ \A c : Exit(c).label = NullFault /\ Exit(c).mr0 = c /\ Exit(c).action = "none"
  /\ \A m : Fault(m).label = VMFault /\ Fault(m).action = "none"
  /\ NullFault # VMFault /\ "none" \notin {NullFault, VMFault}
  /\ ALLOCATE # FREE /\ "none" \notin {ALLOCATE, FREE}
BY DEF NoCall, Rpc, Exit, Fault, NullFault, VMFault, ALLOCATE, FREE

\* The values of the first register that the driver tells apart.
LEMMA Codes ==
  EXIT_SUCCESS # EXIT_FAILURE /\ PROTOBUF_RPC \notin {EXIT_SUCCESS, EXIT_FAILURE}
BY DEF EXIT_SUCCESS, EXIT_FAILURE, PROTOBUF_RPC

-----------------------------------------------------------------------------
(* Every step preserves the invariant.                                     *)

\* A step of the process.  It is not taken while the driver reclaims or has nothing
\* started, because the process then waits for good or does not exist.
LEMMA AppInv ==
  ASSUME IInv, AppStep, UNCHANGED dvars
  PROVE  IInv'
<1> USE Messages, Codes DEF dvars
<1>1. /\ app \in {"get_env", "timer", "main", "finished"} /\ call = NoCall
      /\ pc = "recv"
  BY DEF IInv, CallInv, DriverInv, AppStep, benchmark_get_env, benchmark_init_timer,
     RunBenchmark, Leave, AppFault, benchmark_finished, Ready, Between, Serving, Reclaiming
<1>2. CASE benchmark_get_env
  BY <1>1, <1>2 DEF IInv, CallInv, FramesInv, DriverInv, benchmark_get_env, Ready, Between,
     Serving, Reclaiming
<1>3. CASE benchmark_init_timer
  BY <1>1, <1>3, TimerFramesAssumption
  DEF IInv, CallInv, FramesInv, DriverInv, benchmark_init_timer, Ready, Between, Serving,
      Reclaiming
<1>4. CASE RunBenchmark
  BY <1>1, <1>4 DEF IInv, CallInv, FramesInv, DriverInv, RunBenchmark, Ready, Between,
     Serving, Reclaiming
<1>5. CASE Leave
  BY <1>1, <1>5 DEF IInv, CallInv, FramesInv, DriverInv, Leave, Ready, Between, Serving,
     Reclaiming
<1>6. CASE AppFault
  BY <1>1, <1>6 DEF IInv, CallInv, FramesInv, DriverInv, AppFault, Between, Serving,
     Reclaiming
<1>7. CASE benchmark_finished
  BY <1>1, <1>7 DEF IInv, CallInv, FramesInv, DriverInv, benchmark_finished, Ready,
     Between, Serving, Reclaiming
<1> QED
  BY <1>2, <1>3, <1>4, <1>5, <1>6, <1>7 DEF AppStep

\* The driver receives a message: a fault, a request or the exit code.
LEMMA ReceiveInv ==
  ASSUME IInv, Receive
  PROVE  IInv'
<1> USE Messages, Codes
<1>1. UNCHANGED appvars /\ UNCHANGED <<held, shared>> /\ pc = "recv" /\ call # NoCall
  BY DEF Receive
<1>2. CallInv' /\ FramesInv'
  BY <1>1 DEF IInv, CallInv, FramesInv, appvars
<1>3. \/ call \in {Rpc(ALLOCATE), Rpc(FREE)} /\ pc' = "serve"
      \/ app = "gone" /\ pc' = "unmap" /\ result' = code
      \/ app = "faulted" /\ pc' = "unmap" /\ result' = EXIT_FAILURE
  BY <1>1 DEF IInv, CallInv, FramesInv, DriverInv, Receive, Goto, Serving
<1>4. DriverInv'
  BY <1>1, <1>3 DEF IInv, DriverInv, appvars, Between, Serving, Reclaiming
<1> QED
  BY <1>2, <1>4 DEF IInv

\* The driver serves a request and replies.
LEMMA ServeInv ==
  ASSUME IInv, Serve
  PROVE  IInv'
<1> USE Messages, Codes
<1>1. /\ pc = "serve" /\ pc' = "recv" /\ call' = NoCall
      /\ UNCHANGED <<shared, timer, utspace, derived, page, result>>
  BY DEF Serve, Goto, AppReply
<1>2. CASE call = Rpc(ALLOCATE)
  <2>1. app = "timer" /\ utspace = "parent"
    BY <1>2 DEF IInv, CallInv
  <2>2. \/ held' = held + 1 /\ frames' = frames + 1 /\ UNCHANGED <<app, code>>
        \/ held' = held /\ frames' = frames /\ app' = "finished" /\ code' = EXIT_FAILURE
    BY <1>2 DEF Serve, AppReply
  <2> QED
    BY <1>1, <2>1, <2>2 DEF IInv, CallInv, FramesInv, DriverInv, Between, Serving, Reclaiming
<1>3. CASE call = Rpc(FREE)
  <2>1. app = "finished" /\ frames > 0
    BY <1>3 DEF IInv, CallInv
  <2>2. held' = held - 1 /\ frames' = frames - 1 /\ UNCHANGED <<app, code>>
    BY <1>3 DEF Serve, AppReply
  <2> QED
    BY <1>1, <2>1, <2>2 DEF IInv, CallInv, FramesInv, DriverInv, Between, Serving, Reclaiming
<1> QED
  BY <1>1, <1>2, <1>3 DEF IInv, DriverInv

\* The other steps of the driver.
LEMMA DriverStepInv ==
  ASSUME IInv, DriverStep
  PROVE  IInv'
<1> USE Messages, Codes
<1>1. CASE NextBenchmark \/ AddResult \/ DumpOutput
  <2>1. /\ UNCHANGED appvars /\ UNCHANGED <<held, shared>>
        /\ pc \in {"next", "add"} /\ pc' \in {"next", "launch", "end", "fatal"}
    BY <1>1 DEF NextBenchmark, AddResult, DumpOutput, Goto
  <2> QED
    BY <2>1 DEF IInv, CallInv, FramesInv, DriverInv, appvars, Between, Serving, Reclaiming
<1>2. CASE ReserveResults
  BY <1>2 DEF IInv, CallInv, FramesInv, DriverInv, ReserveResults, Goto, Between, Serving,
     Reclaiming
<1>3. CASE StartProcess
  BY <1>3 DEF IInv, CallInv, FramesInv, DriverInv, StartProcess, AppStart, Goto, Between,
     Serving, Reclaiming
<1>4. CASE UnmapShared
  BY <1>4 DEF IInv, CallInv, FramesInv, DriverInv, UnmapShared, appvars, Goto, Between,
     Serving, Reclaiming
<1>5. CASE RevokeUntyped
  BY <1>5 DEF IInv, CallInv, FramesInv, DriverInv, RevokeUntyped, Goto, Between, Serving,
     Reclaiming
<1>6. CASE DestroyProcess
  BY <1>6 DEF IInv, CallInv, FramesInv, DriverInv, DestroyProcess, Goto, Between, Serving,
     Reclaiming
<1>7. CASE ProcessResults
  BY <1>7 DEF IInv, CallInv, FramesInv, DriverInv, ProcessResults, Goto, Between, Serving,
     Reclaiming
<1> QED
  BY <1>1, <1>2, <1>3, <1>4, <1>5, <1>6, <1>7, ReceiveInv, ServeInv DEF DriverStep

\* The invariant holds throughout.
LEMMA Invariance == Spec => []IInv
<1>1. Init => IInv
  BY Codes DEF Init, AppInit, IInv, CallInv, FramesInv, DriverInv, Between, Serving, Reclaiming
<1>2. IInv /\ [Next]_vars => IInv'
  <2> SUFFICES ASSUME IInv, [Next]_vars PROVE IInv'
    OBVIOUS
  <2>1. CASE UNCHANGED vars
    BY <2>1 DEF vars, appvars, IInv, CallInv, FramesInv, DriverInv
  <2> QED
    BY <2>1, DriverStepInv, AppInv DEF Next, Stopped
<1> QED
  BY <1>1, <1>2, PTL DEF Spec

\* Whatever a process does, and whenever it faults, its successor starts in a clean
\* world (run_benchmark's clean-up, and the fatal error after a failed benchmark).
THEOREM SuccessorsStartClean == Spec => []CleanStart
<1>1. IInv => CleanStart
  BY Messages DEF IInv, CallInv, DriverInv, CleanStart, Between
<1> QED
  BY <1>1, Invariance, PTL

\* Only complete results that nobody can change any more are processed.
THEOREM OnlyFinalResults == Spec => []ProcessedResultsAreFinal
<1>1. IInv => ProcessedResultsAreFinal
  BY DEF IInv, DriverInv, ProcessedResultsAreFinal, Between
<1> QED
  BY <1>1, Invariance, PTL

\* What the process frees goes to whoever it came from.
THEOREM FreesAreMatched == Spec => []FreesGoToOwner
<1>1. IInv => FreesGoToOwner
  BY Messages DEF IInv, CallInv, DriverInv, FreesGoToOwner, Between, Serving, Reclaiming
<1> QED
  BY <1>1, Invariance, PTL

INSTANCE WellFoundedInduction

-----------------------------------------------------------------------------
(* Induction over numbers.                                                 *)

\* A set of numbers has a least one.
LEMMA LeastNumber ==
  ASSUME NEW T \in SUBSET Nat, T # {}
  PROVE  \E x \in T : \A y \in T : x <= y
<1>1. \E x \in T : \A y \in T : ~ (<<y, x>> \in OpToRel(<, Nat))
  BY NatLessThanWellFounded, WFMin, Zenon
<1>2. PICK x \in T : \A y \in T : ~ (<<y, x>> \in OpToRel(<, Nat))
  BY <1>1, Zenon
<1>3. \A y \in T : ~(y < x)
  BY <1>2, Zenon DEF OpToRel
<1> QED
  BY <1>3

\* Induction: a set with 0 and with the successors of its members holds all numbers.
LEMMA Counting ==
  ASSUME NEW N \in Nat, NEW T, 0 \in T,
         \A n \in 0..N : n # N /\ n \in T => n + 1 \in T
  PROVE  \A n \in 0..N : n \in T
<1> DEFINE B == {n \in 0..N : n \notin T}
<1> SUFFICES ASSUME B # {} PROVE FALSE
  BY Zenon
<1>1. B \in SUBSET Nat
  OBVIOUS
<1>2. PICK x \in B : \A y \in B : x <= y
  BY <1>1, LeastNumber, Zenon
<1>3. x \in 0..N /\ x \notin T /\ x # 0
  BY <1>2, Zenon
<1>4. x - 1 \in 0..N /\ x - 1 # N /\ (x - 1) + 1 = x /\ ~(x <= x - 1)
  BY <1>3
<1>5. x - 1 \in T
  BY <1>2, <1>4, Zenon
<1> QED
  BY <1>3, <1>4, <1>5, Zenon

\* g is defined by recursion up to N, with values in V.
Recurs(g, N, V, base, step) ==
  /\ g \in [0..N -> V]
  /\ g[0] = base
  /\ \A n \in 1..N : g[n] = step[n][g[n - 1]]

\* A function may be defined by recursion.
LEMMA Recursion ==
  ASSUME NEW N \in Nat, NEW V, NEW base \in V, NEW step \in [1..N -> [V -> V]]
  PROVE  \E g : Recurs(g, N, V, base, step)
<1> DEFINE Upto(g, n) == g[0] = base /\ \A m \in 1..n : g[m] = step[m][g[m - 1]]
           T == {n \in 0..N : \E g \in [0..N -> V] : Upto(g, n)}
<1>1. 0 \in T
  <2>1. [n \in 0..N |-> base] \in [0..N -> V] /\ 0 \in 0..N
    OBVIOUS
  <2>2. Upto([n \in 0..N |-> base], 0)
    OBVIOUS
  <2> QED
    BY <2>1, <2>2, Zenon
<1>2. ASSUME NEW n \in 0..N, n # N, n \in T
      PROVE  n + 1 \in T
  <2>1. PICK g \in [0..N -> V] : Upto(g, n)
    BY <1>2, Zenon
  <2> DEFINE h == [g EXCEPT ![n + 1] = step[n + 1][g[n]]]
  <2>2. n + 1 \in 1..N /\ n + 1 \in 0..N
    BY <1>2
  <2>3. step[n + 1][g[n]] \in V
    BY <2>2
  <2>4. h \in [0..N -> V]
    BY <2>2, <2>3
  <2>5. h[0] = base
    BY <2>1, <2>2
  <2>6. ASSUME NEW m \in 1..n + 1
        PROVE  h[m] = step[m][h[m - 1]]
    <3>1. CASE m = n + 1
      <4>1. m - 1 = n /\ m - 1 # n + 1 /\ m - 1 \in 0..N
        BY <3>1
      <4> QED
        BY <2>2, <3>1, <4>1, Zenon
    <3>2. CASE m # n + 1
      <4>1. m \in 1..n /\ m - 1 # n + 1 /\ m - 1 \in 0..N /\ m \in 0..N
        BY <3>2
      <4> QED
        BY <2>1, <2>2, <3>2, <4>1, Zenon
    <3> QED
      BY <3>1, <3>2
  <2> QED
    BY <2>2, <2>4, <2>5, <2>6, Zenon
<1> HIDE DEF T
<1>3. \A n \in 0..N : n \in T
  BY <1>1, <1>2, Counting, Zenon
<1>4. N \in T
  BY <1>3
<1> QED
  BY <1>4, Zenon DEF T, Recurs

-----------------------------------------------------------------------------
(* Sums.                                                                   *)

\* g adds up the first values of s.
Adds(g, s) == g = [n \in 0..Len(s) |-> IF n = 0 THEN 0 ELSE g[n - 1] + s[n]]

\* The sums of the first values of s.
Sums(s) == CHOOSE g : Adds(g, s)

\* What the recursive definition of a total defines.
LEMMA SumsAre ==
  ASSUME NEW N \in Nat, NEW s \in [1..N -> Int]
  PROVE  /\ Sums(s) \in [0..N -> Int]
         /\ Sums(s)[0] = 0
         /\ \A n \in 1..N : Sums(s)[n] = Sums(s)[n - 1] + s[n]
         /\ Total(s) = Sums(s)[N]
<1>1. Len(s) = N
  OBVIOUS
<1>2. \E g \in [0..N -> Int] : Adds(g, s)
  <2> DEFINE step == [n \in 1..N |-> [v \in Int |-> v + s[n]]]
  <2>1. step \in [1..N -> [Int -> Int]]
    OBVIOUS
  <2>2. PICK g : Recurs(g, N, Int, 0, step)
    <3> HIDE DEF step
    <3>1. \A b \in Int : \E g : Recurs(g, N, Int, b, step)
      BY <2>1, Recursion, Zenon
    <3> QED
      BY <3>1
  <2>9. /\ g \in [0..N -> Int] /\ g[0] = 0
        /\ \A n \in 1..N : g[n] = step[n][g[n - 1]]
    BY <2>2, Zenon DEF Recurs
  <2>3. ASSUME NEW n \in 0..N
        PROVE  g[n] = IF n = 0 THEN 0 ELSE g[n - 1] + s[n]
    <3>1. CASE n = 0
      BY <2>9, <3>1, Zenon
    <3>2. CASE n # 0
      <4>1. n \in 1..N /\ g[n - 1] \in Int
        BY <2>9, <3>2
      <4> QED
        BY <2>9, <3>2, <4>1, Zenon
    <3> QED
      BY <3>1, <3>2
  <2>4. Adds(g, s)
    <3> HIDE DEF step
    <3>1. g = [n \in 0..N |-> g[n]]
      BY <2>9, Zenon
    <3> QED
      BY <1>1, <2>3, <3>1, Zenon DEF Adds
  <2> QED
    BY <2>4, <2>9, Zenon
<1>3. Adds(Sums(s), s)
  BY <1>2, Zenon DEF Sums
<1> DEFINE S == Sums(s)
<1>4. S = [n \in 0..N |-> IF n = 0 THEN 0 ELSE S[n - 1] + s[n]]
  BY <1>1, <1>3, Zenon DEF Adds
<1>5. Total(s) = S[N]
  BY <1>1, Zenon DEF Total, Sums, Adds
<1> HIDE DEF S
<1>6. /\ S[0] = 0
      /\ \A n \in 1..N : S[n] = S[n - 1] + s[n]
  <2>1. \A n \in 0..N : S[n] = IF n = 0 THEN 0 ELSE S[n - 1] + s[n]
    BY <1>4, Zenon
  <2>2. 0 \in 0..N /\ \A n \in 1..N : n \in 0..N /\ n # 0
    OBVIOUS
  <2> QED
    BY <2>1, <2>2, Zenon
<1>7. \A n \in 0..N : S[n] \in Int
  <2> DEFINE T == {n \in 0..N : S[n] \in Int}
  <2>1. 0 \in T
    BY <1>6
  <2>2. ASSUME NEW n \in 0..N, n # N, n \in T
        PROVE  n + 1 \in T
    <3>1. n + 1 \in 1..N /\ (n + 1) - 1 = n /\ n + 1 \in 0..N
      BY <2>2
    <3>2. S[n + 1] = S[n] + s[n + 1]
      BY <1>6, <3>1, Zenon
    <3> QED
      BY <2>2, <3>1, <3>2
  <2> HIDE DEF T
  <2>3. \A n \in 0..N : n \in T
    BY <2>1, <2>2, Counting, Zenon
  <2> QED
    BY <2>3, Zenon DEF T
<1>8. S \in [0..N -> Int]
  <2>1. DOMAIN S = 0..N /\ S = [n \in DOMAIN S |-> S[n]]
    BY <1>4, Zenon
  <2> QED
    BY <1>7, <2>1, Zenon
<1> QED
  BY <1>5, <1>6, <1>8, Zenon DEF S

\* A total is a number, and 0 without values.
LEMMA TotalIsNumber ==
  ASSUME NEW N \in Nat, NEW s \in [1..N -> Int]
  PROVE  Total(s) \in Int /\ (N = 0 => Total(s) = 0)
<1>1. Total(s) = Sums(s)[N] /\ Sums(s) \in [0..N -> Int] /\ Sums(s)[0] = 0
  BY SumsAre, Zenon
<1> QED
  BY <1>1

\* Sums depend on the values added up only.
LEMMA SumsAgree ==
  ASSUME NEW N \in Nat, NEW s \in [1..N -> Int],
         NEW n \in 0..N, NEW u \in [1..n -> Int], \A q \in 1..n : u[q] = s[q]
  PROVE  Sums(s)[n] = Total(u)
<1>1. /\ \A q \in 1..N : Sums(s)[q] = Sums(s)[q - 1] + s[q]
      /\ Sums(s)[0] = 0
  BY SumsAre, Zenon
<1>2. n \in Nat
  OBVIOUS
<1>3. /\ \A q \in 1..n : Sums(u)[q] = Sums(u)[q - 1] + u[q]
      /\ Sums(u)[0] = 0 /\ Total(u) = Sums(u)[n]
  BY <1>2, SumsAre, Zenon
<1> DEFINE T == {q \in 0..n : Sums(u)[q] = Sums(s)[q]}
<1>4. 0 \in T
  BY <1>1, <1>3
<1>5. ASSUME NEW q \in 0..n, q # n, q \in T
      PROVE  q + 1 \in T
  <2>1. q + 1 \in 1..n /\ q + 1 \in 1..N /\ (q + 1) - 1 = q /\ q + 1 \in 0..n
    BY <1>5
  <2>2. Sums(u)[q + 1] = Sums(u)[q] + u[q + 1] /\ Sums(s)[q + 1] = Sums(s)[q] + s[q + 1]
    BY <1>1, <1>3, <2>1, Zenon
  <2> QED
    BY <1>5, <2>1, <2>2, Zenon
<1> HIDE DEF T
<1>6. \A q \in 0..n : q \in T
  BY <1>2, <1>4, <1>5, Counting, Zenon
<1>7. n \in T
  BY <1>6
<1> QED
  BY <1>3, <1>7, Zenon DEF T

\* One more value is added to the total.
LEMMA TotalAppends ==
  ASSUME NEW N \in Nat, NEW s \in [1..N + 1 -> Int],
         NEW u \in [1..N -> Int], \A q \in 1..N : u[q] = s[q]
  PROVE  Total(s) = Total(u) + s[N + 1]
<1>1. N + 1 \in Nat /\ N + 1 \in 1..N + 1 /\ (N + 1) - 1 = N /\ N \in 0..N + 1
  OBVIOUS
<1>2. /\ Total(s) = Sums(s)[N + 1]
      /\ \A q \in 1..N + 1 : Sums(s)[q] = Sums(s)[q - 1] + s[q]
  BY <1>1, SumsAre, Zenon
<1>3. Sums(s)[N + 1] = Sums(s)[(N + 1) - 1] + s[N + 1]
  BY <1>1, <1>2, Zenon
<1>4. Sums(s)[N] = Total(u)
  BY <1>1, SumsAgree, Zenon
<1> QED
  BY <1>1, <1>2, <1>3, <1>4, Zenon

\* Another value in one place changes the total by the difference.
LEMMA TotalExcept ==
  ASSUME NEW N \in Nat, NEW s \in [1..N -> Int], NEW c \in 1..N, NEW v \in Int,
         NEW u \in [1..N -> Int], u[c] = v, \A q \in 1..N : q # c => u[q] = s[q]
  PROVE  Total(u) = Total(s) + (v - s[c])
<1>1. /\ Sums(s) \in [0..N -> Int] /\ Total(s) = Sums(s)[N]
      /\ \A q \in 1..N : Sums(s)[q] = Sums(s)[q - 1] + s[q]
      /\ Sums(s)[0] = 0
  BY SumsAre, Zenon
<1>2. /\ Sums(u) \in [0..N -> Int] /\ Total(u) = Sums(u)[N]
      /\ \A q \in 1..N : Sums(u)[q] = Sums(u)[q - 1] + u[q]
      /\ Sums(u)[0] = 0
  BY SumsAre, Zenon
<1> DEFINE T == {q \in 0..N : Sums(u)[q] = Sums(s)[q] + IF q >= c THEN v - s[c] ELSE 0}
<1>3. 0 \in T
  BY <1>1, <1>2
<1>4. ASSUME NEW q \in 0..N, q # N, q \in T
      PROVE  q + 1 \in T
  <2>1. q + 1 \in 1..N /\ (q + 1) - 1 = q /\ q + 1 \in 0..N
    BY <1>4
  <2>2. Sums(u)[q + 1] = Sums(u)[q] + u[q + 1] /\ Sums(s)[q + 1] = Sums(s)[q] + s[q + 1]
    BY <1>1, <1>2, <2>1, Zenon
  <2>3. Sums(u)[q] \in Int /\ Sums(s)[q] \in Int /\ s[c] \in Int /\ s[q + 1] \in Int
    BY <1>1, <1>2, <2>1, Zenon
  <2>4. Sums(u)[q] = Sums(s)[q] + IF q >= c THEN v - s[c] ELSE 0
    BY <1>4, Zenon
  <2>5. CASE q + 1 = c
    <3>1. u[q + 1] = v /\ s[q + 1] = s[c]
      BY <2>5, Zenon
    <3>2. ~(q >= c) /\ q + 1 >= c
      BY <2>5
    <3>3. Sums(u)[q] = Sums(s)[q] + 0
      BY <2>4, <3>2, Zenon
    <3>4. Sums(u)[q + 1] = (Sums(s)[q] + 0) + v /\ Sums(s)[q + 1] = Sums(s)[q] + s[c]
      BY <2>2, <3>1, <3>3, Zenon
    <3>5. ASSUME NEW b \in Int, NEW e \in Int
          PROVE  (b + 0) + v = (b + e) + (v - e)
      OBVIOUS
    <3>6. (Sums(s)[q] + 0) + v = (Sums(s)[q] + s[c]) + (v - s[c])
      BY <2>3, <3>5, Zenon
    <3>7. Sums(u)[q + 1] = Sums(s)[q + 1] + (v - s[c])
      BY <3>4, <3>6, Zenon
    <3> QED
      BY <2>1, <3>2, <3>7, Zenon
  <2>6. CASE q + 1 # c
    <3>1. u[q + 1] = s[q + 1]
      BY <2>1, <2>6, Zenon
    <3>2. q >= c <=> q + 1 >= c
      BY <2>6
    <3> DEFINE e == IF q >= c THEN v - s[c] ELSE 0
    <3>3. e \in Int
      BY <2>3
    <3>4. e = IF q + 1 >= c THEN v - s[c] ELSE 0
      BY <3>2, Zenon
    <3>5. Sums(u)[q] = Sums(s)[q] + e
      BY <2>4, Zenon
    <3> HIDE DEF e
    <3>6. Sums(u)[q + 1] = (Sums(s)[q] + e) + s[q + 1]
      BY <2>2, <3>1, <3>5, Zenon
    <3>7. ASSUME NEW b \in Int, NEW d \in Int
          PROVE  (b + e) + d = (b + d) + e
      BY <3>3
    <3>8. (Sums(s)[q] + e) + s[q + 1] = (Sums(s)[q] + s[q + 1]) + e
      BY <2>3, <3>7, Zenon
    <3>9. Sums(u)[q + 1] = Sums(s)[q + 1] + e
      BY <2>2, <3>6, <3>8, Zenon
    <3> QED
      BY <2>1, <3>4, <3>9, Zenon
  <2> QED
    BY <2>5, <2>6, Zenon
<1> HIDE DEF T
<1>5. \A q \in 0..N : q \in T
  BY <1>3, <1>4, Counting, Zenon
<1>6. N \in T /\ N >= c
  BY <1>5
<1> QED
  BY <1>1, <1>2, <1>6, Zenon DEF T

\* p puts the numbers up to N in another order.
Permutes(p, N) ==
  /\ p \in [1..N -> 1..N]
  /\ \A a, b \in 1..N : p[a] = p[b] => a = b
  /\ \A b \in 1..N : \E a \in 1..N : p[a] = b

\* Without the place that is mapped to the last number, a permutation still is one.
LEMMA ShorterPermutation ==
  ASSUME NEW N \in Nat, NEW p, Permutes(p, N + 1), NEW c \in 1..N + 1, p[c] = N + 1
  PROVE  Permutes([q \in 1..N |-> IF q = c THEN p[N + 1] ELSE p[q]], N)
<1> DEFINE d == [q \in 1..N |-> IF q = c THEN p[N + 1] ELSE p[q]]
<1>1. /\ p \in [1..N + 1 -> 1..N + 1]
      /\ \A a, b \in 1..N + 1 : p[a] = p[b] => a = b
      /\ \A b \in 1..N + 1 : \E a \in 1..N + 1 : p[a] = b
  BY Zenon DEF Permutes
<1>2. /\ N + 1 \in 1..N + 1 /\ \A q \in 1..N : q \in 1..N + 1 /\ q # N + 1
      /\ \A q \in 1..N + 1 : q \in 1..N \/ q = N + 1
  OBVIOUS
<1>3. \A q \in 1..N : d[q] = IF q = c THEN p[N + 1] ELSE p[q]
  BY Zenon
<1>4. d \in [1..N -> 1..N]
  <2>1. ASSUME NEW q \in 1..N
        PROVE  (IF q = c THEN p[N + 1] ELSE p[q]) \in 1..N
    BY <1>1, <1>2, Zenon
  <2> QED
    BY <2>1, Zenon
<1>5. ASSUME NEW a \in 1..N, NEW b \in 1..N, d[a] = d[b]
      PROVE  a = b
  BY <1>1, <1>2, <1>3, <1>5, Zenon
<1>6. ASSUME NEW b \in 1..N
      PROVE  \E a \in 1..N : d[a] = b
  <2>1. PICK a \in 1..N + 1 : p[a] = b
    BY <1>1, <1>2, Zenon
  <2>2. a # c
    BY <1>2, <2>1, Zenon
  <2>3. CASE a = N + 1
    BY <1>2, <1>3, <2>1, <2>2, <2>3, Zenon
  <2>4. CASE a \in 1..N
    BY <1>3, <2>1, <2>2, <2>4, Zenon
  <2> QED
    BY <1>2, <2>3, <2>4, Zenon
<1> QED
  BY <1>4, <1>5, <1>6, Zenon DEF Permutes

\* The order of the values does not matter for their total.
LEMMA TotalPermuted ==
  ASSUME NEW N \in Nat, NEW s \in [1..N -> Int], NEW p, Permutes(p, N)
  PROVE  Total([q \in 1..N |-> s[p[q]]]) = Total(s)
<1> DEFINE T == {n \in 0..N : \A f \in [1..n -> Int] : \A o :
                   Permutes(o, n) => Total([q \in 1..n |-> f[o[q]]]) = Total(f)}
<1>1. 0 \in T
  <2>1. ASSUME NEW f \in [1..0 -> Int], NEW o
        PROVE  Total([q \in 1..0 |-> f[o[q]]]) = Total(f)
    <3>1. [q \in 1..0 |-> f[o[q]]] = f
      OBVIOUS
    <3> QED
      BY <3>1, Zenon
  <2>2. 0 \in 0..N
    OBVIOUS
  <2> QED
    BY <2>1, <2>2, Zenon
<1>2. ASSUME NEW n \in 0..N, n # N, n \in T
      PROVE  n + 1 \in T
  <2>1. /\ n \in Nat /\ n + 1 \in Nat /\ n + 1 \in 0..N /\ n + 1 \in 1..n + 1
        /\ \A q \in 1..n : q \in 1..n + 1
        /\ \A q \in 1..n + 1 : q \in 1..n \/ q = n + 1
    BY <1>2
  <2> SUFFICES ASSUME NEW f \in [1..n + 1 -> Int], NEW o, Permutes(o, n + 1)
               PROVE  Total([q \in 1..n + 1 |-> f[o[q]]]) = Total(f)
    BY <2>1, Zenon
  <2>2. PICK c \in 1..n + 1 : o[c] = n + 1
    BY <2>1, Zenon DEF Permutes
  <2> DEFINE o2 == [q \in 1..n |-> IF q = c THEN o[n + 1] ELSE o[q]]
             f2 == [q \in 1..n |-> f[q]]
             g == [q \in 1..n + 1 |-> f[o[q]]]
             g1 == [q \in 1..n |-> g[q]]
             g2 == [q \in 1..n |-> f2[o2[q]]]
  <2>3. Permutes(o2, n)
    BY <2>1, <2>2, ShorterPermutation, Zenon
  <2>4. o \in [1..n + 1 -> 1..n + 1] /\ o2 \in [1..n -> 1..n]
    BY <2>3, Zenon DEF Permutes
  <2>5. /\ f2 \in [1..n -> Int] /\ g \in [1..n + 1 -> Int] /\ g1 \in [1..n -> Int]
        /\ g2 \in [1..n -> Int]
    BY <2>1, <2>4, Zenon
  <2>6. /\ g[n + 1] = f[o[n + 1]] /\ g[c] = f[n + 1]
        /\ \A q \in 1..n : f2[q] = f[q] /\ g1[q] = g[q]
        /\ \A q \in 1..n : g2[q] = IF q = c THEN f[o[n + 1]] ELSE g[q]
    <3>1. ASSUME NEW q \in 1..n
          PROVE  g2[q] = IF q = c THEN f[o[n + 1]] ELSE g[q]
      <4>1. g2[q] = f2[o2[q]] /\ o2[q] \in 1..n
        BY <2>4, Zenon
      <4>2. f2[o2[q]] = f[o2[q]]
        BY <4>1, Zenon
      <4>3. o2[q] = IF q = c THEN o[n + 1] ELSE o[q]
        BY Zenon
      <4>4. g[q] = f[o[q]]
        BY <2>1, Zenon
      <4> QED
        BY <4>1, <4>2, <4>3, <4>4, Zenon
    <3> QED
      BY <2>1, <2>2, <3>1, Zenon
  <2> HIDE DEF o2, f2, g, g1, g2
  <2>7. Total(g2) = Total(f2)
    BY <1>2, <2>3, <2>5, Zenon DEF g2
  <2>8. Total(f) = Total(f2) + f[n + 1]
    BY <2>1, <2>5, <2>6, TotalAppends, Zenon
  <2>9. Total(g) = Total(g1) + g[n + 1]
    BY <2>1, <2>5, <2>6, TotalAppends, Zenon
  <2>10. CASE c = n + 1
    <3>1. \A q \in 1..n : q # c
      BY <2>10
    <3>2. \A q \in 1..n : g2[q] = g1[q]
      BY <2>6, <3>1, Zenon
    <3>3. g2 = g1
      BY <2>5, <3>2
    <3> QED
      BY <2>6, <2>7, <2>8, <2>9, <2>10, <3>3, Zenon DEF g
  <2>11. CASE c # n + 1
    <3>1. c \in 1..n
      BY <2>1, <2>11, Zenon
    <3>2. g2[c] = g[n + 1] /\ \A q \in 1..n : q # c => g2[q] = g1[q]
      BY <2>6, <3>1, Zenon
    <3>3. g[n + 1] \in Int /\ g1[c] \in Int /\ g1[c] = f[n + 1]
      BY <2>1, <2>5, <2>6, <3>1, Zenon
    <3>4. Total(g2) = Total(g1) + (g[n + 1] - g1[c])
      BY <2>1, <2>5, <3>1, <3>2, <3>3, TotalExcept, Zenon
    <3>5. Total(g1) \in Int /\ Total(g2) \in Int /\ Total(f2) \in Int
      BY <2>1, <2>5, TotalIsNumber, Zenon
    <3>6. Total(g) = Total(f)
      BY <2>7, <2>8, <2>9, <3>3, <3>4, <3>5
    <3> QED
      BY <3>6, Zenon DEF g
  <2> QED
    BY <2>10, <2>11, Zenon
<1> HIDE DEF T
<1>3. \A n \in 0..N : n \in T
  BY <1>1, <1>2, Counting, Zenon
<1>4. N \in T
  BY <1>3
<1> QED
  BY <1>4, Zenon DEF T

-----------------------------------------------------------------------------
(* Running means.                                                          *)

\* A positive factor may be cancelled.
LEMMA Cancels ==
  ASSUME NEW b \in Nat, b > 0, NEW x \in Int, NEW y \in Int
  PROVE  /\ b * x <= b * y => x <= y
         /\ b * x < b * y => x < y
<1>1. ASSUME y + 1 <= x
      PROVE  b * y + b <= b * x
  <2> DEFINE d == x - (y + 1)
  <2>1. d \in Nat /\ x = d + (y + 1)
    BY <1>1
  <2> HIDE DEF d
  <2>2. b * x = b * d + (b * y + b)
    BY <2>1
  <2>3. b * d \in Nat /\ b * y \in Int
    BY <2>1
  <2> QED
    BY <2>2, <2>3
<1>2. b * x \in Int /\ b * y \in Int
  OBVIOUS
<1>3. CASE y + 1 <= x
  BY <1>1, <1>2, <1>3
<1>4. CASE x = y
  BY <1>2, <1>4
<1>5. CASE x + 1 <= y
  BY <1>5
<1> QED
  BY <1>3, <1>4, <1>5

\* The mean of the recurrence relation is the sum divided by the number.
LEMMA RefinedMean ==
  ASSUME NEW a \in Int, NEW b \in Nat, NEW n \in Nat, NEW S \in Int, NEW x \in Int,
         a * n = b * S
  PROVE  (a * (n + 1) + (x * b - a)) * (n + 1) = (b * (n + 1)) * (S + x)
<1>1. a * (n + 1) + (x * b - a) = b * (S + x)
  <2>1. a * (n + 1) = a * n + a
    OBVIOUS
  <2>2. b * (S + x) = b * S + x * b
    OBVIOUS
  <2>3. a * n \in Int /\ b * S \in Int /\ x * b \in Int
    OBVIOUS
  <2> QED
    BY <2>1, <2>2, <2>3
<1>2. \A y, z \in Int : (y * z) * (n + 1) = (y * (n + 1)) * z
  OBVIOUS
<1>3. b \in Int /\ S + x \in Int
  OBVIOUS
<1>4. (b * (S + x)) * (n + 1) = (b * (n + 1)) * (S + x)
  BY <1>2, <1>3, Zenon
<1> QED
  BY <1>1, <1>4, Zenon

\* g refines the mean by one value of s after the other.
Refines(g, s) == g = [n \in 0..Len(s) |-> IF n = 0 THEN <<0, 1>> ELSE Refined(g[n - 1], s[n], n)]

\* The running mean of integers is a fraction equal to their sum divided by their number.
LEMMA MeanIsExact ==
  ASSUME NEW N \in Nat, NEW s \in [1..N -> Int]
  PROVE  \E a \in Int, b \in Nat \ {0} : RunningMean(s) = <<a, b>> /\ a * N = b * Total(s)
<1>1. Len(s) = N
  OBVIOUS
<1> DEFINE V == Int \X (Nat \ {0})
<1>2. ASSUME NEW v \in V, NEW n \in 1..N
      PROVE  Refined(v, s[n], n) \in V
  <2>1. PICK a \in Int, b \in Nat \ {0} : v = <<a, b>>
    OBVIOUS
  <2> DEFINE a2 == a * n + (s[n] * b - a)
             b2 == b * n
  <2>2. Refined(v, s[n], n) = <<a2, b2>>
    BY <2>1 DEF Refined
  <2>3. a2 \in Int
    OBVIOUS
  <2>4. b2 \in Nat /\ b2 # 0
    <3>1. b \in Nat /\ b > 0 /\ n \in Nat /\ n > 0
      OBVIOUS
    <3> QED
      BY <3>1
  <2> HIDE DEF a2, b2
  <2> QED
    BY <2>2, <2>3, <2>4
<1>3. \E g : Refines(g, s)
  <2> DEFINE step == [n \in 1..N |-> [v \in V |-> Refined(v, s[n], n)]]
  <2>1. step \in [1..N -> [V -> V]]
    BY <1>2, Zenon
  <2>2. <<0, 1>> \in V
    OBVIOUS
  <2>3. PICK g : Recurs(g, N, V, <<0, 1>>, step)
    <3> HIDE DEF step, V
    <3> QED
      BY <2>1, <2>2, Recursion, Zenon
  <2>4. /\ g \in [0..N -> V] /\ g[0] = <<0, 1>>
        /\ \A n \in 1..N : g[n] = step[n][g[n - 1]]
    BY <2>3, Zenon DEF Recurs
  <2>5. ASSUME NEW n \in 0..N
        PROVE  g[n] = IF n = 0 THEN <<0, 1>> ELSE Refined(g[n - 1], s[n], n)
    <3>1. CASE n = 0
      BY <2>4, <3>1, Zenon
    <3>2. CASE n # 0
      <4> HIDE DEF V
      <4>1. n \in 1..N /\ n - 1 \in 0..N
        BY <3>2
      <4>2. g[n - 1] \in V
        BY <2>4, <4>1, Zenon
      <4> QED
        BY <2>4, <3>2, <4>1, <4>2, Zenon
    <3> QED
      BY <3>1, <3>2, Zenon
  <2>6. g = [n \in 0..N |-> g[n]]
    BY <2>4, Zenon
  <2> HIDE DEF step
  <2> QED
    BY <1>1, <2>5, <2>6, Zenon DEF Refines
<1> DEFINE R == CHOOSE g : Refines(g, s)
<1>4. Refines(R, s)
  BY <1>3, Zenon
<1>5. RunningMean(s) = R[N]
  BY <1>1, Zenon DEF RunningMean, Refines
<1> HIDE DEF R
<1>6. \A n \in 0..N : R[n] = IF n = 0 THEN <<0, 1>> ELSE Refined(R[n - 1], s[n], n)
  BY <1>1, <1>4, Zenon DEF Refines
<1>7. /\ Sums(s) \in [0..N -> Int] /\ Total(s) = Sums(s)[N] /\ Sums(s)[0] = 0
      /\ \A n \in 1..N : Sums(s)[n] = Sums(s)[n - 1] + s[n]
  BY SumsAre, Zenon
<1> DEFINE T == {n \in 0..N : \E a \in Int, b \in Nat \ {0} :
                                R[n] = <<a, b>> /\ a * n = b * Sums(s)[n]}
<1>8. 0 \in T
  <2>1. 0 \in 0..N /\ 0 \in Int /\ 1 \in Nat \ {0} /\ 0 * 0 = 1 * 0
    OBVIOUS
  <2>2. R[0] = <<0, 1>> /\ Sums(s)[0] = 0
    BY <1>6, <1>7, <2>1, Zenon
  <2> QED
    BY <2>1, <2>2
<1>9. ASSUME NEW n \in 0..N, n # N, n \in T
      PROVE  n + 1 \in T
  <2>1. PICK a \in Int, b \in Nat \ {0} : R[n] = <<a, b>> /\ a * n = b * Sums(s)[n]
    BY <1>9, Zenon
  <2>2. n + 1 \in 1..N /\ n + 1 \in 0..N /\ (n + 1) - 1 = n /\ n + 1 # 0 /\ n \in Nat
    BY <1>9
  <2> DEFINE x == s[n + 1]
             a2 == a * (n + 1) + (x * b - a)
             b2 == b * (n + 1)
  <2>3. x \in Int /\ Sums(s)[n] \in Int
    BY <1>7, <2>2
  <2>4. R[n + 1] = Refined(<<a, b>>, x, n + 1)
    BY <1>6, <2>1, <2>2, Zenon
  <2>5. R[n + 1] = <<a2, b2>>
    BY <2>4 DEF Refined
  <2>6. Sums(s)[n + 1] = Sums(s)[n] + x
    BY <1>7, <2>2, Zenon
  <2> HIDE DEF x
  <2>7. b \in Nat /\ b > 0 /\ n + 1 \in Nat /\ n + 1 > 0
    BY <2>2
  <2>8. b2 \in Nat /\ b2 # 0
    BY <2>7
  <2>9. a2 \in Int
    BY <2>3
  <2>10. a2 * (n + 1) = b2 * Sums(s)[n + 1]
    <3>1. (a * (n + 1) + (x * b - a)) * (n + 1) = (b * (n + 1)) * (Sums(s)[n] + x)
      <4> DEFINE S == Sums(s)[n]
      <4>1. S \in Int /\ a * n = b * S
        BY <2>1, <2>3, Zenon
      <4> HIDE DEF S
      <4>2. (a * (n + 1) + (x * b - a)) * (n + 1) = (b * (n + 1)) * (S + x)
        BY <2>2, <2>3, <2>7, <4>1, RefinedMean
      <4> QED
        BY <4>2, Zenon DEF S
    <3> QED
      BY <2>6, <3>1, Zenon
  <2> HIDE DEF a2, b2
  <2> QED
    BY <2>2, <2>5, <2>8, <2>9, <2>10, Zenon
<1> HIDE DEF T
<1>10. \A n \in 0..N : n \in T
  BY <1>8, <1>9, Counting, Zenon
<1>11. N \in T
  BY <1>10
<1> QED
  BY <1>5, <1>7, <1>11, Zenon DEF T

\* The rounded mean differs from the exact one by at most one half.
LEMMA RoundedMean ==
  ASSUME NEW N \in Nat, N > 0, NEW s \in [1..N -> Int]
  PROVE  LET m == Round(RunningMean(s))
         IN  /\ m \in Int
             /\ 2 * N * m - N <= 2 * Total(s)
             /\ 2 * Total(s) < 2 * N * m + N
<1>1. PICK a \in Int, b \in Nat \ {0} : RunningMean(s) = <<a, b>> /\ a * N = b * Total(s)
  BY MeanIsExact, Zenon
<1> DEFINE S == Total(s)
           m == (2 * a + b) \div (2 * b)
           h == (2 * a + b) % (2 * b)
<1>2. Round(RunningMean(s)) = m
  BY <1>1 DEF Round
<1>3. S \in Int
  BY TotalIsNumber, Zenon
<1>4. 2 * b \in Nat /\ 2 * b > 0 /\ 2 * a + b \in Int
  OBVIOUS
<1>5. m \in Int /\ h \in Nat /\ h < 2 * b /\ 2 * a + b = (2 * b) * m + h
  BY <1>4
<1> HIDE DEF m, h, S
<1>6. (2 * a + b) * N = ((2 * b) * m + h) * N
  BY <1>5, Zenon
<1>7. (2 * a + b) * N = 2 * (b * S) + b * N
  <2>1. (2 * a + b) * N = 2 * (a * N) + b * N
    OBVIOUS
  <2> QED
    BY <1>1, <2>1, Zenon DEF S
<1>8. ((2 * b) * m + h) * N = b * (2 * (N * m)) + h * N
  BY <1>5
<1>9. h * N >= 0 /\ h * N < (2 * b) * N
  <2>1. h * N \in Nat /\ (2 * b) * N \in Nat
    BY <1>5
  <2>2. N * h < N * (2 * b)
    <3> DEFINE d == 2 * b - (h + 1)
    <3>1. d \in Nat /\ 2 * b = d + (h + 1)
      BY <1>5
    <3> HIDE DEF d
    <3>2. N * (2 * b) = N * d + N * h + N
      BY <1>5, <3>1
    <3>3. N * d \in Nat /\ N * h \in Nat
      BY <1>5, <3>1
    <3> QED
      BY <3>2, <3>3
  <2>3. N * h = h * N /\ N * (2 * b) = (2 * b) * N
    BY <1>5
  <2> QED
    BY <2>1, <2>2, <2>3
<1> DEFINE z == 2 * S + N - 2 * (N * m)
<1>10. z \in Int /\ b * z = h * N
  <2>1. z \in Int
    BY <1>3, <1>5
  <2>2. b * z = 2 * (b * S) + b * N - b * (2 * (N * m))
    BY <1>3, <1>5
  <2>3. b * S \in Int /\ b * N \in Int /\ b * (2 * (N * m)) \in Int /\ h * N \in Int
    BY <1>3, <1>5
  <2>4. 2 * (b * S) + b * N = b * (2 * (N * m)) + h * N
    BY <1>6, <1>7, <1>8, Zenon
  <2> DEFINE c == 2 * (b * S) + b * N
             d == b * (2 * (N * m))
             e == h * N
  <2>5. c \in Int /\ d \in Int /\ e \in Int /\ c = d + e /\ b * z = c - d
    BY <2>2, <2>3, <2>4
  <2> HIDE DEF z, c, d, e
  <2>6. b * z = e
    BY <2>5
  <2> QED
    BY <2>1, <2>6, Zenon DEF e
<1>11. b \in Nat /\ b > 0 /\ 0 \in Int /\ 2 * N \in Int /\ b * 0 = 0 /\ b * (2 * N) = (2 * b) * N
  OBVIOUS
<1> HIDE DEF z
<1>12. b * 0 <= b * z /\ b * z < b * (2 * N)
  BY <1>9, <1>10, <1>11
<1>13. 0 <= z /\ z < 2 * N
  BY <1>10, <1>11, <1>12, Cancels, Zenon
<1>14. 2 * N * m = 2 * (N * m) /\ N * m \in Int
  BY <1>5
<1>15. m \in Int /\ 2 * N * m - N <= 2 * S /\ 2 * S < 2 * N * m + N
  BY <1>3, <1>5, <1>13, <1>14 DEF z
<1> QED
  BY <1>2, <1>15, Zenon DEF S

-----------------------------------------------------------------------------
(* Words.                                                                  *)

\* Division with remainder.
LEMMA Division ==
  ASSUME NEW a \in Int, NEW b \in Nat, b > 0
  PROVE  /\ a \div b \in Int /\ a % b \in Nat /\ a % b < b
         /\ a = b * (a \div b) + (a % b)
OBVIOUS

\* Quotient and remainder are unique.
LEMMA DivisionIsUnique ==
  ASSUME NEW b \in Nat, b > 0, NEW q \in Int, NEW r \in Int, 0 <= r, r < b, NEW a \in Int, a = b * q + r
  PROVE  a \div b = q /\ a % b = r
<1> DEFINE c == a \div b
           d == a % b
<1>1. c \in Int /\ d \in Nat /\ d < b /\ a = b * c + d
  BY Division, Zenon
<1> HIDE DEF c, d
<1>2. b * (c + 1) = b * c + b /\ b * (q + 1) = b * q + b /\ b * c \in Int /\ b * q \in Int
  BY <1>1
<1>3. b * c < b * (q + 1) /\ b * q < b * (c + 1)
  BY <1>1, <1>2
<1>4. q + 1 \in Int /\ c + 1 \in Int
  BY <1>1
<1>5. c < q + 1 /\ q < c + 1
  BY <1>1, <1>3, <1>4, Cancels, Zenon
<1>6. c = q
  BY <1>1, <1>5
<1>7. d = r
  BY <1>1, <1>2, <1>6
<1> QED
  BY <1>6, <1>7, Zenon DEF c, d

\* A word.
LEMMA WrapIsWord ==
  ASSUME NEW a \in Int
  PROVE  Wrap(a) \in 0..Modulus - 1 /\ \E q \in Int : a = Modulus * q + Wrap(a)
<1>1. Modulus \in Nat /\ Modulus > 0
  BY StatisticsAssumption, Zenon
<1> HIDE DEF Modulus
<1>2. /\ a \div Modulus \in Int /\ a % Modulus \in Nat /\ a % Modulus < Modulus
      /\ a = Modulus * (a \div Modulus) + (a % Modulus)
  BY <1>1, Division, Zenon
<1>3. a % Modulus \in 0..Modulus - 1
  BY <1>1, <1>2
<1> QED
  BY <1>2, <1>3, Zenon DEF Wrap

\* Numbers that differ by a multiple of the modulus are the same word.
LEMMA WrapIsSame ==
  ASSUME NEW a \in Int, NEW b \in Int, NEW q \in Int, a = Modulus * q + b
  PROVE  Wrap(a) = Wrap(b)
<1>1. Modulus \in Nat /\ Modulus > 0
  BY StatisticsAssumption, Zenon
<1> HIDE DEF Modulus
<1>2. PICK e \in Int : b = Modulus * e + Wrap(b)
  BY WrapIsWord, Zenon
<1>3. Wrap(b) \in 0..Modulus - 1
  BY WrapIsWord, Zenon
<1>4. Wrap(b) \in Int /\ 0 <= Wrap(b) /\ Wrap(b) < Modulus
  BY <1>1, <1>3
<1> DEFINE w == Wrap(b)
<1> HIDE DEF w
<1>5. a = Modulus * (q + e) + w
  <2>1. Modulus * (q + e) = Modulus * q + Modulus * e /\ Modulus * q \in Int /\ Modulus * e \in Int
    BY <1>1
  <2> QED
    BY <1>1, <1>2, <1>4, <2>1 DEF w
<1>6. q + e \in Int
  OBVIOUS
<1>7. a % Modulus = w
  <2>1. w \in Int /\ 0 <= w /\ w < Modulus
    BY <1>4, Zenon DEF w
  <2> DEFINE z == q + e
  <2>2. z \in Int /\ a = Modulus * z + w
    BY <1>5, <1>6, Zenon
  <2> HIDE DEF z
  <2> QED
    BY <1>1, <2>1, <2>2, DivisionIsUnique
<1> QED
  BY <1>7, Zenon DEF w, Wrap

\* A number that fits is not changed.
LEMMA WrapKeeps ==
  ASSUME NEW a \in Int, 0 <= a, a < Modulus
  PROVE  Wrap(a) = a
<1>1. Modulus \in Nat /\ Modulus > 0
  BY StatisticsAssumption, Zenon
<1> HIDE DEF Modulus
<1>2. a = Modulus * 0 + a
  BY <1>1
<1> QED
  BY <1>1, <1>2, DivisionIsUnique DEF Wrap

\* Sums and products of words.
LEMMA WrapAdds ==
  ASSUME NEW a \in Int, NEW b \in Int
  PROVE  /\ Wrap(Wrap(a) + Wrap(b)) = Wrap(a + b)
         /\ Wrap(Wrap(a) * Wrap(b)) = Wrap(a * b)
         /\ Wrap(Wrap(a) - b) = Wrap(a - b)
         /\ Wrap(Wrap(a)) = Wrap(a)
<1>1. Modulus \in Nat /\ Modulus > 0
  BY StatisticsAssumption, Zenon
<1>2. Wrap(a) \in 0..Modulus - 1 /\ Wrap(b) \in 0..Modulus - 1
  BY WrapIsWord, Zenon
<1> DEFINE M == Modulus
           v == Wrap(a)
           w == Wrap(b)
<1>3. M \in Int /\ v \in Int /\ w \in Int
  BY <1>1, <1>2
<1>4. PICK e \in Int : a = M * e + v
  BY WrapIsWord, Zenon
<1>5. PICK f \in Int : b = M * f + w
  BY WrapIsWord, Zenon
<1> HIDE DEF M, v, w
<1>6. /\ a + b = M * (e + f) + (v + w) /\ e + f \in Int /\ v + w \in Int /\ a + b \in Int
  BY <1>3, <1>4, <1>5
<1>7. /\ a * b = M * (M * e * f + e * w + f * v) + v * w
      /\ M * e * f + e * w + f * v \in Int /\ v * w \in Int /\ a * b \in Int
  <2>1. a * b = (M * e + v) * (M * f + w)
    BY <1>4, <1>5, Zenon
  <2>2. (M * e + v) * (M * f + w) = M * (M * e * f + e * w + f * v) + v * w
    BY <1>3
  <2>3. M * e * f + e * w + f * v \in Int /\ v * w \in Int /\ a * b \in Int
    BY <1>3
  <2> QED
    BY <2>1, <2>2, <2>3, Zenon
<1>8. a - b = M * e + (v - b) /\ v - b \in Int /\ a - b \in Int
  BY <1>3, <1>4
<1>9. Wrap(a + b) = Wrap(v + w)
  BY <1>6, WrapIsSame, Zenon DEF M
<1>10. Wrap(a * b) = Wrap(v * w)
  <2> DEFINE g == M * e * f + e * w + f * v
  <2>1. g \in Int /\ a * b = M * g + v * w
    BY <1>7, Zenon
  <2> HIDE DEF g
  <2> QED
    BY <1>7, <2>1, WrapIsSame, Zenon DEF M
<1>11. Wrap(a - b) = Wrap(v - b)
  BY <1>8, WrapIsSame, Zenon DEF M
<1>12. Wrap(a) = Wrap(v)
  BY <1>3, <1>4, WrapIsSame, Zenon DEF M
<1> QED
  BY <1>9, <1>10, <1>11, <1>12, Zenon DEF v, w

\* end - start of two reads of a counter is the time between them, if it fits.
LEMMA ElapsedTime ==
  ASSUME NEW start \in Int, NEW time \in 0..Modulus - 1
  PROVE  Wrap(Wrap(start + time) - start) = time
<1>1. Modulus \in Nat
  BY StatisticsAssumption, Zenon
<1> HIDE DEF Modulus
<1>2. start + time \in Int /\ (start + time) - start = time /\ time \in Int /\ 0 <= time /\ time < Modulus
  BY <1>1
<1>3. Wrap(Wrap(start + time) - start) = Wrap((start + time) - start)
  BY <1>2, WrapAdds, Zenon
<1>4. Wrap(time) = time
  BY <1>2, WrapKeeps, Zenon
<1> QED
  BY <1>2, <1>3, <1>4, Zenon

\* The complement of a difference of words has its highest bit set exactly if the
\* difference is not negative.
LEMMA HighestBit ==
  ASSUME NEW a \in Nat, NEW b \in Nat, a < Modulus \div 2, b < Modulus \div 2
  PROVE  Wrap(Modulus - 1 - Wrap(a - b)) \div (Modulus \div 2) = IF b <= a THEN 1 ELSE 0
<1> DEFINE H == Modulus \div 2
<1>1. Modulus \in Nat /\ Modulus > 0 /\ Modulus % 2 = 0
  BY StatisticsAssumption, Zenon
<1>2. H \in Nat /\ Modulus = 2 * H /\ H > 0
  <2> HIDE DEF Modulus
  <2> QED
    BY <1>1
<1>3. a < H /\ b < H
  BY Zenon
<1> HIDE DEF Modulus, H
<1>4. CASE b <= a
  <2>1. a - b \in Int /\ 0 <= a - b /\ a - b < Modulus
    BY <1>2, <1>3, <1>4
  <2>2. Wrap(a - b) = a - b
    BY <2>1, WrapKeeps, Zenon
  <2> DEFINE c == Modulus - 1 - (a - b)
             r == c - H
  <2>3. c \in Int /\ 0 <= c /\ c < Modulus /\ r \in Int /\ 0 <= r /\ r < H /\ c = H * 1 + r /\ 1 \in Int
    BY <1>2, <1>3, <1>4
  <2> HIDE DEF c, r
  <2>4. Wrap(c) = c
    BY <2>3, WrapKeeps, Zenon
  <2>5. c \div H = 1
    BY <1>2, <2>3, DivisionIsUnique
  <2> QED
    BY <1>4, <2>2, <2>4, <2>5, Zenon DEF c, H
<1>5. CASE ~ (b <= a)
  <2> DEFINE d == Modulus + (a - b)
  <2>1. a - b \in Int /\ d \in Int /\ 0 <= d /\ d < Modulus /\ 0 - 1 \in Int /\ a - b = Modulus * (0 - 1) + d
    BY <1>2, <1>3, <1>5
  <2> HIDE DEF d
  <2>2. Wrap(a - b) = d
    <3>1. Wrap(a - b) = Wrap(d)
      BY <2>1, WrapIsSame
    <3>2. Wrap(d) = d
      BY <2>1, WrapKeeps, Zenon
    <3> QED
      BY <3>1, <3>2, Zenon
  <2> DEFINE c == Modulus - 1 - d
  <2>3. c \in Int /\ 0 <= c /\ c < Modulus /\ c < H /\ c = H * 0 + c /\ 0 \in Int
    BY <1>2, <1>3, <1>5, <2>1 DEF d
  <2> HIDE DEF c
  <2>4. Wrap(c) = c
    BY <2>3, WrapKeeps, Zenon
  <2>5. c \div H = 0
    BY <1>2, <2>3, DivisionIsUnique, Zenon
  <2> QED
    BY <1>5, <2>2, <2>4, <2>5, Zenon DEF c, H
<1> QED
  BY <1>4, <1>5, Zenon

\* A sum of N values is at most N times the largest, and sums are ordered like their values.
LEMMA TotalBound ==
  ASSUME NEW N \in Nat, NEW s \in [1..N -> Int], NEW B \in Int, \A q \in 1..N : s[q] <= B
  PROVE  Total(s) <= N * B
<1>1. /\ Sums(s) \in [0..N -> Int] /\ Total(s) = Sums(s)[N]
      /\ \A q \in 1..N : Sums(s)[q] = Sums(s)[q - 1] + s[q]
      /\ Sums(s)[0] = 0
  BY SumsAre, Zenon
<1> DEFINE T == {n \in 0..N : Sums(s)[n] <= n * B}
<1>2. 0 \in T
  BY <1>1
<1>3. ASSUME NEW n \in 0..N, n # N, n \in T
      PROVE  n + 1 \in T
  <2>1. n + 1 \in 1..N /\ n + 1 \in 0..N /\ (n + 1) - 1 = n /\ n \in Nat
    BY <1>3
  <2>2. Sums(s)[n + 1] = Sums(s)[n] + s[n + 1]
    BY <1>1, <2>1
  <2>3. Sums(s)[n] \in Int /\ s[n + 1] \in Int /\ s[n + 1] <= B /\ Sums(s)[n] <= n * B
    BY <1>1, <1>3, <2>1, Zenon
  <2>4. (n + 1) * B = n * B + B /\ n * B \in Int
    BY <2>1
  <2>5. Sums(s)[n] + s[n + 1] <= n * B + B
    BY <2>3, <2>4
  <2> QED
    BY <2>1, <2>2, <2>4, <2>5, Zenon
<1>4. N \in T
  <2>1. N \in 0..N
    OBVIOUS
  <2> HIDE DEF T
  <2> QED
    BY <1>2, <1>3, <2>1, Counting, Zenon
<1> QED
  BY <1>1, <1>4, Zenon

\* A sum of values that are at most as large is at most as large.
LEMMA TotalMonotone ==
  ASSUME NEW N \in Nat, NEW s \in [1..N -> Int], NEW u \in [1..N -> Int],
         \A q \in 1..N : s[q] <= u[q]
  PROVE  Total(s) <= Total(u)
<1>1. /\ Sums(s) \in [0..N -> Int] /\ Total(s) = Sums(s)[N]
      /\ \A q \in 1..N : Sums(s)[q] = Sums(s)[q - 1] + s[q]
      /\ Sums(s)[0] = 0
  BY SumsAre, Zenon
<1>2. /\ Sums(u) \in [0..N -> Int] /\ Total(u) = Sums(u)[N]
      /\ \A q \in 1..N : Sums(u)[q] = Sums(u)[q - 1] + u[q]
      /\ Sums(u)[0] = 0
  BY SumsAre, Zenon
<1> DEFINE T == {n \in 0..N : Sums(s)[n] <= Sums(u)[n]}
<1>3. 0 \in T
  BY <1>1, <1>2
<1>4. ASSUME NEW n \in 0..N, n # N, n \in T
      PROVE  n + 1 \in T
  <2>1. n + 1 \in 1..N /\ n + 1 \in 0..N /\ (n + 1) - 1 = n
    BY <1>4
  <2>2. Sums(s)[n + 1] = Sums(s)[n] + s[n + 1] /\ Sums(u)[n + 1] = Sums(u)[n] + u[n + 1]
    BY <1>1, <1>2, <2>1
  <2>3. /\ Sums(s)[n] \in Int /\ s[n + 1] \in Int /\ s[n + 1] <= u[n + 1]
        /\ Sums(u)[n] \in Int /\ u[n + 1] \in Int /\ Sums(s)[n] <= Sums(u)[n]
    BY <1>1, <1>2, <1>4, <2>1, Zenon
  <2>4. Sums(s)[n] + s[n + 1] <= Sums(u)[n] + u[n + 1]
    BY <2>3
  <2> QED
    BY <2>1, <2>2, <2>4, Zenon
<1>5. N \in T
  <2>1. N \in 0..N
    OBVIOUS
  <2> HIDE DEF T
  <2> QED
    BY <1>3, <1>4, <2>1, Counting, Zenon
<1> QED
  BY <1>1, <1>2, <1>5, Zenon

\* The squared distances of numbers from m.
Distances(x, N, m) == [q \in 1..N |-> (x[q] - m) * (x[q] - m)]

\* The sum of the squared distances from m, from the sum and the sum of the squares.
LEMMA TotalOfDistances ==
  ASSUME NEW N \in Nat, NEW x \in [1..N -> Int], NEW m \in Int
  PROVE  Total(Distances(x, N, m)) = Total(Distances(x, N, 0)) - 2 * m * Total(x) + N * m * m
<1> DEFINE u == Distances(x, N, m)
           w == Distances(x, N, 0)
<1>1. u \in [1..N -> Int] /\ w \in [1..N -> Int]
  BY DEF Distances
<1>2. \A q \in 1..N : u[q] = (x[q] - m) * (x[q] - m) /\ w[q] = (x[q] - 0) * (x[q] - 0)
  BY Zenon DEF Distances
<1> HIDE DEF u, w
<1>3. /\ Sums(x) \in [0..N -> Int] /\ Total(x) = Sums(x)[N]
      /\ \A q \in 1..N : Sums(x)[q] = Sums(x)[q - 1] + x[q]
      /\ Sums(x)[0] = 0
  BY SumsAre, Zenon
<1>4. /\ Sums(u) \in [0..N -> Int] /\ Total(u) = Sums(u)[N]
      /\ \A q \in 1..N : Sums(u)[q] = Sums(u)[q - 1] + u[q]
      /\ Sums(u)[0] = 0
  BY <1>1, SumsAre, Zenon
<1>5. /\ Sums(w) \in [0..N -> Int] /\ Total(w) = Sums(w)[N]
      /\ \A q \in 1..N : Sums(w)[q] = Sums(w)[q - 1] + w[q]
      /\ Sums(w)[0] = 0
  BY <1>1, SumsAre, Zenon
<1> DEFINE T == {n \in 0..N : Sums(u)[n] = Sums(w)[n] - 2 * m * Sums(x)[n] + n * m * m}
<1>6. 0 \in T
  BY <1>3, <1>4, <1>5
<1>7. ASSUME NEW n \in 0..N, n # N, n \in T
      PROVE  n + 1 \in T
  <2>1. n + 1 \in 1..N /\ n + 1 \in 0..N /\ (n + 1) - 1 = n /\ n \in Int
    BY <1>7
  <2> DEFINE y == x[n + 1]
             X == Sums(x)[n]
             U == Sums(u)[n]
             W == Sums(w)[n]
  <2>2. /\ Sums(x)[n + 1] = X + y /\ Sums(u)[n + 1] = U + u[n + 1] /\ Sums(w)[n + 1] = W + w[n + 1]
    BY <1>3, <1>4, <1>5, <2>1
  <2>3. y \in Int /\ X \in Int /\ U \in Int /\ W \in Int
    BY <1>3, <1>4, <1>5, <2>1, Zenon
  <2>4. U = W - 2 * m * X + n * m * m
    BY <1>7, Zenon
  <2>5. u[n + 1] = (y - m) * (y - m) /\ w[n + 1] = (y - 0) * (y - 0)
    BY <1>2, <2>1, Zenon
  <2> HIDE DEF y, X, U, W
  <2>6. U + (y - m) * (y - m) = (W + (y - 0) * (y - 0)) - 2 * m * (X + y) + (n + 1) * m * m
    <3>1. (W - 2 * m * X + n * m * m) + (y - m) * (y - m) = (W + (y - 0) * (y - 0)) - 2 * m * (X + y) + (n + 1) * m * m
      BY <2>1, <2>3
    <3> QED
      BY <2>4, <3>1, Zenon
  <2> QED
    BY <2>1, <2>2, <2>5, <2>6, Zenon
<1>8. N \in T
  <2>1. N \in 0..N
    OBVIOUS
  <2> HIDE DEF T
  <2> QED
    BY <1>6, <1>7, <2>1, Counting, Zenon
<1>9. Total(u) = Total(w) - 2 * m * Total(x) + N * m * m
  BY <1>3, <1>4, <1>5, <1>8, Zenon
<1> QED
  BY <1>9, Zenon DEF u, w

-----------------------------------------------------------------------------
(* Sums that fit into a word.                                              *)

\* How many of the samples e count, if g are to be ignored.
KeptNumber(e, g) == IF Len(e) < g THEN 0 ELSE Len(e) - g

\* The samples that count, reduced by o.
Kept(e, g, o) == [q \in 1..KeptNumber(e, g) |-> e[g + q] - o]

\* The sum, and the sum of the squares, of the samples that count.
KeptSum(e, g, o) == Total(Kept(e, g, o))
KeptSquares(e, g, o) == Total(Distances(Kept(e, g, o), KeptNumber(e, g), 0))

\* The samples that count are numbers.
LEMMA KeptAreNumbers ==
  ASSUME NEW e \in Seq(Int), NEW g \in Nat, NEW o \in Int
  PROVE  /\ KeptNumber(e, g) \in Nat
         /\ Kept(e, g, o) \in [1..KeptNumber(e, g) -> Int]
         /\ Distances(Kept(e, g, o), KeptNumber(e, g), 0) \in [1..KeptNumber(e, g) -> Int]
         /\ KeptSum(e, g, o) \in Int /\ KeptSquares(e, g, o) \in Int
<1> DEFINE n == KeptNumber(e, g)
           x == Kept(e, g, o)
           d == Distances(x, n, 0)
<1>1. n \in Nat /\ \A q \in 1..n : e[g + q] - o \in Int
  BY DEF KeptNumber
<1> HIDE DEF n
<1>2. x \in [1..n -> Int]
  BY <1>1 DEF Kept, n
<1> HIDE DEF x
<1>3. d \in [1..n -> Int]
  BY <1>2 DEF Distances
<1> HIDE DEF d
<1>4. Total(x) \in Int /\ Total(d) \in Int
  BY <1>1, <1>2, <1>3, TotalIsNumber, Zenon
<1> QED
  BY <1>1, <1>2, <1>3, <1>4, Zenon DEF n, x, d, KeptSum, KeptSquares

\* Before the first sample the sums are zero.
LEMMA KeptOfNone ==
  ASSUME NEW g \in Nat, NEW o \in Int
  PROVE  KeptSum(<<>>, g, o) = 0 /\ KeptSquares(<<>>, g, o) = 0
<1>1. <<>> \in Seq(Int) /\ KeptNumber(<<>>, g) = 0
  BY DEF KeptNumber
<1>2. /\ KeptNumber(<<>>, g) \in Nat
      /\ Kept(<<>>, g, o) \in [1..KeptNumber(<<>>, g) -> Int]
      /\ Distances(Kept(<<>>, g, o), KeptNumber(<<>>, g), 0) \in [1..KeptNumber(<<>>, g) -> Int]
  BY <1>1, KeptAreNumbers, Zenon
<1> QED
  BY <1>1, <1>2, TotalIsNumber, Zenon DEF KeptSum, KeptSquares

\* One more sample adds to the sums if it counts.
LEMMA KeptOfMore ==
  ASSUME NEW e \in Seq(Int), NEW t \in Int, NEW g \in Nat, NEW o \in Int
  PROVE  /\ g <= Len(e) =>
              /\ KeptSum(Append(e, t), g, o) = KeptSum(e, g, o) + (t - o)
              /\ KeptSquares(Append(e, t), g, o) = KeptSquares(e, g, o) + (t - o) * (t - o)
         /\ ~(g <= Len(e)) =>
              /\ KeptSum(Append(e, t), g, o) = KeptSum(e, g, o)
              /\ KeptSquares(Append(e, t), g, o) = KeptSquares(e, g, o)
<1> DEFINE f == Append(e, t)
           n == KeptNumber(e, g)
           x == Kept(e, g, o)
           y == Kept(f, g, o)
<1>1. f \in Seq(Int) /\ Len(f) = Len(e) + 1 /\ Len(e) \in Nat /\ \A q \in 1..Len(e) : f[q] = e[q]
  OBVIOUS
<1>2. f[Len(e) + 1] = t
  OBVIOUS
<1>3. /\ n \in Nat /\ x \in [1..n -> Int] /\ Distances(x, n, 0) \in [1..n -> Int]
      /\ KeptSum(e, g, o) = Total(x) /\ KeptSquares(e, g, o) = Total(Distances(x, n, 0))
  BY KeptAreNumbers, Zenon DEF KeptSum, KeptSquares
<1> HIDE DEF f
<1>4. CASE g <= Len(e)
  <2>1. n = Len(e) - g /\ KeptNumber(f, g) = n + 1 /\ \A q \in 1..n : q \in 1..n + 1 /\ g + q \in 1..Len(e)
    <3> DEFINE l == Len(e)
               u == KeptNumber(f, g)
    <3>1. l \in Nat /\ Len(f) = l + 1 /\ g <= l
      BY <1>1, <1>4, Zenon
    <3>2. n = (IF l < g THEN 0 ELSE l - g) /\ u = (IF l + 1 < g THEN 0 ELSE (l + 1) - g)
      BY <3>1, Zenon DEF KeptNumber
    <3> HIDE DEF l, u, n
    <3>3. n = l - g /\ u = n + 1
      BY <3>1, <3>2
    <3>4. \A q \in 1..n : q \in 1..n + 1 /\ g + q \in 1..l
      BY <3>1, <3>3
    <3> QED
      BY <3>3, <3>4, Zenon DEF l, u
  <2>2. n + 1 \in 1..n + 1 /\ g + (n + 1) = Len(e) + 1
    BY <1>1, <1>3, <2>1
  <2>3. \A q \in 1..n : y[q] = x[q]
    BY <1>1, <2>1, Zenon DEF Kept
  <2>4. y[n + 1] = t - o
    BY <1>2, <2>1, <2>2, Zenon DEF Kept
  <2>5. /\ y \in [1..n + 1 -> Int] /\ Distances(y, n + 1, 0) \in [1..n + 1 -> Int]
        /\ KeptSum(f, g, o) = Total(y) /\ KeptSquares(f, g, o) = Total(Distances(y, n + 1, 0))
    <3>1. /\ y \in [1..KeptNumber(f, g) -> Int]
          /\ Distances(y, KeptNumber(f, g), 0) \in [1..KeptNumber(f, g) -> Int]
      BY <1>1, KeptAreNumbers, Zenon
    <3> QED
      BY <2>1, <3>1, Zenon DEF KeptSum, KeptSquares
  <2> HIDE DEF n, x, y
  <2> DEFINE d == Distances(x, n, 0)
             c == Distances(y, n + 1, 0)
  <2>6. /\ \A q \in 1..n : c[q] = d[q]
        /\ c[n + 1] = (y[n + 1] - 0) * (y[n + 1] - 0)
    BY <2>1, <2>2, <2>3, Zenon DEF Distances
  <2>7. (t - o) - 0 = t - o
    OBVIOUS
  <2>8. c[n + 1] = (t - o) * (t - o)
    BY <2>4, <2>6, <2>7, Zenon
  <2>9. d \in [1..n -> Int] /\ c \in [1..n + 1 -> Int]
    BY <1>3, <2>5, Zenon
  <2>10. Total(y) = Total(x) + y[n + 1]
    BY <1>3, <2>3, <2>5, TotalAppends, Zenon
  <2> HIDE DEF c, d
  <2>11. Total(c) = Total(d) + c[n + 1]
    BY <1>3, <2>6, <2>9, TotalAppends, Zenon
  <2>12. /\ KeptSum(f, g, o) = KeptSum(e, g, o) + (t - o)
         /\ KeptSquares(f, g, o) = KeptSquares(e, g, o) + (t - o) * (t - o)
    BY <1>3, <2>4, <2>5, <2>8, <2>10, <2>11, Zenon DEF c, d
  <2> QED
    BY <1>4, <2>12, Zenon DEF f
<1>5. CASE ~(g <= Len(e))
  <2>1. KeptNumber(e, g) = 0 /\ KeptNumber(f, g) = 0
    BY <1>1, <1>5 DEF KeptNumber
  <2>2. /\ y \in [1..0 -> Int] /\ Distances(y, 0, 0) \in [1..0 -> Int]
        /\ x \in [1..0 -> Int] /\ Distances(x, 0, 0) \in [1..0 -> Int]
    <3>1. /\ y \in [1..KeptNumber(f, g) -> Int]
          /\ Distances(y, KeptNumber(f, g), 0) \in [1..KeptNumber(f, g) -> Int]
      BY <1>1, KeptAreNumbers, Zenon
    <3> QED
      BY <1>3, <2>1, <3>1, Zenon
  <2>3. 0 \in Nat /\ 0 = 0
    OBVIOUS
  <2> HIDE DEF x, y, n
  <2>4. /\ Total(y) = 0 /\ Total(x) = 0
        /\ Total(Distances(y, 0, 0)) = 0 /\ Total(Distances(x, 0, 0)) = 0
    BY <2>2, <2>3, TotalIsNumber, Zenon
  <2>5. KeptSum(f, g, o) = KeptSum(e, g, o) /\ KeptSquares(f, g, o) = KeptSquares(e, g, o)
    BY <2>1, <2>4, Zenon DEF KeptSum, KeptSquares, x, y, n
  <2> QED
    BY <1>5, <2>5, Zenon DEF f
<1> QED
  BY <1>4, <1>5, Zenon

\* The sums of samples with small squares fit into a word.
LEMMA SumsFit ==
  ASSUME NEW N \in Nat, NEW x \in [1..N -> Int], NEW R \in Nat, R > 0, N <= R,
         \A q \in 1..N : R * (x[q] * x[q]) < Modulus
  PROVE  Total(x) <= Total(Distances(x, N, 0)) /\ Total(Distances(x, N, 0)) < Modulus
<1>1. Modulus \in Nat /\ Modulus > 0
  BY StatisticsAssumption, Zenon
<1> HIDE DEF Modulus
<1> DEFINE d == Distances(x, N, 0)
           B == (Modulus - 1) \div R
           c == (Modulus - 1) % R
<1>2. Modulus - 1 \in Int
  BY <1>1
<1>3. B \in Int /\ c \in Nat /\ c < R /\ Modulus - 1 = R * B + c
  BY <1>2, Division, Zenon
<1> HIDE DEF B, c
<1>4. d \in [1..N -> Int] /\ \A q \in 1..N : d[q] = (x[q] - 0) * (x[q] - 0)
  BY DEF Distances
<1> HIDE DEF d
<1>5. ASSUME NEW q \in 1..N
      PROVE  d[q] <= B /\ x[q] <= d[q]
  <2> DEFINE y == x[q]
  <2>1. y \in Int /\ d[q] = (y - 0) * (y - 0) /\ R * (y * y) < Modulus
    BY <1>4, Zenon
  <2> HIDE DEF y
  <2>2. (y - 0) * (y - 0) = y * y
    BY <2>1
  <2>3. y * y \in Int /\ y <= y * y
    BY <2>1
  <2>4. R * (B + 1) = R * B + R /\ R * B \in Int /\ R * (y * y) \in Int /\ B + 1 \in Int
    BY <1>3, <2>3
  <2>5. R * (y * y) < R * (B + 1)
    <3> DEFINE u == R * (y * y)
               w == R * B
    <3>1. u \in Int /\ w \in Int /\ u < Modulus /\ Modulus - 1 = w + c /\ R * (B + 1) = w + R
      BY <1>3, <2>1, <2>4, Zenon
    <3> HIDE DEF u, w
    <3>2. u < w + R
      BY <1>1, <1>3, <3>1
    <3> QED
      BY <3>1, <3>2, Zenon DEF u
  <2>6. y * y < B + 1
    BY <2>3, <2>4, <2>5, Cancels, Zenon
  <2>7. y * y <= B
    BY <1>3, <2>3, <2>6
  <2> QED
    BY <2>1, <2>2, <2>3, <2>7, Zenon DEF y
<1>6. Total(x) <= Total(d)
  BY <1>4, <1>5, TotalMonotone, Zenon
<1>7. Total(d) <= N * B
  BY <1>3, <1>4, <1>5, TotalBound, Zenon
<1>8. 0 <= B
  <2>1. R * (0 - 1) < R * B
    <3>1. R * (0 - 1) = 0 - R /\ R * B \in Int
      BY <1>3
    <3> QED
      BY <1>1, <1>3, <3>1
  <2>2. 0 - 1 \in Int
    OBVIOUS
  <2>3. 0 - 1 < B
    BY <1>3, <2>1, <2>2, Cancels
  <2> QED
    BY <1>3, <2>3
<1>9. N * B <= R * B
  <2> DEFINE f == R - N
  <2>1. f \in Nat /\ R = N + f
    OBVIOUS
  <2> HIDE DEF f
  <2>2. (N + f) * B = N * B + f * B /\ N * B \in Int
    BY <1>3, <2>1
  <2>3. f * B \in Nat
    BY <1>3, <1>8, <2>1
  <2>4. R * B = (N + f) * B
    BY <2>1, Zenon
  <2> QED
    BY <2>2, <2>3, <2>4
<1>10. Total(d) \in Int
  BY <1>4, TotalIsNumber, Zenon
<1>11. N * B \in Int /\ R * B \in Int
  BY <1>3
<1>12. Total(d) < Modulus
  <2> DEFINE t == Total(d)
             u == N * B
             w == R * B
  <2>1. t \in Int /\ u \in Int /\ w \in Int /\ t <= u /\ u <= w /\ Modulus - 1 = w + c
    BY <1>3, <1>7, <1>9, <1>10, <1>11, Zenon
  <2> HIDE DEF t, u, w
  <2>2. t < Modulus
    BY <1>1, <1>3, <2>1
  <2> QED
    BY <2>2, Zenon DEF t
<1> QED
  BY <1>6, <1>12, Zenon DEF d

\* calculate_results_early_proc computes the mean and the variance of samples from their
\* sum and the sum of their squares.
LEMMA EarlyResult ==
  ASSUME NEW N \in Nat, N > 0, NEW x \in [1..N -> Int], NEW R \in Nat, N <= R,
         \A q \in 1..N : R * (x[q] * x[q]) < Modulus, Total(x) >= 0
  PROVE  LET r == calculate_results_early_proc(N, Wrap(Total(x)), Wrap(Total(Distances(x, N, 0))))
         IN  /\ r.mean * N <= Total(x) /\ Total(x) < (r.mean + 1) * N
             /\ r.variance = <<Total(Distances(x, N, r.mean)), N>>
<1> DEFINE d == Distances(x, N, 0)
           S == Total(x)
           Q == Total(d)
           m == S \div N
           r == calculate_results_early_proc(N, Wrap(S), Wrap(Q))
<1>1. d \in [1..N -> Int]
  BY DEF Distances
<1> HIDE DEF d
<1>2. S \in Int /\ Q \in Int
  BY <1>1, TotalIsNumber, Zenon
<1>3. R > 0
  OBVIOUS
<1>4. S <= Q /\ Q < Modulus
  BY <1>3, SumsFit, Zenon DEF d
<1>5. Modulus \in Nat
  BY StatisticsAssumption, Zenon
<1> HIDE DEF Modulus, Q, S
<1>6. 0 <= S /\ S < Modulus /\ 0 <= Q
  <2>1. S >= 0
    BY Zenon DEF S
  <2> QED
    BY <1>2, <1>4, <1>5, <2>1
<1>7. Wrap(S) = S /\ Wrap(Q) = Q
  BY <1>2, <1>4, <1>6, WrapKeeps, Zenon
<1>8. r.mean = m /\ r.variance = <<Q - 2 * m * S + N * m * m, N>>
  BY <1>7 DEF calculate_results_early_proc
<1>9. m \in Int /\ S % N \in Nat /\ S % N < N /\ S = N * m + (S % N)
  BY <1>2, Division, Zenon
<1> HIDE DEF m, r
<1>10. m * N <= S /\ S < (m + 1) * N
  <2>1. N * m = m * N /\ (m + 1) * N = m * N + N /\ m * N \in Int
    BY <1>9
  <2> QED
    BY <1>2, <1>9, <2>1
<1>11. Total(Distances(x, N, m)) = Q - 2 * m * S + N * m * m
  BY <1>9, TotalOfDistances, Zenon DEF Q, S, d
<1>12. /\ r.mean * N <= S /\ S < (r.mean + 1) * N
       /\ r.variance = <<Total(Distances(x, N, r.mean)), N>>
  BY <1>8, <1>10, <1>11, Zenon
<1> QED
  BY <1>12, Zenon DEF r, S, Q, d

-----------------------------------------------------------------------------
(* Quartiles.                                                              *)

\* A weighted mean of two numbers lies between them, and grows with the weight of the
\* larger one.
LEMMA Weighted ==
  ASSUME NEW A \in Int, NEW B \in Int, A <= B, NEW e \in 0..3, NEW f \in 0..3, e <= f
  PROVE  /\ (4 - e) * A + e * B \in Int
         /\ 4 * A <= (4 - e) * A + e * B /\ (4 - e) * A + e * B <= 4 * B
         /\ (4 - e) * A + e * B <= (4 - f) * A + f * B
<1>1. e \in {0, 1, 2, 3} /\ f \in {0, 1, 2, 3}
  OBVIOUS
<1>2. ASSUME NEW g \in {0, 1, 2, 3}
      PROVE  (4 - g) * A + g * B = 4 * A + g * (B - A)
  OBVIOUS
<1>3. ASSUME NEW g \in {0, 1, 2, 3}
      PROVE  g * (B - A) \in Int /\ 0 <= g * (B - A) /\ g * (B - A) <= 4 * (B - A)
  BY <1>3
<1>4. e * (B - A) <= f * (B - A)
  BY <1>1
<1> QED
  BY <1>1, <1>2, <1>3, <1>4

\* Four times the value at place a / 4, counted from 0, of n samples in order, between
\* which results_quantile interpolates.
At(s, n, a) ==
  LET lhs == a \div 4
      delta == a % 4
  IN  IF lhs = n - 1 THEN 4 * s[lhs + 1]
      ELSE (4 - delta) * s[lhs + 1] + delta * s[lhs + 2]

\* Values at later places are not smaller.
LEMMA LaterIsLarger ==
  ASSUME NEW n \in Nat, n > 0, NEW s \in [1..n -> Int],
         \A b, c \in 1..n : b <= c => s[b] <= s[c],
         NEW a \in 0..4 * (n - 1), NEW b \in a..4 * (n - 1)
  PROVE  At(s, n, a) <= At(s, n, b)
<1> DEFINE l == a \div 4
           e == a % 4
           m == b \div 4
           f == b % 4
           c == n - 1
<1>1. l \in Nat /\ e \in 0..3 /\ a = 4 * l + e
  OBVIOUS
<1>2. m \in Nat /\ f \in 0..3 /\ b = 4 * m + f
  OBVIOUS
<1>3. /\ At(s, n, a) = IF l = n - 1 THEN 4 * s[l + 1] ELSE (4 - e) * s[l + 1] + e * s[l + 2]
      /\ At(s, n, b) = IF m = n - 1 THEN 4 * s[m + 1] ELSE (4 - f) * s[m + 1] + f * s[m + 2]
  BY Zenon DEF At
<1>4. 4 * l + e <= 4 * m + f /\ 4 * m + f <= 4 * (n - 1)
  BY <1>1, <1>2
<1> HIDE DEF l, e, m, f
<1>5. CASE m = n - 1
  <2>1. m + 1 \in 1..n /\ s[m + 1] \in Int /\ 4 * s[m + 1] \in Int
    BY <1>2, <1>5
  <2>2. CASE l = n - 1
    BY <1>3, <1>5, <2>1, <2>2
  <2>3. CASE l # n - 1
    <3>1. l + 1 \in 1..n /\ l + 2 \in 1..n /\ l + 1 <= l + 2 /\ l + 2 <= m + 1
      BY <1>1, <1>4, <1>5, <2>3
    <3>2. /\ s[l + 1] \in Int /\ s[l + 2] \in Int
          /\ s[l + 1] <= s[l + 2] /\ s[l + 2] <= s[m + 1]
      BY <2>1, <3>1, Zenon
    <3>3. /\ (4 - e) * s[l + 1] + e * s[l + 2] \in Int
          /\ (4 - e) * s[l + 1] + e * s[l + 2] <= 4 * s[l + 2]
      <4>1. e <= e
        BY <1>1
      <4> QED
        BY <1>1, <3>2, <4>1, Weighted, Zenon
    <3>4. At(s, n, a) = (4 - e) * s[l + 1] + e * s[l + 2] /\ At(s, n, b) = 4 * s[m + 1]
      BY <1>3, <1>5, <2>3, Zenon
    <3> QED
      BY <2>1, <3>2, <3>3, <3>4
  <2> QED
    BY <2>2, <2>3, Zenon
<1>6. CASE m # n - 1
  <2>1. m + 1 \in 1..n /\ m + 2 \in 1..n /\ m + 1 <= m + 2
    BY <1>2, <1>4, <1>6
  <2>2. s[m + 1] \in Int /\ s[m + 2] \in Int /\ s[m + 1] <= s[m + 2]
    BY <2>1, Zenon
  <2>3. At(s, n, b) = (4 - f) * s[m + 1] + f * s[m + 2]
    BY <1>3, <1>6, Zenon
  <2>4. l # n - 1
    BY <1>1, <1>2, <1>4, <1>6
  <2>5. At(s, n, a) = (4 - e) * s[l + 1] + e * s[l + 2]
    BY <1>3, <2>4, Zenon
  <2>6. CASE l = m
    <3>1. e <= f
      BY <1>1, <1>2, <1>4, <2>6
    <3>2. (4 - e) * s[m + 1] + e * s[m + 2] <= (4 - f) * s[m + 1] + f * s[m + 2]
      BY <1>1, <1>2, <2>2, <3>1, Weighted, Zenon
    <3> QED
      BY <2>3, <2>5, <2>6, <3>2, Zenon
  <2>7. CASE l # m
    <3>1. l + 1 \in 1..n /\ l + 2 \in 1..n /\ l + 1 <= l + 2 /\ l + 2 <= m + 1
      BY <1>1, <1>2, <1>4, <1>6, <2>7
    <3>2. /\ s[l + 1] \in Int /\ s[l + 2] \in Int
          /\ s[l + 1] <= s[l + 2] /\ s[l + 2] <= s[m + 1]
      BY <2>1, <3>1, Zenon
    <3>3. e <= e /\ f <= f
      BY <1>1, <1>2
    <3>4. /\ (4 - e) * s[l + 1] + e * s[l + 2] \in Int
          /\ (4 - e) * s[l + 1] + e * s[l + 2] <= 4 * s[l + 2]
      BY <1>1, <3>2, <3>3, Weighted, Zenon
    <3>5. /\ (4 - f) * s[m + 1] + f * s[m + 2] \in Int
          /\ 4 * s[m + 1] <= (4 - f) * s[m + 1] + f * s[m + 2]
      BY <1>2, <2>2, <3>3, Weighted, Zenon
    <3> QED
      BY <2>2, <2>3, <2>5, <3>2, <3>4, <3>5
  <2> QED
    BY <2>6, <2>7, Zenon
<1> QED
  BY <1>5, <1>6, Zenon

\* The smallest and the largest of samples in order, their quartiles and the sum of the
\* middle ones are in order.
LEMMA QuartilesInOrder ==
  ASSUME NEW n \in Nat, n > 0, NEW s \in [1..n -> Int],
         \A b, c \in 1..n : b <= c => s[b] <= s[c]
  PROVE  LET mid == s[(n - 1) \div 2 + 1] + s[n \div 2 + 1]
         IN  /\ 4 * s[1] <= FourQuantile(s, 1) /\ FourQuantile(s, 1) <= 2 * mid
             /\ 2 * mid <= FourQuantile(s, 3) /\ FourQuantile(s, 3) <= 4 * s[n]
<1> DEFINE mid == s[(n - 1) \div 2 + 1] + s[n \div 2 + 1]
<1>1. Len(s) = n
  OBVIOUS
<1>2. FourQuantile(s, 1) = At(s, n, 1 * (n - 1)) /\ FourQuantile(s, 3) = At(s, n, 3 * (n - 1))
  BY <1>1, Zenon DEF FourQuantile, At
<1>3. At(s, n, 0) = 4 * s[1]
  <2>1. 0 \div 4 = 0 /\ 0 % 4 = 0 /\ 0 + 1 = 1
    OBVIOUS
  <2>2. CASE n = 1
    BY <2>1, <2>2 DEF At
  <2>3. CASE n # 1
    <3>1. At(s, n, 0) = (4 - 0) * s[1] + 0 * s[2] /\ s[1] \in Int /\ s[2] \in Int
      BY <2>1, <2>3 DEF At
    <3> QED
      BY <3>1
  <2> QED
    BY <2>2, <2>3, Zenon
<1>4. At(s, n, 4 * (n - 1)) = 4 * s[n]
  <2>1. (4 * (n - 1)) \div 4 = n - 1 /\ (n - 1) + 1 = n
    OBVIOUS
  <2> QED
    BY <2>1, Zenon DEF At
<1>5. At(s, n, 2 * (n - 1)) = 2 * mid
  <2> DEFINE h == (n - 1) \div 2
  <2>1. h \in Nat /\ h + 1 \in 1..n /\ (2 * (n - 1)) \div 4 = h
    OBVIOUS
  <2>2. CASE (n - 1) % 2 = 0
    <3>1. (2 * (n - 1)) % 4 = 0 /\ n \div 2 = h
      BY <2>2
    <3> HIDE DEF h
    <3>2. s[h + 1] \in Int
      BY <2>1, Zenon
    <3>3. mid = s[h + 1] + s[h + 1]
      BY <3>1, Zenon DEF h
    <3>4. CASE h = n - 1
      BY <2>1, <3>2, <3>3, <3>4 DEF At
    <3>5. CASE h # n - 1
      <4>1. At(s, n, 2 * (n - 1)) = (4 - 0) * s[h + 1] + 0 * s[h + 2] /\ s[h + 2] \in Int
        BY <2>1, <3>1, <3>5 DEF At
      <4> QED
        BY <3>2, <3>3, <4>1
    <3> QED
      BY <3>4, <3>5, Zenon
  <2>3. CASE (n - 1) % 2 # 0
    <3>1. (2 * (n - 1)) % 4 = 2 /\ n \div 2 = h + 1 /\ h # n - 1 /\ h + 2 \in 1..n /\ (h + 1) + 1 = h + 2
      BY <2>3
    <3> HIDE DEF h
    <3>2. s[h + 1] \in Int /\ s[h + 2] \in Int
      BY <2>1, <3>1, Zenon
    <3>3. mid = s[h + 1] + s[h + 2]
      BY <3>1, Zenon DEF h
    <3>4. At(s, n, 2 * (n - 1)) = (4 - 2) * s[h + 1] + 2 * s[h + 2]
      BY <2>1, <3>1, Zenon DEF At
    <3> QED
      BY <3>2, <3>3, <3>4
  <2> QED
    BY <2>2, <2>3, Zenon
<1> HIDE DEF mid
<1>6. /\ 0 \in 0..4 * (n - 1) /\ 1 * (n - 1) \in 0..4 * (n - 1)
      /\ 2 * (n - 1) \in 0..4 * (n - 1) /\ 3 * (n - 1) \in 0..4 * (n - 1)
      /\ 1 * (n - 1) \in 0..4 * (n - 1) /\ 2 * (n - 1) \in 1 * (n - 1)..4 * (n - 1)
      /\ 3 * (n - 1) \in 2 * (n - 1)..4 * (n - 1)
      /\ 4 * (n - 1) \in 3 * (n - 1)..4 * (n - 1)
  OBVIOUS
<1>7. /\ At(s, n, 0) <= At(s, n, 1 * (n - 1))
      /\ At(s, n, 1 * (n - 1)) <= At(s, n, 2 * (n - 1))
      /\ At(s, n, 2 * (n - 1)) <= At(s, n, 3 * (n - 1))
      /\ At(s, n, 3 * (n - 1)) <= At(s, n, 4 * (n - 1))
  BY <1>6, LaterIsLarger
<1> QED
  BY <1>2, <1>3, <1>4, <1>5, <1>7, Zenon DEF mid

INSTANCE FiniteSetTheorems

-----------------------------------------------------------------------------
(* Sorting.                                                                *)

\* A sequence without its first g values.
LEMMA Dropped ==
  ASSUME NEW N \in Nat, NEW s \in [1..N -> Int], NEW g \in 0..N - 1
  PROVE  /\ SubSeq(s, g + 1, N) = [j \in 1..N - g |-> s[g + j]]
         /\ SubSeq(s, g + 1, N) \in [1..N - g -> Int]
<1> DEFINE u == SubSeq(s, g + 1, N)
           w == [j \in 1..N - g |-> s[g + j]]
<1>1. s \in Seq(Int) /\ Len(s) = N
  OBVIOUS
<1>2. u \in Seq(Int) /\ Len(u) = N - g /\ N - g \in Nat
  BY <1>1
<1>3. \A j \in 1..N - g : u[j] = s[g + j]
  BY <1>1
<1> HIDE DEF u
<1>4. u \in [1..N - g -> Int]
  BY <1>2
<1>5. u = w
  BY <1>3, <1>4, Zenon
<1> QED
  BY <1>4, <1>5, Zenon DEF u

\* The samples at or before sample j in the order.
Before(x, N, j) == {l \in 1..N : x[l] < x[j] \/ (x[l] = x[j] /\ l <= j)}

\* A rank is a place.
LEMMA RankIsPlace ==
  ASSUME NEW N \in Nat, NEW x \in [1..N -> Int], NEW j \in 1..N
  PROVE  /\ Rank(x, j) = Cardinality(Before(x, N, j))
         /\ IsFiniteSet(Before(x, N, j))
         /\ Rank(x, j) \in 1..N
<1>1. DOMAIN x = 1..N
  BY Zenon
<1>2. Rank(x, j) = Cardinality(Before(x, N, j))
  BY <1>1, Zenon DEF Rank, Before
<1>3. IsFiniteSet(1..N) /\ Cardinality(1..N) = N
  BY FS_Interval
<1>4. Before(x, N, j) \in SUBSET (1..N)
  BY Zenon DEF Before
<1>5. IsFiniteSet(Before(x, N, j)) /\ Cardinality(Before(x, N, j)) <= N
  BY <1>3, <1>4, FS_Subset
<1>6. j \in Before(x, N, j)
  BY DEF Before
<1>7. Cardinality(Before(x, N, j)) \in Nat /\ Cardinality(Before(x, N, j)) # 0
  BY <1>5, <1>6, FS_CardinalityType, FS_EmptySet, Zenon
<1> QED
  BY <1>2, <1>5, <1>7

\* A sample that comes first has the smaller rank.
LEMMA RankOrders ==
  ASSUME NEW N \in Nat, NEW x \in [1..N -> Int], NEW a \in 1..N, NEW b \in 1..N,
         x[a] < x[b] \/ (x[a] = x[b] /\ a < b)
  PROVE  Rank(x, a) < Rank(x, b)
<1>1. Before(x, N, a) \in SUBSET Before(x, N, b)
  BY DEF Before
<1>2. b \in Before(x, N, b) /\ b \notin Before(x, N, a)
  BY DEF Before
<1>3. /\ Rank(x, a) = Cardinality(Before(x, N, a)) /\ Rank(x, a) \in 1..N
      /\ Rank(x, b) = Cardinality(Before(x, N, b)) /\ Rank(x, b) \in 1..N
      /\ IsFiniteSet(Before(x, N, b))
  BY RankIsPlace, Zenon
<1>4. /\ Cardinality(Before(x, N, a)) <= Cardinality(Before(x, N, b))
      /\ Cardinality(Before(x, N, a)) # Cardinality(Before(x, N, b))
  <2>1. Before(x, N, a) # Before(x, N, b)
    BY <1>2, Zenon
  <2> QED
    BY <1>1, <1>3, <2>1, FS_Subset, Zenon
<1> QED
  BY <1>3, <1>4

\* Every place is the rank of a sample, and of one only.
LEMMA RanksAreAll ==
  ASSUME NEW N \in Nat, NEW x \in [1..N -> Int]
  PROVE  /\ \A a, b \in 1..N : Rank(x, a) = Rank(x, b) => a = b
         /\ \A r \in 1..N : \E a \in 1..N : Rank(x, a) = r
<1>1. \A a \in 1..N : Rank(x, a) \in 1..N
  BY RankIsPlace, Zenon
<1>2. ASSUME NEW a \in 1..N, NEW b \in 1..N, Rank(x, a) = Rank(x, b), a # b
      PROVE  FALSE
  <2>1. \/ x[a] < x[b] \/ (x[a] = x[b] /\ a < b)
        \/ x[b] < x[a] \/ (x[b] = x[a] /\ b < a)
    BY <1>2
  <2>2. Rank(x, a) < Rank(x, b) \/ Rank(x, b) < Rank(x, a)
    BY <2>1, RankOrders, Zenon
  <2> QED
    BY <1>1, <1>2, <2>2
<1> DEFINE f == [a \in 1..N |-> Rank(x, a)]
<1>3. f \in Injection(1..N, 1..N)
  BY <1>1, <1>2, Zenon DEF Injection, IsInjective
<1>4. IsFiniteSet(1..N)
  BY FS_Interval
<1>5. f \in Surjection(1..N, 1..N)
  BY <1>3, <1>4, FS_Injection, Zenon
<1>6. \A r \in 1..N : \E a \in 1..N : f[a] = r
  BY <1>5, Zenon DEF Surjection
<1> QED
  BY <1>2, <1>6, Zenon

\* The order in which qsort puts the samples x, of which there are N.
Order(x, N) == [r \in 1..N |-> CHOOSE j \in 1..N : Rank(x, j) = r]

\* qsort puts the samples in order: it permutes them, so that none is lost and none is
\* there twice, and each is at the place of its rank.
LEMMA QsortSorts ==
  ASSUME NEW N \in Nat, NEW x \in [1..N -> Int]
  PROVE  /\ Permutes(Order(x, N), N)
         /\ \A r \in 1..N : Rank(x, Order(x, N)[r]) = r
         /\ qsort(x) = [r \in 1..N |-> x[Order(x, N)[r]]]
         /\ qsort(x) \in [1..N -> Int]
         /\ \A r, q \in 1..N : r <= q => qsort(x)[r] <= qsort(x)[q]
<1> DEFINE p == Order(x, N)
<1>1. DOMAIN x = 1..N /\ Len(x) = N
  OBVIOUS
<1>2. ASSUME NEW r \in 1..N
      PROVE  p[r] \in 1..N /\ Rank(x, p[r]) = r
  <2>1. \E a \in 1..N : Rank(x, a) = r
    BY RanksAreAll, Zenon
  <2>2. p[r] = CHOOSE j \in 1..N : Rank(x, j) = r
    BY Zenon DEF Order
  <2> QED
    BY <2>1, <2>2, Zenon
<1>3. p \in [1..N -> 1..N]
  BY <1>2, Zenon DEF Order
<1>4. Permutes(p, N)
  <2>1. ASSUME NEW a \in 1..N, NEW b \in 1..N, p[a] = p[b]
        PROVE  a = b
    BY <1>2, <2>1, Zenon
  <2>2. ASSUME NEW b \in 1..N
        PROVE  \E a \in 1..N : p[a] = b
    <3>1. Rank(x, b) \in 1..N
      BY RankIsPlace, Zenon
    <3>2. p[Rank(x, b)] = b
      <4>1. p[Rank(x, b)] \in 1..N /\ Rank(x, p[Rank(x, b)]) = Rank(x, b)
        BY <1>2, <3>1, Zenon
      <4>2. \A c, d \in 1..N : Rank(x, c) = Rank(x, d) => c = d
        BY RanksAreAll, Zenon
      <4> HIDE DEF p
      <4> QED
        BY <4>1, <4>2, Zenon
    <3> QED
      BY <3>1, <3>2, Zenon
  <2> QED
    BY <1>3, <2>1, <2>2, Zenon DEF Permutes
<1> DEFINE y == [r \in 1..N |-> x[p[r]]]
<1>5. y \in [1..N -> Int]
  BY <1>3, Zenon
<1>6. qsort(x) = y
  <2>1. y = [r \in DOMAIN x |-> x[CHOOSE j \in DOMAIN x : Rank(x, j) = r]]
    <3>1. y = [r \in 1..N |-> x[CHOOSE j \in 1..N : Rank(x, j) = r]]
      BY DEF Order
    <3>2. \A D : D = 1..N => y = [r \in D |-> x[CHOOSE j \in D : Rank(x, j) = r]]
      BY <3>1
    <3> HIDE DEF y
    <3> QED
      BY <1>1, <3>2
  <2>2. qsort(x) = SubSeq(y, 1, N)
    BY <1>1, <2>1, Zenon DEF qsort
  <2>3. SubSeq(y, 1, N) = y
    <3> HIDE DEF y
    <3> QED
      BY <1>5
  <2> QED
    BY <2>2, <2>3, Zenon
<1>7. ASSUME NEW r \in 1..N, NEW q \in 1..N, r <= q
      PROVE  y[r] <= y[q]
  <2>1. p[r] \in 1..N /\ p[q] \in 1..N /\ x[p[r]] \in Int /\ x[p[q]] \in Int
    BY <1>2, Zenon
  <2>2. CASE x[p[q]] < x[p[r]]
    <3>1. Rank(x, p[q]) < Rank(x, p[r])
      BY <2>1, <2>2, RankOrders, Zenon
    <3> QED
      BY <1>2, <1>7, <3>1
  <2>3. CASE ~ (x[p[q]] < x[p[r]])
    <3>1. x[p[r]] <= x[p[q]]
      BY <2>1, <2>3
    <3> QED
      BY <3>1, Zenon
  <2> QED
    BY <2>2, <2>3, Zenon
<1> QED
  BY <1>2, <1>4, <1>5, <1>6, <1>7, Zenon

\* The sample that has a place, by counting the smaller ones, is the one that qsort puts
\* there.
LEMMA RankedSample ==
  ASSUME NEW N \in Nat, NEW x \in [1..N -> Int], NEW j \in 1..N, NEW r \in 0..N - 1,
         Cardinality({l \in 1..N : x[l] < x[j]}) <= r,
         Cardinality({l \in 1..N : x[l] <= x[j]}) > r
  PROVE  qsort(x)[r + 1] = x[j]
<1> DEFINE c == Order(x, N)[r + 1]
           L == {l \in 1..N : x[l] < x[j]}
           G == {l \in 1..N : x[l] <= x[j]}
<1>1. r + 1 \in 1..N /\ r \in Nat
  OBVIOUS
<1>2. /\ c \in 1..N /\ Rank(x, c) = r + 1 /\ qsort(x)[r + 1] = x[c]
  <2> DEFINE p == Order(x, N)
  <2>1. /\ Permutes(p, N)
        /\ \A q \in 1..N : Rank(x, p[q]) = q
        /\ qsort(x) = [q \in 1..N |-> x[p[q]]]
    BY QsortSorts, Zenon
  <2>2. p \in [1..N -> 1..N]
    BY <2>1, Zenon DEF Permutes
  <2> HIDE DEF p
  <2>3. p[r + 1] \in 1..N /\ Rank(x, p[r + 1]) = r + 1 /\ qsort(x)[r + 1] = x[p[r + 1]]
    BY <1>1, <2>1, <2>2, Zenon
  <2> QED
    BY <2>3, Zenon DEF p
<1> HIDE DEF c
<1>3. /\ Cardinality(Before(x, N, c)) = r + 1 /\ IsFiniteSet(Before(x, N, c))
  BY <1>2, RankIsPlace, Zenon
<1>4. IsFiniteSet(1..N)
  BY FS_Interval
<1>5. IsFiniteSet(L) /\ Cardinality(L) \in Nat /\ IsFiniteSet(G) /\ Cardinality(G) \in Nat
  <2>1. L \in SUBSET (1..N) /\ G \in SUBSET (1..N)
    BY Zenon
  <2> QED
    BY <1>4, <2>1, FS_Subset, FS_CardinalityType, Zenon
<1>6. ASSUME x[c] < x[j]
      PROVE  FALSE
  <2>1. Before(x, N, c) \in SUBSET L
    BY <1>2, <1>6 DEF Before
  <2>2. Cardinality(Before(x, N, c)) <= Cardinality(L)
    BY <1>5, <2>1, FS_Subset, Zenon
  <2> HIDE DEF L
  <2>3. Cardinality(L) <= r
    BY Zenon DEF L
  <2> QED
    BY <1>1, <1>3, <1>5, <2>2, <2>3
<1>7. ASSUME x[j] < x[c]
      PROVE  FALSE
  <2> DEFINE B == Before(x, N, c) \ {c}
  <2>1. G \in SUBSET B
    BY <1>2, <1>7 DEF Before
  <2>2. c \in Before(x, N, c)
    BY <1>2 DEF Before
  <2>3. IsFiniteSet(B) /\ Cardinality(B) = Cardinality(Before(x, N, c)) - 1
    BY <1>3, <2>2, FS_RemoveElement, Zenon
  <2>4. Cardinality(G) <= Cardinality(B)
    BY <2>1, <2>3, FS_Subset, Zenon
  <2> HIDE DEF B, G
  <2>5. Cardinality(G) > r
    BY Zenon DEF G
  <2> QED
    BY <1>1, <1>3, <1>5, <2>3, <2>4, <2>5
<1> QED
  BY <1>2, <1>6, <1>7

-----------------------------------------------------------------------------
(* Results.                                                                *)

\* results_stable, which compares neighbours, finds out whether all samples are equal.
LEMMA StableIsEqual ==
  ASSUME NEW N \in Nat, NEW s \in [1..N -> Int]
  PROVE  results_stable(s) <=> \A b, c \in 1..N : s[b] = s[c]
<1>1. Len(s) = N
  OBVIOUS
<1>2. ASSUME \A b, c \in 1..N : s[b] = s[c]
      PROVE  results_stable(s)
  <2>1. \A q \in 2..N : q \in 1..N /\ q - 1 \in 1..N
    OBVIOUS
  <2>2. \A q \in 2..N : s[q] = s[q - 1]
    BY <1>2, <2>1, Zenon
  <2> QED
    BY <1>1, <2>2, Zenon DEF results_stable
<1>3. ASSUME results_stable(s)
      PROVE  \A b \in 1..N : s[b] = s[1]
  <2>1. \A q \in 2..N : s[q] = s[q - 1]
    BY <1>1, <1>3, Zenon DEF results_stable
  <2> DEFINE T == {n \in 0..N : n = 0 \/ s[n] = s[1]}
  <2>2. 0 \in T
    OBVIOUS
  <2>3. ASSUME NEW n \in 0..N, n # N, n \in T
        PROVE  n + 1 \in T
    <3>1. n + 1 \in 0..N
      BY <2>3
    <3>2. CASE n = 0
      <4>1. s[n + 1] = s[1]
        BY <3>2
      <4> QED
        BY <3>1, <4>1, Zenon
    <3>3. CASE n # 0
      <4>1. n + 1 \in 2..N /\ (n + 1) - 1 = n
        BY <2>3, <3>3
      <4>2. s[n + 1] = s[n]
        BY <2>1, <4>1
      <4>3. s[n] = s[1]
        BY <2>3, <3>3, Zenon
      <4> QED
        BY <3>1, <4>2, <4>3, Zenon
    <3> QED
      BY <3>2, <3>3, Zenon
  <2>4. \A n \in 0..N : n \in T
    <3> HIDE DEF T
    <3> QED
      BY <2>2, <2>3, Counting, Zenon
  <2>5. \A b \in 1..N : b \in 0..N /\ b # 0
    OBVIOUS
  <2> QED
    BY <2>4, <2>5, Zenon
<1> QED
  BY <1>2, <1>3, Zenon

\* The samples a without the first g, each reduced by o.
Reduced(a, N, g, o) == [q \in 1..N - g |-> Wrap(a[g + q] - o)]

\* The samples a without the first g are refused: they ought to be stable and are not.
Refused(a, N, g, desc) ==
  desc.stable /\ ~AllowUnstable /\ (\E b, c \in g + 1..N : a[b] # a[c])

\* What becomes of the samples a.
Outcome(a, N, desc) ==
  IF Refused(a, N, desc.ignored, desc) THEN ZeroResult
  ELSE calculate_results(Reduced(a, N, desc.ignored, desc.overhead))

\* process_result drops the ignored samples, refuses the others if they are not all the
\* same and ought to be, and reduces them by the overhead.
LEMMA ProcessedResult ==
  ASSUME NEW N \in Nat, NEW a \in [1..N -> Int],
         NEW desc, desc.ignored \in 0..N - 1, desc.overhead \in Int
  PROVE  process_result(a, desc) = Outcome(a, N, desc)
<1> DEFINE g == desc.ignored
           o == desc.overhead
<1>0. g \in 0..N - 1 /\ o \in Int
  BY Zenon
<1> HIDE DEF g, o
<1> USE <1>0
<1>1. Len(a) = N /\ DOMAIN a = 1..N /\ g + 1 \in 1..N /\ N - (g + 1) + 1 = N - g /\ N - g \in Nat
  OBVIOUS
<1> DEFINE d == [q \in 1..N |-> Wrap(a[q] - o)]
<1>2. d \in [1..N -> Int]
  <2>1. ASSUME NEW q \in 1..N
        PROVE  Wrap(a[q] - o) \in Int
    <3>1. a[q] - o \in Int
      OBVIOUS
    <3>2. Wrap(a[q] - o) \in 0..Modulus - 1
      BY <3>1, WrapIsWord, Zenon
    <3>3. Modulus \in Nat
      BY StatisticsAssumption, Zenon
    <3> QED
      BY <3>2, <3>3
  <2> QED
    BY <2>1, Zenon
<1>3. process_result(a, desc)
        = IF desc.stable /\ ~results_stable(SubSeq(a, g + 1, N)) /\ ~AllowUnstable
          THEN ZeroResult ELSE calculate_results(SubSeq(d, g + 1, N))
  <2>1. [q \in DOMAIN a |-> Wrap(a[q] - desc.overhead)] = d
    BY <1>1, Zenon DEF o
  <2> HIDE DEF d
  <2>2. desc.ignored + 1 = g + 1
    BY Zenon DEF g
  <2> QED
    BY <1>1, <2>1, <2>2, Zenon DEF process_result
<1>4. SubSeq(d, g + 1, N) = Reduced(a, N, g, o)
  <2>1. SubSeq(d, g + 1, N) = [q \in 1..N - g |-> d[g + q]]
    <3> HIDE DEF d
    <3> QED
      BY <1>2, Dropped, Zenon
  <2>2. \A q \in 1..N - g : g + q \in 1..N
    OBVIOUS
  <2>3. \A q \in 1..N - g : d[g + q] = Wrap(a[g + q] - o)
    BY <2>2, Zenon
  <2> QED
    BY <2>1, <2>3, Zenon DEF Reduced
<1>5. results_stable(SubSeq(a, g + 1, N)) <=> \A b, c \in g + 1..N : a[b] = a[c]
  <2> DEFINE s == SubSeq(a, g + 1, N)
             n == N - g
  <2>1. s = [q \in 1..n |-> a[g + q]] /\ s \in [1..n -> Int]
    BY Dropped, Zenon
  <2>2. n \in Nat
    OBVIOUS
  <2>3. \A b \in g + 1..N : b - g \in 1..n /\ g + (b - g) = b
    OBVIOUS
  <2>4. \A q \in 1..n : g + q \in g + 1..N
    OBVIOUS
  <2> HIDE DEF s, n
  <2>5. \A q \in 1..n : s[q] = a[g + q]
    BY <2>1, Zenon
  <2>6. results_stable(s) <=> \A b, c \in 1..n : s[b] = s[c]
    BY <2>1, <2>2, StableIsEqual
  <2>7. ASSUME \A b, c \in 1..n : s[b] = s[c]
        PROVE  \A b, c \in g + 1..N : a[b] = a[c]
    <3>1. ASSUME NEW b \in g + 1..N, NEW c \in g + 1..N
          PROVE  a[b] = a[c]
      <4>1. b - g \in 1..n /\ c - g \in 1..n
        BY <2>3, Zenon
      <4>2. s[b - g] = a[g + (b - g)] /\ s[c - g] = a[g + (c - g)] /\ s[b - g] = s[c - g]
        BY <2>5, <2>7, <4>1, Zenon
      <4> QED
        BY <2>3, <4>2, Zenon
    <3> QED
      BY <3>1, Zenon
  <2>8. ASSUME \A b, c \in g + 1..N : a[b] = a[c]
        PROVE  \A b, c \in 1..n : s[b] = s[c]
    <3>1. ASSUME NEW b \in 1..n, NEW c \in 1..n
          PROVE  s[b] = s[c]
      <4>1. g + b \in g + 1..N /\ g + c \in g + 1..N
        BY <2>4, Zenon
      <4> QED
        BY <2>5, <2>8, <4>1, Zenon
    <3> QED
      BY <3>1, Zenon
  <2> QED
    BY <2>6, <2>7, <2>8, Zenon DEF s
<1> HIDE DEF d
<1>6. CASE \A b, c \in g + 1..N : a[b] = a[c]
  BY <1>3, <1>4, <1>5, <1>6, Zenon DEF Refused, Outcome, g, o
<1>7. CASE ~ (\A b, c \in g + 1..N : a[b] = a[c])
  BY <1>3, <1>4, <1>5, <1>7, Zenon DEF Refused, Outcome, g, o
<1> QED
  BY <1>6, <1>7, Zenon

\* The smallest of the results is a sample, and the smallest.
LEMMA CalculatedMin ==
  ASSUME NEW N \in Nat, N > 0, NEW x \in [1..N -> Int]
  PROVE  /\ \E q \in 1..N : calculate_results(x).min = x[q]
         /\ \A q \in 1..N : calculate_results(x).min <= x[q]
<1> DEFINE y == qsort(x)
           p == Order(x, N)
<1>1. /\ Permutes(p, N) /\ y = [r \in 1..N |-> x[p[r]]]
      /\ \A r, q \in 1..N : r <= q => y[r] <= y[q]
  BY QsortSorts, Zenon
<1>2. calculate_results(x).min = y[1]
  BY DEF calculate_results
<1> HIDE DEF y, p
<1>3. p \in [1..N -> 1..N] /\ \A b \in 1..N : \E c \in 1..N : p[c] = b
  BY <1>1, Zenon DEF Permutes
<1>4. 1 \in 1..N /\ \A q \in 1..N : 1 <= q
  OBVIOUS
<1>5. \E q \in 1..N : y[1] = x[q]
  BY <1>1, <1>3, <1>4, Zenon
<1>6. \A q \in 1..N : y[1] <= x[q]
  BY <1>1, <1>3, <1>4, Zenon
<1> QED
  BY <1>2, <1>5, <1>6, Zenon

\* The mean and the variance of the results are those of the samples, rounded.
LEMMA CalculatedMean ==
  ASSUME NEW N \in Nat, N > 0, NEW x \in [1..N -> Int]
  PROVE  LET m == calculate_results(x).mean
             v == calculate_results(x).variance
             d == Total(Distances(x, N, m))
         IN  /\ m \in Int /\ v \in Int
             /\ 2 * N * m - N <= 2 * Total(x) /\ 2 * Total(x) < 2 * N * m + N
             /\ 2 * N * v - N <= 2 * d /\ 2 * d < 2 * N * v + N
<1> DEFINE y == qsort(x)
           p == Order(x, N)
           m == calculate_results(x).mean
           v == calculate_results(x).variance
<1>1. /\ Permutes(p, N) /\ y = [r \in 1..N |-> x[p[r]]] /\ y \in [1..N -> Int]
  BY QsortSorts, Zenon
<1>2. m = Round(RunningMean(y))
  BY DEF calculate_results, results_mean
<1>3. v = results_variance(y, m)
  BY DEF calculate_results
<1> HIDE DEF y, p, m, v
<1>4. DOMAIN y = 1..N
  BY <1>1, Zenon
<1>5. v = Round(RunningMean(Distances(y, N, m)))
  BY <1>3, <1>4 DEF results_variance, Distances
<1>6. /\ m \in Int
      /\ 2 * N * m - N <= 2 * Total(y) /\ 2 * Total(y) < 2 * N * m + N
  BY <1>1, <1>2, RoundedMean, Zenon
<1>7. Total(y) = Total(x)
  BY <1>1, TotalPermuted, Zenon
<1>8. Distances(y, N, m) \in [1..N -> Int] /\ Distances(x, N, m) \in [1..N -> Int]
  <2> HIDE DEF m
  <2>1. y \in [1..N -> Int] /\ m \in Int
    BY <1>1, <1>6, Zenon
  <2> QED
    BY <2>1 DEF Distances
<1>9. LET d == Total(Distances(y, N, m))
      IN  v \in Int /\ 2 * N * v - N <= 2 * d /\ 2 * d < 2 * N * v + N
  BY <1>5, <1>8, RoundedMean, Zenon
<1>10. Distances(y, N, m) = [q \in 1..N |-> Distances(x, N, m)[p[q]]]
  <2>1. p \in [1..N -> 1..N]
    BY <1>1, Zenon DEF Permutes
  <2>2. \A q \in 1..N : p[q] \in 1..N /\ y[q] = x[p[q]]
    BY <1>1, <2>1, Zenon
  <2> QED
    BY <2>2, Zenon DEF Distances
<1>11. Total(Distances(y, N, m)) = Total(Distances(x, N, m))
  <2> DEFINE d == Distances(x, N, m)
  <2>1. d \in [1..N -> Int]
    BY <1>8, Zenon
  <2>2. Distances(y, N, m) = [q \in 1..N |-> d[p[q]]]
    BY <1>10, Zenon
  <2> HIDE DEF d
  <2>3. Permutes(p, N)
    BY <1>1, Zenon
  <2>4. Total([q \in 1..N |-> d[p[q]]]) = Total(d)
    BY <2>1, <2>3, TotalPermuted, Zenon
  <2> QED
    BY <2>2, <2>4, Zenon DEF d
<1> QED
  BY <1>6, <1>7, <1>9, <1>11, Zenon DEF m, v

\* The order statistics of the results are in order, and the median is that of the
\* samples.
LEMMA CalculatedOrder ==
  ASSUME NEW N \in Nat, N > 0, NEW x \in [1..N -> Int],
         \A q \in 1..N : 0 <= x[q] /\ 2 * x[q] < Modulus
  PROVE  LET r == calculate_results(x)
         IN  /\ 4 * r.min <= r.first_quantile /\ r.first_quantile <= 2 * r.median
             /\ 2 * r.median <= r.third_quantile /\ r.third_quantile <= 4 * r.max
             /\ \A b, c \in 1..N :
                  /\ Cardinality({l \in 1..N : x[l] < x[b]}) <= (N - 1) \div 2
                  /\ Cardinality({l \in 1..N : x[l] <= x[b]}) > (N - 1) \div 2
                  /\ Cardinality({l \in 1..N : x[l] < x[c]}) <= N \div 2
                  /\ Cardinality({l \in 1..N : x[l] <= x[c]}) > N \div 2
                  => r.median = x[b] + x[c]
<1> DEFINE y == qsort(x)
           p == Order(x, N)
           r == calculate_results(x)
           g == (N - 1) \div 2
           h == N \div 2
<1>1. /\ Permutes(p, N) /\ y = [q \in 1..N |-> x[p[q]]] /\ y \in [1..N -> Int]
      /\ \A b, c \in 1..N : b <= c => y[b] <= y[c]
  BY QsortSorts, Zenon
<1>2. Len(x) = N
  OBVIOUS
<1>3. /\ r.min = y[1] /\ r.max = y[N] /\ r.median = DoubleMedian(y)
      /\ r.first_quantile = FourQuantile(y, 1) /\ r.third_quantile = FourQuantile(y, 3)
  BY <1>2 DEF calculate_results
<1>4. g \in 0..N - 1 /\ h \in 0..N - 1 /\ g + 1 \in 1..N /\ h + 1 \in 1..N
  OBVIOUS
<1> HIDE DEF y, p, r
<1>5. \A q \in 1..N : y[q] \in Int /\ 0 <= y[q] /\ 2 * y[q] < Modulus
  <2>1. p \in [1..N -> 1..N]
    BY <1>1, Zenon DEF Permutes
  <2> QED
    BY <1>1, <2>1, Zenon
<1>6. Len(y) = N
  BY <1>1
<1>7. DoubleMedian(y) = IF g = h THEN 2 * y[g + 1] ELSE Wrap(y[g + 1] + y[h + 1])
  BY <1>6, Zenon DEF DoubleMedian
<1>8. /\ 4 * y[1] <= FourQuantile(y, 1) /\ FourQuantile(y, 1) <= 2 * (y[g + 1] + y[h + 1])
      /\ 2 * (y[g + 1] + y[h + 1]) <= FourQuantile(y, 3) /\ FourQuantile(y, 3) <= 4 * y[N]
  BY <1>1, QuartilesInOrder, Zenon
<1> HIDE DEF g, h
<1>9. /\ y[g + 1] \in Int /\ 0 <= y[g + 1] /\ 2 * y[g + 1] < Modulus
      /\ y[h + 1] \in Int /\ 0 <= y[h + 1] /\ 2 * y[h + 1] < Modulus
  BY <1>4, <1>5, Zenon
<1>10. Modulus \in Nat
  BY StatisticsAssumption, Zenon
<1>11. r.median = y[g + 1] + y[h + 1]
  <2>1. CASE g = h
    BY <1>3, <1>7, <1>9, <2>1
  <2>2. CASE g # h
    <3> HIDE DEF Modulus
    <3>1. y[g + 1] + y[h + 1] \in Int /\ 0 <= y[g + 1] + y[h + 1] /\ y[g + 1] + y[h + 1] < Modulus
      BY <1>9, <1>10, SMTT(90)
    <3>2. Wrap(y[g + 1] + y[h + 1]) = y[g + 1] + y[h + 1]
      BY <3>1, WrapKeeps, Zenon
    <3> QED
      BY <1>3, <1>7, <2>2, <3>2, Zenon
  <2> QED
    BY <2>1, <2>2, Zenon
<1>12. ASSUME NEW b \in 1..N, NEW c \in 1..N,
              Cardinality({l \in 1..N : x[l] < x[b]}) <= g,
              Cardinality({l \in 1..N : x[l] <= x[b]}) > g,
              Cardinality({l \in 1..N : x[l] < x[c]}) <= h,
              Cardinality({l \in 1..N : x[l] <= x[c]}) > h
       PROVE  r.median = x[b] + x[c]
  <2>1. y[g + 1] = x[b]
    BY <1>4, <1>12, RankedSample, Zenon DEF y
  <2>2. y[h + 1] = x[c]
    BY <1>4, <1>12, RankedSample, Zenon DEF y
  <2> QED
    BY <1>11, <2>1, <2>2, Zenon
<1>13. /\ 4 * r.min <= r.first_quantile /\ r.first_quantile <= 2 * r.median
       /\ 2 * r.median <= r.third_quantile /\ r.third_quantile <= 4 * r.max
  BY <1>3, <1>8, <1>11, Zenon
<1> QED
  BY <1>12, <1>13, Zenon DEF r, g, h

\* The smallest sample that counts, or zero if they ought to be stable and are not.
Smallest(a, N, desc) ==
  LET o == {a[q] : q \in desc.ignored + 1..N}
  IN  IF desc.stable /\ ~AllowUnstable /\ (\E b, c \in o : b # c) THEN 0
      ELSE CHOOSE b \in o : \A c \in o : b <= c

\* That is the overhead that process_result computes.
LEMMA SmallestOverhead ==
  ASSUME NEW N \in Nat, NEW a \in [1..N -> Int],
         \A q \in 1..N : 0 <= a[q] /\ a[q] < Modulus,
         NEW desc, desc.ignored \in 0..N - 1, desc.overhead = 0
  PROVE  /\ process_result(a, desc).min = Smallest(a, N, desc)
         /\ process_result(a, desc).min \in Int /\ 0 <= process_result(a, desc).min
<1> DEFINE g == desc.ignored
<1>0. desc.ignored = g /\ g \in 0..N - 1
  BY Zenon
<1> HIDE DEF g
<1> USE <1>0
<1> DEFINE o == {a[q] : q \in g + 1..N}
           n == N - g
           x == Reduced(a, N, g, 0)
           unstable == Refused(a, N, g, desc)
<1>1. (\E b, c \in g + 1..N : a[b] # a[c]) <=> (\E b, c \in o : b # c)
  BY ZenonT(90)
<1>2. process_result(a, desc) = IF unstable THEN ZeroResult ELSE calculate_results(x)
  <2>1. 0 \in Int
    OBVIOUS
  <2>2. process_result(a, desc) = Outcome(a, N, desc)
    BY <2>1, ProcessedResult, Zenon
  <2> QED
    BY <2>2, Zenon DEF Outcome
<1>3. n \in Nat /\ n > 0 /\ \A q \in 1..n : g + q \in g + 1..N /\ g + q \in 1..N
  OBVIOUS
<1>4. \A b \in g + 1..N : b - g \in 1..n /\ g + (b - g) = b
  OBVIOUS
<1>5. \A q \in 1..n : x[q] = a[g + q]
  <2>1. ASSUME NEW q \in 1..n
        PROVE  Wrap(a[g + q] - 0) = a[g + q]
    <3>1. a[g + q] \in Int /\ 0 <= a[g + q] /\ a[g + q] < Modulus
      BY <1>3, Zenon
    <3>2. a[g + q] - 0 = a[g + q]
      BY <3>1
    <3> QED
      BY <3>1, <3>2, WrapKeeps, Zenon
  <2> QED
    BY <2>1, Zenon DEF Reduced
<1>6. x \in [1..n -> Int]
  <2>1. \A q \in 1..n : x[q] \in Int
    BY <1>3, <1>5, Zenon
  <2>2. x = [q \in 1..n |-> x[q]]
    BY Zenon DEF Reduced
  <2> HIDE DEF x
  <2> QED
    BY <2>1, <2>2, Zenon
<1> HIDE DEF x, n
<1> DEFINE b == calculate_results(x).min
<1>7. /\ \E q \in 1..n : b = x[q]
      /\ \A q \in 1..n : b <= x[q]
  BY <1>3, <1>6, CalculatedMin, Zenon
<1> HIDE DEF b
<1>8. b \in o
  <2>1. PICK q \in 1..n : b = x[q]
    BY <1>7, Zenon
  <2> QED
    BY <1>3, <1>5, <2>1, Zenon
<1>9. \A c \in o : b <= c
  <2>1. ASSUME NEW q \in g + 1..N
        PROVE  b <= a[q]
    <3>1. q - g \in 1..n /\ g + (q - g) = q
      BY <1>4, Zenon
    <3>2. b <= x[q - g] /\ x[q - g] = a[g + (q - g)]
      BY <1>5, <1>7, <3>1, Zenon
    <3> QED
      BY <3>1, <3>2, Zenon
  <2> QED
    BY <2>1, Zenon
<1>10. \A c \in o : c \in Int /\ 0 <= c
  <2>1. \A q \in g + 1..N : q \in 1..N
    OBVIOUS
  <2> QED
    BY <2>1, Zenon
<1> HIDE DEF o
<1>11. b = CHOOSE c \in o : \A d \in o : c <= d
  <2> DEFINE e == CHOOSE c \in o : \A d \in o : c <= d
  <2>1. e \in o /\ \A d \in o : e <= d
    BY <1>8, <1>9, Zenon
  <2> HIDE DEF e
  <2>2. e <= b /\ b <= e /\ e \in Int /\ b \in Int
    BY <1>8, <1>9, <1>10, <2>1, Zenon
  <2>3. b = e
    BY <2>2
  <2> QED
    BY <2>3, Zenon DEF e
<1>12. ZeroResult.min = 0 /\ 0 \in Int /\ 0 <= 0
  BY DEF ZeroResult
<1>13. CASE unstable
  <2>1. process_result(a, desc).min = 0
    BY <1>2, <1>12, <1>13, Zenon
  <2>2. desc.stable /\ ~AllowUnstable /\ (\E c, d \in o : c # d)
    BY <1>1, <1>13, Zenon DEF o, Refused
  <2> QED
    BY <1>12, <2>1, <2>2, Zenon DEF o, Smallest
<1>14. CASE ~unstable
  <2>1. process_result(a, desc).min = b
    BY <1>2, <1>14, Zenon DEF b
  <2>2. ~(desc.stable /\ ~AllowUnstable /\ (\E c, d \in o : c # d))
    BY <1>1, <1>14, Zenon DEF o, Refused
  <2>3. b \in Int /\ 0 <= b
    BY <1>8, <1>10, Zenon
  <2>4. process_result(a, desc).min
          = IF desc.stable /\ ~AllowUnstable /\ (\E c, d \in o : c # d) THEN 0
            ELSE CHOOSE c \in o : \A d \in o : c <= d
    BY <1>11, <2>1, <2>2, Zenon
  <2> QED
    BY <2>1, <2>3, <2>4, Zenon DEF o, Smallest
<1> QED
  BY <1>13, <1>14, Zenon

=============================================================================
