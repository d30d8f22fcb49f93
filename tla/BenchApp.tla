------------------------------ MODULE BenchApp ------------------------------
(***************************************************************************)
(* The life of a benchmark process, as libsel4benchsupport gives it to     *)
(* every application: benchmark_get_env, benchmark_init_timer, the         *)
(* benchmark itself, abort and benchmark_finished.  The process talks to   *)
(* its parent by seL4_Call on one endpoint, which also receives its faults.*)
(*                                                                         *)
(* A message is a label and its first message register.  The memory that   *)
(* the timer driver needs comes from the parent, by remote procedure call; *)
(* everything else comes from the untyped the process was given.           *)
(***************************************************************************)
EXTENDS Naturals

CONSTANTS
  TimerFrames    \* allocations that ltimer_default_init makes

ASSUME TimerFramesAssumption == TimerFrames \in Nat

VARIABLES
  app,       \* label of the process's next step, "none" without a process
  timer,     \* env.timer_initialised
  utspace,   \* who env.slab_vka.utspace_free goes to: "slab" or "parent"
  frames,    \* frames from the parent that the process still has to free
  code,      \* the argument of benchmark_finished
  call,      \* the message of the process's pending call, if any
  derived,   \* have objects been made from the process's untyped?
  page       \* the results: "none", "fresh", "partial" or "complete"

appvars == <<app, timer, utspace, frames, code, call, derived, page>>

NullFault == "NullFault"
VMFault == "VMFault"
PROTOBUF_RPC == 9000
EXIT_SUCCESS == 0
EXIT_FAILURE == 1
ALLOCATE == "allocate"
FREE == "free"

NoCall == [label |-> "none", mr0 |-> 0, action |-> "none"]
Rpc(action) == [label |-> NullFault, mr0 |-> PROTOBUF_RPC, action |-> action]
Exit(c)     == [label |-> NullFault, mr0 |-> c, action |-> "none"]
\* A fault message's first register is the address of the fault.
Fault(mr0)  == [label |-> VMFault, mr0 |-> mr0, action |-> "none"]

AppInit ==
  /\ app = "none"
  /\ timer = FALSE
  /\ utspace = "slab"
  /\ frames = 0
  /\ code = EXIT_SUCCESS
  /\ call = NoCall
  /\ derived = FALSE
  /\ page = "none"

\* A new process starts with its own copy of the library's variables.
AppStart ==
  /\ app' = "get_env"
  /\ timer' = FALSE
  /\ utspace' = "slab"
  /\ frames' = 0
  /\ code' = EXIT_SUCCESS
  /\ call' = NoCall

Ready(label) == app = label /\ call = NoCall

\* benchmark_get_env: allocator, slabs and notification from the untyped.
benchmark_get_env ==
  /\ Ready("get_env")
  /\ app' = "main"
  /\ derived' = TRUE
  /\ UNCHANGED <<timer, utspace, frames, code, call, page>>

\* Mutant: the vka is not redirected back.
benchmark_init_timer_NoRestore ==
  \/ /\ Ready("main") /\ ~timer /\ page = "fresh"
     /\ app' = "timer"
     /\ utspace' = "parent"
     /\ UNCHANGED <<timer, frames, code, call, derived, page>>
  \/ /\ Ready("timer") /\ frames < TimerFrames
     /\ call' = Rpc(ALLOCATE)
     /\ UNCHANGED <<app, timer, utspace, frames, code, derived, page>>
  \/ /\ Ready("timer") /\ frames = TimerFrames
     /\ app' = "main"
     /\ timer' = TRUE
     /\ UNCHANGED <<utspace, frames, code, call, derived, page>>

\* benchmark_init_timer, before the benchmark begins: redirect the vka, let the
\* timer allocate, redirect back.
benchmark_init_timer ==
  \/ /\ Ready("main") /\ ~timer /\ page = "fresh"
     /\ app' = "timer"
     /\ utspace' = "parent"
     /\ UNCHANGED <<timer, frames, code, call, derived, page>>
  \/ /\ Ready("timer") /\ frames < TimerFrames
     /\ call' = Rpc(ALLOCATE)
     /\ UNCHANGED <<app, timer, utspace, frames, code, derived, page>>
  \/ /\ Ready("timer") /\ frames = TimerFrames
     /\ app' = "main"
     /\ utspace' = "slab"
     /\ timer' = TRUE
     /\ UNCHANGED <<frames, code, call, derived, page>>

\* The answer to a call: an allocation that failed is fatal in the process.
AppReply(ok) ==
  /\ call' = NoCall
  /\ frames' = CASE call.action = ALLOCATE /\ ok -> frames + 1
                 [] call.action = FREE -> frames - 1
                 [] OTHER -> frames
  /\ IF call.action = ALLOCATE /\ ~ok
     THEN app' = "finished" /\ code' = EXIT_FAILURE
     ELSE UNCHANGED <<app, code>>
  /\ UNCHANGED <<timer, utspace, derived, page>>

\* The benchmark proper, seen from outside: it writes its results.
RunBenchmark ==
  /\ Ready("main")
  /\ page' = IF page = "fresh" THEN "partial" ELSE "complete"
  /\ UNCHANGED <<app, timer, utspace, frames, code, call, derived>>

\* Main returns through benchmark_finished(EXIT_SUCCESS), or a failed check or a
\* faulting child makes it abort().
Leave ==
  /\ \/ Ready("main") /\ page = "complete" /\ code' = EXIT_SUCCESS
     \/ (Ready("get_env") \/ Ready("main")) /\ code' = EXIT_FAILURE
  /\ app' = "finished"
  /\ UNCHANGED <<timer, utspace, frames, call, derived, page>>

\* The process's own thread faults; the kernel sends the message for it.
AppFault ==
  /\ app \in {"get_env", "timer", "main", "finished"} /\ call = NoCall
  /\ app' = "faulted"
  /\ \E mr0 \in {EXIT_SUCCESS, EXIT_FAILURE, PROTOBUF_RPC} : call' = Fault(mr0)
  /\ UNCHANGED <<timer, utspace, frames, code, derived, page>>

\* benchmark_finished: with a timer, redirect the vka once more and destroy it;
\* then the call that is never answered.
benchmark_finished ==
  /\ Ready("finished")
  /\ \/ /\ timer /\ utspace = "slab"
        /\ utspace' = "parent"
        /\ UNCHANGED <<app, call>>
     \/ /\ timer /\ utspace = "parent" /\ frames > 0
        /\ call' = Rpc(FREE)
        /\ UNCHANGED <<app, utspace>>
     \/ /\ timer => utspace = "parent" /\ frames = 0
        /\ call' = Exit(code)
        /\ app' = "gone"
        /\ UNCHANGED utspace
  /\ UNCHANGED <<timer, frames, code, derived, page>>

AppStep ==
  \/ benchmark_get_env
  \/ benchmark_init_timer
  \/ RunBenchmark
  \/ Leave
  \/ AppFault
  \/ benchmark_finished

=============================================================================
