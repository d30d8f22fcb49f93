------------------------------- MODULE Driver -------------------------------
(***************************************************************************)
(* The driver of src/apps/sel4bench: main_continued launches every enabled *)
(* benchmark CONFIG_ITERATIONS times in a process of its own, serves the   *)
(* process's remote procedure calls until it finishes or faults, takes     *)
(* everything back, processes the results and finally dumps them.          *)
(***************************************************************************)
EXTENDS BenchApp, Sequences

CONSTANTS
  benchmarks,    \* the list of benchmarks
  enabled,       \* those that are configured
  Iterations     \* CONFIG_ITERATIONS

ASSUME DriverAssumption ==
  /\ benchmarks \in Seq(STRING)
  /\ enabled \subseteq {benchmarks[i] : i \in DOMAIN benchmarks}
  /\ Iterations \in Nat

VARIABLES
  pc,
  i, run,     \* main_continued's loop counters
  result,     \* run_benchmark's result
  held,       \* frames the driver has allocated for the process
  shared,     \* is the results page mapped in the process as well?
  output      \* the benchmark and the iteration of each result set

dvars == <<pc, i, run, result, held, shared, output>>
vars == <<appvars, pc, i, run, result, held, shared, output>>

Init ==
  /\ AppInit
  /\ pc = "next"
  /\ i = 1
  /\ run = 0
  /\ result = EXIT_SUCCESS
  /\ held = 0
  /\ shared = FALSE
  /\ output = <<>>

Goto(label) == pc' = label

\* The two loops of main_continued.
NextBenchmark ==
  /\ pc = "next" /\ i <= Len(benchmarks)
  /\ IF benchmarks[i] \in enabled /\ run < Iterations
     THEN Goto("launch") /\ UNCHANGED <<i, run>>
     ELSE i' = i + 1 /\ run' = 0 /\ UNCHANGED pc
  /\ UNCHANGED <<appvars, result, held, shared, output>>

\* launch_benchmark: pages for the results and the arguments, or a fatal error.
ReserveResults ==
  /\ pc = "launch"
  /\ \/ Goto("start") /\ page' = "fresh"
     \/ Goto("fatal") /\ UNCHANGED page
  /\ UNCHANGED <<app, timer, utspace, frames, code, call, derived>>
  /\ UNCHANGED <<i, run, result, held, shared, output>>

\* run_benchmark up to sel4utils_spawn_process_v.
StartProcess ==
  /\ pc = "start"
  /\ \/ Goto("recv") /\ AppStart /\ shared' = TRUE /\ result' = PROTOBUF_RPC
     \/ /\ Goto("fatal")
        /\ UNCHANGED <<app, timer, utspace, frames, code, call, shared, result>>
  /\ UNCHANGED <<derived, page, i, run, held, output>>

\* Mutant: the exit code is looked at before the fault label.
Receive_CodeFirst ==
  /\ pc = "recv" /\ call # NoCall
  /\ result' = IF call.mr0 = EXIT_SUCCESS \/ call.label = NullFault
               THEN call.mr0 ELSE EXIT_FAILURE
  /\ Goto(IF result' = PROTOBUF_RPC THEN "serve" ELSE "unmap")
  /\ UNCHANGED <<appvars, i, run, held, shared, output>>

\* The receive loop: api_recv and the three kinds of message.
Receive ==
  /\ pc = "recv" /\ call # NoCall
  /\ result' = IF call.label # NullFault THEN EXIT_FAILURE ELSE call.mr0
  /\ Goto(IF result' = PROTOBUF_RPC THEN "serve" ELSE "unmap")
  /\ UNCHANGED <<appvars, i, run, held, shared, output>>

\* Mutant: a request that fails is not answered.
Serve_NoReply ==
  /\ pc = "serve"
  /\ Goto("recv")
  /\ \/ call.action = ALLOCATE /\ held' = held + 1 /\ AppReply(TRUE)
     \/ call.action = ALLOCATE /\ held' = held /\ UNCHANGED appvars
     \/ call.action = FREE /\ held' = held - 1 /\ AppReply(TRUE)
  /\ UNCHANGED <<i, run, result, shared, output>>

\* sel4rpc_server_recv (external): handle the request and reply.
Serve ==
  /\ pc = "serve"
  /\ Goto("recv")
  /\ \/ call.action = ALLOCATE /\ held' = held + 1 /\ AppReply(TRUE)
     \/ call.action = ALLOCATE /\ held' = held /\ AppReply(FALSE)
     \/ call.action = FREE /\ held' = held - 1 /\ AppReply(TRUE)
  /\ UNCHANGED <<i, run, result, shared, output>>

\* vspace_unmap_pages of the results, arguments and device tree in the process.
UnmapShared ==
  /\ pc = "unmap"
  /\ Goto("revoke")
  /\ shared' = FALSE
  /\ UNCHANGED <<appvars, i, run, result, held, output>>

\* Mutant: the untyped is not revoked.
RevokeUntyped_Skip ==
  /\ pc = "revoke"
  /\ Goto("destroy")
  /\ UNCHANGED <<appvars, i, run, result, held, shared, output>>

\* vka_cnode_revoke(env->untyped)
RevokeUntyped ==
  /\ pc = "revoke"
  /\ Goto("destroy")
  /\ derived' = FALSE
  /\ UNCHANGED <<app, timer, utspace, frames, code, call, page>>
  /\ UNCHANGED <<i, run, result, held, shared, output>>

\* sel4utils_destroy_process, which also ends the call nobody answered.
DestroyProcess ==
  /\ pc = "destroy"
  /\ Goto("process")
  /\ app' = "none"
  /\ call' = NoCall
  /\ UNCHANGED <<timer, utspace, frames, code, derived, page>>
  /\ UNCHANGED <<i, run, result, held, shared, output>>

\* The rest of launch_benchmark.  Processing yields no JSON if the exit code is
\* not EXIT_SUCCESS, or if it finds the overheads unstable.  Then
\* ZF_LOGF_IF(result == NULL) in main_continued stops the driver.
ProcessResults ==
  /\ pc = "process"
  /\ page' = "none"
  /\ \/ result = EXIT_SUCCESS /\ Goto("add")
     \/ Goto("fatal")
  /\ UNCHANGED <<app, timer, utspace, frames, code, call, derived>>
  /\ UNCHANGED <<i, run, result, held, shared, output>>

\* add_iteration_tag and json_array_extend; an error of either is fatal.
AddResult ==
  /\ pc = "add"
  /\ \/ /\ Goto("next")
        /\ output' = Append(output, [name |-> benchmarks[i], iteration |-> run])
        /\ run' = run + 1
     \/ Goto("fatal") /\ UNCHANGED <<output, run>>
  /\ UNCHANGED <<appvars, i, result, held, shared>>

DumpOutput ==
  /\ pc = "next" /\ i > Len(benchmarks)
  /\ Goto("end") \/ Goto("fatal")
  /\ UNCHANGED <<appvars, i, run, result, held, shared, output>>

DriverStep ==
  \/ NextBenchmark \/ ReserveResults \/ StartProcess \/ Receive \/ Serve
  \/ UnmapShared \/ RevokeUntyped \/ DestroyProcess \/ ProcessResults
  \/ AddResult \/ DumpOutput

Stopped == pc \in {"end", "fatal"} /\ UNCHANGED vars

Next ==
  \/ DriverStep
  \/ AppStep /\ UNCHANGED dvars
  \/ Stopped

Spec == Init /\ [][Next]_vars

\* Driver and process are scheduled round robin at one priority, so each moves on
\* while it can; a benchmark that neither faults nor fails comes to its end.
FairSpec ==
  /\ Spec
  /\ WF_vars(DriverStep)
  /\ WF_vars(AppStep /\ UNCHANGED dvars)

-----------------------------------------------------------------------------
(* Properties.                                                             *)

\* A process starts in a clean world, whatever its predecessor did: nothing is
\* left of the untyped, of the memory the driver lent out, of the shared
\* mapping or of the old process.  A predecessor that leaks what it borrowed
\* (it faulted, or its timer failed) must therefore never have a successor.
CleanStart ==
  pc = "start" =>
    /\ ~derived
    /\ held = 0
    /\ ~shared
    /\ app = "none" /\ call = NoCall

\* Results are processed only when the process has written all of them, said so
\* with EXIT_SUCCESS, and neither it nor a thread it made from its untyped can
\* write any more.  In particular a fault message whose first register happens
\* to be 0 does not count as success.
ProcessedResultsAreFinal ==
  pc = "process" /\ result = EXIT_SUCCESS =>
    page = "complete" /\ app = "none" /\ ~derived /\ ~shared

\* Memory goes back to where it came from: while the benchmark runs, what it
\* frees goes to its own slab allocator, and what the parent lent for the timer
\* goes to the parent.
FreesGoToOwner ==
  /\ app = "main" => utspace = "slab"
  /\ call.action = FREE /\ pc # "serve" => utspace = "parent" /\ frames > 0 /\ held = frames

\* The driver always comes to an end, with the output or with a fatal error: no
\* message of a process leaves it waiting for another one that never comes.
DriverStops == <>(pc \in {"end", "fatal"})

=============================================================================
