------------------------------ MODULE MCDriver ------------------------------
(* The driver with a short list of benchmarks.                             *)
EXTENDS Driver

MCBenchmarks == <<"ipc", "vcpu", "irquser">>

=============================================================================
