------------------------------ MODULE ForkJoin ------------------------------
(***************************************************************************)
(* What every benchmark with child threads promises, whatever the children *)
(* measure: it proceeds in rounds, starts each child once in a round, goes *)
(* on to the next round only when all of them have delivered, and gets     *)
(* through all its rounds.                                                 *)
(***************************************************************************)
EXTENDS Naturals

CONSTANTS
  Child,
  Rounds

VARIABLES
  round,    \* rounds that are over
  stage     \* child -> "idle", "busy" or "done", in the current round

vars == <<round, stage>>

Init == round = 0 /\ stage = [c \in Child |-> "idle"]

Start(c) ==
  /\ round < Rounds
  /\ stage[c] = "idle"
  /\ stage' = [stage EXCEPT ![c] = "busy"]
  /\ UNCHANGED round

Deliver(c) ==
  /\ stage[c] = "busy"
  /\ stage' = [stage EXCEPT ![c] = "done"]
  /\ UNCHANGED round

NextRound ==
  /\ \A c \in Child : stage[c] = "done"
  /\ round' = round + 1
  /\ stage' = [c \in Child |-> "idle"]

Next == NextRound \/ \E c \in Child : Start(c) \/ Deliver(c)

Spec == Init /\ [][Next]_vars

Completes == <>(round = Rounds)

Promise == Spec /\ Completes

=============================================================================
