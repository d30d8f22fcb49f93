------------------------------ MODULE Results ------------------------------
(***************************************************************************)
(* How a child hands a cycle count to its main thread: send_result and     *)
(* get_result of src/libsel4benchsupport/src/support.c cut a ccnt_t into   *)
(* message registers and put it together again.                            *)
(***************************************************************************)
EXTENDS Integers, Sequences

CONSTANTS
  WordBits,    \* seL4_WordBits
  CcntWords    \* sizeof(ccnt_t) / sizeof(seL4_Word)

ResultsAssumption == WordBits \in Nat \ {0} /\ CcntWords \in Nat \ {0}

CcntModulus == 2^(WordBits * CcntWords)

Shift == IF CcntWords > 1 THEN WordBits ELSE 0

\* The message registers; the last one gets the low word.
send_result(result) ==
  [i \in 1..CcntWords |-> (result \div 2^(Shift * (CcntWords - i))) % 2^WordBits]

\* What get_result makes of the message registers.
get_result(mr) ==
  LET result[i \in 0..CcntWords] ==
        IF i = 0 THEN 0 ELSE (result[i - 1] * 2^Shift + mr[i]) % CcntModulus
  IN  result[CcntWords]

=============================================================================
