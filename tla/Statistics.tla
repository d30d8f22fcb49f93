----------------------------- MODULE Statistics -----------------------------
(***************************************************************************)
(* The statistics of src/apps/sel4bench/src/math.c, as the code computes   *)
(* them.  A ccnt_t is a word of Width bits.  The long double arithmetic of *)
(* the means is modelled by exact fractions <<numerator, denominator>>; a  *)
(* value that the code halves or quarters is kept as its double or its     *)
(* quadruple.  Square roots, and with them the standard deviations, are    *)
(* left out.                                                               *)
(***************************************************************************)
EXTENDS Integers, Sequences, FiniteSets

CONSTANTS
  Width,           \* bits of a ccnt_t
  AllowUnstable    \* CONFIG_ALLOW_UNSTABLE_OVERHEAD

Modulus == 2^Width

\* The second line is what the proofs use of a power of two.
ASSUME StatisticsAssumption ==
  /\ Width \in Nat \ {0} /\ AllowUnstable \in BOOLEAN
  /\ Modulus \in Nat /\ Modulus > 0 /\ Modulus % 2 = 0

Wrap(n) == n % Modulus

\* roundl of a fraction that is not negative.
Round(a) == (2 * a[1] + a[2]) \div (2 * a[2])

\* mean += (x - mean) / i, for a fraction mean.
Refined(mean, x, i) == <<mean[1] * i + (x * mean[2] - mean[1]), mean[2] * i>>

\* The mean of a sequence, refined by one value at a time.
RunningMean(seq) ==
  LET mean[i \in 0..Len(seq)] == IF i = 0 THEN <<0, 1>> ELSE Refined(mean[i - 1], seq[i], i)
  IN  mean[Len(seq)]

results_mean(data) == Round(RunningMean(data))

results_variance(data, mean) ==
  Round(RunningMean([i \in DOMAIN data |-> (data[i] - mean) * (data[i] - mean)]))

\* Mutant: the middle elements counted from one.
DoubleMedian_FromOne(sorted) ==
  LET n == Len(sorted)
      lhs == n \div 2
      rhs == (n + 1) \div 2
  IN  IF lhs = rhs THEN 2 * sorted[lhs + 1] ELSE Wrap(sorted[lhs + 1] + sorted[rhs + 1])

\* Twice results_median.  The code adds the two middle elements as ccnt_t.
DoubleMedian(sorted) ==
  LET n == Len(sorted)
      lhs == (n - 1) \div 2
      rhs == n \div 2
  IN  IF lhs = rhs THEN 2 * sorted[lhs + 1] ELSE Wrap(sorted[lhs + 1] + sorted[rhs + 1])

\* Four times results_quantile(data, k / 4).
FourQuantile(sorted, k) ==
  LET n == Len(sorted)
      lhs == (k * (n - 1)) \div 4
      delta == (k * (n - 1)) % 4
  IN  IF lhs = n - 1 THEN 4 * sorted[lhs + 1]
      ELSE (4 - delta) * sorted[lhs + 1] + delta * sorted[lhs + 2]

\* results_mode's loop over the sorted data; the last run of equal values is
\* never compared with the others.
results_mode(sorted) ==
  LET first == [mode |-> sorted[1], value |-> sorted[1], freq |-> 1, best |-> 0]
      step(s, x) == IF x = s.value THEN [s EXCEPT !.freq = @ + 1]
                    ELSE [mode  |-> IF s.freq > s.best THEN s.value ELSE s.mode,
                          best  |-> IF s.freq > s.best THEN s.freq ELSE s.best,
                          value |-> x, freq |-> 1]
      state[i \in 1..Len(sorted)] == IF i = 1 THEN first ELSE step(state[i - 1], sorted[i])
  IN  state[Len(sorted)].mode

\* How many samples are at or before sample j in the order; of equal ones the first
\* comes first.
Rank(data, j) ==
  Cardinality({i \in DOMAIN data : data[i] < data[j] \/ (data[i] = data[j] /\ i <= j)})

\* The samples in order.  SubSeq changes nothing; with it TLC sorts only once.
qsort(data) ==
  LET sorted == [r \in DOMAIN data |-> data[CHOOSE j \in DOMAIN data : Rank(data, j) = r]]
  IN  SubSeq(sorted, 1, Len(data))

calculate_results(data) ==
  LET n == Len(data)
      sorted == qsort(data)
      mean == results_mean(sorted)
  IN  [min |-> sorted[1], max |-> sorted[n], mean |-> mean,
       variance |-> results_variance(sorted, mean),
       median |-> DoubleMedian(sorted),
       first_quantile |-> FourQuantile(sorted, 1),
       third_quantile |-> FourQuantile(sorted, 3),
       mode |-> results_mode(sorted), samples |-> n]

\* Mutant: the mean of the squares minus the square of the rounded mean.
calculate_results_early_proc_Textbook(num, sum, sum2) ==
  LET mean == sum \div num
  IN  [mean |-> mean, samples |-> num, variance |-> <<sum2 - num * mean * mean, num>>]

\* The variance that calculate_results_early_proc computes is a fraction: the
\* code does not round it.
calculate_results_early_proc(num, sum, sum2) ==
  LET mean == sum \div num
  IN  [mean |-> mean, samples |-> num,
       variance |-> <<sum2 - 2 * mean * sum + num * mean * mean, num>>]

\* All the samples are the same.
results_stable(seq) == \A i \in 2..Len(seq) : seq[i] = seq[i - 1]

\* What process_result returns for samples that ought to be stable and are not.
ZeroResult ==
  [min |-> 0, max |-> 0, mean |-> 0, variance |-> 0, median |-> 0, first_quantile |-> 0,
   third_quantile |-> 0, mode |-> 0, samples |-> 0]

\* Mutant: the samples to ignore are taken off the end.
process_result_IgnoreLast(array, desc) ==
  LET n == Len(array) - desc.ignored
  IN  IF desc.stable /\ ~results_stable(SubSeq(array, 1, n)) /\ ~AllowUnstable
      THEN ZeroResult
      ELSE calculate_results(SubSeq([i \in DOMAIN array |-> Wrap(array[i] - desc.overhead)], 1, n))

\* process_result: drop the ignored samples, refuse unstable ones if the
\* description asks for it, and subtract the overhead from the others.
process_result(array, desc) ==
  LET n == Len(array)
      from == desc.ignored + 1
      data == [i \in DOMAIN array |-> Wrap(array[i] - desc.overhead)]
  IN  IF desc.stable /\ ~results_stable(SubSeq(array, from, n)) /\ ~AllowUnstable
      THEN ZeroResult
      ELSE calculate_results(SubSeq(data, from, n))

-----------------------------------------------------------------------------
(* For the properties.                                                     *)

\* The sum of a sequence.
Total(seq) ==
  LET total[i \in 0..Len(seq)] == IF i = 0 THEN 0 ELSE total[i - 1] + seq[i]
  IN  total[Len(seq)]

=============================================================================
