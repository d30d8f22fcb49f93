------------------------------- MODULE Measure -------------------------------
(***************************************************************************)
(* What a benchmark with early processing does with its samples: it        *)
(* measures the overhead, then N_RUNS samples that it stores for the       *)
(* driver, then N_RUNS samples that it sums up at once (DATACOLLECT), and  *)
(* the driver computes the statistics of both.  This is the flow of the    *)
(* hardware and of the signal benchmark; they differ in one step.          *)
(***************************************************************************)
EXTENDS Statistics

CONSTANTS
  Apps,            \* the benchmarks to look at, of "hardware" and "signal"
  Runs,            \* N_RUNS
  Ignoreds,        \* the values of N_IGNORED to look at
  OverheadTimes,   \* what an overhead sample may really take
  Times            \* what a sample may really take

\* The sums of a series fit into a ccnt_t.
MeasureAssumption ==
  /\ Apps \subseteq {"hardware", "signal"}
  /\ Runs \in Nat \ {0} /\ Ignoreds \subseteq 0..Runs - 1
  /\ Runs < Modulus \div 2
  /\ OverheadTimes \subseteq 0..Modulus - 1 /\ Times \subseteq 0..Modulus - 1
  /\ \A t \in Times : 2 * t < Modulus
  /\ \A t \in Times, o \in OverheadTimes \cup {0} : Runs * ((t - o) * (t - o)) < Modulus

VARIABLES
  app, ignored,    \* which benchmark this is, and its N_IGNORED
  phase,
  overhead,        \* the overhead samples
  late,            \* the stored samples
  early,           \* history: the true times of the samples summed up
  overhead_min, sum, sum2, num,     \* of the results page, initially zero
  late_result, early_result         \* what the driver computes

vars == <<app, ignored, phase, overhead, late, early, overhead_min, sum, sum2, num,
          late_result, early_result>>

Init ==
  /\ app \in Apps /\ ignored \in Ignoreds
  /\ phase = "overhead"
  /\ overhead = <<>>
  /\ late = <<>>
  /\ early = <<>>
  /\ overhead_min = 0
  /\ sum = 0 /\ sum2 = 0 /\ num = 0
  /\ late_result = <<>>
  /\ early_result = <<>>

\* end - start of two reads of a counter that may wrap in between.
Elapsed(start, time) == Wrap(Wrap(start + time) - start)

\* measure_nullsyscall_overhead, measure_signal_overhead
MeasureOverhead ==
  /\ phase = "overhead"
  /\ \E start \in {0, Modulus - 1}, time \in OverheadTimes :
        overhead' = Append(overhead, Elapsed(start, time))
  /\ phase' = IF Len(overhead) + 1 = Runs THEN "min" ELSE phase
  /\ UNCHANGED <<late, early, overhead_min, sum, sum2, num, late_result, early_result>>

\* getMinOverhead: start from the largest ccnt_t.
getMinOverhead(seq) ==
  LET min[i \in 0..Len(seq)] ==
        IF i = 0 THEN Modulus - 1
        ELSE LET m == min[i - 1] IN IF seq[i] < m THEN seq[i] ELSE m
  IN  min[Len(seq)]

\* The hardware benchmark has no such step: its overhead_min keeps the zero of a
\* fresh page.
SetOverheadMin ==
  /\ phase = "min"
  /\ phase' = "late"
  /\ overhead_min' = IF app = "signal" THEN getMinOverhead(overhead) ELSE overhead_min
  /\ UNCHANGED <<overhead, late, early, sum, sum2, num, late_result, early_result>>

\* measure_nullsyscall, low_prio_signal_fn
MeasureLate ==
  /\ phase = "late"
  /\ \E start \in {0, Modulus - 1}, time \in Times :
        late' = Append(late, Elapsed(start, time))
  /\ phase' = IF Len(late) + 1 = Runs THEN "early" ELSE phase
  /\ UNCHANGED <<overhead, early, overhead_min, sum, sum2, num, late_result, early_result>>

\* is_counted = (~(i - n)) >> (seL4_WordBits - 1)
IsCounted(i, n) == Wrap(Modulus - 1 - Wrap(i - n)) \div (Modulus \div 2)

\* measure_nullsyscall_ep, low_prio_signal_early_proc_fn: DATACOLLECT_GET_SUMS.
MeasureEarly ==
  /\ phase = "early"
  /\ \E start \in {0, Modulus - 1}, time \in Times :
        LET sample == Wrap(IsCounted(Len(early), ignored)
                             * Wrap(Elapsed(start, time) - overhead_min))
        IN  /\ early' = Append(early, time)
            /\ sum' = Wrap(sum + sample)
            /\ sum2' = Wrap(sum2 + Wrap(sample * sample))
  /\ IF Len(early) + 1 = Runs
     THEN phase' = "process" /\ num' = Runs - ignored
     ELSE UNCHANGED <<phase, num>>
  /\ UNCHANGED <<overhead, late, overhead_min, late_result, early_result>>

Desc(stable, o) == [stable |-> stable, ignored |-> ignored, overhead |-> o]

\* hardware_process, signal_process: the overhead is the smallest one that is not
\* ignored.  Only the signal benchmark insists on a stable one; without it the
\* late samples are left as they are.
ProcessedOverhead == process_result(overhead, Desc(app = "signal", 0)).min

Process ==
  /\ phase = "process"
  /\ phase' = "done"
  /\ late_result' = process_result(late, Desc(FALSE, ProcessedOverhead))
  /\ early_result' = calculate_results_early_proc(num, sum, sum2)
  /\ UNCHANGED <<overhead, late, early, overhead_min, sum, sum2, num>>

Done == phase = "done" /\ UNCHANGED vars

Next ==
  \/ /\ MeasureOverhead \/ SetOverheadMin \/ MeasureLate \/ MeasureEarly \/ Process
     /\ UNCHANGED <<app, ignored>>
  \/ Done

Spec == Init /\ [][Next]_vars

-----------------------------------------------------------------------------
(* Properties.                                                             *)

\* The samples that count, minus a given overhead.
Counted(seq, o) == [i \in 1..Len(seq) - ignored |-> seq[ignored + i] - o]

\* The overhead that the late samples are to be reduced by: the smallest that
\* counts, or none if the signal benchmark's is not stable.
LateOverhead ==
  LET o == {overhead[i] : i \in ignored + 1..Len(overhead)}
  IN  IF app = "signal" /\ ~AllowUnstable /\ (\E a, b \in o : a # b) THEN 0
      ELSE CHOOSE a \in o : \A b \in o : a <= b

\* The driver's early mean and variance are those of exactly the samples from
\* N_IGNORED on, each reduced by the overhead (the branch-free DATACOLLECT_GET_SUMS):
\* the mean rounded down, even when a single sample below the overhead has wrapped,
\* the variance the mean squared distance from that rounded mean.
EarlyResultIsExact ==
  LET x == Counted(early, overhead_min)
      m == early_result.mean
  IN  phase = "done" /\ Total(x) >= 0 =>
        /\ num = Len(x)
        /\ m * num <= Total(x) /\ Total(x) < (m + 1) * num
        /\ early_result.variance
             = <<Total([i \in DOMAIN x |-> (x[i] - m) * (x[i] - m)]), num>>

\* The running means of math.c are the mean and the variance of the samples that
\* count, rounded to the nearest integer.
LateResultIsExact ==
  LET x == Counted(late, LateOverhead)
      n == Len(x)
      m == late_result.mean
      v == Total([i \in DOMAIN x |-> (x[i] - m) * (x[i] - m)])
  IN  phase = "done" /\ (\A i \in DOMAIN x : x[i] >= 0) =>
        /\ 2 * n * m - n <= 2 * Total(x) /\ 2 * Total(x) < 2 * n * m + n
        /\ 2 * n * late_result.variance - n <= 2 * v
        /\ 2 * v < 2 * n * late_result.variance + n

\* Of the samples x, x[i] is the one at place r, counted from 0, if they are put in
\* order.
HasRank(x, i, r) ==
  /\ Cardinality({j \in DOMAIN x : x[j] < x[i]}) <= r
  /\ Cardinality({j \in DOMAIN x : x[j] <= x[i]}) > r

\* The order statistics of math.c are in order, and the median is the mean of the
\* two middle samples, which are one and the same if their number is odd.
OrderStatistics ==
  LET x == Counted(late, LateOverhead)
      n == Len(x)
      r == late_result
  IN  phase = "done" /\ (\A i \in DOMAIN x : x[i] >= 0) =>
        /\ 4 * r.min <= r.first_quantile /\ r.first_quantile <= 2 * r.median
        /\ 2 * r.median <= r.third_quantile /\ r.third_quantile <= 4 * r.max
        /\ \A i, j \in DOMAIN x :
              HasRank(x, i, (n - 1) \div 2) /\ HasRank(x, j, n \div 2)
                => r.median = x[i] + x[j]

\* benchmark.h:51-52: "we have to calculate min value of measured overheads before
\* running benchmark".
EarlySubtractsMinOverhead ==
  phase = "early" =>
    /\ \E i \in DOMAIN overhead : overhead_min = overhead[i]
    /\ \A i \in DOMAIN overhead : overhead_min <= overhead[i]

\* json.c:42 reports results_mode as the "Mode" of the samples: no value occurs
\* more often.
ModeIsMostFrequent ==
  LET x == Counted(late, LateOverhead)
      Count(v) == Len(SelectSeq(x, LAMBDA y : y = v))
  IN  phase = "done" /\ (\A i \in DOMAIN x : x[i] >= 0) =>
        \A i \in DOMAIN x : Count(x[i]) <= Count(late_result.mode)

=============================================================================
