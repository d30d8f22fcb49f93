-------------------------- MODULE ProcessingProofs --------------------------
(***************************************************************************)
(* Proofs about the samples of the hardware, the signal and the ipc        *)
(* benchmark on their way to figures, for every number of runs, of ignored *)
(* samples and of retries, every set of times whose sums of squares fit    *)
(* into a word and every width of a word.                                  *)
(***************************************************************************)
EXTENDS MCProcessing, DriverProofs

-----------------------------------------------------------------------------
(* Measure: the operators of its instance.                                 *)

\* The operators of the instance are those of Statistics.
LEMMA MSame ==
  /\ M!Modulus = Modulus
  /\ \A n : M!Wrap(n) = Wrap(n)
  /\ \A s : M!Total(s) = Total(s)
  /\ \A X : M!Cardinality(X) = Cardinality(X)
  /\ \A s, d : M!process_result(s, d) = process_result(s, d)
  /\ \A n, x, y : M!calculate_results_early_proc(n, x, y) = calculate_results_early_proc(n, x, y)
<1>1. M!Modulus = Modulus
  BY Zenon DEF M!Modulus, Modulus
<1>2. \A n : M!Wrap(n) = Wrap(n)
  BY <1>1, Zenon DEF M!Wrap, Wrap
<1>3. \A s : M!Total(s) = Total(s)
  BY Zenon DEF M!Total, Total
<1>4. \A X : M!Cardinality(X) = Cardinality(X)
  BY Zenon DEF M!Cardinality, Cardinality
<1>5. \A s : M!RunningMean(s) = RunningMean(s)
  BY Zenon DEF M!RunningMean, M!Refined, RunningMean, Refined
<1>6. /\ \A s : M!results_mean(s) = results_mean(s)
      /\ \A s, n : M!results_variance(s, n) = results_variance(s, n)
  BY <1>5, Zenon DEF M!results_mean, M!results_variance, M!Round, results_mean, results_variance, Round
<1>7. \A s : M!qsort(s) = qsort(s)
  BY Zenon DEF M!qsort, M!Rank, M!Cardinality, qsort, Rank, Cardinality
<1>8. /\ \A s : M!DoubleMedian(s) = DoubleMedian(s)
      /\ \A s, n : M!FourQuantile(s, n) = FourQuantile(s, n)
      /\ \A s : M!results_mode(s) = results_mode(s)
  BY <1>2, Zenon DEF M!DoubleMedian, DoubleMedian, M!FourQuantile, FourQuantile,
                     M!results_mode, results_mode
<1>9. \A s : M!calculate_results(s) = calculate_results(s)
  BY <1>6, <1>7, <1>8, Zenon DEF M!calculate_results, calculate_results
<1>10. \A s, d : M!process_result(s, d) = process_result(s, d)
  BY <1>2, <1>9, Zenon DEF M!process_result, process_result, M!results_stable, results_stable,
                           M!ZeroResult, ZeroResult
<1>11. \A n, x, y : M!calculate_results_early_proc(n, x, y) = calculate_results_early_proc(n, x, y)
  BY Zenon DEF M!calculate_results_early_proc, calculate_results_early_proc
<1> QED
  BY <1>1, <1>2, <1>3, <1>4, <1>10, <1>11, Zenon

\* What is known of the constants.
LEMMA MConstants ==
  /\ Runs \in Nat /\ Runs > 0 /\ Ignoreds \subseteq 0..Runs - 1
  /\ Runs < Modulus \div 2
  /\ OverheadTimes \subseteq 0..Modulus - 1 /\ Times \subseteq 0..Modulus - 1
  /\ \A t \in Times : 2 * t < Modulus
  /\ \A t \in Times, o \in OverheadTimes \cup {0} : Runs * ((t - o) * (t - o)) < Modulus
<1>1. Runs \in Nat \ {0} => Runs \in Nat /\ Runs > 0
  OBVIOUS
<1> QED
  BY <1>1, MeasurePartAssumption, MSame, Zenon DEF M!MeasureAssumption

\* Times are numbers that fit into a word.
LEMMA MTimes ==
  /\ \A t \in OverheadTimes \cup {0} : t \in Int /\ 0 <= t /\ t < Modulus
  /\ \A t \in Times : t \in Int /\ 0 <= t /\ t < Modulus
  /\ \A g \in Ignoreds : g \in Nat /\ g \in 0..Runs - 1
<1>1. Modulus \in Nat /\ Modulus > 0
  BY StatisticsAssumption, Zenon
<1> HIDE DEF Modulus
<1> QED
  BY <1>1, MConstants

\* The minima of the first values of s, from the largest word on.
Lowers(g, s) ==
  g = [n \in 0..Len(s) |-> IF n = 0 THEN Modulus - 1
                           ELSE LET m == g[n - 1] IN IF s[n] < m THEN s[n] ELSE m]

\* getMinOverhead returns one of the samples.
LEMMA MinIsSample ==
  ASSUME NEW N \in Nat, N > 0, NEW O, \A v \in O : v \in Int /\ v < Modulus,
         NEW s \in [1..N -> O]
  PROVE  M!getMinOverhead(s) \in O
<1>1. Len(s) = N /\ \A n \in 1..N : s[n] \in O /\ s[n] \in Int
  OBVIOUS
<1>2. Modulus - 1 \in Int
  BY StatisticsAssumption
<1> DEFINE w == Modulus - 1
<1>3. \E g : Lowers(g, s)
  <2> DEFINE step == [n \in 1..N |-> [v \in Int |-> IF s[n] < v THEN s[n] ELSE v]]
  <2>1. step \in [1..N -> [Int -> Int]]
    BY <1>1, Zenon
  <2>2. PICK g : Recurs(g, N, Int, w, step)
    <3> HIDE DEF step
    <3> QED
      BY <1>2, <2>1, Recursion, Zenon
  <2>3. /\ g \in [0..N -> Int] /\ g[0] = w
        /\ \A n \in 1..N : g[n] = step[n][g[n - 1]]
    BY <2>2, Zenon DEF Recurs
  <2>4. ASSUME NEW n \in 0..N
        PROVE  g[n] = IF n = 0 THEN w ELSE LET m == g[n - 1] IN IF s[n] < m THEN s[n] ELSE m
    <3>1. CASE n = 0
      BY <2>3, <3>1, Zenon
    <3>2. CASE n # 0
      <4>1. n \in 1..N /\ n - 1 \in 0..N
        BY <3>2
      <4>2. g[n - 1] \in Int /\ g[n] = step[n][g[n - 1]]
        BY <2>3, <4>1, Zenon
      <4>3. g[n] = IF s[n] < g[n - 1] THEN s[n] ELSE g[n - 1]
        BY <4>1, <4>2, Zenon
      <4> QED
        BY <3>2, <4>3, Zenon
    <3> QED
      BY <3>1, <3>2, Zenon
  <2>5. Lowers(g, s)
    <3> HIDE DEF step
    <3>1. g = [n \in 0..N |-> g[n]]
      BY <2>3, Zenon
    <3> QED
      BY <1>1, <2>4, <3>1, Zenon DEF Lowers
  <2> QED
    BY <2>5, Zenon
<1> DEFINE G == CHOOSE g : Lowers(g, s)
<1>4. Lowers(G, s)
  BY <1>3, Zenon
<1>5. M!getMinOverhead(s) = G[N]
  BY <1>1, MSame, Zenon DEF M!getMinOverhead, Lowers
<1> HIDE DEF G
<1>6. \A n \in 0..N : G[n] = IF n = 0 THEN w ELSE IF s[n] < G[n - 1] THEN s[n] ELSE G[n - 1]
  <2>1. G = [n \in 0..N |-> IF n = 0 THEN w ELSE IF s[n] < G[n - 1] THEN s[n] ELSE G[n - 1]]
    BY <1>1, <1>4, Zenon DEF Lowers
  <2> QED
    BY <2>1, Zenon
<1> HIDE DEF w
<1> DEFINE T == {n \in 0..N : G[n] \in O \/ (G[n] = w /\ \A q \in 1..n : w <= s[q])}
<1>7. 0 \in T
  <2>1. 0 \in 0..N /\ \A q \in 1..0 : w <= s[q]
    OBVIOUS
  <2> QED
    BY <1>6, <2>1, Zenon
<1>8. ASSUME NEW n \in 0..N, n # N, n \in T
      PROVE  n + 1 \in T
  <2>1. n + 1 \in 0..N /\ n + 1 # 0 /\ (n + 1) - 1 = n /\ n + 1 \in 1..N
    BY <1>8
  <2>2. G[n + 1] = IF s[n + 1] < G[n] THEN s[n + 1] ELSE G[n]
    BY <1>6, <2>1, Zenon
  <2>3. CASE s[n + 1] < G[n]
    BY <1>1, <2>1, <2>2, <2>3, Zenon
  <2>4. CASE ~(s[n + 1] < G[n])
    <3>1. CASE G[n] \in O
      BY <2>1, <2>2, <2>4, <3>1, Zenon
    <3>2. CASE G[n] = w /\ \A q \in 1..n : w <= s[q]
      <4>1. w <= s[n + 1]
        BY <1>1, <1>2, <2>1, <2>4, <3>2 DEF w
      <4>2. \A q \in 1..n + 1 : q \in 1..n \/ q = n + 1
        OBVIOUS
      <4> QED
        BY <2>1, <2>2, <2>4, <3>2, <4>1, <4>2, Zenon
    <3> QED
      BY <1>8, <3>1, <3>2, Zenon
  <2> QED
    BY <2>3, <2>4, Zenon
<1>9. N \in T
  <2>1. N \in 0..N
    OBVIOUS
  <2> HIDE DEF T
  <2> QED
    BY <1>7, <1>8, <2>1, Counting, Zenon
<1>10. G[N] \in O
  <2>1. CASE G[N] \in O
    BY <2>1, Zenon
  <2>2. CASE G[N] = w /\ \A q \in 1..N : w <= s[q]
    <3>1. N \in 1..N
      OBVIOUS
    <3>2. s[N] \in O /\ w <= s[N] /\ s[N] \in Int /\ s[N] < Modulus
      BY <1>1, <2>2, <3>1, Zenon
    <3>3. Modulus \in Nat
      BY StatisticsAssumption, Zenon
    <3>4. s[N] = w
      <4> HIDE DEF Modulus
      <4> QED
        BY <3>2, <3>3 DEF w
    <3> QED
      BY <2>2, <3>2, <3>4, Zenon
  <2> QED
    BY <1>9, <2>1, <2>2, Zenon
<1> QED
  BY <1>5, <1>10, Zenon

-----------------------------------------------------------------------------
(* Measure: the inductive invariant.                                       *)

\* The sums are those of the samples so far, as words; the series have the lengths of
\* their phase.
MInv ==
  /\ m_app \in Apps /\ m_ignored \in Ignoreds
  /\ m_phase \in {"overhead", "min", "late", "early", "process", "done"}
  /\ m_overhead \in Seq(OverheadTimes) /\ late \in Seq(Times) /\ early \in Seq(Times)
  /\ m_phase = "overhead" => Len(m_overhead) < Runs
  /\ m_phase # "overhead" => Len(m_overhead) = Runs
  /\ m_phase \in {"overhead", "min"} => late = <<>>
  /\ m_phase = "late" => Len(late) < Runs
  /\ m_phase \in {"early", "process", "done"} => Len(late) = Runs
  /\ m_phase \in {"overhead", "min", "late"} => early = <<>>
  /\ m_phase = "early" => Len(early) < Runs
  /\ m_phase \in {"process", "done"} => Len(early) = Runs /\ num = Runs - m_ignored
  /\ overhead_min \in OverheadTimes \cup {0}
  /\ sum = Wrap(KeptSum(early, m_ignored, overhead_min))
  /\ sum2 = Wrap(KeptSquares(early, m_ignored, overhead_min))
  /\ m_phase = "done" =>
       /\ late_result = M!process_result(late, M!Desc(FALSE, M!ProcessedOverhead))
       /\ early_result = M!calculate_results_early_proc(num, sum, sum2)

\* A stored series with one more sample.
LEMMA SeriesGrows ==
  ASSUME NEW V, NEW s \in Seq(V), NEW v \in V
  PROVE  /\ Append(s, v) \in Seq(V) /\ Len(Append(s, v)) = Len(s) + 1 /\ Len(s) \in Nat
         /\ <<>> \in Seq(V) /\ Len(<<>>) = 0
OBVIOUS

\* A series of samples of a set of integers is one of integers.
LEMMA SeriesOfNumbers ==
  ASSUME NEW V, NEW s \in Seq(V), V \subseteq Int
  PROVE  s \in Seq(Int) /\ Len(s) \in Nat
<1>1. Len(s) \in Nat /\ s \in [1..Len(s) -> V]
  OBVIOUS
<1>2. s \in [1..Len(s) -> Int]
  BY <1>1, Zenon
<1>3. \A n \in Nat : \A t \in [1..n -> Int] : t \in Seq(Int)
  OBVIOUS
<1> QED
  BY <1>1, <1>2, <1>3, Zenon

\* A sample is the time it took, wherever the counter wraps.
LEMMA MElapsed ==
  ASSUME NEW start \in {0, M!Modulus - 1}, NEW time, time \in OverheadTimes \/ time \in Times
  PROVE  M!Elapsed(start, time) = time
<1>1. Modulus \in Nat
  BY StatisticsAssumption, Zenon
<1>2. time \in Int /\ 0 <= time /\ time < Modulus
  BY MTimes, Zenon
<1>3. start \in {0, Modulus - 1}
  BY MSame, Zenon
<1> HIDE DEF Modulus
<1>4. start \in Int /\ time \in 0..Modulus - 1
  BY <1>1, <1>2, <1>3
<1>5. M!Elapsed(start, time) = Wrap(Wrap(start + time) - start)
  BY MSame, Zenon DEF M!Elapsed
<1> QED
  BY <1>4, <1>5, ElapsedTime, Zenon

\* The invariant holds when the benchmark begins, with the sums of a fresh page.
LEMMA MStarts == M!Init => MInv
<1> SUFFICES ASSUME M!Init PROVE MInv
  BY Zenon
<1>1. /\ m_app \in Apps /\ m_ignored \in Ignoreds /\ m_phase = "overhead"
      /\ m_overhead = <<>> /\ late = <<>> /\ early = <<>>
      /\ overhead_min = 0 /\ sum = 0 /\ sum2 = 0
  BY Zenon DEF M!Init
<1>2. /\ <<>> \in Seq(OverheadTimes) /\ <<>> \in Seq(Times) /\ Len(<<>>) < Runs
  BY MConstants
<1>3. m_ignored \in Nat /\ 0 \in Int
  BY <1>1, MTimes, Zenon
<1>4. KeptSum(<<>>, m_ignored, 0) = 0 /\ KeptSquares(<<>>, m_ignored, 0) = 0
  BY <1>3, KeptOfNone, Zenon
<1>5. Wrap(0) = 0
  <2>1. 0 \in Int /\ 0 <= 0 /\ 0 < Modulus
    BY StatisticsAssumption
  <2> QED
    BY <2>1, WrapKeeps, Zenon
<1> QED
  BY <1>1, <1>2, <1>4, <1>5, Zenon DEF MInv

\* A sample of measure_nullsyscall_overhead or measure_signal_overhead keeps the invariant.
LEMMA MMeasuresOverhead ==
  ASSUME MInv, M!MeasureOverhead, UNCHANGED <<m_app, m_ignored>>
  PROVE  MInv'
<1>1. m_phase = "overhead"
  BY Zenon DEF M!MeasureOverhead
<1>2. PICK start \in {0, M!Modulus - 1}, time \in OverheadTimes :
        m_overhead' = Append(m_overhead, M!Elapsed(start, time))
  BY Zenon DEF M!MeasureOverhead
<1>3. m_overhead' = Append(m_overhead, time)
  BY <1>2, MElapsed, Zenon
<1>4. m_phase' = IF Len(m_overhead) + 1 = Runs THEN "min" ELSE m_phase
  BY Zenon DEF M!MeasureOverhead
<1>5. /\ late' = late /\ early' = early /\ overhead_min' = overhead_min
      /\ sum' = sum /\ sum2' = sum2 /\ m_ignored' = m_ignored /\ m_app' = m_app
  BY Zenon DEF M!MeasureOverhead
<1>6. /\ m_app \in Apps /\ m_ignored \in Ignoreds
      /\ m_overhead \in Seq(OverheadTimes) /\ late \in Seq(Times) /\ early \in Seq(Times)
      /\ Len(m_overhead) < Runs /\ late = <<>> /\ early = <<>>
      /\ overhead_min \in OverheadTimes \cup {0}
      /\ sum = Wrap(KeptSum(early, m_ignored, overhead_min))
      /\ sum2 = Wrap(KeptSquares(early, m_ignored, overhead_min))
  BY <1>1, Zenon DEF MInv
<1>7. m_overhead' \in Seq(OverheadTimes) /\ Len(m_overhead') = Len(m_overhead) + 1 /\ Len(m_overhead) \in Nat
  BY <1>3, <1>6, SeriesGrows, Zenon
<1>8. CASE Len(m_overhead) + 1 = Runs
  <2>1. m_phase' = "min"
    BY <1>4, <1>8, Zenon
  <2> QED
    BY <1>5, <1>6, <1>7, <1>8, <2>1, Zenon DEF MInv
<1>9. CASE Len(m_overhead) + 1 # Runs
  <2>1. m_phase' = "overhead"
    BY <1>1, <1>4, <1>9, Zenon
  <2>2. Len(m_overhead') < Runs
    BY <1>6, <1>7, <1>9, MConstants
  <2> QED
    BY <1>5, <1>6, <1>7, <2>1, <2>2, Zenon DEF MInv
<1> QED
  BY <1>8, <1>9, Zenon

\* The minimum overhead is set while nothing has been summed up.
LEMMA MSetsMin ==
  ASSUME MInv, M!SetOverheadMin, UNCHANGED <<m_app, m_ignored>>
  PROVE  MInv'
<1>1. m_phase = "min" /\ m_phase' = "late"
  BY Zenon DEF M!SetOverheadMin
<1>2. /\ m_overhead' = m_overhead /\ late' = late /\ early' = early
      /\ sum' = sum /\ sum2' = sum2 /\ m_ignored' = m_ignored /\ m_app' = m_app
  BY Zenon DEF M!SetOverheadMin
<1>3. overhead_min' = IF m_app = "signal" THEN M!getMinOverhead(m_overhead) ELSE overhead_min
  BY Zenon DEF M!SetOverheadMin
<1>4. /\ m_app \in Apps /\ m_ignored \in Ignoreds
      /\ m_overhead \in Seq(OverheadTimes) /\ late \in Seq(Times) /\ early \in Seq(Times)
      /\ Len(m_overhead) = Runs /\ late = <<>> /\ early = <<>>
      /\ overhead_min \in OverheadTimes \cup {0}
      /\ sum = Wrap(KeptSum(early, m_ignored, overhead_min))
      /\ sum2 = Wrap(KeptSquares(early, m_ignored, overhead_min))
  BY <1>1, Zenon DEF MInv
<1>5. M!getMinOverhead(m_overhead) \in OverheadTimes
  <2>1. m_overhead \in [1..Runs -> OverheadTimes]
    BY <1>4, MConstants
  <2>2. \A v \in OverheadTimes : v \in Int /\ v < Modulus
    BY MTimes, Zenon
  <2> QED
    BY <2>1, <2>2, MConstants, MinIsSample, Zenon
<1>6. overhead_min' \in OverheadTimes \cup {0}
  BY <1>3, <1>4, <1>5, Zenon
<1>7. m_ignored \in Nat /\ overhead_min \in Int /\ overhead_min' \in Int
  BY <1>4, <1>6, MTimes, Zenon
<1>8. /\ sum' = Wrap(KeptSum(early', m_ignored', overhead_min'))
      /\ sum2' = Wrap(KeptSquares(early', m_ignored', overhead_min'))
  <2>1. /\ KeptSum(<<>>, m_ignored, overhead_min) = 0
        /\ KeptSquares(<<>>, m_ignored, overhead_min) = 0
    BY <1>7, KeptOfNone, Zenon
  <2>2. /\ KeptSum(<<>>, m_ignored, overhead_min') = 0
        /\ KeptSquares(<<>>, m_ignored, overhead_min') = 0
    BY <1>7, KeptOfNone, Zenon
  <2> QED
    BY <1>2, <1>4, <2>1, <2>2, Zenon
<1>9. Len(late') < Runs
  BY <1>2, <1>4, MConstants
<1> QED
  BY <1>1, <1>2, <1>4, <1>6, <1>8, <1>9, Zenon DEF MInv

\* A sample of measure_nullsyscall or low_prio_signal_fn keeps the invariant.
LEMMA MMeasuresLate ==
  ASSUME MInv, M!MeasureLate, UNCHANGED <<m_app, m_ignored>>
  PROVE  MInv'
<1>1. m_phase = "late"
  BY Zenon DEF M!MeasureLate
<1>2. PICK start \in {0, M!Modulus - 1}, time \in Times :
        late' = Append(late, M!Elapsed(start, time))
  BY Zenon DEF M!MeasureLate
<1>3. late' = Append(late, time)
  BY <1>2, MElapsed, Zenon
<1>4. m_phase' = IF Len(late) + 1 = Runs THEN "early" ELSE m_phase
  BY Zenon DEF M!MeasureLate
<1>5. /\ m_overhead' = m_overhead /\ early' = early /\ overhead_min' = overhead_min
      /\ sum' = sum /\ sum2' = sum2 /\ m_ignored' = m_ignored /\ m_app' = m_app
  BY Zenon DEF M!MeasureLate
<1>6. /\ m_app \in Apps /\ m_ignored \in Ignoreds
      /\ m_overhead \in Seq(OverheadTimes) /\ late \in Seq(Times) /\ early \in Seq(Times)
      /\ Len(m_overhead) = Runs /\ Len(late) < Runs /\ early = <<>>
      /\ overhead_min \in OverheadTimes \cup {0}
      /\ sum = Wrap(KeptSum(early, m_ignored, overhead_min))
      /\ sum2 = Wrap(KeptSquares(early, m_ignored, overhead_min))
  BY <1>1, Zenon DEF MInv
<1>7. late' \in Seq(Times) /\ Len(late') = Len(late) + 1 /\ Len(late) \in Nat
  BY <1>3, <1>6, SeriesGrows, Zenon
<1>8. CASE Len(late) + 1 = Runs
  <2>1. m_phase' = "early"
    BY <1>4, <1>8, Zenon
  <2>2. Len(early') < Runs
    BY <1>5, <1>6, MConstants
  <2> QED
    BY <1>5, <1>6, <1>7, <1>8, <2>1, <2>2, Zenon DEF MInv
<1>9. CASE Len(late) + 1 # Runs
  <2>1. m_phase' = "late"
    BY <1>1, <1>4, <1>9, Zenon
  <2>2. Len(late') < Runs
    BY <1>6, <1>7, <1>9, MConstants
  <2> QED
    BY <1>5, <1>6, <1>7, <2>1, <2>2, Zenon DEF MInv
<1> QED
  BY <1>8, <1>9, Zenon

\* What DATACOLLECT_GET_SUMS adds up: the sample minus the overhead from N_IGNORED on,
\* and zero before.
LEMMA MAddsSample ==
  ASSUME MInv, m_phase = "early", NEW start \in {0, M!Modulus - 1}, NEW time \in Times,
         NEW sample,
         sample = M!Wrap(M!IsCounted(Len(early), m_ignored)
                           * M!Wrap(M!Elapsed(start, time) - overhead_min))
  PROVE  /\ M!Wrap(sum + sample) = Wrap(KeptSum(Append(early, time), m_ignored, overhead_min))
         /\ M!Wrap(sum2 + M!Wrap(sample * sample))
              = Wrap(KeptSquares(Append(early, time), m_ignored, overhead_min))
<1> DEFINE d == time - overhead_min
           X == KeptSum(early, m_ignored, overhead_min)
           Y == KeptSquares(early, m_ignored, overhead_min)
           bit == M!IsCounted(Len(early), m_ignored)
<1>1. /\ m_ignored \in Ignoreds /\ early \in Seq(Times) /\ Len(early) < Runs
      /\ overhead_min \in OverheadTimes \cup {0} /\ sum = Wrap(X) /\ sum2 = Wrap(Y)
  BY Zenon DEF MInv
<1>2. /\ m_ignored \in Nat /\ m_ignored \in 0..Runs - 1 /\ overhead_min \in Int
      /\ time \in Int /\ \A t \in Times : t \in Int
  BY <1>1, MTimes, Zenon
<1>3. early \in Seq(Int) /\ Len(early) \in Nat
  <2>1. Times \subseteq Int
    BY <1>2, Zenon
  <2> QED
    BY <1>1, <2>1, SeriesOfNumbers, Zenon
<1>4. d \in Int
  BY <1>2
<1>5. X \in Int /\ Y \in Int
  BY <1>2, <1>3, KeptAreNumbers, Zenon
<1>6. bit = IF m_ignored <= Len(early) THEN 1 ELSE 0
  <2>1. Modulus \in Nat
    BY StatisticsAssumption, Zenon
  <2>2. Len(early) < Modulus \div 2 /\ m_ignored < Modulus \div 2
    <3>1. Runs \in Nat /\ Runs < Modulus \div 2
      BY MConstants, Zenon
    <3> HIDE DEF Modulus
    <3>2. Modulus \div 2 \in Int
      BY <2>1
    <3> QED
      BY <1>1, <1>2, <1>3, <3>1, <3>2
  <2>3. bit = Wrap(Modulus - 1 - Wrap(Len(early) - m_ignored)) \div (Modulus \div 2)
    BY MSame, Zenon DEF M!IsCounted
  <2> QED
    BY <1>2, <1>3, <2>2, <2>3, HighestBit, Zenon
<1>7. sample = Wrap(bit * Wrap(d))
  <2>1. M!Elapsed(start, time) = time
    BY MElapsed, Zenon
  <2> QED
    BY <2>1, MSame, Zenon
<1> HIDE DEF d, X, Y, bit
<1>8. Wrap(d) \in Int /\ Wrap(X) \in Int /\ Wrap(Y) \in Int
  <2>1. Wrap(d) \in 0..Modulus - 1 /\ Wrap(X) \in 0..Modulus - 1 /\ Wrap(Y) \in 0..Modulus - 1
    BY <1>4, <1>5, WrapIsWord, Zenon
  <2>2. \A w \in 0..Modulus - 1 : w \in Int
    OBVIOUS
  <2> QED
    BY <2>1, <2>2, Zenon
<1>9. CASE m_ignored <= Len(early)
  <2>1. sample = Wrap(d)
    <3>1. bit * Wrap(d) = Wrap(d)
      BY <1>6, <1>8, <1>9
    <3> QED
      BY <1>4, <1>7, <3>1, WrapAdds, Zenon
  <2>2. /\ KeptSum(Append(early, time), m_ignored, overhead_min) = X + d
        /\ KeptSquares(Append(early, time), m_ignored, overhead_min) = Y + d * d
    BY <1>2, <1>3, <1>9, KeptOfMore, Zenon DEF X, Y, d
  <2>3. Wrap(Wrap(X) + Wrap(d)) = Wrap(X + d)
    BY <1>4, <1>5, WrapAdds, Zenon
  <2>4. Wrap(Wrap(d) * Wrap(d)) = Wrap(d * d)
    BY <1>4, WrapAdds, Zenon
  <2>5. d * d \in Int
    BY <1>4
  <2>6. Wrap(Wrap(Y) + Wrap(d * d)) = Wrap(Y + d * d)
    <3> DEFINE e == d * d
    <3> HIDE DEF e
    <3>1. e \in Int
      BY <2>5, Zenon DEF e
    <3>2. Wrap(Wrap(Y) + Wrap(e)) = Wrap(Y + e)
      BY <1>5, <3>1, WrapAdds, Zenon
    <3> QED
      BY <3>2, Zenon DEF e
  <2> QED
    BY <1>1, <2>1, <2>2, <2>3, <2>4, <2>6, MSame, Zenon
<1>10. CASE ~(m_ignored <= Len(early))
  <2>1. Wrap(0) = 0
    <3>1. 0 \in Int /\ 0 <= 0 /\ 0 < Modulus
      BY StatisticsAssumption
    <3> QED
      BY <3>1, WrapKeeps, Zenon
  <2>2. sample = 0
    <3>1. bit * Wrap(d) = 0
      BY <1>6, <1>8, <1>10
    <3> QED
      BY <1>7, <2>1, <3>1, Zenon
  <2>3. /\ KeptSum(Append(early, time), m_ignored, overhead_min) = X
        /\ KeptSquares(Append(early, time), m_ignored, overhead_min) = Y
    BY <1>2, <1>3, <1>10, KeptOfMore, Zenon DEF X, Y
  <2>4. Wrap(X) + 0 = Wrap(X) /\ Wrap(Y) + 0 = Wrap(Y) /\ 0 * 0 = 0
    BY <1>8
  <2>5. Wrap(Wrap(X)) = Wrap(X) /\ Wrap(Wrap(Y)) = Wrap(Y)
    BY <1>5, WrapAdds, Zenon
  <2> QED
    BY <1>1, <2>1, <2>2, <2>3, <2>4, <2>5, MSame, Zenon
<1> QED
  BY <1>9, <1>10, Zenon

\* A pass of DATACOLLECT_GET_SUMS adds one sample to both sums, or none.
LEMMA MMeasuresEarly ==
  ASSUME MInv, M!MeasureEarly, UNCHANGED <<m_app, m_ignored>>
  PROVE  MInv'
<1>1. m_phase = "early"
  BY Zenon DEF M!MeasureEarly
<1>2. PICK start \in {0, M!Modulus - 1}, time \in Times :
        LET sample == M!Wrap(M!IsCounted(Len(early), m_ignored)
                               * M!Wrap(M!Elapsed(start, time) - overhead_min))
        IN  /\ early' = Append(early, time)
            /\ sum' = M!Wrap(sum + sample)
            /\ sum2' = M!Wrap(sum2 + M!Wrap(sample * sample))
  BY Zenon DEF M!MeasureEarly
<1>3. /\ m_overhead' = m_overhead /\ late' = late /\ overhead_min' = overhead_min
      /\ m_ignored' = m_ignored /\ m_app' = m_app
  BY Zenon DEF M!MeasureEarly
<1>4. /\ early' = Append(early, time)
      /\ sum' = Wrap(KeptSum(early', m_ignored', overhead_min'))
      /\ sum2' = Wrap(KeptSquares(early', m_ignored', overhead_min'))
  BY <1>1, <1>2, <1>3, MAddsSample, Zenon
<1>5. /\ m_app \in Apps /\ m_ignored \in Ignoreds
      /\ m_overhead \in Seq(OverheadTimes) /\ late \in Seq(Times) /\ early \in Seq(Times)
      /\ Len(m_overhead) = Runs /\ Len(late) = Runs /\ Len(early) < Runs
      /\ overhead_min \in OverheadTimes \cup {0}
  BY <1>1, Zenon DEF MInv
<1>6. early' \in Seq(Times) /\ Len(early') = Len(early) + 1 /\ Len(early) \in Nat
  BY <1>4, <1>5, SeriesGrows, Zenon
<1>7. CASE Len(early) + 1 = Runs
  <2>1. m_phase' = "process" /\ num' = Runs - m_ignored
    BY <1>7, Zenon DEF M!MeasureEarly
  <2> QED
    BY <1>3, <1>4, <1>5, <1>6, <1>7, <2>1, Zenon DEF MInv
<1>8. CASE Len(early) + 1 # Runs
  <2>1. m_phase' = "early"
    BY <1>1, <1>8, Zenon DEF M!MeasureEarly
  <2>2. Len(early') < Runs
    BY <1>5, <1>6, <1>8, MConstants
  <2> QED
    BY <1>3, <1>4, <1>5, <1>6, <2>1, <2>2, Zenon DEF MInv
<1> QED
  BY <1>7, <1>8, Zenon

\* hardware_process or signal_process computes both results from the series.
LEMMA MProcesses ==
  ASSUME MInv, M!Process, UNCHANGED <<m_app, m_ignored>>
  PROVE  MInv'
<1>1. m_phase = "process" /\ m_phase' = "done"
  BY Zenon DEF M!Process
<1>2. /\ m_overhead' = m_overhead /\ late' = late /\ early' = early
      /\ overhead_min' = overhead_min /\ sum' = sum /\ sum2' = sum2 /\ num' = num
      /\ m_ignored' = m_ignored /\ m_app' = m_app
  BY Zenon DEF M!Process
<1>3. /\ late_result' = M!process_result(late, M!Desc(FALSE, M!ProcessedOverhead))
      /\ early_result' = M!calculate_results_early_proc(num, sum, sum2)
  BY Zenon DEF M!Process
<1>4. M!ProcessedOverhead' = M!ProcessedOverhead
  BY <1>2, Zenon DEF M!ProcessedOverhead, M!Desc
<1>5. /\ late_result' = M!process_result(late', M!Desc(FALSE, M!ProcessedOverhead)')
      /\ early_result' = M!calculate_results_early_proc(num', sum', sum2')
  BY <1>2, <1>3, <1>4, Zenon DEF M!Desc
<1>6. /\ m_app \in Apps /\ m_ignored \in Ignoreds
      /\ m_overhead \in Seq(OverheadTimes) /\ late \in Seq(Times) /\ early \in Seq(Times)
      /\ Len(m_overhead) = Runs /\ Len(late) = Runs /\ Len(early) = Runs
      /\ num = Runs - m_ignored /\ overhead_min \in OverheadTimes \cup {0}
      /\ sum = Wrap(KeptSum(early, m_ignored, overhead_min))
      /\ sum2 = Wrap(KeptSquares(early, m_ignored, overhead_min))
  BY <1>1, Zenon DEF MInv
<1> QED
  BY <1>1, <1>2, <1>5, <1>6, Zenon DEF MInv

\* A step of another benchmark, or none, leaves the series and sums alone.
LEMMA MStutters ==
  ASSUME MInv, UNCHANGED measurevars
  PROVE  MInv'
<1>1. /\ m_app' = m_app /\ m_ignored' = m_ignored /\ m_phase' = m_phase
      /\ m_overhead' = m_overhead /\ late' = late /\ early' = early
      /\ overhead_min' = overhead_min /\ sum' = sum /\ sum2' = sum2 /\ num' = num
      /\ late_result' = late_result /\ early_result' = early_result
  BY Zenon DEF measurevars
<1>2. M!ProcessedOverhead' = M!ProcessedOverhead
  BY <1>1, Zenon DEF M!ProcessedOverhead, M!Desc
<1>3. M!Desc(FALSE, M!ProcessedOverhead)' = M!Desc(FALSE, M!ProcessedOverhead)
  BY <1>1, <1>2, Zenon DEF M!Desc
<1> QED
  BY <1>1, <1>3, Zenon DEF MInv

\* Every step of the benchmark keeps the invariant.
LEMMA MStep ==
  ASSUME MInv, M!Next
  PROVE  MInv'
<1>1. CASE M!Done
  BY <1>1, MStutters, Zenon DEF M!Done, M!vars, measurevars
<1>2. CASE ~M!Done
  <2>1. UNCHANGED <<m_app, m_ignored>>
    BY <1>2, Zenon DEF M!Next
  <2> QED
    BY <1>2, <2>1, MMeasuresOverhead, MSetsMin, MMeasuresLate, MMeasuresEarly, MProcesses,
       Zenon DEF M!Next
<1> QED
  BY <1>1, <1>2, Zenon

\* The sums that the hardware and the signal benchmark keep are, at every moment, those of
\* the samples that count so far, as words; and every series is as long as its phase says.
THEOREM MeasureInvariance == MCSpec => []MInv
<1>1. MCInit => MInv
  BY MStarts, Zenon DEF MCInit
<1>2. MInv /\ [MCNext]_allvars => MInv'
  BY MStep, MStutters, Zenon DEF MCNext, allvars
<1> QED
  BY <1>1, <1>2, PTL DEF MCSpec

\* Of a series of N_RUNS samples, all but the first N_IGNORED count.
LEMMA MCounts ==
  ASSUME NEW s \in Seq(Times), Len(s) = Runs, NEW g \in Ignoreds, NEW o \in Int
  PROVE  /\ Runs - g \in Nat /\ Runs - g > 0 /\ Runs - g <= Runs
         /\ KeptNumber(s, g) = Runs - g
         /\ \A q \in 1..Runs - g : g + q \in 1..Runs /\ s[g + q] \in Times
         /\ s \in Seq(Int) /\ s \in [1..Runs -> Int]
         /\ Kept(s, g, o) \in [1..Runs - g -> Int]
         /\ Kept(s, g, o) = [q \in 1..Runs - g |-> s[g + q] - o]
         /\ Len(Kept(s, g, o)) = Runs - g
<1>1. g \in Nat /\ g \in 0..Runs - 1 /\ Runs \in Nat /\ Times \subseteq Int
  BY MTimes, MConstants, Zenon
<1>2. /\ Runs - g \in Nat /\ Runs - g > 0 /\ Runs - g <= Runs
      /\ KeptNumber(s, g) = Runs - g
      /\ \A q \in 1..Runs - g : g + q \in 1..Runs
  BY <1>1 DEF KeptNumber
<1>3. \A b \in 1..Runs : s[b] \in Times
  BY <1>1
<1>4. s \in Seq(Int)
  BY <1>1, SeriesOfNumbers, Zenon
<1>5. s \in [1..Runs -> Int]
  BY <1>4
<1>6. Kept(s, g, o) \in [1..Runs - g -> Int]
  <2>1. Kept(s, g, o) \in [1..KeptNumber(s, g) -> Int]
    BY <1>1, <1>4, KeptAreNumbers, Zenon
  <2> QED
    BY <1>2, <2>1, Zenon
<1>7. Kept(s, g, o) = [q \in 1..Runs - g |-> s[g + q] - o]
  BY <1>2, Zenon DEF Kept
<1>8. \A n \in Nat : \A x \in [1..n -> Int] : Len(x) = n
  OBVIOUS
<1>9. Len(Kept(s, g, o)) = Runs - g
  BY <1>2, <1>6, <1>8, Zenon
<1> QED
  BY <1>2, <1>3, <1>4, <1>5, <1>6, <1>7, <1>9, Zenon

\* What calculate_results_early_proc makes of the two sums is exact.
LEMMA MEarly ==
  ASSUME MInv
  PROVE  EarlyResultIsExact
<1> DEFINE x == Kept(early, m_ignored, overhead_min)
           N == Runs - m_ignored
           e == early_result.mean
<1> SUFFICES ASSUME m_phase = "done", Total(x) >= 0
             PROVE  /\ num = N
                    /\ e * num <= Total(x) /\ Total(x) < (e + 1) * num
                    /\ early_result.variance = <<Total(Distances(x, N, e)), num>>
  <2> SUFFICES ASSUME m_phase = "done"
               PROVE  LET y == M!Counted(early, overhead_min)
                      IN  Total(y) >= 0 =>
                            /\ num = Len(y)
                            /\ e * num <= Total(y) /\ Total(y) < (e + 1) * num
                            /\ early_result.variance
                                 = <<Total([q \in DOMAIN y |-> (y[q] - e) * (y[q] - e)]), num>>
    BY MSame, Zenon DEF EarlyResultIsExact, M!EarlyResultIsExact
  <2>1. /\ early \in Seq(Times) /\ Len(early) = Runs /\ m_ignored \in Ignoreds
        /\ overhead_min \in Int
    BY MTimes, Zenon DEF MInv
  <2>2. x \in [1..N -> Int] /\ x = [q \in 1..N |-> early[m_ignored + q] - overhead_min] /\ Len(x) = N
    BY <2>1, MCounts, Zenon
  <2>3. M!Counted(early, overhead_min) = x
    BY <2>1, <2>2, Zenon DEF M!Counted
  <2>4. DOMAIN x = 1..N
    BY <2>2, Zenon
  <2>5. [q \in DOMAIN x |-> (x[q] - e) * (x[q] - e)] = Distances(x, N, e)
    BY <2>4, Zenon DEF Distances
  <2> HIDE DEF x, N, e
  <2> QED
    BY <2>2, <2>3, <2>5, Zenon
<1>1. /\ early \in Seq(Times) /\ Len(early) = Runs /\ m_ignored \in Ignoreds
      /\ overhead_min \in OverheadTimes \cup {0} /\ overhead_min \in Int
      /\ num = N /\ sum = Wrap(Total(x))
      /\ sum2 = Wrap(Total(Distances(x, KeptNumber(early, m_ignored), 0)))
      /\ early_result = calculate_results_early_proc(num, sum, sum2)
  BY MTimes, MSame, Zenon DEF MInv, KeptSum, KeptSquares
<1>2. /\ N \in Nat /\ N > 0 /\ N <= Runs /\ KeptNumber(early, m_ignored) = N
      /\ x \in [1..N -> Int] /\ x = [q \in 1..N |-> early[m_ignored + q] - overhead_min]
      /\ \A q \in 1..N : early[m_ignored + q] \in Times
  BY <1>1, MCounts, Zenon
<1>3. \A q \in 1..N : Runs * (x[q] * x[q]) < Modulus
  <2> SUFFICES ASSUME NEW q \in 1..N PROVE Runs * (x[q] * x[q]) < Modulus
    BY Zenon
  <2>1. x[q] = early[m_ignored + q] - overhead_min /\ early[m_ignored + q] \in Times
    BY <1>2, Zenon
  <2> QED
    BY <1>1, <2>1, MConstants, Zenon
<1>4. early_result = calculate_results_early_proc(N, Wrap(Total(x)), Wrap(Total(Distances(x, N, 0))))
  BY <1>1, <1>2, Zenon
<1> HIDE DEF x, N
<1>5. Runs \in Nat
  BY MConstants, Zenon
<1> QED
  BY <1>1, <1>2, <1>3, <1>4, <1>5, EarlyResult, Zenon

\* Of the samples that the hardware and the signal benchmark sum up, the driver reports
\* the exact mean, rounded down, and the exact mean squared distance from it.
THEOREM EarlyExact == MCSpec => []EarlyResultIsExact
<1>1. MInv => EarlyResultIsExact
  BY MEarly, Zenon
<1> QED
  BY <1>1, MeasureInvariance, PTL

\* The overhead that the driver subtracts is the smallest of those that count, or none.
LEMMA MLateOverhead ==
  ASSUME MInv, m_phase = "done"
  PROVE  /\ M!ProcessedOverhead = M!LateOverhead
         /\ M!LateOverhead \in Int /\ 0 <= M!LateOverhead
<1> DEFINE desc == M!Desc(m_app = "signal", 0)
<1>1. m_overhead \in Seq(OverheadTimes) /\ Len(m_overhead) = Runs /\ m_ignored \in Ignoreds
  BY Zenon DEF MInv
<1>2. desc.ignored = m_ignored /\ desc.overhead = 0 /\ desc.stable = (m_app = "signal")
  BY Zenon DEF M!Desc
<1>3. Runs \in Nat /\ m_ignored \in 0..Runs - 1
  BY <1>1, MTimes, MConstants, Zenon
<1>4. \A v \in OverheadTimes : v \in Int /\ 0 <= v /\ v < Modulus
  BY MTimes, Zenon
<1>5. \A q \in 1..Runs : m_overhead[q] \in OverheadTimes
  BY <1>1, <1>3
<1>6. m_overhead \in [1..Runs -> Int]
  <2>1. OverheadTimes \subseteq Int
    BY <1>4, Zenon
  <2>2. m_overhead \in Seq(Int)
    BY <1>1, <2>1, SeriesOfNumbers, Zenon
  <2> QED
    BY <1>1, <2>2
<1>7. \A q \in 1..Runs : 0 <= m_overhead[q] /\ m_overhead[q] < Modulus
  BY <1>4, <1>5, Zenon
<1>8. M!ProcessedOverhead = process_result(m_overhead, desc).min
  BY MSame, Zenon DEF M!ProcessedOverhead
<1> HIDE DEF desc
<1>9. desc.ignored \in 0..Runs - 1
  BY <1>2, <1>3, Zenon
<1>10. /\ process_result(m_overhead, desc).min = Smallest(m_overhead, Runs, desc)
       /\ process_result(m_overhead, desc).min \in Int
       /\ 0 <= process_result(m_overhead, desc).min
  BY <1>2, <1>3, <1>6, <1>7, <1>9, SmallestOverhead, Zenon
<1>11. process_result(m_overhead, desc).min = M!LateOverhead
  BY <1>1, <1>2, <1>10, Zenon DEF M!LateOverhead, Smallest
<1> QED
  BY <1>8, <1>10, <1>11, Zenon

\* If no sample is below the overhead, process_result hands the exact differences to math.c.
LEMMA MLateResult ==
  ASSUME MInv, m_phase = "done", NEW o, o = M!LateOverhead,
         NEW x, x = Kept(late, m_ignored, o)
  PROVE  /\ Runs - m_ignored \in Nat /\ Runs - m_ignored > 0
         /\ x \in [1..Runs - m_ignored -> Int] /\ Len(x) = Runs - m_ignored
         /\ M!Counted(late, o) = x
         /\ (\A q \in 1..Runs - m_ignored : x[q] >= 0) =>
              /\ late_result = calculate_results(x)
              /\ \A q \in 1..Runs - m_ignored : 0 <= x[q] /\ 2 * x[q] < Modulus
<1> DEFINE desc == M!Desc(FALSE, o)
           N == Runs - m_ignored
<1>1. /\ late \in Seq(Times) /\ Len(late) = Runs /\ m_ignored \in Ignoreds
      /\ late_result = process_result(late, desc)
  BY MLateOverhead, MSame, Zenon DEF MInv
<1>2. o \in Int /\ 0 <= o
  BY MLateOverhead, Zenon
<1>3. /\ N \in Nat /\ N > 0 /\ late \in [1..Runs -> Int]
      /\ \A q \in 1..N : late[m_ignored + q] \in Times
      /\ x \in [1..N -> Int] /\ Len(x) = N
      /\ x = [q \in 1..N |-> late[m_ignored + q] - o]
  BY <1>1, <1>2, MCounts, Zenon
<1>4. M!Counted(late, o) = x
  BY <1>1, <1>3, Zenon DEF M!Counted
<1>5. ASSUME \A q \in 1..N : x[q] >= 0
      PROVE  /\ late_result = calculate_results(x)
             /\ \A q \in 1..N : 0 <= x[q] /\ 2 * x[q] < Modulus
  <2>1. desc.ignored = m_ignored /\ desc.overhead = o /\ desc.stable = FALSE
    BY Zenon DEF M!Desc
  <2>2. Runs \in Nat /\ desc.ignored \in 0..Runs - 1 /\ desc.overhead \in Int
    BY <1>1, <1>2, <2>1, MTimes, MConstants, Zenon
  <2> HIDE DEF desc
  <2>3. process_result(late, desc) = Outcome(late, Runs, desc)
    BY <1>3, <2>2, ProcessedResult, Zenon
  <2>4. late_result = calculate_results(Reduced(late, Runs, m_ignored, o))
    BY <1>1, <2>1, <2>3, Zenon DEF Outcome, Refused
  <2>5. \A q \in 1..N : /\ x[q] = late[m_ignored + q] - o /\ x[q] \in Int
                        /\ 0 <= x[q] /\ x[q] < Modulus /\ 2 * x[q] < Modulus
    <3> SUFFICES ASSUME NEW q \in 1..N
                 PROVE  /\ x[q] = late[m_ignored + q] - o /\ x[q] \in Int
                        /\ 0 <= x[q] /\ x[q] < Modulus /\ 2 * x[q] < Modulus
      BY Zenon
    <3> DEFINE t == late[m_ignored + q]
               y == x[q]
    <3>1. y = t - o /\ y \in Int /\ t \in Times /\ y >= 0
      BY <1>3, <1>5, Zenon
    <3>2. t \in Int /\ t < Modulus /\ 2 * t < Modulus
      BY <3>1, MTimes, MConstants, Zenon
    <3>3. Modulus \in Nat
      BY StatisticsAssumption, Zenon
    <3> HIDE DEF t, y, Modulus
    <3>4. y <= t /\ 0 <= y /\ y < Modulus /\ 2 * y < Modulus
      BY <1>2, <3>1, <3>2, <3>3
    <3> QED
      BY <3>1, <3>4, Zenon DEF t, y
  <2>6. \A q \in 1..N : Wrap(late[m_ignored + q] - o) = x[q]
    <3> SUFFICES ASSUME NEW q \in 1..N PROVE Wrap(late[m_ignored + q] - o) = x[q]
      BY Zenon
    <3>1. Wrap(x[q]) = x[q]
      BY <2>5, WrapKeeps, Zenon
    <3> QED
      BY <2>5, <3>1, Zenon
  <2>7. Reduced(late, Runs, m_ignored, o) = x
    BY <1>3, <2>6, Zenon DEF Reduced
  <2> QED
    BY <2>4, <2>5, <2>7, Zenon
<1> QED
  BY <1>3, <1>4, <1>5, Zenon

\* Of the samples that the hardware and the signal benchmark store, the driver reports
\* the mean and the mean squared distance from it, rounded to the nearest integers.
THEOREM LateExact == MCSpec => []LateResultIsExact
<1>1. MInv => LateResultIsExact
  <2> DEFINE o == M!LateOverhead
             x == Kept(late, m_ignored, o)
             N == Runs - m_ignored
             e == late_result.mean
             v == late_result.variance
  <2> SUFFICES ASSUME MInv, m_phase = "done",
                      LET y == M!Counted(late, o) IN \A q \in DOMAIN y : y[q] >= 0
               PROVE  LET y == M!Counted(late, o)
                          n == Len(y)
                          d == Total([q \in DOMAIN y |-> (y[q] - e) * (y[q] - e)])
                      IN  /\ 2 * n * e - n <= 2 * Total(y) /\ 2 * Total(y) < 2 * n * e + n
                          /\ 2 * n * v - n <= 2 * d /\ 2 * d < 2 * n * v + n
    BY MSame, Zenon DEF LateResultIsExact, M!LateResultIsExact
  <2>1. /\ N \in Nat /\ N > 0 /\ x \in [1..N -> Int] /\ Len(x) = N /\ M!Counted(late, o) = x
        /\ (\A q \in 1..N : x[q] >= 0) => late_result = calculate_results(x)
    BY MLateResult, Zenon
  <2> HIDE DEF o, x, N
  <2>2. DOMAIN x = 1..N
    BY <2>1, Zenon
  <2>3. late_result = calculate_results(x)
    BY <2>1, <2>2, Zenon
  <2>4. [q \in DOMAIN x |-> (x[q] - e) * (x[q] - e)] = Distances(x, N, e)
    BY <2>2, Zenon DEF Distances
  <2>5. /\ 2 * N * e - N <= 2 * Total(x) /\ 2 * Total(x) < 2 * N * e + N
        /\ 2 * N * v - N <= 2 * Total(Distances(x, N, e))
        /\ 2 * Total(Distances(x, N, e)) < 2 * N * v + N
    BY <2>1, <2>3, CalculatedMean, Zenon
  <2> HIDE DEF e, v
  <2> QED
    BY <2>1, <2>4, <2>5, Zenon
<1> QED
  BY <1>1, MeasureInvariance, PTL

\* The minimum, the quartiles and the maximum that the driver reports are in order, and
\* the median is in the middle of the samples.
THEOREM OrderExact == MCSpec => []OrderStatistics
<1>1. MInv => OrderStatistics
  <2> DEFINE o == M!LateOverhead
             x == Kept(late, m_ignored, o)
             N == Runs - m_ignored
  <2> SUFFICES ASSUME MInv, m_phase = "done",
                      LET y == M!Counted(late, o) IN \A q \in DOMAIN y : y[q] >= 0
               PROVE  LET y == M!Counted(late, o)
                          n == Len(y)
                          r == late_result
                      IN  /\ 4 * r.min <= r.first_quantile /\ r.first_quantile <= 2 * r.median
                          /\ 2 * r.median <= r.third_quantile /\ r.third_quantile <= 4 * r.max
                          /\ \A b, c \in DOMAIN y :
                               M!HasRank(y, b, (n - 1) \div 2) /\ M!HasRank(y, c, n \div 2)
                                 => r.median = y[b] + y[c]
    BY Zenon DEF OrderStatistics, M!OrderStatistics
  <2>1. /\ N \in Nat /\ N > 0 /\ x \in [1..N -> Int] /\ Len(x) = N /\ M!Counted(late, o) = x
        /\ (\A q \in 1..N : x[q] >= 0) =>
             /\ late_result = calculate_results(x)
             /\ \A q \in 1..N : 0 <= x[q] /\ 2 * x[q] < Modulus
    BY MLateResult, Zenon
  <2> HIDE DEF o, x, N
  <2>2. DOMAIN x = 1..N
    BY <2>1, Zenon
  <2>3. /\ late_result = calculate_results(x)
        /\ \A q \in 1..N : 0 <= x[q] /\ 2 * x[q] < Modulus
    BY <2>1, <2>2, Zenon
  <2>4. \A b \in 1..N : \A n :
          M!HasRank(x, b, n) => /\ Cardinality({l \in 1..N : x[l] < x[b]}) <= n
                                /\ Cardinality({l \in 1..N : x[l] <= x[b]}) > n
    BY <2>2, MSame, Zenon DEF M!HasRank
  <2>5. LET r == calculate_results(x)
        IN  /\ 4 * r.min <= r.first_quantile /\ r.first_quantile <= 2 * r.median
            /\ 2 * r.median <= r.third_quantile /\ r.third_quantile <= 4 * r.max
            /\ \A b, c \in 1..N :
                 /\ Cardinality({l \in 1..N : x[l] < x[b]}) <= (N - 1) \div 2
                 /\ Cardinality({l \in 1..N : x[l] <= x[b]}) > (N - 1) \div 2
                 /\ Cardinality({l \in 1..N : x[l] < x[c]}) <= N \div 2
                 /\ Cardinality({l \in 1..N : x[l] <= x[c]}) > N \div 2
                 => r.median = x[b] + x[c]
    BY <2>1, <2>3, CalculatedOrder, Zenon
  <2> QED
    BY <2>1, <2>2, <2>3, <2>4, <2>5, Zenon
<1> QED
  BY <1>1, MeasureInvariance, PTL

-----------------------------------------------------------------------------
(* IpcResults: the operators of its instance.                              *)

\* The operators of the instance are those of Statistics.
LEMMA ISame ==
  /\ Ipc!Modulus = Modulus
  /\ \A s : Ipc!results_stable(s) = results_stable(s)
  /\ \A s, d : Ipc!process_result(s, d) = process_result(s, d)
<1>1. Ipc!Modulus = Modulus
  BY Zenon DEF Ipc!Modulus, Modulus
<1>2. \A n : Ipc!Wrap(n) = Wrap(n)
  BY <1>1, Zenon DEF Ipc!Wrap, Wrap
<1>3. \A s : Ipc!results_stable(s) = results_stable(s)
  BY Zenon DEF Ipc!results_stable, results_stable
<1>4. \A s : Ipc!RunningMean(s) = RunningMean(s)
  BY Zenon DEF Ipc!RunningMean, Ipc!Refined, RunningMean, Refined
<1>5. /\ \A s : Ipc!results_mean(s) = results_mean(s)
      /\ \A s, n : Ipc!results_variance(s, n) = results_variance(s, n)
  BY <1>4, Zenon DEF Ipc!results_mean, Ipc!results_variance, Ipc!Round, results_mean,
                     results_variance, Round
<1>6. \A s : Ipc!qsort(s) = qsort(s)
  BY Zenon DEF Ipc!qsort, Ipc!Rank, Ipc!Cardinality, qsort, Rank, Cardinality
<1>7. /\ \A s : Ipc!DoubleMedian(s) = DoubleMedian(s)
      /\ \A s, n : Ipc!FourQuantile(s, n) = FourQuantile(s, n)
      /\ \A s : Ipc!results_mode(s) = results_mode(s)
  BY <1>2, Zenon DEF Ipc!DoubleMedian, DoubleMedian, Ipc!FourQuantile, FourQuantile,
                     Ipc!results_mode, results_mode
<1>8. \A s : Ipc!calculate_results(s) = calculate_results(s)
  BY <1>5, <1>6, <1>7, Zenon DEF Ipc!calculate_results, calculate_results
<1>9. \A s, d : Ipc!process_result(s, d) = process_result(s, d)
  BY <1>2, <1>8, Zenon DEF Ipc!process_result, process_result, Ipc!results_stable,
                           results_stable, Ipc!ZeroResult, ZeroResult
<1> QED
  BY <1>1, <1>3, <1>9, Zenon

\* The ranges of the constants, from the assumption of IpcResults.
LEMMA IConstants ==
  /\ IpcRuns \in Nat /\ IpcRuns >= 3 /\ IpcRetries \in Nat /\ IpcRetries > 0
  /\ \A t \in IpcOverheadTimes : t \in Int /\ 0 <= t /\ t < Modulus
<1>1. /\ IpcRuns \in Nat /\ IpcRuns >= 3 /\ IpcRetries \in Nat \ {0}
      /\ IpcOverheadTimes \subseteq 0..Modulus - 1
  BY IpcPartAssumption, ISame, Zenon DEF Ipc!IpcResultsAssumption
<1>2. \A t \in 0..Modulus - 1 : t \in Int /\ 0 <= t /\ t < Modulus
  <2>1. Modulus \in Nat
    BY StatisticsAssumption, Zenon
  <2> HIDE DEF Modulus
  <2> QED
    BY <2>1
<1>3. IpcRetries \in Nat /\ IpcRetries > 0
  BY <1>1
<1> QED
  BY <1>1, <1>2, <1>3, Zenon

-----------------------------------------------------------------------------
(* IpcResults: the inductive invariant.                                    *)

\* The series that MEASURE_OVERHEAD leaves is complete, and stable unless it was the last.
IpcInv ==
  /\ ipc_phase \in {"overhead", "benchmark", "process", "done"}
  /\ ipc_overhead \in Seq(IpcOverheadTimes) /\ attempt \in 1..IpcRetries
  /\ ipc_phase = "overhead" => Len(ipc_overhead) < IpcRuns
  /\ ipc_phase # "overhead" =>
       /\ Len(ipc_overhead) = IpcRuns
       /\ results_stable(ipc_overhead) \/ attempt = IpcRetries
  /\ ipc_phase = "done" =>
       ipc_result = IF Ipc!Accepted THEN process_result(benchmark, Ipc!Desc(Ipc!Overhead))
                    ELSE <<>>

\* The invariant holds before the first overhead sample.
LEMMA IStarts == Ipc!Init => IpcInv
<1> SUFFICES ASSUME Ipc!Init PROVE IpcInv
  BY Zenon
<1>1. ipc_phase = "overhead" /\ ipc_overhead = <<>> /\ attempt = 1
  BY Zenon DEF Ipc!Init
<1>2. <<>> \in Seq(IpcOverheadTimes) /\ Len(<<>>) < IpcRuns /\ 1 \in 1..IpcRetries
  BY IConstants
<1> QED
  BY <1>1, <1>2, Zenon DEF IpcInv

\* A sample of MEASURE_OVERHEAD, or the start of another series after an unstable one.
LEMMA IMeasuresOverhead ==
  ASSUME IpcInv, Ipc!MeasureOverhead
  PROVE  IpcInv'
<1>1. ipc_phase = "overhead"
  BY Zenon DEF Ipc!MeasureOverhead
<1>2. PICK time \in IpcOverheadTimes :
        LET dest == Append(ipc_overhead, time) IN
          IF Len(dest) = IpcRuns /\ ~Ipc!results_stable(dest) /\ attempt < IpcRetries
          THEN ipc_overhead' = <<>> /\ attempt' = attempt + 1 /\ ipc_phase' = ipc_phase
          ELSE /\ ipc_overhead' = dest
               /\ ipc_phase' = IF Len(dest) = IpcRuns THEN "benchmark" ELSE ipc_phase
               /\ attempt' = attempt
  BY Zenon DEF Ipc!MeasureOverhead
<1> DEFINE dest == Append(ipc_overhead, time)
<1>3. /\ ipc_overhead \in Seq(IpcOverheadTimes) /\ attempt \in 1..IpcRetries
      /\ Len(ipc_overhead) < IpcRuns
  BY <1>1, Zenon DEF IpcInv
<1>4. /\ dest \in Seq(IpcOverheadTimes) /\ Len(dest) = Len(ipc_overhead) + 1
      /\ Len(ipc_overhead) \in Nat /\ <<>> \in Seq(IpcOverheadTimes) /\ Len(<<>>) = 0
  BY <1>3, SeriesGrows, Zenon
<1> HIDE DEF dest
<1>5. CASE Len(dest) = IpcRuns /\ ~Ipc!results_stable(dest) /\ attempt < IpcRetries
  <2>1. ipc_overhead' = <<>> /\ attempt' = attempt + 1 /\ ipc_phase' = "overhead"
    BY <1>1, <1>2, <1>5, Zenon DEF dest
  <2>2. attempt + 1 \in 1..IpcRetries /\ 0 < IpcRuns
    BY <1>3, <1>5, IConstants
  <2> QED
    BY <1>4, <2>1, <2>2, Zenon DEF IpcInv
<1>6. CASE ~(Len(dest) = IpcRuns /\ ~Ipc!results_stable(dest) /\ attempt < IpcRetries)
  <2>1. /\ ipc_overhead' = dest /\ attempt' = attempt
        /\ ipc_phase' = IF Len(dest) = IpcRuns THEN "benchmark" ELSE "overhead"
    BY <1>1, <1>2, <1>6, Zenon DEF dest
  <2>2. CASE Len(dest) = IpcRuns
    <3>1. ipc_phase' = "benchmark" /\ (results_stable(dest) \/ ~(attempt < IpcRetries))
      BY <1>6, <2>1, <2>2, ISame, Zenon
    <3>2. ~(attempt < IpcRetries) => attempt = IpcRetries
      BY <1>3, IConstants
    <3> QED
      BY <1>3, <1>4, <2>1, <2>2, <3>1, <3>2, Zenon DEF IpcInv
  <2>3. CASE Len(dest) # IpcRuns
    <3>1. ipc_phase' = "overhead"
      BY <2>1, <2>3, Zenon
    <3>2. Len(dest) < IpcRuns
      BY <1>3, <1>4, <2>3, IConstants
    <3> QED
      BY <1>3, <1>4, <2>1, <3>1, <3>2, Zenon DEF IpcInv
  <2> QED
    BY <2>2, <2>3, Zenon
<1> QED
  BY <1>5, <1>6, Zenon

\* A sample of run_bench leaves the overhead series alone.
LEMMA IMeasuresBenchmark ==
  ASSUME IpcInv, Ipc!MeasureBenchmark
  PROVE  IpcInv'
<1>1. /\ ipc_phase = "benchmark" /\ ipc_phase' \in {"benchmark", "process"}
      /\ attempt' = attempt /\ ipc_overhead' = ipc_overhead
  BY Zenon DEF Ipc!MeasureBenchmark
<1> QED
  BY <1>1, Zenon DEF IpcInv

\* process_ipc_results computes the result from the last series.
LEMMA IProcesses ==
  ASSUME IpcInv, Ipc!process_ipc_results
  PROVE  IpcInv'
<1>1. /\ ipc_phase = "process" /\ ipc_phase' = "done"
      /\ attempt' = attempt /\ ipc_overhead' = ipc_overhead /\ benchmark' = benchmark
  BY Zenon DEF Ipc!process_ipc_results
<1>2. ipc_result' = IF Ipc!Accepted THEN process_result(benchmark, Ipc!Desc(Ipc!Overhead)) ELSE <<>>
  BY ISame, Zenon DEF Ipc!process_ipc_results
<1>3. Ipc!Accepted' = Ipc!Accepted /\ Ipc!Overhead' = Ipc!Overhead
  BY <1>1, Zenon DEF Ipc!Accepted, Ipc!Overhead
<1>4. Ipc!Desc(Ipc!Overhead)' = Ipc!Desc(Ipc!Overhead)
  BY <1>3, Zenon DEF Ipc!Desc
<1>5. /\ ipc_overhead \in Seq(IpcOverheadTimes) /\ attempt \in 1..IpcRetries
      /\ Len(ipc_overhead) = IpcRuns /\ (results_stable(ipc_overhead) \/ attempt = IpcRetries)
  BY <1>1, Zenon DEF IpcInv
<1> QED
  BY <1>1, <1>2, <1>3, <1>4, <1>5, Zenon DEF IpcInv

\* A step of another benchmark, or none, leaves the samples of the ipc benchmark alone.
LEMMA IStutters ==
  ASSUME IpcInv, UNCHANGED ipcvars
  PROVE  IpcInv'
<1>1. /\ ipc_phase' = ipc_phase /\ attempt' = attempt /\ ipc_overhead' = ipc_overhead
      /\ benchmark' = benchmark /\ ipc_result' = ipc_result
  BY Zenon DEF ipcvars
<1>2. Ipc!Accepted' = Ipc!Accepted /\ Ipc!Overhead' = Ipc!Overhead
  BY <1>1, Zenon DEF Ipc!Accepted, Ipc!Overhead
<1>3. Ipc!Desc(Ipc!Overhead)' = Ipc!Desc(Ipc!Overhead)
  BY <1>2, Zenon DEF Ipc!Desc
<1> QED
  BY <1>1, <1>2, <1>3, Zenon DEF IpcInv

\* The overhead series of the ipc benchmark is complete when it is processed, and stable
\* unless all OVERHEAD_RETRIES were used up.
THEOREM IpcInvariance == MCSpec => []IpcInv
<1>1. MCInit => IpcInv
  BY IStarts, Zenon DEF MCInit
<1>2. ASSUME IpcInv, Ipc!Next PROVE IpcInv'
  <2>1. Ipc!Done => UNCHANGED ipcvars
    BY Zenon DEF Ipc!Done, Ipc!vars, ipcvars
  <2> QED
    BY <1>2, <2>1, IMeasuresOverhead, IMeasuresBenchmark, IProcesses, IStutters, Zenon DEF Ipc!Next
<1>3. IpcInv /\ [MCNext]_allvars => IpcInv'
  BY <1>2, IStutters, Zenon DEF MCNext, allvars
<1> QED
  BY <1>1, <1>3, PTL DEF MCSpec

\* The check of process_ipc_results, which leaves out the first sample, accepts a stable
\* series, and the last two samples of an accepted one are equal.
LEMMA ITail ==
  ASSUME NEW N \in Nat, N >= 3, NEW s \in [1..N -> Int], s \in Seq(Int), Len(s) = N
  PROVE  /\ results_stable(s) => results_stable(SubSeq(s, 2, N))
         /\ results_stable(SubSeq(s, 2, N)) => s[N] = s[N - 1]
<1> DEFINE n == N - 1
           t == SubSeq(s, 2, N)
<1>1. n \in Nat /\ t \in [1..n -> Int] /\ \A q \in 1..n : t[q] = s[q + 1] /\ q + 1 \in 1..N
  <2>1. t \in Seq(Int) /\ Len(t) = n /\ n \in Nat
    OBVIOUS
  <2>2. \A q \in 1..n : t[q] = s[q + 1] /\ q + 1 \in 1..N
    OBVIOUS
  <2> HIDE DEF t
  <2>3. t \in [1..n -> Int]
    BY <2>1
  <2> QED
    BY <2>1, <2>2, <2>3, Zenon
<1>2. n \in 1..n /\ n - 1 \in 1..n /\ n + 1 = N /\ (n - 1) + 1 = N - 1
  OBVIOUS
<1> HIDE DEF t, n
<1>3. results_stable(t) <=> \A b, c \in 1..n : t[b] = t[c]
  BY <1>1, StableIsEqual, Zenon
<1>4. results_stable(s) <=> \A b, c \in 1..N : s[b] = s[c]
  BY StableIsEqual, Zenon
<1>5. results_stable(s) => results_stable(t)
  BY <1>1, <1>3, <1>4, Zenon
<1>6. results_stable(t) => s[N] = s[N - 1]
  <2> SUFFICES ASSUME results_stable(t) PROVE s[N] = s[N - 1]
    BY Zenon
  <2>1. t[n] = t[n - 1] /\ t[n] = s[n + 1] /\ t[n - 1] = s[(n - 1) + 1]
    BY <1>1, <1>2, <1>3, Zenon
  <2> QED
    BY <1>2, <2>1, Zenon
<1> QED
  BY <1>5, <1>6, Zenon DEF t

\* The minimum of process_ipc_results, which leaves out the last sample, exceeds none of
\* the others.
LEMMA IMinimum ==
  ASSUME NEW N \in Nat, N >= 3, NEW s \in [1..N -> Int], s \in Seq(Int), Len(s) = N,
         \A q \in 1..N : 0 <= s[q] /\ s[q] < Modulus,
         NEW desc, desc.ignored = 0, desc.overhead = 0, desc.stable = FALSE
  PROVE  \A q \in 1..N - 1 : process_result(SubSeq(s, 1, N - 1), desc).min <= s[q]
<1> DEFINE n == N - 1
           t == SubSeq(s, 1, n)
           x == Reduced(t, n, 0, 0)
<1>1. /\ n \in Nat /\ n > 0 /\ 0 \in Int /\ 0 \in 0..n - 1 /\ n - 0 = n
      /\ t \in [1..n -> Int] /\ \A q \in 1..n : t[q] = s[q] /\ q \in 1..N /\ 0 + q = q
  <2>1. t \in Seq(Int) /\ Len(t) = n /\ n \in Nat
    OBVIOUS
  <2>2. \A q \in 1..n : t[q] = s[q] /\ q \in 1..N /\ 0 + q = q
    OBVIOUS
  <2> HIDE DEF t, x
  <2>3. t \in [1..n -> Int]
    BY <2>1
  <2>4. n > 0 /\ 0 \in Int /\ 0 \in 0..n - 1 /\ n - 0 = n
    OBVIOUS
  <2> QED
    BY <2>1, <2>2, <2>3, <2>4, Zenon
<1> HIDE DEF t, n
<1>2. process_result(t, desc) = Outcome(t, n, desc)
  <2>1. desc.ignored \in 0..n - 1 /\ desc.overhead \in Int
    BY <1>1, Zenon
  <2> QED
    BY <1>1, <2>1, ProcessedResult, Zenon
<1>3. process_result(t, desc) = calculate_results(x)
  BY <1>2, Zenon DEF Outcome, Refused
<1>4. \A q \in 1..n : Wrap(t[0 + q] - 0) = s[q]
  <2> SUFFICES ASSUME NEW q \in 1..n PROVE Wrap(t[0 + q] - 0) = s[q]
    BY Zenon
  <2>1. t[0 + q] = s[q] /\ s[q] \in Int /\ 0 <= s[q] /\ s[q] < Modulus
    BY <1>1, Zenon
  <2>2. s[q] - 0 = s[q]
    BY <2>1
  <2> QED
    BY <2>1, <2>2, WrapKeeps, Zenon
<1>5. x = [q \in 1..n |-> s[q]]
  BY <1>1, <1>4, Zenon DEF Reduced
<1>6. x \in [1..n -> Int] /\ \A q \in 1..n : x[q] = s[q]
  BY <1>1, <1>5, Zenon
<1> HIDE DEF x
<1>7. \A q \in 1..n : calculate_results(x).min <= x[q]
  BY <1>1, <1>6, CalculatedMin, Zenon
<1> QED
  BY <1>3, <1>6, <1>7, Zenon DEF t, n

\* Although process_ipc_results checks one range of the overhead samples and takes the
\* minimum of another, an accepted overhead exceeds none of them, and results are refused
\* only if all OVERHEAD_RETRIES series were unstable.
THEOREM OverheadSound == MCSpec => []OverheadIsSound
<1>1. IpcInv => OverheadIsSound
  <2> SUFFICES ASSUME IpcInv, ipc_phase = "done"
               PROVE  IF ipc_result = <<>> THEN attempt = IpcRetries /\ ~results_stable(ipc_overhead)
                      ELSE ~AllowUnstable => \A q \in 1..IpcRuns : Ipc!Overhead <= ipc_overhead[q]
    BY ISame, Zenon DEF OverheadIsSound, Ipc!OverheadIsSound
  <2>1. /\ ipc_overhead \in Seq(IpcOverheadTimes) /\ Len(ipc_overhead) = IpcRuns
        /\ results_stable(ipc_overhead) \/ attempt = IpcRetries
        /\ ipc_result = IF Ipc!Accepted THEN process_result(benchmark, Ipc!Desc(Ipc!Overhead))
                        ELSE <<>>
    BY Zenon DEF IpcInv
  <2>2. IpcRuns \in Nat /\ IpcRuns >= 3 /\ IpcOverheadTimes \subseteq Int
    BY IConstants, Zenon
  <2>3. ipc_overhead \in Seq(Int) /\ ipc_overhead \in [1..IpcRuns -> Int]
    <3>1. ipc_overhead \in Seq(Int)
      BY <2>1, <2>2, SeriesOfNumbers, Zenon
    <3> QED
      BY <2>1, <3>1
  <2>4. \A q \in 1..IpcRuns : 0 <= ipc_overhead[q] /\ ipc_overhead[q] < Modulus
    <3>1. \A q \in 1..IpcRuns : ipc_overhead[q] \in IpcOverheadTimes
      BY <2>1, <2>2
    <3> QED
      BY <3>1, IConstants, Zenon
  <2>5. /\ results_stable(ipc_overhead) => results_stable(SubSeq(ipc_overhead, 2, IpcRuns))
        /\ results_stable(SubSeq(ipc_overhead, 2, IpcRuns))
             => ipc_overhead[IpcRuns] = ipc_overhead[IpcRuns - 1]
    BY <2>1, <2>2, <2>3, ITail, Zenon
  <2>6. Ipc!Accepted <=> results_stable(SubSeq(ipc_overhead, 2, IpcRuns)) \/ AllowUnstable
    BY ISame, Zenon DEF Ipc!Accepted
  <2>7. CASE ~Ipc!Accepted
    <3>1. ipc_result = <<>> /\ ~results_stable(ipc_overhead)
      BY <2>1, <2>5, <2>6, <2>7, Zenon
    <3> QED
      BY <2>1, <3>1, Zenon
  <2>8. CASE Ipc!Accepted
    <3>1. ipc_result # <<>>
      <4> DEFINE d == Ipc!Desc(Ipc!Overhead)
      <4>1. d.stable = FALSE
        BY Zenon DEF Ipc!Desc
      <4> HIDE DEF d
      <4>2. PICK s : ipc_result = calculate_results(s)
        BY <2>1, <2>8, <4>1, Zenon DEF process_result, d
      <4>3. "min" \in DOMAIN calculate_results(s)
        BY Zenon DEF calculate_results
      <4>4. "min" \notin DOMAIN <<>>
        OBVIOUS
      <4> QED
        BY <4>2, <4>3, <4>4, Zenon
    <3>2. ASSUME ~AllowUnstable, NEW q \in 1..IpcRuns
          PROVE  Ipc!Overhead <= ipc_overhead[q]
      <4> DEFINE d == Ipc!Desc(0)
                 b == process_result(SubSeq(ipc_overhead, 1, IpcRuns - 1), d).min
      <4>1. Ipc!Overhead = b
        BY ISame, Zenon DEF Ipc!Overhead
      <4>2. d.ignored = 0 /\ d.overhead = 0 /\ d.stable = FALSE
        BY Zenon DEF Ipc!Desc
      <4> HIDE DEF d
      <4>3. \A p \in 1..IpcRuns - 1 : b <= ipc_overhead[p]
        BY <2>1, <2>2, <2>3, <2>4, <4>2, IMinimum, Zenon
      <4>4. ipc_overhead[IpcRuns] = ipc_overhead[IpcRuns - 1]
        BY <2>5, <2>6, <2>8, <3>2, Zenon
      <4>5. q \in 1..IpcRuns - 1 \/ q = IpcRuns
        BY <2>2
      <4>6. IpcRuns - 1 \in 1..IpcRuns - 1
        BY <2>2
      <4> HIDE DEF b
      <4> QED
        BY <4>1, <4>3, <4>4, <4>5, <4>6, Zenon
    <3> QED
      BY <3>1, <3>2, Zenon
  <2> QED
    BY <2>7, <2>8, Zenon
<1> QED
  BY <1>1, IpcInvariance, PTL

=============================================================================
