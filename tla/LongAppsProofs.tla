--------------------------- MODULE LongAppsProofs ---------------------------
(***************************************************************************)
(* Proofs about the irquser and the page mapping application.              *)
(*                                                                         *)
(* Irquser, for every period that leaves the ticker and the spinner time   *)
(* for their loops, every latency and every width of the counter.  A       *)
(* sample is taken by one thread from what another wrote before it was     *)
(* interrupted.  The invariant says how old that is at every place of the  *)
(* two, and that after the first three samples the next tick always leaves *)
(* the spinner the time to store the counter.                              *)
(*                                                                         *)
(* Page mapping, for every list of page numbers, every number of runs,     *)
(* every size of a page table and every depth of the tables the            *)
(* architectures have, if the untyped and the cspace have room for the     *)
(* largest test.  The child counts slots and objects, main counts results, *)
(* and neither sees the other's counter.  The invariant says how many      *)
(* results have been handed over by one and taken by the other, and that   *)
(* the slots, the tables and the use of the untyped are those of the       *)
(* objects made so far.                                                    *)
(***************************************************************************)
EXTENDS MCLongApps, TLAPS

-----------------------------------------------------------------------------
(* The irquser application: the inductive invariant.                       *)

\* A thread is at this place in this state.
QAt(t, l, s) == q_pc[t] = l /\ q_tcb[t] = s

\* The ticker is blocked in its wait, main in its receive.
QBlocked == Q!WaitingOn(Q!TimerSignal)
QReceiving == Q!RecvingOn(Q!DoneEp)

\* A tick is pending in the notification.
QSignalled == q_active["timer_signal"]

\* The ticker has got a tick and not acknowledged it.
QServes == q_tcb["ticker"] = Q!Running /\ q_pc["ticker"] \in {"read", "handle"}

\* Where the spinner can be.
QSpinnerLabel == {"read", "low", "high", "then_low", "then_high"}

\* The types of the variables that the other conjuncts speak of.
QTypeOK ==
  /\ q_tcb \in [{"main", "ticker", "spinner"} -> {Q!Running, Q!Inactive, QBlocked, QReceiving}]
  /\ DOMAIN q_pc = {"main", "ticker", "spinner"}
  /\ q_active \in [{"timer_signal"} -> BOOLEAN]
  /\ q_clock \in Int /\ due \in 1..Period /\ raised \in BOOLEAN /\ masked \in BOOLEAN
  /\ q_iter \in Nat /\ reg \in Int /\ low \in Int /\ q_end \in Int

\* Between two phases.
QApart ==
  /\ QAt("main", "start_ticker", Q!Running)
  /\ QAt("ticker", "off", Q!Inactive) /\ q_tcb["spinner"] = Q!Inactive

\* Main starts the children.
QStarting ==
  /\ QAt("ticker", "wait", Q!Running) /\ q_iter = 0
  /\ \/ QAt("main", "start_spinner", Q!Running) /\ q_tcb["spinner"] = Q!Inactive
     \/ QAt("main", "wait_child", Q!Running) /\ QAt("spinner", "read", Q!Running)

\* Main waits for the ticker's report.
QWorking ==
  /\ QAt("main", "check", QReceiving)
  /\ q_tcb["spinner"] = Q!Running /\ q_pc["spinner"] \in QSpinnerLabel
  /\ \/ /\ q_tcb["ticker"] = Q!Running
        /\ q_pc["ticker"] \in {"wait", "read", "handle", "sample", "send"}
     \/ QAt("ticker", "read", QBlocked)

\* Main has the report, which the ticker follows with nothing.
QReported ==
  /\ q_pc["main"] \in {"check", "suspend_spinner", "suspend_ticker", "finished"}
  /\ q_tcb["main"] = Q!Running /\ QAt("ticker", "return", Q!Running)
  /\ q_tcb["spinner"] \in {Q!Running, Q!Inactive}
  /\ q_pc["main"] = "suspend_ticker" => q_tcb["spinner"] = Q!Inactive

\* The interrupt is masked from its delivery to its acknowledgement.
QMasked ==
  /\ masked = (QSignalled \/ QServes)
  /\ q_tcb["ticker"] = QBlocked \/ QServes => ~QSignalled

\* The ticker takes a sample.
QServing ==
  q_tcb["ticker"] = Q!Running /\ q_pc["ticker"] \in {"read", "handle", "sample"}

\* Ticks that have been delivered and not sampled, and all that are on their way.
QNumber(b) == IF b THEN 1 ELSE 0
QDelivered == QNumber(QSignalled) + QNumber(QServing)
QTicks == QNumber(raised) + QDelivered

\* Steps to the end of the ticker's pass.
QSteps == IF q_tcb["ticker"] = QBlocked THEN 0
          ELSE CASE q_pc["ticker"] = "wait" -> 1
                 [] q_pc["ticker"] = "read" -> 4
                 [] q_pc["ticker"] = "handle" -> 3
                 [] OTHER -> 2

\* Steps the spinner needs to read the counter again and to store its low word.
QRefresh == CASE q_pc["spinner"] = "read" -> 3
              [] q_pc["spinner"] \in {"low", "high"} -> 5
              [] OTHER -> 4

\* Cycles until the spinner has done so, if the timer does not fire before.
QDelay(b) == IF b THEN Latency + 4 ELSE 0
QWork == 4 * QNumber(QSignalled) + QSteps + QRefresh
QUntilStored == QDelay(raised) + QWork

\* Equal in the bits of a word.
QWord == 2^IrqWordBits
QSame(a, b) == \E z \in Int : a = b + QWord * z

\* Cycles since the spinner's low word was read from the counter, and since its register
\* was, if it has run without interruption.
QAge == CASE q_pc["spinner"] = "read" -> 3
          [] q_pc["spinner"] \in {"low", "high"} -> 4
          [] q_pc["spinner"] = "then_low" -> 5
          [] OTHER -> 2
QRegAge == IF q_pc["spinner"] = "then_low" THEN 2 ELSE 1
QRegFresh ==
  q_pc["spinner"] \in {"low", "high", "then_low"} => QSame(reg, q_clock - QRegAge)

\* The spinner has not stored the counter since it was interrupted.  Three samples may be
\* taken meanwhile, from ticks that came before it was started; after that there is time.
QStale ==
  \/ q_iter + QTicks <= 2
  \/ (QTicks = 0 \/ q_iter + QTicks <= 3) /\ due > QUntilStored

\* The spinner runs.
QIdle == q_tcb["ticker"] = QBlocked /\ ~raised

\* It has read the counter since it was interrupted.
QRead ==
  /\ QIdle /\ q_pc["spinner"] \in {"low", "high", "then_low"} /\ QRegFresh
  /\ q_iter <= 2 \/ due > IF q_pc["spinner"] = "high" THEN 2 ELSE 1

\* It has stored it as well.
QFresh == QIdle /\ QRegFresh /\ QSame(low, q_clock - QAge)

\* A tick has interrupted it then, and there will be no other before it can go on.
QSampling ==
  /\ QTicks = 1 /\ due > QUntilStored
  /\ \/ q_tcb["ticker"] = QBlocked /\ QSame(low, q_clock - QAge)
     \/ QAt("ticker", "read", Q!Running) /\ QSame(low, q_clock - (Latency + QAge))
     \/ /\ q_tcb["ticker"] = Q!Running /\ q_pc["ticker"] \in {"handle", "sample"}
        /\ QSame(low, q_end - (Latency + QAge))

\* How old the stored counter is.
QTiming ==
  QWorking /\ q_pc["ticker"] # "send" => QStale \/ QRead \/ QFresh \/ QSampling

\* A sample later than the third is exact.
QSampled ==
  q_pc["ticker"] \in {"wait", "send"} /\ q_iter > 3
    => q_sample \in Latency + 1..Latency + 2 * Q!SpinnerPass

\* The inductive invariant.
QInv == /\ QTypeOK /\ (QApart \/ QStarting \/ QWorking \/ QReported)
        /\ QMasked /\ QTiming /\ QSampled

-----------------------------------------------------------------------------
(* The irquser application: time.                                          *)

\* What IrqUserAssumption says of the constants.
LEMMA QConstants ==
  /\ Latency \in Nat /\ Period \in Nat /\ Period >= 3 * Latency + 18
  /\ QWord \in Nat /\ Latency + 6 <= QWord
  /\ \E d \in Int : 2^CcntBits = QWord * d
  /\ 2^CcntBits \in Nat /\ 2^CcntBits > 0
  /\ IrqRuns \in Nat /\ IrqIgnored \in Nat /\ IrqIgnored >= 3
  /\ Q!SpinnerPass = 3
<1> DEFINE w == 2^IrqWordBits
           c == 2^CcntBits
<1>1. /\ IrqRuns \in Nat /\ IrqIgnored \in 3..IrqRuns - 1
      /\ w \in Nat \ {0} /\ c \in Nat \ {0} /\ c % w = 0
      /\ Latency \in Nat /\ Latency + 2 * 3 <= w
      /\ Period \in Nat /\ Period >= 3 * (Latency + 4) + 2 * 3
  BY IrqUserPartAssumption, Zenon DEF Q!IrqUserAssumption, Q!SpinnerPass, Q!TickerPass
<1>2. QWord = w /\ Q!SpinnerPass = 3
  BY Zenon DEF QWord, Q!SpinnerPass
<1> HIDE DEF w, c
<1>3. c = w * (c \div w) /\ c \div w \in Int
  BY <1>1
<1>4. /\ Period >= 3 * Latency + 18 /\ Latency + 6 <= w /\ c > 0
      /\ IrqIgnored \in Nat /\ IrqIgnored >= 3 /\ w \in Nat /\ c \in Nat
  BY <1>1
<1> QED
  BY <1>1, <1>2, <1>3, <1>4, Zenon DEF c

\* Sameness is an equivalence, kept by adding to both sides.
LEMMA QSameAs ==
  ASSUME NEW a \in Int, NEW b \in Int, QSame(a, b)
  PROVE  /\ \A n \in Int : QSame(a, (b + n) - n) /\ QSame(a + n, b + n)
         /\ \A e \in Int : QSame(b, e) => QSame(a, e)
<1>1. QWord \in Int
  BY QConstants
<1> DEFINE w == QWord
<1>2. w \in Int
  BY <1>1
<1> HIDE DEF w
<1>3. PICK z \in Int : a = b + w * z
  BY Zenon DEF QSame, w
<1>4. ASSUME NEW n \in Int PROVE QSame(a, (b + n) - n) /\ QSame(a + n, b + n)
  <2>1. w * z \in Int
    BY <1>2
  <2> DEFINE p == w * z
  <2> HIDE DEF p
  <2>2. p \in Int /\ a = b + p
    BY <1>3, <2>1, Zenon DEF p
  <2>3. a = ((b + n) - n) + p /\ a + n = (b + n) + p
    BY <2>2
  <2> QED
    BY <2>3, Zenon DEF QSame, w, p
<1>5. ASSUME NEW e \in Int, QSame(b, e) PROVE QSame(a, e)
  <2>1. PICK y \in Int : b = e + w * y
    BY <1>5, Zenon DEF QSame, w
  <2>2. w * (z + y) = w * z + w * y /\ w * z \in Int /\ w * y \in Int
    BY <1>2
  <2>3. a = e + w * (z + y)
    BY <1>3, <2>1, <2>2
  <2>4. z + y \in Int
    OBVIOUS
  <2> QED
    BY <2>3, <2>4, Zenon DEF QSame, w
<1> QED
  BY <1>4, <1>5, Zenon

\* A number and its remainder modulo a multiple of the word's size are the same in a word.
LEMMA QRemainder ==
  ASSUME NEW a \in Int, NEW m \in Nat, m > 0, NEW d \in Int, m = QWord * d
  PROVE  a % m \in Int /\ QSame(a % m, a) /\ QSame(a, a % m)
<1> DEFINE w == QWord
           q == a \div m
           r == a % m
<1>1. w \in Int
  BY QConstants
<1>2. q \in Int /\ r \in Int /\ a = m * q + r
  OBVIOUS
<1> HIDE DEF w, q, r
<1>3. m * q = w * (d * q) /\ d * q \in Int
  BY <1>1, <1>2 DEF w
<1> DEFINE p == d * q
<1> HIDE DEF p
<1>4. p \in Int /\ a = w * p + r
  BY <1>2, <1>3, Zenon DEF p
<1>5. w * p \in Int /\ w * (-p) = -(w * p) /\ -p \in Int
  BY <1>1, <1>4
<1>6. a = r + w * p /\ r = a + w * (-p)
  BY <1>2, <1>4, <1>5
<1>7. QSame(a, r)
  BY <1>4, <1>6, Zenon DEF QSame, w
<1>8. QSame(r, a)
  BY <1>5, <1>6, Zenon DEF QSame, w
<1> QED
  BY <1>2, <1>7, <1>8, Zenon DEF r

\* end_low - start is the time between the two readings, if it is less than a word.
LEMMA QElapsed ==
  ASSUME NEW x \in Nat, x < QWord, q_end \in Int, low \in Int, QSame(low, q_end - x)
  PROVE  Q!Elapsed = x
<1> DEFINE w == QWord
           e == q_end % w
<1>1. w \in Nat /\ w > 0 /\ w = w * 1
  BY QConstants
<1>2. e \in Int /\ QSame(e, q_end)
  <2>1. 1 \in Int /\ QWord \in Nat /\ QWord > 0 /\ QWord = QWord * 1
    BY <1>1
  <2> QED
    BY <2>1, QRemainder, Zenon
<1>3. x < w
  BY Zenon
<1> HIDE DEF w, e
<1>4. PICK y \in Int : e = q_end + w * y
  BY <1>2, Zenon DEF QSame, w
<1>5. PICK z \in Int : low = (q_end - x) + w * z
  BY Zenon DEF QSame, w
<1> DEFINE v == y - z
           p == w * v
<1>6. v \in Int /\ p \in Int /\ w * y - w * z = p /\ w * y \in Int /\ w * z \in Int
  BY <1>1
<1> DEFINE f == w * y
           g == w * z
<1>7. e - low = p + x
  <2>1. f \in Int /\ g \in Int /\ f - g = p /\ p \in Int /\ e = q_end + f /\ low = (q_end - x) + g
    BY <1>4, <1>5, <1>6, Zenon
  <2> HIDE DEF f, g, p
  <2> QED
    BY <1>2, <2>1
<1> HIDE DEF v
<1>8. (w * v + x) % w = x
  BY <1>1, <1>3, <1>6
<1> QED
  BY <1>7, <1>8, Zenon DEF Q!Elapsed, w, e, QWord, p

\* n cycles pass.
LEMMA QAdvances ==
  ASSUME QTypeOK, NEW n \in Nat, n <= Period, NEW pending \in BOOLEAN, Q!Advance(n, pending)
  PROVE  /\ q_clock' \in Int /\ due' \in 1..Period /\ raised' \in BOOLEAN
         /\ n < due => due' = due - n /\ raised' = pending
         /\ n >= due => due' = due + Period - n /\ raised'
         /\ \A a \in Int, v \in Int : QSame(v, q_clock - a) => QSame(v, q_clock' - (a + n))
<1>1. /\ q_clock' = (q_clock + n) % 2^CcntBits
      /\ due' = IF n < due THEN due - n ELSE due + Period - n
      /\ raised' = (pending \/ n >= due)
  BY Zenon DEF Q!Advance
<1>2. q_clock \in Int /\ due \in 1..Period /\ Period \in Nat
  BY QConstants, Zenon DEF QTypeOK
<1>3. /\ due' \in 1..Period
      /\ n < due => due' = due - n
      /\ n >= due => due' = due + Period - n
  BY <1>1, <1>2
<1>4. n < due => ~(n >= due)
  BY <1>2
<1>5. raised' \in BOOLEAN /\ (n < due => raised' = pending) /\ (n >= due => raised')
  BY <1>1, <1>4, Zenon
<1> DEFINE b == q_clock + n
<1>6. q_clock' \in Int /\ QSame(b, q_clock')
  <2>1. b \in Int
    BY <1>2
  <2>2. /\ 2^CcntBits \in Nat /\ 2^CcntBits > 0
        /\ \E d \in Int : 2^CcntBits = QWord * d
    BY QConstants, Zenon
  <2> QED
    BY <1>1, <2>1, <2>2, QRemainder, Zenon
<1>7. ASSUME NEW a \in Int, NEW v \in Int, QSame(v, q_clock - a)
      PROVE  QSame(v, q_clock' - (a + n))
  <2> DEFINE g == -(a + n)
  <2>1. b \in Int /\ g \in Int /\ b + g \in Int /\ b + g = q_clock - a
    BY <1>2
  <2>2. q_clock' + g \in Int /\ q_clock' + g = q_clock' - (a + n)
    BY <1>6
  <2>3. QSame(b + g, q_clock' + g)
    <3> HIDE DEF b, g
    <3> QED
      BY <1>6, <2>1, QSameAs, Zenon
  <2>4. QSame(v, b + g)
    BY <1>7, <2>1, Zenon
  <2> HIDE DEF b, g
  <2>5. QSame(v, q_clock' + g)
    BY <2>1, <2>2, <2>3, <2>4, QSameAs, Zenon
  <2> QED
    BY <2>2, <2>5, Zenon
<1> QED
  BY <1>3, <1>5, <1>6, <1>7, Zenon

-----------------------------------------------------------------------------
(* The irquser application: states and stale stores.                       *)

\* The states of a thread differ.
LEMMA QStates ==
  /\ Q!Running # Q!Inactive /\ Q!Running # QBlocked /\ Q!Running # QReceiving
  /\ Q!Inactive # QBlocked /\ Q!Inactive # QReceiving /\ QBlocked # QReceiving
  /\ \A s \in {Q!Running, Q!Inactive, QBlocked, QReceiving} : s # Q!SendingTo(Q!DoneEp)
<1> QED
  BY SMT DEF Q!Running, Q!Inactive, QBlocked, QReceiving, Q!WaitingOn, Q!RecvingOn,
     Q!SendingTo, Q!TimerSignal, Q!DoneEp

\* A thread that executes leaves none of a higher priority running.
LEMMA QOrder ==
  ASSUME QTypeOK
  PROVE  /\ Q!Executes("main") => q_tcb["main"] = Q!Running
         /\ Q!Executes("ticker") =>
              q_tcb["ticker"] = Q!Running /\ q_tcb["main"] # Q!Running
         /\ Q!Executes("spinner") =>
              /\ q_tcb["spinner"] = Q!Running /\ q_tcb["main"] # Q!Running
              /\ q_tcb["ticker"] # Q!Running
         /\ \A t \in Q!Thread : Q!Executes(t) /\ raised => masked
<1> DEFINE p == Q!prio
<1>1. /\ DOMAIN q_tcb = {"main", "ticker", "spinner"}
      /\ raised \in BOOLEAN /\ masked \in BOOLEAN
  BY Zenon DEF QTypeOK
<1>2. p["main"] = 2 /\ p["ticker"] = 1 /\ p["spinner"] = 0
  BY SMT DEF Q!prio, Q!Thread, Q!Child, Q!Main, Q!Ticker, Q!Spinner
<1> HIDE DEF p
<1>3. ~(p["main"] <= p["ticker"]) /\ ~(p["main"] <= p["spinner"]) /\ ~(p["ticker"] <= p["spinner"])
  BY <1>2
<1> QED
  BY <1>1, <1>3, Zenon DEF Q!Executes, Q!CanRun, p

\* The bounds of the numbers of steps.
LEMMA QNumbers ==
  /\ \A b \in BOOLEAN : QNumber(b) \in 0..1 /\ (QNumber(b) = 0 <=> ~b)
  /\ QSteps \in 0..4 /\ QRefresh \in 3..5 /\ QAge \in 2..5
<1>1. ASSUME NEW b \in BOOLEAN PROVE QNumber(b) \in 0..1 /\ (QNumber(b) = 0 <=> ~b)
  <2>1. CASE b
    <3>1. QNumber(b) = 1
      BY <2>1, Zenon DEF QNumber
    <3>2. 1 \in 0..1 /\ 1 # 0
      OBVIOUS
    <3> QED
      BY <2>1, <3>1, <3>2, Zenon
  <2>2. CASE ~b
    <3>1. QNumber(b) = 0
      BY <2>2, Zenon DEF QNumber
    <3>2. 0 \in 0..1
      OBVIOUS
    <3> QED
      BY <2>2, <3>1, <3>2, Zenon
  <2> QED
    BY <2>1, <2>2, Zenon
<1>2. QSteps \in 0..4 /\ QRefresh \in 3..5 /\ QAge \in 2..5
  BY SMT DEF QSteps, QRefresh, QAge
<1> QED
  BY <1>1, <1>2, Zenon

\* The counts of a state of the right types.
QCounted ==
  /\ QNumber(raised) \in 0..1 /\ (QNumber(raised) = 0 <=> ~raised)
  /\ QNumber(QSignalled) \in 0..1 /\ (QNumber(QSignalled) = 0 <=> ~QSignalled)
  /\ QNumber(QServing) \in 0..1 /\ (QNumber(QServing) = 0 <=> ~QServing)
  /\ QDelivered = QNumber(QSignalled) + QNumber(QServing) /\ QDelivered \in 0..2
  /\ QTicks = QNumber(raised) + QDelivered /\ QTicks \in 0..3
  /\ QWork = 4 * QNumber(QSignalled) + QSteps + QRefresh /\ QWork \in 3..13
  /\ QUntilStored = (IF raised THEN Latency + 4 ELSE 0) + QWork
  /\ q_iter \in Nat

\* What is counted of a state of the right types.
LEMMA QCounts == QTypeOK => QCounted
<1> SUFFICES ASSUME QTypeOK PROVE QCounted
  OBVIOUS
<1> DEFINE r == QNumber(raised)
           s == QNumber(QSignalled)
           v == QNumber(QServing)
<1>1. raised \in BOOLEAN /\ QSignalled \in BOOLEAN /\ QServing \in BOOLEAN /\ q_iter \in Nat
  BY Zenon DEF QTypeOK, QSignalled, QServing
<1>2. /\ r \in 0..1 /\ (r = 0 <=> ~raised)
      /\ s \in 0..1 /\ (s = 0 <=> ~QSignalled)
      /\ v \in 0..1 /\ (v = 0 <=> ~QServing)
  BY <1>1, QNumbers, Zenon
<1>3. /\ QDelivered = s + v /\ QTicks = r + QDelivered
      /\ QWork = 4 * s + QSteps + QRefresh
      /\ QUntilStored = (IF raised THEN Latency + 4 ELSE 0) + QWork
  BY Zenon DEF QDelivered, QTicks, QWork, QUntilStored, QDelay
<1> HIDE DEF r, s, v
<1>4. QDelivered \in 0..2 /\ QTicks \in 0..3 /\ QWork \in 3..13
  BY <1>2, <1>3, QNumbers
<1> QED
  BY <1>1, <1>2, <1>3, <1>4, Zenon DEF r, s, v, QCounted

\* A stale store stays so for a cycle in which the work to do gets less.
LEMMA QStaysStale ==
  ASSUME QTypeOK, QTypeOK', QStale, Q!Advance(1, raised),
         q_iter' + QDelivered' <= q_iter + QDelivered,
         QDelivered = 0 => QDelivered' = 0, QWork' <= QWork - 1
  PROVE  QStale'
<1> DEFINE r == QNumber(raised)
           d == QDelivered
           t == QTicks
           w == QWork
           u == QUntilStored
           i == q_iter
           n == due
           dn == QNumber(raised)'
           dd == QDelivered'
           dt == QTicks'
           dw == QWork'
           du == QUntilStored'
           di == q_iter'
           dm == due'
<1>1. /\ r \in 0..1 /\ (r = 0 <=> ~raised) /\ d \in 0..2
      /\ t = r + d /\ w \in 3..13
      /\ u = (IF raised THEN Latency + 4 ELSE 0) + w /\ i \in Nat
  BY QCounts, Zenon DEF QCounted
<1>0. QCounted'
  BY QCounts, PTL
<1>2. /\ dn \in 0..1 /\ (dn = 0 <=> ~raised') /\ dd \in 0..2
      /\ dt = dn + dd /\ dw \in 3..13
      /\ du = (IF raised' THEN Latency + 4 ELSE 0) + dw /\ di \in Nat
  BY <1>0, Zenon DEF QCounted
<1>3. Latency \in Nat /\ Period \in Nat /\ Period >= 3 * Latency + 18
  BY QConstants, Zenon
<1>4. 1 \in Nat /\ 1 <= Period
  BY <1>3
<1>5. raised \in BOOLEAN /\ n \in 1..Period
  BY Zenon DEF QTypeOK
<1>6. /\ 1 < n => dm = n - 1 /\ raised' = raised
      /\ 1 >= n => dm = n + Period - 1 /\ raised'
      /\ raised' \in BOOLEAN /\ dm \in 1..Period
  BY <1>4, <1>5, QAdvances, Zenon
<1>7. i + t <= 2 \/ ((t = 0 \/ i + t <= 3) /\ n > u)
  BY Zenon DEF QStale
<1>8. di + dd <= i + d /\ (d = 0 => dd = 0) /\ dw <= w - 1
  OBVIOUS
<1> HIDE DEF r, d, t, w, u, i, n, dn, dd, dt, dw, du, di, dm
<1>9. CASE 1 < n
  <2>1. dm = n - 1 /\ raised' = raised
    BY <1>6, <1>9, Zenon
  <2>2. dn = r /\ du <= u - 1 /\ du \in Int /\ u \in Int
    <3>1. CASE raised
      <4>1. r = 1 /\ dn = 1 /\ u = Latency + 4 + w /\ du = Latency + 4 + dw
        BY <1>1, <1>2, <2>1, <3>1
      <4> QED
        BY <1>1, <1>2, <1>3, <1>8, <4>1
    <3>2. CASE ~raised
      <4>1. r = 0 /\ dn = 0 /\ u = 0 + w /\ du = 0 + dw
        BY <1>1, <1>2, <2>1, <3>2, Zenon
      <4> QED
        BY <1>1, <1>2, <1>3, <1>8, <4>1
    <3> QED
      BY <3>1, <3>2, Zenon
  <2>3. di + dt <= 2 \/ ((dt = 0 \/ di + dt <= 3) /\ dm > du)
    BY <1>1, <1>2, <1>5, <1>7, <1>8, <2>1, <2>2
  <2> QED
    BY <2>3, Zenon DEF QStale, di, dt, dm, du
<1>10. CASE ~(1 < n)
  <2>1. n = 1 /\ 1 >= n
    BY <1>5, <1>10
  <2>2. dm = n + Period - 1 /\ raised'
    BY <1>6, <2>1, Zenon
  <2>3. du = Latency + 4 + dw /\ dn = 1
    BY <1>2, <2>2
  <2>4. u >= w /\ u \in Int
    <3>1. CASE raised
      <4>1. u = Latency + 4 + w
        BY <1>1, <3>1
      <4> QED
        BY <1>1, <1>3, <4>1
    <3>2. CASE ~raised
      <4>1. u = 0 + w
        BY <1>1, <3>2, Zenon
      <4> QED
        BY <1>1, <4>1
    <3> QED
      BY <3>1, <3>2, Zenon
  <2>5. i + t <= 2
    BY <1>1, <1>7, <2>1, <2>4
  <2>6. di + dt <= 3 /\ dm > du
    BY <1>1, <1>2, <1>3, <1>8, <2>1, <2>2, <2>3, <2>5
  <2> QED
    BY <2>6, Zenon DEF QStale, di, dt, dm, du
<1> QED
  BY <1>9, <1>10, Zenon

-----------------------------------------------------------------------------
(* The irquser application: interrupts.                                    *)

\* A tick that is delivered: what is left of the work is counted without its delay.
LEMMA QDelivers ==
  ASSUME QTypeOK, QTypeOK', raised, Q!Advance(Latency, FALSE), q_iter' = q_iter,
         QDelivered' = QDelivered + 1, QWork' = QWork + 4
  PROVE  /\ QStale => QStale'
         /\ due > QUntilStored => due' > QUntilStored' /\ QTicks' = QTicks
<1> DEFINE d == QDelivered
           t == QTicks
           w == QWork
           u == QUntilStored
           i == q_iter
           n == due
           dn == QNumber(raised)'
           dt == QTicks'
           dw == QWork'
           dd == QDelivered'
           du == QUntilStored'
           dm == due'
           r == QNumber(raised)
<1>1. /\ r \in 0..1 /\ r # 0 /\ d \in 0..2 /\ t = r + d /\ w \in 3..13
      /\ u = (Latency + 4) + w /\ i \in Nat
  BY QCounts, Zenon DEF QCounted
<1>2. QCounted'
  BY QCounts, PTL
<1>3. /\ dn \in 0..1 /\ (dn = 0 <=> ~raised') /\ dt = dn + dd /\ dw \in 3..13 /\ dd \in 0..2
      /\ raised' => du = (Latency + 4) + dw
      /\ ~raised' => du = 0 + dw
  BY <1>2, Zenon DEF QCounted
<1>4. Latency \in Nat /\ Period \in Nat /\ Period >= 3 * Latency + 18
  BY QConstants, Zenon
<1>5. Latency <= Period
  BY <1>4
<1>6. n \in 1..Period /\ FALSE \in BOOLEAN
  BY Zenon DEF QTypeOK
<1>7. /\ Latency < n => dm = n - Latency /\ raised' = FALSE
      /\ Latency >= n => dm = n + Period - Latency /\ raised'
  BY <1>4, <1>5, <1>6, QAdvances, Zenon
<1>8. dd = d + 1 /\ dw = w + 4 /\ q_iter' = i
  OBVIOUS
<1>9. QStale => i + t <= 2 \/ ((t = 0 \/ i + t <= 3) /\ n > u)
  BY Zenon DEF QStale
<1> HIDE DEF r, d, t, w, u, i, n, dn, dt, dw, dd, du, dm
<1>10. CASE Latency < n
  <2>1. dm = n - Latency /\ dn = 0 /\ du = 0 + dw
    BY <1>3, <1>7, <1>10, Zenon
  <2>2. dt = t /\ (n > u => dm > du)
    BY <1>1, <1>3, <1>4, <1>6, <1>8, <2>1
  <2>3. QStale => i + dt <= 2 \/ ((dt = 0 \/ i + dt <= 3) /\ dm > du)
    BY <1>9, <2>2, Zenon
  <2> QED
    BY <1>8, <2>2, <2>3, Zenon DEF QStale, dt, dm, du, t, n, u
<1>11. CASE ~(Latency < n)
  <2>1. Latency >= n
    BY <1>4, <1>6, <1>11
  <2>2. dm = n + Period - Latency /\ raised'
    BY <1>7, <2>1, Zenon
  <2>3. dn # 0 /\ du = (Latency + 4) + dw
    BY <1>3, <2>2, Zenon
  <2>4. ~(n > u)
    BY <1>1, <1>4, <1>6, <2>1
  <2>5. dm > du
    BY <1>1, <1>3, <1>4, <1>6, <2>2, <2>3
  <2>6. i + t <= 2 => i + dt <= 3
    BY <1>1, <1>3, <1>8, <2>3
  <2>7. QStale => (dt = 0 \/ i + dt <= 3) /\ dm > du
    BY <1>9, <2>4, <2>5, <2>6, Zenon
  <2> QED
    BY <1>8, <2>4, <2>7, Zenon DEF QStale, dt, dm, du, n, u
<1> QED
  BY <1>10, <1>11, Zenon

\* Only the ticker waits for ticks, while main waits for its report.
LEMMA QWaiter ==
  ASSUME QTypeOK, QApart \/ QStarting \/ QWorking \/ QReported
  PROVE  /\ \A t \in DOMAIN q_tcb : q_tcb[t] = QBlocked => t = "ticker"
         /\ q_tcb["ticker"] = QBlocked => QWorking /\ q_pc["ticker"] = "read"
<1>1. DOMAIN q_tcb = {"main", "ticker", "spinner"}
  BY Zenon DEF QTypeOK
<1> QED
  BY <1>1, QStates, Zenon DEF QApart, QStarting, QWorking, QReported, QAt

\* The types after an interrupt.
LEMMA QInterruptTypes ==
  ASSUME QTypeOK, QApart \/ QStarting \/ QWorking \/ QReported, Q!Interrupt
  PROVE  /\ QTypeOK'
         /\ \/ /\ q_tcb["ticker"] = QBlocked
               /\ q_tcb' = [q_tcb EXCEPT !["ticker"] = Q!Running] /\ q_active' = q_active
            \/ /\ q_tcb["ticker"] # QBlocked
               /\ q_tcb' = q_tcb /\ QSignalled'
         /\ Q!Advance(Latency, FALSE) /\ raised /\ ~masked /\ masked'
         /\ q_iter' = q_iter /\ q_pc' = q_pc /\ low' = low /\ reg' = reg /\ q_end' = q_end
         /\ q_sample' = q_sample
<1>1. /\ Q!Signal("timer_signal") /\ masked' = TRUE /\ Q!Advance(Latency, FALSE) /\ raised /\ ~masked
      /\ q_iter' = q_iter /\ q_pc' = q_pc /\ low' = low /\ reg' = reg /\ q_end' = q_end
      /\ q_sample' = q_sample
  BY Zenon DEF Q!Interrupt, Q!TimerSignal
<1>2. Latency \in Nat /\ Latency <= Period /\ FALSE \in BOOLEAN
  BY QConstants
<1>3. q_clock' \in Int /\ due' \in 1..Period /\ raised' \in BOOLEAN
  BY <1>1, <1>2, QAdvances, Zenon
<1>4. q_tcb \in [{"main", "ticker", "spinner"} -> {Q!Running, Q!Inactive, QBlocked, QReceiving}]
  BY Zenon DEF QTypeOK
<1>5. q_active \in [{"timer_signal"} -> BOOLEAN]
  BY Zenon DEF QTypeOK
<1>6. \/ /\ q_tcb["ticker"] = QBlocked
         /\ q_tcb' = [q_tcb EXCEPT !["ticker"] = Q!Running] /\ q_active' = q_active
      \/ /\ q_tcb["ticker"] # QBlocked
         /\ q_tcb' = q_tcb /\ q_active' = [q_active EXCEPT !["timer_signal"] = TRUE]
  <2>1. Q!Blocked(QBlocked) = {t \in DOMAIN q_tcb : q_tcb[t] = QBlocked}
    BY Zenon DEF Q!Blocked
  <2>2. "ticker" \in DOMAIN q_tcb
    BY <1>4, Zenon
  <2>3. q_tcb["ticker"] = QBlocked => "ticker" \in Q!Blocked(QBlocked)
    BY <2>1, <2>2, Zenon
  <2> HIDE DEF QBlocked
  <2>4. \/ \E t \in Q!Blocked(QBlocked) : q_tcb' = [q_tcb EXCEPT ![t] = Q!Running] /\ q_active' = q_active
        \/ /\ Q!Blocked(QBlocked) = {} /\ q_tcb' = q_tcb
           /\ q_active' = [q_active EXCEPT !["timer_signal"] = TRUE]
    BY <1>1, Zenon DEF Q!Signal, Q!SetState, QBlocked, Q!TimerSignal
  <2> QED
    BY <2>1, <2>2, <2>3, <2>4, QWaiter, Zenon
<1>7. /\ q_tcb' \in [{"main", "ticker", "spinner"} -> {Q!Running, Q!Inactive, QBlocked, QReceiving}]
      /\ q_active' \in [{"timer_signal"} -> BOOLEAN]
      /\ q_tcb["ticker"] # QBlocked => QSignalled'
  BY <1>4, <1>5, <1>6, Zenon DEF QSignalled
<1> QED
  BY <1>1, <1>3, <1>6, <1>7, Zenon DEF QTypeOK

\* The interrupt wakes the ticker.
LEMMA QWakes ==
  ASSUME QInv, Q!Interrupt, q_tcb["ticker"] = QBlocked
  PROVE  QInv'
<1>1. QTypeOK /\ (QApart \/ QStarting \/ QWorking \/ QReported) /\ QMasked /\ QTiming
  BY Zenon DEF QInv
<1>2. /\ QTypeOK'
      /\ q_tcb' = [q_tcb EXCEPT !["ticker"] = Q!Running] /\ q_active' = q_active
      /\ Q!Advance(Latency, FALSE) /\ raised /\ ~masked /\ masked'
      /\ q_iter' = q_iter /\ q_pc' = q_pc /\ low' = low
  BY <1>1, QInterruptTypes, Zenon
<1>3. QWorking /\ q_pc["ticker"] = "read"
  BY <1>1, QWaiter, Zenon
<1>4. DOMAIN q_tcb = {"main", "ticker", "spinner"}
  BY <1>1, Zenon DEF QTypeOK
<1>5. /\ q_tcb'["ticker"] = Q!Running /\ q_tcb'["main"] = q_tcb["main"]
      /\ q_tcb'["spinner"] = q_tcb["spinner"]
  BY <1>2, <1>4, Zenon
<1>6. QWorking'
  BY <1>2, <1>3, <1>5, Zenon DEF QWorking, QAt
<1>7. QServes' /\ ~QSignalled' /\ ~QSignalled /\ QServing' /\ ~QServing
  BY <1>1, <1>2, <1>3, <1>5, QStates, Zenon DEF QMasked, QServes, QServing, QSignalled
<1>8. QMasked'
  BY <1>2, <1>7, Zenon DEF QMasked
<1>9. QSampled'
  BY <1>2, <1>3, Zenon DEF QSampled
<1>10. QDelivered = 0 + 0 /\ QDelivered' = 0 + 1
  BY <1>7, Zenon DEF QDelivered, QNumber
<1>11. QSteps = 0 /\ QSteps' = 4
  <2>1. QSteps = 0
    BY SMT DEF QSteps
  <2>2. q_tcb'["ticker"] # QBlocked /\ q_pc'["ticker"] = "read"
    BY <1>2, <1>3, <1>5, QStates, Zenon
  <2>3. QSteps' = 4
    BY <2>2, SMT DEF QSteps
  <2> QED
    BY <2>1, <2>3
<1>12. QRefresh' = QRefresh /\ QAge' = QAge
  BY <1>2, Zenon DEF QRefresh, QAge
<1>13. QNumber(QSignalled) = 0 /\ QNumber(QSignalled)' = 0
  BY <1>7, Zenon DEF QNumber
<1>14. QWork' = QWork + 4 /\ QDelivered' = QDelivered + 1
  <2>1. QWork = 4 * 0 + 0 + QRefresh /\ QWork' = 4 * 0 + 4 + QRefresh
    BY <1>11, <1>12, <1>13, Zenon DEF QWork
  <2> QED
    BY <1>10, <2>1, QNumbers
<1>15. /\ QStale => QStale'
       /\ due > QUntilStored => due' > QUntilStored' /\ QTicks' = QTicks
  BY <1>1, <1>2, <1>14, QDelivers, Zenon
<1>16. QStale \/ QSampling
  BY <1>1, <1>2, <1>3, Zenon DEF QTiming, QRead, QFresh, QIdle
<1>17. ASSUME QSampling PROVE QSampling'
  <2>1. QTicks' = 1 /\ due' > QUntilStored'
    BY <1>15, <1>17, Zenon DEF QSampling
  <2>2. QSame(low, q_clock - QAge)
    BY <1>17, QStates, Zenon DEF QSampling, QAt
  <2>3. QSame(low', q_clock' - (QAge + Latency))
    <3>1. QAge \in Int /\ low \in Int /\ Latency \in Nat /\ Latency <= Period /\ FALSE \in BOOLEAN
      BY <1>1, QNumbers, QConstants DEF QTypeOK
    <3> QED
      BY <1>1, <1>2, <2>2, <3>1, QAdvances, Zenon
  <2>4. QAge + Latency = Latency + QAge'
    BY <1>12, QNumbers, QConstants
  <2>5. QAt("ticker", "read", Q!Running)'
    BY <1>2, <1>3, <1>5, Zenon DEF QAt
  <2> QED
    BY <2>1, <2>3, <2>4, <2>5, Zenon DEF QSampling
<1> QED
  BY <1>2, <1>6, <1>8, <1>9, <1>15, <1>16, <1>17, Zenon DEF QInv, QTiming

\* The interrupt finds the ticker busy, or not there.
LEMMA QPends ==
  ASSUME QInv, Q!Interrupt, q_tcb["ticker"] # QBlocked
  PROVE  QInv'
<1>1. /\ QTypeOK /\ (QApart \/ QStarting \/ QWorking \/ QReported) /\ QMasked /\ QTiming
      /\ QSampled
  BY Zenon DEF QInv
<1>2. /\ QTypeOK' /\ q_tcb' = q_tcb /\ QSignalled'
      /\ Q!Advance(Latency, FALSE) /\ raised /\ ~masked /\ masked'
      /\ q_iter' = q_iter /\ q_pc' = q_pc /\ q_sample' = q_sample
  BY <1>1, QInterruptTypes, Zenon
<1>3. (QApart \/ QStarting \/ QWorking \/ QReported)' /\ (QWorking' => QWorking)
  BY <1>1, <1>2, Zenon DEF QApart, QStarting, QWorking, QReported, QAt
<1>4. ~QServes' /\ ~QSignalled /\ QServing' = QServing
  BY <1>1, <1>2, Zenon DEF QMasked, QServes, QServing
<1>5. QMasked'
  BY <1>2, <1>4, Zenon DEF QMasked
<1>6. QSampled'
  BY <1>1, <1>2, Zenon DEF QSampled
<1>7. QWork' = QWork + 4 /\ QDelivered' = QDelivered + 1
  <2> DEFINE v == QNumber(QServing)
  <2>1. QNumber(QSignalled) = 0 /\ QNumber(QSignalled)' = 1 /\ QNumber(QServing)' = v
    BY <1>2, <1>4, Zenon DEF QNumber
  <2>2. QSteps' = QSteps /\ QRefresh' = QRefresh
    BY <1>2, Zenon DEF QSteps, QRefresh
  <2>3. /\ QWork = 4 * 0 + QSteps + QRefresh /\ QWork' = 4 * 1 + QSteps + QRefresh
        /\ QDelivered = 0 + v /\ QDelivered' = 1 + v
    BY <2>1, <2>2, Zenon DEF QWork, QDelivered
  <2>4. v \in 0..1
    BY <1>1, QCounts, Zenon DEF QCounted
  <2> HIDE DEF v
  <2> QED
    BY <2>3, <2>4, QNumbers
<1>8. QStale => QStale'
  BY <1>1, <1>2, <1>7, QDelivers, Zenon
<1>9. ~QSampling
  <2>1. QNumber(raised) \in 0..1 /\ QNumber(raised) # 0 /\ QDelivered \in 0..2
        /\ QTicks = QNumber(raised) + QDelivered
        /\ QNumber(QSignalled) \in 0..1 /\ QNumber(QServing) \in 0..1
        /\ QDelivered = QNumber(QSignalled) + QNumber(QServing)
        /\ (QNumber(QServing) = 0 <=> ~QServing)
    BY <1>1, <1>2, QCounts, Zenon DEF QCounted
  <2>2. QTicks = 1 => QNumber(QServing) = 0
    BY <2>1
  <2> QED
    BY <2>1, <2>2, Zenon DEF QSampling, QServing, QAt
<1>10. QTiming'
  BY <1>1, <1>2, <1>3, <1>8, <1>9, Zenon DEF QTiming, QRead, QFresh, QIdle
<1> QED
  BY <1>2, <1>3, <1>5, <1>6, <1>10, Zenon DEF QInv

-----------------------------------------------------------------------------
(* The irquser application: the ticker.                                    *)

\* What a step of the ticker leaves alone.
QOneCycle == Q!Advance(1, raised) /\ reg' = reg /\ low' = low

\* When the ticker executes, main waits for its report.
LEMMA QTicker ==
  ASSUME QInv, Q!Executes("ticker")
  PROVE  /\ QTypeOK /\ QMasked /\ QTiming /\ QSampled /\ QWorking
         /\ q_tcb["ticker"] = Q!Running
         /\ q_pc["ticker"] \in {"wait", "read", "handle", "sample", "send"}
<1>1. /\ QTypeOK /\ (QApart \/ QStarting \/ QWorking \/ QReported) /\ QMasked /\ QTiming
      /\ QSampled
  BY Zenon DEF QInv
<1>2. q_tcb["ticker"] = Q!Running /\ q_tcb["main"] # Q!Running
  BY <1>1, QOrder, Zenon
<1>3. QWorking
  BY <1>1, <1>2, Zenon DEF QApart, QStarting, QReported, QAt
<1> QED
  BY <1>1, <1>2, <1>3, QStates, Zenon DEF QWorking, QAt

\* The types after a step that takes one cycle.
LEMMA QCycle ==
  ASSUME QTypeOK, Q!Advance(1, raised)
  PROVE  /\ q_clock' \in Int /\ due' \in 1..Period /\ raised' \in BOOLEAN
         /\ 1 < due => due' = due - 1 /\ raised' = raised
         /\ 1 >= due => due' = due + Period - 1 /\ raised'
         /\ \A a \in Int, v \in Int : QSame(v, q_clock - a) => QSame(v, q_clock' - (a + 1))
<1>1. 1 \in Nat /\ 1 <= Period
  BY QConstants
<1>2. raised \in BOOLEAN
  BY Zenon DEF QTypeOK
<1> QED
  BY <1>1, <1>2, QAdvances, Zenon

\* It takes a pending tick.
LEMMA QTakes ==
  ASSUME QInv, Q!Executes("ticker"), QOneCycle, Q!Step("ticker", "wait", "read"),
         QSignalled, q_active' = [q_active EXCEPT !["timer_signal"] = FALSE],
         q_tcb' = q_tcb, masked' = masked, q_iter' = q_iter, q_end' = q_end
  PROVE  QInv'
<1>1. /\ QTypeOK /\ QMasked /\ QTiming /\ QWorking /\ q_tcb["ticker"] = Q!Running
      /\ q_pc["ticker"] = "wait" /\ q_pc' = [q_pc EXCEPT !["ticker"] = "read"]
  BY QTicker, Zenon DEF Q!Step
<1>2. DOMAIN q_pc = {"main", "ticker", "spinner"} /\ q_active \in [{"timer_signal"} -> BOOLEAN]
  BY <1>1, Zenon DEF QTypeOK
<1>3. /\ q_pc'["ticker"] = "read" /\ q_pc'["main"] = q_pc["main"]
      /\ q_pc'["spinner"] = q_pc["spinner"] /\ DOMAIN q_pc' = {"main", "ticker", "spinner"}
  BY <1>1, <1>2, Zenon
<1>4. q_active' \in [{"timer_signal"} -> BOOLEAN] /\ ~QSignalled'
  BY <1>2, Zenon DEF QSignalled
<1>5. QTypeOK'
  BY <1>1, <1>3, <1>4, QCycle, Zenon DEF QTypeOK, QOneCycle
<1>6. QWorking'
  BY <1>1, <1>3, Zenon DEF QWorking, QAt
<1>7. QServes' /\ QServing' /\ ~QServing
  BY <1>1, <1>3, Zenon DEF QServes, QServing
<1>8. QMasked'
  BY <1>1, <1>4, <1>7, Zenon DEF QMasked
<1>9. QSampled'
  BY <1>3, Zenon DEF QSampled
<1>10. QDelivered = 1 + 0 /\ QDelivered' = 0 + 1
  BY <1>4, <1>7, Zenon DEF QDelivered, QNumber
<1>11. QSteps = 1 /\ QSteps' = 4
  <2>1. q_tcb["ticker"] # QBlocked /\ q_tcb'["ticker"] # QBlocked
    BY <1>1, QStates, Zenon
  <2> QED
    BY <1>1, <1>3, <2>1, SMT DEF QSteps
<1>12. QWork' = QWork - 1
  <2>1. QRefresh' = QRefresh
    BY <1>3, Zenon DEF QRefresh
  <2>2. QWork = 4 * 1 + 1 + QRefresh /\ QWork' = 4 * 0 + 4 + QRefresh
    BY <1>4, <1>11, <2>1, Zenon DEF QWork, QNumber
  <2> QED
    BY <2>2, QNumbers
<1>13. QStale
  <2>1. q_tcb["ticker"] # QBlocked
    BY <1>1, QStates, Zenon
  <2> QED
    BY <1>1, <2>1, Zenon DEF QTiming, QRead, QFresh, QIdle, QSampling, QAt
<1>14. QStale'
  <2>1. /\ q_iter' + QDelivered' <= q_iter + QDelivered
        /\ QDelivered = 0 => QDelivered' = 0
        /\ QWork' <= QWork - 1
    <3>1. QWork \in 3..13 /\ q_iter \in Nat
      BY <1>1, QCounts, Zenon DEF QCounted
    <3> QED
      BY <1>10, <1>12, <3>1
  <2> QED
    BY <1>1, <1>5, <1>13, <2>1, QStaysStale, Zenon DEF QOneCycle
<1> QED
  BY <1>5, <1>6, <1>8, <1>9, <1>14, Zenon DEF QInv, QTiming

\* It finds none and blocks.
LEMMA QBlocks ==
  ASSUME QInv, Q!Executes("ticker"), QOneCycle, Q!Step("ticker", "wait", "read"),
         ~QSignalled, q_active' = q_active,
         q_tcb' = [q_tcb EXCEPT !["ticker"] = QBlocked],
         masked' = masked, q_iter' = q_iter, q_end' = q_end
  PROVE  QInv'
<1>1. /\ QTypeOK /\ QMasked /\ QTiming /\ QWorking /\ q_tcb["ticker"] = Q!Running
      /\ q_pc["ticker"] = "wait" /\ q_pc' = [q_pc EXCEPT !["ticker"] = "read"]
  BY QTicker, Zenon DEF Q!Step
<1>2. /\ DOMAIN q_pc = {"main", "ticker", "spinner"}
      /\ q_tcb \in [{"main", "ticker", "spinner"} -> {Q!Running, Q!Inactive, QBlocked, QReceiving}]
  BY <1>1, Zenon DEF QTypeOK
<1>3. /\ q_pc'["ticker"] = "read" /\ q_pc'["main"] = q_pc["main"]
      /\ q_pc'["spinner"] = q_pc["spinner"] /\ DOMAIN q_pc' = {"main", "ticker", "spinner"}
  BY <1>1, <1>2, Zenon
<1>4. /\ q_tcb' \in [{"main", "ticker", "spinner"} -> {Q!Running, Q!Inactive, QBlocked, QReceiving}]
      /\ q_tcb'["ticker"] = QBlocked /\ q_tcb'["main"] = q_tcb["main"]
      /\ q_tcb'["spinner"] = q_tcb["spinner"]
  BY <1>2, Zenon
<1>5. QTypeOK'
  BY <1>1, <1>3, <1>4, QCycle, Zenon DEF QTypeOK, QOneCycle
<1>6. QWorking'
  BY <1>1, <1>3, <1>4, Zenon DEF QWorking, QAt
<1>7. ~QServes' /\ ~QServes /\ ~QServing' /\ ~QServing /\ ~QSignalled'
  BY <1>1, <1>4, QStates, Zenon DEF QServes, QServing, QSignalled
<1>8. QMasked'
  BY <1>1, <1>7, Zenon DEF QMasked
<1>9. QSampled'
  BY <1>3, Zenon DEF QSampled
<1>10. QDelivered = 0 + 0 /\ QDelivered' = 0 + 0
  BY <1>7, Zenon DEF QDelivered, QNumber
<1>11. QSteps = 1 /\ QSteps' = 0
  <2>1. q_tcb["ticker"] # QBlocked
    BY <1>1, QStates, Zenon
  <2> QED
    BY <1>1, <1>4, <2>1, SMT DEF QSteps
<1>12. QWork' = QWork - 1
  <2>1. QRefresh' = QRefresh
    BY <1>3, Zenon DEF QRefresh
  <2>2. QWork = 4 * 0 + 1 + QRefresh /\ QWork' = 4 * 0 + 0 + QRefresh
    BY <1>7, <1>11, <2>1, Zenon DEF QWork, QNumber
  <2> QED
    BY <2>2, QNumbers
<1>13. QStale
  <2>1. q_tcb["ticker"] # QBlocked
    BY <1>1, QStates, Zenon
  <2> QED
    BY <1>1, <2>1, Zenon DEF QTiming, QRead, QFresh, QIdle, QSampling, QAt
<1>14. QStale'
  <2>1. /\ q_iter' + QDelivered' <= q_iter + QDelivered
        /\ QDelivered = 0 => QDelivered' = 0
        /\ QWork' <= QWork - 1
    <3>1. QWork \in 3..13 /\ q_iter \in Nat
      BY <1>1, QCounts, Zenon DEF QCounted
    <3> QED
      BY <1>10, <1>12, <3>1
  <2> QED
    BY <1>1, <1>5, <1>13, <2>1, QStaysStale, Zenon DEF QOneCycle
<1> QED
  BY <1>5, <1>6, <1>8, <1>9, <1>14, Zenon DEF QInv, QTiming

\* If there is time for the work, there still is after a cycle of it, and no tick comes.
LEMMA QGoesOn ==
  ASSUME QTypeOK, QTypeOK', due > QUntilStored, Q!Advance(1, raised), QWork' <= QWork - 1
  PROVE  due' > QUntilStored' /\ raised' = raised /\ due' = due - 1
<1> DEFINE w == QWork
           u == QUntilStored
           n == due
           dw == QWork'
           du == QUntilStored'
           dm == due'
<1>1. /\ w \in 3..13 /\ (raised => u = (Latency + 4) + w) /\ (~raised => u = 0 + w)
  BY QCounts, Zenon DEF QCounted
<1>2. QCounted'
  BY QCounts, PTL
<1>3. /\ dw \in 3..13 /\ (raised' => du = (Latency + 4) + dw) /\ (~raised' => du = 0 + dw)
  BY <1>2, Zenon DEF QCounted
<1>4. Latency \in Nat
  BY QConstants, Zenon
<1>5. n \in 1..Period /\ n > u /\ dw <= w - 1 /\ Period \in Nat
  BY QConstants, Zenon DEF QTypeOK
<1>6. 1 < n => dm = n - 1 /\ raised' = raised
  BY QCycle, Zenon
<1> HIDE DEF w, u, n, dw, du, dm
<1>7. CASE raised
  <2>1. u = (Latency + 4) + w
    BY <1>1, <1>7, Zenon
  <2>2. 1 < n
    BY <1>1, <1>4, <1>5, <2>1
  <2>3. dm = n - 1 /\ raised' = raised /\ du = (Latency + 4) + dw
    BY <1>3, <1>6, <1>7, <2>2, Zenon
  <2>4. dm > du
    BY <1>1, <1>3, <1>4, <1>5, <2>1, <2>3
  <2> QED
    BY <2>3, <2>4, Zenon DEF dm, du, n
<1>8. CASE ~raised
  <2>1. u = 0 + w
    BY <1>1, <1>8, Zenon
  <2>2. 1 < n
    BY <1>1, <1>5, <2>1
  <2>3. dm = n - 1 /\ raised' = raised /\ du = 0 + dw
    BY <1>3, <1>6, <1>8, <2>2, Zenon
  <2>4. dm > du
    BY <1>1, <1>3, <1>5, <2>1, <2>3
  <2> QED
    BY <2>3, <2>4, Zenon DEF dm, du, n
<1> QED
  BY <1>7, <1>8, Zenon

\* A step of the ticker while it serves a tick, and what it does to the timing.
LEMMA QServesOn ==
  ASSUME QTypeOK, QTypeOK', QWorking, QTiming, QOneCycle, q_tcb["ticker"] = Q!Running,
         q_pc["ticker"] \in {"read", "handle"}, q_iter' = q_iter, QDelivered' = QDelivered,
         QWork' = QWork - 1, QAge' = QAge
  PROVE  \/ QStale'
         \/ /\ QTicks' = 1 /\ due' > QUntilStored' /\ low' = low
            /\ IF q_pc["ticker"] = "read" THEN QSame(low, q_clock - (Latency + QAge))
               ELSE QSame(low, q_end - (Latency + QAge))
<1>1. Q!Advance(1, raised) /\ low' = low /\ q_pc["ticker"] # "send" /\ q_tcb["ticker"] # QBlocked
  BY QStates, Zenon DEF QOneCycle
<1>2. QStale \/ QSampling
  BY <1>1, Zenon DEF QTiming, QRead, QFresh, QIdle
<1>3. /\ QWork' <= QWork - 1 /\ q_iter' + QDelivered' <= q_iter + QDelivered
      /\ QDelivered = 0 => QDelivered' = 0
  <2>1. QWork \in 3..13 /\ q_iter \in Nat /\ QDelivered \in 0..2
    BY QCounts, Zenon DEF QCounted
  <2> QED
    BY <2>1
<1>4. QStale => QStale'
  BY <1>1, <1>3, QStaysStale, Zenon
<1>5. ASSUME QSampling
      PROVE  /\ QTicks' = 1 /\ due' > QUntilStored'
             /\ IF q_pc["ticker"] = "read" THEN QSame(low, q_clock - (Latency + QAge))
                ELSE QSame(low, q_end - (Latency + QAge))
  <2>1. QTicks = 1 /\ due > QUntilStored
    BY <1>5, Zenon DEF QSampling
  <2>2. due' > QUntilStored' /\ raised' = raised
    BY <1>1, <1>3, <2>1, QGoesOn, Zenon
  <2>3. QTicks' = QTicks
    BY <2>2, Zenon DEF QTicks
  <2>4. IF q_pc["ticker"] = "read" THEN QSame(low, q_clock - (Latency + QAge))
        ELSE QSame(low, q_end - (Latency + QAge))
    BY <1>1, <1>5, Zenon DEF QSampling, QAt
  <2> QED
    BY <2>1, <2>2, <2>3, <2>4, Zenon
<1> QED
  BY <1>1, <1>2, <1>4, <1>5, Zenon

\* It reads the counter.
LEMMA QReads ==
  ASSUME QInv, Q!Executes("ticker"), QOneCycle, Q!Step("ticker", "read", "handle"),
         q_active' = q_active, q_tcb' = q_tcb, masked' = masked, q_iter' = q_iter,
         q_end' = q_clock
  PROVE  QInv'
<1>1. /\ QTypeOK /\ QMasked /\ QTiming /\ QWorking /\ q_tcb["ticker"] = Q!Running
      /\ q_pc["ticker"] = "read" /\ q_pc' = [q_pc EXCEPT !["ticker"] = "handle"]
  BY QTicker, Zenon DEF Q!Step
<1>2. DOMAIN q_pc = {"main", "ticker", "spinner"} /\ q_clock \in Int
  BY <1>1, Zenon DEF QTypeOK
<1>3. /\ q_pc'["ticker"] = "handle" /\ q_pc'["main"] = q_pc["main"]
      /\ q_pc'["spinner"] = q_pc["spinner"] /\ DOMAIN q_pc' = {"main", "ticker", "spinner"}
  BY <1>1, <1>2, Zenon
<1>5. QTypeOK'
  BY <1>1, <1>2, <1>3, QCycle, Zenon DEF QTypeOK, QOneCycle
<1>6. QWorking'
  BY <1>1, <1>3, Zenon DEF QWorking, QAt
<1>7. QServes' /\ QServes /\ QServing' /\ QServing /\ QSignalled' = QSignalled
  BY <1>1, <1>3, Zenon DEF QServes, QServing, QSignalled
<1>8. QMasked'
  BY <1>1, <1>7, Zenon DEF QMasked
<1>9. QSampled'
  BY <1>3, Zenon DEF QSampled
<1>10. QDelivered' = QDelivered
  BY <1>7, Zenon DEF QDelivered, QNumber
<1>11. QSteps = 4 /\ QSteps' = 3
  <2>1. q_tcb["ticker"] # QBlocked /\ q_tcb'["ticker"] # QBlocked
    BY <1>1, QStates, Zenon
  <2> QED
    BY <1>1, <1>3, <2>1, SMT DEF QSteps
<1>12. QWork' = QWork - 1 /\ QAge' = QAge
  <2>1. QRefresh' = QRefresh /\ QAge' = QAge
    BY <1>3, Zenon DEF QRefresh, QAge
  <2> DEFINE s == QNumber(QSignalled)
  <2>2. QWork = 4 * s + 4 + QRefresh /\ QWork' = 4 * s + 3 + QRefresh
    BY <1>7, <1>11, <2>1, Zenon DEF QWork, QNumber
  <2>3. s \in 0..1
    BY <1>1, QCounts, Zenon DEF QCounted
  <2> HIDE DEF s
  <2> QED
    BY <2>1, <2>2, <2>3, QNumbers
<1>13. \/ QStale'
       \/ /\ QTicks' = 1 /\ due' > QUntilStored' /\ low' = low
          /\ QSame(low, q_clock - (Latency + QAge))
  BY <1>1, <1>5, <1>10, <1>12, QServesOn, Zenon
<1>14. QStale' \/ QSampling'
  BY <1>1, <1>3, <1>12, <1>13, Zenon DEF QSampling
<1> QED
  BY <1>5, <1>6, <1>8, <1>9, <1>14, Zenon DEF QInv, QTiming

\* It acknowledges the interrupt.
LEMMA QHandles ==
  ASSUME QInv, Q!Executes("ticker"), QOneCycle, Q!Step("ticker", "handle", "sample"),
         q_active' = q_active, q_tcb' = q_tcb, masked' = FALSE, q_iter' = q_iter,
         q_end' = q_end
  PROVE  QInv'
<1>1. /\ QTypeOK /\ QMasked /\ QTiming /\ QWorking /\ q_tcb["ticker"] = Q!Running
      /\ q_pc["ticker"] = "handle" /\ q_pc' = [q_pc EXCEPT !["ticker"] = "sample"]
  BY QTicker, Zenon DEF Q!Step
<1>2. DOMAIN q_pc = {"main", "ticker", "spinner"}
  BY <1>1, Zenon DEF QTypeOK
<1>3. /\ q_pc'["ticker"] = "sample" /\ q_pc'["main"] = q_pc["main"]
      /\ q_pc'["spinner"] = q_pc["spinner"] /\ DOMAIN q_pc' = {"main", "ticker", "spinner"}
  BY <1>1, <1>2, Zenon
<1>5. QTypeOK'
  BY <1>1, <1>2, <1>3, QCycle, Zenon DEF QTypeOK, QOneCycle
<1>6. QWorking'
  BY <1>1, <1>3, Zenon DEF QWorking, QAt
<1>7. ~QServes' /\ QServes /\ QServing' /\ QServing /\ QSignalled' = QSignalled
  BY <1>1, <1>3, Zenon DEF QServes, QServing, QSignalled
<1>8. QMasked'
  BY <1>1, <1>7, QStates, Zenon DEF QMasked
<1>9. QSampled'
  BY <1>3, Zenon DEF QSampled
<1>10. QDelivered' = QDelivered
  BY <1>7, Zenon DEF QDelivered, QNumber
<1>11. QSteps = 3 /\ QSteps' = 2
  <2>1. q_tcb["ticker"] # QBlocked /\ q_tcb'["ticker"] # QBlocked
    BY <1>1, QStates, Zenon
  <2> QED
    BY <1>1, <1>3, <2>1, SMT DEF QSteps
<1>12. QWork' = QWork - 1 /\ QAge' = QAge
  <2>1. QRefresh' = QRefresh /\ QAge' = QAge
    BY <1>3, Zenon DEF QRefresh, QAge
  <2> DEFINE s == QNumber(QSignalled)
  <2>2. QWork = 4 * s + 3 + QRefresh /\ QWork' = 4 * s + 2 + QRefresh
    BY <1>7, <1>11, <2>1, Zenon DEF QWork, QNumber
  <2>3. s \in 0..1
    BY <1>1, QCounts, Zenon DEF QCounted
  <2> HIDE DEF s
  <2> QED
    BY <2>1, <2>2, <2>3, QNumbers
<1>13. \/ QStale'
       \/ /\ QTicks' = 1 /\ due' > QUntilStored' /\ low' = low
          /\ QSame(low, q_end - (Latency + QAge))
  BY <1>1, <1>5, <1>10, <1>12, QServesOn, Zenon
<1>14. QStale' \/ QSampling'
  BY <1>1, <1>3, <1>12, <1>13, Zenon DEF QSampling
<1> QED
  BY <1>5, <1>6, <1>8, <1>9, <1>14, Zenon DEF QInv, QTiming

\* It takes the sample, which is exact unless the store was stale.
LEMMA QSamples ==
  ASSUME QInv, Q!Executes("ticker"), QOneCycle, NEW l \in {"wait", "send"},
         Q!Step("ticker", "sample", l),
         q_active' = q_active, q_tcb' = q_tcb, masked' = masked, q_iter' = q_iter + 1,
         q_end' = q_end, q_sample' = Q!Elapsed
  PROVE  QInv'
<1>1. /\ QTypeOK /\ QMasked /\ QTiming /\ QWorking /\ q_tcb["ticker"] = Q!Running
      /\ q_pc["ticker"] = "sample" /\ q_pc' = [q_pc EXCEPT !["ticker"] = l]
      /\ Q!Advance(1, raised) /\ low' = low
  BY QTicker, Zenon DEF Q!Step, QOneCycle
<1>2. DOMAIN q_pc = {"main", "ticker", "spinner"} /\ q_iter \in Nat /\ low \in Int /\ q_end \in Int
  BY <1>1, Zenon DEF QTypeOK
<1>3. /\ q_pc'["ticker"] = l /\ q_pc'["main"] = q_pc["main"]
      /\ q_pc'["spinner"] = q_pc["spinner"] /\ DOMAIN q_pc' = {"main", "ticker", "spinner"}
  BY <1>1, <1>2, Zenon
<1>4. q_iter' \in Nat
  BY <1>2
<1>5. QTypeOK'
  BY <1>1, <1>3, <1>4, QCycle, Zenon DEF QTypeOK, QOneCycle
<1>6. QWorking'
  BY <1>1, <1>3, Zenon DEF QWorking, QAt
<1>7. ~QServes' /\ ~QServes /\ ~QServing' /\ QServing /\ QSignalled' = QSignalled
  BY <1>1, <1>3, Zenon DEF QServes, QServing, QSignalled
<1>8. QMasked'
  BY <1>1, <1>7, QStates, Zenon DEF QMasked
<1>9. q_tcb["ticker"] # QBlocked /\ q_tcb'["ticker"] # QBlocked
  BY <1>1, QStates, Zenon
<1>10. QStale \/ QSampling
  BY <1>1, <1>9, Zenon DEF QTiming, QRead, QFresh, QIdle
<1> DEFINE s == QNumber(QSignalled)
           r == QNumber(raised)
<1>11. /\ s \in 0..1 /\ r \in 0..1 /\ (r = 0 <=> ~raised) /\ QDelivered = s + 1
       /\ QDelivered' = s + 0 /\ QTicks = r + QDelivered
  <2>1. /\ QNumber(QServing)' = 0 /\ QNumber(QServing) = 1 /\ QNumber(QSignalled)' = s
    BY <1>7, Zenon DEF QNumber
  <2> QED
    BY <1>1, <2>1, QCounts, Zenon DEF QCounted, QDelivered
<1>12. QSampled'
  <2>1. ASSUME q_iter' > 3 PROVE q_sample' \in Latency + 1..Latency + 2 * Q!SpinnerPass
    <3>1. ~QStale
      <4>1. q_iter + QTicks > 3 /\ QTicks # 0
        <5> HIDE DEF s, r
        <5> QED
          BY <1>2, <1>11, <2>1
      <4>2. ~(q_iter + QTicks <= 2) /\ ~(q_iter + QTicks <= 3)
        <5> HIDE DEF s, r
        <5> QED
          BY <1>2, <1>11, <4>1
      <4> QED
        BY <4>1, <4>2, Zenon DEF QStale
    <3>2. QSame(low, q_end - (Latency + QAge))
      BY <1>1, <1>9, <1>10, <3>1, Zenon DEF QSampling, QAt
    <3>3. Latency + QAge \in Nat /\ Latency + QAge < QWord
      BY QNumbers, QConstants
    <3>4. q_sample' = Latency + QAge
      BY <1>2, <3>2, <3>3, QElapsed, Zenon
    <3> QED
      BY <3>4, QNumbers, QConstants
  <2> QED
    BY <2>1, Zenon DEF QSampled
<1>13. ASSUME l = "wait" PROVE QStale'
  <2>1. QSteps = 2 /\ QSteps' = 1
    BY <1>1, <1>3, <1>9, <1>13, SMT DEF QSteps
  <2>2. QRefresh' = QRefresh
    BY <1>3, Zenon DEF QRefresh
  <2>3. QWork = 4 * s + 2 + QRefresh /\ QWork' = 4 * s + 1 + QRefresh
    BY <1>7, <2>1, <2>2, Zenon DEF QWork, QNumber
  <2>4. /\ QWork' <= QWork - 1 /\ q_iter' + QDelivered' <= q_iter + QDelivered
        /\ QDelivered = 0 => QDelivered' = 0
    <3> HIDE DEF s, r
    <3> QED
      BY <1>2, <1>11, <2>3, QNumbers
  <2>5. QStale => QStale'
    BY <1>1, <1>5, <2>4, QStaysStale, Zenon
  <2>6. ASSUME QSampling PROVE QStale'
    <3>1. QTicks = 1 /\ due > QUntilStored
      BY <2>6, Zenon DEF QSampling
    <3>2. due' > QUntilStored' /\ raised' = raised
      BY <1>1, <1>5, <2>4, <3>1, QGoesOn, Zenon
    <3>3. s = 0 /\ r = 0
      <4> HIDE DEF s, r
      <4> QED
        BY <1>11, <3>1
    <3>4. QTicks' = 0 + (0 + 0)
      BY <1>11, <3>2, <3>3, Zenon DEF QTicks, r
    <3>5. QTicks' = 0
      BY <3>4
    <3> QED
      BY <3>2, <3>5, Zenon DEF QStale
  <2> QED
    BY <1>10, <2>5, <2>6, Zenon
<1> QED
  BY <1>3, <1>5, <1>6, <1>8, <1>12, <1>13, Zenon DEF QInv, QTiming

\* It reports to main.
LEMMA QSends ==
  ASSUME QInv, Q!Executes("ticker"), QOneCycle,
         \/ Q!Step("ticker", "send", "return") \/ Q!Step("ticker", "return", "faulted"),
         Q!Send("ticker", Q!DoneEp),
         masked' = masked, q_iter' = q_iter, q_end' = q_end
  PROVE  QInv'
<1>1. /\ QTypeOK /\ QMasked /\ QWorking /\ q_tcb["ticker"] = Q!Running
      /\ q_pc["ticker"] = "send" /\ q_pc' = [q_pc EXCEPT !["ticker"] = "return"]
  BY QTicker, Zenon DEF Q!Step
<1>2. /\ DOMAIN q_pc = {"main", "ticker", "spinner"}
      /\ q_tcb \in [{"main", "ticker", "spinner"} -> {Q!Running, Q!Inactive, QBlocked, QReceiving}]
  BY <1>1, Zenon DEF QTypeOK
<1>3. /\ q_pc'["ticker"] = "return" /\ q_pc'["main"] = q_pc["main"]
      /\ q_pc'["spinner"] = q_pc["spinner"] /\ DOMAIN q_pc' = {"main", "ticker", "spinner"}
  BY <1>1, <1>2, Zenon
<1>4. /\ q_tcb["main"] = QReceiving /\ q_pc["main"] = "check"
      /\ q_tcb["spinner"] = Q!Running
  BY <1>1, Zenon DEF QWorking, QAt
<1>5. q_tcb' = [q_tcb EXCEPT !["main"] = Q!Running] /\ q_active' = q_active
  <2>1. Q!Blocked(QReceiving) = {t \in DOMAIN q_tcb : q_tcb[t] = QReceiving}
    BY Zenon DEF Q!Blocked
  <2>2. /\ \/ \E t \in Q!Blocked(QReceiving) : q_tcb' = [q_tcb EXCEPT ![t] = Q!Running]
           \/ Q!Blocked(QReceiving) = {}
        /\ q_active' = q_active
    BY Zenon DEF Q!Send, Q!SetState, QReceiving
  <2> HIDE DEF QReceiving
  <2>3. DOMAIN q_tcb = {"main", "ticker", "spinner"}
    BY <1>2, Zenon
  <2>4. "main" \in Q!Blocked(QReceiving)
    BY <1>4, <2>1, <2>3, Zenon
  <2>5. \A t \in Q!Blocked(QReceiving) : t = "main"
    BY <1>1, <1>4, <2>1, <2>3, QStates, Zenon
  <2> QED
    BY <2>2, <2>4, <2>5, Zenon
<1>6. /\ q_tcb' \in [{"main", "ticker", "spinner"} -> {Q!Running, Q!Inactive, QBlocked, QReceiving}]
      /\ q_tcb'["main"] = Q!Running /\ q_tcb'["ticker"] = q_tcb["ticker"]
      /\ q_tcb'["spinner"] = q_tcb["spinner"]
  BY <1>2, <1>5, Zenon
<1>7. QTypeOK'
  BY <1>1, <1>3, <1>5, <1>6, QCycle, Zenon DEF QTypeOK, QOneCycle
<1>8. QReported'
  BY <1>1, <1>3, <1>4, <1>6, Zenon DEF QReported, QAt
<1>9. ~QServes' /\ ~QServes /\ QSignalled' = QSignalled
  BY <1>1, <1>3, <1>5, Zenon DEF QServes, QSignalled
<1>10. QMasked'
  BY <1>1, <1>6, <1>9, Zenon DEF QMasked
<1>11. QSampled'
  BY <1>3, Zenon DEF QSampled
<1>12. QTiming'
  <2>1. ~QWorking'
    BY <1>6, QStates, Zenon DEF QWorking, QAt
  <2> QED
    BY <2>1, Zenon DEF QTiming
<1> QED
  BY <1>7, <1>8, <1>10, <1>11, <1>12, Zenon DEF QInv

\* Every step of ticker_fn.
LEMMA QTickerSteps ==
  ASSUME QInv, Q!ticker_fn
  PROVE  QInv'
<1>1. /\ Q!Executes("ticker") /\ QOneCycle
      /\ \/ /\ Q!Step("ticker", "wait", "read") /\ Q!Wait("ticker", "timer_signal")
            /\ masked' = masked /\ q_iter' = q_iter /\ q_end' = q_end
         \/ /\ Q!Step("ticker", "read", "handle") /\ q_end' = q_clock
            /\ q_tcb' = q_tcb /\ q_active' = q_active /\ masked' = masked /\ q_iter' = q_iter
         \/ /\ Q!Step("ticker", "handle", "sample") /\ masked' = FALSE
            /\ q_tcb' = q_tcb /\ q_active' = q_active /\ q_iter' = q_iter /\ q_end' = q_end
         \/ /\ Q!Step("ticker", "sample", IF q_iter + 1 < IrqRuns THEN "wait" ELSE "send")
            /\ q_sample' = Q!Elapsed /\ q_iter' = q_iter + 1
            /\ q_tcb' = q_tcb /\ q_active' = q_active /\ masked' = masked /\ q_end' = q_end
         \/ /\ Q!Step("ticker", "send", "return") \/ Q!Step("ticker", "return", "faulted")
            /\ Q!Send("ticker", Q!DoneEp)
            /\ masked' = masked /\ q_iter' = q_iter /\ q_end' = q_end
  BY Zenon DEF Q!ticker_fn, Q!Ticker, Q!TimerSignal, QOneCycle, Q!irq_handle
<1>2. ASSUME Q!Step("ticker", "wait", "read"), Q!Wait("ticker", "timer_signal"),
             masked' = masked, q_iter' = q_iter, q_end' = q_end
      PROVE  QInv'
  <2>1. \/ /\ QSignalled /\ q_tcb' = q_tcb
           /\ q_active' = [q_active EXCEPT !["timer_signal"] = FALSE]
        \/ /\ ~QSignalled /\ q_active' = q_active
           /\ q_tcb' = [q_tcb EXCEPT !["ticker"] = QBlocked]
    BY <1>2, Zenon DEF Q!Wait, Q!SetState, QSignalled, QBlocked, Q!TimerSignal
  <2> HIDE DEF QBlocked, QSignalled
  <2> QED
    BY <1>1, <1>2, <2>1, QTakes, QBlocks, Zenon
<1>3. ASSUME Q!Step("ticker", "read", "handle"), q_end' = q_clock, q_tcb' = q_tcb,
             q_active' = q_active, masked' = masked, q_iter' = q_iter
      PROVE  QInv'
  BY <1>1, <1>3, QReads, Zenon
<1>4. ASSUME Q!Step("ticker", "handle", "sample"), masked' = FALSE, q_tcb' = q_tcb,
             q_active' = q_active, q_iter' = q_iter, q_end' = q_end
      PROVE  QInv'
  BY <1>1, <1>4, QHandles, Zenon
<1>5. ASSUME Q!Step("ticker", "sample", IF q_iter + 1 < IrqRuns THEN "wait" ELSE "send"),
             q_sample' = Q!Elapsed, q_iter' = q_iter + 1, q_tcb' = q_tcb,
             q_active' = q_active, masked' = masked, q_end' = q_end
      PROVE  QInv'
  <2> DEFINE l == IF q_iter + 1 < IrqRuns THEN "wait" ELSE "send"
  <2>1. l \in {"wait", "send"}
    OBVIOUS
  <2> HIDE DEF l
  <2>2. Q!Step("ticker", "sample", l)
    BY <1>5, Zenon DEF l
  <2> QED
    BY <1>1, <1>5, <2>1, <2>2, QSamples, Zenon
<1>6. ASSUME Q!Step("ticker", "send", "return") \/ Q!Step("ticker", "return", "faulted"),
             Q!Send("ticker", Q!DoneEp), masked' = masked, q_iter' = q_iter, q_end' = q_end
      PROVE  QInv'
  BY <1>1, <1>6, QSends, Zenon
<1> QED
  BY <1>1, <1>2, <1>3, <1>4, <1>5, <1>6, Zenon

-----------------------------------------------------------------------------
(* The irquser application: the spinner.                                   *)

\* When the spinner executes, the ticker waits and no tick is on its way.
LEMMA QSpinner ==
  ASSUME QInv, Q!Executes("spinner")
  PROVE  /\ QTypeOK /\ QMasked /\ QTiming /\ QWorking /\ QIdle /\ ~masked
         /\ q_pc["ticker"] = "read" /\ q_pc["spinner"] \in QSpinnerLabel
         /\ QTicks = 0 /\ QUntilStored = QRefresh
<1>1. /\ QTypeOK /\ (QApart \/ QStarting \/ QWorking \/ QReported) /\ QMasked /\ QTiming
  BY Zenon DEF QInv
<1>2. /\ q_tcb["spinner"] = Q!Running /\ q_tcb["main"] # Q!Running
      /\ q_tcb["ticker"] # Q!Running
  BY <1>1, QOrder, Zenon
<1>3. QWorking
  BY <1>1, <1>2, Zenon DEF QApart, QStarting, QReported, QAt
<1>4. q_tcb["ticker"] = QBlocked /\ q_pc["ticker"] = "read"
  BY <1>2, <1>3, Zenon DEF QWorking, QAt
<1>5. ~QSignalled /\ ~QServes /\ ~QServing
  BY <1>1, <1>2, <1>4, Zenon DEF QMasked, QServes, QServing
<1>6. ~masked
  BY <1>1, <1>5, Zenon DEF QMasked
<1>7. ~raised
  <2>1. "spinner" \in Q!Thread
    BY Zenon DEF Q!Thread, Q!Child, Q!Spinner
  <2> QED
    BY <1>1, <1>6, <2>1, QOrder, Zenon
<1>8. QTicks = 0 + (0 + 0)
  BY <1>5, <1>7, Zenon DEF QTicks, QDelivered, QNumber
<1>9. QUntilStored = 0 + (4 * 0 + 0 + QRefresh)
  BY <1>4, <1>5, <1>7, Zenon DEF QUntilStored, QDelay, QWork, QNumber, QSteps
<1>10. QTicks = 0 /\ QUntilStored = QRefresh
  BY <1>8, <1>9, QNumbers
<1> QED
  BY <1>1, <1>3, <1>4, <1>6, <1>7, <1>10, Zenon DEF QIdle, QWorking

\* What a step of the spinner leaves alone.
QSpins == /\ Q!Executes("spinner") /\ Q!Advance(1, raised)
          /\ q_tcb' = q_tcb /\ q_active' = q_active /\ masked' = masked
          /\ q_iter' = q_iter /\ q_end' = q_end

\* It is at the next place, and a tick may have come.
LEMMA QSpun ==
  ASSUME QInv, QSpins, NEW l \in QSpinnerLabel,
         q_pc' = [q_pc EXCEPT !["spinner"] = l], reg' \in Int, low' \in Int
  PROVE  /\ QTypeOK' /\ QWorking' /\ QMasked' /\ QSampled' /\ q_pc'["spinner"] = l
         /\ \/ /\ QIdle' /\ QTicks' = 0 /\ QUntilStored' = QRefresh' /\ due' = due - 1
               /\ due > 1
            \/ due = 1 /\ QTicks' = 1 /\ due' > QUntilStored' /\ q_tcb'["ticker"] = QBlocked
<1>1. /\ QTypeOK /\ QMasked /\ QWorking /\ QIdle /\ ~masked /\ q_pc["ticker"] = "read"
  BY QSpinner, Zenon DEF QSpins
<1>2. DOMAIN q_pc = {"main", "ticker", "spinner"} /\ due \in 1..Period /\ raised \in BOOLEAN
  BY <1>1, Zenon DEF QTypeOK
<1>3. /\ q_pc'["spinner"] = l /\ q_pc'["main"] = q_pc["main"]
      /\ q_pc'["ticker"] = "read" /\ DOMAIN q_pc' = {"main", "ticker", "spinner"}
  BY <1>1, <1>2, Zenon
<1>4. Q!Advance(1, raised) /\ q_tcb' = q_tcb
  BY Zenon DEF QSpins
<1>5. QTypeOK'
  BY <1>1, <1>3, <1>4, QCycle, Zenon DEF QTypeOK, QSpins
<1>6. QWorking'
  BY <1>1, <1>3, <1>4, Zenon DEF QWorking, QAt
<1>7. /\ q_tcb["ticker"] = QBlocked /\ ~QSignalled' /\ ~QServes' /\ ~QServing'
      /\ ~raised
  BY <1>1, <1>4, QStates, Zenon DEF QIdle, QMasked, QServes, QServing, QSignalled, QSpins
<1>8. QMasked'
  BY <1>1, <1>7, Zenon DEF QMasked, QSpins
<1>9. QSampled'
  BY <1>3, Zenon DEF QSampled
<1>10. QDelivered' = 0 + 0 /\ QWork' = 4 * 0 + 0 + QRefresh'
  BY <1>4, <1>7, Zenon DEF QDelivered, QNumber, QWork, QSteps
<1>11. QRefresh' \in 3..5
  BY SMT DEF QRefresh
<1>12. CASE 1 < due
  <2>1. due' = due - 1 /\ ~raised'
    BY <1>1, <1>4, <1>7, <1>12, QCycle, Zenon
  <2>2. QTicks' = 0 + (0 + 0) /\ QUntilStored' = 0 + (4 * 0 + 0 + QRefresh')
    BY <1>10, <2>1, Zenon DEF QTicks, QUntilStored, QDelay, QNumber
  <2>3. QTicks' = 0 /\ QUntilStored' = QRefresh' /\ due > 1
    <3> DEFINE f == QRefresh'
               t == QTicks'
               u == QUntilStored'
               n == due
    <3>1. /\ f \in 3..5 /\ n \in 1..Period /\ 1 < n
          /\ t = 0 + (0 + 0) /\ u = 0 + (4 * 0 + 0 + f)
      BY <1>2, <1>11, <1>12, <2>2, Zenon
    <3> HIDE DEF f, t, u, n
    <3>2. t = 0 /\ u = f /\ n > 1
      BY <3>1
    <3> QED
      BY <3>2, Zenon DEF f, t, u, n
  <2>4. QIdle'
    BY <1>4, <1>7, <2>1, Zenon DEF QIdle
  <2> QED
    BY <1>3, <1>5, <1>6, <1>8, <1>9, <2>1, <2>3, <2>4, Zenon
<1>13. CASE ~(1 < due)
  <2>1. due = 1 /\ 1 >= due
    BY <1>2, <1>13
  <2>2. due' = due + Period - 1 /\ raised'
    BY <1>1, <1>4, <2>1, QCycle, Zenon
  <2>3. QTicks' = 1 + (0 + 0) /\ QUntilStored' = (Latency + 4) + (4 * 0 + 0 + QRefresh')
    BY <1>10, <2>2, Zenon DEF QTicks, QUntilStored, QDelay, QNumber
  <2>4. QTicks' = 1 /\ due' > QUntilStored'
    <3> DEFINE f == QRefresh'
               t == QTicks'
               u == QUntilStored'
               m == due'
    <3>1. /\ f \in 3..5 /\ m = 1 + Period - 1 /\ t = 1 + (0 + 0)
          /\ u = (Latency + 4) + (4 * 0 + 0 + f)
      BY <1>11, <2>1, <2>2, <2>3, Zenon
    <3>2. Latency \in Nat /\ Period \in Nat /\ Period >= 3 * Latency + 18
      BY QConstants, Zenon
    <3> HIDE DEF f, t, u, m
    <3>3. t = 1 /\ m > u
      BY <3>1, <3>2
    <3> QED
      BY <3>3, Zenon DEF t, u, m
  <2> QED
    BY <1>3, <1>4, <1>5, <1>6, <1>7, <1>8, <1>9, <2>1, <2>4, Zenon
<1> QED
  BY <1>12, <1>13, Zenon

\* A stale store stays so while the spinner goes on to store.
LEMMA QSpinsStale ==
  ASSUME QInv, QSpins, NEW l \in QSpinnerLabel,
         q_pc' = [q_pc EXCEPT !["spinner"] = l], reg' \in Int, low' \in Int,
         QStale, QRefresh' = QRefresh - 1
  PROVE  QStale'
<1> DEFINE i == q_iter
           n == due
           f == QRefresh
           df == QRefresh'
           dt == QTicks'
           du == QUntilStored'
           dm == due'
<1>1. QTypeOK /\ QTicks = 0 /\ QUntilStored = f
  BY QSpinner, Zenon DEF QSpins
<1>2. i \in Nat /\ n \in 1..Period /\ f \in 3..5 /\ Period \in Nat
  BY <1>1, QNumbers, QConstants, Zenon DEF QTypeOK
<1>3. i + 0 <= 2 \/ n > f
  BY <1>1, Zenon DEF QStale
<1>4. \/ dt = 0 /\ du = df /\ dm = n - 1
      \/ n = 1 /\ dt = 1 /\ dm > du
  BY QSpun, Zenon
<1>5. df = f - 1 /\ q_iter' = i
  BY Zenon DEF QSpins
<1> HIDE DEF i, n, f, df, dt, du, dm
<1>6. i + dt <= 2 \/ ((dt = 0 \/ i + dt <= 3) /\ dm > du)
  <2>1. CASE dt = 0 /\ du = df /\ dm = n - 1
    BY <1>2, <1>3, <1>5, <2>1
  <2>2. CASE n = 1 /\ dt = 1 /\ dm > du
    <3>1. i + dt <= 3
      BY <1>2, <1>3, <2>2
    <3> QED
      BY <2>2, <3>1, Zenon
  <2> QED
    BY <1>4, <2>1, <2>2, Zenon
<1> QED
  BY <1>5, <1>6, Zenon DEF QStale, dt, du, dm

\* A fresh store stays so, or a tick comes.
LEMMA QSpinsFresh ==
  ASSUME QInv, QSpins, NEW l \in QSpinnerLabel,
         q_pc' = [q_pc EXCEPT !["spinner"] = l], reg' \in Int, low' \in Int,
         QRegFresh', QSame(low', q_clock' - QAge')
  PROVE  QFresh' \/ QSampling'
<1>1. \/ QIdle'
      \/ QTicks' = 1 /\ due' > QUntilStored' /\ q_tcb'["ticker"] = QBlocked
  BY QSpun, Zenon
<1> QED
  BY <1>1, Zenon DEF QFresh, QSampling

\* The spinner reads the counter.
LEMMA QSpinnerReads ==
  ASSUME QInv, QSpins, NEW l \in {"low", "high"}, q_pc["spinner"] = "read",
         q_pc' = [q_pc EXCEPT !["spinner"] = l], reg' = q_clock, low' = low
  PROVE  QInv'
<1>1. QTypeOK /\ QTiming /\ QWorking /\ q_pc["ticker"] = "read" /\ QTicks = 0 /\ QUntilStored = QRefresh
  BY QSpinner, Zenon DEF QSpins
<1>2. q_clock \in Int /\ low \in Int /\ due \in 1..Period /\ q_iter \in Nat /\ Period \in Nat
  BY <1>1, QConstants, Zenon DEF QTypeOK
<1>3. l \in QSpinnerLabel /\ reg' \in Int /\ low' \in Int
  BY <1>2, Zenon DEF QSpinnerLabel
<1>4. /\ QTypeOK' /\ QWorking' /\ QMasked' /\ QSampled' /\ q_pc'["spinner"] = l
      /\ \/ QIdle' /\ due' = due - 1 /\ due > 1
         \/ due = 1 /\ QTicks' = 1 /\ due' > QUntilStored'
  BY <1>3, QSpun, Zenon
<1>5. \A a \in Int, v \in Int : QSame(v, q_clock - a) => QSame(v, q_clock' - (a + 1))
  BY <1>1, QCycle, Zenon DEF QSpins
<1>6. QRegFresh'
  <2>1. QSame(q_clock, q_clock - 0)
    <3>1. q_clock = (q_clock - 0) + QWord * 0
      BY <1>2, QConstants
    <3>2. 0 \in Int
      OBVIOUS
    <3> QED
      BY <3>1, <3>2, Zenon DEF QSame
  <2>2. 0 \in Int /\ 0 + 1 = 1
    OBVIOUS
  <2>3. QSame(reg', q_clock' - 1)
    BY <1>2, <1>5, <2>1, <2>2, Zenon
  <2>4. QRegAge' = 1
    BY <1>4, SMT DEF QRegAge
  <2> QED
    BY <2>3, <2>4, Zenon DEF QRegFresh
<1>7. QRefresh = 3 /\ QAge = 3 /\ QAge' = 4
  BY <1>4, SMT DEF QRefresh, QAge
<1>8. ASSUME QStale PROVE QStale' \/ QRead'
  <2>1. q_iter + 0 <= 2 \/ due > 3
    BY <1>1, <1>7, <1>8, Zenon DEF QStale
  <2>2. q_iter' = q_iter
    BY Zenon DEF QSpins
  <2>3. CASE QIdle' /\ due' = due - 1 /\ due > 1
    <3>1. q_iter' <= 2 \/ due' > 2
      BY <1>2, <2>1, <2>2, <2>3
    <3>2. due' > 2 => due' > 1
      BY <1>2, <2>3
    <3> QED
      BY <1>4, <1>6, <2>3, <3>1, <3>2, Zenon DEF QRead
  <2>4. CASE due = 1 /\ QTicks' = 1 /\ due' > QUntilStored'
    <3>1. q_iter' + QTicks' <= 3
      BY <1>2, <2>1, <2>2, <2>4
    <3> QED
      BY <2>4, <3>1, Zenon DEF QStale
  <2> QED
    BY <1>4, <2>3, <2>4, Zenon
<1>9. ASSUME QFresh PROVE QFresh' \/ QSampling'
  <2>1. QSame(low, q_clock - 3)
    BY <1>7, <1>9, Zenon DEF QFresh
  <2>2. 3 \in Int /\ 3 + 1 = 4
    OBVIOUS
  <2>3. QSame(low', q_clock' - QAge')
    BY <1>2, <1>5, <1>7, <2>1, <2>2, Zenon
  <2> QED
    BY <1>3, <1>6, <2>3, QSpinsFresh, Zenon
<1>10. QStale \/ QFresh
  <2>1. ~QSampling
    BY <1>1 DEF QSampling
  <2> QED
    BY <1>1, <2>1, Zenon DEF QTiming, QRead
<1> QED
  BY <1>4, <1>8, <1>9, <1>10, Zenon DEF QInv, QTiming

\* It stores the low word.
LEMMA QSpinnerStores ==
  ASSUME QInv, QSpins, q_pc["spinner"] \in {"low", "then_low"},
         q_pc' = [q_pc EXCEPT !["spinner"] = IF q_pc["spinner"] = "low" THEN "then_high" ELSE "read"],
         low' = reg % QWord, reg' = reg
  PROVE  QInv'
<1> DEFINE l == IF q_pc["spinner"] = "low" THEN "then_high" ELSE "read"
<1>1. /\ QTypeOK /\ QTiming /\ QWorking /\ q_pc["ticker"] = "read" /\ QTicks = 0
  BY QSpinner, Zenon DEF QSpins
<1>2. q_clock \in Int /\ reg \in Int
  BY <1>1, Zenon DEF QTypeOK
<1>3. low' \in Int /\ QSame(low', reg)
  <2>1. 1 \in Int /\ QWord \in Nat /\ QWord > 0 /\ QWord = QWord * 1
    BY QConstants
  <2> QED
    BY <1>2, <2>1, QRemainder, Zenon
<1>4. l \in QSpinnerLabel /\ q_pc' = [q_pc EXCEPT !["spinner"] = l] /\ reg' \in Int
  BY <1>2, Zenon DEF QSpinnerLabel
<1>5. q_pc'["spinner"] = l /\ QTypeOK' /\ QWorking' /\ QMasked' /\ QSampled'
  <2> HIDE DEF l
  <2> QED
    BY <1>3, <1>4, QSpun, Zenon
<1>6. QRegFresh'
  BY <1>5, SMT DEF QRegFresh
<1>7. /\ QRefresh' = QRefresh - 1 /\ QAge' = QRegAge + 1 /\ QRegAge \in Int
  BY <1>5, SMT DEF QRefresh, QAge, QRegAge
<1> HIDE DEF l
<1>8. QStale => QStale'
  BY <1>3, <1>4, <1>7, QSpinsStale, Zenon
<1>9. ASSUME QRegFresh PROVE QFresh' \/ QSampling'
  <2>1. QSame(reg, q_clock - QRegAge)
    BY <1>9, Zenon DEF QRegFresh
  <2>2. QSame(reg, q_clock' - QAge')
    BY <1>1, <1>2, <1>7, <2>1, QCycle, Zenon DEF QSpins
  <2>3. q_clock' - QAge' \in Int
    BY <1>5, <1>7 DEF QTypeOK
  <2>4. QSame(low', q_clock' - QAge')
    BY <1>2, <1>3, <2>2, <2>3, QSameAs, Zenon
  <2> QED
    BY <1>3, <1>4, <1>6, <2>4, QSpinsFresh, Zenon
<1>10. QStale \/ QRegFresh
  <2>1. ~QSampling
    BY <1>1 DEF QSampling
  <2> QED
    BY <1>1, <2>1, Zenon DEF QTiming, QRead, QFresh
<1> QED
  BY <1>5, <1>8, <1>9, <1>10, Zenon DEF QInv, QTiming

\* It stores the high word.
LEMMA QSpinnerStoresHigh ==
  ASSUME QInv, QSpins, q_pc["spinner"] \in {"high", "then_high"},
         q_pc' = [q_pc EXCEPT !["spinner"] = IF q_pc["spinner"] = "high" THEN "then_low" ELSE "read"],
         low' = low, reg' = reg
  PROVE  QInv'
<1> DEFINE l == IF q_pc["spinner"] = "high" THEN "then_low" ELSE "read"
<1>1. /\ QTypeOK /\ QTiming /\ QWorking /\ q_pc["ticker"] = "read" /\ QTicks = 0
  BY QSpinner, Zenon DEF QSpins
<1>2. q_clock \in Int /\ reg \in Int /\ low \in Int /\ q_iter \in Nat /\ due \in 1..Period /\ Period \in Nat
  BY <1>1, QConstants, Zenon DEF QTypeOK
<1>4. l \in QSpinnerLabel /\ q_pc' = [q_pc EXCEPT !["spinner"] = l] /\ reg' \in Int /\ low' \in Int
  BY <1>2, Zenon DEF QSpinnerLabel
<1>5. /\ q_pc'["spinner"] = l /\ QTypeOK' /\ QWorking' /\ QMasked' /\ QSampled'
      /\ \/ QIdle' /\ due' = due - 1 /\ due > 1
         \/ due = 1 /\ QTicks' = 1 /\ due' > QUntilStored'
  <2> HIDE DEF l
  <2> QED
    BY <1>4, QSpun, Zenon
<1>6. \A a \in Int, v \in Int : QSame(v, q_clock - a) => QSame(v, q_clock' - (a + 1))
  BY <1>1, QCycle, Zenon DEF QSpins
<1>7. QRefresh' = QRefresh - 1 /\ QAge' = QAge + 1 /\ QAge \in Int
  BY <1>5, SMT DEF QRefresh, QAge
<1>8. QRegFresh => QRegFresh'
  <2>1. CASE q_pc["spinner"] = "high"
    <3>1. QRegAge = 1 /\ QRegAge' = 1 + 1
      BY <1>5, <2>1, SMT DEF QRegAge
    <3>2. 1 \in Int
      OBVIOUS
    <3> QED
      BY <1>2, <1>6, <2>1, <3>1, <3>2, Zenon DEF QRegFresh
  <2>2. CASE q_pc["spinner"] = "then_high"
    <3>1. q_pc'["spinner"] = "read"
      BY <1>5, <2>2
    <3> QED
      BY <3>1, Zenon DEF QRegFresh
  <2> QED
    BY <2>1, <2>2, Zenon
<1>9. QStale => QStale'
  <2> HIDE DEF l
  <2> QED
    BY <1>4, <1>7, QSpinsStale, Zenon
<1>10. ASSUME QFresh PROVE QFresh' \/ QSampling'
  <2>1. QRegFresh' /\ QSame(low', q_clock' - QAge')
    BY <1>2, <1>6, <1>7, <1>8, <1>10, Zenon DEF QFresh
  <2> HIDE DEF l
  <2> QED
    BY <1>4, <2>1, QSpinsFresh, Zenon
<1>11. ASSUME QRead PROVE QRead' \/ QStale'
  <2>1. q_pc["spinner"] = "high" /\ QRegFresh /\ (q_iter <= 2 \/ due > 2)
    BY <1>11 DEF QRead
  <2>2. q_iter' = q_iter /\ q_pc'["spinner"] = "then_low"
    BY <1>5, <2>1, Zenon DEF QSpins
  <2>3. CASE QIdle' /\ due' = due - 1 /\ due > 1
    <3>1. q_iter' <= 2 \/ due' > 1
      BY <1>2, <2>1, <2>2, <2>3
    <3> QED
      BY <1>8, <2>1, <2>2, <2>3, <3>1, Zenon DEF QRead
  <2>4. CASE due = 1 /\ QTicks' = 1 /\ due' > QUntilStored'
    <3>1. q_iter' + QTicks' <= 3
      BY <1>2, <2>1, <2>2, <2>4
    <3> QED
      BY <2>4, <3>1, Zenon DEF QStale
  <2> QED
    BY <1>5, <2>3, <2>4, Zenon
<1>12. QStale \/ QRead \/ QFresh
  <2>1. ~QSampling
    BY <1>1 DEF QSampling
  <2> QED
    BY <1>1, <2>1, Zenon DEF QTiming
<1> QED
  BY <1>5, <1>9, <1>10, <1>11, <1>12, Zenon DEF QInv, QTiming

\* Every step of spinner_fn.
LEMMA QSpinnerSteps ==
  ASSUME QInv, Q!spinner_fn
  PROVE  QInv'
<1>1. /\ QSpins
      /\ \/ /\ q_pc["spinner"] = "read"
            /\ \E l \in {"low", "high"} : q_pc' = [q_pc EXCEPT !["spinner"] = l]
            /\ reg' = q_clock /\ low' = low
         \/ /\ q_pc["spinner"] \in {"low", "then_low"} /\ low' = reg % QWord /\ reg' = reg
            /\ q_pc' = [q_pc EXCEPT !["spinner"] = IF q_pc["spinner"] = "low" THEN "then_high" ELSE "read"]
         \/ /\ q_pc["spinner"] \in {"high", "then_high"} /\ low' = low /\ reg' = reg
            /\ q_pc' = [q_pc EXCEPT !["spinner"] = IF q_pc["spinner"] = "high" THEN "then_low" ELSE "read"]
  BY Zenon DEF Q!spinner_fn, Q!Spinner, QSpins, QWord
<1> QED
  BY <1>1, QSpinnerReads, QSpinnerStores, QSpinnerStoresHigh, Zenon

-----------------------------------------------------------------------------
(* The irquser application: main, and the results.                         *)

\* What a step of main leaves alone.
QMains == /\ q_tcb["main"] = Q!Running /\ (\E n \in {1, Period} : Q!Advance(n, raised))
          /\ q_active' = q_active /\ masked' = masked
          /\ reg' = reg /\ low' = low /\ q_end' = q_end

\* Main's steps change nothing that the types and the mask depend on but the states.
LEMMA QMainKeeps ==
  ASSUME QTypeOK, QMasked, QMains,
         q_tcb' \in [{"main", "ticker", "spinner"} -> {Q!Running, Q!Inactive, QBlocked, QReceiving}],
         DOMAIN q_pc' = {"main", "ticker", "spinner"}, q_iter' \in Nat,
         ~QServes, ~QServes', q_tcb'["ticker"] # QBlocked
  PROVE  QTypeOK' /\ QMasked'
<1>1. PICK n \in {1, Period} : Q!Advance(n, raised)
  BY Zenon DEF QMains
<1>2. n \in Nat /\ n <= Period
  BY QConstants
<1>3. raised \in BOOLEAN
  BY Zenon DEF QTypeOK
<1>4. q_clock' \in Int /\ due' \in 1..Period /\ raised' \in BOOLEAN
  BY <1>1, <1>2, <1>3, QAdvances, Zenon
<1> QED
  BY <1>4, Zenon DEF QTypeOK, QMains, QMasked, QSignalled

\* It starts the ticker.
LEMMA QStartsTicker ==
  ASSUME QInv, QMains, Q!StartTicker
  PROVE  QInv'
<1>1. /\ QTypeOK /\ QMasked /\ (QApart \/ QStarting \/ QWorking \/ QReported)
      /\ q_pc["main"] = "start_ticker" /\ q_iter' = 0
      /\ q_pc' = [q_pc EXCEPT !["ticker"] = "wait", !["main"] = "start_spinner"]
      /\ q_tcb' = [q_tcb EXCEPT !["ticker"] = Q!Running]
  BY Zenon DEF QInv, Q!StartTicker, Q!Main, Q!Ticker, Q!SetState
<1>2. QApart
  BY <1>1, Zenon DEF QStarting, QWorking, QReported, QAt
<1>3. /\ DOMAIN q_pc = {"main", "ticker", "spinner"}
      /\ q_tcb \in [{"main", "ticker", "spinner"} -> {Q!Running, Q!Inactive, QBlocked, QReceiving}]
  BY <1>1, Zenon DEF QTypeOK
<1>4. /\ q_pc'["ticker"] = "wait" /\ q_pc'["main"] = "start_spinner"
      /\ DOMAIN q_pc' = {"main", "ticker", "spinner"}
  BY <1>1, <1>3, SMT
<1>5. /\ q_tcb' \in [{"main", "ticker", "spinner"} -> {Q!Running, Q!Inactive, QBlocked, QReceiving}]
      /\ q_tcb'["main"] = q_tcb["main"] /\ q_tcb'["ticker"] = Q!Running
      /\ q_tcb'["spinner"] = q_tcb["spinner"]
  BY <1>1, <1>3, Zenon
<1>6. QStarting'
  BY <1>1, <1>2, <1>4, <1>5, Zenon DEF QApart, QStarting, QAt
<1>7. ~QServes /\ ~QServes' /\ q_tcb'["ticker"] # QBlocked /\ q_iter' \in Nat
  BY <1>1, <1>2, <1>4, <1>5, QStates, Zenon DEF QApart, QServes, QAt
<1>8. QTypeOK' /\ QMasked'
  BY <1>1, <1>4, <1>5, <1>7, QMainKeeps, Zenon
<1>9. ~QWorking'
  BY <1>4, Zenon DEF QWorking, QAt
<1>10. ~(q_iter' > 3)
  BY <1>1
<1> QED
  BY <1>6, <1>8, <1>9, <1>10, Zenon DEF QInv, QTiming, QSampled

\* It starts the spinner.
LEMMA QStartsSpinner ==
  ASSUME QInv, QMains, Q!StartSpinner
  PROVE  QInv'
<1>1. /\ QTypeOK /\ QMasked /\ (QApart \/ QStarting \/ QWorking \/ QReported)
      /\ q_pc["main"] = "start_spinner" /\ q_iter' = q_iter
      /\ q_pc' = [q_pc EXCEPT !["spinner"] = "read", !["main"] = "wait_child"]
      /\ q_tcb' = [q_tcb EXCEPT !["spinner"] = Q!Running]
  BY Zenon DEF QInv, Q!StartSpinner, Q!Main, Q!Spinner, Q!SetState
<1>2. QStarting
  BY <1>1, Zenon DEF QApart, QWorking, QReported, QAt
<1>3. /\ DOMAIN q_pc = {"main", "ticker", "spinner"}
      /\ q_tcb \in [{"main", "ticker", "spinner"} -> {Q!Running, Q!Inactive, QBlocked, QReceiving}]
  BY <1>1, Zenon DEF QTypeOK
<1>4. /\ q_pc'["ticker"] = q_pc["ticker"] /\ q_pc'["main"] = "wait_child"
      /\ q_pc'["spinner"] = "read" /\ DOMAIN q_pc' = {"main", "ticker", "spinner"}
  BY <1>1, <1>3, SMT
<1>5. /\ q_tcb' \in [{"main", "ticker", "spinner"} -> {Q!Running, Q!Inactive, QBlocked, QReceiving}]
      /\ q_tcb'["main"] = q_tcb["main"] /\ q_tcb'["ticker"] = q_tcb["ticker"]
      /\ q_tcb'["spinner"] = Q!Running
  BY <1>1, <1>3, Zenon
<1>6. QStarting' /\ q_iter = 0
  <2>1. q_iter = 0 /\ q_pc["ticker"] = "wait" /\ q_tcb["ticker"] = Q!Running
    BY <1>2, Zenon DEF QStarting, QAt
  <2>2. QAt("ticker", "wait", Q!Running)' /\ QAt("main", "wait_child", Q!Running)'
    BY <1>4, <1>5, <2>1, Zenon DEF QAt, QMains
  <2>3. QAt("spinner", "read", Q!Running)'
    BY <1>4, <1>5, Zenon DEF QAt
  <2> QED
    BY <1>1, <2>1, <2>2, <2>3, Zenon DEF QStarting
<1>7. ~QServes /\ ~QServes' /\ q_tcb'["ticker"] # QBlocked /\ q_iter' \in Nat
  <2>1. q_pc["ticker"] = "wait" /\ q_tcb["ticker"] = Q!Running /\ q_iter' \in Nat
    BY <1>1, <1>2, Zenon DEF QStarting, QAt, QTypeOK
  <2> QED
    BY <1>4, <1>5, <2>1, QStates, Zenon DEF QServes
<1>8. QTypeOK' /\ QMasked'
  BY <1>1, <1>4, <1>5, <1>7, QMainKeeps, Zenon
<1>9. ~QWorking'
  BY <1>4, Zenon DEF QWorking, QAt
<1>10. ~(q_iter' > 3)
  BY <1>1, <1>6
<1> QED
  BY <1>6, <1>8, <1>9, <1>10, Zenon DEF QInv, QTiming, QSampled

\* It waits for the ticker's report, while at most two ticks are on their way.
LEMMA QWaitsForReport ==
  ASSUME QInv, QMains, Q!Step("main", "wait_child", "check"), Q!Recv("main", Q!DoneEp),
         q_iter' = q_iter
  PROVE  QInv'
<1>1. /\ QTypeOK /\ QMasked /\ (QApart \/ QStarting \/ QWorking \/ QReported)
      /\ q_pc["main"] = "wait_child"
      /\ q_pc' = [q_pc EXCEPT !["main"] = "check"]
  BY Zenon DEF QInv, Q!Step
<1>2. QStarting /\ QAt("spinner", "read", Q!Running)
  BY <1>1, Zenon DEF QApart, QStarting, QWorking, QReported, QAt
<1>3. /\ DOMAIN q_pc = {"main", "ticker", "spinner"}
      /\ q_tcb \in [{"main", "ticker", "spinner"} -> {Q!Running, Q!Inactive, QBlocked, QReceiving}]
  BY <1>1, Zenon DEF QTypeOK
<1>4. /\ q_pc'["ticker"] = q_pc["ticker"] /\ q_pc'["main"] = "check"
      /\ q_pc'["spinner"] = q_pc["spinner"] /\ DOMAIN q_pc' = {"main", "ticker", "spinner"}
  BY <1>1, <1>3, Zenon
<1>5. q_tcb' = [q_tcb EXCEPT !["main"] = QReceiving]
  <2>1. Q!Blocked(Q!SendingTo(Q!DoneEp)) = {t \in DOMAIN q_tcb : q_tcb[t] = Q!SendingTo(Q!DoneEp)}
    BY Zenon DEF Q!Blocked
  <2>2. \A t \in DOMAIN q_tcb : q_tcb[t] \in {Q!Running, Q!Inactive, QBlocked, QReceiving}
    BY <1>3, Zenon
  <2>3. \A t \in DOMAIN q_tcb : q_tcb[t] # Q!SendingTo(Q!DoneEp)
    BY <2>2, QStates, Zenon
  <2>4. \A t \in Q!Blocked(Q!SendingTo(Q!DoneEp)) : FALSE
    BY <2>1, <2>3, Zenon
  <2> QED
    BY <2>4, Zenon DEF Q!Recv, Q!SetState, QReceiving
<1>6. /\ q_tcb' \in [{"main", "ticker", "spinner"} -> {Q!Running, Q!Inactive, QBlocked, QReceiving}]
      /\ q_tcb'["main"] = QReceiving /\ q_tcb'["ticker"] = q_tcb["ticker"]
      /\ q_tcb'["spinner"] = q_tcb["spinner"]
  BY <1>3, <1>5, Zenon
<1>7. /\ q_tcb'["ticker"] = Q!Running /\ q_pc'["ticker"] = "wait" /\ q_iter = 0
      /\ q_tcb'["spinner"] = Q!Running /\ q_pc'["spinner"] = "read"
  BY <1>2, <1>4, <1>6, Zenon DEF QStarting, QAt
<1>8. QWorking'
  BY <1>4, <1>6, <1>7, Zenon DEF QWorking, QAt, QSpinnerLabel
<1>9. ~QServes /\ ~QServes' /\ q_tcb'["ticker"] # QBlocked /\ q_iter' \in Nat /\ ~QServing'
  BY <1>1, <1>2, <1>7, QStates, Zenon DEF QStarting, QServes, QServing, QAt, QTypeOK
<1>10. QTypeOK' /\ QMasked'
  BY <1>1, <1>4, <1>6, <1>9, QMainKeeps, Zenon
<1>11. QStale'
  <2>1. QCounted'
    BY <1>10, QCounts, PTL
  <2> DEFINE r == QNumber(raised)'
             s == QNumber(QSignalled)'
  <2>2. /\ r \in 0..1 /\ s \in 0..1 /\ QNumber(QServing)' = 0
        /\ QTicks' = r + (s + QNumber(QServing)')
    BY <1>9, <2>1, Zenon DEF QCounted
  <2>3. QTicks' = r + (s + 0)
    BY <2>2, Zenon
  <2> HIDE DEF r, s
  <2>4. q_iter' + QTicks' <= 2
    BY <1>7, <2>2, <2>3
  <2> QED
    BY <2>4, Zenon DEF QStale
<1>12. ~(q_iter' > 3)
  BY <1>7
<1> QED
  BY <1>8, <1>10, <1>11, <1>12, Zenon DEF QInv, QTiming, QSampled

\* It has the report and stops the children.
LEMMA QStops ==
  ASSUME QInv, QMains,
         \/ /\ Q!Step("main", "check", IF q_pc["ticker"] = "faulted" THEN "abort" ELSE "suspend_spinner")
            /\ q_tcb' = q_tcb
         \/ Q!StopChildren,
         q_iter' = q_iter
  PROVE  QInv'
<1>1. /\ QTypeOK /\ QMasked /\ (QApart \/ QStarting \/ QWorking \/ QReported)
      /\ q_tcb["main"] = Q!Running
  BY Zenon DEF QInv, QMains
<1>2. \/ /\ q_pc["main"] = "check" /\ q_tcb' = q_tcb
         /\ q_pc' = [q_pc EXCEPT !["main"] =
                       IF q_pc["ticker"] = "faulted" THEN "abort" ELSE "suspend_spinner"]
      \/ /\ q_pc["main"] = "suspend_spinner"
         /\ q_pc' = [q_pc EXCEPT !["spinner"] = "off", !["main"] = "suspend_ticker"]
         /\ q_tcb' = [q_tcb EXCEPT !["spinner"] = Q!Inactive]
      \/ /\ q_pc["main"] = "suspend_ticker"
         /\ q_pc' = [q_pc EXCEPT !["ticker"] = "off", !["main"] = "start_ticker"]
         /\ q_tcb' = [q_tcb EXCEPT !["ticker"] = Q!Inactive]
      \/ /\ q_pc["main"] = "suspend_spinner" /\ q_tcb' = q_tcb
         /\ q_pc' = [q_pc EXCEPT !["main"] = "finished"]
  BY Zenon DEF Q!StopChildren, Q!Step, Q!Main, Q!Ticker, Q!Spinner, Q!SetState
<1>3. QReported
  BY <1>1, <1>2, QStates, Zenon DEF QApart, QStarting, QWorking, QAt
<1>4. /\ DOMAIN q_pc = {"main", "ticker", "spinner"}
      /\ q_tcb \in [{"main", "ticker", "spinner"} -> {Q!Running, Q!Inactive, QBlocked, QReceiving}]
      /\ q_iter \in Nat
  BY <1>1, Zenon DEF QTypeOK
<1>5. q_pc["ticker"] = "return" /\ q_tcb["ticker"] = Q!Running
  BY <1>3, Zenon DEF QReported, QAt
<1>6. /\ DOMAIN q_pc' = {"main", "ticker", "spinner"}
      /\ q_tcb' \in [{"main", "ticker", "spinner"} -> {Q!Running, Q!Inactive, QBlocked, QReceiving}]
      /\ q_tcb'["main"] = Q!Running
  <2>1. DOMAIN q_pc' = DOMAIN q_pc
    BY <1>2, SMT
  <2>2. \/ q_tcb' = q_tcb
        \/ q_tcb' = [q_tcb EXCEPT !["spinner"] = Q!Inactive]
        \/ q_tcb' = [q_tcb EXCEPT !["ticker"] = Q!Inactive]
    BY <1>2, Zenon
  <2> QED
    BY <1>1, <1>4, <2>1, <2>2, Zenon
<1>7. \/ /\ q_pc'["main"] = "suspend_spinner" /\ q_pc'["ticker"] = "return"
         /\ q_tcb' = q_tcb
      \/ /\ q_pc'["main"] = "suspend_ticker" /\ q_pc'["ticker"] = "return"
         /\ q_tcb'["spinner"] = Q!Inactive /\ q_tcb'["ticker"] = q_tcb["ticker"]
      \/ /\ q_pc["main"] = "suspend_ticker" /\ q_pc'["main"] = "start_ticker"
         /\ q_pc'["ticker"] = "off" /\ q_tcb'["ticker"] = Q!Inactive
         /\ q_tcb'["spinner"] = q_tcb["spinner"]
      \/ /\ q_pc'["main"] = "finished" /\ q_pc'["ticker"] = "return"
         /\ q_tcb' = q_tcb
  <2>1. CASE /\ q_pc["main"] = "check" /\ q_tcb' = q_tcb
             /\ q_pc' = [q_pc EXCEPT !["main"] =
                           IF q_pc["ticker"] = "faulted" THEN "abort" ELSE "suspend_spinner"]
    <3>1. q_pc' = [q_pc EXCEPT !["main"] = "suspend_spinner"]
      BY <1>5, <2>1
    <3> QED
      BY <1>4, <1>5, <2>1, <3>1, Zenon
  <2>2. CASE /\ q_pc["main"] = "suspend_spinner"
             /\ q_pc' = [q_pc EXCEPT !["spinner"] = "off", !["main"] = "suspend_ticker"]
             /\ q_tcb' = [q_tcb EXCEPT !["spinner"] = Q!Inactive]
    <3>1. q_pc'["main"] = "suspend_ticker" /\ q_pc'["ticker"] = q_pc["ticker"]
      BY <1>4, <2>2, SMT
    <3> QED
      BY <1>4, <1>5, <2>2, <3>1, Zenon
  <2>3. CASE /\ q_pc["main"] = "suspend_ticker"
             /\ q_pc' = [q_pc EXCEPT !["ticker"] = "off", !["main"] = "start_ticker"]
             /\ q_tcb' = [q_tcb EXCEPT !["ticker"] = Q!Inactive]
    <3>1. q_pc'["main"] = "start_ticker" /\ q_pc'["ticker"] = "off"
      BY <1>4, <2>3, SMT
    <3> QED
      BY <1>4, <2>3, <3>1, Zenon
  <2>4. CASE /\ q_pc["main"] = "suspend_spinner" /\ q_tcb' = q_tcb
             /\ q_pc' = [q_pc EXCEPT !["main"] = "finished"]
    BY <1>4, <1>5, <2>4, Zenon
  <2> QED
    BY <1>2, <2>1, <2>2, <2>3, <2>4, Zenon
<1>8. /\ QReported' \/ QApart'
      /\ q_pc'["ticker"] \in {"return", "off"} /\ q_tcb'["ticker"] \in {Q!Running, Q!Inactive}
      /\ ~QWorking'
  <2>1. ~QWorking'
    BY <1>6, QStates, Zenon DEF QWorking, QAt
  <2> QED
    BY <1>3, <1>5, <1>6, <1>7, <2>1, QStates, Zenon DEF QReported, QApart, QAt
<1>9. ~QServes /\ ~QServes' /\ q_tcb'["ticker"] # QBlocked /\ q_iter' \in Nat
  BY <1>4, <1>5, <1>8, QStates, Zenon DEF QServes
<1>10. QTypeOK' /\ QMasked'
  BY <1>1, <1>6, <1>9, QMainKeeps, Zenon
<1> QED
  BY <1>8, <1>10, Zenon DEF QInv, QTiming, QSampled

\* Every step of main.
LEMMA QMainSteps ==
  ASSUME QInv, Q!MainStep
  PROVE  QInv'
<1>1. /\ Q!Executes("main")
      /\ Q!StartTicker \/ Q!StartSpinner \/ Q!WaitChild \/ Q!StopChildren
      /\ \E n \in {1, Period} : Q!Advance(n, raised)
      /\ masked' = masked /\ reg' = reg /\ low' = low /\ q_end' = q_end
  BY Zenon DEF Q!MainStep, Q!Main
<1>2. q_active' = q_active
  BY <1>1, Zenon DEF Q!StartTicker, Q!StartSpinner, Q!WaitChild, Q!StopChildren, Q!Recv
<1>3. QMains
  BY <1>1, <1>2, QOrder, Zenon DEF QMains, QInv
<1>4. ASSUME Q!WaitChild PROVE QInv'
  <2>1. /\ \/ Q!Step("main", "wait_child", "check") /\ Q!Recv("main", Q!DoneEp)
           \/ /\ Q!Step("main", "check", IF q_pc["ticker"] = "faulted" THEN "abort" ELSE "suspend_spinner")
              /\ q_tcb' = q_tcb
        /\ q_iter' = q_iter
    BY <1>4, Zenon DEF Q!WaitChild, Q!Main, Q!Ticker
  <2> QED
    BY <1>3, <2>1, QWaitsForReport, QStops, Zenon
<1>5. ASSUME Q!StopChildren PROVE QInv'
  <2>1. q_iter' = q_iter
    BY <1>5, Zenon DEF Q!StopChildren
  <2> QED
    BY <1>3, <1>5, <2>1, QStops, Zenon
<1> QED
  BY <1>1, <1>3, <1>4, <1>5, QStartsTicker, QStartsSpinner, Zenon

\* The other applications leave all this alone.
LEMMA QStutters ==
  ASSUME QInv, UNCHANGED irqvars
  PROVE  QInv'
<1>1. /\ q_tcb' = q_tcb /\ q_pc' = q_pc /\ q_active' = q_active /\ q_clock' = q_clock
      /\ due' = due /\ raised' = raised /\ masked' = masked /\ q_iter' = q_iter
      /\ reg' = reg /\ low' = low /\ q_end' = q_end /\ q_sample' = q_sample
  BY Zenon DEF irqvars
<1>2. QTypeOK' /\ QMasked' /\ QSampled' /\ (QApart \/ QStarting \/ QWorking \/ QReported)'
  BY <1>1, Zenon DEF QInv, QTypeOK, QMasked, QSampled, QApart, QStarting, QWorking,
     QReported, QAt, QSignalled, QServes
<1>3. QTiming'
  <2>1. /\ QTicks' = QTicks /\ QUntilStored' = QUntilStored /\ QAge' = QAge
        /\ QRegAge' = QRegAge
    BY <1>1, Zenon DEF QTicks, QDelivered, QNumber, QSignalled, QServing, QUntilStored,
       QDelay, QWork, QSteps, QRefresh, QAge, QRegAge
  <2>2. QStale' = QStale /\ QFresh' = QFresh /\ QRead' = QRead /\ QSampling' = QSampling
    BY <1>1, <2>1, Zenon DEF QStale, QFresh, QRead, QSampling, QIdle, QRegFresh, QAt
  <2>3. QWorking' = QWorking
    BY <1>1, Zenon DEF QWorking, QAt
  <2> QED
    BY <1>1, <2>2, <2>3, Zenon DEF QInv, QTiming
<1> QED
  BY <1>2, <1>3, Zenon DEF QInv

\* Irquser: the inductive invariant, for every period of the timer that leaves the ticker and
\* the spinner time for their loops, every latency and every width of the counter.
THEOREM IrqUserInvariance == MCSpec => []QInv
<1>1. MCInit => QInv
  <2> SUFFICES ASSUME MCInit PROVE QInv
    OBVIOUS
  <2>1. /\ q_tcb = [t \in Q!Thread |-> IF t = "main" THEN Q!Running ELSE Q!Inactive]
        /\ q_pc = [t \in Q!Thread |-> IF t = "main" THEN "start_ticker" ELSE "off"]
        /\ q_active = [n \in {"timer_signal"} |-> FALSE]
        /\ q_clock \in 0..2^CcntBits - 1 /\ due = Period /\ raised = FALSE /\ masked = FALSE
        /\ q_iter = 0 /\ reg = 0 /\ low = 0 /\ q_end = 0
    BY Zenon DEF MCInit, Q!Init, Q!Main, Q!TimerSignal
  <2>2. Q!Thread = {"main", "ticker", "spinner"}
    BY Zenon DEF Q!Thread, Q!Child, Q!Main, Q!Ticker, Q!Spinner
  <2>3. q_clock \in Int /\ due \in 1..Period /\ q_iter \in Nat /\ 0 \in Int /\ ~(q_iter > 3)
    <3> DEFINE c == 2^CcntBits
    <3>1. c \in Nat
      BY QConstants, Zenon
    <3>2. q_clock \in 0..c - 1
      BY <2>1, Zenon
    <3> HIDE DEF c
    <3>3. q_clock \in Int
      BY <3>1, <3>2
    <3>4. due \in 1..Period /\ q_iter \in Nat /\ 0 \in Int /\ ~(q_iter > 3)
      BY <2>1, QConstants
    <3> QED
      BY <3>3, <3>4, Zenon
  <2>4. QTypeOK
    BY <2>1, <2>2, <2>3, Zenon DEF QTypeOK
  <2>5. QApart
    BY <2>1, <2>2 DEF QApart, QAt
  <2>6. QMasked
    BY <2>1, <2>5, QStates, Zenon DEF QMasked, QSignalled, QServes, QApart, QAt
  <2>7. QTiming /\ QSampled
    BY <2>3, <2>5, QStates, Zenon DEF QTiming, QSampled, QWorking, QApart, QAt
  <2> QED
    BY <2>4, <2>5, <2>6, <2>7, Zenon DEF QInv
<1>2. QInv /\ [MCNext]_allvars => QInv'
  <2> SUFFICES ASSUME QInv, [MCNext]_allvars PROVE QInv'
    OBVIOUS
  <2>1. Q!Next \/ UNCHANGED irqvars
    BY Zenon DEF MCNext, allvars
  <2>2. UNCHANGED Q!vars => UNCHANGED irqvars
    BY Zenon DEF Q!vars, irqvars
  <2>3. ASSUME Q!Interrupt PROVE QInv'
    BY <2>3, QWakes, QPends, Zenon
  <2> QED
    BY <2>1, <2>2, <2>3, QMainSteps, QTickerSteps, QSpinnerSteps, QStutters, Zenon
       DEF Q!Next, Q!Finished
<1> QED
  BY <1>1, <1>2, PTL DEF MCSpec

\* Irquser: a sample that counts is the interrupt latency plus the age of the spinner's last
\* write, wherever its two-part store is interrupted and the counter wraps.
THEOREM LatencyExact == MCSpec => []LatencyIsExact
<1>1. QInv => LatencyIsExact
  <2> SUFFICES ASSUME QInv, q_pc["ticker"] \in {"wait", "send"}, q_iter > IrqIgnored
               PROVE  q_sample \in Latency + 1..Latency + 2 * Q!SpinnerPass
    BY Zenon DEF LatencyIsExact, Q!LatencyIsExact, Q!Ticker
  <2>1. q_iter \in Nat
    BY Zenon DEF QInv, QTypeOK
  <2>2. q_iter > 3
    BY <2>1, QConstants
  <2> QED
    BY <2>2, Zenon DEF QInv, QSampled
<1> QED
  BY <1>1, IrqUserInvariance, PTL

-----------------------------------------------------------------------------
(* The page mapping application: the inductive invariant.                  *)

\* The two threads, their states and where they can be.
PmThread == {"main", "proc"}

\* The child is blocked in the send of a result.
PmSending == P!SendingTo(P!Ep)

\* A thread is blocked in a receive on the endpoint.
PmReceiving == P!RecvingOn(P!Ep)

\* The states of the two threads.
PmState == {P!Running, P!Inactive, PmSending, PmReceiving}

\* Where main can be.
PmMainLabel == {"copy", "spawn", "get", "got", "revoke", "suspend", "finished"}

\* Where the child can be.
PmProcLabel == {"start", "phase", "send", "wait", "off_call_stack"}

\* The number of pages of the current test.
PmPages == NPages[test]

\* The objects a test makes: its tables, then its pages.
PmTables == levels - 2 + P!PageTables(PmPages)

\* What was chosen at the start: the depth of the page tables of the architecture.
PmLevels == levels \in {2, 3, 4} /\ topMapped \in BOOLEAN /\ (levels < 4 => topMapped)

\* The types of the variables that the other conjuncts speak of.
PmTypeOK ==
  /\ p_tcb \in [PmThread -> PmState]
  /\ p_pc \in [PmThread -> PmMainLabel \cup PmProcLabel]
  /\ PmLevels
  /\ DOMAIN cspace = 1..CSpaceSize
  /\ test \in P!Test /\ p_run \in 1..PageRuns + 1 /\ k \in 1..5 /\ p_phase \in 1..5
  /\ p_results \in [P!Test -> [1..5 -> [1..PageRuns -> Int]]]

\* A thread is at this place in this state.
PmAt(t, l, s) == p_pc[t] = l /\ p_tcb[t] = s

\* Between two tests.
PmApart ==
  /\ p_pc["main"] \in {"copy", "spawn", "finished"} /\ p_tcb["main"] = P!Running
  /\ p_tcb["proc"] = P!Inactive
  /\ p_pc["main"] = "finished" <=> p_run = PageRuns + 1
  /\ p_pc["main"] = "spawn" => k = 1

\* Main has taken m results of this test.
PmTaken(m) ==
  \/ PmAt("main", "get", P!Running) /\ m = k - 1
  \/ PmAt("main", "got", PmReceiving) /\ m = k - 1
  \/ PmAt("main", "got", P!Running) /\ m = k /\ p_mr = P!Work(PmPages, k)
  \/ (PmAt("main", "revoke", P!Running) \/ PmAt("main", "suspend", P!Running)) /\ m = 5 /\ k = 5

\* The child has handed over m results.
PmGiven(m) ==
  \/ PmAt("proc", "start", P!Running) /\ m = 0
  \/ PmAt("proc", "phase", P!Running) /\ m = p_phase - 1
  \/ PmAt("proc", "send", P!Running) /\ m = p_phase - 1 /\ cost = P!Work(PmPages, p_phase)
  \/ PmAt("proc", "phase", PmSending) /\ m = p_phase - 2 /\ cost = P!Work(PmPages, p_phase - 1)
  \/ PmAt("proc", "wait", PmSending) /\ m = 4 /\ p_phase = 5 /\ cost = P!Work(PmPages, 5)
  \/ PmAt("proc", "wait", P!Running) /\ m = 5 /\ p_phase = 5
  \/ PmAt("proc", "off_call_stack", PmReceiving) /\ m = 5 /\ p_phase = 5

\* During a test main has taken as many results as the child has handed over.
PmTesting == p_run <= PageRuns /\ \E m \in 0..5 : PmTaken(m) /\ PmGiven(m)

\* Nothing of the test before is left.
PmFresh ==
  /\ \A s \in 2..CSpaceSize : cspace[s] = "empty"
  /\ next_free = 2 /\ used = 0 /\ tables = P!TopTables

\* Before the child starts, the endpoint is its only capability besides.
PmHanded ==
  /\ \A s \in 3..CSpaceSize : cspace[s] = "empty"
  /\ next_free = 3 /\ used = 0 /\ tables = P!TopTables

\* Objects of the current phase that are done.
PmDone == IF p_pc["proc"] = "phase" THEN p_i ELSE P!PhaseLength

\* Tables that are installed.
PmInstalled == IF p_phase = 1 THEN PmDone ELSE PmTables

\* Pages that are made.
PmMade == CASE p_phase = 1 -> 0 [] p_phase = 2 -> PmDone [] OTHER -> PmPages

\* While the child works, its slots, what it used of the untyped and the installed tables
\* are those of the objects done so far.
PmBuilt ==
  /\ next_free = 3
  /\ IF p_pc["proc"] = "phase" THEN p_i \in 0..P!PhaseLength - 1 ELSE p_i = 0
  /\ used = PmInstalled + PmMade /\ free_slot = 3 + used
  /\ \A s \in free_slot..CSpaceSize : cspace[s] = "empty"
  /\ tables = P!TopTables \cup {P!TableList[j] : j \in 1..PmInstalled}
  /\ p_phase > 1 =>
       /\ page_ptr_start = 3 + PmTables
       /\ \A s \in page_ptr_start..free_slot - 1 : cspace[s] = "page"

\* The state of the cspace, the untyped and the tables at each place of the two.
PmMemory ==
  /\ p_pc["main"] \in {"copy", "suspend", "finished"} => PmFresh
  /\ p_pc["main"] = "spawn" => PmHanded
  /\ p_pc["main"] \in {"get", "got", "revoke"} =>
       IF p_pc["proc"] = "start" THEN PmHanded ELSE PmBuilt

\* The results of the current test that are recorded are those before this one.
PmNextPhase ==
  CASE p_pc["main"] \in {"get", "got"} -> k
    [] p_pc["main"] \in {"revoke", "suspend"} -> 6
    [] OTHER -> 1

\* Every result recorded so far is the work of its test and phase.
PmRecorded ==
  \A j \in P!Test, q \in 1..5, x \in 1..PageRuns :
    (x < p_run \/ (x = p_run /\ (j < test \/ (j = test /\ q < PmNextPhase)))) =>
      p_results[j][q][x] = P!Work(NPages[j], q)

\* The inductive invariant.
PmInv == PmTypeOK /\ ~p_failed /\ (PmApart \/ PmTesting) /\ PmMemory /\ PmRecorded

-----------------------------------------------------------------------------

\* What PageMappingAssumption says of the constants.
LEMMA PmConstants ==
  /\ PageRuns \in Nat /\ PageRuns > 0
  /\ PagePerTable \in Nat /\ PagePerTable > 0
  /\ UntypedSize \in Nat /\ CSpaceSize \in Nat /\ CSpaceSize >= UntypedSize + 2
  /\ Len(NPages) \in Nat /\ Len(NPages) > 0 /\ P!Test = 1..Len(NPages)
  /\ \A j \in P!Test : /\ NPages[j] \in Nat /\ NPages[j] > 0
                       /\ UntypedSize >= NPages[j] + NPages[j] \div PagePerTable + 3
<1>1. /\ PageRuns \in Nat \ {0} /\ PagePerTable \in Nat \ {0}
      /\ NPages \in Seq(Nat \ {0}) /\ NPages # <<>>
      /\ UntypedSize \in Nat
      /\ \A j \in P!Test : UntypedSize >= NPages[j] + NPages[j] \div PagePerTable + 3
      /\ CSpaceSize \in Nat /\ CSpaceSize >= UntypedSize + 2
      /\ P!Test = 1..Len(NPages)
  BY PageMappingPartAssumption, Zenon DEF P!PageMappingAssumption, P!Test
<1>2. Len(NPages) \in Nat /\ Len(NPages) > 0
  BY <1>1
<1>3. \A j \in 1..Len(NPages) : NPages[j] \in Nat /\ NPages[j] > 0
  BY <1>1
<1> QED
  BY <1>1, <1>2, <1>3

\* What is needed of the division by PAGE_PER_TABLE.
LEMMA PmDivision ==
  ASSUME NEW n \in Nat, n > 0
  PROVE  /\ P!PageTables(n) \in Nat /\ P!PageTables(n) > 0
         /\ P!PageTables(n) <= n \div PagePerTable + 1
         /\ n \div PagePerTable \in Nat
         /\ \A x \in 0..n - 1 : x \div PagePerTable \in 0..P!PageTables(n) - 1
<1> DEFINE d == PagePerTable
<1>1. d \in Nat /\ d > 0
  BY PmConstants
<1>2. \A x \in Nat : /\ x \div d \in Nat /\ x % d \in 0..d - 1
                     /\ x = (x \div d) * d + (x % d)
  BY <1>1
<1> HIDE DEF d
<1>3. \A x \in Nat, y \in Nat : x * d < y * d => x < y
  BY <1>1
<1>4. P!PageTables(n) = (n + d - 1) \div d
  BY Zenon DEF P!PageTables, d
<1> DEFINE m == n + d - 1
           a == m \div d
           b == n \div d
<1>5. m \in Nat /\ m >= d
  BY <1>1
<1>6. a \in Nat /\ a * d <= m /\ m < (a + 1) * d
  <2>1. a \in Nat /\ m % d \in 0..d - 1 /\ m = a * d + (m % d)
    BY <1>2, <1>5
  <2>2. (a + 1) * d = a * d + d
    BY <1>1, <2>1
  <2> QED
    BY <1>1, <1>5, <2>1, <2>2
<1>7. b \in Nat /\ b * d <= n /\ n < (b + 1) * d
  <2>1. b \in Nat /\ n % d \in 0..d - 1 /\ n = b * d + (n % d)
    BY <1>2
  <2>2. (b + 1) * d = b * d + d
    BY <1>1, <2>1
  <2> QED
    BY <1>1, <2>1, <2>2
<1> HIDE DEF a, b
<1>8. a > 0
  <2>1. 1 * d < (a + 1) * d
    BY <1>1, <1>5, <1>6
  <2>2. 1 < a + 1
    BY <1>3, <1>6, <2>1
  <2> QED
    BY <1>6, <2>2
<1>9. a <= b + 1
  <2>1. (b + 2) * d = (b + 1) * d + d
    BY <1>1, <1>7
  <2>2. a * d < (b + 2) * d
    <3>1. (b + 1) * d \in Nat /\ a * d \in Nat
      BY <1>1, <1>6, <1>7
    <3> QED
      BY <1>1, <1>6, <1>7, <2>1, <3>1 DEF m
  <2>3. a < b + 2
    BY <1>3, <1>6, <1>7, <2>2
  <2> QED
    BY <1>6, <1>7, <2>3
<1>10. ASSUME NEW x \in 0..n - 1
       PROVE  x \div d \in 0..a - 1
  <2> DEFINE c == x \div d
  <2>1. c \in Nat /\ x % d \in 0..d - 1 /\ x = c * d + (x % d)
    BY <1>2
  <2> HIDE DEF c
  <2>2. (c + 1) * d = c * d + d
    BY <1>1, <2>1
  <2>3. (c + 1) * d < (a + 1) * d
    <3>1. c * d \in Nat /\ (a + 1) * d \in Nat
      BY <1>1, <1>6, <2>1
    <3> QED
      BY <1>1, <1>6, <2>1, <2>2, <3>1 DEF m
  <2>4. c + 1 < a + 1
    BY <1>3, <1>6, <2>1, <2>3
  <2> QED
    BY <1>6, <2>1, <2>4 DEF c
<1>11. P!PageTables(n) = a
  BY <1>4, Zenon DEF a, m
<1> QED
  BY <1>6, <1>7, <1>8, <1>9, <1>10, <1>11, Zenon DEF b, d

\* The pages of the current test, and the numbers of its tables.
LEMMA PmSizes ==
  ASSUME PmTypeOK
  PROVE  /\ PmPages \in Nat /\ PmPages > 0 /\ P!npage = PmPages
         /\ P!PageTables(PmPages) \in Nat /\ P!PageTables(PmPages) > 0
         /\ PmTables \in Nat /\ PmTables > 0
         /\ PmTables + PmPages <= UntypedSize
         /\ \A x \in 0..PmPages - 1 : x \div PagePerTable \in 0..P!PageTables(PmPages) - 1
<1>1. /\ PmPages \in Nat /\ PmPages > 0 /\ P!npage = PmPages
      /\ UntypedSize >= PmPages + PmPages \div PagePerTable + 3 /\ levels \in {2, 3, 4}
  BY PmConstants, Zenon DEF PmTypeOK, PmLevels, PmPages, P!npage
<1>2. /\ P!PageTables(PmPages) \in Nat /\ P!PageTables(PmPages) > 0
      /\ P!PageTables(PmPages) <= PmPages \div PagePerTable + 1
      /\ PmPages \div PagePerTable \in Nat
      /\ \A x \in 0..PmPages - 1 : x \div PagePerTable \in 0..P!PageTables(PmPages) - 1
  BY <1>1, PmDivision, Zenon
<1>3. /\ PmTables \in Nat /\ PmTables > 0
      /\ PmTables + PmPages <= UntypedSize
  BY <1>1, <1>2, PmConstants DEF PmTables
<1> QED
  BY <1>1, <1>2, <1>3, Zenon

\* What prepare_page_table goes through: the upper tables that are needed, then one
\* table for every PAGE_PER_TABLE pages.
LEMMA PmTableList ==
  ASSUME PmTypeOK
  PROVE  /\ Len(P!TableList) = PmTables
         /\ levels = 4 => P!TableList[1] = P!L2 /\ P!TableList[2] = P!L1
         /\ levels = 3 => P!TableList[1] = P!L1
         /\ \A x \in 0..P!PageTables(PmPages) - 1 : P!TableList[levels - 1 + x] = P!Table(x)
<1> DEFINE n == P!PageTables(PmPages)
           pts == [x \in 1..n |-> P!Table(x - 1)]
<1>1. n \in Nat /\ n > 0 /\ P!npage = PmPages /\ levels \in {2, 3, 4}
  BY PmSizes, Zenon DEF PmTypeOK, PmLevels
<1> HIDE DEF n
<1>2. /\ pts \in Seq({P!Table(x) : x \in Int}) /\ Len(pts) = n
      /\ \A x \in 0..n - 1 : pts[x + 1] = P!Table(x)
  BY <1>1
<1>3. P!TableList = (IF levels = 4 THEN <<P!L2>> ELSE <<>>)
                      \o (IF levels >= 3 THEN <<P!L1>> ELSE <<>>) \o pts
  BY <1>1 DEF P!TableList, n
<1> HIDE DEF pts
<1>4. CASE levels = 4
  <2>1. P!TableList = (<<P!L2>> \o <<P!L1>>) \o pts
    BY <1>3, <1>4
  <2> QED
    BY <1>1, <1>2, <1>4, <2>1 DEF PmTables, n
<1>5. CASE levels = 3
  <2>1. P!TableList = (<<>> \o <<P!L1>>) \o pts
    BY <1>3, <1>5
  <2> QED
    BY <1>1, <1>2, <1>5, <2>1 DEF PmTables, n
<1>6. CASE levels = 2
  <2>1. P!TableList = (<<>> \o <<>>) \o pts
    BY <1>3, <1>6
  <2> QED
    BY <1>1, <1>2, <1>6, <2>1 DEF PmTables, n
<1> QED
  BY <1>1, <1>4, <1>5, <1>6

\* The states of a thread are distinct.
LEMMA PmDistinct ==
  /\ P!L1 # P!L2
  /\ \A x : P!Table(x) # P!L1 /\ P!Table(x) # P!L2
  /\ \A x, y : P!Table(x) = P!Table(y) => x = y
BY DEF P!L1, P!L2, P!Table

\* With the first tables of the list installed, the next one can be.
LEMMA PmCanMap ==
  ASSUME PmTypeOK, NEW d \in 0..PmTables - 1,
         tables = P!TopTables \cup {P!TableList[j] : j \in 1..d}
  PROVE  P!CanMapTable(P!TableList[d + 1])
<1> DEFINE n == P!PageTables(PmPages)
<1>1. /\ n \in Nat /\ levels \in {2, 3, 4} /\ PmTables = levels - 2 + n
      /\ levels < 4 => topMapped
  BY PmSizes, Zenon DEF PmTypeOK, PmLevels, PmTables
<1>2. /\ levels = 4 => P!TableList[1] = P!L2 /\ P!TableList[2] = P!L1
      /\ levels = 3 => P!TableList[1] = P!L1
      /\ \A x \in 0..n - 1 : P!TableList[levels - 1 + x] = P!Table(x)
  BY PmTableList, Zenon
<1> HIDE DEF n
<1>3. P!TopTables \subseteq {P!L2} /\ (levels = 3 => P!L2 \in tables)
  BY <1>1 DEF P!TopTables
<1>4. CASE d + 1 > levels - 2
  <2> DEFINE x == d + 1 - (levels - 1)
  <2>1. x \in 0..n - 1 /\ d + 1 = levels - 1 + x
    BY <1>1, <1>4
  <2> HIDE DEF x
  <2>2. P!TableList[d + 1] = P!Table(x)
    BY <1>2, <2>1
  <2>3. ASSUME NEW j \in 1..d
        PROVE  P!TableList[j] # P!Table(x)
    <3>1. CASE j > levels - 2
      <4> DEFINE y == j - (levels - 1)
      <4>1. y \in 0..n - 1 /\ j = levels - 1 + y /\ y # x
        BY <1>1, <2>1, <3>1
      <4> HIDE DEF y
      <4> QED
        BY <1>2, <4>1, PmDistinct
    <3>2. CASE ~(j > levels - 2)
      <4>1. (levels = 4 /\ (j = 1 \/ j = 2)) \/ (levels = 3 /\ j = 1)
        BY <1>1, <3>2
      <4> QED
        BY <1>2, <4>1, PmDistinct
    <3> QED
      BY <3>1, <3>2
  <2>4. P!Table(x) \notin tables
    BY <1>3, <2>3, PmDistinct, Zenon
  <2>5. P!Parent(P!Table(x)) = IF levels = 2 THEN {} ELSE {P!L1}
    BY PmDistinct, Zenon DEF P!Parent
  <2>6. levels # 2 => P!L1 \in tables
    <3>1. CASE levels = 4
      BY <1>2, <1>4, <3>1
    <3>2. CASE levels = 3
      BY <1>2, <1>4, <3>2
    <3> QED
      BY <1>1, <3>1, <3>2
  <2> QED
    BY <2>2, <2>4, <2>5, <2>6, Zenon DEF P!CanMapTable
<1>5. CASE levels = 4 /\ d = 0
  BY <1>2, <1>5 DEF P!CanMapTable
<1>6. CASE (levels = 4 /\ d = 1) \/ (levels = 3 /\ d = 0)
  <2>1. P!TableList[d + 1] = P!L1
    BY <1>2, <1>6
  <2>2. P!L2 \in tables
    BY <1>2, <1>3, <1>6
  <2>3. P!L1 \notin tables
    BY <1>2, <1>3, <1>6, PmDistinct
  <2>4. P!Parent(P!L1) = {P!L2}
    BY PmDistinct, Zenon DEF P!Parent
  <2> QED
    BY <2>1, <2>2, <2>3, <2>4, Zenon DEF P!CanMapTable
<1> QED
  BY <1>1, <1>4, <1>5, <1>6

-----------------------------------------------------------------------------
(* The page mapping application: one lemma for every step.                 *)

\* The states of the two threads are different.
LEMMA PmStates ==
  /\ P!Running # P!Inactive /\ P!Running # PmSending /\ P!Running # PmReceiving
  /\ P!Inactive # PmSending /\ P!Inactive # PmReceiving /\ PmSending # PmReceiving
  /\ P!Main = "main" /\ P!Proc = "proc" /\ PmThread = {"main", "proc"}
BY DEF P!Running, P!Inactive, PmSending, PmReceiving, P!SendingTo, P!RecvingOn, P!Main, P!Proc,
       PmThread

\* Within a test the sizes stay.
LEMMA PmSame ==
  ASSUME levels' = levels, topMapped' = topMapped, test' = test
  PROVE  /\ PmPages' = PmPages /\ PmTables' = PmTables
         /\ P!TableList' = P!TableList /\ P!TopTables' = P!TopTables /\ P!npage' = P!npage
         /\ \A n, p : P!Work(n, p)' = P!Work(n, p)
         /\ PmLevels => PmLevels'
<1>1. PmPages' = PmPages /\ P!npage' = P!npage
  BY Zenon DEF PmPages, P!npage
<1>2. PmTables' = PmTables
  BY <1>1, Zenon DEF PmTables, P!PageTables
<1>3. P!TableList' = P!TableList
  BY <1>1, Zenon DEF P!TableList, P!PageTables
<1>4. P!TopTables' = P!TopTables
  BY Zenon DEF P!TopTables
<1>5. \A n, p : P!Work(n, p)' = P!Work(n, p)
  BY Zenon DEF P!Work
<1>6. PmLevels => PmLevels'
  BY DEF PmLevels
<1> QED
  BY <1>1, <1>2, <1>3, <1>4, <1>5, <1>6, Zenon

\* The length of a phase is the work of its label.
LEMMA PmLength ==
  ASSUME PmTypeOK
  PROVE  /\ P!PhaseLength = P!Work(PmPages, p_phase)
         /\ P!PhaseLength = IF p_phase = 1 THEN PmTables ELSE PmPages
         /\ P!PhaseLength \in Nat /\ P!PhaseLength > 0
<1>1. Len(P!TableList) = PmTables /\ P!npage = PmPages
  BY PmTableList, PmSizes, Zenon
<1>2. P!PhaseLength = IF p_phase = 1 THEN PmTables ELSE PmPages
  BY <1>1, Zenon DEF P!PhaseLength
<1>3. P!PhaseLength = P!Work(PmPages, p_phase)
  BY <1>2, Zenon DEF P!Work, PmTables
<1> QED
  BY <1>2, <1>3, PmSizes, Zenon

\* A step that records nothing keeps the records.
LEMMA PmKeepsRecords ==
  ASSUME PmTypeOK, PmRecorded, levels' = levels, test' = test, p_run' = p_run,
         p_results' = p_results, PmNextPhase' = PmNextPhase
  PROVE  PmRecorded'
<1>1. \A n, p : P!Work(n, p)' = P!Work(n, p)
  BY Zenon DEF P!Work
<1> QED
  BY <1>1, Zenon DEF PmRecorded

\* main copies the untyped to the child.
LEMMA PmCopies ==
  ASSUME PmInv, P!CopyUntyped, UNCHANGED <<levels, topMapped>>
  PROVE  PmInv'
<1> USE PmStates
<1>1. /\ p_pc["main"] = "copy" /\ p_pc' = [p_pc EXCEPT !["main"] = "spawn"]
      /\ cspace' = [cspace EXCEPT ![next_free] = "untyped"] /\ next_free' = next_free + 1
      /\ k' = 1 /\ p_tcb' = p_tcb /\ used' = used /\ tables' = tables
      /\ p_run' = p_run /\ test' = test /\ p_results' = p_results /\ p_phase' = p_phase
      /\ levels' = levels /\ topMapped' = topMapped
  BY Zenon DEF P!CopyUntyped, P!Step, P!childvars
<1>2. PmTypeOK /\ ~p_failed /\ PmApart /\ PmFresh /\ PmRecorded
  BY <1>1, Zenon DEF PmInv, PmMemory, PmTesting, PmTaken, PmAt
<1>3. p_pc' \in [PmThread -> PmMainLabel \cup PmProcLabel] /\ p_pc'["main"] = "spawn"
  BY <1>1, <1>2, Zenon DEF PmTypeOK, PmMainLabel
<1>4. ~p_failed' /\ PmHanded'
  <2>1. next_free = 2 /\ 2 \in 1..CSpaceSize
    BY <1>2, PmConstants DEF PmFresh
  <2>2. cspace[2] = "empty"
    BY <1>2, <2>1, PmConstants DEF PmFresh
  <2>3. \A s \in 3..CSpaceSize : cspace'[s] = "empty"
    <3> SUFFICES ASSUME NEW s \in 3..CSpaceSize
                 PROVE  cspace'[s] = "empty"
      OBVIOUS
    <3>1. s \in 1..CSpaceSize /\ s \in 2..CSpaceSize /\ s # 2
      BY PmConstants
    <3> QED
      BY <1>1, <1>2, <2>1, <3>1, Zenon DEF PmFresh, PmTypeOK
  <2>4. P!TopTables' = P!TopTables
    BY <1>1, PmSame, Zenon
  <2>5. next_free' = 3
    BY <1>1, <2>1
  <2>6. ~p_failed'
    <3>1. p_failed' => p_failed \/ cspace[next_free] # "empty"
      BY DEF P!CopyUntyped
    <3> QED
      BY <1>2, <2>1, <2>2, <3>1, Zenon
  <2> QED
    BY <1>1, <1>2, <2>3, <2>4, <2>5, <2>6, Zenon DEF PmHanded, PmFresh
<1>5. PmTypeOK'
  <2>1. DOMAIN cspace' = 1..CSpaceSize
    BY <1>1, <1>2, Zenon DEF PmTypeOK
  <2>2. k' \in 1..5
    BY <1>1
  <2> QED
    BY <1>1, <1>2, <1>3, <2>1, <2>2, PmSame, Zenon DEF PmTypeOK
<1>6. PmApart'
  BY <1>1, <1>2, <1>3, Zenon DEF PmApart
<1>7. PmRecorded'
  <2>1. PmNextPhase' = PmNextPhase
    BY <1>1, <1>3, Zenon DEF PmNextPhase
  <2> QED
    BY <1>1, <1>2, <2>1, PmKeepsRecords, Zenon
<1> QED
  BY <1>3, <1>4, <1>5, <1>6, <1>7, Zenon DEF PmInv, PmMemory

\* benchmark_spawn_process.
LEMMA PmSpawns ==
  ASSUME PmInv, P!Spawn, UNCHANGED <<levels, topMapped>>
  PROVE  PmInv'
<1> USE PmStates
<1>1. /\ p_pc["main"] = "spawn"
      /\ p_pc' = [p_pc EXCEPT !["main"] = "get", !["proc"] = "start"]
      /\ p_tcb' = [p_tcb EXCEPT !["proc"] = P!Running]
      /\ p_failed' = p_failed /\ cspace' = cspace /\ next_free' = next_free
      /\ k' = k /\ used' = used /\ tables' = tables
      /\ p_run' = p_run /\ test' = test /\ p_results' = p_results /\ p_phase' = p_phase
      /\ levels' = levels /\ topMapped' = topMapped
  BY Zenon DEF P!Spawn, P!SetState, P!childvars, P!memvars, P!loopvars
<1>2. PmTypeOK /\ ~p_failed /\ PmApart /\ PmHanded /\ PmRecorded
  BY <1>1, Zenon DEF PmInv, PmMemory, PmTesting, PmTaken, PmAt
<1>3. /\ p_pc' \in [PmThread -> PmMainLabel \cup PmProcLabel]
      /\ p_pc'["main"] = "get" /\ p_pc'["proc"] = "start"
  BY <1>1, <1>2, Zenon DEF PmTypeOK, PmMainLabel, PmProcLabel
<1>4. /\ p_tcb' \in [PmThread -> PmState]
      /\ p_tcb'["main"] = P!Running /\ p_tcb'["proc"] = P!Running
  BY <1>1, <1>2, Zenon DEF PmTypeOK, PmState, PmApart
<1>5. PmTypeOK'
  BY <1>1, <1>2, <1>3, <1>4, PmSame, Zenon DEF PmTypeOK
<1>6. PmHanded'
  <2>1. P!TopTables' = P!TopTables
    BY <1>1, PmSame, Zenon
  <2> QED
    BY <1>1, <1>2, <2>1, Zenon DEF PmHanded
<1>7. PmTesting'
  <2>1. k = 1 /\ p_run # PageRuns + 1 /\ p_run \in 1..PageRuns + 1
    BY <1>1, <1>2, Zenon DEF PmApart, PmTypeOK
  <2>2. p_run' <= PageRuns /\ 0 \in 0..5 /\ 0 = k' - 1
    BY <1>1, <2>1, PmConstants
  <2>3. PmTaken(0)' /\ PmGiven(0)'
    BY <1>3, <1>4, <2>2, Zenon DEF PmTaken, PmGiven, PmAt
  <2> QED
    BY <2>2, <2>3, Zenon DEF PmTesting
<1>8. PmRecorded'
  <2>1. PmNextPhase' = PmNextPhase
    <3>1. k = 1
      BY <1>1, <1>2, Zenon DEF PmApart
    <3> QED
      BY <1>1, <1>3, <3>1, Zenon DEF PmNextPhase
  <2> QED
    BY <1>1, <1>2, <2>1, PmKeepsRecords, Zenon
<1> QED
  BY <1>1, <1>2, <1>3, <1>5, <1>6, <1>7, <1>8, Zenon DEF PmInv, PmMemory

\* What the other thread's steps leave alone.
LEMMA PmOtherSide ==
  ASSUME levels' = levels, topMapped' = topMapped, test' = test, NEW m
  PROVE  /\ (/\ p_pc'["main"] = p_pc["main"] /\ p_tcb'["main"] = p_tcb["main"]
             /\ k' = k /\ p_mr' = p_mr /\ PmTaken(m)) => PmTaken(m)'
         /\ (/\ p_pc'["proc"] = p_pc["proc"] /\ p_tcb'["proc"] = p_tcb["proc"]
             /\ p_phase' = p_phase /\ cost' = cost /\ PmGiven(m)) => PmGiven(m)'
<1>1. PmPages' = PmPages /\ \A n, p : P!Work(n, p)' = P!Work(n, p)
  BY PmSame, Zenon
<1>2. ASSUME p_pc'["main"] = p_pc["main"], p_tcb'["main"] = p_tcb["main"], k' = k, p_mr' = p_mr,
             PmTaken(m)
      PROVE  PmTaken(m)'
  <2>1. /\ P!Running' = P!Running /\ PmReceiving' = PmReceiving
        /\ P!Work(PmPages, k)' = P!Work(PmPages, k)
    BY <1>1, <1>2, Zenon DEF P!Running, PmReceiving
  <2> QED
    BY <1>2, <2>1, Zenon DEF PmTaken, PmAt
<1>3. ASSUME p_pc'["proc"] = p_pc["proc"], p_tcb'["proc"] = p_tcb["proc"], p_phase' = p_phase,
             cost' = cost, PmGiven(m)
      PROVE  PmGiven(m)'
  <2>1. /\ P!Work(PmPages, p_phase)' = P!Work(PmPages, p_phase)
        /\ P!Work(PmPages, p_phase - 1)' = P!Work(PmPages, p_phase - 1)
        /\ P!Work(PmPages, 5)' = P!Work(PmPages, 5)
    BY <1>1, <1>3, Zenon
  <2> QED
    BY <1>3, <2>1, ZenonT(90) DEF PmGiven, PmAt
<1> QED
  BY <1>2, <1>3, Zenon

\* A step that touches neither memory nor the child's variables.
LEMMA PmKeepsMemory ==
  ASSUME levels' = levels, topMapped' = topMapped, test' = test,
         p_pc'["proc"] = p_pc["proc"], p_phase' = p_phase, p_i' = p_i,
         free_slot' = free_slot, page_ptr_start' = page_ptr_start,
         cspace' = cspace, used' = used, tables' = tables, next_free' = next_free
  PROVE  (PmFresh => PmFresh') /\ (PmHanded => PmHanded') /\ (PmBuilt => PmBuilt')
<1>1. /\ PmPages' = PmPages /\ PmTables' = PmTables /\ P!npage' = P!npage
      /\ P!TableList' = P!TableList /\ P!TopTables' = P!TopTables
  BY PmSame, Zenon
<1>2. P!PhaseLength' = P!PhaseLength
  BY <1>1, Zenon DEF P!PhaseLength
<1>3. PmDone' = PmDone
  BY <1>2, Zenon DEF PmDone
<1>4. PmInstalled' = PmInstalled /\ PmMade' = PmMade
  BY <1>1, <1>3, Zenon DEF PmInstalled, PmMade
<1>5. PmFresh => PmFresh'
  BY <1>1, Zenon DEF PmFresh
<1>6. PmHanded => PmHanded'
  BY <1>1, Zenon DEF PmHanded
<1>7. PmBuilt => PmBuilt'
  BY <1>1, <1>2, <1>4, ZenonT(90) DEF PmBuilt
<1> QED
  BY <1>5, <1>6, <1>7, Zenon

\* Who is blocked when main receives or the child sends.
LEMMA PmBlocked ==
  ASSUME PmTypeOK, p_tcb["main"] = P!Running
  PROVE  P!Blocked(PmSending) = IF p_tcb["proc"] = PmSending THEN {"proc"} ELSE {}
<1>1. DOMAIN p_tcb = {"main", "proc"}
  BY PmStates, Zenon DEF PmTypeOK
<1>2. P!Blocked(PmSending) = {t \in {"main", "proc"} : p_tcb[t] = PmSending}
  BY <1>1, Zenon DEF P!Blocked
<1> QED
  BY <1>2, PmStates, Zenon

\* The next result of the child that main is owed.
LEMMA PmOwed ==
  ASSUME NEW m \in 0..5, PmTypeOK, PmGiven(m), p_tcb["proc"] = PmSending
  PROVE  /\ m + 1 \in 1..5 /\ cost = P!Work(PmPages, m + 1)
         /\ \/ p_pc["proc"] = "phase" /\ m + 1 = p_phase - 1
            \/ p_pc["proc"] = "wait" /\ m + 1 = 5 /\ p_phase = 5
<1> USE PmStates
<1>1. \/ p_pc["proc"] = "phase" /\ m = p_phase - 2 /\ cost = P!Work(PmPages, p_phase - 1)
      \/ p_pc["proc"] = "wait" /\ m = 4 /\ p_phase = 5 /\ cost = P!Work(PmPages, 5)
  BY Zenon DEF PmGiven, PmAt
<1>2. p_phase \in 1..5
  BY Zenon DEF PmTypeOK
<1>3. CASE p_pc["proc"] = "phase" /\ m = p_phase - 2 /\ cost = P!Work(PmPages, p_phase - 1)
  <2>1. m + 1 = p_phase - 1 /\ m + 1 \in 1..5
    BY <1>2, <1>3
  <2> QED
    BY <1>3, <2>1, Zenon
<1>4. CASE p_pc["proc"] = "wait" /\ m = 4 /\ p_phase = 5 /\ cost = P!Work(PmPages, 5)
  <2>1. m + 1 = 5 /\ m + 1 \in 1..5
    BY <1>4
  <2> QED
    BY <1>4, <2>1, Zenon
<1> QED
  BY <1>1, <1>3, <1>4, Zenon

\* main waits for a result: it takes it from the child, or blocks.
LEMMA PmGets ==
  ASSUME PmInv, p_tcb["main"] = P!Running, P!GetResult, UNCHANGED <<levels, topMapped>>
  PROVE  PmInv'
<1> USE PmStates
<1>1. /\ p_pc["main"] = "get" /\ p_pc' = [p_pc EXCEPT !["main"] = "got"]
      /\ p_failed' = p_failed /\ cspace' = cspace /\ next_free' = next_free
      /\ k' = k /\ used' = used /\ tables' = tables
      /\ p_run' = p_run /\ test' = test /\ p_results' = p_results /\ p_phase' = p_phase
      /\ p_i' = p_i /\ free_slot' = free_slot /\ page_ptr_start' = page_ptr_start
      /\ cost' = cost /\ levels' = levels /\ topMapped' = topMapped
  BY Zenon DEF P!GetResult, P!Step, P!childvars, P!memvars, P!loopvars
<1>2. /\ PmTypeOK /\ ~p_failed /\ PmTesting /\ PmRecorded
      /\ IF p_pc["proc"] = "start" THEN PmHanded ELSE PmBuilt
  BY <1>1, Zenon DEF PmInv, PmMemory, PmApart
<1>3. PICK m \in 0..5 : PmTaken(m) /\ PmGiven(m)
  BY <1>2, Zenon DEF PmTesting
<1>4. m = k - 1 /\ k \in 1..5
  BY <1>1, <1>2, <1>3, Zenon DEF PmTaken, PmAt, PmTypeOK
<1>5. /\ p_pc' \in [PmThread -> PmMainLabel \cup PmProcLabel]
      /\ p_pc'["main"] = "got" /\ p_pc'["proc"] = p_pc["proc"]
  BY <1>1, <1>2, Zenon DEF PmTypeOK, PmMainLabel
<1>6. p_tcb' \in [PmThread -> PmState] /\ PmTesting'
  <2>1. PmPages' = PmPages /\ P!Work(PmPages, k)' = P!Work(PmPages, k)
    BY <1>1, PmSame, Zenon
  <2>2. CASE p_tcb["proc"] = PmSending
    <3>1. P!Blocked(PmSending) = {"proc"}
      BY <1>2, <2>2, PmBlocked, Zenon
    <3>2. p_tcb' = [p_tcb EXCEPT !["proc"] = P!Running] /\ p_mr' = cost
      BY <2>2, <3>1, Zenon DEF P!GetResult, P!Recv, P!SetState, PmSending
    <3>3. /\ p_tcb' \in [PmThread -> PmState]
          /\ p_tcb'["main"] = P!Running /\ p_tcb'["proc"] = P!Running
      BY <1>2, <3>2, Zenon DEF PmTypeOK, PmState
    <3>4. m + 1 = k
      BY <1>4
    <3>5. /\ m + 1 \in 1..5 /\ cost = P!Work(PmPages, m + 1)
          /\ \/ p_pc["proc"] = "phase" /\ m + 1 = p_phase - 1
             \/ p_pc["proc"] = "wait" /\ m + 1 = 5 /\ p_phase = 5
      BY <1>2, <1>3, <2>2, PmOwed, Zenon
    <3>6. PmTaken(m + 1)'
      BY <1>1, <1>5, <2>1, <3>2, <3>3, <3>4, <3>5, Zenon DEF PmTaken, PmAt
    <3>7. PmGiven(m + 1)'
      BY <1>1, <1>5, <3>3, <3>5, Zenon DEF PmGiven, PmAt
    <3>8. m + 1 \in 0..5
      BY <3>5
    <3> QED
      BY <1>1, <1>2, <3>3, <3>6, <3>7, <3>8, Zenon DEF PmTesting
  <2>3. CASE p_tcb["proc"] # PmSending
    <3>1. P!Blocked(PmSending) = {}
      BY <1>2, <2>3, PmBlocked, Zenon
    <3>2. p_tcb' = [p_tcb EXCEPT !["main"] = PmReceiving]
      BY <3>1, Zenon DEF P!GetResult, P!Recv, P!SetState, PmSending, PmReceiving
    <3>3. /\ p_tcb' \in [PmThread -> PmState]
          /\ p_tcb'["main"] = PmReceiving /\ p_tcb'["proc"] = p_tcb["proc"]
      BY <1>2, <3>2, Zenon DEF PmTypeOK, PmState
    <3>4. PmTaken(m)'
      BY <1>1, <1>4, <1>5, <3>3, Zenon DEF PmTaken, PmAt, PmReceiving
    <3>5. PmGiven(m)'
      BY <1>1, <1>3, <1>5, <3>3, PmOtherSide, Zenon
    <3> QED
      BY <1>1, <1>2, <3>3, <3>4, <3>5, Zenon DEF PmTesting
  <2> QED
    BY <2>2, <2>3, Zenon
<1>7. PmTypeOK'
  BY <1>1, <1>2, <1>5, <1>6, PmSame, Zenon DEF PmTypeOK
<1>8. PmRecorded'
  <2>1. PmNextPhase' = PmNextPhase
    BY <1>1, <1>5, Zenon DEF PmNextPhase
  <2> QED
    BY <1>1, <1>2, <2>1, PmKeepsRecords, Zenon
<1>9. IF p_pc'["proc"] = "start" THEN PmHanded' ELSE PmBuilt'
  BY <1>1, <1>2, <1>5, PmKeepsMemory, Zenon
<1> QED
  BY <1>1, <1>2, <1>5, <1>6, <1>7, <1>8, <1>9, Zenon DEF PmInv, PmMemory

\* What a result recorded in the array leaves of the others.
LEMMA PmWrite ==
  ASSUME p_results \in [P!Test -> [1..5 -> [1..PageRuns -> Int]]],
         test \in P!Test, k \in 1..5, p_run \in 1..PageRuns, p_mr \in Int,
         p_results' = [p_results EXCEPT ![test][k][p_run] = p_mr]
  PROVE  /\ p_results' \in [P!Test -> [1..5 -> [1..PageRuns -> Int]]]
         /\ p_results'[test][k][p_run] = p_mr
         /\ \A j \in P!Test, q \in 1..5, x \in 1..PageRuns :
              (j # test \/ q # k \/ x # p_run) => p_results'[j][q][x] = p_results[j][q][x]
<1>1. /\ p_results[test] \in [1..5 -> [1..PageRuns -> Int]]
      /\ p_results[test][k] \in [1..PageRuns -> Int]
  BY Zenon
<1> DEFINE row == [p_results[test][k] EXCEPT ![p_run] = p_mr]
           tab == [p_results[test] EXCEPT ![k] = row]
<1>2. /\ row \in [1..PageRuns -> Int] /\ row[p_run] = p_mr
      /\ \A x \in 1..PageRuns : x # p_run => row[x] = p_results[test][k][x]
  BY <1>1, Zenon
<1>3. p_results' = [p_results EXCEPT ![test] = tab]
  OBVIOUS
<1> HIDE DEF row
<1>4. /\ tab \in [1..5 -> [1..PageRuns -> Int]] /\ tab[k] = row
      /\ \A q \in 1..5 : q # k => tab[q] = p_results[test][q]
  BY <1>1, <1>2, Zenon
<1> HIDE DEF tab
<1>5. /\ p_results' \in [P!Test -> [1..5 -> [1..PageRuns -> Int]]] /\ p_results'[test] = tab
      /\ \A j \in P!Test : j # test => p_results'[j] = p_results[j]
  BY <1>3, <1>4, Zenon
<1> QED
  BY <1>2, <1>4, <1>5, Zenon

\* A result is a number.
LEMMA PmWorkIsInt ==
  ASSUME PmTypeOK
  PROVE  \A q \in 1..5 : P!Work(PmPages, q) \in Int
BY PmSizes, SMT DEF P!Work, PmTypeOK, PmLevels

\* main records the result it was given.
LEMMA PmRecords ==
  ASSUME PmInv, p_tcb["main"] = P!Running, P!Record, UNCHANGED <<levels, topMapped>>
  PROVE  PmInv'
<1> USE PmStates
<1>1. /\ p_pc["main"] = "got"
      /\ p_pc' = [p_pc EXCEPT !["main"] = IF k = 5 THEN "revoke" ELSE "get"]
      /\ p_failed' = p_failed /\ cspace' = cspace /\ next_free' = next_free
      /\ k' = (IF k = 5 THEN k ELSE k + 1) /\ used' = used /\ tables' = tables
      /\ p_run' = p_run /\ test' = test /\ p_phase' = p_phase /\ p_tcb' = p_tcb
      /\ p_results' = [p_results EXCEPT ![test][k][p_run] = p_mr]
      /\ p_i' = p_i /\ free_slot' = free_slot /\ page_ptr_start' = page_ptr_start
      /\ cost' = cost /\ levels' = levels /\ topMapped' = topMapped
  BY Zenon DEF P!Record, P!Step, P!childvars, P!memvars, P!NPHASE
<1>2. /\ PmTypeOK /\ ~p_failed /\ PmTesting /\ PmRecorded
      /\ IF p_pc["proc"] = "start" THEN PmHanded ELSE PmBuilt
  BY <1>1, Zenon DEF PmInv, PmMemory, PmApart
<1>3. PICK m \in 0..5 : PmTaken(m) /\ PmGiven(m)
  BY <1>2, Zenon DEF PmTesting
<1>4. m = k /\ k \in 1..5 /\ p_mr = P!Work(PmPages, k) /\ p_run <= PageRuns
  BY <1>1, <1>2, <1>3, Zenon DEF PmTaken, PmAt, PmTypeOK, PmTesting
<1>5. /\ p_pc' \in [PmThread -> PmMainLabel \cup PmProcLabel]
      /\ p_pc'["main"] = (IF k = 5 THEN "revoke" ELSE "get") /\ p_pc'["proc"] = p_pc["proc"]
  BY <1>1, <1>2, Zenon DEF PmTypeOK, PmMainLabel
<1>6. PmTesting'
  <2>1. PmTaken(m)'
    <3>1. CASE k = 5
      BY <1>1, <1>4, <1>5, <3>1, Zenon DEF PmTaken, PmAt, PmInv
    <3>2. CASE k # 5
      <4>1. k' = k + 1 /\ m = k' - 1
        BY <1>1, <1>4, <3>2
      <4> QED
        BY <1>1, <1>5, <3>2, <4>1, Zenon DEF PmTaken, PmAt
    <3> QED
      BY <3>1, <3>2, Zenon
  <2>2. PmGiven(m)'
    BY <1>1, <1>3, <1>5, PmOtherSide, Zenon
  <2> QED
    BY <1>1, <1>2, <2>1, <2>2, Zenon DEF PmTesting
<1>7. /\ p_results' \in [P!Test -> [1..5 -> [1..PageRuns -> Int]]]
      /\ p_results'[test][k][p_run] = p_mr
      /\ \A j \in P!Test, q \in 1..5, x \in 1..PageRuns :
           (j # test \/ q # k \/ x # p_run) => p_results'[j][q][x] = p_results[j][q][x]
  <2>1. p_mr \in Int
    BY <1>2, <1>4, PmWorkIsInt, Zenon
  <2>2. /\ test \in P!Test /\ p_run \in 1..PageRuns + 1
        /\ p_results \in [P!Test -> [1..5 -> [1..PageRuns -> Int]]]
    BY <1>2, Zenon DEF PmTypeOK
  <2>3. p_run \in 1..PageRuns
    BY <1>4, <2>2, PmConstants
  <2>4. k \in 1..5 /\ p_results' = [p_results EXCEPT ![test][k][p_run] = p_mr]
    BY <1>1, <1>4, Zenon
  <2> QED
    BY <2>1, <2>2, <2>3, <2>4, PmWrite, Zenon
<1>8. PmTypeOK'
  <2>1. k' \in 1..5
    BY <1>1, <1>4
  <2> QED
    BY <1>1, <1>2, <1>5, <1>7, <2>1, PmSame, Zenon DEF PmTypeOK
<1>9. PmRecorded'
  <2>1. PmNextPhase = k
    BY <1>1, Zenon DEF PmNextPhase
  <2>2. PmNextPhase' = k + 1
    <3>1. CASE k = 5
      <4>1. PmNextPhase' = 6
        BY <1>5, <3>1, Zenon DEF PmNextPhase
      <4> QED
        BY <3>1, <4>1
    <3>2. CASE k # 5
      BY <1>1, <1>5, <3>2, Zenon DEF PmNextPhase
    <3> QED
      BY <3>1, <3>2, Zenon
  <2> SUFFICES ASSUME NEW j \in P!Test, NEW q \in 1..5, NEW x \in 1..PageRuns,
                      x < p_run' \/ (x = p_run' /\ (j < test' \/ (j = test' /\ q < PmNextPhase')))
               PROVE  p_results'[j][q][x] = P!Work(NPages[j], q)'
    BY Zenon DEF PmRecorded
  <2>3. P!Work(NPages[j], q)' = P!Work(NPages[j], q)
    BY <1>1, PmSame, Zenon
  <2>4. CASE j = test /\ q = k /\ x = p_run
    BY <1>4, <1>7, <2>3, <2>4, Zenon DEF PmPages
  <2>5. CASE j # test \/ q # k \/ x # p_run
    <3>1. x < p_run \/ (x = p_run /\ (j < test \/ (j = test /\ q < PmNextPhase)))
      BY <1>1, <1>4, <2>1, <2>2, <2>5
    <3> QED
      BY <1>2, <1>7, <2>3, <2>5, <3>1, Zenon DEF PmRecorded
  <2> QED
    BY <2>4, <2>5, Zenon
<1>10. IF p_pc'["proc"] = "start" THEN PmHanded' ELSE PmBuilt'
  BY <1>1, <1>2, <1>5, PmKeepsMemory, Zenon
<1> QED
  BY <1>1, <1>2, <1>5, <1>6, <1>8, <1>9, <1>10, Zenon DEF PmInv, PmMemory

\* vka_cnode_revoke, and the slot of the untyped is free again.
LEMMA PmRevokes ==
  ASSUME PmInv, p_tcb["main"] = P!Running, P!Revoke, UNCHANGED <<levels, topMapped>>
  PROVE  PmInv'
<1> USE PmStates
<1>1. /\ p_pc["main"] = "revoke" /\ p_pc' = [p_pc EXCEPT !["main"] = "suspend"]
      /\ cspace' = [s \in DOMAIN cspace |-> IF s = 1 THEN cspace[s] ELSE "empty"]
      /\ used' = 0 /\ tables' = P!TopTables /\ next_free' = next_free - 1
      /\ p_failed' = p_failed /\ k' = k /\ p_run' = p_run /\ test' = test
      /\ p_phase' = p_phase /\ p_tcb' = p_tcb /\ p_results' = p_results
      /\ cost' = cost /\ levels' = levels /\ topMapped' = topMapped
  BY Zenon DEF P!Revoke, P!Step, P!childvars, P!loopvars, P!FirstSlot
<1>2. /\ PmTypeOK /\ ~p_failed /\ PmTesting /\ PmRecorded
      /\ IF p_pc["proc"] = "start" THEN PmHanded ELSE PmBuilt
  BY <1>1, Zenon DEF PmInv, PmMemory, PmApart
<1>3. PICK m \in 0..5 : PmTaken(m) /\ PmGiven(m)
  BY <1>2, Zenon DEF PmTesting
<1>4. m = 5 /\ k = 5
  BY <1>1, <1>3, Zenon DEF PmTaken, PmAt
<1>5. /\ p_pc' \in [PmThread -> PmMainLabel \cup PmProcLabel]
      /\ p_pc'["main"] = "suspend" /\ p_pc'["proc"] = p_pc["proc"]
  BY <1>1, <1>2, Zenon DEF PmTypeOK, PmMainLabel
<1>6. PmTesting'
  <2>1. PmTaken(m)'
    BY <1>1, <1>4, <1>5, Zenon DEF PmTaken, PmAt
  <2>2. PmGiven(m)'
    BY <1>1, <1>3, <1>5, PmOtherSide, Zenon
  <2> QED
    BY <1>1, <1>2, <2>1, <2>2, Zenon DEF PmTesting
<1>7. PmTypeOK'
  <2>1. DOMAIN cspace' = 1..CSpaceSize
    BY <1>1, <1>2, Zenon DEF PmTypeOK
  <2> QED
    BY <1>1, <1>2, <1>5, <2>1, PmSame, Zenon DEF PmTypeOK
<1>8. PmFresh'
  <2>1. next_free = 3
    BY <1>2, Zenon DEF PmHanded, PmBuilt
  <2>2. next_free' = 2
    BY <1>1, <2>1
  <2>3. DOMAIN cspace = 1..CSpaceSize
    BY <1>2, Zenon DEF PmTypeOK
  <2>4. \A s \in 2..CSpaceSize : s \in 1..CSpaceSize /\ s # 1
    BY PmConstants
  <2>5. \A s \in 2..CSpaceSize : cspace'[s] = "empty"
    BY <1>1, <2>3, <2>4, Zenon
  <2>6. P!TopTables' = P!TopTables
    BY <1>1, PmSame, Zenon
  <2> QED
    BY <1>1, <2>2, <2>5, <2>6, Zenon DEF PmFresh
<1>9. PmRecorded'
  <2>1. PmNextPhase' = PmNextPhase
    BY <1>1, <1>5, Zenon DEF PmNextPhase
  <2> QED
    BY <1>1, <1>2, <2>1, PmKeepsRecords, Zenon
<1> QED
  BY <1>1, <1>2, <1>5, <1>6, <1>7, <1>8, <1>9, Zenon DEF PmInv, PmMemory

\* main stops the child and goes on to the next test, or the next run.
LEMMA PmSuspends ==
  ASSUME PmInv, p_tcb["main"] = P!Running, P!SuspendProc, UNCHANGED <<levels, topMapped>>
  PROVE  PmInv'
<1> USE PmStates
<1>1. /\ p_pc["main"] = "suspend"
      /\ p_pc' = [p_pc EXCEPT !["main"] = IF p_run' > PageRuns THEN "finished" ELSE "copy"]
      /\ test' = (IF test = Len(NPages) THEN 1 ELSE test + 1)
      /\ p_run' = (IF test' = 1 THEN p_run + 1 ELSE p_run)
      /\ p_tcb' = [p_tcb EXCEPT !["proc"] = P!Inactive]
      /\ cspace' = cspace /\ used' = used /\ tables' = tables /\ next_free' = next_free
      /\ p_failed' = p_failed /\ k' = k /\ p_phase' = p_phase /\ p_results' = p_results
      /\ levels' = levels /\ topMapped' = topMapped
  BY Zenon DEF P!SuspendProc, P!Step, P!SetState, P!childvars, P!memvars
<1>2. PmTypeOK /\ ~p_failed /\ PmTesting /\ PmRecorded /\ PmFresh
  BY <1>1, Zenon DEF PmInv, PmMemory, PmApart
<1>3. /\ p_run \in 1..PageRuns + 1 /\ p_run <= PageRuns /\ test \in 1..Len(NPages)
  BY <1>2, PmConstants, Zenon DEF PmTypeOK, PmTesting
<1>4. /\ \/ test = Len(NPages) /\ test' = 1 /\ p_run' = p_run + 1
         \/ test # Len(NPages) /\ test' = test + 1 /\ p_run' = p_run
      /\ test' \in 1..Len(NPages) /\ p_run' \in 1..PageRuns + 1
      /\ (p_run' > PageRuns <=> p_run' = PageRuns + 1)
  <2>1. /\ test' = (IF test = Len(NPages) THEN 1 ELSE test + 1)
        /\ p_run' = IF test' = 1 THEN p_run + 1 ELSE p_run
    BY <1>1, Zenon
  <2> QED
    BY <1>3, <2>1, PmConstants
<1>5. /\ p_pc' \in [PmThread -> PmMainLabel \cup PmProcLabel]
      /\ p_pc'["main"] = IF p_run' = PageRuns + 1 THEN "finished" ELSE "copy"
  BY <1>1, <1>2, <1>4, Zenon DEF PmTypeOK, PmMainLabel
<1>6. /\ p_tcb' \in [PmThread -> PmState] /\ p_tcb'["main"] = P!Running
      /\ p_tcb'["proc"] = P!Inactive
  BY <1>1, <1>2, Zenon DEF PmTypeOK, PmState
<1>7. PmTypeOK'
  <2>1. PmLevels'
    BY <1>1, <1>2 DEF PmLevels, PmTypeOK
  <2> QED
    BY <1>1, <1>2, <1>4, <1>5, <1>6, <2>1, PmConstants, Zenon DEF PmTypeOK
<1>8. PmApart'
  BY <1>5, <1>6, Zenon DEF PmApart
<1>9. PmFresh'
  <2>1. P!TopTables' = P!TopTables
    BY <1>1 DEF P!TopTables
  <2> QED
    BY <1>1, <1>2, <2>1, Zenon DEF PmFresh
<1>10. PmRecorded'
  <2>1. PmNextPhase = 6
    BY <1>1, Zenon DEF PmNextPhase
  <2>2. PmNextPhase' = 1
    BY <1>5, Zenon DEF PmNextPhase
  <2> SUFFICES ASSUME NEW j \in P!Test, NEW q \in 1..5, NEW x \in 1..PageRuns,
                      x < p_run' \/ (x = p_run' /\ (j < test' \/ (j = test' /\ q < PmNextPhase')))
               PROVE  p_results'[j][q][x] = P!Work(NPages[j], q)'
    BY Zenon DEF PmRecorded
  <2>3. P!Work(NPages[j], q)' = P!Work(NPages[j], q)
    BY <1>1, Zenon DEF P!Work
  <2>4. j \in 1..Len(NPages)
    BY PmConstants, Zenon
  <2>5. x < p_run \/ (x = p_run /\ (j < test \/ (j = test /\ q < PmNextPhase)))
    BY <1>3, <1>4, <2>1, <2>2, <2>4
  <2> QED
    BY <1>1, <1>2, <2>3, <2>5, Zenon DEF PmRecorded
<1> QED
  BY <1>1, <1>2, <1>5, <1>7, <1>8, <1>9, <1>10, Zenon DEF PmInv, PmMemory

\* While the child runs a test is under way, and before its last send main waits.
LEMMA PmChildRuns ==
  ASSUME PmInv, p_tcb["proc"] = P!Running
  PROVE  /\ PmTypeOK /\ ~p_failed /\ PmRecorded /\ p_run <= PageRuns
         /\ \E m \in 0..5 :
              /\ PmTaken(m) /\ PmGiven(m)
              /\ p_pc["proc"] = "start" => m = 0
              /\ p_pc["proc"] \in {"phase", "send"} => m = p_phase - 1
              /\ p_pc["proc"] = "send" => cost = P!Work(PmPages, p_phase)
              /\ p_pc["proc"] = "wait" => m = 5 /\ p_phase = 5
         /\ p_pc["proc"] \in {"start", "phase", "send"} =>
              /\ p_pc["main"] \in {"get", "got"}
              /\ IF p_pc["proc"] = "start" THEN PmHanded ELSE PmBuilt
<1> USE PmStates
<1>1. PmTypeOK /\ ~p_failed /\ PmRecorded /\ PmTesting /\ PmMemory
  BY Zenon DEF PmInv, PmApart
<1>2. PICK m \in 0..5 : PmTaken(m) /\ PmGiven(m)
  BY <1>1, Zenon DEF PmTesting
<1>3. /\ p_pc["proc"] = "start" => m = 0
      /\ p_pc["proc"] \in {"phase", "send"} => m = p_phase - 1
      /\ p_pc["proc"] = "send" => cost = P!Work(PmPages, p_phase)
      /\ p_pc["proc"] = "wait" => m = 5 /\ p_phase = 5
  BY <1>2, Zenon DEF PmGiven, PmAt
<1>4. ASSUME p_pc["proc"] \in {"start", "phase", "send"}
      PROVE  p_pc["main"] \in {"get", "got"}
  <2>1. p_phase \in 1..5
    BY <1>1, Zenon DEF PmTypeOK
  <2>2. p_phase - 1 # 5 /\ 0 # 5
    BY <2>1
  <2>3. m # 5
    BY <1>3, <1>4, <2>2, Zenon
  <2> QED
    BY <1>2, <2>3, Zenon DEF PmTaken, PmAt
<1>5. p_pc["proc"] \in {"start", "phase", "send"} =>
        IF p_pc["proc"] = "start" THEN PmHanded ELSE PmBuilt
  BY <1>1, <1>4, Zenon DEF PmMemory
<1>6. p_run <= PageRuns
  BY <1>1, Zenon DEF PmTesting
<1> QED
  BY <1>1, <1>2, <1>3, <1>4, <1>5, <1>6, Zenon

\* What every step of the child leaves to be shown.
LEMMA PmChildSteps ==
  ASSUME PmInv, p_tcb["proc"] = P!Running, NEW l \in PmProcLabel,
         p_pc' = [p_pc EXCEPT !["proc"] = l], p_tcb' \in [PmThread -> PmState],
         p_failed' = p_failed, DOMAIN cspace' = DOMAIN cspace, p_phase' \in 1..5,
         levels' = levels, topMapped' = topMapped, next_free' = next_free,
         p_run' = p_run, test' = test, k' = k, p_results' = p_results,
         \E m \in 0..5 : PmTaken(m)' /\ PmGiven(m)'
  PROVE  /\ p_pc'["main"] = p_pc["main"] /\ p_pc'["proc"] = l
         /\ PmTypeOK' /\ ~p_failed' /\ PmTesting' /\ PmRecorded'
<1> USE PmStates
<1>1. PmTypeOK /\ ~p_failed /\ PmRecorded /\ p_run <= PageRuns
  BY PmChildRuns, Zenon
<1>2. /\ p_pc' \in [PmThread -> PmMainLabel \cup PmProcLabel]
      /\ p_pc'["main"] = p_pc["main"] /\ p_pc'["proc"] = l
  BY <1>1, Zenon DEF PmTypeOK
<1>3. PmTypeOK'
  BY <1>1, <1>2, PmSame, Zenon DEF PmTypeOK
<1>4. PmTesting'
  BY <1>1, Zenon DEF PmTesting
<1>5. PmNextPhase' = PmNextPhase
  BY <1>2, Zenon DEF PmNextPhase
<1>6. PmRecorded'
  BY <1>1, <1>5, PmKeepsRecords, Zenon
<1> QED
  BY <1>1, <1>2, <1>3, <1>4, <1>6, Zenon

\* bench_proc begins.
LEMMA PmStarts ==
  ASSUME PmInv, p_tcb["proc"] = P!Running, P!Step(P!Proc, "start", "phase"),
         p_phase' = 1, p_i' = 0, free_slot' = next_free,
         UNCHANGED <<p_tcb, p_active, P!memvars, page_ptr_start, cost, p_mr, p_failed>>,
         UNCHANGED <<levels, topMapped, next_free, P!loopvars, p_results>>
  PROVE  PmInv'
<1> USE PmStates
<1>1. /\ p_pc["proc"] = "start" /\ p_pc' = [p_pc EXCEPT !["proc"] = "phase"]
      /\ p_tcb' = p_tcb /\ cspace' = cspace /\ used' = used /\ tables' = tables
      /\ p_mr' = p_mr /\ p_failed' = p_failed
      /\ levels' = levels /\ topMapped' = topMapped /\ next_free' = next_free
      /\ p_run' = p_run /\ test' = test /\ k' = k /\ p_results' = p_results
  BY Zenon DEF P!Step, P!memvars, P!loopvars
<1>2. /\ PmTypeOK /\ PmHanded /\ p_pc["main"] \in {"get", "got"}
      /\ PmTaken(0)
  BY <1>1, PmChildRuns, Zenon
<1>3. p_pc'["main"] = p_pc["main"] /\ p_pc'["proc"] = "phase"
  BY <1>1, <1>2, Zenon DEF PmTypeOK
<1>4. PmTaken(0)'
  BY <1>1, <1>2, <1>3, PmOtherSide, Zenon
<1>5. PmGiven(0)'
  <2>1. 0 = p_phase' - 1
    OBVIOUS
  <2> QED
    BY <1>1, <1>3, <2>1, Zenon DEF PmGiven, PmAt
<1>6. p_phase' \in 1..5 /\ 0 \in 0..5 /\ "phase" \in PmProcLabel
  BY DEF PmProcLabel
<1>7. p_tcb' \in [PmThread -> PmState]
  BY <1>1, <1>2, Zenon DEF PmTypeOK
<1>8. PmTypeOK' /\ ~p_failed' /\ PmTesting' /\ PmRecorded'
  BY <1>1, <1>4, <1>5, <1>6, <1>7, PmChildSteps, Zenon
<1>9. PmBuilt'
  <2>1. P!PhaseLength' = PmTables' /\ PmTables' \in Nat /\ PmTables' > 0
    <3>1. P!PhaseLength' = Len(P!TableList')
      BY Zenon DEF P!PhaseLength
    <3>2. /\ PmTables' = PmTables /\ PmTables \in Nat /\ PmTables > 0
          /\ P!TableList' = P!TableList /\ Len(P!TableList) = PmTables
      BY <1>1, <1>2, PmSame, PmSizes, PmTableList, Zenon
    <3> QED
      BY <3>1, <3>2, Zenon
  <2>2. PmDone' = 0
    BY <1>3, Zenon DEF PmDone
  <2>3. PmInstalled' = 0 /\ PmMade' = 0
    BY <2>2, Zenon DEF PmInstalled, PmMade
  <2>4. /\ next_free = 3 /\ used = 0 /\ tables = P!TopTables
        /\ \A s \in 3..CSpaceSize : cspace[s] = "empty"
    BY <1>2, Zenon DEF PmHanded
  <2>5. p_i' \in 0..P!PhaseLength' - 1
    <3>1. \A n \in Nat : n > 0 => 0 \in 0..n - 1
      OBVIOUS
    <3> QED
      BY <2>1, <3>1, Zenon
  <2>6. /\ next_free' = 3 /\ used' = PmInstalled' + PmMade' /\ free_slot' = 3 + used'
        /\ ~(p_phase' > 1) /\ free_slot' = 3
    <3>1. next_free' = 3 /\ used' = 0 /\ free_slot' = 3
      BY <1>1, <2>4, Zenon
    <3> QED
      BY <2>3, <3>1
  <2>7. \A s \in free_slot'..CSpaceSize : cspace'[s] = "empty"
    BY <1>1, <2>4, <2>6, Zenon
  <2>8. tables' = P!TopTables' \cup {P!TableList[j] : j \in 1..PmInstalled}'
    <3>1. P!TopTables' = P!TopTables
      BY <1>1, PmSame, Zenon
    <3>2. {P!TableList[j] : j \in 1..PmInstalled}' = {}
      BY <2>3
    <3> QED
      BY <1>1, <2>4, <3>1, <3>2, Zenon
  <2> QED
    BY <1>3, <2>5, <2>6, <2>7, <2>8, Zenon DEF PmBuilt
<1> QED
  BY <1>2, <1>3, <1>8, <1>9, Zenon DEF PmInv, PmMemory

\* The room that is left while the child makes its objects.
LEMMA PmRoom ==
  ASSUME PmTypeOK, PmBuilt, p_pc["proc"] = "phase"
  PROVE  /\ p_i \in Nat /\ p_i < P!PhaseLength /\ PmDone = p_i
         /\ p_phase = 1 => /\ used = p_i /\ p_i < PmTables
                           /\ tables = P!TopTables \cup {P!TableList[j] : j \in 1..p_i}
         /\ p_phase = 2 => used = PmTables + p_i /\ p_i < PmPages
         /\ p_phase > 2 => used = PmTables + PmPages /\ p_i < PmPages
         /\ p_phase < 3 => /\ used < UntypedSize /\ free_slot \in 3..CSpaceSize
                           /\ cspace[free_slot] = "empty"
         /\ used \in Nat /\ free_slot = 3 + used /\ p_phase \in 1..5
<1>1. /\ PmPages \in Nat /\ PmPages > 0 /\ PmTables \in Nat /\ PmTables > 0
      /\ PmTables + PmPages <= UntypedSize /\ UntypedSize \in Nat
  BY PmSizes, PmConstants, Zenon
<1>2. P!PhaseLength = (IF p_phase = 1 THEN PmTables ELSE PmPages) /\ p_phase \in 1..5
  BY PmLength, Zenon DEF PmTypeOK
<1>3. /\ p_i \in 0..P!PhaseLength - 1 /\ PmDone = p_i
      /\ used = PmInstalled + PmMade /\ free_slot = 3 + used
      /\ tables = P!TopTables \cup {P!TableList[j] : j \in 1..PmInstalled}
      /\ \A s \in free_slot..CSpaceSize : cspace[s] = "empty"
  BY Zenon DEF PmBuilt, PmDone
<1>4. p_i \in Nat /\ p_i < P!PhaseLength
  <2>1. P!PhaseLength \in Nat
    BY <1>1, <1>2, Zenon
  <2>2. \A n \in Nat : \A x \in 0..n - 1 : x \in Nat /\ x < n
    OBVIOUS
  <2> QED
    BY <1>3, <2>1, <2>2, Zenon
<1>5. p_phase = 1 => PmInstalled = p_i /\ PmMade = 0
  <2>1. p_phase = 1 => PmInstalled = p_i
    BY <1>3, Zenon DEF PmInstalled
  <2>2. p_phase = 1 => PmMade = 0
    BY DEF PmMade
  <2> QED
    BY <2>1, <2>2, Zenon
<1>6. p_phase = 2 => PmInstalled = PmTables /\ PmMade = p_i
  BY <1>3 DEF PmInstalled, PmMade
<1>7. p_phase > 2 => PmInstalled = PmTables /\ PmMade = PmPages
  BY <1>2 DEF PmInstalled, PmMade
<1>8. /\ p_phase = 1 => used = p_i /\ p_i < PmTables
      /\ p_phase = 2 => used = PmTables + p_i /\ p_i < PmPages
      /\ p_phase > 2 => used = PmTables + PmPages /\ p_i < PmPages
  <2>1. CASE p_phase = 1
    <3>1. used = p_i + 0 /\ p_i < PmTables
      BY <1>2, <1>3, <1>4, <1>5, <2>1, Zenon
    <3> QED
      BY <1>4, <2>1, <3>1
  <2>2. CASE p_phase = 2
    <3>1. used = PmTables + p_i /\ p_i < PmPages
      <4>1. p_phase # 1
        BY <2>2
      <4> QED
        BY <1>2, <1>3, <1>4, <1>6, <2>2, <4>1, Zenon
    <3> QED
      BY <2>2, <3>1
  <2>3. CASE p_phase > 2
    <3>1. used = PmTables + PmPages /\ p_i < PmPages
      <4>1. p_phase # 1
        BY <1>2, <2>3
      <4> QED
        BY <1>2, <1>3, <1>4, <1>7, <2>3, <4>1, Zenon
    <3> QED
      BY <1>2, <2>3, <3>1
  <2> QED
    BY <1>2, <2>1, <2>2, <2>3
<1>9. p_phase = 1 => tables = P!TopTables \cup {P!TableList[j] : j \in 1..p_i}
  BY <1>3, <1>5, Zenon
<1>10. used \in Nat /\ (p_phase < 3 => used < UntypedSize)
  <2>1. CASE p_phase = 1
    BY <1>1, <1>4, <1>8, <2>1
  <2>2. CASE p_phase = 2
    BY <1>1, <1>4, <1>8, <2>2
  <2>3. CASE p_phase > 2
    BY <1>1, <1>2, <1>8, <2>3
  <2> QED
    BY <1>2, <2>1, <2>2, <2>3
<1>11. p_phase < 3 => free_slot \in 3..CSpaceSize /\ free_slot \in free_slot..CSpaceSize
  BY <1>3, <1>10, PmConstants
<1>12. p_phase < 3 => cspace[free_slot] = "empty"
  BY <1>3, <1>11, Zenon
<1> QED
  BY <1>2, <1>3, <1>4, <1>8, <1>9, <1>10, <1>11, <1>12, Zenon

\* The first phase: an object of the untyped becomes a table in a free slot, whose parent
\* is there; no assertion of prepare_page_table fails.
LEMMA PmMakesTable ==
  ASSUME PmTypeOK, PmBuilt, p_pc["proc"] = "phase", p_phase = 1, P!prepare_page_table
  PROVE  /\ cspace' = [cspace EXCEPT ![free_slot] = "table"] /\ used' = used + 1
         /\ tables' = tables \cup {P!TableList[p_i + 1]} /\ p_failed' = p_failed
         /\ free_slot' = free_slot + 1
<1>1. /\ p_i \in Nat /\ p_i < PmTables /\ cspace[free_slot] = "empty" /\ used < UntypedSize
      /\ tables = P!TopTables \cup {P!TableList[j] : j \in 1..p_i}
  <2>1. p_phase < 3
    OBVIOUS
  <2> QED
    BY <2>1, PmRoom, Zenon
<1>2. p_i \in 0..PmTables - 1
  BY <1>1, PmSizes
<1>3. P!CanMapTable(P!TableList[p_i + 1])
  BY <1>1, <1>2, PmCanMap, Zenon
<1>4. P!CanRetype(free_slot)
  BY <1>1, Zenon DEF P!CanRetype
<1> QED
  BY <1>3, <1>4, Zenon DEF P!prepare_page_table

\* The second phase: an object of the untyped becomes a page in a free slot; no assertion
\* of prepare_pages fails.
LEMMA PmMakesPage ==
  ASSUME PmTypeOK, PmBuilt, p_pc["proc"] = "phase", p_phase = 2, P!prepare_pages
  PROVE  /\ cspace' = [cspace EXCEPT ![free_slot] = "page"] /\ used' = used + 1
         /\ tables' = tables /\ p_failed' = p_failed /\ free_slot' = free_slot + 1
<1>1. cspace[free_slot] = "empty" /\ used < UntypedSize
  <2>1. p_phase < 3
    OBVIOUS
  <2> QED
    BY <2>1, PmRoom, Zenon
<1>2. P!CanRetype(free_slot)
  BY <1>1, Zenon DEF P!CanRetype
<1> QED
  BY <1>2, Zenon DEF P!prepare_pages

\* The other phases: a page is mapped, or mapped again with other rights; its slot holds a
\* page and its table is there, so no assertion of map_pages fails.
LEMMA PmMapsPage ==
  ASSUME PmTypeOK, PmBuilt, p_pc["proc"] = "phase", p_phase > 2, NEW x, P!map_pages(x)
  PROVE  /\ cspace' = cspace /\ used' = used /\ tables' = tables /\ p_failed' = p_failed
         /\ free_slot' = free_slot
<1>1. /\ p_i \in Nat /\ p_i < PmPages /\ used = PmTables + PmPages /\ free_slot = 3 + used
      /\ p_phase \in 1..5
  BY PmRoom, Zenon
<1>2. /\ PmPages \in Nat /\ PmTables \in Nat /\ PmTables = levels - 2 + P!PageTables(PmPages)
      /\ P!PageTables(PmPages) \in Nat /\ levels \in {2, 3, 4}
      /\ \A y \in 0..PmPages - 1 : y \div PagePerTable \in 0..P!PageTables(PmPages) - 1
  BY PmSizes, Zenon DEF PmTypeOK, PmLevels, PmTables
<1>3. /\ page_ptr_start = 3 + PmTables
      /\ \A s \in page_ptr_start..free_slot - 1 : cspace[s] = "page"
  <2>1. p_phase > 1
    BY <1>1
  <2> QED
    BY <2>1, Zenon DEF PmBuilt
<1>4. cspace[page_ptr_start + p_i] = "page"
  <2>1. page_ptr_start + p_i \in page_ptr_start..free_slot - 1
    BY <1>1, <1>2, <1>3
  <2> QED
    BY <1>3, <2>1, Zenon
<1>5. P!Table(p_i \div PagePerTable) \in tables
  <2>1. p_i \in 0..PmPages - 1
    BY <1>1, <1>2
  <2> DEFINE y == p_i \div PagePerTable
  <2>2. y \in 0..P!PageTables(PmPages) - 1
    BY <1>2, <2>1, Zenon
  <2> HIDE DEF y
  <2>3. P!TableList[levels - 1 + y] = P!Table(y)
    BY <2>2, PmTableList, Zenon
  <2>4. levels - 1 + y \in 1..PmTables
    BY <1>2, <2>2
  <2>5. PmInstalled = PmTables
    BY <1>1 DEF PmInstalled
  <2>6. {P!TableList[j] : j \in 1..PmTables} \subseteq tables
    BY <2>5, Zenon DEF PmBuilt
  <2>7. P!Table(y) \in tables
    BY <2>3, <2>4, <2>6, Zenon
  <2> QED
    BY <2>7, Zenon DEF y
<1> QED
  BY <1>4, <1>5, Zenon DEF P!map_pages

\* One more object: the loop counter, and the end of the phase.
LEMMA PmCounts ==
  ASSUME PmTypeOK, PmBuilt, p_pc["proc"] = "phase",
         P!Step(P!Proc, "phase", IF p_i + 1 = P!PhaseLength THEN "send" ELSE "phase"),
         p_i' = (p_i + 1) % P!PhaseLength, p_phase' = p_phase,
         levels' = levels, topMapped' = topMapped, test' = test
  PROVE  /\ PmDone = p_i /\ PmDone' = p_i + 1 /\ p_i \in Nat
         /\ IF p_pc'["proc"] = "phase" THEN p_i' \in 0..P!PhaseLength' - 1 ELSE p_i' = 0
         /\ p_pc'["proc"] = (IF p_i + 1 = P!PhaseLength THEN "send" ELSE "phase")
         /\ P!PhaseLength' = P!PhaseLength /\ P!PhaseLength = P!Work(PmPages, p_phase)
<1>1. p_pc'["proc"] = (IF p_i + 1 = P!PhaseLength THEN "send" ELSE "phase")
  BY PmStates, Zenon DEF P!Step, PmTypeOK
<1>2. P!PhaseLength' = P!PhaseLength
  BY PmSame, Zenon DEF P!PhaseLength
<1>3. /\ P!PhaseLength = P!Work(PmPages, p_phase)
      /\ p_i \in Nat /\ p_i < P!PhaseLength /\ PmDone = p_i /\ P!PhaseLength \in Nat
  <2>1. P!PhaseLength = IF p_phase = 1 THEN PmTables ELSE PmPages
    BY PmLength, Zenon
  <2>2. P!PhaseLength \in Nat
    BY <2>1, PmSizes, Zenon
  <2> QED
    BY <2>2, PmLength, PmRoom, Zenon
<1> DEFINE n == P!PhaseLength
<1> HIDE DEF n
<1>4. CASE p_i + 1 = n
  <2>1. p_i' = 0
    <3>1. n \in Nat /\ n > 0 /\ p_i' = n % n
      BY <1>3, <1>4 DEF n
    <3> QED
      BY <3>1
  <2>2. p_pc'["proc"] = "send" /\ "send" # "phase"
    BY <1>1, <1>4, Zenon DEF n
  <2>3. PmDone' = p_i + 1
    BY <1>2, <1>4, <2>2, Zenon DEF PmDone, n
  <2> QED
    BY <1>1, <1>2, <1>3, <2>1, <2>2, <2>3, Zenon
<1>5. CASE p_i + 1 # n
  <2>1. p_i + 1 < n /\ n \in Nat /\ p_i \in Nat
    BY <1>3, <1>5 DEF n
  <2>2. p_i' = p_i + 1 /\ p_i + 1 \in 0..n - 1
    <3>1. p_i' = (p_i + 1) % n
      BY Zenon DEF n
    <3> QED
      BY <2>1, <3>1
  <2>3. p_pc'["proc"] = "phase"
    BY <1>1, <1>5, Zenon DEF n
  <2>4. PmDone' = p_i + 1
    BY <2>2, <2>3, Zenon DEF PmDone
  <2> QED
    BY <1>1, <1>2, <1>3, <2>2, <2>3, <2>4, Zenon DEF n
<1> QED
  BY <1>4, <1>5, Zenon

\* The child makes or maps one object.
LEMMA PmBuilds ==
  ASSUME PmTypeOK, PmBuilt, p_pc["proc"] = "phase", P!PhaseStep,
         P!Step(P!Proc, "phase", IF p_i + 1 = P!PhaseLength THEN "send" ELSE "phase"),
         p_i' = (p_i + 1) % P!PhaseLength, p_phase' = p_phase,
         page_ptr_start' = page_ptr_start, next_free' = next_free,
         levels' = levels, topMapped' = topMapped, test' = test
  PROVE  PmBuilt' /\ p_failed' = p_failed /\ DOMAIN cspace' = DOMAIN cspace
<1>1. /\ PmDone = p_i /\ PmDone' = p_i + 1 /\ p_i \in Nat
      /\ IF p_pc'["proc"] = "phase" THEN p_i' \in 0..P!PhaseLength' - 1 ELSE p_i' = 0
  BY PmCounts, Zenon
<1>2. PmTables' = PmTables /\ PmPages' = PmPages /\ P!TableList' = P!TableList
      /\ P!TopTables' = P!TopTables
  BY PmSame, Zenon
<1>3. /\ PmTables \in Nat /\ PmPages \in Nat /\ CSpaceSize \in Nat
      /\ DOMAIN cspace = 1..CSpaceSize
  BY PmSizes, PmConstants, Zenon DEF PmTypeOK
<1>4. /\ used \in Nat /\ free_slot = 3 + used /\ p_phase \in 1..5
      /\ p_phase < 3 => free_slot \in 3..CSpaceSize
  BY PmRoom, Zenon
<1>5. /\ next_free = 3 /\ used = PmInstalled + PmMade
      /\ \A s \in free_slot..CSpaceSize : cspace[s] = "empty"
      /\ tables = P!TopTables \cup {P!TableList[j] : j \in 1..PmInstalled}
      /\ p_phase > 1 =>
           /\ page_ptr_start = 3 + PmTables
           /\ \A s \in page_ptr_start..free_slot - 1 : cspace[s] = "page"
  BY Zenon DEF PmBuilt
<1>6. ASSUME used' = used + 1, free_slot' = free_slot + 1, p_phase < 3, NEW x,
             cspace' = [cspace EXCEPT ![free_slot] = x]
      PROVE  /\ free_slot' = 3 + used' /\ \A s \in free_slot'..CSpaceSize : cspace'[s] = "empty"
             /\ DOMAIN cspace' = DOMAIN cspace
             /\ cspace'[free_slot] = x /\ \A s \in 3..free_slot - 1 : cspace'[s] = cspace[s]
  <2>1. free_slot' = 3 + used'
    BY <1>4, <1>6
  <2>2. \A s \in free_slot'..CSpaceSize :
          s \in free_slot..CSpaceSize /\ s # free_slot /\ s \in 1..CSpaceSize
    BY <1>3, <1>4, <1>6
  <2>3. free_slot \in 1..CSpaceSize
        /\ \A s \in 3..free_slot - 1 : s # free_slot /\ s \in 1..CSpaceSize
    BY <1>3, <1>4, <1>6
  <2> QED
    BY <1>3, <1>5, <1>6, <2>1, <2>2, <2>3, Zenon
<1>7. CASE p_phase = 1
  <2>1. /\ cspace' = [cspace EXCEPT ![free_slot] = "table"] /\ used' = used + 1
        /\ tables' = tables \cup {P!TableList[p_i + 1]} /\ p_failed' = p_failed
        /\ free_slot' = free_slot + 1
    <3>1. P!prepare_page_table
      BY <1>7 DEF P!PhaseStep
    <3> QED
      BY <1>7, <3>1, PmMakesTable, Zenon
  <2>2. p_phase < 3 /\ ~(p_phase > 1)
    BY <1>7
  <2>3. /\ free_slot' = 3 + used' /\ \A s \in free_slot'..CSpaceSize : cspace'[s] = "empty"
        /\ DOMAIN cspace' = DOMAIN cspace
    BY <1>6, <2>1, <2>2, Zenon
  <2>4. PmInstalled = p_i /\ PmInstalled' = p_i + 1
    BY <1>1, <1>7, Zenon DEF PmInstalled
  <2>5. PmMade = 0 /\ PmMade' = 0
    BY <1>7 DEF PmMade
  <2>6. used' = PmInstalled' + PmMade'
    <3>1. used' = (p_i + 0) + 1
      BY <1>5, <2>1, <2>4, <2>5, Zenon
    <3>2. used' = (p_i + 1) + 0
      BY <1>1, <3>1
    <3> QED
      BY <2>4, <2>5, <3>2, Zenon
  <2>7. tables' = P!TopTables' \cup {P!TableList[j] : j \in 1..PmInstalled}'
    <3>1. 1..p_i + 1 = (1..p_i) \cup {p_i + 1}
      BY <1>1
    <3>2. {P!TableList[j] : j \in 1..PmInstalled}' = {P!TableList[j] : j \in 1..p_i + 1}
      BY <1>2, <2>4, Zenon
    <3>3. tables = P!TopTables \cup {P!TableList[j] : j \in 1..p_i}
      BY <1>5, <2>4, Zenon
    <3> QED
      BY <1>2, <2>1, <3>1, <3>2, <3>3, Zenon
  <2> QED
    BY <1>1, <1>5, <2>1, <2>2, <2>3, <2>6, <2>7, Zenon DEF PmBuilt
<1>8. CASE p_phase = 2
  <2>1. /\ cspace' = [cspace EXCEPT ![free_slot] = "page"] /\ used' = used + 1
        /\ tables' = tables /\ p_failed' = p_failed /\ free_slot' = free_slot + 1
    <3>1. P!prepare_pages
      BY <1>8 DEF P!PhaseStep
    <3> QED
      BY <1>8, <3>1, PmMakesPage, Zenon
  <2>2. p_phase < 3 /\ p_phase > 1 /\ p_phase # 1
    BY <1>8
  <2>3. /\ free_slot' = 3 + used' /\ \A s \in free_slot'..CSpaceSize : cspace'[s] = "empty"
        /\ DOMAIN cspace' = DOMAIN cspace
        /\ cspace'[free_slot] = "page" /\ \A s \in 3..free_slot - 1 : cspace'[s] = cspace[s]
    BY <1>6, <2>1, <2>2, Zenon
  <2>4. PmInstalled = PmTables /\ PmInstalled' = PmTables
    BY <1>2, <2>2, Zenon DEF PmInstalled
  <2>5. PmMade = p_i /\ PmMade' = p_i + 1
    BY <1>1, <1>8 DEF PmMade
  <2>6. used' = PmInstalled' + PmMade'
    <3>1. used' = (PmTables + p_i) + 1
      BY <1>5, <2>1, <2>4, <2>5, Zenon
    <3>2. used' = PmTables + (p_i + 1)
      BY <1>1, <1>3, <3>1
    <3> QED
      BY <2>4, <2>5, <3>2, Zenon
  <2>7. tables' = P!TopTables' \cup {P!TableList[j] : j \in 1..PmInstalled}'
    BY <1>2, <1>5, <2>1, <2>4, Zenon
  <2>8. \A s \in page_ptr_start..free_slot' - 1 : cspace'[s] = "page"
    <3> SUFFICES ASSUME NEW s \in page_ptr_start..free_slot' - 1
                 PROVE  cspace'[s] = "page"
      OBVIOUS
    <3>1. page_ptr_start = 3 + PmTables
      BY <1>5, <2>2, Zenon
    <3>2. s = free_slot \/ (s \in page_ptr_start..free_slot - 1 /\ s \in 3..free_slot - 1)
      BY <1>3, <1>4, <2>1, <3>1
    <3> QED
      BY <1>5, <2>2, <2>3, <3>2, Zenon
  <2> QED
    BY <1>1, <1>2, <1>5, <2>1, <2>2, <2>3, <2>6, <2>7, <2>8, Zenon DEF PmBuilt
<1>9. CASE p_phase > 2
  <2>1. /\ cspace' = cspace /\ used' = used /\ tables' = tables /\ p_failed' = p_failed
        /\ free_slot' = free_slot
    <3>1. \E x : P!map_pages(x)
      <4>1. CASE p_phase = 3
        BY <4>1 DEF P!PhaseStep
      <4>2. CASE p_phase = 4
        BY <4>2 DEF P!PhaseStep
      <4>3. CASE p_phase = 5
        BY <4>3 DEF P!PhaseStep
      <4> QED
        BY <1>4, <1>9, <4>1, <4>2, <4>3
    <3> QED
      BY <1>9, <3>1, PmMapsPage, Zenon
  <2>2. p_phase # 1 /\ p_phase # 2 /\ p_phase > 1
    BY <1>4, <1>9
  <2>3. PmInstalled' = PmInstalled /\ PmMade' = PmMade
    BY <1>2, <2>2, Zenon DEF PmInstalled, PmMade
  <2>4. tables' = P!TopTables' \cup {P!TableList[j] : j \in 1..PmInstalled}'
    BY <1>2, <1>5, <2>1, <2>3, Zenon
  <2> QED
    BY <1>1, <1>2, <1>4, <1>5, <2>1, <2>2, <2>3, <2>4, Zenon DEF PmBuilt
<1> QED
  BY <1>4, <1>7, <1>8, <1>9

\* A step of one of the five phases.
LEMMA PmPhases ==
  ASSUME PmInv, p_tcb["proc"] = P!Running, P!PhaseStep,
         P!Step(P!Proc, "phase", IF p_i + 1 = P!PhaseLength THEN "send" ELSE "phase"),
         p_i' = (p_i + 1) % P!PhaseLength, cost' = p_i + 1,
         UNCHANGED <<p_tcb, p_active, p_phase, page_ptr_start, p_mr>>,
         UNCHANGED <<levels, topMapped, next_free, P!loopvars, p_results>>
  PROVE  PmInv'
<1> USE PmStates
<1> DEFINE l == IF p_i + 1 = P!PhaseLength THEN "send" ELSE "phase"
<1>1. /\ p_pc["proc"] = "phase" /\ p_pc' = [p_pc EXCEPT !["proc"] = l]
      /\ p_tcb' = p_tcb /\ p_mr' = p_mr /\ p_phase' = p_phase /\ page_ptr_start' = page_ptr_start
      /\ levels' = levels /\ topMapped' = topMapped /\ next_free' = next_free
      /\ p_run' = p_run /\ test' = test /\ k' = k /\ p_results' = p_results
  BY Zenon DEF P!Step, P!loopvars
<1>2. PmTypeOK /\ PmBuilt /\ p_pc["main"] \in {"get", "got"}
  BY <1>1, PmChildRuns, Zenon
<1>3. PICK m \in 0..5 : PmTaken(m) /\ m = p_phase - 1
  BY <1>1, PmChildRuns, Zenon
<1>4. PmBuilt' /\ p_failed' = p_failed /\ DOMAIN cspace' = DOMAIN cspace
  BY <1>1, <1>2, PmBuilds, Zenon
<1>5. p_pc'["main"] = p_pc["main"] /\ p_pc'["proc"] = l
  BY <1>1, <1>2, Zenon DEF PmTypeOK
<1>6. PmTaken(m)'
  BY <1>1, <1>3, <1>5, PmOtherSide, Zenon
<1>7. PmGiven(m)'
  <2>1. /\ P!PhaseLength = P!Work(PmPages, p_phase)
        /\ P!Work(PmPages, p_phase)' = P!Work(PmPages, p_phase)
    BY <1>1, <1>2, PmLength, PmSame, Zenon
  <2>2. CASE p_i + 1 = P!PhaseLength
    BY <1>1, <1>3, <1>5, <2>1, <2>2, Zenon DEF PmGiven, PmAt
  <2>3. CASE p_i + 1 # P!PhaseLength
    BY <1>1, <1>3, <1>5, <2>3, Zenon DEF PmGiven, PmAt
  <2> QED
    BY <2>2, <2>3, Zenon
<1>8. p_tcb' \in [PmThread -> PmState] /\ p_phase' \in 1..5 /\ l \in PmProcLabel
  BY <1>1, <1>2, Zenon DEF PmTypeOK, PmProcLabel
<1>9. PmTypeOK' /\ ~p_failed' /\ PmTesting' /\ PmRecorded'
  BY <1>1, <1>4, <1>6, <1>7, <1>8, PmChildSteps, Zenon
<1>10. p_pc'["proc"] # "start"
  BY <1>5, Zenon
<1> QED
  BY <1>2, <1>4, <1>5, <1>9, <1>10, Zenon DEF PmInv, PmMemory

\* The child's objects are not touched by its send; the next phase has done nothing.
LEMMA PmBuiltBehindSend ==
  ASSUME PmTypeOK, PmBuilt, p_pc["proc"] = "send",
         p_pc'["proc"] = (IF p_phase = 5 THEN "wait" ELSE "phase"),
         p_phase' = (IF p_phase = 5 THEN p_phase ELSE p_phase + 1),
         page_ptr_start' = (IF p_phase = 1 THEN free_slot ELSE page_ptr_start),
         p_i' = p_i, free_slot' = free_slot, cspace' = cspace, used' = used,
         tables' = tables, next_free' = next_free,
         levels' = levels, topMapped' = topMapped, test' = test
  PROVE  PmBuilt'
<1>1. /\ PmTables' = PmTables /\ PmPages' = PmPages /\ P!TableList' = P!TableList
      /\ P!TopTables' = P!TopTables /\ P!npage' = PmPages
  BY PmSame, PmSizes, Zenon
<1>2. /\ PmTables \in Nat /\ PmPages \in Nat /\ PmPages > 0 /\ p_phase \in 1..5
      /\ P!PhaseLength = (IF p_phase = 1 THEN PmTables ELSE PmPages)
  BY PmSizes, PmLength, Zenon DEF PmTypeOK
<1>3. /\ next_free = 3 /\ p_i = 0 /\ used = PmInstalled + PmMade /\ free_slot = 3 + used
      /\ \A s \in free_slot..CSpaceSize : cspace[s] = "empty"
      /\ tables = P!TopTables \cup {P!TableList[j] : j \in 1..PmInstalled}
      /\ p_phase > 1 =>
           /\ page_ptr_start = 3 + PmTables
           /\ \A s \in page_ptr_start..free_slot - 1 : cspace[s] = "page"
      /\ PmDone = P!PhaseLength
  BY Zenon DEF PmBuilt, PmDone
<1>4. PmInstalled = PmTables
  BY <1>2, <1>3, Zenon DEF PmInstalled
<1>5. PmMade = IF p_phase = 1 THEN 0 ELSE PmPages
  <2>1. CASE p_phase = 1
    BY <2>1 DEF PmMade
  <2>2. CASE p_phase = 2
    BY <1>2, <1>3, <2>2 DEF PmMade
  <2>3. CASE p_phase > 2
    BY <1>2, <2>3 DEF PmMade
  <2> QED
    BY <1>2, <2>1, <2>2, <2>3
<1>6. p_phase' \in 2..5 /\ p_phase' # 1 /\ p_phase' > 1
      /\ (p_phase = 1 <=> p_phase' = 2)
  BY <1>2
<1>7. PmInstalled' = PmTables
  BY <1>1, <1>6, Zenon DEF PmInstalled
<1>8. PmMade' = IF p_phase = 1 THEN 0 ELSE PmPages
  <2>1. CASE p_phase = 1
    <3>1. p_pc'["proc"] = "phase"
      <4>1. p_phase # 5
        BY <2>1
      <4> QED
        BY <4>1, Zenon
    <3>2. PmDone' = 0
      BY <1>3, <3>1, Zenon DEF PmDone
    <3>3. PmMade' = PmDone'
      BY <1>6, <2>1 DEF PmMade
    <3> QED
      BY <2>1, <3>2, <3>3, Zenon
  <2>2. CASE p_phase # 1
    <3>1. p_phase' # 2
      BY <1>6, <2>2, Zenon
    <3> QED
      BY <1>1, <1>6, <2>2, <3>1, Zenon DEF PmMade
  <2> QED
    BY <2>1, <2>2, Zenon
<1>9. used' = PmInstalled' + PmMade' /\ free_slot' = 3 + used'
  BY <1>3, <1>4, <1>5, <1>7, <1>8, Zenon
<1>10. tables' = P!TopTables' \cup {P!TableList[j] : j \in 1..PmInstalled}'
  BY <1>1, <1>3, <1>4, <1>7, Zenon
<1>11. IF p_pc'["proc"] = "phase" THEN p_i' \in 0..P!PhaseLength' - 1 ELSE p_i' = 0
  <2>1. P!PhaseLength' = PmPages
    BY <1>1, <1>6, Zenon DEF P!PhaseLength
  <2>2. 0 \in 0..PmPages - 1
    BY <1>2
  <2> QED
    BY <1>3, <2>1, <2>2, Zenon
<1>12. /\ page_ptr_start' = 3 + PmTables
       /\ \A s \in page_ptr_start'..free_slot' - 1 : cspace'[s] = "page"
  <2>1. CASE p_phase = 1
    <3>1. PmMade = 0 /\ page_ptr_start' = free_slot /\ used = PmTables + 0
      BY <1>3, <1>4, <1>5, <2>1, Zenon
    <3>2. page_ptr_start' = 3 + PmTables /\ free_slot' = 3 + PmTables
      BY <1>2, <1>3, <3>1
    <3>3. \A n \in Nat : 3 + n..(3 + n) - 1 = {}
      OBVIOUS
    <3> QED
      BY <1>2, <3>2, <3>3, Zenon
  <2>2. CASE p_phase # 1
    <3>1. p_phase > 1
      BY <1>2, <2>2
    <3> QED
      BY <1>3, <2>2, <3>1, Zenon
  <2> QED
    BY <2>1, <2>2, Zenon
<1> QED
  BY <1>1, <1>3, <1>6, <1>9, <1>10, <1>11, <1>12, Zenon DEF PmBuilt

\* The child hands the cost of the phase to main, or blocks until main asks for it.
LEMMA PmSends ==
  ASSUME PmInv, p_tcb["proc"] = P!Running,
         P!Step(P!Proc, "send", IF p_phase = P!NPHASE THEN "wait" ELSE "phase"),
         P!Send(P!Proc, P!Ep),
         p_mr' = (IF p_tcb[P!Main] = P!RecvingOn(P!Ep) THEN cost ELSE p_mr),
         p_phase' = (IF p_phase = P!NPHASE THEN p_phase ELSE p_phase + 1),
         page_ptr_start' = (IF p_phase = 1 THEN free_slot ELSE page_ptr_start),
         UNCHANGED <<P!memvars, p_i, free_slot, cost, p_failed>>,
         UNCHANGED <<levels, topMapped, next_free, P!loopvars, p_results>>
  PROVE  PmInv'
<1> USE PmStates
<1> DEFINE l == IF p_phase = 5 THEN "wait" ELSE "phase"
<1>1. /\ p_pc["proc"] = "send" /\ p_pc' = [p_pc EXCEPT !["proc"] = l]
      /\ p_phase' = (IF p_phase = 5 THEN p_phase ELSE p_phase + 1)
      /\ p_mr' = (IF p_tcb["main"] = PmReceiving THEN cost ELSE p_mr)
      /\ cspace' = cspace /\ used' = used /\ tables' = tables /\ p_failed' = p_failed
      /\ levels' = levels /\ topMapped' = topMapped /\ next_free' = next_free
      /\ p_run' = p_run /\ test' = test /\ k' = k /\ p_results' = p_results
  BY Zenon DEF P!Step, P!loopvars, P!memvars, P!NPHASE, PmReceiving
<1>2. PmTypeOK /\ PmBuilt /\ p_pc["main"] \in {"get", "got"}
  BY <1>1, PmChildRuns, Zenon
<1>3. PICK m \in 0..5 : PmTaken(m) /\ m = p_phase - 1 /\ cost = P!Work(PmPages, p_phase)
  BY <1>1, PmChildRuns, Zenon
<1>4. p_pc'["main"] = p_pc["main"] /\ p_pc'["proc"] = l
  BY <1>1, <1>2, Zenon DEF PmTypeOK
<1>5. PmBuilt'
  BY <1>1, <1>2, <1>4, PmBuiltBehindSend, Zenon
<1>6. p_phase \in 1..5 /\ k \in 1..5
  BY <1>2, Zenon DEF PmTypeOK
<1>7. p_phase' \in 1..5 /\ m + 1 = p_phase
  BY <1>1, <1>3, <1>6
<1>8. PmPages' = PmPages /\ \A n, p : P!Work(n, p)' = P!Work(n, p)
  BY <1>1, PmSame, Zenon
<1>9. p_tcb' \in [PmThread -> PmState] /\ \E n \in 0..5 : PmTaken(n)' /\ PmGiven(n)'
  <2>1. DOMAIN p_tcb = {"main", "proc"}
    BY <1>2, Zenon DEF PmTypeOK
  <2>2. CASE p_tcb["main"] = PmReceiving
    <3>1. P!Blocked(PmReceiving) = {"main"}
      BY <2>1, <2>2, Zenon DEF P!Blocked
    <3>2. p_tcb' = [p_tcb EXCEPT !["main"] = P!Running]
      BY <3>1, Zenon DEF P!Send, P!SetState, PmReceiving
    <3>3. /\ p_tcb' \in [PmThread -> PmState] /\ p_tcb'["main"] = P!Running
          /\ p_tcb'["proc"] = P!Running
      BY <1>2, <3>2, Zenon DEF PmTypeOK, PmState
    <3>4. p_pc["main"] = "got" /\ m = k - 1
      BY <1>3, <2>2, Zenon DEF PmTaken, PmAt
    <3>5. k = p_phase /\ m + 1 = k /\ m + 1 \in 0..5
      BY <1>3, <1>6, <3>4
    <3>6. p_mr' = P!Work(PmPages, k)'
      BY <1>1, <1>3, <1>8, <2>2, <3>5, Zenon
    <3>7. PmTaken(m + 1)'
      BY <1>1, <1>4, <3>3, <3>4, <3>5, <3>6, Zenon DEF PmTaken, PmAt
    <3>8. PmGiven(m + 1)'
      <4>1. CASE p_phase = 5
        BY <1>1, <1>4, <3>3, <3>5, <4>1, Zenon DEF PmGiven, PmAt
      <4>2. CASE p_phase # 5
        <5>0. p_phase' = p_phase + 1
          BY <1>1, <4>2, Zenon
        <5>1. m + 1 = p_phase' - 1
          BY <1>6, <3>5, <5>0
        <5> QED
          BY <1>4, <3>3, <4>2, <5>1, Zenon DEF PmGiven, PmAt
      <4> QED
        BY <4>1, <4>2, Zenon
    <3> QED
      BY <3>3, <3>5, <3>7, <3>8, Zenon
  <2>3. CASE p_tcb["main"] # PmReceiving
    <3>1. P!Blocked(PmReceiving) = {}
      BY <2>1, <2>3, Zenon DEF P!Blocked
    <3>2. p_tcb' = [p_tcb EXCEPT !["proc"] = PmSending]
      BY <3>1, Zenon DEF P!Send, P!SetState, PmReceiving, PmSending
    <3>3. /\ p_tcb' \in [PmThread -> PmState] /\ p_tcb'["main"] = p_tcb["main"]
          /\ p_tcb'["proc"] = PmSending
      BY <1>2, <3>2, Zenon DEF PmTypeOK, PmState
    <3>4. PmTaken(m)'
      BY <1>1, <1>3, <1>4, <2>3, <3>3, PmOtherSide, Zenon
    <3>5. PmGiven(m)'
      <4>1. CASE p_phase = 5
        <5>1. m = 4
          BY <1>3, <4>1
        <5>2. cost' = P!Work(PmPages, 5)'
          BY <1>3, <1>8, <4>1, Zenon
        <5> QED
          BY <1>1, <1>4, <3>3, <4>1, <5>1, <5>2, Zenon DEF PmGiven, PmAt, PmSending
      <4>2. CASE p_phase # 5
        <5>1. m = p_phase' - 2 /\ p_phase' - 1 = p_phase
          BY <1>1, <1>3, <1>6, <4>2
        <5>2. cost' = P!Work(PmPages, p_phase - 1)'
          BY <1>3, <1>8, <5>1, Zenon
        <5> QED
          BY <1>4, <3>3, <4>2, <5>1, <5>2, Zenon DEF PmGiven, PmAt, PmSending
      <4> QED
        BY <4>1, <4>2, Zenon
    <3> QED
      BY <3>3, <3>4, <3>5, Zenon
  <2> QED
    BY <2>2, <2>3, Zenon
<1>10. l \in PmProcLabel /\ l # "start"
  BY Zenon DEF PmProcLabel
<1>11. PmTypeOK' /\ ~p_failed' /\ PmTesting' /\ PmRecorded'
  BY <1>1, <1>7, <1>9, <1>10, PmChildSteps, Zenon
<1> QED
  BY <1>2, <1>4, <1>5, <1>10, <1>11, Zenon DEF PmInv, PmMemory

\* The child has sent all its results and waits to be stopped.
LEMMA PmWaits ==
  ASSUME PmInv, p_tcb["proc"] = P!Running, P!Step(P!Proc, "wait", "off_call_stack"),
         P!Recv(P!Proc, P!Ep), UNCHANGED <<P!memvars, P!childvars, p_mr, p_failed>>,
         UNCHANGED <<levels, topMapped, next_free, P!loopvars, p_results>>
  PROVE  PmInv'
<1> USE PmStates
<1>1. /\ p_pc["proc"] = "wait" /\ p_pc' = [p_pc EXCEPT !["proc"] = "off_call_stack"]
      /\ p_phase' = p_phase /\ p_i' = p_i /\ free_slot' = free_slot
      /\ page_ptr_start' = page_ptr_start /\ cost' = cost /\ p_mr' = p_mr
      /\ cspace' = cspace /\ used' = used /\ tables' = tables /\ p_failed' = p_failed
      /\ levels' = levels /\ topMapped' = topMapped /\ next_free' = next_free
      /\ p_run' = p_run /\ test' = test /\ k' = k /\ p_results' = p_results
  BY Zenon DEF P!Step, P!loopvars, P!memvars, P!childvars
<1>2. PmTypeOK
  BY PmChildRuns, Zenon
<1>3. PmTaken(5) /\ p_phase = 5 /\ 5 \in 0..5
  <2>1. 5 \in 0..5
    OBVIOUS
  <2> QED
    BY <1>1, <2>1, PmChildRuns, Zenon
<1>4. p_pc'["main"] = p_pc["main"] /\ p_pc'["proc"] = "off_call_stack"
  BY <1>1, <1>2, Zenon DEF PmTypeOK
<1>5. /\ p_tcb' \in [PmThread -> PmState] /\ p_tcb'["main"] = p_tcb["main"]
      /\ p_tcb'["proc"] = PmReceiving
  <2>1. DOMAIN p_tcb = {"main", "proc"}
    BY <1>2, Zenon DEF PmTypeOK
  <2>2. p_tcb["main"] # PmSending
    BY <1>3, Zenon DEF PmTaken, PmAt
  <2>3. P!Blocked(PmSending) = {}
    BY <2>1, <2>2, Zenon DEF P!Blocked
  <2>4. p_tcb' = [p_tcb EXCEPT !["proc"] = PmReceiving]
    BY <2>3, Zenon DEF P!Recv, P!SetState, PmReceiving, PmSending
  <2> QED
    BY <1>2, <2>4, Zenon DEF PmTypeOK, PmState
<1>6. PmTaken(5)'
  BY <1>1, <1>3, <1>4, <1>5, PmOtherSide, Zenon
<1>7. PmGiven(5)'
  BY <1>1, <1>3, <1>4, <1>5, Zenon DEF PmGiven, PmAt, PmReceiving
<1>8. p_phase' \in 1..5 /\ "off_call_stack" \in PmProcLabel
  BY <1>1, <1>2, Zenon DEF PmTypeOK, PmProcLabel
<1>9. PmTypeOK' /\ ~p_failed' /\ PmTesting' /\ PmRecorded'
  BY <1>1, <1>3, <1>5, <1>6, <1>7, <1>8, PmChildSteps, Zenon
<1>10. PmMemory'
  <2>1. /\ PmTables' = PmTables /\ PmPages' = PmPages /\ P!TableList' = P!TableList
        /\ P!TopTables' = P!TopTables /\ P!npage' = P!npage
    BY <1>1, PmSame, Zenon
  <2>2. P!PhaseLength' = P!PhaseLength
    BY <1>1, <2>1, Zenon DEF P!PhaseLength
  <2>3. PmDone' = PmDone
    BY <1>1, <1>4, <2>2, Zenon DEF PmDone
  <2>4. PmInstalled' = PmInstalled /\ PmMade' = PmMade
    BY <1>1, <2>1, <2>3, Zenon DEF PmInstalled, PmMade
  <2>5. PmBuilt => PmBuilt'
    BY <1>1, <1>4, <2>1, <2>2, <2>4, ZenonT(90) DEF PmBuilt
  <2>6. PmFresh => PmFresh'
    BY <1>1, <2>1, Zenon DEF PmFresh
  <2>7. PmHanded => PmHanded'
    BY <1>1, <2>1, Zenon DEF PmHanded
  <2> QED
    BY <1>1, <1>4, <2>5, <2>6, <2>7, Zenon DEF PmMemory, PmInv
<1> QED
  BY <1>9, <1>10, Zenon DEF PmInv

\* The other applications leave this one alone.
LEMMA PmStutters ==
  ASSUME PmInv, UNCHANGED pagemappingvars
  PROVE  PmInv'
<1>1. /\ p_tcb' = p_tcb /\ p_pc' = p_pc /\ cspace' = cspace /\ next_free' = next_free
      /\ used' = used /\ tables' = tables /\ p_run' = p_run /\ test' = test /\ k' = k
      /\ p_results' = p_results /\ p_phase' = p_phase /\ p_i' = p_i
      /\ free_slot' = free_slot /\ page_ptr_start' = page_ptr_start /\ cost' = cost
      /\ p_mr' = p_mr /\ p_failed' = p_failed /\ levels' = levels /\ topMapped' = topMapped
  BY Zenon DEF pagemappingvars
<1>2. /\ PmTypeOK /\ ~p_failed /\ (PmApart \/ PmTesting) /\ PmMemory /\ PmRecorded
  BY Zenon DEF PmInv
<1>3. PmTypeOK'
  BY <1>1, <1>2, PmSame, Zenon DEF PmTypeOK
<1>4. PmApart => PmApart'
  BY <1>1, Zenon DEF PmApart
<1>5. PmTesting => PmTesting'
  BY <1>1, PmOtherSide, Zenon DEF PmTesting
<1>6. PmMemory'
  BY <1>1, <1>2, PmKeepsMemory, Zenon DEF PmMemory
<1>7. PmRecorded'
  <2>1. PmNextPhase' = PmNextPhase
    BY <1>1, Zenon DEF PmNextPhase
  <2> QED
    BY <1>1, <1>2, <2>1, PmKeepsRecords, Zenon
<1> QED
  BY <1>1, <1>2, <1>3, <1>4, <1>5, <1>6, <1>7, Zenon DEF PmInv

\* Every step of the application preserves the invariant.
LEMMA PmStep ==
  ASSUME PmInv, P!Next
  PROVE  PmInv'
<1>1. CASE p_tcb["main"] = P!Running /\ P!MainStep
  <2>1. UNCHANGED <<levels, topMapped>>
    BY <1>1, Zenon DEF P!MainStep
  <2> QED
    BY <1>1, <2>1, PmCopies, PmSpawns, PmGets, PmRecords, PmRevokes, PmSuspends, Zenon
       DEF P!MainStep
<1>2. CASE p_tcb["proc"] = P!Running /\ P!bench_proc
  BY <1>2, PmStarts, PmPhases, PmSends, PmWaits, Zenon DEF P!bench_proc
<1>3. CASE P!Done
  <2>1. UNCHANGED pagemappingvars
    BY <1>3, Zenon DEF P!Done, P!vars, P!memvars, P!loopvars, P!childvars, pagemappingvars
  <2> QED
    BY <2>1, PmStutters, Zenon
<1> QED
  BY <1>1, <1>2, <1>3, PmStates, Zenon DEF P!Next

\* Main and the child agree on the number of results that were handed over; at every
\* step the slots, the tables and what is left of the untyped are those of the objects
\* made so far; and every result recorded so far is the work of its test and phase.
THEOREM PageMappingInvariance == MCSpec => []PmInv
<1>1. MCInit => PmInv
  <2> SUFFICES ASSUME MCInit PROVE PmInv
    BY Zenon
  <2>1. P!Init
    BY Zenon DEF MCInit
  <2>2. /\ p_tcb = [t \in {"main", "proc"} |-> IF t = "main" THEN P!Running ELSE P!Inactive]
        /\ p_pc = [t \in {"main", "proc"} |-> IF t = "main" THEN "copy" ELSE "start"]
        /\ cspace = [s \in 1..CSpaceSize |-> IF s = 1 THEN "endpoint" ELSE "empty"]
        /\ next_free = 1 + 1 /\ used = 0 /\ tables = P!TopTables
        /\ p_run = 1 /\ test = 1 /\ k = 1 /\ p_phase = 1 /\ p_failed = FALSE
    BY <2>1, PmStates, Zenon DEF P!Init, P!FirstSlot
  <2>3. PmLevels
    BY <2>1 DEF P!Init, PmLevels
  <2>4. p_results \in [P!Test -> [1..5 -> [1..PageRuns -> Int]]]
    <3>1. p_results = [j \in P!Test |-> [q \in 1..5 |-> [x \in 1..PageRuns |-> 0]]]
      BY <2>1, Zenon DEF P!Init, P!NPHASE
    <3>2. 0 \in Int
      OBVIOUS
    <3> QED
      BY <3>1, <3>2, Zenon
  <2>5. /\ 1 \in P!Test /\ 1 \in 1..PageRuns + 1 /\ 1 \in 1..5 /\ 1 + 1 = 2
        /\ 1 # PageRuns + 1
    <3>1. 1 \in P!Test
      <4>1. Len(NPages) \in Nat /\ Len(NPages) > 0 /\ P!Test = 1..Len(NPages)
        BY PmConstants, Zenon
      <4> QED
        BY <4>1
    <3> QED
      BY <3>1, PmConstants
  <2>6. /\ p_tcb \in [PmThread -> PmState] /\ p_tcb["main"] = P!Running
        /\ p_tcb["proc"] = P!Inactive
        /\ p_pc \in [PmThread -> PmMainLabel \cup PmProcLabel] /\ p_pc["main"] = "copy"
    BY <2>2, Zenon DEF PmThread, PmState, PmMainLabel, PmProcLabel
  <2>7. PmTypeOK
    BY <2>2, <2>3, <2>4, <2>5, <2>6, Zenon DEF PmTypeOK
  <2>8. PmApart
    BY <2>2, <2>5, <2>6, Zenon DEF PmApart
  <2>9. PmFresh
    <3>1. \A s \in 2..CSpaceSize : s \in 1..CSpaceSize /\ s # 1
      BY PmConstants
    <3> QED
      BY <2>2, <2>5, <3>1, Zenon DEF PmFresh
  <2>10. PmRecorded
    <3>1. PmNextPhase = 1
      BY <2>6, Zenon DEF PmNextPhase
    <3> SUFFICES ASSUME NEW j \in P!Test, NEW q \in 1..5, NEW x \in 1..PageRuns,
                        x < p_run \/ (x = p_run /\ (j < test \/ (j = test /\ q < PmNextPhase)))
                 PROVE  FALSE
      BY Zenon DEF PmRecorded
    <3>2. j \in 1..Len(NPages)
      BY PmConstants, Zenon
    <3> QED
      BY <2>2, <3>1, <3>2, PmConstants
  <2> QED
    BY <2>2, <2>6, <2>7, <2>8, <2>9, <2>10, Zenon DEF PmInv, PmMemory
<1>2. PmInv /\ [MCNext]_allvars => PmInv'
  BY PmStep, PmStutters, Zenon DEF MCNext, allvars
<1> QED
  BY <1>1, <1>2, PTL DEF MCSpec

\* No assertion of bench_proc fails, in whatever order the tests follow each other, for
\* every list of page numbers and every size of the tables, if the untyped and the
\* cspace have room for the largest test.
THEOREM NoAssertionFails == MCSpec => []AssertionsHold
<1>1. PmInv => AssertionsHold
  BY Zenon DEF PmInv, AssertionsHold, P!AssertionsHold
<1> QED
  BY <1>1, PageMappingInvariance, PTL

\* In the table that process_mapping_results reports, every row holds the cost of the
\* phase and of the number of pages that label it, in every run.
THEOREM RowsLabelled == MCSpec => []RowsAreLabelled
<1>1. PmInv => RowsAreLabelled
  <2> SUFFICES ASSUME PmInv, p_pc["main"] = "finished",
                      NEW j \in 0..Len(NPages) * 5 - 1, NEW x \in 1..PageRuns
               PROVE  p_results[(j \div 5) + 1][(j % 5) + 1][x]
                        = P!Work(NPages[(j \div 5) + 1], (j % 5) + 1)
    BY PmStates, Zenon DEF RowsAreLabelled, P!RowsAreLabelled, P!row_results, P!npage_col,
                           P!phase_col, P!NPHASE
  <2>1. PmApart /\ PmRecorded
    BY Zenon DEF PmInv, PmTesting, PmTaken, PmAt
  <2>2. p_run = PageRuns + 1
    BY <2>1, Zenon DEF PmApart
  <2>3. x < p_run
    BY <2>2, PmConstants
  <2>4. (j \div 5) + 1 \in 1..Len(NPages) /\ (j % 5) + 1 \in 1..5
    BY PmConstants
  <2>5. (j \div 5) + 1 \in P!Test
    BY <2>4, PmConstants, Zenon
  <2> QED
    BY <2>1, <2>3, <2>4, <2>5, Zenon DEF PmRecorded
<1> QED
  BY <1>1, PageMappingInvariance, PTL

=============================================================================
