----------------------------- MODULE SyncProofs -----------------------------
(***************************************************************************)
(* Proofs about main of src/apps/sync: the producer/consumer benchmarks,   *)
(* for every number of items and of ignored samples, and the broadcast     *)
(* benchmark before them, for every number of waiters and runs.            *)
(*                                                                         *)
(* Only the section on the priorities of the broadcast uses prio, without  *)
(* which a broadcast could find a waiter awake.  What is proved elsewhere  *)
(* depends on the lock, the condition variables and main's counting of     *)
(* messages, and not on the scheduler.                                     *)
(***************************************************************************)
EXTENDS SyncMain, TLAPS

-----------------------------------------------------------------------------
(* The producer/consumer benchmarks: the inductive invariant.              *)

\* Has decremented the semaphore and not yet incremented it.
Queued(t) == p_pc[t] \in {"lock_wait", "locked", "cv_post", "cv_lock_wait", "cv_leave",
                          "post"}

\* Is counted in the waiters of its condition variable.
Counted(t) == p_pc[t] \in {"cv_post", "cv_post_signal", "cv_block", "cv_lock",
                           "cv_lock_wait", "cv_leave"}

\* Owns the lock, or is about to hand it on by signalling.
Token(t) == \/ p_pc[t] \in {"locked", "cv_leave"} /\ p_tcb[t] = PC!Running
            \/ p_pc[t] \in {"cv_post", "cv_post_signal", "post", "post_signal"}

\* The peer's signal has reached it, or is pending.
Signalled(t) == \/ p_active[PC!wait_cv(t)]
                \/ p_pc[t] \in {"cv_lock_wait", "cv_leave"}
                \/ p_pc[t] = "cv_lock" /\ p_tcb[t] = PC!Running

\* Started, and main has not heard from it.
Unheard(t) == p_pc[t] \notin {"off", "block"} \/ p_tcb[t] = PC!SendingTo(PC!DoneEp)

Num(b) == IF b THEN 1 ELSE 0

InLoop == {"lock", "lock_wait", "locked", "cv_post", "cv_post_signal", "cv_block",
           "cv_lock", "cv_lock_wait", "cv_leave"}

PLabel == InLoop \cup {"off", "post", "post_signal", "done", "block", "begin", "start",
                      "collect", "suspend"}

PState == {PC!Running, PC!Inactive, PC!WaitingOn(PC!Lock), PC!WaitingOn(PC!ProducerCv),
           PC!WaitingOn(PC!ConsumerCv), PC!SendingTo(PC!DoneEp), PC!RecvingOn(PC!DoneEp),
           PC!RecvingOn(PC!BlockEp)}

\* Types.
PTypeOK ==
  /\ p_tcb \in [PC!Thread -> PState]
  /\ p_pc \in [PC!Thread -> PLabel]
  /\ p_active \in [{PC!Lock, PC!ProducerCv, PC!ConsumerCv} -> BOOLEAN]
  /\ p_value \in Int
  /\ p_cv \in [{PC!ProducerCv, PC!ConsumerCv} -> [waiters : Int, broadcasting : BOOLEAN]]
  /\ phase \in Nat
  /\ iter \in [PC!Child -> Nat]
  /\ stamp \in [PC!Child -> Nat]
  /\ p_sample \in [PC!Child -> Nat \X Nat]
  /\ reported \in [PC!Child -> SUBSET Nat]
  /\ p_left \in Nat
  /\ p_todo \in SUBSET PC!Child

\* Where a thread can be, and where it can be blocked.
PBlockInv ==
  /\ \A t \in PC!Child :
       /\ p_pc[t] \in InLoop \cup {"off", "post", "post_signal", "done", "block"}
       /\ \/ p_tcb[t] = PC!Running
          \/ p_tcb[t] = PC!WaitingOn(PC!Lock) /\ p_pc[t] \in {"locked", "cv_leave"}
          \/ p_tcb[t] = PC!WaitingOn(PC!wait_cv(t)) /\ p_pc[t] = "cv_lock"
          \/ p_tcb[t] = PC!SendingTo(PC!DoneEp) /\ p_pc[t] = "block"
          \/ p_tcb[t] \in {PC!RecvingOn(PC!BlockEp), PC!Inactive} /\ p_pc[t] = "off"
  /\ p_pc[Main] \in {"begin", "start", "collect", "suspend"}
  /\ \/ p_tcb[Main] = PC!Running
     \/ p_tcb[Main] = PC!RecvingOn(PC!DoneEp) /\ p_pc[Main] = "collect"

\* There is one token for the lock: an owner, a signal under way, a pending signal,
\* or the value 1.
PLockInv ==
  /\ ~(Token(Producer) /\ Token(Consumer))
  /\ p_active[PC!Lock] => ~Token(Producer) /\ ~Token(Consumer)
  /\ p_value = 1 => ~p_active[PC!Lock] /\ ~Token(Producer) /\ ~Token(Consumer)
  /\ p_value = 1 - Num(Queued(Producer)) - Num(Queued(Consumer))

\* A condition variable has at most one waiter, which is signalled exactly when it
\* need not wait any longer.
PCvInv ==
  \A t \in PC!Child :
    /\ p_cv[PC!wait_cv(t)] = [waiters |-> Num(Counted(t)), broadcasting |-> FALSE]
    /\ p_active[PC!wait_cv(t)] => p_pc[t] \in {"cv_post_signal", "cv_block"}
    /\ Counted(t) => (Signalled(t) <=> ~PC!condition(t))

\* A stamp is the number of iterations of the peer.
PFifoInv ==
  /\ fifo_head \in {0, 1}
  /\ fifo_head = iter[Producer] - iter[Consumer]
  /\ stamp[Consumer] = iter[Producer]
  /\ stamp[Producer] = iter[Consumer]
  /\ iter[Consumer] > 0 => p_sample[Consumer] = <<iter[Consumer] - 1, iter[Consumer]>>
  /\ iter[Producer] > 0 => p_sample[Producer] = <<iter[Producer] - 1, iter[Producer] - 1>>
  /\ reported[Producer] = Ignored .. (iter[Producer] - 1)
  /\ reported[Consumer] = (Ignored + 1) .. iter[Consumer]

\* Main's side: who has been started, and who has been heard.
PMainInv ==
  /\ \A t \in PC!Child : /\ iter[t] <= Items
                         /\ p_pc[t] \in InLoop => iter[t] < Items
                         /\ p_pc[t] \in {"done", "block"} => iter[t] = Items
  /\ p_pc[Main] = "begin" =>
       /\ \A t \in PC!Child : ~Unheard(t) /\ p_pc[t] = "off"
       /\ iter[Producer] = iter[Consumer]
       /\ p_left = 0
  /\ p_pc[Main] = "start" =>
       /\ \/ p_todo = PC!Child
          \/ p_todo = {Consumer} /\ p_left = 2 /\ p_pc[Producer] # "off" /\ Unheard(Producer)
       /\ \A t \in p_todo : p_pc[t] = "off" /\ iter[t] = 0
  /\ p_pc[Main] = "collect" =>
       /\ p_left + Num(p_tcb[Main] # PC!Running) =
            Num(Unheard(Producer)) + Num(Unheard(Consumer))
       /\ \A t \in PC!Child : p_pc[t] = "off" => iter[t] = Items
  /\ p_pc[Main] = "suspend" =>
       /\ \A t \in PC!Child : ~Unheard(t) /\ iter[t] = Items
       /\ p_todo = PC!Child \/ (p_todo = {Consumer} /\ p_pc[Producer] = "off")
       /\ p_left = 0

PInv == PTypeOK /\ PBlockInv /\ PLockInv /\ PCvInv /\ PFifoInv /\ PMainInv
-----------------------------------------------------------------------------
(* The producer/consumer benchmarks: facts about the constants.            *)

\* The states a thread can be in are pairwise distinct.
LEMMA PStatesDistinct ==
  /\ PC!Running \notin {PC!Inactive, PC!WaitingOn(PC!Lock), PC!WaitingOn(PC!ProducerCv),
                        PC!WaitingOn(PC!ConsumerCv), PC!SendingTo(PC!DoneEp),
                        PC!SendingTo(PC!BlockEp), PC!RecvingOn(PC!DoneEp),
                        PC!RecvingOn(PC!BlockEp)}
  /\ PC!Inactive \notin {PC!WaitingOn(PC!Lock), PC!WaitingOn(PC!ProducerCv),
                         PC!WaitingOn(PC!ConsumerCv), PC!SendingTo(PC!DoneEp),
                         PC!SendingTo(PC!BlockEp), PC!RecvingOn(PC!DoneEp),
                         PC!RecvingOn(PC!BlockEp)}
  /\ PC!WaitingOn(PC!Lock) \notin {PC!WaitingOn(PC!ProducerCv), PC!WaitingOn(PC!ConsumerCv),
                                   PC!SendingTo(PC!DoneEp), PC!SendingTo(PC!BlockEp),
                                   PC!RecvingOn(PC!DoneEp), PC!RecvingOn(PC!BlockEp)}
  /\ PC!WaitingOn(PC!ProducerCv) \notin {PC!WaitingOn(PC!ConsumerCv),
                                   PC!SendingTo(PC!DoneEp), PC!SendingTo(PC!BlockEp),
                                   PC!RecvingOn(PC!DoneEp), PC!RecvingOn(PC!BlockEp)}
  /\ PC!WaitingOn(PC!ConsumerCv) \notin {PC!SendingTo(PC!DoneEp), PC!SendingTo(PC!BlockEp),
                                   PC!RecvingOn(PC!DoneEp), PC!RecvingOn(PC!BlockEp)}
  /\ PC!SendingTo(PC!DoneEp) \notin {PC!SendingTo(PC!BlockEp), PC!RecvingOn(PC!DoneEp),
                                    PC!RecvingOn(PC!BlockEp)}
  /\ PC!SendingTo(PC!BlockEp) \notin {PC!RecvingOn(PC!DoneEp), PC!RecvingOn(PC!BlockEp)}
  /\ PC!RecvingOn(PC!DoneEp) # PC!RecvingOn(PC!BlockEp)
BY Zenon DEF PC!Running, PC!Inactive, PC!WaitingOn, PC!SendingTo, PC!RecvingOn, PC!Lock,
       PC!ProducerCv, PC!ConsumerCv, PC!DoneEp, PC!BlockEp

\* So are the lock and the condition variables.
LEMMA PNotifications ==
  /\ PC!Lock # PC!ProducerCv /\ PC!Lock # PC!ConsumerCv /\ PC!ProducerCv # PC!ConsumerCv
BY Zenon DEF PC!Lock, PC!ProducerCv, PC!ConsumerCv

\* And the three threads.
LEMMA PThreads ==
  /\ Main # Producer /\ Main # Consumer /\ Producer # Consumer
  /\ Items \in Nat \ {0} /\ Ignored \in Nat /\ Ignored >= 1 /\ Ignored <= Items
BY SecondPartAssumption DEF PC!PCAssumption

-----------------------------------------------------------------------------
(* The producer/consumer benchmarks: every step preserves the invariant.   *)

\* The decrement of sync_bin_sem_wait.
LEMMA PSemWait ==
  ASSUME PInv, NEW t \in PC!Child, p_tcb[t] = PC!Running,
         NEW a, NEW b, NEW c, PC!SemWait(t, a, b, c), UNCHANGED PC!pvars,
         \/ a = "lock" /\ b = "lock_wait" /\ c = "locked"
         \/ a = "cv_lock" /\ b = "cv_lock_wait" /\ c = "cv_leave"
  PROVE  PInv'
<1> USE PThreads DEF PInv, PC!Step, PC!pvars, PC!SemWait, PC!Child, PC!Thread
<1>1. PTypeOK'
  <2>1. p_pc' \in [PC!Thread -> PLabel] /\ p_value' \in Int
    BY DEF PTypeOK, PLabel, InLoop
  <2> QED
    BY <2>1, Zenon DEF PTypeOK
<1>2. PBlockInv'
  BY Zenon DEF PTypeOK, PBlockInv, InLoop
<1>3. PLockInv'
  BY DEF PTypeOK, PLockInv, Token, Queued, Num
<1>4. PCvInv'
  <2>1. \A u \in PC!Child : (Counted(u)' <=> Counted(u))
    BY Zenon DEF PTypeOK, Counted
  <2>2. \A u \in PC!Child : (Signalled(u)' <=> Signalled(u)) 
    BY Zenon DEF PTypeOK, Signalled
  <2>3. \A u \in PC!Child : Num(Counted(u))' = Num(Counted(u))
    BY <2>1, Zenon DEF Num
  <2>4. \A u \in PC!Child : p_active[PC!wait_cv(u)] => p_pc'[u] = p_pc[u]
    BY Zenon DEF PTypeOK, PCvInv
  <2> QED
    BY <2>1, <2>2, <2>3, <2>4, ZenonT(90) DEF PCvInv, PC!condition
<1>5. PFifoInv'
  BY Zenon DEF PFifoInv
<1>6. PMainInv'
  BY Zenon DEF PTypeOK, PMainInv, Unheard, InLoop
<1> QED
  BY <1>1, <1>2, <1>3, <1>4, <1>5, <1>6, Zenon

\* The wait of sync_bin_sem_wait.
LEMMA PSemBlock ==
  ASSUME PInv, NEW t \in PC!Child, p_tcb[t] = PC!Running,
         NEW a, NEW b, PC!SemBlock(t, a, b), UNCHANGED PC!pvars,
         \/ a = "lock_wait" /\ b = "locked"
         \/ a = "cv_lock_wait" /\ b = "cv_leave"
  PROVE  PInv'
<1> USE PThreads DEF PInv, PC!Step, PC!pvars, PC!SemBlock, PC!Wait, PC!SetState, PC!Child,
                     PC!Thread
<1>1. PTypeOK'
  <2>1. p_pc' \in [PC!Thread -> PLabel]
    BY Zenon DEF PTypeOK, PLabel, InLoop
  <2>2. p_tcb' \in [PC!Thread -> PState]
    BY Zenon DEF PTypeOK, PState
  <2>3. p_active' \in [{PC!Lock, PC!ProducerCv, PC!ConsumerCv} -> BOOLEAN]
    BY Zenon DEF PTypeOK
  <2> QED
    BY <2>1, <2>2, <2>3, Zenon DEF PTypeOK
<1>2. PBlockInv'
  BY DEF PTypeOK, PBlockInv, InLoop
<1>3. PLockInv'
  BY PStatesDistinct, Zenon DEF PTypeOK, PLockInv, Token, Queued, Num
<1>4. PCvInv'
  <2>1. \A u \in PC!Child : (Counted(u)' <=> Counted(u))
    BY Zenon DEF PTypeOK, Counted
  <2>2. \A u \in PC!Child : p_active'[PC!wait_cv(u)] = p_active[PC!wait_cv(u)]
    BY PNotifications, Zenon DEF PTypeOK, PC!wait_cv
  <2>3. \A u \in PC!Child : (Signalled(u)' <=> Signalled(u))
    BY <2>2, Zenon DEF PTypeOK, Signalled
  <2>4. \A u \in PC!Child : Num(Counted(u))' = Num(Counted(u))
    BY <2>1, Zenon DEF Num
  <2>5. \A u \in PC!Child : p_active[PC!wait_cv(u)] => p_pc'[u] = p_pc[u]
    BY Zenon DEF PTypeOK, PCvInv
  <2> QED
    BY <2>1, <2>2, <2>3, <2>4, <2>5, ZenonT(90) DEF PCvInv, PC!condition
<1>5. PFifoInv'
  BY Zenon DEF PFifoInv
<1>6. PMainInv'
  BY PStatesDistinct DEF PTypeOK, PMainInv, Unheard, InLoop
<1> QED
  BY <1>1, <1>2, <1>3, <1>4, <1>5, <1>6, Zenon

\* The increment of sync_bin_sem_post.
LEMMA PSemPost ==
  ASSUME PInv, NEW t \in PC!Child, p_tcb[t] = PC!Running,
         NEW a, NEW b, NEW c, PC!SemPost(t, a, b, c), UNCHANGED PC!pvars,
         \/ a = "cv_post" /\ b = "cv_post_signal" /\ c = "cv_block"
         \/ /\ a = "post" /\ b = "post_signal"
            /\ c = IF iter[t] < Items THEN "lock" ELSE "done"
  PROVE  PInv'
<1> USE PThreads DEF PInv, PC!Step, PC!pvars, PC!SemPost, PC!Child, PC!Thread
<1>1. PTypeOK'
  <2>1. p_pc' \in [PC!Thread -> PLabel] /\ p_value' \in Int
    BY DEF PTypeOK, PLabel, InLoop
  <2> QED
    BY <2>1, Zenon DEF PTypeOK
<1>2. PBlockInv'
  BY Zenon DEF PTypeOK, PBlockInv, InLoop
<1>3. PLockInv'
  BY PStatesDistinct DEF PTypeOK, PLockInv, Token, Queued, Num
<1>4. PCvInv'
  <2>1. \A u \in PC!Child : (Counted(u)' <=> Counted(u))
    BY Zenon DEF PTypeOK, Counted
  <2>2. \A u \in PC!Child : (Signalled(u)' <=> Signalled(u))
    BY Zenon DEF PTypeOK, Signalled
  <2>3. \A u \in PC!Child : Num(Counted(u))' = Num(Counted(u))
    BY <2>1, Zenon DEF Num
  <2>4. \A u \in PC!Child : p_active[PC!wait_cv(u)] => p_pc'[u] = p_pc[u]
    BY Zenon DEF PTypeOK, PCvInv
  <2> QED
    BY <2>1, <2>2, <2>3, <2>4, ZenonT(90) DEF PCvInv, PC!condition
<1>5. PFifoInv'
  BY Zenon DEF PFifoInv
<1>6. PMainInv'
  BY PStatesDistinct DEF PTypeOK, PMainInv, PBlockInv, Unheard, InLoop
<1> QED
  BY <1>1, <1>2, <1>3, <1>4, <1>5, <1>6, Zenon

\* The signal of sync_bin_sem_post.
LEMMA PSemSignal ==
  ASSUME PInv, NEW t \in PC!Child, p_tcb[t] = PC!Running,
         NEW a, NEW b, PC!SemSignal(t, a, b), UNCHANGED PC!pvars,
         \/ a = "cv_post_signal" /\ b = "cv_block"
         \/ a = "post_signal" /\ b = IF iter[t] < Items THEN "lock" ELSE "done"
  PROVE  PInv'
<1> USE PThreads DEF PInv, PC!Step, PC!pvars, PC!SemSignal, PC!Child, PC!Thread
<1>1. /\ p_active' \in [{PC!Lock, PC!ProducerCv, PC!ConsumerCv} -> BOOLEAN]
      /\ \A u \in PC!Child : p_active'[PC!wait_cv(u)] = p_active[PC!wait_cv(u)]
      /\ \/ /\ \E w \in PC!Child : /\ w # t
                                   /\ p_tcb[w] = PC!WaitingOn(PC!Lock)
                                   /\ p_tcb' = [p_tcb EXCEPT ![w] = PC!Running]
            /\ p_active' = p_active
         \/ p_tcb' = p_tcb
  <2>1. CASE \E w \in PC!Blocked(PC!WaitingOn(PC!Lock)) :
               PC!SetState(w, PC!Running) /\ UNCHANGED p_active
    <3>1. PICK w \in PC!Thread : /\ p_tcb[w] = PC!WaitingOn(PC!Lock)
                                 /\ p_tcb' = [p_tcb EXCEPT ![w] = PC!Running]
                                 /\ p_active' = p_active
      BY <2>1, Zenon DEF PC!SetState, PC!Blocked, PTypeOK
    <3>2. w \in PC!Child /\ w # t
      BY <3>1, PStatesDistinct, Zenon DEF PBlockInv
    <3> QED
      BY <3>1, <3>2, Zenon DEF PTypeOK
  <2>2. CASE p_active' = [p_active EXCEPT ![PC!Lock] = TRUE] /\ UNCHANGED p_tcb
    BY <2>2, PNotifications, Zenon DEF PTypeOK, PC!wait_cv
  <2> QED
    BY <2>1, <2>2, Zenon DEF PC!Signal
<1>2. PTypeOK'
  <2>1. p_pc' \in [PC!Thread -> PLabel]
    BY Zenon DEF PTypeOK, PLabel, InLoop
  <2>2. p_tcb' \in [PC!Thread -> PState]
    BY <1>1, Zenon DEF PTypeOK, PState
  <2> QED
    BY <1>1, <2>1, <2>2, Zenon DEF PTypeOK
<1>3. PBlockInv'
  BY <1>1, PStatesDistinct DEF PTypeOK, PBlockInv, InLoop
<1>4. PLockInv'
  BY <1>1, PStatesDistinct, Zenon DEF PTypeOK, PBlockInv, PLockInv, Token, Queued, Num
<1>5. PCvInv'
  <2>1. \A u \in PC!Child : (Counted(u)' <=> Counted(u))
    BY Zenon DEF PTypeOK, Counted
  <2>2. \A u \in PC!Child : (Signalled(u)' <=> Signalled(u))
    <3>1. \A u \in PC!Child : p_tcb'[u] # p_tcb[u] => p_pc[u] \in {"locked", "cv_leave"}
      BY <1>1, PStatesDistinct, Zenon DEF PTypeOK, PBlockInv, PC!wait_cv
    <3> QED
      BY <1>1, <3>1, Zenon DEF PTypeOK, Signalled
  <2>3. \A u \in PC!Child : Num(Counted(u))' = Num(Counted(u))
    BY <2>1, Zenon DEF Num
  <2>4. \A u \in PC!Child : p_active[PC!wait_cv(u)] =>
                              p_pc'[u] = p_pc[u] \/ p_pc'[u] = "cv_block"
    BY Zenon DEF PTypeOK, PCvInv
  <2> QED
    BY <1>1, <2>1, <2>2, <2>3, <2>4, ZenonT(90) DEF PCvInv, PC!condition
<1>6. PFifoInv'
  BY Zenon DEF PFifoInv
<1>7. PMainInv'
  <2>1. \A u \in PC!Child : (Unheard(u)' <=> Unheard(u))
    BY <1>1, PStatesDistinct, Zenon DEF PTypeOK, PBlockInv, Unheard, InLoop
  <2>2. p_tcb'[Main] = p_tcb[Main] /\ p_pc'[Main] = p_pc[Main]
    BY <1>1, Zenon DEF PTypeOK
  <2> QED
    BY <2>1, <2>2 DEF PTypeOK, PMainInv, InLoop, Num
<1> QED
  BY <1>2, <1>3, <1>4, <1>5, <1>6, <1>7, Zenon

\* Entering sync_cv_wait.
LEMMA PCvEnter ==
  ASSUME PInv, NEW t \in PC!Child, p_tcb[t] = PC!Running,
         PC!condition(t), PC!Step(t, "locked", "cv_post"), PC!CvEnter(PC!wait_cv(t)),
         UNCHANGED <<p_tcb, p_active, p_value>>, UNCHANGED PC!pvars
  PROVE  PInv'
<1> USE PThreads DEF PInv, PC!Step, PC!pvars, PC!Child, PC!Thread
<1>1. p_cv' = [p_cv EXCEPT ![PC!wait_cv(t)] = [waiters |-> 1, broadcasting |-> FALSE]]
  <2>1. ~Counted(t) /\ p_cv[PC!wait_cv(t)].waiters = 0
    BY DEF PCvInv, Counted, Num
  <2> QED
    BY <2>1 DEF PC!CvEnter
<1>2. PTypeOK'
  <2>1. p_pc' \in [PC!Thread -> PLabel]
    BY Zenon DEF PTypeOK, PLabel, InLoop
  <2>2. p_cv' \in [{PC!ProducerCv, PC!ConsumerCv} -> [waiters : Int, broadcasting : BOOLEAN]]
    BY <1>1 DEF PTypeOK, PC!wait_cv
  <2> QED
    BY <2>1, <2>2, Zenon DEF PTypeOK
<1>3. PBlockInv'
  BY Zenon DEF PTypeOK, PBlockInv, InLoop
<1>4. PLockInv'
  BY Zenon DEF PTypeOK, PLockInv, Token, Queued, Num
<1>5. PCvInv'
  <2>1. \A u \in PC!Child : u # t => p_pc'[u] = p_pc[u] /\ p_cv'[PC!wait_cv(u)] = p_cv[PC!wait_cv(u)]
    BY <1>1, PNotifications DEF PTypeOK, PC!wait_cv
  <2>2. /\ Counted(t)' /\ p_cv'[PC!wait_cv(t)] = [waiters |-> 1, broadcasting |-> FALSE]
        /\ ~Signalled(t)'
    BY <1>1, PNotifications, Zenon DEF PTypeOK, PC!wait_cv, Counted, Signalled, PCvInv
  <2> QED
    BY <2>1, <2>2, ZenonT(90) DEF PCvInv, PC!condition, Counted, Signalled, Num
<1>6. PFifoInv'
  BY Zenon DEF PFifoInv
<1>7. PMainInv'
  BY Zenon DEF PTypeOK, PMainInv, Unheard, InLoop
<1> QED
  BY <1>2, <1>3, <1>4, <1>5, <1>6, <1>7, Zenon

\* The wait of sync_cv_wait.
LEMMA PCvBlock ==
  ASSUME PInv, NEW t \in PC!Child, p_tcb[t] = PC!Running,
         PC!CvBlock(t, PC!wait_cv(t), "cv_block", "cv_lock"), UNCHANGED PC!pvars
  PROVE  PInv'
<1> USE PThreads DEF PInv, PC!Step, PC!pvars, PC!CvBlock, PC!Wait, PC!SetState, PC!Child,
                     PC!Thread
<1>1. PTypeOK'
  <2>1. p_pc' \in [PC!Thread -> PLabel]
    BY Zenon DEF PTypeOK, PLabel, InLoop
  <2>2. p_tcb' \in [PC!Thread -> PState]
    BY Zenon DEF PTypeOK, PState, PC!wait_cv
  <2>3. p_active' \in [{PC!Lock, PC!ProducerCv, PC!ConsumerCv} -> BOOLEAN]
    BY Zenon DEF PTypeOK
  <2> QED
    BY <2>1, <2>2, <2>3, Zenon DEF PTypeOK
<1>2. PBlockInv'
  BY DEF PTypeOK, PBlockInv, InLoop
<1>3. PLockInv'
  <2>1. p_active'[PC!Lock] = p_active[PC!Lock]
    BY PNotifications, Zenon DEF PTypeOK, PC!wait_cv
  <2> QED
    BY <2>1, Zenon DEF PTypeOK, PLockInv, Token, Queued, Num
<1>4. PCvInv'
  <2>1. \A u \in PC!Child : u # t => /\ p_pc'[u] = p_pc[u] /\ p_tcb'[u] = p_tcb[u]
                                     /\ p_active'[PC!wait_cv(u)] = p_active[PC!wait_cv(u)]
    BY PNotifications DEF PTypeOK, PC!wait_cv
  <2>2. Counted(t) /\ Counted(t)' /\ ~p_active'[PC!wait_cv(t)]
    BY Zenon DEF PTypeOK, PC!wait_cv, Counted
  <2>3. Signalled(t)' <=> Signalled(t)
    BY <2>2, PStatesDistinct, Zenon DEF PTypeOK, PC!wait_cv, Signalled
  <2>4. \A u \in PC!Child : /\ Counted(u)' <=> Counted(u)
                            /\ Signalled(u)' <=> Signalled(u)
    BY <2>1, <2>2, <2>3, Zenon DEF Counted, Signalled
  <2>5. \A u \in PC!Child : Num(Counted(u))' = Num(Counted(u))
    BY <2>4, Zenon DEF Num
  <2>6. \A u \in PC!Child : p_active'[PC!wait_cv(u)] =>
                              p_active[PC!wait_cv(u)] /\ p_pc'[u] = p_pc[u]
    BY <2>1, <2>2, Zenon
  <2> QED
    BY <2>4, <2>5, <2>6, ZenonT(90) DEF PCvInv, PC!condition
<1>5. PFifoInv'
  BY Zenon DEF PFifoInv
<1>6. PMainInv'
  BY PStatesDistinct, ZenonT(90) DEF PTypeOK, PMainInv, Unheard, InLoop, PC!wait_cv
<1> QED
  BY <1>1, <1>2, <1>3, <1>4, <1>5, <1>6, Zenon

\* The end of sync_cv_wait: there is no other waiter to hand a broadcast on to.
LEMMA PCvLeave ==
  ASSUME PInv, NEW t \in PC!Child, p_tcb[t] = PC!Running,
         PC!CvLeave(t, PC!wait_cv(t), "cv_leave", "locked"), UNCHANGED PC!pvars
  PROVE  PInv'
<1> USE PThreads DEF PInv, PC!Step, PC!pvars, PC!Child, PC!Thread
<1>1. /\ p_cv' = [p_cv EXCEPT ![PC!wait_cv(t)] = [waiters |-> 0, broadcasting |-> FALSE]]
      /\ PC!Step(t, "cv_leave", "locked")
      /\ UNCHANGED <<p_tcb, p_active, p_value>>
  <2>1. p_cv[PC!wait_cv(t)].waiters = 1 /\ p_cv[PC!wait_cv(t)].broadcasting = FALSE
    BY DEF PCvInv, Counted, Num, PC!CvLeave
  <2>2. /\ p_cv[PC!wait_cv(t)].waiters - 1 = 0
        /\ (p_cv[PC!wait_cv(t)].broadcasting /\ p_cv[PC!wait_cv(t)].waiters - 1 > 0) = FALSE
    BY <2>1
  <2> QED
    BY <2>2, Zenon DEF PC!CvLeave
<1>2. PTypeOK'
  <2>1. p_pc' \in [PC!Thread -> PLabel]
    BY <1>1, Zenon DEF PTypeOK, PLabel, InLoop
  <2>2. p_cv' \in [{PC!ProducerCv, PC!ConsumerCv} -> [waiters : Int, broadcasting : BOOLEAN]]
    BY <1>1 DEF PTypeOK, PC!wait_cv
  <2> QED
    BY <1>1, <2>1, <2>2, Zenon DEF PTypeOK
<1>3. PBlockInv'
  BY <1>1, Zenon DEF PTypeOK, PBlockInv, InLoop
<1>4. PLockInv'
  BY <1>1, Zenon DEF PTypeOK, PLockInv, Token, Queued, Num
<1>5. PCvInv'
  <2>1. \A u \in PC!Child : u # t => p_pc'[u] = p_pc[u] /\ p_cv'[PC!wait_cv(u)] = p_cv[PC!wait_cv(u)]
    BY <1>1, PNotifications DEF PTypeOK, PC!wait_cv
  <2>2. /\ ~Counted(t)' /\ p_cv'[PC!wait_cv(t)] = [waiters |-> 0, broadcasting |-> FALSE]
        /\ ~p_active'[PC!wait_cv(t)]
    BY <1>1, PNotifications, Zenon DEF PTypeOK, PC!wait_cv, Counted, PCvInv
  <2> QED
    BY <1>1, <2>1, <2>2, ZenonT(90) DEF PCvInv, PC!condition, Counted, Signalled, Num
<1>6. PFifoInv'
  BY Zenon DEF PFifoInv
<1>7. PMainInv'
  BY <1>1, Zenon DEF PTypeOK, PMainInv, Unheard, InLoop
<1> QED
  BY <1>2, <1>3, <1>4, <1>5, <1>6, <1>7, Zenon

\* The reported stamps are an interval, which grows when the iteration counts.
LEMMA IntervalGrows ==
  ASSUME NEW m \in Nat, NEW i \in Nat
  PROVE  /\ i >= m => (m .. (i - 1)) \cup {i} = m .. i
         /\ ~(i >= m) => m .. (i - 1) = m .. i
<1>1. CASE i >= m
  <2>1. \A x : x \in (m .. (i - 1)) \cup {i} <=> x \in m .. i
    BY <1>1
  <2> QED
    BY <1>1, <2>1, Zenon
<1>2. CASE ~(i >= m)
  <2>1. \A x : x \in m .. (i - 1) <=> x \in m .. i
    BY <1>2
  <2> QED
    BY <1>2, <2>1, Zenon
<1> QED
  BY <1>1, <1>2, Zenon

\* The signal of the critical section reaches the peer if it waits, whether or not it
\* has blocked yet.
LEMMA PCvSignal ==
  ASSUME PInv, NEW t \in PC!Child, NEW u \in PC!Child, u # t, p_tcb[t] = PC!Running,
         p_pc[t] = "locked", ~PC!condition(t), PC!sync_cv_signal(PC!signal_cv(t))
  PROVE  \/ /\ ~Counted(u)
            /\ UNCHANGED <<p_tcb, p_active>>
         \/ /\ Counted(u) /\ p_pc[u] = "cv_lock"
            /\ p_tcb[u] = PC!WaitingOn(PC!wait_cv(u))
            /\ p_tcb' = [p_tcb EXCEPT ![u] = PC!Running]
            /\ UNCHANGED p_active
         \/ /\ Counted(u) /\ p_pc[u] = "cv_block"
            /\ UNCHANGED p_tcb
            /\ p_active' = [p_active EXCEPT ![PC!wait_cv(u)] = TRUE]
<1> USE PThreads DEF PInv, PC!Child, PC!Thread
<1>1. PC!signal_cv(t) = PC!wait_cv(u)
  BY DEF PC!signal_cv, PC!wait_cv
<1>2. CASE ~Counted(u)
  <2>1. ~(p_cv[PC!wait_cv(u)].waiters > 0)
    BY <1>2 DEF PCvInv, Num
  <2> QED
    BY <1>1, <1>2, <2>1, Zenon DEF PC!sync_cv_signal
<1>3. CASE Counted(u)
  <2>1. p_cv[PC!wait_cv(u)].waiters > 0
    BY <1>3 DEF PCvInv, Num
  <2>2. PC!Signal(PC!wait_cv(u))
    BY <1>1, <2>1, Zenon DEF PC!sync_cv_signal
  <2>3. ~Signalled(u)
    BY <1>3 DEF PCvInv, PC!condition, PFifoInv, PC!FIFO_SIZE
  <2>4. \/ p_pc[u] = "cv_block"
        \/ p_pc[u] = "cv_lock" /\ p_tcb[u] = PC!WaitingOn(PC!wait_cv(u))
    BY <1>3, <2>3, PStatesDistinct, Zenon DEF PLockInv, Token, Counted, Signalled, PBlockInv
  <2>5. \A w \in PC!Thread : p_tcb[w] = PC!WaitingOn(PC!wait_cv(u)) => w = u /\ p_pc[u] = "cv_lock"
    BY PStatesDistinct, PNotifications, Zenon DEF PBlockInv, PC!wait_cv
  <2>6. CASE \E w \in PC!Blocked(PC!WaitingOn(PC!wait_cv(u))) :
               PC!SetState(w, PC!Running) /\ UNCHANGED p_active
    BY <1>3, <2>5, <2>6, Zenon DEF PC!Blocked, PC!SetState, PTypeOK
  <2>7. CASE /\ PC!Blocked(PC!WaitingOn(PC!wait_cv(u))) = {}
             /\ p_active' = [p_active EXCEPT ![PC!wait_cv(u)] = TRUE]
             /\ UNCHANGED p_tcb
    BY <1>3, <2>4, <2>7, Zenon DEF PC!Blocked, PTypeOK
  <2> QED
    BY <2>2, <2>6, <2>7, Zenon DEF PC!Signal
<1> QED
  BY <1>2, <1>3, Zenon

\* The critical section.
LEMMA PWork ==
  ASSUME PInv, NEW t \in PC!Child, p_tcb[t] = PC!Running, PC!Work(t)
  PROVE  PInv'
<1> USE PThreads DEF PInv, PC!Child, PC!Thread
<1> DEFINE u == PC!Peer(t)
<1>1. u \in PC!Child /\ u # t /\ PC!Child = {t, u}
  BY Zenon DEF PC!Peer
<1>2. /\ p_pc[t] = "locked" /\ ~PC!condition(t) /\ PC!sync_cv_signal(PC!signal_cv(t))
      /\ p_pc' = [p_pc EXCEPT ![t] = "post"]
      /\ p_sample' = [p_sample EXCEPT ![t] = <<iter[t], stamp[t]>>]
      /\ reported' = [reported EXCEPT ![t] =
                        IF iter[t] >= Ignored THEN @ \cup {stamp[t]} ELSE @]
      /\ fifo_head' = IF t = Producer THEN fifo_head + 1 ELSE fifo_head - 1
      /\ stamp' = [stamp EXCEPT ![u] = iter[t] + 1]
      /\ iter' = [iter EXCEPT ![t] = @ + 1]
      /\ p_cv' = p_cv
      /\ UNCHANGED <<p_value, phase, p_todo, p_left>>
  BY Zenon DEF PC!Work, PC!Step, PC!work, PC!IsReported, PC!sync_cv_signal
<1> HIDE DEF u
<1>3. \/ /\ ~Counted(u)
         /\ UNCHANGED <<p_tcb, p_active>>
      \/ /\ Counted(u) /\ p_pc[u] = "cv_lock"
         /\ p_tcb[u] = PC!WaitingOn(PC!wait_cv(u))
         /\ p_tcb' = [p_tcb EXCEPT ![u] = PC!Running]
         /\ UNCHANGED p_active
      \/ /\ Counted(u) /\ p_pc[u] = "cv_block"
         /\ UNCHANGED p_tcb
         /\ p_active' = [p_active EXCEPT ![PC!wait_cv(u)] = TRUE]
  BY <1>1, <1>2, PCvSignal, Zenon
<1>4. PTypeOK'
  <2>1. p_pc' \in [PC!Thread -> PLabel]
    BY <1>2, Zenon DEF PTypeOK, PLabel, InLoop
  <2>2. p_tcb' \in [PC!Thread -> PState]
    BY <1>1, <1>3, Zenon DEF PTypeOK, PState
  <2>3. p_active' \in [{PC!Lock, PC!ProducerCv, PC!ConsumerCv} -> BOOLEAN]
    BY <1>1, <1>3, Zenon DEF PTypeOK, PC!wait_cv
  <2>4. /\ iter' \in [PC!Child -> Nat] /\ stamp' \in [PC!Child -> Nat]
        /\ p_sample' \in [PC!Child -> Nat \X Nat]
    BY <1>1, <1>2 DEF PTypeOK
  <2>5. reported' \in [PC!Child -> SUBSET Nat]
    BY <1>1, <1>2 DEF PTypeOK
  <2> QED
    BY <1>2, <2>1, <2>2, <2>3, <2>4, <2>5, Zenon DEF PTypeOK
<1>5. PBlockInv'
  BY <1>1, <1>2, <1>3, PStatesDistinct, SMTT(90) DEF PTypeOK, PBlockInv, InLoop
<1>6. PLockInv'
  <2>1. p_active'[PC!Lock] = p_active[PC!Lock]
    BY <1>1, <1>3, PNotifications, Zenon DEF PTypeOK, PC!wait_cv
  <2>2. \A w \in PC!Child : Token(w)' <=> Token(w)
    BY <1>1, <1>2, <1>3, PStatesDistinct, Zenon DEF PTypeOK, Token
  <2>3. \A w \in PC!Child : Queued(w)' <=> Queued(w)
    BY <1>2, Zenon DEF PTypeOK, Queued
  <2> QED
    BY <1>2, <2>1, <2>2, <2>3, Zenon DEF PLockInv, Num
<1>7. PC!condition(t)' /\ ~PC!condition(u)'
  BY <1>1, <1>2, SMTT(90) DEF PC!condition, PFifoInv, PC!FIFO_SIZE, PC!Peer
<1>8. PCvInv'
  <2>1. ~Counted(t) /\ ~Counted(t)' /\ (Counted(u)' <=> Counted(u))
    BY <1>1, <1>2, Zenon DEF PTypeOK, Counted
  <2>2. p_active'[PC!wait_cv(t)] = p_active[PC!wait_cv(t)]
    BY <1>1, <1>3, PNotifications, Zenon DEF PTypeOK, PC!wait_cv
  <2>3. Counted(u)' => Signalled(u)'
    BY <1>1, <1>2, <1>3, <2>1, Zenon DEF PTypeOK, Signalled, PC!wait_cv
  <2>4. p_active'[PC!wait_cv(u)] => p_pc'[u] \in {"cv_post_signal", "cv_block"}
    BY <1>1, <1>2, <1>3, Zenon DEF PTypeOK, PCvInv
  <2>5. \A w \in PC!Child : Num(Counted(w))' = Num(Counted(w))
    BY <1>1, <2>1, Zenon DEF Num
  <2>6. ~p_active'[PC!wait_cv(t)]
    BY <1>2, <2>2, Zenon DEF PCvInv
  <2> QED
    BY <1>1, <1>2, <1>7, <2>1, <2>3, <2>4, <2>5, <2>6, Zenon DEF PCvInv
<1>9. PFifoInv'
  <2>1. stamp[t] = iter[u] /\ (t = Producer => iter[u] = iter[t])
                           /\ (t = Consumer => iter[u] = iter[t] + 1)
    BY <1>1, <1>2, SMTT(90) DEF PFifoInv, PC!condition, PC!FIFO_SIZE, PTypeOK
  <2>2. CASE t = Producer
    <3>1. u = Consumer
      BY <1>1, <2>2, Zenon
    <3>2. reported'[Producer] = Ignored .. iter[Producer] /\ reported'[Consumer] = reported[Consumer]
      <4>1. reported[Producer] = Ignored .. (iter[Producer] - 1) /\ stamp[Producer] = iter[Producer]
        BY <2>1, <2>2, Zenon DEF PFifoInv
      <4>2. reported'[Producer] = IF iter[Producer] >= Ignored
                                  THEN (Ignored .. (iter[Producer] - 1)) \cup {iter[Producer]}
                                  ELSE Ignored .. (iter[Producer] - 1)
        BY <1>2, <2>2, <4>1, Zenon DEF PTypeOK
      <4>3. iter[Producer] \in Nat
        BY Zenon DEF PTypeOK
      <4> QED
        BY <1>2, <2>2, <4>2, <4>3, IntervalGrows, Zenon DEF PTypeOK
    <3> QED
      BY <1>2, <2>1, <2>2, <3>1, <3>2, SMTT(90) DEF PFifoInv, PTypeOK, PC!condition, PC!FIFO_SIZE
  <2>3. CASE t = Consumer
    <3>1. u = Producer
      BY <1>1, <2>3, Zenon
    <3>2. /\ reported'[Consumer] = (Ignored + 1) .. (iter[Consumer] + 1)
          /\ reported'[Producer] = reported[Producer]
      <4>1. reported[Consumer] = (Ignored + 1) .. iter[Consumer] /\ stamp[Consumer] = iter[Consumer] + 1
        BY <2>1, <2>3, Zenon DEF PFifoInv
      <4>2. iter[Consumer] \in Nat
        BY Zenon DEF PTypeOK
      <4>3. iter[Consumer] = (iter[Consumer] + 1) - 1 /\ iter[Consumer] + 1 \in Nat /\ Ignored + 1 \in Nat
            /\ (iter[Consumer] + 1 >= Ignored + 1 <=> iter[Consumer] >= Ignored)
        BY <4>2
      <4>4. /\ iter[Consumer] >= Ignored =>
                ((Ignored + 1) .. iter[Consumer]) \cup {iter[Consumer] + 1} = (Ignored + 1) .. (iter[Consumer] + 1)
            /\ ~(iter[Consumer] >= Ignored) =>
                (Ignored + 1) .. iter[Consumer] = (Ignored + 1) .. (iter[Consumer] + 1)
        BY <4>3, IntervalGrows
      <4>5. reported'[Consumer] = IF iter[Consumer] >= Ignored
                                  THEN ((Ignored + 1) .. iter[Consumer]) \cup {iter[Consumer] + 1}
                                  ELSE (Ignored + 1) .. iter[Consumer]
        BY <1>2, <2>3, <4>1, Zenon DEF PTypeOK
      <4> QED
        BY <1>2, <2>3, <3>1, <4>4, <4>5, Zenon DEF PTypeOK
    <3>3. /\ iter'[Consumer] = iter[Consumer] + 1 /\ iter'[Producer] = iter[Producer]
          /\ stamp'[Producer] = iter[Consumer] + 1 /\ stamp'[Consumer] = stamp[Consumer]
          /\ p_sample'[Consumer] = <<iter[Consumer], iter[Consumer] + 1>>
          /\ p_sample'[Producer] = p_sample[Producer]
          /\ fifo_head = 1 /\ fifo_head' = 0
      BY <1>2, <2>1, <2>3, <3>1 DEF PFifoInv, PTypeOK, PC!condition, PC!FIFO_SIZE
    <3>4. iter[Consumer] \in Nat /\ iter[Producer] \in Nat
      BY Zenon DEF PTypeOK
    <3>5. (iter[Consumer] + 1) - 1 = iter[Consumer]
      BY <3>4
    <3>6. iter'[Consumer] > 0 => p_sample'[Consumer] = <<iter'[Consumer] - 1, iter'[Consumer]>>
      BY <3>3, <3>5, Zenon
    <3>7. /\ iter'[Producer] > 0 =>
             p_sample'[Producer] = <<iter'[Producer] - 1, iter'[Producer] - 1>>
          /\ reported'[Producer] = Ignored .. (iter'[Producer] - 1)
          /\ stamp'[Consumer] = iter'[Producer]
      BY <3>2, <3>3, Zenon DEF PFifoInv
    <3>8. fifo_head' = iter'[Producer] - iter'[Consumer]
      BY <3>3, <3>4 DEF PFifoInv
    <3> QED
      BY <3>2, <3>3, <3>6, <3>7, <3>8, Zenon DEF PFifoInv
  <2> QED
    BY <2>2, <2>3, Zenon
<1>10. PMainInv'
  <2>1. \A w \in PC!Child : \/ Unheard(w) /\ Unheard(w)'
                            \/ w = u /\ (Unheard(u)' <=> Unheard(u))
    BY <1>1, <1>2, <1>3, PStatesDistinct, Zenon DEF PTypeOK, Unheard, Counted
  <2>2. p_tcb'[Main] = p_tcb[Main] /\ p_pc'[Main] = p_pc[Main]
    BY <1>1, <1>2, <1>3, Zenon DEF PTypeOK
  <2>3. iter'[u] = iter[u] /\ iter'[t] = iter[t] + 1 /\ iter[t] < Items
    BY <1>1, <1>2, Zenon DEF PTypeOK, PMainInv, InLoop
  <2>4. p_pc'[t] = "post" /\ p_pc'[u] = p_pc[u]
    BY <1>1, <1>2, Zenon DEF PTypeOK
  <2> QED
    BY <1>1, <1>2, <2>1, <2>2, <2>3, <2>4, SMTT(90) DEF PTypeOK, PMainInv, InLoop, Num
<1> QED
  BY <1>4, <1>5, <1>6, <1>8, <1>9, <1>10, Zenon

\* send_result to main's done_ep.
LEMMA PSend ==
  ASSUME PInv, NEW t \in PC!Child, p_tcb[t] = PC!Running,
         PC!Step(t, "done", "block"), PC!Send(t, PC!DoneEp),
         UNCHANGED <<p_value, p_cv, PC!pvars>>
  PROVE  PInv'
<1> USE PThreads DEF PInv, PC!Step, PC!pvars, PC!Child, PC!Thread
<1>1. /\ p_active' = p_active
      /\ \/ /\ p_tcb[Main] = PC!RecvingOn(PC!DoneEp)
            /\ p_tcb' = [p_tcb EXCEPT ![Main] = PC!Running]
         \/ p_tcb' = [p_tcb EXCEPT ![t] = PC!SendingTo(PC!DoneEp)]
  <2>1. \A w \in PC!Child : p_tcb[w] # PC!RecvingOn(PC!DoneEp)
    BY PStatesDistinct, Zenon DEF PBlockInv, PC!wait_cv
  <2>2. CASE \E r \in PC!Blocked(PC!RecvingOn(PC!DoneEp)) : PC!SetState(r, PC!Running)
    BY <2>1, <2>2, ZenonT(90) DEF PC!Blocked, PC!SetState, PTypeOK, PC!Send
  <2> QED
    BY <2>2, Zenon DEF PC!Send, PC!SetState
<1>2. PTypeOK'
  <2>1. p_pc' \in [PC!Thread -> PLabel]
    BY Zenon DEF PTypeOK, PLabel, InLoop
  <2>2. p_tcb' \in [PC!Thread -> PState]
    BY <1>1, Zenon DEF PTypeOK, PState
  <2> QED
    BY <1>1, <2>1, <2>2, Zenon DEF PTypeOK
<1>3. PBlockInv'
  BY <1>1, PStatesDistinct, SMTT(90) DEF PTypeOK, PBlockInv, InLoop
<1>4. PLockInv'
  BY <1>1, PStatesDistinct, Zenon DEF PTypeOK, PLockInv, Token, Queued, Num
<1>5. PCvInv'
  <2>1. \A u \in PC!Child : (Counted(u)' <=> Counted(u))
    BY Zenon DEF PTypeOK, Counted
  <2>2. \A u \in PC!Child : (Signalled(u)' <=> Signalled(u))
    BY <1>1, Zenon DEF PTypeOK, Signalled
  <2>3. \A u \in PC!Child : Num(Counted(u))' = Num(Counted(u))
    BY <2>1, Zenon DEF Num
  <2>4. \A u \in PC!Child : p_active[PC!wait_cv(u)] => p_pc'[u] = p_pc[u]
    BY Zenon DEF PTypeOK, PCvInv
  <2> QED
    BY <1>1, <2>1, <2>2, <2>3, <2>4, ZenonT(90) DEF PCvInv, PC!condition
<1>6. PFifoInv'
  BY Zenon DEF PFifoInv
<1>7. PMainInv'
  <2>1. \A u \in PC!Child : u # t => (Unheard(u)' <=> Unheard(u))
    BY <1>1, Zenon DEF PTypeOK, Unheard
  <2>2. Unheard(t) /\ p_pc'[t] = "block" /\ \A u \in PC!Child : u # t => p_pc'[u] = p_pc[u]
    BY Zenon DEF PTypeOK, Unheard
  <2>3. \/ p_tcb[Main] # PC!Running /\ p_tcb'[Main] = PC!Running /\ ~Unheard(t)'
           /\ p_pc[Main] = "collect"
        \/ p_tcb'[Main] = p_tcb[Main] /\ Unheard(t)'
    BY <1>1, <2>2, PStatesDistinct, Zenon DEF PTypeOK, PBlockInv, Unheard
  <2>4. p_pc'[Main] = p_pc[Main] /\ p_pc[Main] \in {"start", "collect"}
    BY <2>2, Zenon DEF PTypeOK, PBlockInv, PMainInv
  <2>5. iter[t] = Items
    BY PThreads, Zenon DEF PMainInv
  <2> QED
    BY <2>1, <2>2, <2>3, <2>4, SMTT(90) DEF PTypeOK, PMainInv, InLoop, Num
<1> QED
  BY <1>2, <1>3, <1>4, <1>5, <1>6, <1>7, Zenon

\* The child waits for ever on block_ep.
LEMMA PRecv ==
  ASSUME PInv, NEW t \in PC!Child, p_tcb[t] = PC!Running,
         PC!Step(t, "block", "off"), PC!Recv(t, PC!BlockEp),
         UNCHANGED <<p_value, p_cv, PC!pvars>>
  PROVE  PInv'
<1> USE PThreads DEF PInv, PC!Step, PC!pvars, PC!Child, PC!Thread
<1>1. /\ p_active' = p_active
      /\ p_tcb' = [p_tcb EXCEPT ![t] = PC!RecvingOn(PC!BlockEp)]
  <2>1. \A w \in PC!Thread : p_tcb[w] # PC!SendingTo(PC!BlockEp)
    BY PStatesDistinct, Zenon DEF PBlockInv, PC!wait_cv
  <2> QED
    BY <2>1, Zenon DEF PC!Blocked, PC!SetState, PTypeOK, PC!Recv
<1>2. PTypeOK'
  <2>1. p_pc' \in [PC!Thread -> PLabel]
    BY Zenon DEF PTypeOK, PLabel, InLoop
  <2>2. p_tcb' \in [PC!Thread -> PState]
    BY <1>1, Zenon DEF PTypeOK, PState
  <2> QED
    BY <1>1, <2>1, <2>2, Zenon DEF PTypeOK
<1>3. PBlockInv'
  BY <1>1, PStatesDistinct, ZenonT(90) DEF PTypeOK, PBlockInv, InLoop
<1>4. PLockInv'
  BY <1>1, PStatesDistinct, Zenon DEF PTypeOK, PLockInv, Token, Queued, Num
<1>5. PCvInv'
  <2>1. \A u \in PC!Child : (Counted(u)' <=> Counted(u))
    BY Zenon DEF PTypeOK, Counted
  <2>2. \A u \in PC!Child : (Signalled(u)' <=> Signalled(u))
    BY <1>1, Zenon DEF PTypeOK, Signalled
  <2>3. \A u \in PC!Child : Num(Counted(u))' = Num(Counted(u))
    BY <2>1, Zenon DEF Num
  <2>4. \A u \in PC!Child : p_active[PC!wait_cv(u)] => p_pc'[u] = p_pc[u]
    BY Zenon DEF PTypeOK, PCvInv
  <2> QED
    BY <1>1, <2>1, <2>2, <2>3, <2>4, ZenonT(90) DEF PCvInv, PC!condition
<1>6. PFifoInv'
  BY Zenon DEF PFifoInv
<1>7. PMainInv'
  <2>1. \A u \in PC!Child : Unheard(u)' <=> Unheard(u)
    BY <1>1, PStatesDistinct, Zenon DEF PTypeOK, Unheard
  <2>2. p_tcb'[Main] = p_tcb[Main] /\ p_pc'[Main] = p_pc[Main]
    BY <1>1, Zenon DEF PTypeOK
  <2>3. \A u \in PC!Child : \/ p_pc'[u] = p_pc[u]
                            \/ p_pc'[u] = "off" /\ iter[u] = Items /\ p_pc[u] = "block"
    <3>1. iter[t] = Items
      BY Zenon DEF PMainInv
    <3> QED
      BY <3>1, Zenon DEF PTypeOK
  <2>4. p_pc[Main] # "start"
    BY PStatesDistinct, Zenon DEF PMainInv, Unheard
  <2>5. \A u \in PC!Child : /\ p_pc'[u] \in InLoop => p_pc[u] \in InLoop
                            /\ p_pc'[u] \in {"done", "block"} => p_pc[u] \in {"done", "block"}
                            /\ p_pc'[u] = "off" => p_pc[u] = "off" \/ iter[u] = Items
    BY <2>3, Zenon DEF InLoop
  <2> QED
    BY <2>1, <2>2, <2>4, <2>5, Zenon DEF PTypeOK, PMainInv, Num
<1> QED
  BY <1>2, <1>3, <1>4, <1>5, <1>6, <1>7, Zenon

\* A step of the producer or the consumer.
LEMMA PChildStep ==
  ASSUME PInv, NEW t \in PC!Child, PC!ChildStep(t)
  PROVE  PInv'
<1>1. p_tcb[t] = PC!Running
  BY Zenon DEF PC!ChildStep, PC!CanRun
<1>2. CASE PC!AcquireLock(t)
  BY <1>1, <1>2, PSemWait, PSemBlock, Zenon DEF PC!AcquireLock
<1>3. CASE PC!CvWait(t)
  <2>1. UNCHANGED PC!pvars
    BY <1>3, Zenon DEF PC!CvWait
  <2>2. CASE /\ PC!condition(t)
             /\ PC!Step(t, "locked", "cv_post")
             /\ PC!CvEnter(PC!wait_cv(t))
             /\ UNCHANGED <<p_tcb, p_active, p_value>>
    BY <1>1, <2>1, <2>2, PCvEnter, Zenon
  <2>3. CASE PC!SemPost(t, "cv_post", "cv_post_signal", "cv_block")
    BY <1>1, <2>1, <2>3, PSemPost, Zenon
  <2>4. CASE PC!SemSignal(t, "cv_post_signal", "cv_block")
    BY <1>1, <2>1, <2>4, PSemSignal, Zenon
  <2>5. CASE PC!CvBlock(t, PC!wait_cv(t), "cv_block", "cv_lock")
    BY <1>1, <2>1, <2>5, PCvBlock, Zenon
  <2>6. CASE PC!SemWait(t, "cv_lock", "cv_lock_wait", "cv_leave")
    BY <1>1, <2>1, <2>6, PSemWait, Zenon
  <2>7. CASE PC!SemBlock(t, "cv_lock_wait", "cv_leave")
    BY <1>1, <2>1, <2>7, PSemBlock, Zenon
  <2>8. CASE PC!CvLeave(t, PC!wait_cv(t), "cv_leave", "locked")
    BY <1>1, <2>1, <2>8, PCvLeave, Zenon
  <2> QED
    BY <1>3, <2>2, <2>3, <2>4, <2>5, <2>6, <2>7, <2>8, Zenon DEF PC!CvWait
<1>4. CASE PC!Work(t)
  BY <1>1, <1>4, PWork, Zenon
<1>5. CASE PC!ReleaseLock(t)
  BY <1>1, <1>5, PSemPost, PSemSignal, Zenon DEF PC!ReleaseLock
<1>6. CASE PC!Report(t)
  BY <1>1, <1>6, PSend, PRecv, Zenon DEF PC!Report
<1> QED
  BY <1>2, <1>3, <1>4, <1>5, <1>6, Zenon DEF PC!ChildStep

\* benchmark_producer_consumer or its variant is entered.
LEMMA PBegin ==
  ASSUME PInv, PC!BeginPhase
  PROVE  PInv'
<1> USE PThreads DEF PInv, PC!BeginPhase, PC!Child, PC!Thread
<1>1. \A u \in PC!Child : p_pc[u] = "off" /\ p_pc'[u] = "off" /\ ~Unheard(u)
  BY Zenon DEF PTypeOK, PMainInv
<1>2. p_pc[Main] = "begin" /\ p_pc'[Main] = "start" /\ p_tcb[Main] = PC!Running
  BY Zenon DEF PTypeOK, PBlockInv
<1>3. PTypeOK'
  <2>1. p_pc' \in [PC!Thread -> PLabel]
    BY Zenon DEF PTypeOK, PLabel, InLoop
  <2>2. /\ iter' \in [PC!Child -> Nat] /\ stamp' \in [PC!Child -> Nat]
        /\ p_sample' \in [PC!Child -> Nat \X Nat] /\ reported' \in [PC!Child -> SUBSET Nat]
        /\ phase' \in Nat /\ p_todo' \in SUBSET PC!Child
    BY DEF PTypeOK
  <2> QED
    BY <2>1, <2>2, Zenon DEF PTypeOK
<1>4. PBlockInv'
  BY <1>1, <1>2, Zenon DEF PBlockInv, InLoop
<1>5. PLockInv'
  <2>1. \A u \in PC!Child : (Token(u)' <=> Token(u)) /\ (Queued(u)' <=> Queued(u))
    BY <1>1, Zenon DEF Token, Queued
  <2> QED
    BY <2>1, Zenon DEF PLockInv, Num
<1>6. PCvInv'
  <2>1. \A u \in PC!Child : ~Counted(u) /\ ~Counted(u)'
    BY <1>1, Zenon DEF Counted
  <2>2. \A u \in PC!Child : Num(Counted(u))' = Num(Counted(u))
    BY <2>1, Zenon DEF Num
  <2> QED
    BY <1>1, <2>1, <2>2, Zenon DEF PCvInv
<1>7. PFifoInv'
  <2>1. Ignored .. (0 - 1) = {} /\ (Ignored + 1) .. 0 = {}
    OBVIOUS
  <2> QED
    BY <2>1 DEF PFifoInv
<1>8. PMainInv'
  BY <1>1, <1>2, SMTT(90) DEF PMainInv, InLoop, Unheard
<1> QED
  BY <1>3, <1>4, <1>5, <1>6, <1>7, <1>8, Zenon

\* sel4utils_start_thread.
LEMMA PStart ==
  ASSUME PInv, NEW t \in PC!Child, PC!StartChild(t), p_tcb[Main] = PC!Running
  PROVE  PInv'
<1> USE PThreads DEF PInv, PC!Child, PC!Thread
<1>1. /\ p_pc[Main] = "start" /\ t \in p_todo
      /\ p_pc[t] = "off" /\ iter[t] = 0
      /\ p_todo' = p_todo \ {t} /\ p_left' = 2
      /\ p_tcb' = [p_tcb EXCEPT ![t] = PC!Running]
      /\ UNCHANGED <<p_active, p_value, p_cv, phase, fifo_head, iter, stamp, p_sample,
                     reported>>
  BY Zenon DEF PC!StartChild, PC!SetState, PMainInv
<1>2. /\ p_pc' \in [PC!Thread -> PLabel]
      /\ p_pc'[t] = "lock"
      /\ p_pc'[Main] = IF p_todo = {t} THEN "collect" ELSE "start"
      /\ \A u \in PC!Child : u # t => p_pc'[u] = p_pc[u]
  BY Zenon DEF PC!StartChild, PTypeOK, PLabel, InLoop
<1>3. \/ t = Producer /\ p_todo = PC!Child /\ p_todo' = {Consumer}
      \/ t = Consumer /\ p_todo = {Consumer} /\ p_todo' = {} /\ p_left = 2 /\ Unheard(Producer)
                      /\ p_pc[Producer] # "off"
  BY <1>1, Zenon DEF PC!StartChild, PMainInv
<1>4. PTypeOK'
  <2>1. p_tcb' \in [PC!Thread -> PState]
    BY <1>1, Zenon DEF PTypeOK, PState
  <2>2. p_left' \in Nat /\ p_todo' \in SUBSET PC!Child
    BY <1>1, <1>3, Zenon
  <2> QED
    BY <1>1, <1>2, <2>1, <2>2, Zenon DEF PTypeOK
<1>5. PBlockInv'
  BY <1>1, <1>2, ZenonT(90) DEF PTypeOK, PBlockInv, InLoop
<1>6. PLockInv'
  <2>1. \A u \in PC!Child : (Token(u)' <=> Token(u)) /\ (Queued(u)' <=> Queued(u))
    BY <1>1, <1>2, Zenon DEF Token, Queued, PTypeOK
  <2> QED
    BY <1>1, <2>1, Zenon DEF PLockInv, Num
<1>7. PCvInv'
  <2>1. \A u \in PC!Child : (Counted(u)' <=> Counted(u))
    BY <1>1, <1>2, Zenon DEF Counted
  <2>2. \A u \in PC!Child : (Signalled(u)' <=> Signalled(u))
    BY <1>1, <1>2, Zenon DEF PTypeOK, Signalled
  <2>3. \A u \in PC!Child : Num(Counted(u))' = Num(Counted(u))
    BY <2>1, Zenon DEF Num
  <2>4. \A u \in PC!Child : p_active[PC!wait_cv(u)] => p_pc'[u] = p_pc[u]
    BY <1>1, <1>2, Zenon DEF PCvInv
  <2> QED
    BY <1>1, <2>1, <2>2, <2>3, <2>4, ZenonT(90) DEF PCvInv, PC!condition
<1>8. PFifoInv'
  BY <1>1, Zenon DEF PFifoInv
<1>9. PMainInv'
  <2>1. Unheard(t)' /\ p_tcb'[Main] = PC!Running
    BY <1>1, <1>2, Zenon DEF Unheard, PTypeOK
  <2>2. \A u \in PC!Child : u # t => (Unheard(u)' <=> Unheard(u))
    BY <1>1, <1>2, Zenon DEF Unheard, PTypeOK
  <2>3. \A u \in PC!Child : /\ iter[u] <= Items
                            /\ p_pc'[u] \in InLoop => iter[u] < Items
                            /\ p_pc'[u] \in {"done", "block"} => iter[u] = Items
    BY <1>1, <1>2, SMTT(90) DEF PMainInv, InLoop
  <2>4. CASE t = Producer
    <3>1. /\ p_pc'[Main] = "start" /\ p_todo' = {Consumer} /\ p_left' = 2
          /\ p_pc'[Consumer] = "off" /\ iter[Consumer] = 0
      BY <1>1, <1>2, <1>3, <2>4, Zenon DEF PMainInv
    <3> QED
      BY <1>1, <1>2, <2>1, <2>3, <2>4, <3>1, Zenon DEF PMainInv
  <2>5. CASE t = Consumer
    <3>1. /\ p_pc'[Main] = "collect" /\ p_left' = 2 /\ Unheard(Producer)'
          /\ p_pc'[Producer] # "off"
      BY <1>1, <1>2, <1>3, <2>2, <2>5, Zenon
    <3> QED
      BY <1>1, <1>2, <2>1, <2>3, <2>5, <3>1, SMTT(90) DEF PMainInv, Num
  <2> QED
    BY <2>4, <2>5, Zenon
<1> QED
  BY <1>4, <1>5, <1>6, <1>7, <1>8, <1>9, Zenon

\* One round of benchmark_wait_children.
LEMMA PWaitChild ==
  ASSUME PInv, PC!WaitChild, p_tcb[Main] = PC!Running
  PROVE  PInv'
<1> USE PThreads DEF PInv, PC!Child, PC!Thread
<1>1. /\ p_pc[Main] = "collect" /\ p_left > 0 /\ p_left' = p_left - 1
      /\ UNCHANGED <<p_active, p_pc, p_value, p_cv, phase, fifo_head, iter, stamp, p_sample,
                     reported, p_todo>>
  BY Zenon DEF PC!WaitChild, PC!Recv
<1>2. \/ \E w \in PC!Child : /\ p_tcb[w] = PC!SendingTo(PC!DoneEp)
                             /\ p_tcb' = [p_tcb EXCEPT ![w] = PC!Running]
      \/ p_tcb' = [p_tcb EXCEPT ![Main] = PC!RecvingOn(PC!DoneEp)]
  BY PStatesDistinct DEF PC!WaitChild, PC!Recv, PC!Blocked, PC!SetState, PTypeOK
<1>3. PTypeOK'
  <2>1. p_tcb' \in [PC!Thread -> PState]
    BY <1>2, Zenon DEF PTypeOK, PState
  <2>2. p_left' \in Nat
    BY <1>1 DEF PTypeOK
  <2> QED
    BY <1>1, <2>1, <2>2, Zenon DEF PTypeOK
<1>4. PBlockInv'
  BY <1>1, <1>2, SMTT(90) DEF PTypeOK, PBlockInv
<1>5. \A u \in PC!Child : \/ p_tcb'[u] = p_tcb[u]
                          \/ p_pc[u] = "block" /\ p_tcb'[u] = PC!Running
  BY <1>2, PStatesDistinct, Zenon DEF PTypeOK, PBlockInv, PC!wait_cv
<1>6. PLockInv'
  <2>1. \A u \in PC!Child : (Token(u)' <=> Token(u)) /\ (Queued(u)' <=> Queued(u))
    BY <1>1, <1>5, Zenon DEF Token, Queued
  <2> QED
    BY <1>1, <2>1, Zenon DEF PLockInv, Num
<1>7. PCvInv'
  <2>1. \A u \in PC!Child : (Counted(u)' <=> Counted(u)) /\ (Signalled(u)' <=> Signalled(u))
    BY <1>1, <1>5, Zenon DEF Counted, Signalled
  <2>2. \A u \in PC!Child : Num(Counted(u))' = Num(Counted(u))
    BY <2>1, Zenon DEF Num
  <2> QED
    BY <1>1, <2>1, <2>2, ZenonT(90) DEF PCvInv, PC!condition
<1>8. PFifoInv'
  BY <1>1, Zenon DEF PFifoInv
<1>9. PMainInv'
  <2>1. p_left' + Num(p_tcb'[Main] # PC!Running) =
          Num(Unheard(Producer)') + Num(Unheard(Consumer)')
    <3>1. CASE \E w \in PC!Child : /\ p_tcb[w] = PC!SendingTo(PC!DoneEp)
                                   /\ p_tcb' = [p_tcb EXCEPT ![w] = PC!Running]
      <4>1. PICK w \in PC!Child : /\ p_tcb[w] = PC!SendingTo(PC!DoneEp)
                                  /\ p_tcb' = [p_tcb EXCEPT ![w] = PC!Running]
        BY <3>1, Zenon
      <4>2. p_pc[w] = "block" /\ Unheard(w) /\ ~Unheard(w)' /\ p_tcb'[Main] = PC!Running
        <5>1. p_pc[w] = "block"
          BY <4>1, PStatesDistinct, Zenon DEF PBlockInv, PC!wait_cv
        <5> QED
          BY <1>1, <4>1, <5>1, PStatesDistinct, Zenon DEF PTypeOK, Unheard
      <4>3. \A u \in PC!Child : u # w => (Unheard(u)' <=> Unheard(u))
        BY <1>1, <4>1, Zenon DEF PTypeOK, Unheard
      <4>4. /\ p_left = Num(Unheard(Producer)) + Num(Unheard(Consumer))
            /\ p_left' + Num(p_tcb'[Main] # PC!Running) = p_left - 1
        BY <1>1, <4>2 DEF PMainInv, Num, PTypeOK
      <4> QED
        BY <4>2, <4>3, <4>4 DEF Num
    <3>2. CASE p_tcb' = [p_tcb EXCEPT ![Main] = PC!RecvingOn(PC!DoneEp)]
      <4>1. p_tcb'[Main] # PC!Running
        BY <3>2, PStatesDistinct, Zenon DEF PTypeOK
      <4>2. \A u \in PC!Child : Unheard(u)' <=> Unheard(u)
        BY <1>1, <3>2, Zenon DEF PTypeOK, Unheard
      <4> QED
        BY <1>1, <4>1, <4>2 DEF PMainInv, Num, PTypeOK
    <3> QED
      BY <1>2, <3>1, <3>2, Zenon
  <2> QED
    BY <1>1, <2>1, Zenon DEF PMainInv
<1> QED
  BY <1>3, <1>4, <1>6, <1>7, <1>8, <1>9, Zenon

\* benchmark_wait_children returns.
LEMMA PEndCollect ==
  ASSUME PInv, PC!EndCollect, p_tcb[Main] = PC!Running
  PROVE  PInv'
<1> USE PThreads DEF PInv, PC!Child, PC!Thread, PC!EndCollect
<1>1. \A u \in PC!Child : p_pc'[u] = p_pc[u] /\ ~Unheard(u) /\ iter[u] = Items
  BY DEF PTypeOK, PMainInv, Num, Unheard
<1>2. p_pc'[Main] = "suspend" /\ p_pc' \in [PC!Thread -> PLabel]
  BY Zenon DEF PTypeOK, PLabel, InLoop
<1>3. PTypeOK'
  <2>1. p_todo' \in SUBSET PC!Child
    BY Zenon
  <2> QED
    BY <1>2, <2>1, Zenon DEF PTypeOK
<1>4. PBlockInv'
  BY <1>1, <1>2, Zenon DEF PBlockInv
<1>5. PLockInv'
  BY <1>1, Zenon DEF PLockInv, Token, Queued, Num
<1>6. PCvInv'
  <2>1. \A u \in PC!Child : (Counted(u)' <=> Counted(u)) /\ (Signalled(u)' <=> Signalled(u))
    BY <1>1, Zenon DEF Counted, Signalled
  <2>2. \A u \in PC!Child : Num(Counted(u))' = Num(Counted(u))
    BY <2>1, Zenon DEF Num
  <2> QED
    BY <1>1, <2>1, <2>2, ZenonT(90) DEF PCvInv, PC!condition
<1>7. PFifoInv'
  BY Zenon DEF PFifoInv
<1>8. PMainInv'
  BY <1>1, <1>2, Zenon DEF PMainInv, Unheard, InLoop
<1> QED
  BY <1>3, <1>4, <1>5, <1>6, <1>7, <1>8, Zenon

\* seL4_TCB_Suspend finds the child done.
LEMMA PSuspend ==
  ASSUME PInv, NEW t \in PC!Child, PC!SuspendChild(t), p_tcb[Main] = PC!Running
  PROVE  PInv'
<1> USE PThreads DEF PInv, PC!Child, PC!Thread
<1>1. /\ p_pc[Main] = "suspend" /\ t \in p_todo
      /\ p_todo' = p_todo \ {t}
      /\ p_tcb' = [p_tcb EXCEPT ![t] = PC!Inactive]
      /\ UNCHANGED <<p_active, p_value, p_cv, phase, fifo_head, iter, stamp, p_sample, reported,
                     p_left>>
  BY Zenon DEF PC!SuspendChild, PC!SetState
<1>2. /\ p_pc' \in [PC!Thread -> PLabel]
      /\ p_pc'[t] = "off"
      /\ p_pc'[Main] = IF p_todo = {t} THEN "begin" ELSE "suspend"
      /\ \A u \in PC!Child : u # t => p_pc'[u] = p_pc[u]
  BY Zenon DEF PC!SuspendChild, PTypeOK, PLabel, InLoop
<1>3. \/ t = Producer /\ p_todo = PC!Child /\ p_todo' = {Consumer}
      \/ t = Consumer /\ p_todo = {Consumer} /\ p_pc[Producer] = "off"
  BY <1>1, Zenon DEF PC!SuspendChild, PMainInv
<1>4. \A u \in PC!Child : p_pc[u] \in {"off", "block"} /\ iter[u] = Items /\ ~Unheard(u)
  BY <1>1, Zenon DEF PMainInv, Unheard
<1>5. PTypeOK'
  <2>1. p_tcb' \in [PC!Thread -> PState]
    BY <1>1, Zenon DEF PTypeOK, PState
  <2>2. p_todo' \in SUBSET PC!Child
    BY <1>1, Zenon DEF PTypeOK
  <2> QED
    BY <1>1, <1>2, <2>1, <2>2, Zenon DEF PTypeOK
<1>6. PBlockInv'
  BY <1>1, <1>2, Zenon DEF PTypeOK, PBlockInv
<1>7. PLockInv'
  <2>1. \A u \in PC!Child : (Token(u)' <=> Token(u)) /\ (Queued(u)' <=> Queued(u))
    BY <1>1, <1>2, <1>4, Zenon DEF Token, Queued, PTypeOK
  <2> QED
    BY <1>1, <2>1, Zenon DEF PLockInv, Num
<1>8. PCvInv'
  <2>1. \A u \in PC!Child : ~Counted(u) /\ ~Counted(u)'
    BY <1>2, <1>4, Zenon DEF Counted
  <2>2. \A u \in PC!Child : Num(Counted(u))' = Num(Counted(u))
    BY <2>1, Zenon DEF Num
  <2>3. \A u \in PC!Child : ~p_active[PC!wait_cv(u)]
    BY <1>4, Zenon DEF PCvInv
  <2> QED
    BY <1>1, <2>1, <2>2, <2>3, Zenon DEF PCvInv
<1>9. PFifoInv'
  BY <1>1, Zenon DEF PFifoInv
<1>10. PMainInv'
  <2>1. \A u \in PC!Child : ~Unheard(u)' /\ p_pc'[u] \in {"off", "block"}
    BY <1>1, <1>2, <1>4, PStatesDistinct, Zenon DEF Unheard, PTypeOK
  <2>2. p_left' = 0
    BY <1>1, Zenon DEF PMainInv
  <2> QED
    BY <1>1, <1>2, <1>3, <1>4, <2>1, <2>2, Zenon DEF PMainInv, InLoop
<1> QED
  BY <1>5, <1>6, <1>7, <1>8, <1>9, <1>10, Zenon

\* A step of main.
LEMMA PMainStep ==
  ASSUME PInv, PC!MainStep
  PROVE  PInv'
BY PBegin, PStart, PWaitChild, PEndCollect, PSuspend, Zenon DEF PC!MainStep, PC!CanRun

\* The invariant holds at the start.
LEMMA PInitInv == PC!Init => PInv
<1> SUFFICES ASSUME PC!Init PROVE PInv
  BY Zenon
<1> USE PThreads DEF PC!Init, PC!Child, PC!Thread
<1>1. PTypeOK
  <2>1. p_tcb \in [PC!Thread -> PState] /\ p_pc \in [PC!Thread -> PLabel]
    BY Zenon DEF PState, PLabel, InLoop
  <2>2. p_cv \in [{PC!ProducerCv, PC!ConsumerCv} -> [waiters : Int, broadcasting : BOOLEAN]]
    BY DEF PC!NewCv
  <2> QED
    BY <2>1, <2>2 DEF PTypeOK
<1>2. PBlockInv
  BY Zenon DEF PBlockInv
<1>3. PLockInv
  BY PNotifications, PStatesDistinct DEF PLockInv, Token, Queued, Num
<1>4. PCvInv
  <2>1. \A t \in PC!Child : ~Counted(t) /\ p_cv[PC!wait_cv(t)] = PC!NewCv
                            /\ ~p_active[PC!wait_cv(t)]
    BY Zenon DEF Counted, PC!wait_cv
  <2> QED
    BY <2>1, Zenon DEF PCvInv, PC!NewCv, Num
<1>5. PFifoInv
  <2>1. Ignored .. (0 - 1) = {} /\ (Ignored + 1) .. 0 = {}
    OBVIOUS
  <2> QED
    BY <2>1 DEF PFifoInv
<1>6. PMainInv
  BY PStatesDistinct DEF PMainInv, Unheard, InLoop
<1> QED
  BY <1>1, <1>2, <1>3, <1>4, <1>5, <1>6, Zenon DEF PInv

\* Steps of the broadcast benchmark change nothing of the second part.
LEMMA PStutter == PInv /\ UNCHANGED pcvars => PInv'
<1> SUFFICES ASSUME PInv, UNCHANGED pcvars PROVE PInv'
  BY Zenon
<1> USE DEF PInv, pcvars
<1>1. PTypeOK'
  BY Zenon DEF PTypeOK
<1>2. PBlockInv'
  BY Zenon DEF PBlockInv
<1>3. PLockInv'
  BY Zenon DEF PLockInv, Token, Queued
<1>4. PCvInv'
  BY Zenon DEF PCvInv, Counted, Signalled, PC!condition
<1>5. PFifoInv'
  BY Zenon DEF PFifoInv
<1>6. PMainInv'
  BY Zenon DEF PMainInv, Unheard
<1> QED
  BY <1>1, <1>2, <1>3, <1>4, <1>5, <1>6, Zenon

\* The second part counts with the same Cardinality.
LEMMA SameCardinality == \A S : PC!Cardinality(S) = Cardinality(S)
BY Zenon DEF PC!Cardinality, Cardinality

-----------------------------------------------------------------------------
(* The producer/consumer benchmarks: the theorems.                         *)

\* PInv is an invariant of main of src/apps/sync.
THEOREM ProducerConsumerInvariance == MainSpec => []PInv
<1>1. MainInit => PInv
  BY PInitInv, Zenon DEF MainInit
<1>2. PInv /\ [MainNext]_<<vars, pcvars>> => PInv'
  <2>1. PInv /\ PC!Next => PInv'
    <3>1. PC!Finished => UNCHANGED pcvars
      BY Zenon DEF PC!Finished, PC!vars, pcvars
    <3> QED
      BY <3>1, PChildStep, PMainStep, PStutter, Zenon DEF PC!Next
  <2> QED
    BY <2>1, PStutter, Zenon DEF MainNext
<1> QED
  BY <1>1, <1>2, PTL DEF MainSpec

\* When nobody runs, or main has heard from both, the synchronisation objects are as
\* new and both have done all their iterations or none.
LEMMA PQuiet ==
  ASSUME PInv, p_pc[Main] \in {"begin", "suspend"} \/ PC!AllReported
  PROVE  /\ p_value = 1
         /\ \A c \in DOMAIN p_cv : p_cv[c] = PC!NewCv
         /\ \A n \in DOMAIN p_active : ~p_active[n]
         /\ fifo_head = 0
         /\ PC!AllReported => \A t \in PC!Child : iter[t] = Items
<1> USE PThreads DEF PInv, PC!Child, PC!AllReported
<1>1. \A t \in PC!Child : ~Unheard(t)
  BY DEF PMainInv, Num, PTypeOK
<1>2. \A t \in PC!Child : p_pc[t] \in {"off", "block"}
  BY <1>1, Zenon DEF Unheard
<1>3. \A t \in PC!Child : ~Queued(t) /\ ~Counted(t) /\ ~p_active[PC!wait_cv(t)]
  BY <1>2, Zenon DEF Queued, Counted, PCvInv
<1>4. p_value = 1 /\ ~p_active[PC!Lock]
  BY <1>3 DEF PLockInv, Num
<1>5. \A t \in PC!Child : p_cv[PC!wait_cv(t)] = PC!NewCv
  BY <1>3, Zenon DEF PCvInv, PC!NewCv, Num
<1>6. PC!wait_cv(Producer) = PC!ConsumerCv /\ PC!wait_cv(Consumer) = PC!ProducerCv
  BY Zenon DEF PC!wait_cv
<1>7. PC!AllReported => \A t \in PC!Child : iter[t] = Items
  BY <1>2, Zenon DEF PMainInv
<1>8. iter[Producer] = iter[Consumer]
  BY <1>7, Zenon DEF PMainInv
<1>9. fifo_head = 0
  BY <1>8 DEF PFifoInv, PTypeOK
<1>10. \A c \in DOMAIN p_cv : p_cv[c] = PC!NewCv
  BY <1>5, <1>6, Zenon DEF PTypeOK
<1>11. \A n \in DOMAIN p_active : ~p_active[n]
  BY <1>3, <1>4, <1>6, Zenon DEF PTypeOK
<1> QED
  BY <1>4, <1>7, <1>9, <1>10, <1>11, Zenon

\* The fifo never holds fewer than 0 or more than FIFO_SIZE items, and holds what was
\* put in and not taken out.
THEOREM FifoIsBounded == MainSpec => []FifoMatchesProgress
<1>1. PInv => FifoMatchesProgress
  BY DEF PInv, PFifoInv, FifoMatchesProgress, PC!FifoMatchesProgress, PC!FIFO_SIZE
<1> QED
  BY <1>1, ProducerConsumerInvariance, PTL

INSTANCE FiniteSetTheorems

\* Every sample of the producer and of the consumer is measured from the signal that
\* made it possible, and the statistics of each rest on N_RUNS - N_IGNORED samples of
\* different signals.
THEOREM SamplesAreCaused == MainSpec => []SamplesMatchSignals
<1>1. PInv => SamplesMatchSignals
  <2> SUFFICES ASSUME PInv PROVE SamplesMatchSignals
    BY Zenon
  <2>1. ASSUME PC!AllReported, NEW t \in PC!Child
        PROVE  Cardinality(reported[t]) = Items - Ignored /\ 0 \notin reported[t]
    <3>1. iter[Producer] = Items /\ iter[Consumer] = Items
      BY <2>1, PQuiet, Zenon DEF PC!Child
    <3>2. /\ reported[Producer] = Ignored .. (Items - 1)
          /\ reported[Consumer] = (Ignored + 1) .. Items
      BY <3>1, Zenon DEF PInv, PFifoInv
    <3>3. /\ Ignored \in Int /\ Items - 1 \in Int /\ Ignored <= Items
          /\ Ignored + 1 \in Int /\ Items \in Int
      BY PThreads
    <3>4. /\ Cardinality(Ignored .. (Items - 1)) =
               IF Ignored > Items - 1 THEN 0 ELSE (Items - 1) - Ignored + 1
          /\ Cardinality((Ignored + 1) .. Items) =
               IF Ignored + 1 > Items THEN 0 ELSE Items - (Ignored + 1) + 1
      BY <3>3, FS_Interval, Zenon
    <3>5. /\ Cardinality(Ignored .. (Items - 1)) = Items - Ignored
          /\ Cardinality((Ignored + 1) .. Items) = Items - Ignored
      BY <3>3, <3>4, PThreads
    <3>6. 0 \notin Ignored .. (Items - 1) /\ 0 \notin (Ignored + 1) .. Items
      BY PThreads
    <3> QED
      BY <3>2, <3>5, <3>6, Zenon DEF PC!Child
  <2>2. /\ iter[Consumer] > 0 => p_sample[Consumer] = <<iter[Consumer] - 1, iter[Consumer]>>
        /\ iter[Producer] > 0 =>
             p_sample[Producer] = <<iter[Producer] - 1, iter[Producer] - 1>>
    BY Zenon DEF PInv, PFifoInv
  <2> QED
    BY <2>1, <2>2, SameCardinality, Zenon DEF SamplesMatchSignals, PC!SamplesMatchSignals
<1> QED
  BY <1>1, ProducerConsumerInvariance, PTL

\* The early processing variant finds lock, condition variables and fifo as new.
THEOREM HandoverIsClean == MainSpec => []CleanHandover
<1>1. PInv => CleanHandover
  BY PQuiet, Zenon DEF CleanHandover, PC!CleanHandover
<1> QED
  BY <1>1, ProducerConsumerInvariance, PTL

-----------------------------------------------------------------------------
(* The broadcast benchmark: the inductive invariant.                       *)

\* Threads that have decremented the semaphore and not yet incremented it.
Inside == {t \in Child : pc[t] \in {"lock_wait", "locked", "cv_post",
                                    "cv_lock_wait", "cv_leave", "post"}}

\* Threads counted in cv.waiters.
InCv == {t \in Child : pc[t] \in {"cv_post", "cv_post_signal", "cv_block",
                                  "cv_lock", "cv_lock_wait", "cv_leave"}}

PendingSet == {t \in Child : Pending(t)}

\* A thread that owns the lock or is about to hand it on by signalling.
HasLockToken(t) == Holding(t) \/ pc[t] \in {"cv_post_signal", "post_signal"}

\* A waiter that the condition variable has woken and that has not left it.
Woken(t) == \/ pc[t] \in {"cv_lock_wait", "cv_leave"}
            \/ pc[t] = "cv_lock" /\ tcb[t] # WaitingOn(Cv)

\* There is one token for the lock: an owner, a signal under way, a pending
\* signal, or the value 1.
LockInv ==
  /\ \A t, u \in Child : HasLockToken(t) /\ HasLockToken(u) => t = u
  /\ active[Lock] => \A t \in Child : ~HasLockToken(t)
  /\ value = 1 => ~active[Lock] /\ \A t \in Child : ~HasLockToken(t)

CountInv ==
  /\ value = 1 - Cardinality(Inside)
  /\ cv[Cv].waiters = Cardinality(InCv)

\* Main's side of the barrier.
MainInv ==
  /\ pc[Main] \in {"collect", "start", "suspend", "end"}
  /\ tcb[Main] \in {Running, RecvingOn(DoneEp)}
  /\ tcb[Main] = RecvingOn(DoneEp) => pc[Main] = "collect"
  /\ pc[Broadcaster] \notin {"cv_post", "cv_post_signal", "cv_block", "cv_lock",
                             "cv_lock_wait", "cv_leave"}
  /\ \A t \in Child : /\ pc[t] \in Label
                      /\ tcb[t] # RecvingOn(DoneEp)
                      /\ tcb[t] # SendingTo(BlockEp)
                      /\ tcb[t] = SendingTo(DoneEp) => pc[t] = "block"
                      /\ tcb[t] = WaitingOn(Cv) => pc[t] = "cv_lock"
                      /\ pc[t] \in {"lock", "lock_wait", "post", "post_signal",
                                    "done"} => tcb[t] # WaitingOn(Cv)

BarrierInv ==
  /\ pc[Main] = "collect" =>
       left + (IF tcb[Main] = Running THEN 0 ELSE 1) = Cardinality(PendingSet)
  /\ pc[Main] = "start" =>
       /\ todo \in SUBSET Waiter
       /\ \A t \in Waiter : t \notin todo <=> Pending(t)
       /\ ~Pending(Broadcaster)
  /\ pc[Main] = "suspend" => \A t \in Child : ~Pending(t)
  /\ pc[Main] = "end" => \A t \in Child : ~Pending(t)

\* One broadcast per run, handed from waiter to waiter.
ChainInv ==
  /\ pc[Main] = "start" => shared = 0
  /\ pc[Broadcaster] \in {"lock", "lock_wait", "locked"} => shared = 0
  /\ shared = 0 => ~active[Cv] /\ \A t \in Child : ~Woken(t)
  /\ \A t, u \in Child : Woken(t) /\ Woken(u) => t = u
  /\ active[Cv] => cv[Cv].waiters > 0 /\ \A t \in Child : ~Woken(t)
  /\ cv[Cv].waiters = 0 => ~cv[Cv].broadcasting

\* The broadcaster reads the stamp in the critical section that sets shared.
StampInv ==
  /\ shared # 0 => start = run
  /\ \A w \in Waiter :
       Pending(w) /\ pc[w] \in {"post", "post_signal", "done", "block"} =>
         sample[w] = run
  /\ pc[Main] = "collect" =>
       \A w \in Waiter : ~Pending(w) => sample[w] = run

IInv == /\ TypeOK /\ LockInv /\ CountInv /\ MainInv
        /\ BarrierInv /\ ChainInv /\ StampInv

-----------------------------------------------------------------------------
(* The broadcast benchmark: facts about the constants.                     *)

\* The states a thread can be in are pairwise distinct.
LEMMA StatesDistinct ==
  /\ Running \notin {Inactive, WaitingOn(Lock), WaitingOn(Cv), SendingTo(DoneEp),
                     SendingTo(BlockEp), RecvingOn(DoneEp), RecvingOn(BlockEp)}
  /\ Inactive \notin {WaitingOn(Lock), WaitingOn(Cv), SendingTo(DoneEp),
                      SendingTo(BlockEp), RecvingOn(DoneEp), RecvingOn(BlockEp)}
  /\ WaitingOn(Lock) \notin {WaitingOn(Cv), SendingTo(DoneEp), SendingTo(BlockEp),
                             RecvingOn(DoneEp), RecvingOn(BlockEp)}
  /\ WaitingOn(Cv) \notin {SendingTo(DoneEp), SendingTo(BlockEp),
                           RecvingOn(DoneEp), RecvingOn(BlockEp)}
  /\ SendingTo(DoneEp) \notin {SendingTo(BlockEp), RecvingOn(DoneEp),
                               RecvingOn(BlockEp)}
  /\ SendingTo(BlockEp) \notin {RecvingOn(DoneEp), RecvingOn(BlockEp)}
  /\ RecvingOn(DoneEp) # RecvingOn(BlockEp)
BY Zenon DEF Running, Inactive, WaitingOn, SendingTo, RecvingOn, Lock, Cv, DoneEp, BlockEp

\* Main is none of its children.
LEMMA MainNoChild ==
  Main \notin Child /\ Child \subseteq Thread /\ Main \in Thread
BY ThreadAssumption, Zenon DEF Child, Thread

\* There are N_WAITERS + 1 children.
LEMMA ChildCount ==
  /\ IsFiniteSet(Child)
  /\ N_WAITERS \in Nat /\ N_WAITERS > 0
  /\ Cardinality(Child) = N_WAITERS + 1
<1>1. IsFiniteSet(Waiter) /\ Broadcaster \notin Waiter /\ Waiter # {}
  BY ThreadAssumption, Zenon
<1>2. Cardinality(Waiter) \in Nat
  BY <1>1, FS_CardinalityType, Zenon
<1>3. Cardinality(Waiter) # 0
  BY <1>1, FS_EmptySet, Zenon
<1>4. /\ IsFiniteSet(Waiter \cup {Broadcaster})
      /\ Cardinality(Waiter \cup {Broadcaster}) = Cardinality(Waiter) + 1
  BY <1>1, FS_AddElement, Zenon
<1> QED
  BY <1>2, <1>3, <1>4 DEF Child, N_WAITERS

\* Counting sets of children.
LEMMA Counting ==
  ASSUME NEW S \in SUBSET Child, NEW t \in Child
  PROVE  /\ Cardinality(S) \in Nat
         /\ Cardinality(S) = 0 <=> S = {}
         /\ Cardinality(S \cup {t}) =
              IF t \in S THEN Cardinality(S) ELSE Cardinality(S) + 1
         /\ Cardinality(S \ {t}) =
              IF t \in S THEN Cardinality(S) - 1 ELSE Cardinality(S)
<1>1. IsFiniteSet(S)
  BY ChildCount, FS_Subset, Zenon
<1> QED
  BY <1>1, FS_CardinalityType, FS_EmptySet, FS_AddElement, FS_RemoveElement, Zenon

\* The sets that are counted are sets of children.
LEMMA CountedSets ==
  /\ Inside \in SUBSET Child /\ Inside' \in SUBSET Child
  /\ InCv \in SUBSET Child /\ InCv' \in SUBSET Child
  /\ PendingSet \in SUBSET Child /\ PendingSet' \in SUBSET Child
BY Zenon DEF Inside, InCv, PendingSet

-----------------------------------------------------------------------------
(* The broadcast benchmark: every step preserves the invariant.            *)

\* The decrement of sync_bin_sem_wait.
LEMMA SemWaitStep ==
  ASSUME IInv, NEW t \in Child, tcb[t] = Running,
         NEW a, NEW b, NEW c, SemWait(t, a, b, c), UNCHANGED bvars,
         \/ a = "lock" /\ b = "lock_wait" /\ c = "locked"
         \/ a = "cv_lock" /\ b = "cv_lock_wait" /\ c = "cv_leave"
  PROVE  IInv'
<1> USE DEF IInv, Step, bvars, SemWait
<1>1. TypeOK'
  BY MainNoChild DEF TypeOK, Label, ThreadState
<1>2. LockInv'
  BY StatesDistinct, SMTT(90) DEF LockInv, TypeOK, HasLockToken, Holding
<1>3. CountInv'
  <2>1. Inside' = Inside \cup {t} /\ t \notin Inside
    BY Zenon DEF Inside, TypeOK, Thread
  <2>2. InCv' = InCv
    BY Zenon DEF InCv, TypeOK, Thread
  <2> QED
    BY <2>1, <2>2, Counting, CountedSets, SMTT(90) DEF CountInv, TypeOK
<1>4. MainInv'
  BY MainNoChild, StatesDistinct, SMTT(90) DEF MainInv, TypeOK, Label
<1>5. /\ \A u \in Child : Pending(u)' <=> Pending(u)
      /\ tcb'[Main] = tcb[Main] /\ pc'[Main] = pc[Main]
  BY MainNoChild, StatesDistinct, Zenon DEF Pending, TypeOK, MainInv
<1>6. BarrierInv'
  BY <1>5, MainNoChild, Zenon DEF BarrierInv, PendingSet, TypeOK, Child
<1>7. ChainInv'
  BY MainNoChild, StatesDistinct, Zenon DEF ChainInv, TypeOK, Woken, Child
<1>8. StampInv'
  BY <1>5, MainNoChild, Zenon DEF StampInv, TypeOK, Child
<1> QED
  BY <1>1, <1>2, <1>3, <1>4, <1>6, <1>7, <1>8, Zenon

\* The wait of sync_bin_sem_wait.
LEMMA SemBlockStep ==
  ASSUME IInv, NEW t \in Child, tcb[t] = Running,
         NEW a, NEW b, SemBlock(t, a, b), UNCHANGED bvars,
         \/ a = "lock_wait" /\ b = "locked"
         \/ a = "cv_lock_wait" /\ b = "cv_leave"
  PROVE  IInv'
<1> USE DEF IInv, Step, bvars, SemBlock, Wait, SetState
<1>1. TypeOK'
  BY MainNoChild, ZenonT(90) DEF TypeOK, Label, ThreadState
<1>2. LockInv'
  <2>1. \A u \in Child : u # t => (HasLockToken(u)' <=> HasLockToken(u))
    BY Zenon DEF TypeOK, HasLockToken, Holding, Thread
  <2>2. ~HasLockToken(t)
    BY Zenon DEF TypeOK, HasLockToken, Holding
  <2>3. CASE active[Lock]
    BY <2>1, <2>2, <2>3, Zenon DEF LockInv, TypeOK
  <2>4. CASE ~active[Lock]
    <3>1. ~HasLockToken(t)'
      BY <2>4, Zenon DEF TypeOK, HasLockToken, Holding, Thread
    <3> QED
      BY <2>1, <2>2, <2>4, <3>1, Zenon DEF LockInv, TypeOK
  <2> QED
    BY <2>3, <2>4, Zenon
<1>3. CountInv'
  <2>1. Inside' = Inside
    BY Zenon DEF Inside, TypeOK, Thread
  <2>2. InCv' = InCv
    BY Zenon DEF InCv, TypeOK, Thread
  <2> QED
    BY <2>1, <2>2, Counting, CountedSets, Zenon DEF CountInv, TypeOK
<1>4. MainInv'
  BY MainNoChild, StatesDistinct, SMTT(90) DEF MainInv, TypeOK, Label
<1>5. /\ \A u \in Child : Pending(u)' <=> Pending(u)
      /\ tcb'[Main] = tcb[Main] /\ pc'[Main] = pc[Main]
  BY MainNoChild, StatesDistinct, Zenon DEF Pending, TypeOK, MainInv
<1>6. BarrierInv'
  BY <1>5, MainNoChild, Zenon DEF BarrierInv, PendingSet, TypeOK, Child
<1>7. ChainInv'
  BY MainNoChild, StatesDistinct, SMTT(90) DEF ChainInv, TypeOK, Woken, Child
<1>8. StampInv'
  BY <1>5, MainNoChild, Zenon DEF StampInv, TypeOK, Child
<1> QED
  BY <1>1, <1>2, <1>3, <1>4, <1>6, <1>7, <1>8, Zenon

\* The increment of sync_bin_sem_post.
LEMMA SemPostStep ==
  ASSUME IInv, NEW t \in Child, tcb[t] = Running,
         NEW a, NEW b, NEW c, SemPost(t, a, b, c), UNCHANGED bvars,
         \/ a = "post" /\ b = "post_signal" /\ c = "done"
         \/ a = "cv_post" /\ b = "cv_post_signal" /\ c = "cv_block"
  PROVE  IInv'
<1> USE DEF IInv, Step, bvars, SemPost
<1>1. TypeOK'
  BY MainNoChild DEF TypeOK, Label, ThreadState, LockInv, HasLockToken, Holding, WaitingOn,
     Running
<1>2. LockInv'
  <2>1. HasLockToken(t) /\ \A u \in Child : HasLockToken(u)' => HasLockToken(u)
    BY StatesDistinct, Zenon DEF TypeOK, HasLockToken, Holding, Thread
  <2>2. value' = 1 => ~HasLockToken(t)'
    BY DEF TypeOK, HasLockToken, Holding, Thread
  <2> QED
    BY <2>1, <2>2, Zenon DEF LockInv, TypeOK
<1>3. CountInv'
  <2>1. Inside' = Inside \ {t} /\ t \in Inside
    BY Zenon DEF Inside, TypeOK, Thread
  <2>2. InCv' = InCv
    BY Zenon DEF InCv, TypeOK, Thread
  <2> QED
    BY <2>1, <2>2, Counting, CountedSets DEF CountInv, TypeOK
<1>4. MainInv'
  BY MainNoChild, StatesDistinct, SMTT(90) DEF MainInv, TypeOK, Label
<1>5. /\ \A u \in Child : Pending(u)' <=> Pending(u)
      /\ tcb'[Main] = tcb[Main] /\ pc'[Main] = pc[Main]
  BY MainNoChild, StatesDistinct, Zenon DEF Pending, TypeOK, MainInv
<1>6. BarrierInv'
  BY <1>5, MainNoChild, Zenon DEF BarrierInv, PendingSet, TypeOK, Child
<1>7. ChainInv'
  BY MainNoChild, StatesDistinct, Zenon DEF ChainInv, TypeOK, Woken, Child
<1>8. StampInv'
  BY <1>5, MainNoChild, Zenon DEF StampInv, TypeOK, Child
<1> QED
  BY <1>1, <1>2, <1>3, <1>4, <1>6, <1>7, <1>8, Zenon

\* The signal of sync_bin_sem_post.
LEMMA SemSignalStep ==
  ASSUME IInv, NEW t \in Child, tcb[t] = Running,
         NEW a, NEW b, SemSignal(t, a, b), UNCHANGED bvars,
         \/ a = "post_signal" /\ b = "done"
         \/ a = "cv_post_signal" /\ b = "cv_block"
  PROVE  IInv'
<1> USE DEF IInv, Step, bvars, SemSignal, Signal, SetState, Blocked
<1>1. TypeOK'
  BY MainNoChild, Zenon DEF TypeOK, Label, ThreadState
<1>2. LockInv'
  <2>1. HasLockToken(t) /\ ~HasLockToken(t)'
    BY Zenon DEF TypeOK, HasLockToken, Holding, Thread
  <2>2. CASE \E w \in Blocked(WaitingOn(Lock)) : SetState(w, Running) /\ UNCHANGED active
    <3>1. PICK w \in Blocked(WaitingOn(Lock)) : SetState(w, Running) /\ UNCHANGED active
      BY <2>2, Zenon
    <3>2. \A u \in Child : u # w => (HasLockToken(u)' => HasLockToken(u))
      BY <3>1, Zenon DEF TypeOK, HasLockToken, Holding, Thread
    <3> QED
      BY <2>1, <3>1, <3>2, Zenon DEF LockInv, TypeOK
  <2>3. CASE Blocked(WaitingOn(Lock)) = {} /\ UNCHANGED tcb
    <3>1. \A u \in Child : HasLockToken(u)' => HasLockToken(u)
      BY <2>3, Zenon DEF TypeOK, HasLockToken, Holding, Thread
    <3> QED
      BY <2>1, <2>3, <3>1, Zenon DEF LockInv, TypeOK
  <2> QED
    BY <2>2, <2>3, Zenon
<1>3. CountInv'
  <2>1. Inside' = Inside
    BY Zenon DEF Inside, TypeOK, Thread
  <2>2. InCv' = InCv
    BY Zenon DEF InCv, TypeOK, Thread
  <2> QED
    BY <2>1, <2>2, Counting, CountedSets, Zenon DEF CountInv, TypeOK
<1>4. MainInv'
  BY MainNoChild, StatesDistinct, SMTT(90) DEF MainInv, TypeOK, Label
<1>5. /\ \A u \in Child : Pending(u)' <=> Pending(u)
      /\ tcb'[Main] = tcb[Main] /\ pc'[Main] = pc[Main]
  BY MainNoChild, StatesDistinct, Zenon DEF Pending, TypeOK, MainInv
<1>6. BarrierInv'
  BY <1>5, MainNoChild, Zenon DEF BarrierInv, PendingSet, TypeOK, Child
<1>7. ChainInv'
  BY MainNoChild, StatesDistinct, SMTT(90) DEF ChainInv, TypeOK, Woken, Child
<1>8. StampInv'
  BY <1>5, MainNoChild, Zenon DEF StampInv, TypeOK, Child
<1> QED
  BY <1>1, <1>2, <1>3, <1>4, <1>6, <1>7, <1>8, Zenon

\* The wait of sync_cv_wait.
LEMMA CvBlockStep ==
  ASSUME IInv, NEW t \in Child, tcb[t] = Running,
         CvBlock(t, Cv, "cv_block", "cv_lock"), UNCHANGED bvars
  PROVE  IInv'
<1> USE DEF IInv, Step, bvars, CvBlock, Wait, SetState
<1>1. TypeOK'
  BY MainNoChild, ZenonT(90) DEF TypeOK, Label, ThreadState
<1>2. LockInv'
  <2>1. active'[Lock] = active[Lock]
    BY Zenon DEF TypeOK, Lock, Cv
  <2>2. \A u \in Child : HasLockToken(u)' <=> HasLockToken(u)
    BY StatesDistinct, MainNoChild, Zenon DEF TypeOK, HasLockToken, Holding
  <2> QED
    BY <2>1, <2>2, Zenon DEF LockInv
<1>3. CountInv'
  <2>1. Inside' = Inside
    BY Zenon DEF Inside, TypeOK, Thread
  <2>2. InCv' = InCv
    BY Zenon DEF InCv, TypeOK, Thread
  <2> QED
    BY <2>1, <2>2, Counting, CountedSets, Zenon DEF CountInv, TypeOK
<1>4. MainInv'
  BY MainNoChild, StatesDistinct, SMTT(90) DEF MainInv, TypeOK, Label
<1>5. /\ \A u \in Child : Pending(u)' <=> Pending(u)
      /\ tcb'[Main] = tcb[Main] /\ pc'[Main] = pc[Main]
  BY MainNoChild, StatesDistinct, Zenon DEF Pending, TypeOK, MainInv
<1>6. BarrierInv'
  BY <1>5, MainNoChild, Zenon DEF BarrierInv, PendingSet, TypeOK, Child
<1>7. ChainInv'
  BY MainNoChild, StatesDistinct, SMTT(90) DEF ChainInv, TypeOK, Woken, Child
<1>8. StampInv'
  BY <1>5, MainNoChild, Zenon DEF StampInv, TypeOK, Child
<1> QED
  BY <1>1, <1>2, <1>3, <1>4, <1>6, <1>7, <1>8, Zenon

\* The end of sync_cv_wait.
LEMMA CvLeaveStep ==
  ASSUME IInv, NEW t \in Child, tcb[t] = Running,
         CvLeave(t, Cv, "cv_leave", "locked"), UNCHANGED bvars
  PROVE  IInv'
<1> USE DEF IInv, Step, bvars, CvLeave, Signal, SetState, Blocked
<1> DEFINE more == cv[Cv].waiters - 1 > 0
<1>a. /\ cv' \in [{Cv} -> [waiters : Int, broadcasting : BOOLEAN]]
      /\ cv'[Cv].waiters = cv[Cv].waiters - 1
      /\ cv'[Cv].broadcasting <=> cv[Cv].broadcasting /\ more
  <2>1. cv[Cv].waiters \in Int /\ cv[Cv].broadcasting \in BOOLEAN
    BY Zenon DEF TypeOK
  <2> DEFINE on == cv[Cv].broadcasting /\ more
  <2>2. on \in BOOLEAN
    BY Zenon
  <2>3. cv' = [cv EXCEPT ![Cv] = [waiters |-> cv[Cv].waiters - 1,
                                  broadcasting |-> on]]
    BY Zenon DEF TypeOK
  <2>4. cv \in [{Cv} -> [waiters : Int, broadcasting : BOOLEAN]]
    BY Zenon DEF TypeOK
  <2> HIDE DEF on, IInv, CvLeave
  <2>5. cv'[Cv] = [waiters |-> cv[Cv].waiters - 1, broadcasting |-> on]
    BY <2>3, <2>4, Zenon
  <2>6. cv' \in [{Cv} -> [waiters : Int, broadcasting : BOOLEAN]]
    BY <2>1, <2>2, <2>3, <2>4
  <2> QED
    BY <2>5, <2>6 DEF on
<1>b. \/ \E w \in Blocked(WaitingOn(Cv)) : SetState(w, Running) /\ more /\ UNCHANGED active
      \/ /\ Blocked(WaitingOn(Cv)) = {} /\ more
         /\ active' = [active EXCEPT ![Cv] = TRUE] /\ UNCHANGED tcb
      \/ UNCHANGED <<tcb, active>>
  BY Zenon DEF TypeOK
<1>1. TypeOK'
  BY <1>a, <1>b, MainNoChild, Zenon DEF TypeOK, Label, ThreadState
<1>2. LockInv'
  <2>1. active'[Lock] = active[Lock]
    BY Zenon DEF TypeOK, Lock, Cv
  <2>2. \A u \in Child : HasLockToken(u)' <=> HasLockToken(u)
    BY StatesDistinct, MainNoChild, Zenon DEF TypeOK, HasLockToken, Holding
  <2> QED
    BY <2>1, <2>2, Zenon DEF LockInv
<1>3. CountInv'
  <2>1. Inside' = Inside
    BY Zenon DEF Inside, TypeOK, Thread
  <2>2. InCv' = InCv \ {t} /\ t \in InCv
    BY Zenon DEF InCv, TypeOK, Thread
  <2> QED
    BY <2>1, <2>2, Counting, CountedSets, SMTT(90) DEF CountInv, TypeOK
<1>4. MainInv'
  <2>1. /\ pc[t] = "cv_leave" /\ pc'[t] = "locked"
        /\ \A u \in Thread : u # t => pc'[u] = pc[u]
    BY MainNoChild, Zenon DEF TypeOK
  <2>2. ASSUME NEW u \in Thread
        PROVE  \/ tcb'[u] = tcb[u]
               \/ tcb[u] = WaitingOn(Cv) /\ tcb'[u] = Running
    <3>1. CASE \E w \in Blocked(WaitingOn(Cv)) : SetState(w, Running)
      <4>1. PICK w \in Blocked(WaitingOn(Cv)) : tcb' = [tcb EXCEPT ![w] = Running]
        BY <3>1, Zenon
      <4>2. tcb[w] = WaitingOn(Cv)
        BY <4>1, Zenon
      <4>3. u \in DOMAIN tcb
        BY Zenon DEF TypeOK
      <4> QED
        BY <4>1, <4>2, <4>3, Zenon
    <3>2. CASE UNCHANGED tcb
      BY <3>2, Zenon
    <3> QED
      BY <1>b, <3>1, <3>2, Zenon
  <2>3. MainInv /\ t # Main /\ tcb[Main] # WaitingOn(Cv)
    BY MainNoChild, StatesDistinct, Zenon DEF MainInv
  <2> HIDE DEF IInv, Step, bvars, CvLeave, Signal, SetState, Blocked
  <2>4. pc'[Main] = pc[Main] /\ tcb'[Main] = tcb[Main]
    BY <2>1, <2>2, <2>3, MainNoChild, Zenon
  <2>5. pc'[Broadcaster] \notin {"cv_post", "cv_post_signal", "cv_block", "cv_lock",
                                "cv_lock_wait", "cv_leave"}
    BY <2>1, <2>3, MainNoChild, Zenon DEF MainInv, Child
  <2>6. ASSUME NEW u \in Child
        PROVE  /\ pc'[u] \in Label
               /\ tcb'[u] # RecvingOn(DoneEp)
               /\ tcb'[u] # SendingTo(BlockEp)
               /\ tcb'[u] = SendingTo(DoneEp) => pc'[u] = "block"
               /\ tcb'[u] = WaitingOn(Cv) => pc'[u] = "cv_lock"
               /\ pc'[u] \in {"lock", "lock_wait", "post", "post_signal",
                              "done"} => tcb'[u] # WaitingOn(Cv)
    <3>1. CASE u = t
      <4>1. tcb'[u] = Running
        BY <2>2, <3>1, MainNoChild, StatesDistinct, Zenon
      <4> QED
        BY <2>1, <3>1, <4>1, StatesDistinct, Zenon DEF Label
    <3>2. CASE u # t
      <4>1. u \in Thread /\ pc'[u] = pc[u]
        BY <2>1, <3>2, MainNoChild, Zenon
      <4>2. tcb'[u] = tcb[u] \/ tcb'[u] = Running
        BY <2>2, <4>1, Zenon
      <4> QED
        BY <2>3, <4>1, <4>2, StatesDistinct, Zenon DEF MainInv
    <3> QED
      BY <3>1, <3>2, Zenon
  <2> QED
    BY <2>3, <2>4, <2>5, <2>6, Zenon DEF MainInv
<1>5. /\ \A u \in Child : Pending(u)' <=> Pending(u)
      /\ tcb'[Main] = tcb[Main] /\ pc'[Main] = pc[Main]
  BY MainNoChild, StatesDistinct, Zenon DEF Pending, TypeOK, MainInv
<1>6. BarrierInv'
  BY <1>5, MainNoChild, Zenon DEF BarrierInv, PendingSet, TypeOK, Child
<1>7. ChainInv'
  <2>1. Woken(t) /\ ~Woken(t)'
    BY Zenon DEF TypeOK, Woken, Thread
  <2>2. /\ ~active[Cv] /\ shared # 0
        /\ \A u \in Child : u # t => ~Woken(u)
    BY <2>1, Zenon DEF ChainInv
  <2>3. pc'[Broadcaster] \in {"lock", "lock_wait", "locked"} => shared = 0
    BY Zenon DEF ChainInv, MainInv, TypeOK, Child, Thread
  <2>4. /\ pc'[Main] # "start" /\ shared' # 0 /\ ~active[Cv]
        /\ pc'[Broadcaster] \notin {"lock", "lock_wait", "locked"}
    BY <1>5, <2>2, <2>3, Zenon DEF ChainInv
  <2>5. /\ more => cv'[Cv].waiters > 0
        /\ cv'[Cv].waiters = 0 => ~cv'[Cv].broadcasting
    <3>1. cv[Cv].waiters \in Int
      BY Zenon DEF TypeOK
    <3> HIDE DEF IInv, Step, bvars, CvLeave, Signal, SetState, Blocked
    <3>2. more => cv'[Cv].waiters > 0 /\ cv'[Cv].waiters # 0
      BY <1>a, <3>1
    <3> HIDE DEF more
    <3> QED
      BY <1>a, <3>2, Zenon
  <2>6. CASE \E w \in Blocked(WaitingOn(Cv)) : SetState(w, Running) /\ more /\ UNCHANGED active
    <3>1. PICK w \in Blocked(WaitingOn(Cv)) : SetState(w, Running) /\ more /\ UNCHANGED active
      BY <2>6, Zenon
    <3>2. \A u \in Child : u # w => ~Woken(u)'
      BY <2>1, <2>2, <3>1, Zenon DEF TypeOK, Woken, Thread
    <3>3. active' = active
      BY <3>1, Zenon
    <3> QED
      BY <2>4, <2>5, <3>1, <3>2, <3>3, Zenon DEF ChainInv
  <2>7. CASE /\ Blocked(WaitingOn(Cv)) = {} /\ more
             /\ active' = [active EXCEPT ![Cv] = TRUE] /\ UNCHANGED tcb
    <3>1. \A u \in Child : ~Woken(u)'
      BY <2>1, <2>2, <2>7, Zenon DEF TypeOK, Woken, Thread
    <3> QED
      BY <2>4, <2>5, <2>7, <3>1, Zenon DEF ChainInv
  <2>8. CASE UNCHANGED <<tcb, active>>
    <3>1. \A u \in Child : ~Woken(u)'
      BY <2>1, <2>2, <2>8, Zenon DEF TypeOK, Woken, Thread
    <3>2. active' = active
      BY <2>8, Zenon
    <3> QED
      BY <2>4, <2>5, <3>1, <3>2, Zenon DEF ChainInv
  <2> QED
    BY <1>b, <2>6, <2>7, <2>8, Zenon
<1>8. StampInv'
  BY <1>5, MainNoChild, Zenon DEF StampInv, TypeOK, Child
<1> QED
  BY <1>1, <1>2, <1>3, <1>4, <1>6, <1>7, <1>8, Zenon

\* A waiter finds shared = 0 and enters sync_cv_wait.
LEMMA CvEnterStep ==
  ASSUME IInv, NEW t \in Waiter, tcb[t] = Running, shared = 0,
         Step(t, "locked", "cv_post"), CvEnter(Cv),
         UNCHANGED <<tcb, active, value, bvars>>
  PROVE  IInv'
<1> USE DEF IInv, Step, bvars, CvEnter
<1>0. t \in Child /\ t # Broadcaster
  BY ThreadAssumption, Zenon DEF Child
<1>a. /\ cv' \in [{Cv} -> [waiters : Int, broadcasting : BOOLEAN]]
      /\ cv'[Cv].waiters = cv[Cv].waiters + 1
  BY DEF TypeOK
<1>1. TypeOK'
  BY <1>0, <1>a, MainNoChild, Zenon DEF TypeOK, Label, ThreadState
<1>2. LockInv'
  BY <1>0, StatesDistinct, SMTT(90) DEF LockInv, TypeOK, HasLockToken, Holding
<1>3. CountInv'
  <2>1. Inside' = Inside
    BY <1>0, Zenon DEF Inside, TypeOK, Thread
  <2>2. InCv' = InCv \cup {t} /\ t \notin InCv
    BY <1>0, SMTT(90) DEF InCv, TypeOK, Thread
  <2> QED
    BY <1>0, <1>a, <2>1, <2>2, Counting, CountedSets DEF CountInv, TypeOK
<1>4. MainInv'
  BY <1>0, MainNoChild, StatesDistinct, SMTT(90) DEF MainInv, TypeOK, Label
<1>5. /\ \A u \in Child : Pending(u)' <=> Pending(u)
      /\ tcb'[Main] = tcb[Main] /\ pc'[Main] = pc[Main]
  BY <1>0, MainNoChild, StatesDistinct, Zenon DEF Pending, TypeOK, MainInv
<1>6. BarrierInv'
  BY <1>5, MainNoChild, Zenon DEF BarrierInv, PendingSet, TypeOK, Child
<1>7. ChainInv'
  <2>1. \A u \in Child : ~Woken(u)'
    BY <1>0, Zenon DEF ChainInv, Woken, TypeOK, Thread
  <2>2. ~active[Cv]
    BY Zenon DEF ChainInv
  <2>3. cv'[Cv].waiters # 0
    <3>1. Cardinality(InCv) \in Nat
      BY <1>0, CountedSets, Counting, Zenon
    <3> QED
      BY <1>a, <3>1 DEF CountInv
  <2> QED
    BY <1>0, <1>5, <2>1, <2>2, <2>3, Zenon DEF ChainInv
<1>8. StampInv'
  BY <1>0, <1>5, MainNoChild, Zenon DEF StampInv, TypeOK, Child
<1> QED
  BY <1>1, <1>2, <1>3, <1>4, <1>6, <1>7, <1>8, Zenon

\* A waiter finds shared set and takes its sample.
LEMMA SampleStep ==
  ASSUME IInv, NEW t \in Waiter, tcb[t] = Running, shared # 0,
         Step(t, "locked", "post"), sample' = [sample EXCEPT ![t] = start],
         UNCHANGED <<tcb, active, value, cv, shared, start, run, todo, left>>
  PROVE  IInv'
<1> USE DEF IInv, Step
<1>0. t \in Child /\ t # Broadcaster
  BY ThreadAssumption, Zenon DEF Child
<1>1. TypeOK'
  BY <1>0, MainNoChild, Zenon DEF TypeOK, Label, ThreadState
<1>2. LockInv'
  BY <1>0, StatesDistinct, SMTT(90) DEF LockInv, TypeOK, HasLockToken, Holding
<1>3. CountInv'
  <2>1. Inside' = Inside
    BY <1>0, Zenon DEF Inside, TypeOK, Thread
  <2>2. InCv' = InCv
    BY <1>0, Zenon DEF InCv, TypeOK, Thread
  <2> QED
    BY <2>1, <2>2, Zenon DEF CountInv
<1>4. MainInv'
  BY <1>0, MainNoChild, StatesDistinct, SMTT(90) DEF MainInv, TypeOK, Label
<1>5. /\ \A u \in Child : Pending(u)' <=> Pending(u)
      /\ tcb'[Main] = tcb[Main] /\ pc'[Main] = pc[Main]
  BY <1>0, MainNoChild, StatesDistinct, Zenon DEF Pending, TypeOK, MainInv
<1>6. BarrierInv'
  BY <1>5, MainNoChild, Zenon DEF BarrierInv, PendingSet, TypeOK, Child
<1>7. ChainInv'
  BY <1>0, MainNoChild, StatesDistinct, Zenon DEF ChainInv, TypeOK, Woken, Child
<1>8. StampInv'
  BY <1>0, <1>5, MainNoChild, Zenon DEF StampInv, TypeOK, Child
<1> QED
  BY <1>1, <1>2, <1>3, <1>4, <1>6, <1>7, <1>8, Zenon

\* The broadcaster's critical section.
LEMMA BroadcastStep ==
  ASSUME IInv, NEW t \in Child, tcb[t] = Running, DoBroadcast(t)
  PROVE  IInv'
<1> USE DEF IInv, Step, DoBroadcast, sync_cv_broadcast, Signal, SetState, Blocked
<1>a. /\ cv' \in [{Cv} -> [waiters : Int, broadcasting : BOOLEAN]]
      /\ cv'[Cv].waiters = cv[Cv].waiters
      /\ cv[Cv].waiters = 0 => cv' = cv
  <2>1. cv \in [{Cv} -> [waiters : Int, broadcasting : BOOLEAN]]
    BY Zenon DEF TypeOK
  <2>2. CASE cv[Cv].waiters > 0
    <3>1. cv' = [cv EXCEPT ![Cv] = [waiters |-> cv[Cv].waiters, broadcasting |-> TRUE]]
      BY <2>1, <2>2, Zenon
    <3> HIDE DEF IInv, DoBroadcast
    <3> QED
      BY <2>1, <2>2, <3>1
  <2>3. CASE ~(cv[Cv].waiters > 0)
    BY <2>1, <2>3, Zenon
  <2> QED
    BY <2>2, <2>3, Zenon
<1>b. \/ /\ cv[Cv].waiters > 0
         /\ \E w \in Blocked(WaitingOn(Cv)) : SetState(w, Running) /\ UNCHANGED active
      \/ /\ cv[Cv].waiters > 0
         /\ active' = [active EXCEPT ![Cv] = TRUE] /\ UNCHANGED tcb
      \/ UNCHANGED <<tcb, active, cv>>
  BY Zenon DEF TypeOK
<1>c. shared' \in Nat /\ shared' # 0 /\ start' = run
  BY ChildCount, SMTT(90)
<1>1. TypeOK'
  BY <1>a, <1>b, <1>c, MainNoChild, Zenon DEF TypeOK, Label, ThreadState
<1>2. LockInv'
  <2>1. active'[Lock] = active[Lock]
    BY <1>b, Zenon DEF TypeOK, Lock, Cv
  <2>2. \A u \in Child : HasLockToken(u)' <=> HasLockToken(u)
    BY <1>b, StatesDistinct, MainNoChild, Zenon DEF TypeOK, HasLockToken, Holding
  <2> QED
    BY <2>1, <2>2, Zenon DEF LockInv
<1>3. CountInv'
  <2>1. Inside' = Inside
    BY Zenon DEF Inside, TypeOK, Thread
  <2>2. InCv' = InCv
    BY Zenon DEF InCv, TypeOK, Thread
  <2> QED
    BY <1>a, <2>1, <2>2, Zenon DEF CountInv
<1>4. MainInv'
  BY <1>b, MainNoChild, StatesDistinct, SMTT(90) DEF MainInv, TypeOK, Label
<1>5. /\ \A u \in Child : Pending(u)' <=> Pending(u)
      /\ tcb'[Main] = tcb[Main] /\ pc'[Main] = pc[Main]
  BY <1>b, MainNoChild, StatesDistinct, Zenon DEF Pending, TypeOK, MainInv
<1>6. BarrierInv'
  BY <1>5, MainNoChild, Zenon DEF BarrierInv, PendingSet, TypeOK, Child
<1>7. ChainInv'
  <2>1. /\ shared = 0 /\ ~active[Cv] /\ \A u \in Child : ~Woken(u)
        /\ pc[Broadcaster] = "locked" /\ pc'[Broadcaster] = "post"
    BY Zenon DEF ChainInv, TypeOK, Child, Thread
  <2>2. pc[Main] # "start"
    BY <2>1, Zenon DEF BarrierInv, Pending
  <2>3. CASE /\ cv[Cv].waiters > 0
             /\ \E w \in Blocked(WaitingOn(Cv)) : SetState(w, Running) /\ UNCHANGED active
    <3>1. PICK w \in Blocked(WaitingOn(Cv)) : SetState(w, Running) /\ UNCHANGED active
      BY <2>3, Zenon
    <3>2. \A u \in Child : u # w => ~Woken(u)'
      BY <2>1, <3>1, Zenon DEF TypeOK, Woken, Thread
    <3> QED
      BY <1>5, <1>a, <1>c, <2>1, <2>2, <2>3, <3>1, <3>2, Zenon DEF ChainInv, TypeOK
  <2>4. CASE /\ cv[Cv].waiters > 0
             /\ active' = [active EXCEPT ![Cv] = TRUE] /\ UNCHANGED tcb
    <3>1. \A u \in Child : ~Woken(u)'
      BY <2>1, <2>4, Zenon DEF TypeOK, Woken, Thread
    <3> QED
      BY <1>5, <1>a, <1>c, <2>1, <2>2, <2>4, <3>1, Zenon DEF ChainInv, TypeOK
  <2>5. CASE UNCHANGED <<tcb, active, cv>>
    <3>1. \A u \in Child : ~Woken(u)'
      BY <2>1, <2>5, Zenon DEF TypeOK, Woken, Thread
    <3> QED
      BY <1>5, <1>c, <2>1, <2>2, <2>5, <3>1, Zenon DEF ChainInv, TypeOK
  <2> QED
    BY <1>b, <2>3, <2>4, <2>5, Zenon
<1>8. StampInv'
  <2>1. \A u \in Waiter : pc'[u] = pc[u]
    BY ThreadAssumption, Zenon DEF TypeOK, Thread, Child
  <2> QED
    BY <1>5, <1>c, <2>1, Zenon DEF StampInv, Child
<1> QED
  BY <1>1, <1>2, <1>3, <1>4, <1>6, <1>7, <1>8, Zenon

\* A child reports to main: seL4_Send(done_ep).
LEMMA SendDoneStep ==
  ASSUME IInv, NEW t \in Child, tcb[t] = Running,
         Step(t, "done", "block"), Send(t, DoneEp), UNCHANGED <<value, cv, bvars>>
  PROVE  IInv'
<1> USE DEF IInv, Step, bvars, Send, SetState, Blocked
<1>a. \/ /\ tcb[Main] = RecvingOn(DoneEp)
         /\ tcb' = [tcb EXCEPT ![Main] = Running]
      \/ /\ tcb[Main] # RecvingOn(DoneEp)
         /\ tcb' = [tcb EXCEPT ![t] = SendingTo(DoneEp)]
  BY MainNoChild DEF TypeOK, MainInv, Thread
<1>b. UNCHANGED active /\ pc[t] = "done" /\ pc' = [pc EXCEPT ![t] = "block"]
  BY Zenon
<1> HIDE DEF Send
<1>1. TypeOK'
  BY <1>a, <1>b, MainNoChild, SMTT(90) DEF TypeOK, Label, ThreadState
<1>2. LockInv'
  BY <1>a, <1>b, MainNoChild, StatesDistinct, SMTT(90) DEF LockInv, TypeOK, HasLockToken, Holding
<1>3. CountInv'
  <2>1. Inside' = Inside
    BY <1>b, Zenon DEF Inside, TypeOK, Thread
  <2>2. InCv' = InCv
    BY <1>b, Zenon DEF InCv, TypeOK, Thread
  <2> QED
    BY <2>1, <2>2, Zenon DEF CountInv
<1>4. MainInv'
  BY <1>a, <1>b, MainNoChild, StatesDistinct, SMTT(90) DEF MainInv, TypeOK, Label
<1>5. /\ \A u \in Child : u # t => (Pending(u)' <=> Pending(u))
      /\ Pending(t)
  BY <1>a, <1>b, MainNoChild, StatesDistinct, Zenon DEF Pending, TypeOK
<1>6. /\ pc'[Main] = pc[Main]
      /\ Pending(t)' \/ pc[Main] = "collect"
  BY <1>a, <1>b, MainNoChild, StatesDistinct, Zenon DEF Pending, TypeOK, MainInv
<1>7. BarrierInv'
  <2>1. CASE tcb[Main] = RecvingOn(DoneEp)
    <3>1. /\ PendingSet' = PendingSet \ {t} /\ t \in PendingSet
          /\ tcb'[Main] = Running /\ pc[Main] = "collect"
      BY <1>a, <1>b, <1>5, <2>1, MainNoChild, StatesDistinct, SMTT(90)
         DEF PendingSet, Pending, TypeOK, MainInv
    <3>2. Cardinality(PendingSet') = Cardinality(PendingSet) - 1
      BY <3>1, Counting, CountedSets, Zenon
    <3>3. Cardinality(PendingSet) \in Nat
      BY Counting, CountedSets, Zenon
    <3>4. left \in Nat /\ left' = left /\ left + 1 = Cardinality(PendingSet)
      BY <2>1, <3>1, StatesDistinct, Zenon DEF BarrierInv, TypeOK
    <3>5. left' + 0 = Cardinality(PendingSet) - 1
      BY <3>3, <3>4
    <3> QED
      BY <1>6, <3>1, <3>2, <3>5, Zenon DEF BarrierInv
  <2>2. CASE tcb[Main] # RecvingOn(DoneEp)
    <3>1. /\ \A u \in Child : Pending(u)' <=> Pending(u)
          /\ tcb'[Main] = tcb[Main]
      BY <1>a, <1>b, <1>5, <2>2, MainNoChild, Zenon DEF Pending, TypeOK
    <3> QED
      BY <1>6, <3>1, Zenon DEF BarrierInv, PendingSet, Child
  <2> QED
    BY <2>1, <2>2, Zenon
<1>8. ChainInv'
  <2>1. \A u \in Child : Woken(u)' <=> Woken(u)
    BY <1>a, <1>b, MainNoChild, StatesDistinct, Zenon DEF TypeOK, Woken
  <2> QED
    BY <1>b, <1>6, <2>1, MainNoChild, Zenon DEF ChainInv, TypeOK, Child
<1>9. StampInv'
  BY <1>b, <1>5, <1>6 DEF StampInv, TypeOK, Child
<1> QED
  BY <1>1, <1>2, <1>3, <1>4, <1>7, <1>8, <1>9, Zenon

\* A child that has reported blocks: seL4_Wait(block_ep).
LEMMA BlockStep ==
  ASSUME IInv, NEW t \in Child, tcb[t] = Running,
         Step(t, "block", "off"), Recv(t, BlockEp), UNCHANGED <<value, cv, bvars>>
  PROVE  IInv'
<1> USE DEF IInv, Step, bvars, Recv, SetState, Blocked
<1>a. tcb' = [tcb EXCEPT ![t] = RecvingOn(BlockEp)]
  BY MainNoChild, StatesDistinct, SMTT(90) DEF TypeOK, MainInv, Thread
<1>b. UNCHANGED active /\ pc[t] = "block" /\ pc' = [pc EXCEPT ![t] = "off"]
  BY SMTT(90)
<1> HIDE DEF Recv
<1>1. TypeOK'
  BY <1>a, <1>b, MainNoChild, Zenon DEF TypeOK, Label, ThreadState
<1>2. LockInv'
  BY <1>a, <1>b, StatesDistinct, SMTT(90) DEF LockInv, TypeOK, HasLockToken, Holding
<1>3. CountInv'
  <2>1. Inside' = Inside
    BY <1>b, Zenon DEF Inside, TypeOK, Thread
  <2>2. InCv' = InCv
    BY <1>b, Zenon DEF InCv, TypeOK, Thread
  <2> QED
    BY <2>1, <2>2, Zenon DEF CountInv
<1>4. MainInv'
  BY <1>a, <1>b, MainNoChild, StatesDistinct, SMTT(90) DEF MainInv, TypeOK, Label
<1>5. /\ \A u \in Child : Pending(u)' <=> Pending(u)
      /\ tcb'[Main] = tcb[Main] /\ pc'[Main] = pc[Main]
  BY <1>a, <1>b, MainNoChild, StatesDistinct, Zenon DEF Pending, TypeOK
<1>6. BarrierInv'
  BY <1>5, MainNoChild, Zenon DEF BarrierInv, PendingSet, TypeOK, Child
<1>7. ChainInv'
  <2>1. \A u \in Child : Woken(u)' <=> Woken(u)
    BY <1>a, <1>b, StatesDistinct, SMTT(90) DEF TypeOK, Woken
  <2> QED
    BY <1>b, <1>5, <2>1, MainNoChild, Zenon DEF ChainInv, TypeOK, Child
<1>8. StampInv'
  BY <1>b, <1>5, SMTT(90) DEF StampInv, TypeOK, Child
<1> QED
  BY <1>1, <1>2, <1>3, <1>4, <1>6, <1>7, <1>8, Zenon

\* When main has received all messages, nothing of the run is left over.
LEMMA AllQuiet ==
  ASSUME IInv, AllReported
  PROVE  /\ \A t \in Child : ~Pending(t) /\ ~Woken(t)
         /\ value = 1 /\ ~active[Lock] /\ ~active[Cv] /\ cv[Cv] = NewCv
         /\ \A w \in Waiter : sample[w] = run
<1> USE DEF IInv
<1>1. PendingSet = {}
  <2>1. Cardinality(PendingSet) = 0
    BY DEF AllReported, BarrierInv, TypeOK
  <2> QED
    BY <2>1, Counting, CountedSets, Broadcaster \in Child, Zenon DEF Child
<1>2. \A t \in Child : ~Pending(t)
  BY <1>1, Zenon DEF PendingSet
<1>3. Inside = {} /\ InCv = {}
  BY <1>2, Zenon DEF Pending, Inside, InCv
<1>4. value = 1 /\ cv[Cv].waiters = 0
  BY <1>3, FS_EmptySet DEF CountInv
<1>5. ~active[Lock] /\ ~active[Cv] /\ ~cv[Cv].broadcasting
  BY <1>4 DEF LockInv, ChainInv
<1>6. cv[Cv] = NewCv
  BY <1>4, <1>5, Zenon DEF TypeOK, NewCv
<1>7. \A t \in Child : ~Woken(t)
  BY <1>2, Zenon DEF Pending, Woken
<1>8. \A w \in Waiter : sample[w] = run
  BY <1>2, Zenon DEF StampInv, AllReported, Child
<1> QED
  BY <1>2, <1>4, <1>5, <1>6, <1>7, <1>8, Zenon

\* Main begins a run, or ends the benchmark.
LEMMA BeginRunStep ==
  ASSUME IInv, tcb[Main] = Running, BeginRun
  PROVE  IInv'
<1> USE DEF IInv, BeginRun
<1>1. /\ \A t \in Child : ~Pending(t) /\ ~Woken(t)
      /\ ~active[Cv] /\ cv[Cv] = NewCv
  BY AllQuiet, Zenon DEF AllReported
<1>2. /\ \A t \in Child : pc'[t] = pc[t]
      /\ pc'[Main] \in {"start", "suspend"}
      /\ UNCHANGED <<tcb, active, value, cv, start, left, sample>>
  BY MainNoChild, Zenon DEF TypeOK
<1>3. TypeOK'
  BY RunsAssumption, MainNoChild, SMTT(90) DEF TypeOK, Label, ThreadState, Child
<1>4. LockInv'
  BY <1>2, SMTT(90) DEF LockInv, HasLockToken, Holding
<1>5. CountInv'
  <2>1. Inside' = Inside /\ InCv' = InCv
    BY <1>2, Zenon DEF Inside, InCv
  <2> QED
    BY <1>2, <2>1, Zenon DEF CountInv
<1>6. MainInv'
  BY <1>2, StatesDistinct, Zenon DEF MainInv, Child
<1>7. \A t \in Child : ~Pending(t)' /\ ~Woken(t)'
  BY <1>1, <1>2, Zenon DEF Pending, Woken
<1>8. BarrierInv'
  BY <1>2, <1>7, MainNoChild, Zenon DEF BarrierInv, TypeOK, Child
<1>9. ChainInv'
  BY <1>1, <1>2, <1>7, MainNoChild, Zenon DEF ChainInv, TypeOK, Child, Pending
<1>10. StampInv'
  BY <1>2, <1>7, MainNoChild, Zenon DEF StampInv, TypeOK, Child
<1> QED
  BY <1>3, <1>4, <1>5, <1>6, <1>8, <1>9, <1>10, Zenon

\* Main restarts a waiter.
LEMMA StartWaiterStep ==
  ASSUME IInv, tcb[Main] = Running, NEW w \in Waiter, StartWaiter(w)
  PROVE  IInv'
<1> USE DEF IInv, StartWaiter, SetState
<1>1. /\ w \in Child /\ w # Broadcaster /\ w # Main
      /\ w \in todo /\ ~Pending(w) /\ pc[w] \in {"block", "off"}
  BY ThreadAssumption, Zenon DEF BarrierInv, Child, Pending
<1>2. /\ \A u \in Thread : u # w => pc'[u] = pc[u] /\ tcb'[u] = tcb[u]
      /\ pc'[w] = "lock" /\ tcb'[w] = Running
  BY <1>1, MainNoChild, Zenon DEF TypeOK
<1>3. TypeOK'
  BY <1>1, MainNoChild, Zenon DEF TypeOK, Label, ThreadState
<1>4. LockInv'
  <2>1. \A u \in Child : HasLockToken(u)' => HasLockToken(u)
    BY <1>1, <1>2, MainNoChild, Zenon DEF HasLockToken, Holding
  <2> QED
    BY <2>1, Zenon DEF LockInv
<1>5. CountInv'
  <2>1. Inside' = Inside /\ InCv' = InCv
    BY <1>1, <1>2, MainNoChild, Zenon DEF Inside, InCv
  <2> QED
    BY <2>1, Zenon DEF CountInv
<1>6. MainInv'
  <2> HIDE DEF StartWaiter, SetState
  <2>1. MainInv
    BY Zenon
  <2> HIDE DEF IInv
  <2>2. \A t \in Child \cup {Main} : t # w => pc'[t] = pc[t] /\ tcb'[t] = tcb[t]
    BY <1>2, Zenon DEF Thread
  <2>3. Broadcaster \in Child
    BY Zenon DEF Child
  <2> QED
    BY <1>1, <1>2, <2>1, <2>2, <2>3, StatesDistinct, ZenonT(90) DEF MainInv, Label
<1>7. /\ Pending(w)' /\ ~Woken(w)' /\ ~Woken(w)
      /\ \A u \in Child : u # w => /\ Pending(u)' <=> Pending(u)
                                   /\ Woken(u)' <=> Woken(u)
  BY <1>1, <1>2, MainNoChild, Zenon DEF Pending, Woken
<1>8. pc'[Main] = "start" /\ tcb'[Main] = Running
  BY <1>1, <1>2, MainNoChild, Zenon
<1>9. BarrierInv'
  BY <1>1, <1>7, <1>8, Zenon DEF BarrierInv, Child
<1>10. ChainInv'
  BY <1>1, <1>2, <1>7, <1>8, MainNoChild, Zenon DEF ChainInv, Child
<1>11. StampInv'
  BY <1>1, <1>2, <1>7, <1>8, MainNoChild, Zenon DEF StampInv, Child
<1> QED
  BY <1>3, <1>4, <1>5, <1>6, <1>9, <1>10, <1>11, Zenon

\* Main restarts the broadcaster and begins to count messages.
LEMMA StartBroadcasterStep ==
  ASSUME IInv, tcb[Main] = Running, StartBroadcaster
  PROVE  IInv'
<1> USE DEF IInv, StartBroadcaster, SetState
<1>1. /\ Broadcaster \in Child /\ Broadcaster # Main /\ Broadcaster \notin Waiter
      /\ ~Pending(Broadcaster) /\ pc[Broadcaster] \in {"block", "off"}
      /\ \A w \in Waiter : Pending(w)
      /\ shared = 0
  BY ThreadAssumption, Zenon DEF BarrierInv, ChainInv, Child, Pending
<1>2. /\ \A u \in Waiter : pc'[u] = pc[u] /\ tcb'[u] = tcb[u]
      /\ pc'[Broadcaster] = "lock" /\ tcb'[Broadcaster] = Running
      /\ pc'[Main] = "collect" /\ tcb'[Main] = Running
  BY <1>1, MainNoChild, Zenon DEF TypeOK, Child
<1>3. TypeOK'
  BY <1>1, ChildCount, MainNoChild DEF TypeOK, Label, ThreadState
<1>4. LockInv'
  <2>1. \A u \in Child : HasLockToken(u)' => HasLockToken(u)
    BY <1>1, <1>2, Zenon DEF HasLockToken, Holding, Child
  <2> QED
    BY <2>1, Zenon DEF LockInv
<1>5. CountInv'
  <2>1. Inside' = Inside /\ InCv' = InCv
    BY <1>1, <1>2, Zenon DEF Inside, InCv, Child
  <2> QED
    BY <2>1, Zenon DEF CountInv
<1>6. MainInv'
  <2> HIDE DEF StartBroadcaster, SetState
  <2>1. MainInv
    BY Zenon
  <2> HIDE DEF IInv
  <2>2. \A t \in Child : t # Broadcaster => pc'[t] = pc[t] /\ tcb'[t] = tcb[t]
    BY <1>2, Zenon DEF Child
  <2> QED
    BY <1>1, <1>2, <2>1, <2>2, StatesDistinct, ZenonT(90) DEF MainInv, Label
<1>7. /\ \A u \in Child : Pending(u)' /\ (Woken(u)' <=> Woken(u))
      /\ ~Woken(Broadcaster)
  BY <1>1, <1>2, Zenon DEF Pending, Woken, Child
<1>8. BarrierInv'
  <2>1. PendingSet' = Child
    BY <1>7, Zenon DEF PendingSet
  <2>2. left' = Cardinality(PendingSet')
    BY <2>1, ChildCount, Zenon
  <2> QED
    BY <1>2, <2>2, ChildCount DEF BarrierInv
<1>9. ChainInv'
  BY <1>1, <1>2, <1>7, Zenon DEF ChainInv
<1>10. StampInv'
  BY <1>1, <1>2, <1>7, Zenon DEF StampInv, Child, Pending
<1> QED
  BY <1>3, <1>4, <1>5, <1>6, <1>8, <1>9, <1>10, Zenon

\* Main receives a message, or blocks until one arrives.
LEMMA WaitChildStep ==
  ASSUME IInv, tcb[Main] = Running, WaitChild
  PROVE  IInv'
<1> USE DEF IInv, WaitChild, Recv, SetState, Blocked
<1>a. \/ \E s \in Child : /\ tcb[s] = SendingTo(DoneEp)
                          /\ tcb' = [tcb EXCEPT ![s] = Running]
      \/ /\ \A s \in Child : tcb[s] # SendingTo(DoneEp)
         /\ tcb' = [tcb EXCEPT ![Main] = RecvingOn(DoneEp)]
  BY MainNoChild, StatesDistinct, SMTT(90) DEF TypeOK, Thread, MainInv
<1>b. UNCHANGED <<pc, active, value, cv, shared, start, run, todo, sample>>
  BY SMTT(90)
<1> HIDE DEF Recv
<1>1. TypeOK'
  BY <1>a, <1>b, MainNoChild, SMTT(90) DEF TypeOK, Label, ThreadState
<1>2. LockInv'
  <2>1. \A u \in Child : HasLockToken(u)' <=> HasLockToken(u)
    BY <1>a, <1>b, MainNoChild, StatesDistinct, Zenon DEF HasLockToken, Holding, TypeOK
  <2> QED
    BY <1>b, <2>1, Zenon DEF LockInv
<1>3. CountInv'
  BY <1>b, Zenon DEF CountInv, Inside, InCv
<1>4. MainInv'
  BY <1>a, <1>b, MainNoChild, StatesDistinct, Zenon DEF MainInv, TypeOK
<1>5. \A u \in Child : Woken(u)' <=> Woken(u)
  BY <1>a, <1>b, MainNoChild, StatesDistinct, Zenon DEF Woken, TypeOK
<1>6. \A u \in Child : Pending(u)' => Pending(u)
  BY <1>a, <1>b, MainNoChild, StatesDistinct, Zenon DEF Pending, TypeOK
<1>7. BarrierInv'
  <2>1. CASE \E s \in Child : /\ tcb[s] = SendingTo(DoneEp)
                              /\ tcb' = [tcb EXCEPT ![s] = Running]
    <3>1. PICK s \in Child : /\ tcb[s] = SendingTo(DoneEp)
                             /\ tcb' = [tcb EXCEPT ![s] = Running]
      BY <2>1, Zenon
    <3>2. PendingSet' = PendingSet \ {s} /\ s \in PendingSet /\ tcb'[Main] = Running
      BY <1>b, <3>1, MainNoChild, StatesDistinct, Zenon DEF PendingSet, Pending, TypeOK, MainInv
    <3>3. /\ Cardinality(PendingSet') = Cardinality(PendingSet) - 1
          /\ Cardinality(PendingSet) \in Nat
      BY <3>2, Counting, CountedSets, Zenon
    <3> QED
      BY <1>b, <3>2, <3>3, SMTT(90) DEF BarrierInv, TypeOK
  <2>2. CASE tcb' = [tcb EXCEPT ![Main] = RecvingOn(DoneEp)]
    <3>1. PendingSet' = PendingSet /\ tcb'[Main] # Running
      BY <1>b, <2>2, MainNoChild, StatesDistinct, Zenon DEF PendingSet, Pending, TypeOK
    <3> QED
      BY <1>b, <3>1, SMTT(90) DEF BarrierInv, TypeOK
  <2> QED
    BY <1>a, <2>1, <2>2, Zenon
<1>8. ChainInv'
  BY <1>b, <1>5, Zenon DEF ChainInv
<1>9. StampInv'
  <2>1. \A u \in Waiter : Pending(u)' \/ sample[u] = run
    BY <1>a, <1>b, MainNoChild, StatesDistinct, Zenon
       DEF StampInv, Pending, TypeOK, MainInv, Child
  <2> QED
    BY <1>b, <1>6, <2>1, Zenon DEF StampInv, Child
<1> QED
  BY <1>1, <1>2, <1>3, <1>4, <1>7, <1>8, <1>9, Zenon

\* Main suspends a child at the end of the benchmark.
LEMMA SuspendChildStep ==
  ASSUME IInv, tcb[Main] = Running, NEW t \in Child, SuspendChild(t)
  PROVE  IInv'
<1> USE DEF IInv, SuspendChild, SetState
<1>1. pc[t] \in {"block", "off"} /\ \A u \in Child : ~Pending(u)
  BY Zenon DEF BarrierInv, Pending
<1>2. /\ \A u \in Child : u # t => pc'[u] = pc[u] /\ tcb'[u] = tcb[u]
      /\ pc'[t] = "off" /\ tcb'[t] = Inactive
      /\ pc'[Main] \in {"suspend", "end"} /\ tcb'[Main] = Running
  BY MainNoChild, Zenon DEF TypeOK
<1>3. TypeOK'
  BY MainNoChild, Zenon DEF TypeOK, Label, ThreadState
<1>4. LockInv'
  <2>1. \A u \in Child : HasLockToken(u)' => HasLockToken(u)
    BY <1>2, Zenon DEF HasLockToken, Holding
  <2> QED
    BY <2>1, Zenon DEF LockInv
<1>5. CountInv'
  <2>1. Inside' = Inside /\ InCv' = InCv
    BY <1>1, <1>2, Zenon DEF Inside, InCv
  <2> QED
    BY <2>1, Zenon DEF CountInv
<1>6. MainInv'
  <2>1. Broadcaster \in Child
    BY Zenon DEF Child
  <2> HIDE DEF SuspendChild, IInv
  <2>2. MainInv
    BY Zenon DEF IInv
  <2>3. pc'[Broadcaster] \notin {"cv_post", "cv_post_signal", "cv_block", "cv_lock",
                                "cv_lock_wait", "cv_leave"}
    BY <1>2, <2>1, <2>2, Zenon DEF MainInv
  <2>4. ASSUME NEW u \in Child
        PROVE  /\ pc'[u] \in Label
               /\ tcb'[u] # RecvingOn(DoneEp)
               /\ tcb'[u] # SendingTo(BlockEp)
               /\ tcb'[u] = SendingTo(DoneEp) => pc'[u] = "block"
               /\ tcb'[u] = WaitingOn(Cv) => pc'[u] = "cv_lock"
               /\ pc'[u] \in {"lock", "lock_wait", "post", "post_signal", "done"}
                    => tcb'[u] # WaitingOn(Cv)
    <3>1. CASE u = t
      BY <1>2, <3>1, StatesDistinct, Zenon DEF Label
    <3>2. CASE u # t
      <4>1. pc'[u] = pc[u] /\ tcb'[u] = tcb[u]
        BY <1>2, <3>2, Zenon
      <4> QED
        BY <2>2, <4>1, Zenon DEF MainInv
    <3> QED
      BY <3>1, <3>2, Zenon
  <2>5. tcb'[Main] # RecvingOn(DoneEp)
    BY <1>2, StatesDistinct, Zenon
  <2> QED
    BY <1>2, <2>3, <2>4, <2>5, Zenon DEF MainInv
<1>7. \A u \in Child : ~Pending(u)' /\ (Woken(u)' => Woken(u))
  BY <1>1, <1>2, StatesDistinct, Zenon DEF Pending, Woken
<1>8. BarrierInv'
  BY <1>2, <1>7, Zenon DEF BarrierInv
<1>9. ChainInv'
  BY <1>2, <1>7, Zenon DEF ChainInv, Child
<1>10. StampInv'
  BY <1>2, <1>7, Zenon DEF StampInv, Child
<1> QED
  BY <1>3, <1>4, <1>5, <1>6, <1>8, <1>9, <1>10, Zenon

-----------------------------------------------------------------------------
(* The broadcast benchmark: the theorems.                                  *)

\* The benchmark starts in the invariant: nobody has been started yet.
LEMMA InitIInv == Init => IInv
<1> SUFFICES ASSUME Init PROVE IInv
  BY SMTT(90)
<1> USE DEF Init
<1>1. TypeOK
  BY MainNoChild, RunsAssumption DEF TypeOK, Label, ThreadState, NewCv
<1>2. \A t \in Child : pc[t] = "off" /\ tcb[t] = Inactive
  BY MainNoChild, Zenon
<1>3. pc[Main] = "collect" /\ tcb[Main] = Running
  BY MainNoChild, Zenon
<1>4. Inside = {} /\ InCv = {} /\ PendingSet = {}
  BY <1>2, StatesDistinct, Zenon DEF Inside, InCv, PendingSet, Pending
<1>5. LockInv
  BY <1>2, Zenon DEF LockInv, HasLockToken, Holding
<1>6. CountInv
  BY <1>4, FS_EmptySet, SMTT(90) DEF CountInv, NewCv
<1>7. MainInv
  BY <1>2, <1>3, StatesDistinct, Zenon DEF MainInv, Label, Child
<1>8. BarrierInv
  BY <1>3, <1>4, FS_EmptySet, SMTT(90) DEF BarrierInv
<1>9. ChainInv
  BY <1>2, <1>3, Zenon DEF ChainInv, Woken, NewCv, Child
<1>10. StampInv
  BY <1>2, <1>3, StatesDistinct, Zenon DEF StampInv, Pending, Child
<1> QED
  BY <1>1, <1>5, <1>6, <1>7, <1>8, <1>9, <1>10, Zenon DEF IInv

\* Every step of a waiter or of the broadcaster keeps the invariant.
LEMMA ChildStepIInv ==
  ASSUME IInv, NEW t \in Child, ChildStep(t)
  PROVE  IInv'
<1>1. tcb[t] = Running
  BY Zenon DEF ChildStep, CanRun
<1>2. CASE AcquireLock(t)
  BY <1>1, <1>2, SemWaitStep, SemBlockStep, Zenon DEF AcquireLock
<1>3. CASE TestShared(t)
  BY <1>1, <1>3, CvEnterStep, SampleStep, Zenon DEF TestShared
<1>4. CASE CvWait(t)
  BY <1>1, <1>4, SemPostStep, SemSignalStep, CvBlockStep, SemWaitStep,
     SemBlockStep, CvLeaveStep, Zenon DEF CvWait
<1>5. CASE DoBroadcast(t)
  BY <1>1, <1>5, BroadcastStep, Zenon
<1>6. CASE ReleaseLock(t)
  BY <1>1, <1>6, SemPostStep, SemSignalStep, Zenon DEF ReleaseLock
<1>7. CASE Report(t)
  BY <1>1, <1>7, SendDoneStep, BlockStep, Zenon DEF Report
<1> QED
  BY <1>2, <1>3, <1>4, <1>5, <1>6, <1>7, Zenon DEF ChildStep

\* Every step of benchmark_broadcast's main thread keeps the invariant.
LEMMA MainStepIInv ==
  ASSUME IInv, MainStep
  PROVE  IInv'
<1>1. tcb[Main] = Running
  BY Zenon DEF MainStep, CanRun
<1> QED
  BY <1>1, BeginRunStep, StartWaiterStep, StartBroadcasterStep, WaitChildStep,
     SuspendChildStep, Zenon DEF MainStep

\* The invariant only depends on the variables of the specification.
LEMMA StutterIInv ==
  ASSUME IInv, UNCHANGED vars
  PROVE  IInv'
<1> USE DEF vars
<1>1. TypeOK' /\ LockInv' /\ MainInv'
  BY Zenon DEF IInv, TypeOK, ThreadState, LockInv, HasLockToken, Holding, MainInv
<1>2. CountInv'
  BY Zenon DEF IInv, CountInv, Inside, InCv
<1>3. BarrierInv' /\ StampInv' /\ ChainInv'
  BY Zenon DEF IInv, BarrierInv, PendingSet, Pending, StampInv, ChainInv, Woken
<1> QED
  BY <1>1, <1>2, <1>3, Zenon DEF IInv

\* The invariant holds in every state of the benchmark.
THEOREM Invariance == Spec => []IInv
<1>1. IInv /\ [Next]_vars => IInv'
  BY ChildStepIInv, MainStepIInv, StutterIInv, Zenon DEF Next, Finished
<1> QED
  BY InitIInv, <1>1, PTL DEF Spec

\* Type correctness, for any number of waiters and runs: in particular no
\* sequence of steps posts the semaphore above 1.
THEOREM TypeCorrect == Spec => []TypeOK
<1>1. IInv => TypeOK
  BY Zenon DEF IInv
<1> QED
  BY <1>1, Invariance, PTL

\* The lock of the sync benchmark excludes, for any number of waiters, under
\* any scheduling and across all the restarts of the threads.
THEOREM LockExcludes == Spec => []MutualExclusion
<1>1. IInv => MutualExclusion
  BY Zenon DEF IInv, LockInv, HasLockToken, MutualExclusion
<1> QED
  BY <1>1, Invariance, PTL

\* Main never restarts or suspends a child that still runs its benchmark.
THEOREM RestartsAreSafe == Spec => []RestartOnlyFinished
<1>1. IInv => RestartOnlyFinished
  BY Zenon DEF IInv, BarrierInv, RestartOnlyFinished
<1> QED
  BY <1>1, Invariance, PTL

\* Between two runs the lock and the condition variable are as good as new.
THEOREM RunsAreIndependent == Spec => []CleanRestart
<1>1. IInv => CleanRestart
  BY AllQuiet, Zenon DEF CleanRestart
<1> QED
  BY <1>1, Invariance, PTL

\* Every waiter's result of a run is measured from that run's broadcast.
THEOREM SamplesAreFresh == Spec => []FreshSamples
<1>1. IInv => FreshSamples
  BY AllQuiet, Zenon DEF FreshSamples
<1> QED
  BY <1>1, Invariance, PTL

-----------------------------------------------------------------------------
(* The broadcast finds every waiter asleep.  Here the priorities matter:   *)
(* the broadcaster runs only when nobody else can, and the invariant says  *)
(* what a waiter that cannot run is blocked on.                            *)

\* A child is blocked only in a wait.
BlockedInv ==
  \A t \in Child :
    /\ pc[t] \in {"lock", "lock_wait", "cv_post", "cv_post_signal", "cv_block",
                  "cv_lock_wait", "post", "post_signal", "done"} => tcb[t] = Running
    /\ pc[t] \in {"locked", "cv_leave"} => tcb[t] \in {Running, WaitingOn(Lock)}
    /\ pc[t] = "cv_lock" => tcb[t] \in {Running, WaitingOn(Cv)}
    /\ pc[t] \in {"block", "off"} => tcb[t] # WaitingOn(Lock)

\* The token of the lock is not lost.
TokenInv ==
  /\ active[Lock] => \A t \in Child : tcb[t] # WaitingOn(Lock)
  /\ Inside # {} => active[Lock] \/ \E t \in Child : HasLockToken(t)

\* A waiter on its way to the condition variable.
OnItsWay(w) == pc[w] \in {"lock", "lock_wait", "locked", "cv_post", "cv_post_signal",
                          "cv_block", "cv_lock"}

SleepInv ==
  /\ pc[Broadcaster] # "lock_wait"
  /\ pc[Broadcaster] \in {"lock", "locked"} => \A w \in Waiter : OnItsWay(w)
  /\ pc[Main] = "start" => \A w \in Waiter \ todo : OnItsWay(w)
  /\ pc[Broadcaster] = "locked" => \A w \in Waiter : tcb[w] = WaitingOn(Cv)

PriorityInv == BlockedInv /\ TokenInv /\ SleepInv

\* Threads other than t stay where they are, and are woken at most.
Others(t) ==
  \A u \in Child : u # t =>
    /\ pc'[u] = pc[u]
    /\ tcb'[u] = tcb[u] \/ (tcb[u] # WaitingOn(Lock) /\ tcb'[u] = Running)

\* A child takes a step at which it does not block, or blocks where it may.
LEMMA BlockedKept ==
  ASSUME BlockedInv, NEW t \in Child, pc'[t] \in Label,
         \A u \in Child : u # t => pc'[u] = pc[u] /\ tcb'[u] \in {tcb[u], Running},
         \/ tcb'[t] = Running
         \/ pc'[t] \in {"locked", "cv_leave"} /\ tcb'[t] = WaitingOn(Lock)
         \/ pc'[t] = "cv_lock" /\ tcb'[t] = WaitingOn(Cv)
         \/ pc'[t] \in {"block", "off"} /\ tcb'[t] # WaitingOn(Lock)
  PROVE  BlockedInv'
<1> SUFFICES ASSUME NEW u \in Child
             PROVE  /\ pc'[u] \in {"lock", "lock_wait", "cv_post", "cv_post_signal", "cv_block",
                                   "cv_lock_wait", "post", "post_signal", "done"}
                         => tcb'[u] = Running
                    /\ pc'[u] \in {"locked", "cv_leave"} => tcb'[u] \in {Running, WaitingOn(Lock)}
                    /\ pc'[u] = "cv_lock" => tcb'[u] \in {Running, WaitingOn(Cv)}
                    /\ pc'[u] \in {"block", "off"} => tcb'[u] # WaitingOn(Lock)
  BY Zenon DEF BlockedInv
<1>1. CASE u = t
  BY <1>1, StatesDistinct, Zenon DEF Label
<1>2. CASE u # t
  BY <1>2, StatesDistinct, Zenon DEF BlockedInv
<1> QED
  BY <1>1, <1>2, Zenon

\* A step of a thread that has nothing to do with the lock.
LEMMA TokenElsewhere ==
  ASSUME TokenInv, NEW t \in Child, Others(t), active'[Lock] = active[Lock],
         tcb'[t] # WaitingOn(Lock), ~HasLockToken(t), t \notin Inside'
  PROVE  TokenInv'
<1>1. active'[Lock] => \A u \in Child : tcb'[u] # WaitingOn(Lock)
  BY StatesDistinct, Zenon DEF TokenInv, Others
<1>2. \A u \in Child : u # t => (HasLockToken(u) => HasLockToken(u)')
  BY StatesDistinct, Zenon DEF Others, HasLockToken, Holding
<1>3. \A u \in Child : HasLockToken(u) => HasLockToken(u)'
  BY <1>2, Zenon
<1>4. Inside' \subseteq Inside
  BY Zenon DEF Inside, Others
<1> QED
  BY <1>1, <1>3, <1>4, Zenon DEF TokenInv

\* A step after which the thread has the token.
LEMMA TokenHeld ==
  ASSUME TokenInv, NEW t \in Child, Others(t), active'[Lock] = active[Lock],
         tcb'[t] # WaitingOn(Lock), HasLockToken(t)'
  PROVE  TokenInv'
<1>1. active'[Lock] => \A u \in Child : tcb'[u] # WaitingOn(Lock)
  BY StatesDistinct, Zenon DEF TokenInv, Others
<1> QED
  BY <1>1, Zenon DEF TokenInv

\* A step of a waiter: before the broadcast it stays on its way.
LEMMA WaiterSleeps ==
  ASSUME IInv, SleepInv, NEW t \in Waiter, tcb[t] = Running, NEW to,
         pc' = [pc EXCEPT ![t] = to], todo' = todo,
         shared = 0 /\ OnItsWay(t) =>
           to \in {"lock", "lock_wait", "locked", "cv_post", "cv_post_signal", "cv_block", "cv_lock"}
  PROVE  SleepInv'
<1>1. /\ pc'[Broadcaster] = pc[Broadcaster] /\ pc'[Main] = pc[Main] /\ pc'[t] = to
      /\ \A w \in Waiter : w # t => pc'[w] = pc[w]
  BY ThreadAssumption, Zenon DEF IInv, TypeOK, Thread, Child
<1>2. pc[Broadcaster] # "locked"
  BY StatesDistinct, Zenon DEF SleepInv
<1>3. pc[Broadcaster] = "lock" \/ pc[Main] = "start" => shared = 0
  BY Zenon DEF IInv, ChainInv
<1>4. \A w \in Waiter : OnItsWay(w) /\ shared = 0 => OnItsWay(w)'
  BY <1>1, Zenon DEF OnItsWay
<1> QED
  BY <1>1, <1>2, <1>3, <1>4, Zenon DEF SleepInv

\* A step of the broadcaster once it has the lock.
LEMMA BroadcasterLeaves ==
  ASSUME IInv, SleepInv, NEW to \in Label \ {"lock", "lock_wait", "locked"},
         pc' = [pc EXCEPT ![Broadcaster] = to], todo' = todo
  PROVE  SleepInv'
<1>1. /\ pc'[Broadcaster] = to /\ pc'[Main] = pc[Main]
      /\ \A w \in Waiter : pc'[w] = pc[w]
  BY ThreadAssumption, Zenon DEF IInv, TypeOK, Thread, Child
<1> QED
  BY <1>1, Zenon DEF SleepInv, OnItsWay

\* When the broadcaster can run and asks for the lock, nobody is inside, and every
\* waiter sleeps.
LEMMA NobodyInside ==
  ASSUME IInv, PriorityInv, pc[Broadcaster] = "lock", CanRun(Broadcaster, prio)
  PROVE  value = 1 /\ \A w \in Waiter : tcb[w] = WaitingOn(Cv)
<1>1. \A w \in Waiter : tcb[w] # Running
  <2>1. /\ prio[Broadcaster] = MaxPrio - 1 /\ \A w \in Waiter : prio[w] = MaxPrio /\ w \in Thread
        /\ DOMAIN tcb = Thread
    BY ThreadAssumption, Zenon DEF prio, Thread, Child, IInv, TypeOK
  <2> QED
    BY <2>1 DEF CanRun, MaxPrio
<1>2. \A t \in Inside : t \in Waiter
  BY Zenon DEF Inside, Child
<1>3. Inside = {}
  <2> SUFFICES ASSUME Inside # {}
               PROVE  FALSE
    BY Zenon
  <2>1. CASE active[Lock]
    <3>1. PICK t \in Inside : TRUE
      BY Zenon
    <3>2. /\ t \in Waiter /\ t \in Child /\ ~HasLockToken(t) /\ tcb[t] # WaitingOn(Lock)
          /\ pc[t] \in {"lock_wait", "locked", "cv_post", "cv_lock_wait", "cv_leave", "post"}
      BY <1>2, <2>1, <3>1, Zenon DEF PriorityInv, TokenInv, IInv, LockInv, Inside
    <3>3. pc[t] \in {"lock_wait", "cv_lock_wait"}
      BY <3>2, Zenon DEF HasLockToken, Holding
    <3> QED
      BY <1>1, <3>2, <3>3, Zenon DEF PriorityInv, BlockedInv
  <2>2. CASE ~active[Lock]
    <3>1. PICK t \in Child : HasLockToken(t)
      BY <2>2, Zenon DEF PriorityInv, TokenInv
    <3>2. t \in Waiter /\ tcb[t] = Running
      BY <3>1, StatesDistinct, Zenon DEF HasLockToken, Holding, PriorityInv, BlockedInv, Child
    <3> QED
      BY <1>1, <3>2, Zenon
  <2> QED
    BY <2>1, <2>2, Zenon
<1>4. value = 1
  BY <1>3, FS_EmptySet DEF IInv, CountInv
<1>5. \A w \in Waiter : OnItsWay(w) /\ w \in Child
  BY Zenon DEF PriorityInv, SleepInv, Child
<1>6. \A w \in Waiter : w \notin Inside
  BY <1>3, Zenon
<1> QED
  BY <1>1, <1>4, <1>5, <1>6, Zenon DEF OnItsWay, Inside, PriorityInv, BlockedInv

\* What a child's step does to the other children's places.
LEMMA OwnStep ==
  ASSUME IInv, NEW t \in Child, NEW from, NEW to, Step(t, from, to)
  PROVE  pc'[t] = to /\ pc[t] = from /\ \A u \in Child : u # t => pc'[u] = pc[u]
BY MainNoChild, Zenon DEF Step, IInv, TypeOK

\* sync_bin_sem_wait up to the lock's notification: the broadcaster gets the
\* lock at once, as the scheduler lets it run only when every waiter sleeps.
LEMMA SemWaitSleep ==
  ASSUME IInv, IInv', PriorityInv, NEW t \in Child, CanRun(t, prio),
         NEW a, NEW b, NEW c, SemWait(t, a, b, c), UNCHANGED bvars,
         \/ a = "lock" /\ b = "lock_wait" /\ c = "locked"
         \/ a = "cv_lock" /\ b = "cv_lock_wait" /\ c = "cv_leave"
  PROVE  PriorityInv'
<1>1. /\ pc'[t] = IF value <= 0 THEN b ELSE c
      /\ pc[t] = a /\ \A u \in Child : u # t => pc'[u] = pc[u]
      /\ tcb' = tcb /\ active' = active /\ todo' = todo /\ tcb[t] = Running
  BY OwnStep, Zenon DEF SemWait, bvars, CanRun
<1>2. BlockedInv'
  BY <1>1, BlockedKept, StatesDistinct, Zenon DEF PriorityInv, Label
<1>3. TokenInv'
  <2>1. CASE value <= 0
    <3>1. Inside # {}
      BY <2>1, FS_EmptySet, SMTT(90) DEF IInv, CountInv
    <3>2. ~HasLockToken(t)
      BY <1>1, Zenon DEF HasLockToken, Holding
    <3>3. \A u \in Child : HasLockToken(u) => HasLockToken(u)'
      BY <1>1, <3>2, Zenon DEF HasLockToken, Holding
    <3> QED
      BY <1>1, <3>1, <3>3, Zenon DEF PriorityInv, TokenInv
  <2>2. CASE ~(value <= 0)
    <3>1. HasLockToken(t)'
      BY <1>1, <2>2, StatesDistinct, Zenon DEF HasLockToken, Holding
    <3> QED
      BY <1>1, <3>1, TokenHeld, StatesDistinct, Zenon DEF PriorityInv, Others
  <2> QED
    BY <2>1, <2>2, Zenon
<1>4. SleepInv'
  <2>1. CASE t \in Waiter
    <3>1. OnItsWay(t) /\ shared = 0 => a = "lock"
      BY <1>1, StatesDistinct, Zenon DEF IInv, ChainInv, Woken, OnItsWay
    <3> QED
      BY <1>1, <2>1, <3>1, WaiterSleeps, Zenon DEF SemWait, Step, PriorityInv
  <2>2. CASE t = Broadcaster
    <3>1. a = "lock"
      BY <1>1, <2>2, Zenon DEF IInv, MainInv
    <3>2. value = 1 /\ \A w \in Waiter : tcb[w] = WaitingOn(Cv)
      BY <1>1, <2>2, <3>1, NobodyInside, Zenon
    <3>3. pc'[Broadcaster] = "locked" /\ pc'[Main] = pc[Main]
      <4>1. ~(1 <= 0)
        OBVIOUS
      <4>2. c = "locked"
        BY <3>1, Zenon
      <4>3. pc'[Broadcaster] = "locked"
        BY <1>1, <2>2, <3>2, <4>1, <4>2, Zenon
      <4> QED
        BY <4>3, MainNoChild, Zenon DEF SemWait, Step, IInv, TypeOK
    <3>4. \A w \in Waiter : pc'[w] = pc[w]
      BY <1>1, <2>2, ThreadAssumption, Zenon DEF Child
    <3> QED
      BY <1>1, <2>2, <3>1, <3>2, <3>3, <3>4, Zenon DEF PriorityInv, SleepInv, OnItsWay
  <2> QED
    BY <2>1, <2>2, Zenon DEF Child
<1> QED
  BY <1>2, <1>3, <1>4, Zenon DEF PriorityInv

\* seL4_Wait on the lock's notification takes the token or sleeps.
LEMMA SemBlockSleep ==
  ASSUME IInv, PriorityInv, NEW t \in Child, tcb[t] = Running,
         NEW a, NEW b, SemBlock(t, a, b), UNCHANGED bvars,
         \/ a = "lock_wait" /\ b = "locked"
         \/ a = "cv_lock_wait" /\ b = "cv_leave"
  PROVE  PriorityInv'
<1>1. /\ pc'[t] = b /\ pc[t] = a /\ \A u \in Child : u # t => pc'[u] = pc[u]
      /\ todo' = todo /\ t \in Thread /\ DOMAIN tcb = Thread /\ DOMAIN active = {Lock, Cv}
  BY OwnStep, MainNoChild, Zenon DEF SemBlock, bvars, IInv, TypeOK
<1>2. /\ \A u \in Child : u # t => tcb'[u] = tcb[u]
      /\ \/ active[Lock] /\ tcb'[t] = Running /\ ~active'[Lock]
         \/ ~active[Lock] /\ tcb'[t] = WaitingOn(Lock) /\ ~active'[Lock]
  <2>1. CASE active[Lock]
    BY <1>1, <2>1, Zenon DEF SemBlock, Wait
  <2>2. CASE ~active[Lock]
    BY <1>1, <2>2, MainNoChild, Zenon DEF SemBlock, Wait, SetState
  <2> QED
    BY <2>1, <2>2, Zenon
<1>3. BlockedInv'
  BY <1>1, <1>2, BlockedKept, Zenon DEF PriorityInv, Label
<1>4. TokenInv'
  <2>1. CASE active[Lock]
    <3>1. HasLockToken(t)'
      BY <1>1, <1>2, <2>1, StatesDistinct, Zenon DEF HasLockToken, Holding
    <3> QED
      BY <1>2, <3>1, Zenon DEF TokenInv
  <2>2. CASE ~active[Lock]
    <3>1. t \in Inside /\ ~HasLockToken(t)
      BY <1>1, Zenon DEF Inside, HasLockToken, Holding
    <3>2. PICK u \in Child : HasLockToken(u)
      BY <2>2, <3>1, Zenon DEF PriorityInv, TokenInv
    <3>3. u # t /\ HasLockToken(u)'
      BY <1>1, <1>2, <3>1, <3>2, Zenon DEF HasLockToken, Holding
    <3> QED
      BY <1>2, <3>3, Zenon DEF TokenInv
  <2> QED
    BY <2>1, <2>2, Zenon
<1>5. SleepInv'
  <2>1. t \in Waiter
    BY <1>1, Zenon DEF PriorityInv, SleepInv, IInv, MainInv, Child
  <2>2. OnItsWay(t) => a = "lock_wait"
    BY <1>1, Zenon DEF OnItsWay
  <2> QED
    BY <1>1, <2>1, <2>2, WaiterSleeps, Zenon DEF SemBlock, Step, PriorityInv
<1> QED
  BY <1>3, <1>4, <1>5, Zenon DEF PriorityInv

\* sync_bin_sem_post leaves the lock free or with a signal to send.
LEMMA SemPostSleep ==
  ASSUME IInv, IInv', PriorityInv, NEW t \in Child, tcb[t] = Running,
         NEW a, NEW b, NEW c, SemPost(t, a, b, c), UNCHANGED bvars,
         \/ a = "cv_post" /\ b = "cv_post_signal" /\ c = "cv_block"
         \/ a = "post" /\ b = "post_signal" /\ c = "done"
  PROVE  PriorityInv'
<1>1. /\ pc'[t] = IF value + 1 <= 0 THEN b ELSE c
      /\ pc[t] = a /\ \A u \in Child : u # t => pc'[u] = pc[u]
      /\ tcb' = tcb /\ active' = active /\ todo' = todo /\ value' = value + 1
  BY OwnStep, Zenon DEF SemPost, bvars
<1>2. BlockedInv'
  BY <1>1, BlockedKept, StatesDistinct, Zenon DEF PriorityInv, Label
<1>3. TokenInv'
  <2>1. CASE value + 1 <= 0
    <3>1. HasLockToken(t)'
      BY <1>1, <2>1, Zenon DEF HasLockToken
    <3> QED
      BY <1>1, <3>1, TokenHeld, StatesDistinct, Zenon DEF PriorityInv, Others
  <2>2. CASE ~(value + 1 <= 0)
    <3>1. Cardinality(Inside') \in Nat /\ (Cardinality(Inside') = 0 => Inside' = {})
      BY CountedSets, Counting, Zenon
    <3>2. value' = 1 - Cardinality(Inside') /\ value \in Int
      BY Zenon DEF IInv, CountInv, TypeOK
    <3>3. Inside' = {}
      BY <1>1, <2>2, <3>1, <3>2, SMTT(90)
    <3> QED
      BY <1>1, <3>3, Zenon DEF PriorityInv, TokenInv
  <2> QED
    BY <2>1, <2>2, Zenon
<1>4. SleepInv'
  <2>1. CASE t \in Waiter
    <3>1. OnItsWay(t) => a = "cv_post"
      BY <1>1, Zenon DEF OnItsWay
    <3> QED
      BY <1>1, <2>1, <3>1, WaiterSleeps, Zenon DEF SemPost, Step, PriorityInv
  <2>2. CASE t = Broadcaster
    BY <1>1, <2>2, BroadcasterLeaves, Zenon DEF SemPost, Step, PriorityInv, Label
  <2> QED
    BY <2>1, <2>2, Zenon DEF Child
<1> QED
  BY <1>2, <1>3, <1>4, Zenon DEF PriorityInv

\* seL4_Signal of the lock's notification hands the token to a sleeper or
\* leaves it pending.
LEMMA SemSignalSleep ==
  ASSUME IInv, PriorityInv, NEW t \in Child, tcb[t] = Running,
         NEW a, NEW b, SemSignal(t, a, b), UNCHANGED bvars,
         \/ a = "cv_post_signal" /\ b = "cv_block"
         \/ a = "post_signal" /\ b = "done"
  PROVE  PriorityInv'
<1>1. /\ pc'[t] = b /\ pc[t] = a /\ \A u \in Child : u # t => pc'[u] = pc[u]
      /\ todo' = todo /\ t \in Thread /\ DOMAIN tcb = Thread /\ DOMAIN active = {Lock, Cv}
  BY OwnStep, MainNoChild, Zenon DEF SemSignal, bvars, IInv, TypeOK
<1>2. ASSUME \E w \in Blocked(WaitingOn(Lock)) : SetState(w, Running) /\ UNCHANGED active
      PROVE  BlockedInv' /\ TokenInv'
  <2>1. PICK w \in Blocked(WaitingOn(Lock)) : SetState(w, Running) /\ UNCHANGED active
    BY <1>2, Zenon
  <2>2. w \in Child /\ w # t /\ tcb[w] = WaitingOn(Lock)
    BY <1>1, <2>1, StatesDistinct, Zenon DEF Blocked, Thread, IInv, MainInv
  <2>3. /\ tcb'[w] = Running /\ tcb'[t] = Running /\ active' = active
        /\ \A u \in Child : tcb'[u] \in {tcb[u], Running}
        /\ \A u \in Child : u # w => tcb'[u] = tcb[u]
    BY <1>1, <2>1, <2>2, MainNoChild, Zenon DEF SetState
  <2>4. BlockedInv'
    BY <1>1, <2>3, BlockedKept, Zenon DEF PriorityInv, Label
  <2>5. pc[w] \in {"locked", "cv_leave"}
    BY <2>2, StatesDistinct, Zenon DEF PriorityInv, BlockedInv, IInv, MainInv, Label
  <2>6. HasLockToken(w)'
    BY <1>1, <2>2, <2>3, <2>5, StatesDistinct, Zenon DEF HasLockToken, Holding
  <2>7. ~active'[Lock]
    BY <2>2, <2>3, Zenon DEF PriorityInv, TokenInv
  <2>8. TokenInv'
    BY <2>2, <2>6, <2>7, Zenon DEF TokenInv
  <2> QED
    BY <2>4, <2>8, Zenon
<1>3. ASSUME Blocked(WaitingOn(Lock)) = {}, active' = [active EXCEPT ![Lock] = TRUE], tcb' = tcb
      PROVE  BlockedInv' /\ TokenInv'
  <2>1. BlockedInv'
    BY <1>1, <1>3, BlockedKept, Zenon DEF PriorityInv, Label
  <2>2. TokenInv'
    BY <1>1, <1>3, MainNoChild, Zenon DEF TokenInv, Blocked
  <2> QED
    BY <2>1, <2>2, Zenon
<1>4. BlockedInv' /\ TokenInv'
  BY <1>2, <1>3, Zenon DEF SemSignal, Signal, PriorityInv
<1>5. SleepInv'
  <2>1. CASE t \in Waiter
    <3>1. OnItsWay(t) => a = "cv_post_signal"
      BY <1>1, Zenon DEF OnItsWay
    <3> QED
      BY <1>1, <2>1, <3>1, WaiterSleeps, Zenon DEF SemSignal, Step, PriorityInv
  <2>2. CASE t = Broadcaster
    BY <1>1, <2>2, BroadcasterLeaves, Zenon DEF SemSignal, Step, PriorityInv, Label
  <2> QED
    BY <2>1, <2>2, Zenon DEF Child
<1> QED
  BY <1>4, <1>5, Zenon DEF PriorityInv

\* seL4_Wait on the condition variable: a waiter falls asleep.
LEMMA CvBlockSleep ==
  ASSUME IInv, PriorityInv, NEW t \in Child, tcb[t] = Running,
         CvBlock(t, Cv, "cv_block", "cv_lock"), UNCHANGED bvars
  PROVE  PriorityInv'
<1>1. /\ pc'[t] = "cv_lock" /\ pc[t] = "cv_block" /\ \A u \in Child : u # t => pc'[u] = pc[u]
      /\ todo' = todo /\ t \in Thread /\ DOMAIN tcb = Thread /\ DOMAIN active = {Lock, Cv}
      /\ Lock # Cv
  BY OwnStep, MainNoChild, Zenon DEF CvBlock, bvars, IInv, TypeOK, Lock, Cv
<1>2. /\ \A u \in Child : u # t => tcb'[u] = tcb[u]
      /\ tcb'[t] \in {Running, WaitingOn(Cv)} /\ active'[Lock] = active[Lock]
  <2>1. CASE active[Cv]
    BY <1>1, <2>1, Zenon DEF CvBlock, Wait
  <2>2. CASE ~active[Cv]
    BY <1>1, <2>2, MainNoChild, Zenon DEF CvBlock, Wait, SetState
  <2> QED
    BY <2>1, <2>2, Zenon
<1>3. BlockedInv'
  BY <1>1, <1>2, BlockedKept, Zenon DEF PriorityInv, Label
<1>4. ~HasLockToken(t) /\ t \notin Inside' /\ tcb'[t] # WaitingOn(Lock)
  BY <1>1, <1>2, StatesDistinct, Zenon DEF HasLockToken, Holding, Inside
<1>5. TokenInv'
  BY <1>1, <1>2, <1>4, TokenElsewhere, Zenon DEF PriorityInv, Others
<1>6. t \in Waiter
  BY <1>1, Zenon DEF IInv, MainInv, Child
<1>7. SleepInv'
  BY <1>1, <1>6, WaiterSleeps, Zenon DEF CvBlock, Step, PriorityInv
<1> QED
  BY <1>3, <1>5, <1>7, Zenon DEF PriorityInv

\* What a Signal of the condition variable does to the children.
LEMMA CvSignalled ==
  ASSUME IInv, NEW t \in Child, tcb[t] = Running,
         Signal(Cv) \/ UNCHANGED <<tcb, active>>,
         \A u \in Child : u # t => pc'[u] = pc[u]
  PROVE  /\ Others(t) /\ tcb'[t] = Running /\ active'[Lock] = active[Lock]
         /\ \A u \in Child : tcb'[u] \in {tcb[u], Running}
<1>1. /\ t \in Thread /\ DOMAIN tcb = Thread /\ DOMAIN active = {Lock, Cv} /\ Lock # Cv
      /\ Child \subseteq Thread
  BY MainNoChild, Zenon DEF IInv, TypeOK, Lock, Cv
<1>2. CASE \E w \in Blocked(WaitingOn(Cv)) : SetState(w, Running) /\ UNCHANGED active
  <2>1. PICK w \in Blocked(WaitingOn(Cv)) : SetState(w, Running) /\ UNCHANGED active
    BY <1>2, Zenon
  <2>2. tcb[w] # WaitingOn(Lock) /\ w \in Thread
    BY <1>1, <2>1, StatesDistinct, Zenon DEF Blocked
  <2> QED
    BY <1>1, <2>1, <2>2, Zenon DEF Others, SetState
<1>3. CASE tcb' = tcb /\ (active' = active \/ active' = [active EXCEPT ![Cv] = TRUE])
  BY <1>1, <1>3, Zenon DEF Others
<1> QED
  BY <1>2, <1>3, Zenon DEF Signal

\* The end of sync_cv_wait, after the broadcast.
LEMMA CvLeaveSleep ==
  ASSUME IInv, PriorityInv, NEW t \in Child, tcb[t] = Running,
         CvLeave(t, Cv, "cv_leave", "locked"), UNCHANGED bvars
  PROVE  PriorityInv'
<1>1. /\ pc'[t] = "locked" /\ pc[t] = "cv_leave" /\ \A u \in Child : u # t => pc'[u] = pc[u]
      /\ todo' = todo /\ (Signal(Cv) \/ UNCHANGED <<tcb, active>>)
  BY OwnStep, Zenon DEF CvLeave, bvars
<1>2. /\ Others(t) /\ tcb'[t] = Running /\ active'[Lock] = active[Lock]
      /\ \A u \in Child : tcb'[u] \in {tcb[u], Running}
  BY <1>1, CvSignalled, Zenon
<1>3. BlockedInv'
  BY <1>1, <1>2, BlockedKept, Zenon DEF PriorityInv, Label
<1>4. HasLockToken(t)' /\ tcb'[t] # WaitingOn(Lock)
  BY <1>1, <1>2, StatesDistinct, Zenon DEF HasLockToken, Holding
<1>5. TokenInv'
  BY <1>2, <1>4, TokenHeld, Zenon DEF PriorityInv
<1>6. t \in Waiter
  BY <1>1, Zenon DEF IInv, MainInv, Child
<1>7. SleepInv'
  BY <1>1, <1>6, WaiterSleeps, Zenon DEF CvLeave, Step, PriorityInv
<1> QED
  BY <1>3, <1>5, <1>7, Zenon DEF PriorityInv

\* waiter_func0 tests the shared flag under the lock.
LEMMA TestSharedSleep ==
  ASSUME IInv, PriorityInv, NEW t \in Child, tcb[t] = Running, TestShared(t)
  PROVE  PriorityInv'
<1>1. PICK to \in {"cv_post", "post"} :
        /\ Step(t, "locked", to) /\ (shared = 0 => to = "cv_post")
        /\ tcb' = tcb /\ active' = active /\ todo' = todo
  BY Zenon DEF TestShared, bvars
<1>2. pc'[t] = to /\ pc[t] = "locked" /\ \A u \in Child : u # t => pc'[u] = pc[u]
  BY <1>1, OwnStep, Zenon
<1>3. BlockedInv'
  BY <1>1, <1>2, BlockedKept, Zenon DEF PriorityInv, Label
<1>4. HasLockToken(t)' /\ tcb'[t] # WaitingOn(Lock)
  BY <1>1, <1>2, StatesDistinct, Zenon DEF HasLockToken, Holding
<1>5. TokenInv'
  BY <1>1, <1>2, <1>4, TokenHeld, Zenon DEF PriorityInv, Others
<1>6. SleepInv'
  BY <1>1, WaiterSleeps, Zenon DEF TestShared, Step, PriorityInv
<1> QED
  BY <1>3, <1>5, <1>6, Zenon DEF PriorityInv

\* broadcast_func0 sets the shared flag and broadcasts.
LEMMA DoBroadcastSleep ==
  ASSUME IInv, PriorityInv, NEW t \in Child, tcb[t] = Running, DoBroadcast(t)
  PROVE  PriorityInv'
<1>1. /\ pc'[t] = "post" /\ pc[t] = "locked" /\ \A u \in Child : u # t => pc'[u] = pc[u]
      /\ todo' = todo /\ (Signal(Cv) \/ UNCHANGED <<tcb, active>>) /\ t = Broadcaster
  BY OwnStep, Zenon DEF DoBroadcast, sync_cv_broadcast
<1>2. /\ Others(t) /\ tcb'[t] = Running /\ active'[Lock] = active[Lock]
      /\ \A u \in Child : tcb'[u] \in {tcb[u], Running}
  BY <1>1, CvSignalled, Zenon
<1>3. BlockedInv'
  BY <1>1, <1>2, BlockedKept, Zenon DEF PriorityInv, Label
<1>4. HasLockToken(t)' /\ tcb'[t] # WaitingOn(Lock)
  BY <1>1, <1>2, StatesDistinct, Zenon DEF HasLockToken, Holding
<1>5. TokenInv'
  BY <1>2, <1>4, TokenHeld, Zenon DEF PriorityInv
<1>6. SleepInv'
  BY <1>1, BroadcasterLeaves, Zenon DEF DoBroadcast, Step, PriorityInv, Label
<1> QED
  BY <1>3, <1>5, <1>6, Zenon DEF PriorityInv

\* A child reports to main (done) with the lock behind it.
LEMMA ReportSleep ==
  ASSUME IInv, PriorityInv, NEW t \in Child, tcb[t] = Running, Report(t)
  PROVE  PriorityInv'
<1>0. /\ t \in Thread /\ DOMAIN tcb = Thread /\ Child \subseteq Thread /\ Main \notin Child
      /\ todo' = todo
  BY MainNoChild, Zenon DEF IInv, TypeOK, Report, bvars
<1>1. PICK from \in {"done", "block"}, to \in {"block", "off"} : Step(t, from, to)
  BY Zenon DEF Report
<1>2. pc'[t] = to /\ pc[t] = from /\ \A u \in Child : u # t => pc'[u] = pc[u]
  BY <1>1, OwnStep, Zenon
<1>3. \E v \in Thread, x \in {Running, SendingTo(DoneEp), RecvingOn(BlockEp)} :
        /\ tcb' = [tcb EXCEPT ![v] = x] /\ active' = active
        /\ v # t => x = Running /\ tcb[v] # WaitingOn(Lock)
  BY <1>0, StatesDistinct, Zenon DEF Report, Send, Recv, SetState, Blocked
<1>4. Others(t) /\ active' = active /\ tcb'[t] # WaitingOn(Lock)
  BY <1>0, <1>2, <1>3, StatesDistinct, Zenon DEF Others
<1>5. BlockedInv'
  BY <1>2, <1>4, BlockedKept, Zenon DEF PriorityInv, Label, Others
<1>6. ~HasLockToken(t) /\ t \notin Inside'
  BY <1>2, Zenon DEF HasLockToken, Holding, Inside
<1>7. TokenInv'
  BY <1>4, <1>6, TokenElsewhere, Zenon DEF PriorityInv
<1>8. SleepInv'
  <2>1. CASE t \in Waiter
    <3>1. ~OnItsWay(t)
      BY <1>2, Zenon DEF OnItsWay
    <3> QED
      BY <1>0, <1>1, <2>1, <3>1, WaiterSleeps, Zenon DEF Step, PriorityInv
  <2>2. CASE t = Broadcaster
    BY <1>0, <1>1, <2>2, BroadcasterLeaves, Zenon DEF Step, PriorityInv, Label
  <2> QED
    BY <2>1, <2>2, Zenon DEF Child
<1> QED
  BY <1>5, <1>7, <1>8, Zenon DEF PriorityInv

\* Steps of main that leave the places of the children alone.
LEMMA PlacesKept ==
  ASSUME PriorityInv, \A u \in Child : pc'[u] = pc[u], active' = active,
         \A u \in Child : \/ tcb'[u] = tcb[u]
                          \/ /\ tcb[u] \notin {WaitingOn(Lock), WaitingOn(Cv)}
                             /\ tcb'[u] = Running
  PROVE  /\ BlockedInv' /\ TokenInv'
         /\ pc'[Broadcaster] # "lock_wait"
         /\ pc'[Broadcaster] \in {"lock", "locked"} => \A w \in Waiter : OnItsWay(w)'
         /\ pc'[Broadcaster] = "locked" => \A w \in Waiter : tcb'[w] = WaitingOn(Cv)
<1>1. BlockedInv'
  BY StatesDistinct, Zenon DEF PriorityInv, BlockedInv
<1>2. \A u \in Child : HasLockToken(u) => HasLockToken(u)'
  BY StatesDistinct, Zenon DEF HasLockToken, Holding
<1>3. Inside' = Inside
  BY Zenon DEF Inside
<1>4. TokenInv'
  BY <1>2, <1>3, StatesDistinct, Zenon DEF PriorityInv, TokenInv
<1>5. Broadcaster \in Child /\ \A w \in Waiter : w \in Child
  BY Zenon DEF Child
<1> QED
  BY <1>1, <1>4, <1>5, Zenon DEF PriorityInv, SleepInv, OnItsWay

\* Main begins a run without touching a child.
LEMMA BeginRunSleep ==
  ASSUME IInv, PriorityInv, BeginRun
  PROVE  PriorityInv'
<1>1. /\ \A u \in Child : pc'[u] = pc[u]
      /\ tcb' = tcb /\ active' = active
      /\ pc'[Main] = "start" => todo' = Waiter
  BY MainNoChild, Zenon DEF BeginRun, IInv, TypeOK
<1> QED
  BY <1>1, PlacesKept, Zenon DEF PriorityInv, SleepInv

\* Main receives a report (benchmark_wait_children).
LEMMA WaitChildSleep ==
  ASSUME IInv, PriorityInv, tcb[Main] = Running, WaitChild
  PROVE  PriorityInv'
<1>1. /\ pc' = pc /\ todo' = todo /\ active' = active /\ pc[Main] = "collect"
      /\ DOMAIN tcb = Thread /\ Child \subseteq Thread /\ Main \notin Child
  BY MainNoChild, Zenon DEF WaitChild, Recv, IInv, TypeOK
<1>2. \A u \in Child : \/ tcb'[u] = tcb[u]
                       \/ /\ tcb[u] \notin {WaitingOn(Lock), WaitingOn(Cv)}
                          /\ tcb'[u] = Running
  <2>1. CASE \E x \in Blocked(SendingTo(DoneEp)) : SetState(x, Running)
    BY <1>1, <2>1, StatesDistinct, Zenon DEF Blocked, SetState
  <2>2. CASE SetState(Main, RecvingOn(DoneEp))
    BY <1>1, <2>2, Zenon DEF SetState
  <2> QED
    BY <2>1, <2>2, Zenon DEF WaitChild, Recv
<1> QED
  BY <1>1, <1>2, PlacesKept, Zenon DEF PriorityInv, SleepInv

\* Main restarts or suspends a child that has reported.
LEMMA RestartKeeps ==
  ASSUME IInv, PriorityInv, NEW t \in Child, ~Pending(t), NEW to \in {"lock", "off"},
         pc'[t] = to, \A u \in Child : u # t => pc'[u] = pc[u] /\ tcb'[u] = tcb[u],
         active' = active, tcb'[t] = IF to = "lock" THEN Running ELSE Inactive
  PROVE  BlockedInv' /\ TokenInv'
<1>1. pc[t] \in {"block", "off"}
  BY Zenon DEF Pending
<1>2. BlockedInv'
  BY BlockedKept, StatesDistinct, Zenon DEF PriorityInv, Label
<1>3. ~HasLockToken(t) /\ t \notin Inside' /\ tcb'[t] # WaitingOn(Lock)
  BY <1>1, StatesDistinct, Zenon DEF HasLockToken, Holding, Inside
<1>4. TokenInv'
  BY <1>3, TokenElsewhere, Zenon DEF PriorityInv, Others
<1> QED
  BY <1>2, <1>4, Zenon

\* Main starts a waiter at its first instruction.
LEMMA StartWaiterSleep ==
  ASSUME IInv, PriorityInv, NEW w \in Waiter, StartWaiter(w)
  PROVE  PriorityInv'
<1>1. /\ w \in Child /\ w # Broadcaster /\ pc[Main] = "start" /\ w \in todo /\ todo' = todo \ {w}
      /\ active' = active /\ pc'[w] = "lock" /\ pc'[Main] = pc[Main] /\ tcb'[w] = Running
      /\ \A u \in Child : u # w => pc'[u] = pc[u] /\ tcb'[u] = tcb[u]
  BY ThreadAssumption, MainNoChild, Zenon DEF StartWaiter, SetState, IInv, TypeOK, Child
<1>2. ~Pending(w) /\ ~Pending(Broadcaster)
  BY <1>1, Zenon DEF IInv, BarrierInv
<1>3. BlockedInv' /\ TokenInv'
  BY <1>1, <1>2, RestartKeeps, Zenon
<1>4. pc'[Broadcaster] \in {"block", "off"}
  BY <1>1, <1>2, Zenon DEF Pending, Child
<1>5. \A u \in Waiter \ todo' : OnItsWay(u)'
  BY <1>1, Zenon DEF PriorityInv, SleepInv, OnItsWay, Child
<1> QED
  BY <1>3, <1>4, <1>5, Zenon DEF PriorityInv, SleepInv

\* Main starts the broadcaster after all waiters.
LEMMA StartBroadcasterSleep ==
  ASSUME IInv, PriorityInv, StartBroadcaster
  PROVE  PriorityInv'
<1>1. /\ Broadcaster \in Child /\ pc[Main] = "start" /\ todo = {}
      /\ active' = active /\ pc'[Broadcaster] = "lock" /\ pc'[Main] = "collect"
      /\ tcb'[Broadcaster] = Running
      /\ \A u \in Child : u # Broadcaster => pc'[u] = pc[u] /\ tcb'[u] = tcb[u]
  BY ThreadAssumption, MainNoChild, Zenon DEF StartBroadcaster, SetState, IInv, TypeOK, Child
<1>2. ~Pending(Broadcaster)
  BY <1>1, Zenon DEF IInv, BarrierInv
<1>3. BlockedInv' /\ TokenInv'
  BY <1>1, <1>2, RestartKeeps, Zenon
<1>4. \A w \in Waiter : OnItsWay(w)'
  BY <1>1, ThreadAssumption, Zenon DEF PriorityInv, SleepInv, OnItsWay, Child
<1> QED
  BY <1>1, <1>3, <1>4, Zenon DEF PriorityInv, SleepInv

\* Main suspends a child that has reported.
LEMMA SuspendChildSleep ==
  ASSUME IInv, PriorityInv, NEW t \in Child, SuspendChild(t)
  PROVE  PriorityInv'
<1>1. /\ pc[Main] = "suspend" /\ active' = active /\ pc'[t] = "off" /\ tcb'[t] = Inactive
      /\ pc'[Main] \in {"end", "suspend"}
      /\ \A u \in Child : u # t => pc'[u] = pc[u] /\ tcb'[u] = tcb[u]
  BY MainNoChild, Zenon DEF SuspendChild, SetState, IInv, TypeOK
<1>2. \A u \in Child : ~Pending(u)
  BY <1>1, Zenon DEF IInv, BarrierInv
<1>3. BlockedInv' /\ TokenInv'
  BY <1>1, <1>2, RestartKeeps, Zenon
<1>4. pc'[Broadcaster] \in {"block", "off"}
  BY <1>1, <1>2, Zenon DEF Pending, Child
<1> QED
  BY <1>1, <1>3, <1>4, Zenon DEF PriorityInv, SleepInv

\* No child has been started at boot.
LEMMA InitSleep == Init => PriorityInv
<1> SUFFICES ASSUME Init
             PROVE  PriorityInv
  OBVIOUS
<1>1. /\ pc[Main] = "collect" /\ ~active[Lock]
      /\ \A t \in Child : pc[t] = "off" /\ tcb[t] = Inactive
  BY MainNoChild, Zenon DEF Init
<1>2. Inside = {} /\ Broadcaster \in Child
  BY <1>1, Zenon DEF Inside, Child
<1> QED
  BY <1>1, <1>2, StatesDistinct, Zenon DEF PriorityInv, BlockedInv, TokenInv, SleepInv

\* Every step of main and the children keeps the invariant of the sleepers.
LEMMA NextSleep ==
  ASSUME IInv, IInv', PriorityInv, [Next]_vars
  PROVE  PriorityInv'
<1>1. ASSUME NEW t \in Child, ChildStep(t)
      PROVE  PriorityInv'
  <2>1. tcb[t] = Running /\ CanRun(t, prio)
    BY <1>1, Zenon DEF ChildStep, CanRun
  <2>2. CASE AcquireLock(t)
    BY <2>1, <2>2, SemWaitSleep, SemBlockSleep, Zenon DEF AcquireLock
  <2>3. CASE TestShared(t)
    BY <2>1, <2>3, TestSharedSleep, Zenon
  <2>4. CASE CvWait(t)
    BY <2>1, <2>4, SemPostSleep, SemSignalSleep, CvBlockSleep, SemWaitSleep, SemBlockSleep,
       CvLeaveSleep, Zenon DEF CvWait
  <2>5. CASE DoBroadcast(t)
    BY <2>1, <2>5, DoBroadcastSleep, Zenon
  <2>6. CASE ReleaseLock(t)
    BY <2>1, <2>6, SemPostSleep, SemSignalSleep, Zenon DEF ReleaseLock
  <2>7. CASE Report(t)
    BY <2>1, <2>7, ReportSleep, Zenon
  <2> QED
    BY <1>1, <2>2, <2>3, <2>4, <2>5, <2>6, <2>7, Zenon DEF ChildStep
<1>2. ASSUME MainStep
      PROVE  PriorityInv'
  <2>1. tcb[Main] = Running
    BY <1>2, Zenon DEF MainStep, CanRun
  <2> QED
    BY <1>2, <2>1, BeginRunSleep, StartWaiterSleep, StartBroadcasterSleep, WaitChildSleep,
       SuspendChildSleep, Zenon DEF MainStep
<1>3. ASSUME UNCHANGED vars
      PROVE  PriorityInv'
  <2>1. pc' = pc /\ tcb' = tcb /\ active' = active /\ todo' = todo
    BY <1>3, Zenon DEF vars
  <2> QED
    BY <2>1, PlacesKept, Zenon DEF PriorityInv, SleepInv, OnItsWay
<1> QED
  BY <1>1, <1>2, <1>3, Zenon DEF Next, Finished

(***************************************************************************)
(* When the broadcaster is inside the lock to broadcast, every waiter of   *)
(* the run sleeps on the condition variable and is counted by it: for any  *)
(* number of waiters and runs, from the priorities that main.c:104-106     *)
(* gives the threads.                                                      *)
(***************************************************************************)
THEOREM AllWaitersAsleep == Spec => []BroadcastFindsAllWaiting
<1>1. IInv /\ IInv' /\ PriorityInv /\ [Next]_vars => PriorityInv'
  BY NextSleep, Zenon
<1>2. IInv /\ PriorityInv => BroadcastFindsAllWaiting
  <2> SUFFICES ASSUME IInv, PriorityInv, pc[Broadcaster] = "locked"
               PROVE  /\ \A w \in Waiter : tcb[w] = WaitingOn(Cv)
                      /\ cv[Cv].waiters = N_WAITERS
    BY Zenon DEF BroadcastFindsAllWaiting
  <2>1. \A w \in Waiter : tcb[w] = WaitingOn(Cv)
    BY Zenon DEF PriorityInv, SleepInv
  <2>2. InCv = Waiter
    BY <2>1, ThreadAssumption, Zenon DEF InCv, Child, IInv, MainInv
  <2> QED
    BY <2>1, <2>2, Zenon DEF IInv, CountInv, N_WAITERS
<1> QED
  BY <1>1, <1>2, InitSleep, Invariance, PTL DEF Spec

=============================================================================
