-------------------------- MODULE SemaphoreProofs ---------------------------
(***************************************************************************)
(* Proofs about the semaphore, for every set of threads, every set of      *)
(* calls, every maximum and every size of its timer ring and reservoir.    *)
(***************************************************************************)
EXTENDS Semaphore, FiniteSetTheorems, TLAPS

\* What the proofs about wake-ups ask of the callers: that each call wakes
\* every thread that could be asleep. A producer and a consumer that wake one
\* thread, the only way src/src uses a semaphore, satisfy it.
WakeAll ==
  \A t \in Threads : \A c \in Calls[t] : c.wake >= Cardinality(Threads) - 1

\* What the refinement asks of them: that amount + v does not wrap a u32.
NoOverflow == \A t \in Threads : \A c \in Calls[t] : c.v <= WAITER

-----------------------------------------------------------------------------
(* Type correctness.                                                       *)

\* A call that fits leaves the amount between 0 and the maximum.
LEMMA AmountStaysInRange ==
  ASSUME NEW c \in CallType, NEW a \in 0 .. Max, Fits(c, a)
  PROVE  After(c, a) \in 0 .. Max
<1>1. WAITER \in Nat \ {0} /\ Max \in 0 .. (WAITER - 1)
  BY SemaphoreAssumption
<1>2. c.v \in Nat
  BY <1>1 DEF CallType
<1>3. CASE c.op = "produce"
  <2>1. Sum(a, c.v) <= Max
    BY <1>3 DEF Fits
  <2>2. Sum(a, c.v) \in Nat
    <3>1. a + c.v \in Nat /\ 2 * WAITER \in Nat \ {0}
      BY <1>1, <1>2
    <3> QED BY <3>1 DEF Sum
  <2> QED BY <1>1, <1>3, <2>1, <2>2 DEF After
<1>4. CASE c.op # "produce"
  BY <1>1, <1>2, <1>4 DEF After, Fits
<1> QED BY <1>3, <1>4

\* The timer of a cookie is one of the S timers.
LEMMA TimerInRange ==
  ASSUME NEW k \in Nat, S # 0
  PROVE  k % S \in 0 .. (S - 1)
BY SemaphoreAssumption

LEMMA InitTypeOK == Init => TypeOK
BY SemaphoreAssumption
DEF Init, TypeOK, IdleCall, CallType, PcType, Blocked, WakeDue, Stamps

\* TypeOK and the part of Decided that Commit needs of it.
CommitFits ==
  \A t \in Threads : pc[t] = "commit" => Fits(call[t], cur[t].amount)

LEMMA NextTypeOK ==
  ASSUME TypeOK, CommitFits, [Next]_vars
  PROVE  TypeOK' /\ CommitFits'
<1>0. CASE UNCHANGED vars
  BY <1>0 DEF TypeOK, CommitFits, vars
<1> USE DEF TypeOK, CommitFits, PcType, Blocked, WakeDue, Jump, timerVars
<1>1. CASE \E t \in Threads : Invoke(t)
  <2> PICK t \in Threads : Invoke(t)
    BY <1>1
  <2> PICK c \in Calls[t] : call' = [call EXCEPT ![t] = c]
    BY DEF Invoke
  <2>1. c \in CallType
    BY SemaphoreAssumption
  <2> HIDE DEF PcType
  <2>2. TypeOK'
    BY <2>1 DEF Invoke, PcType
  <2>3. CommitFits'
    BY DEF Invoke
  <2> QED BY <2>2, <2>3
<1>2. CASE \E t \in Threads : Load(t)
  BY <1>2 DEF Load
<1>3. CASE \E t \in Threads : Commit(t)
  <2> PICK t \in Threads : Commit(t)
    BY <1>3
  <2>1. After(call[t], cur[t].amount) \in 0 .. Max
    BY AmountStaysInRange DEF Commit
  <2> QED BY <2>1 DEF Commit
<1>4. CASE \E t \in Threads : MarkWaiter(t)
  <2> PICK t \in Threads : MarkWaiter(t)
    BY <1>4
  <2>1. count' \in [amount : 0 .. Max, waiter : BOOLEAN]
    BY DEF MarkWaiter
  <2>2. cur' \in [Threads -> [amount : 0 .. Max, waiter : BOOLEAN]]
    BY DEF MarkWaiter
  <2>3. \A u \in Threads : cur'[u].amount = cur[u].amount
    BY DEF MarkWaiter
  <2> QED BY <2>1, <2>2, <2>3 DEF MarkWaiter
<1>5. CASE \E t \in Threads : CasFail(t)
  BY <1>5 DEF CasFail
<1>6. CASE \E t \in Threads : Cookie(t)
  BY <1>6 DEF Cookie
<1>7. CASE \E t \in Threads : FutexWait(t)
  BY <1>7 DEF FutexWait
<1>8. CASE \E t \in Threads : Timeout(t)
  BY <1>8 DEF Timeout
<1>9. CASE \E t \in Threads : Interrupt(t)
  BY <1>9 DEF Interrupt
<1>10. CASE \E t \in Threads : ResetIndex(t)
  BY <1>10 DEF ResetIndex
<1>11. CASE \E t \in Threads : StampTimer(t)
  <2> PICK t \in Threads : StampTimer(t)
    BY <1>11
  <2>1. timers' \in [0 .. (S - 1) -> Stamps]
    <3> DEFINE i == orig[t] % S
    <3>1. timers' = [timers EXCEPT ![i] = orig[t]] /\ orig[t] \in Stamps
      BY DEF StampTimer, Stamps
    <3> HIDE DEF i
    <3> QED BY <3>1
  <2> QED BY <2>1 DEF StampTimer
<1>12. CASE \E t \in Threads : FutexWake(t)
  BY <1>12 DEF FutexWake
<1>13. CASE \E t \in Threads : ReadTimer(t)
  <2> PICK t \in Threads : ReadTimer(t)
    BY <1>13
  <2>1. CASE S = 0
    BY <2>1 DEF ReadTimer
  <2>2. CASE S # 0
    <3> DEFINE stamp == timers[cookie[t] % S]
    <3>1. seen' = [seen EXCEPT ![t] = stamp] /\ Jump(t, "check")
      BY <2>2 DEF ReadTimer
    <3>2. stamp \in Stamps
      BY <2>2, TimerInRange
    <3> HIDE DEF stamp
    <3> QED BY <3>1, <3>2 DEF ReadTimer
  <2> QED BY <2>1, <2>2
<1>14. CASE \E t \in Threads : CheckCookie(t)
  BY <1>14 DEF CheckCookie
<1>15. CASE \E t \in Threads : TakeSample(t)
  BY <1>15 DEF TakeSample
<1> QED
  BY <1>0, <1>1, <1>2, <1>3, <1>4, <1>5, <1>6, <1>7, <1>8, <1>9, <1>10,
     <1>11, <1>12, <1>13, <1>14, <1>15 DEF Next, Step

\* The count stays between 0 and the maximum, whatever the threads do, and the
\* rest of the state keeps its types.
THEOREM TypeCorrect == Spec => []TypeOK
<1>1. Init => TypeOK /\ CommitFits
  BY InitTypeOK DEF Init, CommitFits
<1>2. TypeOK /\ CommitFits /\ [Next]_vars => TypeOK' /\ CommitFits'
  BY NextTypeOK
<1> QED BY <1>1, <1>2, PTL DEF Spec

-----------------------------------------------------------------------------
(* No wake-up is lost.                                                     *)

LEMMA NextDecided ==
  ASSUME TypeOK, Decided, [Next]_vars
  PROVE  Decided'
<1>0. CASE UNCHANGED vars
  BY <1>0 DEF Decided, vars
<1> USE DEF Decided, TypeOK, Jump, timerVars
<1>1. CASE \E t \in Threads : Invoke(t)
  BY <1>1 DEF Invoke
<1>2. CASE \E t \in Threads : Load(t)
  <2> PICK t \in Threads : Load(t)
    BY <1>2
  <2>1. \A u \in Threads \ {t} : pc'[u] = pc[u] /\ cur'[u] = cur[u]
    BY DEF Load
  <2>2. cur'[t] = count /\ call' = call /\ pc[t] = "load"
    BY DEF Load
  <2>3. pc'[t] = IF Fits(call[t], count.amount) THEN "commit"
                 ELSE IF count.waiter THEN "cookie" ELSE "mark"
    BY DEF Load
  <2> QED BY <2>1, <2>2, <2>3
<1>3. CASE \E t \in Threads : Commit(t)
  BY <1>3 DEF Commit
<1>4. CASE \E t \in Threads : MarkWaiter(t)
  <2> PICK t \in Threads : MarkWaiter(t)
    BY <1>4
  <2>1. \A u \in Threads \ {t} : pc'[u] = pc[u] /\ cur'[u] = cur[u]
    BY DEF MarkWaiter
  <2>2. /\ cur'[t].amount = cur[t].amount /\ cur'[t].waiter
        /\ call' = call /\ pc[t] = "mark" /\ pc'[t] = "cookie"
    BY DEF MarkWaiter
  <2> QED BY <2>1, <2>2
<1>5. CASE \E t \in Threads : CasFail(t)
  BY <1>5 DEF CasFail
<1>6. CASE \E t \in Threads : Cookie(t)
  BY <1>6 DEF Cookie
<1>7. CASE \E t \in Threads : FutexWait(t)
  BY <1>7 DEF FutexWait
<1>8. CASE \E t \in Threads : Timeout(t) \/ Interrupt(t)
  BY <1>8 DEF Timeout, Interrupt
<1>9. CASE \E t \in Threads : ResetIndex(t) \/ StampTimer(t)
  BY <1>9 DEF ResetIndex, StampTimer
<1>10. CASE \E t \in Threads : FutexWake(t)
  <2> PICK t \in Threads : FutexWake(t)
    BY <1>10
  <2>1. \A u \in Threads : pc'[u] \in {"idle", "woken", pc[u]}
    BY DEF FutexWake
  <2>2. \A u \in Threads : pc'[u] = "woken" => pc[u] # "idle"
    BY DEF FutexWake, Asleep
  <2>3. call' = call /\ cur' = cur
    BY DEF FutexWake
  <2> QED BY <2>1, <2>2, <2>3
<1>11. CASE \E t \in Threads : ReadTimer(t) \/ CheckCookie(t) \/ TakeSample(t)
  BY <1>11 DEF ReadTimer, CheckCookie, TakeSample
<1> QED
  BY <1>0, <1>1, <1>2, <1>3, <1>4, <1>5, <1>6, <1>7, <1>8, <1>9, <1>10, <1>11
  DEF Next, Step

\* FUTEX_WAKE leaves nobody asleep when it may wake all the other threads.
LEMMA WakeReachesAll ==
  ASSUME WakeAll, TypeOK, Decided, NEW t \in Threads, FutexWake(t)
  PROVE  Asleep' = {}
<1>1. PICK W \in SUBSET Asleep :
        /\ \/ Cardinality(W) = call[t].wake
           \/ W = Asleep /\ Cardinality(W) <= call[t].wake
        /\ pc' = [u \in Threads |->
                    IF u = t THEN "idle" ELSE IF u \in W THEN "woken" ELSE pc[u]]
  BY DEF FutexWake
<1>2. W = Asleep
  <2>1. IsFiniteSet(Threads) /\ Cardinality(Threads) \in Nat
    BY SemaphoreAssumption, FS_CardinalityType
  <2>2. /\ IsFiniteSet(Threads \ {t})
        /\ Cardinality(Threads \ {t}) = Cardinality(Threads) - 1
    BY <2>1, FS_RemoveElement
  <2>3. Asleep \subseteq Threads \ {t}
    BY DEF Asleep, FutexWake
  <2>4. /\ IsFiniteSet(Asleep)
        /\ Cardinality(Asleep) <= Cardinality(Threads) - 1
    BY <2>2, <2>3, FS_Subset
  <2>5. /\ Cardinality(W) <= Cardinality(Asleep)
        /\ Cardinality(Asleep) = Cardinality(W) => Asleep = W
    BY <2>4, FS_Subset
  <2>6. IsFiniteSet(W) /\ Cardinality(W) \in Nat /\ Cardinality(Asleep) \in Nat
    BY <2>4, FS_Subset, FS_CardinalityType
  <2>7. call[t] \in Calls[t]
    BY DEF Decided, FutexWake
  <2>8. call[t].wake >= Cardinality(Threads) - 1 /\ call[t].wake \in Nat
    BY <2>7 DEF WakeAll, TypeOK, CallType
  <2> QED BY <1>1, <2>1, <2>4, <2>5, <2>6, <2>8
<1> QED BY <1>1, <1>2 DEF Asleep

LEMMA NextChangeOwed ==
  ASSUME WakeAll, TypeOK, Decided, ChangeOwed, [Next]_vars
  PROVE  ChangeOwed'
<1>0. CASE UNCHANGED vars
  BY <1>0 DEF ChangeOwed, Asleep, vars
<1> USE DEF ChangeOwed, Asleep, WakeDue, TypeOK, Jump, timerVars
<1>1. CASE \E t \in Threads : Invoke(t)
  BY <1>1 DEF Invoke
<1>2. CASE \E t \in Threads : Load(t)
  BY <1>2 DEF Load
\* A sleeper has seen the waiter bit set. If Commit finds it set it owes the
\* wake-up itself; if not, the word had already changed.
<1>3. CASE \E t \in Threads : Commit(t)
  <2> PICK t \in Threads : Commit(t)
    BY <1>3
  <2>1. CASE count.waiter
    <3>1. pc'[t] \in WakeDue
      BY <2>1 DEF Commit
    <3> QED BY <3>1
  <2>2. CASE ~count.waiter
    <3>1. \A u \in Asleep : count # cur[u]
      BY <2>2 DEF Decided
    <3>2. Asleep' = Asleep /\ \A u \in Threads : pc[u] \in WakeDue => pc'[u] \in WakeDue
      BY DEF Commit
    <3> QED BY <3>1, <3>2
  <2> QED BY <2>1, <2>2
<1>4. CASE \E t \in Threads : MarkWaiter(t)
  <2> PICK t \in Threads : MarkWaiter(t)
    BY <1>4
  <2>1. \A u \in Asleep : count # cur[u]
    BY DEF Decided, MarkWaiter
  <2>2. Asleep' = Asleep /\ \A u \in Threads : pc[u] \in WakeDue => pc'[u] \in WakeDue
    BY DEF MarkWaiter
  <2> QED BY <2>1, <2>2
<1>5. CASE \E t \in Threads : CasFail(t)
  BY <1>5 DEF CasFail
<1>6. CASE \E t \in Threads : Cookie(t)
  BY <1>6 DEF Cookie
<1>7. CASE \E t \in Threads : FutexWait(t)
  BY <1>7 DEF FutexWait
<1>8. CASE \E t \in Threads : Timeout(t) \/ Interrupt(t)
  BY <1>8 DEF Timeout, Interrupt
<1>9. CASE \E t \in Threads : ResetIndex(t) \/ StampTimer(t)
  BY <1>9 DEF ResetIndex, StampTimer
<1>10. CASE \E t \in Threads : FutexWake(t)
  BY <1>10, WakeReachesAll
<1>11. CASE \E t \in Threads : ReadTimer(t) \/ CheckCookie(t) \/ TakeSample(t)
  BY <1>11 DEF ReadTimer, CheckCookie, TakeSample
<1> QED
  BY <1>0, <1>1, <1>2, <1>3, <1>4, <1>5, <1>6, <1>7, <1>8, <1>9, <1>10, <1>11
  DEF Next, Step

\* The inductive invariant, for callers whose calls wake every sleeper.
THEOREM Inductive == WakeAll => (Spec => []IInv)
<1> SUFFICES ASSUME WakeAll PROVE Spec => []IInv
  OBVIOUS
<1>1. Init => IInv
  BY InitTypeOK DEF Init, IInv, Decided, ChangeOwed, Asleep
<1>2. IInv /\ [Next]_vars => IInv'
  BY NextTypeOK, NextDecided, NextChangeOwed DEF IInv, CommitFits, Decided
<1> QED BY <1>1, <1>2, PTL DEF Spec

LEMMA IInvNoLostWakeup == IInv => NoLostWakeup
BY DEF IInv, Decided, ChangeOwed, NoLostWakeup, Asleep

\* If each call wakes every thread that could be asleep, no thread sleeps
\* on a sufficient count unless a wake-up is on its way.
THEOREM NoWakeupIsLost == WakeAll => (Spec => []NoLostWakeup)
BY Inductive, IInvNoLostWakeup, PTL

\* Then a call without a timeout blocks only while the count is insufficient:
\* what the comment on consume() promises.
THEOREM BlockingIsJustified == WakeAll => (Spec => []BlocksOnlyWhileShort)
<1>1. NoLostWakeup => BlocksOnlyWhileShort
  BY DEF NoLostWakeup, BlocksOnlyWhileShort, Asleep, WakeDue
<1> QED BY <1>1, NoWakeupIsLost, PTL

-----------------------------------------------------------------------------
(* The semaphore implements CountingSemaphore.                             *)

\* The calls CountingSemaphore sees pending: the mapped value of its pend.
Pending == [t \in Threads |-> IF pc[t] \in Blocked THEN {call[t]} ELSE {}]

\* Without a wrap, the code's test and update are those of the natural numbers.
LEMMA NoWrap ==
  ASSUME NEW a \in 0 .. Max, NEW v \in Nat, v <= WAITER
  PROVE  Sum(a, v) = a + v
<1>1. WAITER \in Nat \ {0} /\ a + v \in Nat /\ a + v < 2 * WAITER
  BY SemaphoreAssumption
<1> DEFINE m == 2 * WAITER
<1>2. m \in Nat /\ a + v < m
  BY <1>1
<1> HIDE DEF m
<1>3. \A n \in Nat : n < m => n % m = n
  BY <1>2
<1>4. (a + v) % m = a + v
  BY <1>1, <1>2, <1>3
<1> QED BY <1>4 DEF Sum, m

\* Where v does not wrap, the code's test is the one of the natural numbers.
LEMMA FitsAsSpecified ==
  ASSUME NoOverflow, TypeOK, Decided, NEW t \in Threads, pc[t] # "idle"
  PROVE  /\ call[t].op = "produce" => Sum(count.amount, call[t].v) = count.amount + call[t].v
         /\ Fits(call[t], count.amount) <=> CS!Fits(call[t])
<1>1. /\ count.amount \in 0 .. Max
      /\ call[t].v \in Nat /\ call[t].v <= WAITER
  BY SemaphoreAssumption DEF TypeOK, Decided, NoOverflow, CallType
<1>2. Sum(count.amount, call[t].v) = count.amount + call[t].v
  BY <1>1, NoWrap
<1> QED BY <1>2 DEF Fits, CS!Fits

\* A thread that steps from one point before the compare-exchange to another,
\* or from one point after it to another, changes no pending call.
LEMMA SamePending ==
  ASSUME \A t \in Threads : pc'[t] \in Blocked <=> pc[t] \in Blocked,
         call' = call
  PROVE  Pending' = Pending
BY DEF Pending

\* If it was not asleep and does not fall asleep, nothing a caller can see.
LEMMA Stutters ==
  ASSUME count'.amount = count.amount, Asleep' = Asleep, call' = call,
         \A t \in Threads : pc'[t] \in Blocked <=> pc[t] \in Blocked
  PROVE  UNCHANGED CS!vars
BY SamePending DEF CS!vars, Pending

LEMMA StepRefines ==
  ASSUME NoOverflow, TypeOK, Decided, [Next]_vars
  PROVE  [CS!Next]_(CS!vars)
<1>1. CASE UNCHANGED vars
  BY <1>1, Stutters DEF vars, Asleep
<1> USE DEF Jump
<1>2. CASE \E t \in Threads : Invoke(t)
  <2> PICK t \in Threads : Invoke(t)
    BY <1>2
  <2> PICK c \in Calls[t] : call' = [call EXCEPT ![t] = c]
    BY DEF Invoke
  <2>1. Pending[t] = {}
    BY DEF Invoke, Pending, Blocked
  <2>2. Pending' = [Pending EXCEPT ![t] = {c}]
    BY DEF Invoke, Pending, Blocked, TypeOK
  <2>3. count' = count /\ Asleep' = Asleep
    BY DEF Invoke, Asleep, TypeOK
  <2>4. CS!Invoke(t)
    BY <2>1, <2>2, <2>3 DEF CS!Invoke, Pending
  <2> QED BY <2>4 DEF CS!Next
<1>3. CASE \E t \in Threads : Commit(t)
  <2> PICK t \in Threads : Commit(t)
    BY <1>3
  <2>1. /\ pc[t] = "commit" /\ cur[t] = count
        /\ count'.amount = After(call[t], count.amount)
    BY DEF Commit
  <2>2. Fits(call[t], count.amount)
    BY <2>1 DEF Decided
  <2>3. CS!Fits(call[t])
    BY <2>1, <2>2, FitsAsSpecified
  <2>4. count'.amount = IF call[t].op = "produce" THEN count.amount + call[t].v
                                                  ELSE count.amount - call[t].v
    BY <2>1, FitsAsSpecified DEF After
  <2>5. call[t] \in Pending[t] /\ Pending' = [Pending EXCEPT ![t] = {}]
    BY DEF Commit, Pending, Blocked, TypeOK
  <2>6. Asleep' = Asleep \ {t}
    BY DEF Commit, Asleep, TypeOK
  <2>7. CS!Take(t)
    BY <2>3, <2>4, <2>5, <2>6 DEF CS!Take, Pending
  <2> QED BY <2>7 DEF CS!Next
<1>4. CASE \E t \in Threads : Timeout(t)
  <2> PICK t \in Threads : Timeout(t)
    BY <1>4
  <2>1. call[t] \in Pending[t] /\ Pending' = [Pending EXCEPT ![t] = {}]
    BY DEF Timeout, Pending, Blocked, TypeOK
  <2>2. /\ t \in Asleep /\ Asleep' = Asleep \ {t}
        /\ call[t].timeout /\ count' = count
    BY DEF Timeout, Asleep, TypeOK
  <2>3. CS!GiveUp(t)
    BY <2>1, <2>2 DEF CS!GiveUp, Pending
  <2> QED BY <2>3 DEF CS!Next
\* FUTEX_WAIT compares the word again: a thread that sleeps does not fit.
<1>5. CASE \E t \in Threads : FutexWait(t)
  <2> PICK t \in Threads : FutexWait(t)
    BY <1>5
  <2>1. Pending' = Pending /\ count' = count /\ call' = call
    BY SamePending DEF FutexWait, Blocked, TypeOK
  <2>2. CASE count = cur[t]
    <3>1. ~CS!Fits(call[t])
      <4>1. pc[t] = "wait" /\ ~Fits(call[t], count.amount)
        BY <2>2 DEF FutexWait, Decided
      <4> QED BY <4>1, FitsAsSpecified
    <3>2. call[t] \in Pending[t]
      BY DEF FutexWait, Pending, Blocked
    <3>3. Asleep' = Asleep \cup {t}
      BY <2>2 DEF FutexWait, Asleep, TypeOK
    <3>4. CS!Sleep(t)
      BY <2>1, <3>1, <3>2, <3>3 DEF CS!Sleep, Pending
    <3> QED BY <3>4 DEF CS!Next
  <2>3. CASE count # cur[t]
    <3>1. Asleep' = Asleep
      BY <2>3 DEF FutexWait, Asleep, TypeOK
    <3> QED BY <2>1, <3>1 DEF CS!vars, Pending
  <2> QED BY <2>2, <2>3
<1>6. CASE \E t \in Threads : Interrupt(t) \/ FutexWake(t)
  <2> PICK t \in Threads : Interrupt(t) \/ FutexWake(t)
    BY <1>6
  <2>1. Pending' = Pending /\ count' = count
    <3>1. call' = call /\ count' = count
      BY DEF Interrupt, FutexWake
    <3>2. \A u \in Threads : pc'[u] \in Blocked <=> pc[u] \in Blocked
      <4>1. CASE Interrupt(t)
        BY <4>1 DEF Interrupt, Blocked, TypeOK
      <4>2. CASE FutexWake(t)
        BY <4>2 DEF FutexWake, Blocked, Asleep
      <4> QED BY <4>1, <4>2
    <3> QED BY <3>1, <3>2, SamePending
  <2>2. Asleep' \subseteq Asleep
    <3>1. CASE Interrupt(t)
      BY <3>1 DEF Interrupt, Asleep, TypeOK
    <3>2. CASE FutexWake(t)
      BY <3>2 DEF FutexWake, Asleep
    <3> QED BY <3>1, <3>2
  <2>3. Asleep' = Asleep \ (Asleep \ Asleep') /\ Asleep \ Asleep' \in SUBSET Threads
    BY <2>2 DEF Asleep
  <2>4. CS!Wake(Asleep \ Asleep')
    BY <2>1, <2>3 DEF CS!Wake, Pending
  <2> QED BY <2>3, <2>4 DEF CS!Next
<1>7. CASE \E t \in Threads : Load(t) \/ MarkWaiter(t) \/ CasFail(t) \/ Cookie(t)
  <2> PICK t \in Threads : Load(t) \/ MarkWaiter(t) \/ CasFail(t) \/ Cookie(t)
    BY <1>7
  <2>1. count'.amount = count.amount /\ call' = call
    BY DEF Load, MarkWaiter, CasFail, Cookie, TypeOK
  <2>2. /\ {pc[t], pc'[t]} \subseteq Blocked \ {"asleep"}
        /\ \A u \in Threads : u # t => pc'[u] = pc[u]
    BY DEF Load, MarkWaiter, CasFail, Cookie, Blocked, TypeOK
  <2>3. \A u \in Threads : pc'[u] \in Blocked <=> pc[u] \in Blocked
    BY <2>2
  <2>4. Asleep' = Asleep
    BY <2>2 DEF Asleep
  <2> QED BY <2>1, <2>3, <2>4, Stutters
<1>8. CASE \E t \in Threads : ResetIndex(t) \/ StampTimer(t)
  <2> PICK t \in Threads : ResetIndex(t) \/ StampTimer(t)
    BY <1>8
  <2>1. count' = count /\ call' = call
    BY DEF ResetIndex, StampTimer
  <2>2. /\ {pc[t], pc'[t]} \cap Blocked = {}
        /\ \A u \in Threads : u # t => pc'[u] = pc[u]
    BY DEF ResetIndex, StampTimer, Blocked, TypeOK
  <2>3. \A u \in Threads : pc'[u] \in Blocked <=> pc[u] \in Blocked
    BY <2>2
  <2>4. Asleep' = Asleep
    BY <2>2 DEF Asleep, Blocked
  <2> QED BY <2>1, <2>3, <2>4, Stutters
<1>9. CASE \E t \in Threads : ReadTimer(t) \/ CheckCookie(t) \/ TakeSample(t)
  <2> PICK t \in Threads : ReadTimer(t) \/ CheckCookie(t) \/ TakeSample(t)
    BY <1>9
  <2>1. count' = count /\ call' = call
    BY DEF ReadTimer, CheckCookie, TakeSample, timerVars
  <2>2. /\ {pc[t], pc'[t]} \subseteq Blocked \ {"asleep"}
        /\ \A u \in Threads : u # t => pc'[u] = pc[u]
    BY DEF ReadTimer, CheckCookie, TakeSample, Blocked, TypeOK
  <2>3. \A u \in Threads : pc'[u] \in Blocked <=> pc[u] \in Blocked
    BY <2>2
  <2>4. Asleep' = Asleep
    BY <2>2 DEF Asleep
  <2> QED BY <2>1, <2>3, <2>4, Stutters
<1> QED
  BY <1>1, <1>2, <1>3, <1>4, <1>5, <1>6, <1>7, <1>8, <1>9 DEF Next, Step

LEMMA InitRefines == Init => CS!Init
BY DEF Init, CS!Init, Blocked, Asleep

\* Every call takes effect at one instant, at most once and only when it fits,
\* or gives up at its timeout without effect, whatever the threads' wake counts.
THEOREM Linearizes == NoOverflow => (Spec => Linearizable)
<1> SUFFICES ASSUME NoOverflow PROVE Spec => CS!Spec
  BY DEF Linearizable
<1>1. Init => TypeOK /\ Decided
  BY InitTypeOK DEF Init, Decided
<1>2. TypeOK /\ Decided /\ [Next]_vars => TypeOK' /\ Decided'
  BY NextTypeOK, NextDecided DEF CommitFits, Decided
<1>3. TypeOK /\ Decided /\ [Next]_vars => [CS!Next]_(CS!vars)
  BY StepRefines
<1> QED BY <1>1, <1>2, <1>3, InitRefines, PTL DEF Spec, CS!Spec

-----------------------------------------------------------------------------
(* No sample is taken from a timer that a later lap has stamped over.      *)

LEMMA DivMod ==
  ASSUME NEW a \in Nat, NEW n \in Nat \ {0}
  PROVE  a = n * (a \div n) + (a % n) /\ a \div n \in Nat
OBVIOUS

LEMMA AtLeastOne ==
  ASSUME NEW d \in Nat \ {0}, NEW n \in Nat
  PROVE  n * d >= n
OBVIOUS

\* Of two numbers that share a timer, the one less than a lap ahead is not ahead.
LEMMA SameTimer ==
  ASSUME NEW n \in Nat \ {0}, NEW a \in Nat, NEW b \in Nat,
         a % n = b % n, a < b + n
  PROVE  a <= b
<1> DEFINE p == a \div n
           q == b \div n
<1>1. p \in Nat /\ q \in Nat /\ a = n * p + (a % n) /\ b = n * q + (b % n)
  BY DivMod
<1>2. a % n \in Int
  OBVIOUS
<1> SUFFICES ASSUME a > b PROVE FALSE
  OBVIOUS
<1> HIDE DEF p, q
<1>3. n * p > n * q
  BY <1>1, <1>2
<1>4. p > q
  <2> SUFFICES ASSUME p <= q PROVE FALSE
    BY <1>1
  <2>1. PICK k \in Nat : q = p + k
    BY <1>1
  <2>2. n * q = n * p + n * k
    BY <2>1, <1>1
  <2> QED BY <1>3, <2>2, <1>1
<1>5. PICK d \in Nat \ {0} : p = q + d
  BY <1>1, <1>4
<1>6. n * p = n * q + n * d
  BY <1>1, <1>5
<1>7. n * d >= n
  BY AtLeastOne
<1> QED BY <1>1, <1>2, <1>6, <1>7

LEMMA NextTimersOrdered ==
  ASSUME TypeOK, TimersOrdered, [Next]_vars
  PROVE  TimersOrdered'
<1>0. CASE UNCHANGED vars
  BY <1>0 DEF TimersOrdered, NoOverwrittenSample, vars
<1> USE DEF TimersOrdered, NoOverwrittenSample, TypeOK, Jump, timerVars
<1>1. CASE \E t \in Threads : Invoke(t) \/ Load(t) \/ MarkWaiter(t) \/ CasFail(t)
                               \/ FutexWait(t) \/ Timeout(t) \/ Interrupt(t)
  <2> PICK t \in Threads : Invoke(t) \/ Load(t) \/ MarkWaiter(t) \/ CasFail(t)
                           \/ FutexWait(t) \/ Timeout(t) \/ Interrupt(t)
    BY <1>1
  <2>1. UNCHANGED timerVars
    BY DEF Invoke, Load, MarkWaiter, CasFail, FutexWait, Timeout, Interrupt
  <2>2. \A u \in Threads : pc'[u] = pc[u]
          \/ pc'[u] \in {"load", "commit", "cookie", "mark", "asleep", "idle"}
    BY DEF Invoke, Load, MarkWaiter, CasFail, FutexWait, Timeout, Interrupt
  <2> QED BY <2>1, <2>2
<1>2. CASE \E t \in Threads : Commit(t)
  BY <1>2 DEF Commit
<1>3. CASE \E t \in Threads : Cookie(t)
  BY <1>3 DEF Cookie
<1>4. CASE \E t \in Threads : ResetIndex(t)
  <2> PICK t \in Threads : ResetIndex(t)
    BY <1>4
  <2>1. index' = index + 1 /\ UNCHANGED <<timers, cookie, seen, reservoir>>
    BY DEF ResetIndex
  <2>2. /\ pc[t] = "reset" /\ pc'[t] = "stamp" /\ orig'[t] = index
        /\ \A u \in Threads \ {t} : pc'[u] = pc[u] /\ orig'[u] = orig[u]
    BY DEF ResetIndex
  <2>3. \A i \in 0 .. (S - 1) :
          timers'[i] # -1 => timers'[i] < index' /\ timers'[i] % S = i
    <3> SUFFICES ASSUME NEW i \in 0 .. (S - 1), timers[i] # -1
                 PROVE  timers[i] < index + 1 /\ timers[i] % S = i
      BY <2>1
    <3>1. timers[i] \in Nat /\ timers[i] < index /\ timers[i] % S = i
      BY DEF Stamps
    <3> QED BY <3>1
  <2>4. \A u \in Threads :
          /\ pc'[u] \in {"reset", "stamp", "check", "sample"} => S # 0
          /\ pc'[u] = "stamp" => orig'[u] < index'
    BY <2>1, <2>2
  <2>5. \A u \in Threads : pc'[u] = "check" =>
          seen'[u] = -1 \/ (seen'[u] < index' /\ seen'[u] % S = cookie'[u] % S)
    BY <2>1, <2>2 DEF Stamps
  <2>6. \A u \in Threads : pc'[u] = "sample" => seen'[u] <= cookie'[u]
    BY <2>1, <2>2
  <2> QED BY <2>1, <2>3, <2>4, <2>5, <2>6
<1>5. CASE \E t \in Threads : StampTimer(t)
  <2> PICK t \in Threads : StampTimer(t)
    BY <1>5
  <2> DEFINE i == orig[t] % S
  <2>1. timers' = [timers EXCEPT ![i] = orig[t]] /\ orig[t] < index /\ S # 0
    BY DEF StampTimer
  <2>2. \A j \in 0 .. (S - 1) : timers'[j] = timers[j] \/ (timers'[j] = orig[t] /\ j = i)
    BY <2>1
  <2>3. \A j \in 0 .. (S - 1) : timers'[j] # -1 => timers'[j] < index /\ timers'[j] % S = j
    BY <2>1, <2>2
  <2>4. \A u \in Threads : pc'[u] = pc[u] \/ pc'[u] = "wake"
    BY DEF StampTimer
  <2>5. UNCHANGED <<index, cookie, orig, seen, reservoir>>
    BY DEF StampTimer
  <2> QED BY <2>3, <2>4, <2>5
<1>6. CASE \E t \in Threads : FutexWake(t)
  <2> PICK t \in Threads : FutexWake(t)
    BY <1>6
  <2>1. \A u \in Threads : pc'[u] \in {"idle", "woken", pc[u]}
    BY DEF FutexWake
  <2>2. UNCHANGED timerVars
    BY DEF FutexWake
  <2> QED BY <2>1, <2>2
<1>7. CASE \E t \in Threads : ReadTimer(t)
  <2> PICK t \in Threads : ReadTimer(t)
    BY <1>7
  <2>1. \A u \in Threads \ {t} : pc'[u] = pc[u] /\ seen'[u] = seen[u]
    BY DEF ReadTimer
  <2>2. UNCHANGED <<index, timers, cookie, orig, reservoir>>
    BY DEF ReadTimer
  <2>3. CASE S = 0
    BY <2>1, <2>2, <2>3 DEF ReadTimer
  <2>4. CASE S # 0
    <3> DEFINE i == cookie[t] % S
    <3>1. i \in 0 .. (S - 1)
      BY <2>4, TimerInRange
    <3>2. seen'[t] = timers[i] /\ pc'[t] = "check"
      BY <2>4 DEF ReadTimer
    <3>3. seen'[t] = -1 \/ (seen'[t] < index /\ seen'[t] % S = cookie[t] % S)
      BY <3>1, <3>2
    <3> QED BY <2>1, <2>2, <2>4, <3>2, <3>3
  <2> QED BY <2>3, <2>4
<1>8. CASE \E t \in Threads : CheckCookie(t)
  <2> PICK t \in Threads : CheckCookie(t)
    BY <1>8
  <2>1. UNCHANGED timerVars
    BY DEF CheckCookie
  <2>2. \A u \in Threads : pc'[u] = pc[u] \/ pc'[u] = "load" \/ u = t
    BY DEF CheckCookie
  <2>3. /\ pc[t] = "check" /\ S # 0 /\ pc'[t] \in {"load", "sample"}
        /\ pc'[t] = "sample" => index < cookie[t] + S
    BY SemaphoreAssumption DEF CheckCookie
  <2>4. pc'[t] = "sample" => seen[t] <= cookie[t]
    <3> SUFFICES ASSUME pc'[t] = "sample", seen[t] # -1
                 PROVE  seen[t] <= cookie[t]
      OBVIOUS
    <3>1. seen[t] < index /\ seen[t] % S = cookie[t] % S
      BY <2>3
    <3>2. seen[t] \in Nat /\ cookie[t] \in Nat /\ S \in Nat \ {0} /\ index \in Nat
      BY <2>3, SemaphoreAssumption DEF Stamps
    <3>3. seen[t] < cookie[t] + S
      BY <2>3, <3>1, <3>2
    <3> QED BY <3>1, <3>2, <3>3, SameTimer
  <2> QED BY <2>1, <2>2, <2>3, <2>4
<1>9. CASE \E t \in Threads : TakeSample(t)
  <2> PICK t \in Threads : TakeSample(t)
    BY <1>9
  <2>1. \A r \in reservoir' : r.stamp <= r.cookie
    BY DEF TakeSample
  <2>2. \A u \in Threads : pc'[u] = pc[u] \/ pc'[u] = "load"
    BY DEF TakeSample
  <2>3. UNCHANGED <<index, timers, cookie, orig, seen>>
    BY DEF TakeSample
  <2> QED BY <2>1, <2>2, <2>3
<1> QED
  BY <1>0, <1>1, <1>2, <1>3, <1>4, <1>5, <1>6, <1>7, <1>8, <1>9 DEF Next, Step

\* elapsed()'s test of the cookie's age covers the timer value it has read, for
\* any number of timers, waiters and concurrent resets.
THEOREM SamplesNotOverwritten == Spec => []NoOverwrittenSample
<1>1. Init => TypeOK /\ CommitFits /\ TimersOrdered
  BY InitTypeOK DEF Init, CommitFits, TimersOrdered, NoOverwrittenSample
<1>2. TypeOK /\ CommitFits /\ TimersOrdered /\ [Next]_vars
        => TypeOK' /\ CommitFits' /\ TimersOrdered'
  BY NextTypeOK, NextTimersOrdered
<1>3. TimersOrdered => NoOverwrittenSample
  BY DEF TimersOrdered
<1> QED BY <1>1, <1>2, <1>3, PTL DEF Spec
=============================================================================
