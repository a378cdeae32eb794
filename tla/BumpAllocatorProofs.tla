------------------------ MODULE BumpAllocatorProofs -------------------------
(***************************************************************************)
(* Proofs about the bump allocator, for any number of processes and        *)
(* threads, any layouts and any size of the mapping.                       *)
(***************************************************************************)
EXTENDS BumpAllocator, TLAPS

\* The mapping starts at a page, so this holds of alignments up to a page.
BaseAligned == \A t \in Threads : \A l \in Layouts[t] : Base % l.align = 0

-----------------------------------------------------------------------------
(* Arithmetic.                                                             *)

LEMMA DivMod ==
  ASSUME NEW x \in Nat, NEW n \in Nat \ {0}
  PROVE  /\ x \div n \in Nat /\ x % n \in 0 .. (n - 1)
         /\ x = n * (x \div n) + (x % n)
OBVIOUS

\* Adding a multiple of n keeps the remainder.
LEMMA ModOfSum ==
  ASSUME NEW x \in Nat, NEW k \in Nat, NEW n \in Nat \ {0}, x % n = 0
  PROVE  (x + k * n) % n = 0
<1> DEFINE q == x \div n
<1>1. q \in Nat /\ x = n * q
  BY DivMod
<1> HIDE DEF q
<1>2. x + k * n = n * (q + k) /\ q + k \in Nat
  BY <1>1
<1>3. \A m \in Nat : (n * m) % n = 0
  OBVIOUS
<1> QED BY <1>2, <1>3

\* RoundUp returns the multiple it is asked for, at least its argument.
LEMMA RoundUpIsUp ==
  ASSUME NEW x \in Nat, NEW n \in Nat \ {0}
  PROVE  RoundUp(x, n) \in Nat /\ RoundUp(x, n) >= x
<1> DEFINE y == x + n - 1
           q == y \div n
           r == y % n
<1>1. y \in Nat
  OBVIOUS
<1>2. q \in Nat /\ r \in 0 .. (n - 1) /\ y = n * q + r
  BY <1>1, DivMod
<1>3. RoundUp(x, n) = q * n
  BY DEF RoundUp
<1> HIDE DEF q, r
<1>4. q * n = n * q /\ q * n \in Nat
  BY <1>2
<1>5. q * n >= x
  BY <1>2, <1>4
<1> QED BY <1>3, <1>4, <1>5

LEMMA RoundUpAligns ==
  ASSUME NEW x \in Nat, NEW n \in Nat \ {0}, NEW b \in Nat, b % n = 0
  PROVE  (b + RoundUp(x, n)) % n = 0
<1>1. (x + n - 1) \div n \in Nat
  BY DivMod
<1> QED BY <1>1, ModOfSum DEF RoundUp

LEMMA SizeNat == Size \in Nat
BY AllocatorAssumption, RoundUpIsUp DEF Size

-----------------------------------------------------------------------------
(* The inductive invariant.                                                *)

AlignedInv ==
  /\ \A t \in Threads : pc[t] # "idle" => layout[t] \in Layouts[t]
  /\ WellPlaced

IInv == TypeOK /\ Bounded /\ Disjoint

LEMMA InitIInv == Init => IInv
<1> SUFFICES ASSUME Init PROVE IInv
  OBVIOUS
<1>1. TypeOK
  BY SizeNat, AllocatorAssumption DEF Init, TypeOK
<1>2. Bounded /\ Disjoint
  BY DEF Init, Bounded, Disjoint
<1> QED BY <1>1, <1>2 DEF IInv

\* What a successful compare-exchange claims: it starts where the process's
\* next was or later, ends where next now is, and fits in the mapping.
LEMMA ClaimFits ==
  ASSUME IInv, NEW t \in Threads, Swap(t)
  PROVE  /\ Claim(t) \in Allocation
         /\ next[Home[t]] <= Claim(t).lo
         /\ Claim(t).lo + Claim(t).size <= Size
         /\ next' = [next EXCEPT ![Home[t]] = Claim(t).lo + Claim(t).size]
         /\ allocs' = [allocs EXCEPT ![Home[t]] = @ \cup {Claim(t)}]
<1>1. /\ layout[t].size \in Nat /\ layout[t].align \in Nat \ {0}
      /\ current[t] \in Nat /\ calls[t] \in Nat
  BY DEF IInv, TypeOK
<1>2. Aligned(t, current[t]) \in Nat /\ Aligned(t, current[t]) >= current[t]
  BY <1>1, RoundUpIsUp DEF Aligned
<1>3. Claim(t) \in Allocation
  BY <1>1, <1>2 DEF Claim, Allocation
<1>4. next[Home[t]] = current[t] /\ Aligned(t, current[t]) + layout[t].size <= Size
  BY DEF Swap, IInv, Bounded
<1> QED BY <1>2, <1>3, <1>4 DEF Swap, Claim

LEMMA NextIInv ==
  ASSUME IInv, [Next]_vars
  PROVE  IInv'
<1> USE DEF IInv
<1>1. CASE UNCHANGED vars
  BY <1>1 DEF vars, TypeOK, Bounded, Aligned, Disjoint
<1>2. CASE \E p, q \in Procs : Fork(p, q)
  <2> PICK p \in Procs, q \in Procs : Fork(p, q)
    BY <1>2
  <2>1. \A r \in Procs : \E s \in Procs : next'[r] = next[s] /\ allocs'[r] = allocs[s]
    BY DEF Fork, TypeOK
  <2>2. TypeOK'
    BY DEF Fork, TypeOK
  <2>3. Bounded'
    <3>1. \A r \in Procs : \A a \in allocs'[r] : a.lo + a.size <= next'[r]
      BY <2>1 DEF Bounded
    <3>2. \A t \in Threads :
            pc'[t] = "swap" => (Aligned(t, current[t]) + layout[t].size <= Size)'
      BY DEF Fork, Bounded, Aligned
    <3> QED BY <3>1, <3>2 DEF Bounded
  <2>4. Disjoint'
    BY <2>1 DEF Disjoint
  <2> QED BY <2>2, <2>3, <2>4
<1>3. CASE \E t \in Threads : Invoke(t)
  <2> PICK t \in Threads : Invoke(t)
    BY <1>3
  <2>1. TypeOK'
    <3> PICK l \in Layouts[t] : layout' = [layout EXCEPT ![t] = l]
      BY DEF Invoke
    <3>1. l \in [size : Nat, align : Nat \ {0}]
      BY AllocatorAssumption
    <3> QED BY <3>1 DEF Invoke, TypeOK
  <2>2. Bounded'
    BY DEF Invoke, Bounded, Aligned, TypeOK
  <2>3. Disjoint'
    BY DEF Invoke, Disjoint
  <2> QED BY <2>1, <2>2, <2>3
<1>4. CASE \E t \in Threads : Load(t)
  <2> PICK t \in Threads : Load(t)
    BY <1>4
  <2>1. TypeOK'
    <3>1. next[Home[t]] \in Nat
      BY AllocatorAssumption, SizeNat DEF TypeOK
    <3> HIDE DEF IInv
    <3>2. TypeOK
      BY DEF IInv
    <3>3. current' \in [Threads -> Nat]
      BY <3>1, <3>2 DEF Load, TypeOK
    <3>4. pc' \in [Threads -> {"idle", "load", "swap"}]
      BY <3>2 DEF Load, TypeOK
    <3> QED BY <3>2, <3>3, <3>4 DEF Load, TypeOK
  <2>2. Bounded'
    <3>1. current'[t] = next[Home[t]] /\ \A u \in Threads \ {t} :
            current'[u] = current[u] /\ pc'[u] = pc[u]
      BY DEF Load, TypeOK
    <3>2. pc'[t] = "swap" => Aligned(t, next[Home[t]]) + layout[t].size <= Size
      <4>1. /\ layout[t].size \in Nat /\ layout[t].align \in Nat \ {0}
            /\ next[Home[t]] \in Nat
        BY AllocatorAssumption, SizeNat DEF TypeOK
      <4>2. Aligned(t, next[Home[t]]) \in Nat
        BY <4>1, RoundUpIsUp DEF Aligned
      <4> QED BY <4>1, <4>2, SizeNat DEF Load, TypeOK
    <3>3. UNCHANGED <<layout, next, allocs>>
      BY DEF Load
    <3> QED BY <3>1, <3>2, <3>3 DEF Bounded, Aligned
  <2>3. Disjoint'
    BY DEF Load, Disjoint
  <2> QED BY <2>1, <2>2, <2>3
<1>5. CASE \E t \in Threads : Swap(t)
  <2> PICK t \in Threads : Swap(t)
    BY <1>5
  <2> DEFINE c == Claim(t)
             h == Home[t]
  <2>1. /\ c \in Allocation /\ next[h] <= c.lo /\ c.lo + c.size <= Size
        /\ next' = [next EXCEPT ![h] = c.lo + c.size]
        /\ allocs' = [allocs EXCEPT ![h] = @ \cup {c}]
    BY ClaimFits
  <2>2. h \in Procs
    BY AllocatorAssumption
  <2>3. UNCHANGED <<born, layout, current, calls>> /\ pc' = [pc EXCEPT ![t] = "idle"]
    BY DEF Swap
  <2> HIDE DEF c, h
  <2>4. c.lo \in Nat /\ c.size \in Nat
    BY <2>1 DEF Allocation
  <2>5. TypeOK'
    BY <2>1, <2>2, <2>3, <2>4 DEF TypeOK
  <2>6. \A p \in Procs : next'[p] = IF p = h THEN c.lo + c.size ELSE next[p]
    BY <2>1 DEF TypeOK
  <2>7. \A p \in Procs : allocs'[p] = IF p = h THEN allocs[p] \cup {c} ELSE allocs[p]
    BY <2>1 DEF TypeOK
  <2>8. \A a \in allocs[h] : a.lo \in Nat /\ a.size \in Nat /\ a.lo + a.size <= c.lo
    <3> TAKE a \in allocs[h]
    <3>1. a.lo \in Nat /\ a.size \in Nat
      BY <2>2 DEF TypeOK, Allocation
    <3>2. a.lo + a.size <= next[h] /\ next[h] \in Nat
      BY <2>2, SizeNat DEF Bounded, TypeOK
    <3> QED BY <2>1, <2>4, <3>1, <3>2
  <2>9. Bounded'
    <3>1. \A p \in Procs : \A a \in allocs'[p] : a.lo + a.size <= next'[p]
      <4> TAKE p \in Procs
      <4>1. CASE p = h
        <5> TAKE a \in allocs'[p]
        <5>1. next'[p] = c.lo + c.size
          BY <2>6, <4>1
        <5>2. CASE a = c
          BY <2>4, <5>1, <5>2
        <5>3. CASE a \in allocs[h]
          BY <2>4, <2>8, <5>1, <5>3
        <5> QED BY <2>7, <4>1, <5>2, <5>3
      <4>2. CASE p # h
        BY <2>6, <2>7, <4>2 DEF Bounded
      <4> QED BY <4>1, <4>2
    <3>2. \A u \in Threads :
            pc'[u] = "swap" => (Aligned(u, current[u]) + layout[u].size <= Size)'
      BY <2>3 DEF Bounded, Aligned, TypeOK
    <3> QED BY <3>1, <3>2 DEF Bounded
  <2>10. \A a \in allocs[h] : ~Overlap(a, c) /\ ~Overlap(c, a)
    BY <2>4, <2>8 DEF Overlap
  <2>11. Disjoint'
    BY <2>7, <2>10 DEF Disjoint
  <2> QED BY <2>5, <2>9, <2>11
<1>6. CASE \E t \in Threads : Retry(t)
  <2> PICK t \in Threads : Retry(t)
    BY <1>6
  <2>1. TypeOK'
    BY DEF Retry, TypeOK
  <2>2. Bounded'
    BY DEF Retry, Bounded, Aligned, TypeOK
  <2>3. Disjoint'
    BY DEF Retry, Disjoint
  <2> QED BY <2>1, <2>2, <2>3
<1> QED
  BY <1>1, <1>2, <1>3, <1>4, <1>5, <1>6 DEF Next, Step

\* next stays inside the mapping, and the rest of the state keeps its types.
THEOREM TypeCorrect == Spec => []TypeOK
BY InitIInv, NextIInv, PTL DEF Spec, IInv

\* No two allocations reachable from one process overlap, for any number of
\* threads allocating at once and any forks in between.
THEOREM AllocationsDisjoint == Spec => []Disjoint
BY InitIInv, NextIInv, PTL DEF Spec, IInv

-----------------------------------------------------------------------------
(* Placement.                                                              *)

LEMMA NextAligned ==
  ASSUME BaseAligned, IInv, AlignedInv, [Next]_vars
  PROVE  AlignedInv'
<1> USE DEF AlignedInv, WellPlaced
<1>1. CASE UNCHANGED vars
  BY <1>1 DEF vars
<1>2. CASE \E p, q \in Procs : Fork(p, q)
  <2> PICK p \in Procs, q \in Procs : Fork(p, q)
    BY <1>2
  <2>1. \A r \in Procs : \E s \in Procs : allocs'[r] = allocs[s]
    BY DEF Fork, IInv, TypeOK
  <2>2. UNCHANGED <<pc, layout>>
    BY DEF Fork
  <2> QED BY <2>1, <2>2
<1>3. CASE \E t \in Threads : Invoke(t)
  BY <1>3 DEF Invoke, IInv, TypeOK
<1>4. CASE \E t \in Threads : Load(t) \/ Retry(t)
  <2> PICK t \in Threads : Load(t) \/ Retry(t)
    BY <1>4
  <2>1. UNCHANGED <<allocs, layout>> /\ pc[t] # "idle"
    BY DEF Load, Retry
  <2>2. \A u \in Threads \ {t} : pc'[u] = pc[u]
    BY DEF Load, Retry, IInv, TypeOK
  <2> QED BY <2>1, <2>2
<1>5. CASE \E t \in Threads : Swap(t)
  <2> PICK t \in Threads : Swap(t)
    BY <1>5
  <2> DEFINE c == Claim(t)
  <2>1. c.lo + c.size <= Size /\ allocs' = [allocs EXCEPT ![Home[t]] = @ \cup {c}]
    BY ClaimFits
  <2>2. (Base + c.lo) % c.align = 0
    <3>1. Base \in Nat /\ Base % layout[t].align = 0
      BY AllocatorAssumption DEF BaseAligned, Swap
    <3>2. current[t] \in Nat /\ layout[t].align \in Nat \ {0}
      BY DEF IInv, TypeOK
    <3> QED BY <3>1, <3>2, RoundUpAligns DEF Claim, Aligned
  <2> HIDE DEF c
  <2>3. \A p \in Procs : \A a \in allocs'[p] : a \in allocs[p] \/ a = c
    BY <2>1 DEF IInv, TypeOK
  <2>4. layout' = layout /\ \A u \in Threads : pc'[u] # "idle" => pc[u] # "idle"
    BY DEF Swap, IInv, TypeOK
  <2> QED BY <2>1, <2>2, <2>3, <2>4
<1> QED
  BY <1>1, <1>2, <1>3, <1>4, <1>5 DEF Next, Step

\* Every allocation lies inside the mapping and is aligned as its layout asks,
\* for alignments the mapping's own address has.
THEOREM AllocationsWellPlaced == BaseAligned => (Spec => []WellPlaced)
<1> SUFFICES ASSUME BaseAligned PROVE Spec => []WellPlaced
  OBVIOUS
<1>1. Init => IInv /\ AlignedInv
  BY InitIInv DEF Init, AlignedInv, WellPlaced
<1>2. IInv /\ AlignedInv /\ [Next]_vars => IInv' /\ AlignedInv'
  BY NextIInv, NextAligned
<1> QED BY <1>1, <1>2, PTL DEF Spec, AlignedInv

-----------------------------------------------------------------------------
(* Progress.                                                               *)

\* A thread about to swap has loaded no more than next, of a process that exists: no
\* fork replaces that next.
Behind ==
  \A t \in Threads : pc[t] = "swap" => Home[t] \in born /\ current[t] <= next[Home[t]]

\* A process is there when one of its threads runs.
Begun == \A t \in Threads : pc[t] # "idle" => Home[t] \in born

LEMMA NextBehind ==
  ASSUME IInv, Begun, Behind, [Next]_vars
  PROVE  Begun' /\ Behind'
<1>a. /\ next \in [Procs -> 0 .. Size] /\ Size \in Nat /\ \A t \in Threads : Home[t] \in Procs
      /\ pc \in [Threads -> {"idle", "load", "swap"}] /\ current \in [Threads -> Nat]
  BY SizeNat, AllocatorAssumption DEF IInv, TypeOK
<1>1. CASE UNCHANGED vars
  BY <1>1 DEF vars, Begun, Behind
<1>2. ASSUME NEW p \in Procs, NEW q \in Procs, Fork(p, q)
      PROVE  Begun' /\ Behind'
  <2>1. UNCHANGED <<pc, current>> /\ born' = born \cup {q} /\ q \notin born
    BY <1>2 DEF Fork
  <2>2. \A r \in born \cap Procs : next'[r] = next[r]
    BY <1>a, <1>2 DEF Fork
  <2> QED BY <1>a, <2>1, <2>2 DEF Begun, Behind
<1>3. ASSUME NEW t \in Threads, Invoke(t)
      PROVE  Begun' /\ Behind'
  BY <1>a, <1>3 DEF Invoke, Begun, Behind
<1>4. ASSUME NEW t \in Threads, Load(t)
      PROVE  Begun' /\ Behind'
  <2>1. /\ UNCHANGED <<born, next>> /\ current' = [current EXCEPT ![t] = next[Home[t]]]
        /\ pc[t] = "load" /\ \A u \in Threads \ {t} : pc'[u] = pc[u]
    BY <1>a, <1>4 DEF Load
  <2>2. current'[t] = next[Home[t]] /\ \A u \in Threads \ {t} : current'[u] = current[u]
    BY <1>a, <2>1
  <2>3. Home[t] \in born /\ next[Home[t]] \in Int
    BY <1>a, <2>1 DEF Begun
  <2> QED BY <2>1, <2>2, <2>3 DEF Begun, Behind
<1>5. ASSUME NEW t \in Threads, Swap(t)
      PROVE  Begun' /\ Behind'
  <2> DEFINE c == Claim(t)
  <2>1. /\ c \in Allocation /\ next[Home[t]] <= c.lo
        /\ next' = [next EXCEPT ![Home[t]] = c.lo + c.size]
    BY <1>5, ClaimFits
  <2> HIDE DEF c
  <2>2. c.lo \in Nat /\ c.size \in Nat
    BY <2>1 DEF Allocation
  <2>3. \A u \in Threads : next'[Home[u]] \in Int /\ next[Home[u]] \in Int
                           /\ next[Home[u]] <= next'[Home[u]]
    BY <1>a, <2>1, <2>2
  <2>4. UNCHANGED <<born, current>> /\ \A u \in Threads : pc'[u] # "idle" => pc'[u] = pc[u]
    BY <1>a, <1>5 DEF Swap
  <2>5. Begun'
    BY <2>4 DEF Begun
  <2>6. ASSUME NEW u \in Threads, pc'[u] = "swap"
        PROVE  Home[u] \in born' /\ current'[u] <= next'[Home[u]]
    <3>1. Home[u] \in born /\ current[u] <= next[Home[u]]
      BY <2>4, <2>6 DEF Behind
    <3>2. current[u] \in Int
      BY <1>a
    <3> QED BY <2>3, <2>4, <3>1, <3>2
  <2> QED BY <2>5, <2>6 DEF Behind
<1>6. ASSUME NEW t \in Threads, Retry(t)
      PROVE  Begun' /\ Behind'
  BY <1>a, <1>6 DEF Retry, Begun, Behind
<1> QED BY <1>1, <1>2, <1>3, <1>4, <1>5, <1>6 DEF Next, Step

\* Whatever the other threads and the forks do, a failed compare-exchange has seen next grow:
\* with TypeCorrect, a call of alloc retries at most Size times (shared.rs:62-83).
THEOREM RetriesAreBounded == Spec => RetriesGain
<1>1. Init => IInv /\ Begun /\ Behind
  BY InitIInv DEF Init, Begun, Behind
<1>2. IInv /\ Begun /\ Behind /\ [Next]_vars => IInv' /\ Begun' /\ Behind'
  BY NextIInv, NextBehind
<1>3. ASSUME IInv, Behind, Next, NEW t \in Threads, pc[t] = "swap", pc'[t] = "load"
      PROVE  current[t] < next[Home[t]]
  <2>1. next[Home[t]] # current[t]
    <3>1. pc \in [Threads -> {"idle", "load", "swap"}]
      BY <1>3 DEF IInv, TypeOK
    <3> QED BY <1>3, <3>1 DEF Next, Step, Fork, Invoke, Load, Swap, Retry
  <2>2. current[t] \in Nat /\ next[Home[t]] \in Int
    BY <1>3, SizeNat, AllocatorAssumption DEF IInv, TypeOK
  <2> QED BY <1>3, <2>1, <2>2 DEF Behind
<1>4. IInv /\ Behind /\ [Next]_vars =>
        [\A t \in Threads :
           pc[t] = "swap" /\ pc'[t] = "load" => current[t] < next[Home[t]]]_vars
  BY <1>3
<1> QED BY <1>1, <1>2, <1>4, PTL DEF Spec, RetriesGain
=============================================================================
