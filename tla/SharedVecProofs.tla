-------------------------- MODULE SharedVecProofs ---------------------------
(***************************************************************************)
(* Proofs about vectors and boxes in shared memory, for any processes and  *)
(* threads, layouts and sizes, over those about the allocator.             *)
(***************************************************************************)
EXTENDS SharedVec, BumpAllocatorProofs

-----------------------------------------------------------------------------
(* The vectors use the allocator as it is meant to be used.                *)

\* Whatever happens to the vectors, the allocator takes one of its own steps or none.
THEOREM ImplementsAllocator == SharedSpec => Spec
<1>1. SharedInit => Init
  BY DEF SharedInit
<1>2. [SharedNext]_allVars => [Next]_vars
  <2> SUFFICES ASSUME [SharedNext]_allVars PROVE [Next]_vars
    OBVIOUS
  <2>1. CASE UNCHANGED allVars
    BY <2>1 DEF allVars, vars
  <2>2. CASE \E p, q \in Procs : ForkHandles(p, q)
    BY <2>2 DEF ForkHandles, Next
  <2>3. CASE \E t \in Threads : Ask(t)
    BY <2>3 DEF Ask, Next
  <2>4. CASE \E t \in Threads : WithCapacity(t)
    BY <2>4 DEF WithCapacity, allocVars, vars
  <2>5. CASE \E t \in Threads : Step(t)
    BY <2>5 DEF Next
  <2>6. CASE \E h \in handles : Push(h) \/ Clone(h) \/ Drop(h)
    BY <2>6 DEF Push, Pushed, Clone, Drop, allocVars, vars
  <2> QED
    BY <2>1, <2>2, <2>3, <2>4, <2>5, <2>6 DEF SharedNext
<1> QED BY <1>1, <1>2, PTL DEF SharedSpec, Spec

-----------------------------------------------------------------------------
(* The inductive invariant.                                                *)

Elements == [by : Threads, call : Nat, index : Nat, value : Values]

MemOK == mem \in [0 .. (Size - 1) -> Elements \cup {Blank}]

\* Allocations are made, and reached, by processes that exist.
Settled ==
  /\ \A t \in Threads : pc[t] # "idle" => calls[t] # 0
  /\ \A t \in Threads : calls[t] # 0 => Home[t] \in born
  /\ \A p \in Procs \ born : allocs[p] = {}

\* What a process can reach was made by an earlier call of a thread whose own process
\* can reach it too.
MadeAtHome ==
  \A p \in Procs : \A a \in allocs[p] :
    /\ a \in allocs[Home[a.by]]
    /\ calls[a.by] # 0 /\ a.call <= calls[a.by]
    /\ pc[a.by] # "idle" => a.call < calls[a.by]

Backed ==
  \A h \in handles :
    /\ h.proc \in born
    /\ \E a \in allocs[h.proc] : IsArrayOf(a, h)

SharedInv ==
  /\ IInv /\ SharedTypeOK /\ MemOK
  /\ Settled /\ MadeAtHome /\ Backed /\ ElementsKept

-----------------------------------------------------------------------------
(* What the allocator's steps keep.                                        *)

LEMMA NextSettled ==
  ASSUME IInv, Settled, [Next]_vars
  PROVE  Settled' /\ \A p \in born : p \in born' /\ allocs[p] \subseteq allocs'[p]
<1>1. TypeOK
  BY DEF IInv
<1>2. CASE UNCHANGED vars
  BY <1>2 DEF vars, Settled
<1>3. ASSUME NEW p \in Procs, NEW q \in Procs, Fork(p, q)
      PROVE  Settled' /\ \A r \in born : r \in born' /\ allocs[r] \subseteq allocs'[r]
  <2>1. /\ p \in born /\ q \notin born /\ born' = born \cup {q}
        /\ UNCHANGED <<pc, calls>>
        /\ \A r \in Procs : allocs'[r] = IF r = q THEN allocs[p] ELSE allocs[r]
    BY <1>1, <1>3 DEF Fork, TypeOK
  <2> QED BY <1>1, <2>1 DEF Settled, TypeOK
<1>4. ASSUME NEW t \in Threads, Invoke(t)
      PROVE  Settled' /\ \A r \in born : r \in born' /\ allocs[r] \subseteq allocs'[r]
  <2>1. /\ UNCHANGED <<born, allocs>> /\ Home[t] \in born
        /\ \A u \in Threads : calls'[u] = IF u = t THEN calls[u] + 1 ELSE calls[u]
        /\ \A u \in Threads \ {t} : pc'[u] = pc[u]
        /\ \A u \in Threads : calls[u] \in Nat
    BY <1>1, <1>4 DEF Invoke, TypeOK
  <2> QED BY <2>1 DEF Settled
<1>5. ASSUME NEW t \in Threads, Load(t) \/ Retry(t)
      PROVE  Settled' /\ \A r \in born : r \in born' /\ allocs[r] \subseteq allocs'[r]
  <2>1. UNCHANGED <<born, allocs, calls>> /\ pc[t] # "idle"
    BY <1>5 DEF Load, Retry
  <2>2. \A u \in Threads \ {t} : pc'[u] = pc[u]
    BY <1>1, <1>5 DEF Load, Retry, TypeOK
  <2> QED BY <2>1, <2>2 DEF Settled
<1>6. ASSUME NEW t \in Threads, Swap(t)
      PROVE  Settled' /\ \A r \in born : r \in born' /\ allocs[r] \subseteq allocs'[r]
  <2>1. /\ UNCHANGED <<born, calls>> /\ pc[t] # "idle" /\ Home[t] \in Procs
        /\ \A p \in Procs : allocs'[p] = IF p = Home[t] THEN allocs[p] \cup {Claim(t)}
                                         ELSE allocs[p]
        /\ \A u \in Threads : pc'[u] # "idle" => pc[u] # "idle"
    BY <1>1, <1>6, AllocatorAssumption DEF Swap, TypeOK
  <2>2. Home[t] \in born
    BY <2>1 DEF Settled
  <2> QED BY <1>1, <2>1, <2>2 DEF Settled, TypeOK
<1> QED
  BY <1>2, <1>3, <1>4, <1>5, <1>6 DEF Next, Step

\* What an allocation or a thread of the type invariant is.
LEMMA AllocationTypes ==
  ASSUME IInv, NEW p \in Procs, NEW a \in allocs[p]
  PROVE  a \in Allocation /\ a.by \in Threads /\ a.call \in Nat /\ Home[a.by] \in Procs
BY AllocatorAssumption DEF IInv, TypeOK, Allocation

LEMMA NextMadeAtHome ==
  ASSUME IInv, Settled, MadeAtHome, [Next]_vars
  PROVE  MadeAtHome'
<1>1. TypeOK /\ \A t \in Threads : calls[t] \in Nat
  BY DEF IInv, TypeOK
<1>2. CASE UNCHANGED vars
  BY <1>2 DEF vars, MadeAtHome
<1>3. ASSUME NEW p \in Procs, NEW q \in Procs, Fork(p, q)
      PROVE  MadeAtHome'
  <2>1. /\ q \notin born /\ UNCHANGED <<pc, calls>>
        /\ \A r \in Procs : allocs'[r] = IF r = q THEN allocs[p] ELSE allocs[r]
    BY <1>1, <1>3 DEF Fork, TypeOK
  <2>2. allocs[q] = {}
    BY <2>1 DEF Settled
  <2> SUFFICES ASSUME NEW r \in Procs, NEW a \in allocs'[r]
               PROVE  /\ a \in allocs'[Home[a.by]]
                      /\ calls[a.by] # 0 /\ a.call <= calls[a.by]
                      /\ pc[a.by] # "idle" => a.call < calls[a.by]
    BY <2>1 DEF MadeAtHome
  <2>3. PICK s \in Procs : a \in allocs[s]
    BY <2>1
  <2>4. /\ a \in allocs[Home[a.by]] /\ calls[a.by] # 0 /\ a.call <= calls[a.by]
        /\ pc[a.by] # "idle" => a.call < calls[a.by]
    BY <2>3 DEF MadeAtHome
  <2>5. Home[a.by] \in Procs /\ Home[a.by] # q
    BY <2>2, <2>3, <2>4, AllocationTypes
  <2> QED BY <2>1, <2>4, <2>5
<1>4. ASSUME NEW t \in Threads, Invoke(t)
      PROVE  MadeAtHome'
  <2>1. /\ allocs' = allocs
        /\ \A u \in Threads : calls'[u] = IF u = t THEN calls[u] + 1 ELSE calls[u]
        /\ \A u \in Threads \ {t} : pc'[u] = pc[u]
    BY <1>1, <1>4 DEF Invoke, TypeOK
  <2> SUFFICES ASSUME NEW r \in Procs, NEW a \in allocs[r]
               PROVE  /\ a \in allocs[Home[a.by]]
                      /\ calls'[a.by] # 0 /\ a.call <= calls'[a.by]
                      /\ pc'[a.by] # "idle" => a.call < calls'[a.by]
    BY <2>1 DEF MadeAtHome
  <2>2. a.by \in Threads /\ a.call \in Nat
    BY AllocationTypes
  <2>3. /\ a \in allocs[Home[a.by]] /\ calls[a.by] # 0 /\ a.call <= calls[a.by]
        /\ pc[a.by] # "idle" => a.call < calls[a.by]
    BY DEF MadeAtHome
  <2>4. CASE a.by = t
    BY <1>1, <2>1, <2>2, <2>3, <2>4
  <2>5. CASE a.by # t
    BY <2>1, <2>2, <2>3, <2>5
  <2> QED BY <2>4, <2>5
<1>5. ASSUME NEW t \in Threads, Load(t) \/ Retry(t)
      PROVE  MadeAtHome'
  <2>1. UNCHANGED <<allocs, calls>> /\ pc[t] # "idle"
    BY <1>5 DEF Load, Retry
  <2>2. \A u \in Threads : pc'[u] # "idle" => pc[u] # "idle"
    BY <1>1, <1>5 DEF Load, Retry, TypeOK
  <2> SUFFICES ASSUME NEW r \in Procs, NEW a \in allocs[r]
               PROVE  /\ a \in allocs[Home[a.by]]
                      /\ calls[a.by] # 0 /\ a.call <= calls[a.by]
                      /\ pc'[a.by] # "idle" => a.call < calls[a.by]
    BY <2>1 DEF MadeAtHome
  <2> QED BY <2>2, AllocationTypes DEF MadeAtHome
<1>6. ASSUME NEW t \in Threads, Swap(t)
      PROVE  MadeAtHome'
  <2> DEFINE c == Claim(t)
  <2>1. /\ calls' = calls /\ pc[t] # "idle" /\ Home[t] \in Procs
        /\ \A p \in Procs : allocs'[p] = IF p = Home[t] THEN allocs[p] \cup {c} ELSE allocs[p]
        /\ pc'[t] = "idle" /\ \A u \in Threads : pc'[u] # "idle" => pc[u] # "idle"
    BY <1>1, <1>6, AllocatorAssumption DEF Swap, TypeOK
  <2>2. c.by = t /\ c.call = calls[t] /\ calls[t] # 0
    BY <2>1 DEF Claim, Settled
  <2> HIDE DEF c
  <2> SUFFICES ASSUME NEW r \in Procs, NEW a \in allocs'[r]
               PROVE  /\ a \in allocs'[Home[a.by]]
                      /\ calls[a.by] # 0 /\ a.call <= calls[a.by]
                      /\ pc'[a.by] # "idle" => a.call < calls[a.by]
    BY <2>1 DEF MadeAtHome
  <2>3. CASE a = c
    <3>1. c \in allocs'[Home[t]]
      BY <2>1
    <3>2. calls[t] \in Nat
      BY <1>1
    <3> QED BY <2>1, <2>2, <2>3, <3>1, <3>2
  <2>4. CASE a \in allocs[r]
    <3>1. /\ a \in allocs[Home[a.by]] /\ calls[a.by] # 0 /\ a.call <= calls[a.by]
          /\ pc[a.by] # "idle" => a.call < calls[a.by]
      BY <2>4 DEF MadeAtHome
    <3> QED BY <2>1, <2>4, <3>1, AllocationTypes
  <2> QED BY <2>1, <2>3, <2>4
<1> QED
  BY <1>2, <1>3, <1>4, <1>5, <1>6 DEF Next, Step

\* Who is to know of an array that is there does not learn of it later: a fork gives it to
\* a process that has not allocated, and an allocation is an array of its own.
LEMMA KnownBefore ==
  ASSUME IInv, Settled, MadeAtHome, [Next]_vars,
         NEW h, \E p \in Procs : \E b \in allocs[p] : IsArrayOf(b, h),
         Known(h)'
  PROVE  Known(h)
<1>1. TypeOK /\ \A t \in Threads : calls[t] \in Nat
  BY DEF IInv, TypeOK
<1> SUFFICES ASSUME NEW u \in Threads, calls[u] # 0
             PROVE  \E a \in allocs[Home[u]] : IsArrayOf(a, h)
  BY DEF Known
<1>2. calls'[u] # 0
  BY <1>1 DEF Next, Step, Fork, Invoke, Load, Swap, Retry, TypeOK, vars
<1>3. PICK a \in allocs'[Home[u]] : IsArrayOf(a, h)
  BY <1>2 DEF Known, IsArrayOf
<1>4. Home[u] \in Procs /\ Home[u] \in born
  BY AllocatorAssumption DEF Settled
<1>5. CASE allocs' = allocs
  BY <1>3, <1>5
<1>6. ASSUME NEW p \in Procs, NEW q \in Procs, Fork(p, q)
      PROVE  a \in allocs[Home[u]]
  BY <1>1, <1>3, <1>4, <1>6 DEF Fork, TypeOK
<1>7. ASSUME NEW t \in Threads, Swap(t)
      PROVE  a \in allocs[Home[u]]
  <2>1. pc[t] # "idle" /\ (a \in allocs[Home[u]] \/ a = Claim(t))
    BY <1>1, <1>3, <1>4, <1>7 DEF Swap, TypeOK
  <2>2. ASSUME a = Claim(t) PROVE FALSE
    <3>1. h.by = t /\ h.call = calls[t]
      BY <1>3, <2>2 DEF Claim, IsArrayOf
    <3>2. PICK p \in Procs : \E b \in allocs[p] : IsArrayOf(b, h)
      OBVIOUS
    <3>3. PICK b \in allocs[p] : b.by = t /\ b.call = calls[t]
      BY <3>1, <3>2 DEF IsArrayOf
    <3>4. b.call < calls[t]
      BY <2>1, <3>3 DEF MadeAtHome
    <3> QED BY <1>1, <3>3, <3>4
  <2> QED BY <2>1, <2>2
<1>8. allocs' = allocs \/ (\E p, q \in Procs : Fork(p, q)) \/ \E t \in Threads : Swap(t)
  BY DEF Next, Step, Invoke, Load, Retry, vars
<1> QED BY <1>3, <1>5, <1>6, <1>7, <1>8

\* What a step of the allocator does for the vectors that are there.
LEMMA AllocatorStep ==
  ASSUME SharedInv, [Next]_vars
  PROVE  /\ IInv' /\ Settled' /\ MadeAtHome'
         /\ \A p \in born : p \in born' /\ allocs[p] \subseteq allocs'[p]
         /\ \A h \in handles : Known(h)' => Known(h)
<1>1. /\ IInv' /\ Settled' /\ MadeAtHome'
      /\ \A p \in born : p \in born' /\ allocs[p] \subseteq allocs'[p]
  BY NextIInv, NextSettled, NextMadeAtHome DEF SharedInv
<1>2. ASSUME NEW h \in handles, Known(h)'
      PROVE  Known(h)
  <2>1. h.proc \in Procs /\ \E b \in allocs[h.proc] : IsArrayOf(b, h)
    BY DEF SharedInv, Backed, SharedTypeOK, Handle
  <2>2. IInv /\ Settled /\ MadeAtHome
    BY DEF SharedInv
  <2> QED BY <1>2, <2>1, <2>2, KnownBefore
<1> QED BY <1>1, <1>2

-----------------------------------------------------------------------------
(* What the cells of a handle are.                                         *)

\* A handle's array lies inside the mapping.
LEMMA CellsInside ==
  ASSUME SharedInv, NEW h \in handles
  PROVE  /\ h \in Handle /\ h.len <= h.cap
         /\ \A i \in 0 .. (h.cap - 1) : h.lo + i \in 0 .. (Size - 1)
<1>1. h \in Handle /\ h.len <= h.cap
  BY DEF SharedInv, SharedTypeOK
<1>2. PICK a \in allocs[h.proc] : IsArrayOf(a, h)
  BY DEF SharedInv, Backed
<1>3. h.proc \in Procs /\ h.lo \in Nat /\ h.cap \in Nat
  BY <1>1 DEF Handle
<1>4. a.lo + a.size <= next[h.proc] /\ next[h.proc] \in 0 .. Size
  BY <1>2, <1>3 DEF SharedInv, IInv, Bounded, TypeOK
<1>5. h.lo + h.cap <= Size /\ Size \in Nat
  BY <1>2, <1>3, <1>4, SizeNat DEF IsArrayOf
<1> QED BY <1>1, <1>3, <1>5

\* A handle that shares a cell with one that all know is a handle of the same array.
LEMMA SameCellSameArray ==
  ASSUME SharedInv, NEW g \in handles, NEW h \in handles, Known(g),
         NEW i \in 0 .. (g.cap - 1), NEW j \in 0 .. (h.cap - 1),
         g.lo + i = h.lo + j
  PROVE  SameArray(g, h) /\ i = j
<1>1. PICK b \in allocs[h.proc] : IsArrayOf(b, h)
  BY DEF SharedInv, Backed
<1>2. /\ g.lo \in Nat /\ g.cap \in Nat /\ h.lo \in Nat /\ h.cap \in Nat
      /\ h.proc \in Procs
  BY CellsInside DEF Handle
<1>3. b.by \in Threads /\ Home[b.by] \in Procs
  BY <1>1, <1>2, AllocationTypes DEF SharedInv
<1>4. b \in allocs[Home[b.by]] /\ calls[b.by] # 0
  BY <1>1, <1>2 DEF SharedInv, MadeAtHome
<1>5. PICK a \in allocs[Home[b.by]] : IsArrayOf(a, g)
  BY <1>3, <1>4 DEF Known
<1>6. Overlap(a, b)
  <2>1. g.lo < h.lo + h.cap /\ h.lo < g.lo + g.cap
    BY <1>2
  <2> QED BY <1>1, <1>5, <2>1 DEF IsArrayOf, Overlap
<1>7. a = b
  BY <1>3, <1>4, <1>5, <1>6 DEF SharedInv, IInv, Disjoint
<1> QED BY <1>1, <1>2, <1>5, <1>7 DEF IsArrayOf, SameArray

\* The i-th element of h is what was pushed, or was replaced by a push of another handle.
Kept(h, i) ==
  \/ mem[h.lo + i] = Element(h.by, h.call, i, h.items[i + 1])
  \/ /\ <<h.by, h.call, i>> \in replaced
     /\ \E v \in Values : mem[h.lo + i] = Element(h.by, h.call, i, v)

-----------------------------------------------------------------------------
(* Every step keeps the invariant.                                         *)

LEMMA InitSharedInv == SharedInit => SharedInv
<1> SUFFICES ASSUME SharedInit PROVE SharedInv
  OBVIOUS
<1>1. IInv
  BY InitIInv DEF SharedInit
<1>2. SharedTypeOK /\ MemOK /\ Backed /\ ElementsKept
  BY DEF SharedInit, SharedTypeOK, MemOK, Backed, ElementsKept
<1>3. Settled /\ MadeAtHome
  BY AllocatorAssumption DEF SharedInit, Init, Settled, MadeAtHome
<1> QED BY <1>1, <1>2, <1>3 DEF SharedInv

LEMMA PushSharedInv ==
  ASSUME SharedInv, NEW h \in handles, Push(h)
  PROVE  SharedInv'
<1>1. h \in Handle /\ h.len <= h.cap /\ \A i \in 0 .. (h.cap - 1) : h.lo + i \in 0 .. (Size - 1)
  BY CellsInside
<1>2. /\ h.proc \in Procs /\ h.by \in Threads /\ h.call \in Nat /\ h.copy \in 0 .. MaxClones
      /\ h.lo \in Nat /\ h.len \in Nat /\ h.cap \in Nat /\ h.items \in Seq(Values)
  <2>1. h \in Handle
    BY <1>1
  <2> QED BY <2>1 DEF Handle
<1>3. Given[h.proc, h.copy] \subseteq Values
  <2>1. <<h.proc, h.copy>> \in Procs \X (0 .. MaxClones)
    BY <1>2
  <2> QED BY <2>1, SharedAssumption
<1>4. PICK v \in Values : Pushed(h, v)
  BY <1>3 DEF Push
<1>5. h.len # h.cap
  BY DEF Push
<1> DEFINE n == [h EXCEPT !.len = h.len + 1, !.items = Append(h.items, v)]
           e == Element(h.by, h.call, h.len, v)
           r == <<h.by, h.call, h.len>>
<1>6. /\ mem' = [mem EXCEPT ![h.lo + h.len] = e]
      /\ handles' = (handles \ {h}) \cup {n}
      /\ replaced' = replaced \cup
           {r : g \in {f \in handles : SameArray(f, h) /\ f.len > h.len}}
      /\ UNCHANGED <<born, next, allocs, pc, layout, current, calls, owed>>
  BY <1>4 DEF Pushed, allocVars
<1>7. h.len \in 0 .. (h.cap - 1) /\ h.len + 1 <= h.cap
  BY <1>1, <1>2, <1>5
<1>8. /\ n \in Handle /\ n.len = h.len + 1 /\ n.cap = h.cap /\ n.lo = h.lo
      /\ n.by = h.by /\ n.call = h.call /\ n.proc = h.proc
      /\ n.items = Append(h.items, v)
  <2>1. h \in Handle /\ h.len + 1 \in Nat /\ Append(h.items, v) \in Seq(Values)
    BY <1>1, <1>2
  <2>2. n \in Handle
    BY <2>1 DEF Handle
  <2> QED BY <2>1 DEF Handle
<1>9. e \in Elements
  BY <1>2 DEF Element, Elements
<1>10. r \in Threads \X Nat \X Nat
  BY <1>2
<1> HIDE DEF n, r
<1>11. MemOK'
  BY <1>6, <1>9 DEF SharedInv, MemOK, Size
<1>12. SharedTypeOK'
  <2>1. \A a \in DOMAIN mem' : mem'[a] = Blank \/ mem'[a] \in Elements
    BY <1>11 DEF MemOK
  <2>2. handles' \subseteq Handle /\ \A g \in handles' : g.len <= g.cap
    BY <1>6, <1>7, <1>8 DEF SharedInv, SharedTypeOK
  <2>3. replaced' \subseteq Threads \X Nat \X Nat
    BY <1>6, <1>10 DEF SharedInv, SharedTypeOK
  <2> QED BY <1>6, <2>1, <2>2, <2>3 DEF SharedInv, SharedTypeOK, Elements
<1>13. Backed'
  <2>1. \A a : IsArrayOf(a, h) => IsArrayOf(a, n)
    BY <1>8 DEF IsArrayOf
  <2> QED BY <1>6, <1>8, <2>1 DEF SharedInv, Backed
<1>14. Settled' /\ MadeAtHome'
  BY <1>6 DEF SharedInv, Settled, MadeAtHome
<1>15. IInv'
  BY <1>6, NextIInv DEF SharedInv, vars
<1>16. mem'[h.lo + h.len] = e
  BY <1>1, <1>2, <1>6, <1>7 DEF SharedInv, MemOK
<1>17. \A g : Known(g)' => Known(g)
  BY <1>6 DEF Known, IsArrayOf
<1>18. ASSUME NEW f \in handles, Known(f), NEW j \in 0 .. f.len - 1
       PROVE  Kept(f, j)' /\ (f = h => mem'[f.lo + j] = mem[f.lo + j])
  <2>1. f \in Handle /\ j \in 0 .. (f.cap - 1) /\ f.lo + j \in 0 .. (Size - 1)
    BY <1>18, CellsInside DEF Handle
  <2>2. Kept(f, j)
    BY <1>18 DEF SharedInv, ElementsKept, Kept
  <2>3. CASE f.lo + j = h.lo + h.len
    <3>1. SameArray(f, h) /\ j = h.len
      BY <1>7, <1>18, <2>1, <2>3, SameCellSameArray
    <3>2. f.len > h.len /\ f # h
      BY <1>2, <1>18, <2>1, <3>1 DEF Handle
    <3>3. <<f.by, f.call, j>> \in replaced'
      BY <1>6, <1>18, <3>1, <3>2 DEF SameArray, r
    <3>4. mem'[f.lo + j] = Element(f.by, f.call, j, v)
      BY <1>16, <2>3, <3>1 DEF SameArray
    <3> QED BY <3>2, <3>3, <3>4 DEF Kept
  <2>4. CASE f.lo + j # h.lo + h.len
    <3>1. mem'[f.lo + j] = mem[f.lo + j]
      BY <1>6, <2>1, <2>4 DEF SharedInv, MemOK
    <3> QED BY <1>6, <2>2, <3>1 DEF Kept
  <2> QED BY <2>3, <2>4
<1>19. ASSUME NEW g \in handles'
       PROVE  Len(g.items) = g.len
  <2>1. CASE g = n
    BY <1>2, <1>8, <2>1 DEF SharedInv, ElementsKept
  <2>2. CASE g \in handles
    BY <2>2 DEF SharedInv, ElementsKept
  <2> QED BY <1>6, <2>1, <2>2
<1>20. ASSUME NEW g \in handles', Known(g)', NEW i \in 0 .. g.len - 1
       PROVE  Kept(g, i)'
  <2>1. CASE g = n
    <3>1. Len(h.items) = h.len
      BY DEF SharedInv, ElementsKept
    <3>2. i = h.len \/ i \in 0 .. h.len - 1
      BY <1>2, <1>8, <2>1
    <3>3. CASE i = h.len
      <4>1. g.items[i + 1] = v
        BY <1>2, <1>8, <2>1, <3>1, <3>3
      <4> QED BY <1>8, <1>16, <2>1, <3>3, <4>1 DEF Kept
    <3>4. CASE i \in 0 .. h.len - 1
      <4>1. g.items[i + 1] = h.items[i + 1]
        <5>1. i + 1 \in 1 .. Len(h.items)
          BY <1>2, <3>1, <3>4
        <5>2. Append(h.items, v)[i + 1] = h.items[i + 1]
          BY <1>2, <5>1
        <5> QED BY <1>8, <2>1, <5>2
      <4>2. Known(h)
        BY <1>8, <1>17, <1>20, <2>1 DEF Known, IsArrayOf
      <4>3. Kept(h, i)'
        BY <1>18, <3>4, <4>2
      <4> QED BY <1>8, <2>1, <4>1, <4>3 DEF Kept
    <3> QED BY <3>2, <3>3, <3>4
  <2>2. CASE g \in handles
    BY <1>17, <1>18, <1>20, <2>2
  <2> QED BY <1>6, <2>1, <2>2
<1>21. ElementsKept'
  BY <1>19, <1>20 DEF ElementsKept, Kept
<1> QED BY <1>11, <1>12, <1>13, <1>14, <1>15, <1>21 DEF SharedInv

\* Handles are added, each of an array its process can reach, and either empty or a
\* copy of one that was there.
LEMMA MoreHandles ==
  ASSUME SharedInv, [Next]_vars, UNCHANGED <<mem, replaced>>, owed' \subseteq Threads,
         \A g \in handles' :
           \/ g \in handles
           \/ /\ g \in Handle /\ g.len <= g.cap
              /\ g.proc \in born' /\ \E a \in allocs'[g.proc] : IsArrayOf(a, g)
              /\ \/ g.len = 0 /\ g.items = <<>>
                 \/ \E h \in handles : /\ g.by = h.by /\ g.call = h.call /\ g.lo = h.lo
                                       /\ g.cap = h.cap /\ g.len = h.len /\ g.items = h.items
  PROVE  SharedInv'
<1>1. /\ IInv' /\ Settled' /\ MadeAtHome'
      /\ \A p \in born : p \in born' /\ allocs[p] \subseteq allocs'[p]
      /\ \A h \in handles : Known(h)' => Known(h)
  BY AllocatorStep
<1>2. Backed'
  BY <1>1 DEF SharedInv, Backed
<1>3. SharedTypeOK' /\ MemOK'
  BY DEF SharedInv, SharedTypeOK, MemOK
<1>4. \A h \in handles : /\ Len(h.items) = h.len
                         /\ Known(h) => \A i \in 0 .. h.len - 1 : Kept(h, i)
  BY DEF SharedInv, ElementsKept, Kept
<1>5. ASSUME NEW g \in handles'
      PROVE  /\ Len(g.items) = g.len
             /\ Known(g)' => \A i \in 0 .. g.len - 1 : Kept(g, i)'
  <2>1. CASE g \in handles
    BY <1>1, <1>4, <2>1 DEF Kept
  <2>2. CASE g.len = 0 /\ g.items = <<>>
    BY <2>2
  <2>3. ASSUME NEW h \in handles, g.by = h.by, g.call = h.call, g.lo = h.lo,
               g.cap = h.cap, g.len = h.len, g.items = h.items
        PROVE  /\ Len(g.items) = g.len
               /\ Known(g)' => \A i \in 0 .. g.len - 1 : Kept(g, i)'
    <3>1. Known(g)' => Known(h)'
      BY <2>3 DEF Known, IsArrayOf
    <3>2. \A i : Kept(h, i) => Kept(g, i)'
      BY <2>3 DEF Kept
    <3> QED BY <1>1, <1>4, <2>3, <3>1, <3>2
  <2> QED BY <2>1, <2>2, <2>3
<1>6. ElementsKept'
  BY <1>5 DEF ElementsKept, Kept
<1> QED BY <1>1, <1>2, <1>3, <1>6 DEF SharedInv

LEMMA ForkSharedInv ==
  ASSUME SharedInv, NEW p \in Procs, NEW q \in Procs, ForkHandles(p, q)
  PROVE  SharedInv'
<1>1. [Next]_vars /\ UNCHANGED <<mem, replaced>> /\ owed' \subseteq Threads
  BY DEF ForkHandles, Next, SharedInv, SharedTypeOK
<1>2. born' = born \cup {q} /\ allocs'[q] = allocs[p]
  BY DEF ForkHandles, Fork, SharedInv, IInv, TypeOK
<1>3. handles' = handles \cup {[h EXCEPT !.proc = q] : h \in {g \in handles : g.proc = p}}
  BY DEF ForkHandles
<1>4. ASSUME NEW h \in handles, h.proc = p, NEW g, g = [h EXCEPT !.proc = q]
      PROVE  /\ g \in Handle /\ g.len <= g.cap
             /\ g.proc \in born' /\ \E a \in allocs'[g.proc] : IsArrayOf(a, g)
             /\ g.by = h.by /\ g.call = h.call /\ g.lo = h.lo
             /\ g.cap = h.cap /\ g.len = h.len /\ g.items = h.items
  <2>1. h \in Handle /\ h.len <= h.cap
    BY CellsInside
  <2>2. /\ g \in Handle /\ g.by = h.by /\ g.call = h.call /\ g.lo = h.lo
        /\ g.len = h.len /\ g.cap = h.cap /\ g.proc = q /\ g.items = h.items
    BY <1>4, <2>1 DEF Handle
  <2>3. PICK a \in allocs[p] : IsArrayOf(a, h)
    BY <1>4 DEF SharedInv, Backed
  <2>4. IsArrayOf(a, g)
    BY <2>2, <2>3 DEF IsArrayOf
  <2> QED BY <1>2, <2>1, <2>2, <2>3, <2>4
<1> QED BY <1>1, <1>3, <1>4, MoreHandles

LEMMA WithCapacitySharedInv ==
  ASSUME SharedInv, NEW t \in Threads, WithCapacity(t)
  PROVE  SharedInv'
<1> DEFINE mine == {b \in allocs[Home[t]] : b.by = t /\ b.call = calls[t]}
           new(a) == [proc |-> Home[t], by |-> t, call |-> a.call, copy |-> 0,
                      lo |-> a.lo, len |-> 0, cap |-> a.size, items |-> <<>>]
<1>1. /\ UNCHANGED vars /\ UNCHANGED <<mem, replaced>> /\ owed' \subseteq Threads
      /\ handles' = handles \cup {new(a) : a \in mine}
  BY DEF WithCapacity, allocVars, vars, SharedInv, SharedTypeOK
<1>2. Home[t] \in Procs
  BY AllocatorAssumption
<1>3. ASSUME NEW a \in mine
      PROVE  /\ new(a) \in Handle /\ new(a).len <= new(a).cap
             /\ new(a).len = 0 /\ new(a).items = <<>>
             /\ new(a).proc \in born /\ a \in allocs[new(a).proc] /\ IsArrayOf(a, new(a))
  <2>1. a \in allocs[Home[t]] /\ a.by = t /\ a \in Allocation
    BY <1>2 DEF SharedInv, IInv, TypeOK
  <2>2. Home[t] \in born
    BY <1>2, <2>1 DEF SharedInv, Settled
  <2>3. a.call \in Nat /\ a.lo \in Nat /\ a.size \in Nat /\ 0 \in 0 .. MaxClones
        /\ <<>> \in Seq(Values)
    BY <2>1, SharedAssumption DEF Allocation
  <2>4. new(a) \in Handle /\ new(a).len <= new(a).cap
    BY <1>2, <2>3 DEF Handle
  <2> QED BY <2>1, <2>2, <2>4 DEF IsArrayOf
<1> HIDE DEF mine, new
<1>4. born' = born /\ allocs' = allocs
  BY <1>1 DEF vars
<1>5. \A g \in handles' : g \in handles \/ \E a \in mine : g = new(a)
  BY <1>1
<1> QED BY <1>1, <1>3, <1>4, <1>5, MoreHandles

LEMMA CloneSharedInv ==
  ASSUME SharedInv, NEW h \in handles, Clone(h)
  PROVE  SharedInv'
<1>1. PICK k \in Unused(h) : handles' = handles \cup {[h EXCEPT !.copy = k]}
  BY DEF Clone
<1>2. /\ UNCHANGED vars /\ UNCHANGED <<born, allocs>> /\ UNCHANGED <<mem, replaced>>
      /\ owed' \subseteq Threads
  BY DEF Clone, allocVars, vars, SharedInv, SharedTypeOK
<1>3. ASSUME NEW g, g = [h EXCEPT !.copy = k]
      PROVE  /\ g \in Handle /\ g.len <= g.cap
             /\ g.proc \in born /\ \E a \in allocs[g.proc] : IsArrayOf(a, g)
             /\ g.by = h.by /\ g.call = h.call /\ g.lo = h.lo
             /\ g.cap = h.cap /\ g.len = h.len /\ g.items = h.items
  <2>1. h \in Handle /\ h.len <= h.cap
    BY CellsInside
  <2>2. k \in 0 .. MaxClones
    BY SharedAssumption DEF Unused
  <2>3. /\ g \in Handle /\ g.by = h.by /\ g.call = h.call /\ g.lo = h.lo
        /\ g.len = h.len /\ g.cap = h.cap /\ g.proc = h.proc /\ g.items = h.items
    BY <1>3, <2>1, <2>2 DEF Handle
  <2>4. h.proc \in born /\ \E a \in allocs[h.proc] : IsArrayOf(a, h)
    BY DEF SharedInv, Backed
  <2>5. \A a : IsArrayOf(a, h) => IsArrayOf(a, g)
    BY <2>3 DEF IsArrayOf
  <2> QED BY <2>1, <2>3, <2>4, <2>5
<1> QED BY <1>1, <1>2, <1>3, MoreHandles

LEMMA NextSharedInv ==
  ASSUME SharedInv, [SharedNext]_allVars
  PROVE  SharedInv'
<1>1. owed \subseteq Threads
  BY DEF SharedInv, SharedTypeOK
<1>2. CASE UNCHANGED allVars
  BY <1>1, <1>2, MoreHandles DEF allVars, vars
<1>3. CASE \E p, q \in Procs : ForkHandles(p, q)
  BY <1>3, ForkSharedInv
<1>4. CASE \E t \in Threads : Ask(t) \/ (Step(t) /\ UNCHANGED sharedVars)
  <2>1. /\ [Next]_vars /\ UNCHANGED <<mem, replaced>> /\ handles' = handles
        /\ owed' \subseteq Threads
    BY <1>1, <1>4 DEF Ask, Next, sharedVars
  <2> QED BY <2>1, MoreHandles
<1>5. CASE \E t \in Threads : WithCapacity(t)
  BY <1>5, WithCapacitySharedInv
<1>6. CASE \E h \in handles : Push(h) \/ Clone(h)
  BY <1>6, PushSharedInv, CloneSharedInv
<1>7. CASE \E h \in handles : Drop(h)
  <2>1. /\ UNCHANGED vars /\ UNCHANGED <<mem, replaced>> /\ owed' = owed
        /\ handles' \subseteq handles
    BY <1>7 DEF Drop, allocVars, vars
  <2> QED BY <1>1, <2>1, MoreHandles
<1> QED
  BY <1>2, <1>3, <1>4, <1>5, <1>6, <1>7 DEF SharedNext

LEMMA SharedInductive == SharedSpec => []SharedInv
BY InitSharedInv, NextSharedInv, PTL DEF SharedSpec

-----------------------------------------------------------------------------
(* Theorems.                                                               *)

\* No handle reaches beyond the array it was made for, whoever pushes, clones, drops or
\* forks, at whatever length.
THEOREM HandlesInBounds == SharedSpec => []SharedTypeOK
BY SharedInductive, PTL DEF SharedInv

\* A vector that all processes that allocate can reach reads back what was pushed, in every
\* clone and every forked copy, whatever else they allocate and fill; only a push through a
\* handle of the same array that was copied earlier puts another element in the place.
THEOREM ElementsStay == SharedSpec => []ElementsKept
BY SharedInductive, PTL DEF SharedInv
=============================================================================
