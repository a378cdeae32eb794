--------------------------- MODULE BumpAllocator ----------------------------
(***************************************************************************)
(* The bump allocator of src/src/util/shared.rs over the memory mapping of *)
(* src/src/util/memfd.rs, with the threads that allocate from it and the   *)
(* processes forked from the one that created it.                          *)
(*                                                                         *)
(* The mapping is shared by all these processes, but the allocator itself  *)
(* lives in each one's private memory: a fork copies `next`. Addresses are *)
(* offsets into the mapping.                                               *)
(***************************************************************************)
EXTENDS Integers, FiniteSets

CONSTANTS
  Procs,     \* processes
  Creator,   \* the process that calls BumpAllocator::new
  Threads,   \* threads that allocate
  Home,      \* Home[t]: the process of thread t
  Layouts,   \* Layouts[t]: those thread t may ask for
  Requested, \* the size asked of BumpAllocator::new
  Page,      \* the page size
  Base,      \* the address of the mapping, a multiple of Page
  MaxCalls   \* MaxCalls[t]: bound on the calls thread t makes

ASSUME AllocatorAssumption ==
  /\ Creator \in Procs
  /\ Home \in [Threads -> Procs]
  /\ Layouts \in [Threads -> SUBSET [size : Nat, align : Nat \ {0}]]
  /\ Requested \in Nat /\ Page \in Nat \ {0} /\ MaxCalls \in [Threads -> Nat]
  /\ Base \in Nat

VARIABLES
  born,      \* the processes that exist
  next,      \* BumpAllocator.next in each process
  allocs,    \* the allocations each process can reach: its own and those it inherited
  pc,        \* where each thread is in alloc()
  layout,    \* each thread's argument
  current,   \* the value of next each thread has loaded
  calls      \* calls made by each thread

vars == <<born, next, allocs, pc, layout, current, calls>>

\* x rounded up to a multiple of n: (x + n - 1) & !(n - 1), n a power of two. A
\* Layout's size rounded up is at most isize::MAX, so the sums do not wrap.
RoundUp(x, n) == ((x + n - 1) \div n) * n

\* MemFd::create: the size of the mapping.
Size == RoundUp(Requested, Page)

Init ==
  /\ born = {Creator}
  /\ next = [p \in Procs |-> 0]
  /\ allocs = [p \in Procs |-> {}]
  /\ pc = [t \in Threads |-> "idle"]
  /\ layout = [t \in Threads |-> [size |-> 0, align |-> 1]]
  /\ current = [t \in Threads |-> 0]
  /\ calls = [t \in Threads |-> 0]

\* A child is forked, with a copy of the parent's memory.
Fork(p, q) ==
  /\ p \in born /\ q \notin born
  /\ born' = born \cup {q}
  /\ next' = [next EXCEPT ![q] = next[p]]
  /\ allocs' = [allocs EXCEPT ![q] = allocs[p]]
  /\ UNCHANGED <<pc, layout, current, calls>>

\* alloc(layout) is entered.
Invoke(t) ==
  /\ pc[t] = "idle" /\ Home[t] \in born
  /\ calls[t] < MaxCalls[t]
  /\ calls' = [calls EXCEPT ![t] = @ + 1]
  /\ \E l \in Layouts[t] : layout' = [layout EXCEPT ![t] = l]
  /\ pc' = [pc EXCEPT ![t] = "load"]
  /\ UNCHANGED <<born, next, allocs, current>>

\* Mutant: no padding.
Unaligned(t, c) == c

\* The offset a thread that has loaded c would return.
Aligned(t, c) == RoundUp(c, layout[t].align)

\* Mutant: the end of the mapping is off by one.
LoadOneOver(t) ==
  /\ pc[t] = "load"
  /\ current' = [current EXCEPT ![t] = next[Home[t]]]
  /\ pc' = [pc EXCEPT ![t] =
              IF Aligned(t, next[Home[t]]) + layout[t].size > Size + 1 THEN "idle" ELSE "swap"]
  /\ UNCHANGED <<born, next, allocs, layout, calls>>

\* current = self.next.load(), and null if there is not enough space.
Load(t) ==
  /\ pc[t] = "load"
  /\ current' = [current EXCEPT ![t] = next[Home[t]]]
  /\ pc' = [pc EXCEPT ![t] =
              IF Aligned(t, next[Home[t]]) + layout[t].size > Size THEN "idle" ELSE "swap"]
  /\ UNCHANGED <<born, next, allocs, layout, calls>>

\* The allocation a successful compare-exchange makes.
Claim(t) ==
  [by |-> t, call |-> calls[t], lo |-> Aligned(t, current[t]),
   size |-> layout[t].size, align |-> layout[t].align]

\* Mutant: next is stored without comparing.
SwapBlind(t) ==
  /\ pc[t] = "swap"
  /\ next' = [next EXCEPT ![Home[t]] = Aligned(t, current[t]) + layout[t].size]
  /\ allocs' = [allocs EXCEPT ![Home[t]] = @ \cup {Claim(t)}]
  /\ pc' = [pc EXCEPT ![t] = "idle"]
  /\ UNCHANGED <<born, layout, current, calls>>

\* self.next.compare_exchange(current, aligned + size) succeeds ...
Swap(t) ==
  /\ pc[t] = "swap" /\ next[Home[t]] = current[t]
  /\ next' = [next EXCEPT ![Home[t]] = Aligned(t, current[t]) + layout[t].size]
  /\ allocs' = [allocs EXCEPT ![Home[t]] = @ \cup {Claim(t)}]
  /\ pc' = [pc EXCEPT ![t] = "idle"]
  /\ UNCHANGED <<born, layout, current, calls>>

\* Mutant: it gives up when another thread was faster.
RetryNever(t) ==
  /\ pc[t] = "swap" /\ next[Home[t]] # current[t]
  /\ UNCHANGED vars

\* Mutant: a weak compare-exchange, which fails without cause as well.
RetryWeak(t) ==
  /\ pc[t] = "swap"
  /\ pc' = [pc EXCEPT ![t] = "load"]
  /\ UNCHANGED <<born, next, allocs, layout, current, calls>>

\* ... or fails, and alloc calls itself again.
Retry(t) ==
  /\ pc[t] = "swap" /\ next[Home[t]] # current[t]
  /\ pc' = [pc EXCEPT ![t] = "load"]
  /\ UNCHANGED <<born, next, allocs, layout, current, calls>>

Step(t) == Load(t) \/ Swap(t) \/ Retry(t)

Next ==
  \/ \E p, q \in Procs : Fork(p, q)
  \/ \E t \in Threads : Invoke(t) \/ Step(t)

Spec == Init /\ [][Next]_vars

FairSpec == Spec /\ \A t \in Threads : WF_vars(Step(t))

-----------------------------------------------------------------------------
(* Properties.                                                             *)

Allocation ==
  [by : Threads, call : Nat, lo : Nat, size : Nat, align : Nat \ {0}]

\* Type invariant; next never passes the end of the mapping, so available()
\* does not go below zero.
TypeOK ==
  /\ born \subseteq Procs
  /\ next \in [Procs -> 0 .. Size]
  /\ allocs \in [Procs -> SUBSET Allocation]
  /\ pc \in [Threads -> {"idle", "load", "swap"}]
  /\ layout \in [Threads -> [size : Nat, align : Nat \ {0}]]
  /\ current \in [Threads -> Nat]
  /\ calls \in [Threads -> Nat]

Overlap(a, b) == a.lo < b.lo + b.size /\ b.lo < a.lo + a.size

\* No two allocations a process can reach overlap, whichever of its threads made
\* them and whether before or after the fork.
Disjoint ==
  \A p \in Procs : \A a, b \in allocs[p] : a # b => ~Overlap(a, b)

\* Every allocation lies inside the mapping, at an address its layout admits.
WellPlaced ==
  \A p \in Procs : \A a \in allocs[p] :
    /\ a.lo + a.size <= Size
    /\ (Base + a.lo) % a.align = 0

\* A call of alloc tries again only because next has moved up since it loaded it, never
\* because it has come back to less: it retries at most Size times, and the compare-
\* exchange has no ABA (shared.rs:57-88).
RetriesGain ==
  [][\A t \in Threads :
       pc[t] = "swap" /\ pc'[t] = "load" => current[t] < next[Home[t]]]_vars

\* alloc() returns: no thread retries for ever, so that it comes to be idle again.
AllocReturns == \A t \in Threads : []<>(pc[t] = "idle")

\* What makes Disjoint and WellPlaced inductive: everything a process can reach
\* lies below its next, and a thread about to swap has found that it fits.
Bounded ==
  /\ \A p \in Procs : \A a \in allocs[p] : a.lo + a.size <= next[p]
  /\ \A t \in Threads :
       pc[t] = "swap" => Aligned(t, current[t]) + layout[t].size <= Size
=============================================================================
