------------------------------ MODULE SharedVec ------------------------------
(***************************************************************************)
(* SharedVec and SharedBox of src/src/util/shared.rs, and the allocate and *)
(* allocate_vec of src/src/workloads/context.rs, over the bump allocator:  *)
(* what the shared memory holds and what each handle sees of it.           *)
(*                                                                         *)
(* A handle (pointer, length, capacity) is private memory, copied by       *)
(* clone() and by a fork, at whatever length it has; the elements are      *)
(* shared. An element takes one cell, an array as many as its layout; a    *)
(* SharedBox is a vector of one.                                           *)
(***************************************************************************)
EXTENDS BumpAllocator, Sequences

CONSTANTS
  Values,     \* what is pushed
  Blank,      \* what is in memory never written
  MaxClones,  \* bound on the clones that exist at a time
  Given       \* Given[p, k]: what copy k of a handle is given to push in process p

ASSUME SharedAssumption ==
  /\ MaxClones \in Nat
  /\ Given \in [Procs \X (0 .. MaxClones) -> SUBSET Values]

VARIABLES
  mem,      \* the mapping: which element was last written to each cell
  handles,  \* the handles that exist
  owed,     \* the threads whose alloc() has yet to give them a handle
  replaced  \* history: the elements that were pushed through one handle of an array
            \* when another had them already

allocVars == <<born, next, allocs, pc, layout, current, calls>>
sharedVars == <<mem, handles, owed, replaced>>
allVars == <<born, next, allocs, pc, layout, current, calls, mem, handles, owed, replaced>>

\* v as the i-th element of the array that call c of thread t asked for.
Element(t, c, i, v) == [by |-> t, call |-> c, index |-> i, value |-> v]

\* A handle, the original or one of its clones, of one process. Its items are history:
\* what was pushed through it, or through the one it is a copy of before it was copied.
Handle == [proc : Procs, by : Threads, call : Nat, copy : 0 .. MaxClones, lo : Nat, len : Nat,
           cap : Nat, items : Seq(Values)]

SameArray(g, h) == g.by = h.by /\ g.call = h.call

SharedInit ==
  /\ Init
  /\ mem = [a \in 0 .. Size - 1 |-> Blank]
  /\ handles = {} /\ owed = {} /\ replaced = {}

\* SharedVec::with_capacity: the array is asked of the allocator ...
Ask(t) ==
  /\ t \notin owed /\ Invoke(t)
  /\ owed' = owed \cup {t}
  /\ UNCHANGED <<mem, handles, replaced>>

\* ... and alloc() has returned it, or null, which is an error.
WithCapacity(t) ==
  /\ t \in owed /\ pc[t] = "idle"
  /\ owed' = owed \ {t}
  /\ handles' = handles \cup
       {[proc |-> Home[t], by |-> t, call |-> a.call, copy |-> 0, lo |-> a.lo,
         len |-> 0, cap |-> a.size, items |-> <<>>] :
          a \in {b \in allocs[Home[t]] : b.by = t /\ b.call = calls[t]}}
  /\ UNCHANGED <<allocVars, mem, replaced>>

\* v is written behind the last element of h, and h's length raised.
Pushed(h, v) ==
  /\ mem' = [mem EXCEPT ![h.lo + h.len] = Element(h.by, h.call, h.len, v)]
  /\ handles' = (handles \ {h}) \cup
       {[h EXCEPT !.len = h.len + 1, !.items = Append(h.items, v)]}
  /\ replaced' = replaced \cup
       {<<h.by, h.call, h.len>> : g \in {f \in handles : SameArray(f, h) /\ f.len > h.len}}
  /\ UNCHANGED <<allocVars, owed>>

\* Mutant: one element too many.
PushBeyond(h) ==
  /\ h.len <= h.cap /\ h.lo + h.len < Size
  /\ \E v \in Given[h.proc, h.copy] : Pushed(h, v)

\* push. On a full vector it is an error and changes nothing.
Push(h) ==
  /\ h.len # h.cap
  /\ \E v \in Given[h.proc, h.copy] : Pushed(h, v)

\* The clones of a handle that there may be more of.
Unused(h) ==
  {k \in 1 .. MaxClones :
     \A g \in handles : SameArray(g, h) /\ g.proc = h.proc => g.copy # k}

MayClone == Cardinality({g \in handles : g.copy # 0}) < MaxClones

\* Mutant: the clone takes the capacity for its length.
CloneWhole(h) ==
  /\ MayClone
  /\ \E k \in Unused(h) : handles' = handles \cup {[h EXCEPT !.copy = k, !.len = h.cap]}
  /\ UNCHANGED <<allocVars, mem, owed, replaced>>

\* clone: the same memory, and a length of its own.
Clone(h) ==
  /\ MayClone
  /\ \E k \in Unused(h) : handles' = handles \cup {[h EXCEPT !.copy = k]}
  /\ UNCHANGED <<allocVars, mem, owed, replaced>>

\* drop: the elements have no destructor of their own, and the memory stays.
Drop(h) ==
  /\ handles' = handles \ {h}
  /\ UNCHANGED <<allocVars, mem, owed, replaced>>

\* A fork copies the handles, those of vectors that are being filled as well.
ForkHandles(p, q) ==
  /\ Fork(p, q)
  /\ handles' = handles \cup {[h EXCEPT !.proc = q] : h \in {g \in handles : g.proc = p}}
  /\ UNCHANGED <<mem, owed, replaced>>

SharedNext ==
  \/ \E p, q \in Procs : ForkHandles(p, q)
  \/ \E t \in Threads :
       \/ Ask(t) \/ WithCapacity(t)
       \/ Step(t) /\ UNCHANGED sharedVars
  \/ \E h \in handles : Push(h) \/ Clone(h) \/ Drop(h)

SharedSpec == SharedInit /\ [][SharedNext]_allVars

SharedFairSpec ==
  SharedSpec /\ \A t \in Threads : WF_allVars(Step(t) /\ UNCHANGED sharedVars)

-----------------------------------------------------------------------------
(* Properties.                                                             *)

\* The allocation a handle is the array of.
IsArrayOf(a, h) == a.by = h.by /\ a.call = h.call /\ a.lo = h.lo /\ a.size = h.cap

\* Every process that has allocated can reach the array: it has made it or inherited it.
\* One that allocates without knowing of it starts from the next of before it, in the
\* memory that the array is in (shared.rs:18).
Known(h) ==
  \A t \in Threads : calls[t] # 0 => \E a \in allocs[Home[t]] : IsArrayOf(a, h)

\* A vector known to all that allocate reads back what was pushed into it, through the
\* handle or before it was copied, in whatever process, and whatever else is allocated,
\* filled, cloned or forked. Only one thing takes an element away: a push, through a
\* handle of the same array that was copied before it had that element, of another in
\* its place (shared.rs:212-308).
ElementsKept ==
  \A h \in handles :
    /\ Len(h.items) = h.len
    /\ Known(h) => \A i \in 0 .. h.len - 1 :
         \/ mem[h.lo + i] = Element(h.by, h.call, i, h.items[i + 1])
         \/ /\ <<h.by, h.call, i>> \in replaced
            /\ \E v \in Values : mem[h.lo + i] = Element(h.by, h.call, i, v)

\* Type invariant, and no handle reaches beyond the array it was made for.
SharedTypeOK ==
  /\ \A a \in DOMAIN mem : mem[a] = Blank \/ mem[a] \in
       [by : Threads, call : Nat, index : Nat, value : Values]
  /\ handles \subseteq Handle /\ \A h \in handles : h.len <= h.cap
  /\ owed \subseteq Threads
  /\ replaced \subseteq Threads \X Nat \X Nat
=============================================================================
