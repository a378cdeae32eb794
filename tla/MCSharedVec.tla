----------------------------- MODULE MCSharedVec ------------------------------
(* Vectors and boxes of two threads of the creator and one of a process forked
   from it. *)
EXTENDS SharedVec

CONSTANTS parent, child, t1, t2, t3, v1, v2

HomeOf == [t \in Threads |-> IF t = t3 THEN child ELSE parent]

CallsOf == [t \in Threads |-> 1]

\* The first thread asks for an array, which needs padding after a small object, and the
\* others for such an object.
LayoutsOf == [t \in Threads |->
  {IF t = t1 THEN [size |-> 2, align |-> 2] ELSE [size |-> 1, align |-> 1]}]

\* What the creator pushes through a handle differs from what it pushes through a clone,
\* and from what the child pushes. The child has nothing for the copy of a clone.
GivenOf == [x \in Procs \X (0 .. MaxClones) |->
  IF x = <<child, 1>> THEN {} ELSE IF x = <<parent, 0>> THEN {v1} ELSE {v2}]
=============================================================================
