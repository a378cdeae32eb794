---------------------------- MODULE MCSemaphore -----------------------------
(* Instances of Semaphore for TLC. *)
EXTENDS Semaphore, TLC

CONSTANTS p, c, d   \* threads

Call(op, v, wake, timeout) ==
  [op |-> op, v |-> v, wake |-> wake, timeout |-> timeout]

\* A producer and a consumer that wake one thread, as Process::start and
\* Context::wait do.
LatencyCalls ==
  (p :> {Call("produce", 1, 1, FALSE)}) @@ (c :> {Call("consume", 1, 1, FALSE)})

\* The same, with and without a timeout; and the producer also consumes, and gives
\* up: it leaves the waiter bit behind, and so can reset the timers again and again
\* while the consumer has yet to read the one that it was woken for.
PairCalls ==
  (p :> {Call("produce", 1, 1, FALSE), Call("consume", 1, 1, TRUE)}) @@
  (c :> {Call("consume", 1, 1, timeout) : timeout \in BOOLEAN})

\* Two consumers of different amounts and a producer; every call wakes all.
ManyCalls ==
  (p :> {Call("produce", 2, 2, FALSE), Call("produce", 1, 2, TRUE)}) @@
  (c :> {Call("consume", 1, 2, FALSE)}) @@
  (d :> {Call("consume", 2, 2, FALSE), Call("produce", 1, 2, FALSE)})

\* Bounds on the calls: the same for all threads, or many and one.
Two == [t \in Threads |-> 2]
SevenAndOne == [t \in Threads |-> IF t = p THEN 7 ELSE 1]
=============================================================================
