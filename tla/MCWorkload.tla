----------------------------- MODULE MCWorkload -----------------------------
(* Instances of Workload for TLC. *)
EXTENDS Workload

CONSTANTS a, b   \* semaphores

P(s) == [op |-> "produce", sem |-> s, all |-> FALSE]
C(s) == [op |-> "consume", sem |-> s, all |-> FALSE]

None == [i \in Procs |-> <<>>]
Always == [i \in Procs |-> TRUE]
LimitOne == [s \in Sems |-> 1]
LimitTwo == [s \in Sems |-> 2]

\* cases/fairness.rs and topology.rs spread_out: a process that needs no other
\* (1); cases/latency.rs adaptive_priority: one with a second thread (2).
AloneBody == [i \in Procs |-> IF i = 1 THEN <<>> ELSE <<P(a), C(b)>>]
AloneHelper == [i \in Procs |-> IF i = 1 THEN <<>> ELSE <<C(a), P(b)>>]
Alone ==
  [body |-> AloneBody, perIter |-> Always, helper |-> AloneHelper,
   iters |-> {0, 1}, mortal |-> Procs]

\* cases/basic.rs ping_pong. Its processes wait for each other, so that only the
\* first, which the parent waits for first, may die.
PingPongBody == [i \in Procs |-> IF i = 1 THEN <<P(a), C(b)>> ELSE <<P(b), C(a)>>]
PingPong ==
  [body |-> PingPongBody, perIter |-> Always, helper |-> None,
   iters |-> {0, 1, 3}, mortal |-> {1}]

\* cases/topology.rs come_together on two cores: wakeup.produce(iters, iters).
ComeTogetherBody ==
  [i \in Procs |-> <<[op |-> "produce", sem |-> a, all |-> TRUE]>>]
ComeTogether ==
  [body |-> ComeTogetherBody, perIter |-> [i \in Procs |-> FALSE], helper |-> None,
   iters |-> {1, 2}, mortal |-> {}]

Independent == {Alone, PingPong}
Together == {ComeTogether}

\* What RoundsDrain in WorkloadProofs asks of the cases; come_together has no takers.
ASSUME TokensAreTaken == Cases = Independent => \A c \in Cases : Balanced(c)
=============================================================================
