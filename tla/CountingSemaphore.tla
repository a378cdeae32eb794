-------------------------- MODULE CountingSemaphore --------------------------
(***************************************************************************)
(* What the semaphore of src/src/workloads/semaphore.rs promises: a        *)
(* counter between 0 and Max, and calls that take effect at most once,     *)
(* atomically, and only when the counter leaves room for them. A call may  *)
(* give up only after it has been found not to fit.                        *)
(*                                                                         *)
(* A call is pending from its invocation until it takes effect or gives up *)
(* at its timeout. pend[t] is the set holding t's pending call, if any.    *)
(***************************************************************************)
EXTENDS Integers

CONSTANTS
  Threads,   \* the callers
  Calls,     \* Calls[t]: the calls thread t may make
  Max        \* the maximum count

VARIABLES
  tokens,    \* the count
  pend,      \* pend[t] = {} or {c}, c the call t has invoked
  waiting    \* the threads whose call was found not to fit, since they last woke

vars == <<tokens, pend, waiting>>

Fits(c) == IF c.op = "produce" THEN tokens + c.v <= Max ELSE tokens >= c.v

Init ==
  /\ tokens = 0
  /\ pend = [t \in Threads |-> {}]
  /\ waiting = {}

Invoke(t) ==
  /\ pend[t] = {}
  /\ \E c \in Calls[t] : pend' = [pend EXCEPT ![t] = {c}]
  /\ UNCHANGED <<tokens, waiting>>

Take(t) ==
  \E c \in pend[t] :
    /\ Fits(c)
    /\ tokens' = IF c.op = "produce" THEN tokens + c.v ELSE tokens - c.v
    /\ pend' = [pend EXCEPT ![t] = {}]
    /\ waiting' = waiting \ {t}

Sleep(t) ==
  \E c \in pend[t] :
    /\ ~Fits(c)
    /\ waiting' = waiting \cup {t}
    /\ UNCHANGED <<tokens, pend>>

Wake(W) ==
  /\ waiting' = waiting \ W
  /\ UNCHANGED <<tokens, pend>>

GiveUp(t) ==
  /\ t \in waiting
  /\ \E c \in pend[t] : c.timeout
  /\ pend' = [pend EXCEPT ![t] = {}]
  /\ waiting' = waiting \ {t}
  /\ UNCHANGED tokens

Next ==
  \/ \E t \in Threads : Invoke(t) \/ Take(t) \/ Sleep(t) \/ GiveUp(t)
  \/ \E W \in SUBSET Threads : Wake(W)

Spec == Init /\ [][Next]_vars

\* A call for which there is room, and goes on being room, takes effect.
Fairness == \A t \in Threads : WF_vars(Take(t))
=============================================================================
