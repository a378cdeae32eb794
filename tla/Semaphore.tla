----------------------------- MODULE Semaphore ------------------------------
(***************************************************************************)
(* The futex semaphore of src/src/workloads/semaphore.rs together with the *)
(* SplitTimer of src/src/util/clock.rs that it measures wake-ups with.     *)
(*                                                                         *)
(* One action is one access to shared memory (or one futex call) of one    *)
(* thread. The word `count` is a u32 whose top bit, WAITER, says that some *)
(* thread may be asleep; the model keeps the word as its two parts. Times  *)
(* are abstracted to the number of the reset() that stored them, which is  *)
(* what tells one wake-up from another.                                    *)
(***************************************************************************)
EXTENDS Integers, FiniteSets

CONSTANTS
  Threads,   \* threads, of one process or of several, that share the semaphore
  Calls,     \* Calls[t]: the produce and consume calls thread t may make
  Max,       \* the maximum count, after new() has masked the top bit off
  WAITER,    \* the waiter bit: 2^31 in the code, so a word is below 2 * WAITER
  S,         \* number of timers of the SplitTimer; 0 turns timing off
  R,         \* size of the reservoir; 0 turns sampling off
  MaxCalls   \* MaxCalls[t]: bound on the calls thread t makes

Word == [amount : 0 .. (WAITER - 1), waiter : BOOLEAN]

CallType ==
  [op : {"produce", "consume"}, v : 0 .. (2 * WAITER - 1),
   wake : Nat \ {0}, timeout : BOOLEAN]

ASSUME SemaphoreAssumption ==
  /\ IsFiniteSet(Threads)
  /\ WAITER \in Nat \ {0}
  /\ Max \in 0 .. (WAITER - 1)
  /\ S \in Nat /\ R \in Nat /\ MaxCalls \in [Threads -> Nat]
  /\ Calls \in [Threads -> SUBSET CallType]

VARIABLES
  count,     \* the futex word
  pc,        \* where each thread is in its call
  call,      \* each thread's arguments
  cur,       \* each thread's last view of count
  calls,     \* calls made by each thread
  index,     \* SplitTimer.index
  timers,    \* SplitTimer.timers: the reset each timer was last stamped by, or -1
  cookie,    \* each waiter's cookie
  orig,      \* each waker's orig_index
  seen,      \* the stamp each woken thread read from its timer
  reservoir  \* the samples taken: the cookie asked for and the stamp measured from

futexVars == <<count, pc, call, cur, calls>>
timerVars == <<index, timers, cookie, orig, seen, reservoir>>
vars == <<count, pc, call, cur, calls, index, timers, cookie, orig, seen, reservoir>>

\* The threads blocked in FUTEX_WAIT, and those between the compare-exchange
\* that cleared the waiter bit and the FUTEX_WAKE it owes the sleepers.
Asleep == {t \in Threads : pc[t] = "asleep"}
WakeDue == {"reset", "stamp", "wake"}
\* A call that has not yet taken effect nor given up.
Blocked == {"load", "commit", "mark", "cookie", "wait", "asleep",
            "woken", "check", "sample"}

Jump(t, label) == pc' = [pc EXCEPT ![t] = label]

-----------------------------------------------------------------------------
(* The arithmetic of a call on the amount.                                 *)

\* u32 addition: it wraps in a release build (and panics in a debug build).
Sum(a, v) == (a + v) % (2 * WAITER)

\* Mutant: the bound is off by one.
FitsOneMore(c, a) == IF c.op = "produce" THEN Sum(a, c.v) <= Max + 1 ELSE a >= c.v

Fits(c, a) == IF c.op = "produce" THEN Sum(a, c.v) <= Max ELSE a >= c.v

After(c, a) == IF c.op = "produce" THEN Sum(a, c.v) ELSE a - c.v

-----------------------------------------------------------------------------
IdleCall == [op |-> "consume", v |-> 0, wake |-> 1, timeout |-> FALSE]

Init ==
  /\ count = [amount |-> 0, waiter |-> FALSE]
  /\ pc = [t \in Threads |-> "idle"]
  /\ call = [t \in Threads |-> IdleCall]
  /\ cur = [t \in Threads |-> [amount |-> 0, waiter |-> FALSE]]
  /\ calls = [t \in Threads |-> 0]
  /\ index = 0
  /\ timers = [i \in 0 .. (S - 1) |-> -1]
  /\ cookie = [t \in Threads |-> 0]
  /\ orig = [t \in Threads |-> 0]
  /\ seen = [t \in Threads |-> -1]
  /\ reservoir = {}

\* produce(v, wake, timeout) or consume(v, wake, timeout) is entered.
Invoke(t) ==
  /\ pc[t] = "idle"
  /\ calls[t] < MaxCalls[t]
  /\ \E c \in Calls[t] : call' = [call EXCEPT ![t] = c]
  /\ calls' = [calls EXCEPT ![t] = @ + 1]
  /\ Jump(t, "load")
  /\ UNCHANGED <<count, cur, timerVars>>

\* Mutant: a waiter goes to sleep without announcing itself.
LoadUnmarked(t) ==
  /\ pc[t] = "load"
  /\ cur' = [cur EXCEPT ![t] = count]
  /\ Jump(t, IF Fits(call[t], count.amount) THEN "commit" ELSE "cookie")
  /\ UNCHANGED <<count, call, calls, timerVars>>

\* cur = self.count.load(Acquire), and the branch taken on it.
Load(t) ==
  /\ pc[t] = "load"
  /\ cur' = [cur EXCEPT ![t] = count]
  /\ Jump(t, IF Fits(call[t], count.amount) THEN "commit"
             ELSE IF count.waiter THEN "cookie" ELSE "mark")
  /\ UNCHANGED <<count, call, calls, timerVars>>

\* Mutant: a plain store takes the place of the compare-exchange.
CommitBlind(t) ==
  /\ pc[t] = "commit"
  /\ count' = [amount |-> After(call[t], cur[t].amount), waiter |-> FALSE]
  /\ Jump(t, IF ~cur[t].waiter THEN "idle" ELSE IF S = 0 THEN "wake" ELSE "reset")
  /\ UNCHANGED <<call, cur, calls, timerVars>>

\* Mutant: the waiter bit is cleared and nobody is woken.
CommitSilent(t) ==
  /\ pc[t] = "commit"
  /\ count = cur[t]
  /\ count' = [amount |-> After(call[t], cur[t].amount), waiter |-> FALSE]
  /\ Jump(t, "idle")
  /\ UNCHANGED <<call, cur, calls, timerVars>>

\* The compare_exchange_weak that takes effect: it stores the new amount with
\* the waiter bit clear, and owes a wake-up if the bit was set.
Commit(t) ==
  /\ pc[t] = "commit"
  /\ count = cur[t]
  /\ count' = [amount |-> After(call[t], cur[t].amount), waiter |-> FALSE]
  /\ Jump(t, IF ~cur[t].waiter THEN "idle" ELSE IF S = 0 THEN "wake" ELSE "reset")
  /\ UNCHANGED <<call, cur, calls, timerVars>>

\* The compare_exchange_weak that announces a waiter.
MarkWaiter(t) ==
  /\ pc[t] = "mark"
  /\ count = cur[t]
  /\ count' = [count EXCEPT !.waiter = TRUE]
  /\ cur' = [cur EXCEPT ![t].waiter = TRUE]
  /\ Jump(t, "cookie")
  /\ UNCHANGED <<call, calls, timerVars>>

\* Either compare_exchange_weak may fail: the word has changed, or spuriously.
CasFail(t) ==
  /\ pc[t] \in {"commit", "mark"}
  /\ Jump(t, "load")
  /\ UNCHANGED <<count, call, cur, calls, timerVars>>

\* let cookie = self.wake.cookie()
Cookie(t) ==
  /\ pc[t] = "cookie"
  /\ cookie' = [cookie EXCEPT ![t] = index]
  /\ Jump(t, "wait")
  /\ UNCHANGED <<count, call, cur, calls, index, timers, orig, seen, reservoir>>

\* Mutant: the thread sleeps without comparing the word again.
FutexWaitBlind(t) ==
  /\ pc[t] = "wait"
  /\ Jump(t, "asleep")
  /\ UNCHANGED <<count, call, cur, calls, timerVars>>

\* FUTEX_WAIT: sleep if the word still is the expected one, else EAGAIN.
FutexWait(t) ==
  /\ pc[t] = "wait"
  /\ Jump(t, IF count = cur[t] THEN "asleep" ELSE "load")
  /\ UNCHANGED <<count, call, cur, calls, timerVars>>

\* FUTEX_WAIT returns ETIMEDOUT: the call returns false, the waiter bit stays.
Timeout(t) ==
  /\ pc[t] = "asleep"
  /\ call[t].timeout
  /\ Jump(t, "idle")
  /\ UNCHANGED <<count, call, cur, calls, timerVars>>

\* FUTEX_WAIT returns EINTR: the loop starts over.
Interrupt(t) ==
  /\ pc[t] = "asleep"
  /\ Jump(t, "load")
  /\ UNCHANGED <<count, call, cur, calls, timerVars>>

\* self.wake.reset(), first half: index.fetch_add(1).
ResetIndex(t) ==
  /\ pc[t] = "reset"
  /\ orig' = [orig EXCEPT ![t] = index]
  /\ index' = index + 1
  /\ Jump(t, "stamp")
  /\ UNCHANGED <<count, call, cur, calls, timers, cookie, seen, reservoir>>

\* self.wake.reset(), second half: the timer claimed by fetch_add is stamped.
StampTimer(t) ==
  /\ pc[t] = "stamp"
  /\ timers' = [timers EXCEPT ![orig[t] % S] = orig[t]]
  /\ Jump(t, "wake")
  /\ UNCHANGED <<count, call, cur, calls, index, cookie, orig, seen, reservoir>>

\* Mutant: the wake argument is ignored.
FutexWakeOne(t) ==
  /\ pc[t] = "wake"
  /\ \E W \in SUBSET Asleep :
       /\ Cardinality(W) = IF Asleep = {} THEN 0 ELSE 1
       /\ pc' = [u \in Threads |->
                   IF u = t THEN "idle" ELSE IF u \in W THEN "woken" ELSE pc[u]]
  /\ UNCHANGED <<count, call, cur, calls, timerVars>>

\* FUTEX_WAKE wakes as many sleepers as it is asked to, if there are as many.
FutexWake(t) ==
  /\ pc[t] = "wake"
  /\ \E W \in SUBSET Asleep :
       /\ \/ Cardinality(W) = call[t].wake
          \/ W = Asleep /\ Cardinality(W) <= call[t].wake
       /\ pc' = [u \in Threads |->
                   IF u = t THEN "idle" ELSE IF u \in W THEN "woken" ELSE pc[u]]
  /\ UNCHANGED <<count, call, cur, calls, timerVars>>

\* FUTEX_WAIT has returned 0: elapsed(cookie) reads the cookie's timer ...
ReadTimer(t) ==
  /\ pc[t] = "woken"
  /\ IF S = 0 THEN /\ Jump(t, "load")
                   /\ UNCHANGED seen
              ELSE /\ seen' = [seen EXCEPT ![t] = timers[cookie[t] % S]]
                   /\ Jump(t, "check")
  /\ UNCHANGED <<count, call, cur, calls, index, timers, cookie, orig, reservoir>>

\* Mutant: the test of the cookie's age is off by one lap.
CheckCookieLate(t) ==
  /\ pc[t] = "check"
  /\ Jump(t, IF index >= cookie[t] + 2 * S \/ R = 0 THEN "load" ELSE "sample")
  /\ UNCHANGED <<count, call, cur, calls, timerVars>>

\* ... and then the index, to tell whether the cookie is too old.
CheckCookie(t) ==
  /\ pc[t] = "check"
  /\ Jump(t, IF index >= cookie[t] + S \/ R = 0 THEN "load" ELSE "sample")
  /\ UNCHANGED <<count, call, cur, calls, timerVars>>

\* self.reservoir.sample(elapsed)
TakeSample(t) ==
  /\ pc[t] = "sample"
  /\ reservoir' = reservoir \cup {[cookie |-> cookie[t], stamp |-> seen[t]]}
  /\ Jump(t, "load")
  /\ UNCHANGED <<count, call, cur, calls, index, timers, cookie, orig, seen>>

\* The steps a running thread takes by itself.
Step(t) ==
  \/ Load(t) \/ Commit(t) \/ MarkWaiter(t) \/ CasFail(t)
  \/ Cookie(t) \/ FutexWait(t)
  \/ ResetIndex(t) \/ StampTimer(t) \/ FutexWake(t)
  \/ ReadTimer(t) \/ CheckCookie(t) \/ TakeSample(t)

Next == \E t \in Threads : Invoke(t) \/ Step(t) \/ Timeout(t) \/ Interrupt(t)

Spec == Init /\ [][Next]_vars

\* Every runnable thread is scheduled and the kernel's timeouts fire. A weak
\* compare-exchange that is retried for ever succeeds for ever too: the
\* architectures on which it fails spuriously do not fail it always.
Fairness ==
  \A t \in Threads : /\ WF_vars(Step(t))
                     /\ WF_vars(Timeout(t))
                     /\ SF_vars(Commit(t))
                     /\ SF_vars(MarkWaiter(t))

FairSpec == Spec /\ Fairness

-----------------------------------------------------------------------------
(* Properties.                                                             *)

Stamps == Nat \cup {-1}

PcType == Blocked \cup WakeDue \cup {"idle"}

\* Type invariant; it includes that produce never exceeds the maximum given to
\* new() and that a consume never makes the unsigned count go below zero.
TypeOK ==
  /\ count \in [amount : 0 .. Max, waiter : BOOLEAN]
  /\ pc \in [Threads -> PcType]
  /\ call \in [Threads -> CallType]
  /\ cur \in [Threads -> [amount : 0 .. Max, waiter : BOOLEAN]]
  /\ calls \in [Threads -> Nat]
  /\ index \in Nat
  /\ timers \in [0 .. (S - 1) -> Stamps]
  /\ cookie \in [Threads -> Nat]
  /\ orig \in [Threads -> Nat]
  /\ seen \in [Threads -> Stamps]
  /\ reservoir \subseteq [cookie : Nat, stamp : Stamps]

\* No wake-up is lost: a thread sleeps on a count that suffices for its call
\* only while some thread still owes the FUTEX_WAKE of a change it has made.
\* (consume and produce: the waiter bit, the compare-exchange that clears it
\* and the comparison inside FUTEX_WAIT.)
NoLostWakeup ==
  \A t \in Asleep :
    Fits(call[t], count.amount) => \E u \in Threads : pc[u] \in WakeDue

\* "This method will block until sufficient count is available or timeout
\* occurs": a call without a timeout is not left asleep, with sufficient count
\* available, by threads that have all finished theirs.
BlocksOnlyWhileShort ==
  \A t \in Asleep :
    (~call[t].timeout /\ \A u \in Threads \ {t} : pc[u] = "idle")
      => ~Fits(call[t], count.amount)

\* A waiter never samples from a timer that a later lap of the timer ring has
\* stamped over: elapsed() reads the timer before it reads the index, and so
\* its test of the cookie's age covers the value it has read.
NoOverwrittenSample ==
  \A s \in reservoir : s.stamp <= s.cookie

\* elapsed(cookie) is "the elapsed time since the timer was reset for the given
\* cookie", or None: each sample is measured from the reset of its own cookie.
SampleFresh ==
  \A s \in reservoir : s.stamp = s.cookie

\* What a thread knows of the word it last read: a thread about to store a new
\* amount has read one that fits, a thread that waits has read one that does
\* not, with the waiter bit set; and a word that has changed under a sleeper
\* has been changed by a thread that owes a wake-up. With TypeOK it is the
\* inductive invariant behind NoLostWakeup.
Decided ==
  \A t \in Threads :
    /\ pc[t] # "idle" => call[t] \in Calls[t]
    /\ pc[t] = "commit" => Fits(call[t], cur[t].amount)
    /\ pc[t] = "mark" => ~cur[t].waiter
    /\ pc[t] \in {"mark", "cookie", "wait", "asleep"} => ~Fits(call[t], cur[t].amount)
    /\ pc[t] \in {"cookie", "wait", "asleep"} => cur[t].waiter

ChangeOwed ==
  \A t \in Asleep : count # cur[t] => \E u \in Threads : pc[u] \in WakeDue

IInv == TypeOK /\ Decided /\ ChangeOwed

\* What makes NoOverwrittenSample inductive: timer i holds the stamp of a reset
\* already counted in index whose number is i modulo S, and so does what a woken
\* thread has read of its cookie's timer.
TimersOrdered ==
  /\ \A i \in 0 .. (S - 1) : timers[i] # -1 => timers[i] < index /\ timers[i] % S = i
  /\ \A t \in Threads :
       /\ pc[t] \in {"reset", "stamp", "check", "sample"} => S # 0
       /\ pc[t] = "stamp" => orig[t] < index
       /\ pc[t] = "check" =>
            seen[t] = -1 \/ (seen[t] < index /\ seen[t] % S = cookie[t] % S)
       /\ pc[t] = "sample" => seen[t] <= cookie[t]
  /\ NoOverwrittenSample

\* The semaphore as its callers see it: the count, and the calls not yet
\* returned from. A call takes effect at its successful compare-exchange.
CS == INSTANCE CountingSemaphore WITH
        tokens <- count.amount,
        waiting <- Asleep,
        pend <- [t \in Threads |-> IF pc[t] \in Blocked THEN {call[t]} ELSE {}]

\* Every call takes effect atomically, at most once and only when it fits, and
\* one that returns false had a timeout, has been found not to fit since it last
\* woke, and took no effect.
Linearizable == CS!Spec

\* No call goes on being pending for ever while the count has room for it.
NeverStarved == CS!Fairness
=============================================================================
