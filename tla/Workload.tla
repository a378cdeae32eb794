------------------------------ MODULE Workload ------------------------------
(***************************************************************************)
(* A test case driving its worker processes: Context and Process of        *)
(* src/src/workloads/context.rs and process.rs, the Cgroup of each process *)
(* (src/src/util/cgroups.rs), and the worker functions that src/src/cases  *)
(* gives them.                                                             *)
(*                                                                         *)
(* The semaphores are those of CountingSemaphore: each is used by one      *)
(* producer and one consumer that wake one thread, for which Semaphore is  *)
(* proved to implement it. A call of theirs is one action here, enabled    *)
(* when it fits.                                                           *)
(***************************************************************************)
EXTENDS Integers, Sequences, SequencesExt

CONSTANTS
  N,          \* number of processes, numbered in the order of Context::add
  Sems,       \* the semaphores the worker functions share
  Limit,      \* Limit[s]: the maximum of semaphore s
  Cases,      \* the test cases, of which one runs
  MaxRounds   \* bound on the rounds it runs

Procs == 1 .. N

\* A semaphore call of a worker, of one token or of as many as its iterations.
Op == [op : {"produce", "consume"}, sem : Sems, all : BOOLEAN]

\* A test case has: the semaphore calls of each process (body), whether it makes them
\* once per iteration or only once (perIter), those its second thread repeats for ever
\* (helper), the iteration counts of a round (iters), and the processes that may die
\* by themselves (mortal).

ASSUME WorkloadAssumption ==
  /\ N \in Nat \ {0} /\ MaxRounds \in Nat
  /\ Limit \in [Sems -> Nat]
  /\ \A c \in Cases :
       /\ DOMAIN c = {"body", "perIter", "helper", "iters", "mortal"}
       /\ c.body \in [Procs -> Seq(Op)] /\ c.helper \in [Procs -> Seq(Op)]
       /\ c.perIter \in [Procs -> BOOLEAN]
       /\ c.iters \subseteq Nat /\ c.mortal \subseteq Procs

VARIABLES
  case,       \* the test case
  ppc,        \* where the parent is
  cur,        \* the process its loop is at
  creating,   \* whether it is still creating processes
  failed,     \* whether a wait has returned an error
  running,    \* Context.running
  iters,      \* Process.iters of each process
  start,      \* the count of Process.start of each process
  ready,      \* the count of Process.ready of each process
  cpc,        \* where each process is
  cgroups,    \* the processes whose cgroup exists
  got,        \* the iterations each process has taken for this round
  left,       \* those it has left
  at,         \* the next call of its body
  hat,        \* the next call of its helper
  count,      \* the counts of the workers' semaphores
  killed,     \* the processes sent SIGKILL
  rounds,     \* history: the iterations of each round the parent has begun
  done        \* history: the iterations of each round a process has completed

parentVars == <<ppc, cur, creating, failed, running>>
handshakeVars == <<iters, start, ready>>
workVars == <<cgroups, got, left, at>>
history == <<rounds, done>>
vars == <<case, ppc, cur, creating, failed, running, iters, start, ready, cpc,
          cgroups, got, left, at, hat, count, killed, rounds, done>>

Alive(i) == cpc[i] \notin {"unborn", "zombie", "reaped"}

Init ==
  /\ case \in Cases
  /\ ppc = "fork" /\ cur = 1 /\ creating = TRUE /\ failed = FALSE /\ running = FALSE
  /\ iters = [i \in Procs |-> 0]
  /\ start = [i \in Procs |-> 0] /\ ready = [i \in Procs |-> 0]
  /\ cpc = [i \in Procs |-> "unborn"]
  /\ cgroups = {}
  /\ got = [i \in Procs |-> 0] /\ left = [i \in Procs |-> 0]
  /\ at = [i \in Procs |-> 1] /\ hat = [i \in Procs |-> 1]
  /\ count = [s \in Sems |-> 0]
  /\ killed = {}
  /\ rounds = <<>> /\ done = [i \in Procs |-> <<>>]

-----------------------------------------------------------------------------
(* The parent.                                                             *)

\* Go(label, i): the parent's loop goes to a place and a process.
Go(label, i) == ppc' = label /\ cur' = i

\* Cgroup::create makes a directory of a name of its own.
MakeCgroup(i) == cgroups' = cgroups \cup {i}

\* Process::create, up to its wait.
Fork ==
  /\ ppc = "fork"
  /\ MakeCgroup(cur)
  /\ cpc' = [cpc EXCEPT ![cur] = "setup"]
  /\ Go("wait", cur)
  /\ UNCHANGED <<creating, failed, running, handshakeVars, got, left, at, hat, count,
                 killed, history>>

\* Process::create fails before there is a process: no cgroup, no shared memory
\* left, or no clone. The cgroup is dropped, if there is one. The case returns the
\* error and drops its Context.
CreateFails ==
  /\ ppc = "fork"
  /\ Go("kill", 1)
  /\ UNCHANGED <<creating, failed, running, handshakeVars, cpc, workVars, hat, count,
                 killed, history>>

\* Mutant: the token is looked at and not consumed.
PeekReady ==
  /\ ppc \in {"wait", "asleep"}
  /\ ready[cur] > 0
  /\ IF ~creating THEN Go("stop", cur) /\ UNCHANGED creating
     ELSE IF cur < N THEN Go("fork", cur + 1) /\ UNCHANGED creating
     ELSE Go("rest", 1) /\ creating' = FALSE
  /\ UNCHANGED <<failed, running, handshakeVars, cpc, workVars, hat, count,
                 killed, history>>

\* Process::wait: ready.consume(1, 1, 1s) succeeds. Process::create returns,
\* and the next is created; or Context::wait goes on to stop().
ConsumeReady ==
  /\ ppc \in {"wait", "asleep"}
  /\ ready[cur] > 0
  /\ ready' = [ready EXCEPT ![cur] = @ - 1]
  /\ IF ~creating THEN Go("stop", cur) /\ UNCHANGED creating
     ELSE IF cur < N THEN Go("fork", cur + 1) /\ UNCHANGED creating
     ELSE Go("rest", 1) /\ creating' = FALSE
  /\ UNCHANGED <<failed, running, iters, start, cpc, workVars, hat, count,
                 killed, history>>

\* ... finds no token and sleeps ...
SleepForReady ==
  /\ ppc = "wait"
  /\ ready[cur] = 0
  /\ Go("asleep", cur)
  /\ UNCHANGED <<creating, failed, running, handshakeVars, cpc, workVars, hat, count,
                 killed, history>>

\* ... or times out, which can happen even as the token arrives.
WaitTimeout ==
  /\ ppc = "asleep"
  /\ Go("check", cur)
  /\ UNCHANGED <<creating, failed, running, handshakeVars, cpc, workVars, hat, count,
                 killed, history>>

\* Mutant: one timeout is taken for a death.
CheckNothing ==
  /\ ppc = "check"
  /\ failed' = TRUE
  /\ Go("kill", 1)
  /\ UNCHANGED <<creating, running, handshakeVars, cpc, workVars, hat, count, killed,
                 history>>

\* Mutant: a death goes unnoticed.
AssumeAlive ==
  /\ ppc = "check"
  /\ Go("wait", cur)
  /\ UNCHANGED <<creating, failed, running, handshakeVars, cpc, workVars, hat, count,
                 killed, history>>

\* Process::wait: child.alive(), which reaps a dead child. An error returns
\* through create() or Context::wait() to the case, which drops its Context.
CheckAlive ==
  /\ ppc = "check"
  /\ IF Alive(cur)
       THEN /\ Go("wait", cur)
            /\ UNCHANGED <<failed, cpc>>
       ELSE /\ cpc' = [cpc EXCEPT ![cur] = "reaped"]
            /\ failed' = TRUE
            /\ Go("kill", 1)
  /\ UNCHANGED <<creating, running, handshakeVars, workVars, hat, count, killed, history>>

\* Context::start: the running flag goes up, then the loop over the processes.
BeginRound ==
  /\ ppc = "rest"
  /\ Len(rounds) < MaxRounds
  /\ \E n \in case.iters : rounds' = Append(rounds, n)
  /\ running' = TRUE
  /\ Go("store", 1)
  /\ UNCHANGED <<creating, failed, handshakeVars, cpc, workVars, hat, count, killed, done>>

\* Process::start: iters.store(iters) ...
StoreIters ==
  /\ ppc = "store"
  /\ iters' = [iters EXCEPT ![cur] = Last(rounds)]
  /\ Go("produce", cur)
  /\ UNCHANGED <<creating, failed, running, start, ready, cpc, workVars, hat, count,
                 killed, history>>

\* ... and start.produce(1, 1, None), which waits for room.
ProduceStart ==
  /\ ppc = "produce"
  /\ start[cur] = 0
  /\ start' = [start EXCEPT ![cur] = 1]
  /\ IF cur < N THEN Go("store", cur + 1) ELSE Go("wait", 1)
  /\ UNCHANGED <<creating, failed, running, iters, ready, cpc, workVars, hat, count,
                 killed, history>>

\* Mutant: Context::wait returns after the first process.
StopAtFirst ==
  /\ ppc = "stop"
  /\ running' = FALSE
  /\ Go("rest", 1)
  /\ UNCHANGED <<creating, failed, handshakeVars, cpc, workVars, hat, count,
                 killed, history>>

\* Mutant: the flag goes down only after the loop.
StopAtLast ==
  /\ ppc = "stop"
  /\ running' = (cur < N)
  /\ IF cur < N THEN Go("wait", cur + 1) ELSE Go("rest", 1)
  /\ UNCHANGED <<creating, failed, handshakeVars, cpc, workVars, hat, count,
                 killed, history>>

\* Context::wait: running.stop() after each process (the last one is repeated
\* after the loop).
StopRunning ==
  /\ ppc = "stop"
  /\ running' = FALSE
  /\ IF cur < N THEN Go("wait", cur + 1) ELSE Go("rest", 1)
  /\ UNCHANGED <<creating, failed, handshakeVars, cpc, workVars, hat, count,
                 killed, history>>

\* The case returns and drops its Context, and so its processes in order. (A
\* process whose creation has failed is dropped first, and is reaped by then.)
Finish ==
  /\ ppc = "rest"
  /\ Go("kill", 1)
  /\ UNCHANGED <<creating, failed, running, handshakeVars, cpc, workVars, hat, count,
                 killed, history>>

\* Mutant: join waits for the process without killing it.
KillNothing ==
  /\ ppc = "kill"
  /\ Go("reap", cur)
  /\ UNCHANGED <<creating, failed, running, handshakeVars, cpc, workVars, hat, count,
                 killed, history>>

\* Process::join: kill(SIGKILL), which first asks alive() and so may reap.
Kill ==
  /\ ppc = "kill"
  /\ CASE cpc[cur] = "unborn" -> UNCHANGED <<cpc, killed>>
       [] Alive(cur) -> killed' = killed \cup {cur} /\ UNCHANGED cpc
       [] OTHER -> cpc' = [cpc EXCEPT ![cur] = "reaped"] /\ UNCHANGED killed
  /\ Go("reap", cur)
  /\ UNCHANGED <<creating, failed, running, handshakeVars, workVars, hat, count, history>>

\* Mutant: join polls the process instead of waiting for it.
ReapNoHang ==
  /\ ppc = "reap"
  /\ cpc' = [cpc EXCEPT ![cur] = IF @ = "zombie" THEN "reaped" ELSE @]
  /\ Go("remove", cur)
  /\ UNCHANGED <<creating, failed, running, handshakeVars, workVars, hat, count,
                 killed, history>>

\* Process::join: child.wait(true, false) blocks until the process has exited.
Reap ==
  /\ ppc = "reap"
  /\ ~Alive(cur)
  /\ cpc' = [cpc EXCEPT ![cur] = IF @ = "unborn" THEN @ ELSE "reaped"]
  /\ Go("remove", cur)
  /\ UNCHANGED <<creating, failed, running, handshakeVars, workVars, hat, count,
                 killed, history>>

\* Then the fields of Process are dropped, the cgroup first: the processes in it, of
\* which there are none, go to its parent, and the directory is removed.
RemoveCgroup ==
  /\ ppc = "remove"
  /\ cgroups' = cgroups \ {cur}
  /\ IF cur < N THEN Go("kill", cur + 1) ELSE Go("done", 1)
  /\ UNCHANGED <<creating, failed, running, handshakeVars, cpc, got, left, at, hat,
                 count, killed, history>>

-----------------------------------------------------------------------------
(* A process.                                                              *)

Jump(i, label) == cpc' = [cpc EXCEPT ![i] = label]

\* CgroupInfo::enter opens the tasks file of the cgroup.
Enter(i) == i \in cgroups

\* set_scheduler and enter succeed. (If they fail the process exits, which for its
\* parent is Crash.)
Setup(i) ==
  /\ cpc[i] = "setup"
  /\ Enter(i)
  /\ Jump(i, "ready")
  /\ UNCHANGED <<parentVars, handshakeVars, workVars, hat, count, killed, history>>

\* get_iters: ready.produce(1, 1, None) ...
ProduceReady(i) ==
  /\ cpc[i] = "ready"
  /\ ready[i] = 0
  /\ ready' = [ready EXCEPT ![i] = 1]
  /\ Jump(i, "start")
  /\ UNCHANGED <<parentVars, iters, start, workVars, hat, count, killed, history>>

\* Mutant: get_iters does not wait for the start token.
ConsumeStartUnasked(i) ==
  /\ cpc[i] = "start"
  /\ start' = [start EXCEPT ![i] = @ - 1]
  /\ Jump(i, "swap")
  /\ UNCHANGED <<parentVars, iters, ready, workVars, hat, count, killed, history>>

\* ... start.consume(1, 1, None) ...
ConsumeStart(i) ==
  /\ cpc[i] = "start"
  /\ start[i] > 0
  /\ start' = [start EXCEPT ![i] = @ - 1]
  /\ Jump(i, "swap")
  /\ UNCHANGED <<parentVars, iters, ready, workVars, hat, count, killed, history>>

\* ... and iters.swap(0); the worker's loop over the iterations begins.
SwapIters(i) ==
  /\ cpc[i] = "swap"
  /\ got' = [got EXCEPT ![i] = iters[i]]
  /\ iters' = [iters EXCEPT ![i] = 0]
  /\ left' = [left EXCEPT ![i] = IF case.perIter[i] THEN iters[i] ELSE 1]
  /\ at' = [at EXCEPT ![i] = 1]
  /\ Jump(i, "work")
  /\ UNCHANGED <<parentVars, start, ready, cgroups, hat, count, killed, history>>

\* Mutant: consume waits for the tokens and leaves them.
PerformPeek(c, n) ==
  IF c.op = "produce"
    THEN /\ count[c.sem] + n <= Limit[c.sem]
         /\ count' = [count EXCEPT ![c.sem] = @ + n]
    ELSE count[c.sem] >= n /\ UNCHANGED count

\* Mutant: a call that has waited for some time gives up, and the worker goes on.
PerformTimed(c, n) ==
  IF c.op = "produce"
    THEN count' = [count EXCEPT ![c.sem] = IF @ + n <= Limit[c.sem] THEN @ + n ELSE @]
    ELSE count' = [count EXCEPT ![c.sem] = IF @ >= n THEN @ - n ELSE @]

\* A semaphore call of n tokens: it is enabled when it fits.
Perform(c, n) ==
  IF c.op = "produce"
    THEN /\ count[c.sem] + n <= Limit[c.sem]
         /\ count' = [count EXCEPT ![c.sem] = @ + n]
    ELSE /\ count[c.sem] >= n
         /\ count' = [count EXCEPT ![c.sem] = @ - n]

\* The worker makes its next call.
Work(i) ==
  /\ cpc[i] = "work" /\ left[i] > 0 /\ case.body[i] # <<>>
  /\ Perform(case.body[i][at[i]], IF case.body[i][at[i]].all THEN got[i] ELSE 1)
  /\ IF at[i] < Len(case.body[i])
       THEN at' = [at EXCEPT ![i] = @ + 1] /\ UNCHANGED left
       ELSE /\ at' = [at EXCEPT ![i] = 1]
            /\ left' = [left EXCEPT ![i] = @ - 1]
  /\ UNCHANGED <<parentVars, handshakeVars, cpc, cgroups, got, hat, killed, history>>

\* It has done its iterations and calls get_iters again.
Complete(i) ==
  /\ cpc[i] = "work" /\ (left[i] = 0 \/ case.body[i] = <<>>)
  /\ done' = [done EXCEPT ![i] = Append(@, got[i])]
  /\ Jump(i, "ready")
  /\ UNCHANGED <<parentVars, handshakeVars, workVars, hat, count, killed, rounds>>

\* The second thread of a process makes its next call.
Help(i) ==
  /\ Alive(i) /\ cpc[i] # "setup" /\ case.helper[i] # <<>>
  /\ Perform(case.helper[i][hat[i]], 1)
  /\ hat' = [hat EXCEPT ![i] = 1 + (@ % Len(case.helper[i]))]
  /\ UNCHANGED <<case, parentVars, handshakeVars, cpc, workVars, killed, history>>

\* A process exits or is killed by something else, at any point.
Crash(i) ==
  /\ i \in case.mortal /\ Alive(i)
  /\ Jump(i, "zombie")
  /\ UNCHANGED <<case, parentVars, handshakeVars, workVars, hat, count, killed, history>>

\* SIGKILL takes effect.
DieOfKill(i) ==
  /\ i \in killed /\ Alive(i)
  /\ Jump(i, "zombie")
  /\ UNCHANGED <<case, parentVars, handshakeVars, workVars, hat, count, killed, history>>

-----------------------------------------------------------------------------
ParentStep ==
  /\ \/ Fork \/ ConsumeReady \/ SleepForReady \/ WaitTimeout \/ CheckAlive
     \/ StoreIters \/ ProduceStart \/ StopRunning \/ Kill \/ Reap
     \/ RemoveCgroup
  /\ UNCHANGED case

\* What is left to the test case, and to chance.
ParentMay == (CreateFails \/ BeginRound \/ Finish) /\ UNCHANGED case

ProcStep(i) ==
  /\ \/ Setup(i) \/ ProduceReady(i) \/ ConsumeStart(i) \/ SwapIters(i)
     \/ Work(i) \/ Complete(i)
  /\ UNCHANGED case

Next ==
  \/ ParentStep \/ ParentMay
  \/ \E i \in Procs : ProcStep(i) \/ Help(i) \/ DieOfKill(i) \/ Crash(i)

Spec == Init /\ [][Next]_vars

\* Every thread is scheduled, and SIGKILL takes effect. What the case does
\* between rounds, and whether a process dies, is left open.
Fairness ==
  /\ WF_vars(ParentStep)
  /\ \A i \in Procs : WF_vars(ProcStep(i)) /\ WF_vars(Help(i)) /\ WF_vars(DieOfKill(i))

FairSpec == Spec /\ Fairness

-----------------------------------------------------------------------------
(* Properties.                                                             *)

TypeOK ==
  /\ case \in Cases
  /\ ppc \in {"fork", "wait", "asleep", "check", "store", "produce", "stop",
              "rest", "kill", "reap", "remove", "done"}
  /\ cur \in Procs
  /\ creating \in BOOLEAN /\ failed \in BOOLEAN /\ running \in BOOLEAN
  /\ cpc \in [Procs -> {"unborn", "setup", "ready", "start", "swap", "work",
                        "zombie", "reaped"}]
  /\ start \in [Procs -> 0 .. 1] /\ ready \in [Procs -> 0 .. 1]
  /\ iters \in [Procs -> Nat] /\ got \in [Procs -> Nat] /\ left \in [Procs -> Nat]
  /\ at \in [Procs -> Nat \ {0}] /\ hat \in [Procs -> Nat \ {0}]
  /\ count \in [Sems -> Nat] /\ \A s \in Sems : count[s] <= Limit[s]
  /\ killed \subseteq Procs /\ cgroups \subseteq Procs
  /\ rounds \in Seq(Nat) /\ done \in [Procs -> Seq(Nat)]

\* Whatever the timing, no process is ahead of the rounds begun, none takes
\* another round's iteration count, and when the parent is between rounds every
\* process has completed every round. (Context::start and wait, get_iters.)
RoundAgreement ==
  \A i \in Procs :
    /\ IsPrefix(done[i], rounds)
    /\ (ppc = "rest" => done[i] = rounds)

\* Neither side of the handshake ever finds its semaphore full: the parent
\* never hangs in Process::start, nor a process in announcing that it is ready.
HandshakeNeverBlocks ==
  /\ ppc = "produce" => start[cur] = 0
  /\ \A i \in Procs : cpc[i] = "ready" => ready[i] = 0

\* "After at least one process is stopped, the running flag will be set to
\* false": while the parent waits it is up exactly until the first process is
\* done, and it is down between rounds.
RunningUntilFirstStops ==
  /\ ppc \in {"wait", "asleep", "check"} /\ ~creating => (running <=> cur = 1)
  /\ ppc = "rest" => ~running

\* "Process exited unexpectedly" is reported only of a process that has died,
\* and not by the parent's hand.
ErrorMeansDeath ==
  failed => \E i \in Procs \ killed : cpc[i] = "reaped"

\* How a case may use a semaphore s: not at all; or p's loop produces on it in one
\* place and q's consumes in one place, a token each (ping_pong); or i produces a token
\* on s and waits for one on t, and its second thread answers (adaptive_priority).
Token(op, s) == [op |-> op, sem |-> s, all |-> FALSE]

CallsOn(calls, s) == {k \in DOMAIN calls : calls[k].sem = s}

UnusedBy(c, i, s) == CallsOn(c.body[i], s) = {} /\ CallsOn(c.helper[i], s) = {}

Paired(c, s, p, k, q, l) ==
  /\ c.perIter[p] /\ c.body[p][k] = Token("produce", s)
  /\ c.perIter[q] /\ c.body[q][l] = Token("consume", s)
  /\ \A i \in Procs :
       /\ \A m \in CallsOn(c.body[i], s) : <<i, m>> \in {<<p, k>>, <<q, l>>}
       /\ CallsOn(c.helper[i], s) = {}

Echoed(c, s, t, i) ==
  /\ s # t
  /\ c.body[i] = <<Token("produce", s), Token("consume", t)>>
  /\ c.helper[i] = <<Token("consume", s), Token("produce", t)>>
  /\ \A j \in Procs \ {i} : UnusedBy(c, j, s) /\ UnusedBy(c, j, t)

\* Every token of the case has its taker.
Balanced(c) ==
  \A s \in Sems :
    \/ \A i \in Procs : UnusedBy(c, i, s)
    \/ \E p, q \in Procs : \E k \in DOMAIN c.body[p], l \in DOMAIN c.body[q] :
         Paired(c, s, p, k, q, l)
    \/ \E i \in Procs, t \in Sems : Echoed(c, s, t, i) \/ Echoed(c, t, s, i)

\* Tokens do not leak from one round into the next: between rounds the workers'
\* semaphores are empty, so that the next round measures only itself.
SemaphoresDrained ==
  ppc = "rest" => \A s \in Sems : count[s] = 0

\* A process has died in the middle of a round, which the parent then cannot finish.
Lost == \E i \in Procs : cpc[i] \in {"zombie", "reaped"} /\ done[i] # rounds

Dropping == {"kill", "reap", "remove", "done"}

\* The iterations that process i has behind it in the last round begun.
Turns(i) ==
  IF cpc[i] = "work" THEN got[i] - left[i]
  ELSE IF done[i] = rounds /\ rounds # <<>> THEN Last(rounds) ELSE 0

\* Two processes of which each wakes the other once in an iteration.
Partners(p, q) ==
  /\ \E s \in Sems : \E k \in DOMAIN case.body[p], l \in DOMAIN case.body[q] :
       Paired(case, s, p, k, q, l)
  /\ \E s \in Sems : \E k \in DOMAIN case.body[q], l \in DOMAIN case.body[p] :
       Paired(case, s, q, k, p, l)

\* They work in step: in a round that can still be finished neither is more than one
\* iteration ahead of the other, from one round to the next and whatever the limits of
\* the semaphores, so that an iteration of ping_pong is a wakeup each way and not a run
\* on tokens that have piled up (basic.rs:83-102).
InStep ==
  ppc \notin Dropping /\ ~Lost =>
    \A p, q \in Procs : Partners(p, q) => Turns(p) - Turns(q) \in -1 .. 1

\* Dropping the Context leaves no process of the case behind.
NoProcessLeft ==
  ppc = "done" => \A i \in Procs : cpc[i] \in {"unborn", "reaped"}

\* A cgroup is there for as long as its process may run, so that removing it moves
\* nobody out of it, and none is left when the Context has been dropped, whatever
\* failed (process.rs:78-83, 118, 205-215; cgroups.rs:98-117).
CgroupsOutliveProcesses ==
  /\ \A i \in Procs : Alive(i) => i \in cgroups
  /\ ppc = "done" => cgroups = {}

\* A round that is begun ends, with every process done or with an error.
RoundsEnd == ppc = "store" ~> ppc \in {"rest", "kill"}

\* Dropping the Context terminates, whatever its processes are blocked on.
DropEnds == ppc = "kill" ~> ppc = "done"
=============================================================================
