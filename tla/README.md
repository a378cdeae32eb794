# Verification of schtest

`schtest` tests and benchmarks Linux schedulers. It optionally launches a
sched_ext scheduler, then runs test cases; a case forks worker processes, gives
them shared memory, starts them for a number of iterations, waits for them and
judges the wake-up latencies, run times or CPUs it observed. This directory
holds TLA+ models of its concurrent core, TLC configurations that check them on
small instances, and TLAPS proofs of what matters most for every instance.

Paths below are relative to the repository's `src/src/`.

## 1. Inventory

| Component (source) | State | Operations | Interacts with | What is hard, what makes it correct |
| --- | --- | --- | --- | --- |
| **Semaphore** (`workloads/semaphore.rs`) | the futex word `count` (amount and waiter bit), `max` | `produce`, `consume`, `collect_wake_stats` | SplitTimer, reservoir, kernel futexes; used by Process and by the cases | lost wake-ups, atomicity of load/compare-exchange/wait, timeouts; calls take effect atomically, no sleeper is forgotten |
| **SplitTimer** (`util/clock.rs`) | a ring of `timers`, `index` | `cookie`, `reset`, `elapsed` | Semaphore | stamps overwritten by later laps, late wakes; a sample is measured from its own reset |
| **Process** (`workloads/process.rs`) | `start`, `ready` semaphores, `iters`, the Child | `create`, `start`, `wait`, `join`/drop; child side: set-up, `get_iters` | Semaphore, Child, Cgroup, Context | ready/start handshake, one-second timeouts, death at any point; parent and processes agree on the round |
| **Context** (`workloads/context.rs`) | list of processes, `running`, the allocator | `create`, `add`, `start`, `wait`, `run`, `allocate`, drop | Process, BumpAllocator | order of waits, errors half-way; rounds end, drop leaves nothing behind |
| **Cases** (`cases/*.rs`) | their semaphores, spinners | worker functions, metrics | all of the above | token leaks between rounds, blocked workers; a round measures only itself |
| **BumpAllocator / MemFd** (`util/shared.rs`, `util/memfd.rs`) | `next`, the mapping | `alloc`, `used`, `available` | Context; SharedBox, SharedVec | racing threads, forks copy `next`, end of the mapping; allocations are disjoint, aligned, inside |
| **SharedBox / SharedVec** (`util/shared.rs`) | pointer, length | `new`, `with_capacity`, `push`, `clone`, drop | BumpAllocator | clones and forks alias memory with lengths of their own; a vector keeps its elements unless another copy of it pushes over them |
| **ReservoirSampler** (`util/stats.rs`) | `samples`, `count` | `sample`, `reset`, read by `Distribution::add_all` | Semaphore, cases | a slot is claimed before it is written; collection races with samples |
| **Child** (`util/child.rs`) | pid, notification pipe, cached result | `run`, `alive`, `wait`, `kill`, `spawn`, drop | kernel processes; Process, main | pipes inherited by others, orphans, killed parents; the result is reported once and truly |
| **Launch** (`main.rs`, `SchedExt::installed` of `util/sched.rs`) | the scheduler's Child | `run`, `main` | Child, sched_ext | alive/installed race, early exits, daemons; errors are true, nothing is left behind, the tests run under that scheduler |
| **converge / measure** (`workloads/benchmark.rs`) | `iters` | the convergence loop | Context, cases, criterion | caps, time limits; it ends, and what it returns was measured |
| **Cgroup** (`util/cgroups.rs`) | a directory | `create`, `enter`, drop | Process | the order in which a Process is taken apart, failures half-way; it outlives its process and is removed |
| **Statistics** (`util/stats.rs`) | a t-digest | `add`, `estimates`, `percentile`, ... | cases | floating point |
| **System / CPUSet** (`util/system.rs`) | the tree of nodes, complexes, cores and hyperthreads, an index of it | `load`, `new`, lookups, masks, `run`/`migrate` | cases | missing and unreadable files, ids that repeat; tree, index and masks agree |
| **spread_out** (`cases/topology.rs`, `workloads/spinner.rs`) | counts, migrations, spinners | a measurement, `spin`, `last_cpu` | Context, converge, System, Sched | stale samples, migrations between samples; a pass is earned |
| **Sched** (`util/sched.rs`) | none | the statistics of a process's threads | `/proc`, spread_out | a line that is not found is a count of 0; a difference of two counts means what the case takes it for |
| **User**, registration, command line | none of interest | | | |

Interactions, from the outside in: `main` runs the cases; a case creates a
Context and from it shared objects (BumpAllocator) and processes
(`Process::create` forks through Child, the child announces itself on `ready`).
`converge` or `measure` calls `ctx.start(n)`, which stores `iters` and produces
`start` for each process, and `ctx.wait()`, which consumes `ready` of each in
turn. In between, the worker functions synchronise over semaphores of their own,
whose wake-ups are timed by a SplitTimer and sampled into a reservoir that the
case collects between rounds. Everything shared lives in one memfd mapping.

## 2. Modules

| Module | Models | Kind |
| --- | --- | --- |
| `CountingSemaphore` | what a semaphore promises its callers | abstract specification |
| `Semaphore` | `Semaphore` with its `SplitTimer`, at the level of memory accesses and futex calls | detailed; refines `CountingSemaphore` |
| `SemaphoreProofs` | | theorems on `Semaphore` |
| `Workload` | `Context`, `Process`, `Cgroup`, and the worker functions of the cases, over semaphores at the level of `CountingSemaphore` | composition |
| `BumpAllocator` | `BumpAllocator` on its `MemFd`, threads and forked processes | detailed |
| `SharedVec` | `SharedVec`, `SharedBox`, `Context::allocate` and `allocate_vec` | composition over `BumpAllocator` |
| `Reservoir` | `ReservoirSampler`, `Distribution::add_all`, `collect_wake_stats` | detailed |
| `ChildOutcome` | what a Child promises its owner | abstract specification |
| `Child` | `Child`, over the kernel's processes, reapers, namespaces and pipes | detailed; refines `ChildOutcome` |
| `Launch` | `main`, `run`, `Child::spawn`, `SchedExt::installed`, a scheduler's binary | composition over `Child` |
| `Topology` | `System` and `CPUSet`, the wake types of `ping_pong` | pure operators |
| `Converge` | `converge` and its macro | pure operators |
| `SpreadOut` | the `spread_out` case, `Spinner`, `CPUSet::run` | composition over `Topology` and `Converge` |
| `WorkloadProofs`, `BumpAllocatorProofs`, `SharedVecProofs`, `ReservoirProofs`, `ChildProofs`, `LaunchProofs`, `SpreadOutProofs` | | theorems on the module of that name; `ChildProofs` holds lemmas that `LaunchProofs` uses |
| `MCSemaphore`, `MCWorkload`, `MCSharedVec`, `MCReservoir`, `MCLaunch`, `MCSpreadOut` | instances for TLC | |

`PROJECT.json` maps each definition to the lines it models.

### Semaphore

`count` is the u32 word split into `amount` and `waiter`; `Sum` keeps its
wrap-around. Each thread is at a place `pc` of its call:

    idle -Invoke-> load -Load-> commit -Commit-> idle
                                               \-> (reset -> stamp ->) wake -FutexWake-> idle
                        \-> mark -MarkWaiter-> cookie -Cookie-> wait -FutexWait-> asleep
                        \-> cookie   (the bit is set already)
    asleep -Timeout-> idle; -Interrupt-> load; woken by FutexWake -> woken
    woken -ReadTimer-> check -CheckCookie-> sample -TakeSample-> load

(`pc = "wait"` is the waiter's place before FUTEX_WAIT for a thread that came
from `cookie`, and `"wake"` the waker's before FUTEX_WAKE.) `produce` and
`consume` are the same code with a different test and a different new amount
(`Fits`, `After`), and are one set of actions. A compare-exchange is weak: it
may fail without cause (`CasFail`). The compare inside FUTEX_WAIT and the queue
insertion are atomic, as the kernel guarantees; a FUTEX_WAKE wakes any set of
sleepers of the size asked for. The order of `cookie` and of the preparation of
the timespec, which differs between the two functions, touches no shared state.

A time is abstracted to the number of the `reset` that stamped it: a sample
`[cookie |-> k, stamp |-> n]` was asked for with cookie `k` and measured from
reset `n`. Memory is sequentially consistent in the model: the word is only
accessed with acquire/release read-modify-writes and loads, the index and the
stamps (`util/clock.rs:49`) with SeqCst.

### Workload

The test case is chosen at the start (`case`, one of `Cases`) and does not change.
The parent is one process (`ppc`, and `cur`, the process its loop is at): the
creation loop `fork -> wait -> fork ... -> rest`, a round
`rest -> store -> produce -> ... -> wait -> stop -> ... -> rest`, and the drop
`kill -> reap -> remove -> kill ... -> done`, where `remove` is the drop of the cgroup
(`cgroups`) that `Process::create` has made and the worker has entered. `Process::wait` is `wait -> asleep -> check`,
where `check` is `child.alive()`. A worker is `setup -> ready -> start -> swap
-> work -> ready`; `body` of the case gives the semaphore calls of its loop, `helper`
those of a second thread, and `Crash` lets a process of `mortal` exit at any point. A process that has
exited is a zombie until `alive`, `kill` or `wait` reaps it.

A semaphore call is one action, enabled when it fits. This is the abstraction
`Semaphore` is proved to implement: the semaphores here have one producer and
one consumer, so a call that wakes one thread wakes all that sleep, and amounts
are far below the overflow.

`rounds` and `done` are history variables: the iteration counts the parent has
asked for and those each process has completed.

### BumpAllocator

Addresses are offsets into the mapping, whose size `MemFd::create` rounds up to
pages. `alloc` is `load` (with the space test) and `swap`, with a recursive retry.
`next` and the knowledge of allocations are per process, because a fork copies
the allocator while the mapping is shared.

### SharedVec

A handle is private memory (pointer, length, capacity) of one process; the elements
are in `mem`, shared by all. `Ask` and `WithCapacity` are the two ends of a call of
`alloc()`, whose steps are those of `BumpAllocator`. A `SharedBox` is a vector of one:
the handle exists before its element, which nobody can see. Clones and the copies
that a fork makes have the length of that moment, whatever it is: two copies of a
part-filled vector push at the same index, and the later push is what both read.
An element is told by its array, its index and its value, and `Given` lets the copies of a
vector push different values. Each handle has the history of its own pushes (`items`), and
`replaced` the elements that were pushed through one copy of a vector when another had
them already.

`ElementsKept` says that a vector reads back what was pushed, whoever allocated, pushed,
cloned or forked since, but for the elements in `replaced`, which hold another value of
that array. It speaks of the vectors that are known (`Known`) to every process that
allocates: a fork copies `next` (`util/shared.rs:18`), so that a process that allocates
without knowing of an array may be given its memory.

### Child and Launch

`Child` has the kernel's side of a process (`status`, `parent`, `space` for its PID
namespace, `reaper`, `subreapers`, `armed` for the death signal, `killed`) and the
owner's (`pipe`, `writers`, `result`, `call`). `Exit` is what the kernel does when a
process ends: its children go to the nearest reaper, those that asked for it are sent
SIGKILL, and a namespace ends with its first process. A call on a handle is

    none -Invoke-> alive | kill | wait | waitall -WaitPid-> read -ReadPipe-> none
                   alive | kill -StillAlive-> none | send -SendKill-> none

and is over at once when the result is cached. `ReadPipe` is enabled only when no
process holds a write end any more: that a child forked meanwhile inherits one, and
that execvp closes it, is in the model. A result carries `who` and `how`, so that a
property can tell whose end is reported.

`Launch` runs it with four processes: schtest (`Runner`), the process that
`Child::spawn` puts between (`Box`), the binary (`Sched`) and one it may start
(`Daemon`). `mpc` is the place in `main` and `run`, `bpc` that in the closure of
`spawn`. sched_ext has the states that `installed()` tells apart. The binary, others
on the machine and a kill of schtest are free to act at any time. A test case reads
nothing of the scheduler and is one step.

The abstract `ChildOutcome` has the end of a process and one later, true report;
`Honest` is that both handles implement it, under `truth`, a history of how the
process ended, and `report <- result`.

### Topology, Converge and SpreadOut

`Topology` builds the tree of `System::load` from a function that gives, for each CPU,
its directory and the contents of its files, which may be missing or junk. A BTreeMap
iterated in order is `Grouped`, a sequence by ascending key. `InOrder` sorts a finite set by
counting what comes before each element, and the nested loops of `Node::cores` are an order
on places in the tree (`Sooner`). A sum of lengths is the number of pairs of a list and an
index of it, and a mask that is or-ed together is, word by word, a union: nothing in the
module recurs, so that it can be reasoned about. A `cpu_set_t` is a function
from word to bits. `TreeFaithful` and `MasksFaithful` compare what is built with its
reference definition: two CPUs share a core exactly when package, die and core ids agree.

`Converge` works on milliseconds and percent. The case that no time has elapsed is left
out: an iteration of every case that converges takes a millisecond.

In `SpreadOut` the parent goes `loaded -> create ... -> rest -> reset ... -> sample ... ->
wait ... -> after ... -> decide -> rest | end`, over the spinners in between. A spinner is
`unborn -> pin -> pinned -> ready -> go -> ready ...`, `dead` when it has died and `left`
when it did so after it had said that it is ready, which `ctx.wait()` takes for an
answer. The kernel moves a running spinner within its affinity and counts it (`moves`).
What the program reads of that is `Migrations`: `Sched::get_thread_stats` looks for a line of
`/proc/<tid>/sched` called `nr_migrations` and returns 0 if there is none (`named` is
chosen at the start), while files that cannot be read are an error (`StatsFail`). `began` is
the history of what the kernel had counted when the program noted its number.
`Sample` is one load of `last_cpu`, so that spinners run, and are moved, between two of
them. What a measurement takes in time beyond a millisecond per iteration is free.

### Reservoir

`sample` is a claim (`fetch_add`, and the choice of a random slot when the
reservoir is full) and two stores, one per word of the Duration; a collection
loads the count, reads slot by slot, merges, and resets the count. A slot never
written holds `Unwritten`. The history variables `since` (samples begun since the last
reset) and `quiet` (neither that reset nor the collection after it met a sample
half-way) serve only to state the property. In `Semaphore` a sample is an element of a
set: the two modules meet at `TakeSample`, the whole of `sample()`.

Most collections are quiet: a worker has announced itself on `ready` before the parent
collects. Not all: in `adaptive_priority` a second thread that is woken by a late
FUTEX_WAKE (finding 1) may be sampling when its round is over.

## 3. Runs

| Run | Instance | Checks | Shows |
| --- | --- | --- | --- |
| `semaphore_pair` | a consumer of 1 with and without timeout, one call, and a thread that produces, consumes and gives up, 7 calls; `Max` 1, 2 timers | `TypeOK`, `NoLostWakeup`, `NoOverwrittenSample` | the way the repository uses a semaphore: no lost wake-up, no sample from a timer overwritten by a later lap |
| `semaphore_many` | 3 threads, amounts 1 and 2, `Max` 2, with and without timeout, each call wakes all, no timers, 2 calls each | `BlocksOnlyWhileShort`, `IInv`, `Linearizable`, `NeverStarved` | with several sleepers: calls are atomic, nobody is forgotten or starves; the inductive invariant of the proofs, which implies `NoLostWakeup` |
| `semaphore_latency` | a producer and a consumer, 2 calls each | `SampleFresh` (violated) | finding 1 |
| `cases` | two cases of 2 processes: one alone and one with a second thread, both mortal, 0 or 1 iterations; `ping_pong`, the first mortal, 0, 1 or 3 iterations; 2 rounds | `TypeOK`, `RoundAgreement`, `HandshakeNeverBlocks`, `RunningUntilFirstStops`, `ErrorMeansDeath`, `NoProcessLeft`, `SemaphoresDrained`, `InStep`, `CgroupsOutliveProcesses`, `RoundsEnd`, `DropEnds` | the handshake keeps rounds aligned under every timing and death; two processes that wake each other work in step; rounds and drops end, and leave no token to the next, no process and no cgroup |
| `come_together` | one process of that test on 2 cores | `RoundsEnd` (violated) | finding 2 |
| `reservoir` | 2 samplers of 3 samples each (interchangeable: a symmetry set, with safety properties only), 2 slots, 2 collections | `TypeOK`, `QuietCollectionExact` | a quiet collection gets exactly the samples since the last one |
| `reservoir_race` | the same | `CollectedWereTaken` (violated) | finding 3 |
| `allocator` | 2 threads of a process and 1 of its fork, one call each, 4 cells, an array that needs padding and two boxes, 1 clone, different values through each | `TypeOK`, `SharedTypeOK`, `Disjoint`, `WellPlaced`, `ElementsKept`, `RetriesGain`, `AllocReturns` | allocations are disjoint, aligned and inside, up to and past the end of the mapping; vectors cloned and forked at any length keep their elements, but for those another copy pushes over; a retry follows a gain of another, and calls return |
| `launch` | as root and not, with and without a binary, one daemon, 2 tests | `TypeOK`, `ReasonIsTrue`, `NothingLeftBehind`, `PipeIsFree`, `Honest`, `RunEnds`, `DeathSpreads` | whatever the scheduler's binary does, schtest does not block on a pipe, ends, tells the truth and cleans up |
| `launch_tests` | the same | `TestsAgainstThatScheduler` (violated) | finding 4 |
| `spread_out` | `System::load` on every machine of 3 CPUs; the case on 5 machines of 2 or 3 CPUs, up to 2 spinners, 2 moves | `TypeOK`, `SystemFaithful`, `PassMeansCores`, `StillWhereCounted`, `CoverCountsByIds`, `CaseEnds` | the tree is what the files say; a pass needs physical cores covered and, where the program finds the migrations, none of them; the case ends |
| `spread_out_packages` | the case on two packages | `CoverCounts` (violated) | finding 5 |

Every property of a passing run has a mutant of the code (an operator defined
before the one it mutates) that violates it under the same configuration.

Bounds, all named constants. `MaxCalls`: two calls of three
threads suffice, since a wake-up involves one call of each; seven (three resets, and what
it takes to leave the waiter bit before each) lap a ring of `S = 2` timers. `WAITER = 4` gives the word
two bits of amount: enough for `Max = 2` and for a sum that does not fit.
`MaxSamples = 3`
overshoots the 2 slots even by one thread, and the second of `MaxCollections = 2`
meets what the first has left. `MaxRounds = 2`: what a round leaves behind meets the next one. A case's
iterations hold 0
(which `measure` passes first), 1 and a number greater than a semaphore's size.
In `allocator` one call of each thread suffices for a race of two and for a child that allocates
after the fork. `MaxClones = 1`: a clone, its original and the forked copies of both are four that share
an array of two elements; the child's copy of a clone pushes nothing, as it would push what its copy
of the original does. `MaxTests = 2`: a test before and one
after anything that happens. `Launch` has no other bound: the polling goes round a finite
set of states. In `SpreadOut` `MinTime = 2` and `MaxTime = 3` give measurements that are
too short, long enough, exactly `MaxTime` and too long; with `SampleEvery = 2` a
measurement takes from none to three samples; `MaxMoves = 2` moves let a spinner leave the first
core, which is what a pass needs, and another move spoil or follow it. `Width = Words = 2`: three
CPUs lie in two words. The files of a CPU hold one of two ids, or none, or junk; three
CPUs show two that share a core and one that does not, at every level.
Deadlock checking is off because the calls and rounds are bounded: the systems
stop when they are used up, and a blocked worker is a legal state.

Fairness.
*Semaphore*: weak fairness of each thread's own steps (the kernel runs runnable
threads), of `Timeout` (a FUTEX_WAIT with a timeout ends), and strong fairness of
the two compare-exchanges: a weak compare-exchange that is retried for ever, and
could succeed again and again, does not fail spuriously each time. `Invoke` and
`Interrupt` are not fair: no thread must call, no signal must come.
*Workload*: weak fairness of the parent's step, of each process's steps and of
the delivery of SIGKILL. A semaphore call needs only weak fairness because one
consumer cannot lose its token to another. `BeginRound`, `Finish`, `CreateFails`
and `Crash` are not fair. In the first case of `cases` the first process depends on
nobody and the second only on its own second thread; in `ping_pong` only the first
dies, so that the parent never waits for one that waits for a dead one (see 6).
*BumpAllocator*: weak fairness of each thread. With a bounded number of calls, the
thread that lost a compare-exchange lost it to a call that succeeded.
*Launch*: weak fairness of schtest's steps, of the process between and its attempt to
start the binary, of the steps of a call that has begun (waitpid returns when there is
a status, read at the end of the pipe), and of a SIGKILL. Not fair: the binary and its
daemon, sched_ext and others, `RunnerKilled`. A binary that neither ends nor installs is polled for ever, and
`RunEnds` does not say otherwise.
*SpreadOut*: weak fairness of the parent, of a spinner's pinning and of the end of its
spin, which is by the clock. Moves, stores and deaths are not fair. `CaseEnds`
leaves out the one behaviour in which every measurement from some time on takes exactly
`MaxTime`: `converge` then repeats it for ever (`workloads/benchmark.rs:90`, `:107`), to the
nanosecond, and a clock does not.

## 4. Proofs

All checked by TLAPS, for every value of the constants that satisfies the assumptions named
in the modules. They say that the constants have their types, and besides:
`LaunchAssumption` that the four actors are distinct (they may be any four) and that a cause
of failure names one of the two processes with a handle;
`ChildAssumption` that nobody owns itself; `ReservoirAssumption` that memory never written
is told from a sample; `SpreadOutAssumption` that a machine has no more CPUs than a
`cpu_set_t` has bits and that what is in a file of it is a number or is not (`load` parses an `i32`); `ConvergeAssumption` what the constants in `workloads/benchmark.rs`
satisfy, among them that iterations may grow by more than a factor of one (100 there). TLC evaluates each on the runs. A hypothesis beyond these is named in the theorem.

Every theorem `Spec => []P` goes by an inductive invariant: the initial states satisfy it,
one lemma per action (or per conjunct, where the actions that disturb one are few) shows that
it is kept, and it implies `P`. The invariants were first checked by TLC on the runs' instances.

*Semaphore* (`SemaphoreProofs`)

* `TypeCorrect`: `TypeOK` bounds the count by `Max`; it is inductive together with
  `CommitFits`, a thread about to store has read a word that fits.
* `Inductive`, `NoWakeupIsLost`, `BlockingIsJustified`: under `WakeAll` (each call
  wakes as many threads as could sleep). `NoLostWakeup` alone is not inductive: a
  step may change the word under a sleeper. `IInv` adds `Decided`, what each
  thread knows of the word it has read (a waiter has found it not to fit, and has
  seen the waiter bit set), and `ChangeOwed`: if the word differs from what a
  sleeper has seen, some thread is between its compare-exchange and its
  FUTEX_WAKE. Then, if nobody owes a wake-up, the word is what the sleeper has
  seen and does not fit. `WakeAll` is used at FutexWake only: nobody is left
  asleep (`WakeReachesAll`). `WakeAll` is needed: one waiter bit stands for all sleepers, the
  call that clears it wakes only `wake` of them, and with two sleepers and `wake = 1` the
  second sleeps on although the count suffices (the mutant `FutexWakeOne`). Every
  semaphore of the repository has one producer and one consumer.
* `Linearizes`: under `NoOverflow` (no `v` beyond 2^31), `Spec => Linearizable`, where
  `Linearizable` is `CountingSemaphore`'s specification under the refinement
  mapping `tokens <- count.amount`, `waiting <- Asleep`, `pend <-` the calls of
  threads in `Blocked`. Commit is Take, FutexWait is Sleep, FutexWake and Interrupt
  are Wake, Timeout is GiveUp; all else stutters (`StepRefines`).
* `SamplesNotOverwritten`: from `TimersOrdered`:
  entry `i` of the ring holds a reset congruent to `i`, so one that is later than
  the cookie is at least `S` later, and the index, read afterwards, tells.

*Workload* (`WorkloadProofs`), for any number of processes, any cases and any deaths

* `TypeCorrect`, `RoundsAgree`, `HandshakeIsFree`, `RunningFlag`, `ErrorsAreTrue`,
  `DropLeavesNoProcess`, `DropLeavesNoCgroup`. The heart of `IInv` is `HandshakeInv`: for
  each process its place, the two tokens, the iterations stored for it, its rounds behind it and
  what the parent knows of it fit together; at most one of the two tokens exists. None of
  `RoundAgreement` and `HandshakeNeverBlocks` is inductive: that `ready` is free when the
  worker comes back to it depends on the parent having taken the last token before it began the
  round. A dead process has some place at which it may have died, so that its tokens
  still make sense to the parent (`PlacesOf`). `ParentInv`, `UnbornInv` and `DropInv` are about the
  parent's loops, `InBody` about the index of the next call.
* `RoundsDrain`: `SemaphoresDrained`, from the hypothesis `Balanced` on the cases: each
  semaphore is unused, or has one place that produces and one that consumes, one token per
  iteration, or goes to and fro between a process and its second thread. `ping_pong` and
  `adaptive_priority` are such (TLC evaluates it, `TokensAreTaken` in `MCWorkload`);
  `come_together` is not, and hangs (finding 2). `DrainInv` says what a count is at any moment: the calls made on
  one side less those made on the other (`Made`). It lapses once a process has died in
  the middle of a round (`Lost`): then the parent never rests again, because `RoundAgreement`
  would not hold.
* `WorkInStep` (`InStep`), without that hypothesis: of a semaphore with one place on either
  side the taker is never ahead of the giver (`TakerFollows`), and what the giver
  is ahead is the count in between. Two processes that pass tokens both ways bound each other,
  so that neither is more than one iteration ahead, even across two rounds. Like `SemaphoresDrained` it
  lapses with `Lost` and with the drop.

*BumpAllocator and SharedVec* (`BumpAllocatorProofs`, `SharedVecProofs`)

* `TypeCorrect`, `AllocationsDisjoint` and `AllocationsWellPlaced` from `Bounded`: whatever a
  process can reach lies below its `next`. Alignment needs `BaseAligned`: the mapping is
  page-aligned, so the layouts must not ask for more than a page.
* `RetriesAreBounded` (`RetriesGain`): what a thread has loaded is never above the `next` of its process
  (`Behind`), which only grows; a process that is not forked yet has no thread in a call (`Begun`), so
  that the copy a fork makes is behind nobody. With `TypeOK` a call retries at most `Size` times.
* `ImplementsAllocator`: `SharedSpec => Spec`, the vectors take only steps of the allocator
  or none; the theorems on it therefore hold of them.
* `HandlesInBounds` (`SharedTypeOK`: no length passes its capacity),
  `ElementsStay` (`ElementsKept`), for any number of clones and forks at any length.
  `SharedInv` adds `Backed`, each handle is the array of an allocation that its process can
  reach, and `MadeAtHome`, the process of the thread that asked for an array can reach it.
  A push through another handle is then within an array its own process can reach. If that array
  is not the vector's own, the process that made it has allocated and, the vector being `Known`,
  can reach both, so that `Disjoint`, which speaks of one process, keeps them apart
  (`SameCellSameArray`). If it is, the push is behind the vector's elements or recorded
  in `replaced` (`Kept`). `KnownBefore`: a vector that is known now was known before the step.

*Reservoir* (`ReservoirProofs`)

* `TypeCorrect`, `QuietIsExact` (`QuietCollectionExact`), for any size and any number of threads. In `QuietInv`, while there is
  room each sample has a slot for itself, written or about to be (`OwnSlots`), and when there is
  none each slot holds samples of this period or will (`SlotsFilled`); an unfinished collection has read
  what the slots still hold (`Collected`). Then as many samples as slots were read means a
  bijection between them.

*Child and Launch* (`ChildProofs`, `LaunchProofs`)

* `ChildProofs` shows for each action of `Child`, in whatever program, that the types and
  `HandleInv` are kept and that each handle takes a step of `ChildOutcome` or none
  (`ChildStepOK`). `HandleInv`: `truth` is what status and pipe tell of a process that has ended
  (`Recorded`), and a handle that reads the pipe, or has a result, has taken the status
  (`Reported`). Since a pipe is read only when it has no writer left, what is read is the
  truth.
* `HandlesAreHonest`: `Spec => Honest`, both handles of `Launch` implement `ChildOutcome`.
* `ReasonsAreTrue`, `NothingIsLeft` and `TypeCorrect` from `LaunchInv`, whose other parts are
  `SpaceInv` (all processes of the scheduler are in the namespace of the process between
  and end with it), `MainInv` and `WaitedInv` (who has waited for whom), `OwnerInv` (a scheduler of theirs in
  force has a live process) and `ReasonInv` (the process between ends well only when the binary did).
* `PipesAreFree` (`PipeIsFree`) from `PipeInv` and `SpaceInv`: a write end is held by running processes only, by the owner only
  until `Child::run` returns, by the binary only until its execvp, so never by what the binary
  leaves behind; and the processes of a namespace end with its first one.

*SpreadOut* (`SpreadOutProofs`), for every machine, any moves and any settings of `converge`

* `TypeCorrect`: with it `iters` never exceeds twice `MaxTime` (`IterationsBounded`, on
  `NextIters` of `Converge`), and no spinner is addressed that is not in the list of cores.
* `SystemIsFaithful` (`SystemFaithful`): the system loaded from any machine, whatever its
  files say, is what `Topology` promises. `Ranked` and `ListedInOrder` show that `InOrder`
  lists a finite set with a strict order, each element once; so each layer of the tree is a
  map (`GroupedIsMap`, `Layers`), a place in the tree has the CPUs with its three ids
  (`PlacesKeyed`), the sorted list of cores has each place once (`CoresListed`), and the
  index finds the place a CPU is in (`IndexKeyed`): `TreeHolds`. `CpuSetHolds` and `CpuOrHolds` are the
  arithmetic of words and bits; with the places they give `MasksHold`, and, as no node and no
  complex is without CPUs (`Inhabited`), `WakeTypesHold`.
* `PassIsStill` (`StillWhereCounted`; without its hypothesis `named` it
  does not hold, see 5) from `Settled`: a spinner that has been waited for does not spin again in this
  measurement, so that the moves summed for it cover the end of its spin, and a sum of 0
  leaves none, although spinners are looked at one after the other.
* `MeasurementsGrow` (`MeasuresMore`) from `IterationsGrow` on `NextIters`. With the bound of `TypeCorrect` at most
  twice `MaxTime` measurements do not take exactly `MaxTime`. It is stated by the theorem only; of the runs `CaseEnds` shows what follows.
* `PassIsEarned` (`PassMeansCores`) and `CoverIsCounted` (`CoverCountsByIds`) from `Counted`, the
  keys of `counts` are the ids of the cores sampled, and `Earned`, which carries the metric's verdict to the end.

Only model-checked: the liveness properties (`NeverStarved`, `RoundsEnd`, `DropEnds`,
`AllocReturns`, `RunEnds`, `DeathSpreads`, `CaseEnds`), which are out of the prover's reach.
`RetriesGain`, `PipeIsFree` and `MeasuresMore` are what `AllocReturns`, `RunEnds` and `CaseEnds` rest on
besides fairness, and hold for every value of the constants.

## 5. Findings

1. `semaphore_latency`. The timer is reset before the FUTEX_WAKE. A consumer
   that meanwhile retried and waits again holds a newer cookie, is woken by the
   late wake, and samples a timer that no reset has stamped since: against
   `util/clock.rs:119` and `:127`.
2. `come_together`. `wakeup.produce(iters, iters, None)`
   (`cases/topology.rs:147`) has no consumer. Once the rounds have asked for
   more than `cores` iterations in all the process blocks, `ctx.wait()` never returns and
   `converge` never gets to its time limit (`workloads/benchmark.rs:40`).
3. `reservoir_race`. `sample` raises the count before it writes the slot
   (`util/stats.rs:61`, `:64`), and `add_all` reads every slot below the count
   (`:595`): a collection in between reads uninitialised memory, against "A thread-safe
   reservoir sampler that uses atomic operations to safely collect samples from
   any number of concurrent threads" (`util/stats.rs:12`).
4. `launch_tests`. `run` returns when the child was alive and then some scheduler
   enabled (`main.rs:73`, `:84`), and nothing is looked at again while the tests run: it may be
   another's scheduler, or be gone with its binary. `main.rs:20` says that the program
   "will ensure that a custom scheduler is installed before any tests are run", the
   repository's README (line 40) "Run the tests against that scheduler".
5. `spread_out_packages`. Cores are counted by `core.id()` (`cases/topology.rs:31`), which is the
   kernel's `core_id` and is numbered anew in each package. With a spinner on every core of
   two packages the metric is one half, not "the percentage of physical cores that are
   covered by our spinners" (`:53`), and the case fails.

Besides, a count that is silently 0. The statistics take the migrations from a line whose key is
exactly `nr_migrations` (`util/sched.rs:74`); Linux prints `se.nr_migrations`. Any other key is
passed over (`:154`) and the count stays at its default of 0 (`:68`), without an error, so that
`delta_migrations` is 0 whatever the kernel moved, and the case passes with spinners that were
moved. The comment at `cases/topology.rs:82` speaks of "observed migrations" and is true to the
letter, so this is no run of its own: `named = FALSE` of `SpreadOut` is this kernel, and
`StillWhereCounted` without its hypothesis is violated on the instance of `spread_out`.

## 6. Not modelled, and limits

* Time, but for `Converge`. Only that a timeout may fire; how often a timed call restarts its
  relative timeout is not bounded by any property.
* A death of the second `ping_pong` process leaves the first blocked and alive,
  and the parent waits for the first for ever (`workloads/process.rs:191`). No
  comment or test promises otherwise, and no property states it.
* After a fork, `next` in parent and child advance separately over the same
  mapping: their allocations overlap. `Disjoint` speaks of one process's view, and
  `ElementsKept` of vectors that all who allocate know of; for others it is violated. No
  child in the repository allocates.
* Copies of a part-filled `SharedVec` overwrite each other's pushes (`util/shared.rs:299`): the model
  has it, `ElementsKept` says when, and no property denies it, as no comment does. The
  repository shares vectors when they are full. That each copy drops the elements in place is not modelled.
* A sample taken between the collection of a reservoir and its reset is lost
  (`workloads/semaphore.rs:54`). The model has it, and `QuietCollectionExact` excludes it by its antecedent.
* A CPU that is stored last in an earlier measurement counts in a later one (`cases/topology.rs:69`), and an
  offline CPU takes default ids (`util/system.rs:468`): the model has both, and no property calls either wrong.
* On a kernel that prints `se.nr_migrations` only the part of `SpreadOut` with `named = FALSE` is met:
  `StillWhereCounted` is about the case as it is where the key is found.
* In `Child`: a panic of the function (it would unwind into a copy of the parent), a
  message that does not fit its pipe, errors of clone's pipe and of read, and signals
  other than SIGKILL by name. `util/child.rs:61` speaks of an assertion that only one thread runs at the
  fork; the code makes none, and `Child` does not model threads.
* In `Launch`: schtest killed before the process between has set its death signal; the
  process then survives, which `DeathSpreads` excludes by its antecedent.
* In `SpreadOut`: CPUs that go on or off line during the case, and machines with more
  CPUs than a `cpu_set_t` has bits (`util/system.rs:17` does not check).
* Errors other than those shown (`CreateFails`, `Crash`, `LoadFails`, `StatsFail`), the `Relaxed` ordering
  of `iters`, which the semaphore's acquire and release cover, and spurious
  returns of FUTEX_WAIT with 0.
* `Distribution`, `Estimates` and the metrics of `adaptive_priority`, `fairness` and `come_together`:
  floating-point arithmetic. `measure`: the loop is criterion's. Of `Cgroup`, the reading of
  `/proc/self/cgroup` and a directory that cannot be removed, which drop ignores. The text of `/proc`
  (`Sched`), command line and registration: parsing and glue.

## 7. Plan

Done: all modules of section 2 and the theorems of section 4. Every safety property and every
action property of a passing run is a theorem.

Next, in order: that a worker's semaphore in `Workload` takes a step of `CountingSemaphore` or
none, which closes the gap between the two modules; that the metric of `spread_out` counts
physical cores wherever core ids are distinct, which joins `CoverCountsByIds` to `TreeFaithful`; the
worker functions of the cases that `Workload` has only as tables of tokens.
