----------------------------- MODULE SpreadOut ------------------------------
(***************************************************************************)
(* The test case spread_out of src/src/cases/topology.rs: its spinners     *)
(* (workloads/spinner.rs), the kernel that moves them between CPUs and     *)
(* counts how often, and the parent that reads what they last stored, by   *)
(* the tree of Topology, for as long as Converge tells it to.              *)
(*                                                                         *)
(* The handshake by which a spinner is started and waited for is that of   *)
(* Workload: here it is in "ready" until it is started, and again once it  *)
(* has spun.                                                               *)
(***************************************************************************)
EXTENDS Topology, Converge

CONSTANTS
  Machines,      \* the machines a System is loaded from
  Driven,        \* those of them on which the case goes on
  SampleEvery,   \* the iterations, that is milliseconds, per sample
  MaxMoves       \* bound on the times the kernel moves spinners, in all

ASSUME SpreadOutAssumption ==
  /\ Driven \subseteq Machines /\ SampleEvery \in Nat \ {0} /\ MaxMoves \in Nat
  /\ \A m \in Machines : \A c \in DOMAIN m :
       /\ c \in 0 .. Width * Words - 1
       /\ \A file \in {m[c].package, m[c].core, m[c].die, m[c].l3} :
            file \in {Missing, Junk} \/ file \in Int

VARIABLES
  machine,    \* the machine
  system,     \* System::load's tree of it
  named,      \* whether the kernel's statistics have a line of the name the program looks
              \* for the migrations under, with a number
  pc,         \* where the parent is
  at,         \* the spinner its loop is at
  left,       \* the samples it has yet to take
  iters,      \* converge's iterations
  exact,      \* history: the last measurement took exactly MaxTime
  base,       \* migrations: those read of each spinner when they were reset
  began,      \* history: those the kernel had counted then
  delta,      \* delta_migrations
  counts,     \* the keys of counts: the physical ids seen
  verdict,    \* how the case ends, or "none"
  spc,        \* where each spinner is
  where,      \* the CPU it is on
  affinity,   \* the CPUs it may be on
  last,       \* Spinner.cpu_id
  moves,      \* the kernel's nr_migrations
  spun,       \* history: that of each spinner when it last ended its spin
  seen        \* history: the CPUs sampled in this measurement

loaded == <<machine, system, named>>
measuring == <<iters, exact, base, began, delta, counts, left>>
kernel == <<spc, where, affinity, moves, spun>>
vars == <<machine, system, named, pc, at, left, iters, exact, base, began, delta, counts,
          verdict, spc, where, affinity, last, moves, spun, seen>>

\* One spinner for each core.
Spinners == DOMAIN system.cores

Init ==
  /\ machine \in Machines
  /\ system = Load(machine) /\ named \in BOOLEAN
  /\ pc = "loaded" /\ at = 1 /\ left = 0
  /\ iters = 1 /\ exact = FALSE /\ base = <<>> /\ began = <<>> /\ delta = 0 /\ counts = {}
  /\ verdict = "none"
  /\ spc = <<>> /\ where = <<>> /\ affinity = <<>> /\ last = <<>> /\ moves = <<>>
  /\ spun = <<>> /\ seen = {}

-----------------------------------------------------------------------------
(* The parent: creating the spinners.                                      *)

Go(label, s) == pc' = label /\ at' = s

\* The next spinner of the loop, or what comes after it.
NextOr(label, other) == IF at < Len(system.cores) THEN Go(label, at + 1) ELSE Go(other, 1)

\* The case returns or panics.
End(how) == pc' = "end" /\ verdict' = how /\ UNCHANGED at

\* Context::create, System::load or the first allocation is an error.
LoadFails ==
  /\ pc = "loaded" /\ machine \in Driven /\ End("error")
  /\ UNCHANGED <<loaded, measuring, kernel, last, seen>>

\* cores[0] of a system without cores.
NoCores ==
  /\ pc = "loaded" /\ machine \in Driven /\ system.cores = <<>>
  /\ End("panicked")
  /\ UNCHANGED <<loaded, measuring, kernel, last, seen>>

\* ctx.allocate: Spinner::default() holds CPU 0.
Allocate ==
  /\ pc = "loaded" /\ machine \in Driven /\ system.cores # <<>>
  /\ spc' = [s \in Spinners |-> "unborn"]
  /\ affinity' = [s \in Spinners |-> Online(machine)]
  /\ last' = [s \in Spinners |-> 0]
  /\ where' = last' /\ moves' = last' /\ base' = last' /\ began' = last' /\ spun' = last'
  /\ Go("create", 1)
  /\ UNCHANGED <<loaded, left, iters, exact, delta, counts, verdict, seen>>

\* process!: Process::create forks, on whatever CPU, and waits until the process is
\* ready ...
Create ==
  /\ pc = "create" /\ spc[at] = "unborn"
  /\ spc' = [spc EXCEPT ![at] = "pin"]
  /\ \E c \in Online(machine) : where' = [where EXCEPT ![at] = c]
  /\ UNCHANGED <<loaded, pc, at, measuring, verdict, affinity, moves, spun, last, seen>>

Created ==
  /\ pc = "create" /\ spc[at] \in {"ready", "left"}
  /\ NextOr("create", "rest")
  /\ UNCHANGED <<loaded, measuring, verdict, kernel, last, seen>>

\* ... which it never is when it could not migrate: the case returns the error, as it does
\* that of an allocation or a fork.
CreateFails ==
  /\ pc = "create" /\ spc[at] \in {"unborn", "dead"}
  /\ End("error")
  /\ UNCHANGED <<loaded, measuring, kernel, last, seen>>

-----------------------------------------------------------------------------
(* The parent: one measurement.                                            *)

\* ctx.start(iters).
StartRound ==
  /\ pc = "rest"
  /\ spc' = [s \in Spinners |-> IF spc[s] = "ready" THEN "go" ELSE "dead"]
  /\ left' = iters \div SampleEvery /\ counts' = {} /\ delta' = 0
  /\ seen' = {}
  /\ Go("reset", 1)
  /\ UNCHANGED <<loaded, iters, exact, base, began, verdict, where, affinity, last, moves,
                 spun>>

\* handle.stats(): Sched::get_process_thread_stats cannot open or read the files of the
\* process, and the error ends the case, in converge!. A process that has died but has not
\* been waited for still has them.
StatsFail ==
  /\ pc \in {"reset", "after"}
  /\ End("panicked")
  /\ UNCHANGED <<loaded, measuring, kernel, last, seen>>

\* nr_migrations as handle.stats() returns it: what the kernel has counted if the file has
\* a line of exactly this name, with a number, and the default of 0 if it has none.
Migrations(s) == IF named THEN moves[s] ELSE 0

\* The migrations of each spinner are noted ...
Reset ==
  /\ pc = "reset"
  /\ base' = [base EXCEPT ![at] = Migrations(at)]
  /\ began' = [began EXCEPT ![at] = moves[at]]
  /\ NextOr("reset", IF left = 0 THEN "wait" ELSE "sample")
  /\ UNCHANGED <<loaded, left, iters, exact, delta, counts, verdict, kernel, last,
                 seen>>

\* Mutant: hyperthreads are taken for cores.
Logical(c) == {c}

\* logical_to_physical: the id of the core that a CPU belongs to, if it is known.
Physical(c) == {system.cores[i].id : i \in {j \in Spinners : c \in Threads(system.cores[j])}}

\* Mutant: each sample starts over.
SampleAfresh ==
  /\ pc = "sample"
  /\ counts' = (IF at = 1 THEN {} ELSE counts) \cup Physical(last[at])
  /\ seen' = seen \cup {last[at]}
  /\ IF at = Len(system.cores)
     THEN left' = left - 1 /\ Go(IF left = 1 THEN "wait" ELSE "sample", 1)
     ELSE Go("sample", at + 1) /\ UNCHANGED left
  /\ UNCHANGED <<loaded, iters, exact, base, began, delta, verdict, kernel, last>>

\* ... then every 10 milliseconds the CPU that each has stored is counted ...
Sample ==
  /\ pc = "sample"
  /\ counts' = counts \cup Physical(last[at])
  /\ seen' = seen \cup {last[at]}
  /\ IF at = Len(system.cores)
     THEN left' = left - 1 /\ Go(IF left = 1 THEN "wait" ELSE "sample", 1)
     ELSE Go("sample", at + 1) /\ UNCHANGED left
  /\ UNCHANGED <<loaded, iters, exact, base, began, delta, verdict, kernel, last>>

\* ... ctx.wait() returns ...
Wait ==
  /\ pc = "wait" /\ spc[at] \in {"ready", "left"}
  /\ NextOr("wait", "after")
  /\ UNCHANGED <<loaded, measuring, verdict, kernel, last, seen>>

\* ... or finds a process dead ...
WaitFails ==
  /\ pc = "wait" /\ spc[at] = "dead"
  /\ End("panicked")
  /\ UNCHANGED <<loaded, measuring, kernel, last, seen>>

\* Mutant: the last spinner's migrations stand for all.
AfterLast ==
  /\ pc = "after"
  /\ delta' = Migrations(at) - base[at]
  /\ NextOr("after", "decide")
  /\ UNCHANGED <<loaded, left, iters, exact, base, began, counts, verdict, kernel, last, seen>>

\* ... and the migrations since are summed.
After ==
  /\ pc = "after"
  /\ delta' = delta + Migrations(at) - base[at]
  /\ NextOr("after", "decide")
  /\ UNCHANGED <<loaded, left, iters, exact, base, began, counts, verdict, kernel, last, seen>>

Metric == IF delta > 0 THEN 0 ELSE (100 * Cardinality(counts)) \div Len(system.cores)

\* converge's loop, and what the case makes of its value: an iteration takes a
\* millisecond or more, and how much more is not bounded.
Decide ==
  /\ pc = "decide"
  /\ \E e \in Min({iters, MaxTime + 1}) .. MaxTime + 1 :
       /\ exact' = (e = MaxTime)
       /\ \/ Converged(Metric, e) /\ End(Asserted(Metric)) /\ UNCHANGED iters
          \/ GivesUp(Metric, e) /\ End(Asserted(0)) /\ UNCHANGED iters
          \/ /\ ~Converged(Metric, e) /\ ~GivesUp(Metric, e)
             /\ iters' = NextIters(iters, e)
             /\ Go("rest", 1) /\ UNCHANGED verdict
  /\ UNCHANGED <<loaded, base, began, delta, counts, left, kernel, last, seen>>

-----------------------------------------------------------------------------
(* A spinner, and the kernel. The case's end drops its Context, which      *)
(* kills them.                                                             *)

FirstCore == Cpus(CoreMask(system.cores[1]))

\* first_core.migrate(): CPUSet::run with nothing to run sets the affinity. What that
\* adds to the migrations is left out: only what they grow by from "ready" is used ...
Pin(s) ==
  /\ pc # "end" /\ spc[s] = "pin"
  /\ LET target == FirstCore \cap Online(machine)
     IN IF target = {}
        THEN /\ spc' = [spc EXCEPT ![s] = "dead"]
             /\ UNCHANGED <<where, affinity>>
        ELSE /\ spc' = [spc EXCEPT ![s] = "pinned"]
             /\ affinity' = [affinity EXCEPT ![s] = target]
             /\ \E c \in target :
                  /\ where[s] \in target => c = where[s]
                  /\ where' = [where EXCEPT ![s] = c]
  /\ UNCHANGED <<loaded, pc, at, measuring, verdict, last, moves, spun, seen>>

\* ... and puts it back.
Restore(s) ==
  /\ pc # "end" /\ spc[s] = "pinned"
  /\ spc' = [spc EXCEPT ![s] = "ready"]
  /\ affinity' = [affinity EXCEPT ![s] = Online(machine)]
  /\ UNCHANGED <<loaded, pc, at, measuring, verdict, where, last, moves, spun, seen>>

\* The kernel moves a process that runs. One that is ready does until it sleeps.
Move(s) ==
  /\ pc # "end" /\ spc[s] \in {"pinned", "ready", "go"}
  /\ SumFunction(moves) < MaxMoves
  /\ \E c \in affinity[s] \ {where[s]} : where' = [where EXCEPT ![s] = c]
  /\ moves' = [moves EXCEPT ![s] = @ + 1]
  /\ UNCHANGED <<loaded, pc, at, measuring, verdict, spc, affinity, last, spun, seen>>

\* Spinner::spin, a turn of its loop: sched_getcpu() and the store of it.
Spin(s) ==
  /\ pc # "end" /\ spc[s] = "go"
  /\ last' = [last EXCEPT ![s] = where[s]]
  /\ UNCHANGED <<loaded, pc, at, measuring, verdict, kernel, seen>>

\* Its duration is over, be it before the first turn, and it is ready again.
Spun(s) ==
  /\ pc # "end" /\ spc[s] = "go"
  /\ spc' = [spc EXCEPT ![s] = "ready"]
  /\ spun' = [spun EXCEPT ![s] = moves[s]]
  /\ UNCHANGED <<loaded, pc, at, measuring, verdict, where, affinity, last, moves, seen>>

\* It is killed. One that has said that it is ready leaves that behind.
Die(s) ==
  /\ pc # "end" /\ spc[s] \in {"pin", "pinned", "ready", "go"}
  /\ spc' = [spc EXCEPT ![s] = IF @ = "ready" THEN "left" ELSE "dead"]
  /\ UNCHANGED <<loaded, pc, at, measuring, verdict, where, affinity, last, moves, spun,
                 seen>>

Parent ==
  \/ LoadFails \/ NoCores \/ Allocate \/ Create \/ Created \/ CreateFails
  \/ StartRound \/ StatsFail \/ Reset \/ Sample \/ Wait \/ WaitFails \/ After \/ Decide

Next ==
  \/ Parent
  \/ \E s \in DOMAIN spc : Pin(s) \/ Restore(s) \/ Move(s) \/ Spin(s) \/ Spun(s) \/ Die(s)

Spec == Init /\ [][Next]_vars

FairSpec ==
  /\ Spec /\ WF_vars(Parent)
  /\ WF_vars(\E s \in DOMAIN spc : Pin(s) \/ Restore(s))
  /\ WF_vars(\E s \in DOMAIN spc : Spun(s))

-----------------------------------------------------------------------------
(* Properties.                                                             *)

\* Type invariant, and the iterations stay within twice the time a measurement may
\* take, far from the cap of their type, at which they would grow no more
\* (benchmark.rs:93-109).
TypeOK ==
  /\ pc \in {"loaded", "create", "rest", "reset", "sample", "wait",
             "after", "decide", "end"}
  /\ named \in BOOLEAN
  /\ iters \in 1 .. 2 * MaxTime /\ exact \in BOOLEAN /\ left \in 0 .. iters
  /\ verdict \in {"none", "passed", "panicked", "error"}
  /\ \A s \in DOMAIN spc :
       /\ at \in Spinners /\ s \in Spinners
       /\ spc[s] \in {"unborn", "pin", "pinned", "ready", "left", "go", "dead"}
       /\ where[s] \in Nat /\ affinity[s] \subseteq Present(machine)
       /\ last[s] \in Nat /\ moves[s] \in Nat /\ base[s] \in 0 .. Migrations(s)
       /\ began[s] \in 0 .. moves[s] /\ spun[s] \in 0 .. moves[s]
  /\ delta \in Nat /\ counts \subseteq {system.cores[i].id : i \in Spinners}
  /\ seen \subseteq Online(machine) \cup {0}

\* The tree, the masks and the wake types of any machine are what Topology promises.
SystemFaithful ==
  pc = "loaded" =>
    /\ TreeFaithful(machine, system)
    /\ MasksFaithful(machine, system)
    /\ system.cores # <<>> => WakeTypesDiffer(system)

CoresWith(cpus) == {i \in Spinners : Threads(system.cores[i]) \cap cpus # {}}

\* When the case passes, the CPUs its spinners had stored belong to as many of the
\* physical cores as it asks for: they are not merely as many hyperthreads
\* (topology.rs:20-23, 64-74). A spinner that has not had a turn in this measurement
\* counts where it was in an earlier one, or on CPU 0.
PassMeansCores ==
  verdict = "passed" =>
    100 * Cardinality(CoresWith(seen)) >= Threshold * Len(system.cores)

\* When it passes where the program finds the migrations, no spinner was moved in that
\* measurement after its migrations were reset and before it ended its spin
\* (topology.rs:59-63, 76-86). It is not so where 0 is read because the kernel gives them
\* another name (sched.rs:68-78, 154): then a case passes with any migrations.
StillWhereCounted ==
  named /\ verdict = "passed" => \A s \in Spinners : spun[s] <= began[s]

DistinctIds == \A i, j \in Spinners : i # j => system.cores[i].id # system.cores[j].id

\* A measurement that has seen a spinner on each of the physical cores, and no
\* migrations, has the whole of its metric (topology.rs:53-54, 81-87).
CoverCounts ==
  pc = "decide" /\ delta = 0 /\ CoresWith(seen) = Spinners => Metric = 100

\* It has on a machine whose core ids are distinct.
CoverCountsByIds == DistinctIds => CoverCounts

\* Each measurement has more iterations than the one before, unless that took exactly as
\* long as one may: then it is repeated as it was. With their bound in TypeOK this leaves
\* only finitely many of the others, which is why the case ends (benchmark.rs:87-109).
MeasuresMore ==
  [][pc = "decide" /\ pc' = "rest" =>
       IF exact' THEN iters' = iters ELSE iters' > iters]_vars

\* The case ends, whatever its spinners do, unless from some time on every
\* measurement lasts exactly as long as one may (benchmark.rs:77-110).
CaseEnds == machine \in Driven => (<>(pc = "end") \/ <>[]exact)
=============================================================================
