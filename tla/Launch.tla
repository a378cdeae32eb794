-------------------------------- MODULE Launch --------------------------------
(***************************************************************************)
(* schtest with a scheduler: main and run of src/src/main.rs, the process  *)
(* between them and the scheduler that Child::spawn of                     *)
(* src/src/util/child.rs sets up, the scheduler's binary, and sched_ext as *)
(* SchedExt::installed of src/src/util/sched.rs sees it.                   *)
(*                                                                         *)
(* The binary may fail to start, install its scheduler or not, leave       *)
(* another process behind, and end at any time and in any way; others on   *)
(* the machine may install a scheduler too; and schtest may be killed.     *)
(***************************************************************************)
EXTENDS Child

CONSTANTS
  Runner, Box, Sched, Daemon,  \* schtest, the process between, the binary, its child
  MaxTests                     \* bound on the test cases run

\* The errors of the functions run in Box and Sched.
Setup == [who |-> Box, how |-> "setup"]
NoExec == [who |-> Sched, how |-> "exec"]

Other == "other"    \* someone else's scheduler
Nobody == "nobody"

ASSUME LaunchAssumption ==
  /\ Pids = {Runner, Box, Sched, Daemon} /\ Handles = {Box, Sched}
  /\ Runner # Sched /\ Daemon \notin {Runner, Box, Sched}
  /\ Owner[Box] = Runner /\ Owner[Sched] = Box
  /\ Other \notin Pids /\ Nobody \notin Pids
  /\ {Setup, NoExec} \subseteq Causes
  /\ \A c \in Causes : c.who \in Handles
  /\ MaxTests \in Nat

VARIABLES
  root,      \* whether schtest runs as root
  mpc,       \* where main is
  outcome,   \* what main ends with
  tests,     \* how many test cases it has run
  bpc,       \* where the function in Box is
  spc,       \* whether Sched has become the binary
  ext,       \* the state of sched_ext
  owner      \* whose scheduler that is

mainVars == <<mpc, outcome, tests>>
extVars == <<ext, owner>>
progVars == <<bpc, spc>>
vars == <<childVars, root, mpc, outcome, tests, bpc, spc, ext, owner>>

MainPlaces == {"start", "before", "beforeops", "spawn", "poll", "polled", "query",
               "queryops", "tests", "drop", "reap", "gone", "exited"}

\* What main ends with: a verdict of its own, or an error of the child.
Verdict(how) == [who |-> Runner, how |-> how]
Verdicts == {Verdict(how) : how \in {"none", "not root", "installed", "unreadable",
  "unexpected status", "no clone", "no scheduler", "passed", "failed"}}

TypeOK ==
  /\ ChildTypeOK
  /\ root \in BOOLEAN
  /\ mpc \in MainPlaces
  /\ outcome \in Verdicts \cup Failure
  /\ tests \in 0 .. MaxTests
  /\ bpc \in {"deathsig", "subreaper", "clone", "wait", "waited"}
  /\ spc \in {"exec", "program"}
  /\ ext \in {"absent", "disabled", "enabling", "enabled", "disabling"}
  /\ owner \in {Sched, Daemon, Other, Nobody}

Init ==
  /\ ChildInit(Runner)
  /\ root \in BOOLEAN
  /\ mpc = "start" /\ outcome = Verdict("none") /\ tests = 0
  /\ bpc = "deathsig" /\ spc = "exec"
  /\ ext \in {"absent", "disabled"} /\ owner = Nobody

\* The kernel disables the scheduler of a process that ends.
Disabled(fallen) ==
  /\ ext' = IF owner \in fallen THEN "disabling" ELSE ext
  /\ UNCHANGED owner

-----------------------------------------------------------------------------
(* main and run.                                                           *)

Go(place) == mpc' = place /\ UNCHANGED <<outcome, tests>>
Conclude(verdict) == mpc' = "drop" /\ outcome' = verdict /\ UNCHANGED tests

\* Mutant: anyone may run it.
StartAsAnyone ==
  /\ Running(Runner) /\ mpc = "start"
  /\ Go("before") \/ Go("tests")
  /\ UNCHANGED <<childVars, root, progVars, extVars>>

\* main: only for root, and with or without a binary.
Start ==
  /\ Running(Runner) /\ mpc = "start"
  /\ IF ~root THEN Conclude(Verdict("not root")) ELSE Go("before") \/ Go("tests")
  /\ UNCHANGED <<childVars, root, progVars, extVars>>

\* SchedExt::installed reads the state ...
ReadState ==
  /\ Running(Runner) /\ mpc \in {"before", "query"}
  /\ CASE ext = "enabled" -> Go(IF mpc = "before" THEN "beforeops" ELSE "queryops")
       [] ext = "disabling" -> Conclude(Verdict("unexpected status"))
       [] OTHER -> Go(IF mpc = "before" THEN "spawn" ELSE "poll")
  /\ UNCHANGED <<childVars, root, progVars, extVars>>

\* ... and then the ops file, which is there while a scheduler is enabled: it is not found,
\* or is gone when it is to be opened or read, an error. run wants none before it spawns the
\* binary, and then polls until there is one.
ReadOps ==
  /\ Running(Runner) /\ mpc \in {"beforeops", "queryops"}
  /\ \/ CASE mpc = "beforeops" /\ ext = "enabled" -> Conclude(Verdict("installed"))
          [] mpc = "beforeops" /\ ext # "enabled" -> Go("spawn")
          [] mpc = "queryops" /\ ext = "enabled" -> Go("tests")
          [] mpc = "queryops" /\ ext # "enabled" -> Go("poll")
     \/ ext # "enabled" /\ Conclude(Verdict("unreadable"))
  /\ UNCHANGED <<childVars, root, progVars, extVars>>

\* Child::spawn, in a PID namespace of its own if schtest is root. It may fail.
Spawn ==
  /\ mpc = "spawn"
  /\ \/ Clone(Box, root) /\ Go("poll")
     \/ Running(Runner) /\ Conclude(Verdict("no clone")) /\ UNCHANGED childVars
  /\ UNCHANGED <<root, progVars, extVars>>

\* child.alive() ...
Poll ==
  /\ mpc = "poll" /\ Invoke(Box, "alive") /\ Go("polled")
  /\ UNCHANGED <<root, progVars, extVars>>

\* Mutant: whatever the child ended with becomes the error of run.
PolledAny ==
  /\ Running(Runner) /\ mpc = "polled" /\ call[Box] = "none"
  /\ IF result[Box] = Unset THEN Go("query") ELSE Conclude(result[Box])
  /\ UNCHANGED <<childVars, root, progVars, extVars>>

\* ... returns. A dead child's error, if it has one, becomes that of run.
Polled ==
  /\ Running(Runner) /\ mpc = "polled" /\ call[Box] = "none"
  /\ CASE result[Box] = Unset -> Go("query")
       [] result[Box] = Ok -> Conclude(Verdict("no scheduler"))
       [] OTHER -> Conclude(result[Box])
  /\ UNCHANGED <<childVars, root, progVars, extVars>>

\* run_tests: one test case after the other, and their conclusion.
RunTest ==
  /\ Running(Runner) /\ mpc = "tests" /\ tests < MaxTests
  /\ tests' = tests + 1
  /\ outcome' \in {outcome, Verdict("failed")}
  /\ UNCHANGED <<childVars, root, mpc, progVars, extVars>>

TestsDone ==
  /\ Running(Runner) /\ mpc = "tests"
  /\ Conclude(Verdict(IF outcome = Verdict("failed") THEN "failed" ELSE "passed"))
  /\ UNCHANGED <<childVars, root, progVars, extVars>>

\* The child, if there is one, is dropped: kill() ...
DropKill ==
  /\ mpc = "drop"
  /\ IF status[Box] = "none"
     THEN Running(Runner) /\ Go("gone") /\ UNCHANGED childVars
     ELSE Invoke(Box, "kill") /\ Go("reap")
  /\ UNCHANGED <<root, progVars, extVars>>

\* ... and wait(true, false).
DropWait ==
  /\ mpc = "reap" /\ Invoke(Box, "wait") /\ Go("gone")
  /\ UNCHANGED <<root, progVars, extVars>>

\* main returns or calls exit().
Leave ==
  /\ mpc = "gone" /\ call[Box] = "none"
  /\ EndWith(Runner, IF outcome = Verdict("passed") THEN "0" ELSE "code")
  /\ Go("exited")
  /\ UNCHANGED <<root, progVars, extVars>>

\* schtest is killed.
RunnerKilled ==
  /\ mpc # "exited"
  /\ EndWith(Runner, "signal")
  /\ UNCHANGED <<root, mainVars, progVars, extVars>>

Main ==
  \/ Start \/ ReadState \/ ReadOps \/ Spawn \/ Poll \/ Polled \/ RunTest \/ TestsDone
  \/ DropKill \/ DropWait \/ Leave

-----------------------------------------------------------------------------
(* The processes of Child::spawn.                                          *)

\* The function in Box returns, and all in its namespace ends with it.
BoxReturns(r) == Return(Box, r) /\ Disabled(Fallen(Box)) /\ UNCHANGED progVars

\* set_pdeathsig, or its error.
SetDeathSig ==
  /\ Running(Box) /\ bpc = "deathsig"
  /\ \/ /\ armed' = armed \cup {Box}
        /\ bpc' = "subreaper"
        /\ UNCHANGED <<status, fate, parent, space, reaper, subreapers, killed, pipe,
                       writers, handleVars, truth, spc, extVars>>
     \/ BoxReturns(Setup)
  /\ UNCHANGED <<root, mainVars>>

\* set_child_subreaper, or its error.
SetSubreaper ==
  /\ Running(Box) /\ bpc = "subreaper"
  /\ \/ /\ subreapers' = subreapers \cup {Box}
        /\ bpc' = "clone"
        /\ UNCHANGED <<status, fate, parent, space, reaper, armed, killed, pipe,
                       writers, handleVars, truth, spc, extVars>>
     \/ BoxReturns(Setup)
  /\ UNCHANGED <<root, mainVars>>

\* Self::run for the binary, or its error.
RunBinary ==
  /\ bpc = "clone"
  /\ \/ Clone(Sched, FALSE) /\ bpc' = "wait" /\ UNCHANGED <<spc, extVars>>
     \/ BoxReturns(Setup)
  /\ UNCHANGED <<root, mainVars>>

\* child.wait(true, true) ...
WaitForAll ==
  /\ bpc = "wait" /\ Invoke(Sched, "waitall") /\ bpc' = "waited"
  /\ UNCHANGED <<root, mainVars, spc, extVars>>

\* ... and its result is that of the function.
PassOn ==
  /\ bpc = "waited" /\ call[Sched] = "none"
  /\ BoxReturns(result[Sched])
  /\ UNCHANGED <<root, mainVars>>

BoxStep == SetDeathSig \/ SetSubreaper \/ RunBinary \/ WaitForAll \/ PassOn

\* execvp, or its error.
Exec ==
  /\ spc = "exec"
  /\ \/ ExecOk(Sched) /\ spc' = "program" /\ UNCHANGED extVars
     \/ Return(Sched, NoExec) /\ Disabled({Sched}) /\ UNCHANGED spc
  /\ UNCHANGED <<root, mainVars, bpc>>

-----------------------------------------------------------------------------
(* The binary, its child, and sched_ext.                                   *)

\* The binary starts another process.
Daemonize ==
  /\ spc = "program" /\ ForkPlain(Sched, Daemon)
  /\ UNCHANGED <<root, mainVars, progVars, extVars>>

\* The binary or its child ends.
BinaryEnds ==
  /\ \E p \in {Sched, Daemon}, how \in {"0", "code", "signal"} :
       /\ p = Sched => spc = "program"
       /\ EndWith(p, how) /\ Disabled(Fallen(p))
  /\ UNCHANGED <<root, mainVars, progVars>>

\* A SIGKILL arrives.
Killed ==
  /\ \E p \in Pids : DieOfKill(p) /\ Disabled(Fallen(p))
  /\ UNCHANGED <<root, mainVars, progVars>>

\* Someone enables a scheduler, in two steps, and may disable it.
Enable ==
  /\ \/ /\ ext = "disabled" /\ ext' = "enabling"
        /\ \/ Running(Sched) /\ spc = "program" /\ owner' = Sched
           \/ Running(Daemon) /\ owner' = Daemon
           \/ owner' = Other
     \/ ext = "enabling" /\ ext' = "enabled" /\ UNCHANGED owner
     \/ ext \in {"enabling", "enabled"} /\ ext' = "disabling" /\ UNCHANGED owner
  /\ UNCHANGED <<childVars, root, mainVars, progVars>>

DisableDone ==
  /\ ext = "disabling" /\ ext' = "disabled" /\ owner' = Nobody
  /\ UNCHANGED <<childVars, root, mainVars, progVars>>

-----------------------------------------------------------------------------
Calls ==
  /\ \E h \in Handles : CallStep(h)
  /\ UNCHANGED <<root, mainVars, progVars, extVars>>

Next ==
  \/ Main \/ RunnerKilled \/ BoxStep \/ Exec \/ Calls
  \/ Daemonize \/ BinaryEnds \/ Killed \/ Enable \/ DisableDone

Spec == Init /\ [][Next]_vars

\* schtest, the process between and the attempt to start the binary run when
\* they can, their calls go on, and a SIGKILL arrives. What the binary does, and
\* others, is not fair, nor is a kill of schtest.
FairSpec ==
  /\ Spec
  /\ WF_vars(Main) /\ WF_vars(BoxStep) /\ WF_vars(Exec) /\ WF_vars(Killed)
  /\ \A h \in Handles :
       WF_vars(CallStep(h) /\ UNCHANGED <<root, mainVars, progVars, extVars>>)

-----------------------------------------------------------------------------
BoxOutcome == INSTANCE ChildOutcome WITH truth <- truth[Box], report <- result[Box]
SchedOutcome ==
  INSTANCE ChildOutcome WITH truth <- truth[Sched], report <- result[Sched]

\* The result of a Child is how its process ended, across waitpid, the exit
\* code, the signal and the message in the pipe; it comes after the end and
\* does not change (child.rs:183-261).
Honest == BoxOutcome!Spec /\ SchedOutcome!Spec

\* An error that schtest ends with is what happened: to the binary, through two
\* processes and two pipes, or to the process between; and it says that the binary
\* ended without a scheduler only if it ended well (main.rs:73-80, child.rs:330).
ReasonIsTrue ==
  /\ outcome \in Failure => outcome \in {truth[Box], truth[Sched]}
  /\ outcome = Verdict("no scheduler") => truth[Sched] = Ok

\* When schtest ends by itself no process of the scheduler is left, not even one
\* that daemonized, nor a scheduler of theirs (README.md, "Kill the scheduler when
\* done"; child.rs:303-309, main.rs:193).
NothingLeftBehind ==
  mpc = "exited" =>
    /\ \A p \in Pids \ {Runner} : status[p] \in {"none", "reaped"}
    /\ owner \in {Sched, Daemon} => ext = "disabling"

\* Who has taken a process's status finds its pipe without writers, and the read to the
\* end of it does not block: neither the reader nor a process cloned meanwhile, not even
\* the binary or what it leaves behind, still holds the write end, so that alive() and
\* kill() return at once (child.rs:28, 144, 162-170, 226-236).
PipeIsFree == \A h \in Handles : call[h] = "read" => writers[h] = {}

\* schtest does not wait for ever for a scheduler whose binary has ended, and ends
\* once it drops the child, unless it is killed (main.rs:72-91, child.rs:337-342).
RunEnds ==
  /\ Dead(Sched) ~> (mpc \in {"tests", "drop", "reap", "gone", "exited"} \/ Dead(Runner))
  /\ mpc = "drop" ~> (mpc = "exited" \/ Dead(Runner))

\* If schtest is killed after the process between has set its death signal, that
\* one and, for root, all others end too (child.rs:312). One killed before leaves
\* them running.
DeathSpreads ==
  [](Running(Runner) /\ Box \in armed =>
       [](Dead(Runner) =>
            <>(Dead(Box) /\ (root => \A p \in {Sched, Daemon} : ~Running(p)))))

\* README.md and main.rs:20 of the program: while test cases run, the scheduler
\* of the binary is the one in force.
TestsAgainstThatScheduler ==
  (mpc = "tests" /\ status[Box] # "none") => ext = "enabled" /\ owner \in {Sched, Daemon}
=============================================================================
