---------------------------- MODULE LaunchProofs ----------------------------
(***************************************************************************)
(* Proofs about schtest with a scheduler, for any number of test cases and *)
(* any causes of failure, over those about child processes.                *)
(***************************************************************************)
EXTENDS Launch, ChildProofs

-----------------------------------------------------------------------------
(* The inductive invariant.                                                *)

Started(p) == status[p] # "none"

\* All processes of the scheduler are in the namespace of Box, and end with it.
SpaceInv ==
  /\ space[Runner] = Kernel
  /\ \A p \in {Box, Sched, Daemon} :
       space[p] \in {Kernel, Box} /\ (Started(p) => space[p] = Box)
  /\ \A p \in {Sched, Daemon} :
       /\ Started(p) => Started(Box)
       /\ Dead(Box) => status[p] \in {"none", "reaped"}

\* main spawns for root only, and when it leaves it has waited for what it spawned.
MainInv ==
  /\ mpc \in {"before", "beforeops", "spawn"} => root = TRUE
  /\ mpc = "gone" => ~Started(Box) \/ call[Box] \in {"wait", "read"} \/ result[Box] # Unset
  /\ mpc = "exited" => ~Running(Runner) /\ status[Box] \in {"none", "reaped"}

\* Box has a result to pass on once its wait is over.
WaitedInv ==
  bpc = "waited" => call[Sched] \in {"waitall", "read"} \/ result[Sched] # Unset

\* A scheduler of theirs that is in force, or becoming so, has a live process.
OwnerInv == owner \in {Sched, Daemon} /\ ext # "disabling" => Running(owner)

ReasonInv ==
  /\ ReasonIsTrue
  /\ truth[Box] = Ok => truth[Sched] = Ok

LaunchInv ==
  TypeOK /\ HandleInv /\ SpaceInv /\ MainInv /\ WaitedInv /\ OwnerInv /\ ReasonInv

-----------------------------------------------------------------------------
(* The actors and the verdicts.                                            *)

LEMMA Actors ==
  /\ Pids = {Runner, Box, Sched, Daemon} /\ Handles = {Box, Sched}
  /\ Runner # Box /\ Runner # Sched /\ Runner # Daemon
  /\ Box # Sched /\ Box # Daemon /\ Sched # Daemon
  /\ Kernel \notin Pids /\ Other \notin Pids /\ Nobody \notin Pids
  /\ Owner[Box] = Runner /\ Owner[Sched] = Box
BY LaunchAssumption, ChildAssumption

LEMMA VerdictsApart ==
  /\ \A v \in Verdicts : v \notin Failure
  /\ \A how : Verdict(how) \notin Failure
<1>1. \A f \in Failure : f.who \in Handles
  BY LaunchAssumption DEF Failure
<1>2. \A how : Verdict(how).who = Runner
  BY DEF Verdict
<1>3. \A how : Verdict(how) \notin Failure
  BY <1>1, <1>2, Actors
<1>4. \A v \in Verdicts : \E how : v = Verdict(how)
  BY Zenon DEF Verdicts
<1> QED BY <1>3, <1>4

LEMMA Messages ==
  Setup \in Failure /\ NoExec \in Failure /\ Ok \notin Failure /\ Unset \notin Outcomes
BY LaunchAssumption, ChildAssumption DEF Failure

-----------------------------------------------------------------------------
(* The initial states.                                                     *)

LEMMA InitLaunchInv == Init => LaunchInv
<1> SUFFICES ASSUME Init PROVE LaunchInv
  OBVIOUS
<1>1. ChildTypeOK /\ HandleInv
  BY Actors, InitChild DEF Init
<1>2. outcome = Verdict("none") /\ outcome \in Verdicts /\ outcome \notin Failure
  BY VerdictsApart DEF Init, Verdicts
<1>3. TypeOK
  BY <1>1, <1>2, LaunchAssumption DEF Init, TypeOK, MainPlaces
<1>4. SpaceInv
  BY Actors DEF Init, ChildInit, SpaceInv, Started, Dead
<1>5. MainInv /\ WaitedInv /\ OwnerInv
  BY Actors DEF Init, MainInv, WaitedInv, OwnerInv
<1>6. ReasonInv
  <2>1. outcome # Verdict("no scheduler")
    BY <1>2 DEF Verdict
  <2>2. truth[Box] = Unset
    BY Actors DEF Init, ChildInit
  <2> QED BY <1>2, <2>1, <2>2, Messages DEF ReasonInv, ReasonIsTrue, Outcomes
<1> QED BY <1>1, <1>3, <1>4, <1>5, <1>6 DEF LaunchInv

-----------------------------------------------------------------------------
(* What keeps each part.                                                   *)

\* Nobody is born, and the only change to a status is that it is taken.
StatusTaken ==
  \A p \in Pids :
    status'[p] = status[p] \/ (status[p] = "zombie" /\ status'[p] = "reaped")

LEMMA SpaceStays ==
  ASSUME SpaceInv, UNCHANGED space, StatusTaken
  PROVE  SpaceInv'
<1>1. \A p \in Pids : (Started(p)' <=> Started(p)) /\ (Dead(p)' <=> Dead(p))
  BY DEF StatusTaken, Started, Dead
<1>2. \A p \in Pids : status[p] \in {"none", "reaped"} => status'[p] \in {"none", "reaped"}
  BY DEF StatusTaken
<1> QED BY <1>1, <1>2, Actors DEF SpaceInv

LEMMA OwnerStays ==
  ASSUME OwnerInv, UNCHANGED <<ext, owner>>, StatusTaken
  PROVE  OwnerInv'
BY Actors DEF OwnerInv, StatusTaken, Running

\* A truth that is known stays so, and with it what main said of it.
LEMMA ReasonStays ==
  ASSUME ReasonInv, \A h \in Handles : HonestStep(h), UNCHANGED outcome,
         truth'[Box] = Ok => truth[Box] = Ok \/ truth[Sched] = Ok
  PROVE  ReasonInv'
<1>1. \A h \in Handles : truth[h] # Unset => truth'[h] = truth[h]
  BY DEF HonestStep
<1>2. Box \in Handles /\ Sched \in Handles /\ Ok # Unset /\ Unset \notin Failure
  BY Actors, Messages DEF Outcomes
<1> QED BY <1>1, <1>2 DEF ReasonInv, ReasonIsTrue

\* Of a step that leaves main and the others as they are, the invariant asks only
\* this.
LEMMA OthersStep ==
  ASSUME LaunchInv, ChildStepOK, SpaceInv', WaitedInv', OwnerInv',
         UNCHANGED <<root, mpc, outcome, tests>>,
         bpc' \in {"deathsig", "subreaper", "clone", "wait", "waited"},
         spc' \in {"exec", "program"},
         ext' \in {"absent", "disabled", "enabling", "enabled", "disabling"},
         owner' \in {Sched, Daemon, Other, Nobody},
         truth'[Box] = Ok => truth[Box] = Ok \/ truth[Sched] = Ok,
         mpc = "gone" /\ Started(Box)' => Started(Box),
         call[Box] \in {"wait", "read"} =>
           call'[Box] \in {"wait", "read"} \/ result'[Box] # Unset,
         result[Box] # Unset => result'[Box] # Unset,
         mpc = "exited" => ~Running(Runner)' /\ status'[Box] \in {"none", "reaped"}
  PROVE  LaunchInv'
<1>1. TypeOK'
  BY DEF ChildStepOK, LaunchInv, TypeOK
<1>2. MainInv'
  BY DEF LaunchInv, MainInv
<1>3. ReasonInv'
  BY ReasonStays DEF LaunchInv, ChildStepOK
<1> QED BY <1>1, <1>2, <1>3 DEF LaunchInv, ChildStepOK

-----------------------------------------------------------------------------
(* main by itself.                                                         *)

LEMMA MainAlone ==
  ASSUME LaunchInv, UNCHANGED <<childVars, root, progVars, extVars>>,
         mpc' \in MainPlaces, outcome' \in Verdicts \cup Failure, tests' \in 0 .. MaxTests,
         mpc' \in {"before", "beforeops", "spawn"} => root = TRUE,
         mpc' = "gone" => ~Started(Box), mpc' # "exited",
         outcome' \in Failure => outcome' = truth[Box] \/ outcome' = outcome,
         outcome' = Verdict("no scheduler") => truth[Sched] = Ok \/ outcome' = outcome
  PROVE  LaunchInv'
<1>1. UNCHANGED <<status, fate, parent, space, reaper, subreapers, armed, killed,
                  pipe, writers, result, call, truth, root, bpc, spc, ext, owner>>
  BY DEF childVars, progVars, extVars
<1>2. ChildStepOK
  BY StutterKeeps DEF LaunchInv, TypeOK
<1>3. TypeOK'
  BY <1>1, <1>2 DEF ChildStepOK, LaunchInv, TypeOK
<1>4. SpaceInv' /\ OwnerInv'
  BY <1>1, SpaceStays, OwnerStays DEF LaunchInv, StatusTaken
<1>5. WaitedInv'
  BY <1>1 DEF LaunchInv, WaitedInv
<1>6. MainInv'
  <2>1. mpc' \in {"before", "beforeops", "spawn"} => root' = TRUE
    BY <1>1
  <2>2. mpc' = "gone" => ~Started(Box)'
    BY <1>1 DEF Started
  <2> QED BY <2>1, <2>2 DEF MainInv
<1>7. ReasonInv'
  BY <1>1 DEF LaunchInv, ReasonInv, ReasonIsTrue
<1> QED BY <1>2, <1>3, <1>4, <1>5, <1>6, <1>7 DEF ChildStepOK, LaunchInv

LEMMA StartInv == ASSUME LaunchInv, Start PROVE LaunchInv'
<1>1. UNCHANGED <<childVars, root, progVars, extVars>> /\ tests' = tests
  BY DEF Start, Go, Conclude
<1>2. \/ mpc' = "drop" /\ outcome' = Verdict("not root")
      \/ root /\ mpc' \in {"before", "tests"} /\ outcome' = outcome
  BY DEF Start, Go, Conclude, LaunchInv, TypeOK
<1>3. Verdict("not root") \in Verdicts /\ Verdict("not root") # Verdict("no scheduler")
  BY DEF Verdicts, Verdict
<1> QED
  BY <1>1, <1>2, <1>3, VerdictsApart, MainAlone DEF MainPlaces, LaunchInv, TypeOK

LEMMA ReadInv == ASSUME LaunchInv, ReadState \/ ReadOps PROVE LaunchInv'
<1> DEFINE found == {Verdict("unexpected status"), Verdict("installed"), Verdict("unreadable")}
<1>1. UNCHANGED <<childVars, root, progVars, extVars>> /\ tests' = tests
  BY DEF ReadState, ReadOps, Go, Conclude
<1>2. \/ mpc' = "drop" /\ outcome' \in found
      \/ mpc' \in {"queryops", "poll", "tests"} /\ outcome' = outcome
      \/ mpc \in {"before", "beforeops"} /\ mpc' \in {"beforeops", "spawn"} /\ outcome' = outcome
  BY DEF ReadState, ReadOps, Go, Conclude
<1>3. /\ found \subseteq Verdicts
      /\ Verdict("no scheduler") \notin found
  BY DEF Verdicts, Verdict
<1>4. mpc \in {"before", "beforeops"} => root = TRUE
  BY DEF LaunchInv, MainInv
<1> QED
  BY <1>1, <1>2, <1>3, <1>4, VerdictsApart, MainAlone DEF MainPlaces, LaunchInv, TypeOK

LEMMA PolledInv == ASSUME LaunchInv, Polled PROVE LaunchInv'
<1>1. UNCHANGED <<childVars, root, progVars, extVars>> /\ tests' = tests
  BY DEF Polled, Go, Conclude
<1>2. \/ mpc' = "query" /\ outcome' = outcome
      \/ result[Box] = Ok /\ mpc' = "drop" /\ outcome' = Verdict("no scheduler")
      \/ result[Box] \notin {Unset, Ok} /\ mpc' = "drop" /\ outcome' = result[Box]
  BY DEF Polled, Go, Conclude
<1>3. /\ result[Box] \in Failure \cup {Ok, Unset}
      /\ result[Box] # Unset => result[Box] = truth[Box]
  BY Actors DEF LaunchInv, HandleInv, Reported, TypeOK, ChildTypeOK, Outcomes
<1>4. result[Box] = Ok => truth[Sched] = Ok
  BY <1>3, Messages DEF LaunchInv, ReasonInv, Outcomes
<1>5. Verdict("no scheduler") \in Verdicts
  BY DEF Verdicts
<1> QED
  BY <1>1, <1>2, <1>3, <1>4, <1>5, VerdictsApart, MainAlone DEF MainPlaces, LaunchInv, TypeOK

LEMMA TestsInv == ASSUME LaunchInv, RunTest \/ TestsDone PROVE LaunchInv'
<1>1. UNCHANGED <<childVars, root, progVars, extVars>>
  BY DEF RunTest, TestsDone
<1>2. tests' \in 0 .. MaxTests
  BY LaunchAssumption DEF RunTest, TestsDone, Conclude, LaunchInv, TypeOK
<1>3. /\ mpc' \in {"tests", "drop"}
      /\ outcome' \in {outcome, Verdict("failed"), Verdict("passed")}
  BY DEF RunTest, TestsDone, Conclude
<1>4. /\ {Verdict("failed"), Verdict("passed")} \subseteq Verdicts
      /\ Verdict("no scheduler") \notin {Verdict("failed"), Verdict("passed")}
  BY DEF Verdicts, Verdict
<1> QED
  BY <1>1, <1>2, <1>3, <1>4, VerdictsApart, MainAlone DEF MainPlaces, LaunchInv, TypeOK

-----------------------------------------------------------------------------
(* Calls.                                                                  *)

\* main's own step leaves the rest of the program as it is.
LEMMA MainStep ==
  ASSUME LaunchInv, ChildStepOK, SpaceInv', OwnerInv',
         UNCHANGED <<root, bpc, spc, ext, owner, tests>>, mpc' \in MainPlaces,
         outcome' = outcome \/ outcome' = Verdict("no clone"),
         truth'[Box] = Ok => truth[Box] = Ok \/ truth[Sched] = Ok,
         call[Sched] = call'[Sched] /\ result[Sched] = result'[Sched],
         mpc' \notin {"before", "beforeops", "spawn"},
         mpc' = "gone" => \/ ~Started(Box)' \/ call'[Box] \in {"wait", "read"}
                          \/ result'[Box] # Unset,
         mpc' = "exited" => ~Running(Runner)' /\ status'[Box] \in {"none", "reaped"}
  PROVE  LaunchInv'
<1>1. /\ Verdict("no clone") \in Verdicts
      /\ Verdict("no clone") # Verdict("no scheduler")
  BY DEF Verdicts, Verdict
<1>2. TypeOK'
  BY <1>1 DEF ChildStepOK, LaunchInv, TypeOK
<1>3. MainInv' /\ WaitedInv'
  BY DEF LaunchInv, MainInv, WaitedInv
<1>4. ReasonInv'
  <2>1. CASE outcome' = outcome
    BY <2>1, ReasonStays DEF LaunchInv, ChildStepOK
  <2>2. CASE outcome' = Verdict("no clone")
    <3>1. outcome' \notin Failure /\ outcome' # Verdict("no scheduler")
      BY <1>1, <2>2, VerdictsApart
    <3>2. truth[Sched] = Ok => truth'[Sched] = Ok
      BY Actors, Messages DEF ChildStepOK, HonestStep, Outcomes
    <3> QED BY <3>1, <3>2 DEF LaunchInv, ReasonInv, ReasonIsTrue
  <2> QED BY <2>1, <2>2
<1> QED BY <1>2, <1>3, <1>4 DEF LaunchInv, ChildStepOK

\* What a call that begins changes.
LEMMA InvokeEffect ==
  ASSUME LaunchInv, NEW h \in Handles, NEW op \in Waiting, Invoke(h, op)
  PROVE  /\ ChildStepOK /\ UNCHANGED <<status, space, truth, result>>
         /\ \A g \in Handles \ {h} : call'[g] = call[g]
         /\ call[h] = "none" /\ (call'[h] = op \/ result[h] # Unset)
         /\ SpaceInv' /\ (UNCHANGED <<ext, owner>> => OwnerInv')
<1>1. ChildStepOK
  BY InvokeKeeps DEF LaunchInv, TypeOK
<1>2. UNCHANGED <<status, space, truth, result>>
  BY DEF Invoke, kernelVars
<1>3. /\ \A g \in Handles \ {h} : call'[g] = call[g]
      /\ call[h] = "none" /\ (call'[h] = op \/ result[h] # Unset)
  BY DEF Invoke, LaunchInv, TypeOK, ChildTypeOK
<1>4. StatusTaken
  BY <1>2 DEF StatusTaken
<1>5. SpaceInv' /\ (UNCHANGED <<ext, owner>> => OwnerInv')
  BY <1>2, <1>4, SpaceStays, OwnerStays DEF LaunchInv
<1> QED BY <1>1, <1>2, <1>3, <1>5

LEMMA MainCallsInv == ASSUME LaunchInv, Poll \/ DropWait PROVE LaunchInv'
<1>1. /\ UNCHANGED <<root, bpc, spc, ext, owner, outcome, tests>>
      /\ \/ mpc' = "polled" /\ Invoke(Box, "alive")
         \/ mpc' = "gone" /\ Invoke(Box, "wait")
  BY DEF Poll, DropWait, Go, progVars, extVars
<1>2. PICK op \in {"alive", "wait"} : Invoke(Box, op) /\ (mpc' = "gone" => op = "wait")
  BY <1>1
<1>3. op \in Waiting /\ Box \in Handles /\ Sched \in Handles \ {Box}
  BY Actors DEF Waiting
<1>4. /\ ChildStepOK /\ UNCHANGED <<status, space, truth, result>>
      /\ call'[Sched] = call[Sched] /\ (call'[Box] = op \/ result[Box] # Unset)
      /\ SpaceInv' /\ OwnerInv'
  BY <1>1, <1>2, <1>3, InvokeEffect
<1> QED BY <1>1, <1>2, <1>4, MainStep DEF MainPlaces

LEMMA DropKillInv == ASSUME LaunchInv, DropKill PROVE LaunchInv'
<1>1. UNCHANGED <<root, bpc, spc, ext, owner, outcome, tests>>
  BY DEF DropKill, Go, progVars, extVars
<1>2. CASE status[Box] = "none"
  <2>1. UNCHANGED childVars /\ mpc' = "gone" /\ ~Started(Box)
    BY <1>2 DEF DropKill, Go, Started
  <2> QED BY <1>1, <2>1, MainAlone DEF LaunchInv, TypeOK, MainPlaces, progVars, extVars
<1>3. CASE status[Box] # "none"
  <2>1. Invoke(Box, "kill") /\ mpc' = "reap"
    BY <1>3 DEF DropKill, Go
  <2>2. "kill" \in Waiting /\ Box \in Handles /\ Sched \in Handles \ {Box}
    BY Actors DEF Waiting
  <2>3. /\ ChildStepOK /\ UNCHANGED <<status, space, truth, result>>
        /\ call'[Sched] = call[Sched] /\ SpaceInv' /\ OwnerInv'
    BY <1>1, <2>1, <2>2, InvokeEffect
  <2> QED BY <1>1, <2>1, <2>3, MainStep DEF MainPlaces
<1> QED BY <1>2, <1>3

LEMMA WaitForAllInv == ASSUME LaunchInv, WaitForAll PROVE LaunchInv'
<1>1. /\ UNCHANGED <<root, mpc, outcome, tests, spc, ext, owner>>
      /\ Invoke(Sched, "waitall") /\ bpc' = "waited"
  BY DEF WaitForAll, mainVars, extVars
<1>2. "waitall" \in Waiting /\ Sched \in Handles /\ Box \in Handles \ {Sched}
  BY Actors DEF Waiting
<1>3. /\ ChildStepOK /\ UNCHANGED <<status, space, truth, result>>
      /\ call'[Box] = call[Box] /\ (call'[Sched] = "waitall" \/ result[Sched] # Unset)
      /\ SpaceInv' /\ OwnerInv'
  BY <1>1, <1>2, InvokeEffect
<1>4. WaitedInv'
  BY <1>3 DEF WaitedInv
<1> QED
  BY <1>1, <1>3, <1>4, OthersStep DEF LaunchInv, TypeOK, MainInv, Started, Running

\* What a step of a call changes: not its result if there was one, and a wait ends
\* with one.
LEMMA CallStepEffect ==
  ASSUME ChildTypeOK, HandleInv, NEW h \in Handles, CallStep(h)
  PROVE  /\ StatusTaken /\ UNCHANGED <<space, truth>>
         /\ \A g \in Handles : result[g] # Unset => result'[g] # Unset
         /\ \A g \in Handles, W \in {{"wait", "read"}, {"waitall", "read"}} :
              call[g] \in W => call'[g] \in W \/ result'[g] # Unset
<1>1. CASE CloseWrite(h)
  BY <1>1 DEF CloseWrite, kernelVars, StatusTaken, ChildTypeOK
<1>2. CASE WaitPid(h)
  <2>1. StatusTaken
    BY <1>2 DEF WaitPid, StatusTaken, ChildTypeOK
  <2>2. UNCHANGED <<space, truth, result>>
    BY <1>2 DEF WaitPid
  <2>3. \A g \in Handles : call'[g] = call[g] \/ call'[g] = "read"
    BY <1>2 DEF WaitPid, ChildTypeOK
  <2> QED BY <2>1, <2>2, <2>3
<1>3. CASE StillAlive(h)
  BY <1>3 DEF StillAlive, kernelVars, StatusTaken, ChildTypeOK
<1>4. CASE ReadPipe(h)
  <2>1. UNCHANGED <<status, space, truth>>
    BY <1>4 DEF ReadPipe, kernelVars
  <2>2. /\ call[h] = "read" /\ result' = [result EXCEPT ![h] = Told(h)]
        /\ \A g \in Handles \ {h} : call'[g] = call[g]
    BY <1>4 DEF ReadPipe, Told, Tells, ChildTypeOK
  <2>3. fate[h] \in {"0", "code", "signal"} /\ pipe[h] \in Failure \cup {Unset}
    BY <2>2, ChildAssumption DEF HandleInv, Reported, Recorded, Dead, ChildTypeOK
  <2>4. Told(h) # Unset
    BY <2>3, TellsOutcome DEF Told
  <2>5. /\ result'[h] # Unset
        /\ \A g \in Handles \ {h} : result'[g] = result[g]
    BY <2>2, <2>4 DEF ChildTypeOK
  <2> QED BY <2>1, <2>2, <2>5 DEF StatusTaken
<1>5. CASE SendKill(h)
  BY <1>5 DEF SendKill, StatusTaken, ChildTypeOK
<1> QED BY <1>1, <1>2, <1>3, <1>4, <1>5 DEF CallStep

LEMMA CallsInv == ASSUME LaunchInv, Calls PROVE LaunchInv'
<1>1. UNCHANGED <<root, mpc, outcome, tests, bpc, spc, ext, owner>>
  BY DEF Calls, mainVars, progVars, extVars
<1>2. PICK h \in Handles : CallStep(h)
  BY DEF Calls
<1>3. ChildStepOK
  BY <1>2, CallStepKeeps DEF LaunchInv, TypeOK
<1>4. /\ StatusTaken /\ UNCHANGED <<space, truth>>
      /\ \A g \in Handles : result[g] # Unset => result'[g] # Unset
      /\ \A g \in Handles, W \in {{"wait", "read"}, {"waitall", "read"}} :
           call[g] \in W => call'[g] \in W \/ result'[g] # Unset
  BY <1>2, CallStepEffect DEF LaunchInv, TypeOK
<1>5. SpaceInv' /\ OwnerInv'
  BY <1>1, <1>4, SpaceStays, OwnerStays DEF LaunchInv
<1>6. WaitedInv'
  BY <1>1, <1>4, Actors DEF LaunchInv, WaitedInv
<1>7. /\ call[Box] \in {"wait", "read"} => call'[Box] \in {"wait", "read"} \/ result'[Box] # Unset
      /\ result[Box] # Unset => result'[Box] # Unset
  BY <1>4, Actors
<1>8. /\ Started(Box)' => Started(Box)
      /\ ~Running(Runner) => ~Running(Runner)'
      /\ status[Box] \in {"none", "reaped"} => status'[Box] \in {"none", "reaped"}
  BY <1>4, Actors DEF StatusTaken, Started, Running
<1>9. /\ UNCHANGED <<root, mpc, outcome, tests>>
      /\ bpc' \in {"deathsig", "subreaper", "clone", "wait", "waited"}
      /\ spc' \in {"exec", "program"}
      /\ ext' \in {"absent", "disabled", "enabling", "enabled", "disabling"}
      /\ owner' \in {Sched, Daemon, Other, Nobody}
  BY <1>1 DEF LaunchInv, TypeOK
<1>10. /\ truth'[Box] = Ok => truth[Box] = Ok \/ truth[Sched] = Ok
       /\ mpc = "gone" /\ Started(Box)' => Started(Box)
  BY <1>4, <1>8
<1>11. mpc = "exited" => ~Running(Runner)' /\ status'[Box] \in {"none", "reaped"}
  BY <1>8 DEF LaunchInv, MainInv
<1> QED
  BY <1>3, <1>5, <1>6, <1>7, <1>9, <1>10, <1>11, OthersStep

-----------------------------------------------------------------------------
(* Births.                                                                 *)

\* Box gets a namespace, and the others are born in it while Box lives.
LEMMA BirthSpace ==
  ASSUME LaunchInv, NEW p \in Pids, NEW q \in {Box, Sched, Daemon},
         NEW mother, NEW newpid, Born(p, q, mother, newpid),
         status[q] = "none", Running(p),
         \/ q = Box /\ newpid = TRUE
         \/ q # Box /\ newpid = FALSE /\ p \in {Box, Sched}
  PROVE  /\ SpaceInv' /\ (UNCHANGED <<ext, owner>> => OwnerInv')
         /\ \A r \in Pids : status'[r] = IF r = q THEN "running" ELSE status[r]
<1>1. /\ \A r \in Pids : status'[r] = IF r = q THEN "running" ELSE status[r]
      /\ \A r \in Pids : space'[r] = IF r = q THEN IF newpid THEN q ELSE space[p] ELSE space[r]
  BY Actors DEF Born, LaunchInv, TypeOK, ChildTypeOK
<1>2. OwnerInv /\ UNCHANGED <<ext, owner>> => OwnerInv'
  BY <1>1, Actors DEF OwnerInv, Running
<1>3. CASE q = Box /\ newpid = TRUE
  <2>1. \A r \in {Sched, Daemon} : ~Started(r) /\ ~Started(r)'
    BY <1>1, <1>3, Actors DEF LaunchInv, SpaceInv, Started
  <2>2. space'[Box] = Box /\ ~Dead(Box)'
    BY <1>1, <1>3, Actors DEF Dead
  <2>3. \A r \in {Sched, Daemon, Runner} : space'[r] = space[r]
    BY <1>1, <1>3, Actors
  <2>4. SpaceInv'
    BY <2>1, <2>2, <2>3 DEF LaunchInv, SpaceInv
  <2> QED BY <1>1, <1>2, <2>4 DEF LaunchInv
<1>4. CASE q # Box /\ newpid = FALSE /\ p \in {Box, Sched}
  <2>1. Started(p) /\ space[p] = Box /\ Started(Box) /\ ~Dead(Box)
    BY <1>4 DEF LaunchInv, SpaceInv, Started, Running, Dead
  <2>2. /\ space'[q] = Box
        /\ \A r \in {Box, Sched, Daemon, Runner} \ {q} : space'[r] = space[r]
    BY <1>1, <1>4, <2>1, Actors
  <2>3. /\ Started(Box)' /\ ~Dead(Box)'
        /\ \A r \in {Box, Sched, Daemon} \ {q} : Started(r)' <=> Started(r)
    BY <1>1, <1>4, <2>1, Actors DEF Started, Dead
  <2>4. Runner # q
    BY Actors
  <2>5. SpaceInv'
    BY <2>2, <2>3, <2>4 DEF LaunchInv, SpaceInv
  <2> QED BY <1>1, <1>2, <2>5 DEF LaunchInv
<1> QED BY <1>3, <1>4

LEMMA SpawnInv == ASSUME LaunchInv, Spawn PROVE LaunchInv'
<1>1. UNCHANGED <<root, progVars, extVars>> /\ mpc = "spawn"
  BY DEF Spawn
<1>2. UNCHANGED <<bpc, spc, ext, owner>>
  BY <1>1 DEF progVars, extVars
<1>3. CASE Clone(Box, root) /\ Go("poll")
  <2>1. mpc' = "poll" /\ UNCHANGED <<outcome, tests>>
    BY <1>3 DEF Go
  <2>2. root = TRUE /\ Box \in Handles /\ Runner \in Pids
    BY <1>1, Actors DEF LaunchInv, MainInv
  <2>3. ChildStepOK
    BY <1>3, <2>2, CloneKeeps DEF LaunchInv, TypeOK
  <2>4. /\ Running(Runner) /\ status[Box] = "none" /\ Born(Runner, Box, Runner, root)
        /\ call' = [call EXCEPT ![Box] = "close"] /\ UNCHANGED <<result, truth>>
    BY <1>3, Actors DEF Clone
  <2>5. SpaceInv' /\ OwnerInv'
    BY <1>2, <2>2, <2>4, BirthSpace
  <2>6. call'[Sched] = call[Sched]
    BY <2>4, Actors DEF LaunchInv, TypeOK, ChildTypeOK
  <2> QED BY <1>1, <1>2, <2>1, <2>3, <2>4, <2>5, <2>6, MainStep DEF MainPlaces
<1>4. CASE Conclude(Verdict("no clone")) /\ UNCHANGED childVars
  <2>1. mpc' = "drop" /\ outcome' = Verdict("no clone") /\ tests' = tests
    BY <1>4 DEF Conclude
  <2>2. /\ Verdict("no clone") \in Verdicts
        /\ Verdict("no clone") # Verdict("no scheduler")
    BY DEF Verdicts, Verdict
  <2> QED
    BY <1>1, <1>4, <2>1, <2>2, VerdictsApart, MainAlone DEF MainPlaces, LaunchInv, TypeOK
<1> QED BY <1>3, <1>4 DEF Spawn

LEMMA CloneBinaryInv ==
  ASSUME LaunchInv, Clone(Sched, FALSE), bpc' = "wait",
         UNCHANGED <<root, mpc, outcome, tests, spc, ext, owner>>
  PROVE  LaunchInv'
<1>1. Sched \in Handles /\ Box \in Pids
  BY Actors
<1>2. ChildStepOK
  BY <1>1, CloneKeeps DEF LaunchInv, TypeOK
<1>3. /\ Running(Box) /\ status[Sched] = "none" /\ Born(Box, Sched, Box, FALSE)
      /\ call' = [call EXCEPT ![Sched] = "close"] /\ UNCHANGED <<result, truth>>
  BY Actors DEF Clone
<1>4. /\ SpaceInv' /\ OwnerInv'
      /\ \A r \in Pids : status'[r] = IF r = Sched THEN "running" ELSE status[r]
  BY <1>1, <1>3, BirthSpace, Actors
<1>5. call'[Box] = call[Box]
  BY <1>3, Actors DEF LaunchInv, TypeOK, ChildTypeOK
<1>6. WaitedInv'
  BY DEF WaitedInv
<1>7. /\ Started(Box)' => Started(Box)
      /\ mpc = "exited" => ~Running(Runner)' /\ status'[Box] \in {"none", "reaped"}
  BY <1>4, Actors DEF LaunchInv, MainInv, Started, Running
<1> QED
  BY <1>2, <1>3, <1>4, <1>5, <1>6, <1>7, OthersStep DEF LaunchInv, TypeOK

LEMMA DaemonizeInv == ASSUME LaunchInv, Daemonize PROVE LaunchInv'
<1>1. /\ UNCHANGED <<root, mpc, outcome, tests, bpc, spc, ext, owner>>
      /\ ForkPlain(Sched, Daemon)
  BY DEF Daemonize, mainVars, progVars, extVars
<1>2. Sched \in Pids /\ Daemon \in Pids
  BY Actors
<1>3. ChildStepOK
  BY <1>1, <1>2, ForkPlainKeeps DEF LaunchInv, TypeOK
<1>4. PICK mother : Born(Sched, Daemon, mother, FALSE)
  BY <1>1 DEF ForkPlain
<1>5. /\ Running(Sched) /\ status[Daemon] = "none" /\ UNCHANGED <<call, result, truth>>
  BY <1>1 DEF ForkPlain, handleVars
<1>6. /\ SpaceInv' /\ OwnerInv'
      /\ \A r \in Pids : status'[r] = IF r = Daemon THEN "running" ELSE status[r]
  BY <1>1, <1>2, <1>4, <1>5, BirthSpace, Actors
<1>7. WaitedInv'
  BY <1>1, <1>5 DEF LaunchInv, WaitedInv
<1>8. /\ Started(Box)' => Started(Box)
      /\ mpc = "exited" => ~Running(Runner)' /\ status'[Box] \in {"none", "reaped"}
  BY <1>6, Actors DEF LaunchInv, MainInv, Started, Running
<1> QED
  BY <1>1, <1>3, <1>5, <1>6, <1>7, <1>8, OthersStep DEF LaunchInv, TypeOK

-----------------------------------------------------------------------------
(* Ends.                                                                   *)

\* Box takes its namespace with it, and whoever else ends, ends alone.
LEMMA EndSpace ==
  ASSUME LaunchInv, NEW p \in Pids, Running(p),
         NEW how \in {"0", "code", "signal"}, Exit(p, how)
  PROVE  /\ SpaceInv' /\ p \in Fallen(p) /\ (p # Box => Fallen(p) = {p}) /\ ~Running(p)'
         /\ \A q \in Pids : (Started(q)' <=> Started(q)) /\ (~Running(q) => ~Running(q)')
         /\ \A q \in Pids : status[q] \in {"none", "reaped"} => status'[q] = status[q]
         /\ \A q \in Pids \ Fallen(p) : Running(q) => Running(q)'
<1>1. ChildTypeOK /\ SpaceInv
  BY DEF LaunchInv, TypeOK
<1>2. /\ Fallen(p) \subseteq Pids /\ \A q \in Fallen(p) : Running(q) /\ Dead(q)'
      /\ \A q \in Pids \ Fallen(p) :
           \/ status'[q] = status[q]
           \/ status[q] = "zombie" /\ status'[q] = "reaped"
      /\ \A q \in Pids \ {p} : space[q] = p => ~Running(q)' /\ status'[q] # "zombie"
  BY <1>1, ExitEffect
<1>3. p \in Fallen(p)
  BY DEF Fallen
<1>4. p # Box => Fallen(p) = {p}
  BY <1>1, Actors DEF Fallen, SpaceInv
<1>5. \A q \in Pids : (Started(q)' <=> Started(q)) /\ (~Running(q) => ~Running(q)')
  BY <1>2 DEF Started, Running, Dead
<1>6. \A q \in Pids : status[q] \in {"none", "reaped"} => status'[q] = status[q]
  BY <1>2 DEF Running
<1>7. ~Running(p)' /\ \A q \in Pids \ Fallen(p) : Running(q) => Running(q)'
  BY <1>2, <1>3 DEF Running, Dead
<1>8. space' = space /\ status' \in [Pids -> {"none", "running", "zombie", "reaped"}]
  BY <1>1, ExitType
<1>9. ASSUME NEW q \in {Sched, Daemon}, Dead(Box)' PROVE status'[q] \in {"none", "reaped"}
  <2>1. q \in Pids /\ Box \in Pids /\ q # Box
    BY Actors
  <2>2. CASE ~Started(q)
    BY <1>6, <2>1, <2>2 DEF Started
  <2>3. CASE Started(q) /\ p = Box
    BY <1>1, <1>2, <1>8, <2>1, <2>3 DEF SpaceInv, Running
  <2>4. CASE p # Box
    <3>1. Dead(Box)
      BY <1>2, <1>4, <1>9, <2>1, <2>4 DEF Dead
    <3> QED BY <1>1, <1>6, <2>1, <3>1 DEF SpaceInv
  <2> QED BY <2>2, <2>3, <2>4
<1>10. SpaceInv'
  BY <1>1, <1>5, <1>8, <1>9, Actors DEF SpaceInv
<1> QED BY <1>3, <1>4, <1>5, <1>6, <1>7, <1>10

\* A process of the scheduler, or schtest by a signal, ends.
LEMMA OthersEnd ==
  ASSUME LaunchInv, ChildStepOK, NEW p \in Pids, Running(p),
         NEW how \in {"0", "code", "signal"}, Exit(p, how),
         UNCHANGED <<root, mpc, outcome, tests, bpc, spc, owner>>,
         ext' = IF owner \in Fallen(p) THEN "disabling" ELSE ext,
         truth'[Box] = Ok => truth[Box] = Ok \/ truth[Sched] = Ok
  PROVE  LaunchInv'
<1>1. /\ SpaceInv'
      /\ \A q \in Pids : (Started(q)' <=> Started(q)) /\ (~Running(q) => ~Running(q)')
      /\ \A q \in Pids : status[q] \in {"none", "reaped"} => status'[q] = status[q]
      /\ \A q \in Pids \ Fallen(p) : Running(q) => Running(q)'
  BY EndSpace
<1>2. UNCHANGED <<result, call>>
  BY DEF Exit, handleVars
<1>3. WaitedInv'
  BY <1>2 DEF LaunchInv, WaitedInv
<1>4. OwnerInv'
  BY <1>1, Actors DEF LaunchInv, OwnerInv
<1>5. mpc = "exited" => ~Running(Runner)' /\ status'[Box] \in {"none", "reaped"}
  BY <1>1, Actors DEF LaunchInv, MainInv
<1> QED
  BY <1>1, <1>2, <1>3, <1>4, <1>5, OthersStep, Actors DEF LaunchInv, TypeOK

LEMMA LeaveInv == ASSUME LaunchInv, Leave PROVE LaunchInv'
<1>1. /\ UNCHANGED <<root, bpc, spc, ext, owner, outcome, tests>>
      /\ mpc = "gone" /\ mpc' = "exited" /\ call[Box] = "none"
  BY DEF Leave, Go, progVars, extVars
<1>2. PICK how \in {"0", "code"} : EndWith(Runner, how)
  BY DEF Leave
<1>3. Runner \in Pids /\ how \in {"0", "code", "signal"}
  BY Actors
<1>4. ChildStepOK
  BY <1>2, <1>3, EndWithKeeps DEF LaunchInv, TypeOK
<1>5. Running(Runner) /\ Exit(Runner, how)
  BY <1>2 DEF EndWith
<1>6. /\ SpaceInv' /\ Fallen(Runner) = {Runner} /\ ~Running(Runner)'
      /\ \A q \in Pids : status[q] \in {"none", "reaped"} => status'[q] = status[q]
      /\ \A q \in Pids \ {Runner} : Running(q) => Running(q)'
  BY <1>3, <1>5, EndSpace, Actors
<1>7. UNCHANGED <<result, call>>
  BY <1>5 DEF Exit, handleVars
<1>8. OwnerInv'
  BY <1>1, <1>6, Actors DEF LaunchInv, OwnerInv
<1>9. truth'[Box] = truth[Box]
  BY <1>2, <1>6, Actors DEF EndWith
<1>10. status[Box] \in {"none", "reaped"}
  BY <1>1, Actors DEF LaunchInv, MainInv, HandleInv, Reported, Started
<1> QED
  BY <1>1, <1>4, <1>6, <1>7, <1>8, <1>9, <1>10, MainStep, Actors DEF MainPlaces

\* A process that ends by itself or by a signal does not make Box end well.
LEMMA EndWithTruth ==
  ASSUME LaunchInv, NEW p \in Pids, NEW how \in {"0", "code", "signal"}, EndWith(p, how),
         p = Box => how = "signal"
  PROVE  truth'[Box] = Ok => truth[Box] = Ok
<1>1. truth'[Box] = IF Box \notin Fallen(p) THEN truth[Box]
                    ELSE IF Box = p /\ how = "0" THEN Ok
                    ELSE [who |-> Box, how |-> IF Box = p THEN how ELSE "signal"]
  BY Actors DEF EndWith
<1>2. \A code \in {"code", "signal"} : [who |-> Box, how |-> code] # Ok
  BY Codes, Messages, Actors
<1> QED BY <1>1, <1>2

LEMMA EndWithInv ==
  ASSUME LaunchInv, NEW p \in Pids, NEW how \in {"0", "code", "signal"}, EndWith(p, how),
         p = Box => how = "signal",
         UNCHANGED <<root, mpc, outcome, tests, bpc, spc, owner>>,
         ext' = IF owner \in Fallen(p) THEN "disabling" ELSE ext
  PROVE  LaunchInv'
<1>1. ChildStepOK
  BY EndWithKeeps DEF LaunchInv, TypeOK
<1>2. Running(p) /\ Exit(p, how)
  BY DEF EndWith
<1> QED BY <1>1, <1>2, EndWithTruth, OthersEnd

LEMMA BinaryEndsInv == ASSUME LaunchInv, BinaryEnds \/ Killed PROVE LaunchInv'
<1>1. PICK p \in Pids, how \in {"0", "code", "signal"} :
        /\ EndWith(p, how) /\ Disabled(Fallen(p)) /\ (p = Box => how = "signal")
  BY Actors DEF BinaryEnds, Killed, DieOfKill
<1>2. UNCHANGED <<root, mpc, outcome, tests, bpc, spc>>
  BY DEF BinaryEnds, Killed, mainVars, progVars
<1> QED BY <1>1, <1>2, EndWithInv DEF Disabled

LEMMA RunnerKilledInv == ASSUME LaunchInv, RunnerKilled PROVE LaunchInv'
<1>1. /\ UNCHANGED <<root, mpc, outcome, tests, bpc, spc, ext, owner>>
      /\ EndWith(Runner, "signal")
  BY DEF RunnerKilled, mainVars, progVars, extVars
<1>2. Running(Runner) /\ Exit(Runner, "signal") /\ Runner \in Pids
  BY <1>1, Actors DEF EndWith
<1>3. Fallen(Runner) = {Runner}
  BY <1>2, EndSpace, Actors
<1>4. owner \notin Fallen(Runner)
  BY <1>3, Actors DEF LaunchInv, TypeOK
<1> QED BY <1>1, <1>2, <1>4, EndWithInv, Actors

\* The function in Box returns: well only if the binary has ended well.
LEMMA BoxReturnsInv ==
  ASSUME LaunchInv, NEW r \in Outcomes, BoxReturns(r), r = Ok => truth[Sched] = Ok,
         UNCHANGED <<root, mpc, outcome, tests>>
  PROVE  LaunchInv'
<1>1. /\ Return(Box, r) /\ UNCHANGED <<bpc, spc, owner>>
      /\ ext' = IF owner \in Fallen(Box) THEN "disabling" ELSE ext
  BY DEF BoxReturns, Disabled, progVars
<1>2. Running(Box) /\ Exit(Box, "0") /\ Box \in Pids /\ Box \in Handles
  BY <1>1, Actors DEF Return
<1>3. ChildStepOK
  BY <1>1, <1>2, ReturnKeeps DEF LaunchInv, TypeOK
<1>4. truth'[Box] = r
  BY <1>1, <1>2 DEF Return
<1> QED BY <1>1, <1>2, <1>3, <1>4, OthersEnd

LEMMA ExecInv == ASSUME LaunchInv, Exec PROVE LaunchInv'
<1>1. UNCHANGED <<root, mpc, outcome, tests, bpc>> /\ Sched \in Pids /\ Sched \in Handles
  BY Actors DEF Exec, mainVars
<1>2. CASE ExecOk(Sched) /\ spc' = "program" /\ UNCHANGED extVars
  <2>1. UNCHANGED <<status, space, truth, result, call, ext, owner>>
    BY <1>2 DEF ExecOk, kernelVars, handleVars, extVars
  <2>2. ChildStepOK
    BY <1>1, <1>2, ExecOkKeeps DEF LaunchInv, TypeOK
  <2>3. SpaceInv' /\ OwnerInv'
    BY <2>1, SpaceStays, OwnerStays DEF StatusTaken, LaunchInv
  <2>4. WaitedInv' /\ (Started(Box)' => Started(Box))
    BY <1>1, <2>1 DEF LaunchInv, WaitedInv, Started
  <2>5. mpc = "exited" => ~Running(Runner)' /\ status'[Box] \in {"none", "reaped"}
    BY <2>1 DEF LaunchInv, MainInv, Running
  <2> QED
    BY <1>1, <1>2, <2>1, <2>2, <2>3, <2>4, <2>5, OthersStep DEF LaunchInv, TypeOK
<1>3. CASE Return(Sched, NoExec) /\ Disabled({Sched}) /\ UNCHANGED spc
  <2>1. Running(Sched) /\ Exit(Sched, "0")
    BY <1>3 DEF Return
  <2>2. Fallen(Sched) = {Sched}
    BY <1>1, <2>1, EndSpace, Actors
  <2>3. UNCHANGED owner /\ ext' = IF owner \in Fallen(Sched) THEN "disabling" ELSE ext
    BY <1>3, <2>2 DEF Disabled
  <2>4. ChildStepOK
    BY <1>1, <1>3, ReturnKeeps, Messages DEF LaunchInv, TypeOK, Outcomes
  <2>5. truth'[Box] = truth[Box]
    BY <1>3, <2>2, Actors DEF Return
  <2> QED BY <1>1, <1>3, <2>1, <2>3, <2>4, <2>5, OthersEnd
<1> QED BY <1>2, <1>3 DEF Exec

-----------------------------------------------------------------------------
(* The function in Box, and sched_ext.                                     *)

\* A step that touches neither a status nor a handle.
LEMMA Aside ==
  ASSUME LaunchInv, ChildStepOK, OwnerInv',
         UNCHANGED <<status, space, truth, result, call, root, mpc, outcome, tests>>,
         bpc' = "waited" => bpc = "waited",
         bpc' \in {"deathsig", "subreaper", "clone", "wait", "waited"},
         spc' \in {"exec", "program"},
         ext' \in {"absent", "disabled", "enabling", "enabled", "disabling"},
         owner' \in {Sched, Daemon, Other, Nobody}
  PROVE  LaunchInv'
<1>1. SpaceInv'
  BY SpaceStays DEF StatusTaken, LaunchInv
<1>2. WaitedInv' /\ (Started(Box)' => Started(Box))
  BY DEF LaunchInv, WaitedInv, Started
<1>3. mpc = "exited" => ~Running(Runner)' /\ status'[Box] \in {"none", "reaped"}
  BY DEF LaunchInv, MainInv, Running
<1> QED BY <1>1, <1>2, <1>3, OthersStep DEF LaunchInv

LEMMA BoxSetupInv ==
  ASSUME LaunchInv, SetDeathSig \/ SetSubreaper
  PROVE  LaunchInv'
<1>1. UNCHANGED <<root, mpc, outcome, tests>>
  BY DEF SetDeathSig, SetSubreaper, mainVars
<1>2. CASE BoxReturns(Setup)
  BY <1>1, <1>2, BoxReturnsInv, Messages DEF Outcomes
<1>3. CASE ~BoxReturns(Setup)
  <2>1. /\ armed' \subseteq armed \cup {Box} /\ subreapers' \subseteq subreapers \cup {Box}
        /\ UNCHANGED <<status, fate, parent, space, reaper, killed, pipe, writers,
                       result, call, truth, spc, ext, owner>>
        /\ bpc' \in {"subreaper", "clone"}
    BY <1>3 DEF SetDeathSig, SetSubreaper, handleVars, extVars
  <2>2. ChildTypeOK'
    BY <2>1, Actors DEF LaunchInv, TypeOK, ChildTypeOK
  <2>3. ChildStepOK
    BY <2>1, <2>2, NobodyEnds DEF LaunchInv, TypeOK, Dead
  <2>4. OwnerInv'
    BY <2>1 DEF LaunchInv, OwnerInv, Running
  <2> QED BY <1>1, <2>1, <2>3, <2>4, Aside DEF LaunchInv, TypeOK
<1> QED BY <1>2, <1>3

LEMMA RunBinaryInv == ASSUME LaunchInv, RunBinary PROVE LaunchInv'
<1>1. UNCHANGED <<root, mpc, outcome, tests>>
  BY DEF RunBinary, mainVars
<1>2. CASE Clone(Sched, FALSE) /\ bpc' = "wait" /\ UNCHANGED <<spc, extVars>>
  BY <1>1, <1>2, CloneBinaryInv DEF extVars
<1>3. CASE BoxReturns(Setup)
  BY <1>1, <1>3, BoxReturnsInv, Messages DEF Outcomes
<1> QED BY <1>2, <1>3 DEF RunBinary

LEMMA PassOnInv == ASSUME LaunchInv, PassOn PROVE LaunchInv'
<1>1. /\ UNCHANGED <<root, mpc, outcome, tests>>
      /\ bpc = "waited" /\ call[Sched] = "none" /\ BoxReturns(result[Sched])
  BY DEF PassOn, mainVars
<1>2. result[Sched] # Unset
  BY <1>1 DEF LaunchInv, WaitedInv
<1>3. result[Sched] \in Outcomes /\ result[Sched] = truth[Sched]
  BY <1>2, Actors DEF LaunchInv, HandleInv, Reported, TypeOK, ChildTypeOK
<1> QED BY <1>1, <1>3, BoxReturnsInv

LEMMA ExtInv == ASSUME LaunchInv, Enable \/ DisableDone PROVE LaunchInv'
<1>1. UNCHANGED <<childVars, root, mpc, outcome, tests, bpc, spc>>
  BY DEF Enable, DisableDone, mainVars, progVars
<1>2. UNCHANGED <<status, space, truth, result, call>>
  BY <1>1 DEF childVars
<1>3. ChildStepOK
  BY <1>1, StutterKeeps DEF LaunchInv, TypeOK
<1>4. /\ ext' \in {"absent", "disabled", "enabling", "enabled", "disabling"}
      /\ owner' \in {Sched, Daemon, Other, Nobody}
  BY DEF Enable, DisableDone, LaunchInv, TypeOK
<1>5. OwnerInv'
  <2>1. owner' \in {Sched, Daemon} /\ ext' # "disabling" =>
          Running(owner') \/ (owner' = owner /\ ext # "disabling")
    BY Actors DEF Enable, DisableDone
  <2>2. owner' \in {Sched, Daemon} /\ ext' # "disabling" => Running(owner')
    BY <2>1 DEF LaunchInv, OwnerInv
  <2> QED BY <1>2, <2>2 DEF OwnerInv, Running
<1> QED BY <1>1, <1>2, <1>3, <1>4, <1>5, Aside DEF LaunchInv, TypeOK

-----------------------------------------------------------------------------
(* Every step keeps the invariant.                                         *)

LEMMA NextLaunchInv ==
  ASSUME LaunchInv, [Next]_vars
  PROVE  LaunchInv'
<1>1. CASE UNCHANGED vars
  <2>1. /\ UNCHANGED <<childVars, root, mpc, outcome, tests, bpc, spc, ext, owner>>
        /\ UNCHANGED <<status, space, truth, result, call>>
    BY <1>1 DEF vars, childVars
  <2>2. ChildStepOK
    BY <2>1, StutterKeeps DEF LaunchInv, TypeOK
  <2>3. OwnerInv'
    BY <2>1 DEF LaunchInv, OwnerInv, Running
  <2> QED BY <2>1, <2>2, <2>3, Aside DEF LaunchInv, TypeOK
<1>2. CASE Main
  BY <1>2, StartInv, ReadInv, SpawnInv, MainCallsInv, PolledInv, TestsInv, DropKillInv,
     LeaveInv DEF Main
<1>3. CASE BoxStep
  BY <1>3, BoxSetupInv, RunBinaryInv, WaitForAllInv, PassOnInv DEF BoxStep
<1>4. CASE RunnerKilled \/ Exec \/ Calls \/ Daemonize
  BY <1>4, RunnerKilledInv, ExecInv, CallsInv, DaemonizeInv
<1>5. CASE BinaryEnds \/ Killed \/ Enable \/ DisableDone
  BY <1>5, BinaryEndsInv, ExtInv
<1> QED BY <1>1, <1>2, <1>3, <1>4, <1>5 DEF Next

LEMMA LaunchInductive == Spec => []LaunchInv
BY InitLaunchInv, NextLaunchInv, PTL DEF Spec

\* Every step is one of ChildOutcome for each handle.
LEMMA NextHonest ==
  ASSUME LaunchInv, [Next]_vars, NEW h \in Handles
  PROVE  HonestStep(h)
<1>1. ChildTypeOK /\ HandleInv /\ h \in Pids
  BY Actors DEF LaunchInv, TypeOK
<1>2. ChildStepOK => HonestStep(h)
  BY DEF ChildStepOK
<1>3. UNCHANGED <<truth, result>> => HonestStep(h)
  BY DEF HonestStep
<1>4. UNCHANGED childVars => HonestStep(h)
  BY <1>3 DEF childVars
<1>5. \A p \in Pids, how \in {"0", "code", "signal"} : EndWith(p, how) => HonestStep(h)
  BY <1>1, <1>2, EndWithKeeps
<1>6. \A r \in Outcomes : BoxReturns(r) => HonestStep(h)
  BY <1>1, <1>2, ReturnKeeps, Actors DEF BoxReturns
<1>7. \A g \in Handles, op \in Waiting : Invoke(g, op) => HonestStep(h)
  BY <1>1, <1>2, InvokeKeeps
<1>8. \A g \in Handles, newpid \in BOOLEAN : Clone(g, newpid) => HonestStep(h)
  BY <1>1, <1>2, CloneKeeps
<1>9. {"alive", "kill", "wait", "waitall"} \subseteq Waiting
  BY DEF Waiting
<1>10. CASE UNCHANGED vars
  BY <1>4, <1>10 DEF vars, childVars
<1>11. CASE Main
  <2>1. CASE Start \/ ReadState \/ ReadOps \/ Polled \/ RunTest \/ TestsDone
    BY <1>4, <2>1 DEF Start, ReadState, ReadOps, Polled, RunTest, TestsDone
  <2>2. CASE Spawn
    <3>1. root \in BOOLEAN
      BY DEF LaunchInv, TypeOK
    <3> QED BY <1>4, <1>8, <2>2, <3>1, Actors DEF Spawn
  <2>3. CASE Poll \/ DropKill \/ DropWait
    BY <1>4, <1>7, <1>9, <2>3, Actors DEF Poll, DropKill, DropWait
  <2>4. CASE Leave
    BY <1>5, <2>4, Actors DEF Leave
  <2> QED BY <1>11, <2>1, <2>2, <2>3, <2>4 DEF Main
<1>12. CASE BoxStep
  <2>1. Setup \in Outcomes
    BY Messages DEF Outcomes
  <2>2. CASE SetDeathSig \/ SetSubreaper
    BY <1>3, <1>6, <2>1, <2>2 DEF SetDeathSig, SetSubreaper, handleVars
  <2>3. CASE RunBinary
    BY <1>6, <1>8, <2>1, <2>3, Actors DEF RunBinary
  <2>4. CASE WaitForAll
    BY <1>7, <1>9, <2>4, Actors DEF WaitForAll
  <2>5. CASE PassOn
    <3>1. result[Sched] \in Outcomes
      BY <2>5, Actors DEF PassOn, LaunchInv, WaitedInv, TypeOK, ChildTypeOK
    <3> QED BY <1>6, <2>5, <3>1 DEF PassOn
  <2> QED BY <1>12, <2>2, <2>3, <2>4, <2>5 DEF BoxStep
<1>13. CASE Exec
  <2>1. NoExec \in Outcomes
    BY Messages DEF Outcomes
  <2>2. ExecOk(Sched) => HonestStep(h)
    BY <1>3 DEF ExecOk, handleVars
  <2>3. Return(Sched, NoExec) => HonestStep(h)
    BY <1>1, <1>2, <2>1, ReturnKeeps, Actors
  <2> QED BY <1>13, <2>2, <2>3 DEF Exec
<1>14. CASE RunnerKilled \/ BinaryEnds \/ Killed
  BY <1>5, <1>14, Actors DEF RunnerKilled, BinaryEnds, Killed, DieOfKill
<1>15. CASE Calls
  BY <1>1, <1>2, <1>15, CallStepKeeps DEF Calls
<1>16. CASE Daemonize
  BY <1>1, <1>2, <1>16, ForkPlainKeeps, Actors DEF Daemonize
<1>17. CASE Enable \/ DisableDone
  BY <1>4, <1>17 DEF Enable, DisableDone
<1> QED
  BY <1>10, <1>11, <1>12, <1>13, <1>14, <1>15, <1>16, <1>17 DEF Next

-----------------------------------------------------------------------------
(* Theorems.                                                               *)

\* In particular what main ends with is a verdict of its own or an error that a
\* child can have.
THEOREM TypeCorrect == Spec => []TypeOK
BY LaunchInductive, PTL DEF LaunchInv

\* An error of schtest is what happened to one of its two children, whichever of the
\* processes end, are killed or fail when.
THEOREM ReasonsAreTrue == Spec => []ReasonIsTrue
BY LaunchInductive, PTL DEF LaunchInv, ReasonInv

\* When schtest has left, the processes of the scheduler are gone, and so is the
\* scheduler.
THEOREM NothingIsLeft == Spec => []NothingLeftBehind
<1>1. LaunchInv => NothingLeftBehind
  <2> SUFFICES ASSUME LaunchInv, mpc = "exited"
               PROVE  /\ \A p \in Pids \ {Runner} : status[p] \in {"none", "reaped"}
                      /\ owner \in {Sched, Daemon} => ext = "disabling"
    BY DEF NothingLeftBehind
  <2>1. status[Box] \in {"none", "reaped"}
    BY DEF LaunchInv, MainInv
  <2>2. \A p \in {Sched, Daemon} : status[p] \in {"none", "reaped"}
    BY <2>1 DEF LaunchInv, SpaceInv, Started, Dead
  <2>3. owner \in {Sched, Daemon} => ext = "disabling"
    BY <2>2 DEF LaunchInv, OwnerInv, Running
  <2> QED BY <2>1, <2>2, <2>3, Actors
<1> QED BY <1>1, LaunchInductive, PTL

\* Both handles implement ChildOutcome: what they report is what happened, once it
\* has, and for good.
THEOREM HandlesAreHonest == Spec => Honest
<1>1. Init => BoxOutcome!Init /\ SchedOutcome!Init
  BY Actors DEF Init, ChildInit, BoxOutcome!Init, SchedOutcome!Init
<1>2. LaunchInv /\ [Next]_vars =>
        /\ [BoxOutcome!Next]_<<truth[Box], result[Box]>>
        /\ [SchedOutcome!Next]_<<truth[Sched], result[Sched]>>
  <2> SUFFICES ASSUME LaunchInv, [Next]_vars
               PROVE  /\ [BoxOutcome!Next]_<<truth[Box], result[Box]>>
                      /\ [SchedOutcome!Next]_<<truth[Sched], result[Sched]>>
    OBVIOUS
  <2>1. HonestStep(Box) /\ HonestStep(Sched)
    BY NextHonest, Actors
  <2>2. [BoxOutcome!Next]_<<truth[Box], result[Box]>>
    BY <2>1 DEF HonestStep, BoxOutcome!Next, BoxOutcome!End, BoxOutcome!Report
  <2>3. [SchedOutcome!Next]_<<truth[Sched], result[Sched]>>
    BY <2>1 DEF HonestStep, SchedOutcome!Next, SchedOutcome!End, SchedOutcome!Report
  <2> QED BY <2>2, <2>3
<1> QED
  BY <1>1, <1>2, LaunchInductive, PTL DEF Spec, Honest, BoxOutcome!Spec, SchedOutcome!Spec

-----------------------------------------------------------------------------
(* The pipes.                                                              *)

\* The write ends are held by running processes: by Box and what it has cloned until
\* that becomes the binary, and by who cloned until the call is over.
PipeInv ==
  /\ \A h \in Handles : \A p \in writers[h] :
       Running(p) /\ p # Daemon /\ (p = Sched => spc = "exec")
  /\ Runner \notin writers[Sched]
  /\ \A h \in Handles : Owner[h] \in writers[h] => call[h] = "close"
  /\ spc = "program" => Started(Sched)

\* Nobody dies but those that lose their write ends, and a call that closes one is not
\* over without that.
LEMMA PipesStay ==
  ASSUME PipeInv, spc' = spc, \A h \in Handles : writers'[h] \subseteq writers[h],
         \A h \in Handles : \A p \in writers'[h] : Running(p)',
         \A h \in Handles : call[h] = "close" => call'[h] = "close" \/ Owner[h] \notin writers'[h],
         Started(Sched) => Started(Sched)'
  PROVE  PipeInv'
BY Actors DEF PipeInv

LEMMA IdlePipes ==
  ASSUME PipeInv, ChildTypeOK, spc' = spc, UNCHANGED <<status, writers, call>>
  PROVE  PipeInv'
BY PipesStay DEF PipeInv, Running, Started

LEMMA InvokePipes ==
  ASSUME PipeInv, ChildTypeOK, spc' = spc, NEW h \in Handles, NEW op \in Waiting, Invoke(h, op)
  PROVE  PipeInv'
<1>1. UNCHANGED <<status, writers>> /\ call[h] = "none"
  BY DEF Invoke, kernelVars
<1>2. \A g \in Handles \ {h} : call'[g] = call[g]
  BY DEF Invoke, ChildTypeOK
<1> QED BY <1>1, <1>2, PipesStay DEF PipeInv, Running, Started

LEMMA ExitPipes ==
  ASSUME PipeInv, ChildTypeOK, spc' = spc, NEW p \in Pids, Running(p),
         NEW how \in {"0", "code", "signal"}, Exit(p, how)
  PROVE  PipeInv'
<1>1. \A q \in Pids \ Fallen(p) : Running(q) => Running(q)'
  BY ExitEffect DEF Running
<1>2. writers' = [h \in Handles |-> writers[h] \ Fallen(p)] /\ call' = call
  BY DEF Exit, handleVars
<1>3. \A h \in Handles : writers[h] \subseteq Pids
  BY DEF ChildTypeOK
<1>4. \A h \in Handles : writers'[h] = writers[h] \ Fallen(p)
  BY <1>2
<1>5. \A h \in Handles : \A q \in writers'[h] : Running(q)'
  BY <1>1, <1>3, <1>4 DEF PipeInv
<1>6. Started(Sched) => Started(Sched)'
  BY ExitEffect, Actors DEF Started, Dead
<1> QED BY <1>2, <1>4, <1>5, <1>6, PipesStay

LEMMA EndPipes ==
  ASSUME PipeInv, ChildTypeOK, spc' = spc, NEW p \in Pids,
         NEW how \in {"0", "code", "signal"}, EndWith(p, how)
  PROVE  PipeInv'
BY ExitPipes DEF EndWith

LEMMA ReturnPipes ==
  ASSUME PipeInv, ChildTypeOK, spc' = spc, NEW h \in Handles, NEW r, Return(h, r)
  PROVE  PipeInv'
<1>1. h \in Pids /\ Running(h) /\ Exit(h, "0")
  BY ChildAssumption DEF Return
<1> QED BY <1>1, ExitPipes

\* The child gets what its owner holds, and both the new pipe.
LEMMA ClonePipes ==
  ASSUME PipeInv, ChildTypeOK, UNCHANGED spc, NEW h \in Handles, NEW newpid, Clone(h, newpid),
         h = Sched => spc = "exec"
  PROVE  PipeInv'
<1>1. /\ Running(Owner[h]) /\ status[h] = "none" /\ status' = [status EXCEPT ![h] = "running"]
      /\ writers' = [Inherited(Owner[h], h) EXCEPT ![h] = {h, Owner[h]}]
      /\ call' = [call EXCEPT ![h] = "close"]
  BY DEF Clone, Born
<1>2. h \in Pids /\ status \in [Pids -> {"none", "running", "zombie", "reaped"}]
      /\ call \in [Handles -> Places]
  BY Actors DEF ChildTypeOK
<1>3. Running(h)' /\ \A p \in Pids : Running(p) => Running(p)'
  BY <1>1, <1>2 DEF Running
<1>4. call'[h] = "close" /\ \A g \in Handles \ {h} : call'[g] = call[g]
  BY <1>1, <1>2
<1>5. writers'[h] = {h, Owner[h]}
  BY <1>1 DEF Inherited
<1>6. \A g \in Handles \ {h} :
        writers'[g] = writers[g] \cup (IF Owner[h] \in writers[g] THEN {h} ELSE {})
  BY <1>1 DEF Inherited
<1>7. \A g \in Handles : writers[g] \subseteq Pids
  BY DEF ChildTypeOK
<1>8. ASSUME NEW g \in Handles, NEW p \in writers'[g]
      PROVE  Running(p)' /\ p # Daemon /\ (p = Sched => spc = "exec")
  <2>1. p \in writers[g] \/ p = h \/ p = Owner[h]
    BY <1>5, <1>6, <1>8
  <2>2. CASE p \in writers[g]
    BY <1>3, <1>7, <2>2 DEF PipeInv
  <2>3. CASE p = h \/ p = Owner[h]
    <3>1. Running(p)'
      BY <1>1, <1>3, <2>3, Actors
    <3>2. p # Daemon /\ (p = Sched => h = Sched)
      BY <2>3, Actors
    <3> QED BY <3>1, <3>2
  <2> QED BY <2>1, <2>2, <2>3
<1>9. Runner \notin writers'[Sched]
  BY <1>5, <1>6, Actors DEF PipeInv
<1>10. ASSUME NEW g \in Handles, Owner[g] \in writers'[g]
       PROVE  call'[g] = "close"
  <2>1. CASE g = h
    BY <1>4, <2>1
  <2>2. CASE g # h
    <3>1. Owner[g] # h \/ (g = Sched /\ h = Box)
      BY Actors
    <3>2. Owner[g] \in writers[g] \/ (g = Sched /\ h = Box /\ Runner \in writers[Sched])
      BY <1>6, <1>10, <2>2, <3>1, Actors
    <3>3. call[g] = "close"
      BY <3>2 DEF PipeInv
    <3> QED BY <1>4, <2>2, <3>3
  <2> QED BY <2>1, <2>2
<1>11. Started(Sched) => Started(Sched)'
  BY <1>1, <1>2, Actors DEF Started
<1> QED BY <1>8, <1>9, <1>10, <1>11 DEF PipeInv

\* The binary has no write ends to leave to its child.
LEMMA DaemonPipes ==
  ASSUME PipeInv, ChildTypeOK, UNCHANGED spc, spc = "program", ForkPlain(Sched, Daemon)
  PROVE  PipeInv'
<1>1. /\ status' = [status EXCEPT ![Daemon] = "running"] /\ UNCHANGED call
      /\ writers' = Inherited(Sched, Daemon)
  BY DEF ForkPlain, Born, handleVars
<1>2. \A h \in Handles : Sched \notin writers[h] /\ writers'[h] = writers[h]
  BY <1>1 DEF PipeInv, Inherited
<1>3. \A p \in Pids : Running(p) => Running(p)'
  BY <1>1 DEF Running, ChildTypeOK
<1>4. \A h \in Handles : \A p \in writers'[h] : Running(p)'
  BY <1>2, <1>3 DEF PipeInv, ChildTypeOK
<1>5. Started(Sched) => Started(Sched)'
  BY <1>1, Actors DEF Started, ChildTypeOK
<1> QED BY <1>1, <1>2, <1>4, <1>5, PipesStay

LEMMA ExecPipes ==
  ASSUME PipeInv, ChildTypeOK, spc' = "program", ExecOk(Sched)
  PROVE  PipeInv'
<1>1. UNCHANGED <<status, call>>
  BY DEF ExecOk, kernelVars, handleVars
<1>2. \A h \in Handles : writers'[h] = writers[h] \ {Sched}
  BY DEF ExecOk
<1>3. Started(Sched)
  BY <1>1 DEF ExecOk, Running, Started
<1> QED BY <1>1, <1>2, <1>3, Actors DEF PipeInv, Running, Started

LEMMA CallPipes ==
  ASSUME PipeInv, ChildTypeOK, spc' = spc, NEW h \in Handles, CallStep(h)
  PROVE  PipeInv'
<1>1. CASE CloseWrite(h)
  <2>1. /\ UNCHANGED status /\ writers' = [writers EXCEPT ![h] = @ \ {Owner[h]}]
        /\ call' = [call EXCEPT ![h] = "none"]
    BY <1>1 DEF CloseWrite, kernelVars
  <2>2. /\ writers'[h] = writers[h] \ {Owner[h]}
        /\ \A g \in Handles \ {h} : writers'[g] = writers[g] /\ call'[g] = call[g]
    BY <2>1 DEF ChildTypeOK
  <2> QED BY <2>1, <2>2, PipesStay DEF PipeInv, Running, Started
<1>2. CASE ~CloseWrite(h)
  <2>1. UNCHANGED writers /\ call[h] # "close" /\ \A g \in Handles \ {h} : call'[g] = call[g]
    BY <1>2 DEF CallStep, WaitPid, StillAlive, ReadPipe, SendKill, Waiting, ChildTypeOK
  <2>2. \A p \in Pids : Running(p) => Running(p)'
    BY <1>2 DEF CallStep, WaitPid, StillAlive, ReadPipe, SendKill, kernelVars, Running, ChildTypeOK
  <2>3. \A g \in Handles : \A p \in writers'[g] : Running(p)'
    BY <2>1, <2>2 DEF PipeInv, ChildTypeOK
  <2>4. Started(Sched) => Started(Sched)'
    BY <1>2, Actors
    DEF CallStep, WaitPid, StillAlive, ReadPipe, SendKill, kernelVars, Started, ChildTypeOK
  <2> QED BY <2>1, <2>3, <2>4, PipesStay
<1> QED BY <1>1, <1>2

LEMMA NextPipeInv ==
  ASSUME LaunchInv, PipeInv, [Next]_vars
  PROVE  PipeInv'
<1>1. ChildTypeOK /\ {Runner, Box, Sched, Daemon} \subseteq Pids /\ {Box, Sched} \subseteq Handles
  BY Actors DEF LaunchInv, TypeOK
<1>2. {"alive", "kill", "wait", "waitall"} \subseteq Waiting
  BY DEF Waiting
<1>3. UNCHANGED childVars /\ spc' = spc => PipeInv'
  BY <1>1, IdlePipes DEF childVars
<1>4. CASE UNCHANGED vars
  BY <1>3, <1>4 DEF vars, childVars
<1>5. CASE Start \/ ReadState \/ ReadOps \/ Polled \/ RunTest \/ TestsDone
  BY <1>3, <1>5 DEF Start, ReadState, ReadOps, Polled, RunTest, TestsDone, progVars
<1>6. CASE Spawn
  BY <1>1, <1>3, <1>6, ClonePipes, Actors DEF Spawn, progVars
<1>7. CASE Poll \/ DropKill \/ DropWait
  BY <1>1, <1>2, <1>3, <1>7, InvokePipes DEF Poll, DropKill, DropWait, progVars
<1>8. CASE Leave
  BY <1>1, <1>8, EndPipes DEF Leave, progVars
<1>9. CASE SetDeathSig \/ SetSubreaper
  <2>1. UNCHANGED <<status, writers, call, spc>> \/ (Return(Box, Setup) /\ spc' = spc)
    BY <1>9 DEF SetDeathSig, SetSubreaper, BoxReturns, progVars, handleVars
  <2> QED BY <1>1, <2>1, IdlePipes, ReturnPipes
<1>10. CASE RunBinary
  <2>1. (Clone(Sched, FALSE) /\ spc' = spc) \/ (BoxReturns(Setup) /\ spc' = spc)
    BY <1>10 DEF RunBinary, BoxReturns, progVars
  <2>2. Clone(Sched, FALSE) => spc = "exec"
    BY DEF Clone, Started, PipeInv, LaunchInv, TypeOK
  <2>3. BoxReturns(Setup) => Return(Box, Setup)
    BY DEF BoxReturns
  <2> QED BY <1>1, <2>1, <2>2, <2>3, ClonePipes, ReturnPipes
<1>11. CASE WaitForAll
  BY <1>1, <1>2, <1>11, InvokePipes DEF WaitForAll
<1>12. CASE PassOn
  BY <1>1, <1>12, ReturnPipes DEF PassOn, BoxReturns, progVars
<1>13. CASE Exec
  BY <1>1, <1>13, ExecPipes, ReturnPipes DEF Exec
<1>14. CASE RunnerKilled \/ BinaryEnds \/ Killed
  BY <1>1, <1>14, EndPipes DEF RunnerKilled, BinaryEnds, Killed, DieOfKill, progVars
<1>15. CASE Calls
  BY <1>1, <1>15, CallPipes DEF Calls, progVars
<1>16. CASE Daemonize
  BY <1>1, <1>16, DaemonPipes DEF Daemonize, progVars
<1>17. CASE Enable \/ DisableDone
  BY <1>3, <1>17 DEF Enable, DisableDone, progVars
<1> QED
  BY <1>4, <1>5, <1>6, <1>7, <1>8, <1>9, <1>10, <1>11, <1>12, <1>13, <1>14, <1>15, <1>16, <1>17
  DEF Next, Main, BoxStep

\* Whoever dies or is killed, and whatever the binary leaves behind, a read of a pipe never
\* blocks, once the status of its process has been taken: with that the calls that do not
\* wait for a process wait for nothing else (child.rs:162-170, 226-236).
THEOREM PipesAreFree == Spec => []PipeIsFree
<1>1. Init => PipeInv
  BY Actors DEF Init, ChildInit, PipeInv
<1>2. LaunchInv /\ PipeInv /\ [Next]_vars => PipeInv'
  BY NextPipeInv
<1>3. LaunchInv /\ PipeInv => PipeIsFree
  <2> SUFFICES ASSUME LaunchInv, PipeInv, NEW h \in Handles, call[h] = "read",
                      NEW p \in writers[h]
               PROVE  FALSE
    BY DEF PipeIsFree
  <2>1. status[h] = "reaped"
    BY DEF LaunchInv, HandleInv, Reported
  <2>2. p \in Pids /\ Running(p) /\ p # Daemon /\ p # Owner[h] /\ p # h
    BY <2>1 DEF PipeInv, Running, LaunchInv, TypeOK, ChildTypeOK
  <2>3. h = Box /\ p = Sched
    BY <2>2, Actors DEF PipeInv
  <2>4. status[Sched] \in {"none", "reaped"}
    BY <2>1, <2>3 DEF LaunchInv, SpaceInv, Dead
  <2> QED BY <2>2, <2>3, <2>4 DEF Running
<1> QED BY <1>1, <1>2, <1>3, InitLaunchInv, NextLaunchInv, PTL DEF Spec
=============================================================================
