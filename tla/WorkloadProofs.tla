--------------------------- MODULE WorkloadProofs ----------------------------
(***************************************************************************)
(* Proofs about a test case and its worker processes, for any number of    *)
(* processes, any test case and any number of rounds.                      *)
(***************************************************************************)
EXTENDS Workload, SequenceTheorems, TLAPS

-----------------------------------------------------------------------------
(* The inductive invariant.                                                *)

Places == {"setup", "ready", "start", "swap", "work"}

\* The next call of a body is one of its calls.
InBody ==
  \A i \in Procs :
    /\ case.body[i] # <<>> => at[i] \in 1 .. Len(case.body[i])
    /\ case.helper[i] # <<>> => hat[i] \in 1 .. Len(case.helper[i])

\* The parent's own variables, by where it is.
ParentInv ==
  /\ ppc = "fork" => creating
  /\ ppc \in {"stop", "rest", "store", "produce"} => ~creating
  /\ creating => rounds = <<>> /\ ~running
  /\ ppc \in {"store", "produce"} => rounds # <<>> /\ running
  /\ ppc \notin Dropping => ~failed /\ killed = {}
  /\ RunningUntilFirstStops

\* The processes the parent has yet to create do not exist.
UnbornInv ==
  creating /\ ppc \notin Dropping =>
    \A i \in Procs : i > cur \/ (i = cur /\ ppc = "fork") => cpc[i] = "unborn"

\* The parent has the token by which i has said that it is ready ...
Answered(i) ==
  \/ ppc = "rest"
  \/ ppc \in {"store", "produce"} /\ i >= cur
  \/ ppc \in {"fork", "wait", "asleep", "check"} /\ i < cur
  \/ ppc = "stop" /\ i <= cur

\* ... and has begun a round without telling it yet.
Asking(i) == ppc \in {"store", "produce"} /\ i >= cur

\* How tokens, iterations and rounds stand between the parent and a process that is
\* at a place of its loop.
Handshake(i, place) ==
  /\ start[i] + ready[i] <= IF place = "start" THEN 1 ELSE 0
  /\ place = "setup" => rounds = <<>> /\ done[i] = <<>>
  /\ place = "ready" => done[i] = rounds
  /\ place = "start" /\ start[i] = 0 /\ ~Asking(i) => done[i] = rounds
  /\ place = "start" /\ start[i] = 1 => rounds = Append(done[i], iters[i])
  /\ place = "swap" => rounds = Append(done[i], iters[i])
  /\ place = "work" => rounds = Append(done[i], got[i])
  /\ Answered(i) => place = "start" /\ start[i] = 0 /\ ready[i] = 0
  /\ Asking(i) => rounds = Append(done[i], Last(rounds))
  /\ ppc = "produce" /\ i = cur => iters[i] = Last(rounds)

\* The place of a process; of a dead one, some place it may have died at.
PlacesOf(i) ==
  CASE cpc[i] = "unborn" -> {"setup"}
    [] cpc[i] \in {"zombie", "reaped"} -> Places
    [] OTHER -> {cpc[i]}

HandshakeInv == \A i \in Procs : \E place \in PlacesOf(i) : Handshake(i, place)

\* The drop has dealt with the processes it has been at.
DropInv ==
  \A i \in Procs :
    /\ ppc \in {"kill", "reap"} /\ i < cur => cpc[i] \in {"unborn", "reaped"}
    /\ ppc = "remove" /\ i <= cur => cpc[i] \in {"unborn", "reaped"}
    /\ ppc \in {"kill", "reap", "remove"} /\ i < cur => i \notin cgroups

IInv ==
  /\ TypeOK /\ InBody
  /\ ParentInv /\ UnbornInv /\ HandshakeInv
  /\ DropInv /\ NoProcessLeft /\ CgroupsOutliveProcesses /\ ErrorMeansDeath

-----------------------------------------------------------------------------
(* Types.                                                                  *)

LEMMA CaseShape ==
  ASSUME TypeOK
  PROVE  /\ case.body \in [Procs -> Seq(Op)] /\ case.helper \in [Procs -> Seq(Op)]
         /\ case.perIter \in [Procs -> BOOLEAN]
         /\ case.iters \subseteq Nat /\ case.mortal \subseteq Procs
BY WorkloadAssumption DEF TypeOK

\* A call keeps the counts of the semaphores within their limits.
LEMMA PerformKeepsCounts ==
  ASSUME TypeOK, NEW c \in Op, NEW n \in Nat, Perform(c, n)
  PROVE  count' \in [Sems -> Nat] /\ \A s \in Sems : count'[s] <= Limit[s]
<1>1. c.sem \in Sems /\ Limit \in [Sems -> Nat]
  BY WorkloadAssumption DEF Op
<1>2. count \in [Sems -> Nat] /\ \A s \in Sems : count[s] <= Limit[s]
  BY DEF TypeOK
<1>3. CASE c.op = "produce"
  BY <1>1, <1>2, <1>3 DEF Perform
<1>4. CASE c.op # "produce"
  BY <1>1, <1>2, <1>4 DEF Perform
<1> QED BY <1>3, <1>4

\* The last of the rounds is one of the iteration counts asked for.
LEMMA LastRound ==
  ASSUME rounds \in Seq(Nat), rounds # <<>>
  PROVE  Last(rounds) \in Nat
BY DEF Last

LEMMA LastOfAppend ==
  ASSUME NEW s \in Seq(Nat), NEW n \in Nat
  PROVE  /\ Append(s, n) \in Seq(Nat) /\ Append(s, n) # <<>>
         /\ Last(Append(s, n)) = n
BY DEF Last

LEMMA Wraps ==
  ASSUME NEW n \in Nat \ {0}, NEW k \in Nat
  PROVE  1 + (k % n) \in 1 .. n
OBVIOUS

\* A loop over the processes stays within them.
LEMMA Looping ==
  ASSUME cur \in Procs
  PROVE  /\ 1 \in Procs /\ Procs \subseteq Nat \ {0} /\ N \in Nat
         /\ cur < N => cur + 1 \in Procs
         /\ ~(cur < N) => cur = N /\ \A i \in Procs : i <= cur
BY WorkloadAssumption DEF Procs

\* The call that a process makes next.
LEMMA NextCalls ==
  ASSUME TypeOK, InBody, NEW i \in Procs
  PROVE  /\ case.body[i] # <<>> => case.body[i][at[i]] \in Op
         /\ case.helper[i] # <<>> => case.helper[i][hat[i]] \in Op
<1>1. case.body[i] \in Seq(Op) /\ case.helper[i] \in Seq(Op)
  BY CaseShape
<1> QED BY <1>1, ElementOfSeq DEF InBody

LEMMA InitIInv == Init => IInv
<1> SUFFICES ASSUME Init PROVE IInv
  OBVIOUS
<1>1. TypeOK
  <2>1. cur \in Procs
    BY WorkloadAssumption DEF Init, Procs
  <2>2. count \in [Sems -> Nat] /\ \A s \in Sems : count[s] <= Limit[s]
    BY WorkloadAssumption DEF Init
  <2>3. rounds \in Seq(Nat) /\ done \in [Procs -> Seq(Nat)]
    BY DEF Init
  <2>4. /\ start \in [Procs -> 0 .. 1] /\ ready \in [Procs -> 0 .. 1]
        /\ iters \in [Procs -> Nat] /\ got \in [Procs -> Nat] /\ left \in [Procs -> Nat]
    BY DEF Init
  <2>5. at \in [Procs -> Nat \ {0}] /\ hat \in [Procs -> Nat \ {0}]
    BY DEF Init
  <2>6. creating \in BOOLEAN /\ failed \in BOOLEAN /\ running \in BOOLEAN
    BY DEF Init
  <2>7. /\ cpc \in [Procs -> {"unborn", "setup", "ready", "start", "swap", "work",
                              "zombie", "reaped"}]
        /\ ppc \in {"fork", "wait", "asleep", "check", "store", "produce", "stop",
                    "rest", "kill", "reap", "remove", "done"}
    BY DEF Init
  <2>8. case \in Cases /\ killed \subseteq Procs /\ cgroups \subseteq Procs
    BY DEF Init
  <2> QED BY <2>1, <2>2, <2>3, <2>4, <2>5, <2>6, <2>7, <2>8 DEF TypeOK
<1>2. InBody
  <2>1. \A s \in Seq(Op) : s # <<>> => 1 \in 1 .. Len(s)
    OBVIOUS
  <2> QED BY <1>1, <2>1, CaseShape DEF Init, InBody
<1>3. ParentInv /\ UnbornInv /\ DropInv /\ NoProcessLeft
  BY DEF Init, ParentInv, UnbornInv, DropInv, NoProcessLeft, RunningUntilFirstStops,
         Dropping, Procs
<1>4. CgroupsOutliveProcesses /\ ErrorMeansDeath
  BY DEF Init, CgroupsOutliveProcesses, ErrorMeansDeath, Alive
<1>5. HandshakeInv
  <2> SUFFICES ASSUME NEW i \in Procs PROVE Handshake(i, "setup") /\ "setup" \in PlacesOf(i)
    BY DEF HandshakeInv
  <2>1. "setup" \in PlacesOf(i)
    BY DEF Init, PlacesOf
  <2>2. ~Answered(i) /\ ~Asking(i)
    BY DEF Init, Answered, Asking, Procs
  <2> QED BY <2>1, <2>2 DEF Init, Handshake
<1> QED BY <1>1, <1>2, <1>3, <1>4, <1>5 DEF IInv

LEMMA NextTypeOK ==
  ASSUME TypeOK, InBody, ParentInv, [Next]_vars
  PROVE  TypeOK'
<1> USE DEF Go, Jump, parentVars, handshakeVars, workVars, history
<1>0. CASE UNCHANGED vars
  BY <1>0 DEF TypeOK, vars
<1>1. CASE ParentStep
  <2>0. case' = case /\ 1 \in Procs
    BY <1>1, WorkloadAssumption DEF ParentStep, Procs
  <2>1. CASE Fork
    BY <2>0, <2>1 DEF Fork, MakeCgroup, TypeOK
  <2>2. CASE ConsumeReady
    <3>1. cur' \in Procs
      BY <2>2, Looping DEF ConsumeReady, TypeOK
    <3>2. ready' \in [Procs -> 0 .. 1]
      BY <2>2 DEF ConsumeReady, TypeOK
    <3> QED BY <2>0, <2>2, <3>1, <3>2 DEF ConsumeReady, TypeOK
  <2>3. CASE SleepForReady
    BY <2>0, <2>3 DEF SleepForReady, TypeOK
  <2>4. CASE WaitTimeout
    BY <2>0, <2>4 DEF WaitTimeout, TypeOK
  <2>5. CASE CheckAlive
    BY <2>0, <2>5 DEF CheckAlive, TypeOK
  <2>6. CASE StoreIters
    <3>1. PICK n : n = Last(rounds)
      OBVIOUS
    <3>2. n \in Nat
      BY <3>1, <2>6, LastRound DEF TypeOK, ParentInv, StoreIters
    <3> QED BY <2>0, <2>6, <3>1, <3>2 DEF StoreIters, TypeOK
  <2>7. CASE ProduceStart
    <3>1. cur' \in Procs /\ ppc' \in {"store", "wait"}
      BY <2>7, Looping DEF ProduceStart, TypeOK
    <3>2. start' \in [Procs -> 0 .. 1]
      BY <2>7 DEF ProduceStart, TypeOK
    <3> QED BY <2>0, <2>7, <3>1, <3>2 DEF ProduceStart, TypeOK
  <2>8. CASE StopRunning
    <3>1. cur' \in Procs
      BY <2>8, Looping DEF StopRunning, TypeOK
    <3> QED BY <2>0, <2>8, <3>1 DEF StopRunning, TypeOK
  <2>9. CASE Kill
    BY <2>0, <2>9 DEF Kill, TypeOK
  <2>10. CASE Reap
    BY <2>0, <2>10 DEF Reap, TypeOK
  <2>11. CASE RemoveCgroup
    <3>1. cur' \in Procs
      BY <2>11, Looping DEF RemoveCgroup, TypeOK
    <3> QED BY <2>0, <2>11, <3>1 DEF RemoveCgroup, TypeOK
  <2> QED
    BY <1>1, <2>1, <2>2, <2>3, <2>4, <2>5, <2>6, <2>7, <2>8, <2>9, <2>10, <2>11
    DEF ParentStep
<1>2. CASE ParentMay
  <2>0. case' = case /\ 1 \in Procs
    BY <1>2, WorkloadAssumption DEF ParentMay, Procs
  <2>1. CASE CreateFails
    BY <2>0, <2>1 DEF CreateFails, TypeOK
  <2>2. CASE BeginRound
    <3> PICK n \in case.iters : rounds' = Append(rounds, n)
      BY <2>2 DEF BeginRound
    <3>1. n \in Nat
      BY CaseShape
    <3>2. rounds' \in Seq(Nat)
      BY <3>1 DEF TypeOK
    <3> QED BY <2>0, <2>2, <3>2 DEF BeginRound, TypeOK
  <2>3. CASE Finish
    BY <2>0, <2>3 DEF Finish, TypeOK
  <2> QED BY <1>2, <2>1, <2>2, <2>3 DEF ParentMay
<1>3. ASSUME NEW i \in Procs, ProcStep(i) PROVE TypeOK'
  <2>0. case' = case
    BY <1>3 DEF ProcStep
  <2>1. CASE Setup(i)
    BY <2>0, <2>1 DEF Setup, TypeOK
  <2>2. CASE ProduceReady(i)
    <3>1. ready' \in [Procs -> 0 .. 1]
      BY <2>2 DEF ProduceReady, TypeOK
    <3>2. cpc' \in [Procs -> {"unborn", "setup", "ready", "start", "swap", "work",
                              "zombie", "reaped"}]
      BY <2>2 DEF ProduceReady, TypeOK
    <3>3. UNCHANGED <<parentVars, iters, start, workVars, hat, count, killed, history>>
      BY <2>2 DEF ProduceReady
    <3> QED BY <2>0, <3>1, <3>2, <3>3 DEF TypeOK
  <2>3. CASE ConsumeStart(i)
    <3>1. start' \in [Procs -> 0 .. 1]
      BY <2>3 DEF ConsumeStart, TypeOK
    <3> QED BY <2>0, <2>3, <3>1 DEF ConsumeStart, TypeOK
  <2>4. CASE SwapIters(i)
    <3>1. /\ iters' \in [Procs -> Nat] /\ got' \in [Procs -> Nat]
          /\ left' \in [Procs -> Nat] /\ at' \in [Procs -> Nat \ {0}]
      <4>1. iters[i] \in Nat /\ (IF case.perIter[i] THEN iters[i] ELSE 1) \in Nat
        BY DEF TypeOK
      <4>2. got' \in [Procs -> Nat] /\ iters' \in [Procs -> Nat]
        BY <2>4, <4>1 DEF SwapIters, TypeOK
      <4>3. left' \in [Procs -> Nat] /\ at' \in [Procs -> Nat \ {0}]
        BY <2>4, <4>1 DEF SwapIters, TypeOK
      <4> QED BY <4>2, <4>3
    <3>2. cpc' \in [Procs -> {"unborn", "setup", "ready", "start", "swap", "work",
                              "zombie", "reaped"}]
      BY <2>4 DEF SwapIters, TypeOK
    <3>3. UNCHANGED <<parentVars, start, ready, cgroups, hat, count, killed, history>>
      BY <2>4 DEF SwapIters
    <3> QED BY <2>0, <3>1, <3>2, <3>3 DEF TypeOK
  <2>5. CASE Work(i)
    <3> DEFINE c == case.body[i][at[i]]
               n == IF c.all THEN got[i] ELSE 1
    <3>1. c \in Op /\ n \in Nat
      BY <2>5, NextCalls DEF Work, TypeOK
    <3>2. Perform(c, n)
      BY <2>5 DEF Work
    <3> HIDE DEF c, n
    <3>3. count' \in [Sems -> Nat] /\ \A s \in Sems : count'[s] <= Limit[s]
      BY <3>1, <3>2, PerformKeepsCounts
    <3>4. at \in [Procs -> Nat \ {0}] /\ left \in [Procs -> Nat] /\ left[i] > 0
      BY <2>5 DEF Work, TypeOK
    <3>5. at' \in [Procs -> Nat \ {0}] /\ left' \in [Procs -> Nat]
      <4> DEFINE more == at[i] < Len(case.body[i])
      <4>1. CASE more
        <5>1. at' = [at EXCEPT ![i] = @ + 1] /\ left' = left
          BY <2>5, <4>1 DEF Work
        <5> QED BY <3>4, <5>1
      <4>2. CASE ~more
        <5>1. at' = [at EXCEPT ![i] = 1] /\ left' = [left EXCEPT ![i] = @ - 1]
          BY <2>5, <4>2 DEF Work
        <5>2. left[i] - 1 \in Nat
          BY <3>4
        <5> QED BY <3>4, <5>1, <5>2
      <4> QED BY <4>1, <4>2
    <3> QED BY <2>0, <2>5, <3>3, <3>4, <3>5 DEF Work, TypeOK
  <2>6. CASE Complete(i)
    <3>1. done' \in [Procs -> Seq(Nat)]
      <4>1. Append(done[i], got[i]) \in Seq(Nat)
        BY DEF TypeOK
      <4> QED BY <2>6, <4>1 DEF Complete, TypeOK
    <3>2. cpc' \in [Procs -> {"unborn", "setup", "ready", "start", "swap", "work",
                              "zombie", "reaped"}]
      BY <2>6 DEF Complete, TypeOK
    <3>3. UNCHANGED <<parentVars, handshakeVars, workVars, hat, count, killed, rounds>>
      BY <2>6 DEF Complete
    <3> QED BY <2>0, <3>1, <3>2, <3>3 DEF TypeOK
  <2> QED BY <1>3, <2>1, <2>2, <2>3, <2>4, <2>5, <2>6 DEF ProcStep
<1>4. ASSUME NEW i \in Procs, Help(i) PROVE TypeOK'
  <2> DEFINE c == case.helper[i][hat[i]]
  <2>1. c \in Op
    BY <1>4, NextCalls DEF Help
  <2>2. Perform(c, 1)
    BY <1>4 DEF Help
  <2> HIDE DEF c
  <2>3. count' \in [Sems -> Nat] /\ \A s \in Sems : count'[s] <= Limit[s]
    BY <2>1, <2>2, PerformKeepsCounts
  <2>4. hat' \in [Procs -> Nat \ {0}]
    <3>1. Len(case.helper[i]) \in Nat \ {0}
      BY <1>4, CaseShape DEF Help
    <3>2. 1 + (hat[i] % Len(case.helper[i])) \in Nat \ {0}
      <4>1. hat[i] \in Nat
        BY DEF TypeOK
      <4> HIDE DEF TypeOK
      <4> QED BY <3>1, <4>1, Wraps
    <3> QED BY <1>4, <3>2 DEF Help, TypeOK
  <2> QED BY <1>4, <2>3, <2>4 DEF Help, TypeOK
<1>5. ASSUME NEW i \in Procs, DieOfKill(i) \/ Crash(i) PROVE TypeOK'
  BY <1>5 DEF DieOfKill, Crash, TypeOK
<1> QED BY <1>0, <1>1, <1>2, <1>3, <1>4, <1>5 DEF Next

LEMMA NextInBody ==
  ASSUME TypeOK, InBody, [Next]_vars
  PROVE  InBody'
<1> USE DEF Go, Jump, parentVars, handshakeVars, workVars, history
<1>1. CASE UNCHANGED vars
  BY <1>1 DEF InBody, vars
<1>2. CASE ParentStep \/ ParentMay
  <2>1. UNCHANGED <<case, at, hat>>
    BY <1>2 DEF ParentStep, ParentMay, Fork, ConsumeReady, SleepForReady, WaitTimeout,
      CheckAlive, StoreIters, ProduceStart, StopRunning, Kill, Reap, RemoveCgroup,
      CreateFails, BeginRound, Finish, MakeCgroup
  <2> QED BY <2>1 DEF InBody
<1>3. ASSUME NEW i \in Procs, ProcStep(i) PROVE InBody'
  <2>1. case' = case /\ hat' = hat /\ case.body[i] \in Seq(Op)
    BY <1>3, CaseShape DEF ProcStep, Setup, ProduceReady, ConsumeStart, SwapIters, Work, Complete
  <2>2. CASE ~SwapIters(i) /\ ~Work(i)
    <3>1. at' = at
      BY <1>3, <2>2 DEF ProcStep, Setup, ProduceReady, ConsumeStart, Complete
    <3> QED BY <2>1, <3>1 DEF InBody
  <2>3. CASE SwapIters(i) \/ Work(i)
    <3>1. case.body[i] # <<>> => at'[i] \in 1 .. Len(case.body[i])
      <4>1. \/ at'[i] = 1
            \/ at'[i] = at[i] + 1 /\ at[i] < Len(case.body[i]) /\ case.body[i] # <<>>
        <5>1. at \in [Procs -> Nat \ {0}]
          BY DEF TypeOK
        <5>2. CASE SwapIters(i)
          BY <5>1, <5>2 DEF SwapIters
        <5>3. CASE Work(i)
          BY <5>1, <5>3 DEF Work
        <5> QED BY <2>3, <5>2, <5>3
      <4>2. case.body[i] # <<>> => Len(case.body[i]) \in Nat \ {0}
        BY <2>1, EmptySeq
      <4>3. case.body[i] # <<>> => at[i] \in 1 .. Len(case.body[i])
        BY DEF InBody
      <4> QED BY <4>1, <4>2, <4>3
    <3>2. \A j \in Procs \ {i} : at'[j] = at[j]
      BY <2>3 DEF SwapIters, Work, TypeOK
    <3> QED BY <2>1, <3>1, <3>2 DEF InBody
  <2> QED BY <2>2, <2>3
<1>4. ASSUME NEW i \in Procs, Help(i) PROVE InBody'
  <2>1. UNCHANGED <<case, at>> /\ hat' = [hat EXCEPT ![i] = 1 + (@ % Len(case.helper[i]))]
    BY <1>4 DEF Help
  <2>2. Len(case.helper[i]) \in Nat \ {0} /\ hat[i] \in Nat
    BY <1>4, CaseShape, EmptySeq DEF Help, TypeOK
  <2>3. 1 + (hat[i] % Len(case.helper[i])) \in 1 .. Len(case.helper[i])
    BY <2>2, Wraps
  <2>4. hat'[i] \in 1 .. Len(case.helper[i]) /\ \A j \in Procs \ {i} : hat'[j] = hat[j]
    BY <2>1, <2>3 DEF TypeOK
  <2> QED BY <2>1, <2>4 DEF InBody
<1>5. ASSUME NEW i \in Procs, DieOfKill(i) \/ Crash(i) PROVE InBody'
  BY <1>5 DEF DieOfKill, Crash, InBody
<1> QED BY <1>1, <1>2, <1>3, <1>4, <1>5 DEF Next

-----------------------------------------------------------------------------
(* The parent.                                                             *)

\* What the processes do leaves the parent where it is.
LEMMA ProcsLeaveParent ==
  ASSUME TypeOK, NEW i \in Procs, ProcStep(i) \/ Help(i) \/ DieOfKill(i) \/ Crash(i)
  PROVE  /\ UNCHANGED <<parentVars, rounds, killed, cgroups>>
         /\ \A j \in Procs \ {i} :
              UNCHANGED <<iters[j], start[j], ready[j], cpc[j], got[j], done[j]>>
<1> USE DEF Jump, parentVars, handshakeVars, workVars, history, TypeOK
<1>1. CASE Setup(i)
  BY <1>1 DEF Setup
<1>2. CASE ProduceReady(i)
  BY <1>2 DEF ProduceReady
<1>3. CASE ConsumeStart(i)
  BY <1>3 DEF ConsumeStart
<1>4. CASE SwapIters(i)
  BY <1>4 DEF SwapIters
<1>5. CASE Work(i)
  BY <1>5 DEF Work
<1>6. CASE Complete(i)
  BY <1>6 DEF Complete
<1>7. CASE Help(i)
  BY <1>7 DEF Help
<1>8. CASE DieOfKill(i) \/ Crash(i)
  BY <1>8 DEF DieOfKill, Crash
<1> QED BY <1>1, <1>2, <1>3, <1>4, <1>5, <1>6, <1>7, <1>8 DEF ProcStep

LEMMA NextParentInv ==
  ASSUME TypeOK, ParentInv, [Next]_vars
  PROVE  ParentInv'
<1> USE DEF ParentInv, RunningUntilFirstStops, Dropping, Go
<1>1. CASE UNCHANGED vars
  BY <1>1 DEF vars
<1>2. CASE ParentStep
  <2> USE DEF handshakeVars, workVars, history
  <2>0. cur \in Procs /\ cur \in Nat /\ N \in Nat \ {0} /\ cur >= 1
    BY WorkloadAssumption, Looping DEF TypeOK
  <2>1. CASE Fork
    BY <2>0, <2>1 DEF Fork
  <2>2. CASE ConsumeReady
    BY <2>0, <2>2 DEF ConsumeReady
  <2>3. CASE SleepForReady
    BY <2>0, <2>3 DEF SleepForReady
  <2>4. CASE WaitTimeout
    BY <2>0, <2>4 DEF WaitTimeout
  <2>5. CASE CheckAlive
    BY <2>0, <2>5 DEF CheckAlive
  <2>6. CASE StoreIters
    BY <2>0, <2>6 DEF StoreIters
  <2>7. CASE ProduceStart
    BY <2>0, <2>7 DEF ProduceStart
  <2>8. CASE StopRunning
    BY <2>0, <2>8 DEF StopRunning
  <2>9. CASE Kill
    BY <2>0, <2>9 DEF Kill
  <2>10. CASE Reap
    BY <2>0, <2>10 DEF Reap
  <2>11. CASE RemoveCgroup
    BY <2>0, <2>11 DEF RemoveCgroup
  <2> QED
    BY <1>2, <2>1, <2>2, <2>3, <2>4, <2>5, <2>6, <2>7, <2>8, <2>9, <2>10, <2>11
    DEF ParentStep
<1>3. CASE ParentMay
  <2> USE DEF handshakeVars, workVars, history
  <2>1. CASE CreateFails \/ Finish
    BY <2>1 DEF CreateFails, Finish
  <2>2. CASE BeginRound
    <3>1. rounds' # <<>>
      <4> PICK n \in case.iters : rounds' = Append(rounds, n)
        BY <2>2 DEF BeginRound
      <4> QED BY CaseShape, LastOfAppend DEF TypeOK
    <3> QED BY <2>2, <3>1 DEF BeginRound
  <2> QED BY <1>3, <2>1, <2>2 DEF ParentMay
<1>4. ASSUME NEW i \in Procs, ProcStep(i) \/ Help(i) \/ DieOfKill(i) \/ Crash(i)
      PROVE  ParentInv'
  BY <1>4, ProcsLeaveParent DEF parentVars
<1> QED BY <1>1, <1>2, <1>3, <1>4 DEF Next

LEMMA NextUnbornInv ==
  ASSUME TypeOK, ParentInv, UnbornInv, [Next]_vars
  PROVE  UnbornInv'
<1> USE DEF UnbornInv, Dropping
<1>0. cur \in Nat /\ Procs \subseteq Nat
  BY Looping DEF TypeOK
<1>1. CASE UNCHANGED vars
  BY <1>1 DEF vars
<1>2. CASE ParentStep
  <2> USE DEF Go, handshakeVars, workVars, history
  <2>1. CASE Fork
    BY <1>0, <2>1 DEF Fork, TypeOK
  <2>2. CASE ConsumeReady
    <3>1. cpc' = cpc /\ (creating' => creating) /\ ppc \in {"wait", "asleep"}
      BY <2>2 DEF ConsumeReady
    <3>2. creating' => cur' = cur + 1
      BY <2>2 DEF ConsumeReady, TypeOK
    <3> QED BY <1>0, <3>1, <3>2
  <2>3. CASE SleepForReady \/ WaitTimeout
    BY <2>3 DEF SleepForReady, WaitTimeout
  <2>4. CASE CheckAlive
    BY <2>4 DEF CheckAlive
  <2>5. CASE StoreIters \/ ProduceStart \/ StopRunning
    BY <2>5 DEF StoreIters, ProduceStart, StopRunning, ParentInv
  <2>6. CASE Kill \/ Reap \/ RemoveCgroup
    BY <2>6 DEF Kill, Reap, RemoveCgroup
  <2> QED BY <1>2, <2>1, <2>2, <2>3, <2>4, <2>5, <2>6 DEF ParentStep
<1>3. CASE ParentMay
  BY <1>3 DEF ParentMay, CreateFails, BeginRound, Finish, Go, ParentInv
<1>4. ASSUME NEW i \in Procs, ProcStep(i) \/ Help(i) \/ DieOfKill(i) \/ Crash(i)
      PROVE  UnbornInv'
  <2>1. cpc[i] = "unborn" => cpc'[i] = "unborn"
    BY <1>4 DEF ProcStep, Setup, ProduceReady, ConsumeStart, SwapIters, Work, Complete,
      Help, DieOfKill, Crash, Alive
  <2> QED BY <1>4, <2>1, ProcsLeaveParent DEF parentVars
<1> QED BY <1>1, <1>2, <1>3, <1>4 DEF Next

-----------------------------------------------------------------------------
(* The handshake.                                                          *)

\* What the parent does to its processes leaves open where they are, or were.
LEMMA ParentKeepsPlaces ==
  ASSUME TypeOK, ParentInv, UnbornInv, ParentStep \/ ParentMay, NEW i \in Procs
  PROVE  PlacesOf(i) \subseteq PlacesOf(i)'
<1> USE DEF PlacesOf, Places
<1>1. CASE Fork
  <2>1. cpc[cur] = "unborn"
    BY <1>1 DEF Fork, ParentInv, UnbornInv, Dropping, TypeOK
  <2> QED BY <1>1, <2>1 DEF Fork, TypeOK
<1>2. CASE CheckAlive \/ Kill \/ Reap
  <2>1. \/ cpc'[i] = cpc[i]
        \/ cpc[i] \in {"unborn", "zombie", "reaped"} /\ cpc'[i] = "reaped"
    BY <1>2 DEF CheckAlive, Kill, Reap, Alive, TypeOK
  <2> QED BY <2>1
<1>3. CASE cpc' = cpc
  BY <1>3
<1> QED
  BY <1>1, <1>2, <1>3 DEF ParentStep, ParentMay, ConsumeReady, SleepForReady, WaitTimeout,
    StoreIters, ProduceStart, StopRunning, RemoveCgroup, CreateFails, BeginRound, Finish

LEMMA ParentHandshake ==
  ASSUME TypeOK, ParentInv, ParentStep \/ ParentMay,
         NEW i \in Procs, NEW place \in Places, Handshake(i, place)
  PROVE  Handshake(i, place)'
<1> USE DEF Handshake, Answered, Asking, Go
<1>0. /\ start[i] \in 0 .. 1 /\ ready[i] \in 0 .. 1 /\ cur \in Procs
      /\ i \in Nat \ {0} /\ cur \in Nat \ {0} /\ N \in Nat
      /\ ~(cur < N) => i <= cur
  BY Looping DEF TypeOK
<1>1. CASE ParentStep
  <2> USE DEF handshakeVars, workVars, history
  <2>1. CASE Fork
    BY <1>0, <2>1 DEF Fork, MakeCgroup
  <2>2. CASE ConsumeReady
    <3>1. ready[cur] > 0 /\ ready' = [ready EXCEPT ![cur] = @ - 1]
      BY <2>2 DEF ConsumeReady
    <3>2. ready'[i] = IF i = cur THEN ready[i] - 1 ELSE ready[i]
      BY <3>1 DEF TypeOK
    <3>3. UNCHANGED <<iters, start, got, rounds, done>>
      BY <2>2 DEF ConsumeReady
    <3>4. ppc \in {"wait", "asleep"} /\ (creating => rounds = <<>>)
      BY <2>2 DEF ConsumeReady, ParentInv
    <3>5. \/ ppc' = "stop" /\ cur' = cur
          \/ ppc' = "fork" /\ cur' = cur + 1
          \/ ppc' = "rest" /\ i <= cur
      BY <1>0, <2>2 DEF ConsumeReady
    <3>6. i = cur => place = "start" /\ start[i] = 0 /\ ready[i] = 1
      BY <1>0, <3>1
    <3> QED BY <1>0, <3>1, <3>2, <3>3, <3>4, <3>5, <3>6
  <2>3. CASE SleepForReady
    BY <1>0, <2>3 DEF SleepForReady
  <2>4. CASE WaitTimeout
    BY <1>0, <2>4 DEF WaitTimeout
  <2>5. CASE CheckAlive
    BY <1>0, <2>5 DEF CheckAlive
  <2>6. CASE StoreIters
    <3>1. /\ ppc = "store" /\ ppc' = "produce"
          /\ UNCHANGED <<cur, start, ready, got, rounds, done>>
      BY <2>6 DEF StoreIters
    <3>2. iters'[i] = IF i = cur THEN Last(rounds) ELSE iters[i]
      BY <2>6 DEF StoreIters, TypeOK
    <3> QED BY <1>0, <3>1, <3>2
  <2>7. CASE ProduceStart
    <3>1. ppc = "produce" /\ UNCHANGED <<iters, ready, got, rounds, done>>
      BY <2>7 DEF ProduceStart
    <3>2. start'[i] = IF i = cur THEN 1 ELSE start[i]
      BY <2>7 DEF ProduceStart, TypeOK
    <3>3. \/ ppc' = "store" /\ cur' = cur + 1
          \/ ppc' = "wait" /\ cur' = 1 /\ i <= cur
      BY <1>0, <2>7 DEF ProduceStart
    <3>4. i = cur => place = "start" /\ rounds = Append(done[i], iters[i])
      BY <1>0, <3>1
    <3> QED BY <1>0, <3>1, <3>2, <3>3, <3>4
  <2>8. CASE StopRunning
    BY <1>0, <2>8 DEF StopRunning
  <2>9. CASE Kill
    BY <1>0, <2>9 DEF Kill
  <2>10. CASE Reap
    BY <1>0, <2>10 DEF Reap
  <2>11. CASE RemoveCgroup
    BY <1>0, <2>11 DEF RemoveCgroup
  <2> QED
    BY <1>1, <2>1, <2>2, <2>3, <2>4, <2>5, <2>6, <2>7, <2>8, <2>9, <2>10, <2>11
    DEF ParentStep
<1>2. CASE ParentMay
  <2> USE DEF handshakeVars, workVars, history
  <2>1. CASE CreateFails
    BY <1>0, <2>1 DEF CreateFails
  <2>2. CASE BeginRound
    <3>1. PICK n \in case.iters : rounds' = Append(rounds, n)
      BY <2>2 DEF BeginRound
    <3>2. Last(rounds') = n
      BY <3>1, CaseShape, LastOfAppend DEF TypeOK
    <3>3. place = "start" /\ start[i] = 0 /\ done[i] = rounds
      BY <2>2 DEF BeginRound
    <3> QED BY <1>0, <2>2, <3>1, <3>2, <3>3 DEF BeginRound
  <2>3. CASE Finish
    BY <1>0, <2>3 DEF Finish
  <2> QED BY <1>2, <2>1, <2>2, <2>3 DEF ParentMay
<1> QED BY <1>1, <1>2

\* A step of process i; place is where it is.
LEMMA ProcHandshake ==
  ASSUME TypeOK, NEW i \in Procs, NEW place \in PlacesOf(i), Handshake(i, place),
         ProcStep(i) \/ Help(i) \/ DieOfKill(i) \/ Crash(i)
  PROVE  \E q \in PlacesOf(i)' : Handshake(i, q)'
<1> USE DEF Handshake, Answered, Asking, PlacesOf, Places, Jump
<1>0. /\ start[i] \in 0 .. 1 /\ ready[i] \in 0 .. 1 /\ UNCHANGED <<ppc, cur, rounds>>
      /\ cpc \in [Procs -> {"unborn", "setup", "ready", "start", "swap", "work",
                            "zombie", "reaped"}]
  BY ProcsLeaveParent DEF TypeOK, parentVars
<1> USE DEF parentVars, handshakeVars, workVars, history
<1>1. CASE Setup(i)
  BY <1>0, <1>1 DEF Setup
<1>2. CASE ProduceReady(i)
  <2>1. /\ ready'[i] = 1 /\ UNCHANGED <<start, iters, got, done>>
        /\ cpc[i] = "ready" /\ cpc'[i] = "start"
    BY <1>0, <1>2 DEF ProduceReady, TypeOK
  <2> QED BY <1>0, <2>1
<1>3. CASE ConsumeStart(i)
  <2>1. /\ start[i] = 1 /\ start'[i] = 0 /\ UNCHANGED <<ready, iters, got, done>>
        /\ cpc[i] = "start" /\ cpc'[i] = "swap"
    BY <1>0, <1>3 DEF ConsumeStart, TypeOK
  <2> QED BY <1>0, <2>1
<1>4. CASE SwapIters(i)
  <2>1. /\ got'[i] = iters[i] /\ UNCHANGED <<ready, start, done>>
        /\ cpc[i] = "swap" /\ cpc'[i] = "work"
    BY <1>0, <1>4 DEF SwapIters, TypeOK
  <2>2. /\ place = "swap" /\ ~Answered(i) /\ ~(ppc = "produce" /\ i = cur)
        /\ rounds = Append(done[i], iters[i])
    <3>1. place = "swap"
      BY <2>1
    <3>2. ~Answered(i)
      BY <3>1
    <3>3. i \in Nat
      BY Looping DEF TypeOK
    <3> QED BY <3>1, <3>2, <3>3
  <2>3. Handshake(i, "work")'
    BY <1>0, <2>1, <2>2
  <2> QED BY <2>1, <2>3
<1>5. CASE Work(i)
  BY <1>0, <1>5 DEF Work
<1>6. CASE Complete(i)
  <2>1. /\ done'[i] = Append(done[i], got[i]) /\ UNCHANGED <<ready, start, iters, got>>
        /\ cpc[i] = "work" /\ cpc'[i] = "ready"
    BY <1>0, <1>6 DEF Complete, TypeOK
  <2> QED BY <1>0, <2>1
<1>7. CASE Help(i)
  <2>1. UNCHANGED <<start, ready, iters, got, done, cpc>>
    BY <1>7 DEF Help
  <2>2. PlacesOf(i)' = PlacesOf(i)
    BY <2>1
  <2>3. Handshake(i, place)'
    BY <1>0, <2>1
  <2> QED BY <2>2, <2>3
<1>8. CASE DieOfKill(i) \/ Crash(i)
  <2>1. place \in Places /\ cpc'[i] = "zombie"
    BY <1>0, <1>8 DEF DieOfKill, Crash, Alive
  <2>2. UNCHANGED <<ready, start, iters, got, done>>
    BY <1>8 DEF DieOfKill, Crash
  <2> QED BY <1>0, <2>1, <2>2
<1> QED BY <1>1, <1>2, <1>3, <1>4, <1>5, <1>6, <1>7, <1>8 DEF ProcStep

LEMMA NextHandshakeInv ==
  ASSUME TypeOK, ParentInv, UnbornInv, HandshakeInv, [Next]_vars
  PROVE  HandshakeInv'
<1> SUFFICES ASSUME NEW i \in Procs
             PROVE  \E q \in PlacesOf(i)' : Handshake(i, q)'
  BY DEF HandshakeInv
<1> PICK place \in PlacesOf(i) : Handshake(i, place)
  BY DEF HandshakeInv
<1>0. place \in Places
  BY DEF PlacesOf, Places, TypeOK
<1>1. CASE UNCHANGED vars
  BY <1>1 DEF vars, PlacesOf, Handshake, Answered, Asking
<1>2. CASE ParentStep \/ ParentMay
  BY <1>0, <1>2, ParentKeepsPlaces, ParentHandshake
<1>3. ASSUME NEW j \in Procs, ProcStep(j) \/ Help(j) \/ DieOfKill(j) \/ Crash(j)
      PROVE  \E q \in PlacesOf(i)' : Handshake(i, q)'
  <2>1. CASE j = i
    BY <1>3, <2>1, ProcHandshake
  <2>2. CASE j # i
    <3>1. /\ UNCHANGED <<ppc, cur, rounds>>
          /\ UNCHANGED <<iters[i], start[i], ready[i], cpc[i], got[i], done[i]>>
      BY <1>3, <2>2, ProcsLeaveParent DEF parentVars
    <3> QED BY <3>1 DEF PlacesOf, Handshake, Answered, Asking
  <2> QED BY <2>1, <2>2
<1> QED BY <1>1, <1>2, <1>3 DEF Next

-----------------------------------------------------------------------------
(* Errors and the drop.                                                    *)

Gone(i) == cpc[i] \in {"unborn", "reaped"}

\* What has not come to life yet, or has been reaped, stays so while the parent drops.
LEMMA GoneStaysGone ==
  ASSUME TypeOK, ParentInv, [Next]_vars, ppc \in Dropping, NEW i \in Procs
  PROVE  /\ ppc' \in Dropping /\ (Gone(i) => Gone(i)')
         /\ (cpc[i] = "reaped" => cpc'[i] = "reaped")
         /\ (Alive(i)' => Alive(i))
<1> USE DEF Gone, Dropping, Alive, Go
<1>1. CASE UNCHANGED vars
  BY <1>1 DEF vars
<1>2. CASE ParentStep
  <2>1. CASE Kill
    BY <2>1 DEF Kill, TypeOK
  <2>2. CASE Reap
    BY <2>2 DEF Reap, TypeOK
  <2>3. CASE RemoveCgroup
    BY <2>3 DEF RemoveCgroup
  <2> QED
    BY <1>2, <2>1, <2>2, <2>3 DEF ParentStep, Fork, ConsumeReady, SleepForReady,
      WaitTimeout, CheckAlive, StoreIters, ProduceStart, StopRunning
<1>3. CASE ParentMay
  BY <1>3 DEF ParentMay, CreateFails, BeginRound, Finish
<1>4. ASSUME NEW j \in Procs, ProcStep(j) \/ Help(j) \/ DieOfKill(j) \/ Crash(j)
      PROVE  /\ ppc' \in Dropping /\ (Gone(i) => Gone(i)')
             /\ (cpc[i] = "reaped" => cpc'[i] = "reaped")
             /\ (Alive(i)' => Alive(i))
  <2>1. ppc' = ppc
    BY <1>4, ProcsLeaveParent DEF parentVars
  <2>2. /\ (cpc[j] \in {"unborn", "reaped", "zombie"} => cpc'[j] = cpc[j])
    BY <1>4 DEF ProcStep, Setup, ProduceReady, ConsumeStart, SwapIters, Work, Complete,
      Help, DieOfKill, Crash, Jump
  <2>3. j # i => cpc'[i] = cpc[i]
    BY <1>4, ProcsLeaveParent
  <2> QED BY <2>1, <2>2, <2>3 DEF TypeOK
<1> QED BY <1>1, <1>2, <1>3, <1>4 DEF Next

LEMMA NextDropInv ==
  ASSUME TypeOK, ParentInv, DropInv, NoProcessLeft, [Next]_vars
  PROVE  DropInv' /\ NoProcessLeft'
<1> USE DEF DropInv, NoProcessLeft, Go
<1>0. /\ cur \in Procs /\ cur \in Nat /\ N \in Nat /\ 1 \in Procs /\ Procs \subseteq Nat \ {0}
      /\ ~(cur < N) => \A i \in Procs : i <= cur
  BY Looping DEF TypeOK
<1>1. CASE UNCHANGED vars
  BY <1>1 DEF vars
<1>2. CASE ppc \notin Dropping
  <2>1. ppc' \notin Dropping \/ (ppc' = "kill" /\ cur' = 1)
    <3>1. CASE ParentStep
      BY <1>2, <3>1 DEF ParentStep, Fork, ConsumeReady, SleepForReady, WaitTimeout,
        CheckAlive, StoreIters, ProduceStart, StopRunning, Kill, Reap, RemoveCgroup, Dropping
    <3>2. CASE ParentMay
      BY <1>2, <3>2 DEF ParentMay, CreateFails, BeginRound, Finish, Dropping
    <3>3. ASSUME NEW j \in Procs, ProcStep(j) \/ Help(j) \/ DieOfKill(j) \/ Crash(j)
          PROVE  ppc' = ppc
      BY <3>3, ProcsLeaveParent DEF parentVars
    <3> QED BY <1>1, <1>2, <3>1, <3>2, <3>3 DEF Next, vars
  <2> QED BY <1>0, <2>1 DEF Dropping
<1>3. CASE ppc \in Dropping /\ ~(UNCHANGED vars)
  <2>1. \A i \in Procs : Gone(i) => Gone(i)'
    BY <1>3, GoneStaysGone
  <2> USE DEF Gone
  <2>2. CASE Kill
    <3>1. ppc = "kill" /\ ppc' = "reap" /\ UNCHANGED <<cur, cgroups>>
      BY <2>2 DEF Kill, workVars
    <3> QED BY <2>1, <3>1
  <2>3. CASE Reap
    <3>1. ppc = "reap" /\ ppc' = "remove" /\ UNCHANGED <<cur, cgroups>> /\ Gone(cur)'
      BY <1>0, <2>3 DEF Reap, workVars, TypeOK
    <3>2. \A i \in Procs : i <= cur => i < cur \/ i = cur
      BY <1>0
    <3> QED BY <2>1, <3>1, <3>2
  <2>4. CASE RemoveCgroup
    <3>1. /\ ppc = "remove" /\ cgroups' = cgroups \ {cur}
          /\ \/ ppc' = "kill" /\ cur' = cur + 1
             \/ ppc' = "done" /\ \A i \in Procs : i <= cur
      BY <1>0, <2>4 DEF RemoveCgroup
    <3>2. \A i \in Procs : i < cur + 1 => i <= cur /\ (i < cur \/ i = cur)
      BY <1>0
    <3> QED BY <2>1, <3>1, <3>2
  <2>5. CASE \E j \in Procs : ProcStep(j) \/ Help(j) \/ DieOfKill(j) \/ Crash(j)
    <3>1. UNCHANGED <<ppc, cur, cgroups>>
      BY <2>5, ProcsLeaveParent DEF parentVars
    <3> QED BY <2>1, <3>1
  <2> QED
    BY <1>3, <2>2, <2>3, <2>4, <2>5 DEF Next, ParentStep, ParentMay, Dropping, Fork,
      ConsumeReady, SleepForReady, WaitTimeout, CheckAlive, StoreIters, ProduceStart,
      StopRunning, CreateFails, BeginRound, Finish
<1> QED BY <1>1, <1>2, <1>3

\* Only Fork brings a process to life, and only it and RemoveCgroup touch a cgroup.
LEMMA ForkMakesAlive ==
  ASSUME TypeOK, [Next]_vars, ~Fork, NEW i \in Procs
  PROVE  (Alive(i)' => Alive(i)) /\ (RemoveCgroup \/ cgroups' = cgroups)
<1> USE DEF Alive
<1>1. CASE UNCHANGED vars
  BY <1>1 DEF vars
<1>2. CASE ParentStep
  <2> USE DEF workVars
  <2>1. CASE CheckAlive
    BY <2>1 DEF CheckAlive, TypeOK
  <2>2. CASE Kill
    BY <2>2 DEF Kill, TypeOK
  <2>3. CASE Reap
    BY <2>3 DEF Reap, TypeOK
  <2>4. CASE cpc' = cpc /\ cgroups' = cgroups
    BY <2>4
  <2>5. CASE RemoveCgroup
    BY <2>5 DEF RemoveCgroup
  <2> QED
    BY <1>2, <2>1, <2>2, <2>3, <2>4, <2>5 DEF ParentStep, ConsumeReady, SleepForReady,
      WaitTimeout, StoreIters, ProduceStart, StopRunning
<1>3. CASE ParentMay
  BY <1>3 DEF ParentMay, CreateFails, BeginRound, Finish, workVars
<1>4. ASSUME NEW j \in Procs, ProcStep(j) \/ Help(j) \/ DieOfKill(j) \/ Crash(j)
      PROVE  (Alive(i)' => Alive(i)) /\ cgroups' = cgroups
  <2>1. cpc[j] \in {"unborn", "reaped", "zombie"} => cpc'[j] = cpc[j]
    BY <1>4 DEF ProcStep, Setup, ProduceReady, ConsumeStart, SwapIters, Work, Complete,
      Help, DieOfKill, Crash, Jump
  <2>2. cgroups' = cgroups /\ (j # i => cpc'[i] = cpc[i])
    BY <1>4, ProcsLeaveParent
  <2> QED BY <2>1, <2>2 DEF TypeOK
<1> QED BY <1>1, <1>2, <1>3, <1>4 DEF Next

LEMMA NextCgroups ==
  ASSUME TypeOK, ParentInv, DropInv, CgroupsOutliveProcesses, [Next]_vars
  PROVE  CgroupsOutliveProcesses'
<1>0. /\ cur \in Procs /\ Procs \subseteq Nat
      /\ ~(cur < N) => \A i \in Procs : i <= cur
  BY Looping DEF TypeOK
<1> USE DEF CgroupsOutliveProcesses
<1>1. CASE Fork
  <2>1. /\ ppc' = "wait" /\ cgroups' = cgroups \cup {cur}
        /\ \A i \in Procs \ {cur} : Alive(i)' <=> Alive(i)
    BY <1>1 DEF Fork, MakeCgroup, Go, Alive, TypeOK
  <2> QED BY <2>1
<1>2. CASE RemoveCgroup
  <2>1. /\ cgroups' = cgroups \ {cur} /\ ppc = "remove"
        /\ ppc' = "done" => \A i \in Procs : i <= cur
    BY <1>0, <1>2 DEF RemoveCgroup, Go
  <2>2. \A i \in Procs : Alive(i)' => Alive(i)
    BY <1>2, ForkMakesAlive DEF RemoveCgroup, Fork
  <2>3. ~Alive(cur)
    BY <1>0, <2>1 DEF DropInv, Alive
  <2>4. ppc' = "done" => cgroups' = {}
    <3>1. \A i \in cgroups : i \in Procs
      BY DEF TypeOK
    <3>2. \A i \in Procs : i < cur => i \notin cgroups
      BY <2>1 DEF DropInv
    <3>3. ppc' = "done" => \A i \in Procs : i = cur \/ i < cur
      BY <1>0, <2>1
    <3> QED BY <2>1, <3>1, <3>2, <3>3
  <2> QED BY <2>1, <2>2, <2>3, <2>4
<1>3. CASE ~Fork /\ ~RemoveCgroup
  <2>1. cgroups' = cgroups /\ \A i \in Procs : Alive(i)' => Alive(i)
    BY <1>0, <1>3, ForkMakesAlive
  <2>2. ppc' = "done" => ppc = "done"
    <3>1. CASE UNCHANGED vars
      BY <3>1 DEF vars
    <3>2. CASE ParentStep \/ ParentMay
      BY <1>3, <3>2 DEF ParentStep, ParentMay, Go, ConsumeReady, SleepForReady, WaitTimeout,
        CheckAlive, StoreIters, ProduceStart, StopRunning, Kill, Reap,
        CreateFails, BeginRound, Finish
    <3>3. CASE \E i \in Procs : ProcStep(i) \/ Help(i) \/ DieOfKill(i) \/ Crash(i)
      BY <3>3, ProcsLeaveParent DEF parentVars
    <3> QED BY <3>1, <3>2, <3>3 DEF Next
  <2> QED BY <2>1, <2>2
<1> QED BY <1>1, <1>2, <1>3

LEMMA NextErrorMeansDeath ==
  ASSUME TypeOK, ParentInv, ErrorMeansDeath, [Next]_vars
  PROVE  ErrorMeansDeath'
<1> USE DEF ErrorMeansDeath
<1>1. CASE failed
  <2>1. PICK i \in Procs \ killed : cpc[i] = "reaped"
    BY <1>1
  <2>2. ppc \in Dropping
    BY <1>1 DEF ParentInv
  <2>3. cpc'[i] = "reaped"
    BY <2>1, <2>2, GoneStaysGone
  <2>4. i \notin killed'
    <3>1. CASE Kill
      BY <2>1, <3>1 DEF Kill, Alive
    <3>2. CASE killed' = killed
      BY <2>1, <3>2
    <3> QED
      BY <3>1, <3>2, ProcsLeaveParent DEF Next, vars, ParentStep, ParentMay, Fork,
        ConsumeReady, SleepForReady, WaitTimeout, CheckAlive, StoreIters, ProduceStart,
        StopRunning, Reap, RemoveCgroup, CreateFails, BeginRound, Finish
  <2> QED BY <2>3, <2>4
<1>2. CASE ~failed /\ CheckAlive
  <2>1. killed = {} /\ killed' = {} /\ cur \in Procs
    BY <1>2 DEF CheckAlive, ParentInv, Dropping, TypeOK
  <2>2. failed' => cpc'[cur] = "reaped"
    BY <1>2, <2>1 DEF CheckAlive, TypeOK
  <2> QED BY <2>1, <2>2
<1>3. CASE ~failed /\ ~CheckAlive
  <2>1. failed' = failed
    BY <1>3, ProcsLeaveParent DEF Next, vars, parentVars, ParentStep, ParentMay, Fork,
      ConsumeReady, SleepForReady, WaitTimeout, StoreIters, ProduceStart,
      StopRunning, Kill, Reap, RemoveCgroup, CreateFails, BeginRound, Finish
  <2> QED BY <1>3, <2>1
<1> QED BY <1>1, <1>2, <1>3

LEMMA NextIInv ==
  ASSUME IInv, [Next]_vars
  PROVE  IInv'
BY NextTypeOK, NextInBody, NextParentInv, NextUnbornInv, NextHandshakeInv, NextDropInv,
   NextCgroups, NextErrorMeansDeath DEF IInv

\* Whatever the processes do, and however they end, IInv holds: it is inductive.
LEMMA Inductive == Spec => []IInv
BY InitIInv, NextIInv, PTL DEF Spec

-----------------------------------------------------------------------------
(* What follows.                                                           *)

\* The state keeps its types, and no semaphore passes its maximum.
THEOREM TypeCorrect == Spec => []TypeOK
BY Inductive, PTL DEF IInv

LEMMA AppendPrefix ==
  ASSUME NEW s \in Seq(Nat), NEW n \in Nat
  PROVE  IsPrefix(s, s) /\ IsPrefix(s, Append(s, n))
<1>1. Len(s) \in Nat /\ Append(s, n) \in Seq(Nat) /\ Len(Append(s, n)) = Len(s) + 1
  OBVIOUS
<1>2. SubSeq(s, 1, Len(s)) = SubSeq(Append(s, n), 1, Len(s))
  <2> DEFINE a == SubSeq(s, 1, Len(s))
             b == SubSeq(Append(s, n), 1, Len(s))
  <2>1. a \in Seq(Nat) /\ Len(a) = Len(s) /\ \A i \in 1 .. Len(s) : a[i] = s[i]
    BY SubSeqFull
  <2>2. /\ b \in Seq(Nat) /\ Len(b) = Len(s)
        /\ \A i \in 1 .. Len(s) : b[i] = Append(s, n)[i]
    <3>1. \A i \in 1 .. Len(s) : Append(s, n)[i] \in Nat
      BY <1>1
    <3> QED BY <1>1, <3>1, SubSeqProperties
  <2> HIDE DEF a, b
  <2>3. \A i \in 1 .. Len(s) : a[i] = b[i]
    BY <2>1, <2>2
  <2>4. a = b
    BY <2>1, <2>2, <2>3, SeqEqual
  <2> QED BY <2>4 DEF a, b
<1> QED BY <1>1, <1>2 DEF IsPrefix

LEMMA AgreementFollows ==
  ASSUME IInv
  PROVE  RoundAgreement
<1> SUFFICES ASSUME NEW i \in Procs
             PROVE  IsPrefix(done[i], rounds) /\ (ppc = "rest" => done[i] = rounds)
  BY DEF RoundAgreement
<1>1. PICK place \in PlacesOf(i) : Handshake(i, place)
  BY DEF IInv, HandshakeInv
<1>2. /\ done[i] \in Seq(Nat) /\ rounds \in Seq(Nat) /\ iters[i] \in Nat /\ got[i] \in Nat
      /\ start[i] \in 0 .. 1 /\ place \in Places /\ (rounds # <<>> => Last(rounds) \in Nat)
  BY LastRound DEF IInv, TypeOK, PlacesOf, Places
<1>3. done[i] = rounds \/ \E n \in Nat : rounds = Append(done[i], n)
  BY <1>1, <1>2 DEF Handshake, Places, Asking, IInv, ParentInv
<1>4. ppc = "rest" => done[i] = rounds
  BY <1>1, <1>2 DEF Handshake, Answered, Asking
<1> QED BY <1>2, <1>3, <1>4, AppendPrefix

\* Every process completes the rounds that the parent begins, in order, with the
\* iterations of that round and no other, and all of them before the parent goes on
\* (Context::start, Context::wait, get_iters), whichever of them die.
THEOREM RoundsAgree == Spec => []RoundAgreement
BY Inductive, AgreementFollows, PTL

LEMMA NeverFull ==
  ASSUME IInv
  PROVE  HandshakeNeverBlocks
<1>1. ASSUME ppc = "produce" PROVE start[cur] = 0
  <2>1. cur \in Procs /\ cur >= cur
    BY Looping DEF IInv, TypeOK
  <2> QED BY <1>1, <2>1 DEF IInv, HandshakeInv, Handshake, Answered
<1>2. ASSUME NEW i \in Procs, cpc[i] = "ready" PROVE ready[i] = 0
  <2>1. Handshake(i, "ready")
    BY <1>2 DEF IInv, HandshakeInv, PlacesOf
  <2>2. start[i] \in 0 .. 1 /\ ready[i] \in 0 .. 1 /\ start[i] + ready[i] <= 0
    BY <1>2, <2>1 DEF Handshake, IInv, TypeOK
  <2> QED BY <2>2
<1> QED BY <1>1, <1>2 DEF HandshakeNeverBlocks

\* The parent never finds start full, nor a process ready: neither hangs in the
\* handshake (Process::start, get_iters).
THEOREM HandshakeIsFree == Spec => []HandshakeNeverBlocks
BY Inductive, NeverFull, PTL

\* The running flag is up until the first process has stopped, and down between
\* rounds (Context::start, Context::wait).
THEOREM RunningFlag == Spec => []RunningUntilFirstStops
BY Inductive, PTL DEF IInv, ParentInv

\* An error is reported only of a process that died by itself (Process::wait).
THEOREM ErrorsAreTrue == Spec => []ErrorMeansDeath
BY Inductive, PTL DEF IInv

\* A Context that has been dropped leaves no process of the case, from whatever point
\* it is dropped (Process::join, Context).
THEOREM DropLeavesNoProcess == Spec => []NoProcessLeft
BY Inductive, PTL DEF IInv

\* ... and no cgroup, none of which goes before its process (Cgroup::drop).
THEOREM DropLeavesNoCgroup == Spec => []CgroupsOutliveProcesses
BY Inductive, PTL DEF IInv

-----------------------------------------------------------------------------
(* The workers' semaphores.                                                *)

\* How often process i has made the k-th call of its body in the last round begun.
Made(i, k) == Turns(i) + (IF cpc[i] = "work" /\ at[i] > k THEN 1 ELSE 0)

\* It waits for its second thread.
Half(i) == cpc[i] = "work" /\ at[i] = 2

LoopInv ==
  \A i \in Procs : cpc[i] = "work" =>
    /\ case.perIter[i] => left[i] <= got[i]
    /\ left[i] = 0 => at[i] = 1

\* What is on a semaphore is what was produced in this round and not yet consumed.
CountsInv(s) ==
  /\ (\A i \in Procs : UnusedBy(case, i, s)) => count[s] = 0
  /\ \A p, q \in Procs : \A k \in DOMAIN case.body[p], l \in DOMAIN case.body[q] :
       Paired(case, s, p, k, q, l) => count[s] = Made(p, k) - Made(q, l)
  /\ \A i \in Procs, t \in Sems : Echoed(case, s, t, i) =>
       count[s] + count[t] + (IF hat[i] = 2 THEN 1 ELSE 0) = IF Half(i) THEN 1 ELSE 0

DrainInv == LoopInv /\ (ppc \notin Dropping /\ ~Lost => \A s \in Sems : CountsInv(s))

\* How far a process is when it works, takes its iterations or rests.
LEMMA Standing ==
  ASSUME IInv, NEW i \in Procs
  PROVE  /\ cpc[i] = "work" => /\ rounds = Append(done[i], got[i]) /\ done[i] # rounds
                               /\ rounds # <<>> /\ Last(rounds) = got[i]
         /\ cpc[i] = "swap" => done[i] # rounds
         /\ ppc = "rest" => done[i] = rounds
         /\ rounds # <<>> => Last(rounds) \in Nat
<1>1. done[i] \in Seq(Nat) /\ rounds \in Seq(Nat) /\ got[i] \in Nat /\ iters[i] \in Nat
  BY DEF IInv, TypeOK
<1>2. \A n \in Nat : Append(done[i], n) # done[i]
  <2>1. \A n \in Nat : Len(Append(done[i], n)) = Len(done[i]) + 1 /\ Len(done[i]) \in Nat
    BY <1>1
  <2> QED BY <2>1
<1>3. cpc[i] = "work" => Handshake(i, "work")
  BY DEF IInv, HandshakeInv, PlacesOf
<1>4. cpc[i] = "swap" => Handshake(i, "swap")
  BY DEF IInv, HandshakeInv, PlacesOf
<1>5. cpc[i] = "work" => rounds = Append(done[i], got[i])
  BY <1>3 DEF Handshake
<1>6. cpc[i] = "swap" => rounds = Append(done[i], iters[i])
  BY <1>4 DEF Handshake
<1>7. ppc = "rest" => done[i] = rounds
  BY AgreementFollows DEF RoundAgreement
<1>8. Append(done[i], got[i]) # <<>> /\ Last(Append(done[i], got[i])) = got[i]
  BY <1>1, LastOfAppend
<1> QED BY <1>1, <1>2, <1>5, <1>6, <1>7, <1>8, LastRound

\* Only the drop follows the drop, and no process comes back from the dead: a round that
\* was lost before a step is lost after it.
LEMMA LostStays ==
  ASSUME IInv, Next, ppc' \notin Dropping, ~Lost'
  PROVE  ppc \notin Dropping /\ ~Lost
<1>1. TypeOK /\ ParentInv
  BY DEF IInv
<1>2. ppc \notin Dropping
  BY <1>1, GoneStaysGone, Looping DEF TypeOK
<1>3. ASSUME NEW i \in Procs, cpc[i] \in {"zombie", "reaped"}, done[i] # rounds
      PROVE  FALSE
  <2>1. CASE ParentStep \/ ParentMay
    <3>1. ~BeginRound
      BY <1>3, Standing DEF BeginRound
    <3>2. done' = done /\ rounds' = rounds
      BY <2>1, <3>1 DEF ParentStep, ParentMay, Fork, ConsumeReady, SleepForReady, WaitTimeout,
        CheckAlive, StoreIters, ProduceStart, StopRunning, Kill, Reap, RemoveCgroup,
        CreateFails, Finish, history
    <3>3. PlacesOf(i) \subseteq PlacesOf(i)'
      BY <1>1, <2>1, ParentKeepsPlaces DEF IInv
    <3>4. cpc'[i] \in {"zombie", "reaped"}
      BY <1>3, <3>3 DEF PlacesOf, Places
    <3> QED BY <1>3, <3>2, <3>4 DEF Lost
  <2>2. ASSUME NEW j \in Procs, ProcStep(j) \/ Help(j) \/ DieOfKill(j) \/ Crash(j)
        PROVE  FALSE
    <3>1. rounds' = rounds
      BY <1>1, <2>2, ProcsLeaveParent
    <3>2. CASE j # i
      <4>1. cpc'[i] = cpc[i] /\ done'[i] = done[i]
        BY <1>1, <2>2, <3>2, ProcsLeaveParent
      <4> QED BY <1>3, <3>1, <4>1 DEF Lost
    <3>3. CASE j = i
      <4>1. Help(i) => Alive(i)
        BY DEF Help
      <4> QED
        BY <1>3, <2>2, <3>3, <4>1 DEF ProcStep, Setup, ProduceReady, ConsumeStart, SwapIters,
          Work, Complete, DieOfKill, Crash, Alive
    <3> QED BY <3>2, <3>3
  <2> QED BY <2>1, <2>2 DEF Next
<1> QED BY <1>2, <1>3 DEF Lost

LEMMA NextLoopInv ==
  ASSUME IInv, LoopInv, Next
  PROVE  LoopInv'
<1>1. TypeOK
  BY DEF IInv
<1>2. CASE ParentStep \/ ParentMay
  <2>1. UNCHANGED <<case, got, left, at>>
    BY <1>2 DEF ParentStep, ParentMay, Fork, ConsumeReady, SleepForReady, WaitTimeout,
      CheckAlive, BeginRound, StoreIters, ProduceStart, StopRunning, Kill, Reap, RemoveCgroup,
      CreateFails, Finish, workVars
  <2>2. \A i \in Procs : cpc'[i] = "work" => cpc[i] = "work"
    BY <1>1, <1>2 DEF ParentStep, ParentMay, Fork, ConsumeReady, SleepForReady, WaitTimeout,
      CheckAlive, BeginRound, StoreIters, ProduceStart, StopRunning, Kill, Reap, RemoveCgroup,
      CreateFails, Finish, TypeOK
  <2> QED BY <2>1, <2>2 DEF LoopInv
<1>3. ASSUME NEW i \in Procs, ProcStep(i) \/ Help(i) \/ DieOfKill(i) \/ Crash(i)
      PROVE  LoopInv'
  <2>0. case' = case
    BY <1>3 DEF ProcStep, Help, DieOfKill, Crash
  <2> USE DEF Jump, workVars, TypeOK
  <2>1. CASE SwapIters(i)
    <3>1. \A j \in Procs \ {i} :
            cpc'[j] = cpc[j] /\ got'[j] = got[j] /\ left'[j] = left[j] /\ at'[j] = at[j]
      BY <1>1, <2>1 DEF SwapIters
    <3>2. /\ got'[i] = iters[i] /\ at'[i] = 1 /\ iters[i] \in Nat
          /\ case.perIter[i] => left'[i] = iters[i]
      BY <1>1, <2>1 DEF SwapIters
    <3> QED BY <2>0, <3>1, <3>2 DEF LoopInv
  <2>2. CASE Work(i)
    <3>1. case' = case /\ cpc' = cpc /\ got' = got /\ cpc[i] = "work" /\ left[i] > 0
      BY <2>0, <2>2 DEF Work
    <3>2. \A j \in Procs \ {i} : left'[j] = left[j] /\ at'[j] = at[j]
      BY <1>1, <2>2 DEF Work
    <3>3. /\ left[i] \in Nat /\ left'[i] \in {left[i], left[i] - 1} /\ got[i] \in Nat
          /\ left'[i] = 0 => at'[i] = 1
      BY <1>1, <2>2, <3>1 DEF Work
    <3>4. case.perIter[i] => left'[i] <= got[i]
      BY <3>1, <3>3 DEF LoopInv
    <3> QED BY <3>1, <3>2, <3>3, <3>4 DEF LoopInv
  <2>3. CASE Setup(i) \/ ProduceReady(i) \/ ConsumeStart(i) \/ Complete(i) \/ Help(i)
             \/ DieOfKill(i) \/ Crash(i)
    <3>1. UNCHANGED <<case, got, left, at>>
      BY <1>3, <2>3 DEF Setup, ProduceReady, ConsumeStart, Complete, Help, DieOfKill, Crash,
        ProcStep
    <3>2. \A j \in Procs : cpc'[j] = "work" => cpc[j] = "work"
      BY <1>1, <2>3 DEF Setup, ProduceReady, ConsumeStart, Complete, Help, DieOfKill, Crash
    <3> QED BY <3>1, <3>2 DEF LoopInv
  <2> QED BY <1>3, <2>1, <2>2, <2>3 DEF ProcStep
<1> QED BY <1>2, <1>3 DEF Next

\* A step that shows nothing to the workers' semaphores.
Quiet ==
  /\ UNCHANGED <<case, count, hat>>
  /\ \A i \in Procs : case.body[i] # <<>> =>
       /\ Half(i)' = Half(i)
       /\ case.perIter[i] => \A k \in DOMAIN case.body[i] : Made(i, k)' = Made(i, k)

LEMMA QuietKeepsCounts ==
  ASSUME TypeOK, Quiet, NEW s \in Sems, CountsInv(s)
  PROVE  CountsInv(s)'
<1>1. ASSUME NEW i \in Procs, NEW k \in DOMAIN case.body[i]
      PROVE  case.body[i] # <<>>
  OBVIOUS
<1>2. ASSUME NEW i \in Procs, NEW t \in Sems, Echoed(case, s, t, i)
      PROVE  case.body[i] # <<>>
  BY <1>2 DEF Echoed
<1>3. ASSUME NEW p \in Procs, NEW q \in Procs, NEW k \in DOMAIN case.body[p],
             NEW l \in DOMAIN case.body[q], Paired(case, s, p, k, q, l)
      PROVE  count'[s] = Made(p, k)' - Made(q, l)'
  <2>1. case.perIter[p] /\ case.perIter[q]
    BY <1>3 DEF Paired
  <2>2. case.body[p] # <<>> /\ case.body[q] # <<>>
    BY <1>1
  <2>3. Made(p, k)' = Made(p, k) /\ Made(q, l)' = Made(q, l) /\ count' = count
    BY <2>1, <2>2 DEF Quiet
  <2>4. count[s] = Made(p, k) - Made(q, l)
    BY <1>3 DEF CountsInv
  <2> QED BY <2>3, <2>4
<1>4. ASSUME NEW i \in Procs, NEW t \in Sems, Echoed(case, s, t, i)
      PROVE  count'[s] + count'[t] + (IF hat'[i] = 2 THEN 1 ELSE 0) = IF Half(i)' THEN 1 ELSE 0
  BY <1>2, <1>4 DEF Quiet, CountsInv
<1>5. (\A i \in Procs : UnusedBy(case, i, s)) => count'[s] = 0
  BY DEF Quiet, CountsInv
<1>6. case' = case
  BY DEF Quiet
<1> QED BY <1>3, <1>4, <1>5, <1>6 DEF CountsInv

\* The parent keeps its hands off the workers' semaphores.
LEMMA ParentIsQuiet ==
  ASSUME IInv, ParentStep \/ ParentMay, ~BeginRound, ppc' \notin Dropping
  PROVE  Quiet
<1>1. UNCHANGED <<case, count, hat, done, rounds, got, left, at>>
  BY DEF ParentStep, ParentMay, Fork, ConsumeReady, SleepForReady, WaitTimeout, CheckAlive,
    StoreIters, ProduceStart, StopRunning, Kill, Reap, RemoveCgroup, CreateFails, Finish,
    workVars, history
<1>2. \A i \in Procs : cpc'[i] = "work" <=> cpc[i] = "work"
  <2>1. CASE Fork
    <3>1. cpc[cur] = "unborn"
      BY <2>1 DEF Fork, IInv, ParentInv, UnbornInv, Dropping, TypeOK
    <3> QED BY <2>1, <3>1 DEF Fork, IInv, TypeOK
  <2>2. CASE CheckAlive
    BY <2>2 DEF CheckAlive, Alive, Go, Dropping, IInv, TypeOK
  <2>3. CASE cpc' = cpc
    BY <2>3
  <2> QED
    BY <2>1, <2>2, <2>3 DEF ParentStep, ParentMay, ConsumeReady, SleepForReady, WaitTimeout,
      StoreIters, ProduceStart, StopRunning, Kill, Reap, RemoveCgroup, CreateFails, Finish,
      Dropping, Go
<1> QED BY <1>1, <1>2 DEF Quiet, Half, Made, Turns

\* When a round begins each process has made as many calls as any other: none is left.
LEMMA BeginKeepsCounts ==
  ASSUME IInv, ParentMay, BeginRound, NEW s \in Sems, CountsInv(s)
  PROVE  CountsInv(s)'
<1>1. ppc = "rest" /\ UNCHANGED <<case, count, hat, done, cpc>>
  BY DEF ParentMay, BeginRound
<1>2. PICK n \in Nat : rounds' = Append(rounds, n)
  BY CaseShape DEF BeginRound, IInv
<1>3. ASSUME NEW i \in Procs
      PROVE  cpc[i] # "work" /\ done[i] = rounds /\ done'[i] # rounds'
  <2>1. rounds' # rounds
    <3>1. rounds \in Seq(Nat)
      BY DEF IInv, TypeOK
    <3>2. Len(rounds') = Len(rounds) + 1 /\ Len(rounds) \in Nat
      BY <1>2, <3>1
    <3> QED BY <3>2
  <2> QED BY <1>1, <2>1, Standing
<1> DEFINE base == IF rounds # <<>> THEN Last(rounds) ELSE 0
<1>4. base \in Nat
  BY LastRound DEF IInv, TypeOK
<1>5. \A i \in Procs : Turns(i) = base /\ Turns(i)' = 0 /\ ~Half(i) /\ ~Half(i)'
  BY <1>1, <1>3 DEF Turns, Half
<1> HIDE DEF base
<1>6. \A i \in Procs : \A k \in DOMAIN case.body[i] : Made(i, k) = base /\ Made(i, k)' = 0
  BY <1>1, <1>3, <1>4, <1>5 DEF Made
<1> QED BY <1>1, <1>4, <1>5, <1>6 DEF CountsInv

\* Taking the iterations, completing them, and every step without calls, are quiet too.
LEMMA ProcIsQuiet ==
  ASSUME IInv, LoopInv, NEW i \in Procs, ProcStep(i) \/ DieOfKill(i) \/ Crash(i), ~Work(i),
         ~Lost'
  PROVE  Quiet
<1>1. TypeOK
  BY DEF IInv
<1>2. UNCHANGED <<case, count, hat, rounds>>
  BY DEF ProcStep, Setup, ProduceReady, ConsumeStart, SwapIters, Complete, DieOfKill, Crash,
    history
<1>3. \A j \in Procs \ {i} : UNCHANGED <<cpc[j], got[j], left[j], at[j], done[j]>>
  BY <1>1 DEF ProcStep, Setup, ProduceReady, ConsumeStart, SwapIters, Complete, DieOfKill,
    Crash, workVars, history, Jump, TypeOK
<1>4. ASSUME NEW j \in Procs \ {i}
      PROVE  Half(j)' = Half(j) /\ \A k \in DOMAIN case.body[j] : Made(j, k)' = Made(j, k)
  BY <1>2, <1>3 DEF Half, Made, Turns
<1>5. ASSUME case.body[i] # <<>>
      PROVE  /\ Half(i)' = Half(i)
             /\ case.perIter[i] => \A k \in DOMAIN case.body[i] : Made(i, k)' = Made(i, k)
  <2>1. CASE Setup(i) \/ ProduceReady(i) \/ ConsumeStart(i)
    <3>1. UNCHANGED <<got, left, at, done>> /\ cpc[i] # "work" /\ cpc'[i] # "work"
      BY <1>1, <2>1 DEF Setup, ProduceReady, ConsumeStart, Jump, workVars, history, TypeOK
    <3> QED BY <1>2, <3>1 DEF Half, Made, Turns
  <2>2. CASE SwapIters(i)
    <3>1. cpc[i] = "swap" /\ cpc'[i] = "work" /\ at'[i] = 1 /\ got'[i] = iters[i]
          /\ iters[i] \in Nat /\ (case.perIter[i] => left'[i] = iters[i])
      BY <1>1, <2>2 DEF SwapIters, Jump, TypeOK
    <3>2. done[i] # rounds
      BY <3>1, Standing
    <3>3. case.body[i] \in Seq(Op)
      BY <1>1, CaseShape
    <3>4. ASSUME case.perIter[i], NEW k \in DOMAIN case.body[i]
          PROVE  Made(i, k) = 0 /\ Made(i, k)' = 0
      <4>1. k \in Nat \ {0}
        BY <3>3
      <4>2. ~(at'[i] > k)
        BY <3>1, <4>1
      <4>3. Turns(i) = 0 /\ Turns(i)' = 0
        BY <3>1, <3>2, <3>4 DEF Turns
      <4> QED BY <3>1, <4>2, <4>3 DEF Made
    <3> QED BY <3>1, <3>4 DEF Half
  <2>3. CASE Complete(i)
    <3>1. cpc[i] = "work" /\ cpc'[i] = "ready" /\ left[i] = 0 /\ got[i] \in Nat
          /\ done'[i] = Append(done[i], got[i])
      BY <1>1, <1>5, <2>3 DEF Complete, Jump, TypeOK
    <3>2. at[i] = 1
      BY <3>1 DEF LoopInv
    <3>3. done'[i] = rounds' /\ rounds' # <<>> /\ Last(rounds') = got[i]
      BY <1>2, <3>1, Standing
    <3>4. case.body[i] \in Seq(Op)
      BY <1>1, CaseShape
    <3>5. ASSUME NEW k \in DOMAIN case.body[i]
          PROVE  Made(i, k) = got[i] /\ Made(i, k)' = got[i]
      <4>1. k \in Nat \ {0}
        BY <3>4
      <4>2. ~(at[i] > k)
        BY <3>2, <4>1
      <4>3. Turns(i) = got[i] /\ Turns(i)' = got[i]
        BY <3>1, <3>3 DEF Turns
      <4> QED BY <3>1, <4>2, <4>3 DEF Made
    <3> QED BY <3>1, <3>2, <3>5 DEF Half
  <2>4. CASE DieOfKill(i) \/ Crash(i)
    <3>1. UNCHANGED <<got, left, at, done>> /\ cpc'[i] = "zombie"
      BY <1>1, <2>4 DEF DieOfKill, Crash, Jump, workVars, history, TypeOK
    <3>2. done[i] = rounds
      BY <1>2, <3>1 DEF Lost
    <3>3. cpc[i] # "work"
      BY <3>2, Standing
    <3> QED BY <1>2, <3>1, <3>3 DEF Half, Made, Turns
  <2> QED BY <2>1, <2>2, <2>3, <2>4 DEF ProcStep
<1> QED BY <1>2, <1>4, <1>5 DEF Quiet

LEMMA TurnsType ==
  ASSUME IInv, NEW i \in Procs
  PROVE  Turns(i) \in Int
<1>1. got[i] \in Nat /\ left[i] \in Nat /\ (rounds # <<>> => Last(rounds) \in Nat)
  BY Standing DEF IInv, TypeOK
<1> QED BY <1>1 DEF Turns

LEMMA MadeType ==
  ASSUME IInv, NEW i \in Procs, NEW k \in Nat
  PROVE  Made(i, k) \in Int
BY TurnsType DEF Made

\* A process that works makes its next call once more, and no other.
LEMMA WorkMakes ==
  ASSUME IInv, NEW i \in Procs, Work(i), case' = case
  PROVE  /\ UNCHANGED <<hat, rounds, done, cpc>>
         /\ \A j \in Procs \ {i} : Half(j)' = Half(j)
              /\ \A k \in DOMAIN case.body[j] : Made(j, k)' = Made(j, k)
         /\ \A k \in DOMAIN case.body[i] :
              Made(i, k)' = Made(i, k) + IF k = at[i] THEN 1 ELSE 0
         /\ at[i] \in DOMAIN case.body[i] /\ case.body[i][at[i]] \in Op
         /\ Half(i) <=> at[i] = 2
         /\ Half(i)' <=> at[i] = 1 /\ Len(case.body[i]) # 1
<1>1. TypeOK /\ InBody /\ case.body[i] \in Seq(Op)
  BY CaseShape DEF IInv
<1>2. /\ cpc[i] = "work" /\ left[i] > 0 /\ case.body[i] # <<>>
      /\ UNCHANGED <<hat, rounds, done, cpc, got>>
  BY DEF Work, history
<1>3. at[i] \in 1 .. Len(case.body[i]) /\ case.body[i][at[i]] \in Op
  BY <1>1, <1>2, NextCalls DEF InBody
<1>4. \A j \in Procs \ {i} : at'[j] = at[j] /\ left'[j] = left[j]
  BY <1>1 DEF Work, TypeOK
<1>5. \A j \in Procs \ {i} : Half(j)' = Half(j)
        /\ \A k \in DOMAIN case.body[j] : Made(j, k)' = Made(j, k)
  BY <1>2, <1>4 DEF Half, Made, Turns
<1>6. /\ at[i] < Len(case.body[i]) => at'[i] = at[i] + 1 /\ left'[i] = left[i]
      /\ ~(at[i] < Len(case.body[i])) => at'[i] = 1 /\ left'[i] = left[i] - 1
  BY <1>1 DEF Work, TypeOK
<1>7. got[i] \in Nat /\ left[i] \in Nat /\ Len(case.body[i]) \in Nat
  BY <1>1 DEF TypeOK
<1>8. ASSUME NEW k \in DOMAIN case.body[i]
      PROVE  Made(i, k)' = Made(i, k) + IF k = at[i] THEN 1 ELSE 0
  <2>1. k \in 1 .. Len(case.body[i])
    BY <1>1
  <2>2. Made(i, k) = got[i] - left[i] + (IF at[i] > k THEN 1 ELSE 0)
    BY <1>2 DEF Made, Turns
  <2>3. Made(i, k)' = got[i] - left'[i] + (IF at'[i] > k THEN 1 ELSE 0)
    BY <1>2 DEF Made, Turns
  <2> QED BY <1>3, <1>6, <1>7, <2>1, <2>2, <2>3
<1>9. (Half(i) <=> at[i] = 2) /\ (Half(i)' <=> at'[i] = 2)
  BY <1>2 DEF Half
<1>10. at'[i] = 2 <=> at[i] = 1 /\ Len(case.body[i]) # 1
  <2> DEFINE last == Len(case.body[i])
  <2>1. at[i] \in 1 .. last /\ last \in Nat
    BY <1>3, <1>7
  <2>2. (at[i] < last => at'[i] = at[i] + 1) /\ (~(at[i] < last) => at'[i] = 1)
    BY <1>6
  <2> HIDE DEF last
  <2>3. at'[i] = 2 <=> at[i] = 1 /\ last # 1
    BY <2>1, <2>2
  <2> QED BY <2>3 DEF last
<1> QED BY <1>1, <1>2, <1>3, <1>5, <1>8, <1>9, <1>10

LEMMA WorkKeepsCounts ==
  ASSUME IInv, NEW i \in Procs, Work(i), case' = case, NEW s \in Sems, CountsInv(s)
  PROVE  CountsInv(s)'
<1> DEFINE call == case.body[i][at[i]]
           n == IF call.all THEN got[i] ELSE 1
<1>1. TypeOK /\ count \in [Sems -> Nat] /\ call \in Op /\ call.sem \in Sems
  BY WorkMakes DEF IInv, TypeOK, Op
<1>2. at[i] \in CallsOn(case.body[i], call.sem)
  BY WorkMakes DEF CallsOn
<1>3. /\ \A u \in Sems \ {call.sem} : count'[u] = count[u]
      /\ call.op = "produce" => count'[call.sem] = count[call.sem] + n
      /\ call.op # "produce" => count'[call.sem] = count[call.sem] - n
  BY <1>1 DEF Work, Perform
<1>4. ASSUME \A j \in Procs : UnusedBy(case, j, s)
      PROVE  count'[s] = 0
  <2>1. call.sem # s
    BY <1>2, <1>4 DEF UnusedBy
  <2> QED BY <1>3, <1>4, <2>1 DEF CountsInv
<1>5. ASSUME NEW p \in Procs, NEW q \in Procs, NEW k \in DOMAIN case.body[p],
             NEW l \in DOMAIN case.body[q], Paired(case, s, p, k, q, l)
      PROVE  count'[s] = Made(p, k)' - Made(q, l)'
  <2>1. count[s] = Made(p, k) - Made(q, l)
    BY <1>5 DEF CountsInv
  <2>2. /\ case.body[p][k] = Token("produce", s) /\ case.body[q][l] = Token("consume", s)
        /\ \A m \in CallsOn(case.body[i], s) : <<i, m>> \in {<<p, k>>, <<q, l>>}
    BY <1>5 DEF Paired
  <2>3. Made(p, k) \in Int /\ Made(q, l) \in Int
    <3>1. case.body[p] \in Seq(Op) /\ case.body[q] \in Seq(Op)
      BY <1>1, CaseShape
    <3>2. k \in Nat /\ l \in Nat
      BY <3>1
    <3> QED BY <3>2, MadeType
  <2>4. /\ Made(p, k)' = Made(p, k) + IF <<p, k>> = <<i, at[i]>> THEN 1 ELSE 0
        /\ Made(q, l)' = Made(q, l) + IF <<q, l>> = <<i, at[i]>> THEN 1 ELSE 0
    BY <2>3, WorkMakes
  <2>5. CASE <<p, k>> = <<i, at[i]>>
    <3>1. call = Token("produce", s) /\ <<q, l>> # <<i, at[i]>>
      BY <2>2, <2>5 DEF Token
    <3>2. count'[s] = count[s] + 1
      BY <1>3, <3>1 DEF Token
    <3> HIDE DEF call
    <3> QED BY <2>1, <2>3, <2>4, <2>5, <3>1, <3>2
  <2>6. CASE <<q, l>> = <<i, at[i]>>
    <3>1. call = Token("consume", s) /\ <<p, k>> # <<i, at[i]>>
      BY <2>2, <2>6 DEF Token
    <3>2. count'[s] = count[s] - 1
      BY <1>3, <3>1 DEF Token
    <3> HIDE DEF call
    <3> QED BY <2>1, <2>3, <2>4, <2>6, <3>1, <3>2
  <2>7. CASE <<p, k>> # <<i, at[i]>> /\ <<q, l>> # <<i, at[i]>>
    <3>1. call.sem # s
      BY <1>2, <2>2, <2>7
    <3>2. count'[s] = count[s]
      BY <1>3, <3>1
    <3> QED BY <2>1, <2>3, <2>4, <2>7, <3>2
  <2> QED BY <2>5, <2>6, <2>7
<1>6. ASSUME NEW j \in Procs, NEW t \in Sems, Echoed(case, s, t, j)
      PROVE  count'[s] + count'[t] + (IF hat'[j] = 2 THEN 1 ELSE 0) = IF Half(j)' THEN 1 ELSE 0
  <2>1. count[s] + count[t] + (IF hat[j] = 2 THEN 1 ELSE 0) = IF Half(j) THEN 1 ELSE 0
    BY <1>6 DEF CountsInv
  <2>2. count[s] \in Nat /\ count[t] \in Nat /\ hat' = hat
    BY <1>1, WorkMakes
  <2>3. CASE i # j
    <3>1. UnusedBy(case, i, s) /\ UnusedBy(case, i, t)
      BY <1>6, <2>3 DEF Echoed
    <3>2. call.sem \notin {s, t}
      BY <1>2, <3>1 DEF UnusedBy
    <3>3. count'[s] = count[s] /\ count'[t] = count[t] /\ Half(j)' = Half(j)
      BY <1>3, <2>3, <3>2, WorkMakes
    <3> QED BY <2>1, <2>2, <3>3
  <2>4. CASE i = j
    <3>1. s # t /\ case.body[i] = <<Token("produce", s), Token("consume", t)>>
      BY <1>6, <2>4 DEF Echoed
    <3>2. Len(case.body[i]) = 2 /\ at[i] \in {1, 2}
      BY <3>1, WorkMakes
    <3>3. CASE at[i] = 1
      <4>1. call = Token("produce", s)
        BY <3>1, <3>3
      <4>2. count'[s] = count[s] + 1 /\ count'[t] = count[t]
        BY <1>3, <3>1, <4>1 DEF Token
      <4>3. ~Half(i) /\ Half(i)'
        BY <3>2, <3>3, WorkMakes
      <4> QED BY <2>1, <2>2, <2>4, <4>2, <4>3
    <3>4. CASE at[i] = 2
      <4>1. call = Token("consume", t)
        BY <3>1, <3>4
      <4>2. count'[t] = count[t] - 1 /\ count'[s] = count[s]
        BY <1>3, <3>1, <4>1 DEF Token
      <4>3. Half(i) /\ ~Half(i)'
        BY <3>2, <3>4, WorkMakes
      <4> QED BY <2>1, <2>2, <2>4, <4>2, <4>3
    <3> QED BY <3>2, <3>3, <3>4
  <2> QED BY <2>3, <2>4
<1> QED BY <1>4, <1>5, <1>6 DEF CountsInv

LEMMA HelpKeepsCounts ==
  ASSUME IInv, NEW i \in Procs, Help(i), NEW s \in Sems, CountsInv(s)
  PROVE  CountsInv(s)'
<1> DEFINE call == case.helper[i][hat[i]]
<1>1. TypeOK /\ count \in [Sems -> Nat] /\ case.helper[i] \in Seq(Op)
      /\ hat[i] \in 1 .. Len(case.helper[i])
  BY CaseShape DEF IInv, InBody, TypeOK, Help
<1>2. call \in Op /\ call.sem \in Sems /\ hat[i] \in CallsOn(case.helper[i], call.sem)
  <2>1. call \in Op /\ hat[i] \in DOMAIN case.helper[i]
    BY <1>1
  <2> QED BY <2>1 DEF Op, CallsOn
<1>3. /\ \A u \in Sems \ {call.sem} : count'[u] = count[u]
      /\ call.op = "produce" => count'[call.sem] = count[call.sem] + 1
      /\ call.op # "produce" => count'[call.sem] = count[call.sem] - 1
  BY <1>1, <1>2 DEF Help, Perform
<1>4. UNCHANGED <<case, cpc, got, left, at, rounds, done>>
  BY DEF Help, workVars, history
<1>5. \A j \in Procs : Half(j)' = Half(j) /\ \A k : Made(j, k)' = Made(j, k)
  BY <1>4 DEF Half, Made, Turns
<1>6. ASSUME CallsOn(case.helper[i], s) = {}
      PROVE  call.sem # s /\ count'[s] = count[s]
  <2>1. call.sem # s
    BY <1>2, <1>6
  <2> QED BY <1>3, <2>1
<1>7. ASSUME \A j \in Procs : UnusedBy(case, j, s)
      PROVE  count'[s] = 0
  BY <1>6, <1>7 DEF UnusedBy, CountsInv
<1>8. ASSUME NEW p \in Procs, NEW q \in Procs, NEW k \in DOMAIN case.body[p],
             NEW l \in DOMAIN case.body[q], Paired(case, s, p, k, q, l)
      PROVE  count'[s] = Made(p, k)' - Made(q, l)'
  <2>1. CallsOn(case.helper[i], s) = {}
    BY <1>8 DEF Paired
  <2>2. count'[s] = count[s] /\ count[s] = Made(p, k) - Made(q, l)
    BY <1>6, <1>8, <2>1 DEF CountsInv
  <2> QED BY <1>5, <2>2
<1>9. ASSUME NEW j \in Procs, NEW t \in Sems, Echoed(case, s, t, j)
      PROVE  count'[s] + count'[t] + (IF hat'[j] = 2 THEN 1 ELSE 0) = IF Half(j)' THEN 1 ELSE 0
  <2>1. count[s] + count[t] + (IF hat[j] = 2 THEN 1 ELSE 0) = IF Half(j) THEN 1 ELSE 0
    BY <1>9 DEF CountsInv
  <2>2. count[s] \in Nat /\ count[t] \in Nat
    BY <1>1
  <2>3. CASE i # j
    <3>1. CallsOn(case.helper[i], s) = {} /\ CallsOn(case.helper[i], t) = {}
      BY <1>9, <2>3 DEF Echoed, UnusedBy
    <3>2. call.sem \notin {s, t}
      BY <1>2, <3>1
    <3>3. count'[s] = count[s] /\ count'[t] = count[t] /\ hat'[j] = hat[j]
      BY <1>1, <1>3, <2>3, <3>2 DEF Help, TypeOK
    <3> QED BY <1>5, <2>1, <2>2, <3>3
  <2>4. CASE i = j
    <3>1. s # t /\ case.helper[i] = <<Token("consume", s), Token("produce", t)>>
      BY <1>9, <2>4 DEF Echoed
    <3>2. Len(case.helper[i]) = 2 /\ hat[i] \in {1, 2} /\ hat'[i] = 1 + (hat[i] % 2)
      <4>1. Len(case.helper[i]) = 2
        BY <3>1
      <4>2. hat'[i] = 1 + (hat[i] % Len(case.helper[i]))
        BY <1>1 DEF Help, TypeOK
      <4> QED BY <1>1, <4>1, <4>2
    <3>3. CASE hat[i] = 1
      <4>1. call = Token("consume", s)
        BY <3>1, <3>3
      <4>2. count'[s] = count[s] - 1 /\ count'[t] = count[t]
        BY <1>3, <3>1, <4>1 DEF Token
      <4>3. hat'[i] = 2
        BY <3>2, <3>3
      <4> HIDE DEF call
      <4> QED BY <1>5, <2>1, <2>2, <2>4, <3>3, <4>2, <4>3
    <3>4. CASE hat[i] = 2
      <4>1. call = Token("produce", t)
        BY <3>1, <3>4
      <4>2. count'[t] = count[t] + 1 /\ count'[s] = count[s]
        BY <1>3, <3>1, <4>1 DEF Token
      <4>3. hat'[i] = 1
        BY <3>2, <3>4
      <4> HIDE DEF call
      <4> QED BY <1>5, <2>1, <2>2, <2>4, <3>4, <4>2, <4>3
    <3> QED BY <3>2, <3>3, <3>4
  <2> QED BY <2>3, <2>4
<1> QED BY <1>4, <1>7, <1>8, <1>9 DEF CountsInv

LEMMA InitDrainInv == Init => DrainInv
<1> SUFFICES ASSUME Init PROVE DrainInv
  OBVIOUS
<1>1. \A i \in Procs : cpc[i] = "unborn" /\ done[i] = <<>> /\ rounds = <<>> /\ hat[i] = 1
  BY DEF Init
<1>2. \A i \in Procs : ~Half(i) /\ \A k : Made(i, k) = 0
  BY <1>1 DEF Half, Made, Turns
<1>3. \A s \in Sems : count[s] = 0
  BY DEF Init
<1> QED BY <1>1, <1>2, <1>3 DEF DrainInv, LoopInv, CountsInv

LEMMA NextDrainInv ==
  ASSUME IInv, DrainInv, [Next]_vars
  PROVE  DrainInv'
<1>1. CASE UNCHANGED vars
  BY <1>1 DEF DrainInv, LoopInv, CountsInv, Dropping, Lost, Made, Half, Turns, vars
<1>2. CASE Next
  <2>1. LoopInv'
    BY <1>2, NextLoopInv DEF DrainInv
  <2>2. ASSUME ppc' \notin Dropping, ~Lost', NEW s \in Sems
        PROVE  CountsInv(s)'
    <3>1. TypeOK /\ LoopInv /\ CountsInv(s)
      BY <1>2, <2>2, LostStays DEF DrainInv, IInv
    <3>2. CASE BeginRound /\ ParentMay
      BY <3>1, <3>2, BeginKeepsCounts
    <3>3. CASE (ParentStep \/ ParentMay) /\ ~BeginRound
      BY <2>2, <3>1, <3>3, ParentIsQuiet, QuietKeepsCounts
    <3>4. CASE ParentStep /\ BeginRound
      BY <3>1, <3>4, BeginKeepsCounts DEF ParentStep, ParentMay
    <3>5. ASSUME NEW i \in Procs, ProcStep(i) \/ Help(i) \/ DieOfKill(i) \/ Crash(i)
          PROVE  CountsInv(s)'
      <4>1. CASE Help(i)
        BY <3>1, <4>1, HelpKeepsCounts
      <4>2. CASE ProcStep(i) /\ Work(i)
        BY <3>1, <4>2, WorkKeepsCounts DEF ProcStep
      <4>3. CASE (ProcStep(i) \/ DieOfKill(i) \/ Crash(i)) /\ ~Work(i)
        BY <2>2, <3>1, <4>3, ProcIsQuiet, QuietKeepsCounts
      <4>4. CASE (DieOfKill(i) \/ Crash(i)) /\ Work(i)
        BY <3>1, <4>4, WorkKeepsCounts DEF DieOfKill, Crash
      <4> QED BY <3>5, <4>1, <4>2, <4>3, <4>4
    <3> QED BY <1>2, <3>2, <3>3, <3>4, <3>5 DEF Next
  <2> QED BY <2>1, <2>2 DEF DrainInv
<1> QED BY <1>1, <1>2

\* At rest every process has made all its calls, so that those on a semaphore cancel out.
LEMMA DrainFollows ==
  ASSUME IInv, DrainInv, \A c \in Cases : Balanced(c)
  PROVE  SemaphoresDrained
<1> SUFFICES ASSUME ppc = "rest", NEW s \in Sems
             PROVE  count[s] = 0
  BY DEF SemaphoresDrained
<1>1. TypeOK /\ case \in Cases /\ count \in [Sems -> Nat]
  BY DEF IInv, TypeOK
<1>2. \A i \in Procs : done[i] = rounds /\ cpc[i] # "work"
  BY Standing
<1>3. \A u \in Sems : CountsInv(u)
  BY <1>2 DEF DrainInv, Lost, Dropping
<1> DEFINE base == IF rounds # <<>> THEN Last(rounds) ELSE 0
<1>4. base \in Nat
  BY <1>1, LastRound DEF TypeOK
<1>5. \A i \in Procs : Turns(i) = base /\ ~Half(i)
  BY <1>2 DEF Turns, Half
<1> HIDE DEF base
<1>6. \A i \in Procs : \A k : Made(i, k) = base
  BY <1>2, <1>4, <1>5 DEF Made
<1>7. CASE \A i \in Procs : UnusedBy(case, i, s)
  BY <1>3, <1>7 DEF CountsInv
<1>8. ASSUME NEW p \in Procs, NEW q \in Procs, NEW k \in DOMAIN case.body[p],
             NEW l \in DOMAIN case.body[q], Paired(case, s, p, k, q, l)
      PROVE  count[s] = 0
  <2>1. count[s] = Made(p, k) - Made(q, l)
    BY <1>3, <1>8 DEF CountsInv
  <2> QED BY <1>4, <1>6, <2>1
<1>9. ASSUME NEW i \in Procs, NEW t \in Sems, NEW u \in Sems, Echoed(case, t, u, i)
      PROVE  count[t] = 0 /\ count[u] = 0
  <2>1. count[t] + count[u] + (IF hat[i] = 2 THEN 1 ELSE 0) = 0
    BY <1>3, <1>5, <1>9 DEF CountsInv
  <2>2. count[t] \in Nat /\ count[u] \in Nat
    BY <1>1
  <2> QED BY <2>1, <2>2
<1>10. Balanced(case)
  BY <1>1
<1> QED BY <1>7, <1>8, <1>9, <1>10 DEF Balanced

\* Whatever the timing and whoever dies, the workers' semaphores are empty between the
\* rounds of a case in which every token has its taker (cases/basic.rs ping_pong,
\* cases/latency.rs adaptive_priority).
THEOREM RoundsDrain ==
  ASSUME \A c \in Cases : Balanced(c)
  PROVE  Spec => []SemaphoresDrained
<1>1. IInv /\ DrainInv /\ [Next]_vars => DrainInv'
  BY NextDrainInv
<1>2. IInv /\ DrainInv => SemaphoresDrained
  BY DrainFollows
<1> QED BY <1>1, <1>2, InitDrainInv, Inductive, PTL DEF Spec

\* One that takes k's tokens has made no more calls than the other, and a call belongs to
\* the iteration behind a process or to the one it is in: p is at most one ahead of q.
LEMMA TakerFollows ==
  ASSUME IInv, NEW s \in Sems, CountsInv(s), NEW p \in Procs, NEW q \in Procs,
         NEW k \in DOMAIN case.body[p], NEW l \in DOMAIN case.body[q],
         Paired(case, s, p, k, q, l)
  PROVE  Turns(q) <= Turns(p) + 1
<1>1. count[s] \in Nat
  BY DEF IInv, TypeOK
<1>2. count[s] = Made(p, k) - Made(q, l)
  BY DEF CountsInv
<1>3. Turns(p) \in Int /\ Turns(q) \in Int
  BY TurnsType
<1>4. Made(p, k) \in Int /\ Made(p, k) <= Turns(p) + 1
  BY <1>3 DEF Made
<1>5. Made(q, l) \in Int /\ Turns(q) <= Made(q, l)
  BY <1>3 DEF Made
<1> QED BY <1>1, <1>2, <1>3, <1>4, <1>5

LEMMA StepFollows ==
  ASSUME IInv, DrainInv
  PROVE  InStep
<1> SUFFICES ASSUME ppc \notin Dropping, ~Lost, NEW p \in Procs, NEW q \in Procs,
                    Partners(p, q)
             PROVE  Turns(p) - Turns(q) \in -1 .. 1
  BY DEF InStep
<1>1. \A s \in Sems : CountsInv(s)
  BY DEF DrainInv
<1>2. Turns(q) <= Turns(p) + 1
  BY <1>1, TakerFollows DEF Partners
<1>3. Turns(p) <= Turns(q) + 1
  BY <1>1, TakerFollows DEF Partners
<1>4. Turns(p) \in Int /\ Turns(q) \in Int
  BY TurnsType
<1> QED BY <1>2, <1>3, <1>4

\* Two processes that wake each other, as those of cases/basic.rs ping_pong, are never more
\* than one iteration apart in a round that is not lost, whatever the limits of their
\* semaphores and the cases beside theirs.
THEOREM WorkInStep == Spec => []InStep
<1>1. IInv /\ DrainInv /\ [Next]_vars => DrainInv'
  BY NextDrainInv
<1>2. IInv /\ DrainInv => InStep
  BY StepFollows
<1> QED BY <1>1, <1>2, InitDrainInv, Inductive, PTL DEF Spec
=============================================================================
