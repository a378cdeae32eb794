---------------------------- MODULE ChildProofs -----------------------------
(***************************************************************************)
(* What every step on child processes keeps, whatever program makes it,    *)
(* for any processes, handles, owners and causes of failure.               *)
(***************************************************************************)
EXTENDS Child, TLAPS

-----------------------------------------------------------------------------
(* The invariant of the handles.                                           *)

\* How the process of h ended, as its exit status and the pipe tell it.
Tells(h, code, message) ==
  IF code # "0" THEN [who |-> h, how |-> code]
  ELSE IF message = Unset THEN Ok ELSE message

Told(h) == Tells(h, fate[h], pipe[h])

\* Status and pipe tell the truth about a process that has ended, and nothing
\* about one that has not.
Recorded(h) ==
  /\ Dead(h) => fate[h] # "none" /\ truth[h] = Told(h)
  /\ ~Dead(h) => truth[h] = Unset /\ pipe[h] = Unset

\* A result is the truth, and taken from a process whose status was taken.
Reported(h) ==
  /\ call[h] = "read" \/ result[h] # Unset => status[h] = "reaped"
  /\ result[h] # Unset => result[h] = truth[h]

HandleInv == \A h \in Handles : Recorded(h) /\ Reported(h)

\* A step of ChildOutcome for h, or none.
HonestStep(h) ==
  \/ UNCHANGED <<truth[h], result[h]>>
  \/ truth[h] = Unset /\ truth'[h] \in Outcomes /\ UNCHANGED result[h]
  \/ truth[h] # Unset /\ result[h] = Unset /\ result'[h] = truth[h] /\ UNCHANGED truth[h]

ChildStepOK == ChildTypeOK' /\ HandleInv' /\ \A h \in Handles : HonestStep(h)

LEMMA InitChild ==
  ASSUME NEW first \in Pids, ChildInit(first)
  PROVE  ChildTypeOK /\ HandleInv
<1>1. ChildTypeOK
  BY DEF ChildInit, ChildTypeOK, Places
<1>2. \A h \in Handles : ~Dead(h)
  BY ChildAssumption DEF ChildInit, Dead
<1> QED BY <1>1, <1>2 DEF ChildInit, HandleInv, Recorded, Reported

LEMMA Codes ==
  ASSUME NEW h \in Handles, NEW how \in {"code", "signal"}
  PROVE  [who |-> h, how |-> how] \in Failure
BY DEF Failure

LEMMA TellsOutcome ==
  ASSUME NEW h \in Handles, NEW code \in {"0", "code", "signal"},
         NEW message \in Failure \cup {Unset}
  PROVE  Tells(h, code, message) \in Outcomes /\ Tells(h, code, message) # Unset
<1>1. code # "0" => [who |-> h, how |-> code] \in Failure
  BY Codes
<1>2. Tells(h, code, message) \in Outcomes
  BY <1>1 DEF Tells, Outcomes
<1> QED BY <1>2, ChildAssumption

-----------------------------------------------------------------------------
(* A process ends.                                                         *)

\* All that fall have run; they, and no others, are dead after it, and no zombie
\* of the namespace is left.
LEMMA ExitEffect ==
  ASSUME ChildTypeOK, NEW p \in Pids, Running(p),
         NEW how \in {"0", "code", "signal"}, Exit(p, how)
  PROVE  /\ Fallen(p) \subseteq Pids /\ \A q \in Fallen(p) : Running(q)
         /\ \A q \in Fallen(p) : Dead(q)' /\ fate'[q] = IF q = p THEN how ELSE "signal"
         /\ \A q \in Pids \ Fallen(p) :
              /\ fate'[q] = fate[q]
              /\ \/ status'[q] = status[q]
                 \/ status[q] = "zombie" /\ status'[q] = "reaped"
         /\ \A q \in Pids \ {p} : space[q] = p => ~Running(q)' /\ status'[q] # "zombie"
<1> DEFINE nobody(q) ==
             /\ parent[q] = p
             /\ ~(reaper[p] # Kernel /\ Running(reaper[p]))
<1>1. Fallen(p) \subseteq Pids /\ (\A q \in Fallen(p) : Running(q)) /\ p \in Fallen(p)
  BY DEF Fallen
<1>2. \A q \in Pids \ {p} :
        status'[q] = IF \/ q \in Fallen(p)
                        \/ status[q] = "zombie" /\ (space[q] = p \/ nobody(q))
                     THEN "reaped" ELSE status[q]
  BY DEF Exit
<1>3. status'[p] \in {"reaped", "zombie"}
  BY DEF Exit
<1>4. \A q \in Pids : fate'[q] = IF q = p THEN how
                                 ELSE IF q \in Fallen(p) THEN "signal" ELSE fate[q]
  BY DEF Exit
<1> HIDE DEF nobody
<1>5. \A q \in Fallen(p) : Dead(q)' /\ fate'[q] = IF q = p THEN how ELSE "signal"
  BY <1>1, <1>2, <1>3, <1>4 DEF Dead
<1>6. \A q \in Pids \ Fallen(p) :
        /\ fate'[q] = fate[q]
        /\ \/ status'[q] = status[q]
           \/ status[q] = "zombie" /\ status'[q] = "reaped"
  BY <1>1, <1>2, <1>4
<1>7. \A q \in Pids \ {p} : space[q] = p => ~Running(q)' /\ status'[q] # "zombie"
  BY <1>2 DEF Fallen, Running
<1> QED BY <1>1, <1>5, <1>6, <1>7

LEMMA ExitType ==
  ASSUME ChildTypeOK, NEW p \in Pids, NEW how \in {"0", "code", "signal"}, Exit(p, how)
  PROVE  /\ status' \in [Pids -> {"none", "running", "zombie", "reaped"}]
         /\ fate' \in [Pids -> {"none", "0", "code", "signal"}]
         /\ parent' \in [Pids -> Pids \cup {Kernel}]
         /\ killed' \subseteq Pids /\ writers' \in [Handles -> SUBSET Pids]
         /\ UNCHANGED <<space, reaper, subreapers, armed, result, call>>
<1>1. status' \in [Pids -> {"none", "running", "zombie", "reaped"}]
  BY DEF Exit, ChildTypeOK
<1>2. fate' \in [Pids -> {"none", "0", "code", "signal"}]
  BY DEF Exit, ChildTypeOK
<1>3. parent' \in [Pids -> Pids \cup {Kernel}]
  BY DEF Exit, ChildTypeOK
<1>4. killed' \subseteq Pids /\ writers' \in [Handles -> SUBSET Pids]
  BY DEF Exit, ChildTypeOK
<1>5. UNCHANGED <<space, reaper, subreapers, armed, result, call>>
  BY DEF Exit, handleVars
<1> QED BY <1>1, <1>2, <1>3, <1>4, <1>5

\* Whoever falls is recorded as the status and the pipe tell it.
LEMMA FallKeeps ==
  ASSUME ChildTypeOK, HandleInv,
         NEW p \in Pids, Running(p), NEW how \in {"0", "code", "signal"}, Exit(p, how),
         pipe' \in [Handles -> Failure \cup {Unset}],
         truth' \in [Handles -> Outcomes \cup {Unset}],
         \A h \in Handles : IF h \in Fallen(p) THEN truth'[h] = Told(h)'
                            ELSE truth'[h] = truth[h] /\ pipe'[h] = pipe[h]
  PROVE  ChildStepOK
<1>1. ChildTypeOK'
  BY ExitType DEF ChildTypeOK
<1>2. UNCHANGED <<result, call>>
  BY ExitType
<1>3. ASSUME NEW h \in Handles
      PROVE  Recorded(h)' /\ Reported(h)' /\ HonestStep(h)
  <2>1. h \in Pids /\ Recorded(h) /\ Reported(h)
    BY ChildAssumption DEF HandleInv
  <2>2. CASE h \in Fallen(p)
    <3>1. Running(h) /\ Dead(h)' /\ fate'[h] \in {"0", "code", "signal"}
      BY <2>2, ExitEffect
    <3>2. ~Dead(h) /\ status[h] # "reaped"
      BY <3>1 DEF Running, Dead
    <3>3. truth[h] = Unset /\ result[h] = Unset /\ call[h] # "read"
      BY <2>1, <3>2 DEF Recorded, Reported
    <3>4. truth'[h] = Told(h)' /\ truth'[h] \in Outcomes
      <4>1. truth'[h] = Told(h)' /\ pipe'[h] \in Failure \cup {Unset}
        BY <2>2
      <4> QED BY <3>1, <4>1, TellsOutcome DEF Told
    <3>5. Recorded(h)'
      BY <3>1, <3>4 DEF Recorded
    <3>6. Reported(h)'
      BY <1>2, <3>3 DEF Reported
    <3>7. HonestStep(h)
      BY <1>2, <3>3, <3>4 DEF HonestStep
    <3> QED BY <3>5, <3>6, <3>7
  <2>3. CASE h \notin Fallen(p)
    <3>1. /\ fate'[h] = fate[h] /\ truth'[h] = truth[h] /\ pipe'[h] = pipe[h]
          /\ status'[h] = status[h] \/ (status[h] = "zombie" /\ status'[h] = "reaped")
      BY <2>1, <2>3, ExitEffect
    <3>2. (Dead(h)' <=> Dead(h)) /\ (status[h] = "reaped" => status'[h] = "reaped")
      BY <3>1 DEF Dead
    <3>3. Told(h)' = Told(h)
      BY <3>1 DEF Told
    <3>4. Recorded(h)'
      BY <2>1, <3>1, <3>2, <3>3 DEF Recorded
    <3>5. Reported(h)'
      BY <1>2, <2>1, <3>1, <3>2 DEF Reported
    <3>6. HonestStep(h)
      BY <1>2, <3>1 DEF HonestStep
    <3> QED BY <3>4, <3>5, <3>6
  <2> QED BY <2>2, <2>3
<1> QED BY <1>1, <1>3 DEF ChildStepOK, HandleInv

LEMMA EndWithKeeps ==
  ASSUME ChildTypeOK, HandleInv,
         NEW p \in Pids, NEW how \in {"0", "code", "signal"}, EndWith(p, how)
  PROVE  ChildStepOK
<1>1. Running(p) /\ Exit(p, how) /\ pipe' = pipe
  BY DEF EndWith
<1>2. pipe' \in [Handles -> Failure \cup {Unset}]
  BY <1>1 DEF ChildTypeOK
<1>3. ASSUME NEW h \in Handles
      PROVE  /\ truth'[h] \in Outcomes \cup {Unset}
             /\ IF h \in Fallen(p) THEN truth'[h] = Told(h)'
                ELSE truth'[h] = truth[h] /\ pipe'[h] = pipe[h]
  <2>1. truth'[h] = IF h \notin Fallen(p) THEN truth[h]
                    ELSE IF h = p /\ how = "0" THEN Ok
                    ELSE [who |-> h, how |-> IF h = p THEN how ELSE "signal"]
    BY DEF EndWith
  <2>2. CASE h \notin Fallen(p)
    BY <1>1, <2>1, <2>2 DEF ChildTypeOK
  <2>3. CASE h \in Fallen(p)
    <3>1. Running(h) /\ fate'[h] = IF h = p THEN how ELSE "signal"
      BY <1>1, <2>3, ExitEffect
    <3>2. pipe'[h] = Unset
      BY <1>1, <3>1 DEF HandleInv, Recorded, Running, Dead
    <3>3. truth'[h] = Told(h)'
      BY <2>1, <2>3, <3>1, <3>2 DEF Told, Tells
    <3>4. truth'[h] \in Outcomes
      BY <2>1, <2>3, Codes DEF Outcomes
    <3> QED BY <2>3, <3>3, <3>4
  <2> QED BY <2>2, <2>3
<1>4. truth' \in [Handles -> Outcomes \cup {Unset}]
  <2>1. truth' = [h \in Handles |-> truth'[h]]
    BY DEF EndWith
  <2> QED BY <1>3, <2>1
<1> QED BY <1>1, <1>2, <1>3, <1>4, FallKeeps

LEMMA ReturnKeeps ==
  ASSUME ChildTypeOK, HandleInv,
         NEW p \in Handles, NEW outcome \in Outcomes, Return(p, outcome)
  PROVE  ChildStepOK
<1>1. Running(p) /\ Exit(p, "0") /\ p \in Pids
  BY ChildAssumption DEF Return
<1>2. /\ pipe' = [pipe EXCEPT ![p] = IF outcome = Ok THEN @ ELSE outcome]
      /\ pipe[p] = Unset /\ outcome # Unset /\ Ok # Unset
  <2>1. pipe[p] = Unset
    BY <1>1 DEF HandleInv, Recorded, Running, Dead
  <2> QED BY <2>1, ChildAssumption DEF Return, Outcomes
<1>3. /\ pipe' \in [Handles -> Failure \cup {Unset}]
      /\ pipe'[p] = IF outcome = Ok THEN Unset ELSE outcome
      /\ \A h \in Handles \ {p} : pipe'[h] = pipe[h]
  BY <1>2 DEF ChildTypeOK, Outcomes
<1>4. ASSUME NEW h \in Handles
      PROVE  /\ truth'[h] \in Outcomes \cup {Unset}
             /\ IF h \in Fallen(p) THEN truth'[h] = Told(h)'
                ELSE truth'[h] = truth[h] /\ pipe'[h] = pipe[h]
  <2>1. truth'[h] = IF h = p THEN outcome
                    ELSE IF h \in Fallen(p) THEN [who |-> h, how |-> "signal"] ELSE truth[h]
    BY DEF Return
  <2>2. CASE h \notin Fallen(p)
    <3>1. h # p
      BY <2>2 DEF Fallen
    <3> QED BY <1>3, <2>1, <2>2, <3>1 DEF ChildTypeOK
  <2>3. CASE h \in Fallen(p)
    <3>1. Running(h) /\ fate'[h] = IF h = p THEN "0" ELSE "signal"
      BY <1>1, <2>3, ExitEffect
    <3>2. truth'[h] = Told(h)'
      BY <1>2, <1>3, <2>1, <2>3, <3>1 DEF Told, Tells
    <3>3. truth'[h] \in Outcomes
      BY <2>1, <2>3, Codes DEF Outcomes
    <3> QED BY <2>3, <3>2, <3>3
  <2> QED BY <2>2, <2>3
<1>5. truth' \in [Handles -> Outcomes \cup {Unset}]
  <2>1. truth' = [h \in Handles |-> truth'[h]]
    BY DEF Return
  <2> QED BY <1>4, <2>1
<1> QED BY <1>1, <1>3, <1>4, <1>5, FallKeeps

-----------------------------------------------------------------------------
(* Everything else: nobody ends.                                           *)

LEMMA NobodyEnds ==
  ASSUME ChildTypeOK, HandleInv, ChildTypeOK',
         UNCHANGED <<fate, pipe, truth>>,
         \A h \in Handles :
           /\ (Dead(h)' <=> Dead(h)) /\ (status[h] = "reaped" => status'[h] = "reaped")
           /\ call'[h] = "read" => call[h] = "read" \/ status'[h] = "reaped"
           /\ result'[h] = result[h] \/ (call[h] = "read" /\ result'[h] = Told(h))
  PROVE  ChildStepOK
<1>1. ASSUME NEW h \in Handles
      PROVE  Recorded(h)' /\ Reported(h)' /\ HonestStep(h)
  <2>1. Recorded(h) /\ Reported(h)
    BY DEF HandleInv
  <2>2. Told(h)' = Told(h)
    BY DEF Told
  <2>3. Recorded(h)'
    BY <2>1, <2>2 DEF Recorded
  <2>4. CASE result'[h] = result[h]
    BY <2>1, <2>3, <2>4 DEF Reported, HonestStep
  <2>5. CASE call[h] = "read" /\ result'[h] = Told(h)
    <3>1. status[h] = "reaped" /\ truth[h] = Told(h) /\ fate[h] # "none"
      BY <2>1, <2>5 DEF Reported, Recorded, Dead
    <3>2. truth[h] # Unset
      <4>1. /\ fate[h] \in {"0", "code", "signal"} /\ pipe[h] \in Failure \cup {Unset}
        BY <3>1, ChildAssumption DEF ChildTypeOK
      <4> QED BY <3>1, <4>1, TellsOutcome DEF Told
    <3>3. result'[h] = truth[h] /\ (result[h] = Unset \/ result[h] = truth[h])
      BY <2>1, <2>5, <3>1 DEF Reported
    <3> QED BY <2>3, <3>1, <3>2, <3>3 DEF Reported, HonestStep
  <2> QED BY <2>4, <2>5
<1> QED BY <1>1 DEF ChildStepOK, HandleInv

\* A new process, with or without a Child.
LEMMA BornEffect ==
  ASSUME ChildTypeOK, NEW p \in Pids, NEW q \in Pids, NEW mother \in Pids \cup {Kernel},
         NEW newpid \in BOOLEAN, status[q] = "none", Born(p, q, mother, newpid)
  PROVE  /\ status' \in [Pids -> {"none", "running", "zombie", "reaped"}]
         /\ parent' \in [Pids -> Pids \cup {Kernel}]
         /\ space' \in [Pids -> Pids \cup {Kernel}]
         /\ reaper' \in [Pids -> Pids \cup {Kernel}]
         /\ UNCHANGED <<fate, subreapers, armed, killed>>
         /\ \A r \in Pids : (Dead(r)' <=> Dead(r)) /\ (status[r] = "reaped" => status'[r] = "reaped")
         /\ Inherited(p, q) \in [Handles -> SUBSET Pids]
<1>1. ReaperFor(p) \in Pids \cup {Kernel}
  BY DEF ReaperFor, ChildTypeOK
<1>2. space' \in [Pids -> Pids \cup {Kernel}]
  BY DEF Born, ChildTypeOK
<1>3. reaper' \in [Pids -> Pids \cup {Kernel}]
  BY <1>1 DEF Born, ChildTypeOK
<1>4. /\ status' \in [Pids -> {"none", "running", "zombie", "reaped"}]
      /\ parent' \in [Pids -> Pids \cup {Kernel}]
      /\ UNCHANGED <<fate, subreapers, armed, killed>>
  BY DEF Born, ChildTypeOK
<1>5. \A r \in Pids : (Dead(r)' <=> Dead(r)) /\ (status[r] = "reaped" => status'[r] = "reaped")
  BY DEF Born, ChildTypeOK, Dead
<1>6. Inherited(p, q) \in [Handles -> SUBSET Pids]
  BY DEF Inherited, ChildTypeOK
<1> QED BY <1>2, <1>3, <1>4, <1>5, <1>6

LEMMA ForkPlainKeeps ==
  ASSUME ChildTypeOK, HandleInv, NEW p \in Pids, NEW q \in Pids, ForkPlain(p, q)
  PROVE  ChildStepOK
<1>1. ReaperFor(p) \in Pids \cup {Kernel}
  BY DEF ReaperFor, ChildTypeOK
<1>2. PICK mother \in Pids \cup {Kernel} : Born(p, q, mother, FALSE)
  BY <1>1 DEF ForkPlain
<1>3. status[q] = "none" /\ writers' = Inherited(p, q)
      /\ UNCHANGED <<pipe, result, call, truth>>
  BY DEF ForkPlain, handleVars
<1>4. ChildTypeOK'
  BY <1>2, <1>3, BornEffect DEF ChildTypeOK
<1>5. /\ UNCHANGED fate
      /\ \A r \in Pids : (Dead(r)' <=> Dead(r))
                         /\ (status[r] = "reaped" => status'[r] = "reaped")
  BY <1>2, <1>3, BornEffect
<1> QED BY <1>3, <1>4, <1>5, NobodyEnds, ChildAssumption

LEMMA CloneKeeps ==
  ASSUME ChildTypeOK, HandleInv, NEW h \in Handles, NEW newpid \in BOOLEAN,
         Clone(h, newpid)
  PROVE  ChildStepOK
<1>1. h \in Pids /\ Owner[h] \in Pids
  BY ChildAssumption
<1>2. /\ Born(Owner[h], h, Owner[h], newpid) /\ status[h] = "none"
      /\ writers' = [Inherited(Owner[h], h) EXCEPT ![h] = {h, Owner[h]}]
      /\ call' = [call EXCEPT ![h] = "close"]
      /\ UNCHANGED <<pipe, result, truth>>
  BY DEF Clone
<1>3. /\ status' \in [Pids -> {"none", "running", "zombie", "reaped"}]
      /\ parent' \in [Pids -> Pids \cup {Kernel}]
      /\ space' \in [Pids -> Pids \cup {Kernel}]
      /\ reaper' \in [Pids -> Pids \cup {Kernel}]
      /\ UNCHANGED <<fate, subreapers, armed, killed>>
      /\ \A r \in Pids : (Dead(r)' <=> Dead(r))
                         /\ (status[r] = "reaped" => status'[r] = "reaped")
      /\ Inherited(Owner[h], h) \in [Handles -> SUBSET Pids]
  BY <1>1, <1>2, BornEffect
<1>4. writers' \in [Handles -> SUBSET Pids]
  BY <1>1, <1>2, <1>3
<1>5. call' \in [Handles -> Places] /\ \A g \in Handles : call'[g] = "read" => call[g] = "read"
  BY <1>2 DEF ChildTypeOK, Places
<1>6. ChildTypeOK'
  BY <1>2, <1>3, <1>4, <1>5 DEF ChildTypeOK
<1> QED BY <1>2, <1>3, <1>5, <1>6, NobodyEnds, ChildAssumption

LEMMA ExecOkKeeps ==
  ASSUME ChildTypeOK, HandleInv, NEW p \in Pids, ExecOk(p)
  PROVE  ChildStepOK
<1>1. writers' \in [Handles -> SUBSET Pids]
  BY DEF ExecOk, ChildTypeOK
<1>2. UNCHANGED <<status, fate, parent, space, reaper, subreapers, armed, killed,
                  pipe, result, call, truth>>
  BY DEF ExecOk, kernelVars, handleVars
<1>3. ChildTypeOK'
  BY <1>1, <1>2 DEF ChildTypeOK
<1>4. \A h \in Handles : Dead(h)' <=> Dead(h)
  BY <1>2 DEF Dead
<1> QED BY <1>2, <1>3, <1>4, NobodyEnds

\* What a step of a call does that leaves the kernel's side as it is.
LEMMA CallOnly ==
  ASSUME ChildTypeOK, HandleInv, NEW h \in Handles,
         UNCHANGED <<status, fate, parent, space, reaper, subreapers, armed, pipe, truth>>,
         killed' \subseteq Pids, writers' \in [Handles -> SUBSET Pids],
         result' \in [Handles -> Outcomes \cup {Unset}],
         NEW place \in Places, call' = [call EXCEPT ![h] = place],
         place = "read" => call[h] = "read",
         \A g \in Handles :
           result'[g] = result[g] \/ (call[g] = "read" /\ result'[g] = Told(g))
  PROVE  ChildStepOK
<1>1. call' \in [Handles -> Places] /\ \A g \in Handles : call'[g] = "read" => call[g] = "read"
  BY DEF ChildTypeOK
<1>2. ChildTypeOK'
  BY <1>1 DEF ChildTypeOK
<1>3. \A g \in Handles : Dead(g)' <=> Dead(g)
  BY DEF Dead
<1> QED BY <1>1, <1>2, <1>3, NobodyEnds

LEMMA InvokeKeeps ==
  ASSUME ChildTypeOK, HandleInv, NEW h \in Handles, NEW op \in Waiting, Invoke(h, op)
  PROVE  ChildStepOK
<1>1. UNCHANGED <<status, fate, parent, space, reaper, subreapers, armed, killed,
                  pipe, writers, result, truth>>
  BY DEF Invoke, kernelVars
<1>2. PICK place \in {op, "none"} : call' = [call EXCEPT ![h] = place]
  BY DEF Invoke
<1>3. place \in Places /\ place # "read"
  BY DEF Waiting, Places
<1>4. /\ killed' \subseteq Pids /\ writers' \in [Handles -> SUBSET Pids]
      /\ result' \in [Handles -> Outcomes \cup {Unset}]
  BY <1>1 DEF ChildTypeOK
<1> QED BY <1>1, <1>2, <1>3, <1>4, CallOnly

LEMMA CallStepKeeps ==
  ASSUME ChildTypeOK, HandleInv, NEW h \in Handles, CallStep(h)
  PROVE  ChildStepOK
<1>1. /\ killed \subseteq Pids /\ writers \in [Handles -> SUBSET Pids]
      /\ result \in [Handles -> Outcomes \cup {Unset}] /\ h \in Pids
  BY ChildAssumption DEF ChildTypeOK
<1>2. CASE CloseWrite(h)
  <2>1. /\ UNCHANGED <<status, fate, parent, space, reaper, subreapers, armed, killed,
                       pipe, result, truth>>
        /\ call' = [call EXCEPT ![h] = "none"]
        /\ writers' = [writers EXCEPT ![h] = @ \ {Owner[h]}]
    BY <1>2 DEF CloseWrite, kernelVars
  <2>2. writers' \in [Handles -> SUBSET Pids]
    BY <1>1, <2>1
  <2>3. "none" \in Places /\ "none" # "read"
    BY DEF Places
  <2> QED BY <1>1, <2>1, <2>2, <2>3, CallOnly
<1>3. CASE WaitPid(h)
  <2>1. PICK p \in Pids :
          /\ status[p] = "zombie" /\ status' = [status EXCEPT ![p] = "reaped"]
          /\ call' = [call EXCEPT ![h] = IF p = h THEN "read" ELSE @]
    BY <1>3 DEF WaitPid
  <2>2. UNCHANGED <<fate, parent, space, reaper, subreapers, armed, killed, pipe,
                    writers, result, truth>>
    BY <1>3 DEF WaitPid
  <2>3. /\ status' \in [Pids -> {"none", "running", "zombie", "reaped"}]
        /\ \A q \in Pids : (Dead(q)' <=> Dead(q))
                           /\ (status[q] = "reaped" => status'[q] = "reaped")
    BY <2>1 DEF ChildTypeOK, Dead
  <2>4. /\ call' \in [Handles -> Places]
        /\ \A g \in Handles : call'[g] = "read" => call[g] = "read" \/ status'[g] = "reaped"
    BY <1>1, <2>1 DEF ChildTypeOK, Places
  <2>5. ChildTypeOK'
    BY <2>2, <2>3, <2>4 DEF ChildTypeOK
  <2> QED BY <2>2, <2>3, <2>4, <2>5, NobodyEnds, ChildAssumption
<1>4. CASE StillAlive(h)
  <2>1. UNCHANGED <<status, fate, parent, space, reaper, subreapers, armed, killed,
                    pipe, writers, result, truth>>
    BY <1>4 DEF StillAlive, kernelVars
  <2>2. PICK place \in {"send", "none"} : call' = [call EXCEPT ![h] = place]
    BY <1>4 DEF StillAlive
  <2>3. place \in Places /\ place # "read"
    BY DEF Places
  <2> QED BY <1>1, <2>1, <2>2, <2>3, CallOnly
<1>5. CASE ReadPipe(h)
  <2>1. /\ UNCHANGED <<status, fate, parent, space, reaper, subreapers, armed, killed,
                       pipe, writers, truth>>
        /\ call[h] = "read" /\ call' = [call EXCEPT ![h] = "none"]
        /\ result' = [result EXCEPT ![h] = Told(h)]
    BY <1>5 DEF ReadPipe, kernelVars, Told, Tells
  <2>2. fate[h] \in {"0", "code", "signal"} /\ pipe[h] \in Failure \cup {Unset}
    BY <1>1, <2>1 DEF HandleInv, Reported, Recorded, Dead, ChildTypeOK
  <2>3. Told(h) \in Outcomes
    BY <2>2, TellsOutcome DEF Told
  <2>4. /\ result' \in [Handles -> Outcomes \cup {Unset}]
        /\ \A g \in Handles : result'[g] = result[g] \/ (call[g] = "read" /\ result'[g] = Told(g))
    BY <1>1, <2>1, <2>3
  <2>5. "none" \in Places /\ "none" # "read"
    BY DEF Places
  <2> QED BY <1>1, <2>1, <2>4, <2>5, CallOnly
<1>6. CASE SendKill(h)
  <2>1. /\ UNCHANGED <<status, fate, parent, space, reaper, subreapers, armed, pipe,
                       writers, result, truth>>
        /\ killed' = killed \cup {h} /\ call' = [call EXCEPT ![h] = "none"]
    BY <1>6 DEF SendKill
  <2>2. "none" \in Places /\ "none" # "read"
    BY DEF Places
  <2> QED BY <1>1, <2>1, <2>2, CallOnly
<1> QED BY <1>2, <1>3, <1>4, <1>5, <1>6 DEF CallStep

\* A step of the program that is none of the child processes'.
LEMMA StutterKeeps ==
  ASSUME ChildTypeOK, HandleInv, UNCHANGED childVars
  PROVE  ChildStepOK
<1>1. UNCHANGED <<status, fate, parent, space, reaper, subreapers, armed, killed,
                  pipe, writers, result, call, truth>>
  BY DEF childVars
<1>2. ChildTypeOK' /\ \A h \in Handles : Dead(h)' <=> Dead(h)
  BY <1>1 DEF ChildTypeOK, Dead
<1> QED BY <1>1, <1>2, NobodyEnds
=============================================================================
