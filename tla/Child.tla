-------------------------------- MODULE Child --------------------------------
(***************************************************************************)
(* Child processes as src/src/util/child.rs handles them, over what the    *)
(* kernel does with processes: statuses, parents and reapers, PID          *)
(* namespaces, death signals, and the write ends of the pipes results      *)
(* come through. A Child is named by the process it is a handle of, and    *)
(* used by one owner.                                                      *)
(*                                                                         *)
(* A process runs one handle call at a time. A call takes a status with    *)
(* waitpid and then reads the pipe to its end, in two steps.               *)
(***************************************************************************)
EXTENDS Integers

CONSTANTS
  Pids,       \* all processes
  Handles,    \* those a Child is the handle of
  Owner,      \* Owner[h]: the process that called Child::run for h
  Causes,     \* what a function run in a child may fail with
  Ok, Unset

Kernel == "init"   \* the reaper of last resort, outside

Failure == Causes \cup [who : Handles, how : {"code", "signal"}]
Outcomes == Failure \cup {Ok}

ASSUME ChildAssumption ==
  /\ Handles \subseteq Pids /\ Kernel \notin Pids
  /\ Owner \in [Handles -> Pids]
  /\ \A h \in Handles : Owner[h] # h
  /\ Ok \notin Failure /\ Unset \notin Outcomes

VARIABLES
  status,      \* of each process: none, running, zombie or reaped
  fate,        \* how it ended: 0 or another code, or a signal
  parent,      \* who may wait for it
  space,       \* the first process of its PID namespace
  reaper,      \* who becomes the parent of its children when it ends
  subreapers,  \* the processes that have made themselves subreapers
  armed,       \* those that have asked to be killed when their parent ends
  killed,      \* those sent SIGKILL
  pipe,        \* the message in each notification pipe, Unset if none
  writers,     \* the processes that hold a write end of it
  result,      \* Child.result
  call,        \* the call on the handle: none, or what is being done
  truth        \* history: how the process of each handle ended

kernelVars == <<status, fate, parent, space, reaper, subreapers, armed, killed>>
handleVars == <<result, call>>
childVars == <<status, fate, parent, space, reaper, subreapers, armed, killed,
               pipe, writers, result, call, truth>>

Running(p) == status[p] = "running"
Dead(p) == status[p] \in {"zombie", "reaped"}

\* The calls that wait, and what a call can be at.
Waiting == {"alive", "kill", "wait", "waitall"}
Places == Waiting \cup {"none", "close", "read", "send"}

ChildTypeOK ==
  /\ status \in [Pids -> {"none", "running", "zombie", "reaped"}]
  /\ fate \in [Pids -> {"none", "0", "code", "signal"}]
  /\ parent \in [Pids -> Pids \cup {Kernel}]
  /\ space \in [Pids -> Pids \cup {Kernel}]
  /\ reaper \in [Pids -> Pids \cup {Kernel}]
  /\ subreapers \subseteq Pids /\ armed \subseteq Pids /\ killed \subseteq Pids
  /\ pipe \in [Handles -> Failure \cup {Unset}]
  /\ writers \in [Handles -> SUBSET Pids]
  /\ result \in [Handles -> Outcomes \cup {Unset}]
  /\ call \in [Handles -> Places]
  /\ truth \in [Handles -> Outcomes \cup {Unset}]

\* One process runs, and no child has been made.
ChildInit(first) ==
  /\ status = [p \in Pids |-> IF p = first THEN "running" ELSE "none"]
  /\ fate = [p \in Pids |-> "none"]
  /\ parent = [p \in Pids |-> Kernel]
  /\ space = [p \in Pids |-> Kernel]
  /\ reaper = [p \in Pids |-> Kernel]
  /\ subreapers = {} /\ armed = {} /\ killed = {}
  /\ pipe = [h \in Handles |-> Unset]
  /\ writers = [h \in Handles |-> {}]
  /\ result = [h \in Handles |-> Unset]
  /\ call = [h \in Handles |-> "none"]
  /\ truth = [h \in Handles |-> Unset]

-----------------------------------------------------------------------------
(* The kernel.                                                             *)

\* Who becomes the parent of the children of p when it ends.
ReaperFor(p) == IF p \in subreapers \/ space[p] = p THEN p ELSE reaper[p]

\* The new process q of p: its relations, and the write ends it inherits.
Born(p, q, mother, newpid) ==
  /\ status' = [status EXCEPT ![q] = "running"]
  /\ parent' = [parent EXCEPT ![q] = mother]
  /\ space' = [space EXCEPT ![q] = IF newpid THEN q ELSE space[p]]
  /\ reaper' = [reaper EXCEPT ![q] = ReaperFor(p)]
  /\ UNCHANGED <<fate, subreapers, armed, killed>>

Inherited(p, q) ==
  [h \in Handles |-> writers[h] \cup (IF p \in writers[h] THEN {q} ELSE {})]

\* Those that end when p does: a namespace ends with its first process.
Fallen(p) == {p} \cup {q \in Pids : space[q] = p /\ Running(q)}

\* Process p ends. Its children get a new parent, who collects the dead among
\* them at once if it is the kernel, and a SIGKILL if they have asked for it.
Exit(p, how) ==
  LET orphans == {q \in Pids : parent[q] = p /\ status[q] \in {"running", "zombie"}}
      heir == IF reaper[p] # Kernel /\ Running(reaper[p]) THEN reaper[p] ELSE Kernel
      inside == {q \in Pids \ {p} : space[q] = p}
      nobody(q) == q \in inside \/ (q \in orphans /\ heir = Kernel)
  IN
  /\ status' = [q \in Pids |->
       IF q = p THEN IF parent[p] = Kernel THEN "reaped" ELSE "zombie"
       ELSE IF (status[q] = "zombie" /\ nobody(q)) \/ q \in Fallen(p) THEN "reaped"
       ELSE status[q]]
  /\ fate' = [q \in Pids |->
       IF q = p THEN how ELSE IF q \in Fallen(p) THEN "signal" ELSE fate[q]]
  /\ parent' = [q \in Pids |-> IF q \in orphans THEN heir ELSE parent[q]]
  /\ killed' = killed \cup (orphans \cap armed)
  /\ writers' = [h \in Handles |-> writers[h] \ Fallen(p)]
  /\ UNCHANGED <<space, reaper, subreapers, armed, handleVars>>

\* Process p, of a handle or not, ends by a code or a signal of its own.
EndWith(p, how) ==
  /\ Running(p)
  /\ Exit(p, how)
  /\ truth' = [h \in Handles |->
       IF h \notin Fallen(p) THEN truth[h]
       ELSE IF h = p /\ how = "0" THEN Ok
       ELSE [who |-> h, how |-> IF h = p THEN how ELSE "signal"]]
  /\ UNCHANGED pipe

\* A SIGKILL arrives.
DieOfKill(p) == p \in killed /\ EndWith(p, "signal")

\* Process p forks q without a Child, or by a process that ends at once, which
\* leaves q to the reaper.
ForkPlain(p, q) ==
  /\ Running(p) /\ status[q] = "none"
  /\ \E mother \in {p, ReaperFor(p)} : Born(p, q, mother, FALSE)
  /\ writers' = Inherited(p, q)
  /\ UNCHANGED <<pipe, handleVars, truth>>

\* execvp succeeds: the write ends are O_CLOEXEC.
ExecOk(p) ==
  /\ Running(p)
  /\ writers' = [h \in Handles |-> writers[h] \ {p}]
  /\ UNCHANGED <<kernelVars, pipe, handleVars, truth>>

-----------------------------------------------------------------------------
(* Child::run.                                                             *)

\* Mutant: no PID namespace.
CloneShared(h, newpid) ==
  /\ Running(Owner[h]) /\ status[h] = "none"
  /\ Born(Owner[h], h, Owner[h], FALSE)
  /\ writers' = [Inherited(Owner[h], h) EXCEPT ![h] = {h, Owner[h]}]
  /\ call' = [call EXCEPT ![h] = "close"]
  /\ UNCHANGED <<pipe, result, truth>>

\* NotificationFd::new and clone: both processes hold both ends.
Clone(h, newpid) ==
  /\ Running(Owner[h]) /\ status[h] = "none"
  /\ Born(Owner[h], h, Owner[h], newpid)
  /\ writers' = [Inherited(Owner[h], h) EXCEPT ![h] = {h, Owner[h]}]
  /\ call' = [call EXCEPT ![h] = "close"]
  /\ UNCHANGED <<pipe, result, truth>>

\* Mutant: the parent keeps its write end.
CloseNothing(h) ==
  /\ Running(Owner[h]) /\ call[h] = "close"
  /\ call' = [call EXCEPT ![h] = "none"]
  /\ UNCHANGED <<kernelVars, pipe, writers, result, truth>>

\* The parent closes its write end and has a Child.
CloseWrite(h) ==
  /\ Running(Owner[h]) /\ call[h] = "close"
  /\ writers' = [writers EXCEPT ![h] = @ \ {Owner[h]}]
  /\ call' = [call EXCEPT ![h] = "none"]
  /\ UNCHANGED <<kernelVars, pipe, result, truth>>

\* The function run in the child returns: an error is written to the pipe, and
\* either way the process exits with code 0.
Return(h, outcome) ==
  /\ Running(h)
  /\ pipe' = [pipe EXCEPT ![h] = IF outcome = Ok THEN @ ELSE outcome]
  /\ Exit(h, "0")
  /\ truth' = [g \in Handles |->
       IF g = h THEN outcome
       ELSE IF g \in Fallen(h) THEN [who |-> g, how |-> "signal"] ELSE truth[g]]

-----------------------------------------------------------------------------
(* Calls on a handle.                                                      *)

\* A call begins. With a cached result it is over at once.
Invoke(h, op) ==
  /\ Running(Owner[h]) /\ call[h] = "none"
  /\ call' = [call EXCEPT ![h] = IF result[h] = Unset THEN op ELSE "none"]
  /\ UNCHANGED <<kernelVars, pipe, writers, result, truth>>

\* Mutant: any status is taken for the child's.
WaitPidAny(h) ==
  /\ Running(Owner[h]) /\ call[h] \in Waiting
  /\ \E p \in Pids :
       /\ parent[p] = Owner[h] /\ status[p] = "zombie"
       /\ p = h \/ call[h] = "waitall"
       /\ status' = [status EXCEPT ![p] = "reaped"]
       /\ call' = [call EXCEPT ![h] = "read"]
  /\ UNCHANGED <<fate, parent, space, reaper, subreapers, armed, killed, pipe,
                 writers, result, truth>>

\* waitpid finds a status: the child's own, or another's, and goes on. Only a
\* wait for all asks for others.
WaitPid(h) ==
  /\ Running(Owner[h]) /\ call[h] \in Waiting
  /\ \E p \in Pids :
       /\ parent[p] = Owner[h] /\ status[p] = "zombie"
       /\ p = h \/ call[h] = "waitall"
       /\ status' = [status EXCEPT ![p] = "reaped"]
       /\ call' = [call EXCEPT ![h] = IF p = h THEN "read" ELSE @]
  /\ UNCHANGED <<fate, parent, space, reaper, subreapers, armed, killed, pipe,
                 writers, result, truth>>

\* waitpid with WNOHANG finds none: alive() is true, and kill() goes on.
StillAlive(h) ==
  /\ Running(Owner[h]) /\ call[h] \in {"alive", "kill"}
  /\ Running(h)
  /\ call' = [call EXCEPT ![h] = IF @ = "kill" THEN "send" ELSE "none"]
  /\ UNCHANGED <<kernelVars, pipe, writers, result, truth>>

\* Mutant: the pipe is not looked at.
ReadNothing(h) ==
  /\ Running(Owner[h]) /\ call[h] = "read"
  /\ result' = [result EXCEPT
       ![h] = IF fate[h] = "0" THEN Ok ELSE [who |-> h, how |-> fate[h]]]
  /\ call' = [call EXCEPT ![h] = "none"]
  /\ UNCHANGED <<kernelVars, pipe, writers, truth>>

\* The pipe is read until nobody holds its write end, and the result cached.
ReadPipe(h) ==
  /\ Running(Owner[h]) /\ call[h] = "read"
  /\ writers[h] = {}
  /\ result' = [result EXCEPT ![h] =
       IF fate[h] # "0" THEN [who |-> h, how |-> fate[h]]
       ELSE IF pipe[h] = Unset THEN Ok ELSE pipe[h]]
  /\ call' = [call EXCEPT ![h] = "none"]
  /\ UNCHANGED <<kernelVars, pipe, writers, truth>>

\* kill() sends SIGKILL. Nobody else takes the status, so the pid is still its.
SendKill(h) ==
  /\ Running(Owner[h]) /\ call[h] = "send"
  /\ killed' = killed \cup {h}
  /\ call' = [call EXCEPT ![h] = "none"]
  /\ UNCHANGED <<status, fate, parent, space, reaper, subreapers, armed, pipe,
                 writers, result, truth>>

\* The steps of a call that has begun.
CallStep(h) ==
  \/ CloseWrite(h) \/ WaitPid(h) \/ StillAlive(h) \/ ReadPipe(h) \/ SendKill(h)

=============================================================================
