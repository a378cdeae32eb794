---------------------------- MODULE MCSpreadOut -----------------------------
(* Instances of SpreadOut for TLC. *)
EXTENDS SpreadOut, TLC

\* An online CPU, and one that is offline: its directory stays, its files go.
Cpu(package, core, die, l3) ==
  [dir |-> TRUE, online |-> TRUE, package |-> package, core |-> core, die |-> die, l3 |-> l3]
Absent == [dir |-> FALSE, online |-> FALSE, package |-> Missing, core |-> Missing,
           die |-> Missing, l3 |-> Missing]
Offline == [Absent EXCEPT !.dir = TRUE]

\* All that can be found of three CPUs, the ids being 0 and 1. The cache is looked at
\* only where there is no die.
Found ==
  {Absent, Offline} \cup
  {Cpu(p, c, d, x) : p \in {Missing, 1}, c \in {0, 1}, d \in {Missing}, x \in {Missing, 1}} \cup
  {Cpu(p, c, d, 1) : p \in {Missing, 1}, c \in {0, 1}, d \in {Junk, 1}}

Plain(package, core) == Cpu(package, core, 0, 0)
Two(x, y) == (0 :> x) @@ (1 :> y)

\* Two cores of which one has two hyperthreads, one core with two, no directories at
\* all, and a core whose only CPU is offline.
OnePackage ==
  {Two(Plain(0, 0), Plain(0, 1)) @@ (2 :> Plain(0, 1)),
   Two(Plain(0, 0), Plain(0, 0)), Two(Absent, Absent), Two(Plain(0, 5), Offline)}

\* Two packages of a core each, whose ids the kernel numbers for each package.
TwoPackages == {Two(Plain(0, 0), Plain(1, 0))}

AllMachines == [0 .. 2 -> Found] \cup OnePackage \cup TwoPackages
SomeMachines == OnePackage \cup TwoPackages
=============================================================================
