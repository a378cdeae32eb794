------------------------------ MODULE Topology ------------------------------
(***************************************************************************)
(* System and CPUSet of src/src/util/system.rs: what is built from the     *)
(* files the kernel shows for each CPU, and the masks taken of it. Pure    *)
(* operators; SpreadOut uses them.                                         *)
(*                                                                         *)
(* A machine is a function from the configured CPUs, 0 .. n - 1, to what   *)
(* is found of each under /sys/devices/system/cpu: its directory, the      *)
(* contents of the files in it, and whether it is online.                  *)
(***************************************************************************)
EXTENDS Integers, FiniteSets, Sequences, SequencesExt

CONSTANTS
  Missing,   \* a file that does not exist
  Junk,      \* the contents of one that is not a number
  Width,     \* the bits of a word of cpu_set_t
  Words      \* the words of cpu_set_t

ASSUME TopologyAssumption == Width \in Nat \ {0} /\ Words \in Nat \ {0}

\* What is found of a CPU. l3 is the id of its level 3 cache.
Files(ids) ==
  [dir : BOOLEAN, online : BOOLEAN, package : ids, core : ids, die : ids, l3 : ids]

Present(m) == {c \in DOMAIN m : m[c].dir}
Online(m) == {c \in Present(m) : m[c].online}

-----------------------------------------------------------------------------
(* System::load and System::new.                                           *)

Parsed(contents, default) ==
  IF contents \in {Missing, Junk} THEN default ELSE contents

NodeId(m, c) == Parsed(m[c].package, 0)
CoreId(m, c) == Parsed(m[c].core, c)

\* The cache stands in for a die_id that does not exist, not for one that is junk.
ComplexId(m, c) ==
  IF m[c].die = Missing THEN Parsed(m[c].l3, 0) ELSE Parsed(m[c].die, 0)

\* The sequence of a finite set in a strict order: as many come before the i-th as
\* before i.
InOrder(S, Before(_, _)) ==
  [i \in 1 .. Cardinality(S) |->
     CHOOSE x \in S : Cardinality({y \in S : Before(y, x)}) = i - 1]

Ascending(S) == InOrder(S, LAMBDA x, y : x < y)

\* The entries of a BTreeMap from Key to Built, which a loop finds in order.
Grouped(S, Key(_), Built(_, _)) ==
  LET keys == Ascending({Key(x) : x \in S})
  IN [i \in DOMAIN keys |-> Built(keys[i], {x \in S : Key(x) = keys[i]})]

CoresAmong(m, S) ==
  Grouped(S, LAMBDA c : CoreId(m, c), LAMBDA core, inCore :
    [id |-> core, hyperthreads |-> Ascending(inCore)])

ComplexesAmong(m, S) ==
  Grouped(S, LAMBDA c : ComplexId(m, c), LAMBDA complex, inComplex :
    [id |-> complex, cores |-> CoresAmong(m, inComplex)])

Nodes(m) ==
  Grouped(Present(m), LAMBDA c : NodeId(m, c), LAMBDA node, inNode :
    [id |-> node, complexes |-> ComplexesAmong(m, inNode)])

\* Places(nodes): the indices of every core, by which cpu_to_topology finds a CPU.
Places(nodes) ==
  UNION {UNION {{<<n, x, k>> : k \in DOMAIN nodes[n].complexes[x].cores} :
                x \in DOMAIN nodes[n].complexes} : n \in DOMAIN nodes}

CoreAt(nodes, p) == nodes[p[1]].complexes[p[2]].cores[p[3]]
Threads(core) == ToSet(core.hyperthreads)

\* Nested loops come to place p before q.
Sooner(p, q) ==
  \/ p[1] < q[1]
  \/ p[1] = q[1] /\ p[2] < q[2]
  \/ p[1] = q[1] /\ p[2] = q[2] /\ p[3] < q[3]

\* Node::cores of every node.
AllCores(nodes) ==
  LET order == InOrder(Places(nodes), LAMBDA p, q : Sooner(p, q))
  IN [i \in DOMAIN order |-> CoreAt(nodes, order[i])]

\* Mutant: the cores are left in the order of the tree.
LeftUnsorted(cores) == cores

\* sort_by_key is stable.
SortedById(cores) ==
  LET order == InOrder(DOMAIN cores, LAMBDA i, j :
                 cores[i].id < cores[j].id \/ (cores[i].id = cores[j].id /\ i < j))
  IN [i \in DOMAIN order |-> cores[order[i]]]

NewSystem(nodes) ==
  [nodes |-> nodes,
   cores |-> SortedById(AllCores(nodes)),
   places |->
     [c \in UNION {Threads(CoreAt(nodes, p)) : p \in Places(nodes)} |->
        CHOOSE p \in Places(nodes) : c \in Threads(CoreAt(nodes, p))]]

Load(m) == NewSystem(Nodes(m))

-----------------------------------------------------------------------------
(* What is asked of a System.                                              *)

\* current_core, current_complex and current_node, for a thread that runs on c.
CurrentCore(s, c) == CoreAt(s.nodes, s.places[c])
CurrentComplex(s, c) == s.nodes[s.places[c][1]].complexes[s.places[c][2]]
CurrentNode(s, c) == s.nodes[s.places[c][1]]

\* The lengths of lists, added up, are the number of their places.
LogicalCpus(s) ==
  Cardinality(UNION {{i} \X DOMAIN s.cores[i].hyperthreads : i \in DOMAIN s.cores})
Complexes(s) ==
  Cardinality(UNION {{n} \X DOMAIN s.nodes[n].complexes : n \in DOMAIN s.nodes})

\* A cpu_set_t: the bits that are set in each word. CPU_SET does not look
\* whether it has one for c: machines have no more CPUs than bits (SpreadOutAssumption).
NoBits == [w \in 0 .. Words - 1 |-> {}]
CpuSet(c) == [NoBits EXCEPT ![c \div Width] = {c % Width}]
Cpus(mask) == UNION {{w * Width + b : b \in mask[w]} : w \in DOMAIN mask}

\* Each of the masks is or-ed into one that was empty.
CpuOr(masks) == [w \in 0 .. Words - 1 |-> UNION {mask[w] : mask \in masks}]

\* CPUSet::mask of a core, a core complex, a node and the system.
CoreMask(core) == CpuOr({CpuSet(c) : c \in Threads(core)})
ComplexMask(x) == CpuOr({CoreMask(core) : core \in ToSet(x.cores)})
NodeMask(node) == CpuOr({ComplexMask(x) : x \in ToSet(node.complexes)})
SystemMask(s) == CpuOr({NodeMask(node) : node \in ToSet(s.nodes)})

WakeTypes == {"SameHyperthread", "SameCore", "SameComplex", "SameNode", "Unpinned"}

\* check_wake_type of cases/basic.rs, on a system that has a core ...
CheckWakeType(s, type) ==
  CASE type = "SameHyperthread" -> Len(s.cores[1].hyperthreads) > 1
    [] type = "SameCore" -> Len(s.cores) > 1
    [] type = "SameComplex" -> Complexes(s) > 1
    [] type = "SameNode" -> Len(s.nodes) > 1
    [] type = "Unpinned" -> TRUE

\* ... and the mask ping_pong pins its processes to.
WakeMask(s, type) ==
  CASE type = "SameHyperthread" -> CpuSet(s.cores[1].hyperthreads[1])
    [] type = "SameCore" -> CoreMask(s.cores[1])
    [] type = "SameComplex" -> ComplexMask(s.nodes[1].complexes[1])
    [] type = "SameNode" -> NodeMask(s.nodes[1])
    [] type = "Unpinned" -> SystemMask(s)

\* needs_numa_or_complexes of cases/topology.rs.
NeedsNumaOrComplexes(s) == Len(s.nodes) > 1 \/ Len(s.nodes[1].complexes) > 1

-----------------------------------------------------------------------------
(* What they promise, of a system loaded from a machine.                   *)

\* Every CPU with a directory has one place in the tree, two share it exactly when
\* their package, die and core ids agree, what is looked up for a CPU is where it is,
\* and the list of all cores holds each once, by ascending id (system.rs:324-547).
TreeFaithful(m, s) ==
  LET key(c) == <<NodeId(m, c), ComplexId(m, c), CoreId(m, c)>>
  IN /\ DOMAIN s.places = Present(m)
     /\ LogicalCpus(s) = Cardinality(Present(m))
     /\ Len(s.cores) = Cardinality({key(c) : c \in Present(m)})
     /\ \A c, d \in Present(m) : (s.places[c] = s.places[d]) <=> (key(c) = key(d))
     /\ \A c \in Present(m) :
          /\ c \in Threads(CurrentCore(s, c))
          /\ <<CurrentNode(s, c).id, CurrentComplex(s, c).id, CurrentCore(s, c).id>> = key(c)
          /\ \E i \in DOMAIN s.cores : s.cores[i] = CurrentCore(s, c)
     /\ \A i, j \in DOMAIN s.cores : i < j => s.cores[i].id <= s.cores[j].id

\* A mask holds the CPUs of what it was taken of, and no others (system.rs:9-27,
\* 127-285, 550-559).
MasksFaithful(m, s) ==
  /\ Cpus(SystemMask(s)) = Present(m)
  /\ \A c \in Present(m) :
       /\ Cpus(CoreMask(CurrentCore(s, c))) = {d \in Present(m) : s.places[d] = s.places[c]}
       /\ Cpus(ComplexMask(CurrentComplex(s, c))) =
            {d \in Present(m) : CurrentComplex(s, d) = CurrentComplex(s, c)}
       /\ Cpus(NodeMask(CurrentNode(s, c))) =
            {d \in Present(m) : NodeId(m, d) = NodeId(m, c)}

\* A wake type that passes its check pins to fewer CPUs than not pinning at all, and
\* one hyperthread is fewer than its core (basic.rs:64-80, 108-141); come_together
\* runs where there are several nodes or complexes (topology.rs:198-205).
WakeTypesDiffer(s) ==
  /\ \A type \in WakeTypes \ {"Unpinned"} : CheckWakeType(s, type) =>
       /\ Cpus(WakeMask(s, type)) # {}
       /\ Cpus(WakeMask(s, type)) # Cpus(SystemMask(s))
  /\ CheckWakeType(s, "SameHyperthread") =>
       WakeMask(s, "SameHyperthread") # WakeMask(s, "SameCore")
  /\ NeedsNumaOrComplexes(s) => Complexes(s) > 1
=============================================================================
