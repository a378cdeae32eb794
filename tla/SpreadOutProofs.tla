-------------------------- MODULE SpreadOutProofs ---------------------------
(***************************************************************************)
(* Theorems about SpreadOut, for every machine, every number of moves and  *)
(* every setting of converge.                                              *)
(***************************************************************************)
EXTENDS SpreadOut, FiniteSetTheorems, TLAPS

-----------------------------------------------------------------------------
(* Sorting.                                                                *)

\* Of a set with a strict order there is, for each number below its size, one element
\* that as many come before: Pre[x] are those before x.
LEMMA Ranked ==
  ASSUME NEW S, IsFiniteSet(S), NEW Pre \in [S -> SUBSET S],
         \A x \in S : x \notin Pre[x],
         \A x, y \in S : y \in Pre[x] => Pre[y] \subseteq Pre[x],
         \A x, y \in S : x = y \/ x \in Pre[y] \/ y \in Pre[x]
  PROVE  /\ \A x \in S : Cardinality(Pre[x]) \in 0 .. Cardinality(S) - 1
         /\ \A x, y \in S : x \in Pre[y] <=> Cardinality(Pre[x]) < Cardinality(Pre[y])
         /\ \A k \in 0 .. Cardinality(S) - 1 : \E x \in S : Cardinality(Pre[x]) = k
<1> DEFINE rank == [x \in S |-> Cardinality(Pre[x])]
<1>1. \A x \in S : IsFiniteSet(Pre[x]) /\ Cardinality(Pre[x]) \in Nat
  BY FS_Subset, FS_CardinalityType
<1>2. Cardinality(S) \in Nat
  BY FS_CardinalityType
<1>3. ASSUME NEW T \in SUBSET S, NEW U \in SUBSET T, U # T
      PROVE  Cardinality(U) < Cardinality(T)
  <2>1. IsFiniteSet(T)
    BY FS_Subset
  <2>2. Cardinality(U) <= Cardinality(T) /\ Cardinality(U) # Cardinality(T)
    BY <1>3, <2>1, FS_Subset
  <2>3. Cardinality(U) \in Nat /\ Cardinality(T) \in Nat
    BY <2>1, FS_Subset, FS_CardinalityType
  <2> QED BY <2>2, <2>3
<1>4. \A x \in S : Cardinality(Pre[x]) \in 0 .. Cardinality(S) - 1
  <2> TAKE x \in S
  <2>1. Cardinality(Pre[x]) < Cardinality(S)
    BY <1>3
  <2> QED BY <1>1, <1>2, <2>1
<1>5. ASSUME NEW x \in S, NEW y \in S, x \in Pre[y]
      PROVE  Cardinality(Pre[x]) < Cardinality(Pre[y])
  <2>1. Pre[x] \in SUBSET Pre[y] /\ Pre[x] # Pre[y] /\ Pre[y] \in SUBSET S
    BY <1>5
  <2> QED BY <1>3, <2>1
<1>6. \A x, y \in S : x \in Pre[y] <=> Cardinality(Pre[x]) < Cardinality(Pre[y])
  <2> TAKE x, y \in S
  <2>1. CASE x \in Pre[y]
    BY <1>5, <2>1
  <2>2. CASE x = y
    BY <1>1, <2>2
  <2>3. CASE y \in Pre[x]
    <3>1. Cardinality(Pre[y]) < Cardinality(Pre[x])
      BY <1>5, <2>3
    <3>2. x \notin Pre[y]
      BY <2>3
    <3> QED BY <1>1, <3>1, <3>2
  <2> QED BY <2>1, <2>2, <2>3
<1>7. rank \in Injection(S, 0 .. Cardinality(S) - 1)
  <2>1. \A x, y \in S : Cardinality(Pre[x]) = Cardinality(Pre[y]) => x = y
    BY <1>1, <1>6
  <2>2. rank \in [S -> 0 .. Cardinality(S) - 1]
    BY <1>4
  <2>3. \A x, y \in S : rank[x] = rank[y] => x = y
    BY <2>1
  <2> HIDE DEF rank
  <2> QED BY <2>2, <2>3 DEF Injection, IsInjective
<1>8. /\ IsFiniteSet(0 .. Cardinality(S) - 1)
      /\ Cardinality(0 .. Cardinality(S) - 1) = Cardinality(S)
  BY <1>2, FS_Interval
<1>9. rank \in Surjection(S, 0 .. Cardinality(S) - 1)
  <2> HIDE DEF rank
  <2> QED BY <1>7, <1>8, FS_Injection
<1>10. \A k \in 0 .. Cardinality(S) - 1 : \E x \in S : rank[x] = k
  <2> HIDE DEF rank
  <2> QED BY <1>9 DEF Surjection
<1> QED BY <1>4, <1>6, <1>10

\* L is S in the order of Pre.
Lists(L, S, Pre) ==
  /\ DOMAIN L = 1 .. Cardinality(S)
  /\ \A i \in DOMAIN L : L[i] \in S
  /\ \A x \in S : \E i \in DOMAIN L : L[i] = x
  /\ \A i, j \in DOMAIN L : L[i] = L[j] => i = j
  /\ \A i, j \in DOMAIN L : i < j => L[i] \in Pre[L[j]]

\* A list that has in place i an element with i - 1 before it, if there is one.
LEMMA ListedInOrder ==
  ASSUME NEW S, IsFiniteSet(S), NEW Pre \in [S -> SUBSET S],
         \A x \in S : x \notin Pre[x],
         \A x, y \in S : y \in Pre[x] => Pre[y] \subseteq Pre[x],
         \A x, y \in S : x = y \/ x \in Pre[y] \/ y \in Pre[x],
         NEW L, DOMAIN L = 1 .. Cardinality(S),
         \A i \in 1 .. Cardinality(S) : \A x \in S : Cardinality(Pre[x]) = i - 1 =>
           L[i] \in S /\ Cardinality(Pre[L[i]]) = i - 1
  PROVE  Lists(L, S, Pre)
<1>1. /\ \A x \in S : Cardinality(Pre[x]) \in 0 .. Cardinality(S) - 1
      /\ \A x, y \in S : x \in Pre[y] <=> Cardinality(Pre[x]) < Cardinality(Pre[y])
      /\ \A k \in 0 .. Cardinality(S) - 1 : \E x \in S : Cardinality(Pre[x]) = k
  BY Ranked
<1>2. Cardinality(S) \in Nat
  BY FS_CardinalityType
<1>3. \A i \in DOMAIN L : L[i] \in S /\ Cardinality(Pre[L[i]]) = i - 1
  <2> TAKE i \in DOMAIN L
  <2>1. i - 1 \in 0 .. Cardinality(S) - 1
    BY <1>2
  <2>2. \E x \in S : Cardinality(Pre[x]) = i - 1
    BY <1>1, <2>1
  <2> QED BY <2>2
<1>4. ASSUME NEW x \in S
      PROVE  \E i \in DOMAIN L : L[i] = x
  <2> DEFINE i == Cardinality(Pre[x]) + 1
  <2>1. i \in DOMAIN L /\ Cardinality(Pre[x]) = i - 1
    BY <1>1, <1>2
  <2> HIDE DEF i
  <2>2. L[i] \in S /\ Cardinality(Pre[L[i]]) = Cardinality(Pre[x])
    BY <1>3, <2>1
  <2>3. L[i] = x
    BY <1>1, <2>2
  <2> QED BY <2>1, <2>3
<1>5. \A i, j \in DOMAIN L : L[i] = L[j] => i = j
  BY <1>2, <1>3
<1>6. \A i, j \in DOMAIN L : i < j => L[i] \in Pre[L[j]]
  BY <1>1, <1>2, <1>3
<1> QED BY <1>3, <1>4, <1>5, <1>6 DEF Lists

\* Ascending(S) is what its name says.
LEMMA AscendingLists ==
  ASSUME NEW S \in SUBSET Int, IsFiniteSet(S)
  PROVE  /\ DOMAIN Ascending(S) = 1 .. Cardinality(S) /\ Len(Ascending(S)) = Cardinality(S)
         /\ \A i \in DOMAIN Ascending(S) : Ascending(S)[i] \in S
         /\ \A x \in S : \E i \in DOMAIN Ascending(S) : Ascending(S)[i] = x
         /\ \A i, j \in DOMAIN Ascending(S) : Ascending(S)[i] = Ascending(S)[j] => i = j
<1> DEFINE Pre == [x \in S |-> {y \in S : y < x}]
           L == Ascending(S)
<1>1. Pre \in [S -> SUBSET S] /\ \A x \in S : Pre[x] = {y \in S : y < x}
  OBVIOUS
<1>2. L = [i \in 1 .. Cardinality(S) |->
             CHOOSE x \in S : Cardinality({y \in S : y < x}) = i - 1]
  BY DEF Ascending, InOrder
<1>3. DOMAIN L = 1 .. Cardinality(S) /\ Len(L) = Cardinality(S)
  <2>1. Cardinality(S) \in Nat
    BY FS_CardinalityType
  <2> QED BY <1>2, <2>1
<1>4. ASSUME NEW i \in 1 .. Cardinality(S), NEW x \in S, Cardinality(Pre[x]) = i - 1
      PROVE  L[i] \in S /\ Cardinality(Pre[L[i]]) = i - 1
  <2>1. Cardinality({y \in S : y < x}) = i - 1
    BY <1>1, <1>4
  <2>2. L[i] = CHOOSE z \in S : Cardinality({y \in S : y < z}) = i - 1
    BY <1>2
  <2>3. L[i] \in S /\ Cardinality({y \in S : y < L[i]}) = i - 1
    BY <2>1, <2>2
  <2> QED BY <1>1, <2>3
<1> HIDE DEF Pre, L
<1>5. /\ \A x \in S : x \notin Pre[x]
      /\ \A x, y \in S : y \in Pre[x] => Pre[y] \subseteq Pre[x]
      /\ \A x, y \in S : x = y \/ x \in Pre[y] \/ y \in Pre[x]
  <2>1. \A x, y \in S : y \in Pre[x] <=> y < x
    BY <1>1
  <2>2. \A x \in S : x \in Int
    OBVIOUS
  <2>3. \A x, y, z \in Int : (x < y /\ y < z => x < z) /\ ~(x < x) /\ (x = y \/ x < y \/ y < x)
    OBVIOUS
  <2>4. \A x, y \in S : y \in Pre[x] => Pre[y] \subseteq Pre[x]
    <3> SUFFICES ASSUME NEW x \in S, NEW y \in S, y \in Pre[x], NEW z \in Pre[y]
                 PROVE  z \in Pre[x]
      OBVIOUS
    <3>1. z \in S
      BY <1>1
    <3> QED BY <2>1, <2>2, <2>3, <3>1
  <2> QED BY <2>1, <2>2, <2>3, <2>4
<1>6. Lists(L, S, Pre)
  BY <1>1, <1>3, <1>4, <1>5, ListedInOrder
<1> QED BY <1>3, <1>6 DEF Lists, L

-----------------------------------------------------------------------------
(* The tree of a machine.                                                  *)

\* A machine has finitely many CPUs, and the ids of what they belong to are numbers.
LEMMA CpusOf ==
  ASSUME NEW m \in Machines
  PROVE  /\ IsFiniteSet(Present(m)) /\ Present(m) \subseteq 0 .. Width * Words - 1
         /\ Present(m) \subseteq Nat
         /\ \A c \in Present(m) : NodeId(m, c) \in Int /\ ComplexId(m, c) \in Int /\ CoreId(m, c) \in Int
<1>1. Present(m) \subseteq DOMAIN m /\ DOMAIN m \subseteq 0 .. Width * Words - 1
  BY SpreadOutAssumption DEF Present
<1>2. Width * Words - 1 \in Int
  BY TopologyAssumption
<1>3. IsFiniteSet(0 .. Width * Words - 1)
  BY <1>2, FS_Interval
<1>4. IsFiniteSet(Present(m))
  BY <1>1, <1>3, FS_Subset
<1>5. Present(m) \subseteq Nat
  BY <1>1, <1>2
<1>6. ASSUME NEW c \in Present(m)
      PROVE  NodeId(m, c) \in Int /\ ComplexId(m, c) \in Int /\ CoreId(m, c) \in Int
  <2>1. \A file \in {m[c].package, m[c].core, m[c].die, m[c].l3} :
          file \in {Missing, Junk} \/ file \in Int
    BY <1>1, SpreadOutAssumption
  <2>2. c \in Int
    BY <1>5
  <2> QED BY <2>1, <2>2 DEF NodeId, ComplexId, CoreId, Parsed
<1> QED BY <1>1, <1>4, <1>5, <1>6

\* B is a map from the keys of the CPUs of S, in a sequence of entries.
IsMap(B, S, key) ==
  /\ \E n \in Nat : DOMAIN B = 1 .. n
  /\ \A i \in DOMAIN B : \E c \in S : key[c] = B[i].id
  /\ \A c \in S : \E i \in DOMAIN B : key[c] = B[i].id
  /\ \A i, j \in DOMAIN B : B[i].id = B[j].id => i = j

\* Grouping makes such a map.
LEMMA GroupedIsMap ==
  ASSUME NEW P, IsFiniteSet(P), NEW S \in SUBSET P, NEW key, \A c \in P : key[c] \in Int,
         NEW keys, keys = Ascending({key[c] : c \in S}),
         NEW B, DOMAIN B = DOMAIN keys, \A i \in DOMAIN B : B[i].id = keys[i]
  PROVE  IsMap(B, S, key)
<1> DEFINE K == {key[c] : c \in S}
           f == [c \in S |-> key[c]]
<1>1. IsFiniteSet(S)
  BY FS_Subset
<1>2. f \in Surjection(S, K)
  <2>1. f \in [S -> K] /\ \A k \in K : \E c \in S : f[c] = k
    OBVIOUS
  <2> HIDE DEF f, K
  <2> QED BY <2>1 DEF Surjection
<1>3. IsFiniteSet(K) /\ K \in SUBSET Int
  <2>1. K \in SUBSET Int
    OBVIOUS
  <2> HIDE DEF f, K
  <2> QED BY <1>1, <1>2, <2>1, FS_Surjection
<1>4. \A i \in DOMAIN B : \E c \in S : key[c] = B[i].id
  <2>1. \A i \in DOMAIN B : B[i].id \in K
    BY <1>3, AscendingLists
  <2> QED BY <2>1
<1>5. \A c \in S : \E i \in DOMAIN B : key[c] = B[i].id
  <2> TAKE c \in S
  <2>1. key[c] \in K
    OBVIOUS
  <2> HIDE DEF K
  <2>2. PICK i \in DOMAIN Ascending(K) : Ascending(K)[i] = key[c]
    BY <1>3, <2>1, AscendingLists
  <2> QED BY <2>2 DEF K
<1> HIDE DEF f
<1>6. \A i, j \in DOMAIN B : B[i].id = B[j].id => i = j
  BY <1>3, AscendingLists
<1>7. \E n \in Nat : DOMAIN B = 1 .. n
  <2>1. Cardinality(K) \in Nat /\ DOMAIN B = 1 .. Cardinality(K)
    BY <1>3, AscendingLists, FS_CardinalityType
  <2> QED BY <2>1
<1> QED BY <1>4, <1>5, <1>6, <1>7 DEF IsMap

\* The ids of a CPU, as functions.
CoreKey(m) == [c \in Present(m) |-> CoreId(m, c)]
ComplexKey(m) == [c \in Present(m) |-> ComplexId(m, c)]
NodeKey(m) == [c \in Present(m) |-> NodeId(m, c)]

\* The CPUs of S with the id of an entry.
With(S, key, entry) == {c \in S : key[c] = entry.id}

\* The CPUs of a core, as a list.
LEMMA CoresOf ==
  ASSUME NEW m \in Machines, NEW S \in SUBSET Present(m)
  PROVE  LET B == CoresAmong(m, S)
         IN  /\ IsMap(B, S, CoreKey(m))
             /\ \A i \in DOMAIN B :
                  /\ B[i].hyperthreads = Ascending(With(S, CoreKey(m), B[i]))
                  /\ Threads(B[i]) = With(S, CoreKey(m), B[i])
<1> DEFINE B == CoresAmong(m, S)
           key == CoreKey(m)
           keys == Ascending({key[c] : c \in S})
<1>1. \A c \in S : CoreId(m, c) = key[c]
  BY DEF CoreKey
<1>2. {CoreId(m, c) : c \in S} = {key[c] : c \in S}
  BY <1>1
<1>3. B = [i \in DOMAIN keys |->
             [id |-> keys[i], hyperthreads |-> Ascending({c \in S : CoreId(m, c) = keys[i]})]]
  BY <1>2 DEF CoresAmong, Grouped
<1>4. DOMAIN B = DOMAIN keys /\ \A i \in DOMAIN B : B[i].id = keys[i]
  <2> HIDE DEF B, keys
  <2> QED BY <1>3
<1>5. \A c \in Present(m) : key[c] \in Int
  BY CpusOf DEF CoreKey
<1>6. IsFiniteSet(Present(m)) /\ Present(m) \subseteq Nat
  BY CpusOf
<1>7. ASSUME NEW i \in DOMAIN B
      PROVE  B[i].hyperthreads = Ascending(With(S, key, B[i]))
  <2>1. B[i].id = keys[i]
        /\ B[i].hyperthreads = Ascending({c \in S : CoreId(m, c) = keys[i]})
    BY <1>3
  <2>2. {c \in S : CoreId(m, c) = keys[i]} = With(S, key, B[i])
    BY <1>1, <2>1 DEF With
  <2> QED BY <2>1, <2>2
<1>8. ASSUME NEW i \in DOMAIN B
      PROVE  Threads(B[i]) = With(S, key, B[i])
  <2> DEFINE T == With(S, key, B[i])
  <2>1. T \in SUBSET Present(m) /\ T \in SUBSET Int
    BY <1>6 DEF With
  <2>2. IsFiniteSet(T)
    BY <1>6, <2>1, FS_Subset
  <2>3. Threads(B[i]) = {Ascending(T)[k] : k \in DOMAIN Ascending(T)}
    BY <1>7 DEF Threads, ToSet
  <2> HIDE DEF T
  <2>4. /\ \A k \in DOMAIN Ascending(T) : Ascending(T)[k] \in T
        /\ \A c \in T : \E k \in DOMAIN Ascending(T) : Ascending(T)[k] = c
    BY <2>1, <2>2, AscendingLists
  <2>5. {Ascending(T)[k] : k \in DOMAIN Ascending(T)} = T
    BY <2>4
  <2> QED BY <2>3, <2>5 DEF T
<1> HIDE DEF key
<1>9. IsMap(B, S, key)
  <2> HIDE DEF B
  <2> QED BY <1>4, <1>5, <1>6, GroupedIsMap
<1> QED BY <1>7, <1>8, <1>9 DEF key

\* ... the cores of a complex ...
LEMMA ComplexesOf ==
  ASSUME NEW m \in Machines, NEW S \in SUBSET Present(m)
  PROVE  LET B == ComplexesAmong(m, S)
         IN  /\ IsMap(B, S, ComplexKey(m))
             /\ \A i \in DOMAIN B : B[i].cores = CoresAmong(m, With(S, ComplexKey(m), B[i]))
<1> DEFINE B == ComplexesAmong(m, S)
           key == ComplexKey(m)
           keys == Ascending({key[c] : c \in S})
<1>1. \A c \in S : ComplexId(m, c) = key[c]
  BY DEF ComplexKey
<1>2. {ComplexId(m, c) : c \in S} = {key[c] : c \in S}
  BY <1>1
<1>3. B = [i \in DOMAIN keys |->
             [id |-> keys[i], cores |-> CoresAmong(m, {c \in S : ComplexId(m, c) = keys[i]})]]
  BY <1>2 DEF ComplexesAmong, Grouped
<1>4. DOMAIN B = DOMAIN keys /\ \A i \in DOMAIN B : B[i].id = keys[i]
  <2> HIDE DEF B, keys
  <2> QED BY <1>3
<1>5. \A c \in Present(m) : key[c] \in Int
  BY CpusOf DEF ComplexKey
<1>6. ASSUME NEW i \in DOMAIN B
      PROVE  B[i].cores = CoresAmong(m, With(S, key, B[i]))
  <2>1. B[i].id = keys[i]
        /\ B[i].cores = CoresAmong(m, {c \in S : ComplexId(m, c) = keys[i]})
    BY <1>3
  <2>2. {c \in S : ComplexId(m, c) = keys[i]} = With(S, key, B[i])
    BY <1>1, <2>1 DEF With
  <2> QED BY <2>1, <2>2
<1> HIDE DEF key
<1>7. IsMap(B, S, key)
  <2> HIDE DEF B
  <2> QED BY <1>4, <1>5, CpusOf, GroupedIsMap
<1> QED BY <1>6, <1>7 DEF key

\* ... and the complexes of a node.
LEMMA NodesOf ==
  ASSUME NEW m \in Machines
  PROVE  LET B == Nodes(m)
         IN  /\ IsMap(B, Present(m), NodeKey(m))
             /\ \A i \in DOMAIN B :
                  B[i].complexes = ComplexesAmong(m, With(Present(m), NodeKey(m), B[i]))
<1> DEFINE S == Present(m)
           B == Nodes(m)
           key == NodeKey(m)
           keys == Ascending({key[c] : c \in S})
<1>1. \A c \in S : NodeId(m, c) = key[c]
  BY DEF NodeKey
<1>2. {NodeId(m, c) : c \in S} = {key[c] : c \in S}
  BY <1>1
<1>3. B = [i \in DOMAIN keys |->
             [id |-> keys[i],
              complexes |-> ComplexesAmong(m, {c \in S : NodeId(m, c) = keys[i]})]]
  BY <1>2 DEF Nodes, Grouped
<1>4. DOMAIN B = DOMAIN keys /\ \A i \in DOMAIN B : B[i].id = keys[i]
  <2> HIDE DEF B, keys
  <2> QED BY <1>3
<1>5. \A c \in S : key[c] \in Int
  BY CpusOf DEF NodeKey
<1>6. ASSUME NEW i \in DOMAIN B
      PROVE  B[i].complexes = ComplexesAmong(m, With(S, key, B[i]))
  <2>1. B[i].id = keys[i]
        /\ B[i].complexes = ComplexesAmong(m, {c \in S : NodeId(m, c) = keys[i]})
    BY <1>3
  <2>2. {c \in S : NodeId(m, c) = keys[i]} = With(S, key, B[i])
    BY <1>1, <2>1 DEF With
  <2> QED BY <2>1, <2>2
<1> HIDE DEF key
<1>7. IsMap(B, S, key)
  <2> HIDE DEF B
  <2> QED BY <1>4, <1>5, CpusOf, GroupedIsMap
<1> QED BY <1>6, <1>7 DEF key

\* The ids of a CPU, and those of a place in the tree.
KeyOf(m, c) == <<NodeId(m, c), ComplexId(m, c), CoreId(m, c)>>
IdsAt(nodes, p) ==
  <<nodes[p[1]].id, nodes[p[1]].complexes[p[2]].id, CoreAt(nodes, p).id>>

\* The CPUs below a node, and below a complex of it.
InNode(m, n) == With(Present(m), NodeKey(m), Nodes(m)[n])
InComplex(m, n, x) == With(InNode(m, n), ComplexKey(m), Nodes(m)[n].complexes[x])

\* The three layers of the tree, each a map of the CPUs below an entry of the last.
LEMMA Layers ==
  ASSUME NEW m \in Machines
  PROVE  /\ IsMap(Nodes(m), Present(m), NodeKey(m))
         /\ \A n \in DOMAIN Nodes(m) :
              /\ InNode(m, n) \in SUBSET Present(m)
              /\ IsMap(Nodes(m)[n].complexes, InNode(m, n), ComplexKey(m))
              /\ \A x \in DOMAIN Nodes(m)[n].complexes :
                   LET cores == Nodes(m)[n].complexes[x].cores
                   IN  /\ InComplex(m, n, x) \in SUBSET InNode(m, n)
                       /\ IsMap(cores, InComplex(m, n, x), CoreKey(m))
                       /\ \A k \in DOMAIN cores :
                            /\ cores[k].hyperthreads = Ascending(Threads(cores[k]))
                            /\ Threads(cores[k]) =
                                 With(InComplex(m, n, x), CoreKey(m), cores[k])
<1>1. IsMap(Nodes(m), Present(m), NodeKey(m))
  BY NodesOf
<1>2. ASSUME NEW n \in DOMAIN Nodes(m)
      PROVE  /\ InNode(m, n) \in SUBSET Present(m)
             /\ Nodes(m)[n].complexes = ComplexesAmong(m, InNode(m, n))
  BY NodesOf DEF InNode, With
<1>3. ASSUME NEW n \in DOMAIN Nodes(m)
      PROVE  /\ IsMap(Nodes(m)[n].complexes, InNode(m, n), ComplexKey(m))
             /\ \A x \in DOMAIN Nodes(m)[n].complexes :
                  Nodes(m)[n].complexes[x].cores = CoresAmong(m, InComplex(m, n, x))
  BY <1>2, ComplexesOf DEF InComplex
<1>4. ASSUME NEW n \in DOMAIN Nodes(m), NEW x \in DOMAIN Nodes(m)[n].complexes
      PROVE  LET cores == Nodes(m)[n].complexes[x].cores
             IN  /\ InComplex(m, n, x) \in SUBSET InNode(m, n)
                 /\ IsMap(cores, InComplex(m, n, x), CoreKey(m))
                 /\ \A k \in DOMAIN cores :
                      /\ cores[k].hyperthreads = Ascending(Threads(cores[k]))
                      /\ Threads(cores[k]) = With(InComplex(m, n, x), CoreKey(m), cores[k])
  <2>1. InComplex(m, n, x) \in SUBSET InNode(m, n)
    BY DEF InComplex, With
  <2>2. InComplex(m, n, x) \in SUBSET Present(m)
    BY <1>2, <2>1
  <2>3. Nodes(m)[n].complexes[x].cores = CoresAmong(m, InComplex(m, n, x))
    BY <1>3
  <2> QED BY <2>1, <2>2, <2>3, CoresOf
<1> QED BY <1>1, <1>2, <1>3, <1>4

\* The places of the tree: each has the CPUs with its ids, and each CPU has one.
LEMMA PlacesKeyed ==
  ASSUME NEW m \in Machines
  PROVE  LET nodes == Nodes(m)
         IN  /\ \A p \in Places(nodes) :
                  /\ \E n, x, k \in Nat : p = <<n, x, k>>
                  /\ p[1] \in DOMAIN nodes /\ p[2] \in DOMAIN nodes[p[1]].complexes
                  /\ p[3] \in DOMAIN nodes[p[1]].complexes[p[2]].cores
                  /\ Threads(CoreAt(nodes, p)) =
                       {c \in Present(m) : KeyOf(m, c) = IdsAt(nodes, p)}
                  /\ Threads(CoreAt(nodes, p)) # {}
                  /\ CoreAt(nodes, p).hyperthreads = Ascending(Threads(CoreAt(nodes, p)))
             /\ \A c \in Present(m) : \E p \in Places(nodes) : KeyOf(m, c) = IdsAt(nodes, p)
             /\ \A p, q \in Places(nodes) : IdsAt(nodes, p) = IdsAt(nodes, q) => p = q
<1> DEFINE nodes == Nodes(m)
<1>1. ASSUME NEW c \in Present(m)
      PROVE  /\ NodeKey(m)[c] = NodeId(m, c) /\ ComplexKey(m)[c] = ComplexId(m, c)
             /\ CoreKey(m)[c] = CoreId(m, c)
  BY DEF NodeKey, ComplexKey, CoreKey
<1>2. ASSUME NEW p \in Places(nodes)
      PROVE  /\ \E n, x, k : p = <<n, x, k>>
             /\ p[1] \in DOMAIN nodes /\ p[2] \in DOMAIN nodes[p[1]].complexes
             /\ p[3] \in DOMAIN nodes[p[1]].complexes[p[2]].cores
  <2> HIDE DEF nodes
  <2> QED BY DEF Places
<1>3. ASSUME NEW n \in DOMAIN nodes, NEW x \in DOMAIN nodes[n].complexes,
             NEW k \in DOMAIN nodes[n].complexes[x].cores
      PROVE  <<n, x, k>> \in Places(nodes)
  <2> HIDE DEF nodes
  <2> QED BY DEF Places
<1>4. ASSUME NEW p \in Places(nodes)
      PROVE  \E n, x, k \in Nat : p = <<n, x, k>>
  <2>1. IsMap(nodes, Present(m), NodeKey(m))
        /\ IsMap(nodes[p[1]].complexes, InNode(m, p[1]), ComplexKey(m))
        /\ IsMap(nodes[p[1]].complexes[p[2]].cores, InComplex(m, p[1], p[2]), CoreKey(m))
    BY <1>2, Layers
  <2> HIDE DEF nodes
  <2>2. p[1] \in Nat
    <3>1. PICK n \in Nat : DOMAIN nodes = 1 .. n
      BY <2>1 DEF IsMap
    <3> QED BY <1>2, <3>1
  <2>3. p[2] \in Nat
    <3>1. PICK n \in Nat : DOMAIN nodes[p[1]].complexes = 1 .. n
      BY <2>1 DEF IsMap
    <3> QED BY <1>2, <3>1
  <2>4. p[3] \in Nat
    <3>1. PICK n \in Nat : DOMAIN nodes[p[1]].complexes[p[2]].cores = 1 .. n
      BY <2>1 DEF IsMap
    <3> QED BY <1>2, <3>1
  <2>5. PICK n, x, k : p = <<n, x, k>>
    BY <1>2
  <2> QED BY <2>2, <2>3, <2>4, <2>5
<1>5. ASSUME NEW p \in Places(nodes)
      PROVE  /\ Threads(CoreAt(nodes, p)) =
                  {c \in Present(m) : KeyOf(m, c) = IdsAt(nodes, p)}
             /\ Threads(CoreAt(nodes, p)) # {}
             /\ CoreAt(nodes, p).hyperthreads = Ascending(Threads(CoreAt(nodes, p)))
  <2> DEFINE core == CoreAt(nodes, p)
  <2>1. core = nodes[p[1]].complexes[p[2]].cores[p[3]]
    BY DEF CoreAt
  <2>2. /\ core.hyperthreads = Ascending(Threads(core))
        /\ Threads(core) = With(InComplex(m, p[1], p[2]), CoreKey(m), core)
        /\ InComplex(m, p[1], p[2]) \subseteq InNode(m, p[1])
        /\ InNode(m, p[1]) \subseteq Present(m)
    BY <1>2, <2>1, Layers
  <2>3. \E c \in InComplex(m, p[1], p[2]) : CoreKey(m)[c] = core.id
    <3> DEFINE B == nodes[p[1]].complexes[p[2]].cores
               S == InComplex(m, p[1], p[2])
               key == CoreKey(m)
    <3>1. IsMap(B, S, key)
      BY <1>2, Layers
    <3>2. p[3] \in DOMAIN B
      BY <1>2
    <3>3. core = B[p[3]]
      BY <2>1
    <3> HIDE DEF nodes, B, S, key, core
    <3>4. \E c \in S : key[c] = B[p[3]].id
      BY <3>1, <3>2 DEF IsMap
    <3> QED BY <3>3, <3>4 DEF S, key
  <2>4. Threads(core) # {}
    BY <2>2, <2>3 DEF With
  <2>5. \A c \in Present(m) :
          c \in Threads(core) <=> /\ NodeId(m, c) = nodes[p[1]].id
                                  /\ ComplexId(m, c) = nodes[p[1]].complexes[p[2]].id
                                  /\ CoreId(m, c) = core.id
    BY <1>1, <2>2 DEF With, InComplex, InNode
  <2> HIDE DEF nodes, core
  <2>6. \A c \in Present(m) : c \in Threads(core) <=> KeyOf(m, c) = IdsAt(nodes, p)
    BY <2>5 DEF KeyOf, IdsAt, core
  <2>7. Threads(core) \subseteq Present(m)
    BY <2>2 DEF With
  <2> QED BY <2>2, <2>4, <2>6, <2>7 DEF core
<1>6. ASSUME NEW c \in Present(m)
      PROVE  \E p \in Places(nodes) : KeyOf(m, c) = IdsAt(nodes, p)
  <2>1. PICK n \in DOMAIN nodes : NodeKey(m)[c] = nodes[n].id
    BY Layers DEF IsMap
  <2>2. c \in InNode(m, n)
    BY <2>1 DEF InNode, With
  <2>3. PICK x \in DOMAIN nodes[n].complexes : ComplexKey(m)[c] = nodes[n].complexes[x].id
    BY <2>2, Layers DEF IsMap
  <2>4. c \in InComplex(m, n, x)
    BY <2>2, <2>3 DEF InComplex, With
  <2>5. PICK k \in DOMAIN nodes[n].complexes[x].cores :
          CoreKey(m)[c] = nodes[n].complexes[x].cores[k].id
    BY <2>4, Layers DEF IsMap
  <2> HIDE DEF nodes
  <2>6. KeyOf(m, c) = IdsAt(nodes, <<n, x, k>>)
    BY <1>1, <2>1, <2>3, <2>5 DEF KeyOf, IdsAt, CoreAt
  <2> QED BY <1>3, <2>6
<1>7. ASSUME NEW p \in Places(nodes), NEW q \in Places(nodes), IdsAt(nodes, p) = IdsAt(nodes, q)
      PROVE  p = q
  <2>1. /\ nodes[p[1]].id = nodes[q[1]].id
        /\ nodes[p[1]].complexes[p[2]].id = nodes[q[1]].complexes[q[2]].id
        /\ nodes[p[1]].complexes[p[2]].cores[p[3]].id = nodes[q[1]].complexes[q[2]].cores[q[3]].id
    <3> HIDE DEF nodes
    <3> QED BY <1>7 DEF IdsAt, CoreAt
  <2>2. p[1] = q[1]
    BY <1>2, <2>1, Layers DEF IsMap
  <2>3. p[2] = q[2]
    <3> DEFINE C == nodes[p[1]].complexes
    <3>1. IsMap(C, InNode(m, p[1]), ComplexKey(m))
      BY <1>2, Layers
    <3>2. \A i, j \in DOMAIN C : C[i].id = C[j].id => i = j
      BY <3>1 DEF IsMap
    <3>3. p[2] \in DOMAIN C /\ q[2] \in DOMAIN C /\ C[p[2]].id = C[q[2]].id
      BY <1>2, <2>1, <2>2
    <3> HIDE DEF C
    <3> QED BY <3>2, <3>3
  <2>4. p[3] = q[3]
    <3> DEFINE C == nodes[p[1]].complexes[p[2]].cores
    <3>1. IsMap(C, InComplex(m, p[1], p[2]), CoreKey(m))
      BY <1>2, Layers
    <3>2. \A i, j \in DOMAIN C : C[i].id = C[j].id => i = j
      BY <3>1 DEF IsMap
    <3>3. p[3] \in DOMAIN C /\ q[3] \in DOMAIN C /\ C[p[3]].id = C[q[3]].id
      BY <1>2, <2>1, <2>2, <2>3
    <3> HIDE DEF C
    <3> QED BY <3>2, <3>3
  <2>5. (\E n, x, k : p = <<n, x, k>>) /\ (\E n, x, k : q = <<n, x, k>>)
    BY <1>2
  <2> QED BY <2>2, <2>3, <2>4, <2>5
<1> QED BY <1>2, <1>4, <1>5, <1>6, <1>7

-----------------------------------------------------------------------------
(* The lists and the index of a system.                                    *)

\* There are as many places as keys.
LEMMA PlacesCounted ==
  ASSUME NEW m \in Machines
  PROVE  /\ IsFiniteSet(Places(Nodes(m)))
         /\ Cardinality(Places(Nodes(m))) = Cardinality({KeyOf(m, c) : c \in Present(m)})
         /\ \A p \in Places(Nodes(m)) : CoreAt(Nodes(m), p).id \in Int
<1> DEFINE P == Places(Nodes(m))
           K == {KeyOf(m, c) : c \in Present(m)}
           f == [c \in Present(m) |-> KeyOf(m, c)]
           g == [p \in P |-> IdsAt(Nodes(m), p)]
<1>1. f \in Surjection(Present(m), K)
  <2>1. f \in [Present(m) -> K] /\ \A k \in K : \E c \in Present(m) : f[c] = k
    OBVIOUS
  <2> HIDE DEF f, K
  <2> QED BY <2>1 DEF Surjection
<1>2. IsFiniteSet(K)
  <2> HIDE DEF f, K
  <2> QED BY <1>1, CpusOf, FS_Surjection
<1>3. ASSUME NEW p \in P
      PROVE  \E c \in Present(m) : IdsAt(Nodes(m), p) = KeyOf(m, c)
  BY PlacesKeyed
<1>4. g \in [P -> K]
  <2> HIDE DEF P
  <2> QED BY <1>3
<1>5. \A k \in K : \E p \in P : g[p] = k
  BY PlacesKeyed
<1>6. \A p, q \in P : g[p] = g[q] => p = q
  BY PlacesKeyed
<1>7. ASSUME NEW p \in P
      PROVE  CoreAt(Nodes(m), p).id \in Int
  <2>1. PICK c \in Present(m) : IdsAt(Nodes(m), p) = KeyOf(m, c)
    BY <1>3
  <2>2. CoreAt(Nodes(m), p).id = CoreId(m, c)
    BY <2>1 DEF IdsAt, KeyOf
  <2> QED BY <2>2, CpusOf
<1> HIDE DEF P, K, g
<1>8. g \in Injection(P, K) /\ g \in Surjection(P, K)
  BY <1>4, <1>5, <1>6 DEF Injection, IsInjective, Surjection
<1>9. IsFiniteSet(P) /\ Cardinality(P) = Cardinality(K)
  BY <1>2, <1>8, FS_Injection
<1> QED BY <1>7, <1>9 DEF P, K

\* The list of all cores, in the order of the tree.
LEMMA AllCoresListed ==
  ASSUME NEW m \in Machines
  PROVE  \E order :
           LET P == Places(Nodes(m))
           IN  /\ DOMAIN order = 1 .. Cardinality(P)
               /\ AllCores(Nodes(m)) = [i \in DOMAIN order |-> CoreAt(Nodes(m), order[i])]
               /\ \A i \in DOMAIN order : order[i] \in P
               /\ \A p \in P : \E i \in DOMAIN order : order[i] = p
               /\ \A i, j \in DOMAIN order : order[i] = order[j] => i = j
<1> DEFINE P == Places(Nodes(m))
           order == [i \in 1 .. Cardinality(P) |->
                       CHOOSE x \in P : Cardinality({y \in P : Sooner(y, x)}) = i - 1]
           Pre == [x \in P |-> {y \in P : Sooner(y, x)}]
<1>1. AllCores(Nodes(m)) = [i \in DOMAIN order |-> CoreAt(Nodes(m), order[i])]
  BY DEF AllCores, InOrder
<1>2. IsFiniteSet(P) /\ \A p \in P : \E n, x, k \in Nat : p = <<n, x, k>>
  BY PlacesCounted, PlacesKeyed
<1> HIDE DEF P
<1>3. Pre \in [P -> SUBSET P] /\ \A x \in P : Pre[x] = {y \in P : Sooner(y, x)}
  OBVIOUS
<1>4. ASSUME NEW i \in 1 .. Cardinality(P), NEW x \in P, Cardinality(Pre[x]) = i - 1
      PROVE  order[i] \in P /\ Cardinality(Pre[order[i]]) = i - 1
  <2>1. Cardinality({y \in P : Sooner(y, x)}) = i - 1
    BY <1>3, <1>4
  <2>2. order[i] = CHOOSE z \in P : Cardinality({y \in P : Sooner(y, z)}) = i - 1
    OBVIOUS
  <2>3. order[i] \in P /\ Cardinality({y \in P : Sooner(y, order[i])}) = i - 1
    BY <2>1, <2>2
  <2> QED BY <1>3, <2>3
<1>5. DOMAIN order = 1 .. Cardinality(P)
  OBVIOUS
<1> HIDE DEF order, Pre
<1>6. \A p \in P : p[1] \in Nat /\ p[2] \in Nat /\ p[3] \in Nat
  BY <1>2
<1>7. \A x \in P : x \notin Pre[x]
  BY <1>3, <1>6 DEF Sooner
<1>8. \A x, y \in P : x = y \/ x \in Pre[y] \/ y \in Pre[x]
  <2> TAKE x, y \in P
  <2>1. (\E n, u, k : x = <<n, u, k>>) /\ (\E n, u, k : y = <<n, u, k>>)
    BY <1>2
  <2>2. x[1] = y[1] /\ x[2] = y[2] /\ x[3] = y[3] => x = y
    BY <2>1
  <2> QED BY <1>3, <1>6, <2>2 DEF Sooner
<1>9. \A x, y \in P : y \in Pre[x] => Pre[y] \subseteq Pre[x]
  <2> SUFFICES ASSUME NEW x \in P, NEW y \in P, y \in Pre[x], NEW z \in Pre[y]
               PROVE  z \in Pre[x]
    OBVIOUS
  <2>1. z \in P /\ Sooner(z, y) /\ Sooner(y, x)
    BY <1>3
  <2>2. Sooner(z, x)
    BY <1>6, <2>1 DEF Sooner
  <2> QED BY <1>3, <2>1, <2>2
<1>10. Lists(order, P, Pre)
  BY <1>2, <1>3, <1>4, <1>5, <1>7, <1>8, <1>9, ListedInOrder
<1> QED BY <1>1, <1>5, <1>10 DEF Lists, P

\* Sorted by id they are the same cores.
LEMMA SortedListed ==
  ASSUME NEW n \in Nat, NEW cores, DOMAIN cores = 1 .. n, \A i \in 1 .. n : cores[i].id \in Int
  PROVE  \E order :
           /\ DOMAIN order = 1 .. n
           /\ SortedById(cores) = [i \in 1 .. n |-> cores[order[i]]]
           /\ \A i \in 1 .. n : order[i] \in 1 .. n
           /\ \A j \in 1 .. n : \E i \in 1 .. n : order[i] = j
           /\ \A i, j \in 1 .. n : order[i] = order[j] => i = j
           /\ \A i, j \in 1 .. n : i < j => cores[order[i]].id <= cores[order[j]].id
<1> DEFINE S == 1 .. n
           Less(i, j) == cores[i].id < cores[j].id \/ (cores[i].id = cores[j].id /\ i < j)
           order == [i \in 1 .. Cardinality(S) |->
                       CHOOSE x \in S : Cardinality({y \in S : Less(y, x)}) = i - 1]
           Pre == [x \in S |-> {y \in S : Less(y, x)}]
<1>1. IsFiniteSet(S) /\ Cardinality(S) = n
  BY FS_Interval
<1>2. SortedById(cores) = [i \in DOMAIN order |-> cores[order[i]]]
  BY DEF SortedById, InOrder
<1>3. Pre \in [S -> SUBSET S] /\ \A x \in S : Pre[x] = {y \in S : Less(y, x)}
  <2> HIDE DEF Less, S
  <2> QED OBVIOUS
<1>4. ASSUME NEW i \in 1 .. Cardinality(S), NEW x \in S, Cardinality(Pre[x]) = i - 1
      PROVE  order[i] \in S /\ Cardinality(Pre[order[i]]) = i - 1
  <2> HIDE DEF Less, S
  <2>1. Cardinality({y \in S : Less(y, x)}) = i - 1
    BY <1>3, <1>4
  <2>2. order[i] = CHOOSE z \in S : Cardinality({y \in S : Less(y, z)}) = i - 1
    OBVIOUS
  <2>3. order[i] \in S /\ Cardinality({y \in S : Less(y, order[i])}) = i - 1
    BY <2>1, <2>2
  <2> QED BY <1>3, <2>3
<1>5. DOMAIN order = 1 .. Cardinality(S)
  OBVIOUS
<1> HIDE DEF order, Pre
<1>6. \A i \in S : i \in Int /\ cores[i].id \in Int
  OBVIOUS
<1>7. /\ \A x \in S : ~Less(x, x)
      /\ \A x, y \in S : x = y \/ Less(x, y) \/ Less(y, x)
      /\ \A x, y, z \in S : Less(x, y) /\ Less(y, z) => Less(x, z)
      /\ \A x, y \in S : Less(x, y) => cores[x].id <= cores[y].id
  <2> HIDE DEF S
  <2> QED BY <1>6
<1> HIDE DEF Less
<1>8. Lists(order, S, Pre)
  <2>1. \A x \in S : x \notin Pre[x]
    BY <1>3, <1>7
  <2>2. \A x, y \in S : x = y \/ x \in Pre[y] \/ y \in Pre[x]
    BY <1>3, <1>7
  <2>3. \A x, y \in S : y \in Pre[x] => Pre[y] \subseteq Pre[x]
    BY <1>3, <1>7
  <2> HIDE DEF S
  <2> QED BY <1>1, <1>3, <1>4, <1>5, <2>1, <2>2, <2>3, ListedInOrder
<1>9. \A i, j \in 1 .. n : i < j => cores[order[i]].id <= cores[order[j]].id
  <2> TAKE i, j \in 1 .. n
  <2>1. i < j => order[i] \in Pre[order[j]] /\ order[i] \in S /\ order[j] \in S
    BY <1>1, <1>8 DEF Lists
  <2> QED BY <1>3, <1>7, <2>1
<1> QED BY <1>1, <1>2, <1>5, <1>8, <1>9 DEF Lists

\* The list of cores has each place of the tree once, by ascending id.
LEMMA CoresListed ==
  ASSUME NEW m \in Machines
  PROVE  LET cores == Load(m).cores
             n == Cardinality({KeyOf(m, c) : c \in Present(m)})
         IN  /\ n \in Nat /\ Len(cores) = n /\ DOMAIN cores = 1 .. n
             /\ cores # <<>> => n > 0
             /\ \A i, j \in 1 .. n : i < j => cores[i].id <= cores[j].id
             /\ \E place :
                  /\ \A i \in 1 .. n : /\ place[i] \in Places(Nodes(m))
                                       /\ cores[i] = CoreAt(Nodes(m), place[i])
                  /\ \A p \in Places(Nodes(m)) : \E i \in 1 .. n : place[i] = p
                  /\ \A i, j \in 1 .. n : place[i] = place[j] => i = j
<1> DEFINE cores == Load(m).cores
           n == Cardinality({KeyOf(m, c) : c \in Present(m)})
           all == AllCores(Nodes(m))
           P == Places(Nodes(m))
<1>1. n = Cardinality(P) /\ n \in Nat
  BY PlacesCounted, FS_CardinalityType
<1>2. PICK tree :
        /\ DOMAIN tree = 1 .. Cardinality(P)
        /\ all = [i \in DOMAIN tree |-> CoreAt(Nodes(m), tree[i])]
        /\ \A i \in DOMAIN tree : tree[i] \in P
        /\ \A p \in P : \E i \in DOMAIN tree : tree[i] = p
        /\ \A i, j \in DOMAIN tree : tree[i] = tree[j] => i = j
  BY AllCoresListed
<1>3. cores = SortedById(all)
  BY DEF Load, NewSystem
<1> HIDE DEF cores, n, all, P
<1>4. DOMAIN all = 1 .. n /\ \A i \in 1 .. n : all[i] = CoreAt(Nodes(m), tree[i])
  BY <1>1, <1>2
<1>5. \A i \in 1 .. n : all[i].id \in Int
  BY <1>1, <1>2, <1>4, PlacesCounted DEF P
<1>6. PICK order :
        /\ DOMAIN order = 1 .. n
        /\ cores = [i \in 1 .. n |-> all[order[i]]]
        /\ \A i \in 1 .. n : order[i] \in 1 .. n
        /\ \A j \in 1 .. n : \E i \in 1 .. n : order[i] = j
        /\ \A i, j \in 1 .. n : order[i] = order[j] => i = j
        /\ \A i, j \in 1 .. n : i < j => all[order[i]].id <= all[order[j]].id
  BY <1>1, <1>3, <1>4, <1>5, SortedListed
<1>7. Len(cores) = n /\ DOMAIN cores = 1 .. n
  BY <1>1, <1>6
<1>8. cores # <<>> => n > 0
  <2> SUFFICES ASSUME n = 0 PROVE cores = <<>>
    BY <1>1
  <2> QED BY <1>6
<1>9. \A i, j \in 1 .. n : i < j => cores[i].id <= cores[j].id
  BY <1>6
<1> DEFINE place == [i \in 1 .. n |-> tree[order[i]]]
<1>10. \A i \in 1 .. n : place[i] \in P /\ cores[i] = CoreAt(Nodes(m), place[i])
  BY <1>1, <1>2, <1>4, <1>6
<1>11. \A p \in P : \E i \in 1 .. n : place[i] = p
  BY <1>1, <1>2, <1>6
<1>12. \A i, j \in 1 .. n : place[i] = place[j] => i = j
  BY <1>1, <1>2, <1>6
<1> HIDE DEF place
<1> QED BY <1>1, <1>7, <1>8, <1>9, <1>10, <1>11, <1>12 DEF cores, n, P

\* The index gives each CPU the one place that has it.
LEMMA IndexKeyed ==
  ASSUME NEW m \in Machines
  PROVE  LET s == Load(m)
         IN  /\ s.nodes = Nodes(m) /\ DOMAIN s.places = Present(m)
             /\ \A c \in Present(m) :
                  /\ s.places[c] \in Places(s.nodes)
                  /\ IdsAt(s.nodes, s.places[c]) = KeyOf(m, c)
             /\ \A p \in Places(s.nodes) :
                  Threads(CoreAt(s.nodes, p)) = {c \in Present(m) : s.places[c] = p}
<1> DEFINE s == Load(m)
           nodes == Nodes(m)
           cpus == UNION {Threads(CoreAt(nodes, p)) : p \in Places(nodes)}
<1>1. /\ s.nodes = nodes
      /\ s.places = [c \in cpus |-> CHOOSE p \in Places(nodes) : c \in Threads(CoreAt(nodes, p))]
  BY DEF Load, NewSystem
<1>2. \A p \in Places(nodes) :
        Threads(CoreAt(nodes, p)) = {c \in Present(m) : KeyOf(m, c) = IdsAt(nodes, p)}
  BY PlacesKeyed
<1>3. \A c \in Present(m) : \E p \in Places(nodes) : KeyOf(m, c) = IdsAt(nodes, p)
  BY PlacesKeyed
<1>4. \A p, q \in Places(nodes) : IdsAt(nodes, p) = IdsAt(nodes, q) => p = q
  BY PlacesKeyed
<1> HIDE DEF s, nodes
<1>5. cpus = Present(m)
  <2>1. \A p \in Places(nodes) : Threads(CoreAt(nodes, p)) \subseteq Present(m)
    BY <1>2
  <2>2. \A c \in Present(m) : \E p \in Places(nodes) : c \in Threads(CoreAt(nodes, p))
    BY <1>2, <1>3
  <2> QED BY <2>1, <2>2
<1> HIDE DEF cpus
<1>6. ASSUME NEW c \in Present(m)
      PROVE  s.places[c] \in Places(nodes) /\ IdsAt(nodes, s.places[c]) = KeyOf(m, c)
  <2>1. \E p \in Places(nodes) : c \in Threads(CoreAt(nodes, p))
    BY <1>2, <1>3
  <2>2. s.places[c] = CHOOSE p \in Places(nodes) : c \in Threads(CoreAt(nodes, p))
    BY <1>1, <1>5
  <2>3. s.places[c] \in Places(nodes) /\ c \in Threads(CoreAt(nodes, s.places[c]))
    BY <2>1, <2>2
  <2> QED BY <1>2, <2>3
<1>7. ASSUME NEW p \in Places(nodes)
      PROVE  Threads(CoreAt(nodes, p)) = {c \in Present(m) : s.places[c] = p}
  BY <1>2, <1>4, <1>6
<1> QED BY <1>1, <1>5, <1>6, <1>7 DEF s, nodes

\* The CPUs of a machine are the hyperthreads of the list's cores, each once.
LEMMA CountsAgree ==
  ASSUME NEW m \in Machines
  PROVE  LogicalCpus(Load(m)) = Cardinality(Present(m))
<1> DEFINE cores == Load(m).cores
           n == Cardinality({KeyOf(m, c) : c \in Present(m)})
           P == Places(Nodes(m))
           pairs == UNION {{i} \X DOMAIN cores[i].hyperthreads : i \in DOMAIN cores}
           f == [q \in pairs |-> cores[q[1]].hyperthreads[q[2]]]
<1>1. DOMAIN cores = 1 .. n
  BY CoresListed
<1>2. PICK place :
        /\ \A i \in 1 .. n : place[i] \in P /\ cores[i] = CoreAt(Nodes(m), place[i])
        /\ \A p \in P : \E i \in 1 .. n : place[i] = p
        /\ \A i, j \in 1 .. n : place[i] = place[j] => i = j
  BY CoresListed
<1>3. IsFiniteSet(Present(m)) /\ Present(m) \subseteq Int
  BY CpusOf
<1>4. \A p \in P : Threads(CoreAt(Nodes(m), p)) = {c \in Present(m) : Load(m).places[c] = p}
  BY IndexKeyed
<1>5. \A c \in Present(m) : Load(m).places[c] \in P
  BY IndexKeyed
<1>6. \A p \in P : CoreAt(Nodes(m), p).hyperthreads = Ascending(Threads(CoreAt(Nodes(m), p)))
  BY PlacesKeyed
<1>7. LogicalCpus(Load(m)) = Cardinality(pairs)
  BY DEF LogicalCpus
<1> HIDE DEF cores, n, P
<1>8. ASSUME NEW i \in 1 .. n
      PROVE  LET h == cores[i].hyperthreads
             IN  /\ \A k \in DOMAIN h : h[k] \in Present(m) /\ Load(m).places[h[k]] = place[i]
                 /\ \A c \in Present(m) :
                      Load(m).places[c] = place[i] => \E k \in DOMAIN h : h[k] = c
                 /\ \A k, l \in DOMAIN h : h[k] = h[l] => k = l
  <2> DEFINE T == Threads(CoreAt(Nodes(m), place[i]))
  <2>1. cores[i].hyperthreads = Ascending(T) /\ T = {c \in Present(m) : Load(m).places[c] = place[i]}
    BY <1>2, <1>4, <1>6
  <2> HIDE DEF T
  <2>2. T \in SUBSET Present(m) /\ T \in SUBSET Int
    BY <1>3, <2>1
  <2>3. IsFiniteSet(T)
    BY <1>3, <2>2, FS_Subset
  <2>4. /\ \A k \in DOMAIN Ascending(T) : Ascending(T)[k] \in T
        /\ \A x \in T : \E k \in DOMAIN Ascending(T) : Ascending(T)[k] = x
        /\ \A k, l \in DOMAIN Ascending(T) : Ascending(T)[k] = Ascending(T)[l] => k = l
    BY <2>2, <2>3, AscendingLists
  <2> DEFINE h == Ascending(T)
  <2>5. cores[i].hyperthreads = h
    BY <2>1
  <2>6. /\ \A k \in DOMAIN h : h[k] \in T
        /\ \A x \in T : \E k \in DOMAIN h : h[k] = x
        /\ \A k, l \in DOMAIN h : h[k] = h[l] => k = l
    BY <2>4
  <2> HIDE DEF h
  <2>7. \A k \in DOMAIN h : h[k] \in Present(m) /\ Load(m).places[h[k]] = place[i]
    BY <2>1, <2>6
  <2>8. \A c \in Present(m) : Load(m).places[c] = place[i] => \E k \in DOMAIN h : h[k] = c
    BY <2>1, <2>6
  <2> QED BY <2>5, <2>6, <2>7, <2>8
<1>9. \A q \in pairs : q = <<q[1], q[2]>> /\ q[1] \in 1 .. n /\ q[2] \in DOMAIN cores[q[1]].hyperthreads
  BY <1>1
<1>10. \A i \in 1 .. n : \A k \in DOMAIN cores[i].hyperthreads : <<i, k>> \in pairs
  BY <1>1
<1> HIDE DEF pairs
<1>11. f \in [pairs -> Present(m)]
  BY <1>8, <1>9
<1>12. \A q \in pairs : f[q] = cores[q[1]].hyperthreads[q[2]]
  OBVIOUS
<1> HIDE DEF f
<1>13. ASSUME NEW q \in pairs, NEW r \in pairs, f[q] = f[r]
       PROVE  q = r
  <2>1. place[q[1]] = Load(m).places[f[q]] /\ place[r[1]] = Load(m).places[f[r]]
    BY <1>8, <1>9, <1>12
  <2>2. q[1] = r[1]
    BY <1>2, <1>9, <1>13, <2>1
  <2>3. q[2] = r[2]
    BY <1>8, <1>9, <1>12, <1>13, <2>2
  <2> QED BY <1>9, <2>2, <2>3
<1>14. ASSUME NEW c \in Present(m)
       PROVE  \E q \in pairs : f[q] = c
  <2>1. PICK i \in 1 .. n : place[i] = Load(m).places[c]
    BY <1>2, <1>5
  <2>2. PICK k \in DOMAIN cores[i].hyperthreads : cores[i].hyperthreads[k] = c
    BY <1>8, <2>1
  <2>3. <<i, k>> \in pairs /\ f[<<i, k>>] = c
    BY <1>10, <1>12, <2>2
  <2> QED BY <2>3
<1>15. f \in Injection(pairs, Present(m)) /\ f \in Surjection(pairs, Present(m))
  BY <1>11, <1>13, <1>14 DEF Injection, IsInjective, Surjection
<1> QED BY <1>3, <1>7, <1>15, FS_Injection

\* The tree of every machine is what its files say.
LEMMA TreeHolds ==
  ASSUME NEW m \in Machines
  PROVE  TreeFaithful(m, Load(m))
<1> DEFINE s == Load(m)
           key(c) == <<NodeId(m, c), ComplexId(m, c), CoreId(m, c)>>
<1>1. \A c \in Present(m) : key(c) = KeyOf(m, c)
  BY DEF KeyOf
<1>2. s.nodes = Nodes(m) /\ DOMAIN s.places = Present(m)
  BY IndexKeyed
<1>3. Len(s.cores) = Cardinality({key(c) : c \in Present(m)})
  <2>1. {key(c) : c \in Present(m)} = {KeyOf(m, c) : c \in Present(m)}
    BY <1>1
  <2> QED BY <2>1, CoresListed
<1>4. ASSUME NEW c \in Present(m)
      PROVE  /\ s.places[c] \in Places(s.nodes)
             /\ IdsAt(s.nodes, s.places[c]) = KeyOf(m, c)
             /\ c \in Threads(CoreAt(s.nodes, s.places[c]))
  BY IndexKeyed
<1>5. \A p, q \in Places(s.nodes) : IdsAt(s.nodes, p) = IdsAt(s.nodes, q) => p = q
  BY <1>2, PlacesKeyed
<1>6. \A c, d \in Present(m) : (s.places[c] = s.places[d]) <=> (key(c) = key(d))
  <2> HIDE DEF s
  <2> QED BY <1>4, <1>5 DEF KeyOf
<1>7. \A p \in Places(s.nodes) : \E i \in DOMAIN s.cores : s.cores[i] = CoreAt(s.nodes, p)
  <2> DEFINE n == Cardinality({KeyOf(m, c) : c \in Present(m)})
  <2>1. DOMAIN Load(m).cores = 1 .. n
    BY CoresListed
  <2>2. PICK place :
          /\ \A i \in 1 .. n : /\ place[i] \in Places(Nodes(m))
                               /\ Load(m).cores[i] = CoreAt(Nodes(m), place[i])
          /\ \A p \in Places(Nodes(m)) : \E i \in 1 .. n : place[i] = p
    BY CoresListed
  <2> HIDE DEF n
  <2>3. \A p \in Places(Nodes(m)) :
          \E i \in DOMAIN Load(m).cores : Load(m).cores[i] = CoreAt(Nodes(m), p)
    BY <2>1, <2>2
  <2> QED BY <1>2, <2>3
<1>8. ASSUME NEW c \in Present(m)
      PROVE  /\ c \in Threads(CurrentCore(s, c))
             /\ <<CurrentNode(s, c).id, CurrentComplex(s, c).id, CurrentCore(s, c).id>> = key(c)
             /\ \E i \in DOMAIN s.cores : s.cores[i] = CurrentCore(s, c)
  <2> HIDE DEF s
  <2> QED BY <1>4, <1>7 DEF CurrentCore, CurrentComplex, CurrentNode, CoreAt, IdsAt, KeyOf
<1>9. \A i, j \in DOMAIN s.cores : i < j => s.cores[i].id <= s.cores[j].id
  BY CoresListed
<1>10. LogicalCpus(s) = Cardinality(Present(m))
  BY CountsAgree
<1> HIDE DEF s
<1> QED BY <1>2, <1>3, <1>6, <1>8, <1>9, <1>10 DEF TreeFaithful, s

-----------------------------------------------------------------------------
(* The masks and the wake types of a system.                               *)

\* What is looked up for a CPU is around it, and what is in a core is there.
LEMMA Around ==
  ASSUME NEW m \in Machines
  PROVE  LET s == Load(m)
         IN  /\ \A c \in Present(m) :
                  /\ c \in Threads(CurrentCore(s, c))
                  /\ CurrentCore(s, c) \in ToSet(CurrentComplex(s, c).cores)
                  /\ CurrentComplex(s, c) \in ToSet(CurrentNode(s, c).complexes)
                  /\ CurrentNode(s, c) \in ToSet(s.nodes)
             /\ \A n \in DOMAIN s.nodes : \A x \in DOMAIN s.nodes[n].complexes :
                  \A k \in DOMAIN s.nodes[n].complexes[x].cores :
                    \A c \in Threads(s.nodes[n].complexes[x].cores[k]) :
                      c \in Present(m) /\ s.places[c] = <<n, x, k>>
<1> DEFINE s == Load(m)
<1>1. /\ s.nodes = Nodes(m) /\ DOMAIN s.places = Present(m)
      /\ \A c \in Present(m) :
           /\ s.places[c] \in Places(s.nodes)
           /\ IdsAt(s.nodes, s.places[c]) = KeyOf(m, c)
      /\ \A p \in Places(s.nodes) :
           Threads(CoreAt(s.nodes, p)) = {c \in Present(m) : s.places[c] = p}
  BY IndexKeyed
<1>2. \A p \in Places(s.nodes) :
        /\ p[1] \in DOMAIN s.nodes /\ p[2] \in DOMAIN s.nodes[p[1]].complexes
        /\ p[3] \in DOMAIN s.nodes[p[1]].complexes[p[2]].cores
  BY <1>1, PlacesKeyed
<1> HIDE DEF s
<1>3. ASSUME NEW c \in Present(m)
      PROVE  /\ c \in Threads(CurrentCore(s, c))
             /\ CurrentCore(s, c) \in ToSet(CurrentComplex(s, c).cores)
             /\ CurrentComplex(s, c) \in ToSet(CurrentNode(s, c).complexes)
             /\ CurrentNode(s, c) \in ToSet(s.nodes)
  BY <1>1, <1>2 DEF CurrentCore, CurrentComplex, CurrentNode, CoreAt, ToSet
<1>4. ASSUME NEW n \in DOMAIN s.nodes, NEW x \in DOMAIN s.nodes[n].complexes,
             NEW k \in DOMAIN s.nodes[n].complexes[x].cores,
             NEW c \in Threads(s.nodes[n].complexes[x].cores[k])
      PROVE  c \in Present(m) /\ s.places[c] = <<n, x, k>>
  <2>1. <<n, x, k>> \in Places(s.nodes)
    BY DEF Places
  <2>2. c \in Threads(CoreAt(s.nodes, <<n, x, k>>))
    BY DEF CoreAt
  <2> QED BY <1>1, <2>1, <2>2
<1> QED BY <1>3, <1>4 DEF s

\* A mask has each of the words of a cpu_set_t.
IsMask(mask) == DOMAIN mask = 0 .. Words - 1

\* The bit of a CPU, and no other.
LEMMA CpuSetHolds ==
  ASSUME NEW c \in 0 .. Width * Words - 1
  PROVE  IsMask(CpuSet(c)) /\ Cpus(CpuSet(c)) = {c}
<1> DEFINE q == c \div Width
           r == c % Width
<1>1. Width \in Nat \ {0} /\ Words \in Nat \ {0} /\ c \in Nat /\ c < Width * Words
  BY TopologyAssumption
<1>2. q \in Nat /\ r \in Nat /\ c = q * Width + r
  BY <1>1
<1>3. CpuSet(c) = [[w \in 0 .. Words - 1 |-> {}] EXCEPT ![q] = {r}]
  BY DEF CpuSet, NoBits
<1> HIDE DEF q, r
<1>4. q < Words
  <2>1. SUFFICES ASSUME q >= Words PROVE FALSE
    BY <1>1, <1>2
  <2>2. q * Width >= Words * Width
    BY <1>1, <1>2, <2>1
  <2>3. Words * Width = Width * Words /\ q * Width \in Int /\ Width * Words \in Int
    BY <1>1, <1>2
  <2> QED BY <1>1, <1>2, <2>2, <2>3
<1>5. q \in 0 .. Words - 1
  BY <1>1, <1>2, <1>4
<1>6. /\ DOMAIN CpuSet(c) = 0 .. Words - 1 /\ CpuSet(c)[q] = {r}
      /\ \A w \in 0 .. Words - 1 : w # q => CpuSet(c)[w] = {}
  BY <1>3, <1>5
<1>7. Cpus(CpuSet(c)) = {q * Width + r}
  BY <1>5, <1>6 DEF Cpus
<1> QED BY <1>2, <1>6, <1>7 DEF IsMask

\* What is or-ed together holds what one of its parts holds.
LEMMA CpuOrHolds ==
  ASSUME NEW M, \A mask \in M : IsMask(mask)
  PROVE  IsMask(CpuOr(M)) /\ Cpus(CpuOr(M)) = UNION {Cpus(mask) : mask \in M}
<1>1. IsMask(CpuOr(M)) /\ \A w \in 0 .. Words - 1 : CpuOr(M)[w] = UNION {mask[w] : mask \in M}
  BY DEF CpuOr, IsMask
<1>2. \A mask : IsMask(mask) =>
        \A c : c \in Cpus(mask) <=> \E w \in 0 .. Words - 1 : \E b \in mask[w] : c = w * Width + b
  BY DEF Cpus, IsMask
<1>3. Cpus(CpuOr(M)) \subseteq UNION {Cpus(mask) : mask \in M}
  <2> SUFFICES ASSUME NEW c \in Cpus(CpuOr(M)) PROVE \E mask \in M : c \in Cpus(mask)
    OBVIOUS
  <2>1. PICK w \in 0 .. Words - 1 : \E b \in CpuOr(M)[w] : c = w * Width + b
    BY <1>1, <1>2
  <2>2. PICK b \in CpuOr(M)[w] : c = w * Width + b
    BY <2>1
  <2>3. PICK mask \in M : b \in mask[w]
    BY <1>1
  <2> QED BY <1>2, <2>2, <2>3
<1>4. ASSUME NEW mask \in M PROVE Cpus(mask) \subseteq Cpus(CpuOr(M))
  <2> SUFFICES ASSUME NEW c \in Cpus(mask) PROVE c \in Cpus(CpuOr(M))
    OBVIOUS
  <2>1. PICK w \in 0 .. Words - 1 : \E b \in mask[w] : c = w * Width + b
    BY <1>2
  <2>2. PICK b \in mask[w] : c = w * Width + b
    BY <2>1
  <2>3. b \in CpuOr(M)[w]
    BY <1>1, <2>2
  <2> QED BY <1>1, <1>2, <2>2, <2>3
<1> QED BY <1>1, <1>3, <1>4

\* The mask of a core, ...
LEMMA CoreMaskHolds ==
  ASSUME NEW core, Threads(core) \subseteq 0 .. Width * Words - 1
  PROVE  IsMask(CoreMask(core)) /\ Cpus(CoreMask(core)) = Threads(core)
<1> DEFINE M == {CpuSet(c) : c \in Threads(core)}
<1>1. \A mask \in M : IsMask(mask)
  BY CpuSetHolds
<1>2. IsMask(CpuOr(M)) /\ Cpus(CpuOr(M)) = UNION {Cpus(mask) : mask \in M}
  BY <1>1, CpuOrHolds
<1>3. \A c \in Threads(core) : Cpus(CpuSet(c)) = {c}
  BY CpuSetHolds
<1>4. UNION {Cpus(mask) : mask \in M} = Threads(core)
  BY <1>3
<1> QED BY <1>2, <1>4 DEF CoreMask

\* The CPUs of a complex, and of a node.
InCores(x) == UNION {Threads(core) : core \in ToSet(x.cores)}
InComplexes(node) == UNION {InCores(x) : x \in ToSet(node.complexes)}

\* ... of a complex ...
LEMMA ComplexMaskHolds ==
  ASSUME NEW x, InCores(x) \subseteq 0 .. Width * Words - 1
  PROVE  IsMask(ComplexMask(x)) /\ Cpus(ComplexMask(x)) = InCores(x)
<1> DEFINE M == {CoreMask(core) : core \in ToSet(x.cores)}
<1>1. \A core \in ToSet(x.cores) : IsMask(CoreMask(core)) /\ Cpus(CoreMask(core)) = Threads(core)
  BY CoreMaskHolds DEF InCores
<1>2. IsMask(CpuOr(M)) /\ Cpus(CpuOr(M)) = UNION {Cpus(mask) : mask \in M}
  BY <1>1, CpuOrHolds
<1>3. UNION {Cpus(mask) : mask \in M} = InCores(x)
  BY <1>1 DEF InCores
<1> QED BY <1>2, <1>3 DEF ComplexMask

\* ... and of a node.
LEMMA NodeMaskHolds ==
  ASSUME NEW node, InComplexes(node) \subseteq 0 .. Width * Words - 1
  PROVE  IsMask(NodeMask(node)) /\ Cpus(NodeMask(node)) = InComplexes(node)
<1> DEFINE M == {ComplexMask(x) : x \in ToSet(node.complexes)}
<1>1. \A x \in ToSet(node.complexes) : IsMask(ComplexMask(x)) /\ Cpus(ComplexMask(x)) = InCores(x)
  BY ComplexMaskHolds DEF InComplexes
<1>2. IsMask(CpuOr(M)) /\ Cpus(CpuOr(M)) = UNION {Cpus(mask) : mask \in M}
  BY <1>1, CpuOrHolds
<1>3. UNION {Cpus(mask) : mask \in M} = InComplexes(node)
  BY <1>1 DEF InComplexes
<1> QED BY <1>2, <1>3 DEF NodeMask

\* The masks of a system, by the places of the CPUs.
LEMMA MasksOf ==
  ASSUME NEW m \in Machines
  PROVE  LET s == Load(m)
         IN  /\ Cpus(SystemMask(s)) = Present(m)
             /\ \A n \in DOMAIN s.nodes :
                  /\ Cpus(NodeMask(s.nodes[n])) = {c \in Present(m) : s.places[c][1] = n}
                  /\ \A x \in DOMAIN s.nodes[n].complexes :
                       Cpus(ComplexMask(s.nodes[n].complexes[x])) =
                         {c \in Present(m) : s.places[c][1] = n /\ s.places[c][2] = x}
             /\ \A p \in Places(s.nodes) :
                  Cpus(CoreMask(CoreAt(s.nodes, p))) = {c \in Present(m) : s.places[c] = p}
<1> DEFINE s == Load(m)
<1>1. /\ \A c \in Present(m) : s.places[c] \in Places(s.nodes)
      /\ \A p \in Places(s.nodes) :
           Threads(CoreAt(s.nodes, p)) = {c \in Present(m) : s.places[c] = p}
  BY IndexKeyed
<1>2. /\ \A c \in Present(m) :
           /\ c \in Threads(CurrentCore(s, c))
           /\ CurrentCore(s, c) \in ToSet(CurrentComplex(s, c).cores)
           /\ CurrentComplex(s, c) \in ToSet(CurrentNode(s, c).complexes)
           /\ CurrentNode(s, c) \in ToSet(s.nodes)
      /\ \A n \in DOMAIN s.nodes : \A x \in DOMAIN s.nodes[n].complexes :
           \A k \in DOMAIN s.nodes[n].complexes[x].cores :
             \A c \in Threads(s.nodes[n].complexes[x].cores[k]) :
               c \in Present(m) /\ s.places[c] = <<n, x, k>>
  BY Around
<1>3. Present(m) \subseteq 0 .. Width * Words - 1
  BY CpusOf
<1> HIDE DEF s
<1>4. ASSUME NEW n \in DOMAIN s.nodes, NEW x \in DOMAIN s.nodes[n].complexes
      PROVE  InCores(s.nodes[n].complexes[x]) =
               {c \in Present(m) : s.places[c][1] = n /\ s.places[c][2] = x}
  <2>1. \A c \in InCores(s.nodes[n].complexes[x]) :
          c \in Present(m) /\ s.places[c][1] = n /\ s.places[c][2] = x
    <3>1. \A c \in InCores(s.nodes[n].complexes[x]) :
            \E k \in DOMAIN s.nodes[n].complexes[x].cores :
              c \in Threads(s.nodes[n].complexes[x].cores[k])
      BY DEF InCores, ToSet
    <3> QED BY <1>2, <3>1
  <2>2. \A c \in Present(m) : s.places[c][1] = n /\ s.places[c][2] = x =>
          c \in InCores(s.nodes[n].complexes[x])
    BY <1>2 DEF InCores, CurrentComplex
  <2> QED BY <2>1, <2>2
<1>5. ASSUME NEW n \in DOMAIN s.nodes
      PROVE  InComplexes(s.nodes[n]) = {c \in Present(m) : s.places[c][1] = n}
  <2>1. \A c \in InComplexes(s.nodes[n]) : c \in Present(m) /\ s.places[c][1] = n
    <3>1. \A c \in InComplexes(s.nodes[n]) :
            \E x \in DOMAIN s.nodes[n].complexes : c \in InCores(s.nodes[n].complexes[x])
      BY DEF InComplexes, ToSet
    <3> QED BY <1>4, <3>1
  <2>2. \A c \in Present(m) : s.places[c][1] = n => c \in InComplexes(s.nodes[n])
    <3>1. \A c \in Present(m) : c \in InCores(CurrentComplex(s, c))
      BY <1>2 DEF InCores
    <3>2. \A c \in Present(m) : c \in InComplexes(CurrentNode(s, c))
      BY <1>2, <3>1 DEF InComplexes
    <3> QED BY <3>2 DEF CurrentNode
  <2> QED BY <2>1, <2>2
<1>6. ASSUME NEW n \in DOMAIN s.nodes, NEW x \in DOMAIN s.nodes[n].complexes
      PROVE  Cpus(ComplexMask(s.nodes[n].complexes[x])) =
               {c \in Present(m) : s.places[c][1] = n /\ s.places[c][2] = x}
  BY <1>3, <1>4, ComplexMaskHolds
<1>7. ASSUME NEW n \in DOMAIN s.nodes
      PROVE  /\ IsMask(NodeMask(s.nodes[n]))
             /\ Cpus(NodeMask(s.nodes[n])) = {c \in Present(m) : s.places[c][1] = n}
  BY <1>3, <1>5, NodeMaskHolds
<1>8. ASSUME NEW p \in Places(s.nodes)
      PROVE  Cpus(CoreMask(CoreAt(s.nodes, p))) = {c \in Present(m) : s.places[c] = p}
  BY <1>1, <1>3, CoreMaskHolds
<1>9. Cpus(SystemMask(s)) = Present(m)
  <2> DEFINE M == {NodeMask(node) : node \in ToSet(s.nodes)}
  <2>1. \A mask \in M : IsMask(mask)
    BY <1>7 DEF ToSet
  <2>2. Cpus(CpuOr(M)) = UNION {Cpus(mask) : mask \in M}
    BY <2>1, CpuOrHolds
  <2>3. \A mask \in M : Cpus(mask) \subseteq Present(m)
    BY <1>7 DEF ToSet
  <2>4. \A c \in Present(m) : \E mask \in M : c \in Cpus(mask)
    <3> SUFFICES ASSUME NEW c \in Present(m) PROVE \E mask \in M : c \in Cpus(mask)
      OBVIOUS
    <3>1. CurrentNode(s, c) \in ToSet(s.nodes)
      BY <1>2
    <3>2. s.places[c][1] \in DOMAIN s.nodes
      BY <1>1 DEF Places
    <3>3. c \in Cpus(NodeMask(CurrentNode(s, c)))
      BY <1>7, <3>2 DEF CurrentNode
    <3> QED BY <3>1, <3>3
  <2> HIDE DEF M
  <2>5. UNION {Cpus(mask) : mask \in M} = Present(m)
    BY <2>3, <2>4
  <2> QED BY <2>2, <2>5 DEF SystemMask, M
<1> QED BY <1>6, <1>7, <1>8, <1>9 DEF s

\* The masks of every machine are what its tree says.
LEMMA MasksHold ==
  ASSUME NEW m \in Machines
  PROVE  MasksFaithful(m, Load(m))
<1> DEFINE s == Load(m)
<1>1. /\ Cpus(SystemMask(s)) = Present(m)
      /\ \A n \in DOMAIN s.nodes :
           /\ Cpus(NodeMask(s.nodes[n])) = {c \in Present(m) : s.places[c][1] = n}
           /\ \A x \in DOMAIN s.nodes[n].complexes :
                Cpus(ComplexMask(s.nodes[n].complexes[x])) =
                  {c \in Present(m) : s.places[c][1] = n /\ s.places[c][2] = x}
      /\ \A p \in Places(s.nodes) :
           Cpus(CoreMask(CoreAt(s.nodes, p))) = {c \in Present(m) : s.places[c] = p}
  BY MasksOf
<1>2. /\ \A c \in Present(m) :
           /\ c \in Threads(CurrentCore(s, c))
           /\ CurrentCore(s, c) \in ToSet(CurrentComplex(s, c).cores)
      /\ \A n \in DOMAIN s.nodes : \A x \in DOMAIN s.nodes[n].complexes :
           \A k \in DOMAIN s.nodes[n].complexes[x].cores :
             \A c \in Threads(s.nodes[n].complexes[x].cores[k]) :
               c \in Present(m) /\ s.places[c] = <<n, x, k>>
  BY Around
<1>3. /\ s.nodes = Nodes(m)
      /\ \A c \in Present(m) :
           s.places[c] \in Places(s.nodes) /\ IdsAt(s.nodes, s.places[c]) = KeyOf(m, c)
  BY IndexKeyed
<1>4. \A i, j \in DOMAIN s.nodes : s.nodes[i].id = s.nodes[j].id => i = j
  <2>1. IsMap(Nodes(m), Present(m), NodeKey(m))
    BY Layers
  <2> QED BY <1>3, <2>1 DEF IsMap
<1> HIDE DEF s
<1>5. \A c \in Present(m) :
        /\ s.places[c][1] \in DOMAIN s.nodes
        /\ s.places[c][2] \in DOMAIN s.nodes[s.places[c][1]].complexes
        /\ s.nodes[s.places[c][1]].id = NodeId(m, c)
  <2> SUFFICES ASSUME NEW c \in Present(m)
               PROVE  /\ s.places[c][1] \in DOMAIN s.nodes
                      /\ s.places[c][2] \in DOMAIN s.nodes[s.places[c][1]].complexes
                      /\ s.nodes[s.places[c][1]].id = NodeId(m, c)
    OBVIOUS
  <2> DEFINE p == s.places[c]
  <2>1. p \in Places(s.nodes) /\ IdsAt(s.nodes, p) = KeyOf(m, c)
    BY <1>3
  <2> HIDE DEF p
  <2>2. p[1] \in DOMAIN s.nodes /\ p[2] \in DOMAIN s.nodes[p[1]].complexes
    BY <2>1 DEF Places
  <2>3. s.nodes[p[1]].id = NodeId(m, c)
    BY <2>1 DEF IdsAt, KeyOf
  <2> QED BY <2>2, <2>3 DEF p
<1> SUFFICES ASSUME NEW c \in Present(m)
             PROVE  /\ Cpus(CoreMask(CurrentCore(s, c))) =
                         {d \in Present(m) : s.places[d] = s.places[c]}
                    /\ Cpus(ComplexMask(CurrentComplex(s, c))) =
                         {d \in Present(m) : CurrentComplex(s, d) = CurrentComplex(s, c)}
                    /\ Cpus(NodeMask(CurrentNode(s, c))) =
                         {d \in Present(m) : NodeId(m, d) = NodeId(m, c)}
  BY <1>1 DEF MasksFaithful, s
<1>6. Cpus(CoreMask(CurrentCore(s, c))) = {d \in Present(m) : s.places[d] = s.places[c]}
  BY <1>1, <1>3 DEF CurrentCore
<1>7. Cpus(ComplexMask(CurrentComplex(s, c))) =
        {d \in Present(m) : CurrentComplex(s, d) = CurrentComplex(s, c)}
  <2> DEFINE n == s.places[c][1]
             x == s.places[c][2]
  <2>1. CurrentComplex(s, c) = s.nodes[n].complexes[x]
    BY DEF CurrentComplex
  <2>2. Cpus(ComplexMask(CurrentComplex(s, c))) =
          {d \in Present(m) : s.places[d][1] = n /\ s.places[d][2] = x}
    <3>1. n \in DOMAIN s.nodes /\ x \in DOMAIN s.nodes[n].complexes
      BY <1>5
    <3>2. \A i \in DOMAIN s.nodes : \A j \in DOMAIN s.nodes[i].complexes :
            Cpus(ComplexMask(s.nodes[i].complexes[j])) =
              {d \in Present(m) : s.places[d][1] = i /\ s.places[d][2] = j}
      BY <1>1
    <3> HIDE DEF n, x
    <3>3. Cpus(ComplexMask(s.nodes[n].complexes[x])) =
            {d \in Present(m) : s.places[d][1] = n /\ s.places[d][2] = x}
      BY <3>1, <3>2
    <3> QED BY <2>1, <3>3
  <2>3. ASSUME NEW d \in Present(m), s.places[d][1] = n, s.places[d][2] = x
        PROVE  CurrentComplex(s, d) = CurrentComplex(s, c)
    BY <2>3 DEF CurrentComplex
  <2>4. ASSUME NEW d \in Present(m), CurrentComplex(s, d) = CurrentComplex(s, c)
        PROVE  s.places[d][1] = n /\ s.places[d][2] = x
    <3> DEFINE cores == s.nodes[n].complexes[x].cores
    <3>1. d \in Threads(CurrentCore(s, d)) /\ CurrentCore(s, d) \in ToSet(cores)
      <4>1. CurrentComplex(s, d).cores = cores
        BY <2>1, <2>4
      <4>2. CurrentCore(s, d) \in ToSet(CurrentComplex(s, d).cores)
        BY <1>2
      <4>3. d \in Threads(CurrentCore(s, d))
        BY <1>2
      <4> HIDE DEF cores
      <4> QED BY <4>1, <4>2, <4>3
    <3>2. PICK k \in DOMAIN cores : d \in Threads(cores[k])
      <4> HIDE DEF cores
      <4> QED BY <3>1 DEF ToSet
    <3>3. n \in DOMAIN s.nodes /\ x \in DOMAIN s.nodes[n].complexes
      BY <1>5
    <3> HIDE DEF n, x
    <3>4. s.places[d] = <<n, x, k>>
      BY <1>2, <3>2, <3>3
    <3> QED BY <3>4
  <2> QED BY <2>2, <2>3, <2>4
<1>8. Cpus(NodeMask(CurrentNode(s, c))) = {d \in Present(m) : NodeId(m, d) = NodeId(m, c)}
  <2>1. Cpus(NodeMask(CurrentNode(s, c))) = {d \in Present(m) : s.places[d][1] = s.places[c][1]}
    BY <1>1, <1>5 DEF CurrentNode
  <2>2. \A d \in Present(m) : s.places[d][1] = s.places[c][1] <=> NodeId(m, d) = NodeId(m, c)
    BY <1>4, <1>5
  <2> QED BY <2>1, <2>2
<1> QED BY <1>6, <1>7, <1>8

\* A node has complexes, a complex has CPUs, and a machine with CPUs has nodes.
LEMMA Inhabited ==
  ASSUME NEW m \in Machines
  PROVE  LET s == Load(m)
         IN  /\ Present(m) # {} => 1 \in DOMAIN s.nodes
             /\ \E k \in Nat : DOMAIN s.nodes = 1 .. k
             /\ \A n \in DOMAIN s.nodes :
                  /\ 1 \in DOMAIN s.nodes[n].complexes
                  /\ \E k \in Nat : DOMAIN s.nodes[n].complexes = 1 .. k
                  /\ \A x \in DOMAIN s.nodes[n].complexes :
                       \E c \in Present(m) : s.places[c][1] = n /\ s.places[c][2] = x
<1> DEFINE s == Load(m)
<1>1. s.nodes = Nodes(m)
  BY IndexKeyed
<1>2. \A n \in DOMAIN s.nodes : \A x \in DOMAIN s.nodes[n].complexes :
        \A k \in DOMAIN s.nodes[n].complexes[x].cores :
          \A c \in Threads(s.nodes[n].complexes[x].cores[k]) :
            c \in Present(m) /\ s.places[c] = <<n, x, k>>
  BY Around
<1>3. /\ IsMap(s.nodes, Present(m), NodeKey(m))
      /\ \A n \in DOMAIN s.nodes :
           /\ InNode(m, n) = With(Present(m), NodeKey(m), s.nodes[n])
           /\ IsMap(s.nodes[n].complexes, InNode(m, n), ComplexKey(m))
           /\ \A x \in DOMAIN s.nodes[n].complexes :
                LET cores == s.nodes[n].complexes[x].cores
                IN  /\ InComplex(m, n, x) =
                         With(InNode(m, n), ComplexKey(m), s.nodes[n].complexes[x])
                    /\ IsMap(cores, InComplex(m, n, x), CoreKey(m))
                    /\ \A k \in DOMAIN cores :
                         Threads(cores[k]) = With(InComplex(m, n, x), CoreKey(m), cores[k])
  BY <1>1, Layers DEF InNode, InComplex
<1> HIDE DEF s
<1>4. ASSUME NEW n \in DOMAIN s.nodes, NEW x \in DOMAIN s.nodes[n].complexes
      PROVE  \E c \in Present(m) : s.places[c][1] = n /\ s.places[c][2] = x
  <2> DEFINE complexes == s.nodes[n].complexes
             cores == complexes[x].cores
  <2>1. /\ IsMap(complexes, InNode(m, n), ComplexKey(m))
        /\ InComplex(m, n, x) = With(InNode(m, n), ComplexKey(m), complexes[x])
        /\ IsMap(cores, InComplex(m, n, x), CoreKey(m))
        /\ \A k \in DOMAIN cores :
             Threads(cores[k]) = With(InComplex(m, n, x), CoreKey(m), cores[k])
    BY <1>3
  <2>2. \A k \in DOMAIN cores : \A c \in Threads(cores[k]) :
          c \in Present(m) /\ s.places[c] = <<n, x, k>>
    BY <1>2
  <2>3. x \in DOMAIN complexes
    OBVIOUS
  <2> HIDE DEF complexes, cores
  <2>4. PICK c \in InNode(m, n) : ComplexKey(m)[c] = complexes[x].id
    BY <2>1, <2>3 DEF IsMap
  <2>5. c \in InComplex(m, n, x)
    BY <2>1, <2>4 DEF With
  <2>6. PICK k \in DOMAIN cores : CoreKey(m)[c] = cores[k].id
    BY <2>1, <2>5 DEF IsMap
  <2>7. c \in Threads(cores[k])
    BY <2>1, <2>5, <2>6 DEF With
  <2> QED BY <2>2, <2>7
<1>5. ASSUME NEW n \in DOMAIN s.nodes
      PROVE  /\ 1 \in DOMAIN s.nodes[n].complexes
             /\ \E k \in Nat : DOMAIN s.nodes[n].complexes = 1 .. k
  <2> DEFINE nodes == s.nodes
             complexes == nodes[n].complexes
  <2>1. /\ IsMap(nodes, Present(m), NodeKey(m)) /\ n \in DOMAIN nodes
        /\ InNode(m, n) = With(Present(m), NodeKey(m), nodes[n])
        /\ IsMap(complexes, InNode(m, n), ComplexKey(m))
    BY <1>3
  <2> HIDE DEF nodes, complexes
  <2>2. PICK c \in Present(m) : NodeKey(m)[c] = nodes[n].id
    BY <2>1 DEF IsMap
  <2>3. c \in InNode(m, n)
    BY <2>1, <2>2 DEF With
  <2>4. PICK x \in DOMAIN complexes : TRUE
    BY <2>1, <2>3 DEF IsMap
  <2>5. PICK k \in Nat : DOMAIN complexes = 1 .. k
    BY <2>1 DEF IsMap
  <2>6. 1 \in DOMAIN complexes
    BY <2>4, <2>5
  <2> QED BY <2>5, <2>6 DEF complexes, nodes
<1>6. /\ Present(m) # {} => 1 \in DOMAIN s.nodes
      /\ \E k \in Nat : DOMAIN s.nodes = 1 .. k
  <2>1. IsMap(s.nodes, Present(m), NodeKey(m))
    BY <1>3
  <2>2. PICK k \in Nat : DOMAIN s.nodes = 1 .. k
    BY <2>1 DEF IsMap
  <2>3. Present(m) # {} => \E n \in DOMAIN s.nodes : TRUE
    BY <2>1 DEF IsMap
  <2> QED BY <2>2, <2>3
<1> QED BY <1>4, <1>5, <1>6 DEF s

\* The complexes are counted by the pairs of a node and a complex of it.
LEMMA ComplexesCounted ==
  ASSUME NEW m \in Machines
  PROVE  LET s == Load(m)
             pairs == UNION {{n} \X DOMAIN s.nodes[n].complexes : n \in DOMAIN s.nodes}
         IN  /\ IsFiniteSet(pairs) /\ Complexes(s) = Cardinality(pairs)
             /\ \A p, q \in pairs : p # q => Complexes(s) > 1
             /\ Complexes(s) > 1 => \E p \in pairs : p # <<1, 1>>
<1> DEFINE s == Load(m)
           pairs == UNION {{n} \X DOMAIN s.nodes[n].complexes : n \in DOMAIN s.nodes}
           f == [c \in Present(m) |-> <<s.places[c][1], s.places[c][2]>>]
<1>1. Complexes(s) = Cardinality(pairs)
  BY DEF Complexes
<1>2. \A c \in Present(m) : s.places[c] \in Places(s.nodes)
  BY IndexKeyed
<1>3. \A n \in DOMAIN s.nodes : \A x \in DOMAIN s.nodes[n].complexes :
        \E c \in Present(m) : s.places[c][1] = n /\ s.places[c][2] = x
  BY Inhabited
<1>4. IsFiniteSet(Present(m))
  BY CpusOf
<1> HIDE DEF s
<1>5. f \in [Present(m) -> pairs]
  BY <1>2 DEF Places
<1>6. ASSUME NEW p \in pairs PROVE \E c \in Present(m) : f[c] = p
  <2>1. p = <<p[1], p[2]>> /\ p[1] \in DOMAIN s.nodes /\ p[2] \in DOMAIN s.nodes[p[1]].complexes
    OBVIOUS
  <2>2. PICK c \in Present(m) : s.places[c][1] = p[1] /\ s.places[c][2] = p[2]
    BY <1>3, <2>1
  <2>3. f[c] = p
    BY <2>1, <2>2
  <2> QED BY <2>3
<1> HIDE DEF pairs, f
<1>7. f \in Surjection(Present(m), pairs)
  BY <1>5, <1>6 DEF Surjection
<1>8. IsFiniteSet(pairs)
  BY <1>4, <1>7, FS_Surjection
<1>9. ASSUME NEW p \in pairs, NEW q \in pairs, p # q PROVE Cardinality(pairs) > 1
  <2>1. {p, q} \subseteq pairs
    OBVIOUS
  <2>2. Cardinality({p, q}) <= Cardinality(pairs)
    BY <1>8, <2>1, FS_Subset
  <2>3. Cardinality({p}) = 1 /\ IsFiniteSet({p})
    BY FS_Singleton
  <2>4. q \notin {p}
    BY <1>9
  <2>5. Cardinality({p} \cup {q}) = Cardinality({p}) + 1
    BY <2>3, <2>4, FS_AddElement
  <2>6. Cardinality({p} \cup {q}) = 2
    BY <2>3, <2>5
  <2>7. {p, q} = {p} \cup {q}
    OBVIOUS
  <2>8. Cardinality(pairs) \in Nat
    BY <1>8, FS_CardinalityType
  <2> QED BY <2>2, <2>6, <2>7, <2>8
<1>10. ASSUME Cardinality(pairs) > 1 PROVE \E p \in pairs : p # <<1, 1>>
  <2> SUFFICES ASSUME pairs \subseteq {<<1, 1>>} PROVE FALSE
    OBVIOUS
  <2>1. Cardinality({<<1, 1>>}) = 1 /\ IsFiniteSet({<<1, 1>>})
    BY FS_Singleton
  <2>2. Cardinality(pairs) <= 1
    BY <2>1, FS_Subset
  <2>3. Cardinality(pairs) \in Nat
    BY <1>8, FS_CardinalityType
  <2> QED BY <1>10, <2>2, <2>3
<1> QED BY <1>1, <1>8, <1>9, <1>10 DEF s, pairs

\* The first core's mask has its hyperthreads, and not those of a second core.
LEMMA FirstCoreOf ==
  ASSUME NEW m \in Machines, Load(m).cores # <<>>
  PROVE  LET first == Load(m).cores[1]
         IN  /\ Present(m) # {} /\ Cpus(CoreMask(first)) # {}
             /\ Cpus(CoreMask(first)) \subseteq Present(m)
             /\ first.hyperthreads = Ascending(Cpus(CoreMask(first)))
             /\ Len(Load(m).cores) > 1 => Cpus(CoreMask(first)) # Present(m)
<1> DEFINE s == Load(m)
           n == Cardinality({KeyOf(m, c) : c \in Present(m)})
           P == Places(Nodes(m))
<1>1. /\ n \in Nat /\ Len(s.cores) = n /\ DOMAIN s.cores = 1 .. n
      /\ s.cores # <<>> => n > 0
  BY CoresListed
<1>2. PICK place :
        /\ \A i \in 1 .. n : place[i] \in P /\ s.cores[i] = CoreAt(Nodes(m), place[i])
        /\ \A p \in P : \E i \in 1 .. n : place[i] = p
        /\ \A i, j \in 1 .. n : place[i] = place[j] => i = j
  BY CoresListed
<1>3. s.nodes = Nodes(m)
  BY IndexKeyed
<1>4. \A p \in P : /\ Threads(CoreAt(Nodes(m), p)) # {}
                   /\ CoreAt(Nodes(m), p).hyperthreads = Ascending(Threads(CoreAt(Nodes(m), p)))
  BY PlacesKeyed
<1>5. \A p \in P : Threads(CoreAt(Nodes(m), p)) = {c \in Present(m) : s.places[c] = p}
  BY <1>3, IndexKeyed
<1>6. \A p \in P : Cpus(CoreMask(CoreAt(Nodes(m), p))) = {c \in Present(m) : s.places[c] = p}
  BY <1>3, MasksOf
<1>7. s.cores # <<>>
  OBVIOUS
<1> HIDE DEF s, n, P
<1>8. 1 \in 1 .. n
  BY <1>1, <1>7
<1>9. Cpus(CoreMask(s.cores[1])) = {c \in Present(m) : s.places[c] = place[1]}
  BY <1>6, <1>2, <1>8
<1>10. {c \in Present(m) : s.places[c] = place[1]} # {}
  BY <1>4, <1>5, <1>2, <1>8
<1>11. s.cores[1].hyperthreads = Ascending(Cpus(CoreMask(s.cores[1])))
  <2>1. s.cores[1].hyperthreads = Ascending(Threads(s.cores[1]))
    BY <1>4, <1>2, <1>8
  <2>2. Threads(s.cores[1]) = Cpus(CoreMask(s.cores[1]))
    BY <1>5, <1>2, <1>8, <1>9
  <2> QED BY <2>1, <2>2
<1>12. ASSUME Len(s.cores) > 1 PROVE Cpus(CoreMask(s.cores[1])) # Present(m)
  <2>1. 2 \in 1 .. n
    BY <1>1, <1>12
  <2>2. PICK c \in Present(m) : s.places[c] = place[2]
    BY <1>4, <1>5, <1>2, <2>1
  <2>3. place[1] # place[2]
    BY <1>2, <1>8, <2>1
  <2> QED BY <1>9, <2>2, <2>3
<1>13. /\ Present(m) # {} /\ Cpus(CoreMask(s.cores[1])) # {}
       /\ Cpus(CoreMask(s.cores[1])) \subseteq Present(m)
  BY <1>9, <1>10
<1> QED BY <1>11, <1>12, <1>13 DEF s

\* The wake types of every machine with cores differ.
LEMMA WakeTypesHold ==
  ASSUME NEW m \in Machines, Load(m).cores # <<>>
  PROVE  WakeTypesDiffer(Load(m))
<1> DEFINE s == Load(m)
           h == s.cores[1].hyperthreads
           T == Cpus(CoreMask(s.cores[1]))
           pairs == UNION {{n} \X DOMAIN s.nodes[n].complexes : n \in DOMAIN s.nodes}
<1>1. /\ Present(m) # {} /\ h = Ascending(T) /\ T # {} /\ T \subseteq Present(m)
      /\ Len(s.cores) > 1 => T # Present(m)
  BY FirstCoreOf
<1>2. /\ Cpus(SystemMask(s)) = Present(m)
      /\ \A n \in DOMAIN s.nodes :
           /\ Cpus(NodeMask(s.nodes[n])) = {c \in Present(m) : s.places[c][1] = n}
           /\ \A x \in DOMAIN s.nodes[n].complexes :
                Cpus(ComplexMask(s.nodes[n].complexes[x])) =
                  {c \in Present(m) : s.places[c][1] = n /\ s.places[c][2] = x}
  BY MasksOf
<1>3. /\ Present(m) # {} => 1 \in DOMAIN s.nodes
      /\ \E k \in Nat : DOMAIN s.nodes = 1 .. k
      /\ \A n \in DOMAIN s.nodes :
           /\ 1 \in DOMAIN s.nodes[n].complexes
           /\ \E k \in Nat : DOMAIN s.nodes[n].complexes = 1 .. k
           /\ \A x \in DOMAIN s.nodes[n].complexes :
                \E c \in Present(m) : s.places[c][1] = n /\ s.places[c][2] = x
  BY Inhabited
<1>4. /\ \A p, q \in pairs : p # q => Complexes(s) > 1
      /\ Complexes(s) > 1 => \E p \in pairs : p # <<1, 1>>
  BY ComplexesCounted
<1>5. /\ Present(m) \subseteq 0 .. Width * Words - 1
      /\ IsFiniteSet(Present(m)) /\ Present(m) \subseteq Nat
  BY CpusOf
<1>6. /\ \A n \in DOMAIN s.nodes : \A x \in DOMAIN s.nodes[n].complexes : <<n, x>> \in pairs
      /\ \A p \in pairs : /\ p = <<p[1], p[2]>> /\ p[1] \in DOMAIN s.nodes
                          /\ p[2] \in DOMAIN s.nodes[p[1]].complexes
  OBVIOUS
<1> HIDE DEF s, T, pairs
<1>7. ASSUME Len(h) > 1
      PROVE  /\ Cpus(CpuSet(h[1])) = {h[1]} /\ h[1] \in Present(m)
             /\ h[2] \in T /\ h[2] # h[1]
  <2>1. T \in SUBSET Int /\ IsFiniteSet(T)
    BY <1>1, <1>5, FS_Subset
  <2>2. /\ DOMAIN Ascending(T) = 1 .. Cardinality(T) /\ Len(Ascending(T)) = Cardinality(T)
        /\ \A i \in DOMAIN Ascending(T) : Ascending(T)[i] \in T
        /\ \A i, j \in DOMAIN Ascending(T) : Ascending(T)[i] = Ascending(T)[j] => i = j
    BY <2>1, AscendingLists
  <2>3. Cardinality(T) \in Nat
    BY <2>1, FS_CardinalityType
  <2>4. 1 \in DOMAIN Ascending(T) /\ 2 \in DOMAIN Ascending(T)
    BY <1>1, <1>7, <2>2, <2>3
  <2>5. h[1] \in T /\ h[2] \in T /\ h[1] # h[2]
    BY <1>1, <2>2, <2>4
  <2>6. Cpus(CpuSet(h[1])) = {h[1]}
    BY <1>1, <1>5, <2>5, CpuSetHolds
  <2> QED BY <1>1, <2>5, <2>6
<1> HIDE DEF h
<1>8. ASSUME CheckWakeType(s, "SameHyperthread")
      PROVE  /\ Cpus(WakeMask(s, "SameHyperthread")) # {}
             /\ Cpus(WakeMask(s, "SameHyperthread")) # Cpus(SystemMask(s))
             /\ WakeMask(s, "SameHyperthread") # WakeMask(s, "SameCore")
  <2>1. Len(h) > 1
    BY <1>8 DEF CheckWakeType, h
  <2>2. WakeMask(s, "SameHyperthread") = CpuSet(h[1])
    BY DEF WakeMask, h
  <2>3. WakeMask(s, "SameCore") = CoreMask(s.cores[1])
    BY DEF WakeMask
  <2>4. Cpus(CoreMask(s.cores[1])) # Cpus(CpuSet(h[1]))
    BY <1>7, <2>1 DEF T
  <2> QED BY <1>1, <1>2, <1>7, <2>1, <2>2, <2>3, <2>4
<1>9. ASSUME CheckWakeType(s, "SameCore")
      PROVE  /\ Cpus(WakeMask(s, "SameCore")) # {}
             /\ Cpus(WakeMask(s, "SameCore")) # Cpus(SystemMask(s))
  <2>1. Len(s.cores) > 1
    BY <1>9 DEF CheckWakeType
  <2>2. WakeMask(s, "SameCore") = CoreMask(s.cores[1])
    BY DEF WakeMask
  <2> QED BY <1>1, <1>2, <2>1, <2>2 DEF T
<1>10. 1 \in DOMAIN s.nodes /\ 1 \in DOMAIN s.nodes[1].complexes
  BY <1>1, <1>3
<1>11. ASSUME CheckWakeType(s, "SameComplex")
       PROVE  /\ Cpus(WakeMask(s, "SameComplex")) # {}
              /\ Cpus(WakeMask(s, "SameComplex")) # Cpus(SystemMask(s))
  <2>1. Complexes(s) > 1
    BY <1>11 DEF CheckWakeType
  <2>2. Cpus(WakeMask(s, "SameComplex")) =
          {c \in Present(m) : s.places[c][1] = 1 /\ s.places[c][2] = 1}
    BY <1>2, <1>10 DEF WakeMask
  <2>3. PICK p \in pairs : p # <<1, 1>>
    BY <1>4, <2>1
  <2>4. PICK c \in Present(m) : s.places[c][1] = p[1] /\ s.places[c][2] = p[2]
    BY <1>3, <1>6
  <2>5. c \notin Cpus(WakeMask(s, "SameComplex"))
    BY <1>6, <2>2, <2>3, <2>4
  <2>6. PICK d \in Present(m) : s.places[d][1] = 1 /\ s.places[d][2] = 1
    BY <1>3, <1>10
  <2> QED BY <1>2, <2>2, <2>5, <2>6
<1>12. ASSUME Len(s.nodes) > 1 PROVE 2 \in DOMAIN s.nodes
  <2>1. PICK k \in Nat : DOMAIN s.nodes = 1 .. k
    BY <1>3
  <2>2. s.nodes = [i \in DOMAIN s.nodes |-> s.nodes[i]]
    BY DEF s, Load, NewSystem, Nodes, Grouped
  <2>3. s.nodes = [i \in 1 .. k |-> s.nodes[i]]
    BY <2>1, <2>2
  <2>4. Len(s.nodes) = k
    BY <2>3
  <2> QED BY <1>12, <2>1, <2>4
<1>13. ASSUME CheckWakeType(s, "SameNode")
       PROVE  /\ Cpus(WakeMask(s, "SameNode")) # {}
              /\ Cpus(WakeMask(s, "SameNode")) # Cpus(SystemMask(s))
  <2>1. 2 \in DOMAIN s.nodes
    BY <1>12, <1>13 DEF CheckWakeType
  <2>2. Cpus(WakeMask(s, "SameNode")) = {c \in Present(m) : s.places[c][1] = 1}
    BY <1>2, <1>10 DEF WakeMask
  <2>3. PICK c \in Present(m) : s.places[c][1] = 2
    BY <1>3, <2>1
  <2>4. PICK d \in Present(m) : s.places[d][1] = 1
    BY <1>3, <1>10
  <2> QED BY <1>2, <2>2, <2>3, <2>4
<1>14. ASSUME NeedsNumaOrComplexes(s) PROVE Complexes(s) > 1
  <2>1. CASE Len(s.nodes) > 1
    <3>1. <<1, 1>> \in pairs /\ <<2, 1>> \in pairs
      BY <1>3, <1>6, <1>10, <1>12, <2>1
    <3> QED BY <1>4, <3>1
  <2>2. CASE Len(s.nodes[1].complexes) > 1
    <3> DEFINE X == s.nodes[1].complexes
    <3>1. PICK k \in Nat : DOMAIN X = 1 .. k
      BY <1>3, <1>10
    <3>2. X = [i \in DOMAIN X |-> X[i]]
      <4>1. \E S : X = ComplexesAmong(m, S)
        BY <1>10 DEF s, Load, NewSystem, Nodes, Grouped
      <4> QED BY <4>1 DEF ComplexesAmong, Grouped
    <3> HIDE DEF X
    <3>3. X = [i \in 1 .. k |-> X[i]]
      BY <3>1, <3>2
    <3>4. Len(X) = k
      BY <3>3
    <3>5. 2 \in DOMAIN X
      BY <2>2, <3>1, <3>4 DEF X
    <3>6. <<1, 1>> \in pairs /\ <<1, 2>> \in pairs
      BY <1>6, <1>10, <3>5 DEF X
    <3> QED BY <1>4, <3>6
  <2> QED BY <1>14, <2>1, <2>2 DEF NeedsNumaOrComplexes
<1> QED
  BY <1>8, <1>9, <1>11, <1>13, <1>14 DEF WakeTypesDiffer, WakeTypes, s

-----------------------------------------------------------------------------
(* The iterations of converge.                                             *)

LEMMA MinPair ==
  ASSUME NEW a \in Int, NEW b \in Int
  PROVE  Min({a, b}) \in {a, b} /\ Min({a, b}) <= a /\ Min({a, b}) <= b
<1>1. \E x \in {a, b} : \A y \in {a, b} : x <= y
  OBVIOUS
<1> QED
  BY <1>1 DEF Min

LEMMA MaxPair ==
  ASSUME NEW a \in Int, NEW b \in Int
  PROVE  Max({a, b}) \in {a, b} /\ Max({a, b}) >= a /\ Max({a, b}) >= b
<1>1. \E x \in {a, b} : \A y \in {a, b} : x >= y
  OBVIOUS
<1> QED
  BY <1>1 DEF Max

\* A measurement of n iterations that took as many milliseconds or more needs no more
\* than t to take t.
LEMMA CeilDivBounded ==
  ASSUME NEW n \in Nat \ {0}, NEW e \in Nat, n <= e, NEW t \in Nat \ {0}
  PROVE  CeilDiv(n * t, e) \in 0 .. t
<1> DEFINE q == CeilDiv(n * t, e)
<1>1. n * t <= e * t /\ n * t \in Nat /\ e * t \in Nat
  OBVIOUS
<1>2. q \in Int /\ q * e <= n * t + e - 1
  BY <1>1 DEF CeilDiv
<1>3. q >= 0
  BY <1>1 DEF CeilDiv
<1>4. ASSUME q >= t + 1 PROVE FALSE
  <2>1. q * e >= (t + 1) * e
    BY <1>2, <1>4
  <2>2. (t + 1) * e = e * t + e
    OBVIOUS
  <2> HIDE DEF q
  <2>3. q * e \in Int
    BY <1>2
  <2> QED
    BY <1>1, <1>2, <2>1, <2>2, <2>3
<1> QED
  BY <1>2, <1>3, <1>4

\* Whatever a measurement took beyond a millisecond per iteration, the next has at
\* least one iteration and at most twice MaxTime.
LEMMA IterationsBounded ==
  ASSUME NEW n \in 1 .. 2 * MaxTime, NEW e \in Min({n, MaxTime + 1}) .. MaxTime + 1
  PROVE  NextIters(n, e) \in 1 .. 2 * MaxTime
<1>a. /\ MinTime \in Nat \ {0} /\ MaxTime \in Nat /\ MinTime <= MaxTime
      /\ Leap \in Nat \ {0} /\ MaxIters \in Nat \ {0}
  BY ConvergeAssumption
<1>b. n \in Int /\ MaxTime + 1 \in Int
  BY <1>a
<1>c. Min({n, MaxTime + 1}) \in {n, MaxTime + 1}
  BY <1>b, MinPair
<1>1. e \in Nat \ {0} /\ (n <= e \/ e = MaxTime + 1)
  BY <1>a, <1>c
<1>2. CASE e < MinTime /\ n < MaxIters \div 2
  <2> DEFINE c == CeilDiv(n * MinTime, e)
             g == Max({c, n + 1})
             h == Saturated(n * Leap)
  <2>1. n <= e
    BY <1>a, <1>1, <1>2
  <2>2. c \in 0 .. MinTime
    <3>1. n \in Nat \ {0} /\ e \in Nat /\ MinTime \in Nat \ {0}
      BY <1>a, <1>1
    <3> QED
      BY <2>1, <3>1, CeilDivBounded
  <2>3. g \in Int /\ g >= n + 1 /\ g <= MinTime
    <3> HIDE DEF c
    <3>1. c \in Int /\ n + 1 \in Int
      BY <1>a, <2>2
    <3>2. g \in {c, n + 1} /\ g >= n + 1
      BY <3>1, MaxPair
    <3> HIDE DEF g
    <3> QED
      BY <1>a, <1>1, <1>2, <2>1, <2>2, <3>2
  <2>4. h \in Int /\ h >= 1
    <3>1. n * Leap \in Int /\ n * Leap >= 1
      BY <1>a
    <3>2. h \in {n * Leap, MaxIters}
      BY <1>a, <3>1, MinPair DEF Saturated
    <3> HIDE DEF h
    <3> QED
      BY <1>a, <3>1, <3>2
  <2>5. NextIters(n, e) = Min({g, h})
    BY <1>a, <1>1, <1>2 DEF NextIters
  <2> HIDE DEF g, h
  <2>6. Min({g, h}) \in {g, h} /\ Min({g, h}) <= g
    BY <2>3, <2>4, MinPair
  <2> QED
    BY <1>a, <2>3, <2>4, <2>5, <2>6
<1>3. CASE e >= MinTime /\ e < MaxTime /\ n < MaxIters \div 2
  <2>1. n <= e /\ 2 * n \in Int
    BY <1>a, <1>1, <1>3
  <2>2. NextIters(n, e) = Min({2 * n, MaxIters})
    BY <1>a, <1>1, <1>3 DEF NextIters, Saturated
  <2>3. NextIters(n, e) \in {2 * n, MaxIters} /\ NextIters(n, e) <= 2 * n
    <3>1. 2 * n \in Int /\ MaxIters \in Int
      BY <1>a, <2>1
    <3>2. \A a \in Int : Min({a, MaxIters}) \in {a, MaxIters} /\ Min({a, MaxIters}) <= a
      BY <3>1, MinPair
    <3> QED
      BY <2>2, <3>1, <3>2
  <2> QED
    BY <1>a, <1>1, <1>3, <2>1, <2>3
<1>4. CASE ~(e < MinTime /\ n < MaxIters \div 2) /\ ~(e >= MinTime /\ e < MaxTime /\ n < MaxIters \div 2)
  BY <1>a, <1>1, <1>4 DEF NextIters
<1> QED
  BY <1>2, <1>3, <1>4

\* A measurement that neither converges nor gives up is followed by a larger one, or by
\* the same if it took exactly MaxTime: n is far from MaxIters, where nothing grows.
LEMMA IterationsGrow ==
  ASSUME NEW n \in 1 .. 2 * MaxTime, NEW e \in Nat \ {0}, e <= MaxTime
  PROVE  IF e = MaxTime THEN NextIters(n, e) = n ELSE NextIters(n, e) > n
<1>a. /\ MinTime \in Nat \ {0} /\ MaxTime \in Nat /\ MinTime <= MaxTime
      /\ Leap \in Nat \ {0, 1} /\ MaxIters \in Nat /\ 2 * MaxTime < MaxIters \div 2
  BY ConvergeAssumption
<1>1. n < MaxIters \div 2
  BY <1>a
<1>2. n < MaxIters /\ n \in Nat
  BY <1>a, <1>1
<1>3. ASSUME NEW a \in Int, a > n
      PROVE  Saturated(a) \in Int /\ Saturated(a) > n
  <2>1. Saturated(a) \in {a, MaxIters}
    <3>1. MaxIters \in Int
      BY <1>a
    <3>2. Min({a, MaxIters}) \in {a, MaxIters}
      BY <3>1, MinPair
    <3> QED
      BY <3>2 DEF Saturated
  <2> QED
    BY <1>a, <1>2, <1>3, <2>1
<1>4. CASE e = MaxTime
  BY <1>a, <1>4 DEF NextIters
<1>5. CASE e # MaxTime /\ e >= MinTime
  <2>1. NextIters(n, e) = Saturated(2 * n)
    BY <1>a, <1>1, <1>5 DEF NextIters
  <2> QED
    BY <1>2, <1>3, <1>5, <2>1
<1>6. CASE e # MaxTime /\ e < MinTime
  <2> DEFINE c == CeilDiv(n * MinTime, e)
             g == Max({c, n + 1})
             h == Saturated(n * Leap)
  <2>1. NextIters(n, e) = Min({g, h})
    BY <1>a, <1>1, <1>6 DEF NextIters
  <2>2. h \in Int /\ h > n
    <3>1. n * Leap \in Int /\ n * Leap > n
      BY <1>a, <1>2
    <3> QED
      BY <1>3, <3>1
  <2>3. g \in Int /\ g > n
    <3>1. c \in Int
      BY <1>a, <1>2, <1>6 DEF CeilDiv
    <3> HIDE DEF c
    <3>2. g \in {c, n + 1} /\ g >= n + 1
      BY <1>2, <3>1, MaxPair
    <3> QED
      BY <1>2, <3>1, <3>2
  <2> HIDE DEF g, h
  <2>4. Min({g, h}) \in {g, h}
    BY <2>2, <2>3, MinPair
  <2> QED
    BY <1>6, <2>1, <2>2, <2>3, <2>4
<1>7. e >= MinTime \/ e < MinTime
  BY <1>a
<1> QED
  BY <1>4, <1>5, <1>6, <1>7

-----------------------------------------------------------------------------
(* The inductive invariant.                                                *)

Looping == {"create", "rest", "reset", "sample", "wait", "after", "decide"}
SpinnerPlaces == {"unborn", "pin", "pinned", "ready", "left", "go", "dead"}
Answered == {"ready", "left"}

Loaded == machine \in Machines /\ system = Load(machine) /\ named \in BOOLEAN

\* The parent's counters. Samples are left only where they are taken.
ParentOK ==
  /\ pc \in Looping \cup {"loaded", "end"}
  /\ verdict \in {"none", "passed", "panicked", "error"} /\ (pc # "end" => verdict = "none")
  /\ iters \in 1 .. 2 * MaxTime /\ exact \in BOOLEAN /\ left \in 0 .. iters
  /\ pc \notin {"reset", "sample", "end"} => left = 0
  /\ pc = "sample" => left > 0

\* What was noted of a spinner is what the kernel had counted, where that is found.
Spawned ==
  /\ at \in Spinners
  /\ spc \in [Spinners -> SpinnerPlaces]
  /\ where \in [Spinners -> Online(machine) \cup {0}]
  /\ affinity \in [Spinners -> SUBSET Online(machine)]
  /\ last \in [Spinners -> Online(machine) \cup {0}]
  /\ moves \in [Spinners -> Nat] /\ began \in [Spinners -> Nat] /\ spun \in [Spinners -> Nat]
  /\ \A s \in Spinners : began[s] <= moves[s] /\ spun[s] <= moves[s]
  /\ base = [s \in Spinners |-> IF named THEN began[s] ELSE 0]

\* There is nothing of the spinners before Allocate, and then all of them.
SpinnersOK ==
  /\ pc \in Looping => Spawned
  /\ pc = "loaded" => spc = <<>>
  /\ pc = "end" => spc = <<>> \/ Spawned

\* The keys of counts are the ids of the cores of the CPUs that were sampled.
Counted ==
  /\ pc = "loaded" => seen = {}
  /\ seen \subseteq Online(machine) \cup {0}
  /\ counts = UNION {Physical(c) : c \in seen}

\* A spinner that has been waited for does not spin again in this measurement, so that
\* the moves summed for it are those up to the end of its spin or more; a sum of what was
\* found that is still 0 leaves none since the reset.
Settled ==
  /\ delta \in Nat
  /\ pc = "wait" => \A s \in Spinners : s < at => spc[s] \in Answered
  /\ pc \in {"after", "decide"} => \A s \in Spinners : spc[s] \in Answered
  /\ pc = "after" /\ named /\ delta = 0 => \A s \in Spinners : s < at => spun[s] <= began[s]
  /\ pc = "decide" /\ named /\ delta = 0 => \A s \in Spinners : spun[s] <= began[s]

\* A case that passes has the metric of such a measurement.
Earned ==
  verdict = "passed" =>
    /\ Spawned /\ delta = 0 /\ Metric >= Threshold
    /\ named => \A s \in Spinners : spun[s] <= began[s]

IInv == Loaded /\ ParentOK /\ SpinnersOK /\ Counted /\ Settled /\ Earned

\* What there is to know of a machine and its system.
LEMMA LoadedFacts ==
  ASSUME Loaded
  PROVE  /\ Len(system.cores) \in Nat /\ Spinners = 1 .. Len(system.cores)
         /\ system.cores # <<>> => 1 \in Spinners
         /\ Online(machine) \subseteq Present(machine) /\ Online(machine) \subseteq Nat
<1>1. Online(machine) \subseteq Present(machine) /\ Present(machine) \subseteq Nat
  BY CpusOf DEF Loaded, Online
<1>2. PICK n \in Nat : /\ Len(system.cores) = n /\ DOMAIN system.cores = 1 .. n
                       /\ system.cores # <<>> => n > 0
  BY CoresListed DEF Loaded
<1> QED
  BY <1>1, <1>2 DEF Spinners

LEMMA LoadedStays == Next => UNCHANGED loaded
BY DEF Next, Parent, LoadFails, NoCores, Allocate, Create, Created, CreateFails, StartRound,
       StatsFail, Reset, Sample, Wait, WaitFails, After, Decide, Pin, Restore, Move, Spin,
       Spun, Die, loaded

LEMMA ParentStep == Loaded /\ ParentOK /\ SpinnersOK /\ Next => ParentOK'
<1> SUFFICES ASSUME Loaded, ParentOK, SpinnersOK, Next
             PROVE  ParentOK'
  OBVIOUS
<1> USE DEF ParentOK, Looping, Go, End, NextOr, measuring, loaded
<1>1. CASE LoadFails
  BY <1>1 DEF LoadFails
<1>2. CASE NoCores
  BY <1>2 DEF NoCores
<1>3. CASE Allocate
  BY <1>3 DEF Allocate
<1>4. CASE Create
  BY <1>4 DEF Create
<1>5. CASE Created
  BY <1>5 DEF Created
<1>6. CASE CreateFails
  BY <1>6 DEF CreateFails
<1>7. CASE StartRound
  <2>1. iters \div SampleEvery \in 0 .. iters
    BY SpreadOutAssumption, ConvergeAssumption
  <2> QED
    BY <1>7, <2>1 DEF StartRound
<1>8. CASE StatsFail
  BY <1>8 DEF StatsFail
<1>9. CASE Reset
  BY <1>9 DEF Reset
<1>10. CASE Sample
  BY <1>10, ConvergeAssumption DEF Sample
<1>11. CASE Wait
  BY <1>11 DEF Wait
<1>12. CASE WaitFails
  BY <1>12 DEF WaitFails
<1>13. CASE After
  BY <1>13 DEF After
<1>14. CASE Decide
  <2>1. PICK e \in Min({iters, MaxTime + 1}) .. MaxTime + 1 :
          /\ exact' = (e = MaxTime)
          /\ \/ Converged(Metric, e) /\ End(Asserted(Metric)) /\ UNCHANGED iters
             \/ GivesUp(Metric, e) /\ End(Asserted(0)) /\ UNCHANGED iters
             \/ /\ ~Converged(Metric, e) /\ ~GivesUp(Metric, e)
                /\ iters' = NextIters(iters, e)
                /\ Go("rest", 1) /\ UNCHANGED verdict
    BY <1>14 DEF Decide
  <2>2. NextIters(iters, e) \in 1 .. 2 * MaxTime
    BY IterationsBounded
  <2>3. pc = "decide" /\ left' = left
    BY <1>14 DEF Decide
  <2>4. Asserted(Metric) \in {"passed", "panicked"} /\ Asserted(0) \in {"passed", "panicked"}
    BY DEF Asserted
  <2> QED
    BY <2>1, <2>2, <2>3, <2>4, ConvergeAssumption
<1>15. ASSUME NEW s \in DOMAIN spc, Pin(s) \/ Restore(s) \/ Move(s) \/ Spin(s) \/ Spun(s) \/ Die(s)
       PROVE  ParentOK'
  BY <1>15 DEF Pin, Restore, Move, Spin, Spun, Die, kernel
<1> QED
  BY <1>1, <1>2, <1>3, <1>4, <1>5, <1>6, <1>7, <1>8, <1>9, <1>10, <1>11, <1>12, <1>13, <1>14,
     <1>15 DEF Next, Parent

LEMMA SpinnersStep == Loaded /\ ParentOK /\ SpinnersOK /\ Next => SpinnersOK'
<1> SUFFICES ASSUME Loaded, ParentOK, SpinnersOK, Next
             PROVE  SpinnersOK'
  OBVIOUS
<1> DEFINE n == Len(system.cores)
<1>a. /\ n \in Nat /\ Spinners = 1 .. n /\ Spinners' = Spinners
      /\ system.cores # <<>> => 1 \in Spinners
      /\ machine' = machine /\ system' = system /\ named' = named
  BY LoadedFacts, LoadedStays DEF loaded, Spinners
<1>b. /\ pc = "loaded" => spc = <<>>
      /\ pc \in Looping => Spawned
      /\ pc = "end" => spc = <<>> \/ Spawned
      /\ pc \in Looping \cup {"loaded", "end"}
  BY DEF SpinnersOK, ParentOK
<1> USE DEF Looping, Go, End, NextOr, measuring, kernel
<1>c. ASSUME UNCHANGED <<kernel, last, base, began>>, Spawned, at' \in Spinners PROVE Spawned'
  BY <1>a, <1>c DEF Spawned
<1>1. CASE LoadFails
  BY <1>1, <1>b DEF LoadFails, SpinnersOK
<1>2. CASE NoCores
  BY <1>2, <1>b DEF NoCores, SpinnersOK
<1>3. CASE Allocate
  <2>1. Spawned'
    BY <1>3, <1>a DEF Allocate, Spawned, SpinnerPlaces
  <2> QED
    BY <1>3, <2>1 DEF Allocate, SpinnersOK
<1>4. CASE Create
  <2>1. Spawned'
    BY <1>4, <1>a, <1>b DEF Create, Spawned, SpinnerPlaces
  <2> QED
    BY <1>4, <2>1 DEF Create, SpinnersOK
<1>5. CASE Created
  <2>1. at' \in Spinners
    BY <1>5, <1>a, <1>b DEF Created, Spawned
  <2> QED
    BY <1>5, <1>b, <1>c, <2>1 DEF Created, SpinnersOK
<1>6. CASE CreateFails
  BY <1>6, <1>a, <1>b, <1>c DEF CreateFails, SpinnersOK, Spawned
<1>7. CASE StartRound
  <2>1. Spawned'
    BY <1>7, <1>a, <1>b DEF StartRound, Spawned, SpinnerPlaces
  <2> QED
    BY <1>7, <2>1 DEF StartRound, SpinnersOK
<1>8. CASE StatsFail
  BY <1>8, <1>a, <1>b, <1>c DEF StatsFail, SpinnersOK, Spawned
<1>9. CASE Reset
  <2>1. Spawned /\ UNCHANGED <<kernel, last>>
    BY <1>9, <1>b DEF Reset
  <2>2. /\ base' = [base EXCEPT ![at] = Migrations(at)]
        /\ began' = [began EXCEPT ![at] = moves[at]]
        /\ at' \in Spinners
    BY <1>9, <1>a, <2>1 DEF Reset, Spawned
  <2>3. base' = [s \in Spinners |-> IF named THEN began'[s] ELSE 0]
    BY <2>1, <2>2 DEF Spawned, Migrations
  <2>4. Spawned'
    <3>1. began' \in [Spinners -> Nat] /\ \A s \in Spinners : began'[s] <= moves[s]
      BY <2>1, <2>2 DEF Spawned
    <3>2. UNCHANGED <<spc, where, affinity, last, moves, spun>>
      BY <2>1
    <3> QED
      BY <1>a, <2>1, <2>2, <2>3, <3>1, <3>2 DEF Spawned
  <2> QED
    BY <1>9, <2>4 DEF Reset, SpinnersOK
<1>10. CASE Sample
  <2>1. at' \in Spinners
    BY <1>10, <1>a, <1>b DEF Sample, Spawned
  <2> QED
    BY <1>10, <1>b, <1>c, <2>1 DEF Sample, SpinnersOK
<1>11. CASE Wait
  <2>1. at' \in Spinners
    BY <1>11, <1>a, <1>b DEF Wait, Spawned
  <2> QED
    BY <1>11, <1>b, <1>c, <2>1 DEF Wait, SpinnersOK
<1>12. CASE WaitFails
  BY <1>12, <1>a, <1>b, <1>c DEF WaitFails, SpinnersOK, Spawned
<1>13. CASE After
  <2>1. at' \in Spinners
    BY <1>13, <1>a, <1>b DEF After, Spawned
  <2> QED
    BY <1>13, <1>b, <1>c, <2>1 DEF After, SpinnersOK
<1>14. CASE Decide
  <2>1. Spawned /\ UNCHANGED <<kernel, last, base, began>>
    BY <1>14, <1>b DEF Decide
  <2>2. at' \in Spinners /\ pc' \in {"rest", "end"}
    BY <1>14, <2>1, <1>a DEF Decide, Spawned
  <2> QED
    BY <2>1, <2>2, <1>c DEF SpinnersOK
<1>15. ASSUME NEW s \in DOMAIN spc, Pin(s) \/ Restore(s) \/ Move(s) \/ Spin(s) \/ Spun(s) \/ Die(s)
       PROVE  SpinnersOK'
  <2>1. pc # "end" /\ pc' = pc /\ at' = at /\ base' = base /\ began' = began
    BY <1>15 DEF Pin, Restore, Move, Spin, Spun, Die
  <2>2. Spawned /\ s \in Spinners
    BY <1>15, <1>b, <2>1 DEF Spawned
  <2>3. CASE Pin(s)
    <3> DEFINE target == FirstCore \cap Online(machine)
    <3>1. Spawned'
      <4>1. CASE target = {}
        BY <1>a, <2>1, <2>2, <2>3, <4>1 DEF Pin, Spawned, SpinnerPlaces
      <4>2. CASE target # {}
        <5>1. target \subseteq Online(machine)
          OBVIOUS
        <5>2. PICK c \in target : where' = [where EXCEPT ![s] = c]
          BY <2>3, <4>2 DEF Pin
        <5>3. /\ spc' = [spc EXCEPT ![s] = "pinned"]
              /\ affinity' = [affinity EXCEPT ![s] = target]
              /\ UNCHANGED <<last, moves, spun>>
          BY <2>3, <4>2 DEF Pin
        <5> HIDE DEF target
        <5> QED
          BY <1>a, <2>1, <2>2, <5>1, <5>2, <5>3 DEF Spawned, SpinnerPlaces
      <4> QED
        BY <4>1, <4>2
    <3>2. pc \in Looping
      BY <1>b, <2>1, <2>2 DEF Spawned
    <3> QED
      BY <2>1, <3>1, <3>2 DEF SpinnersOK
  <2>4. CASE Restore(s)
    BY <1>a, <2>1, <2>2, <2>4 DEF Restore, Spawned, SpinnerPlaces, SpinnersOK
  <2>5. CASE Move(s)
    BY <1>a, <2>1, <2>2, <2>5 DEF Move, Spawned, SpinnerPlaces, SpinnersOK
  <2>6. CASE Spin(s)
    BY <1>a, <2>1, <2>2, <2>6 DEF Spin, Spawned, SpinnerPlaces, SpinnersOK
  <2>7. CASE Spun(s)
    BY <1>a, <2>1, <2>2, <2>7 DEF Spun, Spawned, SpinnerPlaces, SpinnersOK
  <2>8. CASE Die(s)
    BY <1>a, <2>1, <2>2, <2>8 DEF Die, Spawned, SpinnerPlaces, SpinnersOK
  <2> QED
    BY <1>15, <2>3, <2>4, <2>5, <2>6, <2>7, <2>8
<1> QED
  BY <1>1, <1>2, <1>3, <1>4, <1>5, <1>6, <1>7, <1>8, <1>9, <1>10, <1>11, <1>12, <1>13, <1>14,
     <1>15 DEF Next, Parent

\* The parent samples one spinner at a time, and starts over when it starts a round.
LEMMA CountedStep == Loaded /\ ParentOK /\ SpinnersOK /\ Counted /\ Next => Counted'
<1> SUFFICES ASSUME Loaded, ParentOK, SpinnersOK, Counted, Next
             PROVE  Counted'
  OBVIOUS
<1>a. machine' = machine /\ system' = system /\ \A c : Physical(c)' = Physical(c)
  BY LoadedStays DEF loaded, Physical, Spinners
<1>b. Online(machine)' = Online(machine)
  BY <1>a
<1> USE DEF Counted, Go, End, NextOr, measuring, kernel
<1>1. CASE Allocate
  BY <1>1, <1>a, <1>b DEF Allocate
<1>2. CASE StartRound
  BY <1>2, <1>a, <1>b DEF StartRound
<1>3. CASE Sample
  <2>1. pc = "sample" /\ Spawned
    BY <1>3 DEF Sample, SpinnersOK, Looping
  <2>2. last[at] \in Online(machine) \cup {0}
    BY <2>1 DEF Spawned
  <2>3. counts' = counts \cup Physical(last[at]) /\ seen' = seen \cup {last[at]} /\ pc' # "loaded"
    BY <1>3 DEF Sample
  <2>4. counts' = UNION {Physical(c) : c \in seen'}
    BY <2>3
  <2> QED
    BY <1>a, <1>b, <2>2, <2>3, <2>4
<1>4. CASE LoadFails \/ NoCores \/ Create \/ Created \/ CreateFails \/ StatsFail \/ Reset \/ Wait
           \/ WaitFails \/ After \/ Decide
  <2>1. counts' = counts /\ seen' = seen /\ (pc' = "loaded" => pc = "loaded")
    BY <1>4 DEF LoadFails, NoCores, Create, Created, CreateFails, StatsFail, Reset, Wait,
                WaitFails, After, Decide
  <2> QED
    BY <1>a, <1>b, <2>1
<1>5. ASSUME NEW s \in DOMAIN spc, Pin(s) \/ Restore(s) \/ Move(s) \/ Spin(s) \/ Spun(s) \/ Die(s)
      PROVE  Counted'
  <2>1. counts' = counts /\ seen' = seen /\ pc' = pc
    BY <1>5 DEF Pin, Restore, Move, Spin, Spun, Die
  <2> QED
    BY <1>a, <1>b, <2>1
<1> QED
  BY <1>1, <1>2, <1>3, <1>4, <1>5 DEF Next, Parent

\* No step of a spinner that has answered, nor of another, undoes what was summed.
LEMMA SettledStep == Loaded /\ ParentOK /\ SpinnersOK /\ Settled /\ Next => Settled'
<1> SUFFICES ASSUME Loaded, ParentOK, SpinnersOK, Settled, Next
             PROVE  Settled'
  OBVIOUS
<1> DEFINE n == Len(system.cores)
<1>a. /\ n \in Nat /\ Spinners = 1 .. n /\ Spinners' = Spinners
      /\ machine' = machine /\ system' = system /\ named' = named
  BY LoadedFacts, LoadedStays DEF loaded, Spinners
<1>b. pc \in Looping => Spawned
  BY DEF SpinnersOK
<1> USE DEF Settled, Go, End, NextOr, measuring, kernel
<1>1. CASE LoadFails \/ NoCores \/ CreateFails \/ StatsFail \/ WaitFails
  BY <1>1 DEF LoadFails, NoCores, CreateFails, StatsFail, WaitFails
<1>2. CASE Allocate \/ Create \/ Created \/ StartRound \/ Sample
  <2>1. delta' \in Nat /\ pc' \notin {"after", "decide"}
    BY <1>2 DEF Allocate, Create, Created, StartRound, Sample
  <2>2. pc' = "wait" => at' = 1
    BY <1>2 DEF Allocate, Create, Created, StartRound, Sample
  <2> QED
    BY <1>a, <2>1, <2>2
<1>3. CASE Reset
  <2>1. delta' = delta /\ pc' \notin {"after", "decide"}
    BY <1>3 DEF Reset
  <2>2. pc' = "wait" => at' = 1
    BY <1>3 DEF Reset
  <2> QED
    BY <1>a, <2>1, <2>2
<1>4. CASE Wait
  <2>1. pc = "wait" /\ Spawned /\ spc[at] \in Answered
    BY <1>4, <1>b DEF Wait, Looping, Answered
  <2>2. UNCHANGED <<spc, delta, spun, began>>
    BY <1>4 DEF Wait
  <2>3. at \in 1 .. n /\ \A s \in Spinners : s < at + 1 => spc[s] \in Answered
    BY <1>a, <2>1 DEF Spawned
  <2>4. CASE at < n
    <3>1. pc' = "wait" /\ at' = at + 1
      BY <1>4, <2>4 DEF Wait
    <3> QED
      BY <1>a, <2>2, <2>3, <3>1
  <2>5. CASE ~(at < n)
    <3>1. pc' = "after" /\ at' = 1
      BY <1>4, <2>5 DEF Wait
    <3>2. \A s \in Spinners : spc[s] \in Answered
      BY <1>a, <2>3, <2>5
    <3> QED
      BY <1>a, <2>2, <3>1, <3>2
  <2> QED
    BY <2>4, <2>5
<1>5. CASE After
  <2>1. pc = "after" /\ Spawned
    BY <1>5, <1>b DEF After, Looping
  <2>2. UNCHANGED <<spc, spun, began, moves>> /\ delta' = delta + Migrations(at) - base[at]
    BY <1>5 DEF After
  <2>3. at \in 1 .. n /\ moves[at] \in Nat /\ began[at] \in Nat /\ spun[at] \in Nat
        /\ began[at] <= moves[at] /\ spun[at] <= moves[at]
        /\ base[at] = IF named THEN began[at] ELSE 0
    BY <1>a, <2>1 DEF Spawned
  <2>4. delta' \in Nat /\ (delta' = 0 => delta = 0 /\ (named => moves[at] = began[at]))
    BY <2>2, <2>3 DEF Migrations
  <2>5. named /\ delta' = 0 => \A s \in Spinners : s < at + 1 => spun[s] <= began[s]
    BY <1>a, <2>1, <2>3, <2>4
  <2>6. CASE at < n
    <3>1. pc' = "after" /\ at' = at + 1
      BY <1>5, <2>6 DEF After
    <3> QED
      BY <1>a, <2>1, <2>2, <2>4, <2>5, <3>1
  <2>7. CASE ~(at < n)
    <3>1. pc' = "decide"
      BY <1>5, <2>7 DEF After
    <3>2. named /\ delta' = 0 => \A s \in Spinners : spun[s] <= began[s]
      BY <1>a, <2>3, <2>5, <2>7
    <3> QED
      BY <1>a, <2>1, <2>2, <2>4, <3>1, <3>2
  <2> QED
    BY <2>6, <2>7
<1>6. CASE Decide
  <2>1. pc' \in {"end", "rest"} /\ delta' = delta
    BY <1>6 DEF Decide
  <2> QED
    BY <2>1
<1>7. ASSUME NEW s \in DOMAIN spc, Pin(s) \/ Restore(s) \/ Move(s) \/ Spin(s) \/ Spun(s) \/ Die(s)
      PROVE  Settled'
  <2>1. UNCHANGED <<pc, at, delta, began>>
    BY <1>7 DEF Pin, Restore, Move, Spin, Spun, Die
  <2>2. CASE pc \in {"wait", "after", "decide"}
    <3>1. Spawned /\ s \in Spinners
      BY <1>7, <1>b, <2>2 DEF Spawned, Looping
    <3>2. \A t \in Spinners : spc[t] \in Answered => spc'[t] \in Answered /\ spun'[t] = spun[t]
      BY <1>7, <3>1 DEF Pin, Restore, Move, Spin, Spun, Die, Spawned, Answered
    <3> QED
      BY <1>a, <2>1, <2>2, <3>2
  <2>3. CASE pc \notin {"wait", "after", "decide"}
    BY <2>1, <2>3
  <2> QED
    BY <2>2, <2>3
<1> QED
  BY <1>1, <1>2, <1>3, <1>4, <1>5, <1>6, <1>7 DEF Next, Parent

\* A case only passes on the metric it has just measured, and nothing moves after that.
LEMMA EarnedStep ==
  Loaded /\ ParentOK /\ SpinnersOK /\ Settled /\ Earned /\ Next => Earned'
<1> SUFFICES ASSUME Loaded, ParentOK, SpinnersOK, Settled, Earned, Next
             PROVE  Earned'
  OBVIOUS
<1>1. CASE Decide
  <2>1. UNCHANGED <<kernel, last, base, began, delta, counts, loaded>> /\ pc = "decide"
    BY <1>1 DEF Decide
  <2>2. Metric' = Metric /\ Spinners' = Spinners
    BY <2>1 DEF Metric, loaded, Spinners
  <2>3. Asserted(0) # "passed" /\ verdict # "passed"
    BY <2>1, ConvergeAssumption DEF Asserted, ParentOK
  <2>4. SUFFICES ASSUME verdict' = "passed" PROVE Earned'
    BY DEF Earned
  <2>5. Metric >= Threshold /\ at' = at
    BY <1>1, <2>3, <2>4 DEF Decide, Converged, Go, End
  <2>6. delta = 0
    BY <2>5, ConvergeAssumption DEF Metric, Settled
  <2>7. Spawned /\ (named => \A s \in Spinners : spun[s] <= began[s])
    BY <2>1, <2>6 DEF Settled, SpinnersOK, Looping
  <2>8. Spawned'
    BY <2>1, <2>2, <2>5, <2>7 DEF Spawned, kernel, loaded
  <2> QED
    BY <2>1, <2>2, <2>5, <2>6, <2>7, <2>8 DEF Earned, kernel, loaded
<1>2. CASE ~Decide
  <2>1. verdict # "passed" => verdict' # "passed"
    <3>1. ASSUME NEW s \in DOMAIN spc,
                 Pin(s) \/ Restore(s) \/ Move(s) \/ Spin(s) \/ Spun(s) \/ Die(s)
          PROVE  verdict' = verdict
      BY <3>1 DEF Pin, Restore, Move, Spin, Spun, Die
    <3> QED
      BY <1>2, <3>1
      DEF Next, Parent, LoadFails, NoCores, Allocate, Create, Created, CreateFails, StartRound,
          StatsFail, Reset, Sample, Wait, WaitFails, After, End
  <2>2. pc # "end"
    BY DEF Next, Parent, LoadFails, NoCores, Allocate, Create, Created, CreateFails, StartRound,
           StatsFail, Reset, Sample, Wait, WaitFails, After, Decide, Pin, Restore, Move, Spin,
           Spun, Die
  <2>3. verdict # "passed"
    BY <2>2 DEF ParentOK
  <2> QED
    BY <2>1, <2>3 DEF Earned
<1> QED
  BY <1>1, <1>2

LEMMA InitHolds == Init => IInv
<1> SUFFICES ASSUME Init PROVE IInv
  OBVIOUS
<1>1. MaxTime \in Nat \ {0}
  BY ConvergeAssumption
<1>2. ParentOK
  <2>1. 1 \in 1 .. 2 * MaxTime /\ 0 \in 0 .. 1
    BY <1>1
  <2> QED
    BY <2>1 DEF Init, ParentOK
<1>3. Loaded /\ SpinnersOK /\ Settled /\ Earned
  BY DEF Init, Loaded, SpinnersOK, Settled, Earned, Looping
<1>4. Counted
  BY DEF Init, Counted
<1> QED
  BY <1>2, <1>3, <1>4 DEF IInv

LEMMA StutterKeeps == IInv /\ UNCHANGED vars => IInv'
<1> SUFFICES ASSUME IInv, UNCHANGED vars PROVE IInv'
  OBVIOUS
<1> USE DEF vars, IInv
<1>1. Loaded' /\ ParentOK'
  BY DEF Loaded, ParentOK
<1>2. Spinners' = Spinners /\ Metric' = Metric
  BY DEF Spinners, Metric
<1>3. Spawned => Spawned'
  BY <1>2 DEF Spawned
<1>4. SpinnersOK'
  BY <1>3 DEF SpinnersOK
<1>5. Counted'
  BY <1>2 DEF Counted, Physical
<1>6. Settled'
  BY <1>2 DEF Settled
<1>7. Earned'
  BY <1>2, <1>3 DEF Earned
<1> QED
  BY <1>1, <1>4, <1>5, <1>6, <1>7

\* However long measurements take, wherever the spinners are moved and whichever die,
\* IInv holds: it is inductive.
LEMMA Inductive == Spec => []IInv
<1>1. ASSUME IInv, [Next]_vars PROVE IInv'
  <2>1. CASE Next
    <3>1. Loaded'
      BY <1>1, <2>1, LoadedStays DEF IInv, Loaded, loaded
    <3> QED
      BY <1>1, <2>1, <3>1, ParentStep, SpinnersStep, CountedStep, SettledStep, EarnedStep
      DEF IInv
  <2>2. CASE UNCHANGED vars
    BY <1>1, <2>2, StutterKeeps
  <2> QED
    BY <1>1, <2>1, <2>2
<1> QED
  BY <1>1, InitHolds, PTL DEF Spec

-----------------------------------------------------------------------------
(* Theorems.                                                               *)

LEMMA Typed == IInv => TypeOK
<1> SUFFICES ASSUME IInv PROVE TypeOK
  OBVIOUS
<1>a. Loaded /\ ParentOK /\ SpinnersOK /\ Counted /\ Settled
  BY DEF IInv
<1>b. Online(machine) \subseteq Present(machine) /\ Online(machine) \subseteq Nat
  BY <1>a, LoadedFacts
<1>1. pc \in Looping \cup {"loaded", "end"} /\ pc \in {"loaded", "create", "rest", "reset", "sample", "wait", "after", "decide", "end"}
  BY <1>a DEF ParentOK, Looping
<1>2. /\ iters \in 1 .. 2 * MaxTime /\ exact \in BOOLEAN /\ left \in 0 .. iters
      /\ verdict \in {"none", "passed", "panicked", "error"} /\ delta \in Nat
  BY <1>a DEF ParentOK, Settled
<1>3. counts \subseteq {system.cores[i].id : i \in Spinners}
  BY <1>a DEF Counted, Physical
<1>4. seen \subseteq Online(machine) \cup {0}
  BY <1>a DEF Counted
<1>5. ASSUME NEW s \in DOMAIN spc
      PROVE  /\ at \in Spinners /\ s \in Spinners
             /\ spc[s] \in {"unborn", "pin", "pinned", "ready", "left", "go", "dead"}
             /\ where[s] \in Nat /\ affinity[s] \subseteq Present(machine)
             /\ last[s] \in Nat /\ moves[s] \in Nat /\ base[s] \in 0 .. Migrations(s)
             /\ began[s] \in 0 .. moves[s] /\ spun[s] \in 0 .. moves[s]
  <2>1. Spawned
    BY <1>a, <1>1, <1>5 DEF SpinnersOK
  <2> QED
    BY <1>b, <1>5, <2>1 DEF Spawned, SpinnerPlaces, Migrations
<1> QED
  BY <1>a, <1>1, <1>2, <1>3, <1>4, <1>5 DEF TypeOK, Loaded

\* The iterations of converge never exceed twice the time that a measurement may take,
\* and nothing is indexed by a spinner that is not there (benchmark.rs:93-109).
THEOREM TypeCorrect == Spec => []TypeOK
BY Inductive, Typed, PTL

\* On a kernel whose statistics name the migrations as the program does, no spinner was
\* moved, in the measurement that a case passes on, between the reset of its migrations and
\* the end of its spin, though the parent reads them one spinner after the other
\* (topology.rs:59-63, 76-86, sched.rs:73-78).
THEOREM PassIsStill == Spec => []StillWhereCounted
<1>1. IInv => StillWhereCounted
  BY DEF IInv, Earned, StillWhereCounted
<1> QED
  BY <1>1, Inductive, PTL

\* The ids counted are those of the cores sampled, and no more than these.
LEMMA CountedCores ==
  ASSUME Loaded, Counted
  PROVE  /\ counts = {system.cores[i].id : i \in CoresWith(seen)}
         /\ CoresWith(seen) \subseteq Spinners /\ IsFiniteSet(Spinners)
         /\ Cardinality(Spinners) = Len(system.cores)
         /\ Cardinality(counts) \in Nat /\ Cardinality(CoresWith(seen)) \in Nat
         /\ Cardinality(counts) <= Cardinality(CoresWith(seen))
<1>1. counts = {system.cores[i].id : i \in CoresWith(seen)} /\ CoresWith(seen) \subseteq Spinners
  BY DEF Counted, Physical, CoresWith
<1>2. Len(system.cores) \in Nat /\ Spinners = 1 .. Len(system.cores)
  BY LoadedFacts
<1>3. IsFiniteSet(Spinners) /\ Cardinality(Spinners) = Len(system.cores)
  BY <1>2, FS_Interval
<1>4. IsFiniteSet(CoresWith(seen))
  BY <1>1, <1>3, FS_Subset
<1> DEFINE f == [i \in CoresWith(seen) |-> system.cores[i].id]
<1>5. f \in Surjection(CoresWith(seen), counts)
  BY <1>1 DEF Surjection
<1>6. IsFiniteSet(counts) /\ Cardinality(counts) <= Cardinality(CoresWith(seen))
  BY <1>4, <1>5, FS_Surjection
<1> QED
  BY <1>1, <1>3, <1>4, <1>6, FS_CardinalityType

\* A case passes only when the CPUs its spinners had stored belong to as many cores as
\* the threshold asks for, on any machine (topology.rs:20-23, 64-74).
THEOREM PassIsEarned == Spec => []PassMeansCores
<1>1. IInv => PassMeansCores
  <2> SUFFICES ASSUME IInv, verdict = "passed"
               PROVE  100 * Cardinality(CoresWith(seen)) >= Threshold * Len(system.cores)
    BY DEF PassMeansCores
  <2> DEFINE k == Cardinality(counts)
             n == Len(system.cores)
  <2>1. delta = 0 /\ Metric >= Threshold /\ at \in Spinners
    BY DEF IInv, Earned, Spawned
  <2>2. n \in Nat /\ Spinners = 1 .. n
    BY LoadedFacts DEF IInv
  <2>3. n \in Nat \ {0}
    BY <2>1, <2>2
  <2>4. k \in Nat /\ Cardinality(CoresWith(seen)) \in Nat /\ k <= Cardinality(CoresWith(seen))
    BY CountedCores DEF IInv
  <2>5. (100 * k) \div n >= Threshold
    BY <2>1 DEF Metric
  <2>6. Threshold \in Nat
    BY ConvergeAssumption
  <2> HIDE DEF k, n
  <2>7. 100 * k >= Threshold * n
    BY <2>3, <2>4, <2>5, <2>6
  <2>8. 100 * Cardinality(CoresWith(seen)) >= 100 * k
    BY <2>4
  <2>9. 100 * Cardinality(CoresWith(seen)) \in Nat /\ 100 * k \in Nat /\ Threshold * n \in Nat
    BY <2>3, <2>4, <2>6
  <2> QED
    BY <2>7, <2>8, <2>9 DEF n
<1> QED
  BY <1>1, Inductive, PTL

\* When the cores have ids of their own, a measurement that saw a spinner on each has
\* the whole of its metric: none is counted as another (topology.rs:31, 53-54, 81-87).
THEOREM CoverIsCounted == Spec => []CoverCountsByIds
<1>1. IInv => CoverCountsByIds
  <2> SUFFICES ASSUME IInv, DistinctIds, pc = "decide", delta = 0, CoresWith(seen) = Spinners
               PROVE  Metric = 100
    BY DEF CoverCountsByIds, CoverCounts
  <2> DEFINE n == Len(system.cores)
             f == [i \in Spinners |-> system.cores[i].id]
  <2>1. n \in Nat /\ Spinners = 1 .. n /\ at \in Spinners
    BY LoadedFacts DEF IInv, SpinnersOK, Looping, Spawned
  <2>2. n \in Nat \ {0}
    BY <2>1
  <2>3. /\ counts = {system.cores[i].id : i \in Spinners}
        /\ IsFiniteSet(Spinners) /\ Cardinality(Spinners) = n
    BY CountedCores DEF IInv
  <2>4. f \in Surjection(Spinners, counts) /\ f \in Injection(Spinners, counts)
    BY <2>3 DEF Surjection, Injection, IsInjective, DistinctIds
  <2>5. Cardinality(counts) = n
    BY <2>3, <2>4, FS_Surjection
  <2>6. Metric = (100 * n) \div n
    BY <2>5 DEF Metric
  <2> HIDE DEF n
  <2> QED
    BY <2>2, <2>6
<1> QED
  BY <1>1, Inductive, PTL

\* Whatever the files say, each CPU has the one place in the tree that its ids give,
\* a mask has the CPUs of what it is of, and the wake types a machine allows pin to
\* less than the machine (system.rs:324-559, basic.rs:64-141, topology.rs:198-205).
THEOREM SystemIsFaithful == Spec => []SystemFaithful
<1>1. IInv => SystemFaithful
  <2> SUFFICES ASSUME Loaded
               PROVE  /\ TreeFaithful(machine, system) /\ MasksFaithful(machine, system)
                      /\ system.cores # <<>> => WakeTypesDiffer(system)
    BY DEF IInv, SystemFaithful
  <2>1. machine \in Machines /\ system = Load(machine)
    BY DEF Loaded
  <2> QED
    BY <2>1, TreeHolds, MasksHold, WakeTypesHold
<1> QED
  BY <1>1, Inductive, PTL

\* Whatever the measurements took, the iterations of converge only ever grow, except from
\* one that took exactly MaxTime, which is repeated (benchmark.rs:87-109): with TypeCorrect,
\* at most 2 * MaxTime measurements of a case take any other time and do not end it.
THEOREM MeasurementsGrow == Spec => MeasuresMore
<1>1. ASSUME IInv, Next, pc = "decide", pc' = "rest"
      PROVE  IF exact' THEN iters' = iters ELSE iters' > iters
  <2>1. Decide
    <3>1. ASSUME NEW s \in DOMAIN spc,
                 Pin(s) \/ Restore(s) \/ Move(s) \/ Spin(s) \/ Spun(s) \/ Die(s)
          PROVE  pc' = pc
      BY <3>1 DEF Pin, Restore, Move, Spin, Spun, Die
    <3> QED
      BY <1>1, <3>1
      DEF Next, Parent, LoadFails, NoCores, Allocate, Create, Created, CreateFails, StartRound,
          StatsFail, Reset, Sample, Wait, WaitFails, After
  <2>2. PICK e \in Min({iters, MaxTime + 1}) .. MaxTime + 1 :
          /\ exact' = (e = MaxTime)
          /\ ~Converged(Metric, e) /\ ~GivesUp(Metric, e) /\ iters' = NextIters(iters, e)
    BY <1>1, <2>1 DEF Decide, End
  <2>3. iters \in 1 .. 2 * MaxTime /\ MaxTime \in Nat
    BY <1>1, ConvergeAssumption DEF IInv, ParentOK
  <2>4. Min({iters, MaxTime + 1}) \in Nat \ {0}
    <3>1. iters \in Int /\ MaxTime + 1 \in Int
      BY <2>3
    <3>2. Min({iters, MaxTime + 1}) \in {iters, MaxTime + 1}
      BY <3>1, MinPair
    <3> QED
      BY <2>3, <3>2
  <2>5. e \in Nat \ {0} /\ e <= MaxTime
    BY <2>2, <2>3, <2>4 DEF GivesUp
  <2> QED
    BY <2>2, <2>3, <2>5, IterationsGrow
<1>2. ASSUME IInv, [Next]_vars
      PROVE  [pc = "decide" /\ pc' = "rest" =>
                IF exact' THEN iters' = iters ELSE iters' > iters]_vars
  BY <1>1, <1>2
<1> QED
  BY <1>2, Inductive, PTL DEF Spec, MeasuresMore
=============================================================================
