----------------------------- MODULE Reservoir ------------------------------
(***************************************************************************)
(* The ReservoirSampler of src/src/util/stats.rs: threads that sample, and *)
(* the test case that collects the samples (Distribution::add_all) and     *)
(* resets the reservoir, as Semaphore::collect_wake_stats does.            *)
(*                                                                         *)
(* A sample is a Duration of two words. Its slot is claimed by an atomic   *)
(* fetch_add and then written by plain stores, one word each; a slot that  *)
(* has not been written is uninitialised memory.                           *)
(***************************************************************************)
EXTENDS Integers, Sequences, FiniteSets

CONSTANTS
  Samplers,        \* the threads that sample
  N,               \* the size of the reservoir
  Unwritten,       \* what uninitialised memory holds
  MaxSamples,      \* bound on the samples each thread takes
  MaxCollections   \* bound on the collections

\* The n-th sample of a thread.
Items == Samplers \X (Nat \ {0})

ASSUME ReservoirAssumption ==
  /\ IsFiniteSet(Samplers)
  /\ N \in Nat \ {0}
  /\ Unwritten \notin Items
  /\ MaxSamples \in Nat /\ MaxCollections \in Nat

VARIABLES
  samples,   \* ReservoirSampler.samples: the two words of each slot
  count,     \* ReservoirSampler.count
  pc,        \* where each thread is in sample()
  slot,      \* the slot each thread writes
  taken,     \* the number of samples each thread has begun to take
  cpc,       \* where the collection is
  limit,     \* the number of slots it reads
  values,    \* the slots it has read
  rounds,    \* collections begun
  since,     \* history: the samples begun since the last reset
  quiet      \* history: whether the last reset, and the collection since it, have
             \* met no sample half-way

samplerVars == <<samples, pc, slot, taken>>
collectorVars == <<cpc, limit, values, rounds>>
vars == <<samples, count, pc, slot, taken, cpc, limit, values, rounds, since, quiet>>

Idle == \A s \in Samplers : pc[s] = "idle"

Init ==
  /\ samples = [i \in 0 .. (N - 1) |-> <<Unwritten, Unwritten>>]
  /\ count = 0
  /\ pc = [s \in Samplers |-> "idle"]
  /\ slot = [s \in Samplers |-> 0]
  /\ taken = [s \in Samplers |-> 0]
  /\ cpc = "idle" /\ limit = 0 /\ values = <<>> /\ rounds = 0
  /\ since = {} /\ quiet = TRUE

\* count.fetch_add(1): the next slot, or a random one if there is none left.
Claim(s) ==
  /\ pc[s] = "idle" /\ taken[s] < MaxSamples
  /\ taken' = [taken EXCEPT ![s] = @ + 1]
  /\ count' = count + 1
  /\ \E i \in 0 .. (N - 1) :
       /\ count < N => i = count
       /\ slot' = [slot EXCEPT ![s] = i]
  /\ pc' = [pc EXCEPT ![s] = "first"]
  /\ since' = since \cup {<<s, taken[s] + 1>>}
  /\ quiet' = (quiet /\ cpc = "idle")
  /\ UNCHANGED <<samples, collectorVars>>

\* ptr::write(samples[index], item), a word at a time.
Write(s) ==
  /\ pc[s] \in {"first", "second"}
  /\ LET word == IF pc[s] = "first" THEN 1 ELSE 2
     IN samples' = [samples EXCEPT ![slot[s]][word] = <<s, taken[s]>>]
  /\ pc' = [pc EXCEPT ![s] = IF @ = "first" THEN "second" ELSE "idle"]
  /\ UNCHANGED <<count, slot, taken, collectorVars, since, quiet>>

\* Mutant: the count is not capped to the size.
LoadCountUncapped ==
  /\ cpc = "idle" /\ rounds < MaxCollections
  /\ rounds' = rounds + 1
  /\ limit' = count
  /\ values' = <<>>
  /\ cpc' = "read"
  /\ quiet' = (quiet /\ Idle)
  /\ UNCHANGED <<samplerVars, count, since>>

\* add_all: count.load(), and how many slots to read.
LoadCount ==
  /\ cpc = "idle" /\ rounds < MaxCollections
  /\ rounds' = rounds + 1
  /\ limit' = IF count < N THEN count ELSE N
  /\ values' = <<>>
  /\ cpc' = "read"
  /\ quiet' = (quiet /\ Idle)
  /\ UNCHANGED <<samplerVars, count, since>>

\* ptr::read(samples[i]) for each i.
ReadSlot ==
  /\ cpc = "read" /\ Len(values) < limit
  /\ values' = Append(values, samples[Len(values)])
  /\ UNCHANGED <<samplerVars, count, cpc, limit, rounds, since, quiet>>

\* The values are merged into the digest.
Merge ==
  /\ cpc = "read" /\ Len(values) = limit
  /\ cpc' = "merged"
  /\ UNCHANGED <<samplerVars, count, limit, values, rounds, since, quiet>>

\* Mutant: the collection leaves the reservoir as it is.
ResetNothing ==
  /\ cpc = "merged"
  /\ cpc' = "idle"
  /\ since' = {} /\ quiet' = Idle
  /\ UNCHANGED <<samplerVars, count, limit, values, rounds>>

\* reset(): count.store(0).
Reset ==
  /\ cpc = "merged"
  /\ count' = 0
  /\ cpc' = "idle"
  /\ since' = {} /\ quiet' = Idle
  /\ UNCHANGED <<samplerVars, limit, values, rounds>>

Next ==
  \/ \E s \in Samplers : Claim(s) \/ Write(s)
  \/ LoadCount \/ ReadSlot \/ Merge \/ Reset

Spec == Init /\ [][Next]_vars

-----------------------------------------------------------------------------
(* Properties.                                                             *)

Words == Items \cup {Unwritten}

TypeOK ==
  /\ samples \in [0 .. (N - 1) -> Words \X Words]
  /\ count \in Nat
  /\ pc \in [Samplers -> {"idle", "first", "second"}]
  /\ slot \in [Samplers -> 0 .. (N - 1)]
  /\ taken \in [Samplers -> Nat]
  /\ cpc \in {"idle", "read", "merged"}
  /\ limit \in 0 .. N
  /\ values \in Seq(Words \X Words) /\ Len(values) <= limit
  /\ rounds \in Nat
  /\ since \subseteq Items
  /\ quiet \in BOOLEAN

\* The collection holds a sample whole.
Whole(item) == \E i \in DOMAIN values : values[i] = <<item, item>>

\* What the cases rely on when they collect between rounds: a collection that
\* meets no sample half-way gets every sample since the last reset, each once
\* and whole, if the reservoir has room for them; if not it gets N slots that
\* hold nothing but words of such samples.
QuietCollectionExact ==
  cpc = "merged" /\ quiet =>
    IF Cardinality(since) <= N
      THEN /\ Len(values) = Cardinality(since)
           /\ \A item \in since : Whole(item)
      ELSE /\ Len(values) = N
           /\ \A i \in 1 .. N : {values[i][1], values[i][2]} \subseteq since

\* "A thread-safe reservoir sampler that uses atomic operations to safely collect
\* samples from any number of concurrent threads": whatever a collection reads
\* is a sample that some thread has taken.
CollectedWereTaken ==
  \A i \in DOMAIN values :
    \E s \in Samplers : \E k \in 1 .. taken[s] : values[i] = <<<<s, k>>, <<s, k>>>>
=============================================================================
