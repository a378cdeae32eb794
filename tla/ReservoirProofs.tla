-------------------------- MODULE ReservoirProofs ---------------------------
(***************************************************************************)
(* Proofs about the reservoir, for any number of threads, any size of the  *)
(* reservoir and any number of samples and collections.                    *)
(***************************************************************************)
EXTENDS Reservoir, FiniteSetTheorems, TLAPS

Active(s) == pc[s] # "idle"

\* The sample a thread has taken last.
Latest(s) == <<s, taken[s]>>

\* A thread that has yet to write a word of a slot.
Awaited(i, word) ==
  \E s \in Samplers :
    slot[s] = i /\ (pc[s] = "first" \/ (pc[s] = "second" /\ word = 2))

\* A slot holds a sample whole, or the thread that took the sample is writing it.
Written(item, i) == samples[i] = <<item, item>>

Underway(item, i) ==
  \E s \in Samplers :
    /\ Active(s) /\ slot[s] = i /\ item = Latest(s)
    /\ pc[s] = "second" => samples[i][1] = item

-----------------------------------------------------------------------------
(* The inductive invariant.                                                *)

\* A thread numbers its samples from 1: the next is one that no slot holds.
Numbered ==
  /\ \A s \in Samplers : Active(s) => taken[s] # 0
  /\ \A item \in since : item[2] <= taken[item[1]]
  /\ \A i \in 0 .. (N - 1) : \A word \in {1, 2} :
       samples[i][word] \in Items => samples[i][word][2] <= taken[samples[i][word][1]]

\* The count is that of the samples since the last reset.
Counted == IsFiniteSet(since) /\ count = Cardinality(since)

\* Each slot that was claimed holds words of samples since the reset, or will.
SlotsFilled ==
  /\ \A s \in Samplers : Active(s) => Latest(s) \in since
  /\ \A i \in 0 .. (N - 1) : \A word \in {1, 2} :
       i < count => samples[i][word] \in since \/ Awaited(i, word)

\* While there is room each sample has a slot for itself.
OwnSlots ==
  /\ \A item \in since : \E i \in 0 .. (N - 1) :
       i < count /\ (Written(item, i) \/ Underway(item, i))
  /\ \A s \in Samplers : Active(s) =>
       /\ slot[s] < count
       /\ \A t \in Samplers \ {s} : Active(t) => slot[t] # slot[s]
       /\ \A item \in since : item # Latest(s) => ~Written(item, slot[s])
  /\ \A i \in 0 .. (N - 1) : i >= count => samples[i][1] \notin since

\* What a collection that meets no sample half-way has read.
Collected ==
  /\ Idle
  /\ limit = IF count < N THEN count ELSE N
  /\ \A i \in 1 .. Len(values) : values[i] = samples[i - 1]

QuietInv ==
  quiet =>
    /\ SlotsFilled
    /\ count <= N => OwnSlots
    /\ cpc # "idle" => Collected

MergedAll == cpc = "merged" => Len(values) = limit

IInv == TypeOK /\ Numbered /\ Counted /\ QuietInv /\ MergedAll

-----------------------------------------------------------------------------
(* Facts about the actions.                                                *)

LEMMA PairWrite ==
  ASSUME NEW W, NEW p \in W \X W, NEW x
  PROVE  /\ [p EXCEPT ![1] = x] = <<x, p[2]>>
         /\ [p EXCEPT ![2] = x] = <<p[1], x>>
<1>1. PICK a, b : p = <<a, b>>
  OBVIOUS
<1>2. [<<a, b>> EXCEPT ![1] = x] = <<x, b>> /\ [<<a, b>> EXCEPT ![2] = x] = <<a, x>>
  OBVIOUS
<1> QED BY <1>1, <1>2

LEMMA LatestIsItem ==
  ASSUME TypeOK, NEW s \in Samplers
  PROVE  <<s, taken[s] + 1>> \in Items /\ (Latest(s) \in Items <=> taken[s] # 0)
BY DEF TypeOK, Items, Latest

\* A new sample: nobody has written it yet, and it is not among those counted.
LEMMA NewSample ==
  ASSUME TypeOK, Numbered, NEW s \in Samplers, NEW n, n = <<s, taken[s] + 1>>
  PROVE  /\ n \in Items /\ n \notin since
         /\ \A i \in 0 .. (N - 1) : \A word \in {1, 2} : samples[i][word] # n
<1>1. n \in Items /\ n[1] = s /\ n[2] = taken[s] + 1 /\ taken[s] \in Nat
  BY DEF TypeOK, Items
<1>2. ~(n[2] <= taken[n[1]])
  BY <1>1
<1> QED BY <1>1, <1>2 DEF Numbered

\* What a thread's write does to its slot: one word of it, then the other.
LEMMA WriteEffect ==
  ASSUME TypeOK, Numbered, NEW s \in Samplers, Write(s)
  PROVE  LET i == slot[s]
             x == Latest(s)
         IN  /\ i \in 0 .. (N - 1)
             /\ samples' \in [0 .. (N - 1) -> Words \X Words]
             /\ \A j \in 0 .. (N - 1) : j # i => samples'[j] = samples[j]
             /\ \/ /\ pc[s] = "first" /\ samples'[i] = <<x, samples[i][2]>>
                   /\ pc' = [pc EXCEPT ![s] = "second"]
                \/ /\ pc[s] = "second" /\ samples'[i] = <<samples[i][1], x>>
                   /\ pc' = [pc EXCEPT ![s] = "idle"]
             /\ samples[i] = <<samples[i][1], samples[i][2]>> /\ x \in Items
<1> DEFINE i == slot[s]
           x == Latest(s)
<1>1. i \in 0 .. (N - 1) /\ samples[i] \in Words \X Words
  BY DEF TypeOK
<1>2. /\ [samples[i] EXCEPT ![1] = x] = <<x, samples[i][2]>>
      /\ [samples[i] EXCEPT ![2] = x] = <<samples[i][1], x>>
  BY <1>1, PairWrite
<1>3. samples[i] = <<samples[i][1], samples[i][2]>>
  BY <1>1
<1>4. samples \in [0 .. (N - 1) -> Words \X Words]
  BY DEF TypeOK
<1>5. x \in Items /\ x \in Words
  BY LatestIsItem DEF Numbered, Active, Write, Words
<1>6. CASE pc[s] = "first"
  <2>1. samples' = [samples EXCEPT ![i] = [samples[i] EXCEPT ![1] = x]]
    BY <1>6, Zenon DEF Write, Latest
  <2>2. pc' = [pc EXCEPT ![s] = "second"]
    BY <1>6 DEF Write
  <2> HIDE DEF i, x
  <2>3. samples' = [samples EXCEPT ![i] = <<x, samples[i][2]>>]
    BY <2>1, <1>2
  <2>4. /\ \A j \in 0 .. (N - 1) : j # i => samples'[j] = samples[j]
        /\ samples'[i] = <<x, samples[i][2]>>
        /\ samples' \in [0 .. (N - 1) -> Words \X Words]
    BY <1>1, <1>4, <1>5, <2>3
  <2> QED BY <1>1, <1>3, <1>5, <1>6, <2>2, <2>4 DEF i, x
<1>7. CASE pc[s] = "second"
  <2>1. samples' = [samples EXCEPT ![i] = [samples[i] EXCEPT ![2] = x]]
    BY <1>7, Zenon DEF Write, Latest
  <2>2. pc' = [pc EXCEPT ![s] = "idle"]
    BY <1>7 DEF Write
  <2> HIDE DEF i, x
  <2>3. samples' = [samples EXCEPT ![i] = <<samples[i][1], x>>]
    BY <2>1, <1>2
  <2>4. /\ \A j \in 0 .. (N - 1) : j # i => samples'[j] = samples[j]
        /\ samples'[i] = <<samples[i][1], x>>
        /\ samples' \in [0 .. (N - 1) -> Words \X Words]
    BY <1>1, <1>4, <1>5, <2>3
  <2> QED BY <1>1, <1>3, <1>5, <1>7, <2>2, <2>4 DEF i, x
<1> QED BY <1>6, <1>7 DEF Write

-----------------------------------------------------------------------------
(* Every step keeps the invariant.                                         *)

LEMMA InitIInv == Init => IInv
<1> SUFFICES ASSUME Init PROVE IInv
  OBVIOUS
<1>1. TypeOK
  BY ReservoirAssumption DEF Init, TypeOK, Words
<1>2. Numbered
  BY ReservoirAssumption DEF Init, Numbered, Active
<1>3. Counted
  BY FS_EmptySet DEF Init, Counted
<1>4. QuietInv
  BY ReservoirAssumption DEF Init, QuietInv, SlotsFilled, OwnSlots, Active
<1>5. MergedAll
  BY DEF Init, MergedAll
<1> QED BY <1>1, <1>2, <1>3, <1>4, <1>5 DEF IInv

LEMMA ClaimIInv ==
  ASSUME IInv, NEW s \in Samplers, Claim(s)
  PROVE  IInv'
<1> PICK n : n = <<s, taken[s] + 1>>
  OBVIOUS
<1>1. TypeOK /\ Numbered /\ Counted /\ QuietInv /\ MergedAll
  BY DEF IInv
<1>2. /\ n \in Items /\ n \notin since
      /\ \A j \in 0 .. (N - 1) : \A word \in {1, 2} : samples[j][word] # n
  BY <1>1, NewSample
<1>3. PICK i \in 0 .. (N - 1) : slot'[s] = i /\ (count < N => i = count)
  BY <1>1 DEF Claim, TypeOK
<1>4. N \in Nat /\ N # 0
  BY ReservoirAssumption
<1>5. /\ slot'[s] = i /\ (count < N => i = count)
      /\ slot' \in [Samplers -> 0 .. (N - 1)]
      /\ \A t \in Samplers \ {s} : slot'[t] = slot[t] /\ pc'[t] = pc[t]
      /\ pc[s] = "idle" /\ pc'[s] = "first"
      /\ pc' \in [Samplers -> {"idle", "first", "second"}]
  BY <1>1, <1>3 DEF Claim, TypeOK
<1>6. /\ taken' \in [Samplers -> Nat]
      /\ taken'[s] = taken[s] + 1 /\ taken[s] \in Nat
      /\ \A t \in Samplers \ {s} : taken'[t] = taken[t]
  BY <1>1 DEF Claim, TypeOK
<1>7. /\ count' = count + 1 /\ count \in Nat
      /\ since' = since \cup {n} /\ since \subseteq Items
      /\ quiet' = (quiet /\ cpc = "idle")
      /\ UNCHANGED <<samples, collectorVars>>
  BY <1>1 DEF Claim, TypeOK
<1>8. quiet' => quiet /\ cpc = "idle"
  BY <1>7
<1>9. TypeOK'
  <2>1. since' \subseteq Items /\ count' \in Nat
    BY <1>2, <1>7
  <2>2. quiet' \in BOOLEAN
    BY <1>7
  <2>3. UNCHANGED <<samples, cpc, limit, values, rounds>>
    BY <1>7 DEF collectorVars
  <2> QED BY <1>1, <1>5, <1>6, <2>1, <2>2, <2>3 DEF TypeOK
<1>10. \A t \in Samplers : Latest(t)' = IF t = s THEN n ELSE Latest(t)
  BY <1>6 DEF Latest
<1>11. \A t \in Samplers : taken[t] <= taken'[t]
  <2> SUFFICES ASSUME NEW t \in Samplers PROVE taken[t] <= taken'[t]
    OBVIOUS
  <2>1. taken[t] \in Nat
    BY <1>1 DEF TypeOK
  <2> QED BY <1>6, <2>1
<1>12. Numbered'
  <2>1. \A t \in Samplers : Active(t)' => taken'[t] # 0
    BY <1>1, <1>5, <1>6 DEF Numbered, Active
  <2>2. \A item \in since' : item[2] <= taken'[item[1]]
    <3> TAKE item \in since'
    <3>1. CASE item = n
      BY <1>6, <3>1
    <3>2. CASE item \in since
      <4>1. item[1] \in Samplers /\ item[2] \in Nat
        BY <1>7, <3>2 DEF Items
      <4>2. item[2] <= taken[item[1]] /\ taken[item[1]] \in Nat
        BY <1>1, <3>2, <4>1 DEF Numbered, TypeOK
      <4>3. taken[item[1]] <= taken'[item[1]] /\ taken'[item[1]] \in Nat
        BY <1>6, <1>11, <4>1
      <4> QED BY <4>1, <4>2, <4>3
    <3> QED BY <1>7, <3>1, <3>2
  <2>3. \A j \in 0 .. (N - 1) : \A word \in {1, 2} :
          samples'[j][word] \in Items =>
            samples'[j][word][2] <= taken'[samples'[j][word][1]]
    <3> TAKE j \in 0 .. (N - 1), word \in {1, 2}
    <3> DEFINE x == samples[j][word]
    <3>1. x \in Items => x[2] <= taken[x[1]]
      BY <1>1 DEF Numbered
    <3> HIDE DEF x
    <3>2. x \in Items => x[1] \in Samplers /\ x[2] \in Nat
      BY DEF Items
    <3>3. x \in Items => x[2] <= taken'[x[1]]
      BY <1>1, <1>6, <1>11, <3>1, <3>2 DEF TypeOK
    <3> QED BY <1>7, <3>3 DEF x
  <2> QED BY <2>1, <2>2, <2>3 DEF Numbered
<1>13. Counted'
  BY <1>1, <1>2, <1>7, FS_AddElement DEF Counted
<1>14. ASSUME quiet' PROVE SlotsFilled'
  <2>1. SlotsFilled
    BY <1>1, <1>7, <1>14 DEF QuietInv
  <2>2. \A t \in Samplers : Active(t)' => Latest(t)' \in since'
    BY <1>5, <1>7, <1>10, <2>1 DEF SlotsFilled, Active
  <2>3. \A j \in 0 .. (N - 1), word \in {1, 2} : Awaited(j, word) => Awaited(j, word)'
    BY <1>5 DEF Awaited
  <2>4. \A word \in {1, 2} : Awaited(i, word)'
    BY <1>5 DEF Awaited
  <2>5. \A j \in 0 .. (N - 1) : j < count' => j < count \/ j = i
    BY <1>5, <1>7, <1>4
  <2> QED BY <1>7, <2>1, <2>2, <2>3, <2>4, <2>5 DEF SlotsFilled
<1>15. ASSUME quiet', count' <= N PROVE OwnSlots'
  <2>1. count < N /\ count <= N /\ count \in Nat
    BY <1>7, <1>15, <1>4
  <2>2. OwnSlots /\ SlotsFilled /\ i = count
    BY <1>1, <1>5, <1>8, <1>15, <2>1 DEF QuietInv
  <2>3. \A item \in since, j \in 0 .. (N - 1) :
          Written(item, j) \/ Underway(item, j)
            => Written(item, j)' \/ Underway(item, j)'
    BY <1>5, <1>7, <1>10 DEF Written, Underway, Active
  <2>4. Underway(n, i)'
    BY <1>5, <1>6 DEF Underway, Active, Latest
  <2>5. \A item \in since' : \E j \in 0 .. (N - 1) :
          j < count' /\ (Written(item, j)' \/ Underway(item, j)')
    <3> TAKE item \in since'
    <3>1. CASE item = n
      <4>1. i < count'
        BY <1>7, <2>1, <2>2
      <4> QED BY <2>4, <3>1, <4>1
    <3>2. CASE item \in since
      <4>1. PICK j \in 0 .. (N - 1) :
              j < count /\ (Written(item, j) \/ Underway(item, j))
        BY <2>2, <3>2 DEF OwnSlots
      <4> QED BY <1>7, <2>3, <3>2, <4>1
    <3> QED BY <1>7, <3>1, <3>2
  <2>6. ASSUME NEW t \in Samplers, Active(t)'
        PROVE  /\ slot'[t] < count'
               /\ \A u \in Samplers \ {t} : Active(u)' => slot'[u] # slot'[t]
               /\ \A item \in since' :
                    item # Latest(t)' => ~Written(item, slot[t])'
    <3>1. \A u \in Samplers \ {s} : Active(u)' =>
            Active(u) /\ slot'[u] < count /\ slot'[u] = slot[u]
      BY <1>5, <2>2 DEF OwnSlots, Active
    <3>2. CASE t = s
      <4>1. slot'[t] = i /\ i = count
        BY <1>5, <2>2, <3>2
      <4>2. \A item \in since' : item # n => ~Written(item, i)'
        <5> TAKE item \in since'
        <5>1. CASE item = n
          BY <5>1
        <5>2. CASE item \in since
          <6>1. samples[i][1] \notin since
            BY <2>1, <2>2, <4>1 DEF OwnSlots
          <6> QED BY <1>7, <5>2, <6>1 DEF Written
        <5> QED BY <1>7, <5>1, <5>2
      <4>3. \A u \in Samplers \ {t} : Active(u)' => slot'[u] # slot'[t]
        BY <3>1, <3>2, <4>1
      <4>4. slot'[t] < count' /\ Latest(t)' = n
        BY <1>7, <1>10, <2>1, <3>2, <4>1
      <4>5. \A item : Written(item, slot[t])' <=> Written(item, i)'
        BY <1>7, <4>1 DEF Written
      <4> QED BY <4>2, <4>3, <4>4, <4>5
    <3>3. CASE t # s
      <4>1. Active(t) /\ slot'[t] = slot[t] /\ slot[t] < count
            /\ slot[t] \in 0 .. (N - 1)
        BY <1>1, <2>6, <3>1, <3>3 DEF TypeOK
      <4>2. \A u \in Samplers \ {t} : Active(u)' => slot'[u] # slot'[t]
        <5> TAKE u \in Samplers \ {t}
        <5>1. CASE u = s
          BY <1>5, <2>2, <4>1, <5>1
        <5>2. CASE u # s
          BY <2>2, <3>1, <4>1, <5>2 DEF OwnSlots
        <5> QED BY <5>1, <5>2
      <4>3. \A item \in since' : item # Latest(t)' => ~Written(item, slot[t])'
        <5> TAKE item \in since'
        <5>1. CASE item = n
          BY <1>2, <1>7, <4>1, <5>1 DEF Written
        <5>2. CASE item \in since
          BY <1>7, <1>10, <2>2, <3>3, <4>1, <5>2 DEF OwnSlots, Written
        <5> QED BY <1>7, <5>1, <5>2
      <4> QED BY <1>7, <4>1, <4>2, <4>3
    <3> QED BY <3>2, <3>3
  <2>7. \A j \in 0 .. (N - 1) : j >= count' => samples'[j][1] \notin since'
    BY <1>2, <1>7, <2>2 DEF OwnSlots
  <2> QED BY <2>5, <2>6, <2>7 DEF OwnSlots
<1>16. QuietInv' /\ MergedAll'
  BY <1>1, <1>7, <1>14, <1>15 DEF QuietInv, MergedAll, collectorVars
<1> QED BY <1>9, <1>12, <1>13, <1>16 DEF IInv

LEMMA WriteIInv ==
  ASSUME IInv, NEW s \in Samplers, Write(s)
  PROVE  IInv'
<1>1. TypeOK /\ Numbered /\ Counted /\ QuietInv /\ MergedAll
  BY DEF IInv
<1>2. PICK i \in 0 .. (N - 1), x \in Items : i = slot[s] /\ x = Latest(s)
  BY <1>1, WriteEffect
<1>3. /\ samples' \in [0 .. (N - 1) -> Words \X Words]
      /\ \A j \in 0 .. (N - 1) : j # i => samples'[j] = samples[j]
      /\ \/ /\ pc[s] = "first" /\ samples'[i] = <<x, samples[i][2]>>
            /\ pc' = [pc EXCEPT ![s] = "second"]
         \/ /\ pc[s] = "second" /\ samples'[i] = <<samples[i][1], x>>
            /\ pc' = [pc EXCEPT ![s] = "idle"]
      /\ samples[i] = <<samples[i][1], samples[i][2]>>
  BY <1>1, <1>2, WriteEffect
<1>4. UNCHANGED <<count, slot, taken, cpc, limit, values, rounds, since, quiet>>
  BY DEF Write, collectorVars
<1>5. \A t \in Samplers : Latest(t)' = Latest(t)
  BY <1>4 DEF Latest
<1>6. \/ /\ pc[s] = "first" /\ pc'[s] = "second"
         /\ samples'[i][1] = x /\ samples'[i][2] = samples[i][2]
      \/ /\ pc[s] = "second" /\ pc'[s] = "idle"
         /\ samples'[i][1] = samples[i][1] /\ samples'[i][2] = x
  BY <1>1, <1>3 DEF TypeOK
<1>7. /\ \A t \in Samplers \ {s} : pc'[t] = pc[t]
      /\ \A t \in Samplers : Active(t)' => Active(t)
      /\ Active(s) /\ pc' \in [Samplers -> {"idle", "first", "second"}]
  BY <1>1, <1>3 DEF TypeOK, Active
<1>8. x = <<s, taken[s]>> /\ x[1] = s /\ x[2] = taken[s]
  BY <1>2 DEF Latest
<1>9. TypeOK'
  BY <1>1, <1>3, <1>4, <1>7 DEF TypeOK
<1>10. Numbered'
  <2>1. \A j \in 0 .. (N - 1) : \A word \in {1, 2} :
          samples'[j][word] = samples[j][word] \/ samples'[j][word] = x
    BY <1>3, <1>6
  <2>2. x[2] <= taken[x[1]]
    BY <1>1, <1>8 DEF TypeOK
  <2>3. \A j \in 0 .. (N - 1) : \A word \in {1, 2} :
          samples'[j][word] \in Items =>
            samples'[j][word][2] <= taken'[samples'[j][word][1]]
    <3> TAKE j \in 0 .. (N - 1), word \in {1, 2}
    <3>1. CASE samples'[j][word] = x
      BY <1>4, <2>2, <3>1
    <3>2. CASE samples'[j][word] = samples[j][word]
      BY <1>1, <1>4, <3>2 DEF Numbered
    <3> QED BY <2>1, <3>1, <3>2
  <2> QED BY <1>1, <1>4, <1>7, <2>3 DEF Numbered
<1>11. ASSUME quiet PROVE SlotsFilled'
  <2>1. SlotsFilled /\ x \in since
    BY <1>1, <1>2, <1>7, <1>11 DEF QuietInv, SlotsFilled
  <2>2. ASSUME NEW j \in 0 .. (N - 1), NEW word \in {1, 2}, j < count
        PROVE  samples'[j][word] \in since \/ Awaited(j, word)'
    <3>1. CASE samples[j][word] \in since
      BY <1>3, <1>6, <2>1, <3>1
    <3>2. CASE Awaited(j, word)
      <4>1. PICK t \in Samplers :
              slot[t] = j /\ (pc[t] = "first" \/ (pc[t] = "second" /\ word = 2))
        BY <3>2 DEF Awaited
      <4>2. CASE t = s
        <5>1. j = i
          BY <1>2, <4>1, <4>2
        <5>2. CASE samples'[i][word] = x
          BY <2>1, <5>1, <5>2
        <5>3. CASE samples'[i][word] # x
          <6>1. word = 2 /\ pc'[s] = "second"
            BY <1>6, <4>1, <4>2, <5>3
          <6> QED BY <1>4, <4>1, <4>2, <6>1 DEF Awaited
        <5> QED BY <5>2, <5>3
      <4>3. CASE t # s
        BY <1>4, <1>7, <4>1, <4>3 DEF Awaited
      <4> QED BY <4>2, <4>3
    <3> QED BY <2>1, <2>2, <3>1, <3>2 DEF SlotsFilled
  <2>3. \A t \in Samplers : Active(t)' => Latest(t)' \in since'
    BY <1>4, <1>5, <1>7, <2>1 DEF SlotsFilled
  <2> QED BY <1>4, <2>2, <2>3 DEF SlotsFilled
<1>12. ASSUME quiet, count <= N PROVE OwnSlots'
  <2>1. OwnSlots /\ SlotsFilled /\ x \in since
    BY <1>1, <1>2, <1>7, <1>12 DEF QuietInv, SlotsFilled
  <2>2. ASSUME NEW item \in since, NEW j \in 0 .. (N - 1),
               Written(item, j) \/ Underway(item, j)
        PROVE  Written(item, j)' \/ Underway(item, j)'
    <3>1. CASE j # i
      <4>1. Written(item, j) => Written(item, j)'
        BY <1>3, <3>1 DEF Written
      <4>2. ASSUME Underway(item, j) PROVE Underway(item, j)'
        <5>1. PICK t \in Samplers : /\ Active(t) /\ slot[t] = j /\ item = Latest(t)
                                    /\ pc[t] = "second" => samples[j][1] = item
          BY <4>2 DEF Underway
        <5>2. t # s
          BY <1>2, <3>1, <5>1
        <5>3. /\ Active(t)' /\ slot'[t] = j /\ item = Latest(t)'
              /\ pc'[t] = "second" => samples'[j][1] = item
          BY <1>3, <1>4, <1>5, <1>7, <3>1, <5>1, <5>2 DEF Active
        <5> QED BY <5>3 DEF Underway
      <4> QED BY <2>2, <4>1, <4>2
    <3>2. CASE j = i
      <4>1. item = x
        <5>1. ~(item # x /\ Written(item, i))
          BY <1>2, <1>7, <2>1 DEF OwnSlots
        <5>2. \A t \in Samplers \ {s} : Active(t) => slot[t] # i
          BY <1>2, <1>7, <2>1 DEF OwnSlots
        <5> QED BY <1>2, <2>2, <3>2, <5>1, <5>2 DEF Underway
      <4>2. pc[s] = "second" => samples[i][1] = x
        <5>1. CASE Written(x, i)
          BY <1>6, <5>1 DEF Written
        <5>2. CASE Underway(x, i)
          <6>1. PICK t \in Samplers : /\ Active(t) /\ slot[t] = i /\ x = Latest(t)
                                      /\ pc[t] = "second" => samples[i][1] = x
            BY <5>2 DEF Underway
          <6>2. t = s
            BY <1>2, <1>7, <2>1, <6>1 DEF OwnSlots
          <6> QED BY <6>1, <6>2
        <5> QED BY <2>2, <3>2, <4>1, <5>1, <5>2
      <4>3. CASE pc[s] = "first"
        <5>1. Active(s)' /\ slot'[s] = i /\ x = Latest(s)' /\ samples'[i][1] = x
          BY <1>2, <1>4, <1>5, <1>6, <4>3 DEF Active
        <5> QED BY <3>2, <4>1, <5>1 DEF Underway
      <4>4. CASE pc[s] = "second"
        <5>1. samples'[i] = <<x, x>>
          BY <1>3, <4>2, <4>4
        <5> QED BY <3>2, <4>1, <5>1 DEF Written
      <4> QED BY <1>6, <4>3, <4>4
    <3> QED BY <3>1, <3>2
  <2>3. \A item \in since' : \E j \in 0 .. (N - 1) :
          j < count' /\ (Written(item, j)' \/ Underway(item, j)')
    BY <1>4, <2>1, <2>2 DEF OwnSlots
  <2>4. ASSUME NEW t \in Samplers, Active(t)'
        PROVE  /\ slot'[t] < count'
               /\ \A u \in Samplers \ {t} : Active(u)' => slot'[u] # slot'[t]
               /\ \A item \in since' :
                    item # Latest(t)' => ~Written(item, slot[t])'
    <3>1. Active(t)
      BY <1>7, <2>4
    <3>2. PICK j \in 0 .. (N - 1) : j = slot[t]
      BY <1>1 DEF TypeOK
    <3>3. \A item : Written(item, slot[t])' <=> Written(item, j)'
      BY <1>4, <3>2 DEF Written
    <3>4. \A item \in since : item # Latest(t) => ~Written(item, j)'
      <4>1. CASE t = s
        BY <1>2, <1>6, <3>2, <4>1 DEF Written
      <4>2. CASE t # s
        <5>1. j # i
          BY <1>2, <1>7, <2>1, <3>1, <3>2, <4>2 DEF OwnSlots
        <5> QED BY <1>3, <2>1, <3>1, <3>2, <5>1 DEF OwnSlots, Written
      <4> QED BY <4>1, <4>2
    <3>5. slot'[t] < count' /\ \A u \in Samplers \ {t} : Active(u)' => slot'[u] # slot'[t]
      BY <1>4, <1>7, <2>1, <3>1 DEF OwnSlots
    <3> QED BY <1>4, <1>5, <3>3, <3>4, <3>5
  <2>5. \A j \in 0 .. (N - 1) : j >= count' => samples'[j][1] \notin since'
    <3>1. i < count
      BY <1>2, <1>7, <2>1 DEF OwnSlots
    <3>2. count \in Nat
      BY <1>1 DEF TypeOK
    <3> QED BY <1>3, <1>4, <2>1, <3>1, <3>2 DEF OwnSlots
  <2> QED BY <2>3, <2>4, <2>5 DEF OwnSlots
<1>13. ASSUME quiet, cpc # "idle" PROVE Collected'
  <2>1. Idle
    BY <1>1, <1>13 DEF QuietInv, Collected
  <2> QED BY <1>7, <2>1 DEF Idle, Active
<1>14. QuietInv'
  BY <1>4, <1>11, <1>12, <1>13 DEF QuietInv
<1>15. Counted' /\ MergedAll'
  BY <1>1, <1>4 DEF Counted, MergedAll
<1> QED BY <1>9, <1>10, <1>14, <1>15 DEF IInv

\* A step of the collection leaves what the samplers have done.
LEMMA CollectorKeeps ==
  ASSUME IInv, UNCHANGED <<samples, pc, slot, taken, count, since>>
  PROVE  /\ Numbered' /\ Counted'
         /\ SlotsFilled => SlotsFilled'
         /\ OwnSlots => OwnSlots'
         /\ Idle' <=> Idle
<1>1. \A t \in Samplers : (Active(t)' <=> Active(t)) /\ Latest(t)' = Latest(t)
  BY DEF Active, Latest
<1>2. Numbered' /\ Counted'
  BY <1>1 DEF IInv, Numbered, Counted
<1>3. \A j, word : Awaited(j, word)' <=> Awaited(j, word)
  BY DEF Awaited
<1>4. SlotsFilled => SlotsFilled'
  BY <1>1, <1>3 DEF SlotsFilled
<1>5. \A item, j : Written(item, j)' <=> Written(item, j)
  BY DEF Written
<1>6. \A item, j : Underway(item, j)' <=> Underway(item, j)
  BY <1>1 DEF Underway
<1>7. \A item : \A t \in Samplers : Written(item, slot[t])' <=> Written(item, slot[t])
  BY DEF Written
<1>8. OwnSlots => OwnSlots'
  BY <1>1, <1>5, <1>6, <1>7 DEF OwnSlots
<1> QED BY <1>2, <1>4, <1>8 DEF Idle

LEMMA LoadCountIInv ==
  ASSUME IInv, LoadCount
  PROVE  IInv'
<1>1. UNCHANGED <<samples, pc, slot, taken, count, since>>
  BY DEF LoadCount, samplerVars
<1>2. /\ rounds' = rounds + 1 /\ cpc' = "read" /\ values' = <<>>
      /\ limit' = (IF count < N THEN count ELSE N)
      /\ quiet' \in BOOLEAN /\ (quiet' => quiet /\ Idle)
  BY DEF LoadCount
<1>3. count \in Nat /\ N \in Nat /\ limit' \in 0 .. N
  BY <1>2, ReservoirAssumption DEF IInv, TypeOK
<1>4. TypeOK'
  BY <1>1, <1>2, <1>3 DEF IInv, TypeOK
<1>5. quiet' => Collected'
  BY <1>1, <1>2, CollectorKeeps DEF Collected
<1>6. QuietInv'
  BY <1>1, <1>2, <1>5, CollectorKeeps DEF IInv, QuietInv
<1>7. MergedAll'
  BY <1>2 DEF MergedAll
<1> QED BY <1>1, <1>4, <1>6, <1>7, CollectorKeeps DEF IInv

LEMMA ReadSlotIInv ==
  ASSUME IInv, ReadSlot
  PROVE  IInv'
<1>1. UNCHANGED <<samples, pc, slot, taken, count, since>>
  BY DEF ReadSlot, samplerVars
<1>2. /\ UNCHANGED <<cpc, limit, rounds, quiet>> /\ cpc = "read"
      /\ Len(values) < limit /\ values' = Append(values, samples[Len(values)])
  BY DEF ReadSlot
<1>3. /\ values \in Seq(Words \X Words) /\ Len(values) \in Nat
      /\ limit \in 0 .. N /\ N \in Nat
  BY ReservoirAssumption DEF IInv, TypeOK
<1>4. Len(values) \in 0 .. (N - 1)
  BY <1>2, <1>3
<1>5. samples[Len(values)] \in Words \X Words
  BY <1>4 DEF IInv, TypeOK
<1>6. /\ values' \in Seq(Words \X Words) /\ Len(values') = Len(values) + 1
      /\ \A i \in 1 .. Len(values) : values'[i] = values[i]
      /\ values'[Len(values) + 1] = samples[Len(values)]
  BY <1>2, <1>3, <1>5
<1>7. Len(values') <= limit
  BY <1>2, <1>3, <1>6
<1>8. TypeOK'
  BY <1>1, <1>2, <1>6, <1>7 DEF IInv, TypeOK
<1>9. Collected => Collected'
  <2> SUFFICES ASSUME Collected, NEW i \in 1 .. Len(values')
               PROVE  values'[i] = samples[i - 1]
    BY <1>1, <1>2 DEF Collected, Idle
  <2>1. i \in 1 .. Len(values) \/ i = Len(values) + 1
    BY <1>3, <1>6
  <2>2. Len(values) + 1 - 1 = Len(values)
    BY <1>3
  <2> QED BY <1>6, <2>1, <2>2 DEF Collected
<1>10. QuietInv'
  BY <1>1, <1>2, <1>9, CollectorKeeps DEF IInv, QuietInv
<1>11. MergedAll'
  BY <1>2 DEF MergedAll
<1> QED BY <1>1, <1>8, <1>10, <1>11, CollectorKeeps DEF IInv

LEMMA MergeIInv ==
  ASSUME IInv, Merge
  PROVE  IInv'
<1>1. UNCHANGED <<samples, pc, slot, taken, count, since, limit, values, rounds, quiet>>
  BY DEF Merge, samplerVars
<1>2. cpc = "read" /\ cpc' = "merged" /\ Len(values) = limit
  BY DEF Merge
<1>3. TypeOK'
  BY <1>1, <1>2 DEF IInv, TypeOK
<1>4. Collected => Collected'
  BY <1>1 DEF Collected, Idle
<1>5. QuietInv'
  BY <1>1, <1>2, <1>4, CollectorKeeps DEF IInv, QuietInv
<1>6. MergedAll'
  BY <1>1, <1>2 DEF MergedAll
<1> QED BY <1>1, <1>3, <1>5, <1>6, CollectorKeeps DEF IInv

LEMMA ResetIInv ==
  ASSUME IInv, Reset
  PROVE  IInv'
<1>1. UNCHANGED <<samples, pc, slot, taken, limit, values, rounds>>
  BY DEF Reset, samplerVars
<1>2. count' = 0 /\ cpc' = "idle" /\ since' = {}
  BY DEF Reset
<1>3. quiet' \in BOOLEAN /\ (quiet' => Idle)
  BY Zenon DEF Reset, Idle
<1>4. TypeOK'
  BY <1>1, <1>2, <1>3 DEF IInv, TypeOK
<1>5. Numbered'
  BY <1>1, <1>2 DEF IInv, Numbered, Active
<1>6. Counted'
  BY <1>2, FS_EmptySet DEF Counted
<1>7. quiet' => SlotsFilled' /\ OwnSlots'
  <2>1. quiet' => \A t \in Samplers : ~Active(t)'
    BY <1>1, <1>3 DEF Idle, Active
  <2>2. \A i \in 0 .. (N - 1) : ~(i < 0)
    BY ReservoirAssumption
  <2> QED BY <1>2, <2>1, <2>2 DEF SlotsFilled, OwnSlots
<1>8. QuietInv' /\ MergedAll'
  BY <1>2, <1>7 DEF QuietInv, MergedAll
<1> QED BY <1>4, <1>5, <1>6, <1>8 DEF IInv

LEMMA NextIInv ==
  ASSUME IInv, [Next]_vars
  PROVE  IInv'
<1>1. CASE UNCHANGED vars
  <2>1. TypeOK' /\ MergedAll' /\ (Collected => Collected')
    BY <1>1 DEF IInv, vars, TypeOK, MergedAll, Collected, Idle
  <2>2. UNCHANGED <<samples, pc, slot, taken, count, since, quiet, cpc>>
    BY <1>1 DEF vars
  <2>3. QuietInv'
    BY <2>1, <2>2, CollectorKeeps DEF IInv, QuietInv
  <2> QED BY <2>1, <2>2, <2>3, CollectorKeeps DEF IInv
<1>2. CASE \E s \in Samplers : Claim(s) \/ Write(s)
  BY <1>2, ClaimIInv, WriteIInv
<1>3. CASE LoadCount \/ ReadSlot \/ Merge \/ Reset
  BY <1>3, LoadCountIInv, ReadSlotIInv, MergeIInv, ResetIInv
<1> QED BY <1>1, <1>2, <1>3 DEF Next

LEMMA Inductive == Spec => []IInv
BY InitIInv, NextIInv, PTL DEF Spec

-----------------------------------------------------------------------------
(* Theorems.                                                               *)

\* The slots, the counts and what was read keep their types: a thread writes, and
\* the collection reads, inside the reservoir.
THEOREM TypeCorrect == Spec => []TypeOK
BY Inductive, PTL DEF IInv

\* A collection that meets no sample half-way gets each sample since the last reset
\* once and whole, or N slots of nothing else, whatever happened before that reset.
THEOREM QuietIsExact == Spec => []QuietCollectionExact
<1>1. IInv => QuietCollectionExact
  <2> SUFFICES ASSUME IInv, cpc = "merged", quiet
               PROVE  IF Cardinality(since) <= N
                        THEN /\ Len(values) = Cardinality(since)
                             /\ \A item \in since : Whole(item)
                        ELSE /\ Len(values) = N
                             /\ \A i \in 1 .. N :
                                  {values[i][1], values[i][2]} \subseteq since
    BY DEF QuietCollectionExact
  <2>1. /\ count = Cardinality(since) /\ count \in Nat /\ N \in Nat
        /\ Len(values) = limit /\ limit = IF count < N THEN count ELSE N
    BY ReservoirAssumption DEF IInv, TypeOK, Counted, MergedAll, QuietInv, Collected
  <2>2. /\ SlotsFilled /\ (count <= N => OwnSlots) /\ \A t \in Samplers : ~Active(t)
        /\ \A i \in 1 .. Len(values) : values[i] = samples[i - 1]
    BY DEF IInv, QuietInv, Collected, Idle, Active
  <2>3. CASE count <= N
    <3>1. Len(values) = count /\ OwnSlots
      BY <2>1, <2>2, <2>3
    <3>2. ASSUME NEW item \in since PROVE Whole(item)
      <4>1. PICK j \in 0 .. (N - 1) : j < count /\ Written(item, j)
        BY <2>2, <3>1 DEF OwnSlots, Underway
      <4>2. j + 1 \in 1 .. Len(values) /\ (j + 1) - 1 = j
        BY <2>1, <3>1, <4>1
      <4>3. values[j + 1] = <<item, item>>
        BY <2>2, <4>1, <4>2 DEF Written
      <4>4. DOMAIN values = 1 .. Len(values)
        BY DEF IInv, TypeOK
      <4> QED BY <4>2, <4>3, <4>4 DEF Whole
    <3> QED BY <2>1, <2>3, <3>1, <3>2
  <2>4. CASE ~(count <= N)
    <3>1. Len(values) = N
      BY <2>1, <2>4
    <3>2. ASSUME NEW i \in 1 .. N
          PROVE  {values[i][1], values[i][2]} \subseteq since
      <4>1. i - 1 \in 0 .. (N - 1) /\ i - 1 < count
        BY <2>1, <2>4
      <4>2. \A word \in {1, 2} : samples[i - 1][word] \in since
        BY <2>2, <4>1 DEF SlotsFilled, Awaited, Active
      <4> QED BY <2>2, <3>1, <4>2
    <3> QED BY <2>1, <2>4, <3>1, <3>2
  <2> QED BY <2>3, <2>4
<1> QED BY <1>1, Inductive, PTL
=============================================================================
