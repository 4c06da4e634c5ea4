--------------------------- MODULE LaneStateProofs ---------------------------
(***************************************************************************)
(* Facts about the operations on one lane, cited by the proofs about the   *)
(* modules that are built from them.                                       *)
(***************************************************************************)
EXTENDS LaneState, FiniteSetTheorems, SequenceTheorems, TLAPS

\* An empty queue has no entries.
LEMMA EmptyQueue == Entries(<<>>) = {} /\ NoDuplicates(<<>>)
  <1>1. <<>> \in Seq(Tasks) /\ Len(<<>>) = 0
    BY EmptySeq
  <1>2. DOMAIN <<>> = 1 .. 0
    BY <1>1, LenProperties
  <1>3. \A i \in 1 .. 0 : FALSE
    OBVIOUS
  <1>4. \A i \in DOMAIN <<>> : FALSE
    BY <1>2, <1>3
  <1>5. QED BY <1>4 DEF Entries, NoDuplicates

\* pump starts between none and all of the queued entries.
LEMMA StartCountBounds ==
  ASSUME NEW s \in LaneStates, IsFiniteSet(s.active)
  PROVE  /\ StartCount(s) \in Nat
         /\ StartCount(s) <= Len(s.queue)
  <1>1. Cardinality(s.active) \in Nat
    BY FS_CardinalityType
  <1>2. Len(s.queue) \in Nat /\ s.maxConcurrent \in Nat
    BY DEF LaneStates
  <1>3. QED BY <1>1, <1>2 DEF StartCount

\* The started entries are the first StartCount(s) of the queue, in order.
LEMMA StartingEntries ==
  ASSUME NEW s \in LaneStates, IsFiniteSet(s.active)
  PROVE  /\ Entries(Starting(s)) = {s.queue[i] : i \in 1 .. StartCount(s)}
         /\ Entries(Starting(s)) \subseteq Entries(s.queue)
         /\ Starting(s) \in Seq(Tasks)
  <1>1. /\ StartCount(s) \in Nat /\ StartCount(s) <= Len(s.queue)
        /\ s.queue \in Seq(Tasks)
    BY StartCountBounds DEF LaneStates
  <1>2. \A i \in 1 .. StartCount(s) : s.queue[i] \in Tasks
    BY <1>1
  <1>3. /\ Starting(s) \in Seq(Tasks)
        /\ Len(Starting(s)) = StartCount(s)
        /\ \A i \in 1 .. StartCount(s) : Starting(s)[i] = s.queue[i]
    BY <1>1, <1>2 DEF Starting
  <1>4. DOMAIN Starting(s) = 1 .. StartCount(s)
    BY <1>3
  <1>5. DOMAIN s.queue = 1 .. Len(s.queue)
    BY <1>1
  <1>6. QED BY <1>1, <1>3, <1>4, <1>5 DEF Entries

\* The entries that stay are the rest of the queue, in order.
LEMMA PumpQueue ==
  ASSUME NEW s \in LaneStates, IsFiniteSet(s.active)
  PROVE  /\ Pump(s).queue \in Seq(Tasks)
         /\ Len(Pump(s).queue) = Len(s.queue) - StartCount(s)
         /\ \A i \in 1 .. Len(s.queue) - StartCount(s) :
              Pump(s).queue[i] = s.queue[StartCount(s) + i]
         /\ Pump(s).active = s.active \cup Entries(Starting(s))
         /\ Pump(s).maxConcurrent = s.maxConcurrent
         /\ Pump(s).generation = s.generation
  <1> DEFINE k == StartCount(s)
  <1>1. /\ k \in Nat /\ k <= Len(s.queue) /\ s.queue \in Seq(Tasks)
    BY StartCountBounds DEF LaneStates
  <1>2. /\ Pump(s).queue = SubSeq(s.queue, k + 1, Len(s.queue))
        /\ Pump(s).active = s.active \cup Entries(Starting(s))
        /\ Pump(s).maxConcurrent = s.maxConcurrent
        /\ Pump(s).generation = s.generation
    BY DEF Pump, LaneStates
  <1>3. \A i \in k + 1 .. Len(s.queue) : s.queue[i] \in Tasks
    BY <1>1
  <1> HIDE DEF k
  <1>4. /\ SubSeq(s.queue, k + 1, Len(s.queue)) \in Seq(Tasks)
        /\ Len(SubSeq(s.queue, k + 1, Len(s.queue))) = Len(s.queue) - k
        /\ \A i \in 1 .. Len(s.queue) - k :
              SubSeq(s.queue, k + 1, Len(s.queue))[i] = s.queue[k + i]
    BY <1>1, <1>3
  <1>5. QED BY <1>2, <1>4 DEF k

\* A pump yields a lane again.
LEMMA PumpType ==
  ASSUME NEW s \in LaneStates, IsFiniteSet(s.active)
  PROVE  Pump(s) \in LaneStates
  <1>1. Entries(Starting(s)) \subseteq Tasks
    BY StartingEntries DEF Entries
  <1>2. SubSeq(s.queue, StartCount(s) + 1, Len(s.queue)) \in Seq(Tasks)
    <2>1. /\ StartCount(s) \in Nat
          /\ \A i \in StartCount(s) + 1 .. Len(s.queue) : s.queue[i] \in Tasks
      BY StartCountBounds DEF LaneStates
    <2>2. QED BY <2>1, SubSeqProperties DEF LaneStates
  <1>3. s.active \cup Entries(Starting(s)) \subseteq Tasks
    BY <1>1 DEF LaneStates
  <1>4. QED BY <1>2, <1>3 DEF Pump, LaneStates

\* Appending an entry leaves the rest of the lane alone.
LEMMA PushType ==
  ASSUME NEW s \in LaneStates, NEW t \in Tasks
  PROVE  /\ Push(s, t) \in LaneStates
         /\ Push(s, t).queue = Append(s.queue, t)
         /\ Push(s, t).active = s.active
         /\ Push(s, t).generation = s.generation
  <1>1. s.queue \in Seq(Tasks)
    BY DEF LaneStates
  <1>2. Append(s.queue, t) \in Seq(Tasks)
    BY <1>1
  <1> DEFINE a == Append(s.queue, t)
  <1>3. Push(s, t) = [s EXCEPT !.queue = a]
    BY DEF Push
  <1>4. a \in Seq(Tasks)
    BY <1>2
  <1> HIDE DEF a
  <1>5. QED BY <1>3, <1>4 DEF LaneStates, a

\* Clearing empties the queue and leaves the rest of the lane alone.
LEMMA ClearType ==
  ASSUME NEW s \in LaneStates
  PROVE  /\ Clear(s) \in LaneStates
         /\ Clear(s).queue = <<>>
         /\ Clear(s).active = s.active
         /\ Clear(s).generation = s.generation
  <1> DEFINE a == <<>>
  <1>1. Clear(s) = [s EXCEPT !.queue = a] /\ a \in Seq(Tasks)
    BY DEF Clear
  <1> HIDE DEF a
  <1>2. QED BY <1>1 DEF LaneStates, a

\* A reset moves to the next generation and forgets the running tasks.
LEMMA ResetType ==
  ASSUME NEW s \in LaneStates
  PROVE  /\ Reset(s) \in LaneStates
         /\ Reset(s).queue = s.queue
         /\ Reset(s).active = {}
         /\ Reset(s).generation = s.generation + 1
  <1> DEFINE g == s.generation + 1
             e == {}
  <1>1. g \in Nat /\ e \in SUBSET Tasks
    BY DEF LaneStates
  <1>2. Reset(s) = [[s EXCEPT !.generation = g] EXCEPT !.active = e]
    BY DEF Reset, LaneStates
  <1> HIDE DEF g, e
  <1>3. QED BY <1>1, <1>2 DEF LaneStates, g, e

\* Nothing is lost or duplicated: what was queued has started or stays.
LEMMA PumpSplits ==
  ASSUME NEW s \in LaneStates, IsFiniteSet(s.active), NoDuplicates(s.queue)
  PROVE  /\ Entries(Pump(s).queue) = Entries(s.queue) \ Entries(Starting(s))
         /\ NoDuplicates(Pump(s).queue)
  <1> DEFINE k == StartCount(s)
             n == Len(s.queue)
             r == Pump(s).queue
  <1>1. k \in Nat /\ n \in Nat /\ k <= n
    BY StartCountBounds DEF LaneStates
  <1>2. /\ DOMAIN r = 1 .. n - k
        /\ \A i \in 1 .. n - k : r[i] = s.queue[k + i]
    BY PumpQueue, <1>1
  <1>3. /\ DOMAIN s.queue = 1 .. n
        /\ Entries(Starting(s)) = {s.queue[i] : i \in 1 .. k}
    BY StartingEntries DEF LaneStates
  <1>4. \A i, j \in 1 .. n : s.queue[i] = s.queue[j] => i = j
    BY <1>3 DEF NoDuplicates
  <1> HIDE DEF k, n, r
  <1>5. NoDuplicates(r)
    BY <1>1, <1>2, <1>4 DEF NoDuplicates
  <1>6. Entries(r) = {s.queue[i] : i \in k + 1 .. n}
    <2>1. ASSUME NEW i \in k + 1 .. n PROVE s.queue[i] \in Entries(r)
      <3>1. i - k \in 1 .. n - k /\ k + (i - k) = i
        BY <1>1
      <3>2. QED BY <3>1, <1>2 DEF Entries
    <2>2. ASSUME NEW i \in 1 .. n - k PROVE r[i] \in {s.queue[j] : j \in k + 1 .. n}
      BY <1>1, <1>2
    <2>3. QED BY <1>2, <2>1, <2>2 DEF Entries
  <1>7. {s.queue[i] : i \in k + 1 .. n} = {s.queue[i] : i \in 1 .. n} \ {s.queue[i] : i \in 1 .. k}
    BY <1>1, <1>4
  <1>8. QED BY <1>3, <1>5, <1>6, <1>7 DEF Entries, r

\* Without duplicates, as many tasks become active as entries are shifted.
LEMMA StartingCardinality ==
  ASSUME NEW s \in LaneStates, IsFiniteSet(s.active), NoDuplicates(s.queue)
  PROVE  /\ IsFiniteSet(Entries(Starting(s)))
         /\ Cardinality(Entries(Starting(s))) = StartCount(s)
  <1> DEFINE k == StartCount(s)
             T == Entries(Starting(s))
             f == [i \in 1 .. k |-> s.queue[i]]
  <1>1. k \in Nat /\ k <= Len(s.queue)
    BY StartCountBounds
  <1>2. T = {s.queue[i] : i \in 1 .. k} /\ DOMAIN s.queue = 1 .. Len(s.queue)
    BY StartingEntries DEF LaneStates
  <1>3. Len(s.queue) \in Nat
    BY DEF LaneStates
  <1> HIDE DEF k, T
  <1>4. f \in [1 .. k -> T]
    BY <1>2
  <1>5. \A t \in T : \E i \in 1 .. k : f[i] = t
    BY <1>2
  <1>6. \A i, j \in 1 .. k : f[i] = f[j] => i = j
    BY <1>1, <1>2, <1>3 DEF NoDuplicates
  <1>7. f \in Bijection(1 .. k, T)
    BY <1>4, <1>5, <1>6 DEF Bijection, Injection, Surjection, IsInjective
  <1>8. ExistsBijection(1 .. k, T)
    BY <1>7 DEF ExistsBijection
  <1>9. IsFiniteSet(1 .. k) /\ Cardinality(1 .. k) = k
    BY <1>1, FS_Interval
  <1>10. QED BY <1>8, <1>9, FS_Bijection DEF T, k

\* pump starts entries only up to the limit, and stops short of it only when
\* nothing is left to start.
LEMMA PumpLimit ==
  ASSUME NEW s \in LaneStates, IsFiniteSet(s.active), NoDuplicates(s.queue),
         s.active \cap Entries(s.queue) = {}
  PROVE  /\ IsFiniteSet(Pump(s).active)
         /\ Cardinality(Pump(s).active) = Cardinality(s.active) + StartCount(s)
         /\ StartCount(s) # 0 => Cardinality(Pump(s).active) <= s.maxConcurrent
         /\ Pump(s).queue # <<>> => Cardinality(Pump(s).active) >= s.maxConcurrent
  <1> DEFINE T == Entries(Starting(s))
  <1>1. IsFiniteSet(T) /\ Cardinality(T) = StartCount(s)
    BY StartingCardinality
  <1>2. s.active \cap T = {} /\ Pump(s).active = s.active \cup T
    BY StartingEntries, PumpQueue
  <1> HIDE DEF T
  <1>3. Cardinality(s.active) \in Nat /\ StartCount(s) \in Nat
    BY FS_CardinalityType, StartCountBounds
  <1>4. /\ IsFiniteSet(s.active \cup T)
        /\ Cardinality(s.active \cup T) = Cardinality(s.active) + StartCount(s)
    BY <1>1, <1>2, <1>3, FS_Union, FS_EmptySet
  <1>5. s.maxConcurrent \in Nat /\ Len(s.queue) \in Nat
    BY DEF LaneStates
  <1>6. StartCount(s) # 0 => Cardinality(s.active) + StartCount(s) <= s.maxConcurrent
    BY <1>3, <1>5 DEF StartCount
  <1>7. ASSUME Pump(s).queue # <<>>
        PROVE  Cardinality(s.active) + StartCount(s) >= s.maxConcurrent
    <2>1. Len(Pump(s).queue) # 0
      BY <1>7, PumpQueue, EmptySeq
    <2>2. StartCount(s) < Len(s.queue)
      BY <2>1, PumpQueue, StartCountBounds, <1>5
    <2>3. QED BY <2>2, <1>3, <1>5 DEF StartCount
  <1>8. QED BY <1>2, <1>4, <1>6, <1>7
=============================================================================
