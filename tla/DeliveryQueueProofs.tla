------------------------- MODULE DeliveryQueueProofs -------------------------
(***************************************************************************)
(* What holds of the delivery queue for any number of deliveries,          *)
(* recoveries, crashes and faults: no delivery is lost on disk, provided   *)
(* that none of them is sent with bestEffort; none is given up before it   *)
(* was tried as often as the limit says, on disk and in the vault; and     *)
(* while recoveries do not overlap, a count on disk exceeds the limit by   *)
(* at most one.                                                            *)
(***************************************************************************)
EXTENDS DeliveryQueue, FiniteSetTheorems, WellFoundedInduction, TLAPS

Fields == {"pc", "job", "queued", "view", "failedView", "todo", "spent"}

\* Every actor has a record, and a send is about its own delivery.
Shape ==
  /\ DOMAIN actors = Actors
  /\ \A p \in Actors : DOMAIN actors[p] = Fields
  /\ \A i \in Ids : actors[i].job = i

\* An entry is only acknowledged when its delivery went out or was aborted; the
\* two-step move is the vault's.
Acknowledged ==
  /\ \A p \in Actors : actors[p].pc \in {"ack", "ackSave"} => actors[p].job \in sent \cup aborted
  /\ \A p \in Actors : actors[p].pc \notin {"moveSave", "failedSave"}

IInv == Shape /\ Acknowledged /\ NothingLost

\* Before anything happened there is nothing to lose.
LEMMA InitIInv == Init => IInv
  BY IdsAssumption, SMT DEF Init, IInv, Shape, Acknowledged, NothingLost, Idle, Fields, Actors

\* A load reads the store and changes nothing in it.
LEMMA LoadStep ==
  ASSUME Backend = "disk", BestEffort = {}, IInv, NEW p \in Actors, Load(p)
  PROVE  IInv'
  <1>. USE IdsAssumption DEF IInv, Shape, Actors, Fields
  <1>1. Shape'
    BY SMT DEF Load, Storing
  <1>2. Acknowledged'
    BY <1>1, SMT DEF Load, Storing, Acknowledged
  <1>3. NothingLost'
    BY <1>1, SMT DEF Load, Storing, Acknowledged, NothingLost
  <1>. QED  BY <1>1, <1>2, <1>3

\* enqueueDelivery adds its entry, failDelivery puts it back, and ackDelivery removes
\* an entry that went out or was aborted.
LEMMA SaveStep ==
  ASSUME Backend = "disk", BestEffort = {}, IInv, NEW p \in Actors, Save(p)
  PROVE  IInv'
  <1>. USE IdsAssumption DEF IInv, Shape, Actors, Fields
  <1>1. Shape'
    BY SMT DEF Save, Saved, Base, After, Put, Drop
  <1>2. Acknowledged'
    BY <1>1, SMT DEF Save, Saved, Base, After, Put, Drop, Acknowledged
  <1>3. NothingLost'
    BY <1>1, SMT DEF Save, Saved, Base, After, Put, Drop, Acknowledged, NothingLost
  <1>. QED  BY <1>1, <1>2, <1>3

\* moveToFailed takes an entry from the queue to the failed ones in one rename.
LEMMA MoveOnDiskStep ==
  ASSUME Backend = "disk", BestEffort = {}, IInv, NEW p \in Actors, MoveOnDisk(p)
  PROVE  IInv'
  <1>. USE IdsAssumption DEF IInv, Shape, Actors, Fields
  <1>1. Shape'
    BY SMT DEF MoveOnDisk, After, Put, Drop
  <1>2. Acknowledged'
    BY <1>1, SMT DEF MoveOnDisk, After, Put, Drop, Acknowledged
  <1>3. NothingLost'
    BY <1>1, SMT DEF MoveOnDisk, After, Put, Drop, Acknowledged, NothingLost
  <1>. QED  BY <1>1, <1>2, <1>3

\* An operation that throws leaves the disk as it was.
LEMMA StoreThrowsStep ==
  ASSUME Backend = "disk", BestEffort = {}, IInv, NEW p \in Actors, StoreThrows(p)
  PROVE  IInv'
  <1>. USE IdsAssumption DEF IInv, Shape, Actors, Fields
  <1>1. Shape'
    BY SMT DEF StoreThrows, After, Storing, Saving
  <1>2. Acknowledged'
    BY <1>1, SMT DEF StoreThrows, After, Storing, Saving, Acknowledged
  <1>3. NothingLost'
    BY <1>1, SMT DEF StoreThrows, After, Storing, Saving, Acknowledged, NothingLost
  <1>. QED  BY <1>1, <1>2, <1>3

\* The call of deliverOutboundPayloads only begins to enqueue.
LEMMA DeliverStep ==
  ASSUME Backend = "disk", BestEffort = {}, IInv, NEW i \in Ids, Deliver(i)
  PROVE  IInv'
  <1>. USE IdsAssumption DEF IInv, Shape, Actors, Fields
  <1>1. Shape'
    BY SMT DEF Deliver
  <1>2. Acknowledged'
    BY <1>1, SMT DEF Deliver, Acknowledged
  <1>3. NothingLost'
    BY <1>1, SMT DEF Deliver, Acknowledged, NothingLost
  <1>. QED  BY <1>1, <1>2, <1>3

\* A send that resolves without bestEffort has sent everything.
LEMMA DeliverEndsStep ==
  ASSUME Backend = "disk", BestEffort = {}, IInv, NEW i \in Ids, DeliverEnds(i)
  PROVE  IInv'
  <1>. USE IdsAssumption DEF IInv, Shape, Actors, Fields
  <1>1. Shape'
    BY SMT DEF DeliverEnds, Outcomes, Sent
  <1>2. Acknowledged'
    BY <1>1, SMT DEF DeliverEnds, Outcomes, Sent, Acknowledged
  <1>3. NothingLost'
    BY <1>1, SMT DEF DeliverEnds, Outcomes, Sent, Acknowledged, NothingLost
  <1>. QED  BY <1>1, <1>2, <1>3

\* An aborted send acknowledges its entry.
LEMMA DeliverAbortsStep ==
  ASSUME Backend = "disk", BestEffort = {}, IInv, NEW i \in Ids, DeliverAborts(i)
  PROVE  IInv'
  <1>. USE IdsAssumption DEF IInv, Shape, Actors, Fields
  <1>1. Shape'
    BY SMT DEF DeliverAborts
  <1>2. Acknowledged'
    BY <1>1, SMT DEF DeliverAborts, Acknowledged
  <1>3. NothingLost'
    BY <1>1, SMT DEF DeliverAborts, Acknowledged, NothingLost
  <1>. QED  BY <1>1, <1>2, <1>3

\* A recovery begins with a snapshot of the queue.
LEMMA BeginStep ==
  ASSUME Backend = "disk", BestEffort = {}, IInv, NEW r \in Recoverers, RecoverPendingDeliveries(r)
  PROVE  IInv'
  <1>. USE IdsAssumption DEF IInv, Shape, Actors, Fields
  <1>1. Shape'
    BY SMT DEF RecoverPendingDeliveries, Idle
  <1>2. Acknowledged'
    BY <1>1, SMT DEF RecoverPendingDeliveries, Idle, Acknowledged
  <1>3. NothingLost'
    BY <1>1, SMT DEF RecoverPendingDeliveries, Idle, Acknowledged, NothingLost
  <1>. QED  BY <1>1, <1>2, <1>3

\* The loop of a recovery chooses what to do; the queue stays as it is.
LEMMA NextEntryStep ==
  ASSUME Backend = "disk", BestEffort = {}, IInv, NEW r \in Recoverers, NextEntry(r)
  PROVE  IInv'
  <1>. USE IdsAssumption DEF IInv, Shape, Actors, Fields
  <1>1. Shape'
    BY SMT DEF NextEntry, Idle
  <1>2. Acknowledged'
    BY <1>1, SMT DEF NextEntry, Idle, Acknowledged
  <1>3. NothingLost'
    BY <1>1, SMT DEF NextEntry, Idle, Acknowledged, NothingLost
  <1>. QED  BY <1>1, <1>2, <1>3

\* A recovery acknowledges only what it has sent.
LEMMA RecoverySendEndsStep ==
  ASSUME Backend = "disk", BestEffort = {}, IInv, NEW r \in Recoverers, RecoverySendEnds(r)
  PROVE  IInv'
  <1>. USE IdsAssumption DEF IInv, Shape, Actors, Fields
  <1>1. Shape'
    BY SMT DEF RecoverySendEnds, Outcomes, Sent
  <1>2. Acknowledged'
    BY <1>1, SMT DEF RecoverySendEnds, Outcomes, Sent, Acknowledged
  <1>3. NothingLost'
    BY <1>1, SMT DEF RecoverySendEnds, Outcomes, Sent, Acknowledged, NothingLost
  <1>. QED  BY <1>1, <1>2, <1>3

\* A crash leaves the sends that were under way dead, and no recovery.
LEMMA CrashStep ==
  ASSUME IInv, Crash
  PROVE  IInv'
  <1>. USE IdsAssumption DEF IInv, Shape, Actors, Fields
  <1>1. \A p \in Recoverers : actors'[p] = Idle(1)
    BY DEF Crash
  <1>2. \A i \in Ids : \/ actors'[i] = actors[i] /\ actors[i].pc \in {"idle", "done"}
                      \/ actors'[i] = [actors[i] EXCEPT !.pc = "dead", !.view = Nothing]
    BY DEF Crash
  <1>3. DOMAIN actors' = Actors /\ UNCHANGED <<pending, failed, sent, aborted>>
    BY DEF Crash
  <1>4. ASSUME NEW i \in Ids
        PROVE  /\ DOMAIN actors'[i] = Fields /\ actors'[i].job = i
               /\ actors'[i].queued = actors[i].queued
               /\ actors'[i].pc \in {"idle", "done", "dead"}
    <2>1. CASE actors'[i] = actors[i] /\ actors[i].pc \in {"idle", "done"}
      BY <2>1, SMT
    <2>2. CASE actors'[i] = [actors[i] EXCEPT !.pc = "dead", !.view = Nothing]
      BY <2>2, SMT
    <2>. QED  BY <1>2, <2>1, <2>2
  <1>5. \A p \in Recoverers : DOMAIN actors'[p] = Fields /\ actors'[p].pc = "idle"
    BY <1>1, SMT DEF Idle
  <1>6. Shape'
    BY <1>3, <1>4, <1>5
  <1>7. Acknowledged'
    BY <1>4, <1>5, SMT DEF Acknowledged
  <1>8. NothingLost'
    BY <1>3, <1>4, SMT DEF NothingLost
  <1>. QED  BY <1>6, <1>7, <1>8

\* Every step preserves the inductive invariant.
LEMMA StepIInv ==
  ASSUME Backend = "disk", BestEffort = {}, IInv, [Next]_vars
  PROVE  IInv'
  <1>1. ASSUME NEW p \in Actors, Stores(p)
        PROVE  IInv'
    <2>1. ~LoadFailed(p) /\ ~SavePending(p) /\ ~SaveFailed(p)
      BY SMT DEF LoadFailed, SavePending, SaveFailed, IInv, Acknowledged
    <2>. QED  BY <1>1, <2>1, LoadStep, SaveStep, MoveOnDiskStep DEF Stores
  <1>2. ASSUME NEW i \in Ids, Deliver(i) \/ DeliverEnds(i) \/ DeliverAborts(i)
        PROVE  IInv'
    BY <1>2, DeliverStep, DeliverEndsStep, DeliverAbortsStep
  <1>3. ASSUME NEW r \in Recoverers,
               RecoverPendingDeliveries(r) \/ NextEntry(r) \/ RecoverySendEnds(r)
        PROVE  IInv'
    BY <1>3, BeginStep, NextEntryStep, RecoverySendEndsStep
  <1>4. CASE UNCHANGED vars
    BY <1>4, SMT DEF vars, IInv, Shape, Acknowledged, NothingLost
  <1>. QED  BY <1>1, <1>2, <1>3, <1>4, StoreThrowsStep, CrashStep DEF Next

\* On disk, and without bestEffort, an enqueued delivery stays in the queue until
\* it went out, was aborted or was given up: whatever sends, recoveries, restarts,
\* crashes and faults of the store come between the write, the send and the ack.
THEOREM NoDeliveryLostOnDisk ==
  ASSUME Backend = "disk", BestEffort = {}
  PROVE  Spec => []NothingLost
  <1>1. Init => IInv
    BY InitIInv
  <1>2. IInv /\ [Next]_vars => IInv'
    BY StepIInv
  <1>3. IInv => NothingLost
    BY DEF IInv
  <1>. QED  BY <1>1, <1>2, <1>3, PTL DEF Spec

-----------------------------------------------------------------------------
(***************************************************************************)
(* No delivery is given up early, on disk and in the vault.                *)
(*                                                                         *)
(* A count is raised only by an actor whose send has ended, and from what  *)
(* that actor has read.  So the tries there were must cover, for whatever  *)
(* copy of the queue somebody still holds, its count and in addition the   *)
(* actors that may yet raise one: those that owe a fail (CountInv).        *)
(***************************************************************************)

\* The send of delivery i by p has ended and p may yet count it as failed.
Owes(p, a, i) ==
  /\ a.job = i
  /\ a.pc \in {"fail", "failSave"} \/ (p \in Recoverers /\ a.pc \in {"ack", "ackSave"})

Owing(i) == {p \in Actors : Owes(p, actors[p], i)}

\* A count of n for i, and all that may be added to it, is covered by the tries.
Covered(n, i) == AtMost(n + Cardinality(Owing(i)), MaxRetries) <= tries[i]

Paid(d) == \A i \in DOMAIN d : Covered(d[i], i)

Exhausted == {i \in Ids : tries[i] = MaxRetries}
Giving    == {"move", "moveLoaded", "moveSave", "failedSave"}

ActorPaid(a) ==
  /\ DOMAIN a = Fields /\ a.job \in Ids
  /\ IsDoc(a.view) /\ Paid(a.view) /\ IsDoc(a.todo) /\ Paid(a.todo)
  /\ a.failedView \subseteq Exhausted
  /\ a.pc \in Giving => a.job \in Exhausted

CountInv ==
  /\ DOMAIN actors = Actors /\ \A i \in Ids : actors[i].job = i
  /\ IsDoc(pending) /\ Paid(pending) /\ failed \subseteq Exhausted
  /\ \A p \in Actors : ActorPaid(actors[p])
  /\ \A i \in Ids : tries[i] \in 0 .. MaxRetries /\ IsFiniteSet(Owing(i)) /\ Covered(0, i)
  /\ DOMAIN tries = Ids

\* The copies of the queue that an actor has, after a step, and what it gives up.
Goes(a, b) ==
  /\ DOMAIN b = Fields /\ b.job \in Ids
  /\ b.view \in {a.view, pending, Nothing}
  /\ b.todo \in {a.todo, Drop(a.todo, a.job), pending, Nothing}
  /\ b.failedView \in {a.failedView, failed, {}}
  /\ b.pc \in Giving => b.job \in Exhausted

\* The entry with the lowest number is one of them.
LEMMA OldestOf ==
  ASSUME NEW S \in SUBSET Nat, S # {}
  PROVE  Oldest(S) \in S
  <1> DEFINE R == {ss \in Nat \X Nat : ss[1] < ss[2]}
  <1>1. IsWellFoundedOn(R, Nat)
    BY NatLessThanWellFounded DEF OpToRel
  <1>2. \E x \in S : \A y \in S : ~(<<y, x>> \in R)
    <2> HIDE DEF R
    <2>1. QED BY <1>1, WFMin
  <1>3. PICK x \in S : \A y \in S : ~(<<y, x>> \in R)
    BY <1>2
  <1>4. \A y \in S : x <= y
    <2>1. \A y \in S : ~(y < x)
      BY <1>3
    <2>2. QED BY <2>1
  <1>5. QED BY <1>4 DEF Oldest

\* So an entry of a document that has any has a first one.
LEMMA OldestEntry ==
  ASSUME NEW d, IsDoc(d), d # Nothing
  PROVE  Oldest(DOMAIN d) \in DOMAIN d
  <1>1. DOMAIN d \subseteq Nat
    BY IdsAssumption, FS_CardinalityType DEF IsDoc
  <1>2. DOMAIN d # {}
    BY DEF IsDoc, Nothing
  <1>3. QED BY <1>1, <1>2, OldestOf

\* Documents.
LEMMA NothingPaid == IsDoc(Nothing) /\ Paid(Nothing)
  BY DEF IsDoc, Nothing, Paid

LEMMA DropDoc ==
  ASSUME NEW d, IsDoc(d), NEW i
  PROVE  IsDoc(Drop(d, i)) /\ (Paid(d) => Paid(Drop(d, i)))
  BY DEF IsDoc, Drop, Paid

LEMMA PutDoc ==
  ASSUME NEW d, IsDoc(d), NEW i \in Ids, NEW n \in Nat
  PROVE  /\ IsDoc(Put(d, i, n))
         /\ DOMAIN Put(d, i, n) = DOMAIN d \cup {i}
         /\ \A j \in DOMAIN d \cup {i} : Put(d, i, n)[j] = IF j = i THEN n ELSE d[j]
  BY DEF IsDoc, Put

\* Fewer that owe, or more tries, leave what was covered covered.
LEMMA StaysCovered ==
  ASSUME CountInv, NEW i \in Ids, NEW n \in Nat, Covered(n, i),
         \/ Owing(i)' \subseteq Owing(i) /\ tries'[i] = tries[i]
         \/ /\ \E p : Owing(i)' \subseteq Owing(i) \cup {p}
            /\ tries'[i] = AtMost(tries[i] + 1, MaxRetries)
  PROVE  Covered(n, i)' /\ IsFiniteSet(Owing(i)')
  <1>1. IsFiniteSet(Owing(i)) /\ tries[i] \in 0 .. MaxRetries /\ MaxRetries \in Nat
    BY LimitsAssumption DEF CountInv
  <1>2. Cardinality(Owing(i)) \in Nat
    BY <1>1, FS_CardinalityType
  <1>3. CASE Owing(i)' \subseteq Owing(i) /\ tries'[i] = tries[i]
    <2>1. /\ IsFiniteSet(Owing(i)') /\ Cardinality(Owing(i)') <= Cardinality(Owing(i))
          /\ Cardinality(Owing(i)') \in Nat
      BY <1>1, <1>3, FS_Subset, FS_CardinalityType
    <2>2. QED BY <1>1, <1>2, <1>3, <2>1 DEF Covered, AtMost
  <1>4. CASE /\ \E p : Owing(i)' \subseteq Owing(i) \cup {p}
             /\ tries'[i] = AtMost(tries[i] + 1, MaxRetries)
    <2>1. PICK p : Owing(i)' \subseteq Owing(i) \cup {p}
      BY <1>4
    <2>2. /\ IsFiniteSet(Owing(i) \cup {p})
          /\ Cardinality(Owing(i) \cup {p}) <= Cardinality(Owing(i)) + 1
          /\ Cardinality(Owing(i) \cup {p}) \in Nat
      BY <1>1, <1>2, FS_AddElement, FS_CardinalityType
    <2>3. /\ IsFiniteSet(Owing(i)') /\ Cardinality(Owing(i)') \in Nat
          /\ Cardinality(Owing(i)') <= Cardinality(Owing(i) \cup {p})
      BY <2>1, <2>2, FS_Subset, FS_CardinalityType
    <2>4. Cardinality(Owing(i)') <= Cardinality(Owing(i)) + 1
      BY <1>2, <2>2, <2>3
    <2>5. QED BY <1>1, <1>2, <1>4, <2>3, <2>4 DEF Covered, AtMost
  <1>5. QED BY <1>3, <1>4

\* What every delivery's account may do in a step.
Steady(i) ==
  \/ Owing(i)' \subseteq Owing(i) /\ tries'[i] = tries[i]
  \/ /\ \E p : Owing(i)' \subseteq Owing(i) \cup {p}
     /\ tries'[i] = AtMost(tries[i] + 1, MaxRetries)

LEMMA PaidStays ==
  ASSUME CountInv, \A i \in Ids : Steady(i), NEW d, IsDoc(d), Paid(d)
  PROVE  \A i \in DOMAIN d : Covered(d[i], i)'
  <1> SUFFICES ASSUME NEW i \in DOMAIN d PROVE Covered(d[i], i)'
    OBVIOUS
  <1>1. i \in Ids /\ d[i] \in Nat /\ Covered(d[i], i)
    BY DEF IsDoc, Paid
  <1>2. QED BY <1>1, StaysCovered DEF Steady

LEMMA CountKept ==
  ASSUME CountInv, DOMAIN actors' = Actors, DOMAIN tries' = Ids,
         \A i \in Ids : actors'[i].job = i,
         \A p \in Actors : Goes(actors[p], actors'[p]),
         \A i \in Ids : Steady(i),
         IsDoc(pending'), Paid(pending)', failed' \subseteq Exhausted
  PROVE  CountInv'
  <1>1. \A i \in Ids : /\ tries[i] \in 0 .. MaxRetries /\ Covered(0, i) /\ MaxRetries \in Nat
                       /\ tries'[i] \in {tries[i], AtMost(tries[i] + 1, MaxRetries)}
    BY LimitsAssumption DEF CountInv, Steady
  <1>2. \A i \in Ids : tries'[i] \in 0 .. MaxRetries /\ (i \in Exhausted => i \in Exhausted')
    BY <1>1 DEF AtMost, Exhausted
  <1>3. \A i \in Ids : Covered(0, i)' /\ IsFiniteSet(Owing(i)')
    BY <1>1, StaysCovered DEF Steady
  <1>4. Exhausted \subseteq Exhausted'
    BY <1>2 DEF Exhausted
  <1>5. ASSUME NEW p \in Actors
        PROVE  ActorPaid(actors[p])'
    <2> DEFINE a == actors[p]
               b == actors'[p]
    <2>1. ActorPaid(a) /\ Goes(a, b) /\ IsDoc(pending) /\ Paid(pending) /\ failed \subseteq Exhausted
      BY DEF CountInv
    <2>2. IsDoc(b.view) /\ Paid(b.view)
      BY <2>1, NothingPaid DEF Goes, ActorPaid
    <2>3. IsDoc(b.todo) /\ Paid(b.todo)
      BY <2>1, NothingPaid, DropDoc DEF Goes, ActorPaid
    <2>4. ASSUME NEW d, d \in {b.view, b.todo}
          PROVE  \A i \in DOMAIN d : AtMost(d[i] + Cardinality(Owing(i)'), MaxRetries) <= tries'[i]
      <3>1. IsDoc(d) /\ Paid(d)
        BY <2>2, <2>3, <2>4
      <3>2. \A i \in DOMAIN d : Covered(d[i], i)'
        BY <3>1, PaidStays
      <3>3. QED BY <3>2 DEF Covered
    <2>5. Paid(actors[p].view)' /\ Paid(actors[p].todo)'
      BY <2>4 DEF Paid, Covered
    <2>6. b.failedView \subseteq Exhausted
      BY <2>1 DEF Goes, ActorPaid
    <2>7. QED BY <1>4, <2>1, <2>2, <2>3, <2>5, <2>6 DEF Goes, ActorPaid
  <1>6. failed' \subseteq Exhausted'
    BY <1>4
  <1>7. QED BY <1>2, <1>3, <1>5, <1>6 DEF CountInv

\* What a save of p puts in the store is covered: it stores a count raised by one
\* only if it then no longer owes it.
LEMMA SavedPaid ==
  ASSUME CountInv, NEW p \in Actors, pending' = Saved(p), tries' = tries,
         \A i \in Ids : Owing(i)' \subseteq Owing(i),
         actors[p].pc = "failSave" => \A i \in Ids : p \notin Owing(i)'
  PROVE  IsDoc(pending') /\ Paid(pending)'
  <1> DEFINE a == actors[p]
  <1>1. PICK i : i = a.job
    OBVIOUS
  <1>2. PICK base : base = Base(p)
    OBVIOUS
  <1>3. /\ i \in Ids /\ IsDoc(a.view) /\ Paid(a.view)
        /\ IsDoc(pending) /\ Paid(pending) /\ IsDoc(base) /\ Paid(base)
    BY <1>1, <1>2 DEF CountInv, ActorPaid, Base
  <1>4. \A j \in Ids : Steady(j)
    BY DEF Steady
  <1>5. ASSUME NEW d, IsDoc(d), Paid(d)
        PROVE  \A j \in DOMAIN d : AtMost(d[j] + Cardinality(Owing(j)'), MaxRetries) <= tries'[j]
    <2>1. \A j \in DOMAIN d : Covered(d[j], j)'
      BY <1>4, <1>5, PaidStays
    <2>2. QED BY <2>1 DEF Covered
  <1>6. \A j \in Ids : AtMost(0 + Cardinality(Owing(j)'), MaxRetries) <= tries'[j]
    <2>1. \A j \in Ids : Covered(0, j) /\ (Covered(0, j) => Covered(0, j)')
      BY <1>4, StaysCovered DEF Steady, CountInv
    <2>2. QED BY <2>1 DEF Covered
  <1> DEFINE Good(d) == /\ IsDoc(d)
                        /\ \A j \in DOMAIN d : AtMost(d[j] + Cardinality(Owing(j)'), MaxRetries) <= tries'[j]
  <1>7. Good(pending) /\ Good(base) /\ Good(Drop(base, i))
    <2>1. IsDoc(Drop(base, i)) /\ Paid(Drop(base, i))
      BY <1>3, DropDoc
    <2>2. QED BY <1>3, <1>5, <2>1
  <1>8. ASSUME NEW m \in Nat, AtMost(m + Cardinality(Owing(i)'), MaxRetries) <= tries'[i]
        PROVE  Good(Put(base, i, m))
    <2>1. i \in Ids /\ IsDoc(base) /\ (\A j \in DOMAIN base :
            AtMost(base[j] + Cardinality(Owing(j)'), MaxRetries) <= tries'[j])
      BY <1>3, <1>7
    <2>2. /\ IsDoc(Put(base, i, m)) /\ DOMAIN Put(base, i, m) = DOMAIN base \cup {i}
          /\ \A j \in DOMAIN base \cup {i} : Put(base, i, m)[j] = IF j = i THEN m ELSE base[j]
      BY <1>8, <2>1, PutDoc
    <2>3. ASSUME NEW j \in DOMAIN Put(base, i, m)
          PROVE  AtMost(Put(base, i, m)[j] + Cardinality(Owing(j)'), MaxRetries) <= tries'[j]
      BY <1>8, <2>1, <2>2, <2>3
    <2>4. QED BY <2>2, <2>3
  <1>9. CASE a.pc = "failSave" /\ i \in DOMAIN a.view
    <2> DEFINE n == a.view[i]
    <2>1. n \in Nat /\ Covered(n, i)
      BY <1>3, <1>9 DEF IsDoc, Paid
    <2>2. /\ p \in Owing(i) /\ p \notin Owing(i)'
          /\ IsFiniteSet(Owing(i)) /\ Owing(i)' \subseteq Owing(i) \ {p}
      <3>1. Owes(p, actors[p], i)
        BY <1>1, <1>9 DEF Owes
      <3>2. p \in Owing(i)
        BY <3>1 DEF Owing
      <3>3. IsFiniteSet(Owing(i)) /\ Owing(i)' \subseteq Owing(i)
        BY <1>3 DEF CountInv
      <3>4. p \notin Owing(i)'
        BY <1>3, <1>9
      <3>5. QED BY <3>2, <3>3, <3>4
    <2>3. /\ IsFiniteSet(Owing(i) \ {p}) /\ Cardinality(Owing(i) \ {p}) = Cardinality(Owing(i)) - 1
          /\ Cardinality(Owing(i)) \in Nat
      BY <2>2, FS_RemoveElement, FS_CardinalityType
    <2>4. Cardinality(Owing(i)') \in Nat /\ Cardinality(Owing(i)') <= Cardinality(Owing(i)) - 1
      BY <2>2, <2>3, FS_Subset, FS_CardinalityType
    <2>5. AtMost(n + 1 + Cardinality(Owing(i)'), MaxRetries) <= tries'[i]
      <3>1. AtMost(n + Cardinality(Owing(i)), MaxRetries) <= tries[i] /\ tries'[i] = tries[i]
            /\ tries[i] \in Nat /\ MaxRetries \in Nat
        BY <1>3, <2>1, LimitsAssumption DEF Covered, CountInv
      <3>2. QED BY <2>1, <2>3, <2>4, <3>1 DEF AtMost
    <2>6. Good(Put(base, i, n + 1))
      <3>1. n + 1 \in Nat
        BY <2>1
      <3>2. QED BY <1>8, <2>5, <3>1
    <2>7. QED BY <1>1, <1>2, <1>9, <2>6 DEF Saved, Paid, Covered
  <1>10. CASE ~(a.pc = "failSave" /\ i \in DOMAIN a.view)
    <2>1. pending' \in {pending, Drop(base, i), Put(base, i, 0)}
      BY <1>1, <1>2, <1>10 DEF Saved
    <2>2. Good(Put(base, i, 0))
      BY <1>3, <1>6, <1>8
    <2>3. Good(pending')
      BY <1>7, <2>1, <2>2
    <2>4. QED BY <2>3 DEF Paid, Covered
  <1>11. QED BY <1>9, <1>10

\* A step of one actor.
LEMMA OneActor ==
  ASSUME CountInv, NEW p \in Actors, DOMAIN actors' = Actors,
         \A q \in Actors \ {p} : actors'[q] = actors[q],
         Goes(actors[p], actors'[p]), p \in Ids => actors'[p].job = p,
         failed' \subseteq Exhausted,
         \/ /\ tries' = tries
            /\ \A i \in Ids : Owes(p, actors'[p], i) => Owes(p, actors[p], i)
            /\ \/ pending' \in {pending, Drop(pending, actors[p].job)}
               \/ /\ pending' = Saved(p)
                  /\ actors[p].pc = "failSave" => \A i \in Ids : ~Owes(p, actors'[p], i)
         \/ /\ tries' = [tries EXCEPT ![actors'[p].job] = AtMost(@ + 1, MaxRetries)]
            /\ pending' = pending
  PROVE  CountInv'
  <1>1. DOMAIN tries' = Ids /\ \A i \in Ids : actors'[i].job = i
    BY DEF CountInv, Actors
  <1>2. \A q \in Actors : Goes(actors[q], actors'[q])
    <2>1. \A q \in Actors : Goes(actors[q], actors[q])
      BY DEF CountInv, ActorPaid, Goes
    <2>2. QED BY <2>1
  <1>3. \A i \in Ids : Owing(i)' \subseteq Owing(i) \cup {p}
    BY DEF Owing
  <1>4. CASE /\ tries' = tries
             /\ \A i \in Ids : Owes(p, actors'[p], i) => Owes(p, actors[p], i)
             /\ \/ pending' \in {pending, Drop(pending, actors[p].job)}
                \/ /\ pending' = Saved(p)
                   /\ actors[p].pc = "failSave" => \A i \in Ids : ~Owes(p, actors'[p], i)
    <2>1. \A i \in Ids : Owing(i)' \subseteq Owing(i)
      BY <1>4 DEF Owing
    <2>2. \A i \in Ids : Steady(i)
      BY <1>4, <2>1 DEF Steady
    <2>3. IsDoc(pending') /\ Paid(pending)'
      <3>1. CASE pending' \in {pending, Drop(pending, actors[p].job)}
        <4>1. ASSUME NEW d, d = pending'
              PROVE  IsDoc(d) /\ Paid(d)
          BY <3>1, <4>1, DropDoc DEF CountInv
        <4>2. ASSUME NEW d, d = pending'
              PROVE  \A i \in DOMAIN d : AtMost(d[i] + Cardinality(Owing(i)'), MaxRetries) <= tries'[i]
          <5>1. \A i \in DOMAIN d : Covered(d[i], i)'
            BY <2>2, <4>1, <4>2, PaidStays
          <5>2. QED BY <5>1 DEF Covered
        <4>3. QED BY <4>1, <4>2 DEF Paid, Covered
      <3>2. CASE /\ pending' = Saved(p)
                 /\ actors[p].pc = "failSave" => \A i \in Ids : ~Owes(p, actors'[p], i)
        <4>1. actors[p].pc = "failSave" => \A i \in Ids : p \notin Owing(i)'
          BY <3>2 DEF Owing
        <4>2. QED BY <1>4, <2>1, <3>2, <4>1, SavedPaid
      <3>3. QED BY <1>4, <3>1, <3>2
    <2>4. QED BY <1>1, <1>2, <2>2, <2>3, CountKept
  <1>5. CASE /\ tries' = [tries EXCEPT ![actors'[p].job] = AtMost(@ + 1, MaxRetries)]
             /\ pending' = pending
    <2>1. ASSUME NEW i \in Ids, i # actors'[p].job
          PROVE  Owing(i)' \subseteq Owing(i) /\ tries'[i] = tries[i]
      <3>1. ~Owes(p, actors'[p], i)
        BY <2>1 DEF Owes
      <3>2. QED BY <1>5, <2>1, <3>1 DEF Owing, CountInv
    <2>2. ASSUME NEW i \in Ids, i = actors'[p].job
          PROVE  tries'[i] = AtMost(tries[i] + 1, MaxRetries)
      BY <1>5, <2>2 DEF CountInv
    <2>3. \A i \in Ids : Steady(i)
      BY <1>3, <2>1, <2>2 DEF Steady
    <2>4. IsDoc(pending') /\ Paid(pending)'
      BY <1>5, <2>3, PaidStays DEF CountInv, Paid
    <2>5. QED BY <1>1, <1>2, <2>3, <2>4, CountKept
  <1>6. QED BY <1>4, <1>5

\* The steps of the store: none of them is the end of a send.
LEMMA StoreCounts ==
  ASSUME CountInv, NEW p \in Actors, Stores(p) \/ StoreThrows(p)
  PROVE  CountInv'
  <1> DEFINE a == actors[p]
  <1>1. /\ DOMAIN actors = Actors /\ DOMAIN a = Fields /\ a.job \in Ids /\ (p \in Ids => a.job = p)
        /\ a.failedView \subseteq Exhausted /\ failed \subseteq Exhausted
        /\ (a.pc \in Giving => a.job \in Exhausted)
    BY DEF CountInv, ActorPaid
  <1>2. CASE Load(p)
    <2>1. DOMAIN actors' = Actors /\ (\A q \in Actors \ {p} : actors'[q] = actors[q])
      BY <1>1, <1>2 DEF Load
    <2>2. Goes(a, actors'[p]) /\ actors'[p].job = a.job
      BY <1>1, <1>2 DEF Load, Goes, Fields, Giving, Storing
    <2>3. \A i \in Ids : Owes(p, actors'[p], i) => Owes(p, a, i)
      BY <1>1, <1>2 DEF Load, Owes, Fields, Storing
    <2>4. tries' = tries /\ pending' = pending /\ failed' = failed
      BY <1>2 DEF Load
    <2>5. QED BY <1>1, <2>1, <2>2, <2>3, <2>4, OneActor
  <1>3. CASE Save(p)
    <2>1. DOMAIN actors' = Actors /\ (\A q \in Actors \ {p} : actors'[q] = actors[q])
      BY <1>1, <1>3 DEF Save
    <2>2. Goes(a, actors'[p]) /\ actors'[p].job = a.job
      BY <1>1, <1>3 DEF Save, After, Goes, Fields, Giving
    <2>3. \A i \in Ids : ~Owes(p, actors'[p], i)
      BY <1>1, <1>3 DEF Save, After, Owes, Fields
    <2>4. tries' = tries /\ pending' = Saved(p) /\ failed' = failed
      BY <1>3 DEF Save
    <2>5. QED BY <1>1, <2>1, <2>2, <2>3, <2>4, OneActor
  <1>4. CASE MoveOnDisk(p)
    <2>1. DOMAIN actors' = Actors /\ (\A q \in Actors \ {p} : actors'[q] = actors[q])
      BY <1>1, <1>4 DEF MoveOnDisk
    <2>2. Goes(a, actors'[p]) /\ actors'[p].job = a.job
      BY <1>1, <1>4 DEF MoveOnDisk, After, Goes, Fields, Giving
    <2>3. \A i \in Ids : ~Owes(p, actors'[p], i)
      BY <1>1, <1>4 DEF MoveOnDisk, After, Owes, Fields
    <2>4. tries' = tries /\ failed' \subseteq Exhausted
      BY <1>1, <1>4 DEF MoveOnDisk, Giving
    <2>5. pending' \in {pending, Drop(pending, a.job)}
      BY <1>4 DEF MoveOnDisk
    <2>6. QED BY <1>1, <2>1, <2>2, <2>3, <2>4, <2>5, OneActor
  <1>5. CASE LoadFailed(p)
    <2>1. DOMAIN actors' = Actors /\ (\A q \in Actors \ {p} : actors'[q] = actors[q])
      BY <1>1, <1>5 DEF LoadFailed
    <2>2. Goes(a, actors'[p]) /\ actors'[p].job = a.job
      BY <1>1, <1>5 DEF LoadFailed, After, Goes, Fields, Giving
    <2>3. \A i \in Ids : ~Owes(p, actors'[p], i)
      BY <1>1, <1>5 DEF LoadFailed, After, Owes, Fields
    <2>4. tries' = tries /\ pending' = pending /\ failed' = failed
      BY <1>5 DEF LoadFailed
    <2>5. QED BY <1>1, <2>1, <2>2, <2>3, <2>4, OneActor
  <1>6. CASE SavePending(p)
    <2>1. DOMAIN actors' = Actors /\ (\A q \in Actors \ {p} : actors'[q] = actors[q])
      BY <1>1, <1>6 DEF SavePending
    <2>2. Goes(a, actors'[p]) /\ actors'[p].job = a.job
      BY <1>1, <1>6 DEF SavePending, Goes, Fields, Giving
    <2>3. \A i \in Ids : ~Owes(p, actors'[p], i)
      BY <1>1, <1>6 DEF SavePending, Owes, Fields
    <2>4. tries' = tries /\ pending' = Saved(p) /\ failed' = failed
      BY <1>6 DEF SavePending
    <2>5. QED BY <1>1, <2>1, <2>2, <2>3, <2>4, OneActor
  <1>7. CASE SaveFailed(p)
    <2>1. DOMAIN actors' = Actors /\ (\A q \in Actors \ {p} : actors'[q] = actors[q])
      BY <1>1, <1>7 DEF SaveFailed
    <2>2. Goes(a, actors'[p]) /\ actors'[p].job = a.job
      BY <1>1, <1>7 DEF SaveFailed, After, Goes, Fields, Giving
    <2>3. \A i \in Ids : ~Owes(p, actors'[p], i)
      BY <1>1, <1>7 DEF SaveFailed, After, Owes, Fields
    <2>4. tries' = tries /\ pending' = pending /\ failed' \subseteq Exhausted
      BY <1>1, <1>7 DEF SaveFailed, SavedFailed, Giving
    <2>5. QED BY <1>1, <2>1, <2>2, <2>3, <2>4, OneActor
  <1>8. CASE StoreThrows(p)
    <2>1. DOMAIN actors' = Actors /\ (\A q \in Actors \ {p} : actors'[q] = actors[q])
      BY <1>1, <1>8 DEF StoreThrows
    <2>2. Goes(a, actors'[p]) /\ actors'[p].job = a.job
      BY <1>1, <1>8 DEF StoreThrows, After, Goes, Fields, Giving
    <2>3. /\ \A i \in Ids : Owes(p, actors'[p], i) => Owes(p, a, i)
          /\ a.pc = "failSave" => \A i \in Ids : ~Owes(p, actors'[p], i)
      BY <1>1, <1>8 DEF StoreThrows, After, Owes, Fields, Storing, Saving
    <2>4. tries' = tries /\ pending' \in {pending, Saved(p)} /\ failed' \subseteq Exhausted
      BY <1>1, <1>8 DEF StoreThrows, SavedFailed, Giving
    <2>5. QED BY <1>1, <2>1, <2>2, <2>3, <2>4, OneActor
  <1>9. QED BY <1>2, <1>3, <1>4, <1>5, <1>6, <1>7, <1>8 DEF Stores

\* The sends of this gateway.
LEMMA SendCounts ==
  ASSUME CountInv, NEW i \in Ids, Deliver(i) \/ DeliverEnds(i) \/ DeliverAborts(i)
  PROVE  CountInv'
  <1> DEFINE a == actors[i]
  <1>1. /\ i \in Actors /\ DOMAIN actors = Actors /\ DOMAIN a = Fields /\ a.job = i
        /\ i \notin Recoverers /\ failed \subseteq Exhausted
    BY IdsAssumption DEF CountInv, ActorPaid, Actors
  <1>2. DOMAIN actors' = Actors /\ (\A q \in Actors \ {i} : actors'[q] = actors[q])
    BY <1>1 DEF Deliver, DeliverEnds, DeliverAborts
  <1>3. Goes(a, actors'[i]) /\ actors'[i].job = i
    BY <1>1 DEF Deliver, DeliverEnds, DeliverAborts, Goes, Fields, Giving
  <1>4. pending' = pending /\ failed' = failed
    BY DEF Deliver, DeliverEnds, DeliverAborts
  <1>5. CASE DeliverEnds(i)
    <2>1. tries' = [tries EXCEPT ![i] = AtMost(@ + 1, MaxRetries)]
      BY <1>5 DEF DeliverEnds, Sent
    <2>2. QED BY <1>1, <1>2, <1>3, <1>4, <2>1, OneActor
  <1>6. CASE Deliver(i) \/ DeliverAborts(i)
    <2>1. tries' = tries /\ \A j \in Ids : ~Owes(i, actors'[i], j)
      BY <1>1, <1>6 DEF Deliver, DeliverAborts, Owes, Fields
    <2>2. QED BY <1>1, <1>2, <1>3, <1>4, <2>1, OneActor
  <1>7. QED BY <1>5, <1>6

\* The recoveries: an entry is given up because the count in their snapshot is at the
\* limit, which the tries cover.
LEMMA RecoveryCounts ==
  ASSUME CountInv, NEW r \in Recoverers,
         RecoverPendingDeliveries(r) \/ NextEntry(r) \/ RecoverySendEnds(r)
  PROVE  CountInv'
  <1> DEFINE a == actors[r]
  <1>1. /\ r \in Actors /\ r \notin Ids /\ 1 \in Ids /\ DOMAIN actors = Actors /\ DOMAIN a = Fields
        /\ a.job \in Ids /\ IsDoc(a.todo) /\ Paid(a.todo) /\ failed \subseteq Exhausted
    BY IdsAssumption DEF CountInv, ActorPaid, Actors
  <1>2. DOMAIN actors' = Actors /\ (\A q \in Actors \ {r} : actors'[q] = actors[q])
    BY <1>1 DEF RecoverPendingDeliveries, NextEntry, RecoverySendEnds
  <1>3. pending' = pending /\ failed' = failed
    BY DEF RecoverPendingDeliveries, NextEntry, RecoverySendEnds
  <1>4. CASE RecoverPendingDeliveries(r)
    <2>1. Goes(a, actors'[r])
      BY <1>1, <1>4 DEF RecoverPendingDeliveries, Idle, Goes, Fields, Giving
    <2>2. tries' = tries /\ \A j \in Ids : ~Owes(r, actors'[r], j)
      BY <1>1, <1>4 DEF RecoverPendingDeliveries, Idle, Owes
    <2>3. QED BY <1>1, <1>2, <1>3, <2>1, <2>2, OneActor
  <1>5. CASE NextEntry(r)
    <2>1. a.todo # Nothing => Oldest(DOMAIN a.todo) \in DOMAIN a.todo
      BY <1>1, OldestEntry
    <2>2. ASSUME NEW i \in DOMAIN a.todo, a.todo[i] >= MaxRetries
          PROVE  i \in Exhausted
      <3>1. i \in Ids /\ a.todo[i] \in Nat /\ Covered(a.todo[i], i)
        BY <1>1, <2>2 DEF IsDoc, Paid
      <3>2. /\ tries[i] \in 0 .. MaxRetries /\ MaxRetries \in Nat /\ Cardinality(Owing(i)) \in Nat
        BY <3>1, LimitsAssumption, FS_CardinalityType DEF CountInv
      <3>3. QED BY <2>2, <3>1, <3>2 DEF Covered, AtMost, Exhausted
    <2>3. DOMAIN a.todo \subseteq Ids
      BY <1>1 DEF IsDoc
    <2>4. Goes(a, actors'[r])
      <3>1. CASE actors'[r] = Idle(1)
        BY <1>1, <3>1 DEF Idle, Goes, Fields, Giving
      <3>2. CASE actors'[r] # Idle(1)
        <4>1. a.todo # Nothing
          BY <1>1, <1>5, <3>2 DEF NextEntry
        <4>2. PICK i \in DOMAIN a.todo : i = Oldest(DOMAIN a.todo)
          BY <2>1, <4>1
        <4>3. i \in Ids /\ (a.todo[i] >= MaxRetries => i \in Exhausted)
          BY <2>2, <2>3
        <4>4. \/ actors'[r] = [a EXCEPT !.pc = "move", !.job = i] /\ a.todo[i] >= MaxRetries
              \/ actors'[r] = [a EXCEPT !.pc = "send", !.job = i,
                                        !.spent = @ + ComputeBackoff(a.todo[i] + 1)]
          BY <1>1, <1>5, <3>2, <4>2 DEF NextEntry
        <4>5. QED BY <1>1, <4>3, <4>4 DEF Goes, Fields, Giving
      <3>3. QED BY <3>1, <3>2
    <2>5. tries' = tries /\ \A j \in Ids : ~Owes(r, actors'[r], j)
      BY <1>1, <1>5 DEF NextEntry, Idle, Owes, Fields
    <2>6. QED BY <1>1, <1>2, <1>3, <2>4, <2>5, OneActor
  <1>6. CASE RecoverySendEnds(r)
    <2>1. PICK t \in SendTimes, pc \in {"fail", "ack"} :
            actors' = [actors EXCEPT ![r].pc = pc, ![r].spent = @ + t]
      BY <1>6 DEF RecoverySendEnds
    <2>2. Goes(a, actors'[r]) /\ actors'[r].job = a.job
      BY <1>1, <2>1 DEF Goes, Fields, Giving
    <2>3. tries' = [tries EXCEPT ![a.job] = AtMost(@ + 1, MaxRetries)]
      BY <1>6 DEF RecoverySendEnds, Sent
    <2>4. QED BY <1>1, <1>2, <1>3, <2>3, <2>2, OneActor
  <1>7. QED BY <1>4, <1>5, <1>6

\* A crash forgets what was owed.
LEMMA CrashCounts ==
  ASSUME CountInv, Crash
  PROVE  CountInv'
  <1>1. /\ 1 \in Ids /\ Ids \cap Recoverers = {} /\ DOMAIN actors = Actors
        /\ \A p \in Actors : DOMAIN actors[p] = Fields /\ actors[p].job \in Ids
        /\ \A i \in Ids : actors[i].job = i
    BY IdsAssumption DEF CountInv, ActorPaid
  <1>2. DOMAIN actors' = Actors /\ (\A i \in Ids : actors'[i].job = i)
    BY <1>1 DEF Crash, Actors, Fields
  <1>3. ASSUME NEW p \in Actors
        PROVE  \/ actors'[p] = Idle(1) /\ p \in Recoverers
               \/ actors'[p] = actors[p] /\ actors[p].pc \in {"idle", "done"}
               \/ actors'[p] = [actors[p] EXCEPT !.pc = "dead", !.view = Nothing]
    BY DEF Crash
  <1>4. ASSUME NEW p \in Actors
        PROVE  Goes(actors[p], actors'[p]) /\ \A i \in Ids : ~Owes(p, actors'[p], i)
    <2>1. CASE actors'[p] = Idle(1)
      BY <1>1, <2>1 DEF Idle, Goes, Owes, Fields, Giving
    <2>2. CASE actors'[p] = actors[p] /\ actors[p].pc \in {"idle", "done"}
      BY <1>1, <2>2 DEF Goes, Owes, Giving
    <2>3. CASE actors'[p] = [actors[p] EXCEPT !.pc = "dead", !.view = Nothing]
      BY <1>1, <2>3 DEF Goes, Owes, Fields, Giving
    <2>4. QED BY <1>3, <2>1, <2>2, <2>3
  <1>5. \A i \in Ids : Owing(i)' = {}
    BY <1>4 DEF Owing
  <1>6. tries' = tries /\ pending' = pending /\ failed' = failed
    BY DEF Crash
  <1>7. \A i \in Ids : Steady(i)
    BY <1>5, <1>6 DEF Steady
  <1>8. IsDoc(pending') /\ Paid(pending)'
    BY <1>6, <1>7, PaidStays DEF CountInv, Paid
  <1>9. QED BY <1>2, <1>4, <1>6, <1>7, <1>8, CountKept DEF CountInv

LEMMA InitCounts == Init => CountInv
  <1> SUFFICES ASSUME Init PROVE CountInv
    OBVIOUS
  <1>1. /\ 1 \in Ids /\ DOMAIN actors = Actors
        /\ \A p \in Actors : actors[p] = Idle(IF p \in Ids THEN p ELSE 1)
        /\ pending = Nothing /\ failed = {} /\ tries = [i \in Ids |-> 0] /\ MaxRetries \in Nat
    BY IdsAssumption, LimitsAssumption DEF Init
  <1>2. \A i \in Ids : Owing(i) = {}
    BY <1>1 DEF Owing, Owes, Idle
  <1>3. \A i \in Ids : tries[i] \in 0 .. MaxRetries /\ IsFiniteSet(Owing(i)) /\ Covered(0, i)
    BY <1>1, <1>2, FS_EmptySet DEF Covered, AtMost
  <1>4. \A p \in Actors : ActorPaid(actors[p])
    BY <1>1, NothingPaid DEF ActorPaid, Idle, Fields, Giving
  <1>5. ASSUME NEW i \in Ids
        PROVE  actors[i].job = i
    <2>1. actors[i] = Idle(i)
      BY <1>1 DEF Actors
    <2>2. Idle(i).job = i
      BY DEF Idle
    <2>3. QED BY <2>1, <2>2
  <1>6. QED BY <1>1, <1>3, <1>4, <1>5, NothingPaid DEF CountInv

LEMMA StepCounts == CountInv /\ [Next]_vars => CountInv'
  <1> SUFFICES ASSUME CountInv, [Next]_vars PROVE CountInv'
    OBVIOUS
  <1>1. CASE Next
    BY <1>1, StoreCounts, SendCounts, RecoveryCounts, CrashCounts DEF Next
  <1>2. CASE UNCHANGED vars
    BY <1>2 DEF vars, CountInv, ActorPaid, Paid, Covered, Owing, Exhausted
  <1>3. QED BY <1>1, <1>2

\* A delivery is among the failed ones only after as many sends as the limit says, and
\* no count is ahead of the sends there were (GivesUpAfterRetries), on disk and in the
\* vault, whatever saves overwrite each other and whatever requests fail.
THEOREM GivenUpAfterRetries == Spec => []GivesUpAfterRetries
  <1>1. CountInv => GivesUpAfterRetries
    <2> SUFFICES ASSUME CountInv PROVE GivesUpAfterRetries
      OBVIOUS
    <2>1. \A i \in failed : tries[i] = MaxRetries
      BY DEF CountInv, Exhausted
    <2>2. ASSUME NEW i \in DOMAIN pending
          PROVE  AtMost(pending[i], MaxRetries) <= tries[i]
      <3>1. i \in Ids /\ pending[i] \in Nat /\ Covered(pending[i], i)
        BY DEF CountInv, IsDoc, Paid
      <3>2. tries[i] \in 0 .. MaxRetries /\ MaxRetries \in Nat /\ Cardinality(Owing(i)) \in Nat
        BY <3>1, LimitsAssumption, FS_CardinalityType DEF CountInv
      <3>3. QED BY <3>1, <3>2 DEF Covered, AtMost
    <2>3. QED BY <2>1, <2>2 DEF GivesUpAfterRetries
  <1>2. QED BY <1>1, InitCounts, StepCounts, PTL DEF Spec
-----------------------------------------------------------------------------
(***************************************************************************)
(* The types, and how far a count may exceed the limit.                    *)
(***************************************************************************)

\* What no earlier invariant says of an actor.
Proper(p, a) ==
  /\ a.pc \in Pcs /\ a.queued \in BOOLEAN /\ a.spent \in Nat
  /\ p \in Ids => a.pc \notin {"next"} \cup Giving

Typed ==
  /\ aborted \subseteq Ids /\ sent \subseteq Ids
  /\ crashes \in 0 .. MaxCrashes /\ faults \in 0 .. MaxFaults
  /\ tries \in [Ids -> 0 .. MaxRetries]
  /\ \A p \in Actors : Proper(p, actors[p])

LEMMA IdleProper ==
  ASSUME NEW p, NEW i
  PROVE  Proper(p, Idle(i))
  <1>1. Idle(i).pc = "idle" /\ Idle(i).queued = FALSE /\ Idle(i).spent = 0
    BY DEF Idle
  <1>2. "idle" \in Pcs /\ "idle" \notin {"next"} \cup Giving
    BY DEF Pcs, Giving
  <1>3. Idle(i).spent \in Nat
    BY <1>1
  <1>4. QED BY <1>1, <1>2, <1>3 DEF Proper

LEMMA InitTyped == Init => Typed
  <1> SUFFICES ASSUME Init PROVE Typed
    OBVIOUS
  <1>1. /\ aborted = {} /\ sent = {} /\ crashes = 0 /\ faults = 0
        /\ MaxCrashes \in Nat /\ MaxFaults \in Nat
        /\ \A p \in Actors : actors[p] = Idle(IF p \in Ids THEN p ELSE 1)
    BY LimitsAssumption DEF Init
  <1>2. \A p \in Actors : Proper(p, actors[p])
    BY <1>1, IdleProper
  <1>3. tries = [i \in Ids |-> 0] /\ MaxRetries \in Nat
    BY LimitsAssumption DEF Init
  <1>4. QED BY <1>1, <1>2, <1>3 DEF Typed

\* A wait of a recovery is a number of seconds.
LEMMA BackoffIsTime ==
  ASSUME NEW n \in Nat
  PROVE  ComputeBackoff(n + 1) \in Nat
  <1>1. AtMost(n + 1, 4) \in 1 .. 4
    BY DEF AtMost
  <1>2. QED BY <1>1 DEF ComputeBackoff, Backoff

\* The end of a send is counted up to the limit.
LEMMA SentTypes ==
  ASSUME tries \in [Ids -> 0 .. MaxRetries], NEW i \in Ids, NEW o, Sent(i, o)
  PROVE  tries' \in [Ids -> 0 .. MaxRetries]
  <1>1. AtMost(tries[i] + 1, MaxRetries) \in 0 .. MaxRetries
    BY LimitsAssumption DEF AtMost
  <1>2. tries' = [tries EXCEPT ![i] = AtMost(tries[i] + 1, MaxRetries)]
    BY DEF Sent
  <1>3. QED BY <1>1, <1>2

\* Only one actor moves.
LEMMA TypedKept ==
  ASSUME Typed, NEW p \in Actors, DOMAIN actors = Actors,
         \A q \in Actors \ {p} : actors'[q] = actors[q], Proper(p, actors'[p]),
         aborted' \subseteq Ids, sent' \subseteq Ids, crashes' = crashes, faults' \in 0 .. MaxFaults,
         tries' \in [Ids -> 0 .. MaxRetries]
  PROVE  Typed'
  BY DEF Typed, Proper

LEMMA StoreTyped ==
  ASSUME CountInv, Typed, NEW p \in Actors, Stores(p) \/ StoreThrows(p)
  PROVE  Typed'
  <1> DEFINE a == actors[p]
  <1>1. /\ DOMAIN actors = Actors /\ DOMAIN a = Fields /\ Proper(p, a) /\ Ids \cap Recoverers = {}
        /\ aborted \subseteq Ids /\ sent \subseteq Ids /\ faults \in 0 .. MaxFaults
        /\ tries \in [Ids -> 0 .. MaxRetries]
    BY IdsAssumption DEF CountInv, ActorPaid, Typed
  <1>2. CASE Stores(p)
    <2>1. /\ \A q \in Actors \ {p} : actors'[q] = actors[q]
          /\ aborted' = aborted /\ sent' = sent /\ crashes' = crashes /\ faults' = faults
          /\ tries' = tries
      BY <1>1, <1>2 DEF Stores, Load, Save, MoveOnDisk, LoadFailed, SavePending, SaveFailed
    <2>2. CASE Load(p)
      BY <1>1, <2>1, <2>2, TypedKept DEF Load, Proper, Fields, Storing, Saving, Pcs, Giving
    <2>3. CASE Save(p)
      BY <1>1, <2>1, <2>3, TypedKept DEF Save, After, Proper, Fields, Storing, Saving, Pcs, Giving
    <2>4. CASE MoveOnDisk(p)
      BY <1>1, <2>1, <2>4, TypedKept DEF MoveOnDisk, After, Proper, Fields, Pcs, Giving
    <2>5. CASE LoadFailed(p)
      BY <1>1, <2>1, <2>5, TypedKept DEF LoadFailed, After, Proper, Fields, Saving, Pcs, Giving
    <2>6. CASE SavePending(p)
      BY <1>1, <2>1, <2>6, TypedKept DEF SavePending, Proper, Fields, Saving, Pcs, Giving
    <2>7. CASE SaveFailed(p)
      BY <1>1, <2>1, <2>7, TypedKept DEF SaveFailed, After, Proper, Fields, Pcs, Giving
    <2>8. QED BY <1>2, <2>2, <2>3, <2>4, <2>5, <2>6, <2>7 DEF Stores
  <1>3. CASE StoreThrows(p)
    <2>1. /\ \A q \in Actors \ {p} : actors'[q] = actors[q]
          /\ aborted' = aborted /\ sent' = sent /\ crashes' = crashes /\ tries' = tries
      BY <1>1, <1>3 DEF StoreThrows
    <2>2. faults' \in 0 .. MaxFaults
      BY <1>1, <1>3, LimitsAssumption DEF StoreThrows
    <2>3. Proper(p, actors'[p])
      BY <1>1, <1>3 DEF StoreThrows, After, Proper, Fields, Storing, Saving, Pcs, Giving
    <2>4. QED BY <1>1, <2>1, <2>2, <2>3, TypedKept
  <1>4. QED BY <1>2, <1>3

LEMMA SendTyped ==
  ASSUME CountInv, Typed, NEW i \in Ids, Deliver(i) \/ DeliverEnds(i) \/ DeliverAborts(i)
  PROVE  Typed'
  <1>1. /\ i \in Actors /\ DOMAIN actors = Actors /\ DOMAIN actors[i] = Fields /\ Proper(i, actors[i])
        /\ aborted \subseteq Ids /\ sent \subseteq Ids /\ faults \in 0 .. MaxFaults
    BY DEF CountInv, ActorPaid, Typed, Actors
  <1>2. /\ \A q \in Actors \ {i} : actors'[q] = actors[q]
        /\ crashes' = crashes /\ faults' = faults
    BY <1>1 DEF Deliver, DeliverEnds, DeliverAborts
  <1>3. aborted' \subseteq Ids /\ sent' \subseteq Ids
    BY <1>1 DEF Deliver, DeliverEnds, DeliverAborts, Sent
  <1>4. \E pc \in {"enqueue", "done", "fail", "ack"} : actors' = [actors EXCEPT ![i].pc = pc]
    BY DEF Deliver, DeliverEnds, DeliverAborts
  <1>5. Proper(i, actors'[i])
    BY <1>1, <1>4 DEF Proper, Fields, Storing, Pcs, Giving
  <1>6. tries' \in [Ids -> 0 .. MaxRetries]
    <2>1. tries \in [Ids -> 0 .. MaxRetries]
      BY DEF Typed
    <2>2. tries' = tries \/ \E o : Sent(i, o)
      BY DEF Deliver, DeliverEnds, DeliverAborts
    <2>3. QED BY <2>1, <2>2, SentTypes
  <1>7. QED BY <1>1, <1>2, <1>3, <1>5, <1>6, TypedKept

LEMMA RecoveryTyped ==
  ASSUME CountInv, Typed, NEW r \in Recoverers,
         RecoverPendingDeliveries(r) \/ NextEntry(r) \/ RecoverySendEnds(r)
  PROVE  Typed'
  <1> DEFINE a == actors[r]
  <1>1. /\ r \in Actors /\ r \notin Ids /\ DOMAIN actors = Actors /\ DOMAIN a = Fields /\ Proper(r, a)
        /\ a.job \in Ids /\ IsDoc(a.todo) /\ aborted \subseteq Ids /\ sent \subseteq Ids
        /\ faults \in 0 .. MaxFaults
    BY IdsAssumption DEF CountInv, ActorPaid, Typed, Actors
  <1>2. /\ \A q \in Actors \ {r} : actors'[q] = actors[q]
        /\ aborted' = aborted /\ crashes' = crashes /\ faults' = faults
    BY <1>1 DEF RecoverPendingDeliveries, NextEntry, RecoverySendEnds
  <1>3. sent' \subseteq Ids
    BY <1>1 DEF RecoverPendingDeliveries, NextEntry, RecoverySendEnds, Sent
  <1>4. tries' \in [Ids -> 0 .. MaxRetries]
    <2>1. tries \in [Ids -> 0 .. MaxRetries]
      BY DEF Typed
    <2>2. tries' = tries \/ \E o : Sent(a.job, o)
      BY DEF RecoverPendingDeliveries, NextEntry, RecoverySendEnds
    <2>3. QED BY <1>1, <2>1, <2>2, SentTypes
  <1>5. CASE RecoverPendingDeliveries(r)
    <2>1. Proper(r, actors'[r])
      BY <1>1, <1>5 DEF RecoverPendingDeliveries, Idle, Proper, Pcs, Giving
    <2>2. QED BY <1>1, <1>2, <1>3, <1>4, <2>1, TypedKept
  <1>6. CASE NextEntry(r)
    <2>1. CASE actors'[r] = Idle(1)
      <3>1. Proper(r, actors'[r])
        BY <1>1, <2>1 DEF Idle, Proper, Pcs, Giving
      <3>2. QED BY <1>1, <1>2, <1>3, <1>4, <3>1, TypedKept
    <2>2. CASE actors'[r] # Idle(1)
      <3>1. a.todo # Nothing
        BY <1>1, <1>6, <2>2 DEF NextEntry
      <3>2. PICK i \in DOMAIN a.todo : i = Oldest(DOMAIN a.todo)
        BY <1>1, <3>1, OldestEntry
      <3>3. PICK wait \in Nat : wait = ComputeBackoff(a.todo[i] + 1)
        BY <1>1, <3>2, BackoffIsTime DEF IsDoc
      <3>4. \/ actors'[r] = [a EXCEPT !.pc = "move", !.job = i]
            \/ actors'[r] = [a EXCEPT !.pc = "send", !.job = i, !.spent = @ + wait]
        BY <1>1, <1>6, <2>2, <3>2, <3>3 DEF NextEntry
      <3>5. Proper(r, actors'[r])
        <4>1. CASE actors'[r] = [a EXCEPT !.pc = "move", !.job = i]
          BY <1>1, <4>1 DEF Proper, Fields, Storing, Pcs
        <4>2. CASE actors'[r] = [a EXCEPT !.pc = "send", !.job = i, !.spent = @ + wait]
          <5>1. /\ actors'[r].pc = "send" /\ actors'[r].queued = a.queued
                /\ actors'[r].spent = a.spent + wait
            BY <1>1, <4>2 DEF Fields
          <5>2. QED BY <1>1, <5>1 DEF Proper, Pcs
        <4>3. QED BY <3>4, <4>1, <4>2
      <3>6. QED BY <1>1, <1>2, <1>3, <1>4, <3>5, TypedKept
    <2>3. QED BY <2>1, <2>2
  <1>7. CASE RecoverySendEnds(r)
    <2>1. PICK t \in SendTimes, pc \in {"fail", "ack"} :
            actors' = [actors EXCEPT ![r].pc = pc, ![r].spent = @ + t]
      BY <1>7 DEF RecoverySendEnds
    <2>2. t \in Nat
      BY LimitsAssumption
    <2>3. Proper(r, actors'[r])
      BY <1>1, <2>1, <2>2 DEF Proper, Fields, Storing, Pcs, Giving
    <2>4. QED BY <1>1, <1>2, <1>3, <1>4, <2>3, TypedKept
  <1>8. QED BY <1>5, <1>6, <1>7

LEMMA CrashTyped ==
  ASSUME CountInv, Typed, Crash
  PROVE  Typed'
  <1>1. \A p \in Actors : DOMAIN actors[p] = Fields /\ Proper(p, actors[p])
    BY DEF CountInv, ActorPaid, Typed
  <1>2. ASSUME NEW p \in Actors
        PROVE  Proper(p, actors'[p])
    <2>1. \/ actors'[p] = Idle(1)
          \/ actors'[p] = actors[p]
          \/ actors'[p] = [actors[p] EXCEPT !.pc = "dead", !.view = Nothing]
      BY DEF Crash
    <2>2. CASE actors'[p] = [actors[p] EXCEPT !.pc = "dead", !.view = Nothing]
      BY <1>1, <2>2 DEF Proper, Fields, Pcs, Giving
    <2>3. QED BY <1>1, <2>1, <2>2, IdleProper
  <1>3. aborted' = aborted /\ sent' = sent /\ faults' = faults /\ tries' = tries
    BY DEF Crash
  <1>4. crashes' \in 0 .. MaxCrashes
    <2>1. crashes' = crashes + 1 /\ crashes < MaxCrashes
      BY DEF Crash
    <2>2. crashes \in 0 .. MaxCrashes /\ MaxCrashes \in Nat
      BY LimitsAssumption DEF Typed
    <2>3. QED BY <2>1, <2>2
  <1>5. QED BY <1>2, <1>3, <1>4 DEF Typed

LEMMA StepTyped == CountInv /\ Typed /\ [Next]_vars => Typed'
  <1> SUFFICES ASSUME CountInv, Typed, [Next]_vars PROVE Typed'
    OBVIOUS
  <1>1. CASE Next
    BY <1>1, StoreTyped, SendTyped, RecoveryTyped, CrashTyped DEF Next
  <1>2. CASE UNCHANGED vars
    BY <1>2 DEF vars, Typed
  <1>3. QED BY <1>1, <1>2

-----------------------------------------------------------------------------
(***************************************************************************)
(* On disk, while recoveries do not overlap, a count exceeds the limit by  *)
(* at most one: the two actors that may raise it, the send and the         *)
(* recovery, then read counts of which at most one is at the limit.        *)
(***************************************************************************)
OneOnDisk == Backend = "disk" /\ \A q, r \in Recoverers : q = r

Open(i)   == actors[i].pc \in {"send", "fail", "failSave"}       \* may yet raise the count
Unsent(i) == actors[i].pc \in {"idle", "enqueue", "enqueueSave"}
Retrying  == {"send", "ack", "ackSave", "fail", "failSave"}

Limited(i) ==
  /\ i \in DOMAIN pending => /\ pending[i] <= MaxRetries + 1
                             /\ Open(i) => pending[i] <= MaxRetries
  /\ Unsent(i) => i \notin DOMAIN pending
  /\ actors[i].pc = "failSave" /\ i \in DOMAIN actors[i].view =>
       /\ actors[i].view[i] <= MaxRetries
       /\ i \in DOMAIN pending => actors[i].view[i] <= pending[i]

\* While the send is open its entry is as the recovery r saw it.
InStep(i, r) ==
  /\ i \in DOMAIN actors[r].todo =>
       /\ ~Unsent(i)
       /\ Open(i) => i \in DOMAIN pending /\ pending[i] = actors[r].todo[i]
       /\ i \in DOMAIN pending /\ actors[r].todo[i] < MaxRetries => pending[i] <= MaxRetries
  /\ actors[r].pc \in Retrying /\ actors[r].job = i =>
       i \in DOMAIN actors[r].todo /\ actors[r].todo[i] < MaxRetries
  /\ actors[r].pc = "failSave" /\ actors[r].job = i /\ i \in DOMAIN actors[r].view =>
       /\ actors[r].view[i] <= MaxRetries
       /\ Open(i) => actors[r].view[i] = actors[r].todo[i]

BoundInv ==
  /\ \A p \in Actors : actors[p].pc \notin {"moveSave", "failedSave"}
  /\ \A r \in Recoverers : actors[r].pc \notin {"enqueue", "enqueueSave"}
  /\ \A i \in Ids : Limited(i) /\ \A r \in Recoverers : InStep(i, r)

LEMMA InitBound == Init => BoundInv
  <1> SUFFICES ASSUME Init PROVE BoundInv
    OBVIOUS
  <1>1. pending = Nothing /\ \A p \in Actors : actors[p] = Idle(IF p \in Ids THEN p ELSE 1)
    BY DEF Init
  <1>2. \A p \in Actors : actors[p].pc = "idle" /\ DOMAIN actors[p].todo = {}
    <2>1. \A i : Idle(i).pc = "idle" /\ Idle(i).todo = Nothing
      BY DEF Idle
    <2>2. DOMAIN Nothing = {}
      BY DEF Nothing
    <2>3. QED BY <1>1, <2>1, <2>2
  <1>3. DOMAIN pending = {}
    BY <1>1 DEF Nothing
  <1>4. \A i \in Ids : Limited(i) /\ \A r \in Recoverers : InStep(i, r)
    BY <1>2, <1>3 DEF Limited, InStep, Retrying, Actors
  <1>5. QED BY <1>2, <1>4 DEF BoundInv, Actors

\* What the steps below use of the invariants.
LEMMA BoundFacts ==
  ASSUME CountInv, BoundInv, NEW p \in Actors
  PROVE  /\ DOMAIN actors = Actors /\ DOMAIN actors[p] = Fields /\ actors[p].job \in Ids
         /\ p \in Ids => actors[p].job = p
         /\ p \notin Ids => p \in Recoverers
         /\ IsDoc(pending) /\ IsDoc(actors[p].view) /\ IsDoc(actors[p].todo)
         /\ actors[p].pc \notin {"moveSave", "failedSave"}
  BY DEF CountInv, ActorPaid, BoundInv, Actors

\* Nothing that concerns delivery i and recovery r has changed.
Untouched(i) ==
  /\ i \in DOMAIN pending' <=> i \in DOMAIN pending
  /\ i \in DOMAIN pending => pending'[i] = pending[i]

LEMMA LoadBound ==
  ASSUME CountInv, BoundInv, NEW p \in Actors, Load(p), OneOnDisk
  PROVE  BoundInv'
  <1> DEFINE a == actors[p]
             b == actors'[p]
  <1>1. /\ DOMAIN actors = Actors /\ DOMAIN a = Fields /\ a.job \in Ids /\ (p \in Ids => a.job = p)
        /\ Ids \subseteq Actors /\ Recoverers \subseteq Actors /\ Ids \cap Recoverers = {}
    BY BoundFacts, IdsAssumption DEF Actors
  <1>2. /\ pending' = pending /\ (\A q \in Actors \ {p} : actors'[q] = actors[q])
        /\ a.pc \in Storing /\ b.view = pending /\ b.job = a.job /\ b.todo = a.todo
        /\ b.pc = CASE a.pc = "enqueue" -> "enqueueSave" [] a.pc = "ack"  -> "ackSave"
                    [] a.pc = "fail"    -> "failSave"    [] a.pc = "move" -> "moveLoaded"
    BY <1>1 DEF Load, Fields
  <1>3. ASSUME NEW i \in Ids
        PROVE  Limited(i)'
    <2>1. Limited(i) /\ (i \in DOMAIN pending => pending[i] \in Nat)
      BY DEF BoundInv, CountInv, IsDoc
    <2>2. CASE p = i
      BY <1>2, <2>1, <2>2 DEF Limited, Open, Unsent, Storing
    <2>3. CASE p # i
      BY <1>1, <1>2, <2>1, <2>3 DEF Limited, Open, Unsent
    <2>4. QED BY <2>2, <2>3
  <1>4. ASSUME NEW i \in Ids, NEW r \in Recoverers
        PROVE  InStep(i, r)'
    <2>1. InStep(i, r) /\ Limited(i)
      BY DEF BoundInv
    <2>2. CASE p = i
      BY <1>1, <1>2, <2>1, <2>2 DEF InStep, Open, Unsent, Storing
    <2>3. CASE p = r
      BY <1>1, <1>2, <2>1, <2>3 DEF InStep, Limited, Open, Unsent, Storing, Retrying
    <2>4. CASE p # r /\ p # i
      BY <1>1, <1>2, <2>1, <2>4 DEF InStep, Open, Unsent
    <2>5. QED BY <2>2, <2>3, <2>4
  <1>5. /\ \A q \in Actors : actors'[q].pc \notin {"moveSave", "failedSave"}
        /\ \A r \in Recoverers : actors'[r].pc \notin {"enqueue", "enqueueSave"}
    BY <1>1, <1>2 DEF Storing, BoundInv
  <1>6. QED BY <1>3, <1>4, <1>5 DEF BoundInv

LEMMA SaveBound ==
  ASSUME CountInv, BoundInv, NEW p \in Actors, Save(p), OneOnDisk
  PROVE  BoundInv'
  <1> DEFINE a == actors[p]
             b == actors'[p]
  <1>1. /\ DOMAIN actors = Actors /\ DOMAIN a = Fields /\ a.job \in Ids /\ (p \in Ids => a.job = p)
        /\ Ids \subseteq Actors /\ Recoverers \subseteq Actors /\ Ids \cap Recoverers = {}
        /\ (p \notin Ids => p \in Recoverers) /\ Backend = "disk"
    BY BoundFacts, IdsAssumption DEF Actors, OneOnDisk
  <1>2. /\ pending' = Saved(p) /\ (\A q \in Actors \ {p} : actors'[q] = actors[q])
        /\ a.pc \in {"enqueueSave", "ackSave", "failSave"} /\ (p \notin Ids => a.pc # "enqueueSave")
    BY <1>1 DEF Save, BoundInv
  <1>3. /\ a.pc = "enqueueSave" => /\ b.pc = "send" /\ b.todo = a.todo
                                   /\ pending' = Put(pending, a.job, 0)
        /\ a.pc = "ackSave" => pending' = Drop(pending, a.job)
        /\ a.pc = "failSave" => pending' = IF a.job \in DOMAIN a.view
                                           THEN Put(pending, a.job, a.view[a.job] + 1)
                                           ELSE pending
        /\ a.pc # "enqueueSave" => b.pc = IF p \in Ids THEN "done" ELSE "next"
        /\ a.pc # "enqueueSave" /\ p \notin Ids => b.todo = Drop(a.todo, a.job)
        /\ b.job = a.job
    BY <1>1, <1>2 DEF Save, Saved, Base, After, Fields
  <1>4. ASSUME NEW i \in Ids
        PROVE  /\ i # a.job => Untouched(i)
               /\ i = a.job /\ a.pc = "enqueueSave" => i \in DOMAIN pending' /\ pending'[i] = 0
               /\ i = a.job /\ a.pc = "ackSave" => i \notin DOMAIN pending'
               /\ i = a.job /\ a.pc = "failSave" =>
                    IF i \in DOMAIN a.view
                    THEN i \in DOMAIN pending' /\ pending'[i] = a.view[i] + 1
                    ELSE Untouched(i)
    BY <1>2, <1>3 DEF Untouched, Put, Drop
  <1>5. ASSUME NEW i \in Ids
        PROVE  /\ i \in DOMAIN pending => pending[i] \in Nat
               /\ i \in DOMAIN a.view => a.view[i] \in Nat
               /\ MaxRetries \in Nat
               /\ \A r \in Recoverers : i \in DOMAIN actors[r].todo => actors[r].todo[i] \in Nat
    BY LimitsAssumption DEF CountInv, ActorPaid, IsDoc, Actors
  <1>6. ASSUME NEW i \in Ids, i # p, i # a.job
        PROVE  Limited(i)'
    BY <1>1, <1>2, <1>4, <1>6 DEF BoundInv, Limited, Open, Unsent, Untouched
  <1>7. ASSUME NEW i \in Ids, i # p, i = a.job
        PROVE  Limited(i)'
    <2>1. Limited(i) /\ InStep(i, p) /\ a.pc \in {"ackSave", "failSave"} /\ actors'[i] = actors[i]
      BY <1>1, <1>2, <1>7 DEF BoundInv
    <2>2. CASE a.pc = "ackSave"
      BY <1>4, <1>7, <2>1, <2>2 DEF Limited, Open, Unsent
    <2>3. CASE a.pc = "failSave" /\ i \notin DOMAIN a.view
      BY <1>4, <1>7, <2>1, <2>3 DEF Limited, Open, Unsent, Untouched
    <2>4. CASE a.pc = "failSave" /\ i \in DOMAIN a.view
      <3>1. i \in DOMAIN a.todo /\ a.todo[i] < MaxRetries /\ ~Unsent(i)
        BY <1>7, <2>1, <2>4 DEF InStep, Retrying
      <3>2. a.view[i] <= MaxRetries /\ (Open(i) => a.view[i] < MaxRetries)
        BY <1>7, <2>1, <2>4, <3>1 DEF InStep
      <3>3. PICK n \in Nat : n = a.view[i]
        BY <1>5, <2>4
      <3>4. /\ i \in DOMAIN pending' /\ pending'[i] = n + 1 /\ n + 1 <= MaxRetries + 1
            /\ Open(i) => n + 1 <= MaxRetries
        BY <1>4, <1>5, <1>7, <2>4, <3>2, <3>3
      <3>5. actors[i].pc = "failSave" /\ i \in DOMAIN actors[i].view =>
              actors[i].view[i] <= MaxRetries /\ actors[i].view[i] <= n + 1
        <4>1. actors[i].pc = "failSave" => i \in DOMAIN pending /\ pending[i] = n
          BY <1>7, <2>1, <2>4, <3>1, <3>3 DEF InStep, Open
        <4>2. i \in DOMAIN actors[i].view => actors[i].view[i] \in Nat
          BY <1>1 DEF CountInv, ActorPaid, IsDoc
        <4>3. QED BY <2>1, <4>1, <4>2 DEF Limited
      <3>6. QED BY <2>1, <3>1, <3>4, <3>5 DEF Limited, Open, Unsent
    <2>5. QED BY <2>1, <2>2, <2>3, <2>4
  <1>8. ASSUME NEW i \in Ids, i = p
        PROVE  Limited(i)'
    BY <1>1, <1>2, <1>3, <1>4, <1>5, <1>8 DEF BoundInv, Limited, Open, Unsent
  <1>9. ASSUME NEW i \in Ids, NEW r \in Recoverers, p \in Ids, i = p
        PROVE  InStep(i, r)'
    <2>1. Limited(i) /\ InStep(i, r) /\ actors'[r] = actors[r] /\ actors[i] = a /\ actors'[i] = b
          /\ a.job = i
      BY <1>1, <1>2, <1>9 DEF BoundInv
    <2>2. CASE a.pc = "enqueueSave"
      BY <1>3, <1>4, <1>5, <2>1, <2>2 DEF Limited, InStep, Open, Unsent, Retrying
    <2>3. CASE a.pc = "ackSave"
      BY <1>1, <1>3, <1>4, <1>5, <1>9, <2>1, <2>3 DEF Limited, InStep, Open, Unsent, Retrying
    <2>4. CASE a.pc = "failSave"
      BY <1>1, <1>3, <1>4, <1>5, <1>9, <2>1, <2>4 DEF Limited, InStep, Open, Unsent, Retrying, Untouched
    <2>5. QED BY <1>2, <2>2, <2>3, <2>4
  <1>10. ASSUME NEW i \in Ids, NEW r \in Recoverers, p \in Ids, i # p
         PROVE  InStep(i, r)'
    BY <1>1, <1>2, <1>4, <1>10 DEF BoundInv, InStep, Open, Unsent, Untouched
  <1>11. ASSUME NEW i \in Ids, NEW r \in Recoverers, p \notin Ids
         PROVE  InStep(i, r)'
    <2>1. r = p /\ InStep(i, r) /\ actors'[i] = actors[i]
      BY <1>1, <1>2, <1>11 DEF BoundInv, OneOnDisk
    <2>2. b.pc = "next" /\ b.todo = Drop(a.todo, a.job)
      BY <1>2, <1>3, <1>11
    <2>3. i \in DOMAIN b.todo => i # a.job /\ i \in DOMAIN a.todo /\ b.todo[i] = a.todo[i]
      BY <2>2 DEF Drop
    <2>4. QED BY <1>4, <2>1, <2>2, <2>3 DEF InStep, Open, Unsent, Untouched, Retrying
  <1>12. /\ \A q \in Actors : actors'[q].pc \notin {"moveSave", "failedSave"}
         /\ \A r \in Recoverers : actors'[r].pc \notin {"enqueue", "enqueueSave"}
    BY <1>1, <1>2, <1>3 DEF BoundInv
  <1>13. QED BY <1>6, <1>7, <1>8, <1>9, <1>10, <1>11, <1>12 DEF BoundInv

\* The rename of a move, a step that throws: the queue loses at most the entry.
LEMMA MoveBound ==
  ASSUME CountInv, Typed, BoundInv, NEW p \in Actors, MoveOnDisk(p), OneOnDisk
  PROVE  BoundInv'
  <1> DEFINE a == actors[p]
             b == actors'[p]
  <1>1. /\ DOMAIN actors = Actors /\ DOMAIN a = Fields /\ a.job \in Ids
        /\ Ids \subseteq Actors /\ Recoverers \subseteq Actors /\ Ids \cap Recoverers = {}
        /\ (p \notin Ids => p \in Recoverers) /\ p \notin Ids
    BY BoundFacts, IdsAssumption DEF Actors, Typed, Proper, MoveOnDisk, Giving
  <1>2. /\ pending' \in {pending, Drop(pending, a.job)}
        /\ (\A q \in Actors \ {p} : actors'[q] = actors[q])
        /\ b.pc = "next" /\ b.todo = Drop(a.todo, a.job) /\ b.job = a.job
    BY <1>1 DEF MoveOnDisk, After, Fields
  <1>3. ASSUME NEW i \in Ids
        PROVE  /\ i # a.job => Untouched(i)
               /\ Untouched(i) \/ i \notin DOMAIN pending'
    BY <1>2 DEF Untouched, Drop
  <1>4. ASSUME NEW i \in Ids
        PROVE  Limited(i)'
    BY <1>1, <1>2, <1>3 DEF BoundInv, Limited, Open, Unsent, Untouched
  <1>5. ASSUME NEW i \in Ids, NEW r \in Recoverers
        PROVE  InStep(i, r)'
    <2>1. r = p /\ InStep(i, r) /\ actors'[i] = actors[i]
      BY <1>1, <1>2 DEF BoundInv, OneOnDisk
    <2>2. i \in DOMAIN b.todo => i # a.job /\ i \in DOMAIN a.todo /\ b.todo[i] = a.todo[i]
      BY <1>2 DEF Drop
    <2>3. QED BY <1>2, <1>3, <2>1, <2>2 DEF InStep, Open, Unsent, Untouched, Retrying
  <1>6. /\ \A q \in Actors : actors'[q].pc \notin {"moveSave", "failedSave"}
        /\ \A r \in Recoverers : actors'[r].pc \notin {"enqueue", "enqueueSave"}
    BY <1>1, <1>2 DEF BoundInv
  <1>7. QED BY <1>4, <1>5, <1>6 DEF BoundInv

\* An operation that throws leaves the disk as it was.
LEMMA ThrowBound ==
  ASSUME CountInv, Typed, BoundInv, NEW p \in Actors, StoreThrows(p), OneOnDisk
  PROVE  BoundInv'
  <1> DEFINE a == actors[p]
             b == actors'[p]
  <1>1. /\ DOMAIN actors = Actors /\ DOMAIN a = Fields /\ a.job \in Ids /\ (p \in Ids => a.job = p)
        /\ Ids \subseteq Actors /\ Recoverers \subseteq Actors /\ Ids \cap Recoverers = {}
        /\ (p \notin Ids => p \in Recoverers) /\ Backend = "disk"
    BY BoundFacts, IdsAssumption DEF Actors, OneOnDisk
  <1>2. /\ pending' = pending /\ (\A q \in Actors \ {p} : actors'[q] = actors[q])
        /\ a.pc \in Storing \cup Saving /\ (p \notin Ids => a.pc \notin {"enqueue", "enqueueSave"})
    BY <1>1 DEF StoreThrows, BoundInv
  <1>3. CASE p \in Ids
    <2>1. b.pc = IF a.pc \in {"enqueue", "enqueueSave"} THEN "send" ELSE "done"
      BY <1>1, <1>3 DEF StoreThrows, After, Fields
    <2>2. ASSUME NEW i \in Ids
          PROVE  Limited(i)' /\ \A r \in Recoverers : InStep(i, r)'
      <3>1. CASE i # p
        BY <1>1, <1>2, <1>3, <3>1 DEF BoundInv, Limited, InStep, Open, Unsent
      <3>2. CASE i = p
        <4>1. Limited(i) /\ actors[i] = a /\ actors'[i] = b
          BY <3>2 DEF BoundInv
        <4>2. Limited(i)'
          BY <1>2, <2>1, <4>1 DEF Limited, Open, Unsent
        <4>3. ASSUME NEW r \in Recoverers
              PROVE  InStep(i, r)'
          <5>1. InStep(i, r) /\ actors'[r] = actors[r]
            BY <1>1, <1>2, <3>2 DEF BoundInv
          <5>2. ~Unsent(i)' /\ (Open(i)' => Unsent(i))
            BY <2>1, <4>1 DEF Open, Unsent
          <5>3. i \in DOMAIN actors[r].todo => ~Open(i)'
            BY <5>1, <5>2 DEF InStep
          <5>4. QED BY <1>2, <5>1, <5>2, <5>3 DEF InStep, Retrying
        <4>4. QED BY <4>2, <4>3
      <3>3. QED BY <3>1, <3>2
    <2>3. /\ \A q \in Actors : actors'[q].pc \notin {"moveSave", "failedSave"}
          /\ \A r \in Recoverers : actors'[r].pc \notin {"enqueue", "enqueueSave"}
      BY <1>1, <1>2, <1>3, <2>1 DEF BoundInv
    <2>4. QED BY <2>2, <2>3 DEF BoundInv
  <1>4. CASE p \notin Ids
    <2>1. /\ b.job = a.job
          /\ \/ b.pc = "fail" /\ a.pc \in {"ack", "ackSave"} /\ b.todo = a.todo
             \/ b.pc = "next" /\ b.todo = Drop(a.todo, a.job)
      BY <1>1, <1>2, <1>4 DEF StoreThrows, After, Fields
    <2>2. ASSUME NEW i \in Ids
          PROVE  Limited(i)'
      BY <1>1, <1>2, <1>4 DEF BoundInv, Limited, Open, Unsent
    <2>3. ASSUME NEW i \in Ids, NEW r \in Recoverers
          PROVE  InStep(i, r)'
      <3>1. r = p /\ InStep(i, r) /\ actors'[i] = actors[i]
        BY <1>1, <1>2, <1>4 DEF BoundInv, OneOnDisk
      <3>2. CASE b.pc = "fail" /\ a.pc \in {"ack", "ackSave"} /\ b.todo = a.todo
        BY <1>2, <2>1, <3>1, <3>2 DEF InStep, Open, Unsent, Retrying
      <3>3. CASE b.pc = "next" /\ b.todo = Drop(a.todo, a.job)
        <4>1. i \in DOMAIN b.todo => i \in DOMAIN a.todo /\ b.todo[i] = a.todo[i]
          BY <3>3 DEF Drop
        <4>2. QED BY <1>2, <3>1, <3>3, <4>1 DEF InStep, Open, Unsent, Retrying
      <3>4. QED BY <2>1, <3>2, <3>3
    <2>4. /\ \A q \in Actors : actors'[q].pc \notin {"moveSave", "failedSave"}
          /\ \A r \in Recoverers : actors'[r].pc \notin {"enqueue", "enqueueSave"}
      BY <1>1, <1>2, <1>4, <2>1 DEF BoundInv
    <2>5. QED BY <2>2, <2>3, <2>4 DEF BoundInv
  <1>5. QED BY <1>3, <1>4

\* A send raises no count.
LEMMA SendBound ==
  ASSUME CountInv, BoundInv, NEW i \in Ids, Deliver(i) \/ DeliverEnds(i) \/ DeliverAborts(i)
  PROVE  BoundInv'
  <1>1. /\ DOMAIN actors = Actors /\ DOMAIN actors[i] = Fields /\ i \in Actors /\ i \notin Recoverers
        /\ Ids \subseteq Actors /\ Recoverers \subseteq Actors
    BY BoundFacts, IdsAssumption DEF Actors
  <1>2. /\ pending' = pending /\ (\A q \in Actors \ {i} : actors'[q] = actors[q])
        /\ \/ actors[i].pc = "idle" /\ actors'[i].pc = "enqueue"
           \/ actors[i].pc = "send" /\ actors'[i].pc \in {"done", "fail", "ack"}
    BY <1>1 DEF Deliver, DeliverEnds, DeliverAborts, Fields
  <1>3. ASSUME NEW j \in Ids
        PROVE  Limited(j)' /\ \A r \in Recoverers : InStep(j, r)'
    <2>1. Limited(j)'
      BY <1>1, <1>2 DEF BoundInv, Limited, Open, Unsent
    <2>2. ASSUME NEW r \in Recoverers
          PROVE  InStep(j, r)'
      <3>1. InStep(j, r) /\ actors'[r] = actors[r]
        BY <1>1, <1>2 DEF BoundInv
      <3>2. (Open(j)' => Open(j)) /\ (Unsent(j)' => Unsent(j))
        BY <1>1, <1>2 DEF Open, Unsent
      <3>3. QED BY <1>2, <3>1, <3>2 DEF InStep
    <2>3. QED BY <2>1, <2>2
  <1>4. /\ \A q \in Actors : actors'[q].pc \notin {"moveSave", "failedSave"}
        /\ \A r \in Recoverers : actors'[r].pc \notin {"enqueue", "enqueueSave"}
    BY <1>1, <1>2 DEF BoundInv
  <1>5. QED BY <1>3, <1>4 DEF BoundInv

\* A recovery begins when none is under way, with the queue as it is.
LEMMA BeginBound ==
  ASSUME CountInv, BoundInv, NEW p \in Recoverers, RecoverPendingDeliveries(p), OneOnDisk
  PROVE  BoundInv'
  <1>1. /\ DOMAIN actors = Actors /\ p \in Actors /\ p \notin Ids
        /\ Ids \subseteq Actors /\ Recoverers \subseteq Actors
    BY BoundFacts, IdsAssumption DEF Actors
  <1>2. /\ pending' = pending /\ (\A q \in Actors \ {p} : actors'[q] = actors[q])
        /\ actors'[p].pc = "next" /\ actors'[p].todo = pending
    BY <1>1 DEF RecoverPendingDeliveries, Idle
  <1>3. ASSUME NEW i \in Ids
        PROVE  Limited(i)' /\ \A r \in Recoverers : InStep(i, r)'
    <2>1. Limited(i) /\ actors'[i] = actors[i] /\ (i \in DOMAIN pending => pending[i] \in Nat)
      BY <1>1, <1>2 DEF BoundInv, CountInv, IsDoc
    <2>2. Limited(i)'
      BY <1>2, <2>1 DEF Limited, Open, Unsent
    <2>3. ASSUME NEW r \in Recoverers
          PROVE  InStep(i, r)'
      <3>1. r = p /\ MaxRetries \in Nat
        BY LimitsAssumption DEF OneOnDisk
      <3>2. QED BY <1>2, <2>1, <3>1 DEF InStep, Limited, Open, Unsent, Retrying
    <2>4. QED BY <2>2, <2>3
  <1>4. /\ \A q \in Actors : actors'[q].pc \notin {"moveSave", "failedSave"}
        /\ \A r \in Recoverers : actors'[r].pc \notin {"enqueue", "enqueueSave"}
    BY <1>1, <1>2 DEF BoundInv
  <1>5. QED BY <1>3, <1>4 DEF BoundInv

\* A recovery retries only what its snapshot has below the limit.
LEMMA RetryBound ==
  ASSUME CountInv, BoundInv, NEW p \in Recoverers, NextEntry(p) \/ RecoverySendEnds(p), OneOnDisk
  PROVE  BoundInv'
  <1> DEFINE a == actors[p]
             b == actors'[p]
  <1>1. /\ DOMAIN actors = Actors /\ DOMAIN a = Fields /\ p \in Actors /\ p \notin Ids
        /\ Ids \subseteq Actors /\ Recoverers \subseteq Actors /\ IsDoc(a.todo)
        /\ MaxRetries \in Nat
    BY BoundFacts, IdsAssumption, LimitsAssumption DEF Actors
  <1>2. pending' = pending /\ (\A q \in Actors \ {p} : actors'[q] = actors[q])
    BY <1>1 DEF NextEntry, RecoverySendEnds
  <1>3. \/ b.pc = "idle" /\ DOMAIN b.todo = {}
        \/ b.pc = "move" /\ b.todo = a.todo
        \/ b.pc = "send" /\ b.todo = a.todo /\ b.job \in DOMAIN a.todo /\ a.todo[b.job] < MaxRetries
        \/ a.pc = "send" /\ b.pc \in {"fail", "ack"} /\ b.todo = a.todo /\ b.job = a.job
    <2>1. CASE NextEntry(p)
      <3>1. CASE b = Idle(1)
        BY <3>1 DEF Idle, Nothing
      <3>2. CASE b # Idle(1)
        <4>1. a.todo # Nothing
          BY <1>1, <2>1, <3>2 DEF NextEntry
        <4>2. PICK i \in DOMAIN a.todo : i = Oldest(DOMAIN a.todo)
          BY <1>1, <4>1, OldestEntry
        <4>3. PICK n \in Nat : n = a.todo[i]
          BY <1>1, <4>2 DEF IsDoc
        <4>4. \/ b = [a EXCEPT !.pc = "move", !.job = i]
              \/ /\ b = [a EXCEPT !.pc = "send", !.job = i, !.spent = @ + ComputeBackoff(n + 1)]
                 /\ ~(n >= MaxRetries)
          BY <1>1, <2>1, <3>2, <4>2, <4>3 DEF NextEntry
        <4>5. CASE b = [a EXCEPT !.pc = "move", !.job = i]
          BY <1>1, <4>5 DEF Fields
        <4>6. CASE /\ b = [a EXCEPT !.pc = "send", !.job = i, !.spent = @ + ComputeBackoff(n + 1)]
                   /\ ~(n >= MaxRetries)
          <5>1. b.pc = "send" /\ b.todo = a.todo /\ b.job = i
            BY <1>1, <4>6 DEF Fields
          <5>2. n < MaxRetries
            BY <1>1, <4>6
          <5>3. QED BY <4>2, <4>3, <5>1, <5>2
        <4>7. QED BY <4>4, <4>5, <4>6
      <3>3. QED BY <3>1, <3>2
    <2>2. CASE RecoverySendEnds(p)
      <3>1. PICK t \in SendTimes, pc \in {"fail", "ack"} :
              actors' = [actors EXCEPT ![p].pc = pc, ![p].spent = @ + t]
        BY <2>2 DEF RecoverySendEnds
      <3>2. b.pc \in {"fail", "ack"} /\ b.todo = a.todo /\ b.job = a.job
        BY <1>1, <3>1 DEF Fields
      <3>3. QED BY <2>2, <3>2 DEF RecoverySendEnds
    <2>3. QED BY <2>1, <2>2
  <1>4. ASSUME NEW i \in Ids
        PROVE  Limited(i)' /\ \A r \in Recoverers : InStep(i, r)'
    <2>1. Limited(i) /\ actors'[i] = actors[i]
      BY <1>1, <1>2 DEF BoundInv
    <2>2. Limited(i)'
      BY <1>2, <2>1 DEF Limited, Open, Unsent
    <2>3. ASSUME NEW r \in Recoverers
          PROVE  InStep(i, r)'
      <3>1. r = p /\ InStep(i, p)
        BY DEF OneOnDisk, BoundInv
      <3>2. QED BY <1>2, <1>3, <2>1, <3>1 DEF InStep, Open, Unsent, Retrying
    <2>4. QED BY <2>2, <2>3
  <1>5. /\ \A q \in Actors : actors'[q].pc \notin {"moveSave", "failedSave"}
        /\ \A r \in Recoverers : actors'[r].pc \notin {"enqueue", "enqueueSave"}
    BY <1>1, <1>2, <1>3 DEF BoundInv
  <1>6. QED BY <1>4, <1>5 DEF BoundInv

\* A crash leaves no send open and no recovery under way.
LEMMA CrashBound ==
  ASSUME CountInv, BoundInv, Crash
  PROVE  BoundInv'
  <1>1. /\ pending' = pending /\ Ids \cap Recoverers = {}
        /\ \A p \in Actors : DOMAIN actors[p] = Fields
    BY IdsAssumption DEF Crash, CountInv, ActorPaid
  <1>2. \A r \in Recoverers : actors'[r].pc = "idle" /\ DOMAIN actors'[r].todo = {}
    <2>1. \A r \in Recoverers : actors'[r] = Idle(1)
      BY DEF Crash, Actors
    <2>2. Idle(1).pc = "idle" /\ DOMAIN Idle(1).todo = {}
      BY DEF Idle, Nothing
    <2>3. QED BY <2>1, <2>2
  <1>3. ASSUME NEW i \in Ids
        PROVE  \/ actors'[i] = actors[i] /\ actors[i].pc \in {"idle", "done"}
               \/ actors'[i].pc = "dead"
    BY <1>1 DEF Crash, Actors, Fields
  <1>4. ASSUME NEW i \in Ids
        PROVE  Limited(i)' /\ \A r \in Recoverers : InStep(i, r)'
    <2>1. Limited(i)
      BY DEF BoundInv
    <2>2. Limited(i)'
      BY <1>1, <1>3, <2>1 DEF Limited, Open, Unsent
    <2>3. QED BY <1>2, <2>2 DEF InStep, Retrying
  <1>5. /\ \A q \in Actors : actors'[q].pc \notin {"moveSave", "failedSave"}
        /\ \A r \in Recoverers : actors'[r].pc \notin {"enqueue", "enqueueSave"}
    BY <1>2, <1>3 DEF Actors
  <1>6. QED BY <1>4, <1>5 DEF BoundInv

\* On disk nothing is moved in two steps.
LEMMA StepBound ==
  ASSUME OneOnDisk, CountInv, Typed, BoundInv, [Next]_vars
  PROVE  BoundInv'
  <1>1. ASSUME NEW p \in Actors, Stores(p)
        PROVE  BoundInv'
    <2>1. ~LoadFailed(p) /\ ~SavePending(p) /\ ~SaveFailed(p)
      BY DEF LoadFailed, SavePending, SaveFailed, BoundInv, OneOnDisk
    <2>2. QED BY <1>1, <2>1, LoadBound, SaveBound, MoveBound DEF Stores
  <1>2. CASE UNCHANGED vars
    BY <1>2 DEF vars, BoundInv, Limited, InStep, Open, Unsent
  <1>3. QED BY <1>1, <1>2, ThrowBound, SendBound, BeginBound, RetryBound, CrashBound DEF Next

\* The type invariant.  On disk, while recoveries do not overlap, no count exceeds the
\* limit by more than one, whatever crashes and faults there are.
THEOREM DeliveryTypes == Spec => []TypeOK
  <1> DEFINE Bounded == OneOnDisk => BoundInv
             TInv    == CountInv /\ Typed /\ Bounded
  <1>1. Init => TInv
    BY InitCounts, InitTyped, InitBound
  <1>2. TInv /\ [Next]_vars => TInv'
    <2>1. CountInv /\ Typed /\ [Next]_vars => CountInv' /\ Typed'
      BY StepCounts, StepTyped
    <2>2. TInv /\ [Next]_vars => Bounded'
      BY StepBound DEF OneOnDisk
    <2>3. QED BY <2>1, <2>2
  <1>3. TInv => TypeOK
    <2> SUFFICES ASSUME TInv PROVE TypeOK
      OBVIOUS
    <2>1. \A p \in Actors : IsActor(actors[p])
      BY DEF CountInv, ActorPaid, Typed, Proper, IsActor, Fields, Exhausted
    <2>2. OneOnDisk => \A i \in DOMAIN pending : pending[i] <= MaxRetries + 1
      BY DEF BoundInv, Limited, CountInv, IsDoc
    <2>3. \A i \in Ids : /\ actors[i].job = i
                         /\ actors[i].pc \notin {"next", "move", "moveLoaded", "moveSave", "failedSave"}
      BY DEF CountInv, Typed, Proper, Giving, Actors
    <2>4. failed \subseteq Ids
      BY DEF CountInv, Exhausted
    <2>5. QED BY <2>1, <2>2, <2>3, <2>4 DEF TypeOK, CountInv, Typed, OneOnDisk
  <1>4. QED BY <1>1, <1>2, <1>3, PTL DEF Spec
=============================================================================
