------------------------- MODULE CommandQueueProofs -------------------------
(***************************************************************************)
(* Theorems about the command queue, for any set of lanes and calls.       *)
(*                                                                         *)
(* The inductive invariant is IInv.  LaneAgrees relates one lane record to *)
(* the statuses of its entries and is stated for any record, so that it    *)
(* can be used in the middle of a step, between the change an action makes *)
(* to a lane and the pump that follows it.                                 *)
(***************************************************************************)
EXTENDS CommandQueue, LaneStateProofs

LaneAgrees(l, s, st, bn) ==
  /\ s \in LaneStates
  /\ IsFiniteSet(s.active)
  /\ NoDuplicates(s.queue)
  /\ Entries(s.queue) = {t \in Tasks : LaneOf[t] = l /\ st[t] = "queued"}
  /\ s.active = {t \in Tasks : LaneOf[t] = l /\ st[t] = "running" /\ bn[t] = s.generation}
  /\ \A t \in Tasks : LaneOf[t] = l => bn[t] <= s.generation

\* A lane whose pump has nothing left to do.
Busy(s) == s.queue # <<>> => Cardinality(s.active) >= s.maxConcurrent

IInv ==
  /\ TypeOK
  /\ \A l \in Lanes : LaneAgrees(l, lanes[l], status, born) /\ Busy(lanes[l])

\* The statuses and generations that a pump of lane record s leaves behind.
StatusAfter(s, st) == [t \in Tasks |-> IF t \in Entries(Starting(s)) THEN "running" ELSE st[t]]
BornAfter(s, bn)   == [t \in Tasks |-> IF t \in Entries(Starting(s)) THEN s.generation ELSE bn[t]]

-----------------------------------------------------------------------------
\* A pump keeps a lane in agreement with its entries and leaves it busy.
LEMMA PumpAgrees ==
  ASSUME NEW l \in Lanes, NEW s, NEW st \in [Tasks -> Statuses], NEW bn \in [Tasks -> Nat],
         LaneAgrees(l, s, st, bn)
  PROVE  /\ LaneAgrees(l, Pump(s), StatusAfter(s, st), BornAfter(s, bn))
         /\ Busy(Pump(s))
         /\ StatusAfter(s, st) \in [Tasks -> Statuses]
         /\ BornAfter(s, bn) \in [Tasks -> Nat]
         /\ Entries(Starting(s)) \subseteq {t \in Tasks : LaneOf[t] = l /\ st[t] = "queued"}
  <1> DEFINE T == Entries(Starting(s))
  <1>1. /\ s \in LaneStates /\ IsFiniteSet(s.active) /\ NoDuplicates(s.queue)
        /\ Entries(s.queue) = {t \in Tasks : LaneOf[t] = l /\ st[t] = "queued"}
        /\ s.active = {t \in Tasks : LaneOf[t] = l /\ st[t] = "running" /\ bn[t] = s.generation}
        /\ \A t \in Tasks : LaneOf[t] = l => bn[t] <= s.generation
    BY DEF LaneAgrees
  <1>2. s.active \cap Entries(s.queue) = {}
    BY <1>1
  <1>3. T \subseteq Entries(s.queue)
    BY <1>1, StartingEntries
  <1>4. /\ Pump(s).active = s.active \cup T
        /\ Pump(s).generation = s.generation
        /\ Pump(s).maxConcurrent = s.maxConcurrent
    BY <1>1, PumpQueue
  <1>5. /\ Entries(Pump(s).queue) = Entries(s.queue) \ T
        /\ NoDuplicates(Pump(s).queue)
    BY <1>1, PumpSplits
  <1>6. IsFiniteSet(Pump(s).active) /\ Busy(Pump(s))
    BY <1>1, <1>2, <1>4, PumpLimit DEF Busy
  <1>7. Pump(s) \in LaneStates
    BY <1>1, PumpType
  <1>8. s.generation \in Nat
    BY <1>1 DEF LaneStates
  <1>9. T \subseteq {t \in Tasks : LaneOf[t] = l /\ st[t] = "queued"}
    BY <1>1, <1>3
  <1> HIDE DEF T
  <1>10. /\ \A t \in Tasks : StatusAfter(s, st)[t] = IF t \in T THEN "running" ELSE st[t]
         /\ \A t \in Tasks : BornAfter(s, bn)[t] = IF t \in T THEN s.generation ELSE bn[t]
    BY DEF StatusAfter, BornAfter, T
  <1>11. /\ StatusAfter(s, st) \in [Tasks -> Statuses]
         /\ BornAfter(s, bn) \in [Tasks -> Nat]
    BY <1>8 DEF StatusAfter, BornAfter, Statuses
  <1>12. Entries(Pump(s).queue)
           = {t \in Tasks : LaneOf[t] = l /\ StatusAfter(s, st)[t] = "queued"}
    BY <1>1, <1>5, <1>9, <1>10
  <1>13. Pump(s).active = {t \in Tasks : /\ LaneOf[t] = l
                                         /\ StatusAfter(s, st)[t] = "running"
                                         /\ BornAfter(s, bn)[t] = Pump(s).generation}
    BY <1>1, <1>4, <1>9, <1>10
  <1>14. \A t \in Tasks : LaneOf[t] = l => BornAfter(s, bn)[t] <= Pump(s).generation
    BY <1>1, <1>4, <1>8, <1>10
  <1>15. QED
    BY <1>5, <1>6, <1>7, <1>9, <1>11, <1>12, <1>13, <1>14 DEF LaneAgrees, T

\* A step that drains lane l, from a record that agrees with its entries, and
\* touches the statuses of no other lane, keeps the invariant.
LEMMA DrainKeepsIInv ==
  ASSUME IInv, NEW l \in Lanes, NEW s, NEW st \in [Tasks -> Statuses],
         LaneAgrees(l, s, st, born),
         \A t \in Tasks : LaneOf[t] # l => st[t] = status[t],
         Drain(l, s, st), UNCHANGED waiter
  PROVE  IInv'
  <1>1. /\ lanes' = [lanes EXCEPT ![l] = Pump(s)]
        /\ status' = StatusAfter(s, st)
        /\ born' = BornAfter(s, born)
    BY DEF Drain, StatusAfter, BornAfter
  <1>2. /\ lanes \in [Lanes -> LaneStates] /\ born \in [Tasks -> Nat]
        /\ waiter' \in [phase : Phases, activeAtStart : SUBSET Tasks, expired : BOOLEAN]
    BY DEF IInv, TypeOK
  <1>3. /\ LaneAgrees(l, Pump(s), status', born')
        /\ Busy(Pump(s))
        /\ status' \in [Tasks -> Statuses]
        /\ born' \in [Tasks -> Nat]
        /\ Entries(Starting(s)) \subseteq {t \in Tasks : LaneOf[t] = l /\ st[t] = "queued"}
    BY <1>1, <1>2, PumpAgrees
  <1>4. TypeOK'
    BY <1>1, <1>2, <1>3 DEF TypeOK, LaneAgrees
  <1>5. ASSUME NEW m \in Lanes
        PROVE  LaneAgrees(m, lanes'[m], status', born') /\ Busy(lanes'[m])
    <2>1. CASE m = l
      BY <2>1, <1>1, <1>2, <1>3
    <2>2. CASE m # l
      <3>1. lanes'[m] = lanes[m]
        BY <2>2, <1>1, <1>2
      <3>2. \A t \in Tasks : LaneOf[t] = m => status'[t] = status[t] /\ born'[t] = born[t]
        BY <2>2, <1>1, <1>3 DEF StatusAfter, BornAfter
      <3>3. LaneAgrees(m, lanes[m], status, born) /\ Busy(lanes[m])
        BY DEF IInv
      <3>4. {t \in Tasks : LaneOf[t] = m /\ status'[t] = "queued"}
              = {t \in Tasks : LaneOf[t] = m /\ status[t] = "queued"}
        BY <3>2
      <3>5. {t \in Tasks : /\ LaneOf[t] = m /\ status'[t] = "running"
                           /\ born'[t] = lanes[m].generation}
              = {t \in Tasks : /\ LaneOf[t] = m /\ status[t] = "running"
                               /\ born[t] = lanes[m].generation}
        BY <3>2
      <3>6. \A t \in Tasks : LaneOf[t] = m => born'[t] <= lanes[m].generation
        BY <3>2, <3>3 DEF LaneAgrees
      <3>7. QED BY <3>1, <3>3, <3>4, <3>5, <3>6 DEF LaneAgrees
    <2>3. QED BY <2>1, <2>2
  <1>6. QED BY <1>4, <1>5 DEF IInv
-----------------------------------------------------------------------------
\* A lane record keeps agreeing when its entries do not change.
LEMMA AgreesFrame ==
  ASSUME NEW l, NEW s, NEW st, NEW bn, NEW st2, NEW bn2,
         LaneAgrees(l, s, st, bn),
         \A t \in Tasks : LaneOf[t] = l => st2[t] = st[t] /\ bn2[t] = bn[t]
  PROVE  LaneAgrees(l, s, st2, bn2)
  <1>1. {t \in Tasks : LaneOf[t] = l /\ st2[t] = "queued"}
          = {t \in Tasks : LaneOf[t] = l /\ st[t] = "queued"}
    OBVIOUS
  <1>2. {t \in Tasks : LaneOf[t] = l /\ st2[t] = "running" /\ bn2[t] = s.generation}
          = {t \in Tasks : LaneOf[t] = l /\ st[t] = "running" /\ bn[t] = s.generation}
    OBVIOUS
  <1>3. QED BY <1>1, <1>2 DEF LaneAgrees

\* A pushed entry is the one that turned "queued".
LEMMA PushAgrees ==
  ASSUME NEW l \in Lanes, NEW s, NEW t \in Tasks, LaneOf[t] = l, TypeOK,
         LaneAgrees(l, s, status, born), status[t] = "new"
  PROVE  LaneAgrees(l, Push(s, t), [status EXCEPT ![t] = "queued"], born)
  <1> DEFINE q == s.queue
             r == Push(s, t).queue
             st == [status EXCEPT ![t] = "queued"]
  <1>1. /\ s \in LaneStates /\ q \in Seq(Tasks) /\ NoDuplicates(q) /\ IsFiniteSet(s.active)
        /\ Entries(q) = {u \in Tasks : LaneOf[u] = l /\ status[u] = "queued"}
        /\ s.active = {u \in Tasks : LaneOf[u] = l /\ status[u] = "running" /\ born[u] = s.generation}
    BY DEF LaneAgrees, LaneStates
  <1>2. /\ r = Append(q, t) /\ Push(s, t).active = s.active
        /\ Push(s, t).generation = s.generation
        /\ Push(s, t) \in LaneStates
    BY <1>1, PushType
  <1>3. /\ DOMAIN r = 1 .. Len(q) + 1 /\ DOMAIN q = 1 .. Len(q) /\ Len(q) \in Nat
        /\ \A i \in 1 .. Len(q) : r[i] = q[i]
        /\ r[Len(q) + 1] = t
    BY <1>1, <1>2
  <1>4. t \notin Entries(q)
    BY <1>1
  <1> HIDE DEF r, q
  <1>5. Entries(r) = Entries(q) \cup {t}
    BY <1>3 DEF Entries
  <1>6. NoDuplicates(r)
    <2>1. \A i \in 1 .. Len(q) : q[i] # t
      BY <1>3, <1>4 DEF Entries
    <2>2. \A i, j \in 1 .. Len(q) : q[i] = q[j] => i = j
      BY <1>1, <1>3 DEF NoDuplicates
    <2>3. QED BY <1>3, <2>1, <2>2 DEF NoDuplicates
  <1>7. \A u \in Tasks : st[u] = IF u = t THEN "queued" ELSE status[u]
    BY DEF TypeOK
  <1> HIDE DEF st
  <1>8. Entries(r) = {u \in Tasks : LaneOf[u] = l /\ st[u] = "queued"}
    BY <1>1, <1>5, <1>7
  <1>9. s.active = {u \in Tasks : LaneOf[u] = l /\ st[u] = "running" /\ born[u] = s.generation}
    BY <1>1, <1>7
  <1>10. QED
    BY <1>1, <1>2, <1>6, <1>8, <1>9 DEF LaneAgrees, r, st

\* A completed task gives its slot back and is no longer running.
LEMMA CompleteAgrees ==
  ASSUME NEW l \in Lanes, NEW s, NEW t \in Tasks, LaneOf[t] = l, TypeOK,
         LaneAgrees(l, s, status, born), status[t] = "running",
         NEW outcome \in {"resolved", "rejected"}
  PROVE  LaneAgrees(l, CompleteTask(s, t), [status EXCEPT ![t] = outcome], born)
  <1> DEFINE c == CompleteTask(s, t)
             st == [status EXCEPT ![t] = outcome]
  <1>1. s \in LaneStates /\ IsFiniteSet(s.active)
    BY DEF LaneAgrees
  <1>2. /\ c.active = s.active \ {t} /\ c.queue = s.queue
        /\ c.generation = s.generation /\ c \in LaneStates
    BY <1>1 DEF CompleteTask, LaneStates
  <1>3. IsFiniteSet(c.active)
    BY <1>1, <1>2, FS_RemoveElement
  <1>4. \A u \in Tasks : st[u] = IF u = t THEN outcome ELSE status[u]
    BY DEF TypeOK
  <1> HIDE DEF st, c
  <1>5. Entries(c.queue) = {u \in Tasks : LaneOf[u] = l /\ st[u] = "queued"}
    BY <1>2, <1>4 DEF LaneAgrees
  <1>6. c.active = {u \in Tasks : LaneOf[u] = l /\ st[u] = "running" /\ born[u] = c.generation}
    BY <1>2, <1>4 DEF LaneAgrees
  <1>7. QED BY <1>2, <1>3, <1>5, <1>6 DEF LaneAgrees, st, c

\* A reset writes off the running tasks: none has the new generation.
LEMMA ResetAgrees ==
  ASSUME NEW l \in Lanes, NEW s, TypeOK, LaneAgrees(l, s, status, born)
  PROVE  LaneAgrees(l, Reset(s), status, born)
  <1>1. /\ Reset(s) \in LaneStates /\ Reset(s).queue = s.queue
        /\ Reset(s).active = {} /\ Reset(s).generation = s.generation + 1
        /\ s.generation \in Nat
    <2>1. s \in LaneStates
      BY DEF LaneAgrees
    <2>2. QED BY <2>1, ResetType DEF LaneStates
  <1>2. \A t \in Tasks : LaneOf[t] = l => born[t] < s.generation + 1
    BY <1>1 DEF LaneAgrees, TypeOK
  <1>3. QED BY <1>1, <1>2, FS_EmptySet DEF LaneAgrees, TypeOK

-----------------------------------------------------------------------------
\* Before any call the lanes are empty.
LEMMA InitIInv == Init => IInv
  <1> SUFFICES ASSUME Init PROVE IInv
    OBVIOUS
  <1>1. NewLane \in LaneStates
    BY DEF NewLane, LaneStates
  <1>2. TypeOK
    BY <1>1 DEF Init, TypeOK, Statuses, Phases
  <1>3. Entries(<<>>) = {} /\ NoDuplicates(<<>>)
    BY EmptyQueue
  <1>4. ASSUME NEW l \in Lanes PROVE LaneAgrees(l, lanes[l], status, born) /\ Busy(lanes[l])
    <2>1. /\ lanes[l] = NewLane
          /\ NewLane.queue = <<>> /\ NewLane.active = {} /\ NewLane.generation = 0
      BY DEF Init, NewLane
    <2>2. \A t \in Tasks : status[t] = "new" /\ born[t] = 0
      BY DEF Init
    <2>3. Busy(NewLane)
      BY <2>1 DEF Busy
    <2>4. LaneAgrees(l, NewLane, status, born)
      BY <1>1, <1>3, <2>1, <2>2, FS_EmptySet DEF LaneAgrees
    <2>5. QED BY <2>1, <2>3, <2>4
  <1>5. QED BY <1>2, <1>4 DEF IInv

\* enqueueCommandInLane: the new entry is the only one that changes its status, unless
\* it or an older one starts at once.
LEMMA EnqueueKeepsIInv ==
  ASSUME IInv, NEW t \in Tasks, EnqueueCommandInLane(t)
  PROVE  IInv'
  <1> DEFINE l == LaneOf[t]
             st == [status EXCEPT ![t] = "queued"]
  <1>1. l \in Lanes /\ TypeOK /\ LaneAgrees(l, lanes[l], status, born)
    BY LaneOfAssumption DEF IInv
  <1>2. LaneAgrees(l, Push(lanes[l], t), st, born)
    BY <1>1, PushAgrees DEF EnqueueCommandInLane
  <1>3. /\ st \in [Tasks -> Statuses]
        /\ \A u \in Tasks : LaneOf[u] # l => st[u] = status[u]
    BY <1>1 DEF TypeOK, Statuses
  <1>4. Drain(l, Push(lanes[l], t), st) /\ UNCHANGED waiter
    BY DEF EnqueueCommandInLane
  <1> HIDE DEF l, st
  <1>5. QED BY <1>1, <1>2, <1>3, <1>4, DrainKeepsIInv

\* A completion of the present generation frees a slot, and pump fills it.
LEMMA FinishCurrentKeepsIInv ==
  ASSUME IInv, NEW t \in Tasks, NEW outcome \in {"resolved", "rejected"},
         FinishCurrent(t, outcome)
  PROVE  IInv'
  <1> DEFINE l == LaneOf[t]
             st == [status EXCEPT ![t] = outcome]
  <1>1. l \in Lanes /\ TypeOK /\ LaneAgrees(l, lanes[l], status, born)
    BY LaneOfAssumption DEF IInv
  <1>2. LaneAgrees(l, CompleteTask(lanes[l], t), st, born)
    BY <1>1, CompleteAgrees DEF FinishCurrent
  <1>3. /\ st \in [Tasks -> Statuses]
        /\ \A u \in Tasks : LaneOf[u] # l => st[u] = status[u]
    BY <1>1 DEF TypeOK, Statuses, Settled
  <1>4. Drain(l, CompleteTask(lanes[l], t), st) /\ UNCHANGED waiter
    BY DEF FinishCurrent
  <1> HIDE DEF l, st
  <1>5. QED BY <1>1, <1>2, <1>3, <1>4, DrainKeepsIInv

\* A stale completion settles a promise and nothing else.
LEMMA FinishStaleKeepsIInv ==
  ASSUME IInv, NEW t \in Tasks, NEW outcome \in {"resolved", "rejected"},
         FinishStale(t, outcome)
  PROVE  IInv'
  <1>1. /\ status' = [status EXCEPT ![t] = outcome] /\ UNCHANGED <<lanes, born, waiter>>
        /\ status[t] = "running" /\ born[t] # lanes[LaneOf[t]].generation
        /\ TypeOK
    BY DEF FinishStale, IInv
  <1>2. TypeOK'
    BY <1>1 DEF TypeOK, Statuses, Settled
  <1>3. \A u \in Tasks : status'[u] = IF u = t THEN outcome ELSE status[u]
    BY <1>1 DEF TypeOK
  <1>4. ASSUME NEW l \in Lanes
        PROVE  LaneAgrees(l, lanes'[l], status', born') /\ Busy(lanes'[l])
    <2>1. LaneAgrees(l, lanes[l], status, born) /\ Busy(lanes[l])
      BY DEF IInv
    <2>2. {u \in Tasks : LaneOf[u] = l /\ status'[u] = "queued"}
            = {u \in Tasks : LaneOf[u] = l /\ status[u] = "queued"}
      BY <1>1, <1>3
    <2>3. {u \in Tasks : LaneOf[u] = l /\ status'[u] = "running" /\ born[u] = lanes[l].generation}
            = {u \in Tasks : LaneOf[u] = l /\ status[u] = "running" /\ born[u] = lanes[l].generation}
      BY <1>1, <1>3
    <2>4. QED BY <1>1, <2>1, <2>2, <2>3 DEF LaneAgrees
  <1>5. QED BY <1>2, <1>4 DEF IInv

\* setCommandLaneConcurrency changes a limit and pumps; what runs beyond it goes on.
LEMMA ResizeKeepsIInv ==
  ASSUME IInv, NEW l \in Lanes, NEW n \in Limits, SetCommandLaneConcurrency(l, n)
  PROVE  IInv'
  <1>1. TypeOK /\ LaneAgrees(l, lanes[l], status, born) /\ n \in Nat
    BY LimitsAssumption DEF IInv
  <1>2. /\ Resize(lanes[l], n) \in LaneStates
        /\ Resize(lanes[l], n).queue = lanes[l].queue
        /\ Resize(lanes[l], n).active = lanes[l].active
        /\ Resize(lanes[l], n).generation = lanes[l].generation
    BY <1>1 DEF Resize, LaneStates, LaneAgrees
  <1>3. LaneAgrees(l, Resize(lanes[l], n), status, born)
    BY <1>1, <1>2 DEF LaneAgrees
  <1>4. status \in [Tasks -> Statuses]
    BY <1>1 DEF TypeOK
  <1>5. QED BY <1>3, <1>4, DrainKeepsIInv DEF SetCommandLaneConcurrency

\* clearCommandLane settles exactly the entries it takes off the queue.
LEMMA ClearKeepsIInv ==
  ASSUME IInv, NEW l \in Lanes, ClearCommandLane(l)
  PROVE  IInv'
  <1> DEFINE E == Entries(lanes[l].queue)
  <1>1. /\ lanes' = [lanes EXCEPT ![l] = Clear(@)] /\ UNCHANGED <<born, waiter>>
        /\ \A t \in Tasks : status'[t] = IF t \in E THEN "cleared" ELSE status[t]
        /\ status' \in [Tasks -> Statuses]
    BY DEF ClearCommandLane, IInv, TypeOK, Statuses, Settled
  <1>2. /\ TypeOK /\ LaneAgrees(l, lanes[l], status, born)
        /\ E = {t \in Tasks : LaneOf[t] = l /\ status[t] = "queued"}
    BY DEF IInv, LaneAgrees
  <1> HIDE DEF E
  <1>3. /\ Clear(lanes[l]).queue = <<>> /\ Clear(lanes[l]).active = lanes[l].active
        /\ Clear(lanes[l]).generation = lanes[l].generation
        /\ Clear(lanes[l]) \in LaneStates
    <2>1. lanes[l] \in LaneStates
      BY <1>2 DEF LaneAgrees
    <2>2. QED BY <2>1, ClearType
  <1>4. Entries(<<>>) = {} /\ NoDuplicates(<<>>)
    BY EmptyQueue
  <1>5. LaneAgrees(l, Clear(lanes[l]), status', born') /\ Busy(Clear(lanes[l]))
    <2>1. {t \in Tasks : LaneOf[t] = l /\ status'[t] = "queued"} = {}
      BY <1>1, <1>2
    <2>2. {t \in Tasks : LaneOf[t] = l /\ status'[t] = "running" /\ born[t] = lanes[l].generation}
            = {t \in Tasks : LaneOf[t] = l /\ status[t] = "running" /\ born[t] = lanes[l].generation}
      BY <1>1, <1>2
    <2>3. QED BY <1>1, <1>2, <1>3, <1>4, <2>1, <2>2 DEF LaneAgrees, Busy
  <1>6. TypeOK'
    BY <1>1, <1>2, <1>3 DEF TypeOK
  <1>7. ASSUME NEW m \in Lanes, m # l
        PROVE  LaneAgrees(m, lanes'[m], status', born') /\ Busy(lanes'[m])
    <2>1. lanes'[m] = lanes[m] /\ LaneAgrees(m, lanes[m], status, born) /\ Busy(lanes[m])
      BY <1>1, <1>7 DEF IInv, TypeOK
    <2>2. \A t \in Tasks : LaneOf[t] = m => status'[t] = status[t] /\ born'[t] = born[t]
      BY <1>1, <1>2, <1>7
    <2>3. QED BY <2>1, <2>2, AgreesFrame
  <1>8. lanes'[l] = Clear(lanes[l])
    BY <1>1, <1>2 DEF TypeOK
  <1>9. QED BY <1>5, <1>6, <1>7, <1>8 DEF IInv

\* resetAllLanes leaves the running tasks to their old generation.
LEMMA ResetKeepsIInv ==
  ASSUME IInv, ResetAllLanes
  PROVE  IInv'
  <1> DEFINE R(l) == Reset(lanes[l])
  <1>1. /\ lanes' = [l \in Lanes |-> Pump(R(l))] /\ UNCHANGED waiter
        /\ status' = [t \in Tasks |-> IF t \in Entries(Starting(R(LaneOf[t]))) THEN "running"
                                      ELSE status[t]]
        /\ born' = [t \in Tasks |-> IF t \in Entries(Starting(R(LaneOf[t])))
                                    THEN R(LaneOf[t]).generation ELSE born[t]]
    BY DEF ResetAllLanes
  <1>2. TypeOK /\ status \in [Tasks -> Statuses] /\ born \in [Tasks -> Nat]
    BY DEF IInv, TypeOK
  <1>3. ASSUME NEW l \in Lanes
        PROVE  /\ LaneAgrees(l, R(l), status, born)
               /\ LaneAgrees(l, Pump(R(l)), StatusAfter(R(l), status), BornAfter(R(l), born))
               /\ Busy(Pump(R(l)))
    <2>1. LaneAgrees(l, R(l), status, born)
      BY <1>2, ResetAgrees DEF IInv
    <2>2. QED BY <1>2, <2>1, PumpAgrees
  <1>4. ASSUME NEW l \in Lanes
        PROVE  R(l).generation \in Nat /\ Pump(R(l)) \in LaneStates
    BY <1>3 DEF LaneAgrees, LaneStates
  <1> HIDE DEF R
  <1>5. TypeOK'
    <2>1. status' \in [Tasks -> Statuses]
      BY <1>1, <1>2 DEF Statuses
    <2>2. born' \in [Tasks -> Nat]
      BY <1>1, <1>2, <1>4, LaneOfAssumption
    <2>3. QED BY <1>1, <1>2, <1>4, <2>1, <2>2 DEF TypeOK
  <1>6. ASSUME NEW l \in Lanes
        PROVE  LaneAgrees(l, lanes'[l], status', born') /\ Busy(lanes'[l])
    <2>1. lanes'[l] = Pump(R(l))
      BY <1>1
    <2>2. \A t \in Tasks : LaneOf[t] = l =>
            /\ status'[t] = StatusAfter(R(l), status)[t]
            /\ born'[t] = BornAfter(R(l), born)[t]
      BY <1>1 DEF StatusAfter, BornAfter
    <2>3. QED BY <1>3, <2>1, <2>2, AgreesFrame
  <1>7. QED BY <1>5, <1>6 DEF IInv

\* The caller of waitForActiveTasks only reads the lanes.
LEMMA WaiterKeepsIInv ==
  ASSUME IInv, WaitForActiveTasks \/ Poll \/ DeadlinePasses
  PROVE  IInv'
  <1>1. UNCHANGED <<lanes, status, born>>
    BY DEF WaitForActiveTasks, Poll, PollDrained, PollTimedOut, DeadlinePasses
  <1>2. ActiveTasks \subseteq Tasks
    BY DEF ActiveTasks, IInv, TypeOK, LaneStates
  <1>3. waiter' \in [phase : Phases, activeAtStart : SUBSET Tasks, expired : BOOLEAN]
    <2>1. waiter \in [phase : Phases, activeAtStart : SUBSET Tasks, expired : BOOLEAN]
      BY DEF IInv, TypeOK
    <2>2. CASE WaitForActiveTasks
      BY <1>2, <2>2 DEF WaitForActiveTasks, Phases
    <2>3. CASE PollDrained
      BY <2>1, <2>3 DEF PollDrained, Phases
    <2>4. CASE PollTimedOut
      BY <2>1, <2>4 DEF PollTimedOut, Phases
    <2>5. CASE DeadlinePasses
      BY <2>1, <2>5 DEF DeadlinePasses, Phases
    <2>6. QED BY <2>2, <2>3, <2>4, <2>5 DEF Poll
  <1>4. TypeOK'
    BY <1>1, <1>3 DEF IInv, TypeOK
  <1>5. \A l \in Lanes : LaneAgrees(l, lanes'[l], status', born') /\ Busy(lanes'[l])
    BY <1>1 DEF IInv
  <1>6. QED BY <1>4, <1>5 DEF IInv

\* Every step preserves the inductive invariant.
LEMMA NextKeepsIInv == IInv /\ [Next]_vars => IInv'
  <1> SUFFICES ASSUME IInv, [Next]_vars PROVE IInv'
    OBVIOUS
  <1>1. ASSUME NEW t \in Tasks, EnqueueCommandInLane(t) PROVE IInv'
    BY <1>1, EnqueueKeepsIInv
  <1>2. ASSUME NEW t \in Tasks, Finish(t) PROVE IInv'
    BY <1>2, FinishCurrentKeepsIInv, FinishStaleKeepsIInv DEF Finish
  <1>3. ASSUME NEW l \in Lanes, ClearCommandLane(l) PROVE IInv'
    BY <1>3, ClearKeepsIInv
  <1>4. ASSUME NEW l \in Lanes, NEW n \in Limits, SetCommandLaneConcurrency(l, n) PROVE IInv'
    BY <1>4, ResizeKeepsIInv
  <1>5. CASE ResetAllLanes
    BY <1>5, ResetKeepsIInv
  <1>6. CASE WaitForActiveTasks \/ Poll \/ DeadlinePasses
    BY <1>6, WaiterKeepsIInv
  <1>7. CASE UNCHANGED vars
    BY <1>7 DEF vars, IInv, TypeOK, LaneAgrees, Busy
  <1>8. QED BY <1>1, <1>2, <1>3, <1>4, <1>5, <1>6, <1>7 DEF Next

\* IInv holds in every reachable state.
LEMMA Invariance == Spec => []IInv
  <1>1. QED BY InitIInv, NextKeepsIInv, PTL DEF Spec
-----------------------------------------------------------------------------
\* Every variable keeps its type, for any number of lanes, calls and resets.
THEOREM TypeCorrect == Spec => []TypeOK
  <1>1. IInv => TypeOK
    BY DEF IInv
  <1>2. QED BY <1>1, Invariance, PTL

\* No completion, reset or stale completion leaks a slot of a lane or frees one twice,
\* and the queues hold the waiting calls, each once: nothing is forgotten or run twice.
THEOREM LanesExact == Spec => []LanesAreExact
  <1>1. IInv => LanesAreExact
    BY DEF IInv, LaneAgrees, LanesAreExact
  <1>2. QED BY <1>1, Invariance, PTL

\* A lane with waiting calls has all its slots taken after every step, whichever
\* of the six operations the step is.
THEOREM LanesConserveWork == Spec => []WorkConserving
  <1>1. IInv => WorkConserving
    BY DEF IInv, Busy, WorkConserving
  <1>2. QED BY <1>1, Invariance, PTL

-----------------------------------------------------------------------------
\* A pump from a record that has lost slots at most starts within the limit.
LEMMA PumpWithinLimit ==
  ASSUME NEW l \in Lanes, NEW s, NEW st, NEW old, LaneAgrees(l, s, st, born), s.active \subseteq old
  PROVE  \/ Pump(s).active \subseteq old
         \/ Cardinality(Pump(s).active) <= Pump(s).maxConcurrent
  <1>1. /\ s \in LaneStates /\ IsFiniteSet(s.active) /\ NoDuplicates(s.queue)
        /\ s.active \cap Entries(s.queue) = {}
    BY DEF LaneAgrees
  <1>2. Pump(s).maxConcurrent = s.maxConcurrent /\ Pump(s).active = s.active \cup Entries(Starting(s))
    BY <1>1, PumpQueue
  <1>3. CASE StartCount(s) # 0
    BY <1>1, <1>2, <1>3, PumpLimit
  <1>4. CASE StartCount(s) = 0
    <2>1. Entries(Starting(s)) = {}
      BY <1>1, <1>4, StartingEntries
    <2>2. QED BY <1>2, <2>1
  <1>5. QED BY <1>3, <1>4

\* In one step the active set of a lane only loses members, or it is within the
\* limit afterwards.
LEMMA StartsWithin ==
  ASSUME IInv, [Next]_vars, NEW l \in Lanes
  PROVE  \/ lanes'[l].active \subseteq lanes[l].active
         \/ Cardinality(lanes'[l].active) <= lanes'[l].maxConcurrent
  <1> DEFINE Within(k) == \/ lanes'[k].active \subseteq lanes[k].active
                          \/ Cardinality(lanes'[k].active) <= lanes'[k].maxConcurrent
  <1> SUFFICES Within(l)
    OBVIOUS
  <1>0. /\ LaneAgrees(l, lanes[l], status, born) /\ TypeOK
        /\ lanes \in [Lanes -> LaneStates] /\ lanes[l] \in LaneStates
    BY DEF IInv, TypeOK
  <1>1. ASSUME NEW k \in Lanes, NEW s, NEW st, Drain(k, s, st),
               LaneAgrees(k, s, st, born), s.active \subseteq lanes[k].active
        PROVE  Within(l)
    <2>1. lanes' = [lanes EXCEPT ![k] = Pump(s)]
      BY <1>1 DEF Drain
    <2>2. CASE k = l
      <3>1. lanes'[l] = Pump(s)
        BY <2>1, <2>2, <1>0
      <3>2. QED BY <1>1, <2>2, <3>1, PumpWithinLimit
    <2>3. CASE k # l
      BY <2>1, <2>3, <1>0
    <2>4. QED BY <2>2, <2>3
  <1>2. ASSUME NEW t \in Tasks, EnqueueCommandInLane(t) PROVE Within(l)
    <2> DEFINE k == LaneOf[t]
    <2>1. k \in Lanes /\ LaneAgrees(k, lanes[k], status, born) /\ lanes[k] \in LaneStates
      BY LaneOfAssumption DEF IInv, TypeOK
    <2>2. LaneAgrees(k, Push(lanes[k], t), [status EXCEPT ![t] = "queued"], born)
      BY <1>0, <1>2, <2>1, PushAgrees DEF EnqueueCommandInLane
    <2>3. Push(lanes[k], t).active = lanes[k].active
      BY <2>1, PushType
    <2>4. Drain(k, Push(lanes[k], t), [status EXCEPT ![t] = "queued"])
      BY <1>2 DEF EnqueueCommandInLane
    <2> HIDE DEF k
    <2>5. QED BY <1>1, <2>1, <2>2, <2>3, <2>4
  <1>3. ASSUME NEW t \in Tasks, NEW o \in {"resolved", "rejected"}, FinishCurrent(t, o)
        PROVE  Within(l)
    <2> DEFINE k == LaneOf[t]
    <2>1. k \in Lanes /\ LaneAgrees(k, lanes[k], status, born) /\ lanes[k] \in LaneStates
      BY LaneOfAssumption DEF IInv, TypeOK
    <2>2. LaneAgrees(k, CompleteTask(lanes[k], t), [status EXCEPT ![t] = o], born)
      BY <1>0, <1>3, <2>1, CompleteAgrees DEF FinishCurrent
    <2>3. CompleteTask(lanes[k], t).active \subseteq lanes[k].active
      BY <2>1 DEF CompleteTask, LaneStates
    <2>4. Drain(k, CompleteTask(lanes[k], t), [status EXCEPT ![t] = o])
      BY <1>3 DEF FinishCurrent
    <2> HIDE DEF k
    <2>5. QED BY <1>1, <2>1, <2>2, <2>3, <2>4
  <1>4. ASSUME NEW k \in Lanes, NEW n \in Limits, SetCommandLaneConcurrency(k, n)
        PROVE  Within(l)
    <2>1. LaneAgrees(k, lanes[k], status, born) /\ lanes[k] \in LaneStates /\ n \in Nat
      BY LimitsAssumption DEF IInv, TypeOK
    <2>2. /\ Resize(lanes[k], n) \in LaneStates
          /\ Resize(lanes[k], n).queue = lanes[k].queue
          /\ Resize(lanes[k], n).active = lanes[k].active
          /\ Resize(lanes[k], n).generation = lanes[k].generation
      BY <2>1 DEF Resize, LaneStates
    <2>3. LaneAgrees(k, Resize(lanes[k], n), status, born)
      BY <2>1, <2>2 DEF LaneAgrees
    <2>4. QED BY <1>1, <1>4, <2>2, <2>3 DEF SetCommandLaneConcurrency
  <1>5. CASE ResetAllLanes
    <2>1. lanes'[l] = Pump(Reset(lanes[l]))
      BY <1>5 DEF ResetAllLanes
    <2>2. LaneAgrees(l, Reset(lanes[l]), status, born) /\ Reset(lanes[l]).active = {}
      BY <1>0, ResetAgrees, ResetType
    <2>3. QED BY <2>1, <2>2, PumpWithinLimit
  <1>6. ASSUME NEW k \in Lanes, ClearCommandLane(k) PROVE Within(l)
    <2>1. lanes' = [lanes EXCEPT ![k] = Clear(lanes[k])] /\ lanes[k] \in LaneStates
      BY <1>6, <1>0 DEF ClearCommandLane
    <2>2. Clear(lanes[k]).active = lanes[k].active
      BY <2>1, ClearType
    <2>3. lanes'[l].active = lanes[l].active
      BY <2>1, <2>2, <1>0
    <2>4. QED BY <2>3
  <1>7. ASSUME lanes' = lanes PROVE Within(l)
    BY <1>7
  <1>8. ASSUME NEW t \in Tasks, NEW o \in {"resolved", "rejected"}, FinishStale(t, o)
        PROVE  Within(l)
    BY <1>7, <1>8 DEF FinishStale
  <1>9. CASE WaitForActiveTasks \/ Poll \/ DeadlinePasses
    BY <1>7, <1>9 DEF WaitForActiveTasks, Poll, PollDrained, PollTimedOut, DeadlinePasses
  <1>10. CASE UNCHANGED vars
    BY <1>7, <1>10 DEF vars
  <1> HIDE DEF Within
  <1>11. QED
    BY <1>2, <1>3, <1>4, <1>5, <1>6, <1>8, <1>9, <1>10 DEF Next, Finish

\* No step starts a task beyond the limit its lane has at that moment, even after
\* the limit was lowered under the number of running tasks.
THEOREM StartsAreBounded == Spec => StartsWithinLimit
  <1>1. IInv /\ [Next]_vars =>
          [\A l \in Lanes : lanes'[l].active \subseteq lanes[l].active
                            \/ Cardinality(lanes'[l].active) <= lanes'[l].maxConcurrent]_vars
    BY StartsWithin
  <1>2. QED BY <1>1, Invariance, PTL DEF Spec, StartsWithinLimit

-----------------------------------------------------------------------------
(***************************************************************************)
(* What the callers of the command queue may rely on: the lanes implement  *)
(* LaneContract, the waiter tells the truth, and the queues are first in,  *)
(* first out.  All three rest on what one step does to one call (Life) and *)
(* to the generation of its lane, which never goes back.                   *)
(***************************************************************************)
\* How the status of a call and the generation it was started in may change.
Life(t) ==
  \/ status'[t] = status[t] /\ born'[t] = born[t]
  \/ /\ <<status[t], status'[t]>> \in {<<"new", "queued">>, <<"queued", "cleared">>,
                                       <<"running", "resolved">>, <<"running", "rejected">>}
     /\ born'[t] = born[t]
  \/ /\ status[t] \in {"new", "queued"} /\ status'[t] = "running"
     /\ born'[t] = lanes'[LaneOf[t]].generation

\* The generation of a lane grows.
Ages(l) == lanes'[l].generation >= lanes[l].generation

-----------------------------------------------------------------------------
\* A step that changes a lane, keeps its generation and drains it.
LEMMA DrainLives ==
  ASSUME IInv, NEW l \in Lanes, NEW s, NEW st, LaneAgrees(l, s, st, born),
         st \in [Tasks -> Statuses], s.generation = lanes[l].generation, Drain(l, s, st),
         \A t \in Tasks : \/ st[t] = status[t]
                          \/ <<status[t], st[t]>> \in {<<"new", "queued">>, <<"running", "resolved">>,
                                                       <<"running", "rejected">>}
  PROVE  (\A t \in Tasks : Life(t)) /\ (\A k \in Lanes : Ages(k))
  <1>1. /\ lanes \in [Lanes -> LaneStates] /\ born \in [Tasks -> Nat]
        /\ status \in [Tasks -> Statuses]
    BY DEF IInv, TypeOK
  <1>2. /\ lanes' = [lanes EXCEPT ![l] = Pump(s)]
        /\ \A t \in Tasks : status'[t] = IF t \in Entries(Starting(s)) THEN "running" ELSE st[t]
        /\ \A t \in Tasks : born'[t] = IF t \in Entries(Starting(s)) THEN s.generation ELSE born[t]
    BY DEF Drain
  <1>3. Entries(Starting(s)) \subseteq {t \in Tasks : LaneOf[t] = l /\ st[t] = "queued"}
    BY <1>1, PumpAgrees
  <1>4. Pump(s).generation = s.generation
    BY PumpQueue DEF LaneAgrees
  <1>5. lanes'[l].generation = s.generation
    BY <1>1, <1>2, <1>4
  <1>6. ASSUME NEW t \in Tasks PROVE Life(t)
    <2>1. CASE t \in Entries(Starting(s))
      <3>1. LaneOf[t] = l /\ st[t] = "queued"
        BY <1>3, <2>1
      <3>2. status[t] \in {"new", "queued"}
        BY <3>1
      <3>3. QED BY <1>2, <1>5, <2>1, <3>1, <3>2 DEF Life
    <2>2. CASE t \notin Entries(Starting(s))
      BY <1>2, <2>2 DEF Life
    <2>3. QED BY <2>1, <2>2
  <1>7. ASSUME NEW k \in Lanes PROVE Ages(k)
    <2>1. lanes'[k].generation = lanes[k].generation
      BY <1>1, <1>2, <1>5
    <2>2. lanes[k].generation \in Nat
      BY <1>1 DEF LaneStates
    <2>3. QED BY <2>1, <2>2 DEF Ages
  <1>8. QED BY <1>6, <1>7

\* Every step lets each call go on with its life and each lane grow older.
LEMMA StepLives ==
  ASSUME IInv, [Next]_vars
  PROVE  (\A t \in Tasks : Life(t)) /\ (\A l \in Lanes : Ages(l))
  <1> DEFINE Lives == (\A t \in Tasks : Life(t)) /\ (\A l \in Lanes : Ages(l))
  <1> SUFFICES Lives
    OBVIOUS
  <1>1. /\ TypeOK /\ lanes \in [Lanes -> LaneStates] /\ status \in [Tasks -> Statuses]
        /\ \A l \in Lanes : LaneAgrees(l, lanes[l], status, born)
        /\ \A l \in Lanes : lanes[l].generation \in Nat
    BY DEF IInv, TypeOK, LaneStates
  <1>2. ASSUME NEW t \in Tasks, EnqueueCommandInLane(t) PROVE Lives
    <2> DEFINE l == LaneOf[t]
               st == [status EXCEPT ![t] = "queued"]
    <2>1. l \in Lanes
      BY LaneOfAssumption
    <2>2. LaneAgrees(l, Push(lanes[l], t), st, born)
      BY <1>1, <1>2, <2>1, PushAgrees DEF EnqueueCommandInLane
    <2>3. Push(lanes[l], t).generation = lanes[l].generation
      BY <1>1, <2>1, PushType
    <2>4. /\ st \in [Tasks -> Statuses] /\ Drain(l, Push(lanes[l], t), st)
          /\ \A u \in Tasks : \/ st[u] = status[u]
                              \/ <<status[u], st[u]>> \in {<<"new", "queued">>}
      BY <1>1, <1>2 DEF EnqueueCommandInLane, Statuses
    <2> HIDE DEF l, st, Lives
    <2>5. QED BY <2>1, <2>2, <2>3, <2>4, DrainLives DEF Lives
  <1>3. ASSUME NEW t \in Tasks, NEW o \in {"resolved", "rejected"}, FinishCurrent(t, o) PROVE Lives
    <2> DEFINE l == LaneOf[t]
               st == [status EXCEPT ![t] = o]
    <2>1. l \in Lanes
      BY LaneOfAssumption
    <2>2. LaneAgrees(l, CompleteTask(lanes[l], t), st, born)
      BY <1>1, <1>3, <2>1, CompleteAgrees DEF FinishCurrent
    <2>3. CompleteTask(lanes[l], t).generation = lanes[l].generation
      BY <1>1, <2>1 DEF CompleteTask, LaneStates
    <2>4. /\ st \in [Tasks -> Statuses] /\ Drain(l, CompleteTask(lanes[l], t), st)
          /\ \A u \in Tasks : \/ st[u] = status[u]
                              \/ <<status[u], st[u]>> \in {<<"running", "resolved">>,
                                                           <<"running", "rejected">>}
      BY <1>1, <1>3 DEF FinishCurrent, Statuses, Settled
    <2> HIDE DEF l, st, Lives
    <2>5. QED BY <2>1, <2>2, <2>3, <2>4, DrainLives DEF Lives
  <1>4. ASSUME NEW l \in Lanes, NEW n \in Limits, SetCommandLaneConcurrency(l, n) PROVE Lives
    <2>1. n \in Nat /\ lanes[l] \in LaneStates
      BY <1>1, LimitsAssumption
    <2>2. /\ Resize(lanes[l], n) \in LaneStates
          /\ Resize(lanes[l], n).queue = lanes[l].queue
          /\ Resize(lanes[l], n).active = lanes[l].active
          /\ Resize(lanes[l], n).generation = lanes[l].generation
      BY <2>1 DEF Resize, LaneStates
    <2>3. LaneAgrees(l, Resize(lanes[l], n), status, born)
      BY <1>1, <2>2 DEF LaneAgrees
    <2> HIDE DEF Lives
    <2>4. QED BY <1>1, <1>4, <2>2, <2>3, DrainLives DEF SetCommandLaneConcurrency, Lives
  <1>5. CASE ResetAllLanes
    <2> DEFINE R(l) == Reset(lanes[l])
    <2>1. /\ lanes' = [l \in Lanes |-> Pump(R(l))]
          /\ \A t \in Tasks : status'[t] = IF t \in Entries(Starting(R(LaneOf[t]))) THEN "running"
                                           ELSE status[t]
          /\ \A t \in Tasks : born'[t] = IF t \in Entries(Starting(R(LaneOf[t])))
                                         THEN R(LaneOf[t]).generation ELSE born[t]
      BY <1>5 DEF ResetAllLanes
    <2>2. ASSUME NEW l \in Lanes
          PROVE  /\ Entries(Starting(R(l))) \subseteq {t \in Tasks : LaneOf[t] = l /\ status[t] = "queued"}
                 /\ Pump(R(l)).generation = lanes[l].generation + 1
                 /\ R(l).generation = lanes[l].generation + 1
      <3>1. LaneAgrees(l, R(l), status, born)
        BY <1>1, ResetAgrees
      <3>2. R(l).generation = lanes[l].generation + 1
        BY <1>1, ResetType
      <3>3. Pump(R(l)).generation = R(l).generation
        BY <3>1, PumpQueue DEF LaneAgrees
      <3>4. Entries(Starting(R(l))) \subseteq {t \in Tasks : LaneOf[t] = l /\ status[t] = "queued"}
        BY <1>1, <3>1, PumpAgrees DEF TypeOK
      <3>5. QED BY <3>2, <3>3, <3>4
    <2> HIDE DEF R
    <2>3. ASSUME NEW t \in Tasks PROVE Life(t)
      <3>1. LaneOf[t] \in Lanes
        BY LaneOfAssumption
      <3>2. lanes'[LaneOf[t]].generation = R(LaneOf[t]).generation
        BY <2>1, <2>2, <3>1
      <3>3. t \in Entries(Starting(R(LaneOf[t]))) => status[t] = "queued"
        BY <2>2, <3>1
      <3>4. QED BY <2>1, <3>2, <3>3 DEF Life
    <2>4. ASSUME NEW l \in Lanes PROVE Ages(l)
      BY <1>1, <2>1, <2>2 DEF Ages
    <2>5. QED BY <2>3, <2>4
  <1>6. ASSUME NEW l \in Lanes, ClearCommandLane(l) PROVE Lives
    <2>1. Entries(lanes[l].queue) = {t \in Tasks : LaneOf[t] = l /\ status[t] = "queued"}
      BY <1>1 DEF LaneAgrees
    <2>2. /\ \A t \in Tasks : status'[t] = IF t \in Entries(lanes[l].queue) THEN "cleared" ELSE status[t]
          /\ born' = born
          /\ lanes' = [lanes EXCEPT ![l] = Clear(lanes[l])]
      BY <1>6 DEF ClearCommandLane
    <2>3. Clear(lanes[l]).generation = lanes[l].generation
      BY <1>1, ClearType
    <2>4. \A t \in Tasks : Life(t)
      BY <2>1, <2>2 DEF Life
    <2>5. \A k \in Lanes : lanes'[k].generation = lanes[k].generation
      BY <1>1, <2>2, <2>3
    <2>6. \A k \in Lanes : Ages(k)
      BY <1>1, <2>5 DEF Ages
    <2>7. QED BY <2>4, <2>6
  <1>7. ASSUME NEW t \in Tasks, NEW o \in {"resolved", "rejected"}, FinishStale(t, o) PROVE Lives
    BY <1>1, <1>7 DEF FinishStale, Life, Ages
  <1>8. CASE UNCHANGED <<lanes, status, born>>
    BY <1>1, <1>8 DEF Life, Ages
  <1>9. CASE WaitForActiveTasks \/ Poll \/ DeadlinePasses
    BY <1>8, <1>9 DEF WaitForActiveTasks, Poll, PollDrained, PollTimedOut, DeadlinePasses
  <1>10. CASE UNCHANGED vars
    BY <1>8, <1>10 DEF vars
  <1> HIDE DEF Lives
  <1>11. QED
    BY <1>2, <1>3, <1>4, <1>5, <1>6, <1>7, <1>9, <1>10 DEF Next, Finish

-----------------------------------------------------------------------------
\* A task that has ended, or that a reset has written off.
Over(t) == status[t] \in Settled \/ born[t] # lanes[LaneOf[t]].generation

\* What the waiter has seen active had begun; what it takes for over is over.
WaitInv ==
  /\ \A t \in waiter.activeAtStart : status[t] \notin {"new", "queued"}
  /\ waiter.phase = "drained" => \A t \in waiter.activeAtStart : Over(t)

\* A call that has begun stays begun, and one that is over stays over.
LEMMA OverStays ==
  ASSUME IInv, [Next]_vars, NEW t \in Tasks, status[t] \notin {"new", "queued"}
  PROVE  status'[t] \notin {"new", "queued"} /\ (Over(t) => Over(t)')
  <1>1. /\ LaneOf[t] \in Lanes /\ Life(t) /\ Ages(LaneOf[t])
    BY StepLives, LaneOfAssumption
  <1>2. born'[t] = born[t] /\ status'[t] \notin {"new", "queued"}
    BY <1>1 DEF Life
  <1>3. CASE status[t] \in Settled
    BY <1>1, <1>3 DEF Life, Over, Settled
  <1>4. CASE born[t] # lanes[LaneOf[t]].generation
    <2>1. IInv'
      BY NextKeepsIInv
    <2>2. /\ born[t] \in Nat /\ lanes[LaneOf[t]].generation \in Nat
          /\ lanes'[LaneOf[t]].generation \in Nat
          /\ born[t] <= lanes[LaneOf[t]].generation
      BY <1>1, <2>1 DEF IInv, TypeOK, LaneAgrees, LaneStates
    <2>3. born[t] < lanes'[LaneOf[t]].generation
      BY <1>1, <1>4, <2>2 DEF Ages
    <2>4. QED BY <1>2, <2>2, <2>3 DEF Over
  <1>5. QED BY <1>2, <1>3, <1>4 DEF Over

\* Active tasks run, in the generation of their lane.
LEMMA ActiveRuns ==
  ASSUME IInv
  PROVE  \A t \in Tasks : t \in ActiveTasks <=>
           status[t] = "running" /\ born[t] = lanes[LaneOf[t]].generation
  <1>1. \A l \in Lanes :
          lanes[l].active = {t \in Tasks : /\ LaneOf[t] = l /\ status[t] = "running"
                                           /\ born[t] = lanes[l].generation}
    BY DEF IInv, LaneAgrees
  <1>2. QED BY <1>1, LaneOfAssumption DEF ActiveTasks

LEMMA WaitStep == IInv /\ WaitInv /\ [Next]_vars => WaitInv'
  <1> SUFFICES ASSUME IInv, WaitInv, [Next]_vars PROVE WaitInv'
    OBVIOUS
  <1>1. waiter.activeAtStart \subseteq Tasks /\ status \in [Tasks -> Statuses]
    BY DEF IInv, TypeOK
  <1>2. ActiveTasks \subseteq Tasks
    BY DEF ActiveTasks, IInv, TypeOK, LaneStates
  <1>3. CASE WaitForActiveTasks
    BY <1>2, <1>3, ActiveRuns DEF WaitForActiveTasks, WaitInv
  <1>4. CASE PollDrained
    <2>1. \A t \in waiter.activeAtStart : t \notin ActiveTasks
      BY <1>4 DEF PollDrained, HasPending
    <2>2. \A t \in waiter.activeAtStart : Over(t)
      BY <1>1, <2>1, ActiveRuns DEF WaitInv, Over, Statuses
    <2>3. /\ waiter'.activeAtStart = waiter.activeAtStart
          /\ UNCHANGED <<lanes, status, born>>
      BY <1>4 DEF PollDrained, IInv, TypeOK
    <2>4. QED BY <2>2, <2>3 DEF WaitInv, Over
  <1>5. CASE PollTimedOut \/ DeadlinePasses
    <2>1. /\ waiter'.activeAtStart = waiter.activeAtStart /\ waiter'.phase # "drained"
          /\ UNCHANGED <<lanes, status, born>>
      BY <1>5 DEF PollTimedOut, DeadlinePasses, IInv, TypeOK, Phases
    <2>2. QED BY <2>1 DEF WaitInv
  <1>6. CASE waiter' = waiter
    BY <1>1, <1>6, OverStays DEF WaitInv
  <1>7. ASSUME NEW t \in Tasks, EnqueueCommandInLane(t) \/ Finish(t) PROVE waiter' = waiter
    BY <1>7 DEF EnqueueCommandInLane, Finish, FinishCurrent, FinishStale
  <1>8. ASSUME NEW l \in Lanes, NEW n \in Limits, ClearCommandLane(l) \/ SetCommandLaneConcurrency(l, n)
        PROVE  waiter' = waiter
    BY <1>8 DEF ClearCommandLane, SetCommandLaneConcurrency
  <1>9. ASSUME NEW l \in Lanes, ClearCommandLane(l) PROVE waiter' = waiter
    BY <1>9 DEF ClearCommandLane
  <1>10. ASSUME ResetAllLanes \/ UNCHANGED vars PROVE waiter' = waiter
    BY <1>10 DEF ResetAllLanes, vars
  <1>11. QED
    BY <1>3, <1>4, <1>5, <1>6, <1>7, <1>8, <1>9, <1>10 DEF Next, Poll

\* waitForActiveTasks never reports a task as drained that still runs in the
\* generation of its lane, whatever starts, is cleared or is reset meanwhile.
THEOREM WaiterTellsTruth == Spec => []DrainedMeansOver
  <1>1. Init => WaitInv
    BY DEF Init, WaitInv
  <1>2. IInv /\ WaitInv => DrainedMeansOver
    BY DEF WaitInv, DrainedMeansOver, Over
  <1>3. QED BY <1>1, <1>2, Invariance, WaitStep, PTL DEF Spec

-----------------------------------------------------------------------------
\* The contract counts as the lanes do.
LEMMA SameCount ==
  ASSUME NEW S PROVE Contract!Cardinality(S) = Cardinality(S)
  BY DEF Contract!Cardinality, Cardinality

\* One step of the lanes is a step of the contract, or leaves it unchanged.
LEMMA StepImplements ==
  ASSUME IInv, [Next]_vars
  PROVE  [Contract!Next]_<<status, [l \in Lanes |-> lanes[l].active],
                           [l \in Lanes |-> lanes[l].maxConcurrent]>>
  <1> DEFINE slots == [l \in Lanes |-> lanes[l].active]
             begun(l) == {t \in Tasks : LaneOf[t] = l /\ Contract!Begins(t)}
  <1>1. /\ \A t \in Tasks : Life(t) /\ LaneOf[t] \in Lanes
        /\ \A l \in Lanes : Ages(l)
        /\ IInv'
    BY StepLives, NextKeepsIInv, LaneOfAssumption
  <1>2. \A l \in Lanes :
          /\ lanes[l].active = {t \in Tasks : /\ LaneOf[t] = l /\ status[t] = "running"
                                              /\ born[t] = lanes[l].generation}
          /\ lanes'[l].active = {t \in Tasks : /\ LaneOf[t] = l /\ status'[t] = "running"
                                               /\ born'[t] = lanes'[l].generation}
          /\ \A t \in Tasks : LaneOf[t] = l => born[t] <= lanes[l].generation
          /\ lanes[l].generation \in Nat /\ lanes'[l].generation \in Nat
    BY <1>1 DEF IInv, LaneAgrees, LaneStates
  <1>3. /\ status \in [Tasks -> Statuses] /\ born \in [Tasks -> Nat]
        /\ slots' = [l \in Lanes |-> lanes'[l].active]
    BY DEF IInv, TypeOK
  <1>4. ASSUME NEW t \in Tasks, status'[t] # status[t]
        PROVE  <<status[t], status'[t]>> \in Contract!LifeCycle
    BY <1>1, <1>4 DEF Life, Contract!LifeCycle, Contract!Outcomes
  <1>5. ASSUME NEW l \in Lanes
        PROVE  /\ lanes'[l].active \subseteq lanes[l].active \cup begun(l)
               /\ begun(l) \subseteq lanes'[l].active
               /\ \A t \in lanes'[l].active : status'[t] = "running"
               /\ begun(l) # {} => Cardinality(lanes'[l].active) <= lanes'[l].maxConcurrent
    <2>1. ASSUME NEW t \in lanes'[l].active, ~Contract!Begins(t) PROVE t \in lanes[l].active
      <3>1. t \in Tasks /\ LaneOf[t] = l /\ status'[t] = "running" /\ born'[t] = lanes'[l].generation
        BY <1>2
      <3>2. status[t] = "running" /\ born'[t] = born[t]
        BY <1>1, <2>1, <3>1 DEF Life, Contract!Begins
      <3>3. born[t] = lanes[l].generation
        BY <1>1, <1>2, <1>3, <3>1, <3>2 DEF Ages
      <3>4. QED BY <1>2, <3>1, <3>2, <3>3
    <2>2. ASSUME NEW t \in begun(l) PROVE t \in lanes'[l].active /\ t \notin lanes[l].active
      BY <1>1, <1>2 DEF Life, Contract!Begins
    <2>3. \A t \in lanes'[l].active : t \in Tasks /\ LaneOf[t] = l /\ status'[t] = "running"
      BY <1>2
    <2>4. begun(l) # {} => Cardinality(lanes'[l].active) <= lanes'[l].maxConcurrent
      BY <2>2, StartsWithin
    <2>5. QED BY <2>1, <2>2, <2>3, <2>4
  <1>6. ASSUME NEW l \in Lanes
        PROVE  /\ slots'[l] \subseteq slots[l] \cup begun(l)
               /\ begun(l) \subseteq slots'[l]
               /\ \A t \in slots'[l] : status'[t] = "running"
               /\ begun(l) # {} => Contract!Cardinality(slots'[l])
                                    <= [k \in Lanes |-> lanes[k].maxConcurrent]'[l]
    <2>1. Contract!Cardinality(slots'[l]) = Cardinality(lanes'[l].active)
      BY SameCount
    <2>2. QED BY <1>5, <2>1
  <1>7. Contract!Next
    BY <1>4, <1>6 DEF Contract!Next
  <1>8. QED BY <1>7

\* The lanes implement LaneContract: a call lives once, a task that begins takes a
\* slot, and a lane hands out none beyond its limit.
THEOREM LanesImplementContract == Spec => ContractSpec
  <1>1. Init => Contract!Init
    BY DEF Init, Contract!Init, NewLane
  <1>2. QED
    BY <1>1, Invariance, StepImplements, PTL DEF Spec, ContractSpec, Contract!Spec

-----------------------------------------------------------------------------
\* r is what a queue q may look like a step later: it has lost its first n entries,
\* and gained others behind those that stay.
Later(q, r) ==
  \E n \in 0 .. Len(q) :
    LET kept == SubSeq(q, n + 1, Len(q))
    IN  /\ Len(kept) <= Len(r) /\ SubSeq(r, 1, Len(kept)) = kept
        /\ Entries(q) \cap Entries(r) = Entries(kept)

\* The first n entries of a queue are gone, and what is new came behind the rest.
LEMMA LaterIf ==
  ASSUME NEW q \in Seq(Tasks), NEW r \in Seq(Tasks), NEW n \in 0 .. Len(q), NoDuplicates(q),
         Len(r) >= Len(q) - n,
         \A i \in 1 .. Len(q) - n : r[i] = q[n + i],
         \A i \in Len(q) - n + 1 .. Len(r) : r[i] \notin Entries(q)
  PROVE  Later(q, r)
  <1> DEFINE kept == SubSeq(q, n + 1, Len(q))
             m == Len(q) - n
             front == SubSeq(r, 1, m)
  <1>1. /\ Len(q) \in Nat /\ DOMAIN q = 1 .. Len(q) /\ n \in Nat /\ n <= Len(q) /\ m \in Nat
        /\ Len(r) \in Nat /\ DOMAIN r = 1 .. Len(r) /\ m <= Len(r)
        /\ \A i \in 1 .. Len(q) : q[i] \in Tasks
        /\ \A i \in 1 .. Len(r) : r[i] \in Tasks
    OBVIOUS
  <1>2. /\ kept \in Seq(Tasks) /\ Len(kept) = m
        /\ \A i \in 1 .. m : kept[i] = q[n + i]
    <2>1. \A i \in n + 1 .. Len(q) : q[i] \in Tasks
      BY <1>1
    <2>2. n + 1 \in Int /\ Len(q) \in Int
      BY <1>1
    <2>3. /\ kept \in Seq(Tasks)
          /\ Len(kept) = IF n + 1 <= Len(q) THEN Len(q) - (n + 1) + 1 ELSE 0
          /\ \A i \in 1 .. Len(q) - (n + 1) + 1 : kept[i] = q[n + 1 + i - 1]
      BY <2>1, <2>2, SubSeqProperties
    <2>4. Len(kept) = m /\ Len(q) - (n + 1) + 1 = m
      <3>1. Len(kept) = IF n + 1 <= Len(q) THEN Len(q) - (n + 1) + 1 ELSE 0
        BY <2>3
      <3>2. Len(q) \in Nat /\ n \in Nat /\ n <= Len(q)
        BY <1>1
      <3> HIDE DEF kept
      <3>3. QED BY <3>1, <3>2
    <2>5. ASSUME NEW i \in 1 .. m PROVE kept[i] = q[n + i]
      <3>1. n + 1 + i - 1 = n + i
        BY <1>1
      <3>2. QED BY <2>3, <2>4, <3>1
    <2>6. QED BY <2>3, <2>4, <2>5
  <1>3. /\ front \in Seq(Tasks) /\ Len(front) = m
        /\ \A i \in 1 .. m : front[i] = r[i]
    <2>1. 1 \in Int /\ m \in Int /\ \A i \in 1 .. m : r[i] \in Tasks
      BY <1>1
    <2>2. \A a, b \in Int :
            (\A i \in a .. b : r[i] \in Tasks) =>
              /\ SubSeq(r, a, b) \in Seq(Tasks)
              /\ Len(SubSeq(r, a, b)) = IF a <= b THEN b - a + 1 ELSE 0
              /\ \A i \in 1 .. b - a + 1 : SubSeq(r, a, b)[i] = r[a + i - 1]
      BY SubSeqProperties
    <2>3. /\ front \in Seq(Tasks)
          /\ Len(front) = IF 1 <= m THEN m - 1 + 1 ELSE 0
          /\ \A i \in 1 .. m - 1 + 1 : front[i] = r[1 + i - 1]
      BY <2>1, <2>2
    <2>4. m \in Nat
      BY <1>1
    <2> HIDE DEF front, m
    <2>5. Len(front) = m /\ m - 1 + 1 = m /\ \A i \in 1 .. m : 1 + i - 1 = i
      BY <2>3, <2>4
    <2>6. QED BY <2>3, <2>5
  <1>4. front = kept
    BY <1>1, <1>2, <1>3, SeqEqual
  <1>5. DOMAIN kept = 1 .. m
    BY <1>2
  <1> HIDE DEF kept, front
  <1>6. Entries(q) \cap Entries(r) \subseteq Entries(kept)
    <2>1. ASSUME NEW i \in 1 .. Len(r), r[i] \in Entries(q) PROVE r[i] \in Entries(kept)
      <3>1. i \in 1 .. m
        BY <1>1, <2>1
      <3>2. QED BY <1>2, <1>5, <3>1 DEF Entries
    <2>2. QED BY <1>1, <2>1 DEF Entries
  <1>7. Entries(kept) \subseteq Entries(q) \cap Entries(r)
    <2>1. ASSUME NEW i \in 1 .. m PROVE kept[i] \in Entries(q) /\ kept[i] \in Entries(r)
      <3>1. /\ kept[i] = q[n + i] /\ n + i \in 1 .. Len(q)
            /\ kept[i] = r[i] /\ i \in 1 .. Len(r)
        BY <1>1, <1>2
      <3>2. QED BY <1>1, <3>1 DEF Entries
    <2>2. QED BY <1>5, <2>1 DEF Entries
  <1>8. /\ Len(kept) <= Len(r) /\ SubSeq(r, 1, Len(kept)) = kept
        /\ Entries(q) \cap Entries(r) = Entries(kept)
    BY <1>1, <1>2, <1>4, <1>6, <1>7 DEF front
  <1>9. QED BY <1>8 DEF Later, kept

\* A pump takes from the front, and leaves the rest as it is.
LEMMA PumpLater ==
  ASSUME NEW s \in LaneStates, IsFiniteSet(s.active), NoDuplicates(s.queue)
  PROVE  Later(s.queue, Pump(s).queue)
  <1> DEFINE q == s.queue
             r == Pump(s).queue
             k == StartCount(s)
  <1>1. /\ q \in Seq(Tasks) /\ r \in Seq(Tasks) /\ Len(q) \in Nat
        /\ k \in Nat /\ k <= Len(q) /\ Len(r) = Len(q) - k
        /\ \A i \in 1 .. Len(q) - k : r[i] = q[k + i]
    BY StartCountBounds, PumpQueue DEF LaneStates
  <1> HIDE DEF q, r, k
  <1>2. \A i \in Len(q) - k + 1 .. Len(r) : r[i] \notin Entries(q)
    BY <1>1
  <1>3. k \in 0 .. Len(q) /\ Len(r) >= Len(q) - k
    BY <1>1
  <1>4. NoDuplicates(q)
    BY DEF q
  <1>5. Later(q, r)
    BY <1>1, <1>2, <1>3, <1>4, LaterIf
  <1>6. QED BY <1>5 DEF q, r

\* So does a pump after a push, which may take all, the new entry included.
LEMMA PushLater ==
  ASSUME NEW s \in LaneStates, IsFiniteSet(s.active), NoDuplicates(s.queue),
         NEW t \in Tasks, t \notin Entries(s.queue)
  PROVE  Later(s.queue, Pump(Push(s, t)).queue)
  <1> DEFINE q == s.queue
             p == Push(s, t)
             r == Pump(p).queue
             k == StartCount(p)
  <1>1. /\ p \in LaneStates /\ p.active = s.active /\ p.queue = Append(q, t)
    BY PushType
  <1>2. /\ q \in Seq(Tasks) /\ Len(q) \in Nat /\ Len(p.queue) = Len(q) + 1
        /\ \A i \in 1 .. Len(q) : p.queue[i] = q[i]
        /\ p.queue[Len(q) + 1] = t
    BY <1>1 DEF LaneStates
  <1>3. /\ r \in Seq(Tasks)
        /\ k \in Nat /\ k <= Len(q) + 1 /\ Len(r) = Len(q) + 1 - k
        /\ \A i \in 1 .. Len(q) + 1 - k : r[i] = p.queue[k + i]
    <2>1. p \in LaneStates /\ IsFiniteSet(p.active)
      BY <1>1
    <2> HIDE DEF p
    <2>2. /\ k \in Nat /\ k <= Len(p.queue) /\ r \in Seq(Tasks)
          /\ Len(r) = Len(p.queue) - k
          /\ \A i \in 1 .. Len(p.queue) - k : r[i] = p.queue[k + i]
      BY <2>1, StartCountBounds, PumpQueue
    <2>3. Len(p.queue) = Len(q) + 1
      BY <1>2
    <2>4. QED BY <2>2, <2>3
  <1>4. NoDuplicates(q) /\ t \notin Entries(q)
    OBVIOUS
  <1> HIDE DEF q, r, k, p
  <1>5. CASE k <= Len(q)
    <2>1. k \in 0 .. Len(q) /\ Len(r) >= Len(q) - k
      BY <1>2, <1>3, <1>5
    <2>2. ASSUME NEW i \in 1 .. Len(q) - k PROVE r[i] = q[k + i]
      <3>1. i \in 1 .. Len(q) + 1 - k /\ k + i \in 1 .. Len(q)
        BY <1>2, <1>3, <1>5
      <3>2. QED BY <1>2, <1>3, <3>1
    <2>3. ASSUME NEW i \in Len(q) - k + 1 .. Len(r) PROVE r[i] \notin Entries(q)
      <3>1. i = Len(q) + 1 - k /\ i \in 1 .. Len(q) + 1 - k /\ k + i = Len(q) + 1
        BY <1>2, <1>3, <1>5
      <3>2. r[i] = t
        BY <1>2, <1>3, <3>1
      <3>3. QED BY <1>4, <3>2
    <2>4. QED BY <1>2, <1>3, <1>4, <2>1, <2>2, <2>3, LaterIf DEF q, r, p
  <1>6. CASE k = Len(q) + 1
    <2> DEFINE n == Len(q)
    <2>1. n \in 0 .. Len(q) /\ Len(r) = 0
      BY <1>2, <1>3, <1>6
    <2>2. /\ Len(r) >= Len(q) - n
          /\ \A i \in 1 .. Len(q) - n : r[i] = q[n + i]
          /\ \A i \in Len(q) - n + 1 .. Len(r) : r[i] \notin Entries(q)
      BY <1>2, <2>1
    <2>3. Later(q, r)
      BY <1>2, <1>3, <1>4, <2>1, <2>2, LaterIf
    <2>4. QED BY <2>3 DEF q, r, p
  <1>7. QED BY <1>2, <1>3, <1>5, <1>6

\* A queue that stays as it is, or is emptied.
LEMMA SameOrEmptyLater ==
  ASSUME NEW q \in Seq(Tasks), NoDuplicates(q)
  PROVE  Later(q, q) /\ Later(q, <<>>)
  <1>1. Len(q) \in Nat /\ DOMAIN q = 1 .. Len(q)
    OBVIOUS
  <1>2. Later(q, q)
    <2> DEFINE n == 0
    <2>1. /\ n \in 0 .. Len(q) /\ Len(q) >= Len(q) - n
          /\ \A i \in 1 .. Len(q) - n : q[i] = q[n + i]
          /\ \A i \in Len(q) - n + 1 .. Len(q) : q[i] \notin Entries(q)
      BY <1>1
    <2>2. QED BY <2>1, LaterIf
  <1>3. Later(q, <<>>)
    <2> DEFINE n == Len(q)
               r == <<>>
    <2>1. r \in Seq(Tasks) /\ Len(r) = 0
      BY EmptySeq
    <2> HIDE DEF r
    <2>2. /\ n \in 0 .. Len(q) /\ Len(r) >= Len(q) - n
          /\ \A i \in 1 .. Len(q) - n : r[i] = q[n + i]
          /\ \A i \in Len(q) - n + 1 .. Len(r) : r[i] \notin Entries(q)
      BY <1>1, <2>1
    <2>3. Later(q, r)
      BY <2>1, <2>2, LaterIf
    <2>4. QED BY <2>3 DEF r
  <1>4. QED BY <1>2, <1>3

\* Each step leaves every queue as a first-in-first-out queue may be.
LEMMA StepLater ==
  ASSUME IInv, [Next]_vars, NEW l \in Lanes
  PROVE  Later(lanes[l].queue, lanes'[l].queue)
  <1> DEFINE Fair == Later(lanes[l].queue, lanes'[l].queue)
  <1> SUFFICES Fair
    OBVIOUS
  <1>1. \A k \in Lanes :
          /\ lanes[k] \in LaneStates /\ IsFiniteSet(lanes[k].active) /\ NoDuplicates(lanes[k].queue)
          /\ Entries(lanes[k].queue) = {t \in Tasks : LaneOf[t] = k /\ status[t] = "queued"}
    BY DEF IInv, LaneAgrees
  <1>2. lanes \in [Lanes -> LaneStates] /\ \A k \in Lanes : lanes[k].queue \in Seq(Tasks)
    BY DEF IInv, TypeOK, LaneStates
  <1>3. ASSUME lanes'[l].queue = lanes[l].queue PROVE Fair
    BY <1>1, <1>2, <1>3, SameOrEmptyLater
  <1>4. ASSUME NEW t \in Tasks, EnqueueCommandInLane(t) PROVE Fair
    <2>1. lanes' = [lanes EXCEPT ![LaneOf[t]] = Pump(Push(lanes[LaneOf[t]], t))] /\ status[t] = "new"
      BY <1>4 DEF EnqueueCommandInLane, Drain
    <2>2. CASE LaneOf[t] = l
      <3>1. lanes'[l] = Pump(Push(lanes[l], t)) /\ t \notin Entries(lanes[l].queue)
        BY <1>1, <1>2, <2>1, <2>2
      <3>2. QED BY <1>1, <3>1, PushLater
    <2>3. CASE LaneOf[t] # l
      BY <1>2, <1>3, <2>1, <2>3
    <2>4. QED BY <2>2, <2>3
  <1>5. ASSUME NEW k \in Lanes, NEW s \in LaneStates, s.queue = lanes[k].queue,
               IsFiniteSet(s.active), lanes' = [lanes EXCEPT ![k] = Pump(s)]
        PROVE  Fair
    <2>1. CASE k = l
      <3>1. lanes'[l] = Pump(s)
        BY <1>2, <1>5, <2>1
      <3>2. QED BY <1>1, <1>5, <2>1, <3>1, PumpLater
    <2>2. CASE k # l
      BY <1>2, <1>3, <1>5, <2>2
    <2>3. QED BY <2>1, <2>2
  <1>6. ASSUME NEW t \in Tasks, NEW o \in {"resolved", "rejected"}, FinishCurrent(t, o) PROVE Fair
    <2> DEFINE k == LaneOf[t]
               s == CompleteTask(lanes[k], t)
    <2>1. k \in Lanes /\ lanes[k] \in LaneStates /\ IsFiniteSet(lanes[k].active)
      BY <1>1, LaneOfAssumption
    <2>2. s \in LaneStates /\ s.queue = lanes[k].queue /\ s.active = lanes[k].active \ {t}
      BY <2>1 DEF CompleteTask, LaneStates
    <2>3. IsFiniteSet(s.active)
      BY <2>1, <2>2, FS_RemoveElement
    <2>4. lanes' = [lanes EXCEPT ![k] = Pump(s)]
      BY <1>6 DEF FinishCurrent, Drain
    <2> HIDE DEF k, s, Fair
    <2>5. QED BY <1>5, <2>1, <2>2, <2>3, <2>4
  <1>7. ASSUME NEW k \in Lanes, NEW n \in Limits, SetCommandLaneConcurrency(k, n) PROVE Fair
    <2> DEFINE s == Resize(lanes[k], n)
    <2>1. n \in Nat /\ lanes[k] \in LaneStates /\ IsFiniteSet(lanes[k].active)
      BY <1>1, LimitsAssumption
    <2>2. s \in LaneStates /\ s.queue = lanes[k].queue /\ s.active = lanes[k].active
      BY <2>1 DEF Resize, LaneStates
    <2>3. lanes' = [lanes EXCEPT ![k] = Pump(s)]
      BY <1>7 DEF SetCommandLaneConcurrency, Drain
    <2> HIDE DEF s, Fair
    <2>4. QED BY <1>5, <2>1, <2>2, <2>3
  <1>8. CASE ResetAllLanes
    <2>1. lanes'[l] = Pump(Reset(lanes[l]))
      BY <1>8 DEF ResetAllLanes
    <2>2. /\ Reset(lanes[l]) \in LaneStates /\ Reset(lanes[l]).queue = lanes[l].queue
          /\ IsFiniteSet(Reset(lanes[l]).active)
      BY <1>1, ResetType, FS_EmptySet
    <2>3. QED BY <1>1, <2>1, <2>2, PumpLater
  <1>9. ASSUME NEW k \in Lanes, ClearCommandLane(k) PROVE Fair
    <2>1. lanes' = [lanes EXCEPT ![k] = Clear(lanes[k])]
      BY <1>9 DEF ClearCommandLane
    <2>2. CASE k = l
      <3>1. lanes'[l].queue = <<>>
        BY <1>1, <1>2, <2>1, <2>2, ClearType
      <3>2. QED BY <1>1, <1>2, <3>1, SameOrEmptyLater
    <2>3. CASE k # l
      BY <1>2, <1>3, <2>1, <2>3
    <2>4. QED BY <2>2, <2>3
  <1>10. ASSUME NEW t \in Tasks, NEW o \in {"resolved", "rejected"}, FinishStale(t, o) PROVE Fair
    BY <1>3, <1>10 DEF FinishStale
  <1>11. CASE WaitForActiveTasks \/ Poll \/ DeadlinePasses
    BY <1>3, <1>11 DEF WaitForActiveTasks, Poll, PollDrained, PollTimedOut, DeadlinePasses
  <1>12. CASE UNCHANGED vars
    BY <1>3, <1>12 DEF vars
  <1> HIDE DEF Fair
  <1>13. QED
    BY <1>4, <1>6, <1>7, <1>8, <1>9, <1>10, <1>11, <1>12 DEF Next, Finish

\* The queues are first in, first out, whatever is cleared, resized or reset.
THEOREM QueuesAreFifo == Spec => Fifo
  <1>1. IInv /\ [Next]_vars => [\A l \in Lanes : Later(lanes[l].queue, lanes'[l].queue)]_vars
    BY StepLater
  <1>2. (\A l \in Lanes : Later(lanes[l].queue, lanes'[l].queue)) =>
          \A l \in Lanes :
            LET q == lanes[l].queue
                r == lanes'[l].queue
            IN  \E n \in 0 .. Len(q) :
                  LET kept == SubSeq(q, n + 1, Len(q))
                  IN  /\ Len(kept) <= Len(r) /\ SubSeq(r, 1, Len(kept)) = kept
                      /\ Entries(q) \cap Entries(r) = Entries(kept)
    BY DEF Later
  <1>3. QED BY <1>1, <1>2, Invariance, PTL DEF Spec, Fifo
=============================================================================
