-------------------------- MODULE SessionRunsProofs --------------------------
(***************************************************************************)
(* Theorems about agent runs in nested lanes, for any runs, sessions,      *)
(* global lanes, limits and restarts.                                      *)
(*                                                                         *)
(* The invariant relates the record of a lane to the phases of its runs.   *)
(* As in CommandQueueProofs it is stated for any record and any phases, so *)
(* that it can be used in the middle of a step, when session lanes have    *)
(* been pumped and the runs they started are not yet in their global lane. *)
(* A second part, OrderAgrees, relates the queues to the order in which    *)
(* the runs were asked for.                                                *)
(***************************************************************************)
EXTENDS SessionRuns, LaneStateProofs

\* The phases in which a run holds a slot of its session lane, unless it was reset.
Held == {"waitGlobal", "running", "attempt", "leaving"}

LaneShape(lane) == lane \in LaneStates /\ IsFiniteSet(lane.active) /\ NoDuplicates(lane.queue)

SessionAgrees(s, lane, ph, bn) ==
  /\ LaneShape(lane) /\ lane.maxConcurrent = 1
  /\ Entries(lane.queue) = {r \in Runs : SessionOf[r] = s /\ ph[r] = "waitSession"}
  /\ lane.active = {r \in Runs : /\ SessionOf[r] = s /\ ph[r] \in Held
                                 /\ bn[r].session = lane.generation}
  /\ \A r \in Runs : SessionOf[r] = s /\ ph[r] \in Held => bn[r].session <= lane.generation
  /\ \A r, q \in Runs : /\ SessionOf[r] = s /\ SessionOf[q] = s /\ r # q
                        /\ ph[r] \in Held /\ ph[q] \in Held
                        => bn[r].session # bn[q].session

GlobalAgrees(g, lane, ph, bn) ==
  /\ LaneShape(lane)
  /\ Entries(lane.queue) = {r \in Runs : GlobalOf[r] = g /\ ph[r] = "waitGlobal"}
  /\ lane.active \subseteq {r \in Runs : /\ GlobalOf[r] = g /\ ph[r] \in {"running", "attempt"}
                                         /\ bn[r].global = lane.generation}

Borns == [Runs -> [session : Nat, global : Nat]]

LanesAgree ==
  /\ lanes \in [Lanes -> LaneStates] /\ phase \in [Runs -> Phases] /\ born \in Borns
  /\ \A s \in Sessions : SessionAgrees(s, lanes[s], phase, born)
  /\ \A g \in Globals : GlobalAgrees(g, lanes[g], phase, born)

\* A handle is that of a run of the session with an attempt under way.
HandlesAgree ==
  /\ handle \in [Sessions -> Runs \cup {NoRun}]
  /\ \A s \in Sessions : handle[s] # NoRun => phase[handle[s]] = "attempt" /\ SessionOf[handle[s]] = s

\* The lanes are in the generation of the last reset.
RestartsAgree ==
  /\ gateway \in {"up", "draining", "closing"} /\ restarts \in 0 .. MaxRestarts
  /\ gateway # "up" => restarts > 0
  /\ \A l \in Lanes : lanes[l].generation = IF gateway = "up" THEN restarts ELSE restarts - 1

HistoryAgrees ==
  /\ snapshot \subseteq Lanes \X Runs /\ asked \in Seq(Runs) /\ begun \subseteq Runs
  /\ \A r \in Runs : phase[r] # "new" => r \in Entries(asked)

\* In the list of runs order, r comes before q; both are of one session.
Before(r, q, order) == \E i, j \in DOMAIN order : i < j /\ order[i] = r /\ order[j] = q
Rivals(r, q, order) == SessionOf[r] = SessionOf[q] /\ Before(r, q, order)

\* A queue holds the runs of each session in that order.
InTurn(queue, order) ==
  \A i, j \in DOMAIN queue :
    (i < j /\ SessionOf[queue[i]] = SessionOf[queue[j]]) => Before(queue[i], queue[j], order)

\* While a run waits in its session lane, so do those after it.
Waits(ph, order) ==
  \A r, q \in Runs : (Rivals(r, q, order) /\ ph[r] = "waitSession") => ph[q] = "waitSession"

\* And while it waits in its global lane, none after it has begun in that lane.
Orderly(ph, order, bg) ==
  /\ order \in Seq(Runs) /\ NoDuplicates(order) /\ Waits(ph, order)
  /\ \A r \in Runs : /\ ph[r] = "new" <=> r \notin Entries(order)
                     /\ ph[r] \in {"new", "waitSession", "waitGlobal"} => r \notin bg
                     /\ ph[r] \in {"running", "attempt", "leaving"} => r \in bg
  /\ \A r, q \in Runs :
       (Rivals(r, q, order) /\ GlobalOf[r] = GlobalOf[q] /\ ph[r] = "waitGlobal") => q \notin bg

OrderAgrees == Orderly(phase, asked, begun) /\ \A l \in Lanes : InTurn(lanes[l].queue, asked)

IInv == LanesAgree /\ HandlesAgree /\ RestartsAgree /\ HistoryAgrees /\ OrderAgrees

-----------------------------------------------------------------------------
(* Lanes and sequences.                                                      *)

LEMMA LaneNames ==
  /\ \A r \in Runs : SessionOf[r] \in Sessions /\ GlobalOf[r] \in Globals
  /\ Sessions \cap Globals = {} /\ Sessions \subseteq Lanes /\ Globals \subseteq Lanes
BY LanesAssumption DEF Sessions, Globals, Lanes, Runs

\* The entries of a concatenation.
LEMMA ConcatEntries ==
  ASSUME NEW q \in Seq(Tasks), NEW a \in Seq(Tasks), NoDuplicates(q), NoDuplicates(a),
         Entries(q) \cap Entries(a) = {}
  PROVE  /\ q \o a \in Seq(Tasks) /\ NoDuplicates(q \o a)
         /\ Entries(q \o a) = Entries(q) \cup Entries(a)
<1> DEFINE c == q \o a
           m == Len(q)
           n == Len(a)
<1>1. /\ c \in Seq(Tasks) /\ Len(c) = m + n /\ m \in Nat /\ n \in Nat
      /\ \A i \in 1 .. m + n : c[i] = IF i <= m THEN q[i] ELSE a[i - m]
      /\ DOMAIN c = 1 .. m + n /\ DOMAIN q = 1 .. m /\ DOMAIN a = 1 .. n
  BY ConcatProperties
<1> HIDE DEF c, m, n
<1>2. ASSUME NEW i \in 1 .. m + n
      PROVE  \/ i \in 1 .. m /\ c[i] = q[i]
             \/ i - m \in 1 .. n /\ c[i] = a[i - m]
  BY <1>1
<1>3. \A i \in 1 .. m : i \in 1 .. m + n /\ c[i] = q[i]
  BY <1>1
<1>4. \A i \in 1 .. n : i + m \in 1 .. m + n /\ c[i + m] = a[i]
  BY <1>1
<1>5. Entries(c) = Entries(q) \cup Entries(a)
  <2>1. ASSUME NEW i \in 1 .. m + n PROVE c[i] \in Entries(q) \cup Entries(a)
    BY <1>1, <1>2 DEF Entries
  <2>2. ASSUME NEW i \in 1 .. m PROVE q[i] \in Entries(c)
    BY <1>1, <1>3 DEF Entries
  <2>3. ASSUME NEW i \in 1 .. n PROVE a[i] \in Entries(c)
    BY <1>1, <1>4 DEF Entries
  <2>4. /\ Entries(c) = {c[i] : i \in 1 .. m + n}
        /\ Entries(q) = {q[i] : i \in 1 .. m} /\ Entries(a) = {a[i] : i \in 1 .. n}
    BY <1>1 DEF Entries
  <2> QED BY <2>1, <2>2, <2>3, <2>4
<1>6. NoDuplicates(c)
  <2> SUFFICES ASSUME NEW i \in 1 .. m + n, NEW j \in 1 .. m + n, c[i] = c[j] PROVE i = j
    BY <1>1 DEF NoDuplicates
  <2>1. CASE i \in 1 .. m /\ c[i] = q[i] /\ j \in 1 .. m /\ c[j] = q[j]
    BY <1>1, <2>1 DEF NoDuplicates
  <2>2. CASE i - m \in 1 .. n /\ c[i] = a[i - m] /\ j - m \in 1 .. n /\ c[j] = a[j - m]
    <3>1. i - m = j - m
      BY <1>1, <2>2 DEF NoDuplicates
    <3> QED BY <1>1, <3>1
  <2>3. ASSUME NEW x \in 1 .. m, NEW y \in 1 .. n PROVE q[x] # a[y]
    BY <1>1 DEF Entries
  <2> QED BY <1>2, <2>1, <2>2, <2>3
<1> QED BY <1>1, <1>5, <1>6 DEF c

\* A run more in a queue.
LEMMA PushShape ==
  ASSUME NEW lane, LaneShape(lane), NEW r \in Runs, r \notin Entries(lane.queue)
  PROVE  /\ LaneShape(Push(lane, r))
         /\ Entries(Push(lane, r).queue) = Entries(lane.queue) \cup {r}
         /\ Push(lane, r).active = lane.active
         /\ Push(lane, r).generation = lane.generation
         /\ Push(lane, r).maxConcurrent = lane.maxConcurrent
<1>1. lane \in LaneStates /\ lane.queue \in Seq(Tasks) /\ r \in Tasks
  BY DEF LaneShape, LaneStates, Runs
<1>2. /\ Push(lane, r) \in LaneStates /\ Push(lane, r).queue = Append(lane.queue, r)
      /\ Push(lane, r).active = lane.active /\ Push(lane, r).generation = lane.generation
  BY <1>1, PushType
<1>3. Push(lane, r).maxConcurrent = lane.maxConcurrent
  BY <1>1 DEF Push, LaneStates
<1> DEFINE q == lane.queue
           a == Append(q, r)
           n == Len(q)
<1>4. /\ n \in Nat /\ DOMAIN q = 1 .. n /\ DOMAIN a = 1 .. n + 1
      /\ \A i \in 1 .. n : a[i] = q[i] /\ a[n + 1] = r
  BY <1>1
<1>5. a[n + 1] = r
  BY <1>1
<1> HIDE DEF q, a, n
<1>6. \A i \in 1 .. n + 1 : i \in 1 .. n \/ i = n + 1
  BY <1>4
<1>7. Entries(a) = Entries(q) \cup {r}
  <2>1. n + 1 \in 1 .. n + 1 /\ \A i \in 1 .. n : i \in 1 .. n + 1
    BY <1>4
  <2> QED BY <1>4, <1>5, <1>6, <2>1 DEF Entries
<1>8. NoDuplicates(a)
  <2>1. \A i \in 1 .. n : q[i] # r
    BY <1>4 DEF Entries, q
  <2>2. \A i, j \in 1 .. n : q[i] = q[j] => i = j
    BY <1>4 DEF LaneShape, NoDuplicates, q
  <2> QED BY <1>4, <1>5, <1>6, <2>1, <2>2 DEF NoDuplicates
<1> QED BY <1>2, <1>3, <1>7, <1>8 DEF LaneShape, q, a

\* A run less in the slots.
LEMMA CompleteShape ==
  ASSUME NEW lane, LaneShape(lane), NEW r
  PROVE  /\ LaneShape(CompleteTask(lane, r))
         /\ CompleteTask(lane, r).queue = lane.queue
         /\ CompleteTask(lane, r).active = lane.active \ {r}
         /\ CompleteTask(lane, r).generation = lane.generation
         /\ CompleteTask(lane, r).maxConcurrent = lane.maxConcurrent
<1> DEFINE a == lane.active \ {r}
<1>1. lane \in LaneStates /\ a \in SUBSET Tasks /\ IsFiniteSet(a)
  BY FS_Subset DEF LaneShape, LaneStates
<1>2. CompleteTask(lane, r) = [lane EXCEPT !.active = a]
  BY DEF CompleteTask, LaneStates, LaneShape
<1> HIDE DEF a
<1>3. /\ CompleteTask(lane, r) \in LaneStates
      /\ CompleteTask(lane, r).queue = lane.queue /\ CompleteTask(lane, r).active = a
      /\ CompleteTask(lane, r).generation = lane.generation
      /\ CompleteTask(lane, r).maxConcurrent = lane.maxConcurrent
  BY <1>1, <1>2 DEF LaneStates
<1> QED BY <1>1, <1>3 DEF LaneShape, a

\* A lane with a limit of one that has a task starts nothing, else the head of its queue.
LEMMA StartsOne ==
  ASSUME NEW lane, LaneShape(lane), lane.maxConcurrent = 1
  PROVE  /\ Len(Starting(lane)) <= 1 /\ Starting(lane) \in Seq(Runs)
         /\ Starting(lane) # <<>> => /\ lane.active = {}
                                     /\ Entries(Starting(lane)) = {Head(Starting(lane))}
         /\ Starting(lane) = <<>> => Entries(Starting(lane)) = {}
         /\ lane.active = {} /\ lane.queue # <<>> => Entries(Starting(lane)) = {Head(lane.queue)}
         /\ lane.queue = <<>> => Entries(Starting(lane)) = {}
<1>1. /\ lane \in LaneStates /\ Cardinality(lane.active) \in Nat /\ Len(lane.queue) \in Nat
      /\ lane.queue \in Seq(Tasks)
  BY FS_CardinalityType DEF LaneShape, LaneStates
<1>2. Cardinality(lane.active) = 0 <=> lane.active = {}
  BY FS_EmptySet DEF LaneShape
<1>3. /\ StartCount(lane) \in Nat /\ StartCount(lane) <= 1 /\ StartCount(lane) <= Len(lane.queue)
      /\ StartCount(lane) # 0 => lane.active = {}
      /\ lane.active = {} /\ Len(lane.queue) # 0 => StartCount(lane) = 1
  <2> DEFINE c == Cardinality(lane.active)
             n == Len(lane.queue)
             k == StartCount(lane)
  <2>1. /\ k = IF c >= 1 THEN 0 ELSE IF 1 - c < n THEN 1 - c ELSE n
        /\ c \in Nat /\ n \in Nat
    BY <1>1 DEF StartCount
  <2> HIDE DEF c, n, k
  <2>2. /\ k \in Nat /\ k <= 1 /\ k <= n
        /\ k # 0 => c = 0
        /\ c = 0 /\ n # 0 => k = 1
    BY <2>1
  <2> QED BY <1>2, <2>2 DEF c, n, k
<1>4. /\ Starting(lane) \in Seq(Tasks)
      /\ Entries(Starting(lane)) = {lane.queue[i] : i \in 1 .. StartCount(lane)}
  BY <1>1, StartingEntries DEF LaneShape
<1>5. Len(Starting(lane)) = StartCount(lane)
  BY <1>1, <1>3 DEF Starting
<1>6. Starting(lane) = <<>> <=> StartCount(lane) = 0
  BY <1>4, <1>5, EmptySeq
<1>7. lane.queue = <<>> <=> Len(lane.queue) = 0
  BY <1>1, EmptySeq
<1>8. CASE StartCount(lane) = 0
  <2>1. Entries(Starting(lane)) = {}
    BY <1>4, <1>8
  <2> QED BY <1>3, <1>4, <1>5, <1>6, <1>7, <1>8, <2>1 DEF Runs
<1>9. CASE StartCount(lane) = 1
  <2>1. Entries(Starting(lane)) = {lane.queue[1]}
    BY <1>4, <1>9
  <2>2. Len(lane.queue) # 0
    BY <1>1, <1>3, <1>9
  <2>3. Head(lane.queue) = lane.queue[1]
    BY <1>1, <1>7, <2>2
  <2>4. Head(Starting(lane)) = Starting(lane)[1] /\ Starting(lane)[1] \in Entries(Starting(lane))
    <3>1. DOMAIN Starting(lane) = 1 .. 1
      BY <1>4, <1>5, <1>9
    <3>2. Starting(lane)[1] \in Entries(Starting(lane))
      BY <3>1 DEF Entries
    <3> QED BY <1>4, <1>5, <1>6, <1>9, <3>2
  <2>5. Head(Starting(lane)) = lane.queue[1]
    BY <2>1, <2>4
  <2> QED BY <1>3, <1>4, <1>5, <1>6, <1>7, <1>9, <2>1, <2>2, <2>3, <2>5 DEF Runs
<1>10. StartCount(lane) \in {0, 1}
  BY <1>3
<1> QED BY <1>8, <1>9, <1>10

-----------------------------------------------------------------------------
(* The order of runs.                                                        *)

LEMMA BeforeOrders ==
  ASSUME NEW order \in Seq(Runs), NoDuplicates(order)
  PROVE  /\ \A r, q : Before(r, q, order) => ~Before(q, r, order) /\ r # q
         /\ \A r, q \in Entries(order) : r = q \/ Before(r, q, order) \/ Before(q, r, order)
<1>1. DOMAIN order = 1 .. Len(order) /\ Len(order) \in Nat
  OBVIOUS
<1>2. ASSUME NEW r, NEW q, Before(r, q, order) PROVE ~Before(q, r, order) /\ r # q
  BY <1>1, <1>2 DEF Before, NoDuplicates
<1>3. ASSUME NEW r \in Entries(order), NEW q \in Entries(order), r # q
      PROVE  Before(r, q, order) \/ Before(q, r, order)
  <2>1. PICK i \in DOMAIN order, j \in DOMAIN order : order[i] = r /\ order[j] = q
    BY DEF Entries
  <2>2. i < j \/ j < i
    BY <1>1, <1>3, <2>1
  <2> QED BY <2>1, <2>2 DEF Before
<1> QED BY <1>2, <1>3

\* A run more that was asked for.
LEMMA AskedLast ==
  ASSUME NEW order \in Seq(Runs), NEW r \in Runs, NoDuplicates(order), r \notin Entries(order)
  PROVE  LET more == Append(order, r)
         IN  /\ NoDuplicates(more)
             /\ \A x, y : Before(x, y, order) => Before(x, y, more)
             /\ \A x, y : Before(x, y, more) => Before(x, y, order) \/ (y = r /\ x # r)
             /\ \A x \in Entries(order) : Before(x, r, more)
<1> DEFINE n == Len(order)
           more == Append(order, r)
<1>1. /\ n \in Nat /\ DOMAIN order = 1 .. n /\ DOMAIN more = 1 .. n + 1
      /\ \A i \in 1 .. n : more[i] = order[i]
      /\ more[n + 1] = r
  OBVIOUS
<1> HIDE DEF n, more
<1>2. /\ \A i \in 1 .. n + 1 : i \in 1 .. n \/ i = n + 1
      /\ \A i \in 1 .. n : i \in 1 .. n + 1 /\ i < n + 1
      /\ n + 1 \in 1 .. n + 1
  BY <1>1
<1>3. \A i \in 1 .. n : order[i] # r
  BY <1>1 DEF Entries
<1>4. NoDuplicates(more)
  <2>1. \A i, j \in 1 .. n : order[i] = order[j] => i = j
    BY <1>1 DEF NoDuplicates
  <2> QED BY <1>1, <1>2, <1>3, <2>1 DEF NoDuplicates
<1>5. ASSUME NEW x, NEW y, Before(x, y, order) PROVE Before(x, y, more)
  BY <1>1, <1>2, <1>5 DEF Before
<1>6. ASSUME NEW x, NEW y, Before(x, y, more) PROVE Before(x, y, order) \/ (y = r /\ x # r)
  <2>1. PICK i \in 1 .. n + 1, j \in 1 .. n + 1 : i < j /\ more[i] = x /\ more[j] = y
    BY <1>1, <1>6 DEF Before
  <2>2. i \in 1 .. n /\ order[i] = x
    BY <1>1, <2>1
  <2>3. CASE j \in 1 .. n
    BY <1>1, <2>1, <2>2, <2>3 DEF Before
  <2>4. CASE j = n + 1
    BY <1>1, <1>3, <2>1, <2>2, <2>4
  <2> QED BY <1>2, <2>3, <2>4
<1>7. ASSUME NEW x \in Entries(order) PROVE Before(x, r, more)
  <2>1. PICK i \in 1 .. n : order[i] = x
    BY <1>1 DEF Entries
  <2> QED BY <1>1, <1>2, <2>1 DEF Before
<1> QED BY <1>4, <1>5, <1>6, <1>7 DEF more

\* What is left of a queue is in order, and nothing was started before a run ahead of it.
LEMMA PumpInTurn ==
  ASSUME NEW lane, LaneShape(lane), NEW order \in Seq(Runs), NoDuplicates(order),
         InTurn(lane.queue, order)
  PROVE  /\ InTurn(Pump(lane).queue, order)
         /\ \A r, q : /\ q \in Entries(Starting(lane)) /\ r \in Entries(lane.queue)
                      /\ Rivals(r, q, order)
                      => r \in Entries(Starting(lane))
<1> DEFINE queue == lane.queue
           n == Len(queue)
           k == StartCount(lane)
           rest == Pump(lane).queue
<1>1. /\ queue \in Seq(Tasks) /\ n \in Nat /\ k \in Nat /\ k <= n /\ DOMAIN queue = 1 .. n
  BY StartCountBounds DEF LaneShape, LaneStates
<1>2. /\ rest \in Seq(Tasks) /\ Len(rest) = n - k
      /\ \A i \in 1 .. n - k : rest[i] = queue[k + i]
  BY PumpQueue DEF LaneShape
<1>3. Entries(Starting(lane)) = {queue[i] : i \in 1 .. k}
  BY StartingEntries DEF LaneShape
<1>4. InTurn(queue, order)
  OBVIOUS
<1> HIDE DEF queue, n, k, rest
<1>5. InTurn(rest, order)
  <2> SUFFICES ASSUME NEW i \in 1 .. n - k, NEW j \in 1 .. n - k, i < j,
                      SessionOf[rest[i]] = SessionOf[rest[j]]
               PROVE  Before(rest[i], rest[j], order)
    BY <1>2 DEF InTurn
  <2>1. k + i \in DOMAIN queue /\ k + j \in DOMAIN queue /\ k + i < k + j
    BY <1>1
  <2> QED BY <1>2, <1>4, <2>1 DEF InTurn
<1>6. ASSUME NEW r \in Entries(queue), NEW q \in {queue[i] : i \in 1 .. k}, Rivals(r, q, order)
      PROVE  r \in {queue[i] : i \in 1 .. k}
  <2>1. PICK i \in 1 .. n : queue[i] = r
    BY <1>1 DEF Entries
  <2>2. PICK j \in 1 .. k : queue[j] = q
    OBVIOUS
  <2>3. SessionOf[r] = SessionOf[q] /\ ~Before(q, r, order)
    BY <1>6, BeforeOrders DEF Rivals
  <2>4. ~(j < i)
    BY <1>1, <1>4, <2>1, <2>2, <2>3 DEF InTurn
  <2>5. i \in 1 .. k
    BY <1>1, <2>4
  <2> QED BY <2>1, <2>5
<1> QED BY <1>3, <1>5, <1>6 DEF queue, rest

\* Two queues in order, one behind the other.
LEMMA ConcatInTurn ==
  ASSUME NEW q \in Seq(Tasks), NEW a \in Seq(Tasks), NEW order, InTurn(q, order), InTurn(a, order),
         \A x \in Entries(q), y \in Entries(a) : SessionOf[x] = SessionOf[y] => Before(x, y, order)
  PROVE  InTurn(q \o a, order)
<1> DEFINE c == q \o a
           m == Len(q)
           n == Len(a)
<1>1. /\ Len(c) = m + n /\ m \in Nat /\ n \in Nat /\ DOMAIN c = 1 .. m + n
      /\ \A i \in 1 .. m + n : c[i] = IF i <= m THEN q[i] ELSE a[i - m]
      /\ DOMAIN q = 1 .. m /\ DOMAIN a = 1 .. n
  BY ConcatProperties
<1> HIDE DEF c, m, n
<1> SUFFICES ASSUME NEW i \in 1 .. m + n, NEW j \in 1 .. m + n, i < j,
                    SessionOf[c[i]] = SessionOf[c[j]]
             PROVE  Before(c[i], c[j], order)
  BY <1>1 DEF InTurn, c
<1>2. CASE j <= m
  <2>1. i \in 1 .. m /\ j \in 1 .. m /\ c[i] = q[i] /\ c[j] = q[j]
    BY <1>1, <1>2
  <2> QED BY <1>1, <2>1 DEF InTurn
<1>3. CASE i <= m /\ ~(j <= m)
  <2>1. i \in 1 .. m /\ j - m \in 1 .. n /\ c[i] = q[i] /\ c[j] = a[j - m]
    BY <1>1, <1>3
  <2>2. c[i] \in Entries(q) /\ c[j] \in Entries(a)
    BY <1>1, <2>1 DEF Entries
  <2> QED BY <2>2
<1>4. CASE ~(i <= m)
  <2>1. /\ i - m \in 1 .. n /\ j - m \in 1 .. n /\ c[i] = a[i - m] /\ c[j] = a[j - m]
        /\ i - m < j - m
    BY <1>1, <1>4
  <2> QED BY <1>1, <2>1 DEF InTurn
<1> QED BY <1>2, <1>3, <1>4

\* A run that was just asked for, in the queue of its session.
LEMMA AppendInTurn ==
  ASSUME NEW queue \in Seq(Tasks), NEW r, NEW order, InTurn(queue, order),
         \A x \in Entries(queue) : Before(x, r, order)
  PROVE  InTurn(Append(queue, r), order)
<1> DEFINE n == Len(queue)
           more == Append(queue, r)
<1>1. /\ n \in Nat /\ DOMAIN queue = 1 .. n /\ DOMAIN more = 1 .. n + 1
      /\ \A i \in 1 .. n : more[i] = queue[i]
      /\ more[n + 1] = r
  OBVIOUS
<1> HIDE DEF n, more
<1> SUFFICES ASSUME NEW i \in 1 .. n + 1, NEW j \in 1 .. n + 1, i < j,
                    SessionOf[more[i]] = SessionOf[more[j]]
             PROVE  Before(more[i], more[j], order)
  BY <1>1 DEF InTurn, more
<1>2. i \in 1 .. n /\ more[i] = queue[i] /\ more[i] \in Entries(queue)
  BY <1>1 DEF Entries
<1>3. CASE j \in 1 .. n
  BY <1>1, <1>2, <1>3 DEF InTurn
<1>4. CASE j = n + 1
  BY <1>1, <1>2, <1>4
<1> QED BY <1>1, <1>3, <1>4

-----------------------------------------------------------------------------
(* What a step leaves behind.                                                *)

\* A session lane does not see what its runs do in a global lane.
LEMMA SessionFrame ==
  ASSUME NEW s, NEW lane, NEW ph, NEW bn, NEW ph2, NEW bn2, SessionAgrees(s, lane, ph, bn),
         \A r \in Runs : SessionOf[r] = s => /\ ph2[r] = ph[r] \/ (ph2[r] \in Held /\ ph[r] \in Held)
                                             /\ bn2[r].session = bn[r].session
  PROVE  SessionAgrees(s, lane, ph2, bn2)
<1>1. \A r \in Runs : SessionOf[r] = s => /\ ph2[r] = "waitSession" <=> ph[r] = "waitSession"
                                          /\ ph2[r] \in Held <=> ph[r] \in Held
  BY DEF Held
<1>2. {r \in Runs : SessionOf[r] = s /\ ph2[r] = "waitSession"}
        = {r \in Runs : SessionOf[r] = s /\ ph[r] = "waitSession"}
  BY <1>1
<1>3. {r \in Runs : SessionOf[r] = s /\ ph2[r] \in Held /\ bn2[r].session = lane.generation}
        = {r \in Runs : SessionOf[r] = s /\ ph[r] \in Held /\ bn[r].session = lane.generation}
  BY <1>1
<1>4. \A r \in Runs : SessionOf[r] = s /\ ph2[r] \in Held => bn2[r].session <= lane.generation
  BY <1>1 DEF SessionAgrees
<1>5. \A r, q \in Runs : /\ SessionOf[r] = s /\ SessionOf[q] = s /\ r # q
                         /\ ph2[r] \in Held /\ ph2[q] \in Held
                         => bn2[r].session # bn2[q].session
  BY <1>1 DEF SessionAgrees
<1> QED BY <1>2, <1>3, <1>4, <1>5 DEF SessionAgrees

\* A global lane does not see the runs that are not in it.
LEMMA GlobalFrame ==
  ASSUME NEW g, NEW lane, NEW ph, NEW bn, NEW ph2, NEW bn2, GlobalAgrees(g, lane, ph, bn),
         \A r \in Runs : GlobalOf[r] = g =>
           /\ ph2[r] = "waitGlobal" <=> ph[r] = "waitGlobal"
           /\ ph[r] \in {"running", "attempt"} => /\ ph2[r] \in {"running", "attempt"}
                                                  /\ bn2[r].global = bn[r].global
  PROVE  GlobalAgrees(g, lane, ph2, bn2)
<1>1. {r \in Runs : GlobalOf[r] = g /\ ph2[r] = "waitGlobal"}
        = {r \in Runs : GlobalOf[r] = g /\ ph[r] = "waitGlobal"}
  OBVIOUS
<1>2. \A r \in lane.active : /\ r \in Runs /\ GlobalOf[r] = g /\ ph2[r] \in {"running", "attempt"}
                             /\ bn2[r].global = lane.generation
  BY DEF GlobalAgrees
<1> QED BY <1>1, <1>2 DEF GlobalAgrees

\* The lane, the phases and the generations after the pump of a session lane.
Begun(lane) == Entries(Starting(lane))
PhaseAfter(R, ph) == [r \in Runs |-> IF r \in R THEN "waitGlobal" ELSE ph[r]]
BornAfter(R, gen, bn) ==
  [r \in Runs |-> [session |-> IF r \in R THEN gen[SessionOf[r]] ELSE bn[r].session,
                   global |-> bn[r].global]]

\* The pump of a session lane: a run is started only when no other one holds the slot, so
\* that no two runs that hold it are of one generation.
LEMMA SessionPump ==
  ASSUME NEW s, NEW lane, NEW ph, NEW bn, NEW R, NEW gen,
         SessionAgrees(s, lane, ph, bn), gen[s] = lane.generation,
         \A r \in Runs : SessionOf[r] = s => (r \in R <=> r \in Begun(lane))
  PROVE  SessionAgrees(s, Pump(lane), PhaseAfter(R, ph), BornAfter(R, gen, bn))
<1> DEFINE T == Begun(lane)
           ph2 == PhaseAfter(R, ph)
           bn2 == BornAfter(R, gen, bn)
<1>1. /\ LaneShape(lane) /\ lane.maxConcurrent = 1 /\ lane \in LaneStates
      /\ Entries(lane.queue) = {r \in Runs : SessionOf[r] = s /\ ph[r] = "waitSession"}
      /\ lane.active = {r \in Runs : /\ SessionOf[r] = s /\ ph[r] \in Held
                                     /\ bn[r].session = lane.generation}
      /\ \A r \in Runs : SessionOf[r] = s /\ ph[r] \in Held => bn[r].session <= lane.generation
      /\ \A r, q \in Runs : /\ SessionOf[r] = s /\ SessionOf[q] = s /\ r # q
                            /\ ph[r] \in Held /\ ph[q] \in Held
                            => bn[r].session # bn[q].session
      /\ lane.generation \in Nat
  BY DEF SessionAgrees, LaneShape, LaneStates
<1>2. T \subseteq {r \in Runs : SessionOf[r] = s /\ ph[r] = "waitSession"}
  BY <1>1, StartingEntries DEF LaneShape, Begun
<1>3. /\ Pump(lane) \in LaneStates /\ Pump(lane).active = lane.active \cup T
      /\ Pump(lane).maxConcurrent = 1 /\ Pump(lane).generation = lane.generation
      /\ Entries(Pump(lane).queue) = Entries(lane.queue) \ T /\ NoDuplicates(Pump(lane).queue)
  BY <1>1, PumpType, PumpQueue, PumpSplits DEF LaneShape, Begun
<1>4. IsFiniteSet(Pump(lane).active)
  <2>1. lane.active \cap Entries(lane.queue) = {}
    BY <1>1 DEF Held
  <2> QED BY <1>1, <2>1, PumpLimit DEF LaneShape
<1>5. T # {} => lane.active = {} /\ \A r, q \in T : r = q
  <2>1. Starting(lane) # <<>> => lane.active = {} /\ T = {Head(Starting(lane))}
    BY <1>1, StartsOne DEF Begun
  <2>2. Starting(lane) = <<>> => T = {}
    BY <1>1, StartsOne DEF Begun
  <2> QED BY <2>1, <2>2
<1> HIDE DEF T
<1>6. ASSUME NEW r \in Runs, SessionOf[r] = s
      PROVE  /\ ph2[r] = IF r \in T THEN "waitGlobal" ELSE ph[r]
             /\ bn2[r].session = IF r \in T THEN lane.generation ELSE bn[r].session
  BY <1>6 DEF PhaseAfter, BornAfter, T
<1> HIDE DEF ph2, bn2
<1>7. Entries(Pump(lane).queue) = {r \in Runs : SessionOf[r] = s /\ ph2[r] = "waitSession"}
  BY <1>1, <1>2, <1>3, <1>6
<1>8. Pump(lane).active = {r \in Runs : /\ SessionOf[r] = s /\ ph2[r] \in Held
                                        /\ bn2[r].session = Pump(lane).generation}
  BY <1>1, <1>2, <1>3, <1>6 DEF Held
<1>9. \A r \in Runs : SessionOf[r] = s /\ ph2[r] \in Held => bn2[r].session <= lane.generation
  BY <1>1, <1>6
<1>10. ASSUME NEW r \in Runs, NEW q \in Runs, SessionOf[r] = s, SessionOf[q] = s, r # q,
              ph2[r] \in Held, ph2[q] \in Held
       PROVE  bn2[r].session # bn2[q].session
  <2>1. CASE r \in T
    <3>1. q \notin T /\ q \notin lane.active
      BY <1>5, <1>10, <2>1
    <3> QED BY <1>1, <1>6, <1>10, <2>1, <3>1
  <2>2. CASE q \in T
    <3>1. r \notin T /\ r \notin lane.active
      BY <1>5, <1>10, <2>2
    <3> QED BY <1>1, <1>6, <1>10, <2>2, <3>1
  <2>3. CASE r \notin T /\ q \notin T
    BY <1>1, <1>6, <1>10, <2>3
  <2> QED BY <2>1, <2>2, <2>3
<1> QED BY <1>3, <1>4, <1>7, <1>8, <1>9, <1>10 DEF SessionAgrees, LaneShape, ph2, bn2

\* The runs that join some global lane.
Joined(joins) == UNION {Entries(joins[g]) : g \in Globals}

\* What Proceed finds: session lanes that agree with their runs once those that join a
\* global lane are counted as waiting in it, and global lanes that do not have them yet.
Ready(ls, joins, pumped, ph) ==
  /\ ls \in [Lanes -> LaneStates] /\ ph \in [Runs -> Phases] /\ born \in Borns
  /\ joins \in [Globals -> Seq(Tasks)] /\ pumped \subseteq Globals
  /\ \A g \in Globals : /\ NoDuplicates(joins[g])
                        /\ \A r \in Entries(joins[g]) : GlobalOf[r] = g /\ ph[r] = "waitSession"
                        /\ GlobalAgrees(g, ls[g], ph, born)
  /\ \A s \in Sessions :
       SessionAgrees(s, ls[s], PhaseAfter(Joined(joins), ph),
                     BornAfter(Joined(joins), [t \in Lanes |-> ls[t].generation], born))

\* A global lane with the runs that join it.
Pushed(ls, joins, g) == [ls[g] EXCEPT !.queue = @ \o joins[g]]

\* It holds the runs that waited in it and those that join it.
PushedHolds(ls, joins, g, ph) ==
  LET pushed == Pushed(ls, joins, g)
  IN  /\ LaneShape(pushed) /\ pushed.queue = ls[g].queue \o joins[g]
      /\ Entries(pushed.queue) = Entries(ls[g].queue) \cup Entries(joins[g])
      /\ pushed.active = ls[g].active /\ pushed.generation = ls[g].generation
      /\ Entries(joins[g]) \subseteq {r \in Runs : GlobalOf[r] = g /\ ph[r] = "waitSession"}
      /\ Entries(ls[g].queue) = {r \in Runs : GlobalOf[r] = g /\ ph[r] = "waitGlobal"}

LEMMA PushedShape ==
  ASSUME NEW ls, NEW joins, NEW pumped, NEW ph, Ready(ls, joins, pumped, ph), NEW g \in Globals
  PROVE  PushedHolds(ls, joins, g, ph)
<1> DEFINE c == ls[g].queue \o joins[g]
           pushed == Pushed(ls, joins, g)
<1>1. /\ LaneShape(ls[g]) /\ ls[g] \in LaneStates /\ ls[g].queue \in Seq(Tasks)
      /\ Entries(ls[g].queue) = {r \in Runs : GlobalOf[r] = g /\ ph[r] = "waitGlobal"}
  BY DEF Ready, GlobalAgrees, LaneShape, LaneStates
<1>2. joins[g] \in Seq(Tasks) /\ NoDuplicates(joins[g])
  BY DEF Ready
<1>3. Entries(joins[g]) \subseteq {r \in Runs : GlobalOf[r] = g /\ ph[r] = "waitSession"}
  BY <1>2 DEF Ready, Entries, Runs
<1>4. Entries(ls[g].queue) \cap Entries(joins[g]) = {}
  BY <1>1, <1>3
<1>5. /\ c \in Seq(Tasks) /\ NoDuplicates(c)
      /\ Entries(c) = Entries(ls[g].queue) \cup Entries(joins[g])
  BY <1>1, <1>2, <1>4, ConcatEntries DEF LaneShape
<1>6. pushed = [ls[g] EXCEPT !.queue = c]
  BY <1>1 DEF LaneStates, Pushed
<1> HIDE DEF c, pushed
<1>7. /\ pushed \in LaneStates /\ pushed.queue = c /\ pushed.active = ls[g].active
      /\ pushed.generation = ls[g].generation
  BY <1>1, <1>5, <1>6 DEF LaneStates
<1> QED BY <1>1, <1>3, <1>5, <1>7 DEF LaneShape, PushedHolds, pushed, c

LEMMA ProceedKeeps ==
  ASSUME NEW ls, NEW joins, NEW pumped, NEW ph, Ready(ls, joins, pumped, ph),
         Proceed(ls, joins, pumped, ph)
  PROVE  /\ LanesAgree'
         /\ \A l \in Lanes : lanes'[l].generation = ls[l].generation
         /\ \A r \in Runs : ph[r] = "attempt" => phase'[r] = "attempt"
         /\ \A r \in Runs : ph[r] = "new" => phase'[r] = "new"
         /\ begun \subseteq Runs => begun' \subseteq Runs
<1> DEFINE J         == Joined(joins)
           pushed(g) == Pushed(ls, joins, g)
           touched   == pumped \cup {g \in Globals : joins[g] # <<>>}
           T(g)      == IF g \in touched THEN Entries(Starting(pushed(g))) ELSE {}
           B         == UNION {Entries(Starting(pushed(g))) : g \in touched}
<1>1. /\ lanes' = [l \in Lanes |-> IF l \in touched THEN Pump(pushed(l)) ELSE ls[l]]
      /\ phase' = [r \in Runs |-> IF r \in B THEN "running"
                                  ELSE IF r \in J THEN "waitGlobal" ELSE ph[r]]
      /\ born' = [r \in Runs |->
                    [session |-> IF r \in J THEN ls[SessionOf[r]].generation ELSE born[r].session,
                     global  |-> IF r \in B THEN ls[GlobalOf[r]].generation ELSE born[r].global]]
      /\ begun' = begun \cup B
  BY DEF Proceed, Joined, Pushed
<1>2. /\ ls \in [Lanes -> LaneStates] /\ ph \in [Runs -> Phases] /\ born \in Borns
      /\ joins \in [Globals -> Seq(Tasks)] /\ pumped \subseteq Globals
      /\ \A g \in Globals : /\ NoDuplicates(joins[g])
                            /\ \A r \in Entries(joins[g]) : GlobalOf[r] = g /\ ph[r] = "waitSession"
                            /\ GlobalAgrees(g, ls[g], ph, born)
  BY DEF Ready
<1>3. touched \subseteq Globals
  BY <1>2
\* A global lane with the runs that join it.
<1>4. ASSUME NEW g \in Globals
      PROVE  /\ LaneShape(pushed(g))
             /\ Entries(pushed(g).queue) = Entries(ls[g].queue) \cup Entries(joins[g])
             /\ pushed(g).active = ls[g].active /\ pushed(g).generation = ls[g].generation
             /\ Entries(joins[g]) \subseteq {r \in Runs : GlobalOf[r] = g /\ ph[r] = "waitSession"}
  <2>1. PushedHolds(ls, joins, g, ph)
    BY PushedShape
  <2> QED BY <2>1 DEF PushedHolds
\* The same lane pumped.
<1>5. ASSUME NEW g \in Globals
      PROVE  /\ Entries(Starting(pushed(g))) \subseteq Entries(ls[g].queue) \cup Entries(joins[g])
             /\ LaneShape(Pump(pushed(g)))
             /\ Entries(Pump(pushed(g)).queue)
                  = (Entries(ls[g].queue) \cup Entries(joins[g])) \ Entries(Starting(pushed(g)))
             /\ Pump(pushed(g)).active = ls[g].active \cup Entries(Starting(pushed(g)))
             /\ Pump(pushed(g)).generation = ls[g].generation
  <2> DEFINE lane == pushed(g)
  <2>1. /\ LaneShape(lane) /\ lane \in LaneStates
        /\ Entries(lane.queue) = Entries(ls[g].queue) \cup Entries(joins[g])
        /\ lane.active = ls[g].active /\ lane.generation = ls[g].generation
    BY <1>4 DEF LaneShape
  <2>2. lane.active \cap Entries(lane.queue) = {}
    BY <1>2, <1>4, <2>1 DEF GlobalAgrees
  <2> HIDE DEF lane
  <2>3. /\ Entries(Starting(lane)) \subseteq Entries(lane.queue) /\ Pump(lane) \in LaneStates
        /\ Pump(lane).active = lane.active \cup Entries(Starting(lane))
        /\ Pump(lane).generation = lane.generation
        /\ Entries(Pump(lane).queue) = Entries(lane.queue) \ Entries(Starting(lane))
        /\ NoDuplicates(Pump(lane).queue)
    BY <2>1, StartingEntries, PumpType, PumpQueue, PumpSplits DEF LaneShape
  <2>4. IsFiniteSet(Pump(lane).active)
    BY <2>1, <2>2, PumpLimit DEF LaneShape
  <2> QED BY <2>1, <2>3, <2>4 DEF lane, LaneShape
<1>6. ASSUME NEW g \in Globals, NEW r \in Runs, GlobalOf[r] = g
      PROVE  /\ r \in B <=> r \in T(g)
             /\ r \in J <=> r \in Entries(joins[g])
  <2>1. ASSUME NEW h \in Globals, r \in Entries(joins[h]) PROVE h = g
    BY <1>2, <1>6, <2>1
  <2>2. ASSUME NEW h \in Globals, r \in Entries(Starting(pushed(h))) PROVE h = g
    <3>1. r \in Entries(ls[h].queue) \cup Entries(joins[h])
      BY <1>5, <2>2
    <3> QED BY <1>2, <1>6, <3>1 DEF GlobalAgrees
  <2> HIDE DEF pushed
  <2>3. r \in B <=> r \in T(g)
    BY <1>3, <2>2
  <2>4. r \in J <=> r \in Entries(joins[g])
    BY <2>1 DEF Joined
  <2> QED BY <2>3, <2>4
<1>7. ASSUME NEW r \in B PROVE r \in Runs /\ (r \in J \/ ph[r] = "waitGlobal")
  <2>1. PICK g \in touched : r \in Entries(Starting(pushed(g)))
    OBVIOUS
  <2>2. g \in Globals /\ r \in Entries(ls[g].queue) \cup Entries(joins[g])
    BY <1>3, <1>5, <2>1
  <2>3. r \in Entries(ls[g].queue) => r \in Runs /\ ph[r] = "waitGlobal"
    BY <1>2, <2>2 DEF GlobalAgrees
  <2>4. r \in Entries(joins[g]) => r \in Runs /\ r \in J
    <3>1. ASSUME r \in Entries(joins[g]) PROVE r \in Runs
      BY <1>4, <2>2, <3>1
    <3>2. Entries(joins[g]) \subseteq J
      BY <2>2 DEF Joined
    <3> QED BY <3>1, <3>2
  <2> QED BY <2>2, <2>3, <2>4
<1>8. ASSUME NEW r \in J PROVE r \in Runs /\ ph[r] = "waitSession"
  <2>1. PICK g \in Globals : r \in Entries(joins[g])
    BY DEF Joined
  <2> QED BY <1>4, <2>1
<1> HIDE DEF J, B
<1>9. lanes' \in [Lanes -> LaneStates] /\ \A l \in Lanes : lanes'[l].generation = ls[l].generation
  <2>1. ASSUME NEW l \in Lanes
        PROVE  lanes'[l] \in LaneStates /\ lanes'[l].generation = ls[l].generation
    <3>1. CASE l \in touched
      <4>1. lanes'[l] = Pump(pushed(l)) /\ l \in Globals
        BY <1>1, <1>3, <3>1
      <4> QED BY <1>5, <4>1 DEF LaneShape
    <3>2. CASE l \notin touched
      BY <1>1, <1>2, <3>2
    <3> QED BY <3>1, <3>2
  <2> QED BY <1>1, <2>1
<1>10. phase' \in [Runs -> Phases]
  BY <1>1, <1>2 DEF Phases
<1>11. born' \in Borns
  <2>1. \A r \in Runs : /\ born[r].session \in Nat /\ born[r].global \in Nat
                        /\ ls[SessionOf[r]].generation \in Nat /\ ls[GlobalOf[r]].generation \in Nat
    BY <1>2, LaneNames DEF Borns, LaneStates
  <2> QED BY <1>1, <2>1 DEF Borns
<1>12. ASSUME NEW s \in Sessions PROVE SessionAgrees(s, lanes'[s], phase', born')
  <2>1. lanes'[s] = ls[s]
    BY <1>1, <1>3, LaneNames
  <2> DEFINE ph1 == PhaseAfter(J, ph)
             bn1 == BornAfter(J, [t \in Lanes |-> ls[t].generation], born)
  <2>2. SessionAgrees(s, ls[s], ph1, bn1)
    BY DEF Ready, J
  <2>3. ASSUME NEW r \in Runs, SessionOf[r] = s
        PROVE  /\ phase'[r] = ph1[r] \/ (phase'[r] \in Held /\ ph1[r] \in Held)
               /\ born'[r].session = bn1[r].session
    <3>1. ph1[r] = IF r \in J THEN "waitGlobal" ELSE ph[r]
      BY DEF PhaseAfter
    <3>2. bn1[r].session = IF r \in J THEN ls[SessionOf[r]].generation ELSE born[r].session
      BY LaneNames DEF BornAfter
    <3> HIDE DEF ph1, bn1
    <3> QED BY <1>1, <1>7, <3>1, <3>2 DEF Held
  <2> HIDE DEF ph1, bn1
  <2> QED BY <2>1, <2>2, <2>3, SessionFrame
<1>13. ASSUME NEW g \in Globals PROVE GlobalAgrees(g, lanes'[g], phase', born')
  <2>1. /\ LaneShape(ls[g])
        /\ Entries(ls[g].queue) = {r \in Runs : GlobalOf[r] = g /\ ph[r] = "waitGlobal"}
        /\ ls[g].active \subseteq {r \in Runs : /\ GlobalOf[r] = g /\ ph[r] \in {"running", "attempt"}
                                                /\ born[r].global = ls[g].generation}
    BY <1>2 DEF GlobalAgrees
  <2>2. Entries(joins[g]) \subseteq {r \in Runs : GlobalOf[r] = g /\ ph[r] = "waitSession"}
    BY <1>4
  <2>3. /\ LaneShape(lanes'[g]) /\ lanes'[g].generation = ls[g].generation
        /\ Entries(lanes'[g].queue) = (Entries(ls[g].queue) \cup Entries(joins[g])) \ T(g)
        /\ lanes'[g].active = ls[g].active \cup T(g)
        /\ T(g) \subseteq Entries(ls[g].queue) \cup Entries(joins[g])
    <3>1. CASE g \in touched
      <4>1. lanes'[g] = Pump(pushed(g)) /\ T(g) = Entries(Starting(pushed(g)))
        BY <1>1, <3>1, LaneNames
      <4> HIDE DEF pushed, T
      <4> QED BY <1>5, <4>1
    <3>2. CASE g \notin touched
      <4>1. lanes'[g] = ls[g] /\ T(g) = {} /\ joins[g] = <<>>
        BY <1>1, <3>2, LaneNames
      <4>2. Entries(joins[g]) = {}
        BY <4>1, EmptyQueue
      <4> HIDE DEF T
      <4> QED BY <2>1, <4>1, <4>2
    <3> QED BY <3>1, <3>2
  <2> HIDE DEF T, pushed, touched
  <2>4. ASSUME NEW r \in Runs, GlobalOf[r] = g
        PROVE  /\ phase'[r] = IF r \in T(g) THEN "running"
                              ELSE IF r \in Entries(joins[g]) THEN "waitGlobal" ELSE ph[r]
               /\ born'[r].global = IF r \in T(g) THEN ls[g].generation ELSE born[r].global
    BY <1>1, <1>6, <2>4
  <2>5. Entries(lanes'[g].queue) = {r \in Runs : GlobalOf[r] = g /\ phase'[r] = "waitGlobal"}
    BY <2>1, <2>2, <2>3, <2>4
  <2>6. ASSUME NEW r \in lanes'[g].active
        PROVE  /\ r \in Runs /\ GlobalOf[r] = g /\ phase'[r] \in {"running", "attempt"}
               /\ born'[r].global = lanes'[g].generation
    <3>1. CASE r \in T(g)
      BY <2>1, <2>2, <2>3, <2>4, <3>1
    <3>2. CASE r \in ls[g].active /\ r \notin T(g)
      BY <2>1, <2>2, <2>3, <2>4, <3>2
    <3> QED BY <2>3, <2>6, <3>1, <3>2
  <2> QED BY <2>3, <2>5, <2>6 DEF GlobalAgrees
<1>14. /\ \A r \in Runs : ph[r] = "attempt" => phase'[r] = "attempt"
       /\ \A r \in Runs : ph[r] = "new" => phase'[r] = "new"
  BY <1>1, <1>7, <1>8
<1>15. begun \subseteq Runs => begun' \subseteq Runs
  BY <1>1, <1>7
<1> QED BY <1>9, <1>10, <1>11, <1>12, <1>13, <1>14, <1>15 DEF LanesAgree

\* The order after Proceed: at most one run of each session joins a global lane, and what
\* waits there already was asked for before it.
LEMMA ProceedInOrder ==
  ASSUME NEW ls, NEW joins, NEW pumped, NEW ph, Ready(ls, joins, pumped, ph),
         Proceed(ls, joins, pumped, ph), NEW order, Orderly(ph, order, begun),
         Waits(PhaseAfter(Joined(joins), ph), order), \A l \in Lanes : InTurn(ls[l].queue, order),
         \A r, q \in Joined(joins) : SessionOf[r] = SessionOf[q] => r = q
  PROVE  Orderly(phase', order, begun') /\ \A l \in Lanes : InTurn(lanes'[l].queue, order)
<1> DEFINE J         == Joined(joins)
           pushed(g) == Pushed(ls, joins, g)
           touched   == pumped \cup {g \in Globals : joins[g] # <<>>}
           B         == UNION {Entries(Starting(pushed(g))) : g \in touched}
<1>1. /\ lanes' = [l \in Lanes |-> IF l \in touched THEN Pump(pushed(l)) ELSE ls[l]]
      /\ phase' = [r \in Runs |-> IF r \in B THEN "running"
                                  ELSE IF r \in J THEN "waitGlobal" ELSE ph[r]]
      /\ begun' = begun \cup B
  BY DEF Proceed, Joined, Pushed
<1>2. touched \subseteq Globals
  BY DEF Ready
<1>3. order \in Seq(Runs) /\ NoDuplicates(order) /\ Waits(ph, order)
  BY DEF Orderly
<1>4. ASSUME NEW g \in Globals
      PROVE  /\ LaneShape(pushed(g)) /\ pushed(g).queue = ls[g].queue \o joins[g]
             /\ Entries(pushed(g).queue) = Entries(ls[g].queue) \cup Entries(joins[g])
             /\ \A r \in Entries(joins[g]) : r \in Runs /\ GlobalOf[r] = g /\ ph[r] = "waitSession"
             /\ \A r \in Entries(ls[g].queue) : /\ r \in Runs /\ GlobalOf[r] = g
                                               /\ ph[r] = "waitGlobal"
             /\ \A r \in Runs : (GlobalOf[r] = g /\ ph[r] = "waitGlobal")
                               => r \in Entries(ls[g].queue)
  <2>1. PushedHolds(ls, joins, g, ph)
    BY PushedShape
  <2> QED BY <2>1 DEF PushedHolds
<1> HIDE DEF pushed
<1>5. ASSUME NEW g \in Globals PROVE InTurn(pushed(g).queue, order)
  <2>1. /\ ls[g].queue \in Seq(Tasks) /\ joins[g] \in Seq(Tasks) /\ NoDuplicates(joins[g])
        /\ InTurn(ls[g].queue, order)
    BY LaneNames DEF Ready, LaneStates
  <2>2. InTurn(joins[g], order)
    <3> SUFFICES ASSUME NEW i \in DOMAIN joins[g], NEW j \in DOMAIN joins[g], i < j,
                        SessionOf[joins[g][i]] = SessionOf[joins[g][j]]
                 PROVE  FALSE
      BY DEF InTurn
    <3>1. joins[g][i] \in J /\ joins[g][j] \in J
      BY DEF Joined, Entries
    <3>2. i = j
      BY <2>1, <3>1 DEF NoDuplicates
    <3>3. i \in Nat /\ j \in Nat
      BY <2>1
    <3> QED BY <3>2, <3>3
  <2>3. ASSUME NEW x \in Entries(ls[g].queue), NEW y \in Entries(joins[g]),
               SessionOf[x] = SessionOf[y]
        PROVE  Before(x, y, order)
    <3>1. /\ x \in Runs /\ y \in Runs /\ ph[x] = "waitGlobal" /\ ph[y] = "waitSession"
      BY <1>4
    <3>2. x \in Entries(order) /\ y \in Entries(order) /\ x # y
      BY <3>1 DEF Orderly
    <3>3. ~Before(y, x, order)
      BY <1>3, <2>3, <3>1 DEF Waits, Rivals
    <3> QED BY <1>3, <3>2, <3>3, BeforeOrders
  <2>4. InTurn(ls[g].queue \o joins[g], order)
    BY <2>1, <2>2, <2>3, ConcatInTurn
  <2> QED BY <1>4, <2>4
<1>6. ASSUME NEW g \in Globals
      PROVE  /\ InTurn(Pump(pushed(g)).queue, order)
             /\ Entries(Starting(pushed(g))) \subseteq Entries(pushed(g).queue)
             /\ \A r, q : /\ q \in Entries(Starting(pushed(g)))
                          /\ r \in Entries(pushed(g).queue) /\ Rivals(r, q, order)
                          => r \in Entries(Starting(pushed(g)))
  BY <1>3, <1>4, <1>5, PumpInTurn, StartingEntries DEF LaneShape
<1>7. \A l \in Lanes : InTurn(lanes'[l].queue, order)
  <2> SUFFICES ASSUME NEW l \in Lanes PROVE InTurn(lanes'[l].queue, order)
    OBVIOUS
  <2>1. lanes'[l] = IF l \in touched THEN Pump(pushed(l)) ELSE ls[l]
    BY <1>1
  <2> QED BY <1>2, <1>6, <2>1
\* The runs that join, and those that begin.
<1>8. ASSUME NEW r \in J PROVE r \in Runs /\ ph[r] = "waitSession"
  <2>1. PICK g \in Globals : r \in Entries(joins[g])
    BY DEF Joined
  <2> QED BY <1>4, <2>1
<1>9. ASSUME NEW r \in B
      PROVE  /\ r \in Runs /\ (r \in J \/ ph[r] = "waitGlobal")
             /\ GlobalOf[r] \in touched /\ r \in Entries(Starting(pushed(GlobalOf[r])))
  <2>1. PICK g \in touched : r \in Entries(Starting(pushed(g)))
    OBVIOUS
  <2>2. g \in Globals /\ r \in Entries(ls[g].queue) \cup Entries(joins[g])
    BY <1>2, <1>4, <1>6, <2>1
  <2>3. r \in Runs /\ GlobalOf[r] = g /\ (r \in Entries(joins[g]) \/ ph[r] = "waitGlobal")
    BY <1>4, <2>2
  <2>4. r \in Entries(joins[g]) => r \in J
    BY <2>2 DEF Joined
  <2> QED BY <2>1, <2>3, <2>4
<1>10. \A g \in touched : Entries(Starting(pushed(g))) \subseteq B
  OBVIOUS
<1>11. \A r \in Runs : phase'[r] = IF r \in B THEN "running"
                                  ELSE IF r \in J THEN "waitGlobal" ELSE ph[r]
  BY <1>1
<1> HIDE DEF B, J, touched
<1>12. ASSUME NEW r \in Runs
       PROVE  /\ phase'[r] = "new" <=> r \notin Entries(order)
              /\ phase'[r] \in {"new", "waitSession", "waitGlobal"} => r \notin begun'
              /\ phase'[r] \in {"running", "attempt", "leaving"} => r \in begun'
  <2>1. /\ ph[r] = "new" <=> r \notin Entries(order)
        /\ ph[r] \in {"new", "waitSession", "waitGlobal"} => r \notin begun
        /\ ph[r] \in {"running", "attempt", "leaving"} => r \in begun
    BY DEF Orderly
  <2>2. CASE r \in B
    <3>1. phase'[r] = "running" /\ ph[r] # "new"
      BY <1>8, <1>9, <1>11, <2>2
    <3> QED BY <1>1, <2>1, <2>2, <3>1
  <2>3. CASE r \notin B /\ r \in J
    <3>1. phase'[r] = "waitGlobal" /\ ph[r] = "waitSession"
      BY <1>8, <1>11, <2>3
    <3> QED BY <1>1, <2>1, <2>3, <3>1
  <2>4. CASE r \notin B /\ r \notin J
    <3>1. phase'[r] = ph[r]
      BY <1>11, <2>4
    <3> QED BY <1>1, <2>1, <2>4, <3>1
  <2> QED BY <2>2, <2>3, <2>4
<1>13. Waits(phase', order)
  <2> SUFFICES ASSUME NEW r \in Runs, NEW q \in Runs, Rivals(r, q, order), phase'[r] = "waitSession"
               PROVE  phase'[q] = "waitSession"
    BY DEF Waits
  <2>1. r \notin J /\ ph[r] = "waitSession"
    BY <1>11
  <2>2. PhaseAfter(J, ph)[r] = "waitSession"
    BY <2>1 DEF PhaseAfter
  <2>3. PhaseAfter(J, ph)[q] = "waitSession"
    BY <2>2 DEF Waits, J
  <2>4. q \notin J /\ ph[q] = "waitSession"
    BY <2>3 DEF PhaseAfter
  <2> QED BY <1>9, <1>11, <2>4
<1>14. ASSUME NEW r \in Runs, NEW q \in Runs, Rivals(r, q, order), GlobalOf[r] = GlobalOf[q],
              phase'[r] = "waitGlobal"
       PROVE  q \notin begun'
  <2>1. r \notin B /\ (r \in J \/ ph[r] = "waitGlobal")
    BY <1>11, <1>14
  <2>2. q \notin begun
    <3>1. CASE r \in J
      <4>1. ph[q] = "waitSession"
        BY <1>3, <1>8, <1>14, <3>1 DEF Waits
      <4> QED BY <4>1 DEF Orderly
    <3>2. CASE ph[r] = "waitGlobal"
      BY <1>14, <3>2 DEF Orderly
    <3> QED BY <2>1, <3>1, <3>2
  <2>3. q \notin B
    <3> SUFFICES ASSUME q \in B PROVE FALSE
      OBVIOUS
    <3>1. PICK g \in Globals : /\ g = GlobalOf[r] /\ g \in touched
                              /\ q \in Entries(Starting(pushed(g)))
      BY <1>2, <1>9, <1>14
    <3>2. r \in Entries(pushed(g).queue)
      <4>1. Entries(pushed(g).queue) = Entries(ls[g].queue) \cup Entries(joins[g])
        BY <1>4
      <4>2. ASSUME r \in J PROVE r \in Entries(joins[g])
        <5>1. PICK h \in Globals : r \in Entries(joins[h])
          BY <4>2 DEF J, Joined
        <5>2. h = g
          BY <1>4, <3>1, <5>1
        <5> QED BY <5>1, <5>2
      <4>3. ASSUME ph[r] = "waitGlobal" PROVE r \in Entries(ls[g].queue)
        BY <1>4, <3>1, <4>3
      <4> QED BY <2>1, <4>1, <4>2, <4>3
    <3>3. r \in Entries(Starting(pushed(g)))
      BY <1>6, <1>14, <3>1, <3>2
    <3> QED BY <1>10, <2>1, <3>1, <3>3
  <2> QED BY <1>1, <2>2, <2>3
<1>15. Orderly(phase', order, begun')
  BY <1>3, <1>12, <1>13, <1>14 DEF Orderly
<1> QED BY <1>7, <1>15

\* A run that waits in its session lane is not overtaken by one that leaves the lane.
LEMMA StartsInOrder ==
  ASSUME NEW s, NEW lane, NEW ph, NEW bn, SessionAgrees(s, lane, ph, bn),
         NEW order, Orderly(ph, order, begun), InTurn(lane.queue, order),
         NEW r \in Runs, NEW q \in Runs, Rivals(r, q, order),
         SessionOf[r] = s, ph[r] = "waitSession", r \notin Begun(lane)
  PROVE  ph[q] = "waitSession" /\ q \notin Begun(lane)
<1>1. /\ LaneShape(lane) /\ r \in Entries(lane.queue)
      /\ order \in Seq(Runs) /\ NoDuplicates(order) /\ Waits(ph, order)
  BY DEF SessionAgrees, Orderly
<1>2. ph[q] = "waitSession"
  BY <1>1 DEF Waits
<1>3. q \notin Begun(lane)
  BY <1>1, PumpInTurn DEF Begun
<1> QED BY <1>2, <1>3

-----------------------------------------------------------------------------
(* The states in which Proceed is called.                                    *)

\* What one session lane starts joins the global lane of its run.
LEMMA JoinsOne ==
  ASSUME NEW lane, LaneShape(lane), lane.maxConcurrent = 1
  PROVE  LET j == Joins(Starting(lane))
         IN  /\ j \in [Globals -> Seq(Tasks)] /\ Joined(j) = Begun(lane)
             /\ \A g \in Globals : /\ NoDuplicates(j[g])
                                   /\ \A r \in Entries(j[g]) : GlobalOf[r] = g /\ r \in Begun(lane)
<1> DEFINE q == Starting(lane)
           j == Joins(q)
<1>1. /\ q \in Seq(Tasks) /\ Len(q) <= 1
      /\ q # <<>> => Entries(q) = {Head(q)}
      /\ q = <<>> => Entries(q) = {}
  BY StartsOne DEF Runs
<1>2. q # <<>> => GlobalOf[Head(q)] \in Globals
  <2>1. q # <<>> => Head(q) \in Runs
    BY <1>1 DEF Runs
  <2> QED BY <2>1, LaneNames
<1>3. NoDuplicates(q)
  <2>1. \A i, k \in 1 .. Len(q) : i = k
    BY <1>1
  <2> QED BY <1>1, <2>1 DEF NoDuplicates
<1> HIDE DEF q
<1>4. <<>> \in Seq(Tasks) /\ NoDuplicates(<<>>) /\ Entries(<<>>) = {}
  BY EmptyQueue
<1>5. \A g \in Globals : j[g] = IF q # <<>> /\ GlobalOf[Head(q)] = g THEN q ELSE <<>>
  BY DEF Joins
<1>6. j \in [Globals -> Seq(Tasks)]
  BY <1>1, <1>4 DEF Joins
<1> HIDE DEF j
<1>7. ASSUME NEW g \in Globals
      PROVE  /\ NoDuplicates(j[g])
             /\ \A r \in Entries(j[g]) : GlobalOf[r] = g /\ r \in Entries(q)
  <2>1. CASE q # <<>> /\ GlobalOf[Head(q)] = g
    <3>1. j[g] = q
      BY <1>5, <2>1
    <3> QED BY <1>1, <1>3, <2>1, <3>1
  <2>2. CASE ~(q # <<>> /\ GlobalOf[Head(q)] = g)
    <3>1. j[g] = <<>>
      BY <1>5, <2>2
    <3> QED BY <1>4, <3>1
  <2> QED BY <2>1, <2>2
<1>8. Joined(j) = Entries(q)
  <2>1. Joined(j) \subseteq Entries(q)
    BY <1>7 DEF Joined
  <2>2. CASE q = <<>>
    BY <1>1, <2>1, <2>2
  <2>3. CASE q # <<>>
    <3> DEFINE g == GlobalOf[Head(q)]
    <3>1. g \in Globals /\ j[g] = q
      BY <1>2, <1>5, <2>3
    <3>2. Entries(j[g]) \subseteq Joined(j)
      BY <3>1 DEF Joined
    <3> QED BY <2>1, <3>1, <3>2
  <2> QED BY <2>2, <2>3
<1> QED BY <1>6, <1>7, <1>8 DEF q, j, Begun

\* One session lane is pumped.
LEMMA OneReady ==
  ASSUME lanes \in [Lanes -> LaneStates], born \in Borns,
         NEW ph \in [Runs -> Phases], NEW s \in Sessions, NEW lane,
         SessionAgrees(s, lane, ph, born),
         \A t \in Sessions \ {s} : SessionAgrees(t, lanes[t], ph, born),
         \A g \in Globals : GlobalAgrees(g, lanes[g], ph, born)
  PROVE  /\ Ready([lanes EXCEPT ![s] = Pump(lane)], Joins(Starting(lane)), {}, ph)
         /\ [lanes EXCEPT ![s] = Pump(lane)][s].generation = lane.generation
<1> DEFINE ls == [lanes EXCEPT ![s] = Pump(lane)]
           j  == Joins(Starting(lane))
           gen == [t \in Lanes |-> ls[t].generation]
<1>1. LaneShape(lane) /\ lane \in LaneStates /\ lane.maxConcurrent = 1
  BY DEF SessionAgrees, LaneShape
<1>2. Pump(lane) \in LaneStates /\ Pump(lane).generation = lane.generation
  BY <1>1, PumpType, PumpQueue DEF LaneShape
<1>3. /\ s \in Lanes /\ s \notin Globals /\ Sessions \subseteq Lanes /\ Globals \subseteq Lanes
  BY LaneNames
<1>4. /\ ls \in [Lanes -> LaneStates] /\ ls[s] = Pump(lane)
      /\ \A l \in Lanes \ {s} : ls[l] = lanes[l]
  BY <1>2, <1>3
<1>5. /\ j \in [Globals -> Seq(Tasks)] /\ Joined(j) = Begun(lane)
      /\ \A g \in Globals : /\ NoDuplicates(j[g])
                            /\ \A r \in Entries(j[g]) : GlobalOf[r] = g /\ r \in Begun(lane)
  BY <1>1, JoinsOne
<1>6. Begun(lane) \subseteq {r \in Runs : SessionOf[r] = s /\ ph[r] = "waitSession"}
  BY <1>1, StartingEntries DEF SessionAgrees, LaneShape, Begun
<1> HIDE DEF j
<1>7. gen[s] = lane.generation
  BY <1>2, <1>3, <1>4
<1> HIDE DEF ls, gen
<1>8. ASSUME NEW g \in Globals
      PROVE  /\ NoDuplicates(j[g]) /\ GlobalAgrees(g, ls[g], ph, born)
             /\ \A r \in Entries(j[g]) : GlobalOf[r] = g /\ ph[r] = "waitSession"
  <2>1. ls[g] = lanes[g]
    BY <1>3, <1>4
  <2> QED BY <1>5, <1>6, <2>1
<1>9. ASSUME NEW t \in Sessions
      PROVE  SessionAgrees(t, ls[t], PhaseAfter(Joined(j), ph), BornAfter(Joined(j), gen, born))
  <2>1. CASE t = s
    BY <1>4, <1>5, <1>7, <2>1, SessionPump
  <2>2. CASE t # s
    <3>1. ls[t] = lanes[t] /\ SessionAgrees(t, lanes[t], ph, born)
      BY <1>3, <1>4, <2>2
    <3>2. ASSUME NEW r \in Runs, SessionOf[r] = t
          PROVE  /\ PhaseAfter(Joined(j), ph)[r] = ph[r]
                 /\ BornAfter(Joined(j), gen, born)[r].session = born[r].session
      BY <1>5, <1>6, <2>2, <3>2 DEF PhaseAfter, BornAfter
    <3> QED BY <3>1, <3>2, SessionFrame
  <2> QED BY <2>1, <2>2
<1>10. Ready(ls, j, {}, ph)
  BY <1>4, <1>5, <1>8, <1>9 DEF Ready, gen
<1> QED BY <1>2, <1>4, <1>10 DEF ls, j

\* No session lane is pumped.
LEMMA NobodyReady ==
  ASSUME born \in Borns, NEW ls \in [Lanes -> LaneStates], NEW ph \in [Runs -> Phases],
         NEW pumped, pumped \subseteq Globals,
         \A s \in Sessions : SessionAgrees(s, ls[s], ph, born),
         \A g \in Globals : GlobalAgrees(g, ls[g], ph, born)
  PROVE  Ready(ls, Nobody, pumped, ph)
<1>1. <<>> \in Seq(Tasks) /\ NoDuplicates(<<>>) /\ Entries(<<>>) = {}
  BY EmptyQueue
<1>2. /\ Nobody \in [Globals -> Seq(Tasks)]
      /\ \A g \in Globals : NoDuplicates(Nobody[g]) /\ Entries(Nobody[g]) = {}
  BY <1>1 DEF Nobody
<1>3. Joined(Nobody) = {}
  BY <1>2 DEF Joined
<1>4. ASSUME NEW s \in Sessions
      PROVE  SessionAgrees(s, ls[s], PhaseAfter({}, ph),
                           BornAfter({}, [t \in Lanes |-> ls[t].generation], born))
  <2>1. ASSUME NEW r \in Runs
        PROVE  /\ PhaseAfter({}, ph)[r] = ph[r]
               /\ BornAfter({}, [t \in Lanes |-> ls[t].generation], born)[r].session = born[r].session
    BY DEF PhaseAfter, BornAfter
  <2> QED BY <2>1, SessionFrame
<1> QED BY <1>2, <1>3, <1>4 DEF Ready

\* A step that ends with Proceed.
LEMMA ViaProceed ==
  ASSUME IInv, NEW ls, NEW joins, NEW pumped, NEW ph, Ready(ls, joins, pumped, ph),
         Proceed(ls, joins, pumped, ph),
         \A r \in Runs : phase[r] = "attempt" => ph[r] = "attempt",
         \A r \in Runs : phase[r] = "new" => ph[r] = "new" \/ r \in Entries(asked'),
         asked' \in Seq(Runs), Entries(asked) \subseteq Entries(asked'),
         Orderly(ph, asked', begun), Waits(PhaseAfter(Joined(joins), ph), asked'),
         \A l \in Lanes : InTurn(ls[l].queue, asked'),
         \A r, q \in Joined(joins) : SessionOf[r] = SessionOf[q] => r = q,
         gateway' \in {"up", "draining", "closing"}, gateway' # "up" => restarts > 0,
         \A l \in Lanes : ls[l].generation = IF gateway' = "up" THEN restarts ELSE restarts - 1,
         UNCHANGED <<handle, snapshot, restarts>>
  PROVE  IInv'
<1>1. /\ LanesAgree'
      /\ \A l \in Lanes : lanes'[l].generation = ls[l].generation
      /\ \A r \in Runs : ph[r] = "attempt" => phase'[r] = "attempt"
      /\ \A r \in Runs : ph[r] = "new" => phase'[r] = "new"
      /\ begun \subseteq Runs => begun' \subseteq Runs
  BY ProceedKeeps
<1>2. HandlesAgree'
  BY <1>1 DEF IInv, HandlesAgree
<1>3. RestartsAgree'
  BY <1>1 DEF IInv, RestartsAgree
<1>4. HistoryAgrees'
  BY <1>1 DEF IInv, HistoryAgrees
<1>5. OrderAgrees'
  <2>1. Orderly(phase', asked', begun') /\ \A l \in Lanes : InTurn(lanes'[l].queue, asked')
    BY ProceedInOrder
  <2> QED BY <2>1 DEF OrderAgrees
<1> QED BY <1>1, <1>2, <1>3, <1>4, <1>5 DEF IInv

\* The pump of one session lane keeps the order.
LEMMA OneInOrder ==
  ASSUME lanes \in [Lanes -> LaneStates], NEW ph \in [Runs -> Phases], NEW s \in Sessions, NEW lane,
         SessionAgrees(s, lane, ph, born), NEW order, Orderly(ph, order, begun),
         InTurn(lane.queue, order),
         \A l \in Lanes \ {s} : InTurn(lanes[l].queue, order)
  PROVE  /\ Waits(PhaseAfter(Joined(Joins(Starting(lane))), ph), order)
         /\ \A l \in Lanes : InTurn([lanes EXCEPT ![s] = Pump(lane)][l].queue, order)
         /\ \A q, r \in Joined(Joins(Starting(lane))) : q = r
<1>1. /\ LaneShape(lane) /\ lane.maxConcurrent = 1
      /\ Entries(lane.queue) = {r \in Runs : SessionOf[r] = s /\ ph[r] = "waitSession"}
  BY DEF SessionAgrees
<1>2. order \in Seq(Runs) /\ NoDuplicates(order) /\ Waits(ph, order)
  BY DEF Orderly
<1>3. Joined(Joins(Starting(lane))) = Begun(lane)
  BY <1>1, JoinsOne
<1>4. Begun(lane) \subseteq Entries(lane.queue)
  BY <1>1, StartingEntries DEF LaneShape, Begun
<1>5. \A q, r \in Begun(lane) : q = r
  <2>1. Starting(lane) # <<>> => Begun(lane) = {Head(Starting(lane))}
    BY <1>1, StartsOne DEF Begun
  <2>2. Starting(lane) = <<>> => Begun(lane) = {}
    BY <1>1, StartsOne DEF Begun
  <2> QED BY <2>1, <2>2
<1>6. InTurn(Pump(lane).queue, order)
  BY <1>1, <1>2, PumpInTurn
<1>7. \A l \in Lanes : InTurn([lanes EXCEPT ![s] = Pump(lane)][l].queue, order)
  BY <1>6
<1>8. Waits(PhaseAfter(Begun(lane), ph), order)
  <2> SUFFICES ASSUME NEW r \in Runs, NEW q \in Runs, Rivals(r, q, order),
                      PhaseAfter(Begun(lane), ph)[r] = "waitSession"
               PROVE  PhaseAfter(Begun(lane), ph)[q] = "waitSession"
    BY DEF Waits
  <2>1. CASE SessionOf[r] = s
    <3>1. ph[r] = "waitSession" /\ r \notin Begun(lane)
      BY DEF PhaseAfter
    <3>2. ph[q] = "waitSession" /\ q \notin Begun(lane)
      BY <2>1, <3>1, StartsInOrder
    <3> QED BY <3>2 DEF PhaseAfter
  <2>2. CASE SessionOf[r] # s
    <3>1. r \notin Begun(lane) /\ q \notin Begun(lane)
      BY <1>1, <1>4, <2>2 DEF Rivals
    <3> QED BY <1>2, <3>1 DEF PhaseAfter, Waits
  <2> QED BY <2>1, <2>2
<1> QED BY <1>3, <1>5, <1>7, <1>8

\* The pump of no lane, too.
LEMMA NobodyInOrder ==
  ASSUME NEW ph \in [Runs -> Phases], NEW order, Orderly(ph, order, begun)
  PROVE  Joined(Nobody) = {} /\ Waits(PhaseAfter(Joined(Nobody), ph), order)
<1>1. Joined(Nobody) = {}
  BY EmptyQueue DEF Nobody, Joined
<1>2. PhaseAfter({}, ph) = ph
  BY DEF PhaseAfter
<1> QED BY <1>1, <1>2 DEF Orderly

\* A run that neither joins a queue nor leaves one.
LEMMA OrderFrame ==
  ASSUME NEW ph, NEW ph2, NEW order, NEW bg, Orderly(ph, order, bg),
         \A r \in Runs : \/ ph2[r] = ph[r]
                        \/ /\ ph[r] \in {"running", "attempt", "leaving"}
                           /\ ph2[r] \in {"running", "attempt", "leaving", "done"}
  PROVE  Orderly(ph2, order, bg)
<1>1. \A r \in Runs : /\ ph2[r] = "waitSession" <=> ph[r] = "waitSession"
                      /\ ph2[r] = "waitGlobal" <=> ph[r] = "waitGlobal"
  OBVIOUS
<1>2. Waits(ph2, order)
  BY <1>1 DEF Orderly, Waits
<1>3. \A r \in Runs : /\ ph2[r] = "new" <=> r \notin Entries(order)
                      /\ ph2[r] \in {"new", "waitSession", "waitGlobal"} => r \notin bg
                      /\ ph2[r] \in {"running", "attempt", "leaving"} => r \in bg
  BY DEF Orderly
<1> QED BY <1>1, <1>2, <1>3 DEF Orderly

\* A step that moves one run in or out of its session lane and pumps that lane.
LEMMA OneLane ==
  ASSUME IInv, NEW r \in Runs, NEW ph \in [Runs -> Phases], NEW lane,
         \A q \in Runs \ {r} : ph[q] = phase[q],
         phase[r] \notin {"waitGlobal", "running", "attempt"},
         ph[r] \notin {"waitGlobal", "running", "attempt", "new"},
         lane.generation = lanes[SessionOf[r]].generation,
         SessionAgrees(SessionOf[r], lane, ph, born),
         Proceed([lanes EXCEPT ![SessionOf[r]] = Pump(lane)], Joins(Starting(lane)), {}, ph),
         asked' \in Seq(Runs), Entries(asked) \cup {r} \subseteq Entries(asked'),
         Orderly(ph, asked', begun), InTurn(lane.queue, asked'),
         \A l \in Lanes \ {SessionOf[r]} : InTurn(lanes[l].queue, asked'),
         UNCHANGED <<handle, gateway, snapshot, restarts>>
  PROVE  IInv'
<1> DEFINE s  == SessionOf[r]
           ls == [lanes EXCEPT ![s] = Pump(lane)]
<1>1. /\ lanes \in [Lanes -> LaneStates] /\ born \in Borns /\ s \in Sessions /\ s \in Lanes
      /\ \A t \in Sessions : SessionAgrees(t, lanes[t], phase, born)
      /\ \A g \in Globals : GlobalAgrees(g, lanes[g], phase, born)
  BY LaneNames DEF IInv, LanesAgree
<1>2. ASSUME NEW t \in Sessions \ {s} PROVE SessionAgrees(t, lanes[t], ph, born)
  <2>1. \A q \in Runs : SessionOf[q] = t => ph[q] = phase[q] /\ born[q].session = born[q].session
    OBVIOUS
  <2> QED BY <1>1, <2>1, SessionFrame
<1>3. ASSUME NEW g \in Globals PROVE GlobalAgrees(g, lanes[g], ph, born)
  <2>1. \A q \in Runs : /\ ph[q] = "waitGlobal" <=> phase[q] = "waitGlobal"
                        /\ phase[q] \in {"running", "attempt"} => ph[q] \in {"running", "attempt"}
    OBVIOUS
  <2> QED BY <1>1, <2>1, GlobalFrame
<1>4. /\ Ready(ls, Joins(Starting(lane)), {}, ph)
      /\ ls[s].generation = lanes[s].generation
  BY <1>1, <1>2, <1>3, OneReady
<1>5. \A l \in Lanes : ls[l].generation = lanes[l].generation
  BY <1>1, <1>4
<1>6. Proceed(ls, Joins(Starting(lane)), {}, ph)
  OBVIOUS
<1>7. /\ gateway \in {"up", "draining", "closing"}
      /\ gateway # "up" => restarts > 0
      /\ \A l \in Lanes : lanes[l].generation = IF gateway = "up" THEN restarts ELSE restarts - 1
  BY DEF IInv, RestartsAgree
<1>8. \A q \in Runs : /\ phase[q] = "attempt" => ph[q] = "attempt"
                      /\ phase[q] = "new" => ph[q] = "new" \/ q \in Entries(asked')
  OBVIOUS
<1>9. PICK order : order = asked'
  OBVIOUS
<1>10. /\ Waits(PhaseAfter(Joined(Joins(Starting(lane))), ph), order)
       /\ \A l \in Lanes : InTurn(ls[l].queue, order)
       /\ \A q, p \in Joined(Joins(Starting(lane))) : q = p
  <2>1. InTurn(lane.queue, order) /\ \A l \in Lanes \ {s} : InTurn(lanes[l].queue, order)
    BY <1>9
  <2>2. Orderly(ph, order, begun)
    BY <1>9
  <2> QED BY <1>1, <2>1, <2>2, OneInOrder
<1> HIDE DEF ls
<1> QED BY <1>4, <1>5, <1>6, <1>7, <1>8, <1>9, <1>10, ViaProceed

\* The steps of a run.

LEMMA AppendEntries ==
  ASSUME NEW q \in Seq(Runs), NEW r \in Runs
  PROVE  Append(q, r) \in Seq(Runs) /\ Entries(Append(q, r)) = Entries(q) \cup {r}
<1> DEFINE a == Append(q, r)
           n == Len(q)
<1>1. /\ a \in Seq(Runs) /\ n \in Nat /\ DOMAIN q = 1 .. n /\ DOMAIN a = 1 .. n + 1
      /\ \A i \in 1 .. n : a[i] = q[i]
      /\ a[n + 1] = r
  OBVIOUS
<1> HIDE DEF a, n
<1>2. /\ \A i \in 1 .. n + 1 : i \in 1 .. n \/ i = n + 1
      /\ \A i \in 1 .. n : i \in 1 .. n + 1
      /\ n + 1 \in 1 .. n + 1
  BY <1>1
<1> QED BY <1>1, <1>2 DEF Entries, a

LEMMA Asks ==
  ASSUME IInv, NEW r \in Runs, RunEmbeddedPiAgent(r)
  PROVE  IInv'
<1> DEFINE s    == SessionOf[r]
           old  == lanes[s]
           lane == Push(old, r)
           ph   == [phase EXCEPT ![r] = "waitSession"]
<1>1. /\ s \in Sessions /\ SessionAgrees(s, old, phase, born) /\ phase \in [Runs -> Phases]
      /\ phase[r] = "new"
  BY LaneNames DEF IInv, LanesAgree, RunEmbeddedPiAgent
<1>2. /\ ph \in [Runs -> Phases] /\ ph[r] = "waitSession"
      /\ \A q \in Runs \ {r} : ph[q] = phase[q]
  BY <1>1 DEF Phases
<1>3. LaneShape(old) /\ r \notin Entries(old.queue)
  BY <1>1 DEF SessionAgrees
<1>4. /\ LaneShape(lane) /\ Entries(lane.queue) = Entries(old.queue) \cup {r}
      /\ lane.active = old.active /\ lane.generation = old.generation
      /\ lane.maxConcurrent = old.maxConcurrent
  BY <1>3, PushShape
<1> HIDE DEF lane, old, ph
<1>5. SessionAgrees(s, lane, ph, born)
  <2>1. \A q \in Runs : /\ ph[q] \in Held <=> phase[q] \in Held
                        /\ ph[q] = "waitSession" <=> (phase[q] = "waitSession" \/ q = r)
    BY <1>1, <1>2 DEF Held
  <2>2. {q \in Runs : SessionOf[q] = s /\ ph[q] = "waitSession"}
          = {q \in Runs : SessionOf[q] = s /\ phase[q] = "waitSession"} \cup {r}
    BY <2>1
  <2>3. {q \in Runs : SessionOf[q] = s /\ ph[q] \in Held /\ born[q].session = lane.generation}
          = {q \in Runs : SessionOf[q] = s /\ phase[q] \in Held /\ born[q].session = old.generation}
    BY <1>4, <2>1
  <2> QED BY <1>1, <1>4, <2>1, <2>2, <2>3 DEF SessionAgrees
<1>6. asked' = Append(asked, r) /\ asked \in Seq(Runs)
  BY DEF RunEmbeddedPiAgent, IInv, HistoryAgrees
<1>7. asked' \in Seq(Runs) /\ Entries(asked) \cup {r} \subseteq Entries(asked')
  BY <1>6, AppendEntries
<1>8. /\ Proceed([lanes EXCEPT ![s] = Pump(lane)], Joins(Starting(lane)), {}, ph)
      /\ UNCHANGED <<handle, gateway, snapshot, restarts>>
  BY DEF RunEmbeddedPiAgent, lane, old, ph
<1>9. /\ Orderly(ph, asked', begun) /\ InTurn(lane.queue, asked')
      /\ \A l \in Lanes \ {s} : InTurn(lanes[l].queue, asked')
  <2>1. /\ Orderly(phase, asked, begun) /\ \A l \in Lanes : InTurn(lanes[l].queue, asked)
        /\ InTurn(old.queue, asked)
    BY LaneNames DEF IInv, OrderAgrees, old
  <2>2. NoDuplicates(asked) /\ r \notin Entries(asked) /\ r \notin begun
    BY <1>1, <2>1 DEF Orderly
  <2>3. PICK more : more = Append(asked, r)
    OBVIOUS
  <2>4. /\ more \in Seq(Runs) /\ Entries(more) = Entries(asked) \cup {r} /\ NoDuplicates(more)
        /\ \A x, y : Before(x, y, asked) => Before(x, y, more)
        /\ \A x, y : Before(x, y, more) => Before(x, y, asked) \/ (y = r /\ x # r)
        /\ \A x \in Entries(asked) : Before(x, r, more)
    BY <1>6, <2>2, <2>3, AskedLast, AppendEntries
  <2>5. Orderly(ph, more, begun)
    <3>1. \A x \in Runs : /\ ph[x] = "new" <=> x \notin Entries(more)
                          /\ ph[x] \in {"new", "waitSession", "waitGlobal"} => x \notin begun
                          /\ ph[x] \in {"running", "attempt", "leaving"} => x \in begun
      BY <1>2, <2>1, <2>2, <2>4 DEF Orderly
    <3>2. \A x, y \in Runs : Rivals(x, y, more) => Rivals(x, y, asked) \/ (y = r /\ x # r)
      BY <2>4 DEF Rivals
    <3>3. \A x, y \in Runs : Rivals(x, y, asked) => x # r
      BY <2>2 DEF Rivals, Before, Entries
    <3>4. Waits(ph, more)
      BY <1>2, <2>1, <3>2, <3>3 DEF Orderly, Waits
    <3>5. \A x, y \in Runs : /\ Rivals(x, y, more) /\ GlobalOf[x] = GlobalOf[y]
                             /\ ph[x] = "waitGlobal"
                             => y \notin begun
      BY <1>2, <2>1, <2>2, <3>2, <3>3 DEF Orderly
    <3> QED BY <2>4, <3>1, <3>4, <3>5 DEF Orderly
  <2>6. \A l \in Lanes \ {s} : InTurn(lanes[l].queue, more)
    BY <2>1, <2>4 DEF InTurn
  <2>7. InTurn(lane.queue, more)
    <3>1. old.queue \in Seq(Tasks) /\ lane.queue = Append(old.queue, r)
      BY <1>3, PushType DEF LaneShape, LaneStates, Runs, lane
    <3>2. \A x \in Entries(old.queue) : Before(x, r, more)
      BY <1>1, <2>1, <2>4 DEF SessionAgrees, Orderly
    <3>3. InTurn(old.queue, more)
      BY <2>1, <2>4 DEF InTurn
    <3> QED BY <3>1, <3>2, <3>3, AppendInTurn
  <2> QED BY <1>6, <2>3, <2>5, <2>6, <2>7
<1> QED BY <1>1, <1>2, <1>4, <1>5, <1>7, <1>8, <1>9, OneLane DEF old

\* The session lane without a run that leaves it.
LEMMA SettlesSession ==
  ASSUME IInv, NEW r \in Runs, SessionSettles(r)
  PROVE  IInv'
<1> DEFINE s    == SessionOf[r]
           old  == lanes[s]
           lane == CompleteTask(old, r)
           ph   == [phase EXCEPT ![r] = "done"]
<1>1. /\ s \in Sessions /\ SessionAgrees(s, old, phase, born) /\ phase \in [Runs -> Phases]
      /\ phase[r] = "leaving" /\ LaneShape(old)
  BY LaneNames DEF IInv, LanesAgree, SessionSettles, SessionAgrees
<1>2. /\ ph \in [Runs -> Phases] /\ ph[r] = "done"
      /\ \A q \in Runs \ {r} : ph[q] = phase[q]
  BY <1>1 DEF Phases
<1>3. /\ LaneShape(lane) /\ lane.queue = old.queue /\ lane.active = old.active \ {r}
      /\ lane.generation = old.generation /\ lane.maxConcurrent = old.maxConcurrent
  BY <1>1, CompleteShape
<1> HIDE DEF ph
<1>4. \A q \in Runs : /\ ph[q] \in Held <=> (phase[q] \in Held /\ q # r)
                      /\ ph[q] = "waitSession" <=> phase[q] = "waitSession"
  BY <1>1, <1>2 DEF Held
<1>5. {q \in Runs : SessionOf[q] = s /\ ph[q] = "waitSession"}
        = {q \in Runs : SessionOf[q] = s /\ phase[q] = "waitSession"}
  BY <1>4
<1>6. {q \in Runs : SessionOf[q] = s /\ ph[q] \in Held /\ born[q].session = old.generation}
        = old.active \ {r}
  BY <1>1, <1>4 DEF SessionAgrees
<1>7. asked' = asked /\ asked' \in Seq(Runs) /\ r \in Entries(asked)
  BY <1>1 DEF SessionSettles, IInv, HistoryAgrees
<1>8. /\ Orderly(ph, asked', begun) /\ \A l \in Lanes : InTurn(lanes[l].queue, asked')
      /\ InTurn(lane.queue, asked')
  <2>1. Orderly(ph, asked, begun)
    BY <1>1, <1>2, OrderFrame DEF IInv, OrderAgrees
  <2>2. \A l \in Lanes : InTurn(lanes[l].queue, asked)
    BY DEF IInv, OrderAgrees
  <2> QED BY <1>1, <1>3, <1>7, <2>1, <2>2, LaneNames
<1>9. CASE born[r].session = old.generation
  <2>1. SessionAgrees(s, lane, ph, born)
    <3> HIDE DEF lane, old
    <3> QED BY <1>1, <1>3, <1>4, <1>5, <1>6 DEF SessionAgrees
  <2>2. /\ Proceed([lanes EXCEPT ![s] = Pump(lane)], Joins(Starting(lane)), {}, ph)
        /\ UNCHANGED <<handle, gateway, snapshot, restarts>>
    BY <1>9 DEF SessionSettles, ph
  <2> HIDE DEF lane
  <2> QED BY <1>1, <1>2, <1>3, <1>7, <1>8, <2>1, <2>2, OneLane
<1>10. CASE born[r].session # old.generation
  <2>1. SessionAgrees(s, old, ph, born)
    <3>1. r \notin old.active
      BY <1>1, <1>10 DEF SessionAgrees
    <3> HIDE DEF old
    <3> QED BY <1>1, <1>4, <1>5, <1>6, <3>1 DEF SessionAgrees
  <2>2. ASSUME NEW t \in Sessions PROVE SessionAgrees(t, lanes[t], ph, born)
    <3>1. CASE t = s
      BY <2>1, <3>1
    <3>2. CASE t # s
      <4>1. \A q \in Runs : SessionOf[q] = t => ph[q] = phase[q] /\ born[q].session = born[q].session
        BY <1>2, <3>2
      <4> QED BY <4>1, SessionFrame DEF IInv, LanesAgree
    <3> QED BY <3>1, <3>2
  <2>3. ASSUME NEW g \in Globals PROVE GlobalAgrees(g, lanes[g], ph, born)
    <3>1. \A q \in Runs : /\ ph[q] = "waitGlobal" <=> phase[q] = "waitGlobal"
                          /\ phase[q] \in {"running", "attempt"} => ph[q] \in {"running", "attempt"}
      BY <1>1, <1>2
    <3> QED BY <3>1, GlobalFrame DEF IInv, LanesAgree
  <2>4. Ready(lanes, Nobody, {}, ph)
    BY <1>2, <2>2, <2>3, NobodyReady DEF IInv, LanesAgree
  <2>5. Proceed(lanes, Nobody, {}, ph) /\ UNCHANGED <<handle, gateway, snapshot, restarts>>
    BY <1>10 DEF SessionSettles, ph
  <2>6. \A q \in Runs : /\ phase[q] = "attempt" => ph[q] = "attempt"
                        /\ phase[q] = "new" => ph[q] = "new" \/ q \in Entries(asked')
    BY <1>1, <1>2
  <2>7. Joined(Nobody) = {} /\ Waits(PhaseAfter(Joined(Nobody), ph), asked')
    BY <1>2, <1>8, NobodyInOrder
  <2> QED BY <1>7, <1>8, <2>4, <2>5, <2>6, <2>7, ViaProceed DEF IInv, RestartsAgree
<1> QED BY <1>9, <1>10

LEMMA SettlesGlobal ==
  ASSUME IInv, NEW r \in Runs, RunSettles(r)
  PROVE  IInv'
<1> DEFINE g    == GlobalOf[r]
           old  == lanes[g]
           lane == CompleteTask(old, r)
           ph   == [phase EXCEPT ![r] = "leaving"]
<1>1. /\ g \in Globals /\ g \in Lanes /\ GlobalAgrees(g, old, phase, born)
      /\ phase \in [Runs -> Phases] /\ phase[r] = "running" /\ LaneShape(old)
  BY LaneNames DEF IInv, LanesAgree, RunSettles, GlobalAgrees
<1>2. /\ ph \in [Runs -> Phases] /\ ph[r] = "leaving"
      /\ \A q \in Runs \ {r} : ph[q] = phase[q]
  BY <1>1 DEF Phases
<1>3. /\ LaneShape(lane) /\ lane.queue = old.queue /\ lane.active = old.active \ {r}
      /\ lane.generation = old.generation
  BY <1>1, CompleteShape
<1> HIDE DEF ph
<1>4. ASSUME NEW s \in Sessions PROVE SessionAgrees(s, lanes[s], ph, born)
  <2>1. \A q \in Runs : /\ ph[q] = phase[q] \/ (ph[q] \in Held /\ phase[q] \in Held)
                        /\ born[q].session = born[q].session
    BY <1>1, <1>2 DEF Held
  <2> QED BY <2>1, SessionFrame DEF IInv, LanesAgree
<1>5. ASSUME NEW h \in Globals \ {g} PROVE GlobalAgrees(h, lanes[h], ph, born)
  <2>1. \A q \in Runs : GlobalOf[q] = h =>
           /\ ph[q] = "waitGlobal" <=> phase[q] = "waitGlobal"
           /\ phase[q] \in {"running", "attempt"} => /\ ph[q] \in {"running", "attempt"}
                                                     /\ born[q].global = born[q].global
    BY <1>2
  <2> QED BY <2>1, GlobalFrame DEF IInv, LanesAgree
<1>6. {q \in Runs : GlobalOf[q] = g /\ ph[q] = "waitGlobal"}
        = {q \in Runs : GlobalOf[q] = g /\ phase[q] = "waitGlobal"}
  BY <1>1, <1>2
<1>7. /\ asked' = asked /\ asked' \in Seq(Runs)
      /\ \A q \in Runs : /\ phase[q] = "attempt" => ph[q] = "attempt"
                         /\ phase[q] = "new" => ph[q] = "new" \/ q \in Entries(asked')
  BY <1>1, <1>2 DEF RunSettles, IInv, HistoryAgrees
<1>8. /\ Orderly(ph, asked', begun) /\ \A l \in Lanes : InTurn(lanes[l].queue, asked')
      /\ Joined(Nobody) = {} /\ Waits(PhaseAfter(Joined(Nobody), ph), asked')
  <2>1. Orderly(ph, asked, begun)
    BY <1>1, <1>2, OrderFrame DEF IInv, OrderAgrees
  <2>2. \A l \in Lanes : InTurn(lanes[l].queue, asked)
    BY DEF IInv, OrderAgrees
  <2>3. Joined(Nobody) = {} /\ Waits(PhaseAfter(Joined(Nobody), ph), asked)
    BY <1>2, <2>1, NobodyInOrder
  <2> QED BY <1>7, <2>1, <2>2, <2>3
<1>9. CASE born[r].global = old.generation
  <2> DEFINE ls == [lanes EXCEPT ![g] = lane]
  <2>1. GlobalAgrees(g, lane, ph, born)
    <3> HIDE DEF lane, old
    <3> QED BY <1>1, <1>2, <1>3, <1>6 DEF GlobalAgrees
  <2>2. /\ ls \in [Lanes -> LaneStates] /\ ls[g] = lane
        /\ \A l \in Lanes \ {g} : ls[l] = lanes[l]
        /\ \A l \in Lanes : ls[l].generation = lanes[l].generation
    BY <1>1, <1>3 DEF IInv, LanesAgree, LaneShape
  <2>3. /\ Proceed(ls, Nobody, {g}, ph) /\ UNCHANGED <<handle, gateway, snapshot, restarts>>
    BY <1>9 DEF RunSettles, ph
  <2>4. \A l \in Lanes : InTurn(ls[l].queue, asked')
    BY <1>1, <1>3, <1>8, <2>2
  <2> HIDE DEF ls, lane
  <2>5. \A s \in Sessions : SessionAgrees(s, ls[s], ph, born)
    BY <1>1, <1>4, <2>2, LaneNames
  <2>6. \A h \in Globals : GlobalAgrees(h, ls[h], ph, born)
    BY <1>5, <2>1, <2>2, LaneNames
  <2>7. Ready(ls, Nobody, {g}, ph)
    BY <1>1, <1>2, <2>2, <2>5, <2>6, NobodyReady DEF IInv, LanesAgree
  <2>8. PICK js, pumped : js = Nobody /\ pumped = {g}
    OBVIOUS
  <2> HIDE DEF g, old, ph
  <2>9. Ready(ls, js, pumped, ph) /\ Proceed(ls, js, pumped, ph)
    BY <2>3, <2>7, <2>8
  <2>10. /\ Waits(PhaseAfter(Joined(js), ph), asked')
         /\ \A q, p \in Joined(js) : SessionOf[q] = SessionOf[p] => q = p
    BY <1>8, <2>8
  <2>11. /\ gateway' \in {"up", "draining", "closing"} /\ (gateway' # "up" => restarts > 0)
         /\ \A l \in Lanes : ls[l].generation = IF gateway' = "up" THEN restarts ELSE restarts - 1
    BY <2>2, <2>3 DEF IInv, RestartsAgree
  <2>12. UNCHANGED <<handle, snapshot, restarts>>
    BY <2>3
  <2>13. Entries(asked) \subseteq Entries(asked') /\ Orderly(ph, asked', begun)
    BY <1>7, <1>8
  <2> QED BY <1>7, <2>4, <2>9, <2>10, <2>11, <2>12, <2>13, ViaProceed
<1>10. CASE born[r].global # old.generation
  <2>1. GlobalAgrees(g, old, ph, born)
    <3> HIDE DEF old
    <3> QED BY <1>1, <1>2, <1>6, <1>10 DEF GlobalAgrees
  <2>2. \A h \in Globals : GlobalAgrees(h, lanes[h], ph, born)
    BY <1>5, <2>1
  <2>3. Ready(lanes, Nobody, {}, ph)
    BY <1>2, <1>4, <2>2, NobodyReady DEF IInv, LanesAgree
  <2>4. Proceed(lanes, Nobody, {}, ph) /\ UNCHANGED <<handle, gateway, snapshot, restarts>>
    BY <1>10 DEF RunSettles, ph
  <2> QED BY <1>7, <1>8, <2>3, <2>4, ViaProceed DEF IInv, RestartsAgree
<1> QED BY <1>9, <1>10

\* The start and the end of an attempt change no lane.
LEMMA Attempts ==
  ASSUME IInv, NEW r \in Runs, AttemptBegins(r) \/ AttemptEnds(r)
  PROVE  IInv'
<1>1. /\ phase \in [Runs -> Phases] /\ SessionOf[r] \in Sessions
      /\ phase[r] \in {"running", "attempt"}
  BY LaneNames DEF IInv, LanesAgree, AttemptBegins, AttemptEnds
<1>2. /\ phase' \in [Runs -> Phases] /\ phase'[r] \in {"running", "attempt"}
      /\ \A q \in Runs \ {r} : phase'[q] = phase[q]
      /\ UNCHANGED <<lanes, born, gateway, snapshot, restarts, asked, begun>>
  BY <1>1 DEF AttemptBegins, AttemptEnds, Phases
<1>3. ASSUME NEW s \in Sessions PROVE SessionAgrees(s, lanes'[s], phase', born')
  <2>1. \A q \in Runs : /\ phase'[q] = phase[q] \/ (phase'[q] \in Held /\ phase[q] \in Held)
                        /\ born'[q].session = born[q].session
    BY <1>1, <1>2 DEF Held
  <2>2. SessionAgrees(s, lanes'[s], phase, born)
    BY <1>2 DEF IInv, LanesAgree
  <2> QED BY <2>1, <2>2, SessionFrame
<1>4. ASSUME NEW g \in Globals PROVE GlobalAgrees(g, lanes'[g], phase', born')
  <2>1. \A q \in Runs :
           /\ phase'[q] = "waitGlobal" <=> phase[q] = "waitGlobal"
           /\ phase[q] \in {"running", "attempt"} => /\ phase'[q] \in {"running", "attempt"}
                                                     /\ born'[q].global = born[q].global
    BY <1>1, <1>2
  <2>2. GlobalAgrees(g, lanes'[g], phase, born)
    BY <1>2 DEF IInv, LanesAgree
  <2> QED BY <2>1, <2>2, GlobalFrame
<1>5. LanesAgree'
  BY <1>2, <1>3, <1>4 DEF IInv, LanesAgree
<1>6. HandlesAgree'
  <2>1. CASE AttemptBegins(r)
    <3>1. phase'[r] = "attempt" /\ handle' = [handle EXCEPT ![SessionOf[r]] = r]
      BY <1>1, <2>1 DEF AttemptBegins
    <3>2. phase[r] # "attempt"
      BY <2>1 DEF AttemptBegins
    <3> QED BY <1>1, <1>2, <3>1, <3>2 DEF IInv, HandlesAgree
  <2>2. CASE AttemptEnds(r)
    <3>1. handle' = [handle EXCEPT ![SessionOf[r]] = IF @ = r THEN NoRun ELSE @]
      BY <2>2 DEF AttemptEnds
    <3>2. ASSUME NEW s \in Sessions
          PROVE  /\ handle'[s] \in Runs \cup {NoRun}
                 /\ handle'[s] # NoRun => handle'[s] = handle[s] /\ handle[s] # r
      BY <1>1, <3>1 DEF IInv, HandlesAgree
    <3>3. handle' \in [Sessions -> Runs \cup {NoRun}]
      BY <1>1, <3>1 DEF IInv, HandlesAgree
    <3> QED BY <1>2, <3>2, <3>3 DEF IInv, HandlesAgree
  <2> QED BY <2>1, <2>2
<1>7. RestartsAgree' /\ HistoryAgrees'
  BY <1>1, <1>2 DEF IInv, RestartsAgree, HistoryAgrees
<1>8. OrderAgrees'
  <2>1. Orderly(phase', asked, begun)
    BY <1>1, <1>2, OrderFrame DEF IInv, OrderAgrees
  <2> QED BY <1>2, <2>1 DEF IInv, OrderAgrees
<1> QED BY <1>5, <1>6, <1>7, <1>8 DEF IInv

\* What waits for the session lane ends there.
LEMMA Clears ==
  ASSUME IInv, NEW s \in Sessions, ClearSessionLane(s)
  PROVE  IInv'
<1> DEFINE old  == lanes[s]
           lane == Clear(old)
<1>1. /\ lanes \in [Lanes -> LaneStates] /\ s \in Lanes /\ SessionAgrees(s, old, phase, born)
      /\ phase \in [Runs -> Phases]
  BY LaneNames DEF IInv, LanesAgree
<1>2. /\ lane \in LaneStates /\ lane.queue = <<>> /\ lane.active = old.active
      /\ lane.generation = old.generation /\ lane.maxConcurrent = old.maxConcurrent
  <2>1. old \in LaneStates
    BY <1>1
  <2>2. lane.maxConcurrent = old.maxConcurrent
    BY <2>1 DEF Clear, LaneStates
  <2> QED BY <2>1, <2>2, ClearType
<1>3. /\ lanes' \in [Lanes -> LaneStates] /\ lanes'[s] = lane
      /\ \A l \in Lanes \ {s} : lanes'[l] = lanes[l]
      /\ \A l \in Lanes : lanes'[l].generation = lanes[l].generation
  BY <1>1, <1>2 DEF ClearSessionLane
<1> HIDE DEF lane
<1>4. /\ phase' = [r \in Runs |-> IF r \in Entries(old.queue) THEN "done" ELSE phase[r]]
      /\ UNCHANGED <<born, handle, gateway, snapshot, restarts, asked, begun>>
  BY DEF ClearSessionLane
<1>5. Entries(old.queue) = {r \in Runs : SessionOf[r] = s /\ phase[r] = "waitSession"}
  BY <1>1 DEF SessionAgrees
<1>6. \A r \in Runs : /\ phase'[r] = IF SessionOf[r] = s /\ phase[r] = "waitSession"
                                     THEN "done" ELSE phase[r]
  BY <1>4, <1>5
<1>7. phase' \in [Runs -> Phases]
  BY <1>1, <1>4 DEF Phases
<1>8. SessionAgrees(s, lane, phase', born')
  <2>1. Entries(lane.queue) = {} /\ NoDuplicates(lane.queue)
    BY <1>2, EmptyQueue
  <2>2. \A r \in Runs : phase'[r] \in Held <=> phase[r] \in Held
    BY <1>6 DEF Held
  <2>3. {r \in Runs : SessionOf[r] = s /\ phase'[r] = "waitSession"} = {}
    BY <1>6
  <2>4. {r \in Runs : SessionOf[r] = s /\ phase'[r] \in Held /\ born'[r].session = lane.generation}
          = {r \in Runs : SessionOf[r] = s /\ phase[r] \in Held /\ born[r].session = old.generation}
    BY <1>2, <1>4, <2>2
  <2> HIDE DEF old
  <2> QED BY <1>1, <1>2, <1>4, <2>1, <2>2, <2>3, <2>4 DEF SessionAgrees, LaneShape
<1>9. ASSUME NEW t \in Sessions PROVE SessionAgrees(t, lanes'[t], phase', born')
  <2>1. CASE t = s
    BY <1>3, <1>8, <2>1
  <2>2. CASE t # s
    <3>1. \A r \in Runs : SessionOf[r] = t => phase'[r] = phase[r] /\ born'[r].session = born[r].session
      BY <1>4, <1>6, <2>2
    <3>2. SessionAgrees(t, lanes'[t], phase, born)
      BY <1>3, <2>2, LaneNames DEF IInv, LanesAgree
    <3> QED BY <3>1, <3>2, SessionFrame
  <2> QED BY <2>1, <2>2
<1>10. ASSUME NEW g \in Globals PROVE GlobalAgrees(g, lanes'[g], phase', born')
  <2>1. \A r \in Runs :
           /\ phase'[r] = "waitGlobal" <=> phase[r] = "waitGlobal"
           /\ phase[r] \in {"running", "attempt"} => /\ phase'[r] \in {"running", "attempt"}
                                                     /\ born'[r].global = born[r].global
    BY <1>4, <1>6
  <2>2. GlobalAgrees(g, lanes'[g], phase, born)
    BY <1>3, LaneNames DEF IInv, LanesAgree
  <2> QED BY <2>1, <2>2, GlobalFrame
<1>11. LanesAgree'
  BY <1>3, <1>4, <1>7, <1>9, <1>10 DEF IInv, LanesAgree
<1>12. HandlesAgree' /\ RestartsAgree' /\ HistoryAgrees'
  BY <1>3, <1>4, <1>6 DEF IInv, HandlesAgree, RestartsAgree, HistoryAgrees
<1>13. OrderAgrees'
  <2>1. Orderly(phase, asked, begun) /\ \A l \in Lanes : InTurn(lanes[l].queue, asked)
    BY DEF IInv, OrderAgrees
  <2>2. \A l \in Lanes : InTurn(lanes'[l].queue, asked)
    <3>1. InTurn(lane.queue, asked)
      BY <1>2 DEF InTurn
    <3> QED BY <1>3, <2>1, <3>1
  <2>3. Waits(phase', asked)
    BY <1>6, <2>1 DEF Orderly, Waits, Rivals
  <2>4. \A r \in Runs : /\ phase'[r] = "new" <=> r \notin Entries(asked)
                        /\ phase'[r] \in {"new", "waitSession", "waitGlobal"} => r \notin begun
                        /\ phase'[r] \in {"running", "attempt", "leaving"} => r \in begun
                        /\ phase'[r] = "waitGlobal" => phase[r] = "waitGlobal"
    BY <1>6, <2>1 DEF Orderly
  <2>5. Orderly(phase', asked, begun)
    BY <2>1, <2>3, <2>4 DEF Orderly
  <2> QED BY <1>4, <2>2, <2>5 DEF OrderAgrees
<1> QED BY <1>11, <1>12, <1>13 DEF IInv

-----------------------------------------------------------------------------
(* The run loop.                                                             *)

\* The request and the drain leave the lanes and the runs alone.
LEMMA Drains ==
  ASSUME IInv, RequestRestart \/ Drained
  PROVE  IInv'
<1>1. UNCHANGED <<lanes, phase, born, handle, asked, begun>>
  BY DEF RequestRestart, Drained
<1>2. LanesAgree' /\ HandlesAgree' /\ OrderAgrees'
  BY <1>1 DEF IInv, LanesAgree, HandlesAgree, OrderAgrees
<1>3. restarts \in Nat
  BY RestartsAssumption DEF IInv, RestartsAgree
<1>4. CASE RequestRestart
  <2>1. RestartsAgree'
    BY <1>3, <1>4, RestartsAssumption DEF RequestRestart, IInv, RestartsAgree
  <2>2. HistoryAgrees'
    BY <1>1, <1>4 DEF RequestRestart, Active, IInv, HistoryAgrees
  <2> QED BY <1>2, <2>1, <2>2 DEF IInv
<1>5. CASE Drained
  <2>1. RestartsAgree'
    BY <1>5 DEF Drained, IInv, RestartsAgree
  <2>2. HistoryAgrees'
    BY <1>1, <1>5 DEF Drained, IInv, HistoryAgrees
  <2> QED BY <1>2, <2>1, <2>2 DEF IInv
<1> QED BY <1>4, <1>5

\* An order of the runs of a finite set lists each of them once.
LEMMA OrderLists ==
  ASSUME NEW R, R \subseteq Runs, IsFiniteSet(R), NEW o \in Orders(R)
  PROVE  o \in Seq(Tasks) /\ NoDuplicates(o) /\ Entries(o) = R
<1> DEFINE n == Cardinality(R)
<1>1. n \in Nat
  BY FS_CardinalityType
<1>2. o \in [1 .. n -> R] /\ DOMAIN o = 1 .. n
  BY DEF Orders
<1>3. \A i, j \in 1 .. n : o[i] = o[j] => i = j
  BY <1>2 DEF Orders
<1>4. IsFiniteSet(1 .. n) /\ Cardinality(1 .. n) = n
  BY <1>1, FS_Interval
<1>5. o \in Injection(1 .. n, R)
  BY <1>2, <1>3 DEF Injection, IsInjective
<1>6. o \in Surjection(1 .. n, R)
  BY <1>4, <1>5, FS_Injection
<1>7. Entries(o) = R
  <2>1. \A r \in R : \E i \in 1 .. n : o[i] = r
    BY <1>6 DEF Surjection
  <2> HIDE DEF n
  <2> QED BY <1>2, <2>1 DEF Entries
<1>8. o \in Seq(Tasks)
  <2>1. o \in [1 .. n -> Tasks]
    BY <1>2 DEF Runs
  <2> HIDE DEF n
  <2> QED BY <1>1, <2>1, SeqDef
<1> QED BY <1>2, <1>3, <1>7, <1>8 DEF NoDuplicates

\* A lane after the reset: no run is of its new generation.
LEMMA ResetAgrees ==
  ASSUME IInv
  PROVE  /\ \A l \in Lanes : /\ LaneShape(Reset(lanes[l]))
                             /\ Reset(lanes[l]).generation = lanes[l].generation + 1
                             /\ Reset(lanes[l]).queue = lanes[l].queue
                             /\ Reset(lanes[l]).active = {}
         /\ \A s \in Sessions : SessionAgrees(s, Reset(lanes[s]), phase, born)
         /\ \A g \in Globals : GlobalAgrees(g, Reset(lanes[g]), phase, born)
<1>1. ASSUME NEW l \in Lanes
      PROVE  /\ Reset(lanes[l]) \in LaneStates /\ IsFiniteSet(Reset(lanes[l]).active)
             /\ Reset(lanes[l]).generation = lanes[l].generation + 1
             /\ Reset(lanes[l]).queue = lanes[l].queue /\ Reset(lanes[l]).active = {}
             /\ Reset(lanes[l]).maxConcurrent = lanes[l].maxConcurrent
             /\ lanes[l].generation \in Nat
  <2>1. lanes[l] \in LaneStates
    BY DEF IInv, LanesAgree
  <2>2. Reset(lanes[l]).maxConcurrent = lanes[l].maxConcurrent
    BY <2>1 DEF Reset, LaneStates
  <2>3. lanes[l].generation \in Nat
    BY <2>1 DEF LaneStates
  <2> QED BY <2>1, <2>2, <2>3, ResetType, FS_EmptySet
<1>2. ASSUME NEW s \in Sessions PROVE SessionAgrees(s, Reset(lanes[s]), phase, born)
  <2> DEFINE old == lanes[s]
             lane == Reset(old)
  <2>1. /\ SessionAgrees(s, old, phase, born) /\ lane \in LaneStates /\ IsFiniteSet(lane.active)
        /\ lane.generation = old.generation + 1 /\ lane.queue = old.queue /\ lane.active = {}
        /\ lane.maxConcurrent = old.maxConcurrent /\ old.generation \in Nat
    BY <1>1, LaneNames DEF IInv, LanesAgree
  <2>2. \A r \in Runs : born[r].session \in Nat
    BY DEF IInv, LanesAgree, Borns
  <2> HIDE DEF old, lane
  <2>3. \A r \in Runs : SessionOf[r] = s /\ phase[r] \in Held => /\ born[r].session <= lane.generation
                                                                /\ born[r].session # lane.generation
    BY <2>1, <2>2 DEF SessionAgrees
  <2>4. lane.active = {r \in Runs : /\ SessionOf[r] = s /\ phase[r] \in Held
                                    /\ born[r].session = lane.generation}
    BY <2>1, <2>3
  <2>5. SessionAgrees(s, lane, phase, born)
    BY <2>1, <2>3, <2>4 DEF SessionAgrees, LaneShape
  <2> QED BY <2>5 DEF lane, old
<1>3. ASSUME NEW g \in Globals PROVE GlobalAgrees(g, Reset(lanes[g]), phase, born)
  <2>1. GlobalAgrees(g, lanes[g], phase, born)
    BY DEF IInv, LanesAgree
  <2> QED BY <1>1, <2>1, LaneNames DEF GlobalAgrees, LaneShape
<1>4. ASSUME NEW l \in Lanes PROVE NoDuplicates(lanes[l].queue)
  <2>1. l \in Sessions \/ l \in Globals
    BY DEF Lanes
  <2> QED BY <2>1 DEF IInv, LanesAgree, SessionAgrees, GlobalAgrees, LaneShape
<1> QED BY <1>1, <1>2, <1>3, <1>4 DEF LaneShape

\* The restart: every session lane starts the run at its head, in any order.
LEMMA Resets ==
  ASSUME IInv, ResetAllLanes
  PROVE  IInv'
<1> DEFINE reset == [l \in Lanes |-> Reset(lanes[l])]
           next(g) == {r \in Runs : /\ GlobalOf[r] = g /\ reset[SessionOf[r]].queue # <<>>
                                    /\ r = Head(reset[SessionOf[r]].queue)}
           ls == [l \in Lanes |-> IF l \in Sessions THEN Pump(reset[l]) ELSE reset[l]]
<1>1. PICK joins \in [Globals -> UNION {Orders(next(g)) : g \in Globals}] :
        /\ \A g \in Globals : joins[g] \in Orders(next(g))
        /\ Proceed(ls, joins, Globals, phase)
  BY DEF ResetAllLanes
<1>2. /\ gateway = "closing" /\ gateway' = "up"
      /\ UNCHANGED <<handle, snapshot, restarts, asked>>
  BY DEF ResetAllLanes
<1>3. \A l \in Lanes : /\ reset[l] = Reset(lanes[l]) /\ LaneShape(reset[l])
                       /\ reset[l].generation = lanes[l].generation + 1
                       /\ reset[l].queue = lanes[l].queue /\ reset[l].active = {}
  BY ResetAgrees
<1>4. /\ \A s \in Sessions : SessionAgrees(s, reset[s], phase, born)
      /\ \A g \in Globals : GlobalAgrees(g, reset[g], phase, born)
  BY ResetAgrees, LaneNames
<1> HIDE DEF reset
<1>5. ASSUME NEW s \in Sessions
      PROVE  /\ Begun(reset[s]) = IF reset[s].queue # <<>> THEN {Head(reset[s].queue)} ELSE {}
             /\ Begun(reset[s]) \subseteq {r \in Runs : SessionOf[r] = s /\ phase[r] = "waitSession"}
             /\ LaneShape(Pump(reset[s])) /\ Pump(reset[s]).generation = reset[s].generation
  <2>1. /\ LaneShape(reset[s]) /\ reset[s].maxConcurrent = 1 /\ reset[s].active = {}
        /\ Entries(reset[s].queue) = {r \in Runs : SessionOf[r] = s /\ phase[r] = "waitSession"}
    BY <1>3, <1>4, LaneNames DEF SessionAgrees
  <2>2. /\ Begun(reset[s]) \subseteq Entries(reset[s].queue)
        /\ Pump(reset[s]) \in LaneStates /\ Pump(reset[s]).generation = reset[s].generation
        /\ NoDuplicates(Pump(reset[s]).queue)
    BY <2>1, StartingEntries, PumpType, PumpQueue, PumpSplits DEF Begun, LaneShape
  <2>3. IsFiniteSet(Pump(reset[s]).active)
    BY <2>1, PumpLimit DEF LaneShape
  <2>4. Begun(reset[s]) = IF reset[s].queue # <<>> THEN {Head(reset[s].queue)} ELSE {}
    BY <2>1, StartsOne DEF Begun
  <2> QED BY <2>1, <2>2, <2>3, <2>4 DEF LaneShape
\* The runs that start are those at the head of their session lanes.
<1>6. \A r \in Runs, g \in Globals : r \in next(g) <=> GlobalOf[r] = g /\ r \in Begun(reset[SessionOf[r]])
  <2> SUFFICES ASSUME NEW r \in Runs, NEW g \in Globals
               PROVE  r \in next(g) <=> GlobalOf[r] = g /\ r \in Begun(reset[SessionOf[r]])
    OBVIOUS
  <2> DEFINE q == reset[SessionOf[r]].queue
  <2>1. Begun(reset[SessionOf[r]]) = IF q # <<>> THEN {Head(q)} ELSE {}
    BY <1>5, LaneNames
  <2>2. r \in next(g) <=> GlobalOf[r] = g /\ q # <<>> /\ r = Head(q)
    OBVIOUS
  <2> HIDE DEF q, next
  <2> QED BY <2>1, <2>2
<1>7. ASSUME NEW g \in Globals
      PROVE  /\ joins[g] \in Seq(Tasks) /\ NoDuplicates(joins[g]) /\ Entries(joins[g]) = next(g)
             /\ \A r \in next(g) : GlobalOf[r] = g /\ phase[r] = "waitSession"
  <2>1. ASSUME NEW r \in next(g)
        PROVE  r \in Runs /\ GlobalOf[r] = g /\ phase[r] = "waitSession"
    <3>1. r \in Runs
      OBVIOUS
    <3> HIDE DEF next, ls
    <3>2. GlobalOf[r] = g /\ r \in Begun(reset[SessionOf[r]])
      BY <1>6, <3>1
    <3>3. PICK s \in Sessions : s = SessionOf[r]
      BY <3>1, LaneNames
    <3>4. r \in {x \in Runs : SessionOf[x] = s /\ phase[x] = "waitSession"}
      BY <1>5, <3>2, <3>3
    <3> QED BY <3>2, <3>4
  <2>2. IsFiniteSet(next(g))
    <3>1. IsFiniteSet(Entries(asked))
      <4> DEFINE n == Len(asked)
      <4>1. asked \in Seq(Runs) /\ n \in Nat /\ DOMAIN asked = 1 .. n
        BY DEF IInv, HistoryAgrees
      <4>2. asked \in Surjection(1 .. n, Entries(asked))
        <5>1. asked \in [1 .. n -> Entries(asked)]
          BY <4>1 DEF Entries
        <5> QED BY <4>1, <5>1 DEF Surjection, Entries
      <4> QED BY <4>1, <4>2, FS_Interval, FS_Surjection
    <3>2. next(g) \subseteq Entries(asked)
      BY <2>1 DEF IInv, HistoryAgrees
    <3> QED BY <3>1, <3>2, FS_Subset
  <2>3. next(g) \subseteq Runs /\ joins[g] \in Orders(next(g))
    BY <1>1
  <2> HIDE DEF next
  <2> QED BY <2>1, <2>2, <2>3, OrderLists
<1>8. joins \in [Globals -> Seq(Tasks)]
  BY <1>1, <1>7
<1>9. /\ ls \in [Lanes -> LaneStates]
      /\ \A s \in Sessions : ls[s] = Pump(reset[s])
      /\ \A g \in Globals : ls[g] = reset[g]
      /\ \A l \in Lanes : ls[l].generation = lanes[l].generation + 1
  <2>1. \A l \in Lanes : IF l \in Sessions THEN ls[l] = Pump(reset[l]) ELSE ls[l] = reset[l]
    OBVIOUS
  <2>2. \A l \in Lanes : ls[l] \in LaneStates /\ ls[l].generation = lanes[l].generation + 1
    BY <1>3, <1>5, <2>1 DEF LaneShape
  <2> QED BY <2>1, <2>2, LaneNames
<1>10. \A r \in Runs : r \in Joined(joins) <=> r \in Begun(reset[SessionOf[r]])
  <2>1. \A r \in Runs : r \in Joined(joins) <=> \E g \in Globals : r \in next(g)
    <3> HIDE DEF next
    <3> QED BY <1>7 DEF Joined
  <2> HIDE DEF next
  <2> QED BY <1>6, <2>1, LaneNames
<1> HIDE DEF next, ls
<1>11. ASSUME NEW s \in Sessions
       PROVE  SessionAgrees(s, ls[s], PhaseAfter(Joined(joins), phase),
                            BornAfter(Joined(joins), [t \in Lanes |-> ls[t].generation], born))
  <2> DEFINE gen == [t \in Lanes |-> ls[t].generation]
  <2>1. gen[s] = reset[s].generation
    BY <1>5, <1>9, LaneNames
  <2> HIDE DEF gen
  <2>2. SessionAgrees(s, Pump(reset[s]), PhaseAfter(Joined(joins), phase),
                      BornAfter(Joined(joins), gen, born))
    BY <1>4, <1>10, <2>1, SessionPump
  <2> QED BY <1>9, <2>2 DEF gen
<1>12. Ready(ls, joins, Globals, phase)
  <2>1. phase \in [Runs -> Phases] /\ born \in Borns
    BY DEF IInv, LanesAgree
  <2>2. \A g \in Globals : /\ NoDuplicates(joins[g]) /\ GlobalAgrees(g, ls[g], phase, born)
                           /\ \A r \in Entries(joins[g]) : GlobalOf[r] = g /\ phase[r] = "waitSession"
    BY <1>4, <1>7, <1>9
  <2> QED BY <1>8, <1>9, <1>11, <2>1, <2>2 DEF Ready
<1>13. \A l \in Lanes : ls[l].generation = restarts
  <2>1. restarts \in Nat /\ \A l \in Lanes : lanes[l].generation = restarts - 1
    BY <1>2, RestartsAssumption DEF IInv, RestartsAgree
  <2> QED BY <1>9, <2>1
<1>14. /\ asked' \in Seq(Runs) /\ Entries(asked) \subseteq Entries(asked')
       /\ \A r \in Runs : /\ phase[r] = "attempt" => phase[r] = "attempt"
                          /\ phase[r] = "new" => phase[r] = "new" \/ r \in Entries(asked')
  BY <1>2 DEF IInv, HistoryAgrees
\* The order: each session lane starts the run that was asked for first.
<1>15. PICK order : order = asked'
  OBVIOUS
<1>16. /\ Orderly(phase, order, begun) /\ \A l \in Lanes : InTurn(reset[l].queue, order)
       /\ order \in Seq(Runs) /\ NoDuplicates(order) /\ Waits(phase, order)
  <2>1. order = asked
    BY <1>2, <1>15
  <2> QED BY <1>3, <2>1 DEF IInv, OrderAgrees, Orderly
<1>17. \A l \in Lanes : InTurn(ls[l].queue, order)
  <2> SUFFICES ASSUME NEW l \in Lanes PROVE InTurn(ls[l].queue, order)
    OBVIOUS
  <2>1. CASE l \in Sessions
    <3>1. InTurn(Pump(reset[l]).queue, order)
      BY <1>3, <1>16, PumpInTurn
    <3> QED BY <1>9, <2>1, <3>1
  <2>2. CASE l \in Globals
    BY <1>9, <1>16, <2>2
  <2> QED BY <2>1, <2>2 DEF Lanes
<1>18. Waits(PhaseAfter(Joined(joins), phase), order)
  <2> SUFFICES ASSUME NEW r \in Runs, NEW q \in Runs, Rivals(r, q, order),
                      PhaseAfter(Joined(joins), phase)[r] = "waitSession"
               PROVE  PhaseAfter(Joined(joins), phase)[q] = "waitSession"
    BY DEF Waits
  <2> DEFINE s == SessionOf[r]
  <2>1. phase[r] = "waitSession" /\ r \notin Begun(reset[s])
    BY <1>10 DEF PhaseAfter
  <2>2. /\ SessionAgrees(s, reset[s], phase, born) /\ InTurn(reset[s].queue, order)
        /\ s = SessionOf[q]
    BY <1>4, <1>16, LaneNames DEF Rivals
  <2> HIDE DEF s
  <2>3. phase[q] = "waitSession" /\ q \notin Begun(reset[s])
    BY <1>16, <2>1, <2>2, StartsInOrder DEF s
  <2> QED BY <1>10, <2>2, <2>3 DEF PhaseAfter
<1>19. ASSUME NEW r \in Joined(joins), NEW q \in Joined(joins), SessionOf[r] = SessionOf[q]
       PROVE  r = q
  <2>1. r \in Runs /\ q \in Runs
    BY <1>7 DEF Joined, Entries, Runs
  <2>2. r \in Begun(reset[SessionOf[r]]) /\ q \in Begun(reset[SessionOf[r]])
    BY <1>10, <1>19, <2>1
  <2>3. \A x, y \in Begun(reset[SessionOf[r]]) : x = y
    <3>1. PICK s \in Sessions : s = SessionOf[r]
      BY <2>1, LaneNames
    <3>2. Begun(reset[s]) = IF reset[s].queue # <<>> THEN {Head(reset[s].queue)} ELSE {}
      BY <1>5
    <3>3. \A x, y \in Begun(reset[s]) : x = y
      BY <3>2
    <3> QED BY <3>1, <3>3
  <2> QED BY <2>2, <2>3
<1> QED BY <1>1, <1>2, <1>12, <1>13, <1>14, <1>15, <1>16, <1>17, <1>18, <1>19, ViaProceed

-----------------------------------------------------------------------------
(* The theorems.                                                             *)

LEMMA Starts == Init => IInv
<1> SUFFICES ASSUME Init PROVE IInv
  OBVIOUS
<1>1. <<>> \in Seq(Tasks) /\ <<>> \in Seq(Runs) /\ Entries(<<>>) = {} /\ NoDuplicates(<<>>)
  BY EmptyQueue DEF Runs
<1>2. \A r \in Runs : phase[r] = "new" /\ born[r].session = 0 /\ born[r].global = 0
  BY DEF Init
<1>3. ASSUME NEW l \in Lanes
      PROVE  /\ LaneShape(lanes[l]) /\ lanes[l] \in LaneStates /\ Entries(lanes[l].queue) = {}
             /\ lanes[l].active = {} /\ lanes[l].generation = 0
             /\ l \in Sessions => lanes[l].maxConcurrent = 1
  <2>1. l \in Globals => Limits[l] \in Nat \ {0}
    BY LanesAssumption DEF Globals, Runs
  <2>2. lanes[l] = IF l \in Globals THEN [NewLane EXCEPT !.maxConcurrent = Limits[l]] ELSE NewLane
    BY DEF Init
  <2>3. CASE l \in Globals
    <3>1. lanes[l] = [queue |-> <<>>, active |-> {}, maxConcurrent |-> Limits[l], generation |-> 0]
      BY <2>2, <2>3 DEF NewLane
    <3> QED BY <1>1, <2>1, <2>3, <3>1, LaneNames, FS_EmptySet DEF LaneShape, LaneStates
  <2>4. CASE l \notin Globals
    <3>1. lanes[l] = [queue |-> <<>>, active |-> {}, maxConcurrent |-> 1, generation |-> 0]
      BY <2>2, <2>4 DEF NewLane
    <3> QED BY <1>1, <3>1, FS_EmptySet DEF LaneShape, LaneStates
  <2> QED BY <2>3, <2>4
<1>4. LanesAgree
  <2>1. ASSUME NEW s \in Sessions PROVE SessionAgrees(s, lanes[s], phase, born)
    BY <1>2, <1>3, LaneNames DEF SessionAgrees, Held
  <2>2. ASSUME NEW g \in Globals PROVE GlobalAgrees(g, lanes[g], phase, born)
    BY <1>2, <1>3, LaneNames DEF GlobalAgrees
  <2>3. lanes \in [Lanes -> LaneStates]
    BY <1>3 DEF Init
  <2> QED BY <2>1, <2>2, <2>3 DEF LanesAgree, Init, Phases, Borns
<1>5. HandlesAgree
  BY DEF Init, HandlesAgree
<1>6. RestartsAgree
  <2>1. gateway = "up" /\ restarts = 0 /\ \A l \in Lanes : lanes[l].generation = 0
    BY <1>3 DEF Init
  <2> QED BY <2>1, RestartsAssumption DEF RestartsAgree
<1>7. HistoryAgrees
  BY <1>1 DEF Init, HistoryAgrees
<1>8. OrderAgrees
  <2>1. asked = <<>> /\ begun = {} /\ \A r, q : ~Before(r, q, asked)
    BY DEF Init, Before
  <2>2. Orderly(phase, asked, begun)
    BY <1>1, <1>2, <2>1 DEF Orderly, Waits, Rivals
  <2>3. \A l \in Lanes : InTurn(lanes[l].queue, asked)
    BY <1>3 DEF InTurn, Entries
  <2> QED BY <2>2, <2>3 DEF OrderAgrees
<1> QED BY <1>4, <1>5, <1>6, <1>7, <1>8 DEF IInv

\* The invariant: the lanes hold exactly the runs whose phases say so, a handle names a
\* run with an attempt under way, and all lanes are in the generation of the last reset.
THEOREM IInvHolds == Spec => []IInv
<1>1. Init => IInv
  BY Starts
<1>2. ASSUME IInv, [Next]_vars PROVE IInv'
  <2>1. ASSUME NEW r \in Runs, RunEmbeddedPiAgent(r) PROVE IInv'
    BY <1>2, <2>1, Asks
  <2>2. ASSUME NEW r \in Runs, AttemptBegins(r) PROVE IInv'
    BY <1>2, <2>2, Attempts
  <2>3. ASSUME NEW r \in Runs, AttemptEnds(r) PROVE IInv'
    BY <1>2, <2>3, Attempts
  <2>4. ASSUME NEW r \in Runs, RunSettles(r) PROVE IInv'
    BY <1>2, <2>4, SettlesGlobal
  <2>5. ASSUME NEW r \in Runs, SessionSettles(r) PROVE IInv'
    BY <1>2, <2>5, SettlesSession
  <2>6. ASSUME NEW s \in Sessions, ClearSessionLane(s) PROVE IInv'
    BY <1>2, <2>6, Clears
  <2>7. CASE RequestRestart \/ Drained
    BY <1>2, <2>7, Drains
  <2>8. CASE ResetAllLanes
    BY <1>2, <2>8, Resets
  <2>9. CASE UNCHANGED vars
    BY <1>2, <2>9 DEF vars, IInv, LanesAgree, HandlesAgree, RestartsAgree, HistoryAgrees,
                        OrderAgrees
  <2> QED BY <1>2, <2>1, <2>2, <2>3, <2>4, <2>5, <2>6, <2>7, <2>8, <2>9 DEF Next, Progress
<1> QED BY <1>1, <1>2, PTL DEF Spec

\* A run waits in the lane its phase names and nowhere else, and a registered run has an
\* attempt under way, whatever the restarts.
THEOREM TypeCorrect == Spec => []TypeOK
<1>1. IInv => TypeOK
  <2> SUFFICES ASSUME IInv PROVE TypeOK
    OBVIOUS
  <2>1. ASSUME NEW l \in Lanes
        PROVE  /\ lanes[l].queue \in Seq(Runs) /\ lanes[l].active \subseteq Runs
               /\ lanes[l].maxConcurrent \in Nat \ {0}
               /\ lanes[l].generation \in 0 .. MaxRestarts
               /\ NoDuplicates(lanes[l].queue)
    <3>1. lanes[l] \in LaneStates
      BY DEF IInv, LanesAgree
    <3>2. lanes[l].generation \in 0 .. MaxRestarts
      BY RestartsAssumption DEF IInv, RestartsAgree
    <3>3. NoDuplicates(lanes[l].queue)
      <4>1. l \in Sessions \/ l \in Globals
        BY DEF Lanes
      <4> QED BY <4>1 DEF IInv, LanesAgree, SessionAgrees, GlobalAgrees, LaneShape
    <3> QED BY <3>1, <3>2, <3>3 DEF LaneStates, Runs
  <2>2. ASSUME NEW r \in Runs
        PROVE  /\ phase[r] = "waitSession" <=> r \in Entries(lanes[SessionOf[r]].queue)
               /\ phase[r] = "waitGlobal" <=> r \in Entries(lanes[GlobalOf[r]].queue)
    BY LaneNames DEF IInv, LanesAgree, SessionAgrees, GlobalAgrees
  <2> QED BY <2>1, <2>2 DEF TypeOK, IInv, LanesAgree, HandlesAgree, RestartsAgree, HistoryAgrees
<1> QED BY <1>1, IInvHolds, PTL

\* Two runs of one session are under way together only if a restart came between their
\* starts, for any number of runs, sessions, global lanes and restarts.
THEOREM OneRunEachGeneration == Spec => []OneRunPerGeneration
<1>1. IInv => OneRunPerGeneration
  <2> SUFFICES ASSUME IInv, NEW r \in Runs, NEW q \in Runs, Underway(r), Underway(q), r # q,
                      SessionOf[r] = SessionOf[q]
               PROVE  born[r].session # born[q].session
    BY DEF OneRunPerGeneration
  <2>1. phase[r] \in Held /\ phase[q] \in Held
    BY DEF Underway, Held
  <2>2. SessionAgrees(SessionOf[r], lanes[SessionOf[r]], phase, born)
    BY LaneNames DEF IInv, LanesAgree
  <2> QED BY <2>1, <2>2 DEF SessionAgrees
<1> QED BY <1>1, IInvHolds, PTL

\* Runs of one session in one global lane begin in the order they were asked for, across
\* any number of restarts, for the queues keep that order and a run that waits in its
\* global lane keeps those after it from passing.
THEOREM BeginsInOrder == Spec => []BeginInOrder
<1>1. IInv => BeginInOrder
  <2> SUFFICES ASSUME IInv, NEW i \in DOMAIN asked, NEW j \in DOMAIN asked, i < j,
                      SessionOf[asked[i]] = SessionOf[asked[j]],
                      GlobalOf[asked[i]] = GlobalOf[asked[j]], asked[j] \in begun,
                      asked[i] \notin begun
               PROVE  phase[asked[i]] = "done"
    BY DEF BeginInOrder
  <2> DEFINE r == asked[i]
             q == asked[j]
  <2>1. /\ r \in Runs /\ q \in Runs /\ r \in Entries(asked) /\ q \in Entries(asked)
        /\ phase[r] \in Phases /\ Orderly(phase, asked, begun)
    BY DEF IInv, LanesAgree, HistoryAgrees, OrderAgrees, Entries
  <2>2. Rivals(r, q, asked)
    BY DEF Rivals, Before
  <2> HIDE DEF r, q
  <2>3. phase[r] # "waitSession" /\ phase[r] # "waitGlobal" /\ phase[r] # "new"
    BY <2>1, <2>2 DEF Orderly, Waits, r, q
  <2>4. phase[r] \notin {"running", "attempt", "leaving"}
    BY <2>1 DEF Orderly, r
  <2> QED BY <2>1, <2>3, <2>4 DEF Phases, r
<1> QED BY <1>1, IInvHolds, PTL
=============================================================================
