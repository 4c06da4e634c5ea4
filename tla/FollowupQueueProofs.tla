-------------------------- MODULE FollowupQueueProofs --------------------------
(***************************************************************************)
(* Theorems about the followup queue of one session, for any messages,     *)
(* routes, settings, failing runs and clears.                              *)
(*                                                                         *)
(* The invariant is in two layers: what holds of each queue object on its  *)
(* own, above all that what the loop has in hand is still at the front of  *)
(* the queue, and that the objects hold different messages, none of which  *)
(* has been run.  The steps of the loop that only change where it is and   *)
(* what it has in hand are dealt with once (Rests); Kept is the invariance *)
(* of all steps but enqueueing.                                            *)
(*                                                                         *)
(* That nothing is lost needs more, and holds under an assumption only     *)
(* (NotLost, in the last part).                                            *)
(***************************************************************************)
EXTENDS FollowupQueue, SequenceTheorems, FiniteSetTheorems, TLAPS

Hand     == {"lane", "active", "ending"}
Modes    == {"followup", "collect"}
Policies == {"old", "new", "summarize"}

QueueStates ==
  [items : Seq(Msgs), dropped : SUBSET Msgs, mode : Modes, cap : Nat \ {0}, policy : Policies,
   lastRun : BOOLEAN, created : BOOLEAN, loop : Loops, force : BOOLEAN, batch : Seq(Msgs),
   summary : SUBSET Msgs, take : Nat]

NoRepeat(q) == \A i, j \in DOMAIN q : q[i] = q[j] => i = j

\* Those of batch that are still queued are the first ones, and no more than take.
AtFront(items, batch, take) ==
  \E n \in 0 .. Len(items) :
    /\ n <= take
    /\ \A i \in 1 .. n : items[i] \in Entries(batch)
    /\ \A i \in n + 1 .. Len(items) : items[i] \notin Entries(batch)

QueueOk(q) ==
  /\ q \in QueueStates /\ NoRepeat(q.items)
  /\ q.loop \notin Hand => q.batch = <<>> /\ q.summary = {}
  /\ Entries(q.items) \cap (q.dropped \cup q.summary) = {}
  /\ AtFront(q.items, q.batch, q.take)
  /\ Len(q.batch) > 1 => ~q.force /\ ~CrossChannel(q.batch)

\* The messages an object holds.
Holds(q) == Entries(q.items) \cup Entries(q.batch) \cup q.dropped \cup q.summary

Objected ==
  /\ queues \in [Objects -> QueueStates]
  /\ \A o \in Objects : QueueOk(queues[o])
  /\ \A o, p \in Objects : o # p => Holds(queues[o]) \cap Holds(queues[p]) = {}
  /\ \A o \in Objects : \A m \in Holds(queues[o]) : inbound[m] = "queued"

\* Nothing that is queued or in hand has been run, and nothing that is queued has ended.
Fresh ==
  /\ \A o \in Objects : /\ \A m \in Entries(queues[o].items) : ran[m] = 0 /\ fate[m] = "none"
                        /\ \A m \in Entries(queues[o].batch) : ran[m] = 0
  /\ \A m \in Msgs : ran[m] <= 1

Scalars ==
  /\ inbound \in [Msgs -> Stages] /\ foreign \in BOOLEAN /\ current \in Objects \cup {None}
  /\ ran \in [Msgs -> Nat] /\ fate \in [Msgs -> Fates]
  /\ failures \in 0 .. MaxFailures /\ clears \in 0 .. MaxClears

\* The objects are created in turn, each by a message of its own.
Queued == {m \in Msgs : inbound[m] = "queued"}
InTurn ==
  /\ \E k \in Nat : /\ k <= Cardinality(Queued)
                    /\ \A o \in Objects : queues[o].created <=> o <= k
  /\ current # None => queues[current].created

\* Only what was queued is run by a drain loop, or ends otherwise.
Unstarted == \A m \in Msgs : inbound[m] # "queued" => ran[m] = 0 /\ fate[m] = "none"

IInv == Scalars /\ Objected /\ Fresh /\ InTurn /\ Unstarted

-----------------------------------------------------------------------------
\* Sequences of messages.

\* What is left of a sequence when the first d are gone.
LEMMA TailOf ==
  ASSUME NEW s \in Seq(Msgs), NEW d \in Nat
  PROVE  LET t == SubSeq(s, d + 1, Len(s))
         IN  /\ t \in Seq(Msgs)
             /\ Len(t) = IF d <= Len(s) THEN Len(s) - d ELSE 0
             /\ \A i \in 1 .. Len(t) : t[i] = s[i + d] /\ i + d \in 1 .. Len(s)
             /\ Entries(t) \subseteq Entries(s)
  <1> DEFINE t == SubSeq(s, d + 1, Len(s))
  <1>1. t \in Seq(Msgs) /\ Len(t) = IF d <= Len(s) THEN Len(s) - d ELSE 0
    BY SubSeqProperties
  <1>2. \A i \in 1 .. Len(t) : t[i] = s[i + d] /\ i + d \in 1 .. Len(s)
    BY <1>1, SubSeqProperties
  <1>3. Entries(t) \subseteq Entries(s)
    BY <1>1, <1>2 DEF Entries
  <1>4. QED BY <1>1, <1>2, <1>3

\* What is left repeats nothing and shares nothing with what is gone.
LEMMA TailApart ==
  ASSUME NEW s \in Seq(Msgs), NEW d \in 0 .. Len(s), NoRepeat(s)
  PROVE  LET t == SubSeq(s, d + 1, Len(s))
             f == SubSeq(s, 1, d)
         IN  /\ NoRepeat(t)
             /\ f \in Seq(Msgs) /\ Entries(f) \subseteq Entries(s)
             /\ Entries(f) \cap Entries(t) = {}
  <1> DEFINE t == SubSeq(s, d + 1, Len(s))
             f == SubSeq(s, 1, d)
  <1>1. /\ t \in Seq(Msgs) /\ Len(t) = Len(s) - d
        /\ \A i \in 1 .. Len(t) : t[i] = s[i + d] /\ i + d \in 1 .. Len(s)
    <2>1. d \in Nat /\ Len(s) \in Nat /\ d <= Len(s)
      OBVIOUS
    <2>2. QED BY <2>1, TailOf
  <1>3. f \in Seq(Msgs) /\ Len(f) = d /\ \A i \in 1 .. d : f[i] = s[i]
    BY SubSeqProperties
  <1> HIDE DEF t, f
  <1>2. NoRepeat(t)
    <2> SUFFICES ASSUME NEW i \in 1 .. Len(t), NEW j \in 1 .. Len(t), t[i] = t[j] PROVE i = j
      BY <1>1 DEF NoRepeat
    <2>1. s[i + d] = s[j + d] /\ i + d \in DOMAIN s /\ j + d \in DOMAIN s
      BY <1>1
    <2>2. i + d = j + d
      BY <2>1 DEF NoRepeat
    <2>3. QED BY <2>2
  <1>4. Entries(f) \subseteq Entries(s)
    BY <1>3 DEF Entries
  <1>5. Entries(f) \cap Entries(t) = {}
    <2>0. DOMAIN f = 1 .. d /\ DOMAIN t = 1 .. Len(t)
      BY <1>1, <1>3
    <2> SUFFICES ASSUME NEW i \in 1 .. d, NEW j \in 1 .. Len(t), f[i] = t[j] PROVE FALSE
      BY <2>0 DEF Entries
    <2>1. s[i] = s[j + d] /\ i \in DOMAIN s /\ j + d \in DOMAIN s /\ i # j + d
      BY <1>1, <1>3
    <2>2. QED BY <2>1 DEF NoRepeat
  <1>6. QED BY <1>2, <1>3, <1>4, <1>5 DEF t, f

\* A message put at the end of a sequence that does not have it.
LEMMA AppendApart ==
  ASSUME NEW s \in Seq(Msgs), NEW m \in Msgs, NoRepeat(s), m \notin Entries(s)
  PROVE  /\ Append(s, m) \in Seq(Msgs) /\ NoRepeat(Append(s, m))
         /\ Entries(Append(s, m)) = Entries(s) \cup {m}
  <1> DEFINE t == Append(s, m)
  <1>1. /\ t \in Seq(Msgs) /\ Len(t) = Len(s) + 1 /\ t[Len(s) + 1] = m
        /\ \A i \in 1 .. Len(s) : t[i] = s[i]
    BY AppendProperties
  <1>2. Entries(t) = Entries(s) \cup {m}
    <2>1. Entries(t) \subseteq Entries(s) \cup {m}
      BY <1>1 DEF Entries
    <2>2. Entries(s) \subseteq Entries(t) /\ m \in Entries(t)
      <3>1. 1 .. Len(s) \subseteq 1 .. Len(t) /\ Len(s) + 1 \in 1 .. Len(t)
        BY <1>1
      <3>2. QED BY <1>1, <3>1 DEF Entries
    <2>3. QED BY <2>1, <2>2
  <1>3. NoRepeat(t)
    <2>1. \A i \in 1 .. Len(s) : s[i] # m
      BY DEF Entries
    <2>2. QED BY <1>1, <2>1 DEF NoRepeat
  <1>4. QED BY <1>1, <1>2, <1>3

LEMMA EmptyEntries == Entries(<<>>) = {} /\ NoRepeat(<<>>) /\ <<>> \in Seq(Msgs)
  BY DEF Entries, NoRepeat

\* When the first d are gone, what the loop has in hand is still at the front.
LEMMA FrontOfTail ==
  ASSUME NEW s \in Seq(Msgs), NEW d \in Nat, NEW b, NEW k \in Nat, AtFront(s, b, k)
  PROVE  /\ AtFront(SubSeq(s, d + 1, Len(s)), b, k)
         /\ d = k => Entries(SubSeq(s, d + 1, Len(s))) \cap Entries(b) = {}
  <1> DEFINE t == SubSeq(s, d + 1, Len(s))
  <1>1. /\ t \in Seq(Msgs) /\ Len(t) = IF d <= Len(s) THEN Len(s) - d ELSE 0
        /\ \A i \in 1 .. Len(t) : t[i] = s[i + d] /\ i + d \in 1 .. Len(s)
    BY TailOf
  <1>2. PICK n \in 0 .. Len(s) : /\ n <= k
                                 /\ \A i \in 1 .. n : s[i] \in Entries(b)
                                 /\ \A i \in n + 1 .. Len(s) : s[i] \notin Entries(b)
    BY DEF AtFront
  <1> HIDE DEF t
  <1> DEFINE r == IF n <= d THEN 0 ELSE IF n - d <= Len(t) THEN n - d ELSE Len(t)
  <1>3. r \in 0 .. Len(t) /\ r <= k
    <2>1. Len(t) \in Nat /\ n \in Nat
      BY <1>1
    <2>2. QED BY <1>2, <2>1
  <1>4. \A i \in 1 .. r : t[i] \in Entries(b)
    <2>1. \A i \in 1 .. r : i \in 1 .. Len(t) /\ i + d \in 1 .. n
      BY <1>1, <1>2
    <2>2. QED BY <1>1, <1>2, <2>1
  <1>5. \A i \in r + 1 .. Len(t) : t[i] \notin Entries(b)
    <2>1. \A i \in r + 1 .. Len(t) : i \in 1 .. Len(t) /\ i + d \in n + 1 .. Len(s)
      BY <1>1, <1>2
    <2>2. QED BY <1>1, <1>2, <2>1
  <1>6. AtFront(t, b, k)
    BY <1>3, <1>4, <1>5 DEF AtFront
  <1>7. ASSUME d = k PROVE Entries(t) \cap Entries(b) = {}
    <2>1. r = 0
      BY <1>2, <1>7
    <2>2. DOMAIN t = 1 .. Len(t) /\ \A i \in 1 .. Len(t) : t[i] \notin Entries(b)
      BY <1>1, <1>5, <2>1
    <2>3. QED BY <2>2 DEF Entries
  <1>8. QED BY <1>6, <1>7 DEF t

\* So it is when a message is put at the end that is not in hand.
LEMMA FrontOfAppend ==
  ASSUME NEW s \in Seq(Msgs), NEW m \in Msgs, NEW b, NEW k \in Nat, AtFront(s, b, k),
         m \notin Entries(b)
  PROVE  AtFront(Append(s, m), b, k)
  <1>1. PICK n \in 0 .. Len(s) : /\ n <= k
                                 /\ \A i \in 1 .. n : s[i] \in Entries(b)
                                 /\ \A i \in n + 1 .. Len(s) : s[i] \notin Entries(b)
    BY DEF AtFront
  <1> DEFINE t == Append(s, m)
  <1>2. /\ Len(t) = Len(s) + 1 /\ t[Len(s) + 1] = m
        /\ \A i \in 1 .. Len(s) : t[i] = s[i]
    BY AppendProperties
  <1>3. \A i \in 1 .. n : t[i] \in Entries(b)
    BY <1>1, <1>2
  <1>4. \A i \in n + 1 .. Len(t) : t[i] \notin Entries(b)
    BY <1>1, <1>2
  <1>5. n \in 0 .. Len(t)
    BY <1>2
  <1>6. QED BY <1>1, <1>3, <1>4, <1>5 DEF AtFront

LEMMA NothingInHand ==
  ASSUME NEW s \in Seq(Msgs), NEW b, NEW k \in Nat, Entries(s) \cap Entries(b) = {}
  PROVE  AtFront(s, b, k)
  <1>1. \A i \in 0 + 1 .. Len(s) : s[i] \notin Entries(b)
    BY DEF Entries
  <1>2. 0 \in 0 .. Len(s) /\ 0 <= k /\ \A i \in 1 .. 0 : s[i] \in Entries(b)
    OBVIOUS
  <1>3. QED BY <1>1, <1>2 DEF AtFront

-----------------------------------------------------------------------------
\* What the loop does to its queue object apart from taking messages off.

\* r is q but for where the loop is and what it has in hand, which is from the queue.
Rests(q, r) ==
  /\ QueueOk(r)
  /\ r.items = q.items /\ r.dropped = q.dropped /\ r.created = q.created /\ r.policy = q.policy
  /\ Entries(r.batch) \subseteq Entries(q.batch) \cup Entries(q.items)
  /\ r.summary \subseteq q.summary \cup q.dropped

EmptyHanded(q) == q.batch = <<>> /\ q.summary = {}

LEMMA RestsHolds ==
  ASSUME NEW q, NEW r, Rests(q, r)
  PROVE  Holds(r) \subseteq Holds(q)
  BY DEF Rests, Holds

LEMMA RestsItself ==
  ASSUME NEW q, QueueOk(q)
  PROVE  Rests(q, q)
  BY DEF Rests

LEMMA RestsOn ==
  ASSUME NEW p, NEW q, NEW r, Rests(p, q), Rests(q, r)
  PROVE  Rests(p, r)
  BY DEF Rests

\* The loop lets go of what it has in hand and is at l.
LetGo(q, f, l) ==
  [q EXCEPT !.force = f, !.loop = l, !.batch = <<>>, !.summary = {}, !.take = 0]

LEMMA LetsGo ==
  ASSUME NEW q, QueueOk(q), NEW l \in Loops, NEW f \in BOOLEAN
  PROVE  Rests(q, LetGo(q, f, l)) /\ EmptyHanded(LetGo(q, f, l)) /\ LetGo(q, f, l).loop = l
  <1> DEFINE r == LetGo(q, f, l)
  <1>1. q \in QueueStates
    BY DEF QueueOk
  <1>2. /\ r \in QueueStates
        /\ r.items = q.items /\ r.dropped = q.dropped /\ r.created = q.created
        /\ r.policy = q.policy
        /\ r.batch = <<>> /\ r.summary = {} /\ r.take = 0 /\ r.loop = l
    BY <1>1, EmptyEntries DEF QueueStates, LetGo
  <1> HIDE DEF r
  <1>3. /\ NoRepeat(q.items) /\ q.items \in Seq(Msgs)
        /\ Entries(q.items) \cap q.dropped = {}
    BY <1>1 DEF QueueOk, QueueStates
  <1>4. AtFront(r.items, r.batch, r.take)
    BY <1>2, <1>3, NothingInHand, EmptyEntries
  <1>5. ~(Len(r.batch) > 1)
    BY <1>2
  <1>6. QueueOk(r)
    BY <1>2, <1>3, <1>4, <1>5 DEF QueueOk
  <1>7. QED BY <1>2, <1>6, EmptyEntries DEF Rests, EmptyHanded, r

LEMMA LoopHeadRests ==
  ASSUME NEW q, QueueOk(q)
  PROVE  /\ Rests(q, LoopHead(q)) /\ EmptyHanded(LoopHead(q))
         /\ LoopHead(q).loop = IF HasWork(q) THEN "debounce" ELSE "idle"
  <1>1. q \in QueueStates
    BY DEF QueueOk
  <1> DEFINE l == IF HasWork(q) THEN "debounce" ELSE "idle"
  <1>2. l \in Loops /\ q.force \in BOOLEAN
    BY <1>1 DEF Loops, QueueStates
  <1>3. LoopHead(q) = LetGo(q, q.force, l)
    BY <1>1 DEF LoopHead, LetGo, QueueStates
  <1>4. QED BY <1>2, <1>3, LetsGo

LEMMA ScheduledRests ==
  ASSUME NEW q, QueueOk(q)
  PROVE  /\ Rests(q, Scheduled(q))
         /\ EmptyHanded(q) => EmptyHanded(Scheduled(q))
         /\ q.loop = "idle" => Scheduled(q).loop = IF HasWork(q) THEN "debounce" ELSE "idle"
         /\ q.loop # "idle" => Scheduled(q) = q
  <1>1. CASE q.loop # "idle"
    BY <1>1, RestsItself DEF Scheduled
  <1>2. CASE q.loop = "idle"
    <2>1. q \in QueueStates
      BY DEF QueueOk
    <2> DEFINE l == IF HasWork(q) THEN "debounce" ELSE "idle"
    <2>2. l \in Loops /\ FALSE \in BOOLEAN
      BY DEF Loops
    <2>3. HasWork([q EXCEPT !.force = FALSE]) <=> HasWork(q)
      BY <2>1 DEF HasWork, QueueStates
    <2>4. Scheduled(q) = LetGo(q, FALSE, l)
      BY <1>2, <2>1, <2>3 DEF Scheduled, LetGo, LoopHead, QueueStates
    <2>5. QED BY <1>2, <2>2, <2>4, LetsGo
  <1>3. QED BY <1>1, <1>2

\* The object of a loop that has left.
Ended(q) == [q EXCEPT !.loop = "idle", !.batch = <<>>, !.summary = {}, !.take = 0]

LEMMA EndedRests ==
  ASSUME NEW q, QueueOk(q)
  PROVE  Rests(q, Ended(q)) /\ EmptyHanded(Ended(q)) /\ Ended(q).loop = "idle"
  <1>1. q \in QueueStates
    BY DEF QueueOk
  <1>2. "idle" \in Loops /\ q.force \in BOOLEAN
    BY <1>1 DEF Loops, QueueStates
  <1>3. Ended(q) = LetGo(q, q.force, "idle")
    BY <1>1 DEF Ended, LetGo, QueueStates
  <1>4. QED BY <1>2, <1>3, LetsGo

\* A loop that has something in hand goes on with it.
LEMMA AdvanceRests ==
  ASSUME NEW q, QueueOk(q), q.loop \in Hand, NEW l \in Hand
  PROVE  Rests(q, [q EXCEPT !.loop = l])
  <1> DEFINE r == [q EXCEPT !.loop = l]
  <1>1. q \in QueueStates
    BY DEF QueueOk
  <1>2. /\ r \in QueueStates /\ r.loop = l /\ r.policy = q.policy
        /\ r.items = q.items /\ r.dropped = q.dropped /\ r.created = q.created
        /\ r.batch = q.batch /\ r.summary = q.summary /\ r.take = q.take /\ r.force = q.force
    BY <1>1 DEF QueueStates, Hand, Loops
  <1> HIDE DEF r
  <1>3. QueueOk(r)
    BY <1>2 DEF QueueOk
  <1>4. QED BY <1>2, <1>3 DEF Rests, r

\* The loop takes messages in hand, and mixes no routes.
Mixed(q) == q.force \/ (q.mode = "collect" /\ CrossChannel(q.items))

Takes(q, b, m, k) ==
  [q EXCEPT !.loop = "lane", !.batch = b, !.summary = m, !.take = k, !.force = Mixed(q)]

LEMMA TakesRests ==
  ASSUME NEW q, QueueOk(q), NEW b \in Seq(Msgs), NEW m \in SUBSET q.dropped, NEW k \in Nat,
         AtFront(q.items, b, k), Entries(b) \subseteq Entries(q.items),
         Len(b) > 1 => ~Mixed(q) /\ ~CrossChannel(b)
  PROVE  Rests(q, Takes(q, b, m, k)) /\ Takes(q, b, m, k).loop = "lane"
  <1> DEFINE r == Takes(q, b, m, k)
  <1>1. q \in QueueStates
    BY DEF QueueOk
  <1>2. /\ q.items \in Seq(Msgs) /\ q.dropped \subseteq Msgs /\ Mixed(q) \in BOOLEAN
        /\ NoRepeat(q.items) /\ Entries(q.items) \cap q.dropped = {}
    BY <1>1 DEF QueueOk, QueueStates, Mixed
  <1>3. /\ r \in QueueStates /\ r.loop = "lane" /\ r.policy = q.policy
        /\ r.items = q.items /\ r.dropped = q.dropped /\ r.created = q.created
        /\ r.batch = b /\ r.summary = m /\ r.take = k /\ r.force = Mixed(q)
    BY <1>1, <1>2 DEF QueueStates, Loops, Takes
  <1> HIDE DEF r
  <1>4. r.loop \in Hand
    BY <1>3 DEF Hand
  <1>5. Entries(r.items) \cap (r.dropped \cup r.summary) = {}
    BY <1>2, <1>3
  <1>6. QueueOk(r)
    BY <1>2, <1>3, <1>4, <1>5 DEF QueueOk
  <1>7. QED BY <1>3, <1>6 DEF Rests, r

LEMMA LaunchRests ==
  ASSUME NEW q, QueueOk(q), q.loop = "debounce", ~Breaks(q)
  PROVE  Rests(q, Launch(q)) /\ Launch(q).loop = "lane"
  <1>1. /\ q.items \in Seq(Msgs) /\ q.dropped \subseteq Msgs /\ NoRepeat(q.items)
    BY DEF QueueOk, QueueStates
  <1>2. CASE Collects(q)
    <2> DEFINE m == IF HasSummary(q) THEN q.dropped ELSE {}
    <2>1. AtFront(q.items, q.items, Len(q.items))
      <3>1. /\ Len(q.items) \in 0 .. Len(q.items) /\ Len(q.items) <= Len(q.items)
            /\ \A i \in 1 .. Len(q.items) : q.items[i] \in Entries(q.items)
            /\ \A i \in Len(q.items) + 1 .. Len(q.items) : q.items[i] \notin Entries(q.items)
        BY <1>1 DEF Entries
      <3>2. QED BY <3>1 DEF AtFront
    <2>2. ~Mixed(q) /\ ~CrossChannel(q.items)
      BY <1>2 DEF Collects, OneByOne, Mixed
    <2>3. Launch(q) = Takes(q, q.items, m, Len(q.items))
      BY <1>2 DEF Launch, Takes, Mixed
    <2>4. m \in SUBSET q.dropped /\ Len(q.items) \in Nat
      BY <1>1
    <2> HIDE DEF m
    <2>5. QED BY <1>1, <2>1, <2>2, <2>3, <2>4, TakesRests
  <1>3. CASE ~Collects(q) /\ q.mode # "collect" /\ HasSummary(q)
    <2>1. AtFront(q.items, <<>>, 1) /\ Entries(<<>>) \subseteq Entries(q.items)
      BY <1>1, NothingInHand, EmptyEntries
    <2>2. Launch(q) = Takes(q, <<>>, q.dropped, 1)
      BY <1>3 DEF Launch, Takes, Mixed
    <2>3. ~(Len(<<>>) > 1) /\ <<>> \in Seq(Msgs) /\ q.dropped \in SUBSET q.dropped /\ 1 \in Nat
      OBVIOUS
    <2> DEFINE b == <<>>
    <2> HIDE DEF b
    <2>4. QED
      <3>1. /\ b \in Seq(Msgs) /\ ~(Len(b) > 1) /\ AtFront(q.items, b, 1)
            /\ Entries(b) \subseteq Entries(q.items) /\ Launch(q) = Takes(q, b, q.dropped, 1)
        BY <2>1, <2>2, <2>3 DEF b
      <3>2. QED BY <2>3, <3>1, TakesRests
  <1>4. CASE ~Collects(q) /\ ~(q.mode # "collect" /\ HasSummary(q))
    <2> DEFINE h == Head(q.items)
               b == <<h>>
    <2>1. q.items # <<>>
      BY <1>4 DEF Breaks
    <2>2. Len(q.items) >= 1 /\ h = q.items[1] /\ h \in Msgs /\ h \in Entries(q.items)
      BY <1>1, <2>1 DEF Entries
    <2> HIDE DEF h
    <2>3. b \in Seq(Msgs) /\ Len(b) = 1 /\ Entries(b) = {h}
      BY <2>2 DEF Entries
    <2>4. Launch(q) = Takes(q, b, {}, 1)
      BY <1>4 DEF Launch, Takes, Mixed, h
    <2> HIDE DEF b
    <2>5. AtFront(q.items, b, 1)
      <3>1. \A i \in 1 .. 1 : q.items[i] \in Entries(b)
        BY <2>2, <2>3
      <3>2. \A i \in 1 + 1 .. Len(q.items) : q.items[i] \notin Entries(b)
        BY <1>1, <2>2, <2>3 DEF NoRepeat
      <3>3. 1 \in 0 .. Len(q.items) /\ 1 <= 1
        BY <1>1, <2>2
      <3>4. QED BY <3>1, <3>2, <3>3 DEF AtFront
    <2>6. Entries(b) \subseteq Entries(q.items) /\ ~(Len(b) > 1) /\ {} \in SUBSET q.dropped
      BY <2>2, <2>3
    <2>7. QED BY <2>3, <2>4, <2>5, <2>6, TakesRests
  <1>5. QED BY <1>2, <1>3, <1>4

-----------------------------------------------------------------------------
\* What is taken off and put on.

LEMMA DeliverOk ==
  ASSUME NEW q, QueueOk(q)
  PROVE  LET r == Deliver(q)
         IN  /\ QueueOk(r) /\ r.loop = q.loop /\ r.created = q.created /\ r.policy = q.policy
             /\ r.batch = q.batch /\ r.summary = q.summary
             /\ Entries(r.items) \subseteq Entries(q.items) \ Entries(q.batch)
             /\ r.dropped \subseteq q.dropped
             /\ r.items = SubSeq(q.items, q.take + 1, Len(q.items))
  <1> DEFINE r == Deliver(q)
             t == SubSeq(q.items, q.take + 1, Len(q.items))
             d == IF q.summary # {} THEN {} ELSE q.dropped
  <1>1. q \in QueueStates
    BY DEF QueueOk
  <1>2. /\ q.items \in Seq(Msgs) /\ q.take \in Nat /\ q.dropped \subseteq Msgs
        /\ NoRepeat(q.items) /\ AtFront(q.items, q.batch, q.take)
    BY <1>1 DEF QueueOk, QueueStates
  <1>3. t \in Seq(Msgs) /\ Entries(t) \subseteq Entries(q.items)
    BY <1>2, TailOf
  <1>4. AtFront(t, q.batch, q.take) /\ Entries(t) \cap Entries(q.batch) = {}
    BY <1>2, FrontOfTail
  <1>5. NoRepeat(t)
    <2>1. CASE q.take <= Len(q.items)
      <3>1. q.take \in 0 .. Len(q.items)
        BY <1>2, <2>1
      <3>2. QED BY <1>2, <3>1, TailApart
    <2>2. CASE ~(q.take <= Len(q.items))
      <3>1. Len(t) = 0
        BY <1>2, <2>2, TailOf
      <3>2. t = <<>>
        BY <1>3, <3>1, EmptySeq
      <3>3. QED BY <3>2, EmptyEntries
    <2>3. QED BY <2>1, <2>2
  <1> HIDE DEF t
  <1>6. /\ r \in QueueStates /\ r.loop = q.loop /\ r.created = q.created /\ r.policy = q.policy
        /\ r.items = t /\ r.dropped = d /\ r.force = q.force
        /\ r.batch = q.batch /\ r.summary = q.summary /\ r.take = q.take
    BY <1>1, <1>2, <1>3 DEF QueueStates, Deliver, t
  <1> HIDE DEF r
  <1>7. QueueOk(r)
    <2>1. Entries(r.items) \cap (r.dropped \cup r.summary) = {}
      BY <1>3, <1>6 DEF QueueOk
    <2>2. QED BY <1>4, <1>5, <1>6, <2>1 DEF QueueOk
  <1>8. QED BY <1>3, <1>4, <1>6, <1>7 DEF r, t

\* What applyQueueDropPolicy splices off, and what it leaves.
LEMMA DroppedPart ==
  ASSUME NEW q \in QueueStates
  PROVE  /\ Dropped(q) \in Seq(Msgs)
         /\ \E d \in 0 .. Len(q.items) : Dropped(q) = SubSeq(q.items, 1, d) /\ Len(Dropped(q)) = d
  <1>1. q.items \in Seq(Msgs) /\ q.cap \in Nat \ {0}
    BY DEF QueueStates
  <1>2. CASE Overflows(q) /\ q.policy # "new"
    <2> DEFINE d == Len(q.items) - q.cap + 1
    <2>1. d \in 0 .. Len(q.items)
      BY <1>1, <1>2 DEF Overflows
    <2>2. Dropped(q) = SubSeq(q.items, 1, d)
      BY <1>2 DEF Dropped
    <2> HIDE DEF d
    <2>3. SubSeq(q.items, 1, d) \in Seq(Msgs) /\ Len(SubSeq(q.items, 1, d)) = d
      BY <1>1, <2>1, SubSeqProperties
    <2>4. QED BY <2>1, <2>2, <2>3
  <1>3. CASE ~(Overflows(q) /\ q.policy # "new")
    <2>1. Dropped(q) = <<>> /\ Len(Dropped(q)) = 0 /\ 0 \in 0 .. Len(q.items)
      BY <1>1, <1>3 DEF Dropped
    <2>2. SubSeq(q.items, 1, 0) \in Seq(Msgs) /\ Len(SubSeq(q.items, 1, 0)) = 0
      BY <1>1, SubSeqProperties
    <2>3. SubSeq(q.items, 1, 0) = <<>>
      BY <2>2, EmptySeq
    <2>4. QED BY <2>1, <2>3, EmptyEntries
  <1>4. QED BY <1>2, <1>3

\* The object of a message's queue after enqueueFollowupRun.
Taken(q, m, s) == [Accept(Configure(q, s), m) EXCEPT !.created = TRUE]

LEMMA TakenOk ==
  ASSUME NEW q, QueueOk(q), NEW m \in Msgs, m \notin Holds(q), NEW s \in Settings
  PROVE  LET r == Taken(q, m, s)
             c == Configure(q, s)
         IN  /\ QueueOk(r) /\ r.loop = q.loop /\ r.created = TRUE
             /\ r.batch = q.batch /\ r.summary = q.summary /\ r.take = q.take
             /\ Holds(r) \subseteq Holds(q) \cup {m}
             /\ Entries(r.items) \subseteq Entries(q.items) \cup {m}
             /\ Refuses(c) => m \notin Entries(r.items)
             /\ ~Refuses(c) => m \in Entries(r.items)
             /\ Entries(Dropped(c)) \subseteq Entries(q.items)
             /\ Entries(r.items) \cap Entries(Dropped(c)) = {}
  <1> DEFINE c == Configure(q, s)
             r == Taken(q, m, s)
  <1>1. /\ s.mode \in Modes /\ s.cap \in Nat \ {0} /\ s.policy \in Policies
    BY SettingsAssumption DEF Modes, Policies
  <1>2. q \in QueueStates
    BY DEF QueueOk
  <1>3. /\ q.items \in Seq(Msgs) /\ q.take \in Nat /\ q.dropped \subseteq Msgs
        /\ NoRepeat(q.items) /\ AtFront(q.items, q.batch, q.take)
        /\ Entries(q.items) \cap (q.dropped \cup q.summary) = {}
    BY <1>2 DEF QueueOk, QueueStates
  <1>4. m \notin Entries(q.items) /\ m \notin Entries(q.batch) /\ m \notin q.dropped \cup q.summary
    BY DEF Holds
  <1>5. /\ c \in QueueStates /\ c.items = q.items /\ c.policy = s.policy
        /\ c.dropped = q.dropped /\ c.batch = q.batch /\ c.summary = q.summary
        /\ c.take = q.take /\ c.loop = q.loop /\ c.force = q.force
    BY <1>1, <1>2 DEF QueueStates, Configure
  <1> HIDE DEF c
  <1>6. PICK d \in 0 .. Len(q.items) : Dropped(c) = SubSeq(q.items, 1, d) /\ Len(Dropped(c)) = d
    BY <1>5, DroppedPart
  <1> DEFINE t == SubSeq(q.items, d + 1, Len(q.items))
             f == SubSeq(q.items, 1, d)
             w == IF Refuses(c) THEN q.items ELSE Append(t, m)
             e == IF s.policy = "summarize" THEN q.dropped \cup Entries(f) ELSE q.dropped
  <1>7. /\ NoRepeat(t) /\ t \in Seq(Msgs) /\ Entries(t) \subseteq Entries(q.items)
        /\ f \in Seq(Msgs) /\ Entries(f) \subseteq Entries(q.items)
        /\ Entries(f) \cap Entries(t) = {}
        /\ AtFront(t, q.batch, q.take)
    <2>1. d \in Nat
      OBVIOUS
    <2>2. t \in Seq(Msgs) /\ Entries(t) \subseteq Entries(q.items)
      BY <1>3, <2>1, TailOf
    <2>3. AtFront(t, q.batch, q.take)
      BY <1>3, <2>1, FrontOfTail
    <2>4. /\ NoRepeat(t) /\ f \in Seq(Msgs) /\ Entries(f) \subseteq Entries(q.items)
          /\ Entries(f) \cap Entries(t) = {}
      BY <1>3, TailApart
    <2>5. QED BY <2>2, <2>3, <2>4
  <1> HIDE DEF t, f
  <1>8. /\ Append(t, m) \in Seq(Msgs) /\ NoRepeat(Append(t, m))
        /\ Entries(Append(t, m)) = Entries(t) \cup {m} /\ AtFront(Append(t, m), q.batch, q.take)
    BY <1>3, <1>4, <1>7, AppendApart, FrontOfAppend
  <1>9. Refuses(c) => Entries(f) = {}
    <2>1. Refuses(c) => f = <<>>
      BY <1>6 DEF Refuses, Dropped, f
    <2>2. QED BY <2>1, EmptyEntries
  <1>10. /\ w \in Seq(Msgs) /\ NoRepeat(w) /\ AtFront(w, q.batch, q.take)
         /\ Entries(w) \subseteq Entries(q.items) \cup {m} /\ Entries(w) \cap Entries(f) = {}
         /\ Refuses(c) => m \notin Entries(w)
         /\ ~Refuses(c) => m \in Entries(w)
         /\ Entries(w) \cap (e \cup q.summary) = {}
    <2>1. CASE Refuses(c)
      BY <1>3, <1>4, <1>9, <2>1
    <2>2. CASE ~Refuses(c)
      BY <1>3, <1>4, <1>7, <1>8, <2>2
    <2>3. QED BY <2>1, <2>2
  <1>11. e \subseteq Msgs /\ e \subseteq q.dropped \cup Entries(q.items)
    <2>1. Entries(q.items) \subseteq Msgs
      BY <1>3 DEF Entries
    <2>2. QED BY <1>3, <1>7, <2>1
  <1> HIDE DEF w, e
  <1>12. Accept(c, m) = [c EXCEPT !.lastRun = TRUE, !.items = w, !.dropped = e]
    BY <1>5, <1>6 DEF Accept, w, e, t, f, QueueStates
  <1>13. /\ r \in QueueStates /\ r.loop = q.loop /\ r.created = TRUE
         /\ r.batch = q.batch /\ r.summary = q.summary /\ r.take = q.take /\ r.force = q.force
         /\ r.items = w /\ r.dropped = e
    BY <1>5, <1>10, <1>11, <1>12 DEF QueueStates, Taken, c
  <1> HIDE DEF r
  <1>14. QueueOk(r)
    BY <1>10, <1>13 DEF QueueOk
  <1>15. Holds(r) \subseteq Holds(q) \cup {m}
    BY <1>10, <1>11, <1>13 DEF Holds
  <1>16. QED
    <2>1. Entries(Dropped(c)) \subseteq Entries(q.items) /\ Entries(w) \cap Entries(Dropped(c)) = {}
      BY <1>6, <1>7, <1>10 DEF f
    <2>2. QED BY <1>10, <1>13, <1>14, <1>15, <2>1 DEF r, c

\* With a cap that refuses nothing is dropped.
LEMMA TakenNew ==
  ASSUME NEW q, QueueOk(q), NEW m \in Msgs, NEW s \in Settings, s.policy = "new"
  PROVE  LET r == Taken(q, m, s)
             c == Configure(q, s)
         IN  /\ r.policy = "new" /\ r.dropped = q.dropped
             /\ Refuses(c) => r.items = q.items
             /\ ~Refuses(c) => r.items = Append(q.items, m)
  <1> DEFINE c == Configure(q, s)
             r == Taken(q, m, s)
  <1>1. q \in QueueStates /\ q.items \in Seq(Msgs)
    BY DEF QueueOk, QueueStates
  <1>2. c.items = q.items /\ c.policy = "new" /\ c.dropped = q.dropped
    BY <1>1 DEF Configure, QueueStates
  <1>3. Dropped(c) = <<>>
    BY <1>2 DEF Dropped
  <1>4. SubSeq(c.items, Len(Dropped(c)) + 1, Len(c.items)) = q.items
    <2>1. Len(Dropped(c)) + 1 = 1
      BY <1>3
    <2>2. QED BY <1>1, <1>2, <2>1, SubSeqFull
  <1> DEFINE w == IF Refuses(c) THEN q.items ELSE Append(q.items, m)
  <1>5. Accept(c, m) = [c EXCEPT !.lastRun = TRUE, !.items = w, !.dropped = q.dropped]
    BY <1>1, <1>2, <1>4 DEF Accept, Configure, QueueStates
  <1> HIDE DEF w
  <1>6. r.items = w /\ r.dropped = q.dropped /\ r.policy = "new"
    BY <1>1, <1>2, <1>5 DEF Taken, Configure, QueueStates
  <1>7. QED BY <1>6 DEF w

\* The object of a cleared queue.
Emptied(q) == [q EXCEPT !.items = <<>>, !.dropped = {}, !.lastRun = FALSE]

LEMMA EmptiedOk ==
  ASSUME NEW q, QueueOk(q)
  PROVE  LET r == Emptied(q)
         IN  /\ QueueOk(r) /\ r.items = <<>> /\ r.dropped = {} /\ r.batch = q.batch
             /\ r.summary = q.summary /\ r.created = q.created /\ r.loop = q.loop
  <1> DEFINE r == Emptied(q)
  <1>1. q \in QueueStates
    BY DEF QueueOk
  <1>2. /\ r \in QueueStates /\ r.loop = q.loop /\ r.created = q.created
        /\ r.items = <<>> /\ r.dropped = {} /\ r.force = q.force
        /\ r.batch = q.batch /\ r.summary = q.summary /\ r.take = q.take
    BY <1>1, EmptyEntries DEF QueueStates, Emptied
  <1> HIDE DEF r
  <1>3. q.take \in Nat
    BY <1>1 DEF QueueStates
  <1>4. AtFront(r.items, r.batch, r.take)
    BY <1>2, <1>3, NothingInHand, EmptyEntries
  <1>5. QueueOk(r)
    BY <1>2, <1>4, EmptyEntries DEF QueueOk
  <1>6. QED BY <1>2, <1>5 DEF r

-----------------------------------------------------------------------------
\* What the loop does to all the objects.

QueuesOk(qs) == qs \in [Objects -> QueueStates] /\ \A o \in Objects : QueueOk(qs[o])

\* scheduleFollowupDrain and the finally block only start and stop loops.
LEMMA ScheduleRests ==
  ASSUME NEW qs, QueuesOk(qs), NEW c \in Objects \cup {None}, Schedule(qs, c)
  PROVE  /\ QueuesOk(queues')
         /\ \A o \in Objects : Rests(qs[o], queues'[o])
         /\ \A o \in Objects : EmptyHanded(qs[o]) => EmptyHanded(queues'[o])
         /\ current' \in {c, None}
  <1>1. qs \in [Objects -> QueueStates] /\ \A o \in Objects : QueueOk(qs[o])
    BY DEF QueuesOk
  <1>2. CASE c = None
    <2>1. queues' = qs /\ current' = None
      BY <1>2 DEF Schedule
    <2>2. QED BY <1>1, <2>1, RestsItself DEF QueuesOk
  <1>3. CASE c # None
    <2>1. c \in Objects /\ queues' = [qs EXCEPT ![c] = Scheduled(@)] /\ current' \in {c, None}
      BY <1>3 DEF Schedule
    <2>2. /\ Rests(qs[c], Scheduled(qs[c]))
          /\ EmptyHanded(qs[c]) => EmptyHanded(Scheduled(qs[c]))
      BY <1>1, <2>1, ScheduledRests
    <2>3. Scheduled(qs[c]) \in QueueStates /\ QueueOk(Scheduled(qs[c]))
      BY <2>2 DEF Rests, QueueOk
    <2>4. queues' \in [Objects -> QueueStates]
      BY <1>1, <2>1, <2>3
    <2>5. \A o \in Objects : queues'[o] = IF o = c THEN Scheduled(qs[c]) ELSE qs[o]
      BY <1>1, <2>1
    <2>6. \A o \in Objects : Rests(qs[o], queues'[o])
      BY <1>1, <2>2, <2>5, RestsItself
    <2>7. \A o \in Objects : QueueOk(queues'[o])
      BY <2>6 DEF Rests
    <2>8. \A o \in Objects : EmptyHanded(qs[o]) => EmptyHanded(queues'[o])
      BY <2>2, <2>5
    <2>9. QED BY <2>1, <2>4, <2>6, <2>7, <2>8 DEF QueuesOk
  <1>4. QED BY <1>2, <1>3

LEMMA FinallyRests ==
  ASSUME NEW qs, QueuesOk(qs), current \in Objects \cup {None}, NEW o \in Objects, Finally(qs, o)
  PROVE  /\ QueuesOk(queues')
         /\ \A p \in Objects : Rests(qs[p], queues'[p])
         /\ EmptyHanded(queues'[o])
         /\ current' \in {current, None}
  <1> DEFINE ended == [qs EXCEPT ![o] = Ended(@)]
  <1>1. qs \in [Objects -> QueueStates] /\ \A p \in Objects : QueueOk(qs[p])
    BY DEF QueuesOk
  <1>2. ended = [qs EXCEPT ![o].loop = "idle", ![o].batch = <<>>, ![o].summary = {}, ![o].take = 0]
    BY <1>1 DEF Ended, QueueStates
  <1>3. Rests(qs[o], Ended(qs[o])) /\ EmptyHanded(Ended(qs[o]))
    BY <1>1, EndedRests
  <1>4. Ended(qs[o]) \in QueueStates
    BY <1>3 DEF Rests, QueueOk
  <1>5. \A p \in Objects : ended[p] = IF p = o THEN Ended(qs[o]) ELSE qs[p]
    BY <1>1
  <1>6. ended \in [Objects -> QueueStates]
    BY <1>1, <1>4
  <1> HIDE DEF ended
  <1>7. \A p \in Objects : Rests(qs[p], ended[p])
    BY <1>1, <1>3, <1>5, RestsItself
  <1>8. QueuesOk(ended)
    BY <1>6, <1>7 DEF QueuesOk, Rests
  <1>9. EmptyHanded(ended[o])
    BY <1>3, <1>5
  <1>10. IF HasWork(ended[o]) THEN Schedule(ended, current) ELSE queues' = ended /\ current' = None
    BY <1>2 DEF Finally
  <1>11. CASE HasWork(ended[o])
    <2>1. /\ QueuesOk(queues') /\ \A p \in Objects : Rests(ended[p], queues'[p])
          /\ EmptyHanded(queues'[o]) /\ current' \in {current, None}
      BY <1>8, <1>9, <1>10, <1>11, ScheduleRests
    <2>2. \A p \in Objects : Rests(qs[p], queues'[p])
      BY <1>7, <2>1, RestsOn
    <2>3. QED BY <2>1, <2>2
  <1>12. CASE ~HasWork(ended[o])
    BY <1>7, <1>8, <1>9, <1>10, <1>12
  <1>13. QED BY <1>11, <1>12

LEMMA ContinueRests ==
  ASSUME QueuesOk(queues), current \in Objects \cup {None}, NEW o \in Objects, NEW q, QueueOk(q),
         Continue(o, q)
  PROVE  /\ QueuesOk(queues')
         /\ \A p \in Objects : p # o => Rests(queues[p], queues'[p])
         /\ Rests(q, queues'[o]) /\ EmptyHanded(queues'[o])
         /\ current' \in {current, None}
  <1>1. queues \in [Objects -> QueueStates] /\ \A p \in Objects : QueueOk(queues[p])
    BY DEF QueuesOk
  <1>2. CASE HasWork(q)
    <2>1. queues' = [queues EXCEPT ![o] = LoopHead(q)] /\ current' = current
      BY <1>2 DEF Continue
    <2>2. Rests(q, LoopHead(q)) /\ EmptyHanded(LoopHead(q))
      BY LoopHeadRests
    <2>3. LoopHead(q) \in QueueStates /\ QueueOk(LoopHead(q))
      BY <2>2 DEF Rests, QueueOk
    <2>4. \A p \in Objects : queues'[p] = IF p = o THEN LoopHead(q) ELSE queues[p]
      BY <1>1, <2>1
    <2>5. QueuesOk(queues')
      BY <1>1, <2>1, <2>3, <2>4 DEF QueuesOk
    <2>6. QED BY <1>1, <2>1, <2>2, <2>4, <2>5, RestsItself
  <1>3. CASE ~HasWork(q)
    <2> DEFINE qs == [queues EXCEPT ![o] = q]
    <2>1. Finally(qs, o)
      BY <1>3 DEF Continue
    <2>2. \A p \in Objects : qs[p] = IF p = o THEN q ELSE queues[p]
      BY <1>1
    <2>3. q \in QueueStates
      BY DEF QueueOk
    <2>4. QueuesOk(qs)
      BY <1>1, <2>2, <2>3 DEF QueuesOk
    <2> HIDE DEF qs
    <2>5. /\ QueuesOk(queues') /\ \A p \in Objects : Rests(qs[p], queues'[p])
          /\ EmptyHanded(queues'[o]) /\ current' \in {current, None}
      BY <2>1, <2>4, FinallyRests
    <2>6. QED BY <2>2, <2>5
  <1>4. QED BY <1>2, <1>3

-----------------------------------------------------------------------------
\* Preservation.

\* No message comes to an object it was not held by, and none onto its queue.
Moves(q, r) ==
  /\ QueueOk(r) /\ r.created = q.created
  /\ Holds(r) \subseteq Holds(q) /\ Entries(r.items) \subseteq Entries(q.items)
  /\ Entries(r.batch) \subseteq Entries(q.batch) \cup Entries(q.items)

LEMMA HoldsMsgs ==
  ASSUME NEW q \in QueueStates
  PROVE  Holds(q) \subseteq Msgs
  BY DEF QueueStates, Holds, Entries

LEMMA RestsMoves ==
  ASSUME NEW q, NEW r, Rests(q, r)
  PROVE  Moves(q, r)
  BY RestsHolds DEF Rests, Moves

\* What a drain loop takes in hand it takes from its queue.
FromQueue ==
  \A o \in Objects : Entries(queues[o].batch)' \subseteq Entries(queues[o].batch) \cup Entries(queues[o].items)

Gone(m) == \A o \in Objects : m \notin Entries(queues[o].items)
Left(m) == Gone(m) /\ \A o \in Objects : m \notin Entries(queues[o].batch)

\* A step that puts nothing on a queue, runs what nobody holds afterwards and ends
\* what is on no queue afterwards preserves the invariant.
LEMMA Kept ==
  ASSUME IInv, QueuesOk(queues'), \A o \in Objects : Moves(queues[o], queues'[o]),
         current' \in {current, None},
         inbound' \in [Msgs -> Stages],
         \A m \in Msgs : inbound'[m] = "queued" <=> inbound[m] = "queued",
         foreign' \in BOOLEAN, failures' \in 0 .. MaxFailures, clears' \in 0 .. MaxClears,
         ran' \in [Msgs -> Nat], fate' \in [Msgs -> Fates],
         \A m \in Msgs : ran'[m] = ran[m] \/ (ran[m] = 0 /\ ran'[m] = 1 /\ Left(m)'),
         \A m \in Msgs : fate'[m] = fate[m] \/ Gone(m)',
         \A m \in Msgs : inbound[m] # "queued" => ran'[m] = ran[m] /\ fate'[m] = fate[m]
  PROVE  IInv' /\ FromQueue
  <1>1. Scalars'
    BY DEF IInv, Scalars
  <1>2. Objected'
    <2>1. queues' \in [Objects -> QueueStates] /\ \A o \in Objects : QueueOk(queues'[o])
      BY DEF QueuesOk
    <2>2. \A o \in Objects : Holds(queues'[o]) \subseteq Holds(queues[o])
      BY DEF Moves
    <2>3. \A o, p \in Objects : o # p => Holds(queues'[o]) \cap Holds(queues'[p]) = {}
      BY <2>2 DEF IInv, Objected
    <2>4. ASSUME NEW o \in Objects, NEW m \in Holds(queues'[o])
          PROVE  inbound'[m] = "queued"
      <3>1. m \in Holds(queues[o]) /\ inbound[m] = "queued"
        BY <2>2 DEF IInv, Objected
      <3>2. m \in Msgs
        <4>1. queues[o] \in QueueStates
          BY DEF IInv, Objected
        <4>2. QED BY <3>1, <4>1, HoldsMsgs
      <3>3. QED BY <3>1, <3>2
    <2>5. QED BY <2>1, <2>3, <2>4 DEF Objected
  <1>3. \A o \in Objects : Entries(queues[o].items) \subseteq Msgs /\ Entries(queues[o].batch) \subseteq Msgs
    BY DEF IInv, Objected, Entries, QueueStates
  <1>4. Fresh'
    <2>1. ASSUME NEW o \in Objects, NEW m \in Entries(queues'[o].items)
          PROVE  ran'[m] = 0 /\ fate'[m] = "none"
      <3>1. m \in Entries(queues[o].items) /\ m \in Msgs
        BY <1>3, <2>1 DEF Moves
      <3>2. ran[m] = 0 /\ fate[m] = "none"
        BY <3>1 DEF IInv, Fresh
      <3>3. ~Gone(m)' /\ ~Left(m)'
        BY <2>1 DEF Gone, Left
      <3>4. QED BY <3>1, <3>2, <3>3
    <2>2. ASSUME NEW o \in Objects, NEW m \in Entries(queues'[o].batch)
          PROVE  ran'[m] = 0
      <3>1. m \in Entries(queues[o].batch) \cup Entries(queues[o].items) /\ m \in Msgs
        BY <1>3, <2>2 DEF Moves
      <3>2. ran[m] = 0
        BY <3>1 DEF IInv, Fresh
      <3>3. ~Left(m)'
        BY <2>2 DEF Left
      <3>4. QED BY <3>1, <3>2, <3>3
    <2>3. \A m \in Msgs : ran'[m] <= 1
      BY DEF IInv, Fresh
    <2>4. QED BY <2>1, <2>2, <2>3 DEF Fresh
  <1>5. InTurn'
    <2>1. Queued' = Queued
      BY DEF Queued
    <2>2. \A o \in Objects : queues'[o].created = queues[o].created
      BY DEF Moves
    <2>3. current' # None => current' \in Objects /\ current' = current
      BY DEF IInv, Scalars
    <2>4. QED BY <2>1, <2>2, <2>3 DEF IInv, InTurn
  <1>6. FromQueue
    BY DEF Moves, FromQueue
  <1>7. Unstarted'
    BY DEF IInv, Unstarted
  <1>8. QED BY <1>1, <1>2, <1>4, <1>5, <1>6, <1>7 DEF IInv

\* The facts of the invariant that every step starts from.
LEMMA Given ==
  ASSUME IInv
  PROVE  /\ QueuesOk(queues) /\ current \in Objects \cup {None}
         /\ \A o \in Objects : Rests(queues[o], queues[o]) /\ Moves(queues[o], queues[o])
         /\ inbound \in [Msgs -> Stages] /\ ran \in [Msgs -> Nat] /\ fate \in [Msgs -> Fates]
         /\ foreign \in BOOLEAN /\ failures \in 0 .. MaxFailures /\ clears \in 0 .. MaxClears
  <1>1. QueuesOk(queues)
    BY DEF IInv, Objected, QueuesOk
  <1>2. \A o \in Objects : Rests(queues[o], queues[o]) /\ Moves(queues[o], queues[o])
    BY <1>1, RestsItself, RestsMoves DEF QueuesOk
  <1>3. QED BY <1>1, <1>2 DEF IInv, Scalars

\* A step in which the loops run and nothing is run.
LEMMA KeptByRest ==
  ASSUME IInv, QueuesOk(queues'), \A o \in Objects : Rests(queues[o], queues'[o]),
         current' \in {current, None}, inbound' \in [Msgs -> Stages],
         \A m \in Msgs : inbound'[m] = "queued" <=> inbound[m] = "queued",
         foreign' \in BOOLEAN, failures' \in 0 .. MaxFailures, ran' = ran, fate' = fate, clears' = clears
  PROVE  IInv' /\ FromQueue
  <1>1. \A o \in Objects : Moves(queues[o], queues'[o])
    BY RestsMoves
  <1>2. ran \in [Msgs -> Nat] /\ fate \in [Msgs -> Fates] /\ clears \in 0 .. MaxClears
    BY Given
  <1>3. QED BY <1>1, <1>2, Kept

\* What an inbound message's handler does besides enqueueing and scheduling.
LEMMA KeptByHandler ==
  ASSUME IInv, NEW m \in Msgs, inbound[m] # "queued",
         NEW s \in Stages \ {"queued"}, inbound' = [inbound EXCEPT ![m] = s],
         UNCHANGED <<foreign, queues, current, ran, fate, failures, clears>>
  PROVE  IInv' /\ FromQueue
  <1>1. inbound' \in [Msgs -> Stages] /\ \A n \in Msgs : inbound'[n] = "queued" <=> inbound[n] = "queued"
    BY Given
  <1>2. QueuesOk(queues')
    BY Given DEF QueuesOk
  <1>3. QED BY <1>1, <1>2, Given, KeptByRest

LEMMA KeptByFinalize ==
  ASSUME IInv, NEW m \in Msgs, FinalizeWithFollowup(m)
  PROVE  IInv' /\ FromQueue
  <1>1. /\ Schedule(queues, current) /\ inbound' = [inbound EXCEPT ![m] = "done"]
        /\ inbound[m] = "ending" /\ UNCHANGED <<foreign, ran, fate, failures, clears>>
    BY DEF FinalizeWithFollowup
  <1>2. inbound' \in [Msgs -> Stages] /\ \A n \in Msgs : inbound'[n] = "queued" <=> inbound[n] = "queued"
    BY <1>1, Given DEF Stages
  <1>3. /\ QueuesOk(queues') /\ \A o \in Objects : Rests(queues[o], queues'[o])
        /\ current' \in {current, None}
    BY <1>1, Given, ScheduleRests
  <1>4. QED BY <1>1, <1>2, <1>3, Given, KeptByRest

LEMMA KeptByForeign ==
  ASSUME IInv, ForeignBegins \/ ForeignEnds
  PROVE  IInv' /\ FromQueue
  <1>1. /\ foreign' \in BOOLEAN
        /\ UNCHANGED <<inbound, queues, current, ran, fate, failures, clears>>
    BY DEF ForeignBegins, ForeignEnds
  <1>2. QueuesOk(queues')
    BY <1>1, Given DEF QueuesOk
  <1>3. QED BY <1>1, <1>2, Given, KeptByRest

LEMMA KeptByDebounce ==
  ASSUME IInv, NEW o \in Objects, DebounceElapses(o)
  PROVE  IInv' /\ FromQueue
  <1>1. queues[o].loop = "debounce" /\ UNCHANGED <<inbound, foreign, ran, fate, failures, clears>>
    BY DEF DebounceElapses
  <1>2. /\ QueuesOk(queues') /\ \A p \in Objects : Rests(queues[p], queues'[p])
        /\ current' \in {current, None}
    <2>1. CASE Breaks(queues[o])
      <3>1. Finally(queues, o)
        BY <2>1 DEF DebounceElapses
      <3>2. QED BY <3>1, Given, FinallyRests
    <2>2. CASE ~Breaks(queues[o])
      <3>1. queues' = [queues EXCEPT ![o] = Launch(@)] /\ current' = current
        BY <2>2 DEF DebounceElapses
      <3>2. queues \in [Objects -> QueueStates] /\ \A p \in Objects : QueueOk(queues[p])
        BY Given DEF QueuesOk
      <3>3. Rests(queues[o], Launch(queues[o]))
        BY <1>1, <2>2, <3>2, LaunchRests
      <3>4. Launch(queues[o]) \in QueueStates /\ QueueOk(Launch(queues[o]))
        BY <3>3 DEF Rests, QueueOk
      <3>5. \A p \in Objects : queues'[p] = IF p = o THEN Launch(queues[o]) ELSE queues[p]
        BY <3>1, <3>2
      <3>6. QueuesOk(queues')
        BY <3>1, <3>2, <3>4, <3>5 DEF QueuesOk
      <3>7. QED BY <3>1, <3>3, <3>5, <3>6, Given
    <2>3. QED BY <2>1, <2>2
  <1>3. QED BY <1>1, <1>2, Given, KeptByRest

LEMMA KeptByFollowup ==
  ASSUME IInv, NEW o \in Objects, FollowupBegins(o) \/ FollowupEnds(o)
  PROVE  IInv' /\ FromQueue
  <1>1. PICK l \in Hand : queues' = [queues EXCEPT ![o].loop = l]
    BY DEF FollowupBegins, FollowupEnds, Hand
  <1>2. queues[o].loop \in Hand /\ UNCHANGED <<inbound, foreign, current, ran, fate, failures, clears>>
    BY DEF FollowupBegins, FollowupEnds, Hand
  <1>3. queues \in [Objects -> QueueStates] /\ \A p \in Objects : QueueOk(queues[p])
    BY Given DEF QueuesOk
  <1> DEFINE r == [queues[o] EXCEPT !.loop = l]
  <1>4. Rests(queues[o], r)
    BY <1>2, <1>3, AdvanceRests
  <1>5. queues' = [queues EXCEPT ![o] = r]
    BY <1>1
  <1> HIDE DEF r
  <1>6. r \in QueueStates /\ QueueOk(r)
    BY <1>4 DEF Rests, QueueOk
  <1>7. \A p \in Objects : queues'[p] = IF p = o THEN r ELSE queues[p]
    BY <1>3, <1>5
  <1>8. QueuesOk(queues')
    BY <1>3, <1>5, <1>6, <1>7 DEF QueuesOk
  <1>9. \A p \in Objects : Rests(queues[p], queues'[p])
    BY <1>4, <1>7, Given
  <1>10. QED BY <1>2, <1>8, <1>9, Given, KeptByRest

LEMMA KeptByThrow ==
  ASSUME IInv, NEW o \in Objects, FollowupThrows(o)
  PROVE  IInv' /\ FromQueue
  <1>1. /\ Finally(queues, o) /\ failures' = failures + 1 /\ failures < MaxFailures
        /\ UNCHANGED <<inbound, foreign, ran, fate, clears>>
    BY DEF FollowupThrows
  <1>2. /\ QueuesOk(queues') /\ \A p \in Objects : Rests(queues[p], queues'[p])
        /\ current' \in {current, None}
    BY <1>1, Given, FinallyRests
  <1>3. failures' \in 0 .. MaxFailures
    BY <1>1, Given, BoundsAssumption
  <1>4. QED BY <1>1, <1>2, <1>3, Given, KeptByRest

LEMMA KeptByReturn ==
  ASSUME IInv, NEW o \in Objects, FollowupReturns(o)
  PROVE  IInv' /\ FromQueue
  <1> DEFINE q == queues[o]
             d == Deliver(q)
  <1>1. /\ Continue(o, d) /\ UNCHANGED <<inbound, foreign, failures, clears>>
        /\ ran'  = [m \in Msgs |-> IF m \in Entries(q.batch) THEN ran[m] + 1 ELSE ran[m]]
        /\ fate' = [m \in Msgs |-> IF m \in q.summary THEN "summarized" ELSE fate[m]]
    BY DEF FollowupReturns
  <1>2. queues \in [Objects -> QueueStates] /\ \A p \in Objects : QueueOk(queues[p])
    BY Given DEF QueuesOk
  <1>3. /\ QueueOk(d) /\ d.created = q.created /\ d.batch = q.batch /\ d.summary = q.summary
        /\ Entries(d.items) \subseteq Entries(q.items) \ Entries(q.batch) /\ d.dropped \subseteq q.dropped
    BY <1>2, DeliverOk
  <1> HIDE DEF d
  <1>4. /\ QueuesOk(queues') /\ \A p \in Objects : p # o => Rests(queues[p], queues'[p])
        /\ Rests(d, queues'[o]) /\ EmptyHanded(queues'[o]) /\ current' \in {current, None}
    BY <1>1, <1>3, Given, ContinueRests
  <1>5. /\ queues'[o].batch = <<>> /\ Entries(queues'[o].batch) = {}
        /\ Entries(queues'[o].items) \subseteq Entries(q.items) \ Entries(q.batch)
    BY <1>3, <1>4, EmptyEntries DEF EmptyHanded, Rests
  <1>6. Moves(q, queues'[o])
    <2>1. Holds(d) \subseteq Holds(q)
      BY <1>3 DEF Holds
    <2>2. Holds(queues'[o]) \subseteq Holds(d)
      BY <1>4, RestsHolds
    <2>3. QED BY <1>3, <1>4, <1>5, <2>1, <2>2 DEF Moves, Rests
  <1>7. \A p \in Objects : Moves(queues[p], queues'[p])
    BY <1>4, <1>6, RestsMoves
  <1>8. \A m \in Holds(q) : \A p \in Objects : p # o => m \notin Holds(queues'[p])
    <2>1. \A p \in Objects : p # o => Holds(queues[p]) \cap Holds(q) = {}
      BY DEF IInv, Objected
    <2>2. QED BY <1>7, <2>1 DEF Moves
  <1>9. \A m \in Holds(q) : \A p \in Objects : p # o =>
          m \notin Entries(queues'[p].items) /\ m \notin Entries(queues'[p].batch)
    BY <1>8 DEF Holds
  <1>10. ASSUME NEW m \in Msgs
         PROVE  ran'[m] = ran[m] \/ (ran[m] = 0 /\ ran'[m] = 1 /\ Left(m)')
    <2>1. CASE m \notin Entries(q.batch)
      BY <1>1, <2>1
    <2>2. CASE m \in Entries(q.batch)
      <3>1. ran[m] = 0 /\ m \in Holds(q)
        BY <2>2 DEF IInv, Fresh, Holds
      <3>2. Left(m)'
        BY <1>5, <1>9, <2>2, <3>1 DEF Left, Gone
      <3>3. QED BY <1>1, <2>2, <3>1, <3>2
    <2>3. QED BY <2>1, <2>2
  <1>11. ASSUME NEW m \in Msgs
         PROVE  fate'[m] = fate[m] \/ Gone(m)'
    <2>1. CASE m \notin q.summary
      BY <1>1, <2>1
    <2>2. CASE m \in q.summary
      <3>1. m \in Holds(q) /\ m \notin Entries(q.items)
        BY <1>2, <2>2 DEF Holds, QueueOk
      <3>2. QED BY <1>5, <1>9, <3>1 DEF Gone
    <2>3. QED BY <2>1, <2>2
  <1>12. ran' \in [Msgs -> Nat] /\ fate' \in [Msgs -> Fates]
    BY <1>1, Given DEF Fates
  <1>13. \A m \in Msgs : inbound[m] # "queued" => ran'[m] = ran[m] /\ fate'[m] = fate[m]
    <2>1. \A m \in Entries(q.batch) \cup q.summary : inbound[m] = "queued"
      BY DEF IInv, Objected, Holds
    <2>2. QED BY <1>1, <2>1
  <1>14. QED BY <1>1, <1>4, <1>7, <1>10, <1>11, <1>12, <1>13, Given, Kept

LEMMA KeptByClear ==
  ASSUME IInv, ClearFollowupQueue
  PROVE  IInv' /\ FromQueue
  <1> DEFINE q == queues[current]
  <1>1. /\ current # None /\ clears < MaxClears /\ clears' = clears + 1
        /\ fate' = [m \in Msgs |-> IF m \in Entries(q.items) \cup q.dropped THEN "cleared" ELSE fate[m]]
        /\ queues' = [queues EXCEPT ![current] = Emptied(q)]
        /\ current' = None /\ UNCHANGED <<inbound, foreign, ran, failures>>
    BY DEF ClearFollowupQueue, Emptied
  <1>2. current \in Objects
    BY <1>1, Given
  <1>3. queues \in [Objects -> QueueStates] /\ \A p \in Objects : QueueOk(queues[p])
    BY Given DEF QueuesOk
  <1>4. /\ QueueOk(Emptied(q)) /\ Emptied(q).items = <<>> /\ Emptied(q).dropped = {}
        /\ Emptied(q).batch = q.batch /\ Emptied(q).summary = q.summary
        /\ Emptied(q).created = q.created
    BY <1>2, <1>3, EmptiedOk
  <1>5. Emptied(q) \in QueueStates
    BY <1>4 DEF QueueOk
  <1>6. \A p \in Objects : queues'[p] = IF p = current THEN Emptied(q) ELSE queues[p]
    BY <1>1, <1>3
  <1>7. QueuesOk(queues')
    BY <1>1, <1>3, <1>4, <1>5, <1>6 DEF QueuesOk
  <1>8. Moves(q, Emptied(q))
    BY <1>4, EmptyEntries DEF Moves, Holds
  <1>9. \A p \in Objects : Moves(queues[p], queues'[p])
    BY <1>6, <1>8, Given
  <1>10. ASSUME NEW m \in Msgs
         PROVE  fate'[m] = fate[m] \/ Gone(m)'
    <2>1. CASE m \notin Entries(q.items) \cup q.dropped
      BY <1>1, <2>1
    <2>2. CASE m \in Entries(q.items) \cup q.dropped
      <3>1. m \in Holds(q)
        BY <2>2 DEF Holds
      <3>2. \A p \in Objects : p # current => m \notin Entries(queues'[p].items)
        BY <1>2, <1>6, <3>1 DEF IInv, Objected, Holds
      <3>3. m \notin Entries(queues'[current].items)
        BY <1>2, <1>4, <1>6, EmptyEntries
      <3>4. QED BY <3>2, <3>3 DEF Gone
    <2>3. QED BY <2>1, <2>2
  <1>11. fate' \in [Msgs -> Fates] /\ clears' \in 0 .. MaxClears
    BY <1>1, Given, BoundsAssumption DEF Fates
  <1>12. \A m \in Msgs : inbound[m] # "queued" => ran'[m] = ran[m] /\ fate'[m] = fate[m]
    <2>1. \A m \in Entries(q.items) \cup q.dropped : inbound[m] = "queued"
      BY <1>2 DEF IInv, Objected, Holds
    <2>2. QED BY <1>1, <2>1
  <1>13. QED BY <1>1, <1>7, <1>9, <1>10, <1>11, <1>12, Given, Kept

\* getFollowupQueue finds an object: as many were created as messages were queued at most.
LEMMA TargetFound ==
  ASSUME IInv, NEW m \in Msgs, inbound[m] = "sawActive"
  PROVE  /\ Target \in Objects
         /\ \E k \in Nat : /\ k <= Cardinality(Queued \cup {m})
                           /\ \A o \in Objects : (o = Target \/ queues[o].created) <=> o <= k
  <1>1. PICK k \in Nat : /\ k <= Cardinality(Queued)
                         /\ \A o \in Objects : queues[o].created <=> o <= k
    BY DEF IInv, InTurn
  <1>2. IsFiniteSet(Msgs) /\ Queued \subseteq Msgs /\ Queued \cup {m} \subseteq Msgs /\ m \notin Queued
    BY MsgsAssumption DEF Queued
  <1>3. IsFiniteSet(Queued)
    BY <1>2, FS_Subset
  <1>4. /\ Cardinality(Msgs) \in Nat /\ Cardinality(Queued) \in Nat
        /\ Cardinality(Queued \cup {m}) = Cardinality(Queued) + 1
    BY <1>2, <1>3, FS_CardinalityType, FS_AddElement
  <1>5. Cardinality(Queued \cup {m}) <= Cardinality(Msgs)
    BY <1>2, FS_Subset
  <1>6. CASE current # None
    <2>1. Target = current /\ current \in Objects /\ queues[current].created
      BY <1>6, Given DEF Target, IInv, InTurn
    <2>2. k <= Cardinality(Queued \cup {m})
      BY <1>1, <1>4
    <2>3. QED BY <1>1, <2>1, <2>2
  <1>7. CASE current = None
    <2> DEFINE P(o) == ~queues[o].created /\ \A p \in Objects : p < o => queues[p].created
    <2>1. k + 1 \in Objects
      BY <1>1, <1>4, <1>5 DEF Objects
    <2>2. P(k + 1)
      BY <1>1, <2>1 DEF Objects
    <2>3. \A o \in Objects : P(o) => o = k + 1
      <3>1. ASSUME NEW o \in Objects, P(o) PROVE o = k + 1
        <4>1. o \in Nat /\ ~(o <= k)
          BY <1>1, <3>1 DEF Objects
        <4>2. ~(k + 1 < o)
          BY <1>1, <2>1, <2>2, <3>1
        <4>3. QED BY <4>1, <4>2
      <3>2. QED BY <3>1
    <2>4. Target = CHOOSE o \in Objects : P(o)
      BY <1>7 DEF Target
    <2>5. Target = k + 1
      <3> HIDE DEF P
      <3>1. QED BY <2>1, <2>2, <2>3, <2>4
    <2>6. \A o \in Objects : (o = k + 1 \/ queues[o].created) <=> o <= k + 1
      BY <1>1 DEF Objects
    <2>7. k + 1 \in Nat /\ k + 1 <= Cardinality(Queued \cup {m})
      BY <1>1, <1>4
    <2>8. QED BY <2>1, <2>5, <2>6, <2>7
  <1>8. QED BY <1>6, <1>7

LEMMA KeptByEnqueue ==
  ASSUME IInv, NEW m \in Msgs, NEW s \in Settings, EnqueueFollowupRun(m, s)
  PROVE  IInv' /\ FromQueue
  <1> DEFINE o == Target
             q == queues[o]
             c == Configure(q, s)
             r == Taken(q, m, s)
  <1>1. /\ inbound[m] = "sawActive" /\ inbound' = [inbound EXCEPT ![m] = "queued"]
        /\ queues' = [queues EXCEPT ![o] = r] /\ current' = o
        /\ fate' = [n \in Msgs |-> IF n = m /\ Refuses(c) THEN "refused"
                                   ELSE IF n \in Entries(Dropped(c)) /\ c.policy = "old"
                                   THEN "discarded" ELSE fate[n]]
        /\ UNCHANGED <<foreign, ran, failures, clears>>
    BY DEF EnqueueFollowupRun, Taken
  <1>2. /\ o \in Objects
        /\ \E k \in Nat : /\ k <= Cardinality(Queued \cup {m})
                          /\ \A p \in Objects : (p = o \/ queues[p].created) <=> p <= k
    BY <1>1, TargetFound
  <1> HIDE DEF o
  <1>3. queues \in [Objects -> QueueStates] /\ \A p \in Objects : QueueOk(queues[p])
    BY Given DEF QueuesOk
  <1>4. \A p \in Objects : m \notin Holds(queues[p])
    BY <1>1 DEF IInv, Objected
  <1>5. /\ QueueOk(r) /\ r.created = TRUE /\ r.batch = q.batch
        /\ Holds(r) \subseteq Holds(q) \cup {m}
        /\ Entries(r.items) \subseteq Entries(q.items) \cup {m}
        /\ Refuses(c) => m \notin Entries(r.items)
        /\ Entries(Dropped(c)) \subseteq Entries(q.items)
        /\ Entries(r.items) \cap Entries(Dropped(c)) = {}
    BY <1>2, <1>3, <1>4, TakenOk
  <1>6. r \in QueueStates
    BY <1>5 DEF QueueOk
  <1> HIDE DEF r, c
  <1>7. \A p \in Objects : queues'[p] = IF p = o THEN r ELSE queues[p]
    BY <1>1, <1>2, <1>3
  <1>8. Scalars'
    <2>1. inbound' \in [Msgs -> Stages] /\ fate' \in [Msgs -> Fates]
      BY <1>1, Given DEF Stages, Fates
    <2>2. QED BY <1>1, <1>2, <2>1, Given DEF Scalars
  <1>9. Objected'
    <2>1. queues' \in [Objects -> QueueStates] /\ \A p \in Objects : QueueOk(queues'[p])
      BY <1>1, <1>3, <1>5, <1>6, <1>7
    <2>2. \A p \in Objects : Holds(queues'[p]) \subseteq IF p = o THEN Holds(queues[p]) \cup {m} ELSE Holds(queues[p])
      BY <1>5, <1>7
    <2>3. \A p, t \in Objects : p # t => Holds(queues'[p]) \cap Holds(queues'[t]) = {}
      <3>1. \A p, t \in Objects : p # t => Holds(queues[p]) \cap Holds(queues[t]) = {}
        BY DEF IInv, Objected
      <3>2. QED BY <1>4, <2>2, <3>1
    <2>4. ASSUME NEW p \in Objects, NEW n \in Holds(queues'[p])
          PROVE  inbound'[n] = "queued"
      <3>1. CASE n = m
        BY <1>1, <3>1, Given
      <3>2. CASE n # m
        <4>1. n \in Holds(queues[p])
          BY <2>2, <3>2
        <4>2. inbound[n] = "queued"
          BY <4>1 DEF IInv, Objected
        <4>3. QED BY <1>1, <3>2, <4>2, Given
      <3>3. QED BY <3>1, <3>2
    <2>5. QED BY <2>1, <2>3, <2>4 DEF Objected
  <1>10. ran[m] = 0 /\ fate[m] = "none"
    BY <1>1 DEF IInv, Unstarted
  <1>11. Fresh'
    <2>1. ASSUME NEW p \in Objects, NEW n \in Entries(queues'[p].items)
          PROVE  ran'[n] = 0 /\ fate'[n] = "none"
      <3>1. n = m \/ n \in Entries(queues[p].items)
        BY <1>5, <1>7
      <3>2. ran[n] = 0 /\ fate[n] = "none" /\ n \in Msgs
        <4>1. CASE n = m
          BY <1>10, <4>1
        <4>2. CASE n \in Entries(queues[p].items)
          <5>1. n \in Holds(queues[p]) /\ queues[p] \in QueueStates
            BY <1>3, <4>2 DEF Holds
          <5>2. n \in Msgs
            BY <5>1, HoldsMsgs
          <5>3. QED BY <4>2, <5>2 DEF IInv, Fresh
        <4>3. QED BY <3>1, <4>1, <4>2
      <3>3. ~(n = m /\ Refuses(c)) /\ n \notin Entries(Dropped(c))
        <4>1. CASE p = o
          BY <1>5, <1>7, <4>1
        <4>2. CASE p # o
          <5>1. n \in Entries(queues[p].items)
            BY <1>7, <4>2
          <5>2. n \in Holds(queues[p])
            BY <5>1 DEF Holds
          <5>3. n \notin Holds(q)
            BY <1>2, <4>2, <5>2 DEF IInv, Objected
          <5>4. n # m /\ n \notin Entries(q.items)
            BY <1>4, <5>2, <5>3 DEF Holds
          <5>5. QED BY <1>5, <5>4
        <4>3. QED BY <4>1, <4>2
      <3>4. QED BY <1>1, <3>2, <3>3
    <2>2. \A p \in Objects : queues'[p].batch = queues[p].batch
      BY <1>5, <1>7
    <2>3. QED BY <1>1, <2>1, <2>2 DEF Fresh, IInv
  <1>12. InTurn'
    <2>1. \A p \in Objects : queues'[p].created <=> (p = o \/ queues[p].created)
      BY <1>5, <1>7
    <2>2. Queued' = Queued \cup {m}
      BY <1>1, Given DEF Queued
    <2>3. QED BY <1>1, <1>2, <2>1, <2>2 DEF InTurn
  <1>13. Unstarted'
    <2>1. ASSUME NEW n \in Msgs, inbound'[n] # "queued"
          PROVE  ran'[n] = 0 /\ fate'[n] = "none"
      <3>1. n # m /\ inbound[n] # "queued"
        BY <1>1, <2>1, Given
      <3>2. ran[n] = 0 /\ fate[n] = "none"
        BY <3>1 DEF IInv, Unstarted
      <3>3. n \notin Entries(Dropped(c))
        <4>1. n \notin Holds(q)
          BY <1>2, <3>1 DEF IInv, Objected
        <4>2. QED BY <1>5, <4>1 DEF Holds
      <3>4. QED BY <1>1, <3>1, <3>2, <3>3
    <2>2. QED BY <2>1 DEF Unstarted
  <1>14. FromQueue
    BY <1>5, <1>7 DEF FromQueue
  <1>15. QED BY <1>8, <1>9, <1>11, <1>12, <1>13, <1>14 DEF IInv

LEMMA InitInv == Init => IInv
  <1> SUFFICES ASSUME Init PROVE IInv
    OBVIOUS
  <1>1. /\ NewQueue \in QueueStates /\ NewQueue.items = <<>> /\ NewQueue.batch = <<>>
        /\ NewQueue.dropped = {} /\ NewQueue.summary = {} /\ NewQueue.created = FALSE
        /\ NewQueue.take = 0 /\ NewQueue.loop = "idle"
    BY EmptyEntries DEF NewQueue, QueueStates, Modes, Policies, Loops
  <1>2. QueueOk(NewQueue)
    <2>1. AtFront(NewQueue.items, NewQueue.batch, NewQueue.take)
      <3>1. <<>> \in Seq(Msgs) /\ 0 \in Nat /\ Entries(<<>>) \cap Entries(<<>>) = {}
        BY EmptyEntries
      <3>2. AtFront(<<>>, <<>>, 0)
        BY <3>1, NothingInHand
      <3>3. QED BY <1>1, <3>2
    <2>2. ~(Len(NewQueue.batch) > 1) /\ NewQueue.loop \notin Hand
      BY <1>1 DEF Hand
    <2>3. QED BY <1>1, <2>1, <2>2, EmptyEntries DEF QueueOk
  <1>3. Holds(NewQueue) = {}
    BY <1>1, EmptyEntries DEF Holds
  <1>4. Scalars
    <2>1. inbound \in [Msgs -> Stages] /\ ran \in [Msgs -> Nat] /\ fate \in [Msgs -> Fates]
      BY DEF Init, Stages, Fates
    <2>2. foreign \in BOOLEAN /\ current = None /\ failures = 0 /\ clears = 0
      BY DEF Init
    <2>3. 0 \in 0 .. MaxFailures /\ 0 \in 0 .. MaxClears
      BY BoundsAssumption
    <2>4. QED BY <2>1, <2>2, <2>3 DEF Scalars
  <1>5. Objected
    BY <1>1, <1>2, <1>3 DEF Init, Objected
  <1>6. Fresh
    BY <1>1, EmptyEntries DEF Init, Fresh
  <1>7. InTurn
    <2>1. \A o \in Objects : ~queues[o].created /\ ~(o <= 0)
      BY <1>1 DEF Init, Objects
    <2>2. IsFiniteSet(Queued)
      BY MsgsAssumption, FS_Subset DEF Queued
    <2>3. 0 <= Cardinality(Queued)
      BY <2>2, FS_CardinalityType
    <2>4. current = None
      BY DEF Init
    <2>5. QED BY <2>1, <2>3, <2>4 DEF InTurn
  <1>8. Unstarted
    BY DEF Init, Unstarted
  <1>9. QED BY <1>4, <1>5, <1>6, <1>7, <1>8 DEF IInv

LEMMA StepInv ==
  ASSUME IInv, [Next]_vars
  PROVE  IInv' /\ FromQueue
  <1>1. ASSUME NEW m \in Msgs, Message(m) PROVE IInv' /\ FromQueue
    <2>1. CASE ReadActive(m)
      <3>1. PICK s \in {"sawActive", "sawIdle"} : inbound' = [inbound EXCEPT ![m] = s]
        BY <2>1 DEF ReadActive
      <3>2. inbound[m] = "new" /\ UNCHANGED <<foreign, queues, current, ran, fate, failures, clears>>
        BY <2>1 DEF ReadActive
      <3>3. s \in Stages \ {"queued"}
        BY DEF Stages
      <3>4. QED BY <3>1, <3>2, <3>3, KeptByHandler
    <2>2. CASE StartsOwnRun(m)
      <3>1. "lane" \in Stages \ {"queued"}
        BY DEF Stages
      <3>2. QED BY <2>2, <3>1, KeptByHandler DEF StartsOwnRun
    <2>3. CASE RunBegins(m)
      <3>1. "active" \in Stages \ {"queued"}
        BY DEF Stages
      <3>2. QED BY <2>3, <3>1, KeptByHandler DEF RunBegins
    <2>4. CASE RunEnds(m)
      <3>1. "ending" \in Stages \ {"queued"}
        BY DEF Stages
      <3>2. QED BY <2>4, <3>1, KeptByHandler DEF RunEnds
    <2>5. CASE FinalizeWithFollowup(m)
      BY <2>5, KeptByFinalize
    <2>6. CASE \E s \in Settings : EnqueueFollowupRun(m, s)
      BY <2>6, KeptByEnqueue
    <2>7. QED BY <1>1, <2>1, <2>2, <2>3, <2>4, <2>5, <2>6 DEF Message
  <1>2. ASSUME NEW o \in Objects, DrainLoop(o) \/ FollowupThrows(o) PROVE IInv' /\ FromQueue
    BY <1>2, KeptByDebounce, KeptByFollowup, KeptByReturn, KeptByThrow DEF DrainLoop
  <1>3. CASE UNCHANGED vars
    <2>1. UNCHANGED <<inbound, foreign, queues, current, ran, fate, failures, clears>>
      BY <1>3 DEF vars
    <2>2. QueuesOk(queues')
      BY <2>1, Given DEF QueuesOk
    <2>3. QED BY <2>1, <2>2, Given, KeptByRest
  <1>4. QED BY <1>1, <1>2, <1>3, KeptByForeign, KeptByClear DEF Next

-----------------------------------------------------------------------------
\* The theorems.

\* The invariant has what the type invariant says.
LEMMA InvType == IInv => TypeOK
  <1> SUFFICES ASSUME IInv PROVE TypeOK
    OBVIOUS
  <1>1. ASSUME NEW o \in Objects
        PROVE  /\ queues[o].items \in Seq(Msgs) /\ queues[o].batch \in Seq(Msgs)
               /\ queues[o].dropped \subseteq Msgs /\ queues[o].summary \subseteq Msgs
               /\ queues[o].loop \in Loops /\ queues[o].take \in Nat
               /\ {queues[o].lastRun, queues[o].created, queues[o].force} \subseteq BOOLEAN
               /\ \A i, j \in DOMAIN queues[o].items : queues[o].items[i] = queues[o].items[j] => i = j
               /\ o = current => queues[o].created
               /\ queues[o].batch # <<>> => queues[o].loop \in {"lane", "active", "ending"}
    <2>1. queues[o] \in QueueStates /\ QueueOk(queues[o])
      BY DEF IInv, Objected
    <2>2. o = current => queues[o].created
      BY DEF IInv, InTurn, None, Objects
    <2>3. NoRepeat(queues[o].items) /\ (queues[o].loop \notin Hand => queues[o].batch = <<>>)
      BY <2>1 DEF QueueOk
    <2>4. QED BY <2>1, <2>2, <2>3 DEF QueueStates, NoRepeat, Hand
  <1>2. QED BY <1>1 DEF IInv, Scalars, TypeOK

\* The types, that no queue holds a message twice, that the map has an object which
\* was created and that only a running drain loop has a batch in hand.
THEOREM TypeCorrect == Spec => []TypeOK
  <1>1. Init => IInv
    BY InitInv
  <1>2. IInv /\ [Next]_vars => IInv'
    BY StepInv
  <1>3. IInv => TypeOK
    BY InvType
  <1>4. QED BY <1>1, <1>2, <1>3, PTL DEF Spec

\* A message whose followup run was completed is not run a second time, whatever
\* failed, was cleared or was enqueued while it ran.
THEOREM OnlyOnce == Spec => []RunOnce
  <1>1. Init => IInv
    BY InitInv
  <1>2. IInv /\ [Next]_vars => IInv'
    BY StepInv
  <1>3. IInv => RunOnce
    BY DEF IInv, Fresh, RunOnce
  <1>4. QED BY <1>1, <1>2, <1>3, PTL DEF Spec

\* Messages answered in one run have one route, and a drain that met a mix of
\* routes does not collect again.
THEOREM OneRoute == Spec => []RoutesNotMixed
  <1>1. Init => IInv
    BY InitInv
  <1>2. IInv /\ [Next]_vars => IInv'
    BY StepInv
  <1>3. IInv => RoutesNotMixed
    BY DEF IInv, Objected, QueueOk, RoutesNotMixed
  <1>4. QED BY <1>1, <1>2, <1>3, PTL DEF Spec

\* What one step completes was at the front of its queue, and what it takes in hand
\* is still to be answered.
LEMMA StepInTurn ==
  ASSUME IInv, [Next]_vars, NEW o \in Objects
  PROVE  LET q == queues[o].items
         IN  /\ \A i, j \in DOMAIN q : (i < j /\ ran'[q[j]] > ran[q[j]]) => ran'[q[i]] > 0
             /\ \A m \in Entries(queues'[o].batch) :
                  m \in Entries(queues[o].batch) \/ fate[m] = "none"
  <1> DEFINE q == queues[o].items
  <1>1. \A m \in Entries(queues'[o].batch) : m \in Entries(queues[o].batch) \/ fate[m] = "none"
    BY StepInv DEF FromQueue, IInv, Fresh
  <1>2. queues[o] \in QueueStates /\ QueueOk(queues[o])
    BY DEF IInv, Objected
  <1>3. q \in Seq(Msgs) /\ \A i \in DOMAIN q : q[i] \in Msgs /\ q[i] \in Holds(queues[o])
    BY <1>2 DEF QueueStates, Holds, Entries
  <1>4. ASSUME NEW i \in DOMAIN q, NEW j \in DOMAIN q, i < j, ran'[q[j]] > ran[q[j]]
        PROVE  ran'[q[i]] > 0
    <2>1. \A m \in Msgs : ran[m] \in Nat
      BY Given
    <2>2. ran' # ran
      BY <1>3, <1>4, <2>1
    <2>3. PICK p \in Objects : FollowupReturns(p)
      BY <2>2 DEF Next, vars, Message, DrainLoop, ReadActive, StartsOwnRun, RunBegins, RunEnds,
                  FinalizeWithFollowup, EnqueueFollowupRun, DebounceElapses, FollowupBegins,
                  FollowupEnds, FollowupThrows, ForeignBegins, ForeignEnds, ClearFollowupQueue
    <2>4. ran' = [m \in Msgs |-> IF m \in Entries(queues[p].batch) THEN ran[m] + 1 ELSE ran[m]]
      BY <2>3 DEF FollowupReturns
    <2>5. q[j] \in Entries(queues[p].batch)
      BY <1>3, <1>4, <2>1, <2>4
    <2>6. p = o
      <3>1. q[j] \in Holds(queues[p]) /\ q[j] \in Holds(queues[o])
        BY <1>3, <2>5 DEF Holds
      <3>2. QED BY <3>1 DEF IInv, Objected
    <2>7. PICK n \in 0 .. Len(q) : /\ \A k \in 1 .. n : q[k] \in Entries(queues[o].batch)
                                   /\ \A k \in n + 1 .. Len(q) : q[k] \notin Entries(queues[o].batch)
      BY <1>2 DEF QueueOk, AtFront
    <2>8. j <= n
      BY <1>3, <2>5, <2>6, <2>7
    <2>9. q[i] \in Entries(queues[p].batch)
      BY <1>3, <1>4, <2>6, <2>7, <2>8
    <2>10. QED BY <1>3, <2>1, <2>4, <2>9
  <1>5. QED BY <1>1, <1>4

\* Messages of one queue are answered in the order in which they were queued, and
\* what a stop or reset has cleared, or an overflow dropped, is not started any more.
THEOREM AnsweredInTurn == Spec => ServedInTurn
  <1>1. Init => IInv
    BY InitInv
  <1>2. IInv /\ [Next]_vars => IInv'
    BY StepInv
  <1> DEFINE Turn ==
        \A o \in Objects :
          LET q == queues[o].items
          IN  /\ \A i, j \in DOMAIN q : (i < j /\ ran'[q[j]] > ran[q[j]]) => ran'[q[i]] > 0
              /\ \A m \in Entries(queues'[o].batch) :
                   m \in Entries(queues[o].batch) \/ fate[m] = "none"
  <1>3. IInv /\ [Next]_vars => [Turn]_vars
    BY StepInTurn
  <1>4. Spec => [][Turn]_vars
    <2> HIDE DEF Turn
    <2>1. QED BY <1>1, <1>2, <1>3, PTL DEF Spec
  <1>5. ServedInTurn <=> [][Turn]_vars
    BY DEF ServedInTurn
  <1>6. QED BY <1>4, <1>5

-----------------------------------------------------------------------------
\* Nothing is lost.  A queue that overflows refuses, and the queue of the session
\* is never cleared: then only the object the map has is ever in use, its loop
\* completes what it takes off, and the finally block removes an empty object only.

NoneDropped(q) == q.dropped = {} /\ q.summary = {} /\ q.policy = "new"

\* All that the loop is going to take off is in hand.
Whole(q) ==
  /\ NoneDropped(q)
  /\ q.loop \in Hand => /\ q.take <= Len(q.items)
                        /\ \A i \in 1 .. q.take : q.items[i] \in Entries(q.batch)

Quiet(q) == q.loop = "idle" /\ q.items = <<>>

OthersQuiet(qs, c) == \A o \in Objects : o # c => Quiet(qs[o])

Accounted ==
  \A m \in Queued : \/ \E o \in Objects : m \in Entries(queues[o].items)
                    \/ ran[m] > 0 \/ fate[m] # "none"

NotLost == (\A o \in Objects : Whole(queues[o])) /\ OthersQuiet(queues, current) /\ Accounted

\* The drain loop of an object at rest has nothing in hand.
LEMMA RestsWhole ==
  ASSUME NEW q, NEW r, Rests(q, r), NoneDropped(q), r.loop \notin Hand
  PROVE  Whole(r)
  BY DEF Rests, NoneDropped, Whole

LEMMA ScheduleWhole ==
  ASSUME NEW qs, QueuesOk(qs), NEW c \in Objects \cup {None}, Schedule(qs, c),
         \A o \in Objects : Whole(qs[o]), OthersQuiet(qs, c)
  PROVE  (\A o \in Objects : Whole(queues'[o])) /\ OthersQuiet(queues, current)'
  <1>1. qs \in [Objects -> QueueStates] /\ \A o \in Objects : QueueOk(qs[o])
    BY DEF QueuesOk
  <1>2. CASE c = None
    BY <1>2 DEF Schedule, OthersQuiet
  <1>3. CASE c # None
    <2>1. /\ c \in Objects /\ queues' = [qs EXCEPT ![c] = Scheduled(@)]
          /\ current' = IF qs[c].loop = "idle" /\ ~HasWork(qs[c]) THEN None ELSE c
      BY <1>3 DEF Schedule
    <2>2. \A o \in Objects : queues'[o] = IF o = c THEN Scheduled(qs[c]) ELSE qs[o]
      BY <1>1, <2>1
    <2>3. /\ Rests(qs[c], Scheduled(qs[c]))
          /\ qs[c].loop = "idle" => Scheduled(qs[c]).loop = IF HasWork(qs[c]) THEN "debounce" ELSE "idle"
          /\ qs[c].loop # "idle" => Scheduled(qs[c]) = qs[c]
      BY <1>1, <2>1, ScheduledRests
    <2>4. Whole(Scheduled(qs[c]))
      <3>1. CASE qs[c].loop = "idle"
        <4>1. Scheduled(qs[c]).loop \notin Hand
          BY <2>3, <3>1 DEF Hand
        <4>2. QED BY <2>1, <2>3, <4>1, RestsWhole DEF Whole
      <3>2. CASE qs[c].loop # "idle"
        BY <2>1, <2>3, <3>2
      <3>3. QED BY <3>1, <3>2
    <2>5. \A o \in Objects : o # c => Quiet(queues'[o])
      BY <2>2 DEF OthersQuiet
    <2>6. ASSUME current' = None PROVE Quiet(queues'[c])
      <3>1. qs[c].loop = "idle" /\ ~HasWork(qs[c])
        BY <1>3, <2>1, <2>6
      <3>2. QED BY <2>1, <2>2, <2>3, <3>1 DEF Quiet, HasWork, Rests
    <2>7. OthersQuiet(queues, current)'
      BY <2>1, <2>5, <2>6 DEF OthersQuiet
    <2>8. QED BY <2>2, <2>4, <2>7
  <1>4. QED BY <1>2, <1>3

LEMMA FinallyWhole ==
  ASSUME NEW qs, QueuesOk(qs), NEW o \in Objects, current = o, Finally(qs, o),
         \A p \in Objects : p # o => Whole(qs[p]), NoneDropped(qs[o]), OthersQuiet(qs, o)
  PROVE  (\A p \in Objects : Whole(queues'[p])) /\ OthersQuiet(queues, current)'
  <1> DEFINE ended == [qs EXCEPT ![o] = Ended(@)]
  <1>1. qs \in [Objects -> QueueStates] /\ \A p \in Objects : QueueOk(qs[p])
    BY DEF QueuesOk
  <1>2. ended = [qs EXCEPT ![o].loop = "idle", ![o].batch = <<>>, ![o].summary = {}, ![o].take = 0]
    BY <1>1 DEF Ended, QueueStates
  <1>3. Rests(qs[o], Ended(qs[o])) /\ Ended(qs[o]).loop = "idle"
    BY <1>1, EndedRests
  <1>4. Ended(qs[o]) \in QueueStates
    BY <1>3 DEF Rests, QueueOk
  <1>5. \A p \in Objects : ended[p] = IF p = o THEN Ended(qs[o]) ELSE qs[p]
    BY <1>1
  <1>6. ended \in [Objects -> QueueStates]
    BY <1>1, <1>4
  <1> HIDE DEF ended
  <1>7. QueuesOk(ended)
    BY <1>1, <1>3, <1>5, <1>6 DEF QueuesOk, Rests
  <1>8. Whole(Ended(qs[o]))
    BY <1>3, RestsWhole DEF Hand
  <1>9. (\A p \in Objects : Whole(ended[p])) /\ OthersQuiet(ended, o)
    BY <1>5, <1>8 DEF OthersQuiet
  <1>10. IF HasWork(ended[o]) THEN Schedule(ended, current) ELSE queues' = ended /\ current' = None
    BY <1>2 DEF Finally
  <1>11. CASE HasWork(ended[o])
    BY <1>7, <1>9, <1>10, <1>11, ScheduleWhole
  <1>12. CASE ~HasWork(ended[o])
    <2>1. queues' = ended /\ current' = None
      BY <1>10, <1>12
    <2>2. Quiet(ended[o])
      BY <1>3, <1>5, <1>12 DEF Quiet, HasWork
    <2>3. QED BY <1>9, <2>1, <2>2 DEF OthersQuiet
  <1>13. QED BY <1>11, <1>12

LEMMA ContinueWhole ==
  ASSUME QueuesOk(queues), NEW o \in Objects, current = o, NEW q, QueueOk(q), Continue(o, q),
         \A p \in Objects : p # o => Whole(queues[p]), NoneDropped(q), OthersQuiet(queues, o)
  PROVE  (\A p \in Objects : Whole(queues'[p])) /\ OthersQuiet(queues, current)'
  <1>1. queues \in [Objects -> QueueStates] /\ \A p \in Objects : QueueOk(queues[p])
    BY DEF QueuesOk
  <1>2. CASE HasWork(q)
    <2>1. queues' = [queues EXCEPT ![o] = LoopHead(q)] /\ current' = current
      BY <1>2 DEF Continue
    <2>2. Rests(q, LoopHead(q)) /\ LoopHead(q).loop = "debounce"
      BY <1>2, LoopHeadRests
    <2>3. Whole(LoopHead(q))
      BY <2>2, RestsWhole DEF Hand
    <2>4. \A p \in Objects : queues'[p] = IF p = o THEN LoopHead(q) ELSE queues[p]
      BY <1>1, <2>1
    <2>5. QED BY <2>1, <2>3, <2>4 DEF OthersQuiet
  <1>3. CASE ~HasWork(q)
    <2> DEFINE qs == [queues EXCEPT ![o] = q]
    <2>1. Finally(qs, o)
      BY <1>3 DEF Continue
    <2>2. \A p \in Objects : qs[p] = IF p = o THEN q ELSE queues[p]
      BY <1>1
    <2>3. q \in QueueStates
      BY DEF QueueOk
    <2>4. QueuesOk(qs)
      BY <1>1, <2>2, <2>3 DEF QueuesOk
    <2> HIDE DEF qs
    <2>5. (\A p \in Objects : p # o => Whole(qs[p])) /\ NoneDropped(qs[o]) /\ OthersQuiet(qs, o)
      BY <2>2 DEF OthersQuiet
    <2>6. QED BY <2>1, <2>4, <2>5, FinallyWhole
  <1>4. QED BY <1>2, <1>3

\* Taking the next messages in hand, none of them a summary.
LEMMA LaunchWhole ==
  ASSUME NEW q, QueueOk(q), NoneDropped(q), q.loop = "debounce", ~Breaks(q)
  PROVE  Whole(Launch(q))
  <1>1. q \in QueueStates /\ q.items \in Seq(Msgs)
    BY DEF QueueOk, QueueStates
  <1>2. ~HasSummary(q)
    BY DEF HasSummary, NoneDropped
  <1>3. \A b, k : LET r == Takes(q, b, {}, k)
                  IN  /\ r.items = q.items /\ r.batch = b /\ r.take = k
                      /\ r.dropped = q.dropped /\ r.summary = {} /\ r.policy = q.policy
    BY <1>1 DEF Takes, QueueStates
  <1>4. CASE Collects(q)
    <2>1. Launch(q) = Takes(q, q.items, {}, Len(q.items))
      BY <1>2, <1>4 DEF Launch, Takes, Mixed
    <2>2. Len(q.items) <= Len(q.items) /\ \A i \in 1 .. Len(q.items) : q.items[i] \in Entries(q.items)
      BY <1>1 DEF Entries
    <2>3. QED BY <1>3, <2>1, <2>2 DEF Whole, NoneDropped
  <1>5. CASE ~Collects(q)
    <2> DEFINE b == <<Head(q.items)>>
    <2>1. Launch(q) = Takes(q, b, {}, 1)
      BY <1>2, <1>5 DEF Launch, Takes, Mixed
    <2>2. q.items # <<>>
      BY <1>5 DEF Breaks
    <2>3. 1 <= Len(q.items) /\ q.items[1] = Head(q.items)
      BY <1>1, <2>2
    <2>4. q.items[1] \in Entries(b)
      BY <2>3 DEF Entries
    <2> HIDE DEF b
    <2>5. 1 <= Len(q.items) /\ \A i \in 1 .. 1 : q.items[i] \in Entries(b)
      BY <2>3, <2>4
    <2>6. QED BY <1>3, <2>1, <2>5 DEF Whole, NoneDropped
  <1>6. QED BY <1>4, <1>5

\* Only the object the map has is in use.
LEMMA InUse ==
  ASSUME NotLost, NEW o \in Objects, queues[o].loop # "idle"
  PROVE  current = o
  BY DEF NotLost, OthersQuiet, Quiet

\* A step that leaves the queues, what was run and what ended as they are.
LEMMA AccountedKept ==
  ASSUME IInv, NotLost, \A m \in Msgs : inbound'[m] = "queued" <=> inbound[m] = "queued",
         ran' = ran, fate' = fate, \A o \in Objects : queues'[o].items = queues[o].items
  PROVE  Accounted'
  <1>1. Queued' = Queued
    BY DEF Queued
  <1>2. QED BY <1>1 DEF NotLost, Accounted

LEMMA NotLostByLoop ==
  ASSUME IInv, NotLost, NEW o \in Objects,
         DebounceElapses(o) \/ FollowupBegins(o) \/ FollowupEnds(o) \/ FollowupThrows(o)
  PROVE  NotLost'
  <1> DEFINE q == queues[o]
             Good == (\A p \in Objects : Whole(queues'[p])) /\ OthersQuiet(queues, current)'
             Still == \A p \in Objects : queues'[p].items = queues[p].items
  <1>1. queues \in [Objects -> QueueStates] /\ \A p \in Objects : QueueOk(queues[p])
    BY Given DEF QueuesOk
  <1>2. current = o
    BY InUse DEF DebounceElapses, FollowupBegins, FollowupEnds, FollowupThrows
  <1>3. /\ \A p \in Objects : Whole(queues[p]) /\ NoneDropped(queues[p])
        /\ OthersQuiet(queues, o) /\ QueuesOk(queues) /\ current \in Objects \cup {None}
    BY <1>2, Given DEF NotLost, Whole
  <1>4. inbound' = inbound /\ ran' = ran /\ fate' = fate
    BY DEF DebounceElapses, FollowupBegins, FollowupEnds, FollowupThrows
  <1>5. ASSUME Finally(queues, o) PROVE Good /\ Still
    <2>1. Good
      BY <1>2, <1>3, <1>5, FinallyWhole
    <2>2. Still
      BY <1>3, <1>5, FinallyRests DEF Rests
    <2>3. QED BY <2>1, <2>2
  <1>6. ASSUME NEW r, queues' = [queues EXCEPT ![o] = r], current' = current,
               Whole(r), r.items = q.items
        PROVE  Good /\ Still
    <2>1. \A p \in Objects : queues'[p] = IF p = o THEN r ELSE queues[p]
      BY <1>1, <1>6
    <2>2. QED BY <1>2, <1>3, <1>6, <2>1 DEF OthersQuiet
  <1>7. ASSUME DebounceElapses(o) PROVE Good /\ Still
    <2>1. CASE Breaks(q)
      BY <1>5, <1>7, <2>1 DEF DebounceElapses
    <2>2. CASE ~Breaks(q)
      <3>1. queues' = [queues EXCEPT ![o] = Launch(q)] /\ current' = current /\ q.loop = "debounce"
        BY <1>7, <2>2 DEF DebounceElapses
      <3>2. Whole(Launch(q)) /\ Launch(q).items = q.items
        BY <1>1, <1>3, <2>2, <3>1, LaunchWhole, LaunchRests DEF Rests
      <3>3. QED BY <1>6, <3>1, <3>2
    <2>3. QED BY <2>1, <2>2
  <1>8. ASSUME FollowupBegins(o) \/ FollowupEnds(o) PROVE Good /\ Still
    <2>1. PICK l \in Hand : queues' = [queues EXCEPT ![o].loop = l]
      BY <1>8 DEF FollowupBegins, FollowupEnds, Hand
    <2>2. q.loop \in Hand /\ current' = current
      BY <1>8 DEF FollowupBegins, FollowupEnds, Hand
    <2> DEFINE r == [q EXCEPT !.loop = l]
    <2>3. /\ r.items = q.items /\ r.dropped = q.dropped /\ r.summary = q.summary
          /\ r.policy = q.policy /\ r.take = q.take /\ r.batch = q.batch
      BY <1>1 DEF QueueStates
    <2>4. queues' = [queues EXCEPT ![o] = r]
      BY <2>1
    <2> HIDE DEF r
    <2>5. Whole(r)
      BY <1>3, <2>2, <2>3 DEF Whole, NoneDropped
    <2>6. QED BY <1>6, <2>2, <2>3, <2>4, <2>5
  <1>9. ASSUME FollowupThrows(o) PROVE Good /\ Still
    BY <1>5, <1>9 DEF FollowupThrows
  <1>10. Good /\ Still
    BY <1>7, <1>8, <1>9
  <1>11. Accounted'
    BY <1>4, <1>10, AccountedKept
  <1>12. QED BY <1>10, <1>11 DEF NotLost

LEMMA NotLostByReturn ==
  ASSUME IInv, NotLost, NEW o \in Objects, FollowupReturns(o)
  PROVE  NotLost'
  <1> DEFINE q == queues[o]
             d == Deliver(q)
  <1>1. /\ Continue(o, d) /\ inbound' = inbound /\ q.loop = "ending"
        /\ ran'  = [m \in Msgs |-> IF m \in Entries(q.batch) THEN ran[m] + 1 ELSE ran[m]]
        /\ fate' = [m \in Msgs |-> IF m \in q.summary THEN "summarized" ELSE fate[m]]
    BY DEF FollowupReturns
  <1>2. queues \in [Objects -> QueueStates] /\ \A p \in Objects : QueueOk(queues[p])
    BY Given DEF QueuesOk
  <1>3. current = o
    BY <1>1, InUse
  <1>4. /\ \A p \in Objects : Whole(queues[p]) /\ NoneDropped(queues[p])
        /\ OthersQuiet(queues, o) /\ QueuesOk(queues) /\ current \in Objects \cup {None}
    BY <1>3, Given DEF NotLost, Whole
  <1>5. /\ QueueOk(d) /\ d.policy = q.policy /\ d.summary = q.summary /\ d.dropped \subseteq q.dropped
        /\ d.items = SubSeq(q.items, q.take + 1, Len(q.items))
    BY <1>2, DeliverOk
  <1> HIDE DEF d
  <1>6. NoneDropped(d)
    BY <1>4, <1>5 DEF NoneDropped
  <1>7. (\A p \in Objects : Whole(queues'[p])) /\ OthersQuiet(queues, current)'
    BY <1>1, <1>3, <1>4, <1>5, <1>6, ContinueWhole
  <1>8. queues'[o].items = d.items
    BY <1>1, <1>4, <1>5, ContinueRests DEF Rests
  <1>9. Accounted'
    <2> SUFFICES ASSUME NEW m \in Queued'
                 PROVE  \/ \E p \in Objects : m \in Entries(queues'[p].items)
                        \/ ran'[m] > 0 \/ fate'[m] # "none"
      BY DEF Accounted
    <2>1. m \in Msgs /\ m \in Queued
      BY <1>1 DEF Queued
    <2>2. ran[m] \in Nat
      BY <2>1, Given
    <2>3. CASE ran[m] > 0
      BY <1>1, <2>1, <2>2, <2>3
    <2>4. CASE fate[m] # "none"
      BY <1>1, <2>1, <2>4
    <2>5. CASE m \in Entries(q.items)
      <3>1. q.items \in Seq(Msgs) /\ q.take \in Nat
        BY <1>2 DEF QueueStates
      <3>2. PICK i \in 1 .. Len(q.items) : q.items[i] = m
        BY <2>5, <3>1 DEF Entries
      <3>3. CASE i <= q.take
        <4>1. m \in Entries(q.batch)
          BY <1>1, <1>4, <3>1, <3>2, <3>3 DEF Whole, Hand
        <4>2. QED BY <1>1, <2>1, <2>2, <4>1
      <3>4. CASE ~(i <= q.take)
        <4>1. /\ d.items \in Seq(Msgs) /\ Len(d.items) = Len(q.items) - q.take
              /\ \A j \in 1 .. Len(d.items) : d.items[j] = q.items[j + q.take]
          <5>1. q.take <= Len(q.items)
            BY <3>1, <3>2, <3>4
          <5> DEFINE t == SubSeq(q.items, q.take + 1, Len(q.items))
          <5>2. /\ t \in Seq(Msgs)
                /\ Len(t) = IF q.take <= Len(q.items) THEN Len(q.items) - q.take ELSE 0
                /\ \A j \in 1 .. Len(t) : t[j] = q.items[j + q.take]
            BY <3>1, TailOf
          <5>3. d.items = t
            BY <1>5
          <5> HIDE DEF t
          <5>4. QED BY <5>1, <5>2, <5>3
        <4>2. i - q.take \in 1 .. Len(d.items) /\ (i - q.take) + q.take = i
          BY <3>1, <3>2, <3>4, <4>1
        <4>3. d.items[i - q.take] = m
          BY <3>2, <4>1, <4>2
        <4>4. m \in Entries(d.items)
          BY <4>1, <4>2, <4>3 DEF Entries
        <4>5. QED BY <1>8, <4>4
      <3>5. QED BY <3>3, <3>4
    <2>6. \A p \in Objects : p # o => Entries(queues[p].items) = {}
      BY <1>4, EmptyEntries DEF OthersQuiet, Quiet
    <2>7. QED BY <2>1, <2>3, <2>4, <2>5, <2>6 DEF NotLost, Accounted
  <1>10. QED BY <1>7, <1>9 DEF NotLost

LEMMA NotLostByEnqueue ==
  ASSUME IInv, NotLost, NEW m \in Msgs, NEW s \in Settings, s.policy = "new", EnqueueFollowupRun(m, s)
  PROVE  NotLost'
  <1> DEFINE o == Target
             q == queues[o]
             c == Configure(q, s)
             r == Taken(q, m, s)
  <1>1. /\ inbound[m] = "sawActive" /\ inbound' = [inbound EXCEPT ![m] = "queued"]
        /\ queues' = [queues EXCEPT ![o] = r] /\ current' = o
        /\ fate' = [n \in Msgs |-> IF n = m /\ Refuses(c) THEN "refused"
                                   ELSE IF n \in Entries(Dropped(c)) /\ c.policy = "old"
                                   THEN "discarded" ELSE fate[n]]
        /\ ran' = ran
    BY DEF EnqueueFollowupRun, Taken
  <1>2. o \in Objects
    BY <1>1, TargetFound
  <1>3. current # None => current = o
    BY DEF Target
  <1> HIDE DEF o
  <1>4. queues \in [Objects -> QueueStates] /\ \A p \in Objects : QueueOk(queues[p])
    BY Given DEF QueuesOk
  <1>5. \A p \in Objects : m \notin Holds(queues[p])
    BY <1>1 DEF IInv, Objected
  <1>6. /\ r.loop = q.loop /\ r.policy = "new"
        /\ r.batch = q.batch /\ r.summary = q.summary /\ r.take = q.take /\ r.dropped = q.dropped
        /\ ~Refuses(c) => m \in Entries(r.items)
        /\ r.items = IF Refuses(c) THEN q.items ELSE Append(q.items, m)
    <2>1. q \in QueueStates /\ QueueOk(q) /\ m \notin Holds(q)
      BY <1>2, <1>4, <1>5
    <2> HIDE DEF q
    <2>2. /\ r.loop = q.loop /\ r.batch = q.batch /\ r.summary = q.summary /\ r.take = q.take
          /\ ~Refuses(c) => m \in Entries(r.items)
      BY <2>1, TakenOk
    <2>3. /\ r.policy = "new" /\ r.dropped = q.dropped
          /\ Refuses(c) => r.items = q.items
          /\ ~Refuses(c) => r.items = Append(q.items, m)
      BY <2>1, TakenNew
    <2>4. QED BY <2>2, <2>3
  <1>7. q.items \in Seq(Msgs) /\ q.take \in Nat
    BY <1>2, <1>4 DEF QueueStates
  <1> HIDE DEF r, c
  <1>8. \A p \in Objects : queues'[p] = IF p = o THEN r ELSE queues[p]
    BY <1>1, <1>2, <1>4
  <1>9. /\ Len(q.items) <= Len(r.items)
        /\ \A i \in 1 .. Len(q.items) : r.items[i] = q.items[i]
        /\ Entries(q.items) \subseteq Entries(r.items)
    <2>1. CASE Refuses(c)
      BY <1>6, <1>7, <2>1
    <2>2. CASE ~Refuses(c)
      <3>1. /\ Len(r.items) = Len(q.items) + 1
            /\ \A i \in 1 .. Len(q.items) : r.items[i] = q.items[i]
        BY <1>6, <1>7, <2>2, AppendProperties
      <3>2. DOMAIN q.items = 1 .. Len(q.items) /\ DOMAIN r.items = 1 .. Len(q.items) + 1
        BY <1>6, <1>7, <2>2, AppendProperties
      <3>3. Entries(q.items) \subseteq Entries(r.items)
        BY <1>7, <3>1, <3>2 DEF Entries
      <3>4. QED BY <1>7, <3>1, <3>3
    <2>3. QED BY <2>1, <2>2
  <1>10. Whole(r)
    <2>1. Whole(q)
      BY <1>2 DEF NotLost
    <2>2. NoneDropped(r)
      BY <1>6, <2>1 DEF Whole, NoneDropped
    <2>3. ASSUME r.loop \in Hand
          PROVE  r.take <= Len(r.items) /\ \A i \in 1 .. r.take : r.items[i] \in Entries(r.batch)
      <3>1. q.take <= Len(q.items) /\ \A i \in 1 .. q.take : q.items[i] \in Entries(q.batch)
        BY <1>6, <2>1, <2>3 DEF Whole
      <3>2. Len(q.items) \in Nat /\ Len(r.items) \in Nat
        <4>1. Append(q.items, m) \in Seq(Msgs)
          BY <1>7
        <4>2. r.items \in Seq(Msgs)
          BY <1>6, <1>7, <4>1
        <4>3. QED BY <1>7, <4>2
      <3>3. QED BY <1>6, <1>7, <1>9, <3>1, <3>2
    <2>4. QED BY <2>2, <2>3 DEF Whole
  <1>11. OthersQuiet(queues, current)'
    <2>1. \A p \in Objects : p # o => Quiet(queues[p])
      BY <1>3 DEF NotLost, OthersQuiet, None, Objects
    <2>2. QED BY <1>1, <1>8, <2>1 DEF OthersQuiet
  <1>12. Accounted'
    <2> SUFFICES ASSUME NEW n \in Queued'
                 PROVE  \/ \E p \in Objects : n \in Entries(queues'[p].items)
                        \/ ran'[n] > 0 \/ fate'[n] # "none"
      BY DEF Accounted
    <2>1. n \in Msgs /\ (n = m \/ n \in Queued)
      BY <1>1, Given DEF Queued
    <2>2. CASE n = m
      <3>1. CASE Refuses(c)
        BY <1>1, <2>2, <3>1
      <3>2. CASE ~Refuses(c)
        BY <1>2, <1>6, <1>8, <2>2, <3>2
      <3>3. QED BY <3>1, <3>2
    <2>3. CASE n \in Queued
      <3>1. \/ \E p \in Objects : n \in Entries(queues[p].items)
            \/ ran[n] > 0 \/ fate[n] # "none"
        BY <2>3 DEF NotLost, Accounted
      <3>2. \A p \in Objects : Entries(queues[p].items) \subseteq Entries(queues'[p].items)
        BY <1>8, <1>9
      <3>3. fate[n] # "none" => fate'[n] # "none"
        BY <1>1, <2>1
      <3>4. QED BY <1>1, <3>1, <3>2, <3>3
    <2>4. QED BY <2>1, <2>2, <2>3
  <1>13. QED BY <1>8, <1>10, <1>11, <1>12 DEF NotLost

\* The steps that leave the queues as they are.
LEMMA NotLostByRest ==
  ASSUME IInv, NotLost, queues' = queues, current' = current, ran' = ran, fate' = fate,
         \A m \in Msgs : inbound'[m] = "queued" <=> inbound[m] = "queued"
  PROVE  NotLost'
  <1>1. Accounted'
    BY AccountedKept
  <1>2. QED BY <1>1 DEF NotLost, OthersQuiet

LEMMA NotLostByFinalize ==
  ASSUME IInv, NotLost, NEW m \in Msgs, FinalizeWithFollowup(m)
  PROVE  NotLost'
  <1>1. /\ Schedule(queues, current) /\ inbound' = [inbound EXCEPT ![m] = "done"]
        /\ inbound[m] = "ending" /\ ran' = ran /\ fate' = fate
    BY DEF FinalizeWithFollowup
  <1>2. \A n \in Msgs : inbound'[n] = "queued" <=> inbound[n] = "queued"
    BY <1>1, Given
  <1>3. (\A o \in Objects : Whole(queues'[o])) /\ OthersQuiet(queues, current)'
    BY <1>1, Given, ScheduleWhole DEF NotLost
  <1>4. \A o \in Objects : queues'[o].items = queues[o].items
    BY <1>1, Given, ScheduleRests DEF Rests
  <1>5. Accounted'
    BY <1>1, <1>2, <1>4, AccountedKept
  <1>6. QED BY <1>3, <1>5 DEF NotLost

LEMMA StepNotLost ==
  ASSUME \A s \in Settings : s.policy = "new", MaxClears = 0, IInv, NotLost, [Next]_vars
  PROVE  NotLost'
  <1>1. ASSUME NEW m \in Msgs, Message(m) PROVE NotLost'
    <2>1. CASE ReadActive(m) \/ StartsOwnRun(m) \/ RunBegins(m) \/ RunEnds(m)
      <3>1. PICK st \in {"sawActive", "sawIdle", "lane", "active", "ending"} :
              inbound' = [inbound EXCEPT ![m] = st]
        BY <2>1 DEF ReadActive, StartsOwnRun, RunBegins, RunEnds
      <3>2. inbound[m] # "queued" /\ UNCHANGED <<queues, current, ran, fate>>
        BY <2>1 DEF ReadActive, StartsOwnRun, RunBegins, RunEnds
      <3>3. \A n \in Msgs : inbound'[n] = "queued" <=> inbound[n] = "queued"
        BY <3>1, <3>2, Given
      <3>4. QED BY <3>2, <3>3, NotLostByRest
    <2>2. CASE FinalizeWithFollowup(m)
      BY <2>2, NotLostByFinalize
    <2>3. CASE \E s \in Settings : EnqueueFollowupRun(m, s)
      BY <2>3, NotLostByEnqueue
    <2>4. QED BY <1>1, <2>1, <2>2, <2>3 DEF Message
  <1>2. ASSUME NEW o \in Objects, DrainLoop(o) \/ FollowupThrows(o) PROVE NotLost'
    BY <1>2, NotLostByLoop, NotLostByReturn DEF DrainLoop
  <1>3. CASE ForeignBegins \/ ForeignEnds \/ UNCHANGED vars
    BY <1>3, NotLostByRest DEF ForeignBegins, ForeignEnds, vars
  <1>4. ~ClearFollowupQueue
    BY Given DEF ClearFollowupQueue
  <1>5. QED BY <1>1, <1>2, <1>3, <1>4 DEF Next

\* A message put on the queue of its session is on it until it has been run or was
\* refused, whatever fails and however the mode is changed, as long as the queue is
\* not cleared and an overflow refuses.
THEOREM RefusedOrAnswered ==
  ASSUME \A s \in Settings : s.policy = "new", MaxClears = 0
  PROVE  Spec => []NothingLost
  <1>1. Init => IInv
    BY InitInv
  <1>2. IInv /\ [Next]_vars => IInv'
    BY StepInv
  <1>3. Init => NotLost
    <2> SUFFICES ASSUME Init PROVE NotLost
      OBVIOUS
    <2>1. Queued = {}
      BY DEF Init, Queued
    <2>2. Whole(NewQueue) /\ Quiet(NewQueue)
      BY DEF NewQueue, Whole, NoneDropped, Quiet, Hand
    <2>3. \A o \in Objects : queues[o] = NewQueue
      BY DEF Init
    <2>4. QED BY <2>1, <2>2, <2>3 DEF NotLost, OthersQuiet, Accounted
  <1>4. IInv /\ NotLost /\ [Next]_vars => NotLost'
    BY StepNotLost
  <1>5. IInv /\ NotLost => NothingLost
    <2> SUFFICES ASSUME NotLost, NEW m \in Msgs, inbound[m] = "queued", NEW o \in Objects,
                        m \in Entries(queues[o].items)
                 PROVE  Held(m)
      BY DEF NothingLost, NotLost, Accounted, Queued
    <2>1. o = current
      BY EmptyEntries DEF NotLost, OthersQuiet, Quiet
    <2>2. QED BY <2>1 DEF Held, Reachable
  <1>6. QED BY <1>1, <1>2, <1>3, <1>4, <1>5, PTL DEF Spec
=============================================================================
