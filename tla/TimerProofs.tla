------------------------------ MODULE TimerProofs ------------------------------
(***************************************************************************)
(* Proofs about what runs by a timer in one gateway.                       *)
(*                                                                         *)
(* HeartbeatWake: its types, that no request for a heartbeat is lost       *)
(* whatever fails, is requested or is restarted, and that the cooldown of  *)
(* a retry is kept, for any targets, priorities and delays.                *)
(*                                                                         *)
(* Cron: its types, that a recurring job is taken at most once for each    *)
(* instant, and that no tick, read, edit or removal of another job moves   *)
(* on a job that is due, for any jobs, times, outcomes, number of events.  *)
(*                                                                         *)
(* The two share no state; each part of this module uses one of them.      *)
(***************************************************************************)
EXTENDS HeartbeatWake, Cron, TLAPS

-----------------------------------------------------------------------------
(* The heartbeat.                                                            *)


Timers  == [left : 0..DEFAULT_RETRY, kind : {"normal", "retry"}, delay : 0..DEFAULT_RETRY]
             \cup {NoTimer}
Batches == [by : Nat, wakes : Wakes, left : SUBSET Targets, at : SUBSET Targets,
            delay : 0..DEFAULT_RETRY, covers : SUBSET Requests]

-----------------------------------------------------------------------------
(* The helpers keep the types.                                               *)

\* The timer that schedule leaves is a timer, an existing retry included.
LEMMA ScheduleType ==
  ASSUME NEW tm \in Timers, NEW d \in 0..DEFAULT_RETRY, NEW k \in {"normal", "retry"}
  PROVE  Schedule(tm, d, k) \in Timers
BY DelaysAssumption DEF Schedule, Timers

\* Queueing keeps every wake that waits at its priority or above, and takes in every new one.
LEMMA QueueKeeps ==
  ASSUME NEW p \in Wakes, NEW q \in Wakes
  PROVE  /\ Queue(p, q) \in Wakes
         /\ \A t \in Targets : Queue(p, q)[t] >= p[t] /\ Queue(p, q)[t] >= q[t]
<1>1. \A x \in Priorities \cup {NoWake} : x \in Int
  BY PrioritiesAssumption DEF NoWake
<1>2. \A t \in Targets : p[t] \in Priorities \cup {NoWake} /\ q[t] \in Priorities \cup {NoWake}
  BY DEF Wakes
<1>3. Queue(p, q) \in Wakes
  BY <1>2 DEF Queue, Higher, Wakes
<1>4. \A t \in Targets : Queue(p, q)[t] >= p[t] /\ Queue(p, q)[t] >= q[t]
  BY <1>1, <1>2 DEF Queue, Higher
<1> QED BY <1>3, <1>4

\* The wakes of some of the targets are wakes.
LEMMA OfType ==
  ASSUME NEW w \in Wakes, NEW ts PROVE Of(w, ts) \in Wakes
BY DEF Of, Wakes

\* No pending wake, no batch and no timer: the values a module starts from.
LEMMA NoneType == None \in Wakes /\ Idle \in Batches /\ NoTimer \in Timers
BY DelaysAssumption DEF None, Wakes, Idle, Batches, Timers

\* The end of a batch keeps the types.
LEMMA FinallyType ==
  ASSUME TypeOK, NEW b \in Slots, NEW pending, NEW tm \in Timers, Finally(b, pending, tm)
  PROVE  running' \in BOOLEAN /\ batches' \in [Slots -> Batches] /\ timer' \in Timers
<1>1. batches \in [Slots -> Batches] /\ batches[b].delay \in 0..DEFAULT_RETRY
  BY DEF TypeOK, Batches
<1>2. batches' \in [Slots -> Batches]
  BY <1>1, NoneType DEF Finally
<1>3. timer' \in Timers
  BY <1>1, ScheduleType DEF Finally
<1> QED BY <1>2, <1>3 DEF Finally

\* The history of the cooldowns keeps its type.
LEMMA CooledType ==
  ASSUME TypeOK, NEW ts PROVE Cooled(ts) \in [Targets -> 0..DEFAULT_RETRY]
BY DelaysAssumption DEF TypeOK, Cooled

-----------------------------------------------------------------------------
(* Type correctness, one lemma per group of actions.                         *)

\* The types at first: nothing is pending, no handler is registered.
LEMMA InitType == Init => TypeOK
<1> SUFFICES ASSUME Init PROVE TypeOK OBVIOUS
<1>1. cool \in [Targets -> 0..DEFAULT_RETRY] /\ requests \in 0..MaxRequests
  BY DelaysAssumption, BoundsAssumption DEF Init
<1>2. batches \in [Slots -> Batches] /\ pendingWakes \in Wakes
  BY NoneType DEF Init
<1> QED BY <1>1, <1>2 DEF Init, TypeOK, Batches

\* A request, and the passing of time.
LEMMA RequestType ==
  ASSUME TypeOK, NEW t \in Targets, NEW p \in Priorities, NEW c \in Delays,
         RequestHeartbeatNow(t, p, c)
  PROVE  TypeOK'
<1>1. c \in 0..DEFAULT_RETRY /\ timer \in Timers
  BY DelaysAssumption DEF Delays, TypeOK, Timers
<1>2. timer' \in Timers
  BY <1>1, ScheduleType DEF RequestHeartbeatNow
<1>3. [None EXCEPT ![t] = p] \in Wakes
  BY DEF None, Wakes
<1>4. pendingWakes' \in Wakes
  BY <1>3, QueueKeeps DEF RequestHeartbeatNow, TypeOK
<1>5. requests' \in 0..MaxRequests /\ requests' \in 1..MaxRequests
  BY BoundsAssumption DEF RequestHeartbeatNow, TypeOK
<1>6. unserved' \subseteq Requests
  BY <1>5 DEF RequestHeartbeatNow, TypeOK, Requests
<1> QED BY <1>2, <1>4, <1>5, <1>6 DEF RequestHeartbeatNow, handlerVars, TypeOK, Timers

\* The clock moves the timer and the cooldowns down, within their ranges.
LEMMA TimeType == ASSUME TypeOK, TimePasses PROVE TypeOK'
<1>1. timer' \in Timers
  BY DelaysAssumption DEF TimePasses, TypeOK, Timers, NoTimer
<1>2. cool' \in [Targets -> 0..DEFAULT_RETRY]
  BY DelaysAssumption DEF TimePasses, TypeOK
<1> QED BY <1>1, <1>2 DEF TimePasses, handlerVars, TypeOK, Timers

\* A timer that fires without running a batch.
LEMMA FireType == ASSUME TypeOK, FireInVain \/ FireDuringRun PROVE TypeOK'
<1>1. CASE FireInVain
  BY <1>1 DEF FireInVain, handlerVars, TypeOK
<1>2. CASE FireDuringRun
  <2>1. timer.delay \in 0..DEFAULT_RETRY /\ timer.kind \in {"normal", "retry"}
    BY <1>2 DEF FireDuringRun, Fires, TypeOK
  <2>2. timer' \in Timers
    BY <1>2, <2>1, NoneType, ScheduleType DEF FireDuringRun
  <2> QED BY <1>2, <2>2 DEF FireDuringRun, handlerVars, TypeOK, Timers
<1> QED BY <1>1, <1>2

\* A timer that fires moves the pending wakes into a batch.
LEMMA FireRunsType == ASSUME TypeOK, NEW b \in Slots, FireRuns(b) PROVE TypeOK'
<1>1. timer.delay \in 0..DEFAULT_RETRY /\ handler \in Nat
  BY DelaysAssumption DEF FireRuns, Fires, TypeOK
<1>2. \A t : Covered(t) \in SUBSET Requests
  BY DEF Covered, TypeOK
<1>3. batches' \in [Slots -> Batches]
  BY <1>1, <1>2 DEF FireRuns, TypeOK, Batches
<1>4. pendingWakes' \in Wakes
  BY NoneType DEF FireRuns
<1> QED BY <1>3, <1>4 DEF FireRuns, handlerVars, TypeOK, Batches

\* What a call that returns leaves in the timer and among the wakes.
LEMMA ReturnParts ==
  ASSUME TypeOK, NEW b \in Slots, NEW ts
  PROVE  /\ Queue(pendingWakes, Of(batches[b].wakes, ts)) \in Wakes
         /\ (IF ts = {} THEN timer ELSE Schedule(timer, DEFAULT_RETRY, "retry")) \in Timers
<1>1. batches[b].wakes \in Wakes
  BY DEF TypeOK, Batches
<1>2. Of(batches[b].wakes, ts) \in Wakes
  BY <1>1, OfType
<1>3. timer \in Timers /\ DEFAULT_RETRY \in 0..DEFAULT_RETRY
  BY DelaysAssumption DEF TypeOK, Timers
<1> QED BY <1>2, <1>3, QueueKeeps, ScheduleType DEF TypeOK

\* An answered call leaves the batch, or is queued again for a retry.
LEMMA ReturnsType ==
  ASSUME TypeOK, NEW b \in Slots, NEW answer, CallReturns(b, answer) PROVE TypeOK'
<1> DEFINE again == IF answer = "requests-in-flight" THEN batches[b].at ELSE {}
           pending == Queue(pendingWakes, Of(batches[b].wakes, again))
           tm == IF again = {} THEN timer ELSE Schedule(timer, DEFAULT_RETRY, "retry")
<1>1. pending \in Wakes /\ tm \in Timers
  BY ReturnParts
<1>2. pendingWakes' = pending /\ cool' = Cooled(again) /\ unserved' \subseteq unserved
  BY DEF CallReturns
<1>3. cool' \in [Targets -> 0..DEFAULT_RETRY]
  BY <1>2, CooledType
<1>4. running' \in BOOLEAN /\ batches' \in [Slots -> Batches] /\ timer' \in Timers
  <2>1. CASE Finally(b, pending, tm)
    BY <1>1, <2>1, FinallyType
  <2>2. ASSUME NEW t \in batches[b].left, timer' = tm, running' = running,
               batches' = [batches EXCEPT ![b] = NextCall(batches[b], t)]
        PROVE  running' \in BOOLEAN /\ batches' \in [Slots -> Batches] /\ timer' \in Timers
    <3>1. Covered(t) \in SUBSET Requests
      BY DEF Covered, TypeOK
    <3>2. batches \in [Slots -> Batches]
      BY DEF TypeOK, Batches
    <3>3. batches[b] \in Batches
      BY <3>2
    <3>4. NextCall(batches[b], t) \in Batches
      BY <2>2, <3>1, <3>3 DEF Batches, NextCall
    <3>5. batches' \in [Slots -> Batches]
      BY <2>2, <3>2, <3>4
    <3> QED BY <1>1, <2>2, <3>5 DEF TypeOK
  <2> QED BY <2>1, <2>2 DEF CallReturns
<1> QED BY <1>1, <1>2, <1>3, <1>4 DEF CallReturns, handlerVars, TypeOK, Batches, Timers

\* A call that throws queues what is left of its batch again.
LEMMA ThrowsType == ASSUME TypeOK, NEW b \in Slots, CallThrows(b) PROVE TypeOK'
<1>1. batches[b].wakes \in Wakes /\ timer \in Timers /\ DEFAULT_RETRY \in 0..DEFAULT_RETRY
  BY DelaysAssumption DEF TypeOK, Batches, Timers
<1>2. pendingWakes' \in Wakes
  BY <1>1, QueueKeeps DEF CallThrows, TypeOK
<1>3. cool' \in [Targets -> 0..DEFAULT_RETRY]
  BY CooledType DEF CallThrows
<1>4. Schedule(timer, DEFAULT_RETRY, "retry") \in Timers
  BY <1>1, ScheduleType
<1>5. running' \in BOOLEAN /\ batches' \in [Slots -> Batches] /\ timer' \in Timers
  BY <1>4, FinallyType DEF CallThrows
<1> QED BY <1>2, <1>3, <1>5 DEF CallThrows, handlerVars, TypeOK, Batches, Timers

\* A registration and a disposal, late or not.
LEMMA HandlerType ==
  ASSUME TypeOK, SetHeartbeatWakeHandler \/ \E g \in registered : Dispose(g) PROVE TypeOK'
<1>1. CASE SetHeartbeatWakeHandler
  <2>1. DEFAULT_COALESCE \in 0..DEFAULT_RETRY
    BY DelaysAssumption
  <2>2. timer' \in Timers
    BY <1>1, <2>1, NoneType, ScheduleType DEF SetHeartbeatWakeHandler
  <2>3. cool' \in [Targets -> 0..DEFAULT_RETRY]
    BY <1>1, DelaysAssumption DEF SetHeartbeatWakeHandler
  <2>4. generation' \in Nat /\ generation' = generation + 1 /\ handler' = generation'
    BY <1>1 DEF SetHeartbeatWakeHandler, TypeOK
  <2>5. registered' \subseteq 1..generation' /\ disposed' \subseteq registered'
    BY <1>1, <2>4 DEF SetHeartbeatWakeHandler, TypeOK
  <2>6. running' = FALSE /\ scheduled' = FALSE
        /\ UNCHANGED <<pendingWakes, batches, requests, unserved>>
    BY <1>1 DEF SetHeartbeatWakeHandler
  <2> QED BY <2>2, <2>3, <2>4, <2>5, <2>6 DEF TypeOK, Timers
<1>2. ASSUME NEW g \in registered, Dispose(g) PROVE TypeOK'
  BY <1>2 DEF Dispose, TypeOK
<1> QED BY <1>1, <1>2

\* The types are kept by every step.
LEMMA NextType == TypeOK /\ [Next]_vars => TypeOK'
<1> SUFFICES ASSUME TypeOK, [Next]_vars PROVE TypeOK' OBVIOUS
<1>1. CASE UNCHANGED vars
  BY <1>1 DEF vars, TypeOK
<1>2. CASE Next
  BY <1>2, RequestType, TimeType, FireType, FireRunsType, ReturnsType, ThrowsType, HandlerType DEF Next
<1> QED BY <1>1, <1>2

\* The variables keep their types, for any targets, priorities, delays and bounds.
THEOREM TypeCorrect == Spec => []TypeOK
<1> QED BY InitType, NextType, PTL DEF Spec

-----------------------------------------------------------------------------
(* No request is lost.  What is needed besides the types: the requests that  *)
(* a call covers are for the target that it is made for.                     *)

CoversAt == \A b \in Slots : \A r \in batches[b].covers : r.target \in batches[b].at

Kept == CoversAt /\ NothingLost

\* Where a request is kept.
KeptIn(r, b) ==
  /\ batches[b].wakes[r.target] >= r.priority
  /\ r.target \in batches[b].left \/ r \in batches[b].covers

\* At first there is no request to lose.
LEMMA InitKept == Init => Kept
BY DEF Init, Kept, CoversAt, NothingLost, Idle

\* Priorities and wakes are numbers, so that they can be compared in a chain.
LEMMA Numbers ==
  ASSUME TypeOK
  PROVE  /\ \A r \in Requests : r.target \in Targets /\ r.priority \in Nat
         /\ \A w \in Wakes, t \in Targets : w[t] \in Int
<1>1. \A x \in Priorities \cup {NoWake} : x \in Int
  BY PrioritiesAssumption DEF NoWake
<1>2. \A w \in Wakes, t \in Targets : w[t] \in Priorities \cup {NoWake}
  BY DEF Wakes
<1> QED BY <1>1, <1>2, PrioritiesAssumption DEF Requests

\* A request is queued, or replaces a wake of no higher priority, and displaces no other.
LEMMA RequestKeeps ==
  ASSUME TypeOK, Kept, NEW t \in Targets, NEW p \in Priorities, NEW c \in Delays,
         RequestHeartbeatNow(t, p, c)
  PROVE  Kept'
<1> DEFINE wake == [None EXCEPT ![t] = p]
<1>1. wake \in Wakes /\ wake[t] = p
  BY DEF None, Wakes
<1>2. pendingWakes' = Queue(pendingWakes, wake) /\ pendingWakes \in Wakes
  BY DEF RequestHeartbeatNow, TypeOK
<1> HIDE DEF wake
<1>3. /\ pendingWakes' \in Wakes
      /\ \A u \in Targets : pendingWakes'[u] >= pendingWakes[u]
      /\ pendingWakes'[t] >= p
  BY <1>1, <1>2, QueueKeeps
<1>4. ASSUME NEW r \in unserved
      PROVE  pendingWakes'[r.target] >= r.priority \/ \E b \in Slots : KeptIn(r, b)
  <2>1. /\ r.target \in Targets /\ r.priority \in Nat
        /\ pendingWakes[r.target] \in Int /\ pendingWakes'[r.target] \in Int
    BY <1>2, <1>3, Numbers DEF TypeOK
  <2> QED BY <1>3, <2>1 DEF Kept, NothingLost, KeptIn
<1>5. ASSUME NEW r \in unserved'
      PROVE  pendingWakes'[r.target] >= r.priority \/ \E b \in Slots : KeptIn(r, b)'
  <2>1. CASE r \in unserved
    BY <1>4, <2>1 DEF RequestHeartbeatNow, KeptIn
  <2>2. CASE r \notin unserved
    <3>1. r.target = t /\ r.priority = p
      BY <1>5, <2>2 DEF RequestHeartbeatNow
    <3> QED BY <1>3, <3>1
  <2> QED BY <2>1, <2>2
<1>6. CoversAt'
  BY DEF RequestHeartbeatNow, Kept, CoversAt
<1> QED BY <1>5, <1>6 DEF Kept, NothingLost, KeptIn

\* All pending wakes are in the new batch, and its first call covers its requests.
LEMMA FireRunsKeeps ==
  ASSUME TypeOK, Kept, NEW b \in Slots, FireRuns(b) PROVE Kept'
<1> DEFINE ts == {t \in Targets : pendingWakes[t] # NoWake}
<1>1. PICK t \in ts :
        batches' = [batches EXCEPT ![b] =
          [by |-> handler, wakes |-> pendingWakes, left |-> ts \ {t}, at |-> {t},
           delay |-> timer.delay, covers |-> Covered(t)]]
  BY DEF FireRuns
<1>2. batches[b] = Idle /\ unserved' = unserved /\ b \in DOMAIN batches
  BY DEF FireRuns, TypeOK
<1>3. CoversAt'
  BY <1>1, <1>2 DEF Kept, CoversAt, Covered, TypeOK
<1>4. ASSUME NEW r \in unserved PROVE \E c \in Slots : KeptIn(r, c)'
  <2>1. CASE pendingWakes[r.target] >= r.priority
    <3>1. pendingWakes[r.target] # NoWake /\ r.target \in Targets
      BY <2>1, Numbers DEF TypeOK, NoWake
    <3>2. r.target \in ts
      BY <3>1
    <3>3. KeptIn(r, b)'
      BY <1>1, <1>2, <2>1, <3>2 DEF KeptIn, Covered
    <3> QED BY <3>3
  <2>2. ASSUME NEW c \in Slots, KeptIn(r, c) PROVE KeptIn(r, c)'
    <3>1. c # b
      BY <1>2, <2>2 DEF KeptIn, Idle
    <3> QED BY <1>1, <2>2, <3>1 DEF KeptIn, TypeOK
  <2> QED BY <2>1, <2>2 DEF Kept, NothingLost, KeptIn
<1> QED BY <1>2, <1>3, <1>4 DEF Kept, NothingLost, KeptIn

\* The end of a batch frees its slot only.
LEMMA FinallyKeeps ==
  ASSUME TypeOK, CoversAt, NEW b \in Slots, NEW pending, NEW tm, Finally(b, pending, tm)
  PROVE  /\ CoversAt'
         /\ \A r : \A c \in Slots \ {b} : KeptIn(r, c) => KeptIn(r, c)'
BY DEF TypeOK, CoversAt, Finally, Idle, KeptIn

\* A call that is answered serves what it covers; otherwise its wake is queued again.
LEMMA ReturnsKeeps ==
  ASSUME TypeOK, Kept, NEW b \in Slots, NEW answer, CallReturns(b, answer) PROVE Kept'
<1> DEFINE again == IF answer = "requests-in-flight" THEN batches[b].at ELSE {}
           of == Of(batches[b].wakes, again)
           pending == Queue(pendingWakes, of)
           tm == IF again = {} THEN timer ELSE Schedule(timer, DEFAULT_RETRY, "retry")
<1>1. of \in Wakes /\ pendingWakes \in Wakes /\ batches[b].wakes \in Wakes
  BY OfType DEF TypeOK, Batches
<1>2. /\ pendingWakes' = pending
      /\ unserved' = IF again = {} THEN unserved \ batches[b].covers ELSE unserved
  BY DEF CallReturns
<1>3. pendingWakes' \in Wakes
      /\ \A u \in Targets : pendingWakes'[u] >= pendingWakes[u] /\ pendingWakes'[u] >= of[u]
  BY <1>1, <1>2, QueueKeeps
<1>4. ASSUME NEW r \in unserved', r \in batches[b].covers, KeptIn(r, b)
      PROVE  pendingWakes'[r.target] >= r.priority
  <2>1. r.target \in batches[b].at /\ again # {}
    BY <1>2, <1>4 DEF Kept, CoversAt
  <2>2. r.target \in Targets /\ r.priority \in Nat
    BY <1>2, <1>4, Numbers DEF TypeOK
  <2>3. r.target \in again
    BY <2>1
  <2>4. of[r.target] = batches[b].wakes[r.target]
    BY <2>2, <2>3 DEF Of
  <2>5. of[r.target] \in Int /\ pendingWakes'[r.target] \in Int
    BY <1>1, <1>3, <2>2, Numbers
  <2> QED BY <1>3, <1>4, <2>2, <2>4, <2>5 DEF KeptIn
<1>5. ASSUME NEW r \in unserved, pendingWakes[r.target] >= r.priority
      PROVE  pendingWakes'[r.target] >= r.priority
  BY <1>1, <1>3, <1>5, Numbers DEF TypeOK
<1>6. CoversAt' /\ \A r \in unserved' : \A c \in Slots :
        KeptIn(r, c) => KeptIn(r, c)' \/ (c = b /\ r \in batches[b].covers)
  <2>1. CASE batches[b].left = {} /\ Finally(b, pending, tm)
    <3>1. \A r : KeptIn(r, b) => r \in batches[b].covers
      BY <2>1 DEF KeptIn
    <3> QED BY <2>1, <3>1, FinallyKeeps DEF Kept
  <2>2. ASSUME NEW t \in batches[b].left,
               batches' = [batches EXCEPT ![b] = NextCall(batches[b], t)]
        PROVE  CoversAt' /\ \A r \in unserved' : \A c \in Slots :
                 KeptIn(r, c) => KeptIn(r, c)' \/ (c = b /\ r \in batches[b].covers)
    <3>1. b \in DOMAIN batches /\ batches[b] \in Batches
      BY DEF TypeOK, Batches
    <3>2. /\ \A c \in Slots \ {b} : batches'[c] = batches[c]
          /\ batches'[b].at = {t} /\ batches'[b].left = batches[b].left \ {t}
          /\ batches'[b].covers = Covered(t) /\ batches'[b].wakes = batches[b].wakes
      BY <2>2, <3>1 DEF TypeOK, Batches, NextCall
    <3>3. CoversAt'
      BY <3>2 DEF Kept, CoversAt, Covered
    <3>4. ASSUME NEW r \in unserved', KeptIn(r, b), r \notin batches[b].covers PROVE KeptIn(r, b)'
      BY <1>2, <3>2, <3>4 DEF KeptIn, Covered
    <3>5. ASSUME NEW r, NEW c \in Slots \ {b}, KeptIn(r, c) PROVE KeptIn(r, c)'
      BY <3>2, <3>5 DEF KeptIn
    <3> QED BY <3>3, <3>4, <3>5
  <2> QED BY <2>1, <2>2 DEF CallReturns
<1>7. ASSUME NEW r \in unserved'
      PROVE  pendingWakes'[r.target] >= r.priority \/ \E c \in Slots : KeptIn(r, c)'
  <2>1. r \in unserved
    BY <1>2
  <2> QED BY <1>4, <1>5, <1>6, <1>7, <2>1 DEF Kept, NothingLost, KeptIn
<1> QED BY <1>6, <1>7 DEF Kept, NothingLost, KeptIn

\* A handler that throws has all the wakes of its batch queued again.
LEMMA ThrowsKeeps ==
  ASSUME TypeOK, Kept, NEW b \in Slots, CallThrows(b) PROVE Kept'
<1>1. pendingWakes \in Wakes /\ batches[b].wakes \in Wakes /\ unserved' = unserved
  BY DEF TypeOK, Batches, CallThrows
<1>2. pendingWakes' \in Wakes
      /\ \A u \in Targets : pendingWakes'[u] >= pendingWakes[u] /\ pendingWakes'[u] >= batches[b].wakes[u]
  BY <1>1, QueueKeeps DEF CallThrows
<1>3. CoversAt' /\ \A r : \A c \in Slots \ {b} : KeptIn(r, c) => KeptIn(r, c)'
  BY FinallyKeeps DEF CallThrows, Kept
<1>4. ASSUME NEW r \in unserved
      PROVE  pendingWakes'[r.target] >= r.priority \/ \E c \in Slots : KeptIn(r, c)'
  <2>1. /\ r.target \in Targets /\ r.priority \in Nat
        /\ pendingWakes[r.target] \in Int /\ pendingWakes'[r.target] \in Int
        /\ batches[b].wakes[r.target] \in Int
    BY <1>1, <1>2, Numbers DEF TypeOK
  <2>2. KeptIn(r, b) => pendingWakes'[r.target] >= r.priority
    BY <1>2, <2>1 DEF KeptIn
  <2>3. pendingWakes[r.target] >= r.priority => pendingWakes'[r.target] >= r.priority
    BY <1>2, <2>1
  <2> QED BY <1>3, <2>2, <2>3 DEF Kept, NothingLost, KeptIn
<1> QED BY <1>1, <1>3, <1>4 DEF Kept, NothingLost, KeptIn

\* No step loses a request.
LEMMA NextKeeps == TypeOK /\ Kept /\ [Next]_vars => Kept'
<1> SUFFICES ASSUME TypeOK, Kept, [Next]_vars PROVE Kept' OBVIOUS
<1>1. CASE UNCHANGED <<pendingWakes, batches, unserved>>
  BY <1>1 DEF Kept, CoversAt, NothingLost
<1>2. CASE TimePasses \/ FireInVain \/ FireDuringRun \/ SetHeartbeatWakeHandler
           \/ (\E g \in registered : Dispose(g)) \/ UNCHANGED vars
  BY <1>1, <1>2 DEF TimePasses, FireInVain, FireDuringRun, SetHeartbeatWakeHandler, Dispose, vars
<1> QED BY <1>2, RequestKeeps, FireRunsKeeps, ReturnsKeeps, ThrowsKeeps DEF Next

\* No request for a heartbeat is lost, and its priority neither, for any targets,
\* priorities and delays, whatever the handlers answer and whenever they are replaced.
THEOREM NoRequestLost == Spec => []NothingLost
<1>1. TypeOK /\ Kept => NothingLost
  BY DEF Kept
<1> QED BY <1>1, InitType, NextType, InitKept, NextKeeps, PTL DEF Spec

-----------------------------------------------------------------------------
(* The cooldown is kept.  While a target cools down the timer is that of a   *)
(* retry and has at least as long to go; no request and no batch replaces it. *)

CoolHeld == \A t \in Targets : cool[t] > 0 => timer.kind = "retry" /\ timer.left >= cool[t]

\* At first no target waits for a retry.
LEMMA InitCool == Init => CoolHeld
BY DEF Init, CoolHeld

\* A timer for a retry is replaced by no other.
LEMMA RetryStays ==
  ASSUME NEW tm, NEW d, NEW k, tm.kind = "retry" PROVE Schedule(tm, d, k) = tm
BY DEF Schedule

\* A batch that is queued again, some of it or all, starts a cooldown or finds one.
LEMMA AgainCools ==
  ASSUME TypeOK, CoolHeld, NEW ts, NEW tm, tm = Schedule(timer, DEFAULT_RETRY, "retry")
  PROVE  \A t \in Targets : Cooled(ts)[t] > 0 => tm.kind = "retry" /\ tm.left >= Cooled(ts)[t]
<1>1. CASE timer = NoTimer
  <2>1. tm = [left |-> DEFAULT_RETRY, kind |-> "retry", delay |-> DEFAULT_RETRY]
    BY <1>1 DEF Schedule, NoTimer
  <2>2. \A t \in Targets : cool[t] = 0
    BY <1>1 DEF CoolHeld, NoTimer, TypeOK
  <2> QED BY <2>1, <2>2, DelaysAssumption DEF Cooled
<1>2. CASE timer # NoTimer
  <2>1. \A t \in Targets : Cooled(ts)[t] = cool[t]
    BY <1>2 DEF Cooled
  <2> QED BY <2>1, RetryStays DEF CoolHeld
<1> QED BY <1>1, <1>2

\* The end of the batch leaves such a timer alone.
LEMMA FinallyCools ==
  ASSUME NEW b, NEW pending, NEW tm, Finally(b, pending, tm), tm.kind = "retry"
  PROVE  timer' = tm
BY RetryStays DEF Finally

\* An answer that asks for a retry arms the retry timer for the whole cooldown.
LEMMA ReturnsCool ==
  ASSUME TypeOK, CoolHeld, NEW b \in Slots, NEW answer, CallReturns(b, answer) PROVE CoolHeld'
<1> DEFINE again == IF answer = "requests-in-flight" THEN batches[b].at ELSE {}
           pending == Queue(pendingWakes, Of(batches[b].wakes, again))
           tm == IF again = {} THEN timer ELSE Schedule(timer, DEFAULT_RETRY, "retry")
<1>1. cool' = Cooled(again)
  BY DEF CallReturns
<1>2. Finally(b, pending, tm) \/ timer' = tm
  BY DEF CallReturns
<1>3. \A t \in Targets : Cooled(again)[t] > 0 => tm.kind = "retry" /\ tm.left >= Cooled(again)[t]
  <2>1. CASE again = {}
    <3>1. \A t \in Targets : Cooled(again)[t] = cool[t]
      BY <2>1 DEF Cooled
    <3> QED BY <2>1, <3>1 DEF CoolHeld
  <2>2. CASE again # {}
    BY <2>2, AgainCools
  <2> QED BY <2>1, <2>2
<1> HIDE DEF again, pending, tm
<1>4. tm.kind = "retry" => timer' = tm
  BY <1>2, FinallyCools
<1> QED BY <1>1, <1>3, <1>4 DEF CoolHeld

\* So does a call that throws.
LEMMA ThrowsCool == ASSUME TypeOK, CoolHeld, NEW b \in Slots, CallThrows(b) PROVE CoolHeld'
<1> DEFINE again == {t \in Targets : batches[b].wakes[t] # NoWake}
           tm == Schedule(timer, DEFAULT_RETRY, "retry")
<1>1. cool' = Cooled(again) /\ Finally(b, Queue(pendingWakes, batches[b].wakes), tm)
  BY DEF CallThrows
<1>2. \A t \in Targets : Cooled(again)[t] > 0 => tm.kind = "retry" /\ tm.left >= Cooled(again)[t]
  BY AgainCools
<1> HIDE DEF again, tm
<1> QED BY <1>1, <1>2, FinallyCools DEF CoolHeld

\* The other actions keep a timer for a retry until it has run out, or end all cooldowns.
LEMMA OthersCool ==
  ASSUME TypeOK, CoolHeld,
         \/ \E t \in Targets, p \in Priorities, c \in Delays : RequestHeartbeatNow(t, p, c)
         \/ TimePasses \/ FireInVain \/ FireDuringRun \/ \E b \in Slots : FireRuns(b)
         \/ SetHeartbeatWakeHandler \/ (\E g \in registered : Dispose(g)) \/ UNCHANGED vars
  PROVE  CoolHeld'
<1>1. ASSUME NEW t \in Targets, NEW p \in Priorities, NEW c \in Delays, RequestHeartbeatNow(t, p, c)
      PROVE  CoolHeld'
  BY <1>1, RetryStays DEF RequestHeartbeatNow, CoolHeld
<1>2. CASE TimePasses
  <2>1. timer.left \in Int /\ \A t \in Targets : cool[t] \in Int
    BY DelaysAssumption DEF TypeOK, NoTimer
  <2>2. /\ timer'.kind = timer.kind
        /\ timer'.left = IF timer.left > 0 THEN timer.left - 1 ELSE 0
        /\ \A t \in Targets : cool'[t] = IF cool[t] > 0 THEN cool[t] - 1 ELSE 0
    BY <1>2 DEF TimePasses, TypeOK, NoTimer
  <2> QED BY <2>1, <2>2 DEF CoolHeld
<1>3. CASE FireInVain \/ FireDuringRun \/ \E b \in Slots : FireRuns(b)
  <2>1. timer.left = 0 /\ cool' = cool
    BY <1>3 DEF FireInVain, FireDuringRun, FireRuns, Fires
  <2>2. \A t \in Targets : cool'[t] = 0
    BY <2>1 DEF CoolHeld, TypeOK
  <2> QED BY <2>2 DEF CoolHeld
<1>4. CASE SetHeartbeatWakeHandler
  BY <1>4 DEF SetHeartbeatWakeHandler, CoolHeld
<1>5. CASE (\E g \in registered : Dispose(g)) \/ UNCHANGED vars
  BY <1>5 DEF Dispose, vars, CoolHeld
<1> QED BY <1>1, <1>2, <1>3, <1>4, <1>5

\* No step brings a retry before its cooldown ends.
LEMMA NextCool == TypeOK /\ CoolHeld /\ [Next]_vars => CoolHeld'
BY ReturnsCool, ThrowsCool, OthersCool DEF Next

\* No batch takes a wake whose target still cools down, for any delays, whatever is
\* requested, answered or restarted meanwhile.
THEOREM CooldownHeld == Spec => CooldownKept
<1>1. TypeOK /\ CoolHeld /\ [Next]_vars =>
        [\A b \in Slots, t \in Targets : FireRuns(b) /\ pendingWakes[t] # NoWake => cool[t] = 0]_vars
  BY DEF FireRuns, Fires, CoolHeld, TypeOK
<1> QED BY <1>1, InitType, NextType, InitCool, NextCool, PTL DEF Spec, CooldownKept

-----------------------------------------------------------------------------
(* The cron service.  The types, with the fields of records, ticks and the   *)
(* lock, and what each action makes of them.                                 *)


Marks == Times \cup {NoTime}
Lasts == Outcomes \cup {"none"}
Rows  == [enabled : BOOLEAN, next : Instants, runningAt : Marks, last : Lasts]

\* The fields of a record.
LEMMA RecordFields ==
  ASSUME NEW r \in Records
  PROVE  /\ r \in Rows /\ r # NoJob /\ (~r.enabled => r.next = NoTime)
         /\ r.enabled \in BOOLEAN /\ r.next \in Instants /\ r.runningAt \in Marks /\ r.last \in Lasts
  BY NoRecordAssumption DEF Records, Rows, Marks, Lasts

\* A record is made of fields of the right types, without a next run if it is disabled.
LEMMA RecordMade ==
  ASSUME NEW e \in BOOLEAN, NEW n \in Instants, NEW m \in Marks, NEW o \in Lasts, ~e => n = NoTime
  PROVE  [enabled |-> e, next |-> n, runningAt |-> m, last |-> o] \in Records
  BY DEF Records, Rows, Marks, Lasts

\* The times a record may hold.
LEMMA ClockFacts ==
  ASSUME now \in Times
  PROVE  /\ now \in Int /\ 0 <= now /\ MaxTime \in Nat /\ STUCK_RUN_TIME \in Nat
         /\ RetryTime \in Nat \ {0} /\ BackoffTime \in Nat \ {0}
         /\ now + 1 \in Instants /\ now + RetryTime \in Instants /\ now + BackoffTime \in Instants
         /\ 1 \in Instants /\ NoTime \in Instants /\ Times \subseteq Instants /\ NoTime \notin Times
         /\ Instants \subseteq Int /\ NoTime < now
  <1>1. /\ RetryTime \in Nat \ {0} /\ BackoffTime \in Nat \ {0}
        /\ MaxTime \in Nat /\ STUCK_RUN_TIME \in Nat
    BY TimesAssumption
  <1>2. now \in Int /\ 0 <= now /\ now <= MaxTime
    BY <1>1 DEF Times
  <1>3. Times \subseteq Instants /\ NoTime \notin Times /\ Instants \subseteq Int
    BY <1>1 DEF Times, Instants, NoTime
  <1>4. QED BY <1>1, <1>2, <1>3 DEF Times, Instants, NoTime

\* computeJobNextRunAtMs: never for a disabled job, the next instant for a recurring one.
LEMMA ComputedNext ==
  ASSUME NEW j \in Jobs, NEW r \in Records, now \in Times
  PROVE  /\ ComputeNext(j, r) \in Instants
         /\ ~r.enabled => ComputeNext(j, r) = NoTime
         /\ r.enabled /\ j \notin OneShots => ComputeNext(j, r) = now + 1
         /\ r.enabled /\ j \in OneShots => ComputeNext(j, r) = IF r.last = "ok" THEN NoTime ELSE 1
  BY ClockFacts DEF ComputeNext, OneShotTime

\* A record after normalization.
LEMMA NormalizedRecord ==
  ASSUME NEW j \in Jobs, NEW r \in Records, NEW b \in BOOLEAN, now \in Times
  PROVE  /\ Normalized(j, r, b) \in Records
         /\ Normalized(j, r, b).enabled = r.enabled
         /\ Normalized(j, r, b).last = r.last
         /\ Normalized(j, r, b).runningAt \in {r.runningAt, NoTime}
         /\ ~r.enabled => Normalized(j, r, b).runningAt = NoTime
         /\ Normalized(j, r, b).next = IF r.next = NoTime \/ (b /\ r.next <= now)
                                       THEN ComputeNext(j, r) ELSE r.next
         /\ r.enabled /\ r.runningAt # NoTime /\ now - r.runningAt <= STUCK_RUN_TIME =>
              Normalized(j, r, b).runningAt = r.runningAt
         /\ r.enabled /\ r.runningAt = NoTime => Normalized(j, r, b).runningAt = NoTime
  <1> DEFINE n == IF r.next = NoTime \/ (b /\ r.next <= now) THEN ComputeNext(j, r) ELSE r.next
             m == IF ~r.enabled THEN NoTime
                  ELSE IF r.runningAt # NoTime /\ now - r.runningAt > STUCK_RUN_TIME THEN NoTime
                  ELSE r.runningAt
  <1>1. /\ r \in Rows /\ r # NoJob /\ (~r.enabled => r.next = NoTime) /\ r.next \in Instants
        /\ r.runningAt \in Marks /\ r.enabled \in BOOLEAN /\ r.last \in Lasts
    BY RecordFields
  <1>2. n \in Instants /\ (~r.enabled => n = NoTime) /\ m \in Marks
    BY <1>1, ComputedNext DEF Marks
  <1>3. Normalized(j, r, b) = [enabled |-> r.enabled, next |-> n, runningAt |-> m, last |-> r.last]
    BY <1>1, ComputedNext DEF Normalized, Rows
  <1>4. Normalized(j, r, b) \in Records
    BY <1>1, <1>2, <1>3, RecordMade
  <1>5. /\ Normalized(j, r, b).enabled = r.enabled /\ Normalized(j, r, b).last = r.last
        /\ Normalized(j, r, b).next = n /\ Normalized(j, r, b).runningAt = m
    BY <1>3
  <1>6. /\ m \in {r.runningAt, NoTime} /\ (~r.enabled => m = NoTime)
        /\ r.enabled /\ r.runningAt = NoTime => m = NoTime
        /\ r.enabled /\ r.runningAt # NoTime /\ now - r.runningAt <= STUCK_RUN_TIME => m = r.runningAt
    <2>1. now \in Int /\ STUCK_RUN_TIME \in Int /\ (r.runningAt # NoTime => r.runningAt \in Int)
      BY <1>1, ClockFacts DEF Marks, Times
    <2>2. QED BY <2>1
  <1>7. QED BY <1>4, <1>5, <1>6

\* A record after its job was executed.
LEMMA AppliedRecord ==
  ASSUME NEW j \in Jobs, NEW r \in Records, NEW o \in Outcomes, now \in Times,
         ApplyJobResult(j, r, o) # NoJob
  PROVE  /\ ApplyJobResult(j, r, o) \in Records
         /\ ApplyJobResult(j, r, o).runningAt = NoTime /\ (j \in OneShots => ApplyJobResult(j, r, o).last = o)
         /\ ApplyJobResult(j, r, o).next = NoTime \/ ApplyJobResult(j, r, o).next > now
         /\ ApplyJobResult(j, r, o).enabled => ApplyJobResult(j, r, o).next > now
         /\ j \in OneShots /\ ApplyJobResult(j, r, o).enabled => o # "ok"
  <1>1. /\ r \in Rows /\ r # NoJob /\ (~r.enabled => r.next = NoTime) /\ r.next \in Instants
        /\ r.runningAt \in Marks /\ r.enabled \in BOOLEAN /\ r.last \in Lasts
    BY RecordFields
  <1>2. /\ now + 1 \in Instants /\ now + RetryTime \in Instants /\ now + BackoffTime \in Instants
        /\ now + 1 > now /\ now + RetryTime > now /\ now + BackoffTime > now
        /\ NoTime \in Instants /\ NoTime \in Marks /\ o \in Lasts
    BY ClockFacts DEF Marks, Lasts
  <1> DEFINE lo == IF j \in OneShots THEN o ELSE r.last
  <1>3. PICK e \in BOOLEAN, n \in Instants :
          /\ ApplyJobResult(j, r, o) = [enabled |-> e, next |-> n, runningAt |-> NoTime, last |-> lo]
          /\ n = NoTime \/ n \in {now + 1, now + RetryTime, now + BackoffTime}
          /\ e <=> n # NoTime
          /\ j \in OneShots /\ e => o # "ok"
    <2>1. NoTime \notin {now + 1, now + RetryTime, now + BackoffTime}
      BY ClockFacts
    <2>2. CASE o = "retry" /\ (j \in OneShots \/ r.enabled)
      <3>1. PICK n \in {now + 1, now + RetryTime} : n = now + (IF j \in OneShots THEN RetryTime ELSE 1)
        BY <1>2
      <3>2. ApplyJobResult(j, r, o) = [enabled |-> TRUE, next |-> n, runningAt |-> NoTime, last |-> lo]
        BY <1>1, <2>2, <3>1 DEF ApplyJobResult, Rows
      <3>3. QED BY <1>2, <2>1, <2>2, <3>1, <3>2
    <2>3. CASE ~(o = "retry" /\ (j \in OneShots \/ r.enabled)) /\ j \in OneShots
      <3>1. ApplyJobResult(j, r, o) = [enabled |-> FALSE, next |-> NoTime, runningAt |-> NoTime, last |-> lo]
        BY <1>1, <2>3 DEF ApplyJobResult, Rows
      <3>2. QED BY <1>2, <3>1
    <2>4. CASE ~(o = "retry" /\ (j \in OneShots \/ r.enabled)) /\ j \notin OneShots
      <3>1. PICK n \in {NoTime, now + 1, now + BackoffTime} :
              /\ n = IF ~r.enabled THEN NoTime ELSE IF o = "error" THEN now + BackoffTime ELSE now + 1
              /\ r.enabled <=> n # NoTime
        BY <1>1, <2>1
      <3>2. ApplyJobResult(j, r, o) = [enabled |-> r.enabled, next |-> n, runningAt |-> NoTime, last |-> lo]
        BY <1>1, <2>4, <3>1, JobsAssumption DEF ApplyJobResult, Rows
      <3>3. QED BY <1>1, <1>2, <2>1, <2>4, <3>1, <3>2
    <2>5. QED BY <2>2, <2>3, <2>4
  <1>4. ApplyJobResult(j, r, o) \in Records
    BY <1>1, <1>2, <1>3, RecordMade
  <1>5. /\ ApplyJobResult(j, r, o).runningAt = NoTime /\ ApplyJobResult(j, r, o).last = lo
        /\ ApplyJobResult(j, r, o).next = n /\ ApplyJobResult(j, r, o).enabled = e
    BY <1>3
  <1>6. (n = NoTime \/ n > now) /\ (e => n > now)
    BY <1>2, <1>3
  <1>7. QED BY <1>3, <1>4, <1>5, <1>6

-----------------------------------------------------------------------------
Entry == Records \cup {NoJob}
Loads == [st : Stores, disk : Stores, dirty : BOOLEAN, cost : {0, 1}]

\* Recomputing a store, record by record.
LEMMA Recomputed ==
  ASSUME NEW st \in Stores, now \in Times
  PROVE  /\ RecomputeNextRuns(st) \in Stores /\ RecomputeForMaintenance(st) \in Stores
         /\ \A j \in Jobs : /\ RecomputeNextRuns(st)[j] = Normalized(j, st[j], TRUE)
                            /\ RecomputeForMaintenance(st)[j] = Normalized(j, st[j], FALSE)
  <1>1. ASSUME NEW j \in Jobs, NEW b \in BOOLEAN
        PROVE  Normalized(j, st[j], b) \in Entry
    <2>1. CASE st[j] = NoJob
      BY <2>1 DEF Normalized, Entry
    <2>2. CASE st[j] # NoJob
      <3>1. st[j] \in Records
        BY <2>2 DEF Stores
      <3>2. QED BY <3>1, NormalizedRecord DEF Entry
    <2>3. QED BY <2>1, <2>2
  <1>2. QED BY <1>1 DEF RecomputeNextRuns, RecomputeForMaintenance, Stores, Entry

\* What a load may find.
LEMMA Loaded ==
  ASSUME disk \in Stores, mem \in [Services -> Stores], dirty \in [Services -> BOOLEAN],
         NEW s \in Services, NEW l, l \in Reloaded(s) \/ l = InMemory(s)
  PROVE  /\ l \in Loads
         /\ dirty[s] => /\ l.st = mem[s]
                        /\ l.dirty \/ l.disk = l.st
                        /\ l.disk \in {disk, mem[s]}
         /\ ~dirty[s] => l.disk = disk /\ (l.dirty => l.st = disk) /\ l.st \in {disk, mem[s]}
         /\ ~dirty[s] /\ l.cost = 0 => ~l.dirty
         /\ l \in Reloaded(s) /\ ~dirty[s] /\ l.cost = 0 => l.st = disk
  <1>1. disk \in Stores /\ mem[s] \in Stores /\ dirty[s] \in BOOLEAN
    OBVIOUS
  <1>2. ASSUME NEW st \in Stores, NEW d \in Stores, NEW b \in BOOLEAN, NEW n \in {0, 1},
               l = [st |-> st, disk |-> d, dirty |-> b, cost |-> n]
        PROVE  l \in Loads /\ l.st = st /\ l.disk = d /\ l.dirty = b /\ l.cost = n
    BY <1>2 DEF Loads
  <1>3. CASE l = InMemory(s)
    <2>1. l = [st |-> mem[s], disk |-> disk, dirty |-> dirty[s], cost |-> 0]
      BY <1>3 DEF InMemory
    <2>2. l \in Loads /\ l.st = mem[s] /\ l.disk = disk /\ l.dirty = dirty[s] /\ l.cost = 0
      BY <1>1, <1>2, <2>1
    <2>3. l \in Reloaded(s) /\ ~dirty[s] /\ l.cost = 0 => l.st = disk
      <3> SUFFICES ASSUME l \in Reloaded(s), ~dirty[s] PROVE l.st = disk
        OBVIOUS
      <3>1. \/ l = [st |-> disk, disk |-> disk, dirty |-> FALSE, cost |-> 0]
            \/ l = [st |-> mem[s], disk |-> disk, dirty |-> FALSE, cost |-> 1]
            \/ l = [st |-> disk, disk |-> disk, dirty |-> TRUE, cost |-> 1]
        BY DEF Reloaded
      <3>2. l.st = disk \/ l.cost = 1
        BY <3>1
      <3>3. QED BY <2>2, <3>2
    <2>4. QED BY <2>2, <2>3
  <1>4. CASE l \in Reloaded(s) /\ dirty[s]
    <2>1. \/ l = [st |-> mem[s], disk |-> mem[s], dirty |-> FALSE, cost |-> 0]
          \/ l = [st |-> mem[s], disk |-> disk, dirty |-> TRUE, cost |-> 1]
      BY <1>4 DEF Reloaded
    <2>2. /\ l \in Loads /\ l.st = mem[s]
          /\ (l.disk = mem[s] /\ l.dirty = FALSE) \/ (l.disk = disk /\ l.dirty = TRUE)
      BY <1>1, <1>2, <2>1
    <2>3. QED BY <1>4, <2>2
  <1>5. CASE l \in Reloaded(s) /\ ~dirty[s]
    <2>1. \/ l = [st |-> disk, disk |-> disk, dirty |-> FALSE, cost |-> 0]
          \/ l = [st |-> mem[s], disk |-> disk, dirty |-> FALSE, cost |-> 1]
          \/ l = [st |-> disk, disk |-> disk, dirty |-> TRUE, cost |-> 1]
      BY <1>5 DEF Reloaded
    <2>2. /\ l \in Loads /\ l.disk = disk
          /\ \/ l.st = disk /\ l.cost = 0 /\ l.dirty = FALSE
             \/ l.st = mem[s] /\ l.cost = 1 /\ l.dirty = FALSE
             \/ l.st = disk /\ l.cost = 1 /\ l.dirty = TRUE
      BY <1>1, <1>2, <2>1
    <2>3. QED BY <1>5, <2>2
  <1>6. QED BY <1>3, <1>4, <1>5

\* What a save does.
Written(s, l, st) ==
  /\ mem' = [mem EXCEPT ![s] = st]
  /\ \E b \in BOOLEAN : /\ dirty' = [dirty EXCEPT ![s] = b]
                        /\ b => disk' = l.disk
                        /\ ~b => disk' = st \/ (disk' = l.disk /\ st = l.st /\ ~l.dirty)
                        /\ faults' = faults => l.cost = 0 /\ (b => l.dirty)
  /\ \E n \in {0, 1, 2} : faults' = faults + n /\ (n > 0 => MayHappen)

\* persist, and persist where something changed, save or leave the copy dirty.
LEMMA Saved ==
  ASSUME NEW s \in Services, NEW l \in Loads, NEW st \in Stores, faults \in Nat,
         Persist(s, l, st) \/ PersistIfChanged(s, l, st)
  PROVE  Written(s, l, st)
  <1>1. l.disk \in Stores /\ l.dirty \in BOOLEAN /\ l.cost \in {0, 1}
    BY DEF Loads
  <1>2. ASSUME NEW d, NEW b \in BOOLEAN, NEW n \in {0, 1, 2},
               mem' = [mem EXCEPT ![s] = st], disk' = d, dirty' = [dirty EXCEPT ![s] = b],
               faults' = faults + n, n > 0 => MayHappen,
               b => d = l.disk, ~b => d = st \/ (d = l.disk /\ st = l.st /\ ~l.dirty),
               n = 0 => l.cost = 0 /\ (b => l.dirty)
        PROVE  Written(s, l, st)
    <2>1. faults' = faults => n = 0
      BY <1>2
    <2>2. \E m \in {0, 1, 2} : faults' = faults + m /\ (m > 0 => MayHappen)
      BY <1>2
    <2>3. /\ dirty' = [dirty EXCEPT ![s] = b] /\ (b => disk' = l.disk)
          /\ ~b => disk' = st \/ (disk' = l.disk /\ st = l.st /\ ~l.dirty)
          /\ faults' = faults => l.cost = 0 /\ (b => l.dirty)
      BY <1>2, <2>1
    <2>4. QED BY <1>2, <2>2, <2>3, Zenon DEF Written
  <1>3. CASE Keep(s, l, st) /\ st = l.st
    <2>1. /\ mem' = [mem EXCEPT ![s] = st] /\ disk' = l.disk /\ dirty' = [dirty EXCEPT ![s] = l.dirty]
          /\ faults' = faults + l.cost /\ (l.cost > 0 => MayHappen)
      BY <1>3 DEF Keep
    <2>2. QED BY <1>1, <1>2, <1>3, <2>1
  <1>4. CASE Keep(s, [l EXCEPT !.disk = st, !.dirty = FALSE], st)
    <2>1. PICK k \in Loads : k = [l EXCEPT !.disk = st, !.dirty = FALSE]
      BY DEF Loads
    <2>2. k.disk = st /\ k.dirty = FALSE /\ k.cost = l.cost
      BY <2>1 DEF Loads
    <2>3. Keep(s, k, st)
      BY <1>4, <2>1
    <2>4. /\ mem' = [mem EXCEPT ![s] = st] /\ disk' = st /\ dirty' = [dirty EXCEPT ![s] = FALSE]
          /\ faults' = faults + l.cost /\ (l.cost > 0 => MayHappen)
      BY <2>2, <2>3 DEF Keep
    <2>5. QED BY <1>1, <1>2, <2>4
  <1>5. CASE Keep(s, [l EXCEPT !.dirty = TRUE, !.cost = @ + 1], st)
    <2>1. PICK n \in {1, 2} : n = l.cost + 1
      BY <1>1
    <2>2. PICK k : k = [l EXCEPT !.dirty = TRUE, !.cost = n]
      OBVIOUS
    <2>3. k.disk = l.disk /\ k.dirty = TRUE /\ k.cost = n
      BY <2>2 DEF Loads
    <2>4. Keep(s, k, st)
      BY <1>5, <2>1, <2>2
    <2>5. /\ mem' = [mem EXCEPT ![s] = st] /\ disk' = l.disk /\ dirty' = [dirty EXCEPT ![s] = TRUE]
          /\ faults' = faults + n /\ (n > 0 => MayHappen)
      BY <2>3, <2>4, Zenon DEF Keep
    <2>6. QED
      <3>1. PICK b \in BOOLEAN : b = TRUE
        OBVIOUS
      <3>2. n # 0 /\ n \in {0, 1, 2} /\ (n > 0 => MayHappen) /\ ~(~b)
        BY <2>1, <2>5, <3>1
      <3>3. dirty' = [dirty EXCEPT ![s] = b]
        BY <2>5, <3>1
      <3>4. QED BY <1>2, <2>5, <3>2, <3>3
  <1>6. QED BY <1>3, <1>4, <1>5 DEF Persist, PersistIfChanged

-----------------------------------------------------------------------------
Ticks == [running : BOOLEAN, due : SUBSET Jobs, at : Jobs \cup {NoJob},
          results : SUBSET (Jobs \X Outcomes)]
Locks == [by : Services \cup {0}, for : {"nothing", "run", "start"}, due : SUBSET Jobs,
          at : Jobs \cup {NoJob}]

Counted ==
  /\ edits \in Nat /\ reloads \in Nat /\ crashes \in Nat /\ faults \in Nat
  /\ edits + reloads + crashes + faults <= MaxEvents + 2
  /\ current = 1 + reloads + crashes /\ current \in Services

\* The jobs that a start has to execute are there.
LockHeld ==
  /\ lock.for = "nothing" => lock = Free
  /\ lock.for # "nothing" => lock.by \in Services
  /\ lock.for = "start" => \A j \in lock.due : mem[lock.by][j] # NoJob /\ j # lock.at

CTyped ==
  /\ now \in Times /\ disk \in Stores /\ mem \in [Services -> Stores]
  /\ dirty \in [Services -> BOOLEAN] /\ armed \in [Services -> BOOLEAN]
  /\ tick \in [Services -> Ticks] /\ lock \in Locks /\ started \subseteq Services
  /\ claims \in [Jobs -> [Times -> Nat]]
  /\ Counted /\ LockHeld

\* The lock and the tick at rest.
LEMMA FreeLock == Free \in Locks /\ Free.for = "nothing" /\ NewTick \in Ticks
  <1>1. Free \in Locks
    <2>1. PICK n \in Services \cup {0} : n = 0
      OBVIOUS
    <2>2. Free = [by |-> n, for |-> "nothing", due |-> {}, at |-> NoJob]
      BY <2>1 DEF Free
    <2>3. QED BY <2>2 DEF Locks
  <1>2. QED BY <1>1 DEF Free, NewTick, Ticks

\* The types at first.
LEMMA InitCTyped == CronInit => CTyped
  <1> SUFFICES ASSUME CronInit PROVE CTyped
    OBVIOUS
  <1>1. MaxTime \in Nat /\ MaxEvents \in Nat /\ RetryTime \in Nat /\ BackoffTime \in Nat
    BY TimesAssumption
  <1>2. now \in Times
    BY <1>1 DEF CronInit, Times
  <1>3. PICK n \in {0, 1} :
          disk = [j \in Jobs |-> IF j \notin Stored THEN NoJob
                                 ELSE [enabled |-> TRUE, next |-> IF j \in OneShots THEN OneShotTime ELSE n,
                                       runningAt |-> NoTime, last |-> "none"]]
    BY DEF CronInit
  <1>4. disk \in Stores
    <2>1. n \in Instants /\ OneShotTime \in Instants /\ NoTime \in Marks /\ "none" \in Lasts
      BY <1>1 DEF Instants, OneShotTime, Marks, Lasts
    <2>2. \A m \in Instants : [enabled |-> TRUE, next |-> m, runningAt |-> NoTime, last |-> "none"] \in Records
      BY <2>1, RecordMade
    <2>3. QED BY <1>3, <2>1, <2>2 DEF Stores
  <1>5. mem \in [Services -> Stores]
    BY DEF CronInit, Stores
  <1>6. /\ dirty \in [Services -> BOOLEAN] /\ armed \in [Services -> BOOLEAN]
        /\ tick \in [Services -> Ticks] /\ lock \in Locks /\ started \subseteq Services
        /\ claims \in [Jobs -> [Times -> Nat]] /\ LockHeld
    BY FreeLock DEF CronInit, LockHeld
  <1>7. Counted
    BY <1>1 DEF CronInit, Counted, Services
  <1>8. QED BY <1>2, <1>4, <1>5, <1>6, <1>7 DEF CTyped

\* The types after a save.
LEMMA WrittenTypes ==
  ASSUME mem \in [Services -> Stores], dirty \in [Services -> BOOLEAN],
         NEW s \in Services, NEW l \in Loads, NEW st \in Stores, Written(s, l, st)
  PROVE  disk' \in Stores /\ mem' \in [Services -> Stores] /\ dirty' \in [Services -> BOOLEAN]
  <1>1. l.disk \in Stores
    BY DEF Loads
  <1>2. disk' \in {l.disk, st}
    BY DEF Written
  <1>3. QED BY <1>1, <1>2 DEF Written

\* The counters: nothing but a fault is counted; an edit is.
LEMMA FaultsCounted ==
  ASSUME Counted, NEW s, NEW l, NEW st, Written(s, l, st),
         reloads' = reloads, crashes' = crashes, current' = current,
         \/ edits' = edits
         \/ MayHappen /\ edits' = edits + 1
  PROVE  Counted'
  <1>1. PICK n \in {0, 1, 2} : faults' = faults + n /\ (n > 0 => MayHappen)
    BY DEF Written
  <1>2. MaxEvents \in Nat
    BY TimesAssumption
  <1>3. CASE edits' = edits
    <2>1. CASE n = 0
      BY <1>1, <1>2, <1>3, <2>1 DEF Counted
    <2>2. CASE n # 0
      <3>1. edits + reloads + crashes + faults < MaxEvents
        BY <1>1, <2>2 DEF MayHappen
      <3>2. QED BY <1>1, <1>2, <1>3, <3>1 DEF Counted
    <2>3. QED BY <2>1, <2>2
  <1>4. CASE MayHappen /\ edits' = edits + 1
    BY <1>1, <1>2, <1>4 DEF Counted, MayHappen
  <1>5. QED BY <1>3, <1>4

\* armTimer keeps the type of the timers.
LEMMA ArmedType ==
  ASSUME armed \in [Services -> BOOLEAN], NEW s \in Services, NEW st, ArmTimer(s, st)
  PROVE  armed' \in [Services -> BOOLEAN]
  BY DEF ArmTimer

\* A step that loads and saves with the lock free keeps the types.
LEMMA StoreStepTyped ==
  ASSUME CTyped, NEW s \in Services, NEW l \in Loads, NEW st \in Stores, Written(s, l, st),
         lock' = Free, now' = now, current' = current, reloads' = reloads, crashes' = crashes,
         edits' = edits \/ (MayHappen /\ edits' = edits + 1),
         armed' \in [Services -> BOOLEAN], tick' \in [Services -> Ticks],
         started' \subseteq Services, claims' \in [Jobs -> [Times -> Nat]]
  PROVE  CTyped'
  <1>1. disk' \in Stores /\ mem' \in [Services -> Stores] /\ dirty' \in [Services -> BOOLEAN]
    BY WrittenTypes DEF CTyped
  <1>2. Counted'
    BY FaultsCounted DEF CTyped
  <1>3. lock' \in Locks /\ LockHeld'
    BY FreeLock DEF LockHeld
  <1>4. QED BY <1>1, <1>2, <1>3 DEF CTyped

\* The types, action by action: a tick that finds nothing.
LEMMA FindsNothingTyped ==
  ASSUME CTyped, NEW s \in Services, TickFindsNothing(s)
  PROVE  CTyped'
  <1>1. PICK l \in Reloaded(s) : /\ PersistIfChanged(s, l, RecomputeForMaintenance(l.st))
                                 /\ ArmTimer(s, RecomputeForMaintenance(l.st))
    BY DEF TickFindsNothing
  <1>2. l \in Loads /\ l.st \in Stores
    BY Loaded DEF CTyped, Loads
  <1>3. RecomputeForMaintenance(l.st) \in Stores
    BY <1>2, Recomputed DEF CTyped
  <1>4. Written(s, l, RecomputeForMaintenance(l.st))
    BY <1>1, <1>2, <1>3, Saved DEF CTyped, Counted
  <1>5. armed' \in [Services -> BOOLEAN]
    BY <1>1, ArmedType DEF CTyped
  <1>6. /\ lock' = Free /\ now' = now /\ current' = current
        /\ reloads' = reloads /\ crashes' = crashes /\ edits' = edits
        /\ tick' = tick /\ started' = started /\ claims' = claims
    BY DEF TickFindsNothing, LockIsFree, counters
  <1>7. QED BY <1>2, <1>3, <1>4, <1>5, <1>6, StoreStepTyped DEF CTyped

\* The jobs a tick finds, and the store with their marks.
Due(st)    == {j \in Jobs : Runnable(st, j)}
Marked(st) == [j \in Jobs |-> IF j \in Due(st) THEN [st[j] EXCEPT !.runningAt = now] ELSE st[j]]

\* A mark changes nothing but the mark.
LEMMA MarkedRecord ==
  ASSUME NEW r \in Records, NEW t \in Times
  PROVE  /\ [r EXCEPT !.runningAt = t] \in Records
         /\ [r EXCEPT !.runningAt = t].next = r.next
         /\ [r EXCEPT !.runningAt = t].enabled = r.enabled
         /\ [r EXCEPT !.runningAt = t].last = r.last
         /\ [r EXCEPT !.runningAt = t].runningAt = t
  <1>1. /\ r \in Rows /\ (~r.enabled => r.next = NoTime) /\ t \in Marks
        /\ r.enabled \in BOOLEAN /\ r.next \in Instants /\ r.last \in Lasts
    BY RecordFields DEF Marks
  <1>2. [r EXCEPT !.runningAt = t] = [enabled |-> r.enabled, next |-> r.next, runningAt |-> t, last |-> r.last]
    BY <1>1 DEF Rows
  <1>3. QED BY <1>1, <1>2, RecordMade

\* The jobs found are there and due; the others are not marked.
LEMMA MarkedStore ==
  ASSUME NEW st \in Stores, now \in Times
  PROVE  /\ Marked(st) \in Stores
         /\ \A j \in Due(st) : st[j] \in Records /\ st[j].next \in Times /\ st[j].next <= now
         /\ \A j \in Jobs : Marked(st)[j] = IF j \in Due(st) THEN [st[j] EXCEPT !.runningAt = now] ELSE st[j]
  <1>1. \A j \in Due(st) : st[j] \in Records /\ st[j].next \in Times /\ st[j].next <= now
    BY DEF Due, Runnable, Stores
  <1>2. \A j \in Jobs : st[j] \in Records \cup {NoJob}
    BY DEF Stores
  <1>3. \A j \in Due(st) : [st[j] EXCEPT !.runningAt = now] \in Records
    BY <1>1, MarkedRecord
  <1>4. QED BY <1>1, <1>2, <1>3 DEF Marked, Stores

\* The types: a tick that finds jobs.
LEMMA FindsTyped ==
  ASSUME CTyped, NEW s \in Services, TickFinds(s)
  PROVE  CTyped'
  <1>1. PICK l \in Reloaded(s) :
          /\ Persist(s, l, Marked(l.st))
          /\ tick' = [tick EXCEPT ![s] = [NewTick EXCEPT !.running = TRUE, !.due = Due(l.st)]]
          /\ claims' = [j \in Jobs |-> IF j \in Due(l.st) THEN [claims[j] EXCEPT ![l.st[j].next] = @ + 1]
                                       ELSE claims[j]]
    BY DEF TickFinds, SaveMarks, Due, Marked
  <1>2. l \in Loads /\ l.st \in Stores
    BY Loaded DEF CTyped, Loads
  <1>3. Marked(l.st) \in Stores
    BY <1>2, MarkedStore DEF CTyped
  <1>4. Written(s, l, Marked(l.st))
    BY <1>1, <1>2, <1>3, Saved DEF CTyped, Counted
  <1>5. claims' \in [Jobs -> [Times -> Nat]]
    <2>1. \A j \in Due(l.st) : l.st[j].next \in Times
      BY <1>2, MarkedStore DEF CTyped
    <2>2. claims \in [Jobs -> [Times -> Nat]]
      BY DEF CTyped
    <2>3. QED BY <1>1, <2>1, <2>2
  <1>6. tick' \in [Services -> Ticks]
    <2>1. [NewTick EXCEPT !.running = TRUE, !.due = Due(l.st)] \in Ticks
      BY DEF NewTick, Ticks, Due
    <2>2. QED BY <1>1, <2>1 DEF CTyped
  <1>7. /\ lock' = Free /\ now' = now /\ current' = current
        /\ reloads' = reloads /\ crashes' = crashes /\ edits' = edits
        /\ armed' \in [Services -> BOOLEAN] /\ started' = started
    BY DEF TickFinds, LockIsFree, counters, CTyped
  <1>8. QED BY <1>2, <1>3, <1>4, <1>5, <1>6, <1>7, StoreStepTyped DEF CTyped

\* A step that changes copies in memory only by marks.
LEMMA MemStepTyped ==
  ASSUME CTyped, NEW s \in Services, NEW j \in Jobs, NEW r \in Records,
         mem' = mem \/ (mem[s][j] # NoJob /\ mem' = [mem EXCEPT ![s][j] = r]),
         disk' = disk, dirty' = dirty, armed' = armed, started' = started, now' = now, claims' = claims,
         tick' \in [Services -> Ticks], Counted',
         \/ lock' = lock
         \/ lock' \in Locks /\ lock'.for = "run" /\ lock'.by \in Services
         \/ /\ lock' \in Locks /\ lock'.for = "start" /\ lock.for = "start" /\ lock'.by = lock.by
            /\ lock'.due \subseteq lock.due /\ lock'.at \notin lock'.due
  PROVE  CTyped'
  <1>1. mem \in [Services -> Stores]
    BY DEF CTyped
  <1>2. /\ mem' \in [Services -> Stores]
        /\ \A i \in Jobs, t \in Services : mem[t][i] # NoJob => mem'[t][i] # NoJob
    <2>1. CASE mem' = mem
      BY <1>1, <2>1
    <2>2. CASE mem' = [mem EXCEPT ![s][j] = r]
      <3>1. mem[s] \in Stores
        BY <1>1
      <3>2. PICK st \in Stores : st = [mem[s] EXCEPT ![j] = r]
        BY <3>1 DEF Stores
      <3>3. mem' = [mem EXCEPT ![s] = st]
        BY <2>2, <3>2
      <3>4. \A i \in Jobs : mem[s][i] # NoJob => st[i] # NoJob
        BY <3>1, <3>2, NoRecordAssumption DEF Stores
      <3>5. QED BY <1>1, <3>3, <3>4
    <2>3. QED BY <2>1, <2>2
  <1>3. \A i \in Jobs, t \in Services : mem[t][i] # NoJob => mem'[t][i] # NoJob
    BY <1>2
  <1>4. lock' \in Locks
    BY DEF CTyped
  <1>5. LockHeld'
    <2>1. \A i \in lock.due : i \in Jobs
      BY DEF CTyped, Locks
    <2>2. CASE lock' = lock
      BY <1>3, <2>1, <2>2 DEF LockHeld, CTyped
    <2>3. CASE lock'.for = "run" /\ lock'.by \in Services
      BY <2>3 DEF LockHeld
    <2>4. CASE /\ lock'.for = "start" /\ lock.for = "start" /\ lock'.by = lock.by
               /\ lock'.due \subseteq lock.due /\ lock'.at \notin lock'.due
      BY <1>3, <2>1, <2>4 DEF LockHeld, CTyped
    <2>5. QED BY <2>2, <2>3, <2>4
  <1>6. QED BY <1>2, <1>4, <1>5 DEF CTyped

\* The counters of a step that counts nothing.
LEMMA SameCounts ==
  ASSUME Counted, edits' = edits, reloads' = reloads, crashes' = crashes, faults' = faults, current' = current
  PROVE  Counted'
  BY DEF Counted

\* The types: an execution in a tick.
LEMMA ExecutesTyped ==
  ASSUME CTyped, NEW s \in Services, NEW j \in Jobs, TickExecutes(s, j)
  PROVE  CTyped'
  <1>1. now \in Times /\ tick \in [Services -> Ticks] /\ mem \in [Services -> Stores] /\ Counted
    BY DEF CTyped
  <1>2. tick' = [tick EXCEPT ![s].at = j, ![s].due = @ \ {j}]
    BY DEF TickExecutes
  <1>3. tick' \in [Services -> Ticks]
    BY <1>1, <1>2 DEF Ticks
  <1>4. Counted'
    BY <1>1, SameCounts DEF TickExecutes, counters
  <1>5. /\ disk' = disk /\ dirty' = dirty /\ armed' = armed /\ started' = started /\ now' = now
        /\ claims' = claims /\ lock' = lock
    BY DEF TickExecutes, CTyped
  <1>6. CASE mem[s][j] = NoJob
    <2>1. mem' = mem
      BY <1>6 DEF TickExecutes
    <2>2. PICK r \in Records : TRUE
      BY ClockFacts, <1>1, RecordMade DEF Marks, Lasts
    <2>3. QED BY <1>3, <1>4, <1>5, <2>1, <2>2, MemStepTyped
  <1>7. CASE mem[s][j] # NoJob
    <2>1. mem[s][j] \in Records
      BY <1>1, <1>7 DEF Stores
    <2>2. PICK r \in Records : r = [mem[s][j] EXCEPT !.runningAt = now]
      BY <1>1, <2>1, MarkedRecord
    <2>3. mem' = [mem EXCEPT ![s][j] = r]
      BY <1>7, <2>2 DEF TickExecutes
    <2>4. QED BY <1>3, <1>4, <1>5, <1>7, <2>3, MemStepTyped
  <1>8. QED BY <1>6, <1>7

\* The types: its end or its timeout.
LEMMA TickEndsTyped ==
  ASSUME CTyped, NEW s \in Services, TickTimesOut(s) \/ \E o \in Ends : TickExecuted(s, o)
  PROVE  CTyped'
  <1>1. tick \in [Services -> Ticks] /\ Counted
    BY DEF CTyped
  <1>2. PICK o \in Outcomes :
          /\ tick[s].at # NoJob
          /\ tick' = [tick EXCEPT ![s].at = NoJob, ![s].results = @ \cup {<<tick[s].at, o>>}]
    BY EndsAssumption DEF TickTimesOut, TickExecuted, Outcomes
  <1>3. tick[s].at \in Jobs /\ tick' \in [Services -> Ticks]
    <2>1. tick[s] \in Ticks /\ tick[s].at \in Jobs /\ tick[s].results \subseteq Jobs \X Outcomes
      BY <1>1, <1>2 DEF Ticks
    <2>2. PICK i \in Jobs : i = tick[s].at
      BY <2>1
    <2>3. PICK R \in SUBSET (Jobs \X Outcomes) : R = tick[s].results \cup {<<i, o>>}
      <3>1. PICK x \in Jobs \X Outcomes : x = <<i, o>>
        OBVIOUS
      <3>2. tick[s].results \cup {x} \in SUBSET (Jobs \X Outcomes)
        BY <2>1
      <3>3. QED BY <3>1, <3>2
    <2>4. [tick[s] EXCEPT !.at = NoJob, !.results = R] \in Ticks
      BY <2>1 DEF Ticks
    <2>5. tick' = [tick EXCEPT ![s] = [tick[s] EXCEPT !.at = NoJob, !.results = R]]
      BY <1>1, <1>2, <2>2, <2>3
    <2>6. QED BY <1>1, <2>1, <2>4, <2>5
  <1>4. /\ disk' = disk /\ dirty' = dirty /\ armed' = armed /\ started' = started /\ now' = now
        /\ claims' = claims /\ lock' = lock /\ mem' = mem
    BY DEF TickTimesOut, TickExecuted
  <1>5. Counted'
    BY <1>1, SameCounts DEF TickTimesOut, TickExecuted, counters
  <1>6. LockHeld'
    BY <1>4 DEF LockHeld, CTyped
  <1>7. QED BY <1>3, <1>4, <1>5, <1>6 DEF CTyped

\* A result makes a record of a record, or removes it.
LEMMA AppliedEntry ==
  ASSUME NEW j \in Jobs, NEW r \in Entry, NEW o \in Outcomes, now \in Times
  PROVE  ApplyJobResult(j, r, o) \in Entry
  <1>1. CASE r = NoJob
    BY <1>1 DEF ApplyJobResult, Entry
  <1>2. CASE r \in Records
    BY <1>2, AppliedRecord DEF Entry
  <1>3. QED BY <1>1, <1>2 DEF Entry

\* The result of a job is one of those of the tick.
LEMMA AppliedStore ==
  ASSUME NEW s \in Services, NEW st \in Stores, now \in Times
  PROVE  /\ WithResults(s, st) \in Stores
         /\ \A j \in Jobs : IF \E o \in Outcomes : <<j, o>> \in tick[s].results
                            THEN \E o \in Outcomes : WithResults(s, st)[j] = ApplyJobResult(j, st[j], o)
                            ELSE WithResults(s, st)[j] = st[j]
  <1>1. ASSUME NEW j \in Jobs
        PROVE  /\ WithResults(s, st)[j] \in Entry
               /\ IF \E o \in Outcomes : <<j, o>> \in tick[s].results
                  THEN \E o \in Outcomes : WithResults(s, st)[j] = ApplyJobResult(j, st[j], o)
                  ELSE WithResults(s, st)[j] = st[j]
    <2>1. st[j] \in Entry
      BY DEF Stores, Entry
    <2>2. CASE \E o \in Outcomes : <<j, o>> \in tick[s].results
      <3>1. PICK o \in Outcomes : o = CHOOSE x \in Outcomes : <<j, x>> \in tick[s].results
        BY <2>2
      <3>2. WithResults(s, st)[j] = ApplyJobResult(j, st[j], o)
        BY <2>2, <3>1 DEF WithResults
      <3>3. QED BY <2>1, <2>2, <3>2, AppliedEntry
    <2>3. CASE ~\E o \in Outcomes : <<j, o>> \in tick[s].results
      BY <2>1, <2>3 DEF WithResults
    <2>4. QED BY <2>2, <2>3
  <1>2. WithResults(s, st) = [j \in Jobs |-> WithResults(s, st)[j]]
    BY DEF WithResults
  <1>3. QED BY <1>1, <1>2 DEF Stores, Entry

\* The types: the results of a tick, applied to the store as it is then.
LEMMA AppliesTyped ==
  ASSUME CTyped, NEW s \in Services, TickApplies(s)
  PROVE  CTyped'
  <1>1. PICK l \in Reloaded(s) : /\ Persist(s, l, RecomputeForMaintenance(WithResults(s, l.st)))
                                 /\ ArmTimer(s, RecomputeForMaintenance(WithResults(s, l.st)))
    BY DEF TickApplies, AfterTick
  <1>2. l \in Loads /\ l.st \in Stores
    BY Loaded DEF CTyped, Loads
  <1>3. RecomputeForMaintenance(WithResults(s, l.st)) \in Stores
    BY <1>2, Recomputed, AppliedStore DEF CTyped
  <1>4. Written(s, l, RecomputeForMaintenance(WithResults(s, l.st)))
    BY <1>1, <1>2, <1>3, Saved DEF CTyped, Counted
  <1>5. armed' \in [Services -> BOOLEAN]
    BY <1>1, ArmedType DEF CTyped
  <1>6. /\ lock' = Free /\ now' = now /\ current' = current
        /\ reloads' = reloads /\ crashes' = crashes /\ edits' = edits
        /\ tick' = [tick EXCEPT ![s] = NewTick] /\ started' = started /\ claims' = claims
    BY DEF TickApplies, LockIsFree, counters
  <1>7. tick' \in [Services -> Ticks]
    BY <1>6, FreeLock DEF CTyped
  <1>8. QED BY <1>2, <1>3, <1>4, <1>5, <1>6, <1>7, StoreStepTyped DEF CTyped

\* The types: a read.
LEMMA ReadsTyped ==
  ASSUME CTyped, ReadJobs
  PROVE  CTyped'
  <1>1. PICK s \in Services : s = current
    BY DEF CTyped, Counted
  <1>2. PICK l \in Loads : l = InMemory(s) /\ l.st = mem[s]
    BY Loaded DEF CTyped, InMemory
  <1>3. mem[s] \in Stores /\ RecomputeForMaintenance(mem[s]) \in Stores
    BY Recomputed DEF CTyped
  <1>4. PersistIfChanged(s, l, RecomputeForMaintenance(mem[s]))
    BY <1>1, <1>2 DEF ReadJobs
  <1>5. Written(s, l, RecomputeForMaintenance(mem[s]))
    BY <1>3, <1>4, Saved DEF CTyped, Counted
  <1>6. /\ lock' = Free /\ now' = now /\ current' = current
        /\ reloads' = reloads /\ crashes' = crashes /\ edits' = edits
        /\ tick' = tick /\ started' = started /\ claims' = claims /\ armed' = armed
    BY DEF ReadJobs, Request, LockIsFree, counters
  <1>7. QED BY <1>3, <1>5, <1>6, StoreStepTyped DEF CTyped

\* What an edit does.
LEMMA Edited ==
  ASSUME CTyped, NEW st \in Stores, Edit(st), LockIsFree
  PROVE  /\ Written(current, InMemory(current), st) /\ InMemory(current) \in Loads
         /\ MayHappen /\ edits' = edits + 1 /\ ArmTimer(current, st)
         /\ CTyped'
  <1>1. current \in Services
    BY DEF CTyped, Counted
  <1>2. InMemory(current) \in Loads
    BY <1>1, Loaded DEF CTyped
  <1>3. Persist(current, InMemory(current), st) /\ MayHappen /\ edits' = edits + 1 /\ ArmTimer(current, st)
    BY DEF Edit
  <1>4. Written(current, InMemory(current), st)
    BY <1>1, <1>2, <1>3, Saved DEF CTyped, Counted
  <1>5. armed' \in [Services -> BOOLEAN]
    BY <1>1, <1>3, ArmedType DEF CTyped
  <1>6. /\ lock' = Free /\ now' = now /\ current' = current
        /\ reloads' = reloads /\ crashes' = crashes
        /\ tick' = tick /\ started' = started /\ claims' = claims
    BY DEF Edit, LockIsFree
  <1>7. CTyped'
    BY <1>1, <1>2, <1>3, <1>4, <1>5, <1>6, StoreStepTyped DEF CTyped
  <1>8. QED BY <1>2, <1>3, <1>4, <1>7

\* A job that is added: as an edit recomputes it, it is not due yet or a one-shot job.
LEMMA JobMade ==
  ASSUME NEW j \in Jobs, now \in Times
  PROVE  NewJob(j) \in Records
  <1>1. PICK r \in Records : r = [enabled |-> TRUE, next |-> NoTime, runningAt |-> NoTime, last |-> "none"]
    <2>1. NoTime \in Marks /\ "none" \in Lasts /\ NoTime \in Instants
      BY ClockFacts DEF Marks, Lasts
    <2>2. QED BY <2>1, RecordMade
  <1>2. PICK n \in Instants : n = ComputeNext(j, r)
    BY ComputedNext
  <1>3. NewJob(j) = [enabled |-> TRUE, next |-> n, runningAt |-> NoTime, last |-> "none"]
    <2>1. NewJob(j) = [r EXCEPT !.next = n]
      BY <1>1, <1>2, Zenon DEF NewJob
    <2>2. QED BY <1>1, <2>1
  <1>4. NoTime \in Marks /\ "none" \in Lasts
    BY DEF Marks, Lasts
  <1>5. QED BY <1>3, <1>4, RecordMade

\* The types: a job is added.
LEMMA AddTyped ==
  ASSUME CTyped, NEW j \in Jobs, AddJob(j)
  PROVE  CTyped'
  <1>1. mem[current] \in Stores
    BY DEF CTyped, Counted
  <1>2. PICK st \in Stores : st = [mem[current] EXCEPT ![j] = NewJob(j)]
    BY <1>1, JobMade DEF CTyped, Stores
  <1>3. RecomputeNextRuns(st) \in Stores
    BY Recomputed DEF CTyped
  <1>4. Edit(RecomputeNextRuns(st)) /\ LockIsFree
    BY <1>2 DEF AddJob, Request
  <1>5. QED BY <1>3, <1>4, Edited

\* A record that is patched.
Patched(j, old, patch) ==
  LET r == [old EXCEPT !.enabled = IF patch \in {"enable", "disable"} THEN patch = "enable" ELSE @]
  IN  IF patch = "other" THEN [r EXCEPT !.next = IF @ = NoTime THEN ComputeNext(j, r) ELSE @]
      ELSE IF r.enabled THEN [r EXCEPT !.next = ComputeNext(j, r)]
      ELSE [r EXCEPT !.next = NoTime, !.runningAt = NoTime]

\* A patch of a recurring job leaves its next run, removes it, or sets a later one.
LEMMA PatchedRecord ==
  ASSUME NEW j \in Jobs, NEW old \in Records, NEW patch \in Patches, now \in Times
  PROVE  /\ Patched(j, old, patch) \in Records
         /\ j \notin OneShots => Patched(j, old, patch).next \in {old.next, NoTime, now + 1}
  <1>1. /\ old \in Rows /\ (~old.enabled => old.next = NoTime) /\ old.next \in Instants
        /\ old.runningAt \in Marks /\ old.enabled \in BOOLEAN /\ old.last \in Lasts
    BY RecordFields
  <1>2. NoTime \in Instants /\ NoTime \in Marks /\ OneShotTime \in Instants /\ now + 1 \in Instants
    BY ClockFacts DEF Marks, OneShotTime
  <1>3. PICK e \in BOOLEAN : e <=> IF patch \in {"enable", "disable"} THEN patch = "enable" ELSE old.enabled
    OBVIOUS
  <1>4. PICK k : k = [old EXCEPT !.enabled = IF patch \in {"enable", "disable"} THEN patch = "enable"
                                             ELSE old.enabled]
    OBVIOUS
  <1>5. k = [enabled |-> e, next |-> old.next, runningAt |-> old.runningAt, last |-> old.last]
    <2>1. e = IF patch \in {"enable", "disable"} THEN patch = "enable" ELSE old.enabled
      BY <1>1, <1>3
    <2>2. k = [old EXCEPT !.enabled = e]
      BY <1>4, <2>1
    <2>3. QED BY <1>1, <2>2 DEF Rows
  <1>6. k.enabled = e /\ k.next = old.next /\ k.last = old.last /\ k.runningAt = old.runningAt
    BY <1>5
  <1>7. PICK n \in Instants : /\ n = ComputeNext(j, k) /\ (~e => n = NoTime)
                              /\ j \notin OneShots => n \in {NoTime, now + 1}
    BY <1>2, <1>6 DEF ComputeNext
  <1>8. CASE patch = "other"
    <2>1. e <=> old.enabled
      BY <1>3, <1>8
    <2>2. PICK m \in Instants : m = IF old.next = NoTime THEN n ELSE old.next
      BY <1>1
    <2>3. Patched(j, old, patch) = [k EXCEPT !.next = m]
      BY <1>4, <1>6, <1>7, <1>8, <2>2 DEF Patched
    <2>4. Patched(j, old, patch) = [enabled |-> e, next |-> m, runningAt |-> old.runningAt, last |-> old.last]
      BY <1>5, <2>3
    <2>5. ~e => m = NoTime
      BY <1>1, <1>7, <2>1, <2>2
    <2>6. Patched(j, old, patch) \in Records
      BY <1>1, <2>4, <2>5, RecordMade
    <2>7. QED BY <1>7, <2>2, <2>4, <2>6
  <1>9. CASE patch # "other" /\ e
    <2>1. Patched(j, old, patch) = [k EXCEPT !.next = n]
      BY <1>4, <1>6, <1>7, <1>9 DEF Patched
    <2>2. Patched(j, old, patch) = [enabled |-> e, next |-> n, runningAt |-> old.runningAt, last |-> old.last]
      BY <1>5, <2>1
    <2>3. Patched(j, old, patch) \in Records
      BY <1>1, <1>7, <2>2, RecordMade
    <2>4. QED BY <1>7, <2>2, <2>3
  <1>10. CASE patch # "other" /\ ~e
    <2>1. Patched(j, old, patch) = [k EXCEPT !.next = NoTime, !.runningAt = NoTime]
      BY <1>4, <1>6, <1>10 DEF Patched
    <2>2. Patched(j, old, patch) = [enabled |-> e, next |-> NoTime, runningAt |-> NoTime, last |-> old.last]
      BY <1>5, <2>1
    <2>3. Patched(j, old, patch) \in Records
      BY <1>1, <1>2, <2>2, RecordMade
    <2>4. QED BY <2>2, <2>3
  <1>11. QED BY <1>8, <1>9, <1>10

\* The types: a job is updated.
LEMMA UpdateTyped ==
  ASSUME CTyped, NEW j \in Jobs, NEW patch \in Patches, UpdateJob(j, patch)
  PROVE  CTyped'
  <1>1. mem[current] \in Stores /\ mem[current][j] # NoJob
    BY DEF CTyped, Counted, UpdateJob
  <1>2. mem[current][j] \in Records
    BY <1>1 DEF Stores
  <1>3. PICK st \in Stores : st = [mem[current] EXCEPT ![j] = Patched(j, mem[current][j], patch)]
    BY <1>1, <1>2, PatchedRecord DEF CTyped, Stores
  <1>4. Edit(st) /\ LockIsFree
    BY <1>3 DEF UpdateJob, Request, Patched
  <1>5. QED BY <1>4, Edited

\* The types: a job is removed.
LEMMA RemoveTyped ==
  ASSUME CTyped, NEW j \in Jobs, RemoveJob(j)
  PROVE  CTyped'
  <1>1. PICK st \in Stores : st = [mem[current] EXCEPT ![j] = NoJob]
    BY DEF CTyped, Counted, Stores
  <1>2. QED BY <1>1, Edited DEF RemoveJob, Request

\* The types: a run on request begins.
LEMMA RunTyped ==
  ASSUME CTyped, NEW j \in Jobs, NEW forced, RunJob(j, forced)
  PROVE  CTyped'
  <1>1. PICK s \in Services : s = current
    BY DEF CTyped, Counted
  <1>2. mem[s] \in Stores /\ mem[s][j] # NoJob /\ now \in Times
    BY <1>1 DEF RunJob, CTyped
  <1>3. PICK r \in Records : r = [mem[s][j] EXCEPT !.runningAt = now]
    BY <1>2, MarkedRecord DEF Stores
  <1>4. mem' = [mem EXCEPT ![s][j] = r]
    BY <1>1, <1>3 DEF RunJob
  <1>5. lock' \in Locks /\ lock'.for = "run" /\ lock'.by \in Services
    <2>1. lock' = [by |-> s, for |-> "run", due |-> {}, at |-> j]
      BY <1>1 DEF RunJob, Free
    <2>2. QED BY <2>1 DEF Locks
  <1>6. /\ MayHappen /\ edits' = edits + 1 /\ reloads' = reloads /\ crashes' = crashes
        /\ faults' = faults /\ current' = current /\ Counted
    BY DEF RunJob, CTyped
  <1>7. Counted'
    BY <1>6, TimesAssumption DEF Counted, MayHappen
  <1>8. /\ disk' = disk /\ dirty' = dirty /\ armed' = armed /\ started' = started /\ now' = now
        /\ claims' = claims /\ tick' \in [Services -> Ticks]
    BY DEF RunJob, CTyped
  <1>9. QED BY <1>2, <1>4, <1>5, <1>7, <1>8, MemStepTyped

\* The store with the result of job j applied.
AppliedTo(st, j, o) == [st EXCEPT ![j] = ApplyJobResult(j, st[j], o)]

\* It is a store.
LEMMA AppliedToStore ==
  ASSUME NEW st \in Stores, NEW j \in Jobs, NEW o \in Outcomes, now \in Times
  PROVE  AppliedTo(st, j, o) \in Stores
  <1>1. st[j] \in Entry
    BY DEF Stores, Entry
  <1>2. ApplyJobResult(j, st[j], o) \in Entry
    BY <1>1, AppliedEntry
  <1>3. QED BY <1>2 DEF AppliedTo, Stores, Entry

\* What the end of a run on request does.
LEMMA RunEnded ==
  ASSUME CTyped, NEW o \in Ends, RunEnds(o), NEW s, s = lock.by
  PROVE  /\ s \in Services /\ o \in Outcomes /\ InMemory(s) \in Loads
         /\ LET st == RecomputeNextRuns(IF lock.at \in Jobs THEN AppliedTo(mem[s], lock.at, o) ELSE mem[s])
            IN  st \in Stores /\ Written(s, InMemory(s), st) /\ ArmTimer(s, st)
  <1> DEFINE base == IF lock.at \in Jobs THEN AppliedTo(mem[s], lock.at, o) ELSE mem[s]
  <1>1. s \in Services
    BY DEF RunEnds, CTyped, LockHeld
  <1>2. o \in Outcomes
    BY EndsAssumption DEF Outcomes
  <1>3. InMemory(s) \in Loads
    BY <1>1, Loaded DEF CTyped
  <1>4. mem[s] \in Stores /\ now \in Times
    BY <1>1 DEF CTyped
  <1>5. base \in Stores
    BY <1>2, <1>4, AppliedToStore
  <1>6. RecomputeNextRuns(base) \in Stores
    BY <1>4, <1>5, Recomputed
  <1>7. [mem[s] EXCEPT ![lock.at] = ApplyJobResult(lock.at, @, o)] = base
    BY <1>4 DEF AppliedTo, Stores
  <1>8. Persist(s, InMemory(s), RecomputeNextRuns(base)) /\ ArmTimer(s, RecomputeNextRuns(base))
    BY <1>7 DEF RunEnds
  <1>9. Written(s, InMemory(s), RecomputeNextRuns(base))
    BY <1>1, <1>3, <1>6, <1>8, Saved DEF CTyped, Counted
  <1>10. QED BY <1>1, <1>2, <1>3, <1>6, <1>8, <1>9

\* The types: a run on request ends.
LEMMA RunEndsTyped ==
  ASSUME CTyped, NEW o \in Ends, RunEnds(o)
  PROVE  CTyped'
  <1>1. PICK s : s = lock.by
    OBVIOUS
  <1>2. PICK st \in Stores : /\ s \in Services /\ InMemory(s) \in Loads
                             /\ Written(s, InMemory(s), st) /\ ArmTimer(s, st)
    BY <1>1, RunEnded
  <1>3. armed' \in [Services -> BOOLEAN]
    BY <1>2, ArmedType DEF CTyped
  <1>4. /\ lock' = Free /\ now' = now /\ current' = current
        /\ reloads' = reloads /\ crashes' = crashes /\ edits' = edits
        /\ tick' = tick /\ started' = started /\ claims' = claims
    BY DEF RunEnds, counters
  <1>5. QED BY <1>2, <1>3, <1>4, StoreStepTyped DEF CTyped

\* What a start finds in the vault: the store without its marks, and the jobs missed.
Cleared == [j \in Jobs |-> IF disk[j] = NoJob THEN NoJob ELSE [disk[j] EXCEPT !.runningAt = NoTime]]
Missed  == {j \in Jobs : /\ Runnable(Cleared, j)
                         /\ disk[j].runningAt = NoTime
                         /\ j \in OneShots => disk[j].last = "none"}

\* Clearing a mark changes nothing but the mark.
LEMMA UnmarkedRecord ==
  ASSUME NEW r \in Records
  PROVE  /\ [r EXCEPT !.runningAt = NoTime] \in Records
         /\ [r EXCEPT !.runningAt = NoTime].next = r.next
         /\ [r EXCEPT !.runningAt = NoTime].enabled = r.enabled
         /\ [r EXCEPT !.runningAt = NoTime].last = r.last
         /\ [r EXCEPT !.runningAt = NoTime].runningAt = NoTime
  <1>1. /\ r \in Rows /\ (~r.enabled => r.next = NoTime) /\ NoTime \in Marks
        /\ r.enabled \in BOOLEAN /\ r.next \in Instants /\ r.last \in Lasts
    BY RecordFields DEF Marks
  <1>2. [r EXCEPT !.runningAt = NoTime]
          = [enabled |-> r.enabled, next |-> r.next, runningAt |-> NoTime, last |-> r.last]
    BY <1>1 DEF Rows
  <1>3. QED BY <1>1, <1>2, RecordMade

\* The store a start begins with, and the jobs it executes.
LEMMA ClearedStore ==
  ASSUME disk \in Stores
  PROVE  /\ Cleared \in Stores
         /\ \A j \in Jobs : IF disk[j] = NoJob THEN Cleared[j] = NoJob
                            ELSE /\ disk[j] \in Records /\ Cleared[j] \in Records
                                 /\ Cleared[j] = [disk[j] EXCEPT !.runningAt = NoTime]
                                 /\ Cleared[j].next = disk[j].next /\ Cleared[j].enabled = disk[j].enabled
                                 /\ Cleared[j].last = disk[j].last /\ Cleared[j].runningAt = NoTime
         /\ Missed \subseteq Jobs /\ \A j \in Missed : Cleared[j] # NoJob
  <1>1. \A j \in Jobs : disk[j] # NoJob => disk[j] \in Records
    BY DEF Stores
  <1>2. \A j \in Jobs : Cleared[j] = IF disk[j] = NoJob THEN NoJob ELSE [disk[j] EXCEPT !.runningAt = NoTime]
    BY DEF Cleared
  <1>3. \A j \in Jobs : IF disk[j] = NoJob THEN Cleared[j] = NoJob
                            ELSE /\ disk[j] \in Records /\ Cleared[j] \in Records
                                 /\ Cleared[j] = [disk[j] EXCEPT !.runningAt = NoTime]
                                 /\ Cleared[j].next = disk[j].next /\ Cleared[j].enabled = disk[j].enabled
                                 /\ Cleared[j].last = disk[j].last /\ Cleared[j].runningAt = NoTime
    <2> SUFFICES ASSUME NEW j \in Jobs, disk[j] # NoJob
                 PROVE  /\ disk[j] \in Records /\ Cleared[j] \in Records
                        /\ Cleared[j] = [disk[j] EXCEPT !.runningAt = NoTime]
                        /\ Cleared[j].next = disk[j].next /\ Cleared[j].enabled = disk[j].enabled
                        /\ Cleared[j].last = disk[j].last /\ Cleared[j].runningAt = NoTime
      BY <1>2
    <2>1. PICK r \in Records : r = disk[j]
      BY <1>1
    <2>2. Cleared[j] = [r EXCEPT !.runningAt = NoTime]
      BY <1>2, <2>1
    <2>3. QED BY <2>1, <2>2, UnmarkedRecord
  <1>4. Cleared = [j \in Jobs |-> Cleared[j]] /\ \A j \in Jobs : Cleared[j] \in Records \cup {NoJob}
    BY <1>3 DEF Cleared
  <1>5. Cleared \in Stores
    BY <1>4 DEF Stores
  <1>6. Missed \subseteq Jobs /\ \A j \in Missed : Cleared[j] # NoJob
    BY DEF Missed, Runnable
  <1>7. QED BY <1>3, <1>5, <1>6

\* The types: a start begins.
LEMMA StartTyped ==
  ASSUME CTyped, NEW s \in Services, Start(s)
  PROVE  CTyped'
  <1>1. /\ mem' = [mem EXCEPT ![s] = Cleared]
        /\ lock' = [by |-> s, for |-> "start", due |-> Missed, at |-> NoJob]
    BY DEF Start, Free, Cleared, Missed
  <1>2. Cleared \in Stores /\ Missed \subseteq Jobs /\ (\A j \in Missed : Cleared[j] # NoJob /\ j # NoJob)
    BY ClearedStore, JobsAssumption DEF CTyped
  <1>3. lock' \in Locks /\ lock'.by = s /\ lock'.for = "start" /\ lock'.due = Missed /\ lock'.at = NoJob
    BY <1>1, <1>2 DEF Locks
  <1>4. mem' \in [Services -> Stores] /\ mem'[s] = Cleared
    BY <1>1, <1>2 DEF CTyped
  <1>5. LockHeld'
    BY <1>2, <1>3, <1>4 DEF LockHeld
  <1>6. Counted'
    BY SameCounts DEF CTyped, Start, counters
  <1>7. QED BY <1>3, <1>4, <1>5, <1>6 DEF CTyped, Start

\* The types: a start executes a job it missed.
LEMMA StartExecutesTyped ==
  ASSUME CTyped, NEW j \in Jobs, StartExecutes(j)
  PROVE  CTyped'
  <1>1. PICK s \in Services : s = lock.by
    BY DEF StartExecutes, CTyped, LockHeld
  <1>2. mem[s] \in Stores /\ mem[s][j] # NoJob /\ now \in Times /\ lock \in Locks
    BY <1>1 DEF StartExecutes, CTyped, LockHeld
  <1>3. PICK r \in Records : r = [mem[s][j] EXCEPT !.runningAt = now]
    BY <1>2, MarkedRecord DEF Stores
  <1>4. mem' = [mem EXCEPT ![s][j] = r]
    BY <1>1, <1>3 DEF StartExecutes
  <1>5. /\ lock' \in Locks /\ lock'.for = "start" /\ lock.for = "start" /\ lock'.by = lock.by
        /\ lock'.due \subseteq lock.due /\ lock'.at \notin lock'.due
    BY <1>2 DEF StartExecutes, Locks
  <1>6. Counted'
    BY SameCounts DEF CTyped, StartExecutes, counters
  <1>7. /\ disk' = disk /\ dirty' = dirty /\ armed' = armed /\ started' = started /\ now' = now
        /\ claims' = claims /\ tick' \in [Services -> Ticks]
    BY DEF StartExecutes, CTyped
  <1>8. QED BY <1>2, <1>4, <1>5, <1>6, <1>7, MemStepTyped

\* The types: that job has been executed.
LEMMA StartExecutedTyped ==
  ASSUME CTyped, NEW o \in Ends, StartExecuted(o)
  PROVE  CTyped'
  <1>1. PICK s \in Services, j \in Jobs : s = lock.by /\ j = lock.at
    BY DEF StartExecuted, CTyped, LockHeld, Locks
  <1>2. /\ mem \in [Services -> Stores] /\ mem[s] \in Stores /\ now \in Times /\ lock \in Locks
        /\ LockHeld /\ o \in Outcomes
    BY EndsAssumption DEF CTyped, Outcomes
  <1>3. PICK st \in Stores : st = AppliedTo(mem[s], j, o)
    BY <1>2, AppliedToStore
  <1>4. mem' = [mem EXCEPT ![s] = st]
    BY <1>1, <1>2, <1>3 DEF StartExecuted, AppliedTo
  <1>5. \A i \in Jobs : i # j => st[i] = mem[s][i]
    BY <1>2, <1>3 DEF AppliedTo, Stores
  <1>6. /\ lock' \in Locks /\ lock'.for = "start" /\ lock.for = "start" /\ lock'.by = lock.by
        /\ lock'.due = lock.due /\ lock'.at = NoJob
    BY <1>2 DEF StartExecuted, Locks
  <1>7. lock.due \subseteq Jobs
    BY <1>2 DEF Locks
  <1>8. LockHeld'
    <2>1. mem'[s] = st
      BY <1>2, <1>4
    <2>2. \A i \in lock.due : mem[s][i] # NoJob /\ i # j
      BY <1>1, <1>2, <1>6 DEF LockHeld
    <2>3. \A i \in lock'.due : mem'[lock'.by][i] # NoJob /\ i # lock'.at
      BY <1>1, <1>5, <1>6, <1>7, <2>1, <2>2, JobsAssumption
    <2>4. QED BY <1>1, <1>6, <2>3 DEF LockHeld
  <1>9. mem' \in [Services -> Stores]
    BY <1>2, <1>4
  <1>10. Counted'
    BY SameCounts DEF CTyped, StartExecuted, counters
  <1>11. QED BY <1>6, <1>8, <1>9, <1>10 DEF CTyped, StartExecuted

\* The types: a start ends.
LEMMA StartEndsTyped ==
  ASSUME CTyped, StartEnds
  PROVE  CTyped'
  <1>1. PICK s \in Services : s = lock.by
    BY DEF StartEnds, CTyped, LockHeld
  <1>2. InMemory(s) \in Loads
    BY Loaded DEF CTyped
  <1>3. RecomputeNextRuns(mem[s]) \in Stores
    BY Recomputed DEF CTyped
  <1>4. /\ Persist(s, InMemory(s), RecomputeNextRuns(mem[s])) /\ ArmTimer(s, RecomputeNextRuns(mem[s]))
        /\ started' = started \cup {s}
    BY <1>1 DEF StartEnds
  <1>5. Written(s, InMemory(s), RecomputeNextRuns(mem[s]))
    BY <1>2, <1>3, <1>4, Saved DEF CTyped, Counted
  <1>6. armed' \in [Services -> BOOLEAN]
    BY <1>4, ArmedType DEF CTyped
  <1>7. /\ lock' = Free /\ now' = now /\ current' = current
        /\ reloads' = reloads /\ crashes' = crashes /\ edits' = edits
        /\ tick' = tick /\ started' \subseteq Services /\ claims' = claims
    BY <1>4 DEF StartEnds, counters, CTyped
  <1>8. QED BY <1>2, <1>3, <1>5, <1>6, <1>7, StoreStepTyped DEF CTyped

\* The types: a reload, which needs one of the services that are left.
LEMMA ReloadTyped ==
  ASSUME CTyped, Reload
  PROVE  CTyped'
  <1>1. Counted'
    BY TimesAssumption DEF CTyped, Counted, Reload, MayHappen, Services
  <1>2. armed' \in [Services -> BOOLEAN]
    BY DEF CTyped, Reload
  <1>3. LockHeld'
    BY DEF CTyped, LockHeld, Reload
  <1>4. started' \subseteq Services
    BY DEF CTyped, Counted, Reload
  <1>5. QED BY <1>1, <1>2, <1>3, <1>4 DEF CTyped, Reload

\* The types: a crash.
LEMMA CrashTyped ==
  ASSUME CTyped, Crash
  PROVE  CTyped'
  <1>1. Counted'
    BY TimesAssumption DEF CTyped, Counted, Crash, MayHappen, Services
  <1>2. mem' \in [Services -> Stores]
    BY DEF Crash, Stores
  <1>3. tick' \in [Services -> Ticks] /\ lock' \in Locks /\ LockHeld'
    BY FreeLock DEF Crash, LockHeld
  <1>4. dirty' \in [Services -> BOOLEAN] /\ armed' \in [Services -> BOOLEAN]
    BY DEF Crash
  <1>5. started' \subseteq Services
    BY TimesAssumption DEF CTyped, Counted, Crash, Services
  <1>6. QED BY <1>1, <1>2, <1>3, <1>4, <1>5 DEF CTyped, Crash

\* The types: time passes.
LEMMA ClockTyped ==
  ASSUME CTyped, ClockMoves
  PROVE  CTyped'
  <1>1. now' \in Times
    BY TimesAssumption DEF CTyped, ClockMoves, Times
  <1>2. LockHeld' /\ Counted'
    BY SameCounts DEF CTyped, LockHeld, ClockMoves, counters
  <1>3. QED BY <1>1, <1>2 DEF CTyped, ClockMoves

\* The types in every step.
LEMMA NextCTyped == CTyped /\ [CronNext]_cronVars => CTyped'
  <1> SUFFICES ASSUME CTyped, [CronNext]_cronVars PROVE CTyped'
    OBVIOUS
  <1>1. CASE UNCHANGED cronVars
    BY <1>1 DEF CTyped, Counted, LockHeld, cronVars
  <1>2. ASSUME NEW s \in Services,
               \/ TickFindsNothing(s) \/ TickFinds(s) \/ TickTimesOut(s) \/ TickApplies(s) \/ Start(s)
               \/ \E j \in Jobs : TickExecutes(s, j)
               \/ \E o \in Ends : TickExecuted(s, o)
        PROVE  CTyped'
    BY <1>2, FindsNothingTyped, FindsTyped, TickEndsTyped, AppliesTyped, StartTyped, ExecutesTyped
  <1>3. ASSUME NEW j \in Jobs,
               \/ AddJob(j) \/ RemoveJob(j) \/ StartExecutes(j)
               \/ \E patch \in Patches : UpdateJob(j, patch)
               \/ \E forced \in BOOLEAN : RunJob(j, forced)
        PROVE  CTyped'
    BY <1>3, AddTyped, RemoveTyped, StartExecutesTyped, UpdateTyped, RunTyped
  <1>4. ASSUME NEW o \in Ends, RunEnds(o) \/ StartExecuted(o)
        PROVE  CTyped'
    BY <1>4, RunEndsTyped, StartExecutedTyped
  <1>5. CASE ReadJobs \/ StartEnds \/ Reload \/ Crash \/ ClockMoves
    BY <1>5, ReadsTyped, StartEndsTyped, ReloadTyped, CrashTyped, ClockTyped
  <1>6. QED BY <1>1, <1>2, <1>3, <1>4, <1>5, Zenon DEF CronNext

\* The types hold: in particular a disabled job has no next run anywhere, although a
\* result is applied to a record that an edit has changed during the execution
\* (applyJobResult).
THEOREM CronTypes == CronSpec => []CronTypeOK
  <1>1. CTyped => CronTypeOK
    <2> SUFFICES ASSUME CTyped PROVE CronTypeOK
      OBVIOUS
    <2>1. edits + reloads + crashes + faults \in 0..(MaxEvents + 2)
      BY TimesAssumption DEF CTyped, Counted
    <2>2. QED BY <2>1 DEF CTyped, CronTypeOK, Ticks, Locks, Counted
  <1>2. QED BY <1>1, InitCTyped, NextCTyped, PTL DEF CronSpec

-----------------------------------------------------------------------------
\* Services that have not started do nothing, and no instant is taken before it is reached.
Order ==
  /\ started \subseteq 1..current
  /\ \A s \in Services \ started : ~armed[s] /\ tick[s] = NewTick
  /\ \A s \in Services : ~tick[s].running => tick[s] = NewTick
  /\ lock.for = "start" => lock.by \notin started /\ lock.by <= current
  /\ lock.for = "run" => lock.by \in started
  /\ \A j \in Jobs, n \in Times : claims[j][n] > 0 => n <= now

\* The fields of a tick; NewTick is the one with nothing in it.
LEMMA TickFields ==
  ASSUME tick \in [Services -> Ticks], NEW s \in Services
  PROVE  /\ tick[s].running \in BOOLEAN /\ tick[s].due \subseteq Jobs
         /\ tick[s].at \in Jobs \cup {NoJob} /\ tick[s].results \subseteq Jobs \X Outcomes
         /\ tick[s] = NewTick <=> ~tick[s].running /\ tick[s].due = {} /\ tick[s].at = NoJob /\ tick[s].results = {}
         /\ NewTick.running = FALSE /\ NewTick.due = {} /\ NewTick.at = NoJob /\ NewTick.results = {}
  <1>1. tick[s] \in Ticks
    OBVIOUS
  <1>2. PICK t \in Ticks : t = tick[s]
    BY <1>1
  <1>3. /\ t.running \in BOOLEAN /\ t.due \subseteq Jobs
        /\ t.at \in Jobs \cup {NoJob} /\ t.results \subseteq Jobs \X Outcomes
    BY DEF Ticks
  <1>4. t = [running |-> t.running, due |-> t.due, at |-> t.at, results |-> t.results]
    BY DEF Ticks
  <1>5. NewTick.running = FALSE /\ NewTick.due = {} /\ NewTick.at = NoJob /\ NewTick.results = {}
    BY DEF NewTick
  <1>6. ~t.running /\ t.due = {} /\ t.at = NoJob /\ t.results = {} => t = NewTick
    <2>1. SUFFICES ASSUME ~t.running, t.due = {}, t.at = NoJob, t.results = {} PROVE t = NewTick
      OBVIOUS
    <2>2. t.running = FALSE
      BY <1>3, <2>1
    <2>3. QED BY <1>4, <2>1, <2>2, Zenon DEF NewTick
  <1>7. QED BY <1>2, <1>3, <1>5, <1>6

\* A service with a timer or a tick has started.
LEMMA Acting ==
  ASSUME Order, NEW s \in Services, armed[s] \/ tick[s] # NewTick
  PROVE  s \in started
  BY DEF Order

\* The tick before and after each step of it.
LEMMA TickSteps ==
  ASSUME CTyped, Order, NEW s \in Services
  PROVE  /\ \A j \in Jobs : TickExecutes(s, j) =>
              /\ tick[s] # NewTick /\ j \in tick[s].due /\ tick[s].at = NoJob
              /\ \A r \in Services : r # s => tick'[r] = tick[r]
              /\ tick'[s].running = tick[s].running /\ tick'[s].due = tick[s].due \ {j}
              /\ tick'[s].at = j /\ tick'[s].results = tick[s].results
         /\ TickTimesOut(s) \/ (\E o \in Ends : TickExecuted(s, o)) =>
              /\ tick[s] # NewTick /\ tick[s].at # NoJob
              /\ \A r \in Services : r # s => tick'[r] = tick[r]
              /\ tick'[s].running = tick[s].running /\ tick'[s].due = tick[s].due
              /\ tick'[s].at = NoJob
              /\ \E o \in Outcomes : tick'[s].results = tick[s].results \cup {<<tick[s].at, o>>}
         /\ TickApplies(s) =>
              /\ tick[s] # NewTick /\ tick[s].due = {} /\ tick[s].at = NoJob
              /\ tick'[s] = NewTick /\ \A r \in Services : r # s => tick'[r] = tick[r]
         /\ TickFinds(s) =>
              /\ tick[s] = NewTick /\ tick'[s] # NewTick /\ tick'[s].at = NoJob /\ tick'[s].results = {}
              /\ \A r \in Services : r # s => tick'[r] = tick[r]
              /\ tick'[s].running
  <1>1. tick \in [Services -> Ticks]
    BY DEF CTyped
  <1>2. tick[s] \in Ticks
    BY <1>1
  <1>3. ASSUME NEW j \in Jobs, TickExecutes(s, j)
        PROVE  /\ tick[s] # NewTick /\ j \in tick[s].due /\ tick[s].at = NoJob
               /\ \A r \in Services : r # s => tick'[r] = tick[r]
               /\ tick'[s].running = tick[s].running /\ tick'[s].due = tick[s].due \ {j}
               /\ tick'[s].at = j /\ tick'[s].results = tick[s].results
    <2>1. tick' = [tick EXCEPT ![s].at = j, ![s].due = @ \ {j}] /\ j \in tick[s].due /\ tick[s].at = NoJob
      BY <1>3 DEF TickExecutes
    <2>2. QED BY <1>1, <1>2, <2>1, TickFields DEF Ticks
  <1>4. ASSUME TickTimesOut(s) \/ (\E o \in Ends : TickExecuted(s, o))
        PROVE  /\ tick[s] # NewTick /\ tick[s].at # NoJob
               /\ \A r \in Services : r # s => tick'[r] = tick[r]
               /\ tick'[s].running = tick[s].running /\ tick'[s].due = tick[s].due
               /\ tick'[s].at = NoJob
               /\ \E o \in Outcomes : tick'[s].results = tick[s].results \cup {<<tick[s].at, o>>}
    <2>1. PICK o \in Outcomes :
            /\ tick[s].at # NoJob
            /\ tick' = [tick EXCEPT ![s].at = NoJob, ![s].results = @ \cup {<<tick[s].at, o>>}]
      BY <1>4, EndsAssumption DEF TickTimesOut, TickExecuted, Outcomes
    <2>2. PICK R : R = tick[s].results \cup {<<tick[s].at, o>>}
      OBVIOUS
    <2>3. tick' = [tick EXCEPT ![s] = [tick[s] EXCEPT !.at = NoJob, !.results = R]]
      BY <1>1, <2>1, <2>2
    <2>4. tick[s] # NewTick
      BY <1>1, <2>1, TickFields
    <2>5. PICK t \in Ticks : t = tick[s]
      BY <1>2
    <2>6. tick'[s] = [t EXCEPT !.at = NoJob, !.results = R] /\ \A r \in Services : r # s => tick'[r] = tick[r]
      BY <1>1, <2>3, <2>5
    <2>7. /\ tick'[s].running = t.running /\ tick'[s].due = t.due
          /\ tick'[s].at = NoJob /\ tick'[s].results = R
      BY <2>6 DEF Ticks
    <2>8. QED BY <2>1, <2>2, <2>4, <2>5, <2>6, <2>7
  <1>5. ASSUME TickApplies(s)
        PROVE  /\ tick[s] # NewTick /\ tick[s].due = {} /\ tick[s].at = NoJob
               /\ tick'[s] = NewTick /\ \A r \in Services : r # s => tick'[r] = tick[r]
    BY <1>1, <1>5, TickFields DEF TickApplies
  <1>6. ASSUME TickFinds(s)
        PROVE  /\ tick[s] = NewTick /\ tick'[s] # NewTick /\ tick'[s].at = NoJob /\ tick'[s].results = {}
               /\ \A r \in Services : r # s => tick'[r] = tick[r]
               /\ tick'[s].running
    <2>1. PICK d : tick' = [tick EXCEPT ![s] = [NewTick EXCEPT !.running = TRUE, !.due = d]]
      BY <1>6 DEF TickFinds
    <2>2. tick'[s] = [running |-> TRUE, due |-> d, at |-> NoJob, results |-> {}]
      BY <1>1, <2>1 DEF NewTick
    <2>3. tick'[s].running = TRUE /\ tick'[s].at = NoJob /\ tick'[s].results = {}
      BY <2>2
    <2>4. tick[s] = NewTick
      BY <1>6 DEF TickFinds, Order
    <2>5. QED BY <1>1, <2>1, <2>3, <2>4, TickFields
  <1>7. QED BY <1>3, <1>4, <1>5, <1>6

\* Where timers are set.
LEMMA ArmedElsewhere ==
  ASSUME NEW s, NEW st, ArmTimer(s, st), armed \in [Services -> BOOLEAN], NEW r \in Services, r # s
  PROVE  armed'[r] = armed[r]
  BY DEF ArmTimer

\* A step of a service that has started, which takes no job.
LEMMA OrderKept ==
  ASSUME CTyped, Order, NEW s \in started,
         \A r \in Services \ {s} : armed'[r] = armed[r] /\ tick'[r] = tick[r],
         ~tick'[s].running => tick'[s] = NewTick,
         started' = started, current' = current, now' = now, claims' = claims,
         lock' \in {lock, Free} \/ (lock'.for = "run" /\ lock'.by = s)
  PROVE  Order'
  <1>1. /\ (lock'.for = "start" => lock'.by \notin started /\ lock'.by <= current)
        /\ (lock'.for = "run" => lock'.by \in started)
    BY FreeLock DEF Order
  <1>2. QED BY <1>1 DEF Order, CTyped, Counted

\* No service has started at first.
LEMMA InitOrder == CronInit => Order
  <1> SUFFICES ASSUME CronInit PROVE Order
    OBVIOUS
  <1>1. \A s \in Services : ~armed[s] /\ tick[s] = NewTick
    BY DEF CronInit
  <1>2. lock.for = "nothing" /\ started = {} /\ \A j \in Jobs, n \in Times : claims[j][n] = 0
    BY FreeLock DEF CronInit
  <1>3. QED BY <1>1, <1>2 DEF Order

\* Every step keeps the order.
LEMMA NextOrder ==
  ASSUME CTyped, Order, [CronNext]_cronVars
  PROVE  Order'
  <1>1. /\ tick \in [Services -> Ticks] /\ armed \in [Services -> BOOLEAN] /\ current \in Services /\ now \in Times
        /\ claims \in [Jobs -> [Times -> Nat]] /\ CTyped'
    BY NextCTyped DEF CTyped, Counted
  <1>2. CASE UNCHANGED cronVars
    BY <1>2 DEF Order, cronVars
  <1>3. ASSUME NEW s \in Services, TickFindsNothing(s)
        PROVE  Order'
    <2>1. s \in started /\ \A r \in Services \ {s} : armed'[r] = armed[r]
      BY <1>1, <1>3, Acting, ArmedElsewhere DEF TickFindsNothing
    <2>2. ~tick[s].running => tick[s] = NewTick
      BY DEF Order
    <2>3. QED BY <1>3, <2>1, <2>2, OrderKept DEF TickFindsNothing
  <1>4. ASSUME NEW s \in Services, TickFinds(s)
        PROVE  Order'
    <2>1. s \in started /\ armed' = [armed EXCEPT ![s] = FALSE]
      BY <1>4, Acting DEF TickFinds
    <2>2. \A r \in Services : r # s => armed'[r] = armed[r] /\ tick'[r] = tick[r]
      BY <1>1, <1>4, <2>1, TickSteps
    <2>3. tick'[s].running
      BY <1>4, TickSteps
    <2>4. started' = started /\ current' = current /\ now' = now /\ lock' = lock
      BY <1>4 DEF TickFinds, counters
    <2>5. \A j \in Jobs, n \in Times : claims'[j][n] > 0 => n <= now
      <3>1. PICK l \in Reloaded(s) :
              claims' = [j \in Jobs |-> IF j \in Due(l.st) THEN [claims[j] EXCEPT ![l.st[j].next] = @ + 1]
                                        ELSE claims[j]]
        BY <1>4 DEF TickFinds, Due
      <3>2. l.st \in Stores
        BY Loaded DEF CTyped, Loads
      <3>3. TAKE j \in Jobs, n \in Times
      <3>4. CASE j \in Due(l.st)
        <4>1. l.st[j].next \in Times /\ l.st[j].next <= now
          BY <1>1, <3>2, <3>4, MarkedStore
        <4>2. claims'[j] = [claims[j] EXCEPT ![l.st[j].next] = @ + 1]
          BY <3>1, <3>4
        <4>3. n # l.st[j].next => claims'[j][n] = claims[j][n]
          BY <1>1, <4>2
        <4>4. QED BY <4>1, <4>3 DEF Order
      <3>5. CASE j \notin Due(l.st)
        BY <3>1, <3>5 DEF Order
      <3>6. QED BY <3>4, <3>5
    <2>6. QED BY <2>1, <2>2, <2>3, <2>4, <2>5 DEF Order
  <1>5. ASSUME NEW s \in Services, TickTimesOut(s) \/ (\E o \in Ends : TickExecuted(s, o))
        PROVE  Order'
    <2>1. /\ s \in started /\ \A r \in Services : r # s => tick'[r] = tick[r]
          /\ tick'[s].running = tick[s].running
      BY <1>5, TickSteps, Acting
    <2>2. tick[s].running
      BY <1>5, TickSteps DEF Order
    <2>3. /\ armed' = armed /\ started' = started /\ current' = current /\ now' = now
          /\ claims' = claims /\ lock' = lock
      BY <1>5 DEF TickTimesOut, TickExecuted
    <2>4. QED BY <2>1, <2>2, <2>3, OrderKept
  <1>6. ASSUME NEW s \in Services, NEW j \in Jobs, TickExecutes(s, j)
        PROVE  Order'
    <2>1. /\ s \in started /\ \A r \in Services : r # s => tick'[r] = tick[r]
          /\ tick'[s].running = tick[s].running
      BY <1>6, TickSteps, Acting
    <2>2. tick[s].running
      BY <1>6, TickSteps DEF Order
    <2>3. /\ armed' = armed /\ started' = started /\ current' = current /\ now' = now
          /\ claims' = claims /\ lock' = lock
      BY <1>6 DEF TickExecutes
    <2>4. QED BY <2>1, <2>2, <2>3, OrderKept
  <1>7. ASSUME NEW s \in Services, TickApplies(s)
        PROVE  Order'
    <2>1. s \in started /\ tick'[s] = NewTick /\ \A r \in Services : r # s => tick'[r] = tick[r]
      BY <1>7, TickSteps, Acting
    <2>2. \A r \in Services \ {s} : armed'[r] = armed[r]
      BY <1>1, <1>7, ArmedElsewhere DEF TickApplies
    <2>3. QED BY <1>7, <2>1, <2>2, OrderKept DEF TickApplies
  <1>8. ASSUME NEW s \in Services, Start(s)
        PROVE  Order'
    <2>1. lock' = [by |-> s, for |-> "start", due |-> Missed, at |-> NoJob] /\ s <= current /\ s \notin started
      BY <1>8 DEF Start, Free, Cleared, Missed
    <2>2. lock'.by = s /\ lock'.for = "start"
      BY <2>1
    <2>3. QED BY <1>8, <2>1, <2>2 DEF Order, Start
  <1>10. ASSUME NEW st, Edit(st), Request
        PROVE  Order'
    <2>1. current \in started /\ \A r \in Services \ {current} : armed'[r] = armed[r]
      BY <1>1, <1>10, ArmedElsewhere DEF Edit, Request
    <2>2. ~tick[current].running => tick[current] = NewTick
      BY <1>1 DEF Order
    <2>3. QED BY <1>10, <2>1, <2>2, OrderKept DEF Edit
  <1>11. ASSUME NEW j \in Jobs, AddJob(j) \/ RemoveJob(j) \/ \E patch \in Patches : UpdateJob(j, patch)
         PROVE  Order'
    BY <1>10, <1>11 DEF AddJob, RemoveJob, UpdateJob
  <1>12. ASSUME NEW j \in Jobs, NEW forced, RunJob(j, forced)
         PROVE  Order'
    <2>1. current \in started
      BY <1>12 DEF RunJob, Request
    <2>2. lock'.for = "run" /\ lock'.by = current
      BY <1>12 DEF RunJob, Free
    <2>3. ~tick[current].running => tick[current] = NewTick
      BY <1>1 DEF Order
    <2>4. QED BY <1>12, <2>1, <2>2, <2>3, OrderKept DEF RunJob
  <1>13. ASSUME NEW o \in Ends, RunEnds(o)
         PROVE  Order'
    <2>1. lock.by \in started /\ started \subseteq Services
      BY <1>13 DEF RunEnds, Order, CTyped
    <2>2. \A r \in Services \ {lock.by} : armed'[r] = armed[r]
      BY <1>1, <1>13, ArmedElsewhere DEF RunEnds
    <2>3. ~tick[lock.by].running => tick[lock.by] = NewTick
      BY <2>1 DEF Order
    <2>4. QED BY <1>13, <2>1, <2>2, <2>3, OrderKept DEF RunEnds
  <1>14. ASSUME NEW j \in Jobs, StartExecutes(j)
         PROVE  Order'
    <2>1. lock'.by = lock.by /\ lock'.for = lock.for /\ lock.for = "start"
      BY <1>14 DEF StartExecutes, CTyped, Locks
    <2>2. QED BY <1>14, <2>1 DEF Order, StartExecutes
  <1>15. ASSUME NEW o \in Ends, StartExecuted(o)
         PROVE  Order'
    <2>1. lock'.by = lock.by /\ lock'.for = lock.for /\ lock.for = "start"
      BY <1>15 DEF StartExecuted, CTyped, Locks
    <2>2. QED BY <1>15, <2>1 DEF Order, StartExecuted
  <1>16. CASE ReadJobs
    BY <1>16 DEF ReadJobs, Order, counters
  <1>17. CASE StartEnds
    <2>1. /\ lock.for = "start" /\ started' = started \cup {lock.by} /\ lock' = Free
          /\ current' = current /\ tick' = tick /\ claims' = claims /\ now' = now
          /\ \A r \in Services \ {lock.by} : armed'[r] = armed[r]
      BY <1>1, <1>17, ArmedElsewhere DEF StartEnds
    <2>2. lock.by \in Services /\ lock.by <= current /\ lock'.for = "nothing"
      BY <2>1, FreeLock DEF Order, CTyped, LockHeld
    <2>3. lock.by \in 1..current
      BY <1>1, <2>2 DEF Services
    <2>4. QED BY <2>1, <2>2, <2>3 DEF Order
  <1>18. CASE Reload
    <2>1. /\ current' = current + 1 /\ armed' = [armed EXCEPT ![current] = FALSE]
          /\ tick' = tick /\ claims' = claims /\ now' = now /\ lock' = lock
          /\ started' = started \/ (lock.by # current /\ started' = started \cup {current})
      BY <1>18 DEF Reload
    <2>2. started' \subseteq 1..(current + 1) /\ (lock.for = "start" => lock.by <= current + 1)
      BY <1>1, <2>1 DEF Order, Services, CTyped, LockHeld
    <2>3. \A s \in Services \ started' : ~armed'[s]
      BY <1>1, <2>1 DEF Order
    <2>4. /\ lock.for = "start" => lock.by \notin started'
          /\ lock.for = "run" => lock.by \in started'
      BY <2>1 DEF Order
    <2>5. QED BY <2>1, <2>2, <2>3, <2>4 DEF Order
  <1>19. CASE Crash
    <2>1. /\ current' = current + 1 /\ claims' = claims /\ now' = now /\ lock' = Free
          /\ started' = started \cup 1..current /\ \A s \in Services : ~armed'[s] /\ tick'[s] = NewTick
      BY <1>19 DEF Crash
    <2>2. started' \subseteq 1..(current + 1) /\ Free.for = "nothing"
      BY <1>1, <2>1, FreeLock DEF Order, Services
    <2>3. QED BY <2>1, <2>2 DEF Order
  <1>20. CASE ClockMoves
    <2>1. \A j \in Jobs, n \in Times : claims[j][n] > 0 => n <= now + 1
      BY <1>1 DEF Order, Times
    <2>2. QED BY <1>20, <2>1 DEF Order, ClockMoves, counters
  <1>21. ASSUME NEW s \in Services,
               \/ TickFindsNothing(s) \/ TickFinds(s) \/ TickTimesOut(s) \/ TickApplies(s) \/ Start(s)
               \/ \E j \in Jobs : TickExecutes(s, j)
               \/ \E o \in Ends : TickExecuted(s, o)
         PROVE  Order'
    BY <1>3, <1>4, <1>5, <1>6, <1>7, <1>8, <1>21
  <1>22. ASSUME NEW j \in Jobs,
               \/ AddJob(j) \/ RemoveJob(j) \/ StartExecutes(j)
               \/ \E patch \in Patches : UpdateJob(j, patch)
               \/ \E forced \in BOOLEAN : RunJob(j, forced)
         PROVE  Order'
    BY <1>11, <1>12, <1>14, <1>22
  <1>23. QED BY <1>2, <1>13, <1>15, <1>16, <1>17, <1>18, <1>19, <1>20, <1>21, <1>22, Zenon DEF CronNext

-----------------------------------------------------------------------------
(* While no reload has left two services behind.                             *)

InTick(s, j)  == j \in tick[s].due \/ tick[s].at = j \/ \E o \in Outcomes : <<j, o>> \in tick[s].results
Claimed(j, r) == r # NoJob /\ r.next \in Times /\ claims[j][r.next] > 0
Late(r)       == r = NoJob \/ r.next = NoTime \/ r.next > now
Agree(a, b)   == \A j \in Jobs : (a[j] = NoJob <=> b[j] = NoJob) /\ (b[j] # NoJob => a[j].next = b[j].next)

\* Only the present service acts, the earlier ones having ended in a crash.  It never
\* holds a recurring job at an instant that was taken already, unless that is in its
\* tick, and its document agrees with its copy.
OneService ==
  /\ \A s \in Services : s # current => ~armed[s] /\ tick[s] = NewTick
  /\ lock # Free => lock.by = current
  /\ 1..(current - 1) \subseteq started
  /\ current \in started =>
       /\ \A j \in Jobs \ OneShots : InTick(current, j) \/ ~Claimed(j, mem[current][j])
       /\ dirty[current] \/ Agree(mem[current], disk)
  /\ \A j \in Jobs \ OneShots, n \in Times : claims[j][n] <= 1

\* What is later than now has not been taken.
LEMMA LateUnclaimed ==
  ASSUME CTyped, Order, NEW j \in Jobs, NEW r, Late(r)
  PROVE  ~Claimed(j, r)
  <1> SUFFICES ASSUME Claimed(j, r) PROVE FALSE
    OBVIOUS
  <1>1. r.next \in Times /\ claims[j][r.next] > 0 /\ r.next <= now /\ now \in Times
    BY DEF Claimed, Order, CTyped
  <1>2. r # NoJob /\ r.next # NoTime /\ ~(r.next > now)
    BY <1>1, ClockFacts, TimesAssumption DEF Claimed, Times
  <1>3. QED BY <1>2 DEF Late

\* A load: what is found was not taken, if the copy of the present service was not.
LEMMA LoadUnclaimed ==
  ASSUME CTyped, OneService, current \in started, NEW l, l \in Reloaded(current) \/ l = InMemory(current)
  PROVE  /\ l \in Loads /\ l.st \in Stores
         /\ \A j \in Jobs \ OneShots : InTick(current, j) \/ ~Claimed(j, l.st[j])
         /\ Agree(l.st, mem[current]) /\ (dirty[current] \/ Agree(l.st, disk))
         /\ (l.dirty \/ Agree(l.st, l.disk))
         /\ ~dirty[current] => l.disk = disk
  <1>1. /\ current \in Services /\ mem[current] \in Stores /\ dirty[current] \in BOOLEAN
    BY DEF CTyped, Counted
  <1>2. /\ l \in Loads
        /\ dirty[current] => /\ l.st = mem[current]
                             /\ l.dirty \/ l.disk = l.st
                             /\ l.disk \in {disk, mem[current]}
        /\ ~dirty[current] => l.disk = disk /\ l.st \in {disk, mem[current]}
    BY <1>1, Loaded DEF CTyped
  <1>3. dirty[current] \/ Agree(mem[current], disk)
    BY DEF OneService
  <1>4. \A a : Agree(a, a)
    BY DEF Agree
  <1>5. \A a, b : Agree(a, b) => Agree(b, a)
    BY DEF Agree
  <1>6. Agree(l.st, mem[current]) /\ (dirty[current] \/ Agree(l.st, disk)) /\ (l.dirty \/ Agree(l.st, l.disk))
    <2>1. CASE dirty[current]
      <3>1. l.st = mem[current] /\ (l.dirty \/ l.disk = l.st)
        BY <1>2, <2>1, Zenon
      <3>2. Agree(l.st, mem[current]) /\ Agree(l.st, l.st)
        BY <1>4, <3>1, Zenon
      <3>3. l.dirty \/ Agree(l.st, l.disk)
        BY <3>1, <3>2, Zenon
      <3>4. QED BY <2>1, <3>2, <3>3
    <2>2. CASE ~dirty[current]
      BY <1>2, <1>3, <1>4, <1>5, <2>2
    <2>3. QED BY <2>1, <2>2
  <1>7. \A j \in Jobs \ OneShots : InTick(current, j) \/ ~Claimed(j, l.st[j])
    BY <1>6 DEF OneService, Claimed, Agree
  <1>8. l.st \in Stores
    BY <1>2 DEF Loads
  <1>9. QED BY <1>2, <1>6, <1>7, <1>8

\* What a save of the present service leaves: its document agrees with its copy, or the
\* copy is dirty.
LEMMA WrittenAgrees ==
  ASSUME CTyped, OneService, current \in started, NEW l, l \in Reloaded(current) \/ l = InMemory(current),
         NEW st \in Stores, Written(current, l, st)
  PROVE  /\ mem'[current] = st /\ (dirty'[current] \/ Agree(st, disk'))
         /\ ~dirty[current] => disk' \in {disk, st}
  <1>1. l \in Loads /\ (l.dirty \/ Agree(l.st, l.disk)) /\ (~dirty[current] => l.disk = disk)
    BY LoadUnclaimed
  <1>2. current \in Services /\ mem \in [Services -> Stores] /\ dirty \in [Services -> BOOLEAN]
    BY DEF CTyped, Counted
  <1>3. PICK b \in BOOLEAN : /\ dirty' = [dirty EXCEPT ![current] = b]
                             /\ b => disk' = l.disk
                             /\ ~b => disk' = st \/ (disk' = l.disk /\ st = l.st /\ ~l.dirty)
    BY DEF Written
  <1>4. Agree(st, st)
    BY DEF Agree
  <1>5. mem'[current] = st
    BY <1>2 DEF Written
  <1>6. CASE b
    <2>1. b = TRUE
      BY <1>6
    <2>2. dirty' = [dirty EXCEPT ![current] = TRUE] /\ disk' = l.disk
      BY <1>3, <1>6, <2>1, Zenon
    <2>3. dirty'[current] = TRUE
      BY <1>2, <2>2
    <2>4. ~dirty[current] => disk' \in {disk, st}
      BY <1>1, <2>2, Zenon
    <2>5. QED BY <1>5, <2>3, <2>4, Zenon
  <1>7. CASE ~b
    <2>1. CASE disk' = st
      BY <1>4, <1>5, <2>1, Zenon
    <2>2. CASE disk' = l.disk /\ st = l.st /\ ~l.dirty
      <3>1. Agree(st, disk') /\ (~dirty[current] => disk' = disk)
        BY <1>1, <2>2, Zenon
      <3>2. QED BY <1>5, <3>1, Zenon
    <2>3. QED BY <1>3, <1>7, <2>1, <2>2, Zenon
  <1>8. QED BY <1>6, <1>7

\* A step of the present service that loads and saves, and leaves each recurring job where
\* it was found or moves it on.
LEMMA StoreStepOne ==
  ASSUME CTyped, Order, OneService, current \in started,
         NEW l, l \in Reloaded(current) \/ l = InMemory(current),
         NEW st \in Stores, Written(current, l, st),
         current' = current, started' = started, claims' = claims, lock' = Free,
         \A r \in Services : r # current => armed'[r] = armed[r] /\ tick'[r] = tick[r],
         \A j \in Jobs \ OneShots :
           \/ InTick(current, j)' \/ Late(st[j])
           \/ ~InTick(current, j) /\ l.st[j] # NoJob /\ st[j].next = l.st[j].next
  PROVE  OneService'
  <1>1. mem'[current] = st /\ (dirty'[current] \/ Agree(st, disk'))
    BY WrittenAgrees
  <1>2. \A j \in Jobs \ OneShots : InTick(current, j)' \/ ~Claimed(j, st[j])
    BY LateUnclaimed, LoadUnclaimed DEF Claimed
  <1>3. \A j \in Jobs \ OneShots : InTick(current, j)' \/ ~Claimed(j, mem[current][j])'
    BY <1>1, <1>2 DEF Claimed
  <1>4. (dirty[current] \/ Agree(mem[current], disk))'
    BY <1>1
  <1>5. \A s \in Services : s # current => ~armed'[s] /\ tick'[s] = NewTick
    BY DEF OneService
  <1>6. \A j \in Jobs \ OneShots, n \in Times : claims'[j][n] <= 1
    BY DEF OneService
  <1>7. \A j \in Jobs \ OneShots : (InTick(current, j) \/ ~Claimed(j, mem[current][j]))'
    BY <1>3
  <1>8. QED BY <1>4, <1>5, <1>6, <1>7 DEF OneService

\* A step that marks a job in the copy of the present service, or does less.
LEMMA MarkStepOne ==
  ASSUME CTyped, OneService, NEW st \in Stores, NEW s \in Services, Agree(st, mem[s]),
         mem' = [mem EXCEPT ![s] = st], disk' = disk, dirty' = dirty,
         current' = current, started' = started, claims' = claims, armed' = armed,
         lock' # Free => lock' = lock \/ lock'.by = current,
         \A r \in Services : r # current => tick'[r] = tick[r],
         \A j \in Jobs \ OneShots : InTick(current, j) => InTick(current, j)'
  PROVE  OneService'
  <1>1. mem \in [Services -> Stores] /\ current \in Services
    BY DEF CTyped, Counted
  <1>2. Agree(mem'[current], mem[current])
    BY <1>1 DEF Agree
  <1>3. ASSUME current \in started
        PROVE  /\ \A j \in Jobs \ OneShots : (InTick(current, j) \/ ~Claimed(j, mem[current][j]))'
               /\ (dirty[current] \/ Agree(mem[current], disk))'
    <2>1. \A j \in Jobs \ OneShots : InTick(current, j)' \/ ~Claimed(j, mem'[current][j])
      BY <1>2, <1>3 DEF OneService, Agree, Claimed
    <2>2. \A j \in Jobs \ OneShots : InTick(current, j)' \/ ~Claimed(j, mem[current][j])'
      BY <2>1 DEF Claimed
    <2>3. dirty[current] \/ Agree(mem'[current], disk)
      BY <1>2, <1>3 DEF OneService, Agree
    <2>4. QED BY <2>2, <2>3
  <1>4. /\ \A r \in Services : r # current => ~armed'[r] /\ tick'[r] = NewTick
        /\ \A j \in Jobs \ OneShots, n \in Times : claims'[j][n] <= 1
        /\ lock' # Free => lock'.by = current
    BY DEF OneService
  <1>5. QED BY <1>3, <1>4 DEF OneService

\* Which next run a normalization leaves: that of the record, or a later one.
LEMMA LateWhenRecomputed ==
  ASSUME NEW st \in Stores, now \in Times, NEW j \in Jobs \ OneShots
  PROVE  /\ Late(RecomputeNextRuns(st)[j])
         /\ \/ Late(RecomputeForMaintenance(st)[j])
            \/ st[j] # NoJob /\ RecomputeForMaintenance(st)[j].next = st[j].next
         /\ Late(st[j]) => Late(RecomputeForMaintenance(st)[j])
  <1>1. /\ RecomputeNextRuns(st)[j] = Normalized(j, st[j], TRUE)
        /\ RecomputeForMaintenance(st)[j] = Normalized(j, st[j], FALSE)
    BY Recomputed
  <1>2. CASE st[j] = NoJob
    BY <1>1, <1>2 DEF Normalized, Late
  <1>3. CASE st[j] # NoJob
    <2>1. PICK r \in Records : r = st[j]
      BY <1>3 DEF Stores
    <2>2. r.next \in Instants /\ r.enabled \in BOOLEAN /\ now \in Int /\ Instants \subseteq Int
      BY <2>1, RecordFields, ClockFacts
    <2>3. PICK c \in {NoTime, now + 1} : c = ComputeNext(j, r)
      BY <2>2, ComputedNext
    <2>4. PICK N \in Records : /\ N = Normalized(j, r, TRUE)
                               /\ N.next = IF r.next = NoTime \/ r.next <= now THEN c ELSE r.next
      BY <2>3, NormalizedRecord
    <2>5. PICK M \in Records : M = Normalized(j, r, FALSE) /\ M.next = IF r.next = NoTime THEN c ELSE r.next
      BY <2>3, NormalizedRecord
    <2>6. /\ N.next = NoTime \/ N.next > now
          /\ M.next = NoTime \/ M.next > now \/ M.next = r.next
      <3>1. now + 1 > now
        BY <2>2
      <3>2. c = NoTime \/ c > now
        BY <2>3, <3>1
      <3>3. r.next <= now \/ r.next > now
        <4>1. r.next \in Int
          BY <2>2
        <4>2. QED BY <2>2, <4>1
      <3>4. QED BY <2>4, <2>5, <3>2, <3>3
    <2>7. Late(N) /\ (Late(M) \/ M.next = r.next)
      BY <2>6 DEF Late
    <2>8. Late(r) => Late(M)
      BY <1>3, <2>1, <2>6 DEF Late
    <2>9. QED BY <1>1, <1>3, <2>1, <2>4, <2>5, <2>7, <2>8
  <1>4. QED BY <1>2, <1>3

\* No service has started at first, and nothing was taken.
LEMMA InitOne == CronInit => OneService
  <1> SUFFICES ASSUME CronInit PROVE OneService
    OBVIOUS
  <1>1. \A s \in Services : ~armed[s] /\ tick[s] = NewTick
    BY DEF CronInit
  <1>2. current \notin started /\ lock = Free /\ \A j \in Jobs, n \in Times : claims[j][n] = 0
    BY DEF CronInit
  <1>3. 1..(current - 1) \subseteq started
    BY DEF CronInit
  <1>4. QED BY <1>1, <1>2, <1>3 DEF OneService

\* Every step keeps it, but a reload.
LEMMA NextOne ==
  ASSUME CTyped, Order, OneService, reloads = 0, [CronNext]_cronVars, reloads' = 0
  PROVE  OneService'
  <1>1. /\ tick \in [Services -> Ticks] /\ armed \in [Services -> BOOLEAN] /\ current \in Services /\ now \in Times
        /\ claims \in [Jobs -> [Times -> Nat]] /\ mem \in [Services -> Stores] /\ CTyped' /\ Order'
    BY NextCTyped, NextOrder DEF CTyped, Counted
  <1>2. CASE UNCHANGED cronVars
    BY <1>2 DEF OneService, InTick, Claimed, cronVars
  \* only the present service acts
  <1>3. ASSUME NEW s \in Services, armed[s] \/ tick[s] # NewTick
        PROVE  s = current /\ s \in started
    BY <1>3, Acting DEF OneService
  \* a step that leaves the tick and the claims alone
  <1>4. ASSUME NEW s \in Services, TickFindsNothing(s)
        PROVE  OneService'
    <2>1. s = current /\ s \in started
      BY <1>4, <1>3 DEF TickFindsNothing
    <2>2. PICK l \in Reloaded(s) : /\ PersistIfChanged(s, l, RecomputeForMaintenance(l.st))
                                   /\ ArmTimer(s, RecomputeForMaintenance(l.st))
      BY <1>4 DEF TickFindsNothing
    <2>3. l \in Loads /\ l.st \in Stores
      BY <2>1, LoadUnclaimed
    <2>4. PICK st \in Stores : st = RecomputeForMaintenance(l.st)
      BY <1>1, <2>3, Recomputed
    <2>5. Written(s, l, st)
      BY <2>2, <2>3, <2>4, Saved DEF CTyped, Counted
    <2>6. \A r \in Services : r # current => armed'[r] = armed[r] /\ tick'[r] = tick[r]
      BY <1>1, <1>4, <2>1, <2>2, ArmedElsewhere DEF TickFindsNothing
    <2>7. \A j \in Jobs : ~InTick(current, j)
      BY <1>1, <1>4, <2>1, TickFields, JobsAssumption DEF InTick, TickFindsNothing, Order
    <2>8. \A j \in Jobs \ OneShots :
           \/ Late(st[j])
           \/ ~InTick(current, j) /\ l.st[j] # NoJob /\ st[j].next = l.st[j].next
      BY <1>1, <2>3, <2>4, <2>7, LateWhenRecomputed
    <2>9. current' = current /\ started' = started /\ claims' = claims /\ lock' = Free
      BY <1>4 DEF TickFindsNothing, LockIsFree
    <2>10. QED BY <2>1, <2>5, <2>6, <2>8, <2>9, StoreStepOne
  <1>5. ASSUME NEW s \in Services, TickFinds(s)
        PROVE  OneService'
    <2>1. s = current /\ s \in started /\ current \in started
      BY <1>5, <1>3 DEF TickFinds
    <2>2. PICK l \in Reloaded(s) :
            /\ Persist(s, l, Marked(l.st))
            /\ tick' = [tick EXCEPT ![s] = [NewTick EXCEPT !.running = TRUE, !.due = Due(l.st)]]
            /\ claims' = [j \in Jobs |-> IF j \in Due(l.st) THEN [claims[j] EXCEPT ![l.st[j].next] = @ + 1]
                                        ELSE claims[j]]
      BY <1>5 DEF TickFinds, SaveMarks, Due, Marked
    <2>3. l \in Loads /\ l.st \in Stores
      BY <2>1, LoadUnclaimed
    <2>4. PICK st \in Stores : st = Marked(l.st)
      BY <1>1, <2>3, MarkedStore
    <2>5. Written(s, l, st)
      BY <2>2, <2>3, <2>4, Saved DEF CTyped, Counted
    <2>6. mem'[current] = st /\ (dirty'[current] \/ Agree(st, disk'))
      BY <2>1, <2>5, WrittenAgrees
    <2>7. /\ tick'[s].due = Due(l.st)
          /\ \A r \in Services : r # current => armed'[r] = armed[r] /\ tick'[r] = tick[r]
      BY <1>1, <1>5, <2>1, <2>2 DEF NewTick, TickFinds
    <2>8. \A j \in Jobs : ~InTick(current, j)
      BY <1>1, <1>5, <2>1, TickFields, TickSteps, JobsAssumption DEF InTick
    <2>9. \A j \in Jobs \ OneShots : ~Claimed(j, l.st[j])
      BY <2>1, <2>8, LoadUnclaimed
    <2>10. ASSUME NEW j \in Jobs \ OneShots, NEW n \in Times
           PROVE  claims'[j][n] <= 1
      <3>1. CASE j \in Due(l.st)
        <4>1. l.st[j] # NoJob /\ l.st[j].next \in Times
          BY <3>1 DEF Due, Runnable
        <4>2. claims[j][l.st[j].next] = 0
          BY <1>1, <2>9, <4>1 DEF Claimed
        <4>3. claims'[j] = [claims[j] EXCEPT ![l.st[j].next] = @ + 1]
          BY <2>2, <3>1
        <4>4. QED BY <1>1, <4>1, <4>2, <4>3 DEF OneService
      <3>2. CASE j \notin Due(l.st)
        BY <2>2, <3>2 DEF OneService
      <3>3. QED BY <3>1, <3>2
    <2>11. ASSUME NEW j \in Jobs \ OneShots
           PROVE  InTick(current, j)' \/ ~Claimed(j, mem[current][j])'
      <3>1. CASE j \in Due(l.st)
        <4>1. j \in tick'[current].due
          BY <2>1, <2>7, <3>1
        <4>2. current' = current
          BY <1>5 DEF TickFinds
        <4>3. QED BY <4>1, <4>2 DEF InTick
      <3>2. CASE j \notin Due(l.st)
        <4>1. st[j] = l.st[j]
          BY <1>1, <2>3, <2>4, <3>2, MarkedStore
        <4>2. mem'[current][j] = l.st[j] /\ claims'[j] = claims[j] /\ current' = current
          BY <1>5, <2>2, <2>6, <3>2, <4>1 DEF TickFinds
        <4>3. QED BY <2>9, <4>2 DEF Claimed
      <3>3. QED BY <3>1, <3>2
    <2>12. (dirty[current] \/ Agree(mem[current], disk))'
      BY <1>5, <2>6 DEF TickFinds
    <2>13. current' = current /\ lock' = Free
      BY <1>5 DEF TickFinds, LockIsFree
    <2>14. \A j \in Jobs \ OneShots : (InTick(current, j) \/ ~Claimed(j, mem[current][j]))'
      BY <2>11
    <2>15. \A r \in Services : r # current => ~armed'[r] /\ tick'[r] = NewTick
      BY <2>7 DEF OneService
    <2>16. (1..(current - 1) \subseteq started)'
      BY <1>5 DEF TickFinds, OneService
    <2>17. QED BY <2>10, <2>12, <2>13, <2>14, <2>15, <2>16 DEF OneService
  <1>6. ASSUME NEW s \in Services, TickTimesOut(s) \/ (\E o \in Ends : TickExecuted(s, o))
        PROVE  OneService'
    <2>1. s = current
      BY <1>6, <1>3, TickSteps
    <2>2. /\ armed' = armed /\ started' = started /\ current' = current /\ disk' = disk /\ mem' = mem
          /\ dirty' = dirty /\ claims' = claims /\ lock' = lock
      BY <1>6 DEF TickTimesOut, TickExecuted
    <2>3. PICK o \in Outcomes :
            /\ tick'[s].due = tick[s].due /\ tick'[s].results = tick[s].results \cup {<<tick[s].at, o>>}
            /\ \A r \in Services : r # s => tick'[r] = tick[r]
      BY <1>6, TickSteps
    <2>4. \A j \in Jobs : InTick(s, j) => j \in tick'[s].due \/ \E x \in Outcomes : <<j, x>> \in tick'[s].results
      BY <2>3 DEF InTick
    <2>5. \A j \in Jobs \ OneShots : InTick(current, j) => InTick(current, j)'
      BY <2>1, <2>2, <2>4 DEF InTick
    <2>6. PICK st \in Stores : st = mem[s]
      BY <1>1
    <2>7. mem' = [mem EXCEPT ![s] = st] /\ Agree(st, mem[s])
      BY <1>1, <2>2, <2>6 DEF Agree
    <2>8. QED BY <2>1, <2>2, <2>3, <2>5, <2>7, MarkStepOne
  <1>7. ASSUME NEW s \in Services, NEW j \in Jobs, TickExecutes(s, j)
        PROVE  OneService'
    <2>1. s = current
      BY <1>7, <1>3, TickSteps
    <2>2. /\ armed' = armed /\ started' = started /\ current' = current /\ disk' = disk
          /\ dirty' = dirty /\ claims' = claims /\ lock' = lock
      BY <1>7 DEF TickExecutes
    <2>3. /\ tick'[s].due = tick[s].due \ {j} /\ tick[s].at = NoJob /\ tick'[s].at = j
          /\ tick'[s].results = tick[s].results
          /\ \A r \in Services : r # s => tick'[r] = tick[r]
      BY <1>7, TickSteps
    <2>4. \A i \in Jobs \ OneShots : InTick(current, i) => InTick(current, i)'
      BY <2>1, <2>2, <2>3, JobsAssumption DEF InTick
    <2>5. PICK st \in Stores : Agree(st, mem[s]) /\ mem' = [mem EXCEPT ![s] = st]
      <3>1. CASE mem[s][j] = NoJob
        <4>1. PICK st \in Stores : st = mem[s]
          BY <1>1
        <4>2. mem' = [mem EXCEPT ![s] = st] /\ Agree(st, mem[s])
          BY <1>1, <1>7, <3>1, <4>1 DEF Agree, TickExecutes
        <4>3. QED BY <4>2
      <3>2. CASE mem[s][j] # NoJob
        <4>1. PICK old \in Records : old = mem[s][j]
          BY <1>1, <3>2 DEF Stores
        <4>2. PICK r \in Records : r = [mem[s][j] EXCEPT !.runningAt = now] /\ r.next = mem[s][j].next
          BY <1>1, <4>1, MarkedRecord
        <4>3. PICK st \in Stores : st = [mem[s] EXCEPT ![j] = r]
          BY <1>1 DEF Stores
        <4>4. mem' = [mem EXCEPT ![s] = st]
          BY <1>7, <3>2, <4>2, <4>3 DEF TickExecutes
        <4>5. mem[s] \in Stores
          BY <1>1
        <4>6. Agree(st, mem[s])
          BY <3>2, <4>2, <4>3, <4>5, NoRecordAssumption DEF Agree, Stores
        <4>7. QED BY <4>4, <4>6
      <3>3. QED BY <3>1, <3>2
    <2>6. QED BY <2>1, <2>2, <2>3, <2>4, <2>5, MarkStepOne
  <1>8. ASSUME NEW s \in Services, TickApplies(s)
        PROVE  OneService'
    <2>1. s = current /\ s \in started
      BY <1>8, <1>3, TickSteps
    <2>2. PICK l \in Reloaded(s) : /\ Persist(s, l, RecomputeForMaintenance(WithResults(s, l.st)))
                                   /\ ArmTimer(s, RecomputeForMaintenance(WithResults(s, l.st)))
      BY <1>8 DEF TickApplies, AfterTick
    <2>3. l \in Loads /\ l.st \in Stores
      BY <2>1, LoadUnclaimed
    <2>4. PICK a \in Stores : a = WithResults(s, l.st)
      BY <1>1, <2>3, AppliedStore
    <2>5. PICK st \in Stores : st = RecomputeForMaintenance(a)
      BY <1>1, Recomputed
    <2>6. Written(s, l, st)
      BY <2>2, <2>3, <2>4, <2>5, Saved DEF CTyped, Counted
    <2>7. \A r \in Services : r # current => armed'[r] = armed[r] /\ tick'[r] = tick[r]
      BY <1>1, <1>8, <2>1, <2>2, ArmedElsewhere, TickSteps
    <2>8. tick[s].due = {} /\ tick[s].at = NoJob
      BY <1>8, TickSteps
    <2>9. ASSUME NEW j \in Jobs \ OneShots
          PROVE  Late(st[j]) \/ (~InTick(current, j) /\ l.st[j] # NoJob /\ st[j].next = l.st[j].next)
      <3>1. CASE \E o \in Outcomes : <<j, o>> \in tick[s].results
        <4>1. PICK o \in Outcomes : a[j] = ApplyJobResult(j, l.st[j], o)
          BY <1>1, <2>3, <2>4, <3>1, AppliedStore
        <4>2. l.st[j] = NoJob => a[j] = NoJob
          BY <4>1 DEF ApplyJobResult
        <4>3. l.st[j] # NoJob => l.st[j] \in Records
          BY <2>3 DEF Stores
        <4>4. Late(a[j])
          BY <1>1, <4>1, <4>2, <4>3, AppliedRecord DEF Late
        <4>5. QED BY <1>1, <2>5, <4>4, LateWhenRecomputed
      <3>2. CASE ~\E o \in Outcomes : <<j, o>> \in tick[s].results
        <4>1. a[j] = l.st[j]
          BY <1>1, <2>3, <2>4, <3>2, AppliedStore
        <4>2. ~InTick(current, j)
          BY <2>1, <2>8, <3>2, JobsAssumption DEF InTick
        <4>3. QED BY <1>1, <2>5, <4>1, <4>2, LateWhenRecomputed
      <3>3. QED BY <3>1, <3>2
    <2>10. current' = current /\ started' = started /\ claims' = claims /\ lock' = Free
      BY <1>8 DEF TickApplies, LockIsFree
    <2>11. QED BY <2>1, <2>6, <2>7, <2>9, <2>10, StoreStepOne
  <1>9. ASSUME NEW s \in Services, Start(s)
        PROVE  OneService'
    <2>1. lock' = [by |-> s, for |-> "start", due |-> Missed, at |-> NoJob] /\ s <= current /\ s \notin started
      BY <1>9 DEF Start, Free, Cleared, Missed
    <2>2. s = current
      BY <1>1, <2>1 DEF OneService, Services
    <2>3. lock'.by = current
      BY <2>1, <2>2
    <2>4. QED BY <1>9, <2>1, <2>2, <2>3 DEF OneService, Start
  \* an edit of the copy of the present service
  <1>11. ASSUME NEW st \in Stores, Edit(st), Request,
               \A j \in Jobs \ OneShots :
                 Late(st[j]) \/ (mem[current][j] # NoJob /\ st[j].next = mem[current][j].next)
        PROVE  OneService'
    <2>1. current \in started /\ \A r \in Services : r # current => armed'[r] = armed[r] /\ tick'[r] = tick[r]
      BY <1>1, <1>11, ArmedElsewhere DEF Edit, Request
    <2>2. Written(current, InMemory(current), st)
      BY <1>11, Edited DEF Request
    <2>3. PICK l : l = InMemory(current)
      OBVIOUS
    <2>4. l.st = mem[current]
      BY <2>3 DEF InMemory
    <2>5. /\ current' = current /\ started' = started /\ claims' = claims /\ lock' = Free /\ tick' = tick
      BY <1>11 DEF Edit, Request, LockIsFree
    <2>6. \A j \in Jobs : InTick(current, j) => InTick(current, j)'
      BY <2>5 DEF InTick
    <2>7. \A j \in Jobs \ OneShots :
            \/ InTick(current, j)' \/ Late(st[j])
            \/ ~InTick(current, j) /\ l.st[j] # NoJob /\ st[j].next = l.st[j].next
      BY <1>11, <2>4, <2>6
    <2>8. QED BY <2>1, <2>2, <2>3, <2>5, <2>7, StoreStepOne
  <1>12. ASSUME NEW j \in Jobs, AddJob(j)
         PROVE  OneService'
    <2>1. PICK st \in Stores : st = [mem[current] EXCEPT ![j] = NewJob(j)]
      BY <1>1, JobMade DEF Stores
    <2>2. PICK n \in Stores : n = RecomputeNextRuns(st)
      BY <1>1, Recomputed
    <2>3. Edit(n) /\ Request
      BY <1>12, <2>1, <2>2 DEF AddJob
    <2>4. \A i \in Jobs \ OneShots : Late(n[i])
      BY <1>1, <2>2, LateWhenRecomputed
    <2>5. QED BY <1>11, <2>3, <2>4
  <1>13. ASSUME NEW j \in Jobs, NEW patch \in Patches, UpdateJob(j, patch)
         PROVE  OneService'
    <2>1. mem[current] \in Stores /\ mem[current][j] # NoJob
      BY <1>1, <1>13 DEF UpdateJob
    <2>2. PICK r \in Records : r = Patched(j, mem[current][j], patch)
                               /\ (j \notin OneShots => r.next \in {mem[current][j].next, NoTime, now + 1})
      BY <1>1, <2>1, PatchedRecord DEF Stores
    <2>3. PICK st \in Stores : st = [mem[current] EXCEPT ![j] = r]
      BY <2>1 DEF Stores
    <2>4. Edit(st) /\ Request
      BY <1>13, <2>2, <2>3 DEF UpdateJob, Patched
    <2>5. now + 1 > now
      BY <1>1, ClockFacts
    <2>6. \A i \in Jobs \ OneShots :
             Late(st[i]) \/ (mem[current][i] # NoJob /\ st[i].next = mem[current][i].next)
      BY <2>1, <2>2, <2>3, <2>5 DEF Late, Stores
    <2>7. QED BY <1>11, <2>4, <2>6
  <1>14. ASSUME NEW j \in Jobs, RemoveJob(j)
         PROVE  OneService'
    <2>1. mem[current] \in Stores
      BY <1>1
    <2>2. PICK st \in Stores : st = [mem[current] EXCEPT ![j] = NoJob]
      BY <2>1 DEF Stores
    <2>3. \A i \in Jobs \ OneShots :
             Late(st[i]) \/ (mem[current][i] # NoJob /\ st[i].next = mem[current][i].next)
      BY <2>1, <2>2 DEF Late, Stores
    <2>4. QED BY <1>11, <1>14, <2>2, <2>3 DEF RemoveJob
  <1>15. ASSUME NEW j \in Jobs, NEW forced, RunJob(j, forced)
         PROVE  OneService'
    <2>1. mem[current] \in Stores /\ mem[current][j] # NoJob /\ current \in started
      BY <1>1, <1>15 DEF RunJob, Request
    <2>2. PICK old \in Records : old = mem[current][j]
      BY <2>1 DEF Stores
    <2>3. PICK r \in Records : r = [mem[current][j] EXCEPT !.runningAt = now] /\ r.next = mem[current][j].next
      BY <1>1, <2>2, MarkedRecord
    <2>4. PICK st \in Stores : st = [mem[current] EXCEPT ![j] = r]
      BY <2>1 DEF Stores
    <2>5. mem' = [mem EXCEPT ![current] = st]
      BY <1>15, <2>3, <2>4 DEF RunJob
    <2>6. Agree(st, mem[current])
      BY <2>1, <2>3, <2>4, NoRecordAssumption DEF Agree, Stores
    <2>7. lock'.by = current
      BY <1>15 DEF RunJob, Free
    <2>8. /\ armed' = armed /\ started' = started /\ current' = current /\ disk' = disk
          /\ dirty' = dirty /\ claims' = claims /\ tick' = tick
      BY <1>15 DEF RunJob
    <2>9. \A i \in Jobs \ OneShots : InTick(current, i) => InTick(current, i)'
      BY <2>8 DEF InTick
    <2>10. QED BY <1>1, <2>5, <2>6, <2>7, <2>8, <2>9, MarkStepOne
  <1>16. ASSUME NEW o \in Ends, RunEnds(o)
         PROVE  OneService'
    <2>1. PICK s : s = lock.by
      OBVIOUS
    <2>2. PICK base : base = IF lock.at \in Jobs THEN AppliedTo(mem[s], lock.at, o) ELSE mem[s]
      OBVIOUS
    <2>3. PICK st : st = RecomputeNextRuns(base)
      OBVIOUS
    <2>4. st \in Stores /\ Written(s, InMemory(s), st) /\ ArmTimer(s, st) /\ o \in Outcomes /\ s \in Services
      BY <1>16, <2>1, <2>2, <2>3, RunEnded
    <2>5. lock.for = "run" /\ lock' = Free
      BY <1>16 DEF RunEnds
    <2>6. s = current /\ current \in started
      BY <2>1, <2>5, FreeLock DEF OneService, Order
    <2>7. base \in Stores
      BY <1>1, <2>2, <2>4, AppliedToStore
    <2>8. \A j \in Jobs \ OneShots : Late(st[j])
      BY <1>1, <2>3, <2>7, LateWhenRecomputed
    <2>9. current' = current /\ started' = started /\ claims' = claims /\ tick' = tick
      BY <1>16 DEF RunEnds
    <2>10. \A r \in Services : r # current => armed'[r] = armed[r] /\ tick'[r] = tick[r]
      BY <1>1, <2>4, <2>6, <2>9, ArmedElsewhere
    <2>11. QED BY <2>4, <2>5, <2>6, <2>8, <2>9, <2>10, StoreStepOne
  <1>17. CASE ReadJobs
    <2>1. current \in started
      BY <1>17 DEF ReadJobs, Request
    <2>2. PICK l : l = InMemory(current)
      OBVIOUS
    <2>3. l = InMemory(current) /\ l.st = mem[current]
      BY <2>2 DEF InMemory
    <2>4. l \in Loads /\ mem[current] \in Stores
      BY <1>1, <2>1, <2>3, LoadUnclaimed
    <2>5. PICK st \in Stores : st = RecomputeForMaintenance(mem[current])
      BY <1>1, <2>4, Recomputed
    <2>6. Written(current, l, st)
      BY <1>1, <1>17, <2>3, <2>4, <2>5, Saved DEF CTyped, Counted, ReadJobs
    <2>7. /\ armed' = armed /\ started' = started /\ current' = current /\ lock' = Free
          /\ claims' = claims /\ tick' = tick
      BY <1>17 DEF ReadJobs, Request, LockIsFree
    <2>8. \A j \in Jobs : InTick(current, j) => InTick(current, j)'
      BY <2>7 DEF InTick
    <2>9. \A j \in Jobs \ OneShots :
            \/ InTick(current, j)' \/ Late(st[j])
            \/ ~InTick(current, j) /\ l.st[j] # NoJob /\ st[j].next = l.st[j].next
      BY <1>1, <2>3, <2>4, <2>5, <2>8, LateWhenRecomputed
    <2>10. QED BY <2>1, <2>3, <2>6, <2>7, <2>9, StoreStepOne
  \* during a start the present service has not started
  <1>18. ASSUME lock.for = "start"
         PROVE  lock.by = current /\ current \notin started
    BY <1>18, FreeLock DEF OneService, Order
  <1>19. ASSUME (\E j \in Jobs : StartExecutes(j)) \/ (\E o \in Ends : StartExecuted(o))
         PROVE  OneService'
    <2>1. lock'.by = lock.by /\ lock.for = "start"
      BY <1>19 DEF StartExecutes, StartExecuted, CTyped, Locks
    <2>2. /\ armed' = armed /\ started' = started /\ current' = current /\ claims' = claims /\ tick' = tick
      BY <1>19 DEF StartExecutes, StartExecuted
    <2>3. QED BY <1>18, <2>1, <2>2 DEF OneService
  <1>20. CASE StartEnds
    <2>1. lock.by = current /\ current \notin started /\ mem[current] \in Stores
      BY <1>1, <1>18, <1>20 DEF StartEnds
    <2>2. PICK l : l = InMemory(current) /\ l \in Loads
      BY <1>1, Loaded DEF CTyped
    <2>3. PICK st \in Stores : st = RecomputeNextRuns(mem[current])
      BY <1>1, <2>1, Recomputed
    <2>4. Persist(current, l, st) /\ ArmTimer(current, st)
      BY <1>20, <2>1, <2>2, <2>3 DEF StartEnds
    <2>5. mem' = [mem EXCEPT ![current] = st]
      BY <2>2, <2>3, <2>4, Saved, <1>1 DEF Written, CTyped, Counted
    <2>6. dirty'[current] \/ disk' = st
      <3>1. CASE Keep(current, [l EXCEPT !.disk = st, !.dirty = FALSE], st)
        BY <2>2, <3>1 DEF Keep, Loads
      <3>2. CASE Keep(current, [l EXCEPT !.dirty = TRUE, !.cost = @ + 1], st)
        <4>1. [l EXCEPT !.dirty = TRUE, !.cost = @ + 1].dirty = TRUE
          BY <2>2 DEF Loads
        <4>2. dirty' = [dirty EXCEPT ![current] = TRUE]
          BY <3>2, <4>1 DEF Keep
        <4>3. QED BY <1>1, <4>2 DEF CTyped
      <3>3. QED BY <2>4, <3>1, <3>2 DEF Persist
    <2>7. mem'[current] = st /\ Agree(st, st)
      BY <1>1, <2>5 DEF Agree
    <2>8. \A j \in Jobs \ OneShots : ~Claimed(j, st[j])
      BY <1>1, <2>1, <2>3, LateWhenRecomputed, LateUnclaimed
    <2>9. /\ current' = current /\ claims' = claims /\ tick' = tick /\ lock' = Free
          /\ \A r \in Services : r # current => armed'[r] = armed[r]
      BY <1>1, <1>20, <2>4, ArmedElsewhere DEF StartEnds
    <2>10. \A j \in Jobs \ OneShots : ~Claimed(j, mem[current][j])'
      BY <2>7, <2>8, <2>9 DEF Claimed
    <2>11. (dirty[current] \/ Agree(mem[current], disk))'
      BY <2>6, <2>7, <2>9
    <2>12. \A j \in Jobs \ OneShots : (InTick(current, j) \/ ~Claimed(j, mem[current][j]))'
      BY <2>10
    <2>13. \A r \in Services : r # current => ~armed'[r] /\ tick'[r] = NewTick
      BY <2>9 DEF OneService
    <2>14. (1..(current - 1) \subseteq started)'
      BY <1>20, <2>9 DEF StartEnds, OneService
    <2>15. QED BY <2>9, <2>11, <2>12, <2>13, <2>14 DEF OneService
  <1>21. CASE Reload \/ Crash \/ ClockMoves
    <2>1. ~Reload
      BY DEF Reload
    <2>2. CASE Crash
      <3>1. current' \notin started'
        BY <1>1, <2>2 DEF Crash, Order, Services
      <3>2. \A s \in Services : ~armed'[s] /\ tick'[s] = NewTick
        BY <2>2 DEF Crash
      <3>3. 1..(current' - 1) \subseteq started'
        BY <1>1, <2>2 DEF Crash, Services
      <3>4. QED BY <2>2, <3>1, <3>2, <3>3 DEF OneService, Crash
    <2>3. CASE ClockMoves
      BY <2>3 DEF ClockMoves, OneService, InTick, Claimed
    <2>4. QED BY <1>21, <2>1, <2>2, <2>3
  <1>22. ASSUME NEW s \in Services,
               \/ TickFindsNothing(s) \/ TickFinds(s) \/ TickTimesOut(s) \/ TickApplies(s) \/ Start(s)
               \/ \E j \in Jobs : TickExecutes(s, j)
               \/ \E o \in Ends : TickExecuted(s, o)
         PROVE  OneService'
    BY <1>4, <1>5, <1>6, <1>7, <1>8, <1>9, <1>22
  <1>23. ASSUME NEW j \in Jobs,
               \/ AddJob(j) \/ RemoveJob(j) \/ StartExecutes(j)
               \/ \E patch \in Patches : UpdateJob(j, patch)
               \/ \E forced \in BOOLEAN : RunJob(j, forced)
         PROVE  OneService'
    BY <1>12, <1>13, <1>14, <1>15, <1>19, <1>23
  <1>24. QED BY <1>2, <1>16, <1>17, <1>19, <1>20, <1>21, <1>22, <1>23, Zenon DEF CronNext

-----------------------------------------------------------------------------
(* While there is no edit and no fault, and no marker is old, also after     *)
(* reloads: the document tells all services what the others do.              *)

Undisturbed == edits = 0 /\ faults = 0 /\ now <= STUCK_RUN_TIME + 1

\* A record that maintenance leaves alone; with its marker, and without one.
Sound(j, r)    == r # NoJob => IF r.enabled THEN r.next # NoTime /\ (j \in OneShots => r.last # "ok")
                               ELSE r.runningAt = NoTime
Steady(j, r)     == Sound(j, r) /\ (r # NoJob => r.runningAt # 0)
Unmarked(j, r) == Sound(j, r) /\ (r # NoJob => r.runningAt = NoTime)

Beginning(s) == lock.for = "start" /\ lock.by = s
TimersRun    == \E s \in Services : armed[s] \/ tick[s] # NewTick

OneDocument ==
  /\ \A s \in Services : ~dirty[s]
  /\ lock.for # "run"
  /\ \A j \in Jobs : Steady(j, disk[j]) /\ (TimersRun /\ disk[j] # NoJob => disk[j].next # 0)
  /\ \A s \in Services, j \in Jobs : Beginning(s) \/ Steady(j, mem[s][j])
  /\ \A s \in Services : tick[s] # NewTick => now >= 1
  /\ \A s \in Services, j \in Jobs : j \in tick[s].due /\ mem[s][j] # NoJob => mem[s][j].enabled
  /\ lock.for = "start" => \A j \in Jobs : j # lock.at => Unmarked(j, mem[lock.by][j])
  /\ \A j \in Jobs \ OneShots : /\ \A n \in Times : claims[j][n] <= 1
                                /\ Claimed(j, disk[j]) => disk[j].runningAt # NoTime

\* A record without a marker is one that maintenance leaves alone.
LEMMA UnmarkedIsKept ==
  ASSUME NEW j, NEW r, Unmarked(j, r)
  PROVE  Steady(j, r)
  <1>1. NoTime # 0
    BY DEF NoTime
  <1>2. QED BY <1>1 DEF Unmarked, Steady

\* Maintenance is the identity on such a store: markers of time 0, the only ones that could
\* be old enough to be cleared, do not occur.
LEMMA MaintenanceKeeps ==
  ASSUME NEW st \in Stores, now \in Times, now <= STUCK_RUN_TIME + 1, \A j \in Jobs : Steady(j, st[j])
  PROVE  RecomputeForMaintenance(st) = st
  <1>1. ASSUME NEW j \in Jobs
        PROVE  Normalized(j, st[j], FALSE) = st[j]
    <2>1. CASE st[j] = NoJob
      BY <2>1 DEF Normalized
    <2>2. CASE st[j] # NoJob
      <3>1. PICK r \in Records : r = st[j]
        BY <2>2 DEF Stores
      <3>2. /\ r \in Rows /\ r # NoJob /\ (~r.enabled => r.next = NoTime) /\ r.next \in Instants
            /\ r.runningAt \in Marks /\ r.enabled \in BOOLEAN /\ r.last \in Lasts
        BY RecordFields
      <3>3. r.runningAt # 0 /\ IF r.enabled THEN r.next # NoTime ELSE r.runningAt = NoTime
        BY <3>1, <3>2 DEF Steady, Sound
      <3>4. PICK N \in Records :
              /\ N = Normalized(j, r, FALSE) /\ N.enabled = r.enabled /\ N.last = r.last
              /\ N.next = IF r.next = NoTime THEN ComputeNext(j, r) ELSE r.next
              /\ ~r.enabled => N.runningAt = NoTime
              /\ r.enabled /\ r.runningAt # NoTime /\ now - r.runningAt <= STUCK_RUN_TIME =>
                   N.runningAt = r.runningAt
              /\ r.enabled /\ r.runningAt = NoTime => N.runningAt = NoTime
        BY NormalizedRecord
      <3>5. N.next = r.next
        BY <3>2, <3>3, <3>4, ComputedNext
      <3>6. r.runningAt # NoTime => now - r.runningAt <= STUCK_RUN_TIME
        <4> SUFFICES ASSUME r.runningAt # NoTime PROVE now - r.runningAt <= STUCK_RUN_TIME
          OBVIOUS
        <4>1. r.runningAt \in Int /\ r.runningAt >= 1
          BY <3>2, <3>3, TimesAssumption DEF Marks, Times
        <4>2. QED BY <4>1, ClockFacts
      <3>7. N.runningAt = r.runningAt
        BY <3>2, <3>3, <3>4, <3>6
      <3>8. N \in Rows
        BY RecordFields
      <3>9. N = r
        <4>1. N.enabled = r.enabled /\ N.last = r.last
          BY <3>4, Zenon
        <4>2. r = [enabled |-> r.enabled, next |-> r.next, runningAt |-> r.runningAt, last |-> r.last]
          BY <3>2 DEF Rows
        <4>3. N = [enabled |-> N.enabled, next |-> N.next, runningAt |-> N.runningAt, last |-> N.last]
          BY <3>8 DEF Rows
        <4>4. QED BY <3>5, <3>7, <4>1, <4>2, <4>3, Zenon
      <3>10. QED BY <3>1, <3>4, <3>9
    <2>3. QED BY <2>1, <2>2
  <1>2. RecomputeForMaintenance(st) = [j \in Jobs |-> st[j]]
    BY <1>1 DEF RecomputeForMaintenance
  <1>3. QED BY <1>2 DEF Stores

\* What a start saves.
LEMMA RecomputedUnmarked ==
  ASSUME NEW st \in Stores, now \in Times, NEW j \in Jobs, Unmarked(j, st[j])
  PROVE  /\ Unmarked(j, RecomputeNextRuns(st)[j])
         /\ RecomputeNextRuns(st)[j] # NoJob => RecomputeNextRuns(st)[j].next # 0
  <1>1. RecomputeNextRuns(st)[j] = Normalized(j, st[j], TRUE)
    BY Recomputed
  <1>2. CASE st[j] = NoJob
    BY <1>1, <1>2 DEF Normalized, Unmarked, Sound
  <1>3. CASE st[j] # NoJob
    <2>1. PICK r \in Records : r = st[j]
      BY <1>3 DEF Stores
    <2>2. /\ r # NoJob /\ (~r.enabled => r.next = NoTime) /\ r.next \in Int
          /\ r.enabled \in BOOLEAN /\ now \in Int /\ 0 <= now /\ NoTime # 0 /\ NoTime < now
      BY RecordFields, ClockFacts DEF NoTime
    <2>3. /\ r.runningAt = NoTime
          /\ r.enabled => r.next # NoTime /\ (j \in OneShots => r.last # "ok")
      BY <2>1, <2>2 DEF Unmarked, Sound
    <2>4. PICK c : c = ComputeNext(j, r)
      OBVIOUS
    <2>5. r.enabled => c \in {now + 1, 1}
      BY <2>3, <2>4, ComputedNext
    <2>6. ~r.enabled => c = NoTime
      BY <2>4, ComputedNext
    <2>7. PICK N \in Records :
            /\ N = Normalized(j, r, TRUE) /\ N.enabled = r.enabled /\ N.last = r.last
            /\ N.next = IF r.next = NoTime \/ r.next <= now THEN c ELSE r.next
            /\ N.runningAt \in {r.runningAt, NoTime}
      BY <2>4, NormalizedRecord
    <2>8. r.enabled => N.next # NoTime /\ N.next # 0
      <3>1. c \in {now + 1, 1} => c # NoTime /\ c # 0
        BY <2>2 DEF NoTime
      <3>2. r.next > now => r.next # 0
        BY <2>2
      <3>3. r.next <= now \/ r.next > now
        BY <2>2
      <3>4. QED BY <2>3, <2>5, <2>7, <3>1, <3>2, <3>3
    <2>9. ~r.enabled => N.next = NoTime
      BY <2>2, <2>6, <2>7
    <2>10. Unmarked(j, N)
      BY <2>3, <2>7, <2>8 DEF Unmarked, Sound
    <2>11. QED BY <1>1, <2>1, <2>2, <2>7, <2>8, <2>9, <2>10
  <1>4. QED BY <1>2, <1>3

\* A result leaves no marker, and the next run, if there is one, is later.
LEMMA AppliedUnmarked ==
  ASSUME NEW j \in Jobs, NEW r \in Entry, NEW o \in Outcomes, now \in Times
  PROVE  /\ Unmarked(j, ApplyJobResult(j, r, o)) /\ Late(ApplyJobResult(j, r, o))
         /\ ApplyJobResult(j, r, o) # NoJob => ApplyJobResult(j, r, o).next # 0
  <1>1. PICK a : a = ApplyJobResult(j, r, o)
    OBVIOUS
  <1>2. CASE a = NoJob
    BY <1>1, <1>2 DEF Unmarked, Sound, Late
  <1>3. CASE a # NoJob
    <2>1. r \in Records
      BY <1>1, <1>3 DEF Entry, ApplyJobResult
    <2>2. /\ a \in Records /\ a.runningAt = NoTime /\ (j \in OneShots => a.last = o)
          /\ a.next = NoTime \/ a.next > now
          /\ a.enabled => a.next > now
          /\ j \in OneShots /\ a.enabled => o # "ok"
      BY <1>1, <1>3, <2>1, AppliedRecord
    <2>3. now \in Int /\ 0 <= now /\ NoTime # 0 /\ NoTime < now /\ a.next \in Int
      BY <2>2, RecordFields, ClockFacts DEF NoTime
    <2>4. (a.next > now => a.next # NoTime) /\ a.next # 0
      BY <2>2, <2>3
    <2>5. Unmarked(j, a) /\ Late(a)
      BY <2>2, <2>4 DEF Unmarked, Sound, Late
    <2>6. QED BY <1>1, <2>4, <2>5
  <1>4. QED BY <1>2, <1>3

\* A save writes the copy into the document, or leaves it dirty.
LEMMA PersistWrites ==
  ASSUME dirty \in [Services -> BOOLEAN], NEW s \in Services, NEW l \in Loads, NEW st \in Stores, Persist(s, l, st)
  PROVE  dirty'[s] \/ disk' = st
  <1>1. CASE Keep(s, [l EXCEPT !.disk = st, !.dirty = FALSE], st)
    BY <1>1 DEF Keep, Loads
  <1>2. CASE Keep(s, [l EXCEPT !.dirty = TRUE, !.cost = @ + 1], st)
    <2>1. [l EXCEPT !.dirty = TRUE, !.cost = @ + 1].dirty = TRUE
      BY DEF Loads
    <2>2. dirty' = [dirty EXCEPT ![s] = TRUE]
      BY <1>2, <2>1 DEF Keep
    <2>3. QED BY <2>2
  <1>3. QED BY <1>1, <1>2 DEF Persist

\* A save without a fault.
LEMMA CleanSave ==
  ASSUME CTyped, \A r \in Services : ~dirty[r], NEW s \in Services,
         NEW l, l \in Reloaded(s) \/ l = InMemory(s), NEW st \in Stores, Written(s, l, st), faults' = faults
  PROVE  /\ mem' = [mem EXCEPT ![s] = st] /\ \A r \in Services : ~dirty'[r]
         /\ l \in Reloaded(s) => l.st = disk /\ disk' = st
         /\ l = InMemory(s) => l.st = mem[s] /\ (disk' = st \/ disk' = disk)
  <1>1. ~dirty[s] /\ dirty \in [Services -> BOOLEAN] /\ l \in Loads
    BY Loaded DEF CTyped
  <1>2. l.disk = disk /\ (l.cost = 0 => ~l.dirty) /\ (l \in Reloaded(s) /\ l.cost = 0 => l.st = disk)
    BY <1>1, Loaded, Zenon DEF CTyped
  <1>3. PICK b \in BOOLEAN : /\ dirty' = [dirty EXCEPT ![s] = b]
                             /\ b => disk' = l.disk
                             /\ ~b => disk' = st \/ (disk' = l.disk /\ st = l.st /\ ~l.dirty)
                             /\ faults' = faults => l.cost = 0 /\ (b => l.dirty)
    BY DEF Written
  <1>4. ~b /\ l.cost = 0
    BY <1>2, <1>3, Zenon
  <1>5. dirty' = [dirty EXCEPT ![s] = FALSE]
    <2>1. b = FALSE
      BY <1>4
    <2>2. QED BY <1>3, <2>1, Zenon
  <1>6. \A r \in Services : ~dirty'[r]
    BY <1>1, <1>5
  <1>7. disk' = st \/ (disk' = disk /\ st = l.st)
    BY <1>2, <1>3, <1>4, Zenon
  <1>8. l = InMemory(s) => l.st = mem[s]
    BY DEF InMemory
  <1>9. mem' = [mem EXCEPT ![s] = st]
    BY DEF Written
  <1>10. QED BY <1>2, <1>4, <1>6, <1>7, <1>8, <1>9, Zenon

\* A step that loads the document and saves it, without a fault.
LEMMA StoreStepDoc ==
  ASSUME CTyped, OneDocument, NEW s \in Services, NEW st \in Stores, mem' = [mem EXCEPT ![s] = st],
         \A r \in Services : ~dirty'[r], disk' = st, lock' = Free, now' = now, claims' = claims,
         lock = Free \/ Beginning(s),
         tick'[s] = NewTick, \A r \in Services : r # s => tick'[r] = tick[r],
         \A j \in Jobs : Steady(j, st[j]) /\ (st[j] # NoJob => st[j].next # 0),
         \A j \in Jobs \ OneShots : Claimed(j, st[j]) => st[j].runningAt # NoTime
  PROVE  OneDocument'
  <1>1. mem \in [Services -> Stores] /\ started \subseteq Services /\ tick \in [Services -> Ticks]
    BY DEF CTyped
  <1>2. mem'[s] = st /\ \A r \in Services : r # s => mem'[r] = mem[r]
    BY <1>1
  <1>3. lock'.for = "nothing"
    BY FreeLock
  <1>4. \A j \in Jobs : Steady(j, disk[j])' /\ (TimersRun' /\ disk'[j] # NoJob => disk'[j].next # 0)
    BY DEF Steady, Sound
  <1>5. ASSUME NEW r \in Services, NEW j \in Jobs PROVE Steady(j, mem[r][j])'
    <2>1. r # s => ~Beginning(r)
      BY FreeLock DEF Beginning
    <2>2. QED BY <1>1, <1>2, <2>1 DEF OneDocument, Steady, Sound
  <1>6. \A r \in Services : tick'[r] # NewTick => now' >= 1
    BY DEF OneDocument
  <1>7. ASSUME NEW r \in Services, NEW j \in Jobs, j \in tick'[r].due, mem'[r][j] # NoJob
        PROVE  mem'[r][j].enabled
    <2>1. r # s
      BY <1>1, <1>7, TickFields
    <2>2. QED BY <1>2, <1>7, <2>1 DEF OneDocument
  <1>8. \A j \in Jobs \ OneShots : /\ \A n \in Times : claims'[j][n] <= 1
                                   /\ Claimed(j, disk[j])' => disk'[j].runningAt # NoTime
    BY DEF OneDocument, Claimed
  <1>9. QED BY <1>3, <1>4, <1>5, <1>6, <1>7, <1>8 DEF OneDocument

\* The document at first: stored jobs may be due at 0, but no timer is set.
LEMMA InitDoc == CronInit => OneDocument
  <1> SUFFICES ASSUME CronInit PROVE OneDocument
    OBVIOUS
  <1>1. PICK n \in {0, 1} :
          disk = [j \in Jobs |-> IF j \notin Stored THEN NoJob
                                 ELSE [enabled |-> TRUE, next |-> IF j \in OneShots THEN OneShotTime ELSE n,
                                       runningAt |-> NoTime, last |-> "none"]]
    BY DEF CronInit
  <1>2. \A j \in Jobs : Steady(j, disk[j])
    BY <1>1 DEF Steady, Sound, NoTime, OneShotTime
  <1>3. \A s \in Services : ~dirty[s] /\ tick[s] = NewTick
    BY DEF CronInit
  <1>4. lock.for = "nothing" /\ ~TimersRun /\ \A j \in Jobs, k \in Times : claims[j][k] = 0
    BY FreeLock DEF CronInit, TimersRun
  <1>5. NewTick.due = {}
    BY DEF NewTick
  <1>6. \A s \in Services, j \in Jobs : Steady(j, mem[s][j])
    BY DEF CronInit, Steady, Sound
  <1>7. QED BY <1>2, <1>3, <1>4, <1>5, <1>6 DEF OneDocument, Claimed

\* Every step without an edit and a fault keeps it.
LEMMA NextDoc ==
  ASSUME CTyped, Order, Undisturbed, OneDocument, [CronNext]_cronVars, Undisturbed'
  PROVE  OneDocument'
  <1>1. /\ tick \in [Services -> Ticks] /\ armed \in [Services -> BOOLEAN] /\ current \in Services /\ now \in Times
        /\ claims \in [Jobs -> [Times -> Nat]] /\ mem \in [Services -> Stores] /\ disk \in Stores
        /\ started \subseteq Services /\ CTyped' /\ Order' /\ faults \in Nat
        /\ edits = 0 /\ edits' = 0 /\ faults' = faults /\ now <= STUCK_RUN_TIME + 1
        /\ \A s \in Services : ~dirty[s]
    BY NextCTyped, NextOrder DEF CTyped, Counted, Undisturbed, OneDocument
  <1>2. CASE UNCHANGED cronVars
    BY <1>2 DEF OneDocument, Beginning, TimersRun, Steady, Unmarked, Sound, Claimed, cronVars
  <1>3. ASSUME NEW s \in Services, TickFindsNothing(s)
        PROVE  OneDocument'
    <2>1. PICK l \in Reloaded(s) : PersistIfChanged(s, l, RecomputeForMaintenance(l.st))
      BY <1>3 DEF TickFindsNothing
    <2>2. l \in Loads /\ l.st \in Stores
      BY Loaded DEF CTyped, Loads
    <2>3. PICK st \in Stores : st = RecomputeForMaintenance(l.st)
      BY <1>1, <2>2, Recomputed
    <2>4. Written(s, l, st)
      BY <1>1, <2>1, <2>2, <2>3, Saved
    <2>5. mem' = [mem EXCEPT ![s] = st] /\ (\A r \in Services : ~dirty'[r]) /\ l.st = disk /\ disk' = st
      BY <1>1, <2>4, CleanSave
    <2>6. st = disk
      BY <1>1, <2>3, <2>5, MaintenanceKeeps DEF OneDocument
    <2>7. TimersRun /\ tick'[s] = NewTick
      BY <1>3 DEF TickFindsNothing, Order, TimersRun
    <2>8. /\ lock = Free /\ lock' = Free /\ now' = now /\ claims' = claims /\ tick' = tick
      BY <1>3 DEF TickFindsNothing, LockIsFree
    <2>9. /\ \A j \in Jobs : Steady(j, st[j]) /\ (st[j] # NoJob => st[j].next # 0)
          /\ \A j \in Jobs \ OneShots : Claimed(j, st[j]) => st[j].runningAt # NoTime
      BY <2>6, <2>7 DEF OneDocument
    <2>10. QED BY <2>5, <2>7, <2>8, <2>9, StoreStepDoc
  <1>4. ASSUME NEW s \in Services, TickFinds(s)
        PROVE  OneDocument'
    <2>1. PICK l \in Reloaded(s) :
            /\ Persist(s, l, Marked(l.st)) /\ Due(l.st) # {}
            /\ tick' = [tick EXCEPT ![s] = [NewTick EXCEPT !.running = TRUE, !.due = Due(l.st)]]
            /\ claims' = [j \in Jobs |-> IF j \in Due(l.st) THEN [claims[j] EXCEPT ![l.st[j].next] = @ + 1]
                                        ELSE claims[j]]
      BY <1>4 DEF TickFinds, SaveMarks, Due, Marked
    <2>2. l \in Loads /\ l.st \in Stores
      BY Loaded DEF CTyped, Loads
    <2>3. PICK st \in Stores : st = Marked(l.st)
      BY <1>1, <2>2, MarkedStore
    <2>4. Written(s, l, st)
      BY <1>1, <2>1, <2>2, <2>3, Saved
    <2>5. mem' = [mem EXCEPT ![s] = st] /\ (\A r \in Services : ~dirty'[r]) /\ l.st = disk /\ disk' = st
      BY <1>1, <2>4, CleanSave
    <2>6. TimersRun
      BY <1>4 DEF TickFinds, TimersRun
    <2>7. /\ lock = Free /\ lock' = Free /\ now' = now /\ tick'[s].due = Due(disk)
          /\ \A r \in Services : r # s => tick'[r] = tick[r]
      BY <1>1, <1>4, <2>1, <2>5 DEF TickFinds, LockIsFree, NewTick
    <2>8. \A j \in Jobs : st[j] = IF j \in Due(disk) THEN [disk[j] EXCEPT !.runningAt = now] ELSE disk[j]
      BY <1>1, <2>3, <2>5, MarkedStore
    <2>9. \A j \in Due(disk) : /\ disk[j] \in Records /\ disk[j].enabled /\ disk[j].runningAt = NoTime
                               /\ disk[j].next \in Times /\ disk[j].next <= now
      BY <1>1 DEF Due, Runnable, Stores
    <2>10. now >= 1 /\ now # NoTime
      <3>1. PICK j \in Due(disk) : TRUE
        BY <2>1, <2>5
      <3>2. j \in Jobs /\ disk[j] # NoJob
        BY <2>9, NoRecordAssumption DEF Due
      <3>3. disk[j].next # 0
        BY <2>6, <3>2 DEF OneDocument
      <3>4. QED BY <1>1, <2>9, <3>3, ClockFacts DEF Times, NoTime
    <2>11. ASSUME NEW j \in Due(disk)
           PROVE  /\ st[j] \in Records /\ st[j].enabled = disk[j].enabled /\ st[j].last = disk[j].last
                  /\ st[j].next = disk[j].next /\ st[j].runningAt = now
      <3>1. PICK r \in Records : r = disk[j]
        BY <2>9
      <3>2. j \in Jobs
        BY DEF Due
      <3>3. st[j] = [r EXCEPT !.runningAt = now]
        BY <2>8, <3>1, <3>2
      <3>4. QED BY <1>1, <3>1, <3>3, MarkedRecord
    <2>12. ASSUME NEW j \in Jobs
           PROVE  Steady(j, st[j]) /\ (st[j] # NoJob => st[j].next # 0)
      <3>1. Steady(j, disk[j]) /\ (disk[j] # NoJob => disk[j].next # 0)
        BY <2>6 DEF OneDocument
      <3>2. CASE j \in Due(disk)
        <4>1. disk[j] # NoJob /\ now # 0
          BY <2>9, <2>10, <3>2, NoRecordAssumption
        <4>2. disk[j].enabled
          BY <2>9, <3>2
        <4>3. st[j].enabled
          BY <2>11, <3>2, <4>2
        <4>4. Sound(j, st[j])
          BY <2>11, <3>1, <3>2, <4>1, <4>2, <4>3 DEF Steady, Sound
        <4>5. QED BY <2>11, <3>1, <3>2, <4>1, <4>4 DEF Steady
      <3>3. CASE j \notin Due(disk)
        BY <2>8, <3>1, <3>3
      <3>4. QED BY <3>2, <3>3
    <2>13. ASSUME NEW j \in Jobs \ OneShots
           PROVE  /\ \A n \in Times : claims'[j][n] <= 1
                  /\ Claimed(j, disk[j])' => disk'[j].runningAt # NoTime
      <3>1. CASE j \in Due(disk)
        <4>1. disk[j] # NoJob /\ disk[j].next \in Times /\ disk[j].runningAt = NoTime
          BY <2>9, <3>1, NoRecordAssumption
        <4>2. claims[j][disk[j].next] = 0
          BY <1>1, <4>1 DEF Claimed, OneDocument
        <4>3. claims'[j] = [claims[j] EXCEPT ![disk[j].next] = @ + 1]
          BY <2>1, <2>5, <3>1
        <4>4. \A n \in Times : claims'[j][n] <= 1
          BY <1>1, <4>1, <4>2, <4>3 DEF OneDocument
        <4>5. disk'[j].runningAt # NoTime
          BY <2>5, <2>10, <2>11, <3>1
        <4>6. QED BY <4>4, <4>5
      <3>2. CASE j \notin Due(disk)
        <4>1. disk'[j] = disk[j] /\ claims'[j] = claims[j]
          BY <2>1, <2>5, <2>8, <3>2
        <4>2. QED BY <4>1 DEF OneDocument, Claimed
      <3>3. QED BY <3>1, <3>2
    <2>14. mem'[s] = st /\ \A r \in Services : r # s => mem'[r] = mem[r]
      BY <1>1, <2>5
    <2>15. ASSUME NEW r \in Services, NEW j \in Jobs PROVE Steady(j, mem[r][j])'
      <3>1. ~Beginning(r)
        BY <2>7, FreeLock DEF Beginning
      <3>2. QED BY <1>1, <2>12, <2>14, <3>1 DEF OneDocument, Steady, Sound
    <2>16. \A j \in Jobs : Steady(j, disk[j])' /\ (TimersRun' /\ disk'[j] # NoJob => disk'[j].next # 0)
      BY <2>5, <2>12 DEF Steady, Sound
    <2>17. \A r \in Services : tick'[r] # NewTick => now' >= 1
      BY <2>7, <2>10
    <2>18. ASSUME NEW r \in Services, NEW j \in Jobs, j \in tick'[r].due, mem'[r][j] # NoJob
           PROVE  mem'[r][j].enabled
      <3>1. CASE r # s
        BY <2>7, <2>14, <2>18, <3>1 DEF OneDocument
      <3>2. CASE r = s
        <4>1. j \in Due(disk)
          BY <2>7, <2>18, <3>2
        <4>2. disk[j].enabled
          BY <2>9, <4>1
        <4>3. QED BY <2>11, <2>14, <3>2, <4>1, <4>2
      <3>3. QED BY <3>1, <3>2
    <2>19. lock'.for = "nothing"
      BY <2>7, FreeLock
    <2>20. QED BY <2>5, <2>13, <2>15, <2>16, <2>17, <2>18, <2>19 DEF OneDocument
  <1>5. ASSUME NEW s \in Services, TickTimesOut(s) \/ (\E o \in Ends : TickExecuted(s, o))
        PROVE  OneDocument'
    <2>1. /\ armed' = armed /\ disk' = disk /\ mem' = mem
          /\ dirty' = dirty /\ claims' = claims /\ lock' = lock /\ now' = now
      BY <1>5 DEF TickTimesOut, TickExecuted
    <2>2. /\ tick[s] # NewTick /\ tick'[s].due = tick[s].due
          /\ \A r \in Services : r # s => tick'[r] = tick[r]
      BY <1>5, TickSteps
    <2>3. /\ \A r \in Services : tick'[r] # NewTick => now >= 1
          /\ \A r \in Services, j \in Jobs : j \in tick'[r].due /\ mem[r][j] # NoJob => mem[r][j].enabled
      BY <2>2 DEF OneDocument
    <2>4. TimersRun
      BY <2>2 DEF TimersRun
    <2>5. QED BY <2>1, <2>3, <2>4 DEF OneDocument, Beginning, Steady, Unmarked, Sound, Claimed
  <1>6. ASSUME NEW s \in Services, NEW j \in Jobs, TickExecutes(s, j)
        PROVE  OneDocument'
    <2>1. /\ disk' = disk /\ dirty' = dirty /\ claims' = claims /\ lock' = lock /\ now' = now
      BY <1>6 DEF TickExecutes
    <2>2. /\ tick[s] # NewTick /\ tick'[s].due = tick[s].due \ {j} /\ j \in tick[s].due
          /\ \A r \in Services : r # s => tick'[r] = tick[r]
      BY <1>6, TickSteps
    <2>3. s \in started /\ now >= 1 /\ TimersRun /\ ~Beginning(s)
      BY <2>2, Acting DEF OneDocument, TimersRun, Beginning, Order
    <2>4. \A r \in Services : tick'[r] # NewTick => now >= 1
      BY <2>3
    <2>5. \A r \in Services : r # s => mem'[r] = mem[r]
      BY <1>1, <1>6 DEF TickExecutes
    <2>6. ASSUME NEW i \in Jobs
          PROVE  /\ Steady(i, mem'[s][i])
                 /\ mem'[s][i] # NoJob => mem[s][i] # NoJob /\ mem'[s][i].enabled = mem[s][i].enabled
      <3>1. Steady(i, mem[s][i])
        BY <2>3 DEF OneDocument
      <3>2. CASE mem'[s][i] = mem[s][i]
        BY <3>1, <3>2
      <3>3. CASE mem'[s][i] # mem[s][i]
        <4>1. i = j /\ mem[s][j] # NoJob /\ mem' = [mem EXCEPT ![s][j].runningAt = now]
          BY <1>1, <1>6, <3>3 DEF TickExecutes, Stores
        <4>2. PICK r \in Records : r = mem[s][j]
          BY <1>1, <4>1 DEF Stores
        <4>3. mem'[s][j] = [r EXCEPT !.runningAt = now]
          BY <1>1, <4>1, <4>2 DEF Stores
        <4>4. r.enabled
          BY <2>2, <4>1, <4>2 DEF OneDocument
        <4>5. PICK n \in Records : n = [r EXCEPT !.runningAt = now]
          BY <1>1, MarkedRecord
        <4>6. /\ n = [r EXCEPT !.runningAt = now] /\ n.enabled = r.enabled
              /\ n.next = r.next /\ n.last = r.last /\ n.runningAt = now
          BY <1>1, <4>5, MarkedRecord
        <4>7. n.enabled /\ r # NoJob /\ now # 0
          BY <2>3, <4>1, <4>2, <4>4, <4>6
        <4>8. Steady(i, n)
          BY <3>1, <4>1, <4>2, <4>4, <4>6, <4>7 DEF Steady, Sound
        <4>9. QED BY <4>1, <4>2, <4>3, <4>6, <4>8
      <3>4. QED BY <3>2, <3>3
    <2>7. ASSUME NEW r \in Services, NEW i \in Jobs PROVE (Beginning(r) \/ Steady(i, mem[r][i]))'
      BY <1>1, <2>1, <2>5, <2>6 DEF OneDocument, Beginning, Steady, Sound
    <2>8. ASSUME NEW r \in Services, NEW i \in Jobs, i \in tick'[r].due, mem'[r][i] # NoJob
          PROVE  mem'[r][i].enabled
      <3>1. CASE r # s
        BY <2>2, <2>5, <2>8, <3>1 DEF OneDocument
      <3>2. CASE r = s
        <4>1. i \in tick[s].due /\ mem[s][i] # NoJob
          BY <2>2, <2>6, <2>8, <3>2
        <4>2. mem[s][i].enabled
          BY <4>1 DEF OneDocument
        <4>3. QED BY <2>6, <2>8, <3>2, <4>2
      <3>3. QED BY <3>1, <3>2
    <2>9. lock.for = "start" => \A i \in Jobs : i # lock.at => Unmarked(i, mem'[lock.by][i])
      <3>1. SUFFICES ASSUME lock.for = "start" PROVE \A i \in Jobs : i # lock.at => Unmarked(i, mem'[lock.by][i])
        OBVIOUS
      <3>2. lock.by # s /\ lock.by \in Services
        BY <2>3, <3>1 DEF Order, CTyped, LockHeld
      <3>3. QED BY <2>5, <3>1, <3>2 DEF OneDocument
    <2>10. QED BY <2>1, <2>3, <2>4, <2>7, <2>8, <2>9 DEF OneDocument, Steady, Unmarked, Sound, Claimed
  <1>7. ASSUME NEW s \in Services, TickApplies(s)
        PROVE  OneDocument'
    <2>1. PICK l \in Reloaded(s) : Persist(s, l, RecomputeForMaintenance(WithResults(s, l.st)))
      BY <1>7 DEF TickApplies, AfterTick
    <2>2. l \in Loads /\ l.st \in Stores
      BY Loaded DEF CTyped, Loads
    <2>3. PICK a \in Stores : a = WithResults(s, l.st)
      BY <1>1, <2>2, AppliedStore
    <2>4. PICK st \in Stores : st = RecomputeForMaintenance(a)
      BY <1>1, Recomputed
    <2>5. Written(s, l, st)
      BY <1>1, <2>1, <2>2, <2>3, <2>4, Saved
    <2>6. mem' = [mem EXCEPT ![s] = st] /\ (\A r \in Services : ~dirty'[r]) /\ l.st = disk /\ disk' = st
      BY <1>1, <2>5, CleanSave
    <2>7. /\ TimersRun /\ tick'[s] = NewTick /\ \A r \in Services : r # s => tick'[r] = tick[r]
      BY <1>7, TickSteps DEF TimersRun
    <2>8. /\ lock = Free /\ lock' = Free /\ now' = now /\ claims' = claims
      BY <1>7 DEF TickApplies, LockIsFree
    <2>9. ASSUME NEW j \in Jobs
          PROVE  /\ Steady(j, a[j]) /\ (a[j] # NoJob => a[j].next # 0)
                 /\ j \notin OneShots /\ Claimed(j, a[j]) => a[j].runningAt # NoTime
      <3>1. disk[j] \in Entry
        BY <1>1 DEF Stores, Entry
      <3>2. CASE \E o \in Outcomes : <<j, o>> \in tick[s].results
        <4>1. PICK o \in Outcomes : a[j] = ApplyJobResult(j, disk[j], o)
          BY <1>1, <2>3, <2>6, <3>2, AppliedStore
        <4>2. Unmarked(j, a[j]) /\ Late(a[j]) /\ (a[j] # NoJob => a[j].next # 0)
          BY <1>1, <3>1, <4>1, AppliedUnmarked
        <4>3. QED BY <4>2, UnmarkedIsKept, LateUnclaimed
      <3>3. CASE ~\E o \in Outcomes : <<j, o>> \in tick[s].results
        <4>1. a[j] = disk[j]
          BY <1>1, <2>3, <2>6, <3>3, AppliedStore
        <4>2. QED BY <2>7, <4>1 DEF OneDocument
      <3>4. QED BY <3>2, <3>3
    <2>10. st = a
      BY <1>1, <2>4, <2>9, MaintenanceKeeps
    <2>11. QED BY <2>6, <2>7, <2>8, <2>9, <2>10, StoreStepDoc
  <1>8. ASSUME NEW s \in Services, Start(s)
        PROVE  OneDocument'
    <2>1. /\ mem' = [mem EXCEPT ![s] = Cleared] /\ s \notin started
          /\ lock' = [by |-> s, for |-> "start", due |-> Missed, at |-> NoJob]
      BY <1>8 DEF Start, Free, Cleared, Missed
    <2>2. lock'.by = s /\ lock'.for = "start" /\ mem'[s] = Cleared
      BY <1>1, <2>1
    <2>3. ASSUME NEW j \in Jobs PROVE Unmarked(j, Cleared[j])
      <3>1. Steady(j, disk[j])
        BY DEF OneDocument
      <3>2. CASE disk[j] = NoJob
        BY <1>1, <3>2, ClearedStore DEF Unmarked, Sound
      <3>3. CASE disk[j] # NoJob
        <4>1. PICK c \in Records : c = Cleared[j] /\ c.next = disk[j].next /\ c.enabled = disk[j].enabled
                                   /\ c.last = disk[j].last /\ c.runningAt = NoTime
          BY <1>1, <3>3, ClearedStore
        <4>2. Sound(j, c)
          <5>1. CASE c.enabled
            BY <3>1, <3>3, <4>1, <5>1 DEF Steady, Sound
          <5>2. CASE ~c.enabled
            BY <4>1, <5>2 DEF Sound
          <5>3. QED BY <5>1, <5>2
        <4>3. QED BY <4>1, <4>2 DEF Unmarked
      <3>4. QED BY <3>2, <3>3
    <2>4. \A r \in Services, j \in Jobs : r = s \/ Steady(j, mem'[r][j])
      <3>1. \A r \in Services : ~Beginning(r)
        BY <1>8, FreeLock DEF Start, LockIsFree, Beginning
      <3>2. QED BY <1>1, <2>1, <3>1 DEF OneDocument
    <2>5. \A j \in Jobs : j # lock'.at => Unmarked(j, mem'[lock'.by][j])
      BY <2>2, <2>3
    <2>6. /\ disk' = disk /\ dirty' = dirty /\ armed' = armed /\ claims' = claims /\ tick' = tick /\ now' = now
      BY <1>8 DEF Start
    <2>7. ASSUME NEW r \in Services, NEW j \in Jobs, j \in tick[r].due PROVE r # s
      BY <1>1, <2>1, <2>7, TickFields DEF Order
    <2>8. \A r \in Services, j \in Jobs : j \in tick[r].due /\ mem'[r][j] # NoJob => mem'[r][j].enabled
      BY <1>1, <2>1, <2>7 DEF OneDocument
    <2>9. QED BY <2>2, <2>4, <2>5, <2>6, <2>8 DEF OneDocument, Beginning, TimersRun, Steady, Unmarked, Sound, Claimed
  <1>10. ASSUME NEW j \in Jobs,
               \/ AddJob(j) \/ RemoveJob(j) \/ \E patch \in Patches : UpdateJob(j, patch)
               \/ \E forced \in BOOLEAN : RunJob(j, forced)
        PROVE  FALSE
    <2>1. edits' = edits + 1
      BY <1>10 DEF AddJob, RemoveJob, UpdateJob, RunJob, Edit
    <2>2. QED BY <1>1, <2>1
  <1>11. ASSUME NEW o \in Ends, RunEnds(o) PROVE FALSE
    BY <1>11 DEF RunEnds, OneDocument
  <1>12. CASE ReadJobs
    <2>1. current \in started
      BY <1>12 DEF ReadJobs, Request
    <2>2. PICK l : l = InMemory(current)
      OBVIOUS
    <2>3. l.st = mem[current] /\ l.disk = disk /\ l.dirty = dirty[current] /\ l.cost = 0
      BY <2>2 DEF InMemory
    <2>4. RecomputeForMaintenance(mem[current]) = mem[current]
      <3>1. ~Beginning(current)
        BY <2>1 DEF Beginning, Order
      <3>2. QED BY <1>1, <3>1, MaintenanceKeeps DEF OneDocument
    <2>5. Keep(current, l, mem[current])
      BY <1>12, <2>2, <2>3, <2>4 DEF ReadJobs, PersistIfChanged
    <2>6. /\ mem' = [mem EXCEPT ![current] = mem[current]] /\ disk' = disk
          /\ dirty' = [dirty EXCEPT ![current] = dirty[current]]
      BY <2>3, <2>5 DEF Keep
    <2>7. mem' = mem /\ dirty' = dirty
      BY <1>1, <2>6 DEF CTyped
    <2>8. /\ lock' = lock /\ armed' = armed /\ claims' = claims /\ tick' = tick /\ now' = now
      BY <1>12 DEF ReadJobs
    <2>9. QED BY <2>6, <2>7, <2>8 DEF OneDocument, Beginning, TimersRun, Steady, Unmarked, Sound, Claimed
  \* a step of a start
  <1>13. ASSUME lock.for = "start"
         PROVE  lock.by \in Services /\ lock.by \notin started /\ tick[lock.by] = NewTick
    BY <1>13 DEF Order, CTyped, LockHeld
  <1>14. ASSUME NEW s \in Services, s = lock.by, NEW st, mem' = [mem EXCEPT ![s] = st],
                lock.for = "start", lock'.for = "start", lock'.by = lock.by,
                disk' = disk, dirty' = dirty, armed' = armed, claims' = claims, tick' = tick, now' = now,
                \A i \in Jobs : i # lock'.at => Unmarked(i, st[i])
         PROVE  OneDocument'
    <2>1. tick[s] = NewTick /\ \A r \in Services : r # s => ~Beginning(r)
      BY <1>13, <1>14 DEF Beginning
    <2>2. mem'[s] = st /\ \A r \in Services : r # s => mem'[r] = mem[r]
      BY <1>1, <1>14
    <2>3. \A r \in Services, j \in Jobs : r = s \/ Steady(j, mem'[r][j])
      BY <1>1, <2>1, <2>2 DEF OneDocument
    <2>4. \A j \in Jobs : j # lock'.at => Unmarked(j, mem'[lock'.by][j])
      BY <1>14, <2>2
    <2>5. \A r \in Services, j \in Jobs : j \in tick[r].due => r # s
      BY <1>1, <2>1, TickFields
    <2>6. \A r \in Services, j \in Jobs : j \in tick[r].due /\ mem'[r][j] # NoJob => mem'[r][j].enabled
      BY <2>2, <2>5 DEF OneDocument
    <2>7. QED BY <1>14, <2>3, <2>4, <2>6 DEF OneDocument, Beginning, TimersRun, Steady, Unmarked, Sound, Claimed
  <1>15. ASSUME NEW j \in Jobs, StartExecutes(j)
         PROVE  OneDocument'
    <2>1. PICK s \in Services : s = lock.by
      BY <1>13, <1>15 DEF StartExecutes
    <2>2. /\ lock'.for = "start" /\ lock'.by = lock.by /\ lock'.at = j /\ lock.for = "start" /\ lock.at = NoJob
      BY <1>15 DEF StartExecutes, CTyped, Locks
    <2>3. PICK r : r = [mem[s][j] EXCEPT !.runningAt = now]
      OBVIOUS
    <2>4. PICK st : st = [mem[s] EXCEPT ![j] = r]
      OBVIOUS
    <2>5. mem' = [mem EXCEPT ![s] = st]
      BY <1>15, <2>1, <2>3, <2>4 DEF StartExecutes
    <2>6. mem[s] \in Stores
      BY <1>1
    <2>7. \A i \in Jobs : i # j => st[i] = mem[s][i]
      BY <2>4, <2>6 DEF Stores
    <2>8. \A i \in Jobs : i # lock'.at => Unmarked(i, st[i])
      BY <2>1, <2>2, <2>7, JobsAssumption DEF OneDocument
    <2>9. /\ disk' = disk /\ dirty' = dirty /\ armed' = armed /\ claims' = claims /\ tick' = tick /\ now' = now
      BY <1>15 DEF StartExecutes
    <2>10. QED BY <1>14, <2>1, <2>2, <2>5, <2>8, <2>9
  <1>16. ASSUME NEW o \in Ends, StartExecuted(o)
         PROVE  OneDocument'
    <2>1. PICK s \in Services, j \in Jobs : s = lock.by /\ j = lock.at
      BY <1>13, <1>16 DEF StartExecuted, CTyped, Locks
    <2>2. /\ lock'.for = "start" /\ lock'.by = lock.by /\ lock'.at = NoJob /\ lock.for = "start"
      BY <1>16 DEF StartExecuted, CTyped, Locks
    <2>3. PICK st : st = AppliedTo(mem[s], j, o)
      OBVIOUS
    <2>4. mem' = [mem EXCEPT ![s] = st]
      BY <1>1, <1>16, <2>1, <2>3 DEF StartExecuted, AppliedTo
    <2>5. mem[s] \in Stores /\ mem[s][j] \in Entry /\ o \in Outcomes
      BY <1>1, EndsAssumption DEF Stores, Entry, Outcomes
    <2>6. \A i \in Jobs : st[i] = IF i = j THEN ApplyJobResult(j, mem[s][j], o) ELSE mem[s][i]
      BY <2>3, <2>5 DEF AppliedTo, Stores
    <2>7. Unmarked(j, ApplyJobResult(j, mem[s][j], o))
      BY <1>1, <2>5, AppliedUnmarked
    <2>8. \A i \in Jobs : Unmarked(i, st[i])
      BY <2>1, <2>2, <2>6, <2>7 DEF OneDocument
    <2>9. /\ disk' = disk /\ dirty' = dirty /\ armed' = armed /\ claims' = claims /\ tick' = tick /\ now' = now
      BY <1>16 DEF StartExecuted
    <2>10. QED BY <1>14, <2>1, <2>2, <2>4, <2>8, <2>9
  <1>17. CASE StartEnds
    <2>1. PICK s \in Services : s = lock.by
      BY <1>13, <1>17 DEF StartEnds
    <2>2. PICK l : l = InMemory(s) /\ l \in Loads
      BY <1>1, Loaded DEF CTyped
    <2>3. PICK st \in Stores : st = RecomputeNextRuns(mem[s])
      BY <1>1, Recomputed
    <2>4. Persist(s, l, st)
      BY <1>17, <2>1, <2>2, <2>3 DEF StartEnds
    <2>5. Written(s, l, st)
      BY <1>1, <2>2, <2>4, Saved
    <2>6. mem' = [mem EXCEPT ![s] = st] /\ (\A r \in Services : ~dirty'[r])
      BY <1>1, <2>2, <2>5, CleanSave
    <2>7. disk' = st
      BY <2>2, <2>4, <2>6, PersistWrites DEF CTyped
    <2>8. lock.for = "start" /\ lock.at = NoJob /\ tick[s] = NewTick /\ Beginning(s)
      BY <1>13, <1>17, <2>1 DEF StartEnds, Beginning
    <2>9. /\ lock' = Free /\ now' = now /\ claims' = claims /\ tick' = tick
      BY <1>17, <2>1 DEF StartEnds
    <2>10. mem[s] \in Stores
      BY <1>1
    <2>11. ASSUME NEW j \in Jobs
           PROVE  Steady(j, st[j]) /\ (st[j] # NoJob => st[j].next # 0)
      <3>1. Unmarked(j, mem[s][j])
        BY <2>1, <2>8, JobsAssumption DEF OneDocument
      <3>2. QED BY <1>1, <2>3, <2>10, <3>1, RecomputedUnmarked, UnmarkedIsKept
    <2>12. \A j \in Jobs \ OneShots : Claimed(j, st[j]) => st[j].runningAt # NoTime
      BY <1>1, <2>3, <2>10, LateWhenRecomputed, LateUnclaimed
    <2>13. QED BY <2>6, <2>7, <2>8, <2>9, <2>11, <2>12, StoreStepDoc
  <1>18. CASE Reload
    <2>1. TimersRun' => TimersRun
      BY <1>1, <1>18 DEF Reload, TimersRun
    <2>2. QED BY <1>18, <2>1 DEF Reload, OneDocument, Beginning, Steady, Unmarked, Sound, Claimed
  <1>19. CASE Crash
    <2>1. /\ \A s \in Services : ~dirty'[s] /\ ~armed'[s] /\ tick'[s] = NewTick
          /\ \A s \in Services, j \in Jobs : mem'[s][j] = NoJob
          /\ lock' = Free /\ disk' = disk /\ claims' = claims /\ now' = now
      BY <1>19 DEF Crash
    <2>2. lock'.for = "nothing" /\ ~TimersRun'
      BY <2>1, FreeLock DEF TimersRun
    <2>3. \A s \in Services, j \in Jobs : Steady(j, mem[s][j])'
      BY <1>1, <2>1 DEF Steady, Sound
    <2>4. QED BY <2>1, <2>2, <2>3 DEF OneDocument, Steady, Sound, Claimed
  <1>20. CASE ClockMoves
    <2>1. \A s \in Services : tick'[s] # NewTick => now' >= 1
      BY <1>1, <1>20 DEF ClockMoves, OneDocument, Times
    <2>2. QED BY <1>20, <2>1 DEF ClockMoves, OneDocument, Beginning, TimersRun, Steady, Unmarked, Sound, Claimed
  <1>21. ASSUME NEW s \in Services,
               \/ TickFindsNothing(s) \/ TickFinds(s) \/ TickTimesOut(s) \/ TickApplies(s) \/ Start(s)
               \/ \E j \in Jobs : TickExecutes(s, j)
               \/ \E o \in Ends : TickExecuted(s, o)
         PROVE  OneDocument'
    BY <1>3, <1>4, <1>5, <1>6, <1>7, <1>8, <1>21
  <1>22. ASSUME NEW j \in Jobs,
               \/ AddJob(j) \/ RemoveJob(j) \/ StartExecutes(j)
               \/ \E patch \in Patches : UpdateJob(j, patch)
               \/ \E forced \in BOOLEAN : RunJob(j, forced)
         PROVE  OneDocument'
    BY <1>10, <1>15, <1>22
  <1>23. QED BY <1>2, <1>11, <1>12, <1>16, <1>17, <1>18, <1>19, <1>20, <1>21, <1>22, Zenon DEF CronNext

-----------------------------------------------------------------------------
\* Nothing is ever uncounted, and the clock does not go back.
LEMMA Monotone ==
  ASSUME CTyped, [CronNext]_cronVars
  PROVE  edits <= edits' /\ faults <= faults' /\ reloads <= reloads' /\ now <= now'
  <1>1. /\ edits \in Nat /\ faults \in Nat /\ reloads \in Nat /\ now \in Int
        /\ disk \in Stores /\ mem \in [Services -> Stores] /\ dirty \in [Services -> BOOLEAN] /\ now \in Times
        /\ current \in Services
    BY ClockFacts DEF CTyped, Counted
  <1> DEFINE Goal == edits <= edits' /\ faults <= faults' /\ reloads <= reloads' /\ now <= now'
  <1>2. ASSUME edits' \in {edits, edits + 1}, faults' = faults, reloads' \in {reloads, reloads + 1},
               now' \in {now, now + 1}
        PROVE  Goal
    BY <1>1, <1>2
  <1>3. ASSUME edits' \in {edits, edits + 1}, reloads' = reloads, now' = now,
               NEW s, NEW l \in Loads, NEW st, Persist(s, l, st) \/ PersistIfChanged(s, l, st)
        PROVE  Goal
    <2>1. l.cost \in Nat
      BY DEF Loads
    <2>2. faults' \in {faults + l.cost, faults + (l.cost + 1)}
      <3>1. CASE Keep(s, l, st)
        BY <3>1 DEF Keep
      <3>2. CASE Keep(s, [l EXCEPT !.disk = st, !.dirty = FALSE], st)
        BY <3>2 DEF Keep, Loads
      <3>3. CASE Keep(s, [l EXCEPT !.dirty = TRUE, !.cost = @ + 1], st)
        BY <3>3 DEF Keep, Loads
      <3>4. QED BY <1>3, <3>1, <3>2, <3>3 DEF Persist, PersistIfChanged
    <2>3. faults <= faults'
      BY <1>1, <2>1, <2>2
    <2>4. QED BY <1>1, <1>3, <2>3
  <1>4. ASSUME NEW s \in Services, TickFindsNothing(s) \/ TickFinds(s) \/ TickApplies(s)
        PROVE  Goal
    <2>1. PICK l, st : l \in Reloaded(s) /\ (Persist(s, l, st) \/ PersistIfChanged(s, l, st))
      BY <1>4 DEF TickFindsNothing, TickFinds, TickApplies, SaveMarks
    <2>2. l \in Loads
      BY <1>1, <2>1, Loaded
    <2>3. edits' = edits /\ reloads' = reloads /\ now' = now
      BY <1>4 DEF TickFindsNothing, TickFinds, TickApplies, counters
    <2>4. QED BY <1>3, <2>1, <2>2, <2>3
  <1>5. ASSUME NEW st, Edit(st) PROVE Goal
    <2>1. Persist(current, InMemory(current), st) /\ edits' = edits + 1 /\ reloads' = reloads /\ now' = now
      BY <1>5 DEF Edit
    <2>2. InMemory(current) \in Loads
      BY <1>1, Loaded
    <2>3. QED BY <1>3, <2>1, <2>2
  <1>6. ASSUME NEW o \in Ends, RunEnds(o) PROVE Goal
    <2>1. PICK s, st : s = lock.by /\ Persist(s, InMemory(s), st)
      BY <1>6 DEF RunEnds
    <2>2. InMemory(s) \in Loads
      BY <1>1, <1>6, <2>1, Loaded DEF RunEnds, CTyped, LockHeld
    <2>3. edits' = edits /\ reloads' = reloads /\ now' = now
      BY <1>6 DEF RunEnds, counters
    <2>4. QED BY <1>3, <2>1, <2>2, <2>3
  <1>7. CASE StartEnds
    <2>1. PICK s, st : s = lock.by /\ Persist(s, InMemory(s), st)
      BY <1>7 DEF StartEnds
    <2>2. InMemory(s) \in Loads
      BY <1>1, <1>7, <2>1, Loaded DEF StartEnds, CTyped, LockHeld
    <2>3. edits' = edits /\ reloads' = reloads /\ now' = now
      BY <1>7 DEF StartEnds, counters
    <2>4. QED BY <1>3, <2>1, <2>2, <2>3
  <1>8. CASE ReadJobs
    <2>1. PICK st : PersistIfChanged(current, InMemory(current), st)
      BY <1>8 DEF ReadJobs
    <2>2. InMemory(current) \in Loads
      BY <1>1, Loaded
    <2>3. edits' = edits /\ reloads' = reloads /\ now' = now
      BY <1>8 DEF ReadJobs, counters
    <2>4. QED BY <1>3, <2>1, <2>2, <2>3
  <1>9. CASE UNCHANGED cronVars
    BY <1>2, <1>9 DEF cronVars
  <1>10. ASSUME NEW s \in Services,
               \/ TickTimesOut(s) \/ Start(s) \/ (\E j \in Jobs : TickExecutes(s, j))
               \/ \E o \in Ends : TickExecuted(s, o)
        PROVE  Goal
    BY <1>2, <1>10 DEF TickTimesOut, Start, TickExecutes, TickExecuted, counters
  <1>11. ASSUME NEW j \in Jobs, StartExecutes(j) \/ \E forced \in BOOLEAN : RunJob(j, forced)
         PROVE  Goal
    BY <1>2, <1>11 DEF StartExecutes, RunJob, counters
  <1>12. ASSUME NEW j \in Jobs, AddJob(j) \/ RemoveJob(j) \/ \E patch \in Patches : UpdateJob(j, patch)
         PROVE  Goal
    BY <1>5, <1>12 DEF AddJob, RemoveJob, UpdateJob
  <1>13. ASSUME NEW o \in Ends, StartExecuted(o) PROVE Goal
    BY <1>2, <1>13 DEF StartExecuted, counters
  <1>14. CASE Reload \/ Crash \/ ClockMoves
    BY <1>2, <1>14 DEF Reload, Crash, ClockMoves, counters
  <1>15. ASSUME NEW s \in Services,
               \/ TickFindsNothing(s) \/ TickFinds(s) \/ TickTimesOut(s) \/ TickApplies(s) \/ Start(s)
               \/ \E j \in Jobs : TickExecutes(s, j)
               \/ \E o \in Ends : TickExecuted(s, o)
         PROVE  Goal
    BY <1>4, <1>10, <1>15
  <1>16. ASSUME NEW j \in Jobs,
               \/ AddJob(j) \/ RemoveJob(j) \/ StartExecutes(j)
               \/ \E patch \in Patches : UpdateJob(j, patch)
               \/ \E forced \in BOOLEAN : RunJob(j, forced)
         PROVE  Goal
    BY <1>11, <1>12, <1>16
  <1>17. QED BY <1>6, <1>7, <1>8, <1>9, <1>13, <1>14, <1>15, <1>16, Zenon DEF CronNext

CronInv ==
  /\ CTyped /\ Order
  /\ reloads = 0 => OneService
  /\ Undisturbed => OneDocument

\* What made a store one still makes it one.
LEMMA StillOne ==
  ASSUME CTyped, [CronNext]_cronVars
  PROVE  /\ (reloads' = 0 => reloads = 0) /\ (Undisturbed' => Undisturbed)
         /\ OneStore <=> reloads = 0 \/ Undisturbed
  <1>1. edits <= edits' /\ faults <= faults' /\ reloads <= reloads' /\ now <= now'
    BY Monotone
  <1>2. /\ edits \in Nat /\ faults \in Nat /\ reloads \in Nat /\ now \in Int /\ STUCK_RUN_TIME \in Nat
        /\ edits' \in Nat /\ faults' \in Nat /\ reloads' \in Nat /\ now' \in Int
    <2>1. CTyped'
      BY NextCTyped
    <2>2. now' \in Times => now' \in Int
      BY DEF Times
    <2>3. QED BY <2>1, <2>2, ClockFacts DEF CTyped, Counted
  <1>3. Undisturbed' => Undisturbed
    BY <1>1, <1>2 DEF Undisturbed
  <1>4. QED BY <1>1, <1>2, <1>3 DEF OneStore, Undisturbed

\* The invariant.
LEMMA CronInvariant == CronSpec => []CronInv
  <1>1. CronInit => CronInv
    BY InitCTyped, InitOrder, InitOne, InitDoc DEF CronInv
  <1>2. CronInv /\ [CronNext]_cronVars => CronInv'
    <2> SUFFICES ASSUME CronInv, [CronNext]_cronVars PROVE CronInv'
      OBVIOUS
    <2>1. CTyped /\ Order /\ CTyped' /\ Order'
      BY NextCTyped, NextOrder DEF CronInv
    <2>2. reloads' = 0 => OneService'
      BY <2>1, NextOne, StillOne DEF CronInv
    <2>3. Undisturbed' => OneDocument'
      BY <2>1, NextDoc, StillOne DEF CronInv
    <2>4. QED BY <2>1, <2>2, <2>3 DEF CronInv
  <1>3. QED BY <1>1, <1>2, PTL DEF CronSpec

\* A recurring job is taken at most once for each instant (isRunnableJob, onTimer), also by
\* the services of two starts, as long as there is one store.
THEOREM TakenOnce == CronSpec => []DueOnce
  <1>1. CronInv => DueOnce
    BY DEF CronInv, DueOnce, OneStore, Undisturbed, OneService, OneDocument
  <1>2. QED BY <1>1, CronInvariant, PTL

-----------------------------------------------------------------------------
(* Which steps move on a job that is due.                                    *)

\* A job that is due.
LEMMA DueFacts ==
  ASSUME NEW j \in Jobs, NEW st \in Stores, Runnable(st, j)
  PROVE  st[j] \in Records /\ st[j] # NoJob /\ st[j].next \in Times /\ st[j].next # NoTime /\ st[j].next <= now
  <1>1. st[j] \in Records /\ st[j] # NoJob /\ st[j].next \in Times /\ st[j].next <= now
    BY DEF Runnable, Stores
  <1>2. NoTime \notin Times
    BY TimesAssumption DEF Times, NoTime
  <1>3. QED BY <1>1, <1>2

\* Maintenance and marks leave a next run alone.
LEMMA NextKept ==
  ASSUME NEW st \in Stores, now \in Times, NEW j \in Jobs, st[j] # NoJob, st[j].next # NoTime
  PROVE  RecomputeForMaintenance(st)[j].next = st[j].next /\ Marked(st)[j].next = st[j].next
  <1>1. PICK r \in Records : r = st[j]
    BY DEF Stores
  <1>2. RecomputeForMaintenance(st)[j] = Normalized(j, r, FALSE)
    BY <1>1, Recomputed
  <1>3. Normalized(j, r, FALSE).next = r.next
    BY <1>1, NormalizedRecord
  <1>4. Marked(st)[j] = IF j \in Due(st) THEN [r EXCEPT !.runningAt = now] ELSE r
    BY <1>1, MarkedStore
  <1>5. [r EXCEPT !.runningAt = now].next = r.next
    BY MarkedRecord
  <1>6. QED BY <1>1, <1>2, <1>3, <1>4, <1>5

\* A tick, in either case, finds in its load the next run of the document, and saves the
\* document as it is or what it made of the load.
LEMMA TickLoads ==
  ASSUME CTyped, Order, NEW s \in Services, armed[s] \/ tick[s] # NewTick, \A r \in Services : ~dirty[r],
         OneService \/ (OneDocument /\ faults' = faults),
         NEW l \in Reloaded(s), NEW st \in Stores, Written(s, l, st), NEW j \in Jobs, Runnable(disk, j)
  PROVE  /\ l.st \in Stores /\ l.st[j] # NoJob /\ l.st[j].next = disk[j].next /\ l.st[j].next # NoTime
         /\ disk' \in {disk, st}
  <1>1. disk \in Stores /\ l \in Loads /\ l.st \in Stores
    BY Loaded DEF CTyped, Loads
  <1>2. disk[j] # NoJob /\ disk[j].next # NoTime
    BY <1>1, DueFacts
  <1>3. CASE OneService
    <2>1. s = current /\ current \in started
      BY <1>3, Acting DEF OneService
    <2>2. Agree(l.st, disk)
      BY <1>3, <2>1, LoadUnclaimed
    <2>3. disk' \in {disk, st}
      BY <1>3, <2>1, WrittenAgrees
    <2>4. QED BY <1>1, <1>2, <2>2, <2>3 DEF Agree
  <1>4. CASE OneDocument /\ faults' = faults
    <2>1. l.st = disk /\ disk' = st
      BY <1>4, CleanSave
    <2>2. QED BY <1>1, <1>2, <2>1
  <1>5. QED BY <1>3, <1>4

\* The step: which actions may change the document, and what they do to the next run of job j.
LEMMA StepSkipsNothing ==
  ASSUME CronInv, [CronNext]_cronVars, NEW j \in Jobs, Skipped(j)
  PROVE  Accounted(j) \/ StartEnds \/ (\E k \in Jobs : AddJob(k)) \/ (\E o \in Ends : RunEnds(o))
  <1> SUFFICES ASSUME ~Accounted(j), ~StartEnds, ~(\E k \in Jobs : AddJob(k)), ~(\E o \in Ends : RunEnds(o))
               PROVE  FALSE
    OBVIOUS
  <1>1. /\ CTyped /\ Order /\ now \in Times /\ disk \in Stores /\ mem \in [Services -> Stores]
        /\ current \in Services /\ tick \in [Services -> Ticks] /\ faults \in Nat /\ now \in Int
    BY ClockFacts DEF CronInv, CTyped, Counted
  <1>2. /\ \A s \in Services : ~dirty[s]
        /\ Runnable(disk, j) /\ disk'[j] # NoJob /\ disk'[j].next > now
    BY DEF Skipped
  <1>3. /\ disk[j] \in Records /\ disk[j] # NoJob /\ disk[j].next \in Times /\ disk[j].next # NoTime
        /\ disk[j].next <= now
    BY <1>1, <1>2, DueFacts
  <1>4. disk'[j].next # disk[j].next
    <2>1. disk[j].next \in Int
      BY <1>3 DEF Times
    <2>2. ~(disk[j].next > now)
      BY <1>1, <1>3, <2>1
    <2>3. QED BY <1>2, <2>2
  <1>5. \/ reloads' = 0 /\ OneService
        \/ OneDocument /\ faults' = faults /\ edits' = edits /\ now <= STUCK_RUN_TIME + 1
    <2>1. reloads' = 0 \/ Undisturbed'
      <3>1. OneStore'
        BY DEF Skipped
      <3>2. QED BY <3>1 DEF OneStore, Undisturbed
    <2>2. CASE reloads' = 0
      BY <1>1, <2>2, StillOne DEF CronInv
    <2>3. CASE Undisturbed'
      BY <1>1, <2>3, StillOne DEF CronInv, Undisturbed
    <2>4. QED BY <2>1, <2>2, <2>3
  <1>6. disk' # disk
    BY <1>4
  <1>7. ~\E o \in Outcomes : \E s \in Services : <<j, o>> \in tick[s].results
    BY DEF Accounted
  <1>8. ~\E patch \in Patches : UpdateJob(j, patch)
    BY DEF Accounted
  <1>9. ASSUME NEW s \in Services, TickFindsNothing(s) PROVE FALSE
    <2>1. PICK l \in Reloaded(s) : PersistIfChanged(s, l, RecomputeForMaintenance(l.st))
      BY <1>9 DEF TickFindsNothing
    <2>2. l \in Loads /\ l.st \in Stores
      BY <1>1, Loaded DEF CTyped, Loads
    <2>3. PICK st \in Stores : st = RecomputeForMaintenance(l.st)
      BY <1>1, <2>2, Recomputed
    <2>4. Written(s, l, st)
      BY <1>1, <2>1, <2>2, <2>3, Saved
    <2>5. armed[s]
      BY <1>9 DEF TickFindsNothing
    <2>6. l.st[j] # NoJob /\ l.st[j].next = disk[j].next /\ l.st[j].next # NoTime /\ disk' \in {disk, st}
      BY <1>1, <1>2, <1>5, <2>4, <2>5, TickLoads
    <2>7. st[j].next = disk[j].next
      BY <1>1, <2>2, <2>3, <2>6, NextKept
    <2>8. QED BY <1>4, <2>6, <2>7
  <1>10. ASSUME NEW s \in Services, TickFinds(s) PROVE FALSE
    <2>1. PICK l \in Reloaded(s) : Persist(s, l, Marked(l.st))
      BY <1>10 DEF TickFinds, SaveMarks, Due, Marked
    <2>2. l \in Loads /\ l.st \in Stores
      BY <1>1, Loaded DEF CTyped, Loads
    <2>3. PICK st \in Stores : st = Marked(l.st)
      BY <1>1, <2>2, MarkedStore
    <2>4. Written(s, l, st)
      BY <1>1, <2>1, <2>2, <2>3, Saved
    <2>5. armed[s]
      BY <1>10 DEF TickFinds
    <2>6. l.st[j] # NoJob /\ l.st[j].next = disk[j].next /\ l.st[j].next # NoTime /\ disk' \in {disk, st}
      BY <1>1, <1>2, <1>5, <2>4, <2>5, TickLoads
    <2>7. st[j].next = disk[j].next
      BY <1>1, <2>2, <2>3, <2>6, NextKept
    <2>8. QED BY <1>4, <2>6, <2>7
  <1>11. ASSUME NEW s \in Services, TickApplies(s) PROVE FALSE
    <2>1. PICK l \in Reloaded(s) : Persist(s, l, RecomputeForMaintenance(WithResults(s, l.st)))
      BY <1>11 DEF TickApplies, AfterTick
    <2>2. l \in Loads /\ l.st \in Stores
      BY <1>1, Loaded DEF CTyped, Loads
    <2>3. PICK a \in Stores : a = WithResults(s, l.st)
      BY <1>1, <2>2, AppliedStore
    <2>4. PICK st \in Stores : st = RecomputeForMaintenance(a)
      BY <1>1, Recomputed
    <2>5. Written(s, l, st)
      BY <1>1, <2>1, <2>2, <2>3, <2>4, Saved
    <2>6. tick[s] # NewTick
      BY <1>1, <1>11, TickSteps
    <2>7. l.st[j] # NoJob /\ l.st[j].next = disk[j].next /\ l.st[j].next # NoTime /\ disk' \in {disk, st}
      BY <1>1, <1>2, <1>5, <2>5, <2>6, TickLoads
    <2>8. a[j] = l.st[j]
      BY <1>1, <1>7, <2>2, <2>3, AppliedStore
    <2>9. st[j].next = disk[j].next
      BY <1>1, <2>4, <2>7, <2>8, NextKept
    <2>10. QED BY <1>4, <2>7, <2>9
  <1>12. ASSUME ReadJobs PROVE FALSE
    <2>1. current \in started
      BY <1>12 DEF ReadJobs, Request
    <2>2. PICK l : l = InMemory(current)
      OBVIOUS
    <2>3. l.st = mem[current] /\ l.disk = disk /\ mem[current] \in Stores
      BY <1>1, <2>2 DEF InMemory
    <2>4. PICK st \in Stores : st = RecomputeForMaintenance(mem[current])
      BY <1>1, <2>3, Recomputed
    <2>5. PersistIfChanged(current, l, st)
      BY <1>12, <2>2, <2>4 DEF ReadJobs
    <2>6. CASE OneService
      <3>1. l \in Loads /\ Agree(mem[current], disk)
        BY <1>1, <1>2, <2>1, <2>2, <2>3, <2>6, LoadUnclaimed
      <3>2. Written(current, l, st)
        BY <1>1, <2>5, <3>1, Saved
      <3>3. disk' \in {disk, st}
        BY <1>1, <1>2, <2>1, <2>2, <2>6, <3>2, WrittenAgrees
      <3>4. mem[current][j] # NoJob /\ mem[current][j].next = disk[j].next
        BY <1>3, <3>1 DEF Agree
      <3>5. st[j].next = disk[j].next
        BY <1>1, <1>3, <2>3, <2>4, <3>4, NextKept
      <3>6. QED BY <1>4, <3>3, <3>5
    <2>7. CASE OneDocument /\ now <= STUCK_RUN_TIME + 1
      <3>1. ~Beginning(current)
        BY <1>1, <2>1 DEF Beginning, Order
      <3>2. st = mem[current]
        BY <1>1, <2>3, <2>4, <2>7, <3>1, MaintenanceKeeps DEF OneDocument
      <3>3. disk' = disk
        BY <2>3, <2>5, <3>2 DEF PersistIfChanged, Keep
      <3>4. QED BY <1>6, <3>3
    <2>8. QED BY <1>5, <2>6, <2>7
  <1>13. ASSUME NEW k \in Jobs, NEW r, NEW st \in Stores, st = [mem[current] EXCEPT ![k] = r], Edit(st), Request,
                k # j \/ r = NoJob
         PROVE  FALSE
    <2>1. current \in started /\ LockIsFree /\ edits' = edits + 1
      BY <1>13 DEF Request, Edit
    <2>2. edits \in Nat
      BY <1>1 DEF CTyped, Counted
    <2>3. OneService
      BY <1>5, <2>1, <2>2
    <2>4. PICK l : l = InMemory(current)
      OBVIOUS
    <2>5. l.st = mem[current] /\ mem[current] \in Stores
      BY <1>1, <2>4 DEF InMemory
    <2>6. Agree(mem[current], disk)
      BY <1>1, <1>2, <2>1, <2>3, <2>4, <2>5, LoadUnclaimed
    <2>7. Written(current, l, st)
      BY <1>1, <1>13, <2>1, <2>4, Edited
    <2>8. disk' \in {disk, st}
      BY <1>1, <1>2, <2>1, <2>3, <2>4, <2>7, WrittenAgrees
    <2>9. st[j].next = disk[j].next \/ st[j] = NoJob
      BY <1>3, <1>13, <2>5, <2>6 DEF Agree, Stores
    <2>10. QED BY <1>2, <1>4, <2>8, <2>9
  <1>14. ASSUME NEW k \in Jobs, NEW patch \in Patches, UpdateJob(k, patch) PROVE FALSE
    <2>1. k # j
      BY <1>8, <1>14
    <2>2. mem[current] \in Stores /\ mem[current][k] # NoJob
      BY <1>1, <1>14 DEF UpdateJob
    <2>3. PICK r \in Records : r = Patched(k, mem[current][k], patch)
      BY <1>1, <2>2, PatchedRecord DEF Stores
    <2>4. PICK st \in Stores : st = [mem[current] EXCEPT ![k] = r]
      BY <2>2 DEF Stores
    <2>5. Edit(st) /\ Request
      BY <1>14, <2>3, <2>4 DEF UpdateJob, Patched
    <2>6. QED BY <1>13, <2>1, <2>4, <2>5
  <1>15. ASSUME NEW k \in Jobs, RemoveJob(k) PROVE FALSE
    <2>1. PICK st \in Stores : st = [mem[current] EXCEPT ![k] = NoJob]
      BY <1>1 DEF Stores
    <2>2. QED BY <1>13, <1>15, <2>1 DEF RemoveJob
  <1>16. ASSUME NEW s \in Services,
               \/ TickFindsNothing(s) \/ TickFinds(s) \/ TickTimesOut(s) \/ TickApplies(s) \/ Start(s)
               \/ \E i \in Jobs : TickExecutes(s, i)
               \/ \E o \in Ends : TickExecuted(s, o)
         PROVE  FALSE
    <2>1. ~(\/ TickTimesOut(s) \/ Start(s) \/ (\E i \in Jobs : TickExecutes(s, i))
            \/ \E o \in Ends : TickExecuted(s, o))
      BY <1>6 DEF TickTimesOut, Start, TickExecutes, TickExecuted
    <2>2. QED BY <1>9, <1>10, <1>11, <1>16, <2>1
  <1>17. ASSUME NEW i \in Jobs,
               \/ AddJob(i) \/ RemoveJob(i) \/ StartExecutes(i)
               \/ \E patch \in Patches : UpdateJob(i, patch)
               \/ \E forced \in BOOLEAN : RunJob(i, forced)
         PROVE  FALSE
    <2>1. ~(StartExecutes(i) \/ \E forced \in BOOLEAN : RunJob(i, forced))
      BY <1>6 DEF StartExecutes, RunJob
    <2>2. QED BY <1>14, <1>15, <1>17, <2>1
  <1>18. ASSUME NEW o \in Ends, StartExecuted(o) PROVE FALSE
    BY <1>6, <1>18 DEF StartExecuted
  <1>19. CASE Reload \/ Crash \/ ClockMoves \/ UNCHANGED cronVars
    BY <1>6, <1>19 DEF Reload, Crash, ClockMoves, cronVars
  <1>20. QED BY <1>12, <1>16, <1>17, <1>18, <1>19, Zenon DEF CronNext

\* A tick, a read, an edit or a removal of another job never moves a job on that is due,
\* without executing it (recomputeNextRunsForMaintenance); only adding a job, and the end
\* of a run on request or of a start, do (recomputeNextRuns).
THEOREM SkipsNothing == CronSpec => TicksSkipNothing
  <1>1. CronInv /\ [CronNext]_cronVars =>
          [\A j \in Jobs : Skipped(j) => Accounted(j) \/ StartEnds \/ (\E k \in Jobs : AddJob(k))
                                                      \/ (\E o \in Ends : RunEnds(o))]_cronVars
    BY StepSkipsNothing
  <1>2. QED BY <1>1, CronInvariant, PTL DEF CronSpec, TicksSkipNothing
================================================================================
