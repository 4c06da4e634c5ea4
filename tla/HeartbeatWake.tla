----------------------------- MODULE HeartbeatWake -----------------------------
(***************************************************************************)
(* Waking the heartbeat, src/src/infra/heartbeat-wake.ts.                  *)
(*                                                                         *)
(* Requests leave a pending wake for their target, the one of the highest  *)
(* priority, and one timer, which coalesces them.  When it fires, all the  *)
(* pending wakes are handed to the handler, one after the other; a wake    *)
(* that is answered with "requests in flight" is queued again, and so is   *)
(* the whole batch if the handler throws, to be retried after a cooldown.  *)
(* An in-process restart registers a new handler, while a call of the old  *)
(* one may still be going on, and may dispose of the old handler late.     *)
(*                                                                         *)
(* What runs between two awaits is one action.  The timer holds the time   *)
(* that is left, so that no clock is needed; it may fire late.  A wake is  *)
(* the priority of its reason.  The order within a batch is left open.     *)
(***************************************************************************)
EXTENDS Integers, FiniteSets

CONSTANTS
  Targets,              \* an agent and a session
  Priorities,           \* of the reasons, REASON_PRIORITY
  DEFAULT_COALESCE, DEFAULT_RETRY,
  MaxRequests, MaxRegistrations   \* bounds

ASSUME DelaysAssumption ==
  DEFAULT_COALESCE \in Nat /\ DEFAULT_RETRY \in Nat /\ DEFAULT_COALESCE < DEFAULT_RETRY
ASSUME PrioritiesAssumption == Priorities \subseteq Nat /\ Priorities # {}
ASSUME BoundsAssumption == MaxRequests \in Nat /\ MaxRegistrations \in Nat

VARIABLES
  handler,      \* the generation of the handler, 0 if there is none
  generation,   \* handlerGeneration
  registered, disposed,   \* history: generations of handlers, and those disposed of
  pendingWakes, \* the priority of the pending wake of each target, or NoWake
  scheduled, running,
  timer,        \* its time left, kind and delay
  batches,      \* callbacks of the timer that are calling a handler
  requests,     \* counts the requests, for the bound
  unserved,     \* history: requests that no call made after them has answered
  cool          \* history: time left of the cooldown of each target for which the timer was set

vars == <<handler, generation, registered, disposed, pendingWakes, scheduled, running,
          timer, batches, requests, unserved, cool>>
handlerVars == <<handler, generation, registered, disposed>>

NoWake  == -1
NoTimer == [left |-> 0, kind |-> "none", delay |-> 0]
Delays  == {0, DEFAULT_COALESCE}     \* coalesceMs of the requests

\* More callbacks than this are never under way.
Slots == 1..(MaxRegistrations + 1)
None  == [t \in Targets |-> NoWake]
Idle  == [by |-> 0, wakes |-> None, left |-> {}, at |-> {}, delay |-> 0, covers |-> {}]

Higher(p, q) == IF p > q THEN p ELSE q

\* queuePendingWakeReason, for all of wakes.  At equal priority the later reason
\* replaces the earlier.
Queue(pending, wakes) == [t \in Targets |-> Higher(pending[t], wakes[t])]

\* Mutant: a request that wants to be served sooner replaces a timer of either kind.
Schedule_Preempts(tm, delay, kind) ==
  IF tm # NoTimer /\ tm.left <= delay THEN tm ELSE [left |-> delay, kind |-> kind, delay |-> delay]

\* schedule
Schedule(tm, delay, kind) ==
  IF tm.kind = "retry" \/ (tm # NoTimer /\ tm.left <= delay) THEN tm
  ELSE [left |-> delay, kind |-> kind, delay |-> delay]

\* The wakes of the targets ts.
Of(wakes, ts) == [t \in Targets |-> IF t \in ts THEN wakes[t] ELSE NoWake]

\* The history: the cooldown of the targets ts counts if their retry sets the timer.
Cooled(ts) ==
  [t \in Targets |-> IF t \in ts /\ timer = NoTimer THEN DEFAULT_RETRY ELSE cool[t]]

Covered(t) == {r \in unserved : r.target = t}

-----------------------------------------------------------------------------
\* requestHeartbeatNow
RequestHeartbeatNow(t, priority, coalesce) ==
  /\ requests < MaxRequests /\ requests' = requests + 1
  /\ pendingWakes' = Queue(pendingWakes, [None EXCEPT ![t] = priority])
  /\ timer' = Schedule(timer, coalesce, "normal")
  /\ unserved' = unserved \cup {[target |-> t, priority |-> priority, n |-> requests']}
  /\ UNCHANGED <<handlerVars, scheduled, running, batches, cool>>

TimePasses ==
  /\ timer.left > 0 \/ \E t \in Targets : cool[t] > 0
  /\ timer' = [timer EXCEPT !.left = IF @ > 0 THEN @ - 1 ELSE 0]
  /\ cool' = [t \in Targets |-> IF cool[t] > 0 THEN cool[t] - 1 ELSE 0]
  /\ UNCHANGED <<handlerVars, pendingWakes, scheduled, running, batches, requests, unserved>>

Fires == timer # NoTimer /\ timer.left = 0

\* Without a handler, or with nothing to do, the timer only goes out.
FireInVain ==
  /\ Fires /\ (handler = 0 \/ (~running /\ pendingWakes = None))
  /\ timer' = NoTimer /\ scheduled' = FALSE
  /\ UNCHANGED <<handlerVars, pendingWakes, running, batches, requests, unserved, cool>>

\* The timer is set again, with its own delay and kind.
FireDuringRun ==
  /\ Fires /\ handler # 0 /\ running
  /\ scheduled' = TRUE /\ timer' = Schedule(NoTimer, timer.delay, timer.kind)
  /\ UNCHANGED <<handlerVars, pendingWakes, running, batches, requests, unserved, cool>>

\* All pending wakes become the batch, and the first of them is handed over.
FireRuns(b) ==
  LET ts == {t \in Targets : pendingWakes[t] # NoWake}
  IN  /\ Fires /\ handler # 0 /\ ~running /\ ts # {} /\ batches[b] = Idle
      /\ timer' = NoTimer /\ scheduled' = FALSE /\ running' = TRUE
      /\ pendingWakes' = None
      /\ \E t \in ts :
           batches' = [batches EXCEPT ![b] =
             [by |-> handler, wakes |-> pendingWakes,
              left |-> ts \ {t}, at |-> {t}, delay |-> timer.delay, covers |-> Covered(t)]]
      /\ UNCHANGED <<handlerVars, requests, unserved, cool>>

\* The loop goes on to the wake of t.
NextCall(batch, t) == [batch EXCEPT !.at = {t}, !.left = @ \ {t}, !.covers = Covered(t)]

\* The finally block.
Finally(b, pending, tm) ==
  /\ running' = FALSE
  /\ batches' = [batches EXCEPT ![b] = Idle]
  /\ timer' = IF scheduled \/ pending # None
              THEN Schedule(tm, batches[b].delay, "normal") ELSE tm

\* The call of batch b returns; the next one follows at once.
CallReturns(b, answer) ==
  LET batch   == batches[b]
      again   == IF answer = "requests-in-flight" THEN batch.at ELSE {}
      pending == Queue(pendingWakes, Of(batch.wakes, again))
      tm      == IF again = {} THEN timer ELSE Schedule(timer, DEFAULT_RETRY, "retry")
  IN  /\ batch # Idle
      /\ pendingWakes' = pending
      /\ unserved' = IF again = {} THEN unserved \ batch.covers ELSE unserved
      /\ cool' = Cooled(again)
      /\ \/ batch.left = {} /\ Finally(b, pending, tm)
         \/ /\ timer' = tm
            /\ \E t \in batch.left :
                 batches' = [batches EXCEPT ![b] = NextCall(batch, t)]
            /\ UNCHANGED running
      /\ UNCHANGED <<handlerVars, scheduled, requests>>

\* Mutant: only the wake of the call that threw is queued again.
CallThrows_One(b) ==
  LET pending == Queue(pendingWakes, Of(batches[b].wakes, batches[b].at))
  IN  /\ batches[b] # Idle
      /\ pendingWakes' = pending
      /\ cool' = Cooled(batches[b].at)
      /\ Finally(b, pending, Schedule(timer, DEFAULT_RETRY, "retry"))
      /\ UNCHANGED <<handlerVars, scheduled, requests, unserved>>

\* The whole batch is queued again, also what has been answered.
CallThrows(b) ==
  LET pending == Queue(pendingWakes, batches[b].wakes)
  IN  /\ batches[b] # Idle
      /\ pendingWakes' = pending
      /\ cool' = Cooled({t \in Targets : batches[b].wakes[t] # NoWake})
      /\ Finally(b, pending, Schedule(timer, DEFAULT_RETRY, "retry"))
      /\ UNCHANGED <<handlerVars, scheduled, requests, unserved>>

-----------------------------------------------------------------------------
\* Mutant: a new handler keeps the state of a run that was interrupted.
SetHeartbeatWakeHandler_Keeps ==
  /\ Cardinality(registered) < MaxRegistrations
  /\ generation' = generation + 1 /\ handler' = generation'
  /\ registered' = registered \cup {generation'}
  /\ timer' = IF pendingWakes # None
              THEN Schedule(timer, DEFAULT_COALESCE, "normal") ELSE timer
  /\ cool' = [t \in Targets |-> 0]
  /\ UNCHANGED <<disposed, pendingWakes, scheduled, running, batches, requests, unserved>>

\* setHeartbeatWakeHandler, of the new lifecycle.
SetHeartbeatWakeHandler ==
  /\ Cardinality(registered) < MaxRegistrations
  /\ generation' = generation + 1 /\ handler' = generation'
  /\ registered' = registered \cup {generation'}
  /\ timer' = IF pendingWakes # None
              THEN Schedule(NoTimer, DEFAULT_COALESCE, "normal") ELSE NoTimer
  /\ running' = FALSE /\ scheduled' = FALSE
  /\ cool' = [t \in Targets |-> 0]
  /\ UNCHANGED <<disposed, pendingWakes, batches, requests, unserved>>

\* Mutant: a stale disposer still counts a generation.
Dispose_Counts(g) ==
  /\ g \in registered \ disposed /\ disposed' = disposed \cup {g}
  /\ generation' = generation + 1 /\ handler' = IF g = generation THEN 0 ELSE handler
  /\ UNCHANGED <<registered, pendingWakes, scheduled, running, timer, batches, requests, unserved, cool>>

\* The disposer that the registration of generation g returned.
Dispose(g) ==
  /\ g \in registered \ disposed /\ disposed' = disposed \cup {g}
  /\ IF g = generation THEN generation' = generation + 1 /\ handler' = 0
     ELSE UNCHANGED <<generation, handler>>
  /\ UNCHANGED <<registered, pendingWakes, scheduled, running, timer, batches, requests, unserved, cool>>

-----------------------------------------------------------------------------
Init ==
  /\ handler = 0 /\ generation = 0 /\ registered = {} /\ disposed = {}
  /\ pendingWakes = None
  /\ scheduled = FALSE /\ running = FALSE /\ timer = NoTimer
  /\ batches = [b \in Slots |-> Idle]
  /\ requests = 0 /\ unserved = {} /\ cool = [t \in Targets |-> 0]

Next ==
  \/ \E t \in Targets, p \in Priorities, c \in Delays : RequestHeartbeatNow(t, p, c)
  \/ TimePasses \/ FireInVain \/ FireDuringRun
  \/ \E b \in Slots :
       \/ FireRuns(b) \/ CallThrows(b)
       \/ \E answer \in {"answered", "requests-in-flight"} : CallReturns(b, answer)
  \/ SetHeartbeatWakeHandler
  \/ \E g \in registered : Dispose(g)

Spec == Init /\ [][Next]_vars

CallEnds(b) ==
  \/ CallThrows(b) \/ \E answer \in {"answered", "requests-in-flight"} : CallReturns(b, answer)

\* Timers fire, and the calls of the present handler end; a call that a restart has
\* interrupted may hang for ever.
Fairness ==
  /\ WF_vars(TimePasses)
  /\ WF_vars(FireInVain \/ FireDuringRun \/ \E b \in Slots : FireRuns(b))
  /\ \A b \in Slots : WF_vars(batches[b].by = handler /\ CallEnds(b))

FairSpec == Spec /\ Fairness

-----------------------------------------------------------------------------
Requests == [target : Targets, priority : Priorities, n : 1..MaxRequests]
Wakes == [Targets -> Priorities \cup {NoWake}]

\* The types, and that there is a handler only at the present generation, so that a late
\* disposer of an earlier one cannot remove it.
TypeOK ==
  /\ generation \in Nat /\ handler \in {0, generation}
  /\ registered \subseteq 1..generation /\ disposed \subseteq registered
  /\ pendingWakes \in Wakes /\ scheduled \in BOOLEAN /\ running \in BOOLEAN
  /\ timer \in [left : 0..DEFAULT_RETRY, kind : {"normal", "retry"}, delay : 0..DEFAULT_RETRY]
               \cup {NoTimer}
  /\ batches \in [Slots -> [by : Nat, wakes : Wakes, left : SUBSET Targets, at : SUBSET Targets,
                            delay : 0..DEFAULT_RETRY, covers : SUBSET Requests]]
  /\ requests \in 0..MaxRequests /\ unserved \subseteq Requests
  /\ cool \in [Targets -> 0..DEFAULT_RETRY]

\* A request is not lost, and its priority neither: until a call made after it has been
\* answered, a wake of its target is pending or in a batch, at its priority or above.
NothingLost ==
  \A r \in unserved :
    \/ pendingWakes[r.target] >= r.priority
    \/ \E b \in Slots :
         /\ batches[b].wakes[r.target] >= r.priority
         /\ r.target \in batches[b].left \/ r \in batches[b].covers

\* The cooldown is "a hard minimum delay" (comment in schedule): once the timer has been set for the
\* retry of a target, neither new requests nor the end of the run make it earlier.
CooldownKept ==
  [][\A b \in Slots, t \in Targets :
       FireRuns(b) /\ pendingWakes[t] # NoWake => cool[t] = 0]_vars

\* A pending wake is handed over as long as a handler is registered, also when a run of
\* the lifecycle before it never ends.
WakeHandedOver ==
  \A t \in Targets : handler # 0 /\ pendingWakes[t] # NoWake ~> handler = 0 \/ pendingWakes[t] = NoWake
=============================================================================
