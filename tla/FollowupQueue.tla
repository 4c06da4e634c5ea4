---------------------------- MODULE FollowupQueue ----------------------------
(***************************************************************************)
(* The followup queue of one session (src/src/auto-reply/reply/queue/ and  *)
(* src/src/utils/queue-helpers.ts) together with the agent runs that feed  *)
(* and drain it.                                                           *)
(*                                                                         *)
(* An inbound message reads whether a run of its session is active, awaits *)
(* (get-reply-run.ts resolves an auth profile in between), and then either *)
(* starts a run of its own or is put on the queue.  Only the end of such a *)
(* run schedules a drain.  The drain loop runs up to its next await in one *)
(* step: it awaits the debounce timer, then a followup run, then removes   *)
(* from the queue what it ran.  Between those steps everything else        *)
(* happens: arrivals, drops, changed settings, clears, other runs.         *)
(*                                                                         *)
(* clearFollowupQueue removes the queue object from the map while its      *)
(* drain loop may still hold it, so several objects can be alive at once:  *)
(* current is the one the map has.  A drop keeps the messages themselves   *)
(* where the code keeps a count and one line for each.                     *)
(***************************************************************************)
EXTENDS Naturals, Sequences, FiniteSets

CONSTANTS
  Msgs,         \* inbound messages of the session
  RouteOf,      \* where the reply to a message goes
  Unroutable,   \* the route of a message that must be answered on its own
  Settings,     \* records [mode, cap, policy] that messages bring along
  MaxFailures,  \* bound: how many followup runs may throw
  MaxClears,    \* bound: how often the session's queue may be cleared
  Foreign       \* TRUE if runs that schedule no drain may occur

ASSUME SettingsAssumption ==
  Settings \subseteq [mode : {"followup", "collect"}, cap : Nat \ {0},
                      policy : {"old", "new", "summarize"}]
ASSUME MsgsAssumption == IsFiniteSet(Msgs)
ASSUME RouteOfAssumption == Msgs \subseteq DOMAIN RouteOf
ASSUME BoundsAssumption ==
  MaxFailures \in Nat /\ MaxClears \in Nat /\ Foreign \in BOOLEAN

VARIABLES
  inbound,   \* [Msgs -> Stages]: what each message's handler is doing
  foreign,   \* TRUE while a run that schedules no drain is active
  queues,    \* [Objects -> queue object with the state of its drain loop]
  current,   \* the object FOLLOWUP_QUEUES has for the session, or None
  ran,       \* history: how many completed followup runs carried the message
  fate,      \* history: what else became of a queued message
  failures, clears

vars == <<inbound, foreign, queues, current, ran, fate, failures, clears>>

None    == 0
Objects == 1 .. Cardinality(Msgs)     \* each one is created by a message
Stages  == {"new", "sawActive", "sawIdle", "lane", "active", "ending", "done", "queued"}
Loops   == {"idle", "debounce", "lane", "active", "ending"}
Fates   == {"none", "refused", "discarded", "summarized", "cleared"}

Entries(q) == {q[i] : i \in DOMAIN q}

NewQueue == [items |-> <<>>, dropped |-> {}, mode |-> "followup", cap |-> 1,
             policy |-> "new", lastRun |-> FALSE, created |-> FALSE,
             loop |-> "idle", force |-> FALSE, batch |-> <<>>, summary |-> {}, take |-> 0]

Init ==
  /\ inbound = [m \in Msgs |-> "new"]
  /\ foreign = FALSE
  /\ queues = [o \in Objects |-> NewQueue]
  /\ current = None
  /\ ran  = [m \in Msgs |-> 0]
  /\ fate = [m \in Msgs |-> "none"]
  /\ failures = 0 /\ clears = 0

-----------------------------------------------------------------------------
\* Enqueueing.

\* applyQueueRuntimeSettings: the settings of the latest message win.
Configure(q, s) == [q EXCEPT !.mode = s.mode, !.cap = s.cap, !.policy = s.policy]

Overflows(q) == Len(q.items) >= q.cap

Refuses(q) == Overflows(q) /\ q.policy = "new"

\* The messages applyQueueDropPolicy splices off the front.
Dropped(q) ==
  IF Overflows(q) /\ q.policy # "new" THEN SubSeq(q.items, 1, Len(q.items) - q.cap + 1)
  ELSE <<>>

\* The queue after message m was put on it; lastRun is set even if m is refused.
Accept(q, m) ==
  LET d == Dropped(q)
  IN  [q EXCEPT !.lastRun = TRUE,
                !.items   = IF Refuses(q) THEN @ ELSE Append(SubSeq(@, Len(d) + 1, Len(@)), m),
                !.dropped = IF q.policy = "summarize" THEN @ \cup Entries(d) ELSE @]

\* getFollowupQueue: the object the map has, or a new one.
Target == IF current # None THEN current
          ELSE CHOOSE o \in Objects : /\ ~queues[o].created
                                      /\ \A p \in Objects : p < o => queues[p].created

-----------------------------------------------------------------------------
\* The drain loop of one queue object.

\* hasCrossChannelItems
CrossChannel(items) ==
  LET routes == {RouteOf[m] : m \in Entries(items)}
  IN  Unroutable \in routes \/ Cardinality(routes) > 1

HasSummary(q) == q.policy = "summarize" /\ q.dropped # {}

\* Mutant: the flag of an earlier mix of routes is forgotten.
OneByOne_ForgetsForce(q) == q.mode = "collect" /\ CrossChannel(q.items)

OneByOne(q)   == q.mode = "collect" /\ (q.force \/ CrossChannel(q.items))
Collects(q)   == q.mode = "collect" /\ ~OneByOne(q)

HasWork(q) == q.items # <<>> \/ q.dropped # {}

\* The loop leaves for its finally block when it finds nothing to run with.
Breaks(q) == IF Collects(q) THEN q.items = <<>> /\ ~q.lastRun ELSE q.items = <<>>

\* What the loop hands to runFollowup, and how many items it will take off the
\* front when that has returned.  In followup mode an overflow summary is run in
\* place of the first item.
Launch(q) ==
  LET run(batch, summary, take) ==
        [q EXCEPT !.loop = "lane", !.batch = batch, !.summary = summary, !.take = take,
                  !.force = @ \/ (q.mode = "collect" /\ CrossChannel(q.items))]
  IN  IF Collects(q) THEN run(q.items, IF HasSummary(q) THEN q.dropped ELSE {}, Len(q.items))
      ELSE IF q.mode # "collect" /\ HasSummary(q) THEN run(<<>>, q.dropped, 1)
      ELSE run(<<Head(q.items)>>, {}, 1)

\* The head of the while loop.
LoopHead(q) == [q EXCEPT !.loop = IF HasWork(q) THEN "debounce" ELSE "idle",
                         !.batch = <<>>, !.summary = {}, !.take = 0]

\* scheduleFollowupDrain on an object: nothing if it is draining already.
Scheduled(q) == IF q.loop # "idle" THEN q ELSE LoopHead([q EXCEPT !.force = FALSE])

\* scheduleFollowupDrain(key) when the objects are qs and the map has c.  A loop
\* with nothing to do ends at once and removes the key.
Schedule(qs, c) ==
  IF c = None THEN queues' = qs /\ current' = None
  ELSE /\ queues' = [qs EXCEPT ![c] = Scheduled(@)]
       /\ current' = IF qs[c].loop = "idle" /\ ~HasWork(qs[c]) THEN None ELSE c

\* The finally block of o's loop: it removes the key, whatever object the map has
\* by then, or schedules the object the map has.
Finally(qs, o) ==
  LET ended == [qs EXCEPT ![o].loop = "idle", ![o].batch = <<>>, ![o].summary = {}, ![o].take = 0]
  IN  IF HasWork(ended[o]) THEN Schedule(ended, current)
      ELSE queues' = ended /\ current' = None

\* The loop goes on with object o in state q, or ends.
Continue(o, q) ==
  IF HasWork(q) THEN queues' = [queues EXCEPT ![o] = LoopHead(q)] /\ UNCHANGED current
  ELSE Finally([queues EXCEPT ![o] = q], o)

-----------------------------------------------------------------------------
\* Inbound messages.

\* ACTIVE_EMBEDDED_RUNS has the session.  The session lane admits one at a time.
RunActive ==
  \/ foreign
  \/ \E m \in Msgs : inbound[m] = "active"
  \/ \E o \in Objects : queues[o].loop = "active"

ReadActive(m) ==
  /\ inbound[m] = "new"
  /\ inbound' = [inbound EXCEPT ![m] = IF RunActive THEN "sawActive" ELSE "sawIdle"]
  /\ UNCHANGED <<foreign, queues, current, ran, fate, failures, clears>>

\* After the await: the value read before it decides.
EnqueueFollowupRun(m, s) ==
  /\ inbound[m] = "sawActive"
  /\ LET o == Target
         q == Configure(queues[o], s)
     IN  /\ queues'  = [queues EXCEPT ![o] = [Accept(q, m) EXCEPT !.created = TRUE]]
         /\ current' = o
         /\ fate' = [n \in Msgs |-> IF n = m /\ Refuses(q) THEN "refused"
                                    ELSE IF n \in Entries(Dropped(q)) /\ q.policy = "old"
                                    THEN "discarded" ELSE fate[n]]
  /\ inbound' = [inbound EXCEPT ![m] = "queued"]
  /\ UNCHANGED <<foreign, ran, failures, clears>>

StartsOwnRun(m) ==
  /\ inbound[m] = "sawIdle"
  /\ inbound' = [inbound EXCEPT ![m] = "lane"]
  /\ UNCHANGED <<foreign, queues, current, ran, fate, failures, clears>>

RunBegins(m) ==
  /\ inbound[m] = "lane" /\ ~RunActive
  /\ inbound' = [inbound EXCEPT ![m] = "active"]
  /\ UNCHANGED <<foreign, queues, current, ran, fate, failures, clears>>

RunEnds(m) ==
  /\ inbound[m] = "active"
  /\ inbound' = [inbound EXCEPT ![m] = "ending"]
  /\ UNCHANGED <<foreign, queues, current, ran, fate, failures, clears>>

\* The reply has been handled: finalizeWithFollowup.
FinalizeWithFollowup(m) ==
  /\ inbound[m] = "ending"
  /\ inbound' = [inbound EXCEPT ![m] = "done"]
  /\ Schedule(queues, current)
  /\ UNCHANGED <<foreign, ran, fate, failures, clears>>

\* A run of the session started by the agent command: it schedules no drain.
ForeignBegins ==
  /\ Foreign /\ ~foreign /\ ~RunActive
  /\ foreign' = TRUE
  /\ UNCHANGED <<inbound, queues, current, ran, fate, failures, clears>>

ForeignEnds ==
  /\ foreign /\ foreign' = FALSE
  /\ UNCHANGED <<inbound, queues, current, ran, fate, failures, clears>>

-----------------------------------------------------------------------------
\* The drain loop.

DebounceElapses(o) ==
  /\ queues[o].loop = "debounce"
  /\ IF Breaks(queues[o]) THEN Finally(queues, o)
     ELSE queues' = [queues EXCEPT ![o] = Launch(@)] /\ UNCHANGED current
  /\ UNCHANGED <<inbound, foreign, ran, fate, failures, clears>>

FollowupBegins(o) ==
  /\ queues[o].loop = "lane" /\ ~RunActive
  /\ queues' = [queues EXCEPT ![o].loop = "active"]
  /\ UNCHANGED <<inbound, foreign, current, ran, fate, failures, clears>>

FollowupEnds(o) ==
  /\ queues[o].loop = "active"
  /\ queues' = [queues EXCEPT ![o].loop = "ending"]
  /\ UNCHANGED <<inbound, foreign, current, ran, fate, failures, clears>>

\* Mutants: a batch takes off all that is queued by now; one item too few goes.
Deliver_TakesAll(q) == [q EXCEPT !.items   = IF q.take > 1 THEN <<>> ELSE SubSeq(@, q.take + 1, Len(@)),
                                 !.dropped = IF q.summary # {} THEN {} ELSE @]
Deliver_LeavesOne(q) == [q EXCEPT !.items   = SubSeq(@, q.take, Len(@)),
                                  !.dropped = IF q.summary # {} THEN {} ELSE @]

\* The object after runFollowup returned: the first q.take items are taken off
\* and, if a summary went out, the summary state is cleared, both as they are now.
Deliver(q) == [q EXCEPT !.items   = SubSeq(@, q.take + 1, Len(@)),
                        !.dropped = IF q.summary # {} THEN {} ELSE @]

FollowupReturns(o) ==
  /\ queues[o].loop = "ending"
  /\ Continue(o, Deliver(queues[o]))
  /\ ran'  = [m \in Msgs |-> IF m \in Entries(queues[o].batch) THEN ran[m] + 1 ELSE ran[m]]
  /\ fate' = [m \in Msgs |-> IF m \in queues[o].summary THEN "summarized" ELSE fate[m]]
  /\ UNCHANGED <<inbound, foreign, failures, clears>>

\* Mutants: the loop ends for good; what failed is put on the queue once more.
FollowupThrows_GivesUp(o) ==
  /\ queues[o].loop = "ending" /\ failures < MaxFailures
  /\ failures' = failures + 1
  /\ queues' = [queues EXCEPT ![o].loop = "idle", ![o].batch = <<>>]
  /\ UNCHANGED <<inbound, foreign, current, ran, fate, clears>>
FollowupThrows_Requeues(o) ==
  /\ queues[o].loop = "ending" /\ failures < MaxFailures
  /\ failures' = failures + 1
  /\ Finally([queues EXCEPT ![o].items = @ \o queues[o].batch], o)
  /\ UNCHANGED <<inbound, foreign, ran, fate, clears>>

\* runFollowup rejects: nothing is taken off, the loop ends and is rescheduled.
FollowupThrows(o) ==
  /\ queues[o].loop = "ending" /\ failures < MaxFailures
  /\ failures' = failures + 1
  /\ Finally(queues, o)
  /\ UNCHANGED <<inbound, foreign, ran, fate, clears>>

\* Mutant: only the key is removed.
ClearFollowupQueue_KeepsItems ==
  /\ current # None /\ clears < MaxClears
  /\ clears' = clears + 1
  /\ LET q == queues[current]
     IN  fate' = [m \in Msgs |-> IF m \in Entries(q.items) \cup q.dropped THEN "cleared" ELSE fate[m]]
  /\ current' = None
  /\ UNCHANGED <<inbound, foreign, queues, ran, failures>>

ClearFollowupQueue ==
  /\ current # None /\ clears < MaxClears
  /\ clears' = clears + 1
  /\ LET q == queues[current]
     IN  /\ fate' = [m \in Msgs |-> IF m \in Entries(q.items) \cup q.dropped
                                    THEN "cleared" ELSE fate[m]]
         /\ queues' = [queues EXCEPT ![current] =
                         [q EXCEPT !.items = <<>>, !.dropped = {}, !.lastRun = FALSE]]
  /\ current' = None
  /\ UNCHANGED <<inbound, foreign, ran, failures>>

-----------------------------------------------------------------------------
Message(m) ==
  \/ ReadActive(m) \/ StartsOwnRun(m) \/ RunBegins(m) \/ RunEnds(m) \/ FinalizeWithFollowup(m)
  \/ \E s \in Settings : EnqueueFollowupRun(m, s)

DrainLoop(o) ==
  DebounceElapses(o) \/ FollowupBegins(o) \/ FollowupEnds(o) \/ FollowupReturns(o)

Next ==
  \/ \E m \in Msgs : Message(m)
  \/ \E o \in Objects : DrainLoop(o) \/ FollowupThrows(o)
  \/ ForeignBegins \/ ForeignEnds \/ ClearFollowupQueue

Spec == Init /\ [][Next]_vars

\* Timers fire, runs of the agent end, and a run that waits for the session lane
\* gets it although others come and go in between (the lane is first in, first out).
Fairness ==
  /\ \A o \in Objects : /\ WF_vars(DebounceElapses(o)) /\ SF_vars(FollowupBegins(o))
                        /\ WF_vars(FollowupEnds(o))    /\ WF_vars(FollowupReturns(o))
  /\ \A m \in Msgs : WF_vars(RunEnds(m))
  /\ WF_vars(ForeignEnds)

FairSpec == Spec /\ Fairness

-----------------------------------------------------------------------------
\* The types, that no queue holds a message twice, that the map has an object which
\* was created and that only a running drain loop has a batch in hand.
TypeOK ==
  /\ inbound \in [Msgs -> Stages]
  /\ foreign \in BOOLEAN
  /\ current \in Objects \cup {None}
  /\ ran \in [Msgs -> Nat]
  /\ fate \in [Msgs -> Fates]
  /\ failures \in 0 .. MaxFailures /\ clears \in 0 .. MaxClears
  /\ \A o \in Objects :
       LET q == queues[o]
       IN  /\ q.items \in Seq(Msgs) /\ q.batch \in Seq(Msgs)
           /\ q.dropped \subseteq Msgs /\ q.summary \subseteq Msgs
           /\ q.loop \in Loops /\ q.take \in Nat
           /\ {q.lastRun, q.created, q.force} \subseteq BOOLEAN
           /\ \A i, j \in DOMAIN q.items : q.items[i] = q.items[j] => i = j
           /\ o = current => q.created
           /\ q.batch # <<>> => q.loop \in {"lane", "active", "ending"}

\* The object is in the map or a drain loop still holds it.
Reachable(o) == o = current \/ queues[o].loop # "idle"

Held(m) == \E o \in Objects : Reachable(o) /\ m \in Entries(queues[o].items) \cup queues[o].dropped

\* A message put on the queue is on it until it has been run, or was refused,
\* dropped or cleared: removing what was run never removes anything else.
NothingLost ==
  \A m \in Msgs : inbound[m] = "queued" => Held(m) \/ ran[m] > 0 \/ fate[m] # "none"

\* A message whose run was completed is not run a second time, whatever failed,
\* was cleared or was enqueued while it ran.
RunOnce == \A m \in Msgs : ran[m] <= 1

\* Messages of one queue are answered in the order in which they were queued, and what
\* a stop or reset has cleared, or an overflow dropped, is not started any more, although
\* a drain loop keeps its reference to the queue across the clear.
ServedInTurn ==
  [][\A o \in Objects :
       LET q == queues[o].items
       IN  /\ \A i, j \in DOMAIN q : (i < j /\ ran'[q[j]] > ran[q[j]]) => ran'[q[i]] > 0
           /\ \A m \in Entries(queues'[o].batch) :
                m \in Entries(queues[o].batch) \/ fate[m] = "none"]_vars

\* Messages that are answered in one run have one route, and a drain that met
\* a mix of routes never collects again ("collect after shift").
RoutesNotMixed ==
  \A o \in Objects :
    LET q == queues[o]
    IN  Len(q.batch) > 1 => ~q.force /\ ~CrossChannel(q.batch)

\* A message that a drain loop has on its queue is run in the end, or dropped or
\* cleared, although runs may throw.
DrainServes ==
  \A m \in Msgs :
    (\E o \in Objects : queues[o].loop # "idle" /\ m \in Entries(queues[o].items))
      ~> (ran[m] > 0 \/ fate[m] # "none")
=============================================================================
