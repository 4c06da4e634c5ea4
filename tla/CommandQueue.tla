---------------------------- MODULE CommandQueue ----------------------------
(***************************************************************************)
(* The in-process command queue, src/src/process/command-queue.ts.         *)
(*                                                                         *)
(* Every exported function runs to completion on the one JavaScript thread *)
(* and is one action here.  What interleaves is what the event loop        *)
(* interleaves: calls from channels, cron, configuration reloads and the   *)
(* restart loop, the completion of task promises, and the 50 ms poll of    *)
(* waitForActiveTasks.  A task that was in flight when resetAllLanes ran   *)
(* keeps running: its entry stays "running" with an old generation.        *)
(***************************************************************************)
EXTENDS LaneState

CONSTANTS
  Lanes,           \* lane names
  LaneOf,          \* the lane each call names
  Limits,          \* values setCommandLaneConcurrency is called with
  MaxGeneration    \* bound: how often resetAllLanes may run

ASSUME LaneOfAssumption == LaneOf \in [Tasks -> Lanes]
ASSUME LimitsAssumption == Limits \subseteq Nat
ASSUME MaxGenerationAssumption == MaxGeneration \in Nat

VARIABLES
  lanes,    \* [Lanes -> LaneStates]: the lanes map
  status,   \* [Tasks -> Statuses]: the entry and the promise given to its caller
  born,     \* [Tasks -> Nat]: taskGeneration, captured when the entry starts
  waiter    \* the one caller of waitForActiveTasks, the gateway run loop

vars == <<lanes, status, born, waiter>>

Settled  == {"resolved", "rejected", "cleared"}
Statuses == {"new", "queued", "running"} \cup Settled
Phases   == {"idle", "polling", "drained", "timedOut"}

Init ==
  /\ lanes  = [l \in Lanes |-> NewLane]
  /\ status = [t \in Tasks |-> "new"]
  /\ born   = [t \in Tasks |-> 0]
  /\ waiter = [phase |-> "idle", activeAtStart |-> {}, expired |-> FALSE]

-----------------------------------------------------------------------------
\* drainLane(l), called when lane l is in state s: the started entries get the
\* status "running" and the lane's generation on top of the given statuses.
Drain(l, s, st) ==
  /\ lanes'  = [lanes EXCEPT ![l] = Pump(s)]
  /\ status' = [t \in Tasks |-> IF t \in Entries(Starting(s)) THEN "running" ELSE st[t]]
  /\ born'   = [t \in Tasks |-> IF t \in Entries(Starting(s)) THEN s.generation ELSE born[t]]

EnqueueCommandInLane(t) ==
  /\ status[t] = "new"
  /\ LET l == LaneOf[t]
     IN  Drain(l, Push(lanes[l], t), [status EXCEPT ![t] = "queued"])
  /\ UNCHANGED waiter

\* Mutant: a completion frees its slot but does not pump.
FinishCurrent_NoPump(t, outcome) ==
  /\ status[t] = "running"
  /\ born[t] = lanes[LaneOf[t]].generation
  /\ lanes'  = [lanes EXCEPT ![LaneOf[t]] = CompleteTask(@, t)]
  /\ status' = [status EXCEPT ![t] = outcome]
  /\ UNCHANGED <<born, waiter>>

\* The task's promise settles while its generation is the lane's.
FinishCurrent(t, outcome) ==
  /\ status[t] = "running"
  /\ born[t] = lanes[LaneOf[t]].generation
  /\ LET l == LaneOf[t]
     IN  Drain(l, CompleteTask(lanes[l], t), [status EXCEPT ![t] = outcome])
  /\ UNCHANGED waiter

\* The task was started before a reset: only its promise is settled.
FinishStale(t, outcome) ==
  /\ status[t] = "running"
  /\ born[t] # lanes[LaneOf[t]].generation
  /\ status' = [status EXCEPT ![t] = outcome]
  /\ UNCHANGED <<lanes, born, waiter>>

SetCommandLaneConcurrency(l, n) ==
  /\ Drain(l, Resize(lanes[l], n), status)
  /\ UNCHANGED waiter

ClearCommandLane(l) ==
  /\ lanes[l].queue # <<>>
  /\ status' = [t \in Tasks |-> IF t \in Entries(lanes[l].queue) THEN "cleared"
                                ELSE status[t]]
  /\ lanes'  = [lanes EXCEPT ![l] = Clear(@)]
  /\ UNCHANGED <<born, waiter>>

\* Every lane is reset first; only then are the lanes with a queue drained.
ResetAllLanes ==
  /\ \A l \in Lanes : lanes[l].generation < MaxGeneration
  /\ LET reset(l)   == Reset(lanes[l])
         starts(t)  == t \in Entries(Starting(reset(LaneOf[t])))
     IN  /\ lanes'  = [l \in Lanes |-> Pump(reset(l))]
         /\ status' = [t \in Tasks |-> IF starts(t) THEN "running" ELSE status[t]]
         /\ born'   = [t \in Tasks |-> IF starts(t) THEN reset(LaneOf[t]).generation
                                       ELSE born[t]]
  /\ UNCHANGED waiter

-----------------------------------------------------------------------------
ActiveTasks == UNION {lanes[l].active : l \in Lanes}

WaitForActiveTasks ==
  /\ waiter.phase # "polling"
  /\ waiter' = [phase |-> IF ActiveTasks = {} THEN "drained" ELSE "polling",
                activeAtStart |-> ActiveTasks, expired |-> FALSE]
  /\ UNCHANGED <<lanes, status, born>>

\* Mutant: one finished task is taken for all of them.
HasPending_All == waiter.activeAtStart # {} /\ waiter.activeAtStart \subseteq ActiveTasks

HasPending == ActiveTasks \cap waiter.activeAtStart # {}

\* A poll that finds a snapshot task still active before the deadline only
\* re-arms its timer, which changes nothing.
PollDrained ==
  /\ waiter.phase = "polling"
  /\ ~HasPending
  /\ waiter' = [waiter EXCEPT !.phase = "drained"]
  /\ UNCHANGED <<lanes, status, born>>

PollTimedOut ==
  /\ waiter.phase = "polling"
  /\ HasPending /\ waiter.expired
  /\ waiter' = [waiter EXCEPT !.phase = "timedOut"]
  /\ UNCHANGED <<lanes, status, born>>

Poll == PollDrained \/ PollTimedOut

DeadlinePasses ==
  /\ waiter.phase = "polling" /\ ~waiter.expired
  /\ waiter' = [waiter EXCEPT !.expired = TRUE]
  /\ UNCHANGED <<lanes, status, born>>

-----------------------------------------------------------------------------
Finish(t) == \E outcome \in {"resolved", "rejected"} :
               FinishCurrent(t, outcome) \/ FinishStale(t, outcome)

Next ==
  \/ \E t \in Tasks : EnqueueCommandInLane(t) \/ Finish(t)
  \/ \E l \in Lanes : ClearCommandLane(l)
                      \/ \E n \in Limits : SetCommandLaneConcurrency(l, n)
  \/ ResetAllLanes
  \/ WaitForActiveTasks \/ Poll \/ DeadlinePasses

Spec == Init /\ [][Next]_vars

\* A task of the current generation settles in the end: an agent run has its
\* own timeout.  Nothing is assumed of a task that was in flight at a reset.
TaskFairness ==
  \A t \in Tasks : WF_vars(\E o \in {"resolved", "rejected"} : FinishCurrent(t, o))

\* Timers fire.
TimerFairness == WF_vars(Poll) /\ WF_vars(DeadlinePasses)

FairSpec == Spec /\ TimerFairness
-----------------------------------------------------------------------------
\* The types of the four variables.
TypeOK ==
  /\ lanes  \in [Lanes -> LaneStates]
  /\ status \in [Tasks -> Statuses]
  /\ born   \in [Tasks -> Nat]
  /\ waiter \in [phase : Phases, activeAtStart : SUBSET Tasks, expired : BOOLEAN]

\* Slots and queues are exact, for completions, resets, clears and stale completions in
\* any order.  The slots a lane counts are its running entries of the current generation:
\* none is leaked, which would block the lane for good, and none is freed twice.  A queue
\* holds each call whose promise is open and whose task has not started, once: no call
\* of enqueueCommandInLane is forgotten, and none runs twice.
LanesAreExact ==
  \A l \in Lanes :
    /\ lanes[l].active = {t \in Tasks : /\ LaneOf[t] = l
                                        /\ status[t] = "running"
                                        /\ born[t] = lanes[l].generation}
    /\ Entries(lanes[l].queue) = {t \in Tasks : LaneOf[t] = l /\ status[t] = "queued"}
    /\ NoDuplicates(lanes[l].queue)

\* Work waits only for a free slot: whenever the thread is idle, a lane with a
\* queue has all its slots taken.  Every path that frees a slot or adds work has
\* to pump ("a future enqueueCommandInLane() call (which may never come)").
WorkConserving ==
  \A l \in Lanes :
    lanes[l].queue # <<>> => Cardinality(lanes[l].active) >= lanes[l].maxConcurrent

\* Entries start only within the concurrency their lane has at that moment, also
\* after it was lowered below the number of tasks that are running.
StartsWithinLimit ==
  [][\A l \in Lanes :
       lanes'[l].active \subseteq lanes[l].active
       \/ Cardinality(lanes'[l].active) <= lanes'[l].maxConcurrent]_vars

\* First in, first out: in one step a queue loses entries only at its front and
\* gains them only behind those that stay, so no entry overtakes another.
Fifo ==
  [][\A l \in Lanes :
       LET q == lanes[l].queue
           r == lanes'[l].queue
       IN  \E n \in 0 .. Len(q) :
             LET kept == SubSeq(q, n + 1, Len(q))
             IN  /\ Len(kept) <= Len(r) /\ SubSeq(r, 1, Len(kept)) = kept
                 /\ Entries(q) \cap Entries(r) = Entries(kept)]_vars

\* waitForActiveTasks reports drained only when every task that was active at
\* the call has settled or belongs to a generation a reset has written off,
\* whatever started, was reset or was cleared in the meantime.
DrainedMeansOver ==
  waiter.phase = "drained" =>
    \A t \in waiter.activeAtStart :
      status[t] \in Settled \/ born[t] # lanes[LaneOf[t]].generation

\* A call that is queued starts or is rejected in the end, even when the tasks
\* that were in flight at a reset never settle.
EventuallyServed ==
  TaskFairness => \A t \in Tasks : status[t] = "queued" ~> status[t] # "queued"

\* The lanes implement the contract of LaneContract.
Contract == INSTANCE LaneContract WITH
              slots <- [l \in Lanes |-> lanes[l].active],
              limit <- [l \in Lanes |-> lanes[l].maxConcurrent]
ContractSpec == Contract!Spec
=============================================================================
