----------------------------- MODULE SessionRuns -----------------------------
(***************************************************************************)
(* Agent runs over the command lanes, and in-process restarts.             *)
(*                                                                         *)
(* runEmbeddedPiAgent (src/src/agents/pi-embedded-runner/run.ts) enqueues  *)
(* a run in the lane of its session; the task of that lane enqueues it in  *)
(* a global lane (main, cron, subagent, nested), and only the task of the  *)
(* global lane does the work, in attempts that are registered in           *)
(* ACTIVE_EMBEDDED_RUNS (runs.ts).  A SIGUSR1 restart                      *)
(* (src/src/cli/gateway-cli/run-loop.ts) waits for the tasks active when   *)
(* it was requested, closes the server and resets all lanes, while runs    *)
(* that are still under way go on.                                         *)
(*                                                                         *)
(* The lanes are those of LaneState; the synchronous chain from the start  *)
(* of a session task to the start of its global task is one step.          *)
(***************************************************************************)
EXTENDS LaneState

CONSTANTS
  SessionOf,     \* the session lane of a run
  GlobalOf,      \* the global lane of a run
  Limits,        \* maxConcurrent of every global lane
  MaxRestarts,   \* bound: in-process restarts
  Outlasts,      \* TRUE if a run may outlast DRAIN_TIMEOUT_MS
  NoRun          \* stands for no handle

ASSUME LanesAssumption ==
  /\ DOMAIN SessionOf = Tasks /\ DOMAIN GlobalOf = Tasks
  /\ \A r, q \in Tasks : SessionOf[r] # GlobalOf[q]
  /\ \A r \in Tasks : GlobalOf[r] \in DOMAIN Limits /\ Limits[GlobalOf[r]] \in Nat \ {0}
ASSUME RestartsAssumption == MaxRestarts \in Nat /\ Outlasts \in BOOLEAN /\ NoRun \notin Tasks

Runs     == Tasks
Sessions == {SessionOf[r] : r \in Runs}
Globals  == {GlobalOf[r] : r \in Runs}
Lanes    == Sessions \cup Globals

VARIABLES
  lanes,      \* the lanes map
  phase,      \* what has become of a run
  born,       \* the generation of its session lane and of its global lane
  handle,     \* ACTIVE_EMBEDDED_RUNS: the registered run of a session, or NoRun
  gateway,    \* the run loop: "up", "draining" or "closing"
  snapshot,   \* activeAtStart of the drain: pairs of lane and run
  restarts,
  asked,      \* history: the runs in the order they were asked for
  begun       \* history: the runs whose global task has begun

vars == <<lanes, phase, born, handle, gateway, snapshot, restarts, asked, begun>>

Phases == {"new", "waitSession", "waitGlobal", "running", "attempt", "leaving", "done"}

Init ==
  /\ lanes = [l \in Lanes |-> IF l \in Globals THEN [NewLane EXCEPT !.maxConcurrent = Limits[l]]
                              ELSE NewLane]
  /\ phase  = [r \in Runs |-> "new"]
  /\ born   = [r \in Runs |-> [session |-> 0, global |-> 0]]
  /\ handle = [s \in Sessions |-> NoRun]
  /\ gateway = "up" /\ snapshot = {} /\ restarts = 0
  /\ asked = <<>> /\ begun = {}

-----------------------------------------------------------------------------
\* Lanes ls, in which the session lanes have been pumped and have started the runs
\* of joins, listed for each global lane in the order of their start: they are pushed
\* on that lane, and those lanes and the lanes pumped are pumped.  ph are the phases
\* before that.
Proceed(ls, joins, pumped, ph) ==
  LET started   == UNION {Entries(joins[g]) : g \in Globals}
      pushed(g) == [ls[g] EXCEPT !.queue = @ \o joins[g]]
      touched   == pumped \cup {g \in Globals : joins[g] # <<>>}
      begins    == UNION {Entries(Starting(pushed(g))) : g \in touched}
  IN  /\ lanes' = [l \in Lanes |-> IF l \in touched THEN Pump(pushed(l)) ELSE ls[l]]
      /\ phase' = [r \in Runs |-> IF r \in begins THEN "running"
                                  ELSE IF r \in started THEN "waitGlobal" ELSE ph[r]]
      /\ born' = [r \in Runs |->
                    [session |-> IF r \in started THEN ls[SessionOf[r]].generation
                                 ELSE born[r].session,
                     global  |-> IF r \in begins THEN ls[GlobalOf[r]].generation
                                 ELSE born[r].global]]
      /\ begun' = begun \cup begins

\* Nothing joins a global lane, or what a session lane starts: one run at most.
Nobody   == [g \in Globals |-> <<>>]
Joins(q) == [g \in Globals |-> IF q # <<>> /\ GlobalOf[Head(q)] = g THEN q ELSE <<>>]

\* A message, a cron job or a subagent asks for a run.
RunEmbeddedPiAgent(r) ==
  /\ phase[r] = "new"
  /\ LET s == SessionOf[r]
         lane == Push(lanes[s], r)
     IN  Proceed([lanes EXCEPT ![s] = Pump(lane)], Joins(Starting(lane)), {},
                 [phase EXCEPT ![r] = "waitSession"])
  /\ asked' = Append(asked, r)
  /\ UNCHANGED <<handle, gateway, snapshot, restarts>>

\* setActiveEmbeddedRun: a run registers each of its attempts, over any other.
AttemptBegins(r) ==
  /\ phase[r] = "running"
  /\ phase'  = [phase EXCEPT ![r] = "attempt"]
  /\ handle' = [handle EXCEPT ![SessionOf[r]] = r]
  /\ UNCHANGED <<lanes, born, gateway, snapshot, restarts, asked, begun>>

\* clearActiveEmbeddedRun, unless another handle has replaced this one.
AttemptEnds(r) ==
  /\ phase[r] = "attempt"
  /\ phase'  = [phase EXCEPT ![r] = "running"]
  /\ handle' = [handle EXCEPT ![SessionOf[r]] = IF @ = r THEN NoRun ELSE @]
  /\ UNCHANGED <<lanes, born, gateway, snapshot, restarts, asked, begun>>

\* The task of the global lane settles.  Of an old generation it changes no lane.
RunSettles(r) ==
  /\ phase[r] = "running"
  /\ LET g  == GlobalOf[r]
         ph == [phase EXCEPT ![r] = "leaving"]
     IN  IF born[r].global = lanes[g].generation
         THEN Proceed([lanes EXCEPT ![g] = CompleteTask(@, r)], Nobody, {g}, ph)
         ELSE Proceed(lanes, Nobody, {}, ph)
  /\ UNCHANGED <<handle, gateway, snapshot, restarts, asked>>

\* The task of the session lane settles, a microtask later.
SessionSettles(r) ==
  /\ phase[r] = "leaving"
  /\ LET s == SessionOf[r]
         lane == CompleteTask(lanes[s], r)
         ph == [phase EXCEPT ![r] = "done"]
     IN  IF born[r].session = lanes[s].generation
         THEN Proceed([lanes EXCEPT ![s] = Pump(lane)], Joins(Starting(lane)), {}, ph)
         ELSE Proceed(lanes, Nobody, {}, ph)
  /\ UNCHANGED <<handle, gateway, snapshot, restarts, asked>>

\* Interrupt mode, and a stop or reset of the session: what waits for the session
\* lane is rejected.  The abort of the registered run only makes it end sooner.
ClearSessionLane(s) ==
  /\ lanes[s].queue # <<>>
  /\ lanes' = [lanes EXCEPT ![s] = Clear(@)]
  /\ phase' = [r \in Runs |-> IF r \in Entries(lanes[s].queue) THEN "done" ELSE phase[r]]
  /\ UNCHANGED <<born, handle, gateway, snapshot, restarts, asked, begun>>

-----------------------------------------------------------------------------
\* The run loop.

Active == {p \in Lanes \X Runs : p[2] \in lanes[p[1]].active}   \* pairs of lane and run

RequestRestart ==
  /\ gateway = "up" /\ restarts < MaxRestarts
  /\ restarts' = restarts + 1
  /\ snapshot' = Active
  /\ gateway' = IF Active = {} THEN "closing" ELSE "draining"
  /\ UNCHANGED <<lanes, phase, born, handle, asked, begun>>

\* A poll of waitForActiveTasks finds none of those tasks, or the deadline passed.
Drained ==
  /\ gateway = "draining"
  /\ Active \cap snapshot = {} \/ Outlasts
  /\ gateway' = "closing" /\ snapshot' = {}
  /\ UNCHANGED <<lanes, phase, born, handle, restarts, asked, begun>>

\* The orders in which runs R may be started.
Orders(R) == {o \in [1 .. Cardinality(R) -> R] : \A i, j \in DOMAIN o : o[i] = o[j] => i = j}

\* Mutant: the queues of the lanes are dropped with their active tasks.
ResetAllLanes_DropsQueues ==
  /\ gateway = "closing" /\ gateway' = "up"
  /\ lanes' = [l \in Lanes |-> Clear(Reset(lanes[l]))]
  /\ UNCHANGED <<phase, born, begun, handle, snapshot, restarts, asked>>

\* The server has closed and the loop starts again: resetAllLanes.
ResetAllLanes ==
  /\ gateway = "closing" /\ gateway' = "up"
  /\ LET reset == [l \in Lanes |-> Reset(lanes[l])]
         \* The first run of each session waiting, by global lane.
         next(g) == {r \in Runs : /\ GlobalOf[r] = g /\ reset[SessionOf[r]].queue # <<>>
                                  /\ r = Head(reset[SessionOf[r]].queue)}
     IN  \E joins \in [Globals -> UNION {Orders(next(g)) : g \in Globals}] :
           /\ \A g \in Globals : joins[g] \in Orders(next(g))
           /\ Proceed([l \in Lanes |-> IF l \in Sessions THEN Pump(reset[l]) ELSE reset[l]],
                      joins, Globals, phase)
  /\ UNCHANGED <<handle, snapshot, restarts, asked>>

-----------------------------------------------------------------------------
Progress(r) == AttemptEnds(r) \/ RunSettles(r) \/ SessionSettles(r)

Next ==
  \/ \E r \in Runs : RunEmbeddedPiAgent(r) \/ AttemptBegins(r) \/ Progress(r)
  \/ \E s \in Sessions : ClearSessionLane(s)
  \/ RequestRestart \/ Drained \/ ResetAllLanes

Spec == Init /\ [][Next]_vars

\* Attempts end (they have a timeout), a run does not try for ever, and the task of the
\* session lane settles.  The last two are SF_vars(RunSettles(r)), which is enabled while
\* r is running, and WF_vars(SessionSettles(r)), the only way out of leaving, written
\* without ENABLED of Proceed.
Fairness ==
  \A r \in Runs :
    /\ WF_vars(AttemptEnds(r))
    /\ <>[](phase[r] # "running") \/ []<><<phase[r] = "running" /\ phase'[r] = "leaving">>_phase
    /\ []<>(phase[r] # "leaving")

FairSpec == Spec /\ Fairness

-----------------------------------------------------------------------------
Underway(r) == phase[r] \in {"running", "attempt"}

\* The types; that a run waits in the lane its phase names and nowhere else; and that a
\* registered run has an attempt under way: a stale handle would make every later message
\* of the session wait for a run that is not there.
TypeOK ==
  /\ \A l \in Lanes : /\ lanes[l].queue \in Seq(Runs) /\ lanes[l].active \subseteq Runs
                      /\ lanes[l].maxConcurrent \in Nat \ {0}
                      /\ lanes[l].generation \in 0 .. MaxRestarts
                      /\ NoDuplicates(lanes[l].queue)
  /\ phase \in [Runs -> Phases] /\ handle \in [Sessions -> Runs \cup {NoRun}]
  /\ gateway \in {"up", "draining", "closing"} /\ snapshot \subseteq Lanes \X Runs
  /\ restarts \in 0 .. MaxRestarts /\ asked \in Seq(Runs) /\ begun \subseteq Runs
  /\ \A r \in Runs : /\ phase[r] = "waitSession" <=> r \in Entries(lanes[SessionOf[r]].queue)
                     /\ phase[r] = "waitGlobal" <=> r \in Entries(lanes[GlobalOf[r]].queue)
  /\ \A s \in Sessions : handle[s] # NoRun => phase[handle[s]] = "attempt"

\* Two runs of one session are under way together only if a restart came between
\* their starts: within one generation the session lane keeps them apart although
\* the work is done in another lane.
OneRunPerGeneration ==
  \A r, q \in Runs :
    (Underway(r) /\ Underway(q) /\ r # q /\ SessionOf[r] = SessionOf[q]) =>
      born[r].session # born[q].session

\* Runs of one session in one global lane begin in the order they were asked for,
\* across restarts too.
BeginInOrder ==
  \A i, j \in DOMAIN asked :
    (i < j /\ SessionOf[asked[i]] = SessionOf[asked[j]] /\ GlobalOf[asked[i]] = GlobalOf[asked[j]]
       /\ asked[j] \in begun) => asked[i] \in begun \/ phase[asked[i]] = "done"

\* Every run that was asked for ends: no lane stays blocked by a task of an earlier
\* lifecycle, and no session waits for a slot that was forgotten.
EveryRunEnds == \A r \in Runs : phase[r] = "waitSession" \/ phase[r] = "waitGlobal" ~> phase[r] = "done"
=============================================================================
