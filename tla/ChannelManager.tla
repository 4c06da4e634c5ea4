---------------------------- MODULE ChannelManager ----------------------------
(***************************************************************************)
(* Running a channel account, src/src/gateway/server-channels.ts, and the  *)
(* monitor that restarts it, channel-health-monitor.ts.                    *)
(*                                                                         *)
(* A start registers a task and an abort controller and runs the channel   *)
(* until it exits; then, unless it has been stopped, it is started again   *)
(* after a growing pause, a limited number of times.  A stop marks the     *)
(* account, aborts, and waits for the task.                                *)
(*                                                                         *)
(* A start is suspended between its check for a task and its effects, as   *)
(* it awaits isConfigured.  The accounts share no state, so this is one of *)
(* them, of one of three kinds: "slow" if isConfigured does I/O; "plain"   *)
(* if it does not, so that only reactions to the same event come between;  *)
(* and "hooked" if moreover the plugin has a stopAccount, for which a stop *)
(* waits first.  Two callers stop an account in order to start it again:   *)
(* the monitor, and the reload of a changed configuration.  A run is a     *)
(* task with its controller; the plugin is external: it may exit or lose   *)
(* its connection at any time, and startAccount may throw.                 *)
(***************************************************************************)
EXTENDS Integers, FiniteSets

CONSTANTS
  MAX_RESTART_ATTEMPTS,
  MaxRequests    \* bounds starts, stops, other requests and checks of the monitor

ASSUME AttemptsAssumption == MAX_RESTART_ATTEMPTS \in Nat
ASSUME BoundAssumption == MaxRequests \in Nat \ {0}

VARIABLES
  kind,
  usable,     \* enabled and configured, in the configuration
  store,      \* the run in store.tasks and the one in store.aborts, if any
  manuallyStopped,
  attempts,   \* restartAttempts
  running,    \* runtime.running
  connected,  \* what the plugin reports
  runs,       \* the phase of each run, and whether it has been aborted
  starts,     \* starts waiting for isConfigured
  stops,      \* stops under way: who called, what they wait for, the task they saw
  monitor,    \* where the health monitor is
  requests,   \* for the bound
  asked,      \* history: whether a start or a stop has been asked for last
  contended,  \* history: monitor and reload have waited for the same task
  threw       \* history: the last call of startAccount threw

vars == <<kind, usable, store, manuallyStopped, attempts, running, connected, runs,
          starts, stops, monitor, requests, asked, contended, threw>>

NoRun    == 0
Orphan   == -1   \* the controller of a start that threw: it has no task
Runs     == 1..(MaxRequests + 2)   \* more are never under way
StopIds  == 1..MaxRequests
Unused   == [phase |-> "none", aborted |-> FALSE]
Empty    == [task |-> NoRun, abort |-> NoRun]
NoStop   == [by |-> "nobody", step |-> "none", task |-> NoRun]

task     == store.task
abort    == store.abort
Live(r)  == runs[r].phase = "live"
NewRun   == CHOOSE r \in Runs : runs[r] = Unused
NewStop  == CHOOSE i \in StopIds : stops[i] = NoStop
NewRequest  == requests < MaxRequests /\ requests' = requests + 1

-----------------------------------------------------------------------------
(* Starting.                                                                 *)

\* The end of startChannelInternal: a new run, with its task and controller, beside
\* what has become of the other runs.  If startAccount throws, the controller stays.
Launch(others) ==
  /\ running' = TRUE
  /\ \/ /\ runs' = [others EXCEPT ![NewRun].phase = "live"]
        /\ store' = [task |-> NewRun, abort |-> NewRun]
        /\ connected' = TRUE /\ threw' = FALSE
     \/ /\ runs' = others /\ store' = [store EXCEPT !.abort = Orphan]
        /\ threw' = TRUE /\ UNCHANGED connected

\* startChannel, up to the wait for isConfigured.
StartChannel ==
  IF task # NoRun THEN UNCHANGED <<running, starts>>
  ELSE IF usable THEN starts' = starts + 1 /\ UNCHANGED running
  ELSE running' = FALSE /\ UNCHANGED starts

RequestStart ==
  /\ NewRequest /\ asked' = "start"
  /\ StartChannel
  /\ UNCHANGED <<kind, usable, store, manuallyStopped, attempts, connected, runs, stops, monitor,
                 contended, threw>>

\* A start that is not automatic lifts the mark of a stop, and the attempts are forgotten.
StartGoesOn ==
  /\ starts > 0 /\ starts' = starts - 1
  /\ \/ Launch(runs) /\ manuallyStopped' = FALSE /\ attempts' = 0
     \/ /\ ~usable /\ running' = FALSE
        /\ UNCHANGED <<store, runs, connected, manuallyStopped, attempts, threw>>
  /\ UNCHANGED <<kind, usable, stops, monitor, requests, asked, contended>>

-----------------------------------------------------------------------------
(* The life of a run.                                                        *)

\* Mutant: the attempts are counted but never suffice to give up.
GivesUp_Never(attempt) == FALSE

GivesUp(attempt) == attempt > MAX_RESTART_ATTEMPTS

\* The channel exits, by itself or because it has been aborted.
RunExits(r) ==
  /\ Live(r)
  /\ running' = FALSE
  /\ \/ /\ manuallyStopped
        /\ runs' = [runs EXCEPT ![r].phase = "over"] /\ UNCHANGED attempts
     \/ /\ ~manuallyStopped
        /\ attempts' = attempts + 1
        /\ runs' = [runs EXCEPT ![r].phase = IF GivesUp(attempts') THEN "over" ELSE "sleeping"]
  /\ UNCHANGED <<kind, usable, store, manuallyStopped, connected, starts, stops, monitor,
                 requests, asked, contended, threw>>

\* The abort ends the pause, and the restart with it; or the pause is over, but the
\* account has been stopped.
SleepIsOver(r) ==
  /\ runs[r].phase = "sleeping" /\ (runs[r].aborted \/ manuallyStopped)
  /\ runs' = [runs EXCEPT ![r].phase = "over"]
  /\ UNCHANGED <<kind, usable, store, manuallyStopped, attempts, running, connected, starts,
                 stops, monitor, requests, asked, contended, threw>>

\* Mutant: only the controller leaves the store; the task stays, where the restart finds it.
Cleared_Abort(r) == [store EXCEPT !.abort = IF @ = r THEN NoRun ELSE @]

\* The store after run r has taken itself out of it.
Cleared(r) ==
  [task |-> IF task = r THEN NoRun ELSE task, abort |-> IF abort = r THEN NoRun ELSE abort]

\* The restart after the pause.  It finds another task, or is refused, or waits for
\* isConfigured.
Restarts(r) ==
  /\ runs[r].phase = "sleeping" /\ ~runs[r].aborted /\ ~manuallyStopped
  /\ store' = Cleared(r)
  /\ LET starting == Cleared(r).task = NoRun /\ usable
     IN  /\ runs' = [runs EXCEPT ![r].phase = IF starting THEN "starting" ELSE "over"]
         /\ running' = (running /\ (starting \/ Cleared(r).task # NoRun))
  /\ UNCHANGED <<kind, usable, manuallyStopped, attempts, connected, starts, stops, monitor,
                 requests, asked, contended, threw>>

\* isConfigured has answered; the mark of a stop is not looked at again.
RestartGoesOn(r) ==
  /\ runs[r].phase = "starting"
  /\ LET others == [runs EXCEPT ![r].phase = "over"]
     IN  \/ Launch(others)
         \/ /\ ~usable /\ running' = FALSE /\ runs' = others
            /\ UNCHANGED <<store, connected, threw>>
  /\ UNCHANGED <<kind, usable, manuallyStopped, attempts, starts, stops, monitor, requests,
                 asked, contended>>

\* These callers of stopChannel return, with nothing in the store.  Those that mean to
\* start again do so; all of them make their check before the first of them goes on.
\* What was asked for last is otherwise as given.
Restarters == {"monitor", "reload"}

StopsReturn(callers, last) ==
  LET again == callers \cap Restarters
  IN  /\ starts' = starts + IF usable THEN Cardinality(again) ELSE 0
      /\ attempts' = IF "monitor" \in again THEN 0 ELSE attempts
      /\ monitor' = IF "monitor" \in again THEN "idle" ELSE monitor
      /\ asked' = IF again = {} THEN last ELSE "start"

Waiting(r) == {i \in StopIds : stops[i].step = "task" /\ stops[i].task = r}
Waiters(r) == {stops[i].by : i \in Waiting(r)}

\* The task of run r settles and leaves the store.  The stops that wait for it empty
\* the store, whatever is in it by then, and return.
RunSettles(r) ==
  /\ runs[r].phase = "over"
  /\ runs' = [runs EXCEPT ![r] = Unused]
  /\ store' = IF Waiting(r) = {} THEN Cleared(r) ELSE Empty
  /\ running' = (running /\ Waiting(r) = {})
  /\ stops' = [i \in StopIds |-> IF i \in Waiting(r) THEN NoStop
                                 ELSE IF stops[i].task = r THEN [stops[i] EXCEPT !.task = NoRun]
                                 ELSE stops[i]]
  /\ StopsReturn(Waiters(r), asked)
  /\ contended' = (contended \/ Restarters \subseteq Waiters(r))
  /\ UNCHANGED <<kind, usable, manuallyStopped, connected, requests, threw>>

-----------------------------------------------------------------------------
(* Stopping.                                                                 *)

\* Mutant: nothing is running, so there is nothing to stop.
NothingToStop_Running == kind # "hooked" /\ ~running

NothingToStop == kind # "hooked" /\ task = NoRun /\ abort = NoRun

\* Mutant: the stop does not wait for the task.
AfterHook_AtOnce(i, by, t, last) ==
  /\ stops' = [stops EXCEPT ![i] = NoStop]
  /\ store' = Empty /\ running' = FALSE
  /\ StopsReturn({by}, last)

\* Stop i goes on after the hook, if any: it waits for the task t that it has seen.
AfterHook(i, by, t, last) ==
  \/ /\ t # NoRun
     /\ stops' = [stops EXCEPT ![i] = [by |-> by, step |-> "task", task |-> t]]
     /\ monitor' = IF by = "monitor" THEN "stopping" ELSE monitor
     /\ asked' = last
     /\ UNCHANGED <<store, running, starts, attempts>>
  \/ /\ t = NoRun
     /\ stops' = [stops EXCEPT ![i] = NoStop]
     /\ store' = Empty /\ running' = FALSE
     /\ StopsReturn({by}, last)

\* stopChannel, called by a request, by the monitor or by the reload.
StopChannel(by, last) ==
  IF NothingToStop
  THEN /\ StopsReturn({by}, last)
       /\ running' = (running /\ (by \in Restarters => usable))
       /\ UNCHANGED <<store, manuallyStopped, runs, stops>>
  ELSE /\ manuallyStopped' = TRUE
       /\ runs' = [r \in Runs |-> IF r = abort THEN [runs[r] EXCEPT !.aborted = TRUE] ELSE runs[r]]
       /\ IF kind = "hooked"
          THEN /\ stops' = [stops EXCEPT ![NewStop] = [by |-> by, step |-> "hook", task |-> task]]
               /\ monitor' = IF by = "monitor" THEN "stopping" ELSE monitor
               /\ asked' = last
               /\ UNCHANGED <<store, running, starts, attempts>>
          ELSE AfterHook(NewStop, by, task, last)

RequestStop ==
  /\ NewRequest
  /\ StopChannel("request", "stop")
  /\ UNCHANGED <<kind, usable, connected, contended, threw>>

\* restartChannel of the reload handler; a reload waits for the one before it.
RequestReload ==
  /\ NewRequest /\ \A i \in StopIds : stops[i].by # "reload"
  /\ StopChannel("reload", asked)
  /\ UNCHANGED <<kind, usable, connected, contended, threw>>

HookReturns(i) ==
  /\ stops[i].step = "hook"
  /\ AfterHook(i, stops[i].by, stops[i].task, asked)
  /\ UNCHANGED <<kind, usable, manuallyStopped, connected, runs, requests, contended, threw>>

\* The stop fails and cleans nothing up.
HookThrows(i) ==
  /\ stops[i].step = "hook"
  /\ stops' = [stops EXCEPT ![i] = NoStop]
  /\ monitor' = IF stops[i].by = "monitor" THEN "idle" ELSE monitor
  /\ UNCHANGED <<kind, usable, store, manuallyStopped, attempts, running, connected, runs, starts,
                 requests, asked, contended, threw>>

-----------------------------------------------------------------------------
(* The health monitor, and the rest.                                         *)

\* runCheck takes a snapshot in which the account is unhealthy ...
MonitorSees ==
  /\ NewRequest /\ monitor = "idle" /\ usable /\ (running => ~connected)
  /\ monitor' = IF running THEN "sawRunning" ELSE "sawStopped"
  /\ UNCHANGED <<kind, usable, store, manuallyStopped, attempts, running, connected, runs, starts,
                 stops, asked, contended, threw>>

\* ... and comes to the account when it has restarted those before it.  A start that
\* finds a task still resets the attempts (resetRestartAttempts).
MonitorActs ==
  /\ monitor \in {"sawRunning", "sawStopped"}
  /\ IF manuallyStopped
     THEN /\ monitor' = "idle"
          /\ UNCHANGED <<store, manuallyStopped, attempts, running, runs, starts, stops, asked>>
     ELSE IF monitor = "sawRunning" THEN StopChannel("monitor", asked)
     ELSE /\ monitor' = "idle" /\ asked' = "start" /\ attempts' = 0
          /\ StartChannel
          /\ UNCHANGED <<store, manuallyStopped, runs, stops>>
  /\ UNCHANGED <<kind, usable, connected, requests, contended, threw>>

\* markChannelLoggedOut
MarkChannelLoggedOut ==
  /\ NewRequest /\ running' = FALSE /\ connected' = FALSE
  /\ UNCHANGED <<kind, usable, store, manuallyStopped, attempts, runs, starts, stops, monitor,
                 asked, contended, threw>>

\* External: the channel loses its connection, or the configuration is edited.
Disconnects ==
  /\ (\E r \in Runs : Live(r)) /\ connected /\ connected' = FALSE
  /\ UNCHANGED <<kind, usable, store, manuallyStopped, attempts, running, runs, starts, stops,
                 monitor, requests, asked, contended, threw>>

EditConfig ==
  /\ NewRequest /\ usable' = ~usable
  /\ UNCHANGED <<kind, store, manuallyStopped, attempts, running, connected, runs, starts, stops,
                 monitor, asked, contended, threw>>

-----------------------------------------------------------------------------
Init ==
  /\ kind \in {"plain", "slow", "hooked"} /\ usable \in BOOLEAN
  /\ store = Empty /\ manuallyStopped = FALSE /\ attempts = 0
  /\ running = FALSE /\ connected = TRUE
  /\ runs = [r \in Runs |-> Unused] /\ starts = 0 /\ stops = [i \in StopIds |-> NoStop]
  /\ monitor = "idle" /\ requests = 0 /\ asked = "nothing"
  /\ contended = FALSE /\ threw = FALSE

\* Reactions to a promise that settles come before anything else: a task that settles,
\* then what waits for an isConfigured without I/O, or sleeps and has been aborted.
Reacting ==
  \/ kind # "slow" /\ (starts > 0 \/ \E r \in Runs : runs[r].phase = "starting")
  \/ \E r \in Runs : runs[r].phase = "sleeping" /\ runs[r].aborted

Next ==
  \/ \E r \in Runs : RunSettles(r)
  \/ /\ \A r \in Runs : runs[r].phase # "over"
     /\ \/ StartGoesOn
        \/ \E r \in Runs : RestartGoesOn(r) \/ (runs[r].aborted /\ SleepIsOver(r))
        \/ /\ ~Reacting
           /\ \/ RequestStart \/ RequestStop \/ RequestReload
              \/ \E r \in Runs : RunExits(r) \/ SleepIsOver(r) \/ Restarts(r)
              \/ \E i \in StopIds : HookReturns(i) \/ HookThrows(i)
              \/ MonitorSees \/ MonitorActs
              \/ MarkChannelLoggedOut \/ Disconnects \/ EditConfig

Spec == Init /\ [][Next]_vars

\* Pauses end, isConfigured and stopAccount answer, and what has been aborted exits; a
\* channel that has not been aborted may run for ever.
Fairness ==
  /\ \A r \in Runs :
       /\ WF_vars(RunSettles(r))
       /\ WF_vars(SleepIsOver(r) \/ Restarts(r) \/ RestartGoesOn(r))
       /\ WF_vars(runs[r].aborted /\ RunExits(r))
  /\ WF_vars(StartGoesOn) /\ WF_vars(MonitorActs)
  /\ \A i \in StopIds : WF_vars(HookReturns(i) \/ HookThrows(i))

FairSpec == Spec /\ Fairness

-----------------------------------------------------------------------------
Phases == {"none", "live", "sleeping", "starting", "over"}

\* The types; and the attempts pass the limit by at most one for each run that exits in
\* the pause of another (kinds other than "plain" may have several).
TypeOK ==
  /\ kind \in {"plain", "slow", "hooked"} /\ usable \in BOOLEAN /\ manuallyStopped \in BOOLEAN
  /\ store \in [task : Runs \cup {NoRun}, abort : Runs \cup {NoRun, Orphan}]
  /\ attempts \in 0..(MAX_RESTART_ATTEMPTS + Cardinality(Runs))
  /\ running \in BOOLEAN /\ connected \in BOOLEAN
  /\ runs \in [Runs -> [phase : Phases, aborted : BOOLEAN]]
  /\ starts \in 0..MaxRequests
  /\ stops \in [StopIds -> [by : {"nobody", "request"} \cup Restarters, step : {"none", "hook", "task"},
                            task : Runs \cup {NoRun}]]
  /\ monitor \in {"idle", "sawRunning", "sawStopped", "stopping"}
  /\ requests \in 0..MaxRequests /\ asked \in {"nothing", "start", "stop"}
  /\ contended \in BOOLEAN /\ threw \in BOOLEAN

\* Unless the monitor and the reload have waited for the same task, in order to start
\* the account again, a plain account never has two runs of its channel alive, whatever
\* the order of starts, stops, exits, reloads and checks of the monitor, and a live one
\* is in the store, so that a stop reaches it.
OneRunPerAccount ==
  kind = "plain" /\ ~contended =>
    \A r \in Runs : Live(r) => task = r /\ abort = r /\ \A q \in Runs : Live(q) => q = r

\* With the same exception, after a stop of a plain account has returned, nothing runs
\* and nothing will start it again, until a start is asked for, or the monitor or a
\* reload makes one.
StoppedStaysStopped ==
  kind = "plain" /\ ~contended /\ asked = "stop" /\ (\A i \in StopIds : stops[i] = NoStop) =>
    starts = 0 /\ \A r \in Runs : runs[r].phase \in {"none", "over"}

\* A plain channel in the pause before a restart runs again, unless it is stopped or
\* its account becomes unusable or its startAccount throws.
Recovers ==
  \A r \in Runs :
    kind = "plain" /\ runs[r].phase = "sleeping"
      ~> manuallyStopped \/ ~usable \/ threw \/ \E q \in Runs : Live(q)
=============================================================================
