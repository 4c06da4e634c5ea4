---------------------------- MODULE GatewayRestart ----------------------------
(***************************************************************************)
(* Restarts of the gateway: the requests for one and their deferral        *)
(* (src/src/infra/restart.ts, requestGatewayRestart in                     *)
(* src/src/gateway/server-reload-handlers.ts), the reply dispatchers they  *)
(* wait for (src/src/auto-reply/reply/reply-dispatcher.ts with its         *)
(* registry, withReplyDispatcher in src/src/auto-reply/dispatch.ts) and    *)
(* the run loop with its signals (src/src/cli/gateway-cli/run-loop.ts).    *)
(*                                                                         *)
(* SIGUSR1 is emitted inside the process and its handler runs before emit  *)
(* returns, so the authorization and the cycle token that an emission sets *)
(* are consumed in the same step: neither is part of the state.  Timers    *)
(* and intervals live as long as the process, across in-process restarts.  *)
(***************************************************************************)
EXTENDS Integers, FiniteSets

CONSTANTS
  Msgs,         \* messages that may be handled at once; their names are used again
  Delays,       \* delayMs of the requests, in ticks of the clock
  Cooldown,     \* RESTART_COOLDOWN_MS, in ticks
  MaxWait,      \* maxWaitMs of a deferral, in ticks
  Respawns,     \* how a restart goes on: in this process (FALSE) or a new one (TRUE)
  External,     \* commands.restart: SIGUSR1 from outside is accepted
  MaxDeferrals, \* bound: deferrals that poll at once
  MaxReplies,   \* bound: replies of a message that wait to be delivered
  MaxLate       \* bound: callbacks of a run that outlast it

ASSUME TimesAssumption ==
  /\ Delays \subseteq Nat /\ Cooldown \in Nat /\ MaxWait \in Nat \ {0}
  /\ Respawns \subseteq BOOLEAN /\ Respawns # {} /\ External \in BOOLEAN
ASSUME BoundsAssumption ==
  MaxDeferrals \in Nat \ {0} /\ MaxReplies \in Nat \ {0} /\ MaxLate \in Nat

VARIABLES
  handling,   \* what has become of a message, with its reply dispatcher
  timer,      \* pendingRestartTimer: ticks left, or None
  cooling,    \* ticks left of the cooldown since the last emission
  deferrals,  \* the polls of deferGatewayRestartUntilIdle
  loop,       \* the run loop: "starting", "serving" or "exited"
  server,     \* its variable server is set
  closing,    \* its shutdown: "no", or how far it is
  why         \* history: what the last shutdown was asked for by

restartVars == <<handling, timer, cooling, deferrals, loop, server, closing, why>>

None == -1
Ids  == 1 .. MaxDeferrals

\* phase: run, or complete after markComplete, whose microtask is due while micro;
\* task: its task in the lanes, stale if a reset has forgotten it, unless the table of
\* embedded runs still has it; chain: replies not delivered yet;
\* pending and registered: the dispatcher's; late: callbacks that may still send,
\* after: one did; idle: onIdle was called.
Unhandled == [phase |-> "none", task |-> "none", chain |-> 0, pending |-> 0, registered |-> FALSE,
              micro |-> FALSE, late |-> 0, after |-> FALSE, idle |-> FALSE]

\* wait: ticks left; pending: it is the one restartPending stands for.
NoDeferral == [wait |-> None, watcher |-> FALSE]

RestartInit ==
  /\ handling = [m \in Msgs |-> Unhandled]
  /\ timer = None /\ cooling = 0 /\ deferrals = [i \in Ids |-> NoDeferral]
  /\ loop = "starting" /\ server = FALSE /\ closing = "no" /\ why = "none"

Alive == loop # "exited"

-----------------------------------------------------------------------------
\* Messages and their reply dispatchers.

\* Mutant: no reservation.
Dispatcher_Unreserved == [Unhandled EXCEPT !.phase = "run", !.registered = TRUE]

\* createReplyDispatcher: registered, with a reservation.
Dispatcher == [Unhandled EXCEPT !.phase = "run", !.registered = TRUE, !.pending = 1]

\* A channel hands over a message; channels work before params.start() returns.
DispatchInboundMessage(m) ==
  /\ Alive /\ handling[m].phase = "none"
  /\ handling' = [handling EXCEPT ![m] = Dispatcher]
  /\ UNCHANGED <<timer, cooling, deferrals, loop, server, closing, why>>

\* Its run takes a task in the lanes, for a time, of an embedded run or not.
TaskBegins(m) ==
  /\ Alive /\ handling[m].phase = "run" /\ handling[m].task = "none"
  /\ \E t \in {"active", "embedded"} : handling' = [handling EXCEPT ![m].task = t]
  /\ UNCHANGED <<timer, cooling, deferrals, loop, server, closing, why>>

TaskEnds(m) ==
  /\ Alive /\ handling[m].task # "none"
  /\ handling' = [handling EXCEPT ![m].task = "none"]
  /\ UNCHANGED <<timer, cooling, deferrals, loop, server, closing, why>>

\* sendToolResult, sendBlockReply, sendFinalReply.
Enqueue(d) == [d EXCEPT !.chain = @ + 1, !.pending = @ + 1]

SendReply(m) ==
  /\ Alive /\ handling[m].phase = "run" /\ handling[m].chain < MaxReplies
  /\ handling' = [handling EXCEPT ![m] = Enqueue(@)]
  /\ UNCHANGED <<timer, cooling, deferrals, loop, server, closing, why>>

\* A callback of a run that is over (a block reply that timed out while its audio was
\* made) sends all the same.
EnqueueLate(d) == [Enqueue(d) EXCEPT !.late = @ - 1, !.after = TRUE]

SendLate(m) ==
  /\ Alive /\ handling[m].phase = "complete" /\ handling[m].late > 0
  /\ handling' = [handling EXCEPT ![m] = EnqueueLate(@)]
  /\ UNCHANGED <<timer, cooling, deferrals, loop, server, closing, why>>

\* The dispatcher d at zero: it is no longer registered, and onIdle is called.
IfIdle(d) == IF d.pending = 0 THEN [d EXCEPT !.registered = FALSE, !.idle = TRUE] ELSE d

\* Mutant: the reservation is released with the last reply, complete or not.
Settled_Eager(d) ==
  LET left == d.pending - 1
  IN  IfIdle([d EXCEPT !.chain = @ - 1, !.pending = IF left = 1 THEN 0 ELSE left])

\* A delivery has settled.
Settled(d) ==
  LET left == d.pending - 1
  IN  IfIdle([d EXCEPT !.chain = @ - 1,
                       !.pending = IF left = 1 /\ d.phase = "complete" THEN 0 ELSE left])

DeliverySettles(m) ==
  /\ Alive /\ handling[m].chain > 0
  /\ handling' = [handling EXCEPT ![m] = Settled(@)]
  /\ UNCHANGED <<timer, cooling, deferrals, loop, server, closing, why>>

\* The run settles: markComplete.
MarkComplete(m) ==
  /\ Alive /\ handling[m].phase = "run" /\ handling[m].task = "none"
  /\ \E n \in 0 .. MaxLate :
       handling' = [handling EXCEPT ![m].phase = "complete", ![m].micro = TRUE, ![m].late = n]
  /\ UNCHANGED <<timer, cooling, deferrals, loop, server, closing, why>>

\* The microtask of markComplete.
ClearReservation(m) ==
  /\ Alive /\ handling[m].micro
  /\ handling' = [handling EXCEPT ![m] =
                    IF @.pending = 1 THEN IfIdle([@ EXCEPT !.micro = FALSE, !.pending = 0])
                    ELSE [@ EXCEPT !.micro = FALSE]]
  /\ UNCHANGED <<timer, cooling, deferrals, loop, server, closing, why>>

\* Nothing is left of it.
HandlingEnds(m) ==
  /\ Alive
  /\ LET d == handling[m] IN d.phase = "complete" /\ ~d.micro /\ d.chain = 0 /\ d.late = 0
  /\ handling' = [handling EXCEPT ![m] = Unhandled]
  /\ UNCHANGED <<timer, cooling, deferrals, loop, server, closing, why>>

\* What the deferral counts: tasks in the lanes, pending replies and embedded runs.
Busy == \E m \in Msgs : \/ handling[m].task \in {"active", "embedded"}
                        \/ handling[m].registered /\ handling[m].pending > 0

-----------------------------------------------------------------------------
\* Requests.

\* request: ignored during a shutdown.
Request(action, cause) ==
  IF closing = "no" THEN closing' = action /\ why' = cause ELSE UNCHANGED <<closing, why>>

\* emitGatewayRestart, and the handler of the signal.
Emit(cause) == timer' = None /\ cooling' = Cooldown /\ Request("draining", cause)

\* deferGatewayRestartUntilIdle: it polls while something is pending.
Defer(watcher) ==
  /\ Busy
  /\ \E i \in Ids :
       /\ deferrals[i] = NoDeferral
       /\ deferrals' = [deferrals EXCEPT ![i] = [wait |-> MaxWait, watcher |-> watcher]]
  /\ UNCHANGED <<cooling, closing, why>>
EmitIfIdle == ~Busy /\ Emit("idle") /\ UNCHANGED deferrals

\* A method of the gateway or a tool asks for a restart; of two timers the earlier stays.
ScheduleGatewaySigusr1Restart(delay) ==
  /\ Alive
  /\ timer = None \/ delay + cooling < timer
  /\ timer' = delay + cooling
  /\ UNCHANGED <<handling, cooling, deferrals, loop, server, closing, why>>

\* The timer is due: at once if nothing is pending, or when that is over.
TimerFires ==
  /\ Alive /\ timer = 0
  /\ EmitIfIdle \/ (Defer(FALSE) /\ timer' = None)
  /\ UNCHANGED <<handling, loop, server>>

\* The configuration has changed in a way that needs a restart; one deferral of the
\* present server is enough.
RequestGatewayRestart ==
  /\ Alive /\ server /\ loop = "serving"
  /\ \/ EmitIfIdle
     \/ Defer(TRUE) /\ (\A i \in Ids : ~deferrals[i].watcher) /\ UNCHANGED timer
  /\ UNCHANGED <<handling, loop, server>>

\* Mutant: no limit to the wait.
Poll_NoDeadline(i) ==
  /\ Alive /\ deferrals[i] # NoDeferral /\ ~Busy
  /\ deferrals' = [deferrals EXCEPT ![i] = NoDeferral]
  /\ Emit("idle")
  /\ UNCHANGED <<handling, loop, server>>

\* A poll finds nothing pending, or has waited long enough.
Poll(i) ==
  /\ Alive /\ deferrals[i] # NoDeferral /\ (~Busy \/ deferrals[i].wait = 0)
  /\ deferrals' = [deferrals EXCEPT ![i] = NoDeferral]
  /\ Emit(IF Busy THEN "timeout" ELSE "idle")
  /\ UNCHANGED <<handling, loop, server>>

\* SIGUSR1 from outside.
ExternalSigusr1 ==
  /\ Alive /\ External /\ closing = "no"
  /\ Request("draining", "signal")
  /\ UNCHANGED <<handling, timer, cooling, deferrals, loop, server>>

\* SIGTERM or SIGINT.
StopSignal ==
  /\ Alive /\ closing = "no"
  /\ Request("stopping", "signal")
  /\ UNCHANGED <<handling, timer, cooling, deferrals, loop, server>>

Less(n) == IF n > 0 THEN n - 1 ELSE n

Tick ==
  /\ Alive /\ (timer > 0 \/ cooling > 0 \/ \E i \in Ids : deferrals[i].wait > 0)
  /\ timer' = Less(timer) /\ cooling' = Less(cooling)
  /\ deferrals' = [i \in Ids |-> [deferrals[i] EXCEPT !.wait = Less(@)]]
  /\ UNCHANGED <<handling, loop, server, closing, why>>

-----------------------------------------------------------------------------
\* The run loop.

\* params.start() has returned: from now on there is a promise to resolve.
Started ==
  /\ loop = "starting"
  /\ loop' = "serving" /\ server' = TRUE
  /\ UNCHANGED <<handling, timer, cooling, deferrals, closing, why>>

StartFails ==
  /\ loop = "starting" /\ loop' = "exited"
  /\ UNCHANGED <<handling, timer, cooling, deferrals, server, closing, why>>

\* The active tasks are over or the drain has lasted long enough (SessionRuns has the
\* drain in detail): server?.close().
Drained ==
  /\ Alive /\ closing = "draining"
  /\ closing' = "closing"
  /\ UNCHANGED <<handling, timer, cooling, deferrals, loop, server, why>>

\* The server has closed.  Of a loop that still starts the promise is not the one it
\* will await.  A loop that goes on resets the lanes, and has no deferral of its own.
Closed ==
  /\ Alive /\ closing = "closing" /\ FALSE \in Respawns
  /\ server' = FALSE /\ closing' = "no"
  /\ IF loop = "serving"
     THEN /\ loop' = "starting"
          /\ handling' = [m \in Msgs |-> [handling[m] EXCEPT
                            !.task = IF @ = "active" THEN "stale" ELSE @]]
          /\ deferrals' = [i \in Ids |-> [deferrals[i] EXCEPT !.watcher = FALSE]]
     ELSE UNCHANGED <<loop, handling, deferrals>>
  /\ UNCHANGED <<timer, cooling, why>>

\* It has closed, and a new process goes on.
Respawned ==
  /\ Alive /\ closing = "closing" /\ TRUE \in Respawns
  /\ handling' = [m \in Msgs |-> Unhandled]
  /\ timer' = None /\ cooling' = 0 /\ deferrals' = [i \in Ids |-> NoDeferral]
  /\ loop' = "starting" /\ server' = FALSE /\ closing' = "no"
  /\ UNCHANGED why

\* The server of a stop has closed, or a shutdown has taken too long.
Exits ==
  /\ Alive /\ closing # "no"
  /\ loop' = "exited"
  /\ UNCHANGED <<handling, timer, cooling, deferrals, server, closing, why>>
-----------------------------------------------------------------------------
Handling(m) ==
  \/ DispatchInboundMessage(m) \/ TaskBegins(m) \/ TaskEnds(m) \/ SendReply(m) \/ SendLate(m)
  \/ DeliverySettles(m) \/ MarkComplete(m) \/ ClearReservation(m) \/ HandlingEnds(m)

RestartNext ==
  \/ \E m \in Msgs : Handling(m)
  \/ \E d \in Delays : ScheduleGatewaySigusr1Restart(d)
  \/ TimerFires \/ RequestGatewayRestart \/ \E i \in Ids : Poll(i)
  \/ ExternalSigusr1 \/ StopSignal \/ Tick
  \/ Started \/ StartFails \/ Drained \/ Closed \/ Respawned \/ Exits

RestartSpec == RestartInit /\ [][RestartNext]_restartVars

\* Timers fire, a start ends, the drain has a deadline, and the exit is forced if a
\* close hangs.  Nothing is assumed of the messages: a run may hang.
RestartFairness ==
  /\ WF_restartVars(Tick) /\ WF_restartVars(TimerFires) /\ \A i \in Ids : WF_restartVars(Poll(i))
  /\ WF_restartVars(Started) /\ WF_restartVars(Drained) /\ WF_restartVars(Closed \/ Respawned \/ Exits)

FairRestartSpec == RestartSpec /\ RestartFairness

-----------------------------------------------------------------------------
\* The types, and that the counter of a dispatcher is exact as long as it is registered:
\* the replies not delivered and the reservation.  After that any two late replies may
\* take it down by one too many, but onIdle is not called over any other reply.
RestartTypeOK ==
  /\ \A m \in Msgs :
       LET d == handling[m]
       IN  /\ d \in [phase : {"none", "run", "complete"}, task : {"none", "active", "embedded", "stale"},
                     chain : Nat, pending : Int, registered : BOOLEAN, micro : BOOLEAN,
                     late : 0 .. MaxLate, after : BOOLEAN, idle : BOOLEAN]
           /\ IF d.registered THEN d.pending = d.chain + 1 /\ ~d.idle
              ELSE d.pending <= d.chain /\ 2 * (d.chain - d.pending) <= MaxLate + 1
           /\ d.idle => d.phase = "complete" /\ (d.chain = 0 \/ d.after)
  /\ timer \in Nat \cup {None} /\ cooling \in 0 .. Cooldown
  /\ deferrals \in [Ids -> [wait : {None} \cup 0 .. MaxWait, watcher : BOOLEAN]]
  /\ loop \in {"starting", "serving", "exited"} /\ server \in BOOLEAN
  /\ closing \in {"no", "draining", "closing", "stopping"}
  /\ why \in {"none", "idle", "timeout", "signal"}

\* A restart that has waited for the gateway to be idle begins over no message: none is
\* handled, and no reply is left, but those of callbacks that outlasted their run,
\* whatever restarts came before and although a reset forgets the tasks under way.
IdleMeansIdle ==
  [][closing = "no" /\ closing' = "draining" /\ why' = "idle" =>
       \A m \in Msgs : /\ handling[m].phase # "run"
                       /\ handling[m].chain = 0 \/ handling[m].after]_restartVars

\* A request that waits, for its time or for the gateway to be idle, while the gateway
\* serves brings that to an end: the gateway starts anew, here or in a new process, or
\* stops.  Signals are ignored during a shutdown, one that comes during a start resolves
\* a promise that nobody awaits, and a run may hang, but nothing keeps a request waiting.
RestartComes ==
  (timer # None \/ \E i \in Ids : deferrals[i] # NoDeferral) ~> loop # "serving"
=============================================================================
