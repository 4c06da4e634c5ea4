---------------------------- MODULE GatewayProofs ----------------------------
(***************************************************************************)
(* Proofs about two parts of the gateway: the channel manager, and         *)
(* restarts with the reply dispatchers that they wait for.                 *)
(*                                                                         *)
(* The channel manager first: a plain account, for any number of requests  *)
(* and restarts, as long as monitor and reload have not waited for the     *)
(* same task (its runs that are alive or in their pause are the one in the *)
(* store, and whoever stops it waits for that one; a start that is         *)
(* suspended is alone); and the bounds of the accounts of every kind.      *)
(***************************************************************************)
EXTENDS ChannelManager, GatewayRestart, FiniteSetTheorems, TLAPS

Callers == {"request"} \cup Restarters

Run  == [phase : Phases, aborted : BOOLEAN]
Stop == [by : Callers \cup {"nobody"}, step : {"none", "hook", "task"}, task : Runs \cup {NoRun}]
Store == [task : Runs \cup {NoRun}, abort : Runs \cup {NoRun, Orphan}]

Shapes == store \in Store /\ runs \in [Runs -> Run] /\ stops \in [StopIds -> Stop]

\* The run that is alive or in its pause is the one in the store, and so is its controller.
InStore ==
  /\ abort = task \/ (abort = Orphan /\ task = NoRun)
  /\ task # NoRun => runs[task].phase # "none"
  /\ \A r \in Runs : /\ runs[r].phase \in {"live", "sleeping"} => task = r
                     /\ runs[r].phase = "none" => runs[r] = Unused

\* A start waits for isConfigured, asked for or automatic.
Suspended == starts > 0 \/ \E r \in Runs : runs[r].phase = "starting"

\* A start that waits is the only one, and nothing is in the store.
StartsAlone ==
  /\ starts \in {0, 1}
  /\ Suspended => task = NoRun /\ asked # "stop"
  /\ starts > 0 => \A r \in Runs : runs[r].phase # "starting"
  /\ \A q, r \in Runs : runs[q].phase = "starting" /\ runs[r].phase = "starting" => q = r

\* A stop under way waits for the run in the store, which has been aborted.
StopsWait ==
  \A i \in StopIds : stops[i] # NoStop =>
    /\ stops[i].step = "task" /\ stops[i].task = task
    /\ task # NoRun /\ runs[task].aborted

\* If a stop was asked for last, it is under way or nothing is left to stop.
StopHolds ==
  asked = "stop" => \/ \E i \in StopIds : stops[i] # NoStop
                    \/ \A r \in Runs : runs[r].phase \in {"none", "over"}

Sound == Shapes /\ InStore /\ StartsAlone /\ StopsWait /\ StopHolds

IInv == kind = "plain" /\ ~contended => Sound

-----------------------------------------------------------------------------
LEMMA RunIds == NoRun \notin Runs /\ Orphan \notin Runs /\ StopIds # {} /\ 1 \in Runs /\ 2 \in Runs
BY BoundAssumption DEF NoRun, Orphan, Runs, StopIds

\* The types of the fields of what is stored.
LEMMA StoreFields ==
  ASSUME store \in Store
  PROVE  task \in Runs \cup {NoRun} /\ abort \in Runs \cup {NoRun, Orphan}
BY DEF Store, task, abort

\* What the callers whose stops return do: each that restarts adds at most a start.
LEMMA Returns ==
  ASSUME NEW callers, NEW last, StopsReturn(callers, last), starts \in Nat
  PROVE  /\ \/ starts' = starts
            \/ starts' = starts + 1 /\ ("monitor" \in callers \/ "reload" \in callers)
            \/ starts' = starts + 2 /\ Restarters \subseteq callers
         /\ starts' # starts => asked' = "start"
         /\ asked' \in {last, "start"} /\ attempts' \in {attempts, 0}
         /\ monitor' = IF "monitor" \in callers THEN "idle" ELSE monitor
<1> DEFINE again == callers \cap Restarters
<1>1. /\ starts' = starts + (IF usable THEN Cardinality(again) ELSE 0)
      /\ asked' = IF again = {} THEN last ELSE "start"
      /\ attempts' = IF "monitor" \in again THEN 0 ELSE attempts
      /\ monitor' = IF "monitor" \in again THEN "idle" ELSE monitor
  BY DEF StopsReturn
<1>2. "monitor" \in again <=> "monitor" \in callers
  BY DEF Restarters
<1>3. /\ Cardinality({}) = 0 /\ Cardinality({"monitor"}) = 1 /\ Cardinality({"reload"}) = 1
      /\ Cardinality({"monitor", "reload"}) = 2
  <2>1. IsFiniteSet({}) /\ Cardinality({}) = 0
    BY FS_EmptySet
  <2>2. Cardinality({"monitor"}) = 1 /\ Cardinality({"reload"}) = 1 /\ IsFiniteSet({"monitor"})
    BY FS_Singleton
  <2>3. {"monitor", "reload"} = {"monitor"} \cup {"reload"} /\ "reload" \notin {"monitor"}
    OBVIOUS
  <2>4. Cardinality({"monitor"} \cup {"reload"}) = Cardinality({"monitor"}) + 1
    BY <2>2, <2>3, FS_AddElement
  <2> QED BY <2>1, <2>2, <2>3, <2>4
<1>4. \/ again = {}
      \/ again = {"monitor"} /\ "monitor" \in callers
      \/ again = {"reload"} /\ "reload" \in callers
      \/ again = {"monitor", "reload"} /\ Restarters \subseteq callers
  BY DEF Restarters
<1> HIDE DEF again
<1>5. \/ starts' = starts
      \/ starts' = starts + 1 /\ ("monitor" \in callers \/ "reload" \in callers)
      \/ starts' = starts + 2 /\ Restarters \subseteq callers
  <2>1. CASE ~usable
    BY <1>1, <2>1
  <2>2. CASE usable
    <3>1. starts' = starts + Cardinality(again)
      BY <1>1, <2>2
    <3> QED BY <1>3, <1>4, <3>1
  <2> QED BY <2>1, <2>2
<1>6. starts' # starts => asked' = "start"
  <2>1. again = {} => starts' = starts
    BY <1>1, <1>3
  <2> QED BY <1>1, <2>1
<1> QED BY <1>1, <1>2, <1>5, <1>6

\* When no run is about to settle, a run id is free.
LEMMA FreeRun ==
  ASSUME Sound, \A r \in Runs : runs[r].phase # "over"
  PROVE  NewRun \in Runs /\ runs[NewRun] = Unused
<1>1. \E r \in Runs : r # task /\ runs[r].phase # "starting"
  <2>1. CASE Suspended
    BY <2>1, RunIds DEF Sound, StartsAlone
  <2>2. CASE ~Suspended
    BY <2>2, RunIds DEF Suspended
  <2> QED BY <2>1, <2>2
<1>2. PICK r \in Runs : r # task /\ runs[r].phase # "starting"
  BY <1>1
<1>3. runs[r].phase = "none"
  BY <1>2 DEF Sound, Shapes, InStore, Run, Phases
<1>4. runs[r] = Unused
  BY <1>3 DEF Sound, InStore
<1> QED BY <1>4 DEF NewRun

LEMMA NoStopWithoutTask ==
  ASSUME Sound, task = NoRun
  PROVE  /\ \A i \in StopIds : stops[i] = NoStop
         /\ ~Suspended => \A r \in Runs : runs[r].phase \in {"none", "over"}
<1>1. \A i \in StopIds : stops[i] = NoStop
  BY DEF Sound, StopsWait
<1>2. \A r \in Runs : runs[r].phase \in Phases /\ runs[r].phase \notin {"live", "sleeping"}
  BY RunIds DEF Sound, Shapes, InStore, Run
<1> QED BY <1>1, <1>2 DEF Suspended, Phases

\* A start that waited goes on: a new run beside others that are neither alive nor in
\* their pause, or only a controller.
LEMMA LaunchSound ==
  ASSUME Sound, Suspended, \A r \in Runs : runs[r].phase # "over",
         NEW others \in [Runs -> Run],
         \A r \in Runs : /\ others[r].phase \in {"none", "over"}
                         /\ others[r].phase = "none" => others[r] = Unused
                         /\ runs[r] = Unused => others[r] = Unused,
         Launch(others), starts' = 0, UNCHANGED <<stops, asked>>
  PROVE  Sound'
<1>1. /\ task = NoRun /\ asked # "stop" /\ \A i \in StopIds : stops[i] = NoStop
      /\ store \in Store /\ stops \in [StopIds -> Stop]
  BY NoStopWithoutTask DEF Sound, StartsAlone, Shapes
<1>2. StopsWait' /\ StopHolds'
  BY <1>1 DEF StopsWait, StopHolds
<1>3. ASSUME NEW n \in Runs, others[n] = Unused,
             runs' = [others EXCEPT ![n].phase = "live"], store' = [task |-> n, abort |-> n]
      PROVE  Sound'
  <2>1. /\ runs' \in [Runs -> Run]
        /\ runs'[n].phase = "live" /\ \A r \in Runs \ {n} : runs'[r] = others[r]
    BY <1>3 DEF Run, Phases
  <2>2. task' = n /\ abort' = n /\ n # NoRun
    BY <1>3, RunIds DEF task, abort
  <2>3. Shapes'
    BY <1>1, <1>3, <2>1 DEF Shapes, Store
  <2>4. InStore'
    BY <2>1, <2>2 DEF InStore
  <2>5. StartsAlone'
    BY <2>1 DEF StartsAlone, Suspended
  <2> QED BY <1>2, <2>3, <2>4, <2>5 DEF Sound
<1>4. ASSUME runs' = others, store' = [store EXCEPT !.abort = Orphan]
      PROVE  Sound'
  <2>1. task' = NoRun /\ abort' = Orphan /\ store' \in Store
    BY <1>1, <1>4 DEF task, abort, Store
  <2>2. Shapes' /\ InStore'
    BY <1>1, <1>4, <2>1 DEF Shapes, InStore
  <2>3. StartsAlone'
    BY <1>4 DEF StartsAlone, Suspended
  <2> QED BY <1>2, <2>2, <2>3 DEF Sound
<1>5. NewRun \in Runs /\ others[NewRun] = Unused
  BY FreeRun
<1> QED BY <1>3, <1>4, <1>5 DEF Launch

\* A step that leaves runs, the store and the stops alone.
LEMMA StutterSound ==
  ASSUME Sound, UNCHANGED <<store, runs, stops, starts>>, asked' \in {asked, "start"}
  PROVE  Sound'
BY DEF Sound, Shapes, InStore, StartsAlone, Suspended, StopsWait, StopHolds, task, abort

\* With nothing in the store and no start that waits, one may begin to wait.
LEMMA WaitSound ==
  ASSUME Sound, ~Suspended, task = NoRun, task' = NoRun, abort' \in {NoRun, Orphan},
         store' \in Store, UNCHANGED <<runs, stops>>,
         starts' \in {0, 1}, starts' # 0 => asked' = "start"
  PROVE  Sound'
<1>1. \A i \in StopIds : stops[i] = NoStop
  BY NoStopWithoutTask
<1>2. \A r \in Runs : runs[r].phase \in {"none", "over"}
  BY NoStopWithoutTask
<1>3. Shapes' /\ InStore'
  BY <1>2 DEF Sound, Shapes, InStore
<1>4. StartsAlone'
  BY <1>2 DEF StartsAlone, Suspended
<1>5. StopsWait' /\ StopHolds'
  BY <1>1, <1>2 DEF StopsWait, StopHolds
<1> QED BY <1>3, <1>4, <1>5 DEF Sound

\* A start finds the run in the store, or the account unusable, or waits.
LEMMA StartSound ==
  ASSUME Sound, ~Suspended, StartChannel, UNCHANGED <<store, runs, stops>>, asked' = "start"
  PROVE  Sound'
<1>1. starts = 0
  BY DEF Suspended, Sound, StartsAlone
<1>2. CASE UNCHANGED starts
  BY <1>2, StutterSound
<1>3. CASE task = NoRun /\ starts' = starts + 1
  <2>1. task' = NoRun /\ abort' \in {NoRun, Orphan} /\ store' \in Store
    BY <1>3 DEF Sound, Shapes, InStore, task, abort
  <2> QED BY <1>1, <1>3, <2>1, WaitSound
<1> QED BY <1>2, <1>3 DEF StartChannel

LEMMA StartGoesOnSound ==
  ASSUME Sound, \A r \in Runs : runs[r].phase # "over", StartGoesOn
  PROVE  Sound'
<1>1. /\ Suspended /\ starts = 1 /\ starts' = 0 /\ UNCHANGED <<stops, asked>> /\ task = NoRun
  BY DEF StartGoesOn, Sound, StartsAlone, Suspended
<1>2. \A r \in Runs : runs[r].phase # "starting"
  BY <1>1 DEF Sound, StartsAlone
<1>3. /\ runs \in [Runs -> Run] /\ store \in Store
      /\ \A r \in Runs : runs[r].phase = "none" /\ runs[r] = Unused
  BY <1>1, <1>2, RunIds DEF Sound, Shapes, InStore, Run, Phases
<1>4. CASE Launch(runs)
  BY <1>1, <1>3, <1>4, LaunchSound
<1>5. CASE UNCHANGED <<store, runs>>
  <2>1. Shapes' /\ InStore' /\ StartsAlone'
    BY <1>1, <1>3, <1>5 DEF Sound, Shapes, InStore, StartsAlone, Suspended, task, abort
  <2>2. StopsWait' /\ StopHolds'
    BY <1>1, <1>3, <1>5, NoStopWithoutTask DEF StopsWait, StopHolds
  <2> QED BY <2>1, <2>2 DEF Sound
<1> QED BY <1>4, <1>5 DEF StartGoesOn

\* A change of the phase of run r, which may be in the store.
LEMMA PhaseSound ==
  ASSUME Sound, NEW r \in Runs, runs[r].phase \in {"live", "sleeping"}, NEW phase \in {"sleeping", "over"},
         phase = "sleeping" => runs[r].phase = "live" /\ (asked # "stop" \/ \E i \in StopIds : stops[i] # NoStop),
         runs' = [runs EXCEPT ![r].phase = phase], UNCHANGED <<store, stops, starts, asked>>
  PROVE  Sound'
<1>1. runs \in [Runs -> Run]
  BY DEF Sound, Shapes
<1>2. /\ runs' \in [Runs -> Run]
      /\ runs'[r].phase = phase /\ runs'[r].aborted = runs[r].aborted
      /\ \A q \in Runs \ {r} : runs'[q] = runs[q]
  BY <1>1 DEF Run, Phases
<1>3. task' = task /\ abort' = abort /\ task \in Runs \cup {NoRun} /\ task = r /\ r # NoRun
  BY StoreFields, RunIds DEF task, abort, Sound, Shapes, InStore
<1>4. Shapes'
  BY <1>2 DEF Sound, Shapes
<1>5. InStore'
  BY <1>2, <1>3 DEF Sound, InStore
<1>6. StartsAlone'
  BY <1>2, <1>3 DEF Sound, StartsAlone, Suspended
<1>7. StopsWait'
  BY <1>2, <1>3 DEF Sound, StopsWait
<1>8. StopHolds'
  BY <1>2 DEF Sound, StopHolds
<1> QED BY <1>4, <1>5, <1>6, <1>7, <1>8 DEF Sound

\* An exit is followed by a pause unless the account has been stopped; a stop that is
\* not under way any more has left no run that could exit.
LEMMA RunExitsSound ==
  ASSUME Sound, NEW r \in Runs, RunExits(r) PROVE Sound'
<1>1. PICK phase \in {"sleeping", "over"} : runs' = [runs EXCEPT ![r].phase = phase]
  BY DEF RunExits
<1>2. /\ runs[r].phase = "live" /\ UNCHANGED <<store, stops, starts, asked>>
  BY DEF RunExits, Live
<1>3. asked # "stop" \/ \E i \in StopIds : stops[i] # NoStop
  BY <1>2 DEF Sound, StopHolds
<1> QED BY <1>1, <1>2, <1>3, PhaseSound

LEMMA SleepIsOverSound ==
  ASSUME Sound, NEW r \in Runs, SleepIsOver(r) PROVE Sound'
BY PhaseSound DEF SleepIsOver

\* The pause is over: the run leaves the store.  No stop is under way, as it would have
\* aborted the run.
LEMMA RestartsSound ==
  ASSUME Sound, ~Suspended, NEW r \in Runs, Restarts(r)
  PROVE  Sound'
<1>1. /\ runs[r].phase = "sleeping" /\ ~runs[r].aborted /\ store' = Cleared(r)
      /\ UNCHANGED <<starts, stops, asked>>
  BY DEF Restarts
<1>2. PICK phase \in {"starting", "over"} : runs' = [runs EXCEPT ![r].phase = phase]
  BY DEF Restarts
<1>3. /\ runs \in [Runs -> Run] /\ task = r /\ abort = r /\ r # NoRun /\ starts = 0
      /\ stops \in [StopIds -> Stop]
  BY <1>1, RunIds DEF Sound, Shapes, InStore, StartsAlone, Suspended
<1>4. \A i \in StopIds : stops[i] = NoStop
  BY <1>1, <1>3 DEF Sound, StopsWait
<1>5. asked # "stop"
  BY <1>1, <1>4 DEF Sound, StopHolds
<1>6. task' = NoRun /\ abort' = NoRun /\ store' \in Store
  BY <1>1, <1>3 DEF Cleared, task, abort, Store
<1>7. /\ runs' \in [Runs -> Run] /\ runs'[r].phase = phase
      /\ \A q \in Runs \ {r} : runs'[q] = runs[q]
  BY <1>2, <1>3 DEF Run, Phases
<1>8. Shapes'
  BY <1>1, <1>3, <1>6, <1>7 DEF Shapes
<1>9. InStore'
  BY <1>1, <1>2, <1>3, <1>6, <1>7 DEF Sound, InStore
<1>10. StartsAlone'
  BY <1>1, <1>3, <1>5, <1>6, <1>7 DEF Sound, StartsAlone, Suspended
<1>11. StopsWait' /\ StopHolds'
  BY <1>1, <1>4, <1>5 DEF StopsWait, StopHolds
<1> QED BY <1>8, <1>9, <1>10, <1>11 DEF Sound

LEMMA RestartGoesOnSound ==
  ASSUME Sound, \A q \in Runs : runs[q].phase # "over", NEW r \in Runs, RestartGoesOn(r)
  PROVE  Sound'
<1> DEFINE others == [runs EXCEPT ![r].phase = "over"]
<1>1. runs[r].phase = "starting" /\ UNCHANGED <<starts, stops, asked>> /\ Suspended
  BY DEF RestartGoesOn, Suspended
<1>2. /\ runs \in [Runs -> Run] /\ store \in Store /\ starts = 0 /\ task = NoRun /\ asked # "stop"
  BY <1>1 DEF Sound, Shapes, StartsAlone
<1>3. /\ others \in [Runs -> Run]
      /\ others[r].phase = "over" /\ \A q \in Runs \ {r} : others[q] = runs[q]
  BY <1>2 DEF Run, Phases
<1>4. ASSUME NEW q \in Runs
      PROVE  /\ others[q].phase \in {"none", "over"}
             /\ others[q].phase = "none" => others[q] = Unused
             /\ runs[q] = Unused => others[q] = Unused
  <2>1. CASE q = r
    BY <1>1, <1>3, <2>1 DEF Unused
  <2>2. CASE q # r
    <3>1. runs[q].phase \in Phases /\ runs[q].phase \notin {"starting", "live", "sleeping", "over"}
      BY <1>1, <1>2, <2>2, RunIds DEF Sound, StartsAlone, InStore, Run
    <3> QED BY <1>3, <2>2, <3>1 DEF Sound, InStore, Phases
  <2> QED BY <2>1, <2>2
<1> HIDE DEF others
<1>5. CASE Launch(others)
  BY <1>1, <1>2, <1>3, <1>4, <1>5, LaunchSound
<1>6. CASE runs' = others /\ UNCHANGED store
  <2>1. \A i \in StopIds : stops[i] = NoStop
    BY <1>2, NoStopWithoutTask
  <2>2. task' = task /\ abort' = abort
    BY <1>6 DEF task, abort
  <2>3. Shapes' /\ InStore'
    BY <1>1, <1>2, <1>3, <1>4, <1>6, <2>2 DEF Sound, Shapes, InStore
  <2>4. StartsAlone' /\ StopsWait' /\ StopHolds'
    BY <1>1, <1>2, <1>4, <1>6, <2>1 DEF StartsAlone, Suspended, StopsWait, StopHolds
  <2> QED BY <2>3, <2>4 DEF Sound
<1> QED BY <1>5, <1>6 DEF RestartGoesOn, others

\* The stops that wait for run r return when its task settles, and then no run is left;
\* at most one of their callers starts the account again.
LEMMA RunSettlesSound ==
  ASSUME Sound, NEW r \in Runs, RunSettles(r), ~contended' PROVE Sound'
<1>1. /\ runs[r].phase = "over" /\ runs' = [runs EXCEPT ![r] = Unused]
      /\ store' = IF Waiting(r) = {} THEN Cleared(r) ELSE Empty
      /\ stops' = [i \in StopIds |-> IF i \in Waiting(r) THEN NoStop
                                     ELSE IF stops[i].task = r THEN [stops[i] EXCEPT !.task = NoRun]
                                     ELSE stops[i]]
      /\ StopsReturn(Waiters(r), asked) /\ ~(Restarters \subseteq Waiters(r))
  BY DEF RunSettles
<1>2. /\ runs \in [Runs -> Run] /\ store \in Store /\ starts \in {0, 1}
      /\ abort = task \/ (abort = Orphan /\ task = NoRun)
      /\ task \in Runs \cup {NoRun} /\ r # NoRun /\ r # Orphan
  BY RunIds, StoreFields DEF Sound, Shapes, InStore, StartsAlone
<1>3. /\ runs' \in [Runs -> Run]
      /\ runs'[r] = Unused /\ \A q \in Runs \ {r} : runs'[q] = runs[q]
  BY <1>1, <1>2 DEF Unused, Run, Phases
<1>4. ASSUME NEW i \in StopIds
      PROVE  /\ stops'[i] = IF i \in Waiting(r) THEN NoStop ELSE stops[i]
             /\ stops[i] # NoStop /\ task = r <=> i \in Waiting(r)
             /\ i \in Waiting(r) => task = r
  <2>1. stops[i] # NoStop => stops[i].step = "task" /\ stops[i].task = task
    BY DEF Sound, StopsWait
  <2>2. NoStop.task # r /\ NoStop.step # "task"
    BY <1>2 DEF NoStop
  <2>3. i \in Waiting(r) <=> stops[i].step = "task" /\ stops[i].task = r
    BY DEF Waiting
  <2>4. stops'[i] = IF i \in Waiting(r) THEN NoStop
                    ELSE IF stops[i].task = r THEN [stops[i] EXCEPT !.task = NoRun] ELSE stops[i]
    BY <1>1
  <2> QED BY <2>1, <2>2, <2>3, <2>4
<1>5. Waiting(r) # {} => task = r
  BY <1>4 DEF Waiting
<1>6. /\ task' = (IF task = r THEN NoRun ELSE task)
      /\ abort' = task' \/ (abort' = Orphan /\ task' = NoRun)
      /\ store' \in Store
  <2>1. CASE Waiting(r) = {}
    BY <1>1, <1>2, <2>1 DEF Cleared, task, abort, Store
  <2>2. CASE Waiting(r) # {}
    BY <1>1, <1>5, <2>2 DEF Empty, task, abort, Store
  <2> QED BY <2>1, <2>2
<1>7. Shapes'
  <2>1. stops' \in [StopIds -> Stop]
    <3>1. stops' = [i \in StopIds |-> stops'[i]]
      BY <1>1
    <3>2. ASSUME NEW i \in StopIds PROVE stops'[i] \in {stops[i], NoStop}
      BY <1>4
    <3> QED BY <3>1, <3>2 DEF Sound, Shapes, NoStop, Stop
  <2> QED BY <1>3, <1>6, <2>1 DEF Shapes
<1>8. InStore'
  BY <1>1, <1>2, <1>3, <1>6 DEF Sound, InStore, Unused
<1>9. StopsWait'
  BY <1>2, <1>3, <1>4, <1>6 DEF Sound, StopsWait
<1>10. starts \in Nat
  BY <1>2
<1>11. CASE Waiting(r) = {}
  <2>1. Waiters(r) = {}
    BY <1>11 DEF Waiters
  <2>2. UNCHANGED <<starts, asked>>
    BY <1>1, <1>10, <2>1, FS_EmptySet DEF StopsReturn
  <2>3. StartsAlone'
    BY <1>2, <1>3, <1>6, <2>2 DEF Sound, StartsAlone, Suspended, Unused
  <2>4. StopHolds'
    BY <1>3, <1>4, <1>11, <2>2 DEF Sound, StopHolds, Unused
  <2> QED BY <1>7, <1>8, <1>9, <2>3, <2>4 DEF Sound
<1>12. CASE Waiting(r) # {}
  <2>1. task = r /\ task' = NoRun
    BY <1>5, <1>6, <1>12
  <2>2. starts = 0 /\ \A q \in Runs : runs[q].phase # "starting"
    BY <1>2, <2>1 DEF Sound, StartsAlone, Suspended
  <2>3. starts' \in {0, 1} /\ (starts' # 0 => asked' = "start")
    BY <1>1, <1>10, <2>2, Returns
  <2>4. \A q \in Runs : runs'[q].phase \in {"none", "over"}
    BY <1>2, <1>3, <2>1, <2>2 DEF Sound, InStore, Run, Phases, Unused
  <2>5. StartsAlone' /\ StopHolds'
    BY <2>1, <2>3, <2>4 DEF StartsAlone, Suspended, StopHolds
  <2> QED BY <1>7, <1>8, <1>9, <2>5 DEF Sound
<1> QED BY <1>11, <1>12

\* A stop finds nothing in the store, or a controller without a task, and returns; or it
\* aborts what is there and waits for it.
LEMMA StopSound ==
  ASSUME Sound, kind = "plain", ~Suspended, NEW by \in Callers, NEW last, StopChannel(by, last)
  PROVE  Sound'
<1>1. starts = 0 /\ starts \in Nat
  BY DEF Suspended, Sound, StartsAlone
<1>2. CASE task = NoRun
  <2>1. /\ UNCHANGED runs /\ store' \in {store, Empty} /\ StopsReturn({by}, last)
        /\ stops' = stops \/ stops' = [stops EXCEPT ![NewStop] = NoStop]
    <3>1. CASE NothingToStop
      BY <3>1 DEF StopChannel
    <3>2. CASE ~NothingToStop
      <4>1. abort = Orphan /\ runs \in [Runs -> Run]
        BY <1>2, <3>2 DEF NothingToStop, Sound, InStore, Shapes
      <4>2. runs' = [r \in Runs |-> IF r = abort THEN [runs[r] EXCEPT !.aborted = TRUE] ELSE runs[r]]
        BY <3>2 DEF StopChannel
      <4>3. runs' = runs
        BY <4>1, <4>2, RunIds
      <4>4. AfterHook(NewStop, by, task, last)
        BY <3>2 DEF StopChannel
      <4> QED BY <1>2, <4>3, <4>4 DEF AfterHook
    <3> QED BY <3>1, <3>2
  <2>2. UNCHANGED stops
    <3>1. \A i \in StopIds : stops[i] = NoStop
      BY <1>2, NoStopWithoutTask
    <3>2. stops \in [StopIds -> Stop]
      BY DEF Sound, Shapes
    <3> QED BY <2>1, <3>1, <3>2
  <2>3. task' = NoRun /\ abort' \in {NoRun, Orphan} /\ store' \in Store
    BY <1>2, <2>1 DEF Sound, Shapes, InStore, Store, Empty, task, abort
  <2>4. starts' \in {0, 1} /\ (starts' # 0 => asked' = "start")
    BY <1>1, <2>1, Returns DEF Restarters
  <2> QED BY <1>2, <2>1, <2>2, <2>3, <2>4, WaitSound
<1>3. CASE task # NoRun
  <2> DEFINE n == NewStop
             stop == [by |-> by, step |-> "task", task |-> task]
  <2>1. /\ runs' = [r \in Runs |-> IF r = abort THEN [runs[r] EXCEPT !.aborted = TRUE] ELSE runs[r]]
        /\ stops' = [stops EXCEPT ![n] = stop] /\ UNCHANGED <<store, starts>>
    BY <1>3 DEF StopChannel, NothingToStop, AfterHook
  <2> HIDE DEF n
  <2>2. /\ runs \in [Runs -> Run] /\ stops \in [StopIds -> Stop]
        /\ task \in Runs /\ abort = task /\ runs[task].phase # "none"
    BY <1>3, StoreFields DEF Sound, Shapes, InStore
  <2>3. /\ runs' \in [Runs -> Run]
        /\ \A r \in Runs : runs'[r].phase = runs[r].phase /\ (r # task => runs'[r] = runs[r])
        /\ runs'[task].aborted
    BY <2>1, <2>2 DEF Run, Phases
  <2>4. task' = task /\ abort' = abort
    BY <2>1 DEF task, abort
  <2>5. stop \in Stop
    BY <2>2 DEF Stop
  <2>6. /\ stop # NoStop /\ stop.step = "task" /\ stop.task = task
    BY DEF NoStop
  <2> HIDE DEF stop
  <2>7. \A i \in StopIds : stops'[i] \in {stops[i], stop}
    BY <2>1, <2>2
  <2>8. Shapes'
    BY <2>1, <2>2, <2>3, <2>5 DEF Sound, Shapes
  <2>9. InStore'
    BY <2>2, <2>3, <2>4 DEF Sound, InStore
  <2>10. StopsWait'
    BY <1>3, <2>3, <2>4, <2>6, <2>7 DEF Sound, StopsWait
  <2>11. \E i \in StopIds : stops'[i] # NoStop
    <3>1. CASE \E i \in StopIds : stops[i] = NoStop
      <4>1. n \in StopIds
        BY <3>1 DEF n, NewStop
      <4> QED BY <2>1, <2>2, <2>6, <4>1
    <3>2. CASE \A i \in StopIds : stops[i] # NoStop
      BY <2>6, <2>7, <3>2, RunIds
    <3> QED BY <3>1, <3>2
  <2>12. StopHolds' /\ StartsAlone'
    BY <1>1, <2>1, <2>3, <2>11 DEF StopHolds, StartsAlone, Suspended
  <2> QED BY <2>8, <2>9, <2>10, <2>12 DEF Sound
<1> QED BY <1>2, <1>3

-----------------------------------------------------------------------------
LEMMA NextSound ==
  ASSUME kind = "plain", Sound, [Next]_vars, ~contended' PROVE Sound'
<1>1. CASE UNCHANGED vars
  BY <1>1, StutterSound DEF vars
<1>2. ASSUME NEW r \in Runs, RunSettles(r) PROVE Sound'
  BY <1>2, RunSettlesSound
<1>3. CASE \A r \in Runs : runs[r].phase # "over"
  <2>1. CASE StartGoesOn
    BY <1>3, <2>1, StartGoesOnSound
  <2>2. ASSUME NEW r \in Runs, RestartGoesOn(r) \/ SleepIsOver(r) PROVE Sound'
    BY <1>3, <2>2, RestartGoesOnSound, SleepIsOverSound
  <2>3. CASE ~Reacting
    <3>1. ~Suspended
      BY <2>3 DEF Reacting, Suspended
    <3>2. CASE RequestStart
      BY <3>1, <3>2, StartSound DEF RequestStart
    <3>3. CASE RequestStop \/ RequestReload
      BY <3>1, <3>3, StopSound DEF RequestStop, RequestReload, Callers, Restarters
    <3>4. ASSUME NEW r \in Runs, RunExits(r) \/ Restarts(r) PROVE Sound'
      BY <3>1, <3>4, RunExitsSound, RestartsSound
    <3>5. ASSUME NEW i \in StopIds PROVE ~(HookReturns(i) \/ HookThrows(i))
      <4>1. stops[i].step # "hook"
        BY DEF Sound, StopsWait, NoStop
      <4> QED BY <4>1 DEF HookReturns, HookThrows
    <3>6. CASE MonitorActs
      <4>1. CASE UNCHANGED <<store, runs, stops, starts, asked>>
        BY <4>1, StutterSound
      <4>2. CASE StopChannel("monitor", asked)
        BY <3>1, <4>2, StopSound DEF Callers, Restarters
      <4>3. CASE StartChannel /\ asked' = "start" /\ UNCHANGED <<store, runs, stops>>
        BY <3>1, <4>3, StartSound
      <4> QED BY <3>6, <4>1, <4>2, <4>3 DEF MonitorActs
    <3>7. CASE MonitorSees \/ MarkChannelLoggedOut \/ Disconnects \/ EditConfig
      BY <3>7, StutterSound DEF MonitorSees, MarkChannelLoggedOut, Disconnects, EditConfig
    <3> QED BY <1>1, <1>2, <2>1, <2>2, <3>2, <3>3, <3>4, <3>5, <3>6, <3>7 DEF Next
  <2> QED BY <1>1, <1>2, <2>1, <2>2, <2>3 DEF Next
<1> QED BY <1>1, <1>2, <1>3 DEF Next

\* A plain account keeps its run in the store, whatever happens to it.
THEOREM IInvHolds == Spec => []IInv
<1>1. Init => IInv
  <2> SUFFICES ASSUME Init PROVE Sound
    BY DEF IInv
  <2>1. Shapes
    BY DEF Init, Shapes, Empty, Store, NoStop, Stop, Unused, Run, Phases
  <2>2. InStore /\ StartsAlone /\ StopsWait /\ StopHolds
    BY DEF Init, InStore, StartsAlone, Suspended, StopsWait, StopHolds, Unused, Empty, task, abort
  <2> QED BY <2>1, <2>2 DEF Sound
<1>2. IInv /\ [Next]_vars => IInv'
  <2>1. [Next]_vars => kind' = kind /\ (~contended' => ~contended)
    <3>1. UNCHANGED vars => UNCHANGED <<kind, contended>>
      BY DEF vars
    <3>2. \A r \in Runs : RunSettles(r) => kind' = kind /\ (contended => contended')
      BY DEF RunSettles
    <3>3. \A r \in Runs :
            RunExits(r) \/ SleepIsOver(r) \/ Restarts(r) \/ RestartGoesOn(r) => UNCHANGED <<kind, contended>>
      BY DEF RunExits, SleepIsOver, Restarts, RestartGoesOn
    <3>4. \A i \in StopIds : HookReturns(i) \/ HookThrows(i) => UNCHANGED <<kind, contended>>
      BY DEF HookReturns, HookThrows
    <3>5. RequestStart \/ StartGoesOn \/ RequestStop \/ RequestReload => UNCHANGED <<kind, contended>>
      BY DEF RequestStart, StartGoesOn, RequestStop, RequestReload
    <3>6. MonitorSees \/ MonitorActs \/ MarkChannelLoggedOut \/ Disconnects \/ EditConfig
            => UNCHANGED <<kind, contended>>
      BY DEF MonitorSees, MonitorActs, MarkChannelLoggedOut, Disconnects, EditConfig
    <3> QED BY <3>1, <3>2, <3>3, <3>4, <3>5, <3>6 DEF Next
  <2> QED BY <2>1, NextSound DEF IInv
<1> QED BY <1>1, <1>2, PTL DEF Spec

\* A plain account has at most one live run, which a stop finds in the store, however
\* many starts, stops, exits, pauses, reloads and checks of the monitor come together,
\* until monitor and reload wait for the same task.
THEOREM OneRun == Spec => []OneRunPerAccount
<1>1. IInv => OneRunPerAccount
  BY RunIds DEF IInv, Sound, InStore, OneRunPerAccount, Live
<1> QED BY <1>1, IInvHolds, PTL

\* With the same exception, a plain account that was stopped last stays without a run,
\* even without one in its pause that would come back, and without a start that waits.
THEOREM StopsLast == Spec => []StoppedStaysStopped
<1>1. IInv => StoppedStaysStopped
  BY DEF IInv, Sound, StopHolds, StartsAlone, Suspended, StoppedStaysStopped
<1> QED BY <1>1, IInvHolds, PTL

-----------------------------------------------------------------------------
(* Channel accounts of any kind: how many runs, starts and stops there are,  *)
(* and the attempts to restart.                                              *)

Underway  == {"live", "sleeping", "starting"}
Under     == {r \in Runs : runs[r].phase \in Underway}
Stopping  == {i \in StopIds : stops[i] # NoStop}
Looking   == monitor \in {"sawRunning", "sawStopped"}
Reloading == \E i \in StopIds : stops[i].by = "reload"

\* The starts that the monitor and the reload may still ask for.
Promised == (IF monitor # "idle" THEN 1 ELSE 0) + (IF Reloading THEN 1 ELSE 0)

Typed ==
  /\ kind \in {"plain", "slow", "hooked"} /\ usable \in BOOLEAN /\ manuallyStopped \in BOOLEAN
  /\ store \in Store
  /\ attempts \in Nat /\ starts \in Nat /\ running \in BOOLEAN /\ connected \in BOOLEAN
  /\ runs \in [Runs -> Run] /\ stops \in [StopIds -> Stop]
  /\ monitor \in {"idle", "sawRunning", "sawStopped", "stopping"}
  /\ requests \in 0..MaxRequests /\ asked \in {"nothing", "start", "stop"}
  /\ contended \in BOOLEAN /\ threw \in BOOLEAN

\* The run whose controller is stored is there, and one that is not has no mark.
Clean ==
  /\ abort \in Runs => runs[abort].phase # "none"
  /\ \A r \in Runs : runs[r].phase = "none" => runs[r] = Unused

\* The monitor waits for one stop at most, and only while it is stopping; so does the
\* reload; and a stop has a caller.
RestartersStop ==
  /\ \A i \in StopIds : stops[i].by = "monitor" =>
       monitor = "stopping" /\ \A j \in StopIds : stops[j].by = "monitor" => j = i
  /\ \A i, j \in StopIds : stops[i].by = "reload" /\ stops[j].by = "reload" => j = i
  /\ \A i \in StopIds : stops[i].by = "nobody" => stops[i] = NoStop

\* Every run under way, every start that waits or that a restarter will ask for, comes
\* from a request of its own; and so does every stop, with the check of a monitor that
\* has not called stop yet.
RunBudget  == Cardinality(Under) + starts + Promised <= requests
StopBudget == Cardinality(Stopping) <= requests /\ (Looking => Cardinality(Stopping) < requests)

\* Past the limit every exit takes a run away.
AttemptBudget ==
  attempts <= MAX_RESTART_ATTEMPTS
    \/ attempts + Cardinality(Under) <= MAX_RESTART_ATTEMPTS + Cardinality(Runs)

Counted == Typed /\ Clean /\ RestartersStop /\ RunBudget /\ StopBudget /\ AttemptBudget

-----------------------------------------------------------------------------
\* Sets of runs and of stops are finite.
LEMMA Sizes ==
  /\ IsFiniteSet(Runs) /\ Cardinality(Runs) = MaxRequests + 2
  /\ IsFiniteSet(StopIds) /\ Cardinality(StopIds) = MaxRequests
  /\ \A S \in SUBSET Runs : IsFiniteSet(S) /\ Cardinality(S) \in Nat /\ Cardinality(S) <= MaxRequests + 2
  /\ \A S \in SUBSET StopIds : IsFiniteSet(S) /\ Cardinality(S) \in Nat
<1>1. IsFiniteSet(Runs) /\ Cardinality(Runs) = MaxRequests + 2
  BY BoundAssumption, FS_Interval DEF Runs
<1>2. IsFiniteSet(StopIds) /\ Cardinality(StopIds) = MaxRequests
  BY BoundAssumption, FS_Interval DEF StopIds
<1>3. \A S \in SUBSET Runs : IsFiniteSet(S) /\ Cardinality(S) \in Nat /\ Cardinality(S) <= Cardinality(Runs)
  BY <1>1, FS_Subset, FS_CardinalityType
<1>4. \A S \in SUBSET StopIds : IsFiniteSet(S) /\ Cardinality(S) \in Nat
  BY <1>2, FS_Subset, FS_CardinalityType
<1> QED BY <1>1, <1>2, <1>3, <1>4

\* A set of runs with one more or one less, or another one in its place.
LEMMA OneMore ==
  ASSUME NEW S \in SUBSET Runs, NEW r \in Runs
  PROVE  /\ r \notin S => Cardinality(S \cup {r}) = Cardinality(S) + 1
         /\ r \in S => Cardinality(S \ {r}) = Cardinality(S) - 1
         /\ \A q \in Runs : q \in S /\ r \notin S => Cardinality((S \ {q}) \cup {r}) = Cardinality(S)
<1>1. IsFiniteSet(S) /\ Cardinality(S) \in Nat
  BY Sizes
<1>2. /\ r \notin S => Cardinality(S \cup {r}) = Cardinality(S) + 1
      /\ r \in S => Cardinality(S \ {r}) = Cardinality(S) - 1
  BY <1>1, FS_AddElement, FS_RemoveElement
<1>3. ASSUME NEW q \in Runs, q \in S, r \notin S
      PROVE  Cardinality((S \ {q}) \cup {r}) = Cardinality(S)
  <2>1. IsFiniteSet(S \ {q}) /\ Cardinality(S \ {q}) = Cardinality(S) - 1
    BY <1>1, <1>3, FS_RemoveElement
  <2>2. r \notin S \ {q}
    BY <1>3
  <2>3. Cardinality((S \ {q}) \cup {r}) = Cardinality(S \ {q}) + 1
    BY <2>1, <2>2, FS_AddElement
  <2> QED BY <1>1, <2>1, <2>3
<1> QED BY <1>2, <1>3

LEMMA UnderSize ==
  /\ Under \in SUBSET Runs
  /\ Cardinality(Under) \in Nat /\ Cardinality(Runs) \in Nat /\ Cardinality(Under) <= Cardinality(Runs)
<1>1. Under \in SUBSET Runs
  BY DEF Under
<1> QED BY <1>1, Sizes, BoundAssumption

LEMMA StoppingSize == Cardinality(Stopping) \in Nat /\ IsFiniteSet(Stopping)
<1>1. Stopping \in SUBSET StopIds
  BY DEF Stopping
<1> QED BY <1>1, Sizes

LEMMA Requested ==
  ASSUME Counted
  PROVE  /\ requests \in Nat /\ requests <= MaxRequests /\ MaxRequests \in Nat
         /\ starts \in Nat /\ attempts \in Nat /\ Promised \in Nat
<1>1. requests \in 0..MaxRequests /\ starts \in Nat /\ attempts \in Nat
  BY DEF Counted, Typed
<1>2. Promised \in Nat
  BY DEF Promised
<1> QED BY <1>1, <1>2, BoundAssumption

\* What concerns the runs, and what concerns the stops.
RunSide ==
  /\ store \in Store /\ runs \in [Runs -> Run]
  /\ attempts \in Nat /\ starts \in Nat /\ running \in BOOLEAN /\ connected \in BOOLEAN
  /\ manuallyStopped \in BOOLEAN
  /\ Clean /\ RunBudget /\ AttemptBudget

StopSide == stops \in [StopIds -> Stop] /\ RestartersStop /\ StopBudget

Rest ==
  /\ kind \in {"plain", "slow", "hooked"} /\ usable \in BOOLEAN
  /\ monitor \in {"idle", "sawRunning", "sawStopped", "stopping"}
  /\ requests \in 0..MaxRequests /\ asked \in {"nothing", "start", "stop"}
  /\ contended \in BOOLEAN /\ threw \in BOOLEAN

LEMMA AsItWas ==
  ASSUME Counted
  PROVE  /\ RunSide /\ StopSide /\ Rest
         /\ runs \in [Runs -> Run] /\ stops \in [StopIds -> Stop] /\ store \in Store
         /\ task \in Runs \cup {NoRun} /\ abort \in Runs \cup {NoRun, Orphan}
         /\ running \in BOOLEAN /\ connected \in BOOLEAN /\ manuallyStopped \in BOOLEAN
BY StoreFields DEF Counted, Typed, RunSide, StopSide, Rest

LEMMA Joined == RunSide' /\ StopSide' /\ Rest' => Counted'
BY DEF Counted, Typed, RunSide, StopSide, Rest

\* When no run is about to settle, a run is free for a start that waits, with nothing
\* left of an earlier one.
LEMMA RunIsFree ==
  ASSUME Counted, \A r \in Runs : runs[r].phase # "over"
  PROVE  NewRun \in Runs /\ runs[NewRun] = Unused /\ NewRun \notin Under
<1>1. Under # Runs
  <2>1. /\ Cardinality(Under) \in Nat /\ starts \in Nat /\ Promised \in Nat /\ requests \in Nat
        /\ Cardinality(Under) + starts + Promised <= requests /\ requests <= MaxRequests
    BY UnderSize, Requested DEF Counted, RunBudget
  <2>2. Cardinality(Under) <= MaxRequests
    BY <2>1, BoundAssumption
  <2> QED BY <2>2, Sizes, BoundAssumption
<1>2. PICK r \in Runs : r \notin Under
  BY <1>1 DEF Under
<1>3. runs[r].phase = "none"
  BY <1>2 DEF Counted, Typed, Run, Phases, Under, Underway
<1>4. runs[r] = Unused
  BY <1>3 DEF Counted, Clean
<1>5. NewRun \in Runs /\ runs[NewRun] = Unused
  BY <1>4 DEF NewRun
<1> QED BY <1>5 DEF Under, Underway, Unused

\* The phase of a run changes.
LEMMA PhaseTyped ==
  ASSUME Counted, \A r \in Runs : runs[r].phase # "over",
         NEW r \in Runs, r \in Under, NEW phase \in {"sleeping", "starting", "over"},
         runs' = [runs EXCEPT ![r].phase = phase],
         store' = store \/ store' = Cleared(r) \/ store' = [store EXCEPT !.abort = Orphan]
  PROVE  /\ runs' \in [Runs -> Run] /\ Clean' /\ store' \in Store
         /\ Cardinality(Under') = IF phase = "over" THEN Cardinality(Under) - 1 ELSE Cardinality(Under)
<1>1. /\ runs' \in [Runs -> Run] /\ runs'[r].phase = phase
      /\ \A q \in Runs \ {r} : runs'[q] = runs[q]
  BY AsItWas DEF Run, Phases
<1>2. store' \in Store /\ abort' \in {abort, NoRun, Orphan}
  BY AsItWas DEF abort, task, Store, Cleared
<1>3. Clean'
  BY <1>1, <1>2, RunIds DEF Counted, Clean
<1>4. CASE phase = "over"
  <2>1. Under' = Under \ {r}
    BY <1>1, <1>4 DEF Under, Underway
  <2> QED BY <1>1, <1>2, <1>3, <1>4, <2>1, OneMore, UnderSize
<1>5. CASE phase # "over"
  <2>1. Under' = Under
    BY <1>1, <1>5 DEF Under, Underway
  <2> QED BY <1>1, <1>2, <1>3, <1>5, <2>1
<1> QED BY <1>4, <1>5

\* A launch beside the other runs adds at most its run to those under way.
LEMMA LaunchTyped ==
  ASSUME Counted, \A r \in Runs : runs[r].phase # "over",
         NEW others \in [Runs -> Run], NEW q \in Runs,
         others = runs \/ (q \in Under /\ others = [runs EXCEPT ![q].phase = "over"]),
         Launch(others)
  PROVE  /\ runs' \in [Runs -> Run] /\ running' \in BOOLEAN /\ connected' \in BOOLEAN
         /\ store' \in Store /\ Clean'
         /\ Cardinality(Under') <= IF others = runs THEN Cardinality(Under) + 1 ELSE Cardinality(Under)
<1> DEFINE n == NewRun
<1>1. n \in Runs /\ runs[n] = Unused /\ n \notin Under
  BY RunIsFree
<1>2. running' \in BOOLEAN /\ connected' \in BOOLEAN
  BY AsItWas DEF Launch
<1>3. Cardinality(Under) \in Nat /\ Under \in SUBSET Runs
  BY UnderSize
<1>4. CASE runs' = others /\ store' = [store EXCEPT !.abort = Orphan]
  <2>1. CASE others = runs
    <3>1. abort' = Orphan /\ store' \in Store /\ runs' = runs
      BY <1>4, <2>1, AsItWas DEF abort, Store
    <3>2. Clean'
      BY <3>1, RunIds DEF Counted, Clean
    <3>3. Under' = Under
      BY <3>1 DEF Under
    <3> QED BY <1>2, <1>3, <2>1, <3>1, <3>2, <3>3
  <2>2. CASE q \in Under /\ others = [runs EXCEPT ![q].phase = "over"]
    <3>1. /\ runs' \in [Runs -> Run] /\ Clean' /\ store' \in Store
          /\ Cardinality(Under') = Cardinality(Under) - 1
      BY <1>4, <2>2, PhaseTyped
    <3> QED BY <1>2, <1>3, <3>1
  <2> QED BY <2>1, <2>2
<1>5. CASE runs' = [others EXCEPT ![n].phase = "live"] /\ store' = [task |-> n, abort |-> n]
  <2> HIDE DEF n
  <2>1. /\ runs' \in [Runs -> Run] /\ runs'[n].phase = "live"
        /\ \A r \in Runs \ {n} : runs'[r] = others[r]
    BY <1>1, <1>5 DEF Run, Phases
  <2>2. /\ \A r \in Runs \ {q} : others[r] = runs[r]
        /\ others[q] = runs[q] \/ (q \in Under /\ others[q].phase = "over")
    <3>1. runs \in [Runs -> Run]
      BY AsItWas
    <3>2. CASE others = runs
      BY <3>2
    <3>3. CASE q \in Under /\ others = [runs EXCEPT ![q].phase = "over"]
      BY <3>1, <3>3 DEF Run
    <3> QED BY <3>2, <3>3
  <2>3. abort' = n /\ store' \in Store
    BY <1>1, <1>5 DEF abort, Store
  <2>4. Clean'
    BY <1>1, <2>1, <2>2, <2>3 DEF Counted, Clean
  <2>5. CASE others = runs
    <3>1. Under' = Under \cup {n}
      BY <1>1, <2>1, <2>5 DEF Under, Underway
    <3> QED BY <1>1, <1>2, <1>3, <2>1, <2>3, <2>4, <2>5, <3>1, OneMore
  <2>6. CASE others # runs
    <3>1. q \in Under /\ others[q].phase = "over"
      BY <2>6, AsItWas DEF Run
    <3>2. Under' = (Under \ {q}) \cup {n}
      BY <1>1, <2>1, <2>2, <3>1 DEF Under, Underway
    <3>3. Cardinality((Under \ {q}) \cup {n}) = Cardinality(Under)
      BY <1>1, <1>3, <3>1, OneMore
    <3> QED BY <1>1, <1>2, <1>3, <2>1, <2>3, <2>4, <2>6, <3>2, <3>3
  <2> QED BY <2>5, <2>6
<1> QED BY <1>4, <1>5 DEF Launch

-----------------------------------------------------------------------------
\* The number of runs under way, and what else takes a request.
LEMMA RunNumbers ==
  ASSUME Counted, NEW u \in Nat, NEW n \in Nat, NEW p \in Nat, NEW q \in Nat, NEW t \in Nat,
         Cardinality(Under') = u, starts' = n, Promised' = p, requests' = q, attempts' = t,
         u <= Cardinality(Runs),
         u + n + p + requests <= Cardinality(Under) + starts + Promised + q,
         \/ t <= MAX_RESTART_ATTEMPTS
         \/ t + u <= attempts + Cardinality(Under) /\ t >= attempts
         \/ u < Cardinality(Under) /\ t = attempts + 1
  PROVE  RunBudget' /\ AttemptBudget'
<1>1. /\ Cardinality(Under) \in Nat /\ Cardinality(Runs) \in Nat /\ requests \in Nat
      /\ Cardinality(Under) <= Cardinality(Runs) /\ starts \in Nat /\ attempts \in Nat /\ Promised \in Nat
  BY Requested, UnderSize
<1>2. RunBudget'
  <2>1. u + n + p <= q
    BY <1>1 DEF Counted, RunBudget
  <2> QED BY <2>1 DEF RunBudget
<1>3. AttemptBudget'
  <2>1. \/ t <= MAX_RESTART_ATTEMPTS
        \/ t + u <= MAX_RESTART_ATTEMPTS + Cardinality(Runs)
    BY <1>1, AttemptsAssumption DEF Counted, AttemptBudget
  <2> QED BY <2>1 DEF AttemptBudget
<1> QED BY <1>2, <1>3

\* A step that leaves the runs under way as they are, or marks the one in the store.
LEMMA RunsSame ==
  ASSUME Counted,
         runs' = runs \/ runs' = [r \in Runs |-> IF r = abort THEN [runs[r] EXCEPT !.aborted = TRUE] ELSE runs[r]],
         store' = store \/ store' = Empty,
         running' \in BOOLEAN, connected' \in BOOLEAN, manuallyStopped' \in BOOLEAN,
         NEW n \in Nat, NEW p \in Nat, NEW q \in Nat, starts' = n, Promised' = p, requests' = q,
         attempts' \in {attempts, 0}, n + p + requests <= starts + Promised + q
  PROVE  RunSide'
<1>1. /\ runs \in [Runs -> Run] /\ store \in Store /\ abort \in Runs \cup {NoRun, Orphan}
  BY AsItWas
<1>2. /\ runs' \in [Runs -> Run] /\ \A r \in Runs : runs'[r].phase = runs[r].phase
      /\ \A r \in Runs : r # abort => runs'[r] = runs[r]
  <2>1. CASE runs' = runs
    BY <1>1, <2>1
  <2>2. CASE runs' = [r \in Runs |-> IF r = abort THEN [runs[r] EXCEPT !.aborted = TRUE] ELSE runs[r]]
    BY <1>1, <2>2 DEF Run
  <2> QED BY <2>1, <2>2
<1>3. store' \in Store /\ abort' \in {abort, NoRun}
  BY <1>1 DEF Empty, Store, abort
<1>4. Clean'
  BY <1>1, <1>2, <1>3, RunIds DEF Counted, Clean
<1>5. Under' = Under
  BY <1>2 DEF Under
<1>6. PICK u \in Nat, t \in Nat : u = Cardinality(Under) /\ t = attempts' /\ t \in {attempts, 0}
  BY UnderSize, Requested
<1>7. RunBudget' /\ AttemptBudget'
  <2>1. Cardinality(Under') = u /\ u <= Cardinality(Runs)
    BY <1>5, <1>6, UnderSize
  <2>2. starts \in Nat /\ requests \in Nat /\ attempts \in Nat /\ Promised \in Nat
    BY Requested
  <2>3. u + n + p + requests <= Cardinality(Under) + starts + Promised + q
    BY <1>6, <2>2
  <2>4. t <= MAX_RESTART_ATTEMPTS \/ (t + u <= attempts + Cardinality(Under) /\ t >= attempts)
    BY <1>6, <2>2, AttemptsAssumption
  <2> QED BY <1>6, <2>1, <2>3, <2>4, RunNumbers
<1> QED BY <1>2, <1>3, <1>4, <1>6, <1>7 DEF RunSide

\* Another run is launched, beside the others or in the place of one of them.
LEMMA LaunchCounts ==
  ASSUME Counted, \A r \in Runs : runs[r].phase # "over",
         NEW others \in [Runs -> Run], NEW p \in Runs,
         others = runs \/ (p \in Under /\ others = [runs EXCEPT ![p].phase = "over"]),
         Launch(others), manuallyStopped' \in BOOLEAN, UNCHANGED <<stops, monitor, requests>>,
         \/ attempts' = 0 /\ starts > 0 /\ starts' = starts - 1
         \/ others # runs /\ UNCHANGED <<attempts, starts>>
  PROVE  RunSide'
<1>1. /\ runs' \in [Runs -> Run] /\ running' \in BOOLEAN /\ connected' \in BOOLEAN
      /\ store' \in Store /\ Clean'
      /\ Cardinality(Under') <= IF others = runs THEN Cardinality(Under) + 1 ELSE Cardinality(Under)
  BY LaunchTyped
<1>2. Promised' = Promised
  BY DEF Promised, Reloading
<1>3. /\ starts \in Nat /\ requests \in Nat /\ attempts \in Nat /\ Promised \in Nat
      /\ Cardinality(Under) \in Nat
  BY Requested, UnderSize
<1>4. PICK u \in Nat : u = Cardinality(Under') /\ u <= Cardinality(Runs)
  <2>1. Under' \in SUBSET Runs
    BY DEF Under
  <2> QED BY <2>1, Sizes
<1>5. u <= Cardinality(Under) + 1 /\ (others # runs => u <= Cardinality(Under))
  BY <1>1, <1>3, <1>4
<1>6. PICK n \in Nat, t \in Nat, c \in Nat, q \in Nat :
        n = starts' /\ t = attempts' /\ c = Promised' /\ q = requests' /\ c = Promised /\ q = requests
  BY <1>2, <1>3
<1>7. u + n + c + requests <= Cardinality(Under) + starts + Promised + q
  BY <1>3, <1>4, <1>5, <1>6
<1>8. t <= MAX_RESTART_ATTEMPTS \/ (t + u <= attempts + Cardinality(Under) /\ t >= attempts)
  BY <1>3, <1>4, <1>5, <1>6, AttemptsAssumption
<1>9. RunBudget' /\ AttemptBudget'
  BY <1>4, <1>6, <1>7, <1>8, RunNumbers
<1> QED BY <1>1, <1>6, <1>9 DEF RunSide

\* A run exits, or goes on in its pause; nothing else is counted differently.
LEMMA PhaseCounts ==
  ASSUME Counted, \A r \in Runs : runs[r].phase # "over",
         NEW r \in Runs, r \in Under, NEW phase \in {"sleeping", "starting", "over"},
         runs' = [runs EXCEPT ![r].phase = phase],
         store' = store \/ store' = Cleared(r), UNCHANGED <<monitor, stops, starts, requests>>,
         running' \in BOOLEAN, connected' \in BOOLEAN, manuallyStopped' \in BOOLEAN,
         NEW t \in Nat, attempts' = t,
         t = attempts \/ (t = attempts + 1 /\ (phase = "over" \/ t <= MAX_RESTART_ATTEMPTS))
  PROVE  RunSide'
<1>1. /\ runs' \in [Runs -> Run] /\ Clean' /\ store' \in Store
      /\ Cardinality(Under') = IF phase = "over" THEN Cardinality(Under) - 1 ELSE Cardinality(Under)
  BY PhaseTyped
<1>2. /\ Cardinality(Under) \in Nat /\ Cardinality(Runs) \in Nat /\ Cardinality(Under) <= Cardinality(Runs)
      /\ Cardinality(Under) # 0
  <2>1. Under # {} /\ IsFiniteSet(Under)
    BY Sizes, UnderSize
  <2> QED BY <2>1, FS_EmptySet, UnderSize
<1>3. PICK u \in Nat : u = IF phase = "over" THEN Cardinality(Under) - 1 ELSE Cardinality(Under)
  BY <1>2
<1>4. Cardinality(Under') = u /\ u <= Cardinality(Runs)
  BY <1>1, <1>2, <1>3
<1>5. starts \in Nat /\ requests \in Nat /\ attempts \in Nat /\ Promised \in Nat /\ Promised' = Promised
  BY Requested DEF Promised, Reloading
<1>6. PICK n \in Nat, c \in Nat, q \in Nat :
        starts' = n /\ Promised' = c /\ requests' = q /\ n = starts /\ c = Promised /\ q = requests
  BY <1>5
<1>7. u + n + c + requests <= Cardinality(Under) + starts + Promised + q
  BY <1>2, <1>3, <1>5, <1>6
<1>8. \/ t <= MAX_RESTART_ATTEMPTS
      \/ t + u <= attempts + Cardinality(Under) /\ t >= attempts
      \/ u < Cardinality(Under) /\ t = attempts + 1
  BY <1>2, <1>3, <1>5
<1>9. RunBudget' /\ AttemptBudget'
  BY <1>4, <1>6, <1>7, <1>8, RunNumbers
<1> QED BY <1>1, <1>5, <1>6, <1>9 DEF RunSide

-----------------------------------------------------------------------------
\* A step that leaves the stops alone, with a request more, or a check of the monitor
\* that is over.
LEMMA StopsStay ==
  ASSUME Counted, UNCHANGED stops, NEW q \in Nat, requests' = q, q >= requests,
         \/ UNCHANGED monitor
         \/ monitor = "idle" /\ monitor' \in {"sawRunning", "sawStopped"} /\ q = requests + 1
         \/ Looking /\ monitor' = "idle"
  PROVE  StopSide' /\ \E p \in Nat : Promised' = p /\ (UNCHANGED monitor => p = Promised)
                                     /\ p + requests <= Promised + q
                                     /\ (Looking /\ monitor' = "idle" => p + 1 = Promised)
<1>1. Stopping' = Stopping /\ Reloading' = Reloading
  BY DEF Stopping, Reloading
<1>2. RestartersStop'
  BY DEF Counted, RestartersStop, Looking
<1>3. PICK c \in Nat : c = Cardinality(Stopping)
  BY StoppingSize
<1>4. requests \in Nat /\ c <= requests /\ (Looking => c < requests)
  BY <1>3, Requested DEF Counted, StopBudget
<1>5. StopBudget'
  <2>1. Looking' => Looking \/ q = requests + 1
    BY DEF Looking
  <2>2. c <= q /\ (Looking' => c < q)
    BY <1>3, <1>4, <2>1
  <2> QED BY <1>1, <1>3, <2>2 DEF StopBudget
<1>6. \E p \in Nat : Promised' = p /\ (UNCHANGED monitor => p = Promised)
                     /\ p + requests <= Promised + q /\ (Looking /\ monitor' = "idle" => p + 1 = Promised)
  <2>1. PICK w \in {0, 1} : w = IF Reloading THEN 1 ELSE 0
    OBVIOUS
  <2>2. Promised = (IF monitor # "idle" THEN 1 ELSE 0) + w
    BY <2>1 DEF Promised
  <2>3. Promised' = (IF monitor' # "idle" THEN 1 ELSE 0) + w
    BY <1>1, <2>1 DEF Promised
  <2>4. CASE UNCHANGED monitor
    <3>1. Promised' = Promised /\ Promised \in Nat /\ ~(Looking /\ monitor' = "idle")
      BY <2>1, <2>2, <2>3, <2>4 DEF Looking
    <3> QED BY <1>4, <2>4, <3>1
  <2>5. CASE monitor = "idle" /\ monitor' \in {"sawRunning", "sawStopped"} /\ q = requests + 1
    <3>1. Promised' = 1 + w /\ Promised = w /\ monitor' # monitor /\ ~Looking
      BY <2>1, <2>2, <2>3, <2>5 DEF Looking
    <3> QED BY <1>4, <2>1, <2>5, <3>1
  <2>6. CASE Looking /\ monitor' = "idle"
    <3>1. Promised' = w /\ Promised = 1 + w /\ monitor' # monitor
      BY <2>1, <2>2, <2>3, <2>6 DEF Looking
    <3> QED BY <1>4, <2>1, <3>1
  <2> QED BY <2>4, <2>5, <2>6
<1> QED BY <1>2, <1>5, <1>6 DEF Counted, Typed, StopSide

\* Stop i becomes s, or is over; what it leaves to its caller fits the request it came with.
LEMMA StopCounts ==
  ASSUME Counted, NEW i \in StopIds, NEW s \in Stop, stops' = [stops EXCEPT ![i] = s],
         NEW q \in Nat, requests' = q, q >= requests, NEW by \in Callers,
         \/ stops[i] = NoStop /\ by \in {"request", "reload"} /\ q = requests + 1 /\ (by = "reload" => ~Reloading)
         \/ stops[i] = NoStop /\ by = "monitor" /\ Looking
         \/ stops[i] # NoStop /\ by = stops[i].by,
         \/ s # NoStop /\ s.by = by /\ monitor' = IF by = "monitor" THEN "stopping" ELSE monitor
         \/ s = NoStop /\ monitor' = IF by = "monitor" THEN "idle" ELSE monitor
  PROVE  /\ StopSide'
         /\ \E p \in Nat : /\ Promised' = p /\ p + requests <= Promised + q
                           /\ s = NoStop /\ by \in Restarters => p + 1 + requests <= Promised + q
<1>1. stops \in [StopIds -> Stop] /\ NoStop.by = "nobody" /\ "nobody" \notin Callers
  BY AsItWas DEF NoStop, Callers, Restarters
<1>2. /\ stops' \in [StopIds -> Stop] /\ stops'[i] = s
      /\ \A j \in StopIds \ {i} : stops'[j] = stops[j]
  BY <1>1
<1>3. /\ \A j \in StopIds : stops[j].by = "monitor" => monitor = "stopping"
      /\ \A j \in StopIds : stops[j].by = "monitor" /\ stops[i].by = "monitor" => j = i
      /\ \A j \in StopIds : stops[j].by = "reload" /\ stops[i].by = "reload" => j = i
  BY DEF Counted, RestartersStop
<1>4. RestartersStop'
  <2>1. ASSUME NEW j \in StopIds, stops'[j].by = "monitor"
        PROVE  monitor' = "stopping" /\ \A k \in StopIds : stops'[k].by = "monitor" => k = j
    BY <1>1, <1>2, <1>3, <2>1 DEF Counted, RestartersStop, Looking
  <2>2. ASSUME NEW j \in StopIds, NEW k \in StopIds, stops'[j].by = "reload", stops'[k].by = "reload"
        PROVE  j = k
    BY <1>1, <1>2, <1>3, <2>2 DEF Counted, RestartersStop, Reloading
  <2>3. ASSUME NEW j \in StopIds, stops'[j].by = "nobody" PROVE stops'[j] = NoStop
    BY <1>1, <1>2, <2>3 DEF Counted, RestartersStop
  <2> QED BY <2>1, <2>2, <2>3 DEF RestartersStop
<1>5. PICK c \in Nat : c = Cardinality(Stopping)
  BY StoppingSize
<1>6. requests \in Nat /\ c <= requests /\ (Looking => c < requests)
  BY <1>5, Requested DEF Counted, StopBudget
<1>7. StopBudget'
  <2>1. CASE s = NoStop
    <3>1. Stopping' = Stopping \ {i}
      BY <1>2, <2>1 DEF Stopping
    <3>2. PICK d \in Nat : d = Cardinality(Stopping') /\ d <= c
      <4>1. Cardinality(Stopping') = IF i \in Stopping THEN c - 1 ELSE c
        BY <1>5, <3>1, StoppingSize, FS_RemoveElement
      <4>2. i \in Stopping => c # 0
        BY <1>5, StoppingSize, FS_EmptySet
      <4> QED BY <4>1, <4>2
    <3>3. Looking' => Looking \/ q = requests + 1
      BY <2>1 DEF Looking
    <3>4. d <= q /\ (Looking' => d < q)
      BY <1>6, <3>2, <3>3
    <3> QED BY <3>2, <3>4 DEF StopBudget
  <2>2. CASE s # NoStop
    <3>1. Stopping' = Stopping \cup {i}
      BY <1>2, <2>2 DEF Stopping
    <3>2. Cardinality(Stopping') = IF i \in Stopping THEN c ELSE c + 1
      BY <1>5, <3>1, StoppingSize, FS_AddElement
    <3>3. PICK d \in Nat : d = Cardinality(Stopping') /\ (i \in Stopping => d = c) /\ d <= c + 1
      BY <3>2
    <3>4. i \in Stopping <=> stops[i] # NoStop
      BY DEF Stopping
    <3>5. /\ i \in Stopping \/ q = requests + 1 \/ (Looking /\ ~Looking')
          /\ Looking' => Looking
      <4>1. CASE by = "monitor"
        BY <1>3, <2>2, <3>4, <4>1 DEF Looking
      <4>2. CASE by # "monitor"
        BY <2>2, <3>4, <4>2 DEF Looking
      <4> QED BY <4>1, <4>2
    <3>6. d <= q /\ (Looking' => d < q)
      BY <1>6, <3>3, <3>5
    <3> QED BY <3>3, <3>6 DEF StopBudget
  <2> QED BY <2>1, <2>2
<1>8. Reloading' <=> s.by = "reload" \/ (Reloading /\ stops[i].by # "reload")
  BY <1>2, <1>3 DEF Reloading
<1>9. stops[i].by = "reload" => Reloading
  BY DEF Reloading
<1>10. \E p \in Nat : /\ Promised' = p /\ p + requests <= Promised + q
                      /\ s = NoStop /\ by \in Restarters => p + 1 + requests <= Promised + q
  <2>1. CASE by = "request"
    <3>1. stops[i].by # "reload" /\ s.by # "reload" /\ monitor' = monitor
      BY <1>1, <2>1
    <3>2. Reloading' <=> Reloading
      BY <1>8, <3>1
    <3>3. Promised' = Promised
      BY <3>1, <3>2 DEF Promised
    <3> QED BY <1>6, <2>1, <3>3, Requested DEF Restarters
  <2>2. CASE by = "monitor"
    <3>1. stops[i].by # "reload" /\ s.by # "reload"
      BY <1>1, <2>2
    <3>2. Reloading' <=> Reloading
      BY <1>8, <3>1
    <3>3. monitor # "idle" /\ (s = NoStop => monitor' = "idle")
      BY <1>3, <2>2 DEF Looking
    <3> QED BY <1>6, <2>2, <3>2, <3>3 DEF Promised
  <2>3. CASE by = "reload"
    <3>1. monitor' = monitor
      BY <2>3
    <3>2. Reloading' <=> s # NoStop
      BY <1>1, <1>8, <1>9, <2>3
    <3>3. Reloading \/ q = requests + 1
      BY <1>9, <2>3
    <3> QED BY <1>6, <3>1, <3>2, <3>3 DEF Promised
  <2> QED BY <2>1, <2>2, <2>3 DEF Callers, Restarters
<1> QED BY <1>2, <1>4, <1>7, <1>10 DEF StopSide

\* An id is free for a stop that is asked for, or that the monitor calls.
LEMMA StopIsFree ==
  ASSUME Counted, requests < MaxRequests \/ Looking
  PROVE  NewStop \in StopIds /\ stops[NewStop] = NoStop
<1>1. /\ Cardinality(Stopping) \in Nat /\ requests \in Nat /\ requests <= MaxRequests
      /\ Cardinality(Stopping) <= requests /\ (Looking => Cardinality(Stopping) < requests)
  BY StoppingSize, Requested DEF Counted, StopBudget
<1>2. Cardinality(Stopping) # MaxRequests
  BY <1>1, BoundAssumption
<1>3. Stopping # StopIds
  BY <1>2, Sizes
<1>4. \E i \in StopIds : stops[i] = NoStop
  BY <1>3 DEF Stopping
<1> QED BY <1>4 DEF NewStop

\* A stop goes on to wait for its task, or returns to its caller.
LEMMA StopSteps ==
  ASSUME Counted, NEW i \in StopIds, NEW by \in Callers, NEW last, NEW t \in Runs \cup {NoRun},
         AfterHook(i, by, t, last),
         NEW q \in Nat, requests' = q, q >= requests,
         \/ stops[i] = NoStop /\ by \in {"request", "reload"} /\ q = requests + 1 /\ (by = "reload" => ~Reloading)
         \/ stops[i] = NoStop /\ by = "monitor" /\ Looking
         \/ stops[i] # NoStop /\ by = stops[i].by,
         runs' = runs \/ runs' = [r \in Runs |-> IF r = abort THEN [runs[r] EXCEPT !.aborted = TRUE] ELSE runs[r]],
         connected' \in BOOLEAN, manuallyStopped' \in BOOLEAN
  PROVE  RunSide' /\ StopSide' /\ monitor' \in {monitor, "idle", "stopping"} /\ asked' \in {last, "start"}
<1>1. /\ starts \in Nat /\ requests \in Nat /\ attempts \in Nat /\ Promised \in Nat
      /\ store' = store \/ store' = Empty
      /\ running' \in BOOLEAN
  <2>1. starts \in Nat /\ requests \in Nat /\ attempts \in Nat /\ Promised \in Nat
    BY Requested
  <2>2. (store' = store \/ store' = Empty) /\ running' \in {running, FALSE}
    BY DEF AfterHook
  <2> QED BY <2>1, <2>2, AsItWas
<1>2. CASE t # NoRun
  <2> DEFINE s == [by |-> by, step |-> "task", task |-> t]
  <2>1. s \in Stop /\ s # NoStop /\ s.by = by
    BY <1>2 DEF Stop, NoStop
  <2>2. /\ stops' = [stops EXCEPT ![i] = s]
        /\ monitor' = IF by = "monitor" THEN "stopping" ELSE monitor
        /\ asked' = last /\ UNCHANGED <<starts, attempts>>
    BY <1>2 DEF AfterHook
  <2> HIDE DEF s
  <2>3. StopSide' /\ \E p \in Nat : Promised' = p /\ p + requests <= Promised + q
    BY <2>1, <2>2, StopCounts
  <2>4. PICK p \in Nat, n \in Nat : Promised' = p /\ p + requests <= Promised + q /\ n = starts' /\ n = starts
    BY <1>1, <2>2, <2>3
  <2>5. n + p + requests <= starts + Promised + q
    BY <1>1, <2>4
  <2>6. RunSide'
    BY <1>1, <2>2, <2>4, <2>5, RunsSame
  <2> QED BY <2>2, <2>3, <2>6
<1>3. CASE t = NoRun
  <2>1. NoStop \in Stop
    BY DEF Stop, NoStop
  <2>2. stops' = [stops EXCEPT ![i] = NoStop] /\ StopsReturn({by}, last)
    BY <1>3 DEF AfterHook
  <2>3. /\ starts' = starts \/ (starts' = starts + 1 /\ by \in Restarters)
        /\ asked' \in {last, "start"} /\ attempts' \in {attempts, 0}
        /\ monitor' = IF by = "monitor" THEN "idle" ELSE monitor
    BY <1>1, <2>2, Returns DEF Restarters
  <2>4. /\ StopSide'
        /\ \E p \in Nat : /\ Promised' = p /\ p + requests <= Promised + q
                          /\ by \in Restarters => p + 1 + requests <= Promised + q
    BY <2>1, <2>2, <2>3, StopCounts
  <2>5. PICK p \in Nat, n \in Nat :
          /\ Promised' = p /\ p + requests <= Promised + q
          /\ by \in Restarters => p + 1 + requests <= Promised + q
          /\ n = starts' /\ (n = starts \/ (n = starts + 1 /\ by \in Restarters))
    BY <1>1, <2>3, <2>4
  <2>6. n + p + requests <= starts + Promised + q
    BY <1>1, <2>5
  <2>7. RunSide'
    BY <1>1, <2>3, <2>5, <2>6, RunsSame
  <2> QED BY <2>3, <2>4, <2>7
<1> QED BY <1>2, <1>3

\* stopChannel, called by a request, by the monitor or by the reload.
LEMMA StopChannelCounts ==
  ASSUME Counted, NEW by \in Callers, NEW last, StopChannel(by, last),
         NEW q \in Nat, requests' = q, q >= requests,
         by # "monitor" => requests < MaxRequests /\ q = requests + 1,
         by = "monitor" => Looking, by = "reload" => ~Reloading, UNCHANGED connected
  PROVE  RunSide' /\ StopSide' /\ monitor' \in {monitor, "idle", "stopping"} /\ asked' \in {last, "start"}
<1>1. /\ requests \in Nat /\ starts \in Nat /\ attempts \in Nat /\ Promised \in Nat
      /\ task \in Runs \cup {NoRun} /\ stops \in [StopIds -> Stop] /\ NoStop \in Stop
      /\ running \in BOOLEAN /\ connected \in BOOLEAN /\ manuallyStopped \in BOOLEAN
  BY Requested, AsItWas DEF Stop, NoStop
<1>2. PICK i \in StopIds : i = NewStop /\ stops[i] = NoStop
  BY StopIsFree
<1>3. CASE NothingToStop
  <2>1. /\ StopsReturn({by}, last) /\ UNCHANGED <<store, manuallyStopped, runs, stops>>
        /\ running' \in BOOLEAN /\ stops' = [stops EXCEPT ![i] = NoStop]
    BY <1>1, <1>2, <1>3 DEF StopChannel
  <2>2. /\ starts' = starts \/ (starts' = starts + 1 /\ by \in Restarters)
        /\ asked' \in {last, "start"} /\ attempts' \in {attempts, 0}
        /\ monitor' = IF by = "monitor" THEN "idle" ELSE monitor
    BY <1>1, <2>1, Returns DEF Restarters
  <2>3. /\ StopSide'
        /\ \E p \in Nat : /\ Promised' = p /\ p + requests <= Promised + q
                          /\ by \in Restarters => p + 1 + requests <= Promised + q
    BY <1>1, <1>2, <2>1, <2>2, StopCounts DEF Callers, Restarters
  <2>4. PICK p \in Nat, n \in Nat :
          /\ Promised' = p /\ p + requests <= Promised + q
          /\ by \in Restarters => p + 1 + requests <= Promised + q
          /\ n = starts' /\ (n = starts \/ (n = starts + 1 /\ by \in Restarters))
    BY <1>1, <2>2, <2>3
  <2>5. n + p + requests <= starts + Promised + q
    <3>1. starts \in Nat /\ requests \in Nat /\ Promised \in Nat
      BY <1>1
    <3>2. CASE n = starts
      BY <2>4, <3>1, <3>2
    <3>3. CASE n = starts + 1 /\ p + 1 + requests <= Promised + q
      BY <3>1, <3>3
    <3> QED BY <2>4, <3>2, <3>3
  <2>6. RunSide'
    BY <1>1, <2>1, <2>2, <2>4, <2>5, RunsSame
  <2> QED BY <2>2, <2>3, <2>6
<1>4. CASE ~NothingToStop
  <2>1. /\ manuallyStopped' \in BOOLEAN /\ connected' \in BOOLEAN
        /\ runs' = [r \in Runs |-> IF r = abort THEN [runs[r] EXCEPT !.aborted = TRUE] ELSE runs[r]]
    BY <1>1, <1>4 DEF StopChannel
  <2>2. CASE kind = "hooked"
    <3> DEFINE s == [by |-> by, step |-> "hook", task |-> task]
    <3>1. s \in Stop /\ s # NoStop /\ s.by = by
      BY <1>1 DEF Stop, NoStop
    <3>2. /\ stops' = [stops EXCEPT ![i] = s]
          /\ monitor' = IF by = "monitor" THEN "stopping" ELSE monitor
          /\ asked' = last /\ UNCHANGED <<store, running, starts, attempts>>
      BY <1>2, <1>4, <2>2 DEF StopChannel
    <3> HIDE DEF s
    <3>3. StopSide' /\ \E p \in Nat : Promised' = p /\ p + requests <= Promised + q
      BY <1>2, <3>1, <3>2, StopCounts DEF Callers, Restarters
    <3>4. PICK p \in Nat, n \in Nat : Promised' = p /\ p + requests <= Promised + q /\ n = starts' /\ n = starts
      BY <1>1, <3>2, <3>3
    <3>5. n + p + requests <= starts + Promised + q
      BY <1>1, <3>4
    <3>6. RunSide'
      BY <1>1, <2>1, <3>2, <3>4, <3>5, RunsSame
    <3> QED BY <3>2, <3>3, <3>6
  <2>3. CASE kind # "hooked"
    <3>1. AfterHook(i, by, task, last)
      BY <1>2, <1>4, <2>3 DEF StopChannel
    <3>2. \/ stops[i] = NoStop /\ by \in {"request", "reload"} /\ q = requests + 1 /\ (by = "reload" => ~Reloading)
          \/ stops[i] = NoStop /\ by = "monitor" /\ Looking
      BY <1>2 DEF Callers, Restarters
    <3> QED BY <1>1, <2>1, <3>1, <3>2, StopSteps
  <2> QED BY <2>2, <2>3
<1> QED BY <1>3, <1>4

-----------------------------------------------------------------------------
\* The actions, one by one.

LEMMA Asked ==
  ASSUME Counted, NewRequest
  PROVE  requests < MaxRequests
         /\ \E q \in Nat : requests' = q /\ q = requests + 1 /\ q >= requests /\ q \in 0..MaxRequests
<1>1. requests \in Nat /\ requests < MaxRequests /\ MaxRequests \in Nat
  BY Requested DEF NewRequest
<1>2. requests' = requests + 1
  BY DEF NewRequest
<1> QED BY <1>1, <1>2

LEMMA NotAsked ==
  ASSUME Counted, UNCHANGED requests
  PROVE  \E q \in Nat : requests' = q /\ q = requests /\ q >= requests
BY Requested

\* A step that leaves the stops and the runs alone: at most, an account that is not
\* usable is found not running, or a start waits that takes a request or a check.
LEMMA RunsAlone ==
  ASSUME Counted, UNCHANGED <<store, runs, stops>>,
         running' \in {running, FALSE}, connected' \in {connected, FALSE}, manuallyStopped' = manuallyStopped,
         attempts' \in {attempts, 0}, starts' \in {starts, starts + 1},
         NEW q \in Nat, requests' = q, q >= requests,
         \/ UNCHANGED monitor /\ (starts' = starts \/ q = requests + 1)
         \/ monitor = "idle" /\ monitor' \in {"sawRunning", "sawStopped"} /\ q = requests + 1 /\ starts' = starts
         \/ Looking /\ monitor' = "idle"
  PROVE  RunSide' /\ StopSide'
<1>1. /\ starts \in Nat /\ requests \in Nat /\ Promised \in Nat
      /\ running' \in BOOLEAN /\ connected' \in BOOLEAN /\ manuallyStopped' \in BOOLEAN
  BY Requested, AsItWas
<1>2. StopSide' /\ \E p \in Nat : Promised' = p /\ (UNCHANGED monitor => p = Promised)
                                  /\ p + requests <= Promised + q
                                  /\ (Looking /\ monitor' = "idle" => p + 1 = Promised)
  BY StopsStay
<1>3. PICK p \in Nat, n \in Nat :
        /\ Promised' = p /\ (UNCHANGED monitor => p = Promised) /\ p + requests <= Promised + q
        /\ (Looking /\ monitor' = "idle" => p + 1 = Promised)
        /\ n = starts' /\ n <= starts + 1 /\ (starts' = starts => n = starts)
  BY <1>1, <1>2
<1>4. n + p + requests <= starts + Promised + q
  <2>1. starts \in Nat /\ requests \in Nat /\ Promised \in Nat
    BY <1>1
  <2>2. \/ n = starts /\ p + requests <= Promised + q
        \/ n <= starts + 1 /\ p = Promised /\ q = requests + 1
        \/ n <= starts + 1 /\ p + 1 = Promised /\ q >= requests
    BY <1>3
  <2> QED BY <2>1, <2>2
<1>5. RunSide'
  BY <1>1, <1>3, <1>4, RunsSame
<1> QED BY <1>2, <1>5

LEMMA RequestStartCounts ==
  ASSUME Counted, RequestStart
  PROVE  Counted'
<1>1. PICK q \in Nat : requests' = q /\ q = requests + 1 /\ q >= requests /\ q \in 0..MaxRequests
  BY Asked DEF RequestStart
<1>2. /\ UNCHANGED <<kind, usable, store, manuallyStopped, attempts, connected, runs, stops, monitor,
                     contended, threw>>
      /\ asked' = "start" /\ StartChannel
  BY DEF RequestStart
<1>3. running' \in {running, FALSE} /\ starts' \in {starts, starts + 1}
  BY <1>2 DEF StartChannel
<1>4. RunSide' /\ StopSide'
  BY <1>1, <1>2, <1>3, RunsAlone
<1>5. Rest'
  BY <1>1, <1>2, AsItWas DEF Rest
<1> QED BY <1>4, <1>5, Joined

\* A step of a start or of a run leaves the rest as it is.
LEMMA RunSteps ==
  ASSUME Counted, UNCHANGED <<kind, usable, stops, monitor, requests, asked, contended>>,
         threw' \in {threw, TRUE, FALSE}
  PROVE  StopSide' /\ Rest'
<1>1. PICK q \in Nat : requests' = q /\ q = requests /\ q >= requests
  BY Requested
<1>2. StopSide'
  BY <1>1, StopsStay
<1> QED BY <1>2, AsItWas DEF Rest

LEMMA StartGoesOnCounts ==
  ASSUME Counted, \A r \in Runs : runs[r].phase # "over", StartGoesOn
  PROVE  Counted'
<1>1. /\ starts > 0 /\ starts' = starts - 1 /\ starts \in Nat
      /\ UNCHANGED <<kind, usable, stops, monitor, requests, asked, contended>>
  BY Requested DEF StartGoesOn
<1>2. CASE Launch(runs) /\ manuallyStopped' = FALSE /\ attempts' = 0
  <2>1. PICK p \in Runs : TRUE
    BY RunIds
  <2>2. runs \in [Runs -> Run]
    BY AsItWas
  <2>3. RunSide'
    BY <1>1, <1>2, <2>1, <2>2, LaunchCounts
  <2>4. threw' \in {TRUE, FALSE}
    BY <1>2 DEF Launch
  <2> QED BY <1>1, <2>3, <2>4, RunSteps, Joined
<1>3. CASE /\ running' = FALSE
           /\ UNCHANGED <<store, runs, connected, manuallyStopped, attempts, threw>>
  <2>1. PICK n \in Nat, p \in Nat, q \in Nat :
          /\ n = starts' /\ n + 1 = starts /\ p = Promised' /\ p = Promised /\ q = requests' /\ q = requests
    <3>1. Promised' = Promised /\ Promised \in Nat /\ requests \in Nat
      BY <1>1, Requested DEF Promised, Reloading
    <3>2. starts' \in Nat /\ starts' + 1 = starts
      BY <1>1
    <3> QED BY <1>1, <3>1, <3>2
  <2>2. n + p + requests <= starts + Promised + q
    BY <2>1
  <2>3. running' \in BOOLEAN /\ connected' \in BOOLEAN /\ manuallyStopped' \in BOOLEAN
    BY <1>3, AsItWas
  <2>4. RunSide'
    BY <1>3, <2>1, <2>2, <2>3, RunsSame
  <2> QED BY <1>1, <1>3, <2>4, RunSteps, Joined
<1> QED BY <1>2, <1>3 DEF StartGoesOn

LEMMA RequestStopCounts ==
  ASSUME Counted, RequestStop \/ RequestReload
  PROVE  Counted'
<1>1. PICK q \in Nat : requests' = q /\ q = requests + 1 /\ q >= requests /\ q \in 0..MaxRequests
  BY Asked DEF RequestStop, RequestReload
<1>2. requests < MaxRequests
  BY Asked DEF RequestStop, RequestReload
<1>3. UNCHANGED <<kind, usable, connected, contended, threw>>
  BY DEF RequestStop, RequestReload
<1>4. PICK by \in {"request", "reload"}, last \in {"stop", asked} :
        StopChannel(by, last) /\ (by = "reload" => ~Reloading)
  BY DEF RequestStop, RequestReload, Reloading
<1>5. RunSide' /\ StopSide' /\ monitor' \in {monitor, "idle", "stopping"} /\ asked' \in {last, "start"}
  BY <1>1, <1>2, <1>3, <1>4, StopChannelCounts DEF Callers, Restarters
<1>6. Rest'
  BY <1>1, <1>3, <1>5, AsItWas DEF Rest
<1> QED BY <1>5, <1>6, Joined

LEMMA RunExitsCounts ==
  ASSUME Counted, \A r \in Runs : runs[r].phase # "over", NEW r \in Runs, RunExits(r)
  PROVE  Counted'
<1>1. attempts \in Nat /\ r \in Under
  BY Requested DEF RunExits, Live, Under, Underway
<1>2. /\ UNCHANGED <<kind, usable, store, manuallyStopped, connected, starts, stops, monitor, requests,
                     asked, contended, threw>>
      /\ running' = FALSE
  BY DEF RunExits
<1>3. PICK t \in Nat, phase \in {"sleeping", "over"} :
        /\ attempts' = t /\ runs' = [runs EXCEPT ![r].phase = phase]
        /\ t = attempts \/ (t = attempts + 1 /\ (phase = "over" \/ t <= MAX_RESTART_ATTEMPTS))
  <2>1. CASE manuallyStopped
    BY <1>1, <2>1 DEF RunExits
  <2>2. CASE ~manuallyStopped
    <3>1. PICK t \in Nat : attempts' = t /\ t = attempts + 1
      BY <1>1, <2>2 DEF RunExits
    <3>2. runs' = [runs EXCEPT ![r].phase = IF t > MAX_RESTART_ATTEMPTS THEN "over" ELSE "sleeping"]
      BY <2>2, <3>1 DEF RunExits, GivesUp
    <3>3. CASE t > MAX_RESTART_ATTEMPTS
      BY <3>1, <3>2, <3>3
    <3>4. CASE ~(t > MAX_RESTART_ATTEMPTS)
      <4>1. t <= MAX_RESTART_ATTEMPTS
        BY <3>4, AttemptsAssumption
      <4> QED BY <3>1, <3>2, <3>4, <4>1
    <3> QED BY <3>3, <3>4
  <2> QED BY <2>1, <2>2
<1>4. RunSide'
  BY <1>1, <1>2, <1>3, PhaseCounts, AsItWas
<1> QED BY <1>2, <1>4, RunSteps, Joined

\* A run that has exited goes on in its pause.
LEMMA PauseCounts ==
  ASSUME Counted, \A r \in Runs : runs[r].phase # "over", NEW r \in Runs, r \in Under,
         NEW phase \in {"starting", "over"}, runs' = [runs EXCEPT ![r].phase = phase],
         store' \in {store, Cleared(r)}, running' \in BOOLEAN,
         UNCHANGED <<kind, usable, manuallyStopped, attempts, connected, starts, stops, monitor,
                     requests, asked, contended, threw>>
  PROVE  Counted'
<1>1. PICK t \in Nat : attempts' = t /\ t = attempts
  BY Requested
<1>2. RunSide'
  BY <1>1, PhaseCounts, AsItWas
<1> QED BY <1>2, RunSteps, Joined

LEMMA PausesCount ==
  ASSUME Counted, \A r \in Runs : runs[r].phase # "over", NEW r \in Runs,
         SleepIsOver(r) \/ Restarts(r)
  PROVE  Counted'
<1>1. r \in Under
  BY DEF SleepIsOver, Restarts, Under, Underway
<1>2. /\ UNCHANGED <<kind, usable, manuallyStopped, attempts, connected, starts, stops, monitor,
                     requests, asked, contended, threw>>
      /\ store' \in {store, Cleared(r)} /\ running' \in BOOLEAN
  BY AsItWas DEF SleepIsOver, Restarts
<1>3. PICK phase \in {"starting", "over"} : runs' = [runs EXCEPT ![r].phase = phase]
  BY DEF SleepIsOver, Restarts
<1> QED BY <1>1, <1>2, <1>3, PauseCounts

LEMMA RestartGoesOnCounts ==
  ASSUME Counted, \A r \in Runs : runs[r].phase # "over", NEW r \in Runs, RestartGoesOn(r)
  PROVE  Counted'
<1> DEFINE others == [runs EXCEPT ![r].phase = "over"]
<1>1. r \in Under
  BY DEF RestartGoesOn, Under, Underway
<1>2. UNCHANGED <<kind, usable, manuallyStopped, attempts, starts, stops, monitor, requests, asked, contended>>
  BY DEF RestartGoesOn
<1>3. CASE Launch(others)
  <2>1. others \in [Runs -> Run] /\ others # runs
    <3>1. runs \in [Runs -> Run] /\ runs[r].phase # "over"
      BY AsItWas
    <3>2. others \in [Runs -> Run] /\ others[r].phase = "over"
      BY <3>1 DEF Run, Phases
    <3> QED BY <3>1, <3>2
  <2>2. others = runs \/ (r \in Under /\ others = [runs EXCEPT ![r].phase = "over"])
    BY <1>1
  <2>3. manuallyStopped' \in BOOLEAN /\ threw' \in {TRUE, FALSE}
    BY <1>2, <1>3, AsItWas DEF Launch
  <2> HIDE DEF others
  <2>4. RunSide'
    BY <1>2, <1>3, <2>1, <2>2, <2>3, LaunchCounts
  <2> QED BY <1>2, <2>3, <2>4, RunSteps, Joined
<1>4. CASE running' = FALSE /\ runs' = others /\ UNCHANGED <<store, connected, threw>>
  BY <1>1, <1>2, <1>4, PauseCounts
<1> QED BY <1>3, <1>4 DEF RestartGoesOn

\* The callers of the stops that return have been waiting, the monitor and the reload
\* with one stop each.
LEMMA RunSettlesCounts ==
  ASSUME Counted, NEW r \in Runs, RunSettles(r)
  PROVE  Counted'
<1>1. /\ UNCHANGED <<kind, usable, manuallyStopped, connected, requests, threw>>
      /\ runs[r].phase = "over" /\ runs' = [runs EXCEPT ![r] = Unused]
      /\ store' \in {Cleared(r), Empty} /\ running' = (running /\ Waiting(r) = {})
      /\ StopsReturn(Waiters(r), asked) /\ contended' \in BOOLEAN
  <2>1. contended \in BOOLEAN
    BY DEF Counted, Typed
  <2> QED BY <2>1 DEF RunSettles
<1>2. stops' = [i \in StopIds |-> IF i \in Waiting(r) THEN NoStop
                                  ELSE IF stops[i].task = r THEN [stops[i] EXCEPT !.task = NoRun]
                                  ELSE stops[i]]
  BY DEF RunSettles
<1>3. r # NoRun /\ r # Orphan
  BY RunIds
<1>4. Waiting(r) \in SUBSET Stopping
  BY <1>3 DEF Waiting, Stopping, NoStop
<1>5. /\ starts \in Nat /\ requests \in Nat /\ attempts \in Nat /\ Promised \in Nat
      /\ stops \in [StopIds -> Stop] /\ runs \in [Runs -> Run] /\ store \in Store
  BY Requested, AsItWas
<1>6. /\ stops' \in [StopIds -> Stop]
      /\ \A i \in Waiting(r) : stops'[i] = NoStop
      /\ \A i \in StopIds \ Waiting(r) : stops'[i].by = stops[i].by
      /\ \A i \in StopIds : stops[i] = NoStop => stops'[i] = NoStop
  <2>1. ASSUME NEW i \in StopIds
        PROVE  /\ stops'[i] \in Stop
               /\ i \in Waiting(r) => stops'[i] = NoStop
               /\ i \notin Waiting(r) => stops'[i].by = stops[i].by
               /\ stops[i] = NoStop => stops'[i] = NoStop
    <3>1. stops'[i] = IF i \in Waiting(r) THEN NoStop
                      ELSE IF stops[i].task = r THEN [stops[i] EXCEPT !.task = NoRun]
                      ELSE stops[i]
      BY <1>2
    <3>2. CASE i \in Waiting(r)
      BY <3>1, <3>2 DEF NoStop, Stop
    <3>3. CASE i \notin Waiting(r) /\ stops[i].task = r
      <4>1. stops'[i] = [stops[i] EXCEPT !.task = NoRun]
        BY <3>1, <3>3
      <4> QED BY <1>3, <1>5, <3>3, <4>1 DEF NoStop, Stop
    <3>4. CASE i \notin Waiting(r) /\ stops[i].task # r
      BY <1>5, <3>1, <3>4
    <3> QED BY <3>2, <3>3, <3>4
  <2>2. stops' = [i \in StopIds |-> stops'[i]]
    BY <1>2
  <2> QED BY <2>1, <2>2 DEF Waiting
<1>7. /\ \/ starts' = starts
         \/ starts' = starts + 1 /\ ("monitor" \in Waiters(r) \/ "reload" \in Waiters(r))
         \/ starts' = starts + 2 /\ Restarters \subseteq Waiters(r)
      /\ asked' \in {asked, "start"} /\ attempts' \in {attempts, 0}
      /\ monitor' = IF "monitor" \in Waiters(r) THEN "idle" ELSE monitor
  BY <1>1, <1>5, Returns
<1>8. /\ "monitor" \in Waiters(r) => monitor = "stopping" /\ \A i \in StopIds : stops'[i].by # "monitor"
      /\ "reload" \in Waiters(r) => Reloading /\ ~Reloading'
      /\ "reload" \notin Waiters(r) => (Reloading' <=> Reloading)
  <2>1. ASSUME "monitor" \in Waiters(r)
        PROVE  monitor = "stopping" /\ \A i \in StopIds : stops'[i].by # "monitor"
    <3>1. PICK k \in StopIds : k \in Waiting(r) /\ stops[k].by = "monitor"
      BY <2>1 DEF Waiters, Waiting
    <3>2. monitor = "stopping" /\ \A j \in StopIds : stops[j].by = "monitor" => j = k
      BY <3>1 DEF Counted, RestartersStop
    <3> QED BY <1>6, <3>1, <3>2 DEF NoStop
  <2>2. ASSUME "reload" \in Waiters(r) PROVE Reloading /\ ~Reloading'
    <3>1. PICK k \in StopIds : k \in Waiting(r) /\ stops[k].by = "reload"
      BY <2>2 DEF Waiters, Waiting
    <3>2. \A j \in StopIds : stops[j].by = "reload" => j = k
      BY <3>1 DEF Counted, RestartersStop
    <3> QED BY <1>6, <3>1, <3>2 DEF NoStop, Reloading
  <2>3. ASSUME "reload" \notin Waiters(r) PROVE Reloading' <=> Reloading
    <3>1. \A i \in Waiting(r) : stops[i].by # "reload"
      BY <2>3 DEF Waiters
    <3>2. \A i \in StopIds : stops'[i].by = "reload" <=> stops[i].by = "reload"
      BY <1>6, <3>1 DEF NoStop
    <3> QED BY <3>2 DEF Reloading
  <2> QED BY <2>1, <2>2, <2>3
<1>9. StopSide'
  <2>1. RestartersStop'
    <3>1. ASSUME NEW i \in StopIds, stops'[i].by # "nobody"
          PROVE  stops'[i].by = stops[i].by
      BY <1>6, <3>1 DEF NoStop
    <3>2. ASSUME NEW i \in StopIds, stops'[i].by = "monitor"
          PROVE  monitor' = "stopping" /\ \A j \in StopIds : stops'[j].by = "monitor" => j = i
      BY <1>7, <1>8, <3>1, <3>2 DEF Counted, RestartersStop
    <3>3. ASSUME NEW i \in StopIds, NEW j \in StopIds, stops'[i].by = "reload", stops'[j].by = "reload"
          PROVE  j = i
      BY <3>1, <3>3 DEF Counted, RestartersStop
    <3>4. ASSUME NEW i \in StopIds, stops'[i].by = "nobody" PROVE stops'[i] = NoStop
      BY <1>6, <3>4 DEF Counted, RestartersStop
    <3> QED BY <3>2, <3>3, <3>4 DEF RestartersStop
  <2>2. PICK c \in Nat : c = Cardinality(Stopping) /\ c <= requests /\ (Looking => c < requests)
    BY StoppingSize DEF Counted, StopBudget
  <2>3. Stopping' \in SUBSET Stopping
    BY <1>6 DEF Stopping
  <2>4. PICK d \in Nat : d = Cardinality(Stopping') /\ d <= c
    BY <2>2, <2>3, StoppingSize, FS_Subset, FS_CardinalityType
  <2>5. Looking' => Looking
    BY <1>7 DEF Looking
  <2>6. d <= requests /\ (Looking' => d < requests)
    BY <1>5, <2>2, <2>4, <2>5
  <2>7. StopBudget'
    BY <1>1, <2>4, <2>6 DEF StopBudget
  <2> QED BY <1>6, <2>1, <2>7 DEF StopSide
<1>10. RunSide'
  <2>1. /\ store' \in Store /\ abort' # r /\ abort' \in {abort, NoRun}
    BY <1>1, <1>3, <1>5 DEF Cleared, Empty, Store, abort, task
  <2>2. /\ runs' \in [Runs -> Run] /\ runs'[r] = Unused
        /\ \A q \in Runs \ {r} : runs'[q] = runs[q]
    BY <1>1, <1>5 DEF Unused, Run, Phases
  <2>3. Clean'
    BY <2>1, <2>2, RunIds DEF Counted, Clean, Unused
  <2>4. Under' = Under
    BY <1>1, <2>2 DEF Under, Underway, Unused
  <2>5. starts \in Nat /\ Promised \in Nat /\ requests \in Nat /\ attempts \in Nat
    BY <1>5
  <2>6. PICK n \in Nat, p \in Nat : n = starts' /\ p = Promised'
    BY <1>7, <2>5 DEF Promised
  <2>7. n + p <= starts + Promised
    <3>1. (monitor' # "idle" => monitor # "idle") /\ (Reloading' => Reloading)
      BY <1>7, <1>8
    <3>2. CASE starts' = starts
      <4>1. p <= Promised
        BY <2>6, <3>1 DEF Promised
      <4>2. n = starts
        BY <2>6, <3>2
      <4> QED BY <2>5, <4>1, <4>2
    <3>3. CASE starts' = starts + 1 /\ ("monitor" \in Waiters(r) \/ "reload" \in Waiters(r))
      <4>1. (monitor' = "idle" /\ monitor # "idle") \/ (~Reloading' /\ Reloading)
        BY <1>7, <1>8, <3>3
      <4>2. p + 1 <= Promised
        BY <2>6, <3>1, <4>1 DEF Promised
      <4>3. n = starts + 1
        BY <2>6, <3>3
      <4> QED BY <2>5, <4>2, <4>3
    <3>4. CASE starts' = starts + 2 /\ Restarters \subseteq Waiters(r)
      <4>1. monitor' = "idle" /\ monitor # "idle" /\ ~Reloading' /\ Reloading
        BY <1>7, <1>8, <3>4 DEF Restarters
      <4>2. p + 2 <= Promised
        BY <2>6, <4>1 DEF Promised
      <4>3. n = starts + 2
        BY <2>6, <3>4
      <4> QED BY <2>5, <4>2, <4>3
    <3> QED BY <1>7, <3>2, <3>3, <3>4
  <2>8. PICK u \in Nat, q \in Nat, t \in Nat :
          /\ u = Cardinality(Under) /\ q = requests' /\ t = attempts' /\ q = requests /\ t \in {attempts, 0}
    BY <1>1, <1>7, <2>5, UnderSize
  <2>9. /\ Cardinality(Under') = u /\ u <= Cardinality(Runs)
        /\ u + n + p + requests <= Cardinality(Under) + starts + Promised + q
        /\ t <= MAX_RESTART_ATTEMPTS \/ (t + u <= attempts + Cardinality(Under) /\ t >= attempts)
    <3>1. Cardinality(Under') = u /\ u <= Cardinality(Runs)
      BY <2>4, <2>8, UnderSize
    <3>2. u + n + p + requests <= Cardinality(Under) + starts + Promised + q
      BY <2>5, <2>7, <2>8
    <3>3. t <= MAX_RESTART_ATTEMPTS \/ (t + u <= attempts + Cardinality(Under) /\ t >= attempts)
      BY <2>5, <2>8, AttemptsAssumption
    <3> QED BY <3>1, <3>2, <3>3
  <2>10. RunBudget' /\ AttemptBudget'
    BY <2>6, <2>8, <2>9, RunNumbers
  <2> QED BY <1>1, <2>1, <2>2, <2>3, <2>6, <2>8, <2>10, AsItWas DEF RunSide
<1>11. Rest'
  BY <1>1, <1>7, AsItWas DEF Rest
<1> QED BY <1>9, <1>10, <1>11, Joined

LEMMA HookReturnsCounts ==
  ASSUME Counted, NEW i \in StopIds, HookReturns(i)
  PROVE  Counted'
<1>1. /\ UNCHANGED <<kind, usable, manuallyStopped, connected, runs, requests, contended, threw>>
      /\ AfterHook(i, stops[i].by, stops[i].task, asked) /\ stops[i].step = "hook"
  BY DEF HookReturns
<1>2. PICK q \in Nat : requests' = q /\ q = requests /\ q >= requests
  BY <1>1, NotAsked
<1>3. stops[i] # NoStop /\ stops[i].task \in Runs \cup {NoRun} /\ stops[i].by \in Callers
  <2>1. stops[i] \in Stop /\ stops[i].by # "nobody"
    BY <1>1, AsItWas DEF Counted, RestartersStop, NoStop
  <2> QED BY <1>1, <2>1 DEF NoStop, Stop
<1>4. RunSide' /\ StopSide' /\ monitor' \in {monitor, "idle", "stopping"} /\ asked' \in {asked, "start"}
  BY <1>1, <1>2, <1>3, AsItWas, StopSteps
<1>5. Rest'
  BY <1>1, <1>4, AsItWas DEF Rest
<1> QED BY <1>4, <1>5, Joined

LEMMA HookThrowsCounts ==
  ASSUME Counted, NEW i \in StopIds, HookThrows(i)
  PROVE  Counted'
<1>1. /\ UNCHANGED <<kind, usable, store, manuallyStopped, attempts, running, connected, runs, starts,
                     requests, asked, contended, threw>>
      /\ stops[i].step = "hook" /\ stops' = [stops EXCEPT ![i] = NoStop]
      /\ monitor' = IF stops[i].by = "monitor" THEN "idle" ELSE monitor
  BY DEF HookThrows
<1>2. PICK q \in Nat : requests' = q /\ q = requests /\ q >= requests
  BY <1>1, NotAsked
<1>3. stops[i] # NoStop /\ stops[i].by \in Callers /\ NoStop \in Stop
  <2>1. stops[i] \in Stop /\ stops[i].by # "nobody"
    BY <1>1, AsItWas DEF Counted, RestartersStop, NoStop
  <2> QED BY <1>1, <2>1 DEF NoStop, Stop
<1>4. StopSide' /\ \E p \in Nat : Promised' = p /\ p + requests <= Promised + q
  BY <1>1, <1>2, <1>3, StopCounts
<1>5. PICK p \in Nat, n \in Nat : Promised' = p /\ p + requests <= Promised + q /\ starts' = n /\ n = starts
  BY <1>1, <1>4, Requested
<1>6. n + p + requests <= starts + Promised + q
  BY <1>2, <1>5, Requested
<1>7. RunSide'
  BY <1>1, <1>2, <1>5, <1>6, RunsSame, AsItWas
<1>8. Rest'
  BY <1>1, AsItWas DEF Rest
<1> QED BY <1>4, <1>7, <1>8, Joined

LEMMA MonitorSeesCounts ==
  ASSUME Counted, MonitorSees
  PROVE  Counted'
<1>1. PICK q \in Nat : requests' = q /\ q = requests + 1 /\ q >= requests /\ q \in 0..MaxRequests
  BY Asked DEF MonitorSees
<1>2. /\ UNCHANGED <<kind, usable, store, manuallyStopped, attempts, running, connected, runs, starts,
                     stops, asked, contended, threw>>
      /\ monitor = "idle" /\ monitor' \in {"sawRunning", "sawStopped"}
  BY DEF MonitorSees
<1>3. RunSide' /\ StopSide'
  BY <1>1, <1>2, RunsAlone
<1>4. Rest'
  BY <1>1, <1>2, AsItWas DEF Rest
<1> QED BY <1>3, <1>4, Joined

LEMMA MonitorActsCounts ==
  ASSUME Counted, MonitorActs
  PROVE  Counted'
<1>1. UNCHANGED <<kind, usable, connected, requests, contended, threw>> /\ Looking
  BY DEF MonitorActs, Looking
<1>2. PICK q \in Nat : requests' = q /\ q = requests /\ q >= requests
  BY <1>1, NotAsked
<1>3. CASE /\ UNCHANGED <<store, manuallyStopped, runs, stops>> /\ monitor' = "idle"
           /\ asked' \in {asked, "start"} /\ attempts' \in {attempts, 0}
           /\ running' \in {running, FALSE} /\ starts' \in {starts, starts + 1}
  <2>1. RunSide' /\ StopSide'
    BY <1>1, <1>2, <1>3, RunsAlone
  <2>2. Rest'
    BY <1>1, <1>3, AsItWas DEF Rest
  <2> QED BY <2>1, <2>2, Joined
<1>4. CASE StopChannel("monitor", asked)
  <2>1. RunSide' /\ StopSide' /\ monitor' \in {monitor, "idle", "stopping"} /\ asked' \in {asked, "start"}
    BY <1>1, <1>2, <1>4, StopChannelCounts DEF Callers, Restarters
  <2>2. Rest'
    BY <1>1, <2>1, AsItWas DEF Rest
  <2> QED BY <2>1, <2>2, Joined
<1> QED BY <1>3, <1>4 DEF MonitorActs, StartChannel

\* The logout, the loss of the connection and the edit of the configuration.
LEMMA OthersCount ==
  ASSUME Counted, MarkChannelLoggedOut \/ Disconnects \/ EditConfig
  PROVE  Counted'
<1>1. /\ UNCHANGED <<kind, store, manuallyStopped, attempts, runs, starts, stops, monitor, asked, contended,
                     threw>>
      /\ running' \in {running, FALSE} /\ connected' \in {connected, FALSE} /\ usable' \in {usable, ~usable}
      /\ NewRequest \/ UNCHANGED requests
  BY DEF MarkChannelLoggedOut, Disconnects, EditConfig
<1>2. PICK q \in Nat : requests' = q /\ q >= requests /\ q \in 0..MaxRequests
  <2>1. CASE NewRequest
    BY <2>1, Asked
  <2>2. CASE UNCHANGED requests
    BY <2>2, Requested
  <2> QED BY <1>1, <2>1, <2>2
<1>3. RunSide' /\ StopSide'
  BY <1>1, <1>2, RunsAlone
<1>4. Rest'
  BY <1>1, <1>2, AsItWas DEF Rest
<1> QED BY <1>3, <1>4, Joined

LEMMA InitCounts == Init => Counted
<1> SUFFICES ASSUME Init PROVE Counted
  OBVIOUS
<1>1. Typed
  <2>1. Unused \in Run /\ NoStop \in Stop /\ Empty \in Store
    BY DEF Unused, Run, Phases, NoStop, Stop, Empty, Store
  <2>2. runs \in [Runs -> Run] /\ stops \in [StopIds -> Stop]
    BY <2>1 DEF Init
  <2>3. requests \in 0..MaxRequests /\ attempts \in Nat /\ starts \in Nat
    BY BoundAssumption DEF Init
  <2> QED BY <2>1, <2>2, <2>3 DEF Init, Typed
<1>2. Clean /\ RestartersStop
  BY RunIds DEF Init, Clean, RestartersStop, Unused, NoStop, Empty, abort
<1>3. Under = {} /\ Stopping = {} /\ ~Reloading /\ ~Looking
  BY DEF Init, Under, Underway, Unused, Stopping, Reloading, NoStop, Looking
<1>4. Cardinality({}) = 0
  BY FS_EmptySet
<1>5. Promised = 0
  BY <1>3 DEF Init, Promised
<1>6. RunBudget /\ StopBudget /\ AttemptBudget
  BY <1>3, <1>4, <1>5, AttemptsAssumption DEF Init, RunBudget, StopBudget, AttemptBudget
<1> QED BY <1>1, <1>2, <1>6 DEF Counted

LEMMA NextCounts == Counted /\ [Next]_vars => Counted'
<1> SUFFICES ASSUME Counted, [Next]_vars PROVE Counted'
  OBVIOUS
<1>1. CASE UNCHANGED vars
  <2>1. UNCHANGED <<kind, usable, store, manuallyStopped, attempts, running, connected, runs, starts,
                    stops, monitor, requests, asked, contended, threw>>
    BY <1>1 DEF vars
  <2>2. PICK q \in Nat : requests' = q /\ q = requests /\ q >= requests
    BY <2>1, NotAsked
  <2>3. RunSide' /\ StopSide'
    BY <2>1, <2>2, RunsAlone
  <2>4. Rest'
    BY <2>1, AsItWas DEF Rest
  <2> QED BY <2>3, <2>4, Joined
<1>2. CASE \E r \in Runs : RunSettles(r)
  BY <1>2, RunSettlesCounts
<1>3. CASE /\ \A r \in Runs : runs[r].phase # "over"
           /\ \/ RequestStart \/ StartGoesOn \/ RequestStop \/ RequestReload
              \/ \E r \in Runs : RunExits(r) \/ SleepIsOver(r) \/ Restarts(r) \/ RestartGoesOn(r)
  BY <1>3, RequestStartCounts, StartGoesOnCounts, RequestStopCounts, RunExitsCounts, PausesCount,
     RestartGoesOnCounts
<1>4. CASE \/ \E i \in StopIds : HookReturns(i) \/ HookThrows(i)
           \/ MonitorSees \/ MonitorActs
           \/ MarkChannelLoggedOut \/ Disconnects \/ EditConfig
  BY <1>4, HookReturnsCounts, HookThrowsCounts, MonitorSeesCounts, MonitorActsCounts, OthersCount
<1> QED BY <1>1, <1>2, <1>3, <1>4 DEF Next

LEMMA CountedTypes == Counted => TypeOK
<1> SUFFICES ASSUME Counted PROVE TypeOK
  OBVIOUS
<1>1. /\ Cardinality(Under) \in Nat /\ Cardinality(Runs) \in Nat
      /\ starts \in Nat /\ attempts \in Nat /\ requests \in Nat /\ requests <= MaxRequests /\ Promised \in Nat
  BY UnderSize, Requested
<1>2. attempts \in 0..(MAX_RESTART_ATTEMPTS + Cardinality(Runs))
  <2>1. \/ attempts <= MAX_RESTART_ATTEMPTS
        \/ attempts + Cardinality(Under) <= MAX_RESTART_ATTEMPTS + Cardinality(Runs)
    BY DEF Counted, AttemptBudget
  <2> QED BY <1>1, <2>1, AttemptsAssumption
<1>3. starts \in 0..MaxRequests
  <2>1. Cardinality(Under) + starts + Promised <= requests
    BY DEF Counted, RunBudget
  <2> QED BY <1>1, <2>1, BoundAssumption
<1> QED BY <1>2, <1>3 DEF Counted, Typed, TypeOK, Run, Store, Stop, Callers

\* The types of every variable: among them, an account never needs more runs, starts or
\* stops at a time than requests have been made, and the attempts to restart pass the
\* limit by no more than the number of runs.
THEOREM ChannelTypes == Spec => []TypeOK
<1> QED BY InitCounts, NextCounts, CountedTypes, PTL DEF Spec

-----------------------------------------------------------------------------
(* Restarts.  A dispatcher is described by what its own fields say, so the   *)
(* lemmas are about one message at a time.                                   *)

Message ==
  [phase : {"none", "run", "complete"}, task : {"none", "active", "embedded", "stale"},
   chain : Nat, pending : Int, registered : BOOLEAN, micro : BOOLEAN,
   late : 0 .. MaxLate, after : BOOLEAN, idle : BOOLEAN]

\* What counts of a pending count, and of a microtask.
Positive(n) == IF n > 0 THEN n ELSE 0
Due(d)      == IF d.micro THEN 1 ELSE 0

\* Every loss of a count takes two that came late, or one and the microtask.
LateCounts(d) == 2 * (d.chain - d.pending) + Positive(d.pending) + d.late + Due(d) <= MaxLate + 1

\* A running message is registered and so is counted; a registered count is exact; what
\* an unregistered dispatcher still sends came late.
Fits(d) ==
  /\ d.phase = "none" =>
       d.chain = 0 /\ d.pending = 0 /\ ~d.micro /\ ~d.registered /\ ~d.idle /\ d.late = 0
  /\ d.phase = "run" => d.registered /\ ~d.micro
  /\ d.registered => d.pending = d.chain + 1 /\ ~d.idle
  /\ ~d.registered => d.pending <= d.chain /\ (d.chain > 0 => d.after) /\ LateCounts(d)
  /\ d.idle => d.phase = "complete"

Dispatchers == \A m \in Msgs : handling[m] \in Message /\ Fits(handling[m])

\* No message, and a message that has just been handed over.
LEMMA UnhandledFits == Unhandled \in Message /\ Fits(Unhandled)
BY BoundsAssumption DEF Unhandled, Message, Fits, LateCounts, Positive, Due

LEMMA DispatcherFits == Dispatcher \in Message /\ Fits(Dispatcher)
<1>1. PICK u \in Message : u = Unhandled
  BY UnhandledFits
<1>2. u.chain = 0 /\ ~u.micro /\ ~u.idle
  BY <1>1 DEF Unhandled
<1>6. PICK n \in Int : n = 1
  OBVIOUS
<1>3. PICK e \in Message : e = [u EXCEPT !.phase = "run", !.registered = TRUE, !.pending = n]
  BY DEF Message
<1>5. e = Dispatcher
  BY <1>1, <1>3, <1>6 DEF Dispatcher
<1>4. /\ e.phase = "run" /\ e.registered /\ e.pending = n /\ e.chain = u.chain /\ ~e.micro /\ ~e.idle
      /\ n = u.chain + 1
  BY <1>2, <1>3, <1>6 DEF Message
<1> QED BY <1>3, <1>4, <1>5 DEF Fits

\* Whether a task of the message is under way says nothing of its replies.
LEMMA TaskFits ==
  ASSUME NEW d \in Message, Fits(d), NEW t \in {"none", "active", "embedded", "stale"}
  PROVE  [d EXCEPT !.task = t] \in Message /\ Fits([d EXCEPT !.task = t])
BY DEF Message, Fits, LateCounts, Positive, Due

\* The fields of a message are numbers, words and truth values.
LEMMA Fields ==
  ASSUME NEW d \in Message
  PROVE  /\ d.chain \in Nat /\ d.pending \in Int /\ d.late \in Int /\ 0 <= d.late /\ d.late <= MaxLate
         /\ MaxLate \in Int
BY BoundsAssumption DEF Message

\* A reply is enqueued, during the run ...
LEMMA EnqueueFits ==
  ASSUME NEW d \in Message, Fits(d), d.phase = "run"
  PROVE  Enqueue(d) \in Message /\ Fits(Enqueue(d))
<1>1. PICK c \in Nat, p \in Int : c = d.chain /\ p = d.pending
  BY Fields
<1>2. Enqueue(d) = [d EXCEPT !.chain = c + 1, !.pending = p + 1]
  BY <1>1 DEF Enqueue
<1>3. c + 1 \in Nat /\ p + 1 \in Int
  BY <1>1
<1>4. PICK e \in Message :
        e = Enqueue(d) /\ e = [d EXCEPT !.chain = c + 1, !.pending = p + 1]
  BY <1>2, <1>3 DEF Message
<1>5. e.chain = c + 1 /\ e.pending = p + 1 /\ e.phase = "run" /\ e.micro = d.micro
      /\ e.registered = d.registered /\ e.idle = d.idle
  BY <1>4 DEF Message
<1>6. d.registered /\ ~d.micro /\ p = c + 1 /\ ~d.idle
  BY <1>1 DEF Fits
<1>7. e.registered /\ e.pending = e.chain + 1 /\ ~e.idle /\ ~e.micro
  BY <1>5, <1>6
<1>8. Fits(e)
  BY <1>5, <1>7 DEF Fits
<1> QED BY <1>4, <1>8

\* ... or after it, by one of its callbacks.
LEMMA LateFits ==
  ASSUME NEW d \in Message, Fits(d), d.phase = "complete", d.late > 0
  PROVE  EnqueueLate(d) \in Message /\ Fits(EnqueueLate(d))
<1>1. PICK c \in Nat, p \in Int, n \in 0 .. MaxLate : c = d.chain /\ p = d.pending /\ n = d.late
  BY DEF Message
<1>2. EnqueueLate(d) = [d EXCEPT !.chain = c + 1, !.pending = p + 1, !.late = n - 1, !.after = TRUE]
  BY <1>1 DEF Enqueue, EnqueueLate, Message
<1>3. c + 1 \in Nat /\ p + 1 \in Int /\ n - 1 \in 0 .. MaxLate
  BY <1>1, BoundsAssumption
<1>4. PICK e \in Message :
        e = EnqueueLate(d)
          /\ e = [d EXCEPT !.chain = c + 1, !.pending = p + 1, !.late = n - 1, !.after = TRUE]
  BY <1>2, <1>3 DEF Message
<1>5. /\ e.chain = c + 1 /\ e.pending = p + 1 /\ e.late = n - 1 /\ e.after
      /\ e.phase = "complete" /\ e.micro = d.micro /\ e.registered = d.registered /\ e.idle = d.idle
  BY <1>4 DEF Message
<1>6. CASE d.registered
  <2>1. p = c + 1 /\ ~d.idle
    BY <1>1, <1>6 DEF Fits
  <2> QED BY <1>4, <1>5, <1>6, <2>1 DEF Fits
<1>7. CASE ~d.registered
  <2>1. p <= c /\ 2 * (c - p) + Positive(p) + n + Due(d) <= MaxLate + 1
    BY <1>1, <1>7 DEF Fits, LateCounts
  <2>2. PICK k \in {0, 1} : k = Due(d) /\ k = Due(e)
    BY <1>5 DEF Due
  <2>3. p + 1 <= c + 1 /\ 2 * ((c + 1) - (p + 1)) + Positive(p + 1) + (n - 1) + k <= MaxLate + 1
    BY <2>1, <2>2, BoundsAssumption DEF Positive
  <2>4. LateCounts(e)
    BY <1>5, <2>2, <2>3 DEF LateCounts
  <2> QED BY <1>4, <1>5, <1>7, <2>3, <2>4 DEF Fits
<1> QED BY <1>6, <1>7

\* A delivery settles: the last one of a complete run takes the reservation along, and
\* of an unregistered dispatcher it may take one count too many.
LEMMA SettledFits ==
  ASSUME NEW d \in Message, Fits(d), d.chain > 0
  PROVE  Settled(d) \in Message /\ Fits(Settled(d))
<1>1. PICK c \in Nat, p \in Int, n \in 0 .. MaxLate : c = d.chain /\ p = d.pending /\ n = d.late
  BY DEF Message
<1>2. PICK q \in Int : q = IF p - 1 = 1 /\ d.phase = "complete" THEN 0 ELSE p - 1
  OBVIOUS
<1>3. c - 1 \in Nat
  BY <1>1
<1>4. PICK f \in Message : f = [d EXCEPT !.chain = c - 1, !.pending = q]
  BY <1>2, <1>3 DEF Message
<1>5. Settled(d) = IfIdle(f)
  BY <1>1, <1>2, <1>4 DEF Settled
<1>6. /\ f.chain = c - 1 /\ f.pending = q /\ f.late = n /\ f.after = d.after
      /\ f.phase = d.phase /\ f.micro = d.micro /\ f.registered = d.registered /\ f.idle = d.idle
  BY <1>1, <1>4 DEF Message
<1>12. PICK e \in Message : e = IF q = 0 THEN [f EXCEPT !.registered = FALSE, !.idle = TRUE] ELSE f
  <2>1. CASE q = 0
    BY <2>1 DEF Message
  <2>2. CASE q # 0
    BY <2>2
  <2> QED BY <2>1, <2>2
<1>13. e = Settled(d)
  BY <1>5, <1>6, <1>12 DEF IfIdle
<1>7. /\ e.chain = c - 1 /\ e.pending = q /\ e.late = n /\ e.after = d.after
      /\ e.phase = d.phase /\ e.micro = d.micro
      /\ q # 0 => e.registered = d.registered /\ e.idle = d.idle
      /\ q = 0 => ~e.registered /\ e.idle
  <2>1. CASE q = 0
    BY <1>6, <1>12, <2>1 DEF Message
  <2>2. CASE q # 0
    BY <1>6, <1>12, <2>2
  <2> QED BY <2>1, <2>2
<1>8. d.phase # "none"
  BY <1>1 DEF Fits
<1>9. PICK k \in {0, 1} : k = Due(d) /\ k = Due(e)
  BY <1>7 DEF Due
<1>10. CASE d.registered
  <2>1. p = c + 1 /\ ~d.idle
    BY <1>1, <1>10 DEF Fits
  <2>2. CASE q # 0
    <3>1. q = (c - 1) + 1
      BY <1>2, <2>1, <2>2
    <3> QED BY <1>13, <1>7, <1>8, <1>10, <2>1, <2>2, <3>1 DEF Fits
  <2>3. CASE q = 0
    <3>1. c = 1 /\ d.phase = "complete"
      BY <1>1, <1>2, <2>1, <2>3
    <3>2. LateCounts(e)
      <4>1. 2 * ((c - 1) - q) + Positive(q) + n + k <= MaxLate + 1
        BY <2>3, <3>1, <1>9, BoundsAssumption DEF Positive
      <4> QED BY <1>7, <1>9, <4>1 DEF LateCounts
    <3> QED BY <1>13, <1>7, <2>3, <3>1, <3>2 DEF Fits
  <2> QED BY <2>2, <2>3
<1>11. CASE ~d.registered
  <2>1. p <= c /\ 2 * (c - p) + Positive(p) + n + k <= MaxLate + 1 /\ d.after /\ d.phase = "complete"
    BY <1>1, <1>8, <1>9, <1>11 DEF Fits, LateCounts, Message
  <2>2. q <= c - 1 /\ 2 * ((c - 1) - q) + Positive(q) + n + k <= MaxLate + 1
    BY <1>1, <1>2, <1>9, <2>1, BoundsAssumption DEF Positive
  <2>3. LateCounts(e)
    BY <1>7, <1>9, <2>2 DEF LateCounts
  <2>4. ~e.registered
    BY <1>7, <1>11
  <2> QED BY <1>13, <1>7, <2>1, <2>2, <2>3, <2>4 DEF Fits
<1> QED BY <1>13, <1>10, <1>11

\* The dispatcher after markComplete, with n callbacks that outlast the run.
Completed(d, n) == [d EXCEPT !.phase = "complete", !.micro = TRUE, !.late = n]

LEMMA CompleteFits ==
  ASSUME NEW d \in Message, Fits(d), d.phase = "run", NEW n \in 0 .. MaxLate
  PROVE  Completed(d, n) \in Message /\ Fits(Completed(d, n))
<1>1. PICK e \in Message : e = Completed(d, n) /\ e = [d EXCEPT !.phase = "complete", !.micro = TRUE, !.late = n]
  BY DEF Message, Completed
<1>2. /\ e.phase = "complete" /\ e.micro /\ e.chain = d.chain /\ e.pending = d.pending
      /\ e.registered = d.registered /\ e.idle = d.idle
  BY <1>1 DEF Message
<1>3. d.registered /\ d.pending = d.chain + 1 /\ ~d.idle
  BY DEF Fits
<1> QED BY <1>1, <1>2, <1>3 DEF Fits

\* The dispatcher after the microtask of markComplete.
Released(d) ==
  IF d.pending = 1 THEN IfIdle([d EXCEPT !.micro = FALSE, !.pending = 0]) ELSE [d EXCEPT !.micro = FALSE]

LEMMA ReleaseFits ==
  ASSUME NEW d \in Message, Fits(d), d.micro
  PROVE  Released(d) \in Message /\ Fits(Released(d))
<1>1. PICK c \in Nat, p \in Int, n \in 0 .. MaxLate : c = d.chain /\ p = d.pending /\ n = d.late
  BY DEF Message
<1>2. d.phase = "complete" /\ Due(d) = 1
  BY DEF Fits, Message, Due
<1>3. CASE p = 1
  <2>0. PICK z \in Int : z = 0
    OBVIOUS
  <2>7. PICK f \in Message : f = [d EXCEPT !.micro = FALSE, !.pending = z]
    BY DEF Message
  <2>1. f = [d EXCEPT !.micro = FALSE, !.pending = 0] /\ f.pending = 0
    BY <2>0, <2>7 DEF Message
  <2>2. PICK e \in Message : e = Released(d) /\ e = [f EXCEPT !.registered = FALSE, !.idle = TRUE]
    BY <1>1, <1>3, <2>1 DEF Released, IfIdle, Message
  <2>3. /\ e.chain = c /\ e.pending = 0 /\ e.late = n /\ e.after = d.after
        /\ e.phase = "complete" /\ ~e.micro /\ ~e.registered /\ e.idle
    BY <1>1, <1>2, <2>1, <2>2 DEF Message
  <2>4. Due(e) = 0
    BY <2>3 DEF Due
  <2>5. (c > 0 => d.after) /\ 2 * (c - 0) + Positive(0) + n + 0 <= MaxLate + 1
    <3>1. CASE d.registered
      <4>1. c = 0
        BY <1>1, <1>3, <3>1 DEF Fits
      <4> QED BY <1>1, <4>1, BoundsAssumption DEF Positive
    <3>2. CASE ~d.registered
      <4>1. /\ c > 0 => d.after
            /\ 2 * (c - p) + Positive(p) + n + 1 <= MaxLate + 1
        BY <1>1, <1>2, <3>2 DEF Fits, LateCounts
      <4>2. Positive(p) = 1 /\ Positive(0) = 0
        BY <1>3 DEF Positive
      <4>3. 2 * c + n <= MaxLate + 1
        BY <1>1, <1>3, <4>1, <4>2, BoundsAssumption
      <4>4. 2 * (c - 0) + Positive(0) + n + 0 <= MaxLate + 1
        BY <1>1, <4>2, <4>3, BoundsAssumption
      <4>5. c > 0 => d.after
        BY <4>1
      <4> QED BY <4>4, <4>5
    <3> QED BY <3>1, <3>2
  <2>6. LateCounts(e)
    BY <2>3, <2>4, <2>5 DEF LateCounts
  <2> QED BY <1>1, <2>2, <2>3, <2>5, <2>6 DEF Fits
<1>4. CASE p # 1
  <2>1. PICK e \in Message : e = Released(d) /\ e = [d EXCEPT !.micro = FALSE]
    BY <1>1, <1>4 DEF Released, Message
  <2>2. /\ e.chain = c /\ e.pending = p /\ e.late = n /\ e.after = d.after
        /\ e.phase = "complete" /\ ~e.micro /\ e.registered = d.registered /\ e.idle = d.idle
    BY <1>1, <1>2, <2>1 DEF Message
  <2>3. Due(e) = 0
    BY <2>2 DEF Due
  <2>4. ~d.registered => LateCounts(e)
    <3>1. ~d.registered => 2 * (c - p) + Positive(p) + n + 1 <= MaxLate + 1
      BY <1>1, <1>2 DEF Fits, LateCounts
    <3>2. Positive(p) \in Nat
      BY DEF Positive
    <3>3. ~d.registered => 2 * (c - p) + Positive(p) + n + 0 <= MaxLate + 1
      BY <3>1, <3>2, BoundsAssumption
    <3> QED BY <2>2, <2>3, <3>3 DEF LateCounts
  <2> QED BY <1>1, <2>1, <2>2, <2>4 DEF Fits
<1> QED BY <1>1, <1>3, <1>4

-----------------------------------------------------------------------------
\* The dispatcher of one message changes, those of the others do not.
LEMMA OneMessage ==
  ASSUME Dispatchers, handling \in [Msgs -> Message], NEW m \in Msgs, NEW e \in Message, Fits(e),
         handling' = [handling EXCEPT ![m] = e]
  PROVE  Dispatchers' /\ handling' \in [Msgs -> Message]
BY DEF Dispatchers

Handled == handling \in [Msgs -> Message] /\ Dispatchers

\* The steps of a message.
LEMMA HandlingFits ==
  ASSUME Handled, NEW m \in Msgs, Handling(m)
  PROVE  Handled'
<1> DEFINE d == handling[m]
<1>1. d \in Message /\ Fits(d)
  BY DEF Handled, Dispatchers
<1>2. CASE DispatchInboundMessage(m)
  BY <1>2, DispatcherFits, OneMessage DEF DispatchInboundMessage, Handled
<1>3. CASE TaskBegins(m) \/ TaskEnds(m)
  <2>1. PICK t \in {"none", "active", "embedded", "stale"} : handling' = [handling EXCEPT ![m].task = t]
    BY <1>3 DEF TaskBegins, TaskEnds
  <2>2. handling' = [handling EXCEPT ![m] = [d EXCEPT !.task = t]]
    BY <2>1
  <2> QED BY <1>1, <2>2, TaskFits, OneMessage DEF Handled
<1>4. CASE SendReply(m)
  <2>1. handling' = [handling EXCEPT ![m] = Enqueue(d)] /\ d.phase = "run"
    BY <1>4 DEF SendReply
  <2> QED BY <1>1, <2>1, EnqueueFits, OneMessage DEF Handled
<1>5. CASE SendLate(m)
  <2>1. d.phase = "complete" /\ d.late > 0
    BY <1>5 DEF SendLate
  <2>2. handling' = [handling EXCEPT ![m] = EnqueueLate(d)]
    BY <1>5 DEF SendLate
  <2> QED BY <1>1, <2>1, <2>2, LateFits, OneMessage DEF Handled
<1>6. CASE DeliverySettles(m)
  <2>1. handling' = [handling EXCEPT ![m] = Settled(d)] /\ d.chain > 0
    BY <1>6 DEF DeliverySettles
  <2> QED BY <1>1, <2>1, SettledFits, OneMessage DEF Handled
<1>7. CASE MarkComplete(m)
  <2>1. PICK n \in 0 .. MaxLate :
          handling' = [handling EXCEPT ![m].phase = "complete", ![m].micro = TRUE, ![m].late = n]
    BY <1>7 DEF MarkComplete
  <2>2. handling' = [handling EXCEPT ![m] = Completed(d, n)] /\ d.phase = "run"
    BY <1>7, <2>1 DEF MarkComplete, Completed, Handled
  <2> QED BY <1>1, <2>2, CompleteFits, OneMessage DEF Handled
<1>8. CASE ClearReservation(m)
  <2>1. handling' = [handling EXCEPT ![m] = Released(d)] /\ d.micro
    BY <1>8 DEF ClearReservation, Released
  <2> QED BY <1>1, <2>1, ReleaseFits, OneMessage DEF Handled
<1>9. CASE HandlingEnds(m)
  BY <1>9, UnhandledFits, OneMessage DEF HandlingEnds, Handled
<1> QED BY <1>2, <1>3, <1>4, <1>5, <1>6, <1>7, <1>8, <1>9 DEF Handling

\* What a restart does to the messages.
LEMMA RestartFits ==
  ASSUME Handled, Closed \/ Respawned
  PROVE  Handled'
<1>1. CASE Respawned
  BY <1>1, UnhandledFits DEF Respawned, Handled, Dispatchers
<1>2. CASE Closed /\ UNCHANGED handling
  BY <1>2 DEF Handled, Dispatchers
<1>3. CASE Closed /\ handling' = [m \in Msgs |-> [handling[m] EXCEPT !.task = IF @ = "active" THEN "stale" ELSE @]]
  <2>1. ASSUME NEW m \in Msgs
        PROVE  handling'[m] \in Message /\ Fits(handling'[m])
    <3>1. PICK d \in Message : d = handling[m] /\ Fits(d)
      BY DEF Handled, Dispatchers
    <3>2. handling'[m] = [d EXCEPT !.task = IF d.task = "active" THEN "stale" ELSE d.task]
      BY <1>3, <3>1
    <3>3. PICK t \in {"none", "active", "embedded", "stale"} : t = IF d.task = "active" THEN "stale" ELSE d.task
      BY DEF Message
    <3>4. handling'[m] = [d EXCEPT !.task = t]
      BY <3>2, <3>3
    <3> QED BY <3>4, <3>1, TaskFits
  <2>2. handling' = [m \in Msgs |-> handling'[m]]
    BY <1>3
  <2> QED BY <2>1, <2>2 DEF Handled, Dispatchers
<1> QED BY <1>1, <1>2, <1>3 DEF Closed

\* The rest of the state: timers, deferrals and the run loop.
Deferral == [wait : {None} \cup 0 .. MaxWait, watcher : BOOLEAN]

Timed ==
  /\ timer \in Nat \cup {None} /\ cooling \in 0 .. Cooldown /\ deferrals \in [Ids -> Deferral]
  /\ loop \in {"starting", "serving", "exited"} /\ server \in BOOLEAN
  /\ closing \in {"no", "draining", "closing", "stopping"}
  /\ why \in {"none", "idle", "timeout", "signal"}

\* What these steps have in common: time that passes, an emission, a deferral.
LEMMA NoDeferralIs == NoDeferral \in Deferral
BY DEF NoDeferral, Deferral

LEMMA LessIs ==
  /\ \A n \in Nat : Less(n) \in Nat /\ Less(n) <= n
  /\ Less(None) = None
BY DEF Less, None

LEMMA EmitTimed ==
  ASSUME Timed, NEW cause \in {"idle", "timeout", "signal"}, Emit(cause)
  PROVE  /\ timer' \in Nat \cup {None} /\ cooling' \in 0 .. Cooldown
         /\ closing' \in {"no", "draining", "closing", "stopping"}
         /\ why' \in {"none", "idle", "timeout", "signal"}
BY TimesAssumption DEF Timed, Emit, Request

LEMMA DeferTimed ==
  ASSUME Timed, NEW w \in BOOLEAN, Defer(w)
  PROVE  /\ deferrals' \in [Ids -> Deferral] /\ UNCHANGED <<cooling, closing, why>>
<1>1. MaxWait \in {None} \cup 0 .. MaxWait
  BY TimesAssumption
<1>2. [wait |-> MaxWait, watcher |-> w] \in Deferral
  BY <1>1 DEF Deferral
<1> QED BY <1>2 DEF Timed, Defer

\* No step spoils the types of the timers and the loop ...
LEMMA TimedKept ==
  ASSUME Timed,
         \/ \E m \in Msgs : Handling(m)
         \/ \E d \in Delays : ScheduleGatewaySigusr1Restart(d)
         \/ TimerFires \/ RequestGatewayRestart \/ \E i \in Ids : Poll(i)
         \/ ExternalSigusr1 \/ StopSignal \/ Tick
         \/ Started \/ StartFails \/ Drained \/ Closed \/ Respawned \/ Exits
  PROVE  Timed'
<1>1. CASE \E m \in Msgs : Handling(m)
  BY <1>1 DEF Timed, Handling, DispatchInboundMessage, TaskBegins, TaskEnds, SendReply, SendLate,
     DeliverySettles, MarkComplete, ClearReservation, HandlingEnds
<1>2. ASSUME NEW d \in Delays, ScheduleGatewaySigusr1Restart(d) PROVE Timed'
  <2>1. d \in Nat /\ cooling \in Nat
    BY TimesAssumption DEF Timed
  <2>2. timer' = d + cooling /\ UNCHANGED <<cooling, deferrals, loop, server, closing, why>>
    BY <1>2 DEF ScheduleGatewaySigusr1Restart
  <2>3. timer' \in Nat
    BY <2>1, <2>2
  <2> QED BY <2>2, <2>3 DEF Timed
<1>3. CASE TimerFires
  <2>1. CASE EmitIfIdle
    BY <1>3, <2>1, EmitTimed DEF TimerFires, EmitIfIdle, Timed
  <2>2. CASE Defer(FALSE) /\ timer' = None
    BY <1>3, <2>2, DeferTimed DEF TimerFires, Timed
  <2> QED BY <1>3, <2>1, <2>2 DEF TimerFires
<1>4. CASE RequestGatewayRestart
  <2>1. CASE EmitIfIdle
    BY <1>4, <2>1, EmitTimed DEF RequestGatewayRestart, EmitIfIdle, Timed
  <2>2. CASE Defer(TRUE) /\ UNCHANGED timer
    BY <1>4, <2>2, DeferTimed DEF RequestGatewayRestart, Timed
  <2> QED BY <1>4, <2>1, <2>2 DEF RequestGatewayRestart
<1>5. ASSUME NEW i \in Ids, Poll(i) PROVE Timed'
  <2>1. PICK cause \in {"idle", "timeout", "signal"} : Emit(cause)
    BY <1>5 DEF Poll
  <2>2. deferrals' = [deferrals EXCEPT ![i] = NoDeferral] /\ UNCHANGED <<loop, server>>
    BY <1>5 DEF Poll
  <2> QED BY <2>1, <2>2, EmitTimed, NoDeferralIs DEF Timed
<1>6. CASE ExternalSigusr1 \/ StopSignal
  BY <1>6 DEF ExternalSigusr1, StopSignal, Request, Timed
<1>7. CASE Tick
  <2>1. timer' \in Nat \cup {None}
    BY <1>7, LessIs DEF Tick, Timed
  <2>2. cooling' \in 0 .. Cooldown
    <3>1. cooling \in Nat /\ cooling <= Cooldown /\ cooling' = Less(cooling)
      BY <1>7, TimesAssumption DEF Tick, Timed
    <3>2. Less(cooling) \in Nat /\ Less(cooling) <= cooling
      BY <3>1, LessIs
    <3>3. Less(cooling) \in 0 .. Cooldown
      BY <3>1, <3>2, TimesAssumption
    <3> QED BY <3>1, <3>3
  <2>3. deferrals' \in [Ids -> Deferral]
    <3>1. ASSUME NEW w \in {None} \cup 0 .. MaxWait PROVE Less(w) \in {None} \cup 0 .. MaxWait
      <4>1. CASE w = None
        BY <4>1, LessIs
      <4>2. CASE w \in 0 .. MaxWait
        BY <4>2, TimesAssumption DEF Less
      <4> QED BY <4>1, <4>2
    <3>2. deferrals' = [i \in Ids |-> [deferrals[i] EXCEPT !.wait = Less(deferrals[i].wait)]]
      BY <1>7 DEF Tick
    <3> QED BY <3>1, <3>2 DEF Timed, Deferral
  <2> QED BY <1>7, <2>1, <2>2, <2>3 DEF Tick, Timed
<1>8. CASE Started \/ StartFails \/ Drained \/ Exits
  BY <1>8 DEF Timed, Started, StartFails, Drained, Exits
<1>9. CASE Closed
  <2>1. CASE UNCHANGED deferrals
    BY <1>9, <2>1 DEF Closed, Timed
  <2>2. CASE deferrals' = [i \in Ids |-> [deferrals[i] EXCEPT !.watcher = FALSE]]
    <3>1. deferrals' \in [Ids -> Deferral]
      BY <2>2 DEF Timed, Deferral
    <3> QED BY <1>9, <3>1 DEF Closed, Timed
  <2> QED BY <1>9, <2>1, <2>2 DEF Closed
<1>10. CASE Respawned
  <2>1. 0 \in 0 .. Cooldown
    BY TimesAssumption
  <2> QED BY <1>10, <2>1, NoDeferralIs DEF Respawned, Timed
<1> QED BY <1>1, <1>2, <1>3, <1>4, <1>5, <1>6, <1>7, <1>8, <1>9, <1>10

\* ... and those that are not of a message leave the messages alone.
LEMMA HandledKept ==
  ASSUME Handled,
         \/ \E d \in Delays : ScheduleGatewaySigusr1Restart(d)
         \/ TimerFires \/ RequestGatewayRestart \/ \E i \in Ids : Poll(i)
         \/ ExternalSigusr1 \/ StopSignal \/ Tick \/ Started \/ StartFails \/ Drained \/ Exits
  PROVE  Handled'
<1>1. UNCHANGED handling
  BY DEF ScheduleGatewaySigusr1Restart, TimerFires, RequestGatewayRestart, Poll, ExternalSigusr1, StopSignal,
     Tick, Started, StartFails, Drained, Exits
<1> QED BY <1>1 DEF Handled, Dispatchers

\* The invariant that both theorems follow from.
LEMMA RestartInv == RestartSpec => [](Handled /\ Timed)
<1>1. RestartInit => Handled /\ Timed
  <2>1. 0 \in 0 .. Cooldown
    BY TimesAssumption
  <2>2. RestartInit => Handled
    BY UnhandledFits DEF RestartInit, Handled, Dispatchers
  <2>3. RestartInit => Timed
    BY <2>1, NoDeferralIs DEF RestartInit, Timed
  <2> QED BY <2>2, <2>3
<1>2. Handled /\ Timed /\ [RestartNext]_restartVars => (Handled /\ Timed)'
  <2> SUFFICES ASSUME Handled, Timed, [RestartNext]_restartVars
               PROVE  Handled' /\ Timed'
    OBVIOUS
  <2>1. CASE UNCHANGED restartVars
    BY <2>1 DEF restartVars, Handled, Dispatchers, Timed
  <2>2. CASE RestartNext
    BY <2>2, HandlingFits, RestartFits, HandledKept, TimedKept DEF RestartNext
  <2> QED BY <2>1, <2>2
<1> QED BY <1>1, <1>2, PTL DEF RestartSpec

\* Types, and counters that are exact as long as a dispatcher is registered, however
\* replies, deliveries, completions, late callbacks and restarts come.
THEOREM RestartTypes == RestartSpec => []RestartTypeOK
<1>1. Handled /\ Timed => RestartTypeOK
  <2> SUFFICES ASSUME Handled, Timed PROVE RestartTypeOK
    OBVIOUS
  <2>1. ASSUME NEW m \in Msgs, NEW d, d = handling[m]
        PROVE  /\ d \in Message
               /\ IF d.registered THEN d.pending = d.chain + 1 /\ ~d.idle
                  ELSE d.pending <= d.chain /\ 2 * (d.chain - d.pending) <= MaxLate + 1
               /\ d.idle => d.phase = "complete" /\ (d.chain = 0 \/ d.after)
    <3>1. d \in Message /\ Fits(d)
      BY <2>1 DEF Handled, Dispatchers
    <3>2. PICK c \in Nat, p \in Int, n \in 0 .. MaxLate : c = d.chain /\ p = d.pending /\ n = d.late
      BY <3>1 DEF Message
    <3>3. d.idle => d.phase = "complete" /\ (d.chain = 0 \/ d.after)
      <4>1. c = 0 \/ c > 0
        BY <3>2
      <4> QED BY <3>1, <3>2, <4>1 DEF Fits
    <3>4. CASE d.registered
      BY <3>1, <3>3, <3>4 DEF Fits
    <3>5. CASE ~d.registered
      <4>1. p <= c /\ 2 * (c - p) + Positive(p) + n + Due(d) <= MaxLate + 1
        BY <3>1, <3>2, <3>5 DEF Fits, LateCounts
      <4>2. PICK k \in {0, 1} : k = Due(d)
        BY DEF Due
      <4>3. Positive(p) \in Nat
        BY DEF Positive
      <4>4. 2 * (c - p) <= MaxLate + 1
        BY <3>2, <4>1, <4>2, <4>3, BoundsAssumption
      <4> QED BY <3>1, <3>2, <3>3, <3>5, <4>1, <4>4
    <3> QED BY <3>4, <3>5
  <2> QED BY <2>1 DEF RestartTypeOK, Timed, Deferral, Message
<1> QED BY <1>1, RestartInv, PTL

\* A restart that waited for the gateway to be idle begins over no message that is
\* handled and over no reply but late ones: a running message is registered, and a
\* registered dispatcher holds its reservation, so it is busy.
THEOREM IdleIsIdle == RestartSpec => IdleMeansIdle
<1>1. ASSUME Handled, [RestartNext]_restartVars, closing = "no", closing' = "draining", why' = "idle",
             NEW m \in Msgs
      PROVE  handling[m].phase # "run" /\ (handling[m].chain = 0 \/ handling[m].after)
  <2>1. ~Busy
    <3>1. closing' # closing
      BY <1>1
    <3>2. \/ EmitIfIdle
          \/ \E i \in Ids : Poll(i)
          \/ ExternalSigusr1 \/ StopSignal
      BY <1>1, <3>1 DEF restartVars, RestartNext, Handling, DispatchInboundMessage, TaskBegins, TaskEnds,
         SendReply, SendLate, DeliverySettles, MarkComplete, ClearReservation, HandlingEnds,
         ScheduleGatewaySigusr1Restart, TimerFires, RequestGatewayRestart, Defer, Tick, Started, StartFails,
         Drained, Closed, Respawned, Exits
    <3>3. ~(ExternalSigusr1 \/ StopSignal)
      BY <1>1 DEF ExternalSigusr1, StopSignal, Request
    <3>4. \A i \in Ids : Poll(i) => ~Busy
      BY <1>1 DEF Poll, Emit, Request
    <3> QED BY <3>2, <3>3, <3>4 DEF EmitIfIdle
  <2>2. PICK d \in Message : d = handling[m] /\ Fits(d)
    BY <1>1 DEF Handled, Dispatchers
  <2>3. PICK c \in Nat, p \in Int : c = d.chain /\ p = d.pending
    BY DEF Message
  <2>4. ~(d.registered /\ p > 0)
    BY <2>1, <2>2, <2>3 DEF Busy
  <2>5. d.registered => p = c + 1
    BY <2>2, <2>3 DEF Fits
  <2>6. ~d.registered
    BY <2>3, <2>4, <2>5
  <2>7. c = 0 \/ c > 0
    BY <2>3
  <2> QED BY <2>2, <2>3, <2>6, <2>7 DEF Fits
<1>2. Handled /\ [RestartNext]_restartVars =>
        [closing = "no" /\ closing' = "draining" /\ why' = "idle" =>
           \A m \in Msgs : /\ handling[m].phase # "run"
                           /\ handling[m].chain = 0 \/ handling[m].after]_restartVars
  BY <1>1
<1> QED BY <1>2, RestartInv, PTL DEF RestartSpec, IdleMeansIdle
=============================================================================
