--------------------------------- MODULE Cron ---------------------------------
(***************************************************************************)
(* The cron service, src/src/cron/service/.                                *)
(*                                                                         *)
(* A tick of the timer finds the jobs that are due, marks and saves them,  *)
(* runs them one after the other with the store unlocked, and applies the  *)
(* results to the store as it is then.  Requests edit the store meanwhile; *)
(* a run on request, and the runs missed while the gateway was down, hold  *)
(* the lock while they execute.  The store is a document in the vault:     *)
(* each service has a copy, and a save that fails leaves the copy dirty.   *)
(* A configuration reload replaces the service while a tick of the old one *)
(* goes on; a crash replaces it and loses everything but the document.     *)
(*                                                                         *)
(* What a function does while it holds the lock is one action, up to the   *)
(* execution of a job.  Time is a small number: a recurring job is due at  *)
(* every instant, a one-shot job from its own on.                          *)
(***************************************************************************)
EXTENDS Integers, FiniteSets

CONSTANTS
  Jobs,
  NoJob,           \* stands for no job and no record
  OneShots,        \* jobs with schedule.kind = "at", due at OneShotTime
  DeleteAfterRun,  \* those that are removed when they are done
  Stored,          \* jobs in the store at the beginning; the others may be added
  RetryTime,       \* the delay after a retryable error
  BackoffTime,     \* the delay after any other error
  STUCK_RUN_TIME,  \* the age at which a running marker is cleared
  Ends,            \* how executions end, if they do not time out
  MaxTime,
  MaxEvents        \* of edits, reloads, crashes and failures of the vault together

ASSUME JobsAssumption ==
  OneShots \subseteq Jobs /\ DeleteAfterRun \subseteq OneShots /\ Stored \subseteq Jobs /\ NoJob \notin Jobs
ASSUME TimesAssumption ==
  /\ \A n \in {RetryTime, BackoffTime} : n \in Nat \ {0}
  /\ STUCK_RUN_TIME \in Nat /\ MaxTime \in Nat /\ MaxEvents \in Nat
ASSUME EndsAssumption == Ends \subseteq {"ok", "retry", "error"}

VARIABLES
  now,
  disk,       \* the document in the vault: a record or NoJob for each job
  mem,        \* state.store of each service, NoJob before it is loaded
  dirty,      \* storeDirty of each service
  armed,      \* whether the timer of each service is set
  tick,       \* the tick of each service: running, the jobs due, the job executing, results
  lock,       \* who holds the lock across an execution, what for, and the job executing
  current,    \* the service that requests reach
  started,    \* services whose start has returned, or will not come any more
  edits, faults, reloads, crashes,   \* counters for the bounds
  claims      \* history: for each job and instant, how often a tick took the job for it

cronVars == <<now, disk, mem, dirty, armed, tick, lock, current, started, edits, faults, reloads, crashes,
              claims>>
counters == <<edits, reloads, crashes>>

Services == 1..(1 + MaxEvents)
Times    == 0..MaxTime
NoTime   == -1
Instants == -1..(MaxTime + RetryTime + BackoffTime + 1)   \* what a record may hold
Outcomes == {"ok", "retry", "error"}
OneShotTime == 1

\* A disabled job has no next run.
Records ==
  {r \in [enabled : BOOLEAN, next : Instants, runningAt : Times \cup {NoTime},
          last : Outcomes \cup {"none"}] : ~r.enabled => r.next = NoTime}

ASSUME NoRecordAssumption == NoJob \notin Records

NewTick == [running |-> FALSE, due |-> {}, at |-> NoJob, results |-> {}]
Free    == [by |-> 0, for |-> "nothing", due |-> {}, at |-> NoJob]

-----------------------------------------------------------------------------
(* The pure part: computing the next run and applying a result.              *)

\* computeJobNextRunAtMs
ComputeNext(j, r) ==
  IF ~r.enabled THEN NoTime
  ELSE IF j \notin OneShots THEN now + 1
  ELSE IF r.last = "ok" THEN NoTime ELSE OneShotTime

\* recomputeJobNextRunAtMs where it is due, after normalizeJobTickState.
Normalized(j, r, mayAdvance) ==
  IF r = NoJob THEN NoJob
  ELSE IF ~r.enabled THEN [r EXCEPT !.next = NoTime, !.runningAt = NoTime]
  ELSE [r EXCEPT
          !.runningAt = IF @ # NoTime /\ now - @ > STUCK_RUN_TIME THEN NoTime ELSE @,
          !.next = IF @ = NoTime \/ (mayAdvance /\ @ <= now) THEN ComputeNext(j, r) ELSE @]

RecomputeNextRuns(st) == [j \in Jobs |-> Normalized(j, st[j], TRUE)]

RecomputeForMaintenance(st) == [j \in Jobs |-> Normalized(j, st[j], FALSE)]

\* isRunnableJob
Runnable(st, j) ==
  st[j] # NoJob /\ st[j].enabled /\ st[j].runningAt = NoTime /\ st[j].next \in Times /\ st[j].next <= now

\* Mutant: a one-shot job that has failed is disabled and keeps its next run.
ApplyJobResult_KeepsNext(j, r, outcome) ==
  IF r = NoJob THEN NoJob
  ELSE [r EXCEPT !.runningAt = NoTime, !.last = outcome, !.enabled = j \notin OneShots]

\* applyJobResult; the job is removed if the result is NoJob.  The last outcome is
\* kept for one-shot jobs: nothing reads that of another.
ApplyJobResult(j, r, outcome) ==
  LET done == [r EXCEPT !.runningAt = NoTime, !.last = IF j \in OneShots THEN outcome ELSE @]
  IN  IF r = NoJob \/ (j \in DeleteAfterRun /\ outcome = "ok") THEN NoJob
      ELSE IF outcome = "retry" /\ (j \in OneShots \/ r.enabled)
           THEN [done EXCEPT !.enabled = TRUE, !.next = now + (IF j \in OneShots THEN RetryTime ELSE 1)]
      ELSE IF j \in OneShots THEN [done EXCEPT !.enabled = FALSE, !.next = NoTime]
      ELSE [done EXCEPT !.next = IF ~r.enabled THEN NoTime
                                 ELSE IF outcome = "error" THEN now + BackoffTime ELSE now + 1]

-----------------------------------------------------------------------------
(* Loading, saving and arming.                                               *)

\* ensureLoaded with forceReload: what may be in memory and in the vault then.  A
\* document with a one-shot job is normalized and saved again, which may fail.
Reloaded(s) ==
  IF dirty[s]
  THEN {[st |-> mem[s], disk |-> mem[s], dirty |-> FALSE, cost |-> 0],
        [st |-> mem[s], disk |-> disk, dirty |-> TRUE, cost |-> 1]}
  ELSE {[st |-> disk, disk |-> disk, dirty |-> FALSE, cost |-> 0],
        [st |-> mem[s], disk |-> disk, dirty |-> FALSE, cost |-> 1]}
       \cup {l \in {[st |-> disk, disk |-> disk, dirty |-> TRUE, cost |-> 1]} :
               \E j \in OneShots : disk[j] # NoJob}

InMemory(s) == [st |-> mem[s], disk |-> disk, dirty |-> dirty[s], cost |-> 0]

MayHappen == edits + reloads + crashes + faults < MaxEvents

\* Service s goes on from l, with st in memory, without a save.
Keep(s, l, st) ==
  /\ l.cost > 0 => MayHappen
  /\ faults' = faults + l.cost
  /\ mem' = [mem EXCEPT ![s] = st] /\ disk' = l.disk /\ dirty' = [dirty EXCEPT ![s] = l.dirty]

\* persist; a save that fails for a while leaves the store dirty.
Persist(s, l, st) ==
  \/ Keep(s, [l EXCEPT !.disk = st, !.dirty = FALSE], st)
  \/ Keep(s, [l EXCEPT !.dirty = TRUE, !.cost = @ + 1], st)

PersistIfChanged(s, l, st) == IF st = l.st THEN Keep(s, l, st) ELSE Persist(s, l, st)

\* Mutant: no timer is set for a job that is already due.
ArmTimer_Future(s, st) ==
  armed' = [armed EXCEPT ![s] = \E j \in Jobs : st[j] # NoJob /\ st[j].enabled /\ st[j].next > now]

\* armTimer
ArmTimer(s, st) ==
  armed' = [armed EXCEPT ![s] = \E j \in Jobs : st[j] # NoJob /\ st[j].enabled /\ st[j].next # NoTime]

-----------------------------------------------------------------------------
(* The tick, onTimer.  A timer that fires during a tick is set again.        *)

LockIsFree == lock = Free

TickFindsNothing(s) ==
  /\ armed[s] /\ ~tick[s].running /\ LockIsFree
  /\ \E l \in Reloaded(s) :
       LET st == RecomputeForMaintenance(l.st)
       IN  /\ \A j \in Jobs : ~Runnable(l.st, j)
           /\ PersistIfChanged(s, l, st)
           /\ ArmTimer(s, st)
  /\ UNCHANGED <<now, tick, lock, current, started, counters, claims>>

\* Mutant: the marks are not saved before the jobs are executed.
SaveMarks_Later(s, l, st) == Keep(s, l, st)

SaveMarks(s, l, st) == Persist(s, l, st)

TickFinds(s) ==
  /\ armed[s] /\ ~tick[s].running /\ LockIsFree
  /\ \E l \in Reloaded(s) :
       LET due == {j \in Jobs : Runnable(l.st, j)}
           st  == [j \in Jobs |-> IF j \in due THEN [l.st[j] EXCEPT !.runningAt = now] ELSE l.st[j]]
       IN  /\ due # {}
           /\ SaveMarks(s, l, st)
           /\ tick' = [tick EXCEPT ![s] = [NewTick EXCEPT !.running = TRUE, !.due = due]]
           /\ claims' = [j \in Jobs |-> IF j \in due THEN [claims[j] EXCEPT ![l.st[j].next] = @ + 1]
                                        ELSE claims[j]]
  /\ armed' = [armed EXCEPT ![s] = FALSE]
  /\ UNCHANGED <<now, lock, current, started, counters>>

\* The next of the jobs found due is executed, whatever has become of it.
TickExecutes(s, j) ==
  /\ tick[s].at = NoJob /\ j \in tick[s].due
  /\ tick' = [tick EXCEPT ![s].at = j, ![s].due = @ \ {j}]
  /\ mem' = IF mem[s][j] = NoJob THEN mem ELSE [mem EXCEPT ![s][j].runningAt = now]
  /\ UNCHANGED <<now, disk, dirty, armed, lock, current, started, counters, faults, claims>>

TickExecuted(s, outcome) ==
  /\ tick[s].at # NoJob
  /\ tick' = [tick EXCEPT ![s].at = NoJob, ![s].results = @ \cup {<<tick[s].at, outcome>>}]
  /\ UNCHANGED <<now, disk, mem, dirty, armed, lock, current, started, counters, faults, claims>>

\* The timeout is taken for an error.  Nothing stops the execution itself, of which
\* the service hears no more.
TickTimesOut(s) ==
  /\ tick[s].at # NoJob
  /\ tick' = [tick EXCEPT ![s].at = NoJob, ![s].results = @ \cup {<<tick[s].at, "error">>}]
  /\ UNCHANGED <<now, disk, mem, dirty, armed, lock, current, started, counters, faults, claims>>

WithResults(s, st) ==
  [j \in Jobs |-> IF \E o \in Outcomes : <<j, o>> \in tick[s].results
                  THEN ApplyJobResult(j, st[j], CHOOSE o \in Outcomes : <<j, o>> \in tick[s].results)
                  ELSE st[j]]

\* Mutant: when its jobs are done, a tick recomputes like an edit.
AfterTick_Full(s, st) == RecomputeNextRuns(WithResults(s, st))

AfterTick(s, st) == RecomputeForMaintenance(WithResults(s, st))

TickApplies(s) ==
  /\ tick[s].running /\ tick[s].due = {} /\ tick[s].at = NoJob /\ LockIsFree
  /\ \E l \in Reloaded(s) : Persist(s, l, AfterTick(s, l.st)) /\ ArmTimer(s, AfterTick(s, l.st))
  /\ tick' = [tick EXCEPT ![s] = NewTick]
  /\ UNCHANGED <<now, lock, current, started, counters, claims>>

-----------------------------------------------------------------------------
(* Requests, served by the present service once it has started.              *)

Request == current \in started /\ LockIsFree

\* status and list: maintenance of the copy in memory, without arming the timer.
ReadJobs ==
  /\ Request
  /\ PersistIfChanged(current, InMemory(current), RecomputeForMaintenance(mem[current]))
  /\ UNCHANGED <<now, armed, tick, lock, current, started, counters, claims>>

\* An edit leaves st in memory, saves it and arms the timer.
Edit(st) ==
  /\ MayHappen /\ edits' = edits + 1
  /\ Persist(current, InMemory(current), st)
  /\ ArmTimer(current, st)
  /\ UNCHANGED <<now, tick, lock, current, started, reloads, crashes, claims>>

NewJob(j) ==
  LET r == [enabled |-> TRUE, next |-> NoTime, runningAt |-> NoTime, last |-> "none"]
  IN  [r EXCEPT !.next = ComputeNext(j, r)]

AddJob(j) ==
  /\ Request /\ j \notin Stored /\ mem[current][j] = NoJob
  /\ \A n \in Times : claims[j][n] = 0
  /\ Edit(RecomputeNextRuns([mem[current] EXCEPT ![j] = NewJob(j)]))

\* update, with a patch that enables or disables the job, that changes its
\* schedule, or that does neither.
UpdateJob(j, patch) ==
  /\ Request /\ mem[current][j] # NoJob
  /\ LET old == mem[current][j]
         r   == [old EXCEPT !.enabled = IF patch \in {"enable", "disable"} THEN patch = "enable" ELSE @]
         new == IF patch = "other" THEN [r EXCEPT !.next = IF @ = NoTime THEN ComputeNext(j, r) ELSE @]
                ELSE IF r.enabled THEN [r EXCEPT !.next = ComputeNext(j, r)]
                ELSE [r EXCEPT !.next = NoTime, !.runningAt = NoTime]
     IN  Edit([mem[current] EXCEPT ![j] = new])

\* remove; it saves also if the job is not there.
RemoveJob(j) ==
  /\ Request
  /\ Edit([mem[current] EXCEPT ![j] = NoJob])

\* run holds the lock until the job has been executed; its marker is not saved.
RunJob(j, forced) ==
  /\ Request /\ MayHappen /\ edits' = edits + 1
  /\ mem[current][j] # NoJob /\ mem[current][j].runningAt = NoTime
  /\ forced \/ Runnable(mem[current], j)
  /\ lock' = [Free EXCEPT !.by = current, !.for = "run", !.at = j]
  /\ mem' = [mem EXCEPT ![current][j].runningAt = now]
  /\ UNCHANGED <<now, disk, dirty, armed, tick, current, started, reloads, crashes, faults, claims>>

RunEnds(outcome) ==
  /\ lock.for = "run"
  /\ LET s  == lock.by
         st == RecomputeNextRuns([mem[s] EXCEPT ![lock.at] = ApplyJobResult(lock.at, @, outcome)])
     IN  Persist(s, InMemory(s), st) /\ ArmTimer(s, st)
  /\ lock' = Free
  /\ UNCHANGED <<now, tick, current, started, counters, claims>>

-----------------------------------------------------------------------------
(* Start, reload and crash.                                                  *)

\* start, in the order of the services, also if the service has been stopped since:
\* the markers found are those of interrupted executions.  If the vault cannot be
\* read yet, the start is tried again, which changes nothing here.
Start(s) ==
  /\ s <= current /\ s \notin started /\ 1..(s - 1) \subseteq started /\ LockIsFree
  /\ LET cleared == [j \in Jobs |-> IF disk[j] = NoJob THEN NoJob ELSE [disk[j] EXCEPT !.runningAt = NoTime]]
         missed  == {j \in Jobs : /\ Runnable(cleared, j)
                                  /\ disk[j].runningAt = NoTime
                                  /\ j \in OneShots => disk[j].last = "none"}
     IN  /\ mem' = [mem EXCEPT ![s] = cleared]
         /\ lock' = [Free EXCEPT !.by = s, !.for = "start", !.due = missed]
  /\ UNCHANGED <<now, disk, dirty, armed, tick, current, started, counters, faults, claims>>

\* runMissedJobs, with the lock held and nothing saved in between.
StartExecutes(j) ==
  /\ lock.for = "start" /\ lock.at = NoJob /\ j \in lock.due
  /\ lock' = [lock EXCEPT !.at = j, !.due = @ \ {j}]
  /\ mem' = [mem EXCEPT ![lock.by][j].runningAt = now]
  /\ UNCHANGED <<now, disk, dirty, armed, tick, current, started, counters, faults, claims>>

StartExecuted(outcome) ==
  /\ lock.for = "start" /\ lock.at # NoJob
  /\ mem' = [mem EXCEPT ![lock.by][lock.at] = ApplyJobResult(lock.at, @, outcome)]
  /\ lock' = [lock EXCEPT !.at = NoJob]
  /\ UNCHANGED <<now, disk, dirty, armed, tick, current, started, counters, faults, claims>>

StartEnds ==
  /\ lock.for = "start" /\ lock.at = NoJob /\ lock.due = {}
  /\ LET s  == lock.by
         st == RecomputeNextRuns(mem[s])
     IN  Persist(s, InMemory(s), st) /\ ArmTimer(s, st) /\ started' = started \cup {s}
  /\ lock' = Free
  /\ UNCHANGED <<now, tick, current, counters, claims>>

\* A configuration reload stops the timer of the service, not its tick, nor a start
\* that waits for the lock; one that the vault has refused is not tried again.  It
\* makes another service, whose start waits for the lock.
Reload ==
  /\ MayHappen /\ reloads' = reloads + 1
  /\ armed' = [armed EXCEPT ![current] = FALSE]
  /\ current' = current + 1
  /\ \/ UNCHANGED started
     \/ lock.by # current /\ started' = started \cup {current}
  /\ UNCHANGED <<now, disk, mem, dirty, tick, lock, edits, crashes, faults, claims>>

Crash ==
  /\ MayHappen /\ crashes' = crashes + 1
  /\ current' = current + 1
  /\ mem' = [s \in Services |-> [j \in Jobs |-> NoJob]]
  /\ dirty' = [s \in Services |-> FALSE] /\ armed' = [s \in Services |-> FALSE]
  /\ tick' = [s \in Services |-> NewTick] /\ lock' = Free /\ started' = started \cup 1..current
  /\ UNCHANGED <<now, disk, edits, reloads, faults, claims>>

ClockMoves ==
  /\ now < MaxTime /\ now' = now + 1
  /\ UNCHANGED <<disk, mem, dirty, armed, tick, lock, current, started, counters, faults, claims>>

-----------------------------------------------------------------------------
\* Stored recurring jobs may have become due while the gateway was down.
CronInit ==
  /\ now = 0
  /\ \E n \in {0, 1} :
       disk = [j \in Jobs |-> IF j \notin Stored THEN NoJob
                              ELSE [enabled |-> TRUE, next |-> IF j \in OneShots THEN OneShotTime ELSE n,
                                    runningAt |-> NoTime, last |-> "none"]]
  /\ mem = [s \in Services |-> [j \in Jobs |-> NoJob]]
  /\ dirty = [s \in Services |-> FALSE] /\ armed = [s \in Services |-> FALSE]
  /\ tick = [s \in Services |-> NewTick] /\ lock = Free
  /\ current = 1 /\ started = {}
  /\ edits = 0 /\ faults = 0 /\ reloads = 0 /\ crashes = 0
  /\ claims = [j \in Jobs |-> [n \in Times |-> 0]]

Patches == {"enable", "disable", "schedule", "other"}

CronNext ==
  \/ \E s \in Services :
       \/ TickFindsNothing(s) \/ TickFinds(s) \/ TickTimesOut(s) \/ TickApplies(s) \/ Start(s)
       \/ \E j \in Jobs : TickExecutes(s, j)
       \/ \E o \in Ends : TickExecuted(s, o)
  \/ \E j \in Jobs :
       \/ AddJob(j) \/ RemoveJob(j) \/ StartExecutes(j)
       \/ \E patch \in Patches : UpdateJob(j, patch)
       \/ \E forced \in BOOLEAN : RunJob(j, forced)
  \/ \E o \in Ends : RunEnds(o) \/ StartExecuted(o)
  \/ ReadJobs \/ StartEnds \/ Reload \/ Crash \/ ClockMoves

CronSpec == CronInit /\ [][CronNext]_cronVars

\* Timers fire, executions end or time out, and the lock is given in turn.
CronFairness ==
  /\ \A s \in Services :
       /\ WF_cronVars(TickFinds(s) \/ TickFindsNothing(s))
       /\ WF_cronVars(\E j \in Jobs : TickExecutes(s, j))
       /\ WF_cronVars(TickTimesOut(s) \/ \E o \in Ends : TickExecuted(s, o))
       /\ WF_cronVars(TickApplies(s)) /\ WF_cronVars(Start(s))
  /\ WF_cronVars(\E j \in Jobs : StartExecutes(j))
  /\ WF_cronVars(\E o \in Ends : RunEnds(o) \/ StartExecuted(o))
  /\ WF_cronVars(StartEnds)

FairCronSpec == CronSpec /\ CronFairness

-----------------------------------------------------------------------------
Stores == [Jobs -> Records \cup {NoJob}]

\* The types: in particular a disabled job has no next run, in the document and in
\* every copy of it, although results are applied to jobs disabled meanwhile.
CronTypeOK ==
  /\ now \in Times /\ disk \in Stores /\ mem \in [Services -> Stores]
  /\ dirty \in [Services -> BOOLEAN] /\ armed \in [Services -> BOOLEAN]
  /\ \A s \in Services : /\ tick[s].running \in BOOLEAN /\ tick[s].due \subseteq Jobs
                         /\ tick[s].at \in Jobs \cup {NoJob}
                         /\ tick[s].results \subseteq Jobs \X Outcomes
  /\ lock.by \in Services \cup {0} /\ lock.for \in {"nothing", "run", "start"}
  /\ lock.due \subseteq Jobs /\ lock.at \in Jobs \cup {NoJob}
  /\ current \in Services /\ started \subseteq Services
  /\ claims \in [Jobs -> [Times -> Nat]]
  /\ edits + reloads + crashes + faults \in 0..(MaxEvents + 2)

\* No copy of the store is saved that another service has left behind.  After a reload
\* two services may have timers; then an edit saves the copy of the present one, and so
\* does a load that fails; and a marker is cleared, by a read also in that copy, while
\* the execution goes on, if that has taken too long.  Ticks find no job before time 1.
OneStore ==
  reloads = 0 \/ (edits = 0 /\ faults = 0 /\ now <= STUCK_RUN_TIME + 1)

\* A recurring job is taken by a tick at most once for each time it is due, also across
\* a crash, or a reload with a tick of the old service going on.
DueOnce ==
  OneStore => \A j \in Jobs \ OneShots, n \in Times : claims[j][n] <= 1

\* Job j was due in the store and has been moved on to a later time (saves of stale
\* copies apart) ...
Skipped(j) ==
  /\ OneStore' /\ (\A s \in Services : ~dirty[s])
  /\ Runnable(disk, j) /\ disk'[j] # NoJob /\ disk'[j].enabled /\ disk'[j].next > now

\* ... by its execution, on request, in a start or in a tick, or by an edit of it.
Accounted(j) ==
  \/ lock.at = j
  \/ lock.for = "start" /\ mem[lock.by][j] # disk[j]
  \/ \E s \in Services, o \in Outcomes : <<j, o>> \in tick[s].results
  \/ \E patch \in Patches : UpdateJob(j, patch)

\* A tick, a read, an edit or a removal of another job never moves a due job on
\* without executing it (jobs.ts, recomputeNextRunsForMaintenance).  Adding a job, a
\* run on request and a start do, when they end: they recompute all jobs.
TicksSkipNothing ==
  [][\A j \in Jobs :
       Skipped(j) => Accounted(j) \/ StartEnds \/ (\E k \in Jobs : AddJob(k))
                     \/ (\E o \in Ends : RunEnds(o))]_cronVars

\* Nothing does (timer.ts: "The full recomputeNextRuns would silently skip those
\* jobs (advancing nextRunAtMs without execution)").
NothingSkipped == [][\A j \in Jobs : Skipped(j) => Accounted(j)]_cronVars

\* A job that is due is executed, edited or removed in the end.
DueIsServed ==
  \A j \in Jobs : current \in started /\ Runnable(mem[current], j)
                    ~> current \notin started \/ ~Runnable(mem[current], j)
=============================================================================
