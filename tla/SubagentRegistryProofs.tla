------------------------ MODULE SubagentRegistryProofs ------------------------
(***************************************************************************)
(* Proofs about the registry of subagent runs, for any runs, requesters,   *)
(* successors and crashes.                                                 *)
(*                                                                         *)
(* The inductive invariant is stated for one run at a time.  It is about   *)
(* the record on disk rather than the one in memory: a sweep removes the   *)
(* latter while a flow goes on, and a crash brings the former back.  A     *)
(* second one, for a gateway that did not crash, relates the runs: those   *)
(* of one session, and those that wait to those that are waited for.       *)
(***************************************************************************)
EXTENDS SubagentRegistry, TLAPS

Flows == {"none", "busy", "clear", "told", "untold"}

\* What a record says, in view of the flow f of its run, its attempts a and the
\* announcements t delivered: a run that is in a flow or was announced is claimed; a
\* record that is not settled has tries left; every attempt but the present one is
\* counted; a run that is not to be announced never was in a flow.
Fits(rec, f, a, t) ==
  rec # NoRecord =>
    /\ f # "none" \/ t > 0 => rec.cleanupHandled
    /\ rec.cleanupCompleted \/ rec.retryCount < MAX_ANNOUNCE_RETRY_COUNT
    /\ f # "none" => rec.retryCount < MAX_ANNOUNCE_RETRY_COUNT
    /\ a <= rec.retryCount + (IF rec.cleanupHandled THEN 1 ELSE 0)
    /\ rec.suppress # "none" \/ ~rec.ended => a = 0
    /\ rec.suppress = "killed" => rec.cleanupCompleted

\* A flow that has not delivered finds nothing delivered before it.
Counts(f, a, t) ==
  /\ a <= MAX_ANNOUNCE_RETRY_COUNT /\ t <= 1
  /\ f \in {"busy", "clear", "untold"} => t = 0

\* A claimed record that is not settled has a flow, unless there was one of n crashes.
Claimed(rec, f, n) ==
  rec # NoRecord /\ rec.cleanupHandled /\ ~rec.cleanupCompleted => f # "none" \/ n > 0

Blank(r) ==
  /\ subagentRuns[r] = NoRecord /\ disk[r] = NoRecord
  /\ flow[r] = "none" /\ attempts[r] = 0 /\ told[r] = 0

Sound(r) ==
  /\ subagentRuns[r] # NoRecord => disk[r] = subagentRuns[r]
  /\ Fits(disk[r], flow[r], attempts[r], told[r])
  /\ Counts(flow[r], attempts[r], told[r])
  /\ Claimed(subagentRuns[r], flow[r], restarts)
  /\ child[r] = "unborn" => Blank(r)
  /\ r \in steering => Successor[r] # r /\ child[Successor[r]] = "unborn"

IInv == TypeOK /\ \A r \in Runs : Sound(r)

-----------------------------------------------------------------------------
(* What Proceed does to one run.                                             *)

Does(recs, res, R, r, what) == r \in (R \cap Known(recs)) \ res /\ Resume(r, recs[r]) = what
Begins(recs, res, R, B) ==
  {r \in Runs : Does(recs, res, R, r, "begin")} \cup {r \in B \cap Known(recs) : MayBegin(recs[r])}

Given(recs, fl, tm, ws, res, R, B, to, n) ==
  /\ recs \in [Runs -> Records \cup {NoRecord}] /\ fl \in [Runs -> Flows]
  /\ tm \in [Runs -> [Attempts -> Nat]] /\ ws \subseteq Runs /\ res \subseteq Runs
  /\ to \in [Runs -> Nat]
  /\ \A r \in Runs : /\ Fits(recs[r], fl[r], attempts[r], to[r])
                     /\ Counts(fl[r], attempts[r], to[r])
                     /\ Claimed(recs[r], fl[r], n)
  /\ \A r \in B \cap Known(recs) : recs[r].ended /\ recs[r].suppress # "steer-restart"

\* A run whose flow begins has a record that ended, and is neither claimed, settled,
\* nor silenced.
LEMMA BeginsIf ==
  ASSUME NEW recs, NEW res, NEW R, NEW B, NEW r \in Begins(recs, res, R, B),
         \A q \in B \cap Known(recs) : recs[q].ended /\ recs[q].suppress # "steer-restart"
  PROVE  /\ r \in Runs /\ recs[r] # NoRecord /\ recs[r].ended
         /\ ~recs[r].cleanupHandled /\ ~recs[r].cleanupCompleted
         /\ recs[r].suppress # "steer-restart"
<1>1. CASE Does(recs, res, R, r, "begin")
  BY <1>1 DEF Begins, Does, Resume, MayBegin, Known
<1>2. CASE r \in B \cap Known(recs) /\ MayBegin(recs[r])
  BY <1>2 DEF MayBegin, Known
<1> QED BY <1>1, <1>2 DEF Begins

\* The values of one run after Proceed.
LEMMA ProceedValues ==
  ASSUME NEW recs, NEW res, NEW R, NEW B, NEW fl, NEW tm, NEW ws,
         Proceed(recs, res, R, B, fl, tm, ws), NEW r \in Runs
  PROVE  /\ subagentRuns'[r] =
              IF r \in Begins(recs, res, R, B) THEN [recs[r] EXCEPT !.cleanupHandled = TRUE]
              ELSE IF Does(recs, res, R, r, "giveUp") THEN [recs[r] EXCEPT !.cleanupCompleted = TRUE]
              ELSE recs[r]
         /\ flow'[r] = IF r \in Begins(recs, res, R, B) THEN "busy" ELSE fl[r]
         /\ attempts'[r] = IF r \in Begins(recs, res, R, B) THEN attempts[r] + 1 ELSE attempts[r]
BY DEF Proceed, Begins, Does

\* Proceed keeps the types.
LEMMA ProceedTypes ==
  ASSUME NEW recs, NEW res, NEW R, NEW B, NEW fl, NEW tm, NEW ws, NEW to, NEW n,
         attempts \in [Runs -> Nat],
         Given(recs, fl, tm, ws, res, R, B, to, n), Proceed(recs, res, R, B, fl, tm, ws)
  PROVE  /\ subagentRuns' \in [Runs -> Records \cup {NoRecord}] /\ flow' \in [Runs -> Flows]
         /\ attempts' \in [Runs -> Nat] /\ timers' \in [Runs -> [Attempts -> Nat]]
         /\ waits' \subseteq Runs /\ resumedRuns' \subseteq Runs
<1>1. /\ recs \in [Runs -> Records \cup {NoRecord}] /\ fl \in [Runs -> Flows]
      /\ tm \in [Runs -> [Attempts -> Nat]] /\ ws \subseteq Runs /\ res \subseteq Runs
  BY DEF Given
<1>2. ASSUME NEW r \in Known(recs)
      PROVE  /\ [recs[r] EXCEPT !.cleanupHandled = TRUE] \in Records
             /\ [recs[r] EXCEPT !.cleanupCompleted = TRUE] \in Records
  BY <1>1 DEF Known, Records
<1>3. subagentRuns' \in [Runs -> Records \cup {NoRecord}]
  <2>1. DOMAIN subagentRuns' = Runs /\ subagentRuns' = [r \in Runs |-> subagentRuns'[r]]
    BY DEF Proceed
  <2>2. ASSUME NEW r \in Runs PROVE subagentRuns'[r] \in Records \cup {NoRecord}
    <3>1. r \in Begins(recs, res, R, B) \/ Does(recs, res, R, r, "giveUp") => r \in Known(recs)
      BY DEF Begins, Does, Known
    <3>2. subagentRuns'[r] =
            IF r \in Begins(recs, res, R, B) THEN [recs[r] EXCEPT !.cleanupHandled = TRUE]
            ELSE IF Does(recs, res, R, r, "giveUp") THEN [recs[r] EXCEPT !.cleanupCompleted = TRUE]
            ELSE recs[r]
      BY ProceedValues
    <3> QED BY <1>1, <1>2, <3>1, <3>2
  <2> QED BY <2>1, <2>2
<1>4. flow' \in [Runs -> Flows] /\ attempts' \in [Runs -> Nat]
  BY <1>1 DEF Proceed, Flows
<1>5. timers' \in [Runs -> [Attempts -> Nat]]
  <2>1. ASSUME NEW r \in Runs, NEW k PROVE [tm[r] EXCEPT ![k] = @ + 1] \in [Attempts -> Nat]
    <3>1. tm[r] \in [Attempts -> Nat]
      BY <1>1
    <3>2. k \in Attempts => tm[r][k] + 1 \in Nat
      BY <3>1
    <3> QED BY <3>1, <3>2
  <2> QED BY <1>1, <2>1 DEF Proceed
<1> QED BY <1>1, <1>3, <1>4, <1>5 DEF Proceed

\* A run that fits its record fits it after Proceed: a flow begins only for a run that
\* has neither a flow nor an announcement.
LEMMA ProceedFits ==
  ASSUME NEW recs, NEW res, NEW R, NEW B, NEW fl, NEW tm, NEW ws, NEW to, NEW n,
         attempts \in [Runs -> Nat],
         Given(recs, fl, tm, ws, res, R, B, to, n), Proceed(recs, res, R, B, fl, tm, ws),
         NEW r \in Runs
  PROVE  /\ Fits(subagentRuns'[r], flow'[r], attempts'[r], to[r])
         /\ Counts(flow'[r], attempts'[r], to[r])
         /\ Claimed(subagentRuns'[r], flow'[r], n)
         /\ subagentRuns'[r] = NoRecord <=> recs[r] = NoRecord
         /\ recs[r] = NoRecord => flow'[r] = fl[r] /\ attempts'[r] = attempts[r]
         /\ subagentRuns'[r] = recs[r] => flow'[r] = fl[r] /\ attempts'[r] = attempts[r]
<1>1. /\ recs[r] \in Records \cup {NoRecord} /\ fl[r] \in Flows
      /\ attempts[r] \in Nat /\ to[r] \in Nat
      /\ Fits(recs[r], fl[r], attempts[r], to[r]) /\ Counts(fl[r], attempts[r], to[r])
      /\ Claimed(recs[r], fl[r], n)
  BY DEF Given
<1> DEFINE begins == r \in Begins(recs, res, R, B)
           gives  == Does(recs, res, R, r, "giveUp")
<1>2. /\ subagentRuns'[r] = IF begins THEN [recs[r] EXCEPT !.cleanupHandled = TRUE]
                           ELSE IF gives THEN [recs[r] EXCEPT !.cleanupCompleted = TRUE]
                           ELSE recs[r]
      /\ flow'[r] = IF begins THEN "busy" ELSE fl[r]
      /\ attempts'[r] = IF begins THEN attempts[r] + 1 ELSE attempts[r]
  BY ProceedValues
<1>3. begins => /\ recs[r] # NoRecord /\ recs[r].ended
                /\ ~recs[r].cleanupHandled /\ ~recs[r].cleanupCompleted
                /\ recs[r].suppress # "steer-restart"
  BY BeginsIf DEF Given
<1>4. gives => recs[r] # NoRecord
  BY DEF Does, Known
<1> HIDE DEF begins, gives
<1>5. CASE begins
  <2> DEFINE rec == recs[r]
  <2>1. /\ rec # NoRecord /\ rec.ended /\ ~rec.cleanupHandled /\ ~rec.cleanupCompleted
        /\ rec.suppress # "steer-restart" /\ rec \in Records
    BY <1>1, <1>5, <1>3
  <2>2. /\ fl[r] = "none" /\ to[r] = 0 /\ rec.retryCount < MAX_ANNOUNCE_RETRY_COUNT
        /\ attempts[r] <= rec.retryCount /\ rec.suppress = "none"
    BY <1>1, <2>1 DEF Fits, Records
  <2>3. /\ subagentRuns'[r] = [rec EXCEPT !.cleanupHandled = TRUE]
        /\ flow'[r] = "busy" /\ attempts'[r] = attempts[r] + 1
    BY <1>5, <1>2
  <2>4. /\ subagentRuns'[r].cleanupHandled = TRUE
        /\ subagentRuns'[r].cleanupCompleted = rec.cleanupCompleted
        /\ subagentRuns'[r].retryCount = rec.retryCount
        /\ subagentRuns'[r].ended = rec.ended /\ subagentRuns'[r].suppress = rec.suppress
        /\ subagentRuns'[r] \in Records
    BY <2>1, <2>3 DEF Records
  <2>5. NoRecord \notin Records /\ rec.retryCount \in Nat
    BY <2>1, RunsAssumption, BoundsAssumption DEF Records
  <2> HIDE DEF rec
  <2>6. MAX_ANNOUNCE_RETRY_COUNT \in Nat
    BY BoundsAssumption
  <2>7. Fits(subagentRuns'[r], flow'[r], attempts'[r], to[r])
    BY <1>1, <2>1, <2>2, <2>3, <2>4, <2>5, <2>6 DEF Fits
  <2>8. Counts(flow'[r], attempts'[r], to[r])
    BY <1>1, <2>1, <2>2, <2>3, <2>4, <2>5, <2>6 DEF Counts
  <2>9. Claimed(subagentRuns'[r], flow'[r], n)
    BY <2>3 DEF Claimed
  <2>10. subagentRuns'[r] # NoRecord /\ rec # NoRecord /\ subagentRuns'[r] # rec
    BY <2>1, <2>4, <2>5
  <2> QED BY <2>7, <2>8, <2>9, <2>10 DEF rec
<1>6. CASE ~begins /\ gives
  <2> DEFINE rec == recs[r]
  <2>1. rec # NoRecord /\ rec \in Records
    BY <1>1, <1>6, <1>4
  <2>2. /\ subagentRuns'[r] = [rec EXCEPT !.cleanupCompleted = TRUE]
        /\ flow'[r] = fl[r] /\ attempts'[r] = attempts[r]
    BY <1>6, <1>2
  <2>3. /\ subagentRuns'[r].cleanupHandled = rec.cleanupHandled
        /\ subagentRuns'[r].cleanupCompleted = TRUE
        /\ subagentRuns'[r].retryCount = rec.retryCount
        /\ subagentRuns'[r].ended = rec.ended /\ subagentRuns'[r].suppress = rec.suppress
        /\ subagentRuns'[r] \in Records
    BY <2>1, <2>2 DEF Records
  <2>4. NoRecord \notin Records
    BY RunsAssumption
  <2> HIDE DEF rec
  <2>5. Fits(rec, fl[r], attempts[r], to[r])
    BY <1>1 DEF rec
  <2> QED BY <1>1, <2>1, <2>2, <2>3, <2>4, <2>5 DEF Fits, Counts, Claimed, rec
<1>7. CASE ~begins /\ ~gives
  <2>1. subagentRuns'[r] = recs[r] /\ flow'[r] = fl[r] /\ attempts'[r] = attempts[r]
    BY <1>7, <1>2
  <2> QED BY <1>1, <2>1
<1> QED BY <1>5, <1>6, <1>7

-----------------------------------------------------------------------------
(* The invariant, action by action.                                          *)

\* The record in memory fits as the one on disk does.
LEMMA MemoryFits ==
  ASSUME IInv, NEW r \in Runs
  PROVE  /\ Fits(subagentRuns[r], flow[r], attempts[r], told[r])
         /\ Counts(flow[r], attempts[r], told[r])
         /\ Claimed(subagentRuns[r], flow[r], restarts)
         /\ child[r] = "unborn" => Blank(r)
         /\ subagentRuns[r] \in Records \cup {NoRecord}
         /\ attempts[r] \in Nat /\ told[r] \in Nat
BY DEF IInv, Sound, Fits, TypeOK

LEMMA NewRecordType == NewRecord \in Records /\ NewRecord # NoRecord
<1>1. 0 \in 0..MAX_ANNOUNCE_RETRY_COUNT
  BY BoundsAssumption
<1>2. NewRecord \in Records
  BY <1>1 DEF NewRecord, Records
<1> QED BY <1>2, RunsAssumption

\* An action that ends with a save.
LEMMA ViaSave ==
  ASSUME TypeOK', Save,
         \A r \in Runs : /\ Fits(subagentRuns'[r], flow'[r], attempts'[r], told'[r])
                         /\ Counts(flow'[r], attempts'[r], told'[r])
                         /\ Claimed(subagentRuns'[r], flow'[r], restarts')
                         /\ child'[r] = "unborn" => /\ subagentRuns'[r] = NoRecord /\ flow'[r] = "none"
                                                    /\ attempts'[r] = 0 /\ told'[r] = 0
                         /\ r \in steering' => Successor[r] # r /\ child'[Successor[r]] = "unborn"
  PROVE  IInv'
<1>1. disk' = subagentRuns'
  BY DEF Save
<1> QED BY <1>1 DEF IInv, Sound, Blank

\* An action that ends with Proceed and a save.
LEMMA ViaProceed ==
  ASSUME IInv, NEW recs, NEW res, NEW R, NEW B, NEW fl, NEW tm, NEW ws,
         Given(recs, fl, tm, ws, res, R, B, told', restarts'),
         Proceed(recs, res, R, B, fl, tm, ws), Save,
         child' \in [Runs -> {"unborn", "running", "over"}],
         cooling' \subseteq Runs, expired' \subseteq Runs, steering' \subseteq steering,
         restarts' \in 0..MaxRestarts, told' \in [Runs -> Nat], strays' \in [Runs -> Nat],
         \A r \in Runs : child'[r] = "unborn" => /\ child[r] = "unborn" /\ recs[r] = NoRecord
                                                 /\ fl[r] = "none" /\ told'[r] = 0,
         \A r \in Runs : child[r] = "unborn" => child'[r] = "unborn"
  PROVE  IInv'
<1>1. attempts \in [Runs -> Nat] /\ steering \subseteq Runs
  BY DEF IInv, TypeOK
<1>2. /\ subagentRuns' \in [Runs -> Records \cup {NoRecord}] /\ flow' \in [Runs -> Flows]
      /\ attempts' \in [Runs -> Nat] /\ timers' \in [Runs -> [Attempts -> Nat]]
      /\ waits' \subseteq Runs /\ resumedRuns' \subseteq Runs
  BY <1>1, ProceedTypes
<1>3. TypeOK'
  BY <1>1, <1>2 DEF TypeOK, Save, Flows
<1>4. ASSUME NEW r \in Runs
      PROVE  /\ Fits(subagentRuns'[r], flow'[r], attempts'[r], told'[r])
             /\ Counts(flow'[r], attempts'[r], told'[r])
             /\ Claimed(subagentRuns'[r], flow'[r], restarts')
             /\ child'[r] = "unborn" => /\ subagentRuns'[r] = NoRecord /\ flow'[r] = "none"
                                        /\ attempts'[r] = 0 /\ told'[r] = 0
             /\ r \in steering' => Successor[r] # r /\ child'[Successor[r]] = "unborn"
  <2>1. /\ Fits(subagentRuns'[r], flow'[r], attempts'[r], told'[r])
        /\ Counts(flow'[r], attempts'[r], told'[r])
        /\ Claimed(subagentRuns'[r], flow'[r], restarts')
        /\ subagentRuns'[r] = NoRecord <=> recs[r] = NoRecord
        /\ recs[r] = NoRecord => flow'[r] = fl[r] /\ attempts'[r] = attempts[r]
    BY <1>1, ProceedFits
  <2>2. child[r] = "unborn" => attempts[r] = 0
    BY DEF IInv, Sound, Blank
  <2>3. r \in steering' => Successor[r] # r /\ child'[Successor[r]] = "unborn"
    BY <1>1, RunsAssumption DEF IInv, Sound
  <2> QED BY <2>1, <2>2, <2>3
<1> QED BY <1>3, <1>4, ViaSave

\* Records that have ended, or are no longer held back, fit as before.
LEMMA EndedGiven ==
  ASSUME IInv, NEW r \in Runs, subagentRuns[r] # NoRecord, NEW ws, ws \subseteq Runs,
         NEW B, B \subseteq {r}, NEW recs, recs = [subagentRuns EXCEPT ![r].ended = TRUE],
         \A q \in B : recs[q].suppress # "steer-restart"
  PROVE  Given(recs, flow, timers, ws, resumedRuns, {}, B, told, restarts)
<1>1. /\ subagentRuns \in [Runs -> Records \cup {NoRecord}] /\ subagentRuns[r] \in Records
      /\ flow \in [Runs -> Flows] /\ timers \in [Runs -> [Attempts -> Nat]]
      /\ resumedRuns \subseteq Runs /\ told \in [Runs -> Nat]
  BY DEF IInv, TypeOK, Flows
<1> DEFINE rec == [subagentRuns[r] EXCEPT !.ended = TRUE]
<1>2. /\ rec \in Records /\ rec.ended = TRUE
      /\ rec.cleanupHandled = subagentRuns[r].cleanupHandled
      /\ rec.cleanupCompleted = subagentRuns[r].cleanupCompleted
      /\ rec.retryCount = subagentRuns[r].retryCount /\ rec.suppress = subagentRuns[r].suppress
  BY <1>1 DEF Records
<1>3. recs = [q \in Runs |-> IF q = r THEN rec ELSE subagentRuns[q]]
  BY <1>1
<1> HIDE DEF rec
<1>4. recs \in [Runs -> Records \cup {NoRecord}]
  BY <1>1, <1>2, <1>3
<1>5. ASSUME NEW q \in Runs
      PROVE  Fits(recs[q], flow[q], attempts[q], told[q]) /\ Claimed(recs[q], flow[q], restarts)
             /\ Counts(flow[q], attempts[q], told[q])
  <2>1. /\ Fits(subagentRuns[q], flow[q], attempts[q], told[q])
        /\ Claimed(subagentRuns[q], flow[q], restarts)
        /\ Counts(flow[q], attempts[q], told[q])
    BY MemoryFits
  <2>2. CASE q = r
    BY <1>2, <1>3, <2>1, <2>2 DEF Fits, Claimed
  <2>3. CASE q # r
    BY <1>3, <2>1, <2>3
  <2> QED BY <2>2, <2>3
<1>6. \A q \in B : recs[q].ended
  BY <1>2, <1>3
<1> QED BY <1>1, <1>4, <1>5, <1>6 DEF Given

\* The end of a run, reported by a lifecycle event or by an answer to a wait.
LEMMA LifecycleEndKeeps ==
  ASSUME IInv, NEW r \in Runs, LifecycleEnd(r) PROVE IInv'
<1>1. /\ child \in [Runs -> {"unborn", "running", "over"}] /\ child[r] = "running"
      /\ child' \in [Runs -> {"unborn", "running", "over"}]
      /\ \A q \in Runs : child'[q] = "unborn" <=> child[q] = "unborn"
  BY DEF LifecycleEnd, IInv, TypeOK
<1>2. CASE subagentRuns[r] = NoRecord
  <2>1. UNCHANGED <<subagentRuns, disk, resumedRuns, timers, waits, flow, expired, attempts,
                    cooling, steering, restarts, told, strays>>
    BY <1>2 DEF LifecycleEnd
  <2>2. TypeOK'
    BY <1>1, <2>1 DEF IInv, TypeOK
  <2>3. ASSUME NEW q \in Runs PROVE Sound(q)'
    <3>1. Sound(q) /\ Successor[q] \in Runs
      BY RunsAssumption DEF IInv
    <3> QED BY <1>1, <2>1, <3>1 DEF Sound, Blank
  <2> QED BY <2>2, <2>3 DEF IInv
<1>3. CASE subagentRuns[r] # NoRecord
  <2> DEFINE recs == [subagentRuns EXCEPT ![r].ended = TRUE]
  <2>1. /\ Proceed(recs, resumedRuns, {}, EndFlows(r, recs), flow, timers, waits)
        /\ expired' = expired \ {r} /\ Save
        /\ UNCHANGED <<cooling, steering, restarts, told, strays>>
    BY <1>3 DEF LifecycleEnd
  <2>2. /\ waits \subseteq Runs /\ cooling \subseteq Runs /\ expired \subseteq Runs
        /\ restarts \in 0..MaxRestarts /\ DOMAIN subagentRuns = Runs
        /\ told \in [Runs -> Nat] /\ strays \in [Runs -> Nat]
    BY DEF IInv, TypeOK
  <2>3. \A q \in Runs : child[q] = "unborn" => recs[q] = NoRecord /\ flow[q] = "none" /\ told[q] = 0
    BY <1>1, <2>2 DEF IInv, Sound, Blank
  <2>4. /\ EndFlows(r, recs) \subseteq {r}
        /\ \A q \in EndFlows(r, recs) : recs[q].suppress # "steer-restart"
    BY DEF EndFlows
  <2> HIDE DEF recs
  <2>5. Given(recs, flow, timers, waits, resumedRuns, {}, EndFlows(r, recs), told, restarts)
    BY <1>3, <2>2, <2>4, EndedGiven DEF recs
  <2> QED BY <1>1, <2>1, <2>2, <2>3, <2>5, ViaProceed
<1> QED BY <1>2, <1>3

LEMMA WaitReturnsKeeps ==
  ASSUME IInv, NEW r \in Runs, WaitReturns(r) PROVE IInv'
<1>1. UNCHANGED <<child, expired, cooling, steering, restarts, told, strays>>
  BY DEF WaitReturns
<1>2. CASE subagentRuns[r] = NoRecord
  <2>1. /\ UNCHANGED <<subagentRuns, disk, resumedRuns, timers, flow, attempts>>
        /\ waits' = waits \ {r}
    BY <1>2 DEF WaitReturns
  <2>2. TypeOK'
    BY <1>1, <2>1 DEF IInv, TypeOK
  <2> QED BY <1>1, <2>1, <2>2 DEF IInv, Sound, Blank
<1>3. CASE subagentRuns[r] # NoRecord
  <2> DEFINE recs == [subagentRuns EXCEPT ![r].ended = TRUE]
             ws == waits \ {r}
  <2>1. Proceed(recs, resumedRuns, {}, EndFlows(r, recs), flow, timers, ws) /\ Save
    BY <1>3 DEF WaitReturns
  <2>2. /\ ws \subseteq Runs /\ cooling \subseteq Runs /\ expired \subseteq Runs
        /\ restarts \in 0..MaxRestarts /\ DOMAIN subagentRuns = Runs
        /\ told \in [Runs -> Nat] /\ strays \in [Runs -> Nat]
        /\ child \in [Runs -> {"unborn", "running", "over"}]
    BY DEF IInv, TypeOK
  <2>3. \A q \in Runs : child[q] = "unborn" => recs[q] = NoRecord /\ flow[q] = "none" /\ told[q] = 0
    BY <1>3, <2>2 DEF IInv, Sound, Blank
  <2>4. /\ EndFlows(r, recs) \subseteq {r}
        /\ \A q \in EndFlows(r, recs) : recs[q].suppress # "steer-restart"
    BY DEF EndFlows
  <2> HIDE DEF recs, ws
  <2>5. Given(recs, flow, timers, ws, resumedRuns, {}, EndFlows(r, recs), told, restarts)
    BY <1>3, <2>2, <2>4, EndedGiven DEF recs
  <2> QED BY <1>1, <2>1, <2>2, <2>3, <2>5, ViaProceed
<1> QED BY <1>2, <1>3

\* A step that touches neither records, flows nor their histories.
LEMMA StutterKeeps ==
  ASSUME IInv, waits' \subseteq Runs, cooling' \subseteq Runs, expired' \subseteq Runs,
         UNCHANGED <<subagentRuns, disk, resumedRuns, timers, child, flow, steering, restarts,
                     attempts, told, strays>>
  PROVE  IInv'
<1>1. TypeOK'
  BY DEF IInv, TypeOK
<1>2. ASSUME NEW r \in Runs PROVE Sound(r)'
  <2>1. Sound(r) /\ Successor[r] \in Runs
    BY RunsAssumption DEF IInv
  <2> QED BY <2>1 DEF Sound, Blank
<1> QED BY <1>1, <1>2 DEF IInv

LEMMA WaitThrowsKeeps ==
  ASSUME IInv, NEW r \in Runs, WaitThrows(r) \/ DelayPasses(r) \/ Expires(r) PROVE IInv'
<1>1. waits \subseteq Runs /\ cooling \subseteq Runs /\ expired \subseteq Runs
  BY DEF IInv, TypeOK
<1> QED BY <1>1, StutterKeeps DEF WaitThrows, DelayPasses, Expires

\* A run is registered under a new id, which is no successor of a run being steered.
LEMMA RegisterKeeps ==
  ASSUME IInv, NEW r \in Runs, RegisterSubagentRun(r) PROVE IInv'
<1>1. /\ child[r] = "unborn" /\ \A q \in Runs : Successor[q] = r => q = r
      /\ subagentRuns' = [subagentRuns EXCEPT ![r] = NewRecord] /\ Save
      /\ waits' = waits \cup {r}
      /\ UNCHANGED <<resumedRuns, timers, flow, cooling, expired, steering, restarts, attempts, told, strays>>
  BY DEF RegisterSubagentRun
<1>2. PICK c \in {"running", "over"} : child' = [child EXCEPT ![r] = c]
  BY DEF RegisterSubagentRun
<1>3. /\ subagentRuns \in [Runs -> Records \cup {NoRecord}]
      /\ child \in [Runs -> {"unborn", "running", "over"}] /\ Blank(r)
  BY <1>1 DEF IInv, TypeOK, Sound
<1>4. TypeOK'
  BY <1>1, <1>2, <1>3, NewRecordType DEF IInv, TypeOK, Save
<1>5. ASSUME NEW q \in Runs
      PROVE  /\ Fits(subagentRuns'[q], flow'[q], attempts'[q], told'[q])
             /\ Counts(flow'[q], attempts'[q], told'[q])
             /\ Claimed(subagentRuns'[q], flow'[q], restarts')
             /\ child'[q] = "unborn" => /\ subagentRuns'[q] = NoRecord /\ flow'[q] = "none"
                                        /\ attempts'[q] = 0 /\ told'[q] = 0
             /\ q \in steering' => Successor[q] # q /\ child'[Successor[q]] = "unborn"
  <2>1. /\ Fits(subagentRuns[q], flow[q], attempts[q], told[q])
        /\ Counts(flow[q], attempts[q], told[q]) /\ Claimed(subagentRuns[q], flow[q], restarts)
        /\ child[q] = "unborn" => Blank(q)
    BY MemoryFits
  <2>2. q \in steering' => Successor[q] # q /\ child'[Successor[q]] = "unborn"
    <3>1. q \in steering => Successor[q] # q /\ child[Successor[q]] = "unborn"
      BY DEF IInv, Sound
    <3>2. q \in steering => Successor[q] # r
      BY <1>1, <3>1
    <3>3. Successor[q] \in Runs
      BY RunsAssumption
    <3> QED BY <1>1, <1>2, <1>3, <3>1, <3>2, <3>3
  <2>3. CASE q = r
    <3>1. MAX_ANNOUNCE_RETRY_COUNT \in Nat \ {0}
      BY BoundsAssumption
    <3> QED BY <1>1, <1>2, <1>3, <2>1, <2>2, <2>3, <3>1
            DEF Fits, Counts, Claimed, NewRecord, Blank
  <2>4. CASE q # r
    BY <1>1, <1>2, <1>3, <2>1, <2>2, <2>4 DEF Blank
  <2> QED BY <2>3, <2>4
<1> QED BY <1>1, <1>4, <1>5, ViaSave

LEMMA FlowIsClearKeeps ==
  ASSUME IInv, NEW r \in Runs, FlowIsClear(r) PROVE IInv'
<1>1. /\ flow[r] = "busy" /\ flow' = [flow EXCEPT ![r] = "clear"]
      /\ UNCHANGED <<subagentRuns, disk, resumedRuns, timers, waits, child, cooling, expired,
                     steering, restarts, attempts, told, strays>>
  BY DEF FlowIsClear
<1>2. TypeOK'
  BY <1>1 DEF IInv, TypeOK
<1>3. ASSUME NEW q \in Runs PROVE Sound(q)'
  <2>1. Sound(q) /\ Successor[q] \in Runs /\ DOMAIN flow = Runs
    BY RunsAssumption DEF IInv, TypeOK
  <2>2. CASE q = r
    BY <1>1, <2>1, <2>2 DEF Sound, Blank, Fits, Counts, Claimed
  <2>3. CASE q # r
    BY <1>1, <2>1, <2>3 DEF Sound, Blank
  <2> QED BY <2>2, <2>3
<1> QED BY <1>2, <1>3 DEF IInv

\* The flow of a run that is settled ends, and others are taken up.
LEMMA SettleKeeps ==
  ASSUME IInv, NEW r \in Runs, flow[r] # "none", subagentRuns[r] # NoRecord,
         NEW rec \in Records \cup {NoRecord},
         rec # NoRecord => /\ rec.cleanupCompleted /\ rec.cleanupHandled
                           /\ attempts[r] <= rec.retryCount + 1
                           /\ rec.suppress # "none" \/ ~rec.ended => attempts[r] = 0,
         Settle(r, rec, [flow EXCEPT ![r] = "none"]), Save,
         told' \in [Runs -> Nat], told'[r] <= 1, \A q \in Runs \ {r} : told'[q] = told[q],
         strays' \in [Runs -> Nat], UNCHANGED <<child, expired, steering, restarts>>
  PROVE  IInv'
<1> DEFINE fl      == [flow EXCEPT ![r] = "none"]
           recs    == [subagentRuns EXCEPT ![r] = rec]
           waiting == RetryDeferred(r, recs)
           late    == waiting \cap expired
           given   == [q \in Runs |-> IF q \in late THEN [recs[q] EXCEPT !.cleanupCompleted = TRUE]
                                                    ELSE recs[q]]
           res     == resumedRuns \ (waiting \ late)
<1>1. Proceed(given, res, waiting \ late, {}, fl, timers, waits) /\ UNCHANGED cooling
  BY DEF Settle
<1>2. /\ subagentRuns \in [Runs -> Records \cup {NoRecord}] /\ flow \in [Runs -> Flows]
      /\ timers \in [Runs -> [Attempts -> Nat]] /\ waits \subseteq Runs /\ resumedRuns \subseteq Runs
      /\ child \in [Runs -> {"unborn", "running", "over"}] /\ restarts \in 0..MaxRestarts
      /\ cooling \subseteq Runs /\ expired \subseteq Runs /\ steering \subseteq Runs
  BY DEF IInv, TypeOK, Flows
<1>3. r \notin waiting /\ waiting \subseteq Known(recs)
  BY DEF RetryDeferred
<1>4. fl \in [Runs -> Flows] /\ res \subseteq Runs
  BY <1>2 DEF Flows
<1>5. ASSUME NEW q \in Runs
      PROVE  /\ given[q] \in Records \cup {NoRecord}
             /\ Fits(given[q], fl[q], attempts[q], told'[q])
             /\ Counts(fl[q], attempts[q], told'[q]) /\ Claimed(given[q], fl[q], restarts')
             /\ child'[q] = "unborn" => /\ child[q] = "unborn" /\ given[q] = NoRecord
                                        /\ fl[q] = "none" /\ told'[q] = 0
  <2>1. /\ Fits(subagentRuns[q], flow[q], attempts[q], told[q])
        /\ Counts(flow[q], attempts[q], told[q]) /\ Claimed(subagentRuns[q], flow[q], restarts)
        /\ child[q] = "unborn" => Blank(q)
        /\ subagentRuns[q] \in Records \cup {NoRecord}
    BY MemoryFits
  <2>2. CASE q = r
    <3>1. given[q] = rec /\ fl[q] = "none"
      BY <1>2, <1>3, <2>2
    <3>2. child[q] # "unborn"
      BY <2>1, <2>2 DEF Blank
    <3>3. Fits(rec, "none", attempts[q], told'[q])
      BY <2>2 DEF Fits
    <3>4. Counts("none", attempts[q], told'[q]) /\ Claimed(rec, "none", restarts')
      BY <2>1, <2>2 DEF Counts, Claimed
    <3> QED BY <3>1, <3>2, <3>3, <3>4
  <2>3. CASE q # r /\ q \in late
    <3> DEFINE old == subagentRuns[q]
    <3>1. old # NoRecord /\ given[q] = [old EXCEPT !.cleanupCompleted = TRUE] /\ fl[q] = flow[q]
      BY <1>2, <1>3, <2>3 DEF Known
    <3> HIDE DEF given, fl
    <3>2. /\ given[q] \in Records /\ given[q].cleanupCompleted = TRUE
          /\ given[q].cleanupHandled = old.cleanupHandled /\ given[q].retryCount = old.retryCount
          /\ given[q].ended = old.ended /\ given[q].suppress = old.suppress
      BY <2>1, <3>1 DEF Records
    <3>3. told'[q] = told[q] /\ (child[q] # "unborn")
      BY <2>1, <2>3, <3>1 DEF Blank
    <3> HIDE DEF old
    <3>4. Fits(old, flow[q], attempts[q], told[q])
      BY <2>1 DEF old
    <3> QED BY <2>1, <3>1, <3>2, <3>3, <3>4 DEF Fits, Claimed
  <2>4. CASE q # r /\ q \notin late
    <3>1. given[q] = subagentRuns[q] /\ fl[q] = flow[q] /\ told'[q] = told[q]
      BY <1>2, <2>4
    <3> HIDE DEF given, fl
    <3> QED BY <2>1, <3>1 DEF Blank
  <2> QED BY <2>2, <2>3, <2>4
<1>6. given \in [Runs -> Records \cup {NoRecord}]
  BY <1>5
<1> HIDE DEF given, fl, res, recs, waiting, late
<1>7. Given(given, fl, timers, waits, res, waiting \ late, {}, told', restarts')
  BY <1>2, <1>4, <1>5, <1>6 DEF Given
<1> QED BY <1>1, <1>2, <1>5, <1>7, ViaProceed

\* One more attempt counted changes nothing else of a record.
LEMMA CountedAttempt ==
  ASSUME NEW old \in Records, old.retryCount < MAX_ANNOUNCE_RETRY_COUNT,
         NEW rec, rec = [old EXCEPT !.retryCount = @ + 1]
  PROVE  /\ rec \in Records /\ rec.retryCount = old.retryCount + 1 /\ old.retryCount \in Nat
         /\ rec.cleanupHandled = old.cleanupHandled /\ rec.cleanupCompleted = old.cleanupCompleted
         /\ rec.ended = old.ended /\ rec.suppress = old.suppress
<1>1. old.retryCount \in 0..MAX_ANNOUNCE_RETRY_COUNT /\ MAX_ANNOUNCE_RETRY_COUNT \in Nat
  BY BoundsAssumption DEF Records
<1>2. old.retryCount + 1 \in 0..MAX_ANNOUNCE_RETRY_COUNT
  BY <1>1
<1> QED BY <1>1, <1>2 DEF Records

\* A run that is not announced this time is released, with one attempt more counted.
LEMMA DeferKeeps ==
  ASSUME IInv, NEW r \in Runs, flow[r] # "none", subagentRuns[r] # NoRecord,
         NEW rec, rec = [subagentRuns[r] EXCEPT !.retryCount = @ + 1], ~GivesUp(r, rec),
         Defer(r, rec, [flow EXCEPT ![r] = "none"]), Save,
         told' \in [Runs -> Nat], told'[r] = 0, \A q \in Runs \ {r} : told'[q] = told[q],
         strays' \in [Runs -> Nat], UNCHANGED <<child, expired, steering, restarts>>
  PROVE  IInv'
<1> DEFINE new == [rec EXCEPT !.cleanupHandled = FALSE]
<1>1. /\ subagentRuns \in [Runs -> Records \cup {NoRecord}] /\ subagentRuns[r] \in Records
      /\ flow \in [Runs -> Flows] /\ timers \in [Runs -> [Attempts -> Nat]]
      /\ child \in [Runs -> {"unborn", "running", "over"}]
  BY DEF IInv, TypeOK, Flows
<1>2. /\ MAX_ANNOUNCE_RETRY_COUNT \in Nat /\ subagentRuns[r].retryCount \in Nat
      /\ subagentRuns[r].retryCount + 1 < MAX_ANNOUNCE_RETRY_COUNT
      /\ rec.retryCount = subagentRuns[r].retryCount + 1
  BY <1>1, BoundsAssumption DEF GivesUp, Records
<1>3. /\ new \in Records /\ new.cleanupHandled = FALSE
      /\ new.cleanupCompleted = subagentRuns[r].cleanupCompleted
      /\ new.retryCount = subagentRuns[r].retryCount + 1
      /\ new.ended = subagentRuns[r].ended /\ new.suppress = subagentRuns[r].suppress
  <2>1. /\ rec \in Records /\ rec.retryCount = subagentRuns[r].retryCount + 1
        /\ rec.cleanupCompleted = subagentRuns[r].cleanupCompleted
        /\ rec.ended = subagentRuns[r].ended /\ rec.suppress = subagentRuns[r].suppress
    <3>1. subagentRuns[r].retryCount < MAX_ANNOUNCE_RETRY_COUNT
      BY <1>2
    <3> QED BY <1>1, <3>1, CountedAttempt
  <2> QED BY <2>1 DEF Records
<1>4. /\ subagentRuns' = [subagentRuns EXCEPT ![r] = new]
      /\ resumedRuns' = resumedRuns \ {r} /\ flow' = [flow EXCEPT ![r] = "none"]
      /\ cooling' = cooling \cup ({r} \cap Expects)
      /\ timers' = IF r \in Expects THEN [timers EXCEPT ![r][rec.retryCount] = @ + 1] ELSE timers
      /\ UNCHANGED <<waits, attempts>>
  BY DEF Defer
<1> HIDE DEF new
<1>5. timers' \in [Runs -> [Attempts -> Nat]]
  <2>1. rec.retryCount \in Attempts
    BY <1>2 DEF Attempts
  <2>2. [timers[r] EXCEPT ![rec.retryCount] = @ + 1] \in [Attempts -> Nat]
    BY <1>1, <2>1
  <2> QED BY <1>1, <1>4, <2>2
<1>6. TypeOK'
  BY <1>1, <1>3, <1>4, <1>5 DEF IInv, TypeOK, Save, Flows
<1>7. ASSUME NEW q \in Runs
      PROVE  /\ Fits(subagentRuns'[q], flow'[q], attempts'[q], told'[q])
             /\ Counts(flow'[q], attempts'[q], told'[q])
             /\ Claimed(subagentRuns'[q], flow'[q], restarts')
             /\ child'[q] = "unborn" => /\ subagentRuns'[q] = NoRecord /\ flow'[q] = "none"
                                        /\ attempts'[q] = 0 /\ told'[q] = 0
             /\ q \in steering' => Successor[q] # q /\ child'[Successor[q]] = "unborn"
  <2>1. /\ Fits(subagentRuns[q], flow[q], attempts[q], told[q])
        /\ Counts(flow[q], attempts[q], told[q]) /\ Claimed(subagentRuns[q], flow[q], restarts)
        /\ child[q] = "unborn" => Blank(q)
        /\ attempts[q] \in Nat
    BY MemoryFits
  <2>2. q \in steering' => Successor[q] # q /\ child'[Successor[q]] = "unborn"
    BY DEF IInv, Sound
  <2>3. CASE q = r
    <3>1. subagentRuns'[q] = new /\ flow'[q] = "none" /\ attempts'[q] = attempts[q]
      BY <1>1, <1>4, <2>3
    <3>2. child[q] # "unborn"
      BY <2>1, <2>3 DEF Blank
    <3>3. Fits(new, "none", attempts[q], told'[q])
      <4>1. /\ attempts[q] <= subagentRuns[q].retryCount + 1
            /\ subagentRuns[q].suppress # "none" \/ ~subagentRuns[q].ended => attempts[q] = 0
            /\ subagentRuns[q].suppress = "killed" => subagentRuns[q].cleanupCompleted
        BY <1>2, <2>1, <2>3 DEF Fits
      <4> QED BY <1>2, <1>3, <2>1, <2>3, <4>1 DEF Fits
    <3>4. Counts("none", attempts[q], told'[q]) /\ Claimed(new, "none", restarts')
      BY <1>3, <2>1, <2>3 DEF Counts, Claimed
    <3> QED BY <2>2, <3>1, <3>2, <3>3, <3>4
  <2>4. CASE q # r
    <3>1. /\ subagentRuns'[q] = subagentRuns[q] /\ flow'[q] = flow[q]
          /\ attempts'[q] = attempts[q] /\ told'[q] = told[q]
      BY <1>1, <1>4, <2>4
    <3> QED BY <2>1, <2>2, <3>1 DEF Blank
  <2> QED BY <2>3, <2>4
<1> QED BY <1>6, <1>7, ViaSave

\* The flow of a run ends; its record may be gone, or gone from memory only.
LEMMA FinalizeKeeps ==
  ASSUME IInv, NEW r \in Runs, flow[r] # "none",
         NEW didAnnounce \in BOOLEAN, Finalize(r, didAnnounce),
         told' \in [Runs -> Nat], told'[r] <= 1, ~didAnnounce => told'[r] = 0,
         \A q \in Runs \ {r} : told'[q] = told[q],
         strays' \in [Runs -> Nat], UNCHANGED <<child, expired, steering, restarts>>
  PROVE  IInv'
<1> DEFINE old == subagentRuns[r]
           rec == IF didAnnounce THEN old ELSE [old EXCEPT !.retryCount = @ + 1]
           fl  == [flow EXCEPT ![r] = "none"]
<1>1. /\ old \in Records \cup {NoRecord} /\ attempts[r] \in Nat
      /\ Fits(old, flow[r], attempts[r], told[r]) /\ Counts(flow[r], attempts[r], told[r])
  BY MemoryFits
<1>2. CASE old = NoRecord
  <2>1. /\ flow' = fl
        /\ UNCHANGED <<subagentRuns, disk, resumedRuns, timers, waits, cooling, attempts>>
    BY <1>2 DEF Finalize
  <2>2. flow \in [Runs -> Flows] /\ fl \in [Runs -> Flows]
    BY DEF IInv, TypeOK, Flows
  <2>3. TypeOK'
    BY <2>1, <2>2 DEF IInv, TypeOK, Flows
  <2>4. ASSUME NEW q \in Runs PROVE Sound(q)'
    <3>1. Sound(q) /\ Successor[q] \in Runs
      BY RunsAssumption DEF IInv
    <3>2. CASE q = r
      <4>1. flow'[q] = "none" /\ subagentRuns'[q] = NoRecord
        BY <1>2, <2>1, <2>2, <3>2
      <4>2. Fits(disk'[q], flow'[q], attempts'[q], told'[q])
        BY <2>1, <3>1, <3>2, <4>1 DEF Sound, Fits
      <4> QED BY <2>1, <3>1, <3>2, <4>1, <4>2 DEF Sound, Counts, Claimed, Blank
    <3>3. CASE q # r
      <4>1. flow'[q] = flow[q] /\ told'[q] = told[q]
        BY <2>1, <2>2, <3>3
      <4> QED BY <2>1, <3>1, <4>1 DEF Sound, Blank
    <3> QED BY <3>2, <3>3
  <2> QED BY <2>3, <2>4 DEF IInv
<1>3. CASE old # NoRecord /\ ~didAnnounce /\ ~GivesUp(r, rec)
  <2>1. Defer(r, rec, fl) /\ Save
    BY <1>3 DEF Finalize
  <2> QED BY <1>3, <2>1, DeferKeeps
<1>4. CASE old # NoRecord /\ didAnnounce /\ r \in DeleteAfter
  <2>1. Settle(r, NoRecord, fl) /\ Save
    BY <1>4 DEF Finalize
  <2> QED BY <1>4, <2>1, SettleKeeps
<1>5. CASE old # NoRecord /\ (didAnnounce => r \notin DeleteAfter) /\ (didAnnounce \/ GivesUp(r, rec))
  <2> DEFINE done == [rec EXCEPT !.cleanupCompleted = TRUE]
  <2>1. Settle(r, done, fl) /\ Save
    BY <1>5 DEF Finalize
  <2>2. /\ old \in Records /\ old.retryCount \in Nat /\ MAX_ANNOUNCE_RETRY_COUNT \in Nat
        /\ old.retryCount < MAX_ANNOUNCE_RETRY_COUNT
        /\ attempts[r] <= old.retryCount + 1 /\ old.cleanupHandled
        /\ old.suppress # "none" \/ ~old.ended => attempts[r] = 0
    BY <1>1, <1>5, BoundsAssumption DEF Fits, Records
  <2>3. /\ rec \in Records /\ rec.retryCount \in Nat /\ old.retryCount <= rec.retryCount
        /\ rec.cleanupHandled = old.cleanupHandled /\ rec.ended = old.ended
        /\ rec.suppress = old.suppress
    <3>1. CASE didAnnounce
      <4>1. rec = old
        BY <3>1
      <4>2. old.retryCount <= old.retryCount
        BY <2>2
      <4> HIDE DEF rec, old
      <4> QED BY <2>2, <4>1, <4>2, Zenon
    <3>2. CASE ~didAnnounce
      <4>1. rec = [old EXCEPT !.retryCount = @ + 1]
        BY <3>2
      <4> HIDE DEF rec, old
      <4>2. /\ rec \in Records /\ rec.retryCount = old.retryCount + 1
            /\ rec.cleanupHandled = old.cleanupHandled /\ rec.ended = old.ended
            /\ rec.suppress = old.suppress
        BY <2>2, <4>1, CountedAttempt
      <4> QED BY <2>2, <4>2
    <3> QED BY <3>1, <3>2
  <2> HIDE DEF rec
  <2>4. /\ done \in Records /\ done.cleanupCompleted /\ done.retryCount = rec.retryCount
        /\ done.cleanupHandled = rec.cleanupHandled /\ done.ended = rec.ended
        /\ done.suppress = rec.suppress
    BY <2>3 DEF Records
  <2> HIDE DEF done
  <2>5. /\ done.cleanupCompleted /\ done.cleanupHandled
        /\ attempts[r] <= done.retryCount + 1
        /\ done.suppress # "none" \/ ~done.ended => attempts[r] = 0
    BY <1>1, <2>2, <2>3, <2>4
  <2> QED BY <1>5, <2>1, <2>4, <2>5, SettleKeeps
<1> QED BY <1>2, <1>3, <1>4, <1>5

LEMMA FlowEndsKeeps ==
  ASSUME IInv, NEW r \in Runs, NEW didAnnounce \in BOOLEAN, NEW strayed \in BOOLEAN,
         FlowEnds(r, didAnnounce, strayed)
  PROVE  IInv'
<1>0. strays' \in [Runs -> Nat]
  BY DEF FlowEnds, IInv, TypeOK
<1>1. /\ told' = [told EXCEPT ![r] = IF didAnnounce THEN @ + 1 ELSE @]
      /\ flow[r] \in {"busy", "clear"} /\ UNCHANGED <<child, expired, steering, restarts>>
  BY DEF FlowEnds
<1>2. told \in [Runs -> Nat] /\ flow \in [Runs -> Flows]
  BY DEF IInv, TypeOK, Flows
<1>3. told[r] = 0
  BY <1>1 DEF IInv, Sound, Counts
<1>4. /\ told' \in [Runs -> Nat] /\ told'[r] <= 1 /\ (~didAnnounce => told'[r] = 0)
      /\ \A q \in Runs \ {r} : told'[q] = told[q]
  BY <1>1, <1>2, <1>3
<1>5. CASE r \in Labelled \/ (r \in DeleteAfter /\ flow[r] = "clear")
  <2>1. /\ flow' = [flow EXCEPT ![r] = IF didAnnounce THEN "told" ELSE "untold"]
        /\ UNCHANGED <<subagentRuns, disk, resumedRuns, timers, waits, cooling, attempts>>
    BY <1>5 DEF FlowEnds
  <2>2. TypeOK'
    BY <1>0, <1>1, <1>4, <2>1 DEF IInv, TypeOK
  <2>3. ASSUME NEW q \in Runs PROVE Sound(q)'
    <3>1. Sound(q) /\ Successor[q] \in Runs
      BY RunsAssumption DEF IInv
    <3>2. CASE q = r
      <4>1. flow'[q] = IF didAnnounce THEN "told" ELSE "untold"
        BY <1>2, <2>1, <3>2
      <4>2. Fits(disk'[q], flow'[q], attempts'[q], told'[q])
        BY <1>1, <2>1, <3>1, <3>2, <4>1 DEF Sound, Fits
      <4>3. Counts(flow'[q], attempts'[q], told'[q])
        BY <1>4, <2>1, <3>1, <3>2, <4>1 DEF Sound, Counts
      <4>4. Claimed(subagentRuns'[q], flow'[q], restarts') /\ child'[q] # "unborn"
        BY <1>1, <2>1, <3>1, <3>2, <4>1 DEF Sound, Claimed, Blank
      <4> QED BY <1>1, <2>1, <3>1, <4>2, <4>3, <4>4 DEF Sound
    <3>3. CASE q # r
      <4>1. flow'[q] = flow[q] /\ told'[q] = told[q]
        BY <1>2, <1>4, <2>1, <3>3
      <4> QED BY <1>1, <2>1, <3>1, <4>1 DEF Sound, Blank
    <3> QED BY <3>2, <3>3
  <2> QED BY <2>2, <2>3 DEF IInv
<1>6. CASE ~(r \in Labelled \/ (r \in DeleteAfter /\ flow[r] = "clear"))
  <2>1. Finalize(r, didAnnounce)
    BY <1>6 DEF FlowEnds
  <2> QED BY <1>0, <1>1, <1>4, <2>1, FinalizeKeeps
<1> QED BY <1>5, <1>6

LEMMA FlowReturnsKeeps ==
  ASSUME IInv, NEW r \in Runs, FlowReturns(r) PROVE IInv'
<1>1. /\ flow[r] \in {"told", "untold"} /\ Finalize(r, flow[r] = "told")
      /\ UNCHANGED <<child, expired, steering, restarts, told, strays>>
  BY DEF FlowReturns
<1>2. /\ told \in [Runs -> Nat] /\ strays \in [Runs -> Nat]
      /\ told[r] <= 1 /\ (flow[r] # "told" => told[r] = 0)
  BY <1>1 DEF IInv, TypeOK, Sound, Counts
<1>3. CASE flow[r] = "told"
  BY <1>1, <1>2, <1>3, FinalizeKeeps
<1>4. CASE flow[r] # "told"
  <2>1. Finalize(r, FALSE)
    BY <1>1, <1>4
  <2> QED BY <1>1, <1>2, <1>4, <2>1, FinalizeKeeps
<1> QED BY <1>3, <1>4

\* A timer finds the run as it left it, or takes it up.
LEMMA TimerFiresKeeps ==
  ASSUME IInv, NEW r \in Runs, TimerFires(r) PROVE IInv'
<1>1. PICK k \in Attempts :
        /\ timers[r][k] > 0
        /\ Proceed(subagentRuns, resumedRuns, {r}, {}, flow, [timers EXCEPT ![r][k] = @ - 1], waits)
        /\ disk' = IF subagentRuns' = subagentRuns THEN disk ELSE subagentRuns'
        /\ UNCHANGED <<child, cooling, expired, steering, restarts, told, strays>>
  BY DEF TimerFires
<1> DEFINE tm == [timers EXCEPT ![r][k] = @ - 1]
<1>2. /\ subagentRuns \in [Runs -> Records \cup {NoRecord}] /\ flow \in [Runs -> Flows]
      /\ timers \in [Runs -> [Attempts -> Nat]] /\ waits \subseteq Runs /\ resumedRuns \subseteq Runs
      /\ told \in [Runs -> Nat] /\ strays \in [Runs -> Nat] /\ attempts \in [Runs -> Nat]
      /\ child \in [Runs -> {"unborn", "running", "over"}] /\ restarts \in 0..MaxRestarts
      /\ cooling \subseteq Runs /\ expired \subseteq Runs /\ steering \subseteq Runs
      /\ disk \in [Runs -> Records \cup {NoRecord}]
  BY DEF IInv, TypeOK, Flows
<1>3. tm \in [Runs -> [Attempts -> Nat]]
  <2>1. timers[r][k] \in Nat /\ timers[r][k] - 1 \in Nat
    BY <1>1, <1>2
  <2>2. [timers[r] EXCEPT ![k] = @ - 1] \in [Attempts -> Nat]
    BY <1>2, <2>1
  <2> QED BY <1>2, <2>2
<1> HIDE DEF tm
<1>4. Given(subagentRuns, flow, tm, waits, resumedRuns, {}, {}, told, restarts)
  BY <1>2, <1>3, MemoryFits DEF Given
<1>5. Proceed(subagentRuns, resumedRuns, {r}, {}, flow, tm, waits)
  BY <1>1 DEF tm
<1>6. Given(subagentRuns, flow, tm, waits, resumedRuns, {r}, {}, told, restarts)
  BY <1>4 DEF Given
<1>7. CASE disk' = subagentRuns'
  <2>1. \A q \in Runs : child[q] = "unborn" => /\ subagentRuns[q] = NoRecord
                                               /\ flow[q] = "none" /\ told[q] = 0
    BY MemoryFits DEF Blank
  <2> QED BY <1>1, <1>2, <1>5, <1>6, <1>7, <2>1, ViaProceed DEF Save
<1>8. CASE subagentRuns' = subagentRuns /\ disk' = disk
  <2>1. /\ flow' \in [Runs -> Flows] /\ timers' \in [Runs -> [Attempts -> Nat]]
        /\ attempts' \in [Runs -> Nat] /\ waits' \subseteq Runs /\ resumedRuns' \subseteq Runs
    BY <1>2, <1>5, <1>6, ProceedTypes
  <2>2. TypeOK'
    BY <1>1, <1>2, <1>8, <2>1 DEF TypeOK, Flows
  <2>3. ASSUME NEW q \in Runs PROVE Sound(q)'
    <3>1. flow'[q] = flow[q] /\ attempts'[q] = attempts[q]
      BY <1>2, <1>5, <1>6, <1>8, ProceedFits
    <3>2. Sound(q) /\ Successor[q] \in Runs
      BY RunsAssumption DEF IInv
    <3> QED BY <1>1, <1>8, <3>1, <3>2 DEF Sound, Blank
  <2> QED BY <2>2, <2>3 DEF IInv
<1> QED BY <1>1, <1>7, <1>8

\* Records that change, and nothing of the flows.
LEMMA RecordsKeep ==
  ASSUME IInv, NEW recs \in [Runs -> Records \cup {NoRecord}],
         subagentRuns' = recs, Save, steering' \subseteq Runs,
         \A q \in steering' : Successor[q] # q /\ child[Successor[q]] = "unborn",
         \A q \in Runs : /\ recs[q] # NoRecord => subagentRuns[q] # NoRecord
                         /\ Fits(recs[q], flow[q], attempts[q], told[q])
                         /\ Claimed(recs[q], flow[q], restarts),
         UNCHANGED <<resumedRuns, timers, waits, child, flow, cooling, expired, restarts,
                     attempts, told, strays>>
  PROVE  IInv'
<1>1. TypeOK'
  BY DEF IInv, TypeOK, Save
<1>2. \A q \in Runs : /\ Counts(flow[q], attempts[q], told[q])
                      /\ child[q] = "unborn" => Blank(q)
  BY MemoryFits
<1> QED BY <1>1, <1>2, ViaSave DEF Blank

LEMMA MarkForSteerKeeps ==
  ASSUME IInv, NEW r \in Runs, MarkForSteerRestart(r) PROVE IInv'
<1> DEFINE rec  == [subagentRuns[r] EXCEPT !.suppress = "steer-restart"]
           recs == [subagentRuns EXCEPT ![r] = rec]
<1>1. /\ subagentRuns[r] # NoRecord /\ ~subagentRuns[r].ended
      /\ Successor[r] # r /\ child[Successor[r]] = "unborn"
      /\ subagentRuns' = recs /\ Save /\ steering' = steering \cup {r}
      /\ UNCHANGED <<resumedRuns, timers, waits, child, flow, cooling, expired, restarts,
                     attempts, told, strays>>
  BY DEF MarkForSteerRestart, Known
<1>2. /\ subagentRuns \in [Runs -> Records \cup {NoRecord}] /\ subagentRuns[r] \in Records
      /\ steering \subseteq Runs
  BY <1>1 DEF IInv, TypeOK
<1>3. /\ rec \in Records /\ rec.suppress = "steer-restart" /\ rec.ended = subagentRuns[r].ended
      /\ rec.cleanupHandled = subagentRuns[r].cleanupHandled
      /\ rec.cleanupCompleted = subagentRuns[r].cleanupCompleted
      /\ rec.retryCount = subagentRuns[r].retryCount
  BY <1>2 DEF Records
<1> HIDE DEF rec
<1>4. ASSUME NEW q \in Runs
      PROVE  /\ recs[q] # NoRecord => subagentRuns[q] # NoRecord
             /\ Fits(recs[q], flow[q], attempts[q], told[q]) /\ Claimed(recs[q], flow[q], restarts)
  <2>1. /\ Fits(subagentRuns[q], flow[q], attempts[q], told[q])
        /\ Claimed(subagentRuns[q], flow[q], restarts)
    BY MemoryFits
  <2>2. CASE q = r
    <3>1. recs[q] = rec
      BY <1>2, <2>2
    <3> QED BY <1>1, <1>3, <2>1, <2>2, <3>1 DEF Fits, Claimed
  <2>3. CASE q # r
    BY <1>2, <2>1, <2>3
  <2> QED BY <2>2, <2>3
<1>5. \A q \in steering' : Successor[q] # q /\ child[Successor[q]] = "unborn"
  BY <1>1, <1>2 DEF IInv, Sound
<1>6. recs \in [Runs -> Records \cup {NoRecord}] /\ steering' \subseteq Runs
  BY <1>1, <1>2, <1>3
<1> HIDE DEF recs
<1> QED BY <1>1, <1>4, <1>5, <1>6, RecordsKeep

\* Every run of the session that has not ended is settled, announced or not.
LEMMA MarkTerminatedKeeps ==
  ASSUME IInv, NEW r \in Runs, MarkTerminated(r) PROVE IInv'
<1> DEFINE runs == {q \in Known(subagentRuns) : Session[q] = Session[r] /\ ~subagentRuns[q].ended}
           recs == [q \in Runs |-> IF q \in runs THEN Terminated(subagentRuns[q])
                                   ELSE subagentRuns[q]]
<1>1. /\ subagentRuns' = recs /\ Save
      /\ UNCHANGED <<resumedRuns, timers, waits, child, flow, cooling, expired, steering,
                     restarts, attempts, told, strays>>
  BY DEF MarkTerminated
<1>2. subagentRuns \in [Runs -> Records \cup {NoRecord}] /\ steering \subseteq Runs
  BY DEF IInv, TypeOK
<1>3. ASSUME NEW q \in Runs
      PROVE  /\ recs[q] \in Records \cup {NoRecord}
             /\ recs[q] # NoRecord => subagentRuns[q] # NoRecord
             /\ Fits(recs[q], flow[q], attempts[q], told[q]) /\ Claimed(recs[q], flow[q], restarts)
  <2>1. /\ Fits(subagentRuns[q], flow[q], attempts[q], told[q])
        /\ Claimed(subagentRuns[q], flow[q], restarts)
        /\ subagentRuns[q] \in Records \cup {NoRecord}
    BY MemoryFits
  <2>2. CASE q \in runs
    <3> DEFINE rec == Terminated(subagentRuns[q])
    <3>1. subagentRuns[q] \in Records /\ subagentRuns[q] # NoRecord /\ ~subagentRuns[q].ended
      BY <2>1, <2>2 DEF Known
    <3>2. /\ rec \in Records /\ rec.cleanupHandled /\ rec.cleanupCompleted
          /\ rec.retryCount = subagentRuns[q].retryCount
      BY <3>1 DEF Terminated, Records
    <3>3. recs[q] = rec
      BY <2>2
    <3>4. attempts[q] = 0 /\ subagentRuns[q].retryCount \in Nat
      BY <2>1, <3>1, BoundsAssumption DEF Fits, Records
    <3> HIDE DEF rec, recs
    <3> QED BY <2>1, <3>1, <3>2, <3>3, <3>4 DEF Fits, Claimed
  <2>3. CASE q \notin runs
    BY <2>1, <2>3
  <2> QED BY <2>2, <2>3
<1>4. recs \in [Runs -> Records \cup {NoRecord}]
  BY <1>3
<1>5. \A q \in steering' : Successor[q] # q /\ child[Successor[q]] = "unborn"
  BY <1>1, <1>2 DEF IInv, Sound
<1> HIDE DEF recs
<1> QED BY <1>1, <1>2, <1>3, <1>4, <1>5, RecordsKeep

\* The old record goes, whatever it says; that of the new run is blank.
LEMMA ReplaceKeeps ==
  ASSUME IInv, NEW r \in Runs, ReplaceAfterSteer(r) PROVE IInv'
<1> DEFINE s == Successor[r]
<1>1. /\ r \in steering /\ steering' = steering \ {r}
      /\ subagentRuns' = [subagentRuns EXCEPT ![r] = NoRecord, ![s] = NewRecord] /\ Save
      /\ resumedRuns' = resumedRuns \ {r} /\ waits' = waits \cup {s}
      /\ child' = [child EXCEPT ![s] = "running"]
      /\ UNCHANGED <<timers, flow, cooling, expired, restarts, attempts, told, strays>>
  BY DEF ReplaceAfterSteer
<1>2. /\ subagentRuns \in [Runs -> Records \cup {NoRecord}] /\ steering \subseteq Runs
      /\ child \in [Runs -> {"unborn", "running", "over"}]
  BY DEF IInv, TypeOK
<1>3. s \in Runs /\ s # r /\ child[s] = "unborn" /\ Blank(s)
  BY <1>1, RunsAssumption DEF IInv, Sound
<1>4. TypeOK'
  <2>1. subagentRuns' \in [Runs -> Records \cup {NoRecord}]
    BY <1>1, <1>2, <1>3, NewRecordType
  <2>2. child' \in [Runs -> {"unborn", "running", "over"}] /\ steering' \subseteq Runs
    BY <1>1, <1>2, <1>3
  <2>3. waits' \subseteq Runs /\ resumedRuns' \subseteq Runs
    BY <1>1, <1>3 DEF IInv, TypeOK
  <2>4. /\ timers' \in [Runs -> [Attempts -> Nat]] /\ restarts' \in 0..MaxRestarts
        /\ flow' \in [Runs -> {"none", "busy", "clear", "told", "untold"}]
        /\ cooling' \subseteq Runs /\ expired' \subseteq Runs
        /\ attempts' \in [Runs -> Nat] /\ told' \in [Runs -> Nat] /\ strays' \in [Runs -> Nat]
    BY <1>1 DEF IInv, TypeOK
  <2>5. disk' \in [Runs -> Records \cup {NoRecord}]
    BY <1>1, <2>1 DEF Save
  <2> QED BY <2>1, <2>2, <2>3, <2>4, <2>5 DEF TypeOK
<1>5. ASSUME NEW q \in Runs
      PROVE  /\ Fits(subagentRuns'[q], flow'[q], attempts'[q], told'[q])
             /\ Counts(flow'[q], attempts'[q], told'[q])
             /\ Claimed(subagentRuns'[q], flow'[q], restarts')
             /\ child'[q] = "unborn" => /\ subagentRuns'[q] = NoRecord /\ flow'[q] = "none"
                                        /\ attempts'[q] = 0 /\ told'[q] = 0
             /\ q \in steering' => Successor[q] # q /\ child'[Successor[q]] = "unborn"
  <2>1. /\ Fits(subagentRuns[q], flow[q], attempts[q], told[q])
        /\ Counts(flow[q], attempts[q], told[q]) /\ Claimed(subagentRuns[q], flow[q], restarts)
        /\ child[q] = "unborn" => Blank(q)
    BY MemoryFits
  <2>2. q \in steering' => Successor[q] # q /\ child'[Successor[q]] = "unborn"
    <3>1. q \in steering' => q # r /\ Successor[q] # q /\ child[Successor[q]] = "unborn"
      BY <1>1 DEF IInv, Sound
    <3>2. q # r /\ Successor[q] = s => s \in {q, r}
      BY SuccessorAssumption
    <3>3. q \in steering' => Successor[q] # s
      BY <1>3, <3>1, <3>2
    <3>4. Successor[q] \in Runs
      BY RunsAssumption
    <3> HIDE DEF s
    <3> QED BY <1>1, <1>2, <1>3, <3>1, <3>3, <3>4
  <2> HIDE DEF s
  <2>3. CASE q = r
    <3>1. subagentRuns'[q] = NoRecord /\ child'[q] = child[q]
      BY <1>1, <1>2, <1>3, <2>3
    <3> QED BY <1>1, <2>1, <2>2, <3>1 DEF Fits, Claimed, Blank
  <2>4. CASE q = s
    <3>1. subagentRuns'[q] = NewRecord /\ child'[q] = "running"
      BY <1>1, <1>2, <1>3, <2>4
    <3>2. MAX_ANNOUNCE_RETRY_COUNT \in Nat \ {0}
      BY BoundsAssumption
    <3> QED BY <1>1, <1>3, <2>1, <2>2, <2>4, <3>1, <3>2
            DEF Fits, Counts, Claimed, NewRecord, Blank
  <2>5. CASE q # r /\ q # s
    <3>1. subagentRuns'[q] = subagentRuns[q] /\ child'[q] = child[q]
      BY <1>1, <1>2, <1>3, <2>5
    <3> QED BY <1>1, <2>1, <2>2, <3>1 DEF Blank
  <2> QED BY <2>3, <2>4, <2>5
<1> HIDE DEF s
<1> QED BY <1>1, <1>4, <1>5, ViaSave

\* An end that was held back is announced after all.
LEMMA ClearSteerKeeps ==
  ASSUME IInv, NEW r \in Runs, ClearSteerRestart(r) PROVE IInv'
<1>1. /\ steering' = steering \ {r} /\ UNCHANGED <<child, cooling, expired, restarts, told, strays>>
  BY DEF ClearSteerRestart
<1>2. /\ subagentRuns \in [Runs -> Records \cup {NoRecord}] /\ flow \in [Runs -> Flows]
      /\ timers \in [Runs -> [Attempts -> Nat]] /\ waits \subseteq Runs /\ resumedRuns \subseteq Runs
      /\ told \in [Runs -> Nat] /\ strays \in [Runs -> Nat]
      /\ child \in [Runs -> {"unborn", "running", "over"}]
      /\ cooling \subseteq Runs /\ expired \subseteq Runs /\ restarts \in 0..MaxRestarts
  BY DEF IInv, TypeOK, Flows
<1>3. CASE r \notin Known(subagentRuns) \/ subagentRuns[r].suppress # "steer-restart"
  <2>1. UNCHANGED <<subagentRuns, disk, resumedRuns, timers, waits, flow, attempts>>
    BY <1>3 DEF ClearSteerRestart
  <2>2. TypeOK'
    BY <1>1, <2>1 DEF IInv, TypeOK
  <2>3. ASSUME NEW q \in Runs PROVE Sound(q)'
    <3>1. Sound(q)
      BY DEF IInv
    <3> QED BY <1>1, <2>1, <3>1 DEF Sound, Blank
  <2> QED BY <2>2, <2>3 DEF IInv
<1>4. CASE ~(r \notin Known(subagentRuns) \/ subagentRuns[r].suppress # "steer-restart")
  <2> DEFINE rec  == [subagentRuns[r] EXCEPT !.suppress = "none"]
             recs == [subagentRuns EXCEPT ![r] = rec]
             res  == resumedRuns \ {r}
             R    == {q \in {r} : recs[q].ended}
  <2>1. Proceed(recs, res, R, {}, flow, timers, waits) /\ Save
    BY <1>4 DEF ClearSteerRestart
  <2>2. /\ subagentRuns[r] # NoRecord /\ subagentRuns[r] \in Records
        /\ subagentRuns[r].suppress = "steer-restart"
    BY <1>2, <1>4 DEF Known
  <2>3. /\ rec \in Records /\ rec.suppress = "none" /\ rec.ended = subagentRuns[r].ended
        /\ rec.cleanupHandled = subagentRuns[r].cleanupHandled
        /\ rec.cleanupCompleted = subagentRuns[r].cleanupCompleted
        /\ rec.retryCount = subagentRuns[r].retryCount
    BY <2>2 DEF Records
  <2>4. recs = [q \in Runs |-> IF q = r THEN rec ELSE subagentRuns[q]]
    BY <1>2
  <2> HIDE DEF rec, recs
  <2>5. recs \in [Runs -> Records \cup {NoRecord}] /\ res \subseteq Runs
    BY <1>2, <2>3, <2>4
  <2>6. ASSUME NEW q \in Runs
        PROVE  /\ Fits(recs[q], flow[q], attempts[q], told[q])
               /\ Counts(flow[q], attempts[q], told[q]) /\ Claimed(recs[q], flow[q], restarts)
               /\ child[q] = "unborn" => recs[q] = NoRecord /\ flow[q] = "none" /\ told[q] = 0
    <3>1. /\ Fits(subagentRuns[q], flow[q], attempts[q], told[q])
          /\ Counts(flow[q], attempts[q], told[q])
          /\ Claimed(subagentRuns[q], flow[q], restarts)
          /\ child[q] = "unborn" => Blank(q)
      BY MemoryFits
    <3>2. CASE q = r
      BY <2>2, <2>3, <2>4, <3>1, <3>2 DEF Fits, Claimed, Blank
    <3>3. CASE q # r
      BY <2>4, <3>1, <3>3 DEF Blank
    <3> QED BY <3>2, <3>3
  <2> HIDE DEF res, R
  <2>7. Given(recs, flow, timers, waits, res, R, {}, told, restarts)
    BY <1>2, <2>5, <2>6 DEF Given
  <2> QED BY <1>1, <1>2, <2>1, <2>6, <2>7, ViaProceed
<1> QED BY <1>3, <1>4

\* The record on disk outlives that in memory.
LEMMA SweepKeeps ==
  ASSUME IInv, NEW r \in Runs, Sweep(r) PROVE IInv'
<1>1. /\ subagentRuns[r] # NoRecord /\ subagentRuns' = [subagentRuns EXCEPT ![r] = NoRecord]
      /\ UNCHANGED <<disk, resumedRuns, timers, waits, child, flow, cooling, expired, steering,
                     restarts, attempts, told, strays>>
  BY DEF Sweep, Known
<1>2. TypeOK'
  BY <1>1 DEF IInv, TypeOK
<1>3. ASSUME NEW q \in Runs PROVE Sound(q)'
  <2>1. Sound(q) /\ Successor[q] \in Runs /\ subagentRuns'[q] \in {subagentRuns[q], NoRecord}
    BY <1>1, RunsAssumption DEF IInv, TypeOK
  <2> QED BY <1>1, <2>1 DEF Sound, Blank, Claimed
<1> QED BY <1>2, <1>3 DEF IInv

LEMMA SweepDoneKeeps ==
  ASSUME IInv, SweepDone PROVE IInv'
<1>1. /\ Save
      /\ UNCHANGED <<subagentRuns, resumedRuns, timers, waits, child, flow, cooling, expired,
                     steering, restarts, attempts, told, strays>>
  BY DEF SweepDone, Save
<1>2. /\ subagentRuns \in [Runs -> Records \cup {NoRecord}] /\ steering \subseteq Runs
      /\ \A q \in steering : Successor[q] # q /\ child[Successor[q]] = "unborn"
  BY DEF IInv, TypeOK, Sound
<1> QED BY <1>1, <1>2, MemoryFits, RecordsKeep

\* After a crash the records that were saved are resumed; their flows are gone.
LEMMA RestartKeeps ==
  ASSUME IInv, Restart PROVE IInv'
<1> DEFINE fl == [r \in Runs |-> "none"]
<1>0. strays' \in [Runs -> Nat]
  <2>1. PICK S : strays' = [r \in Runs |-> IF r \in S THEN strays[r] + 1 ELSE strays[r]]
    BY DEF Restart
  <2>2. strays \in [Runs -> Nat]
    BY DEF IInv, TypeOK
  <2> QED BY <2>1, <2>2
<1>1. /\ restarts < MaxRestarts /\ restarts' = restarts + 1
      /\ child' = [r \in Runs |-> IF child[r] = "running" THEN "over" ELSE child[r]]
      /\ steering' = {} /\ Proceed(disk, {}, Runs, {}, fl, NoTimers, {}) /\ Save
      /\ UNCHANGED <<cooling, expired, told>>
  BY DEF Restart
<1>2. /\ disk \in [Runs -> Records \cup {NoRecord}] /\ told \in [Runs -> Nat]
      /\ child \in [Runs -> {"unborn", "running", "over"}] /\ restarts \in 0..MaxRestarts
      /\ cooling \subseteq Runs /\ expired \subseteq Runs
  BY DEF IInv, TypeOK
<1>3. restarts' \in 0..MaxRestarts /\ restarts' > 0
  BY <1>1, <1>2, BoundsAssumption
<1>4. fl \in [Runs -> Flows] /\ NoTimers \in [Runs -> [Attempts -> Nat]]
  BY DEF Flows, NoTimers
<1>5. ASSUME NEW q \in Runs
      PROVE  /\ Fits(disk[q], fl[q], attempts[q], told'[q]) /\ Counts(fl[q], attempts[q], told'[q])
             /\ Claimed(disk[q], fl[q], restarts')
             /\ child'[q] = "unborn" => /\ child[q] = "unborn" /\ disk[q] = NoRecord
                                        /\ fl[q] = "none" /\ told'[q] = 0
             /\ child[q] = "unborn" => child'[q] = "unborn"
  <2>1. /\ Fits(disk[q], flow[q], attempts[q], told[q]) /\ Counts(flow[q], attempts[q], told[q])
        /\ child[q] = "unborn" => Blank(q)
    BY DEF IInv, Sound
  <2>2. fl[q] = "none" /\ told'[q] = told[q]
    BY <1>1
  <2>3. Fits(disk[q], "none", attempts[q], told[q])
    BY <2>1 DEF Fits
  <2>4. Counts("none", attempts[q], told[q]) /\ Claimed(disk[q], "none", restarts')
    BY <1>3, <2>1 DEF Counts, Claimed
  <2>5. child'[q] = "unborn" <=> child[q] = "unborn"
    BY <1>1, <1>2
  <2> HIDE DEF fl
  <2> QED BY <2>1, <2>2, <2>3, <2>4, <2>5 DEF Blank
<1>6. child' \in [Runs -> {"unborn", "running", "over"}]
  BY <1>1, <1>2
<1> HIDE DEF fl
<1>7. Given(disk, fl, NoTimers, {}, {}, Runs, {}, told', restarts')
  BY <1>1, <1>2, <1>4, <1>5 DEF Given
<1> QED BY <1>0, <1>1, <1>2, <1>3, <1>5, <1>6, <1>7, ViaProceed

-----------------------------------------------------------------------------
LEMMA InitIInv == Init => IInv
<1> SUFFICES ASSUME Init PROVE IInv
  OBVIOUS
<1>1. 0 \in 0..MaxRestarts /\ NoTimers \in [Runs -> [Attempts -> Nat]]
  BY BoundsAssumption DEF NoTimers
<1>2. TypeOK
  BY <1>1 DEF Init, TypeOK
<1>3. \A r \in Runs : Sound(r)
  BY BoundsAssumption DEF Init, Sound, Fits, Counts, Claimed, Blank
<1> QED BY <1>2, <1>3 DEF IInv

LEMMA NextIInv == IInv /\ [Next]_vars => IInv'
<1> SUFFICES ASSUME IInv, [Next]_vars PROVE IInv'
  OBVIOUS
<1>1. ASSUME NEW r \in Runs,
             RegisterSubagentRun(r) \/ LifecycleEnd(r) \/ WaitReturns(r) \/ WaitThrows(r)
      PROVE  IInv'
  BY <1>1, RegisterKeeps, LifecycleEndKeeps, WaitReturnsKeeps, WaitThrowsKeeps
<1>2. ASSUME NEW r \in Runs,
             \/ FlowIsClear(r) \/ FlowReturns(r)
             \/ \E didAnnounce, strayed \in BOOLEAN : FlowEnds(r, didAnnounce, strayed)
      PROVE  IInv'
  BY <1>2, FlowIsClearKeeps, FlowEndsKeeps, FlowReturnsKeeps
<1>3. ASSUME NEW r \in Runs, TimerFires(r) \/ DelayPasses(r) \/ Expires(r)
      PROVE  IInv'
  BY <1>3, TimerFiresKeeps, WaitThrowsKeeps
<1>4. ASSUME NEW r \in Runs,
             \/ MarkForSteerRestart(r) \/ ReplaceAfterSteer(r) \/ ClearSteerRestart(r)
             \/ MarkTerminated(r) \/ Sweep(r)
      PROVE  IInv'
  BY <1>4, MarkForSteerKeeps, ReplaceKeeps, ClearSteerKeeps, MarkTerminatedKeeps, SweepKeeps
<1>5. CASE SweepDone \/ Restart
  BY <1>5, SweepDoneKeeps, RestartKeeps
<1>6. CASE UNCHANGED vars
  <2>1. /\ waits' \subseteq Runs /\ cooling' \subseteq Runs /\ expired' \subseteq Runs
        /\ UNCHANGED <<subagentRuns, disk, resumedRuns, timers, child, flow, steering, restarts,
                       attempts, told, strays>>
    BY <1>6 DEF IInv, TypeOK, vars
  <2> QED BY <2>1, StutterKeeps
<1> QED BY <1>1, <1>2, <1>3, <1>4, <1>5, <1>6 DEF Next

\* The records, in memory and on disk, fit the flows, the attempts and the announcements.
THEOREM IInvHolds == Spec => []IInv
BY InitIInv, NextIInv, PTL DEF Spec

(* How often a result may have reached its requester.                        *)

\* A flow that has not delivered is one attempt more than the requests that strayed.
Copied(r) ==
  /\ strays[r] <= attempts[r]
  /\ flow[r] \in {"busy", "clear"} => strays[r] < attempts[r]
  /\ told[r] + strays[r] <= attempts[r] + (IF r \in Expects THEN 1 ELSE 0)

CInv == IInv /\ \A r \in Runs : Copied(r)

\* No attempt is forgotten, and a run whose flow was f has a flow that may deliver only
\* if it had before or a new attempt has begun.
Counted(r, f) ==
  /\ attempts'[r] >= attempts[r]
  /\ flow'[r] \in {"busy", "clear"} => f \in {"busy", "clear"} \/ attempts'[r] > attempts[r]

LEMMA ProceedCounted ==
  ASSUME NEW recs, NEW res, NEW R, NEW B, NEW fl, NEW tm, NEW ws,
         Proceed(recs, res, R, B, fl, tm, ws), NEW r \in Runs, attempts[r] \in Nat
  PROVE  Counted(r, fl[r])
<1> DEFINE begins == r \in Begins(recs, res, R, B)
<1>1. /\ flow'[r] = IF begins THEN "busy" ELSE fl[r]
      /\ attempts'[r] = IF begins THEN attempts[r] + 1 ELSE attempts[r]
  BY DEF Proceed, Begins, Does
<1> HIDE DEF begins
<1> QED BY <1>1 DEF Counted

LEMMA FinalizeCounted ==
  ASSUME IInv, NEW r \in Runs, NEW didAnnounce \in BOOLEAN, Finalize(r, didAnnounce), NEW q \in Runs
  PROVE  Counted(q, IF q = r THEN "none" ELSE flow[q])
<1> DEFINE fl == [flow EXCEPT ![r] = "none"]
<1>1. attempts[q] \in Nat /\ fl[q] = IF q = r THEN "none" ELSE flow[q]
  BY DEF IInv, TypeOK
<1> HIDE DEF fl
<1>2. CASE flow' = fl /\ UNCHANGED attempts
  BY <1>1, <1>2 DEF Counted
<1>3. CASE \E recs, res, R, B : Proceed(recs, res, R, B, fl, timers, waits)
  <2>1. Counted(q, fl[q])
    BY <1>1, <1>3, ProceedCounted
  <2> QED BY <1>1, <2>1
<1>4. (flow' = fl /\ UNCHANGED attempts) \/ \E recs, res, R, B : Proceed(recs, res, R, B, fl, timers, waits)
  BY DEF Finalize, Defer, Settle, fl
<1> QED BY <1>2, <1>3, <1>4

\* What delivers nothing and reports nothing leaves the count of copies as it is.
LEMMA CountedCopied ==
  ASSUME IInv, NEW r \in Runs, Copied(r), attempts'[r] \in Nat, Counted(r, flow[r]),
         told'[r] = told[r], strays'[r] = strays[r]
  PROVE  Copied(r)'
<1>1. attempts[r] \in Nat /\ told[r] \in Nat /\ strays[r] \in Nat
  BY DEF IInv, TypeOK
<1> QED BY <1>1 DEF Counted, Copied

\* A step that does not end a flow, apart from a crash.
LEMMA OthersCopied ==
  ASSUME CInv, IInv', NEW r \in Runs, UNCHANGED <<told, strays>>,
         \/ UNCHANGED <<flow, attempts>>
         \/ UNCHANGED attempts /\ \E q \in Runs : flow[q] = "busy" /\ flow' = [flow EXCEPT ![q] = "clear"]
         \/ \E recs, res, R, B, tm, ws : Proceed(recs, res, R, B, flow, tm, ws)
         \/ \E q \in Runs, didAnnounce \in BOOLEAN : Finalize(q, didAnnounce)
  PROVE  Copied(r)'
<1>1. attempts[r] \in Nat /\ attempts'[r] \in Nat /\ flow \in [Runs -> Flows]
  BY DEF CInv, IInv, TypeOK, Flows
<1>2. CASE UNCHANGED <<flow, attempts>>
  BY <1>1, <1>2, CountedCopied DEF CInv, Counted
<1>3. CASE UNCHANGED attempts /\ \E q \in Runs : flow[q] = "busy" /\ flow' = [flow EXCEPT ![q] = "clear"]
  BY <1>1, <1>3, CountedCopied DEF CInv, Counted
<1>4. CASE \E recs, res, R, B, tm, ws : Proceed(recs, res, R, B, flow, tm, ws)
  BY <1>1, <1>4, ProceedCounted, CountedCopied DEF CInv
<1>5. CASE \E q \in Runs, didAnnounce \in BOOLEAN : Finalize(q, didAnnounce)
  <2>1. PICK q \in Runs, didAnnounce \in BOOLEAN : Finalize(q, didAnnounce)
    BY <1>5
  <2>2. Counted(r, IF r = q THEN "none" ELSE flow[r])
    BY <2>1, FinalizeCounted DEF CInv
  <2>3. Counted(r, flow[r])
    BY <2>2 DEF Counted
  <2> QED BY <1>1, <2>3, CountedCopied DEF CInv
<1> QED BY <1>2, <1>3, <1>4, <1>5

\* The end of a flow uses up its attempt.
LEMMA FlowEndsCopied ==
  ASSUME CInv, IInv', NEW q \in Runs, NEW didAnnounce \in BOOLEAN, NEW strayed \in BOOLEAN,
         FlowEnds(q, didAnnounce, strayed), NEW r \in Runs
  PROVE  Copied(r)'
<1>1. /\ attempts[r] \in Nat /\ attempts'[r] \in Nat /\ told[r] \in Nat /\ strays[r] \in Nat
      /\ flow \in [Runs -> Flows] /\ told \in [Runs -> Nat] /\ strays \in [Runs -> Nat]
      /\ Copied(r) /\ Counts(flow[r], attempts[r], told[r])
  BY DEF CInv, IInv, TypeOK, Flows, Sound
<1>2. /\ told' = [told EXCEPT ![q] = IF didAnnounce THEN @ + 1 ELSE @]
      /\ strays' = [strays EXCEPT ![q] = IF strayed THEN @ + 1 ELSE @]
      /\ flow[q] \in {"busy", "clear"} /\ (didAnnounce /\ strayed => q \in Expects)
  BY DEF FlowEnds
<1>3. Counted(r, IF r = q THEN "none" ELSE flow[r])
  <2>1. CASE Finalize(q, didAnnounce)
    BY <2>1, FinalizeCounted DEF CInv
  <2>2. CASE flow' = [flow EXCEPT ![q] = IF didAnnounce THEN "told" ELSE "untold"] /\ UNCHANGED attempts
    BY <1>1, <2>2 DEF Counted
  <2> QED BY <2>1, <2>2 DEF FlowEnds
<1>4. CASE r = q
  <2>1. /\ told[r] = 0 /\ strays[r] < attempts[r]
        /\ told'[r] = (IF didAnnounce THEN 1 ELSE 0)
        /\ strays'[r] = IF strayed THEN strays[r] + 1 ELSE strays[r]
    BY <1>1, <1>2, <1>4 DEF Counts, Copied
  <2> QED BY <1>1, <1>2, <1>3, <1>4, <2>1 DEF Counted, Copied
<1>5. CASE r # q
  BY <1>1, <1>2, <1>3, <1>5, CountedCopied DEF CInv
<1> QED BY <1>4, <1>5

\* A crash may leave the request of a flow that had not ended.
LEMMA RestartCopied ==
  ASSUME CInv, IInv', Restart, NEW r \in Runs PROVE Copied(r)'
<1> DEFINE fl == [q \in Runs |-> "none"]
<1>1. /\ attempts[r] \in Nat /\ attempts'[r] \in Nat /\ told[r] \in Nat /\ strays[r] \in Nat
      /\ Copied(r) /\ Counts(flow[r], attempts[r], told[r])
  BY DEF CInv, IInv, TypeOK, Sound
<1>2. /\ told'[r] = told[r]
      /\ strays'[r] = strays[r] \/ (flow[r] = "clear" /\ strays'[r] = strays[r] + 1)
  BY DEF Restart
<1>3. Proceed(disk, {}, Runs, {}, fl, NoTimers, {}) /\ fl[r] = "none"
  BY DEF Restart
<1> HIDE DEF fl
<1>4. Counted(r, "none")
  BY <1>1, <1>3, ProceedCounted
<1> QED BY <1>1, <1>2, <1>4 DEF Counted, Copied, Counts

LEMMA NextCopied ==
  ASSUME CInv, [Next]_vars PROVE CInv'
<1> IInv'
  BY NextIInv DEF CInv
<1>1. ASSUME NEW q \in Runs, NEW r \in Runs,
             LifecycleEnd(q) \/ WaitReturns(q) \/ TimerFires(q) \/ ClearSteerRestart(q)
      PROVE  Copied(r)'
  BY <1>1, OthersCopied DEF LifecycleEnd, WaitReturns, TimerFires, ClearSteerRestart
<1>2. ASSUME NEW q \in Runs, NEW r \in Runs, FlowIsClear(q) \/ FlowReturns(q)
      PROVE  Copied(r)'
  BY <1>2, OthersCopied DEF FlowIsClear, FlowReturns
<1>3. ASSUME NEW q \in Runs, NEW r \in Runs,
             \/ RegisterSubagentRun(q) \/ WaitThrows(q) \/ DelayPasses(q) \/ Expires(q)
             \/ MarkForSteerRestart(q) \/ ReplaceAfterSteer(q) \/ MarkTerminated(q) \/ Sweep(q)
      PROVE  Copied(r)'
  <2>1. UNCHANGED <<flow, attempts, told, strays>>
    BY <1>3 DEF RegisterSubagentRun, WaitThrows, DelayPasses, Expires, MarkForSteerRestart,
                ReplaceAfterSteer, MarkTerminated, Sweep
  <2> QED BY <2>1, OthersCopied
<1>4. ASSUME NEW r \in Runs, SweepDone \/ UNCHANGED vars PROVE Copied(r)'
  BY <1>4, OthersCopied DEF SweepDone, vars
<1> QED BY <1>1, <1>2, <1>3, <1>4, FlowEndsCopied, RestartCopied DEF Next, CInv

-----------------------------------------------------------------------------
\* The values keep their types for any runs and requesters; in particular no retry,
\* whoever asks for it, takes the retry count of a record past the limit.
THEOREM TypeCorrect == Spec => []TypeOK
<1>1. IInv => TypeOK
  BY DEF IInv
<1> QED BY <1>1, IInvHolds, PTL

\* A result is reported as delivered at most once, in at most MAX_ANNOUNCE_RETRY_COUNT
\* attempts, each of which may have reached the requester once, and the one that steers or
\* queues a completion message twice, whatever reports of its end, timers, steers, sweeps
\* and crashes come together.
THEOREM AnnouncedAtMostOnce == Spec => []AnnouncedOnce
<1>1. Init => CInv
  BY InitIInv DEF Init, CInv, Copied
<1>2. CInv /\ [Next]_vars => CInv'
  BY NextCopied
<1>3. CInv => AnnouncedOnce
  BY DEF CInv, IInv, Sound, Counts, Copied, AnnouncedOnce
<1> QED BY <1>1, <1>2, <1>3, PTL DEF Spec

\* No flow was ever begun for a run that was killed or is held back for a steer.
THEOREM SilencedStaySilent == Spec => []SilencedIsSilent
<1>1. IInv => SilencedIsSilent
  BY MemoryFits DEF SilencedIsSilent, Known, Fits
<1> QED BY <1>1, IInvHolds, PTL

\* The claim on a record and the flow that serves it go together.
THEOREM ClaimsHaveFlows == Spec => []ClaimHasFlow
<1>1. ASSUME IInv, NEW r \in Known(subagentRuns)
      PROVE  /\ subagentRuns[r].cleanupHandled /\ ~subagentRuns[r].cleanupCompleted
                  => flow[r] # "none" \/ restarts > 0
             /\ flow[r] # "none" => subagentRuns[r].cleanupHandled
  BY <1>1, MemoryFits DEF Known, Fits, Claimed
<1>2. IInv => ClaimHasFlow
  BY <1>1 DEF ClaimHasFlow
<1> QED BY <1>2, IInvHolds, PTL

-----------------------------------------------------------------------------
(* That a deferred run is served.  The invariant is about a gateway that did *)
(* not crash: a deferred run waits for another one that is open, which will  *)
(* settle, and take it up, or is lost.                                       *)

Gone(r) == Successor[r] # r /\ child[Successor[r]] # "unborn"

\* What is known of a run whatever its record says.
Story(r) ==
  /\ flow[r] # "none" => attempts[r] > 0
  /\ told[r] <= attempts[r]
  /\ flow[r] = "told" => told[r] > 0
  /\ flow[r] = "untold" => r \in Labelled \cup DeliveryFails
  /\ r \in steering => child[r] # "unborn"
  /\ \A n \in Attempts : timers[r][n] > 0 => r \in Expects

\* The record of a run is held back exactly while it is steered; it is gone from the disk
\* too if the run was replaced; and it goes when that happens, by the sweeper, or when the
\* run was announced.
Present(r) ==
  /\ subagentRuns[r] # NoRecord => /\ r \in steering => subagentRuns[r].suppress # "none"
                                   /\ subagentRuns[r].suppress = "steer-restart" => r \in steering
  /\ Gone(r) => subagentRuns[r] = NoRecord /\ disk[r] = NoRecord
  /\ child[r] # "unborn" /\ subagentRuns[r] = NoRecord => r \in Archived \/ Gone(r) \/ told[r] > 0
  /\ subagentRuns[r] = NoRecord /\ disk[r] # NoRecord => r \in Archived
  /\ child[r] = "unborn" => ~Gone(r)

\* One run of a session has a record or is steered, and while an earlier one goes on it
\* goes on too.
Heads == Known(subagentRuns) \cup steering
OneHead(q, r) ==
  Session[q] = Session[r] /\ q # r =>
    /\ ~(q \in Heads /\ r \in Heads)
    /\ r \in Known(subagentRuns) /\ child[q] = "running" => child[r] = "running"

Whole == \A r \in Runs : Present(r) /\ \A q \in Runs : OneHead(q, r)

\* Run r waits for another one to settle.
Stalled(r) ==
  /\ r \in Known(subagentRuns) \ (Expects \cup steering)
  /\ subagentRuns[r].ended /\ ~subagentRuns[r].cleanupCompleted
  /\ flow[r] = "none" /\ child[r] # "running"

Active(r) ==
  /\ r \in Known(subagentRuns)
  /\ \/ flow[r] # "none"
     \/ /\ ~subagentRuns[r].cleanupCompleted
        /\ ~subagentRuns[r].ended \/ r \in Expects \cup steering \/ child[r] = "running"

\* Run r settled none, and will not.
Missing(r) ==
  /\ child[r] # "unborn" /\ ~Gone(r)
  /\ \/ told[r] = 0 /\ (r \in Known(subagentRuns) => subagentRuns[r].cleanupCompleted)
     \/ r \in Archived \ Known(subagentRuns)

Open(r) == Active(r) \/ Missing(r)

Waited == (\E r \in Runs : Stalled(r)) => \E q \in Runs : Open(q)

Patient == Labelled \cup DeliveryFails \subseteq Expects

Served ==
  /\ \A r \in Runs : Story(r)
  /\ restarts = 0 => Whole
  /\ restarts = 0 /\ Patient => Waited

DInv == IInv /\ Served

\* What Proceed is given.
Ready(recs, fl, tm, B) ==
  /\ recs \in [Runs -> Records \cup {NoRecord}]
  /\ fl \in [Runs -> Flows] /\ tm \in [Runs -> [Attempts -> Nat]] /\ attempts \in [Runs -> Nat]
  /\ \A q \in B \cap Known(recs) : recs[q].ended /\ recs[q].suppress # "steer-restart"

\* What it does to one run, whether or not it is resumed.
Effect(recs, res, R, B, fl, tm, q) ==
  /\ subagentRuns'[q] = NoRecord <=> recs[q] = NoRecord
  /\ recs[q] # NoRecord => /\ subagentRuns'[q].ended = recs[q].ended
                           /\ subagentRuns'[q].suppress = recs[q].suppress
                           /\ recs[q].cleanupCompleted => subagentRuns'[q].cleanupCompleted
  /\ flow'[q] = IF q \in Begins(recs, res, R, B) THEN "busy" ELSE fl[q]
  /\ q \notin Begins(recs, res, R, B) /\ ~Does(recs, res, R, q, "giveUp") => subagentRuns'[q] = recs[q]
  /\ q \notin Begins(recs, res, R, B) /\ Does(recs, res, R, q, "giveUp")
       => subagentRuns'[q].cleanupCompleted
  /\ attempts'[q] = IF q \in Begins(recs, res, R, B) THEN attempts[q] + 1 ELSE attempts[q]
  /\ \A n \in Attempts : timers'[q][n] > 0 => tm[q][n] > 0 \/ q \in Expects

\* Of a run that is resumed or begun, only what the waiting depends on.
LEMMA ProceedEffect ==
  ASSUME NEW recs, NEW res, NEW R, NEW B, NEW fl, NEW tm, NEW ws,
         Ready(recs, fl, tm, B), Proceed(recs, res, R, B, fl, tm, ws), NEW q \in Runs
  PROVE  Effect(recs, res, R, B, fl, tm, q)
<1>0. /\ recs \in [Runs -> Records \cup {NoRecord}]
      /\ fl \in [Runs -> Flows] /\ tm \in [Runs -> [Attempts -> Nat]] /\ attempts \in [Runs -> Nat]
      /\ \A r \in B \cap Known(recs) : recs[r].ended /\ recs[r].suppress # "steer-restart"
  BY DEF Ready
<1>1. /\ subagentRuns'[q] =
            IF q \in Begins(recs, res, R, B) THEN [recs[q] EXCEPT !.cleanupHandled = TRUE]
            ELSE IF Does(recs, res, R, q, "giveUp") THEN [recs[q] EXCEPT !.cleanupCompleted = TRUE]
            ELSE recs[q]
      /\ flow'[q] = IF q \in Begins(recs, res, R, B) THEN "busy" ELSE fl[q]
      /\ attempts'[q] = IF q \in Begins(recs, res, R, B) THEN attempts[q] + 1 ELSE attempts[q]
  BY ProceedValues
<1>2. q \in Begins(recs, res, R, B) => recs[q] # NoRecord
  BY <1>0, BeginsIf
<1>3. Does(recs, res, R, q, "giveUp") => recs[q] # NoRecord
  BY DEF Does, Known
<1>4. /\ subagentRuns'[q] = NoRecord <=> recs[q] = NoRecord
      /\ recs[q] # NoRecord => /\ subagentRuns'[q].ended = recs[q].ended
                               /\ subagentRuns'[q].suppress = recs[q].suppress
                               /\ recs[q].cleanupCompleted => subagentRuns'[q].cleanupCompleted
      /\ q \notin Begins(recs, res, R, B) /\ Does(recs, res, R, q, "giveUp")
              => subagentRuns'[q].cleanupCompleted
  <2>1. recs[q] # NoRecord => recs[q] \in Records
    BY <1>0
  <2>2. ASSUME recs[q] # NoRecord
        PROVE  /\ [recs[q] EXCEPT !.cleanupHandled = TRUE] \in Records
               /\ [recs[q] EXCEPT !.cleanupCompleted = TRUE] \in Records
    BY <2>1, <2>2 DEF Records
  <2> QED BY <1>1, <1>2, <1>3, <2>1, <2>2, RunsAssumption DEF Records
<1>5. \A n \in Attempts : timers'[q][n] > 0 => tm[q][n] > 0 \/ q \in Expects
  <2>1. timers'[q] = IF Does(recs, res, R, q, "later")
                     THEN [tm[q] EXCEPT ![recs[q].retryCount] = @ + 1] ELSE tm[q]
    BY DEF Proceed, Does
  <2>2. Does(recs, res, R, q, "later") => q \in Expects
    BY DEF Does, Resume
  <2> QED BY <1>0, <2>1, <2>2
<1> QED BY <1>1, <1>4, <1>5 DEF Effect

\* Whole is kept by a step that registers no run: the heads of sessions stay so.
LEMMA WholeKeeps ==
  ASSUME Whole,
         \A r \in Runs : subagentRuns'[r] # NoRecord =>
           /\ subagentRuns[r] # NoRecord
           /\ r \in steering' => subagentRuns'[r].suppress # "none"
           /\ subagentRuns'[r].suppress = "steer-restart" => r \in steering',
         steering' \subseteq Heads,
         \A r \in Runs : /\ child'[r] = "unborn" <=> child[r] = "unborn"
                         /\ child'[r] = "running" => child[r] = "running"
                         /\ told[r] > 0 => told'[r] > 0
                         /\ disk'[r] \in {disk[r], subagentRuns'[r]},
         \A r \in Runs : subagentRuns'[r] # NoRecord /\ child[r] = "running" /\ child'[r] # "running"
                           => \A q \in Runs \ {r} : Session[q] = Session[r] => child[q] # "running",
         \A r \in Runs : subagentRuns[r] # NoRecord /\ subagentRuns'[r] = NoRecord
                           => r \in Archived \/ (told'[r] > 0 /\ disk'[r] = NoRecord)
  PROVE  Whole'
<1>1. \A r \in Runs : Gone(r)' <=> Gone(r)
  BY RunsAssumption DEF Gone
<1>2. ASSUME NEW r \in Runs PROVE Present(r)'
  <2>1. Present(r)
    BY DEF Whole
  <2> QED BY <1>1, <2>1 DEF Present
<1>3. \A r \in Runs : r \in Heads' => r \in Heads
  BY DEF Heads, Known
<1>4. ASSUME NEW r \in Runs, NEW q \in Runs PROVE OneHead(q, r)'
  <2>1. OneHead(q, r)
    BY DEF Whole
  <2>2. r \in Known(subagentRuns)' => r \in Known(subagentRuns) /\ subagentRuns'[r] # NoRecord
    BY DEF Known
  <2> QED BY <1>3, <2>1, <2>2 DEF OneHead
<1> QED BY <1>2, <1>4 DEF Whole

\* Somebody is waited for after a step that touches run r only, if r stays open and
\* starts to wait for one that is.
LEMMA WaitedKeeps ==
  ASSUME Waited, NEW r \in Runs,
         \A q \in Runs \ {r} : /\ subagentRuns'[q] = subagentRuns[q] /\ flow'[q] = flow[q]
                               /\ told'[q] = told[q] /\ child'[q] = child[q]
                               /\ q \in steering' <=> q \in steering,
         child'[r] = "unborn" <=> child[r] = "unborn",
         Open(r) => Open(r)', Stalled(r)' => Stalled(r)
  PROVE  Waited'
<1>1. \A q \in Runs : Gone(q)' <=> Gone(q)
  BY RunsAssumption DEF Gone
<1>2. ASSUME NEW q \in Runs PROVE (Open(q) => Open(q)') /\ (Stalled(q)' => Stalled(q))
  <2>1. CASE q = r
    BY <2>1
  <2>2. CASE q # r
    BY <1>1, <2>2 DEF Open, Active, Missing, Stalled, Known
  <2> QED BY <2>1, <2>2
<1> QED BY <1>2 DEF Waited

\* While a run is open nobody waits in vain.
LEMMA OpenWaited == ASSUME NEW r \in Runs, Open(r)' PROVE Waited'
BY DEF Waited

\* Waiting is about records, flows, announcements, runs and steers.
LEMMA SameWaited ==
  ASSUME Waited, UNCHANGED <<subagentRuns, flow, told, child, steering>> PROVE Waited'
BY DEF Waited, Open, Active, Missing, Stalled, Known, Gone

\* What the types and the invariant of the records say of one run.
LEMMA RunFacts ==
  ASSUME IInv, NEW r \in Runs, Story(r)
  PROVE  /\ subagentRuns[r] # NoRecord => /\ subagentRuns[r] \in Records /\ child[r] # "unborn"
                                          /\ disk[r] = subagentRuns[r]
         /\ subagentRuns[r] # NoRecord /\ (~subagentRuns[r].ended \/ subagentRuns[r].suppress # "none")
              => attempts[r] = 0 /\ flow[r] = "none" /\ told[r] = 0
         /\ /\ subagentRuns[r] # NoRecord /\ ~subagentRuns[r].cleanupCompleted
            /\ flow[r] = "none" /\ restarts = 0
           => told[r] = 0 /\ ~subagentRuns[r].cleanupHandled
         /\ subagentRuns[r] # NoRecord /\ subagentRuns[r].suppress = "killed"
              => subagentRuns[r].cleanupCompleted
         /\ flow[r] \in {"busy", "clear", "untold"} => told[r] = 0
         /\ flow[r] # "none" => child[r] # "unborn"
         /\ told[r] \in Nat /\ told[r] <= 1 /\ attempts[r] \in Nat /\ flow[r] \in Flows
         /\ child[r] \in {"unborn", "running", "over"}
         /\ disk[r] # NoRecord => child[r] # "unborn"
<1>1. /\ Fits(subagentRuns[r], flow[r], attempts[r], told[r])
      /\ Counts(flow[r], attempts[r], told[r]) /\ Claimed(subagentRuns[r], flow[r], restarts)
      /\ child[r] = "unborn" => Blank(r)
      /\ subagentRuns[r] \in Records \cup {NoRecord} /\ attempts[r] \in Nat /\ told[r] \in Nat
  BY MemoryFits
<1>2. /\ subagentRuns[r] # NoRecord => disk[r] = subagentRuns[r]
      /\ flow[r] \in Flows /\ child[r] \in {"unborn", "running", "over"}
  BY DEF IInv, Sound, TypeOK, Flows
<1>3. /\ flow[r] # "none" => attempts[r] > 0
      /\ told[r] <= attempts[r]
  BY DEF Story
<1>4. subagentRuns[r] # NoRecord /\ (~subagentRuns[r].ended \/ subagentRuns[r].suppress # "none")
              => attempts[r] = 0
  BY <1>1 DEF Fits
<1>5. subagentRuns[r] # NoRecord /\ (flow[r] # "none" \/ told[r] > 0) => subagentRuns[r].cleanupHandled
  BY <1>1 DEF Fits
<1>6. subagentRuns[r] # NoRecord /\ subagentRuns[r].cleanupHandled /\ ~subagentRuns[r].cleanupCompleted
        => flow[r] # "none" \/ restarts > 0
  BY <1>1 DEF Claimed
<1>7. /\ subagentRuns[r] # NoRecord /\ subagentRuns[r].suppress = "killed"
           => subagentRuns[r].cleanupCompleted
      /\ flow[r] \in {"busy", "clear", "untold"} => told[r] = 0
      /\ told[r] <= 1
  BY <1>1 DEF Fits, Counts
<1>8. child[r] = "unborn" => subagentRuns[r] = NoRecord /\ disk[r] = NoRecord /\ flow[r] = "none"
  BY <1>1 DEF Blank
<1> QED BY <1>1, <1>2, <1>3, <1>4, <1>5, <1>6, <1>7, <1>8

\* The steps that leave records, flows and runs alone.
LEMMA PlainServed ==
  ASSUME DInv, disk' \in {disk, subagentRuns'},
         UNCHANGED <<subagentRuns, flow, timers, child, steering, restarts, attempts, told>>
  PROVE  Served'
<1>1. \A r \in Runs : Story(r)'
  BY DEF DInv, Served, Story
<1>2. restarts' = 0 => Whole'
  <2> SUFFICES ASSUME restarts = 0 PROVE Whole'
    OBVIOUS
  <2>1. Whole
    BY DEF DInv, Served
  <2>2. \A r \in Runs : subagentRuns[r] # NoRecord =>
           /\ r \in steering => subagentRuns[r].suppress # "none"
           /\ subagentRuns[r].suppress = "steer-restart" => r \in steering
    BY <2>1 DEF Whole, Present
  <2>3. steering' \subseteq Heads
    BY DEF Heads
  <2>4. \A r \in Runs : disk'[r] \in {disk[r], subagentRuns'[r]}
    OBVIOUS
  <2> QED BY <2>1, <2>2, <2>3, <2>4, WholeKeeps
<1>3. restarts' = 0 /\ Patient => Waited'
  BY SameWaited DEF DInv, Served
<1> QED BY <1>1, <1>2, <1>3 DEF Served

\* The flow of a run goes on.
LEMMA ClearServed ==
  ASSUME DInv, NEW r \in Runs, FlowIsClear(r) PROVE Served'
<1>1. /\ flow[r] = "busy" /\ flow' = [flow EXCEPT ![r] = "clear"]
      /\ UNCHANGED <<subagentRuns, disk, timers, child, steering, restarts, attempts, told>>
  BY DEF FlowIsClear
<1>2. flow \in [Runs -> Flows]
  BY DEF DInv, IInv, TypeOK, Flows
<1>3. \A q \in Runs : flow'[q] = IF q = r THEN "clear" ELSE flow[q]
  BY <1>1, <1>2
<1>4. \A q \in Runs : Story(q)'
  BY <1>1, <1>3 DEF DInv, Served, Story
<1>5. restarts' = 0 => Whole'
  <2>1. restarts = 0 => Whole
    BY DEF DInv, Served
  <2> QED BY <1>1, <2>1 DEF Whole, Present, OneHead, Heads, Known, Gone
<1>6. restarts' = 0 /\ Patient => Waited'
  <2> SUFFICES ASSUME restarts = 0, Waited PROVE Waited'
    BY <1>1 DEF DInv, Served
  <2>1. Open(r) => Open(r)'
    BY <1>1, <1>3 DEF Open, Active, Missing, Known, Gone
  <2>2. ~Stalled(r)'
    BY <1>3 DEF Stalled
  <2> QED BY <1>1, <1>3, <2>1, <2>2, WaitedKeeps
<1> QED BY <1>4, <1>5, <1>6 DEF Served

\* Registration: a run of a new session is open.
LEMMA RegisterServed ==
  ASSUME DInv, NEW r \in Runs, RegisterSubagentRun(r) PROVE Served'
<1>1. /\ \A q \in Runs : /\ Session[q] = Session[r] => child[q] = "unborn"
                         /\ Successor[q] = r => q = r
      /\ subagentRuns' = [subagentRuns EXCEPT ![r] = NewRecord] /\ disk' = subagentRuns'
      /\ UNCHANGED <<timers, flow, steering, restarts, attempts, told>>
  BY DEF RegisterSubagentRun, Save
<1>2. PICK c \in {"running", "over"} : child' = [child EXCEPT ![r] = c]
  BY DEF RegisterSubagentRun
<1>3. /\ subagentRuns \in [Runs -> Records \cup {NoRecord}] /\ steering \subseteq Runs
      /\ child \in [Runs -> {"unborn", "running", "over"}]
  BY DEF DInv, IInv, TypeOK
<1>4. /\ NewRecord # NoRecord /\ NewRecord.suppress = "none" /\ ~NewRecord.ended
      /\ ~NewRecord.cleanupCompleted
  BY NewRecordType DEF NewRecord
<1>5. \A q \in Runs : /\ subagentRuns'[q] = IF q = r THEN NewRecord ELSE subagentRuns[q]
                      /\ child'[q] = IF q = r THEN c ELSE child[q]
  BY <1>1, <1>2, <1>3
<1>6. ASSUME NEW q \in Runs PROVE Story(q)'
  <2>1. Story(q)
    BY DEF DInv, Served
  <2> QED BY <1>1, <1>5, <2>1 DEF Story
<1>7. \A q \in Runs : Session[q] = Session[r] => subagentRuns[q] = NoRecord /\ q \notin steering
                                                /\ child[q] = "unborn"
  BY <1>1, RunFacts DEF DInv, Served, Story
<1>8. ASSUME restarts = 0 PROVE Whole'
  <2>1. Whole
    BY <1>8 DEF DInv, Served
  <2>2. \A q \in Runs : q # r => (Gone(q)' <=> Gone(q))
    BY <1>1, <1>5, RunsAssumption DEF Gone
  <2>3. ~Gone(r)'
    <3>1. Session[Successor[r]] = Session[r] /\ Successor[r] \in Runs
      BY RunsAssumption
    <3> QED BY <1>5, <1>7, <3>1 DEF Gone
  <2>4. ASSUME NEW q \in Runs PROVE Present(q)'
    <3>1. Present(q)
      BY <2>1 DEF Whole
    <3>2. CASE q = r
      BY <1>1, <1>4, <1>5, <1>7, <2>3, <3>2 DEF Present
    <3>3. CASE q # r
      BY <1>1, <1>5, <2>2, <3>1, <3>3 DEF Present
    <3> QED BY <3>2, <3>3
  <2>5. ASSUME NEW q \in Runs, NEW h \in Runs PROVE OneHead(q, h)'
    <3>1. OneHead(q, h)
      BY <2>1 DEF Whole
    <3>2. CASE q # r /\ h # r
      BY <1>1, <1>5, <3>1, <3>2 DEF OneHead, Heads, Known
    <3>3. CASE (q = r \/ h = r) /\ q # h
      BY <1>1, <1>5, <1>7, <3>3 DEF OneHead, Heads, Known
    <3> QED BY <3>2, <3>3 DEF OneHead
  <2> QED BY <2>4, <2>5 DEF Whole
<1>9. Waited'
  <2>1. Open(r)'
    BY <1>4, <1>5 DEF Open, Active, Known
  <2> QED BY <2>1, OpenWaited
<1> QED BY <1>1, <1>6, <1>8, <1>9 DEF Served

\* An end that is reported makes the run open, or changes nothing of a run that is settled.
LEMMA EndedServed ==
  ASSUME DInv, NEW r \in Runs, subagentRuns[r] # NoRecord, NEW recs, NEW ws,
         recs = [subagentRuns EXCEPT ![r].ended = TRUE],
         Proceed(recs, resumedRuns, {}, EndFlows(r, recs), flow, timers, ws), Save,
         UNCHANGED <<steering, restarts, told>>,
         child' \in [Runs -> {"running", "over", "unborn"}],
         \A q \in Runs \ {r} : child'[q] = child[q],
         child'[r] = "unborn" <=> child[r] = "unborn", child'[r] = "running" => child[r] = "running",
         child[r] = "running" /\ child'[r] # "running" =>
           \A q \in Runs \ {r} : Session[q] = Session[r] => child[q] # "running"
  PROVE  Served'
<1>1. /\ subagentRuns \in [Runs -> Records \cup {NoRecord}] /\ subagentRuns[r] \in Records
      /\ flow \in [Runs -> Flows] /\ timers \in [Runs -> [Attempts -> Nat]]
      /\ attempts \in [Runs -> Nat]
  BY DEF DInv, IInv, TypeOK, Flows
<1>2. /\ recs \in [Runs -> Records \cup {NoRecord}]
      /\ \A q \in Runs : q # r => recs[q] = subagentRuns[q]
      /\ recs[r] # NoRecord /\ recs[r].ended = TRUE
      /\ recs[r].suppress = subagentRuns[r].suppress
      /\ recs[r].cleanupCompleted = subagentRuns[r].cleanupCompleted
      /\ recs[r].cleanupHandled = subagentRuns[r].cleanupHandled
  <2>1. [subagentRuns[r] EXCEPT !.ended = TRUE] \in Records
    BY <1>1 DEF Records
  <2> QED BY <1>1, <2>1, RunsAssumption DEF Records
<1> DEFINE B == EndFlows(r, recs)
<1>3. B \subseteq {r} /\ \A q \in B \cap Known(recs) : recs[q].ended /\ recs[q].suppress # "steer-restart"
  BY <1>2 DEF EndFlows
<1>4. Proceed(recs, resumedRuns, {}, B, flow, timers, ws)
  OBVIOUS
<1>5. r \notin B => subagentRuns[r].suppress = "steer-restart"
  BY <1>2 DEF EndFlows
<1> HIDE DEF B
<1>6. \A q \in Runs : q \in Begins(recs, resumedRuns, {}, B) <=> q = r /\ r \in B /\ MayBegin(recs[r])
  BY <1>2, <1>3 DEF Begins, Does, Known
<1>7. \A q \in Runs : q # r => q \notin Begins(recs, resumedRuns, {}, B)
  BY <1>6
<1>8. Ready(recs, flow, timers, B)
  BY <1>1, <1>2, <1>3 DEF Ready
<1>9. \A q \in Runs : Effect(recs, resumedRuns, {}, B, flow, timers, q)
  BY <1>4, <1>8, ProceedEffect
<1>10. ASSUME NEW q \in Runs
      PROVE  /\ subagentRuns'[q] = NoRecord <=> recs[q] = NoRecord
             /\ recs[q] # NoRecord => /\ subagentRuns'[q].ended = recs[q].ended
                                      /\ subagentRuns'[q].suppress = recs[q].suppress
                                      /\ recs[q].cleanupCompleted => subagentRuns'[q].cleanupCompleted
             /\ flow'[q] = IF q \in Begins(recs, resumedRuns, {}, B) THEN "busy" ELSE flow[q]
             /\ q \notin Begins(recs, resumedRuns, {}, B) => subagentRuns'[q] = recs[q]
             /\ attempts'[q] = IF q \in Begins(recs, resumedRuns, {}, B) THEN attempts[q] + 1 ELSE attempts[q]
             /\ \A n \in Attempts : timers'[q][n] > 0 => timers[q][n] > 0 \/ q \in Expects
  <2>1. ~Does(recs, resumedRuns, {}, q, "giveUp")
    BY DEF Does
  <2> QED BY <1>9, <2>1 DEF Effect
<1>11. \A q \in Runs : q # r => subagentRuns'[q] = subagentRuns[q]
  BY <1>2, <1>7, <1>10
<1>12. \A q \in Runs : flow'[q] = IF q = r /\ r \in B /\ MayBegin(recs[r]) THEN "busy" ELSE flow[q]
  BY <1>6, <1>10
<1>13. ASSUME NEW q \in Runs PROVE Story(q)'
  <2>1. Story(q) /\ told[q] \in Nat /\ attempts[q] \in Nat
    BY RunFacts DEF DInv, Served
  <2>2. child'[q] = "unborn" => child[q] = "unborn"
    OBVIOUS
  <2>3. told[q] <= attempts[q] /\ (flow[q] # "none" => attempts[q] > 0)
    BY <2>1 DEF Story
  <2>8. attempts'[q] = attempts[q] + 1 \/ (attempts'[q] = attempts[q] /\ flow'[q] = flow[q])
    BY <1>10
  <2>4. flow'[q] # "none" => attempts'[q] > 0
    BY <2>1, <2>3, <2>8
  <2>5. told'[q] <= attempts'[q]
    BY <2>1, <2>3, <2>8
  <2>6. flow'[q] # flow[q] => flow'[q] = "busy"
    BY <1>10
  <2>7. \A n \in Attempts : timers'[q][n] > 0 => q \in Expects
    BY <1>10, <2>1 DEF Story
  <2> QED BY <2>1, <2>2, <2>4, <2>5, <2>6, <2>7 DEF Story
<1>14. ASSUME restarts = 0 PROVE Whole'
  <2>1. Whole
    BY <1>14 DEF DInv, Served
  <2>2. ASSUME NEW q \in Runs, subagentRuns'[q] # NoRecord
        PROVE  /\ subagentRuns[q] # NoRecord
               /\ subagentRuns'[q].suppress = subagentRuns[q].suppress
               /\ q \in steering => subagentRuns[q].suppress # "none"
               /\ subagentRuns[q].suppress = "steer-restart" => q \in steering
    BY <1>2, <1>10, <1>11, <2>1, <2>2 DEF Whole, Present
  <2>3. \A q \in Runs : subagentRuns[q] # NoRecord => subagentRuns'[q] # NoRecord
    BY <1>2, <1>10
  <2>4. steering' \subseteq Heads /\ disk' = subagentRuns'
    BY DEF Heads, Save
  <2> QED BY <2>1, <2>2, <2>3, <2>4, WholeKeeps
<1>15. ASSUME restarts = 0, Waited PROVE Waited'
  <2>1. Whole
    BY <1>15 DEF DInv, Served
  <2>2. r \in steering \/ r \in B
    BY <1>5, <2>1 DEF Whole, Present
  <2>3. CASE subagentRuns'[r].cleanupCompleted
    <3>1. ~Stalled(r)'
      BY <2>3 DEF Stalled
    <3>2. recs[r].cleanupCompleted \/ flow'[r] # "none"
      BY <1>10, <2>3
    <3>3. flow[r] # "none" => flow'[r] # "none"
      BY <1>12
    <3>4. Open(r) => Open(r)'
      <4>1. subagentRuns'[r] # NoRecord
        BY <1>2, <1>10
      <4>2. Gone(r)' <=> Gone(r)
        BY RunsAssumption DEF Gone
      <4>3. CASE flow'[r] # "none"
        BY <4>1, <4>3 DEF Open, Active, Known
      <4>4. CASE recs[r].cleanupCompleted /\ flow'[r] = "none"
        <5>1. Open(r) => Missing(r)
          BY <1>2, <3>3, <4>4 DEF Open, Active
        <5>2. Missing(r) => Missing(r)'
          BY <2>3, <4>1, <4>2 DEF Missing, Known
        <5> QED BY <5>1, <5>2 DEF Open
      <4> QED BY <3>2, <4>3, <4>4
    <3> QED BY <1>11, <1>12, <1>15, <3>1, <3>4, WaitedKeeps
  <2>4. CASE ~subagentRuns'[r].cleanupCompleted
    <3>1. subagentRuns'[r] # NoRecord /\ ~subagentRuns[r].cleanupCompleted
      BY <1>2, <1>10, <2>4
    <3>2. r \in B /\ MayBegin(recs[r]) => flow'[r] # "none"
      BY <1>12
    <3>3. r \in B /\ ~MayBegin(recs[r]) => flow'[r] # "none"
      <4>1. ~MayBegin(recs[r]) => subagentRuns[r].cleanupHandled
        BY <1>2, <3>1 DEF MayBegin
      <4>2. subagentRuns[r].cleanupHandled => flow[r] # "none"
        BY <1>15, <3>1, RunFacts DEF DInv, Served
      <4> QED BY <1>12, <4>1, <4>2
    <3>4. Open(r)'
      BY <2>2, <2>4, <3>1, <3>2, <3>3 DEF Open, Active, Known
    <3> QED BY <3>4, OpenWaited
  <2> QED BY <2>3, <2>4
<1> QED BY <1>13, <1>14, <1>15 DEF DInv, Served

\* The end of a run without a record.
LEMMA UnrecordedServed ==
  ASSUME DInv, NEW r \in Runs, subagentRuns[r] = NoRecord,
         UNCHANGED <<subagentRuns, disk, flow, timers, steering, restarts, attempts, told>>,
         \A q \in Runs \ {r} : child'[q] = child[q],
         child'[r] = "unborn" <=> child[r] = "unborn", child'[r] = "running" => child[r] = "running"
  PROVE  Served'
<1>1. \A q \in Runs : Story(q)'
  BY DEF DInv, Served, Story
<1>2. ASSUME restarts = 0 PROVE Whole'
  <2>1. Whole
    BY <1>2 DEF DInv, Served
  <2>2. \A q \in Runs : subagentRuns'[q] # NoRecord =>
           /\ q # r /\ subagentRuns[q] # NoRecord
           /\ q \in steering' => subagentRuns'[q].suppress # "none"
           /\ subagentRuns'[q].suppress = "steer-restart" => q \in steering'
    BY <2>1 DEF Whole, Present
  <2>3. steering' \subseteq Heads
    BY DEF Heads
  <2> QED BY <2>1, <2>2, <2>3, WholeKeeps
<1>3. ASSUME Waited PROVE Waited'
  <2>1. (Open(r) => Open(r)') /\ (Stalled(r)' => Stalled(r))
    BY RunsAssumption DEF Open, Active, Missing, Stalled, Known, Gone
  <2> QED BY <1>3, <2>1, WaitedKeeps
<1> QED BY <1>1, <1>2, <1>3 DEF DInv, Served

\* The two reports of an end.
LEMMA LifecycleServed ==
  ASSUME DInv, NEW r \in Runs, LifecycleEnd(r) PROVE Served'
<1>1. /\ child[r] = "running" /\ UNCHANGED <<steering, restarts, told>>
      /\ \A q \in Runs \ {r} :
            Successor[q] = r \/ (Session[q] = Session[r] /\ r \in Known(subagentRuns))
              => child[q] # "running"
      /\ \E c \in {"running", "over"} : child' = [child EXCEPT ![r] = c]
  BY DEF LifecycleEnd
<1>2. child \in [Runs -> {"unborn", "running", "over"}]
  BY DEF DInv, IInv, TypeOK
<1>3. /\ child' \in [Runs -> {"running", "over", "unborn"}]
      /\ \A q \in Runs \ {r} : child'[q] = child[q]
      /\ child'[r] = "unborn" <=> child[r] = "unborn"
  BY <1>1, <1>2
<1>4. CASE subagentRuns[r] = NoRecord
  <2>1. UNCHANGED <<subagentRuns, disk, flow, timers, attempts>>
    BY <1>4 DEF LifecycleEnd
  <2> QED BY <1>1, <1>3, <1>4, <2>1, UnrecordedServed
<1>5. CASE subagentRuns[r] # NoRecord
  <2> DEFINE recs == [subagentRuns EXCEPT ![r].ended = TRUE]
  <2>1. Proceed(recs, resumedRuns, {}, EndFlows(r, recs), flow, timers, waits) /\ Save
    BY <1>5 DEF LifecycleEnd
  <2>2. \A q \in Runs \ {r} : Session[q] = Session[r] => child[q] # "running"
    BY <1>1, <1>5 DEF Known
  <2> HIDE DEF recs
  <2> QED BY <1>1, <1>3, <1>5, <2>1, <2>2, EndedServed DEF recs
<1> QED BY <1>4, <1>5

LEMMA WaitReturnsServed ==
  ASSUME DInv, NEW r \in Runs, WaitReturns(r) PROVE Served'
<1>1. UNCHANGED <<child, steering, restarts, told>>
  BY DEF WaitReturns
<1>2. child \in [Runs -> {"unborn", "running", "over"}]
  BY DEF DInv, IInv, TypeOK
<1>3. CASE subagentRuns[r] = NoRecord
  <2>1. UNCHANGED <<subagentRuns, disk, flow, timers, attempts>>
    BY <1>3 DEF WaitReturns
  <2> QED BY <1>1, <1>3, <2>1, UnrecordedServed
<1>4. CASE subagentRuns[r] # NoRecord
  <2> DEFINE recs == [subagentRuns EXCEPT ![r].ended = TRUE]
             ws == waits \ {r}
  <2>1. Proceed(recs, resumedRuns, {}, EndFlows(r, recs), flow, timers, ws) /\ Save
    BY <1>4 DEF WaitReturns
  <2> HIDE DEF recs, ws
  <2> QED BY <1>1, <1>2, <1>4, <2>1, EndedServed DEF recs
<1> QED BY <1>3, <1>4

\* A step that resumes run r, or none.
LEMMA ResumedOne ==
  ASSUME DInv, NEW r \in Runs, NEW recs, NEW res, NEW R, R \subseteq {r}, NEW tm, NEW ws,
         Ready(recs, flow, tm, {}), Proceed(recs, res, R, {}, flow, tm, ws),
         \A q \in Runs \ {r} : recs[q] = subagentRuns[q],
         recs[r] = NoRecord <=> subagentRuns[r] = NoRecord,
         \A q \in Runs : \A n \in Attempts : tm[q][n] > 0 => timers[q][n] > 0,
         \A q \in Runs : disk'[q] \in {disk[q], subagentRuns'[q]},
         UNCHANGED <<child, told>>, steering' \subseteq steering,
         \A q \in Runs \ {r} : q \in steering => q \in steering',
         restarts = 0 /\ recs[r] # NoRecord =>
           /\ r \in steering' => recs[r].suppress # "none"
           /\ recs[r].suppress = "steer-restart" => r \in steering'
  PROVE  /\ \A q \in Runs \ {r} : subagentRuns'[q] = subagentRuns[q] /\ flow'[q] = flow[q]
         /\ \A q \in Runs : Story(q)'
         /\ restarts = 0 => Whole'
         /\ Effect(recs, res, R, {}, flow, tm, r)
<1>1. \A q \in Runs : Effect(recs, res, R, {}, flow, tm, q)
  BY ProceedEffect
<1>2. \A q \in Runs \ {r} : q \notin Begins(recs, res, R, {}) /\ ~Does(recs, res, R, q, "giveUp")
  BY DEF Begins, Does
<1>3. ASSUME NEW q \in Runs \ {r}
      PROVE  subagentRuns'[q] = subagentRuns[q] /\ flow'[q] = flow[q]
  <2>1. subagentRuns'[q] = recs[q] /\ flow'[q] = flow[q]
    BY <1>1, <1>2 DEF Effect
  <2> QED BY <2>1
<1>4. ASSUME NEW q \in Runs PROVE Story(q)'
  <2>1. Story(q) /\ told[q] \in Nat /\ attempts[q] \in Nat
    BY RunFacts DEF DInv, Served
  <2>2. \/ attempts'[q] = attempts[q] + 1 /\ flow'[q] = "busy"
        \/ attempts'[q] = attempts[q] /\ flow'[q] = flow[q]
    BY <1>1 DEF Effect
  <2>3. told[q] <= attempts[q] /\ (flow[q] # "none" => attempts[q] > 0)
    BY <2>1 DEF Story
  <2>4. flow'[q] # "none" => attempts'[q] > 0
    BY <2>1, <2>2, <2>3
  <2>5. told'[q] <= attempts'[q]
    BY <2>1, <2>2, <2>3
  <2>6. \A n \in Attempts : timers'[q][n] > 0 => q \in Expects
    <3>1. \A n \in Attempts : timers'[q][n] > 0 => tm[q][n] > 0 \/ q \in Expects
      BY <1>1 DEF Effect
    <3> QED BY <2>1, <3>1 DEF Story
  <2> QED BY <2>1, <2>2, <2>4, <2>5, <2>6 DEF Story
<1>5. ASSUME restarts = 0 PROVE Whole'
  <2>1. Whole
    BY <1>5 DEF DInv, Served
  <2>2. ASSUME NEW q \in Runs, subagentRuns'[q] # NoRecord
        PROVE  /\ subagentRuns[q] # NoRecord
               /\ q \in steering' => subagentRuns'[q].suppress # "none"
               /\ subagentRuns'[q].suppress = "steer-restart" => q \in steering'
    <3>1. CASE q = r
      <4>1. recs[r] # NoRecord /\ subagentRuns'[r].suppress = recs[r].suppress
        BY <1>1, <2>2, <3>1 DEF Effect
      <4> QED BY <1>5, <3>1, <4>1
    <3>2. CASE q # r
      BY <1>3, <2>1, <2>2, <3>2 DEF Whole, Present
    <3> QED BY <3>1, <3>2
  <2>3. \A q \in Runs : subagentRuns[q] # NoRecord => subagentRuns'[q] # NoRecord
    BY <1>1, <1>3 DEF Effect
  <2>4. steering' \subseteq Heads
    BY DEF Heads
  <2> QED BY <2>1, <2>2, <2>3, <2>4, WholeKeeps
<1> QED BY <1>1, <1>3, <1>4, <1>5

\* A timer: the run expects a completion message, so that nobody waits for it in vain.
LEMMA TimerServed ==
  ASSUME DInv, NEW r \in Runs, TimerFires(r) PROVE Served'
<1>1. PICK k \in Attempts :
        /\ timers[r][k] > 0
        /\ Proceed(subagentRuns, resumedRuns, {r}, {}, flow, [timers EXCEPT ![r][k] = @ - 1], waits)
        /\ disk' = IF subagentRuns' = subagentRuns THEN disk ELSE subagentRuns'
        /\ UNCHANGED <<child, steering, restarts, told>>
  BY DEF TimerFires
<1> DEFINE tm == [timers EXCEPT ![r][k] = @ - 1]
<1>2. /\ subagentRuns \in [Runs -> Records \cup {NoRecord}] /\ flow \in [Runs -> Flows]
      /\ timers \in [Runs -> [Attempts -> Nat]] /\ attempts \in [Runs -> Nat]
  BY DEF DInv, IInv, TypeOK, Flows
<1>3. /\ tm \in [Runs -> [Attempts -> Nat]]
      /\ \A q \in Runs : \A n \in Attempts : tm[q][n] > 0 => timers[q][n] > 0
  <2>1. timers[r][k] \in Nat /\ timers[r][k] - 1 \in Nat
    BY <1>1, <1>2
  <2>2. [timers[r] EXCEPT ![k] = @ - 1] \in [Attempts -> Nat]
    BY <1>2, <2>1
  <2> QED BY <1>1, <1>2, <2>1, <2>2
<1>4. Proceed(subagentRuns, resumedRuns, {r}, {}, flow, tm, waits)
  BY <1>1
<1> HIDE DEF tm
<1>5. Ready(subagentRuns, flow, tm, {})
  BY <1>2, <1>3 DEF Ready
<1>6. restarts = 0 /\ subagentRuns[r] # NoRecord =>
        /\ r \in steering => subagentRuns[r].suppress # "none"
        /\ subagentRuns[r].suppress = "steer-restart" => r \in steering
  BY DEF DInv, Served, Whole, Present
<1>7. \A q \in Runs : disk'[q] \in {disk[q], subagentRuns'[q]}
  BY <1>1
<1>8. /\ \A q \in Runs \ {r} : subagentRuns'[q] = subagentRuns[q] /\ flow'[q] = flow[q]
      /\ \A q \in Runs : Story(q)'
      /\ restarts = 0 => Whole'
      /\ Effect(subagentRuns, resumedRuns, {r}, {}, flow, tm, r)
  BY <1>1, <1>3, <1>4, <1>5, <1>6, <1>7, ResumedOne
<1>9. ASSUME restarts = 0, Waited PROVE Waited'
  <2>1. r \in Expects /\ Whole
    BY <1>1, <1>9 DEF DInv, Served, Story
  <2>2. ~Stalled(r)'
    BY <2>1 DEF Stalled
  <2>3. Gone(r)' <=> Gone(r)
    BY <1>1 DEF Gone
  <2>4. /\ subagentRuns'[r] = NoRecord <=> subagentRuns[r] = NoRecord
        /\ subagentRuns[r] # NoRecord =>
             (subagentRuns[r].cleanupCompleted => subagentRuns'[r].cleanupCompleted)
        /\ flow'[r] \in {flow[r], "busy"}
    BY <1>8 DEF Effect
  <2>5. CASE subagentRuns[r] = NoRecord
    <3>1. Open(r) => Open(r)'
      BY <1>1, <2>3, <2>4, <2>5 DEF Open, Active, Missing, Known
    <3> QED BY <1>1, <1>8, <1>9, <2>2, <3>1, WaitedKeeps
  <2>6. CASE subagentRuns[r] # NoRecord /\ (flow'[r] # "none" \/ ~subagentRuns'[r].cleanupCompleted)
    <3>1. Open(r)'
      BY <2>1, <2>4, <2>6 DEF Open, Active, Known
    <3> QED BY <3>1, OpenWaited
  <2>7. CASE subagentRuns[r] # NoRecord /\ flow'[r] = "none" /\ subagentRuns'[r].cleanupCompleted
    <3>1. flow[r] = "none"
      BY <2>4, <2>7
    <3>2. CASE ~subagentRuns[r].cleanupCompleted
      <4>1. told[r] = 0 /\ child[r] # "unborn"
        BY <1>9, <2>7, <3>1, <3>2, RunFacts DEF DInv, Served
      <4>2. ~Gone(r)
        BY <2>1, <2>7 DEF Whole, Present
      <4>3. Open(r)'
        BY <1>1, <2>3, <2>7, <4>1, <4>2 DEF Open, Missing
      <4> QED BY <4>3, OpenWaited
    <3>3. CASE subagentRuns[r].cleanupCompleted
      <4>1. Open(r) => Missing(r)
        BY <3>1, <3>3 DEF Open, Active
      <4>2. Missing(r) => Missing(r)'
        BY <1>1, <2>3, <2>4, <2>7 DEF Missing, Known
      <4>3. Open(r) => Open(r)'
        BY <4>1, <4>2 DEF Open
      <4> QED BY <1>1, <1>8, <1>9, <2>2, <4>3, WaitedKeeps
    <3> QED BY <3>2, <3>3
  <2> QED BY <2>5, <2>6, <2>7
<1> QED BY <1>1, <1>8, <1>9 DEF DInv, Served

\* A run that is steered no more is open: it was not announced, and its flow begins if
\* it has ended.
LEMMA ClearSteerServed ==
  ASSUME DInv, NEW r \in Runs, ClearSteerRestart(r) PROVE Served'
<1>1. r \in steering /\ steering' = steering \ {r} /\ UNCHANGED <<child, restarts, told>>
  BY DEF ClearSteerRestart
<1>2. /\ subagentRuns \in [Runs -> Records \cup {NoRecord}] /\ flow \in [Runs -> Flows]
      /\ timers \in [Runs -> [Attempts -> Nat]] /\ attempts \in [Runs -> Nat]
  BY DEF DInv, IInv, TypeOK, Flows
<1>3. CASE r \notin Known(subagentRuns) \/ subagentRuns[r].suppress # "steer-restart"
  <2>1. UNCHANGED <<subagentRuns, disk, timers, flow, attempts>>
    BY <1>3 DEF ClearSteerRestart
  <2>2. \A q \in Runs : Story(q)'
    BY <1>1, <2>1 DEF DInv, Served, Story
  <2>3. ASSUME restarts = 0 PROVE Whole'
    <3>1. Whole
      BY <2>3 DEF DInv, Served
    <3>2. \A q \in Runs : subagentRuns'[q] # NoRecord =>
             /\ subagentRuns[q] # NoRecord
             /\ q \in steering' => subagentRuns'[q].suppress # "none"
             /\ subagentRuns'[q].suppress = "steer-restart" => q \in steering'
      BY <1>1, <1>3, <2>1, <3>1 DEF Whole, Present, Known
    <3>3. steering' \subseteq Heads
      BY <1>1 DEF Heads
    <3> QED BY <1>1, <2>1, <3>1, <3>2, <3>3, WholeKeeps
  <2>4. ASSUME restarts = 0, Waited PROVE Waited'
    <3>1. subagentRuns[r] # NoRecord => subagentRuns[r].cleanupCompleted
      <4>1. subagentRuns[r] # NoRecord => subagentRuns[r].suppress = "killed"
        <5>1. subagentRuns[r] # NoRecord => subagentRuns[r].suppress \notin {"none", "steer-restart"}
          BY <1>1, <1>3, <2>4 DEF DInv, Served, Whole, Present, Known
        <5> QED BY <1>2, <5>1 DEF Records
      <4> QED BY <4>1, RunFacts DEF DInv, Served
    <3>2. ~Stalled(r)'
      BY <2>1, <3>1 DEF Stalled, Known
    <3>3. Open(r) => Open(r)'
      BY <1>1, <2>1, <3>1 DEF Open, Active, Missing, Known, Gone
    <3> QED BY <1>1, <2>1, <2>4, <3>2, <3>3, WaitedKeeps
  <2> QED BY <1>1, <2>2, <2>3, <2>4 DEF DInv, Served
<1>4. CASE ~(r \notin Known(subagentRuns) \/ subagentRuns[r].suppress # "steer-restart")
  <2> DEFINE rec  == [subagentRuns[r] EXCEPT !.suppress = "none"]
             recs == [subagentRuns EXCEPT ![r] = rec]
             res  == resumedRuns \ {r}
             R    == {q \in {r} : recs[q].ended}
  <2>1. Proceed(recs, res, R, {}, flow, timers, waits) /\ Save
    BY <1>4 DEF ClearSteerRestart
  <2>2. /\ subagentRuns[r] # NoRecord /\ subagentRuns[r] \in Records
        /\ subagentRuns[r].suppress = "steer-restart"
    BY <1>2, <1>4 DEF Known
  <2>3. /\ rec \in Records /\ rec.suppress = "none" /\ rec.ended = subagentRuns[r].ended
        /\ rec.cleanupHandled = subagentRuns[r].cleanupHandled
        /\ rec.cleanupCompleted = subagentRuns[r].cleanupCompleted
    BY <2>2 DEF Records
  <2>4. recs = [q \in Runs |-> IF q = r THEN rec ELSE subagentRuns[q]]
    BY <1>2
  <2>5. (r \in R <=> recs[r].ended) /\ R \subseteq {r} /\ r \notin res
    OBVIOUS
  <2> HIDE DEF rec, recs, res, R
  <2>6. Ready(recs, flow, timers, {}) /\ recs[r] = rec /\ rec # NoRecord
        /\ \A q \in Runs \ {r} : recs[q] = subagentRuns[q]
    BY <1>2, <2>3, <2>4, RunsAssumption DEF Ready
  <2>7. /\ \A q \in Runs \ {r} : subagentRuns'[q] = subagentRuns[q] /\ flow'[q] = flow[q]
        /\ \A q \in Runs : Story(q)'
        /\ restarts = 0 => Whole'
        /\ Effect(recs, res, R, {}, flow, timers, r)
    BY <1>1, <2>1, <2>2, <2>3, <2>5, <2>6, ResumedOne DEF Save
  <2>8. ASSUME restarts = 0 PROVE Open(r)'
    <3>1. told[r] = 0 /\ flow[r] = "none" /\ child[r] # "unborn"
      BY <2>2, RunFacts DEF DInv, Served
    <3>2. ~Gone(r)' /\ Whole
      BY <1>1, <2>2, <2>8 DEF DInv, Served, Whole, Present, Gone
    <3>3. /\ subagentRuns'[r] # NoRecord /\ subagentRuns'[r].ended = rec.ended
          /\ rec.cleanupCompleted => subagentRuns'[r].cleanupCompleted
      BY <2>6, <2>7 DEF Effect
    <3>4. CASE subagentRuns'[r].cleanupCompleted
      BY <1>1, <3>1, <3>2, <3>4 DEF Open, Missing
    <3>5. CASE ~subagentRuns'[r].cleanupCompleted /\ (~rec.ended \/ r \in Expects)
      BY <3>3, <3>5 DEF Open, Active, Known
    <3>6. CASE ~subagentRuns'[r].cleanupCompleted /\ rec.ended /\ r \notin Expects
      <4>1. ~subagentRuns[r].cleanupCompleted /\ ~rec.cleanupCompleted
        BY <2>3, <3>3, <3>6
      <4>2. ~subagentRuns[r].cleanupHandled
        BY <2>2, <2>8, <3>1, <4>1, RunFacts DEF DInv, Served
      <4>3. MayBegin(rec)
        BY <2>3, <4>1, <4>2 DEF MayBegin
      <4>4. Resume(r, rec) \in {"giveUp", "begin"}
        BY <2>3, <3>6, <4>1, <4>3 DEF Resume
      <4>5. r \in (R \cap Known(recs)) \ res
        BY <2>5, <2>6, <3>6 DEF Known
      <4>6. r \in Begins(recs, res, R, {}) \/ Does(recs, res, R, r, "giveUp")
        BY <2>6, <4>4, <4>5 DEF Begins, Does
      <4>7. flow'[r] = "busy"
        BY <2>7, <3>6, <4>6 DEF Effect
      <4> QED BY <3>3, <4>7 DEF Open, Active, Known
    <3> QED BY <3>4, <3>5, <3>6
  <2> QED BY <1>1, <2>7, <2>8, OpenWaited DEF Served
<1> QED BY <1>3, <1>4

\* A run that is marked has not ended: it is open.
LEMMA MarkServed ==
  ASSUME DInv, NEW r \in Runs, MarkForSteerRestart(r) PROVE Served'
<1> DEFINE rec == [subagentRuns[r] EXCEPT !.suppress = "steer-restart"]
<1>1. /\ subagentRuns[r] # NoRecord /\ ~subagentRuns[r].ended
      /\ subagentRuns' = [subagentRuns EXCEPT ![r] = rec] /\ disk' = subagentRuns'
      /\ steering' = steering \cup {r}
      /\ UNCHANGED <<timers, child, flow, restarts, attempts, told>>
  BY DEF MarkForSteerRestart, Known, Save
<1>2. /\ subagentRuns \in [Runs -> Records \cup {NoRecord}] /\ subagentRuns[r] \in Records
  BY <1>1 DEF DInv, IInv, TypeOK
<1>3. /\ rec # NoRecord /\ rec.suppress = "steer-restart" /\ rec.ended = subagentRuns[r].ended
      /\ rec.cleanupCompleted = subagentRuns[r].cleanupCompleted
  BY <1>2, RunsAssumption DEF Records
<1> HIDE DEF rec
<1>4. \A q \in Runs : subagentRuns'[q] = IF q = r THEN rec ELSE subagentRuns[q]
  BY <1>1, <1>2
<1>5. told[r] = 0 /\ child[r] # "unborn"
  BY <1>1, RunFacts DEF DInv, Served
<1>6. \A q \in Runs : Story(q)'
  BY <1>1, <1>5 DEF DInv, Served, Story
<1>7. ASSUME restarts = 0 PROVE Whole' /\ Waited'
  <2>1. Whole
    BY <1>7 DEF DInv, Served
  <2>2. \A q \in Runs : subagentRuns'[q] # NoRecord =>
           /\ subagentRuns[q] # NoRecord
           /\ q \in steering' => subagentRuns'[q].suppress # "none"
           /\ subagentRuns'[q].suppress = "steer-restart" => q \in steering'
    BY <1>1, <1>3, <1>4, <2>1 DEF Whole, Present
  <2>3. steering' \subseteq Heads
    BY <1>1 DEF Heads, Known
  <2>4. \A q \in Runs : subagentRuns[q] # NoRecord => subagentRuns'[q] # NoRecord
    BY <1>3, <1>4
  <2>5. Whole'
    BY <1>1, <2>1, <2>2, <2>3, <2>4, WholeKeeps
  <2>6. ~Gone(r)'
    BY <1>1, <2>1 DEF Whole, Present, Gone
  <2>7. Open(r)'
    BY <1>1, <1>3, <1>4, <1>5, <2>6 DEF Open, Active, Missing, Known
  <2> QED BY <2>5, <2>7, OpenWaited
<1> QED BY <1>1, <1>6, <1>7 DEF Served

\* A run that is killed was not announced: it is missing.
LEMMA TerminatedServed ==
  ASSUME DInv, NEW r \in Runs, MarkTerminated(r) PROVE Served'
<1> DEFINE runs == {q \in Known(subagentRuns) : Session[q] = Session[r] /\ ~subagentRuns[q].ended}
<1>1. /\ r \in runs
      /\ subagentRuns' = [q \in Runs |-> IF q \in runs THEN Terminated(subagentRuns[q])
                                         ELSE subagentRuns[q]]
      /\ disk' = subagentRuns'
      /\ UNCHANGED <<timers, child, flow, steering, restarts, attempts, told>>
  BY DEF MarkTerminated, Save
<1>2. ASSUME NEW q \in runs
      PROVE  /\ q \in Runs /\ subagentRuns[q] # NoRecord /\ subagentRuns'[q] # NoRecord
             /\ subagentRuns'[q].suppress = "killed" /\ subagentRuns'[q].cleanupCompleted
  <2>1. q \in Runs /\ subagentRuns[q] # NoRecord /\ subagentRuns[q] \in Records
    BY DEF Known, DInv, IInv, TypeOK
  <2>2. Terminated(subagentRuns[q]) \in Records
    BY <2>1 DEF Terminated, Records
  <2> QED BY <1>1, <2>1, <2>2, RunsAssumption DEF Terminated, Records
<1>3. \A q \in Runs : q \notin runs => subagentRuns'[q] = subagentRuns[q]
  BY <1>1
<1>4. told[r] = 0 /\ child[r] # "unborn" /\ subagentRuns[r] # NoRecord
  BY <1>1, RunFacts DEF DInv, Served, Known
<1>5. r \in runs
  BY <1>1
<1> HIDE DEF runs
<1>6. \A q \in Runs : Story(q)'
  BY <1>1 DEF DInv, Served, Story
<1>7. ASSUME restarts = 0 PROVE Whole' /\ Waited'
  <2>1. Whole
    BY <1>7 DEF DInv, Served
  <2>2. \A q \in Runs : subagentRuns'[q] # NoRecord =>
           /\ subagentRuns[q] # NoRecord
           /\ q \in steering' => subagentRuns'[q].suppress # "none"
           /\ subagentRuns'[q].suppress = "steer-restart" => q \in steering'
    BY <1>1, <1>2, <1>3, <2>1 DEF Whole, Present
  <2>3. steering' \subseteq Heads
    BY <1>1 DEF Heads
  <2>4. \A q \in Runs : subagentRuns[q] # NoRecord => subagentRuns'[q] # NoRecord
    BY <1>2, <1>3
  <2>5. Whole'
    BY <1>1, <2>1, <2>2, <2>3, <2>4, WholeKeeps
  <2>6. ~Gone(r)'
    BY <1>1, <1>4, <2>1 DEF Whole, Present, Gone
  <2>7. Open(r)'
    BY <1>1, <1>2, <1>4, <1>5, <2>6 DEF Open, Missing
  <2> QED BY <2>5, <2>7, OpenWaited
<1> QED BY <1>1, <1>6, <1>7 DEF Served

\* A run that is swept is missing.
LEMMA SweepServed ==
  ASSUME DInv, NEW r \in Runs, Sweep(r) PROVE Served'
<1>1. /\ r \in Archived /\ subagentRuns[r] # NoRecord
      /\ subagentRuns' = [subagentRuns EXCEPT ![r] = NoRecord]
      /\ UNCHANGED <<disk, timers, child, flow, steering, restarts, attempts, told>>
  BY DEF Sweep, Known
<1>2. \A q \in Runs : subagentRuns'[q] = IF q = r THEN NoRecord ELSE subagentRuns[q]
  BY <1>1 DEF DInv, IInv, TypeOK
<1>3. child[r] # "unborn"
  BY <1>1, RunFacts DEF DInv, Served
<1>4. \A q \in Runs : Story(q)'
  BY <1>1 DEF DInv, Served, Story
<1>5. ASSUME restarts = 0 PROVE Whole' /\ Waited'
  <2>1. Whole
    BY <1>5 DEF DInv, Served
  <2>2. \A q \in Runs : subagentRuns'[q] # NoRecord =>
           /\ subagentRuns[q] # NoRecord
           /\ q \in steering' => subagentRuns'[q].suppress # "none"
           /\ subagentRuns'[q].suppress = "steer-restart" => q \in steering'
    BY <1>1, <1>2, <2>1 DEF Whole, Present
  <2>3. steering' \subseteq Heads
    BY <1>1 DEF Heads
  <2>4. \A q \in Runs : subagentRuns[q] # NoRecord /\ subagentRuns'[q] = NoRecord => q \in Archived
    BY <1>1, <1>2
  <2>5. Whole'
    BY <1>1, <2>1, <2>2, <2>3, <2>4, WholeKeeps
  <2>6. ~Gone(r)'
    BY <1>1, <2>1 DEF Whole, Present, Gone
  <2>7. Open(r)'
    BY <1>1, <1>2, <1>3, <2>6 DEF Open, Missing, Known
  <2> QED BY <2>5, <2>7, OpenWaited
<1> QED BY <1>1, <1>4, <1>5 DEF Served

\* The run that replaces another one is open, and now the only one of its session.
LEMMA ReplaceServed ==
  ASSUME DInv, NEW r \in Runs, ReplaceAfterSteer(r) PROVE Served'
<1> DEFINE s == Successor[r]
<1>1. /\ r \in steering /\ steering' = steering \ {r}
      /\ subagentRuns' = [subagentRuns EXCEPT ![r] = NoRecord, ![s] = NewRecord]
      /\ disk' = subagentRuns' /\ child' = [child EXCEPT ![s] = "running"]
      /\ UNCHANGED <<timers, flow, restarts, attempts, told>>
  BY DEF ReplaceAfterSteer, Save
<1>2. /\ subagentRuns \in [Runs -> Records \cup {NoRecord}]
      /\ child \in [Runs -> {"unborn", "running", "over"}]
  BY DEF DInv, IInv, TypeOK
<1>3. s \in Runs /\ s # r /\ child[s] = "unborn" /\ Session[s] = Session[r] /\ s \notin steering
  BY <1>1, RunsAssumption DEF DInv, IInv, Sound, Served, Story
<1>4. \A q \in Runs : q # s /\ q # r => Successor[q] # s
  BY <1>3, SuccessorAssumption
<1> HIDE DEF s
<1>5. /\ NewRecord # NoRecord /\ NewRecord.suppress = "none" /\ ~NewRecord.ended
      /\ ~NewRecord.cleanupCompleted
  BY NewRecordType DEF NewRecord
<1>6. \A q \in Runs : /\ subagentRuns'[q] = IF q = s THEN NewRecord ELSE IF q = r THEN NoRecord
                                            ELSE subagentRuns[q]
                      /\ child'[q] = IF q = s THEN "running" ELSE child[q]
  BY <1>1, <1>2, <1>3
<1>7. \A q \in Runs : Story(q)'
  BY <1>1, <1>6 DEF DInv, Served, Story
<1>8. ASSUME restarts = 0 PROVE Whole'
  <2>1. Whole
    BY <1>8 DEF DInv, Served
  <2>2. Gone(r)' /\ ~Gone(s)'
    <3>1. child[s] = "unborn" => ~Gone(s)
      BY <1>3, <2>1 DEF Whole, Present
    <3>2. Successor[s] \in Runs
      BY <1>3, RunsAssumption
    <3> QED BY <1>3, <1>6, <3>1, <3>2 DEF Gone, s
  <2>3. \A q \in Runs : q # r /\ q # s => (Gone(q)' <=> Gone(q))
    BY <1>4, <1>6, RunsAssumption DEF Gone
  <2>4. ASSUME NEW q \in Runs PROVE Present(q)'
    <3>1. Present(q) /\ Present(r)
      BY <2>1 DEF Whole
    <3>2. CASE q = r
      <4>1. child[r] # "unborn"
        BY <1>1 DEF DInv, Served, Story
      <4> QED BY <1>1, <1>3, <1>6, <2>2, <3>2, <4>1 DEF Present
    <3>3. CASE q = s
      BY <1>1, <1>3, <1>5, <1>6, <2>2, <3>3 DEF Present
    <3>4. CASE q # r /\ q # s
      <4>1. /\ subagentRuns'[q] = subagentRuns[q] /\ disk'[q] = subagentRuns[q]
            /\ child'[q] = child[q] /\ told'[q] = told[q]
            /\ q \in steering' <=> q \in steering
            /\ Gone(q)' <=> Gone(q)
        BY <1>1, <1>6, <2>3, <3>4
      <4> QED BY <3>1, <4>1 DEF Present
    <3> QED BY <3>2, <3>3, <3>4
  <2>5. ASSUME NEW q \in Runs, q # s, Session[q] = Session[s] PROVE q \notin Heads'
    <3>1. OneHead(q, r) /\ r \in Heads
      BY <1>1, <2>1 DEF Whole, Heads
    <3>2. q # r => q \notin Heads
      BY <1>3, <2>5, <3>1 DEF OneHead
    <3> QED BY <1>1, <1>3, <1>6, <2>5, <3>2 DEF Heads, Known
  <2>6. ASSUME NEW q \in Runs, NEW h \in Runs PROVE OneHead(q, h)'
    <3>1. OneHead(q, h)
      BY <2>1 DEF Whole
    <3>2. CASE q # s /\ h # s
      <4>1. (q \in Heads' => q \in Heads) /\ (h \in Heads' => h \in Heads)
            /\ (h \in Known(subagentRuns)' => h \in Known(subagentRuns))
        BY <1>1, <1>6, <3>2 DEF Heads, Known
      <4> QED BY <1>1, <1>6, <3>1, <3>2, <4>1 DEF OneHead
    <3>3. CASE h = s
      BY <1>3, <1>6, <2>5, <3>3 DEF OneHead
    <3>4. CASE q = s /\ h # s
      BY <2>5, <3>4 DEF OneHead, Heads
    <3> QED BY <3>2, <3>3, <3>4
  <2> QED BY <2>4, <2>6 DEF Whole
<1>9. Waited'
  <2>1. Open(s)'
    BY <1>3, <1>5, <1>6 DEF Open, Active, Known
  <2> QED BY <1>3, <2>1, OpenWaited
<1> QED BY <1>1, <1>7, <1>8, <1>9 DEF Served

\* After a crash nothing is claimed of waiting.
LEMMA RestartServed ==
  ASSUME DInv, Restart PROVE Served'
<1> DEFINE fl == [r \in Runs |-> "none"]
<1>1. /\ restarts' = restarts + 1 /\ restarts \in Nat /\ UNCHANGED told
      /\ steering' = {} /\ Proceed(disk, {}, Runs, {}, fl, NoTimers, {})
  BY BoundsAssumption DEF Restart, DInv, IInv, TypeOK
<1>2. Ready(disk, fl, NoTimers, {})
  BY DEF Ready, DInv, IInv, TypeOK, Flows, NoTimers
<1>3. \A q \in Runs : fl[q] = "none" /\ \A n \in Attempts : ~(NoTimers[q][n] > 0)
  BY DEF NoTimers
<1> HIDE DEF fl
<1>4. ASSUME NEW q \in Runs PROVE Story(q)'
  <2>1. Effect(disk, {}, Runs, {}, fl, NoTimers, q)
    BY <1>1, <1>2, ProceedEffect
  <2>2. told[q] \in Nat /\ attempts[q] \in Nat /\ told[q] <= attempts[q]
    BY RunFacts DEF DInv, Served, Story
  <2>3. \/ attempts'[q] = attempts[q] + 1 /\ flow'[q] = "busy"
        \/ attempts'[q] = attempts[q] /\ flow'[q] = "none"
    BY <1>3, <2>1 DEF Effect
  <2>4. told[q] <= attempts'[q] /\ (flow'[q] # "none" => attempts'[q] > 0)
    BY <2>2, <2>3
  <2>5. \A n \in Attempts : timers'[q][n] > 0 => q \in Expects
    BY <1>3, <2>1 DEF Effect
  <2> QED BY <1>1, <2>3, <2>4, <2>5 DEF Story
<1>5. restarts' # 0
  BY <1>1
<1> QED BY <1>4, <1>5 DEF Served

\* When a run is settled every run that waits is taken up: nobody waits.
LEMMA SettleServed ==
  ASSUME DInv, NEW r \in Runs, flow[r] # "none", subagentRuns[r] # NoRecord,
         NEW rec \in Records \cup {NoRecord},
         rec # NoRecord => rec.cleanupCompleted /\ rec.suppress = subagentRuns[r].suppress,
         rec = NoRecord => told'[r] > 0,
         Settle(r, rec, [flow EXCEPT ![r] = "none"]), Save,
         told'[r] \in Nat, told'[r] <= 1, told[r] > 0 => told'[r] > 0,
         \A q \in Runs \ {r} : told'[q] = told[q],
         UNCHANGED <<child, expired, steering, restarts>>
  PROVE  Served'
<1> DEFINE fl      == [flow EXCEPT ![r] = "none"]
           recs    == [subagentRuns EXCEPT ![r] = rec]
           waiting == RetryDeferred(r, recs)
           late    == waiting \cap expired
           given   == [q \in Runs |-> IF q \in late THEN [recs[q] EXCEPT !.cleanupCompleted = TRUE]
                                                    ELSE recs[q]]
           res     == resumedRuns \ (waiting \ late)
           R       == waiting \ late
<1>1. Proceed(given, res, R, {}, fl, timers, waits)
  BY DEF Settle
<1>2. /\ subagentRuns \in [Runs -> Records \cup {NoRecord}] /\ flow \in [Runs -> Flows]
      /\ timers \in [Runs -> [Attempts -> Nat]] /\ attempts \in [Runs -> Nat]
  BY DEF DInv, IInv, TypeOK, Flows
<1>3. /\ r \notin waiting /\ \A q \in Runs : recs[q] = IF q = r THEN rec ELSE subagentRuns[q]
      /\ \A q \in Runs \ {r} : q \in waiting <=> /\ subagentRuns[q] # NoRecord /\ subagentRuns[q].ended
                                                 /\ MayBegin(subagentRuns[q])
                                                 /\ subagentRuns[q].suppress # "steer-restart"
  BY <1>2 DEF RetryDeferred, Known
<1>4. fl \in [Runs -> Flows] /\ \A q \in Runs : fl[q] = IF q = r THEN "none" ELSE flow[q]
  BY <1>2 DEF Flows
<1>5. R = waiting \ late /\ late \subseteq waiting /\ R \cap res = {}
  OBVIOUS
<1>6. \A q \in Runs : given[q] = IF q \in late THEN [recs[q] EXCEPT !.cleanupCompleted = TRUE]
                                 ELSE recs[q]
  OBVIOUS
<1> HIDE DEF fl, recs, waiting, late, given, res, R
<1>7. ASSUME NEW q \in Runs, q # r
      PROVE  /\ q \in late => subagentRuns[q] # NoRecord /\ given[q].cleanupCompleted
             /\ q \notin late => given[q] = subagentRuns[q]
             /\ given[q] = NoRecord <=> subagentRuns[q] = NoRecord
             /\ given[q] # NoRecord => given[q].suppress = subagentRuns[q].suppress
             /\ given[q] \in Records \cup {NoRecord}
  <2>1. q \in late => subagentRuns[q] # NoRecord
    BY <1>3, <1>5, <1>7
  <2>2. subagentRuns[q] # NoRecord =>
          /\ subagentRuns[q] \in Records
          /\ [subagentRuns[q] EXCEPT !.cleanupCompleted = TRUE] \in Records
    BY <1>2 DEF Records
  <2>3. given[q] = IF q \in late THEN [subagentRuns[q] EXCEPT !.cleanupCompleted = TRUE]
                   ELSE subagentRuns[q]
    BY <1>3, <1>6, <1>7
  <2> QED BY <1>2, <2>1, <2>2, <2>3, RunsAssumption DEF Records
<1>8. given[r] = rec
  BY <1>3, <1>5, <1>6
<1>9. given \in [Runs -> Records \cup {NoRecord}]
  <2>1. \A q \in Runs : given[q] \in Records \cup {NoRecord}
    BY <1>7, <1>8
  <2> QED BY <2>1 DEF given
<1>10. ASSUME NEW q \in Runs PROVE Effect(given, res, R, {}, fl, timers, q)
  <2>1. Ready(given, fl, timers, {})
    BY <1>2, <1>4, <1>9 DEF Ready
  <2> QED BY <1>1, <2>1, ProceedEffect
<1>11. /\ flow'[r] = "none" /\ attempts'[r] = attempts[r]
       /\ subagentRuns'[r] = NoRecord <=> rec = NoRecord
       /\ rec # NoRecord => /\ subagentRuns'[r].suppress = rec.suppress
                            /\ subagentRuns'[r].cleanupCompleted
  <2>1. r \notin Begins(given, res, R, {})
    BY <1>3, <1>5 DEF Begins, Does
  <2>2. Effect(given, res, R, {}, fl, timers, r)
    BY <1>10
  <2> QED BY <1>4, <1>8, <2>1, <2>2 DEF Effect
<1>12. ASSUME NEW q \in Runs PROVE Story(q)'
  <2>1. Story(q) /\ told[q] \in Nat /\ attempts[q] \in Nat
    BY RunFacts DEF DInv, Served
  <2>2. Effect(given, res, R, {}, fl, timers, q)
    BY <1>10
  <2>3. \A n \in Attempts : timers'[q][n] > 0 => q \in Expects
    BY <2>1, <2>2 DEF Effect, Story
  <2>4. CASE q = r
    <3>1. told'[q] <= attempts'[q]
      <4>1. attempts[q] > 0
        BY <2>1, <2>4 DEF Story
      <4> QED BY <1>11, <2>1, <2>4, <4>1
    <3> QED BY <1>11, <2>1, <2>3, <2>4, <3>1 DEF Story
  <2>5. CASE q # r
    <3>1. \/ attempts'[q] = attempts[q] + 1 /\ flow'[q] = "busy"
          \/ attempts'[q] = attempts[q] /\ flow'[q] = flow[q]
      BY <1>4, <2>2, <2>5 DEF Effect
    <3>2. told[q] <= attempts[q] /\ (flow[q] # "none" => attempts[q] > 0) /\ told'[q] = told[q]
      BY <2>1, <2>5 DEF Story
    <3>3. told'[q] <= attempts'[q] /\ (flow'[q] # "none" => attempts'[q] > 0)
      BY <2>1, <3>1, <3>2
    <3> QED BY <2>1, <2>3, <3>1, <3>2, <3>3 DEF Story
  <2> QED BY <2>4, <2>5
<1>13. ASSUME restarts = 0 PROVE Whole'
  <2>1. Whole
    BY <1>13 DEF DInv, Served
  <2>2. ASSUME NEW q \in Runs
        PROVE  /\ subagentRuns'[q] # NoRecord =>
                    subagentRuns[q] # NoRecord /\ subagentRuns'[q].suppress = subagentRuns[q].suppress
               /\ subagentRuns[q] # NoRecord /\ subagentRuns'[q] = NoRecord => q = r /\ rec = NoRecord
    <3>1. Effect(given, res, R, {}, fl, timers, q)
      BY <1>10
    <3>2. CASE q = r
      BY <1>11, <3>2
    <3>3. CASE q # r
      BY <1>7, <3>1, <3>3 DEF Effect
    <3> QED BY <3>2, <3>3
  <2>3. \A q \in Runs : subagentRuns'[q] # NoRecord =>
           /\ subagentRuns[q] # NoRecord
           /\ q \in steering' => subagentRuns'[q].suppress # "none"
           /\ subagentRuns'[q].suppress = "steer-restart" => q \in steering'
    BY <2>1, <2>2 DEF Whole, Present
  <2>4. steering' \subseteq Heads /\ disk' = subagentRuns'
    BY DEF Heads, Save
  <2>5. \A q \in Runs : told[q] > 0 => told'[q] > 0
    OBVIOUS
  <2>6. \A q \in Runs : subagentRuns[q] # NoRecord /\ subagentRuns'[q] = NoRecord
                          => told'[q] > 0 /\ disk'[q] = NoRecord
    BY <2>2, <2>4
  <2> QED BY <2>1, <2>3, <2>4, <2>5, <2>6, WholeKeeps
<1>14. ASSUME restarts = 0, NEW q \in Runs, Stalled(q)' PROVE FALSE
  <2>1. Effect(given, res, R, {}, fl, timers, q) /\ Whole
    BY <1>10, <1>14 DEF DInv, Served
  <2>2. /\ q \notin Expects \cup steering /\ subagentRuns'[q] # NoRecord /\ subagentRuns'[q].ended
        /\ ~subagentRuns'[q].cleanupCompleted /\ flow'[q] = "none"
    BY <1>14 DEF Stalled, Known
  <2>3. q # r
    BY <1>11, <2>2
  <2>4. /\ given[q] # NoRecord /\ given[q].ended /\ ~given[q].cleanupCompleted
        /\ flow[q] = "none" /\ q \notin Begins(given, res, R, {})
        /\ ~Does(given, res, R, q, "giveUp")
    BY <1>4, <2>1, <2>2, <2>3 DEF Effect
  <2>5. given[q] = subagentRuns[q] /\ q \notin late
    BY <1>7, <2>3, <2>4
  <2>6. ~subagentRuns[q].cleanupHandled /\ subagentRuns[q].suppress # "steer-restart"
    <3>1. ~subagentRuns[q].cleanupHandled
      BY <1>14, <2>4, <2>5, RunFacts DEF DInv, Served
    <3> QED BY <2>1, <2>2, <2>4, <2>5, <3>1 DEF Whole, Present
  <2>7. q \in (R \cap Known(given)) \ res
    BY <1>3, <1>5, <2>3, <2>4, <2>5, <2>6 DEF MayBegin, Known
  <2>8. Resume(q, given[q]) \in {"giveUp", "begin"}
    BY <2>2, <2>4, <2>5, <2>6 DEF Resume, MayBegin
  <2> QED BY <2>4, <2>7, <2>8 DEF Begins, Does
<1>15. restarts = 0 => Waited'
  BY <1>14 DEF Waited
<1> QED BY <1>12, <1>13, <1>15 DEF Served

\* A run that is deferred waits for one that is open: itself, if its session is still
\* busy, or the run it has asked for.
LEMMA DeferServed ==
  ASSUME DInv, NEW r \in Runs, flow[r] # "none", subagentRuns[r] # NoRecord,
         NEW rec, rec = [subagentRuns[r] EXCEPT !.retryCount = @ + 1], ~GivesUp(r, rec),
         Defer(r, rec, [flow EXCEPT ![r] = "none"]), Save,
         told[r] = 0, told'[r] = 0, \A q \in Runs \ {r} : told'[q] = told[q],
         UNCHANGED <<child, expired, steering, restarts>>,
         Patient => r \in Expects \/ Deferred(r)
  PROVE  Served'
<1> DEFINE new == [rec EXCEPT !.cleanupHandled = FALSE]
<1>1. /\ subagentRuns \in [Runs -> Records \cup {NoRecord}] /\ subagentRuns[r] \in Records
      /\ flow \in [Runs -> Flows] /\ timers \in [Runs -> [Attempts -> Nat]]
      /\ child \in [Runs -> {"unborn", "running", "over"}] /\ attempts \in [Runs -> Nat]
  BY DEF DInv, IInv, TypeOK, Flows
<1>2. /\ new \in Records /\ new # NoRecord
      /\ new.cleanupCompleted = subagentRuns[r].cleanupCompleted
      /\ new.ended = subagentRuns[r].ended /\ new.suppress = subagentRuns[r].suppress
  <2>1. subagentRuns[r].retryCount < MAX_ANNOUNCE_RETRY_COUNT
    BY MemoryFits DEF DInv, Fits
  <2>2. /\ rec \in Records
        /\ rec.cleanupCompleted = subagentRuns[r].cleanupCompleted
        /\ rec.ended = subagentRuns[r].ended /\ rec.suppress = subagentRuns[r].suppress
    BY <1>1, <2>1, CountedAttempt
  <2>3. new \in Records
    BY <2>2 DEF Records
  <2> QED BY <2>2, <2>3, RunsAssumption DEF Records
<1>3. /\ subagentRuns' = [subagentRuns EXCEPT ![r] = new] /\ disk' = subagentRuns'
      /\ flow' = [flow EXCEPT ![r] = "none"] /\ UNCHANGED attempts
      /\ timers' = IF r \in Expects THEN [timers EXCEPT ![r][rec.retryCount] = @ + 1] ELSE timers
  BY DEF Defer, Save
<1> HIDE DEF new
<1>4. \A q \in Runs : /\ subagentRuns'[q] = IF q = r THEN new ELSE subagentRuns[q]
                      /\ flow'[q] = IF q = r THEN "none" ELSE flow[q]
  BY <1>1, <1>3
<1>5. ASSUME NEW q \in Runs PROVE Story(q)'
  <2>1. Story(q) /\ told[q] \in Nat /\ attempts[q] \in Nat
    BY RunFacts DEF DInv, Served
  <2>2. \A n \in Attempts : timers'[q][n] > 0 => q \in Expects
    <3>1. q # r \/ r \notin Expects => timers'[q] = timers[q]
      BY <1>1, <1>3
    <3> QED BY <2>1, <3>1 DEF Story
  <2>3. told'[q] = told[q]
    OBVIOUS
  <2> QED BY <1>3, <1>4, <2>1, <2>2, <2>3 DEF Story
<1>6. ASSUME restarts = 0 PROVE Whole'
  <2>1. Whole
    BY <1>6 DEF DInv, Served
  <2>2. \A q \in Runs : subagentRuns'[q] # NoRecord =>
           /\ subagentRuns[q] # NoRecord
           /\ q \in steering' => subagentRuns'[q].suppress # "none"
           /\ subagentRuns'[q].suppress = "steer-restart" => q \in steering'
    BY <1>2, <1>4, <2>1 DEF Whole, Present
  <2>3. steering' \subseteq Heads
    BY DEF Heads
  <2>4. \A q \in Runs : subagentRuns[q] # NoRecord => subagentRuns'[q] # NoRecord
    BY <1>2, <1>4
  <2>5. \A q \in Runs : told'[q] = told[q]
    OBVIOUS
  <2> QED BY <1>3, <2>1, <2>2, <2>3, <2>4, <2>5, WholeKeeps
<1>7. ASSUME restarts = 0, Patient PROVE \E q \in Runs : Open(q)'
  <2>1. Whole /\ \A q \in Runs : Gone(q)' <=> Gone(q)
    BY <1>7, RunsAssumption DEF DInv, Served, Gone
  <2>2. subagentRuns[r].ended /\ child[r] # "unborn" /\ ~Gone(r)
    <3>1. subagentRuns[r].ended /\ child[r] # "unborn"
      BY RunFacts DEF DInv, Served
    <3> QED BY <2>1, <3>1 DEF Whole, Present
  <2>3. CASE subagentRuns[r].cleanupCompleted
    BY <1>2, <1>4, <2>1, <2>2, <2>3 DEF Open, Missing
  <2>4. CASE ~subagentRuns[r].cleanupCompleted /\ (r \in Expects \/ child[r] = "running")
    BY <1>2, <1>4, <2>4 DEF Open, Active, Known
  <2>5. CASE r \notin Expects /\ child[r] # "running"
    <3>1. \A q \in Runs : Session[q] = Session[r] => child[q] # "running"
      BY <2>1, <2>5 DEF Whole, OneHead, Known
    <3>2. PICK q \in Runs : q \in Known(Snapshot) /\ ~Snapshot[q].ended
      BY <1>7, <2>5, <3>1 DEF Deferred, ActiveDescendants, Known
    <3>3. Snapshot[q] # NoRecord
          /\ Snapshot[q] = IF subagentRuns[q] = NoRecord THEN disk[q] ELSE subagentRuns[q]
      BY <3>2 DEF Snapshot, Known
    <3>4. q # r
      BY <2>2, <3>2, <3>3
    <3>5. CASE subagentRuns[q] # NoRecord
      <4>1. told[q] = 0 /\ child[q] # "unborn" /\ ~subagentRuns[q].ended
        BY <3>2, <3>3, <3>5, RunFacts DEF DInv, Served
      <4>2. ~Gone(q)
        BY <2>1, <3>5 DEF Whole, Present
      <4> QED BY <1>4, <2>1, <3>4, <3>5, <4>1, <4>2 DEF Open, Active, Missing, Known
    <3>6. CASE subagentRuns[q] = NoRecord
      <4>1. disk[q] # NoRecord /\ child[q] # "unborn"
        BY <3>3, <3>6, RunFacts DEF DInv, Served
      <4>2. q \in Archived /\ ~Gone(q)
        BY <2>1, <3>6, <4>1 DEF Whole, Present
      <4> QED BY <1>4, <2>1, <3>4, <3>6, <4>1, <4>2 DEF Open, Missing, Known
    <3> QED BY <3>5, <3>6
  <2> QED BY <2>3, <2>4, <2>5
<1>8. restarts' = 0 /\ Patient => Waited'
  BY <1>7 DEF Waited
<1> QED BY <1>5, <1>6, <1>8 DEF Served

\* The end of a flow: its run is settled, deferred, or has no record any more.
LEMMA FinalizeServed ==
  ASSUME DInv, NEW r \in Runs, flow[r] # "none",
         NEW didAnnounce \in BOOLEAN, Finalize(r, didAnnounce),
         told'[r] \in Nat, told'[r] <= 1, told[r] > 0 => told'[r] > 0,
         didAnnounce => told'[r] > 0, ~didAnnounce => told'[r] = 0,
         \A q \in Runs \ {r} : told'[q] = told[q],
         UNCHANGED <<child, expired, steering, restarts>>,
         ~didAnnounce /\ Patient => r \in Expects \/ Deferred(r)
  PROVE  Served'
<1> DEFINE old == subagentRuns[r]
           rec == IF didAnnounce THEN old ELSE [old EXCEPT !.retryCount = @ + 1]
           fl  == [flow EXCEPT ![r] = "none"]
<1>1. old \in Records \cup {NoRecord} /\ told[r] \in Nat
  BY DEF DInv, IInv, TypeOK
<1>2. CASE old = NoRecord
  <2>1. flow' = fl /\ UNCHANGED <<subagentRuns, disk, timers, attempts>>
    BY <1>2 DEF Finalize
  <2>2. \A q \in Runs : flow'[q] = IF q = r THEN "none" ELSE flow[q]
    BY <2>1 DEF DInv, IInv, TypeOK
  <2>3. ASSUME NEW q \in Runs PROVE Story(q)'
    <3>1. Story(q) /\ told[q] \in Nat /\ attempts[q] \in Nat
      BY RunFacts DEF DInv, Served
    <3>2. told'[q] <= attempts'[q]
      <4>1. q = r => attempts[q] > 0
        BY <3>1 DEF Story
      <4>2. told[q] <= attempts[q]
        BY <3>1 DEF Story
      <4> QED BY <2>1, <3>1, <4>1, <4>2
    <3> QED BY <2>1, <2>2, <3>1, <3>2 DEF Story
  <2>4. ASSUME restarts = 0 PROVE Whole'
    <3>1. Whole
      BY <2>4 DEF DInv, Served
    <3>2. \A q \in Runs : subagentRuns'[q] # NoRecord =>
             /\ subagentRuns[q] # NoRecord
             /\ q \in steering' => subagentRuns'[q].suppress # "none"
             /\ subagentRuns'[q].suppress = "steer-restart" => q \in steering'
      BY <2>1, <3>1 DEF Whole, Present
    <3>3. steering' \subseteq Heads /\ \A q \in Runs : told[q] > 0 => told'[q] > 0
      BY DEF Heads
    <3> QED BY <2>1, <3>1, <3>2, <3>3, WholeKeeps
  <2>5. ASSUME restarts = 0, Waited PROVE Waited'
    <3>1. ~Stalled(r)'
      BY <1>2, <2>1 DEF Stalled, Known
    <3>2. Open(r) => Open(r)'
      <4>1. Open(r) => r \in Archived /\ child[r] # "unborn" /\ ~Gone(r)
        BY <1>1, <1>2, <2>5 DEF Open, Active, Missing, Known, DInv, Served, Whole, Present
      <4> QED BY <1>2, <2>1, <4>1 DEF Open, Missing, Known, Gone
    <3> QED BY <2>1, <2>2, <2>5, <3>1, <3>2, WaitedKeeps
  <2> QED BY <2>3, <2>4, <2>5 DEF DInv, Served
<1>3. CASE old # NoRecord /\ ~didAnnounce /\ ~GivesUp(r, rec)
  <2>1. Defer(r, rec, fl) /\ Save
    BY <1>3 DEF Finalize
  <2>2. told[r] = 0
    BY <1>1, <1>3
  <2> QED BY <1>3, <2>1, <2>2, DeferServed
<1>4. CASE old # NoRecord /\ didAnnounce /\ r \in DeleteAfter
  <2>1. Settle(r, NoRecord, fl) /\ Save
    BY <1>4 DEF Finalize
  <2> QED BY <1>4, <2>1, SettleServed
<1>5. CASE old # NoRecord /\ (didAnnounce => r \notin DeleteAfter) /\ (didAnnounce \/ GivesUp(r, rec))
  <2> DEFINE done == [rec EXCEPT !.cleanupCompleted = TRUE]
  <2>1. Settle(r, done, fl) /\ Save
    BY <1>5 DEF Finalize
  <2>2. rec \in Records /\ rec.suppress = old.suppress
    <3>1. CASE didAnnounce
      BY <1>1, <1>5, <3>1
    <3>2. CASE ~didAnnounce
      <4>1. rec = [old EXCEPT !.retryCount = @ + 1] /\ old \in Records
        BY <1>1, <1>5, <3>2
      <4>2. old.retryCount < MAX_ANNOUNCE_RETRY_COUNT
        BY <1>5, MemoryFits DEF DInv, Fits
      <4> HIDE DEF rec, old
      <4> QED BY <4>1, <4>2, CountedAttempt
    <3> QED BY <3>1, <3>2
  <2> HIDE DEF rec
  <2>3. done \in Records /\ done.cleanupCompleted /\ done.suppress = rec.suppress
    BY <2>2 DEF Records
  <2>4. done # NoRecord
    BY <2>3, RunsAssumption
  <2> HIDE DEF done
  <2> QED BY <1>5, <2>1, <2>2, <2>3, <2>4, SettleServed
<1> QED BY <1>2, <1>3, <1>4, <1>5

\* A flow that is not finished yet is held by what it still awaits.
LEMMA FlowEndsServed ==
  ASSUME DInv, NEW r \in Runs, NEW didAnnounce \in BOOLEAN, NEW strayed \in BOOLEAN,
         FlowEnds(r, didAnnounce, strayed)
  PROVE  Served'
<1>1. /\ told' = [told EXCEPT ![r] = IF didAnnounce THEN @ + 1 ELSE @]
      /\ flow[r] \in {"busy", "clear"} /\ UNCHANGED <<child, expired, steering, restarts>>
      /\ ~didAnnounce => \/ flow[r] = "busy" /\ Deferred(r)
                         \/ flow[r] = "clear" /\ r \in DeliveryFails
      /\ didAnnounce => flow[r] = "clear"
  BY DEF FlowEnds
<1>2. told \in [Runs -> Nat] /\ flow \in [Runs -> Flows] /\ told[r] = 0 /\ Story(r)
      /\ attempts[r] \in Nat
  BY <1>1, RunFacts DEF DInv, Served, IInv, TypeOK, Flows
<1>3. /\ told'[r] = (IF didAnnounce THEN 1 ELSE 0) /\ \A q \in Runs \ {r} : told'[q] = told[q]
  BY <1>1, <1>2
<1>4. CASE r \in Labelled \/ (r \in DeleteAfter /\ flow[r] = "clear")
  <2>1. /\ flow' = [flow EXCEPT ![r] = IF didAnnounce THEN "told" ELSE "untold"]
        /\ UNCHANGED <<subagentRuns, disk, timers, attempts>>
    BY <1>4 DEF FlowEnds
  <2>2. \A q \in Runs : flow'[q] = IF q # r THEN flow[q] ELSE IF didAnnounce THEN "told" ELSE "untold"
    BY <1>2, <2>1
  <2>3. ASSUME NEW q \in Runs PROVE Story(q)'
    <3>1. Story(q)
      BY DEF DInv, Served
    <3>2. CASE q = r
      <4>1. attempts'[q] > 0 /\ told'[q] <= attempts'[q]
        BY <1>1, <1>2, <1>3, <2>1, <3>2 DEF Story
      <4>2. /\ flow'[q] = "told" => told'[q] > 0
            /\ flow'[q] = "untold" => q \in Labelled \cup DeliveryFails
        BY <1>1, <1>3, <1>4, <2>2, <3>2
      <4> QED BY <1>1, <2>1, <3>1, <4>1, <4>2 DEF Story
    <3>3. CASE q # r
      BY <1>1, <1>3, <2>1, <2>2, <3>1, <3>3 DEF Story
    <3> QED BY <3>2, <3>3
  <2>4. ASSUME restarts = 0 PROVE Whole'
    <3>1. Whole
      BY <2>4 DEF DInv, Served
    <3>2. \A q \in Runs : subagentRuns'[q] # NoRecord =>
             /\ subagentRuns[q] # NoRecord
             /\ q \in steering' => subagentRuns'[q].suppress # "none"
             /\ subagentRuns'[q].suppress = "steer-restart" => q \in steering'
      BY <1>1, <2>1, <3>1 DEF Whole, Present
    <3>3. steering' \subseteq Heads /\ \A q \in Runs : told[q] > 0 => told'[q] > 0
      BY <1>1, <1>2, <1>3 DEF Heads
    <3> QED BY <1>1, <2>1, <3>1, <3>2, <3>3, WholeKeeps
  <2>5. ASSUME restarts = 0, Waited PROVE Waited'
    <3>1. CASE subagentRuns[r] # NoRecord
      <4>1. Open(r)'
        BY <2>1, <2>2, <3>1 DEF Open, Active, Known
      <4> QED BY <4>1, OpenWaited
    <3>2. CASE subagentRuns[r] = NoRecord
      <4>1. ~Stalled(r)'
        BY <2>1, <3>2 DEF Stalled, Known
      <4>2. Open(r) => Open(r)'
        <5>1. Open(r) => r \in Archived /\ child[r] # "unborn" /\ ~Gone(r)
          BY <1>2, <2>5, <3>2 DEF Open, Active, Missing, Known, DInv, Served, Whole, Present
        <5> QED BY <1>1, <2>1, <3>2, <5>1 DEF Open, Missing, Known, Gone
      <4> QED BY <1>1, <1>3, <2>1, <2>2, <2>5, <4>1, <4>2, WaitedKeeps
    <3> QED BY <3>1, <3>2
  <2> QED BY <1>1, <2>3, <2>4, <2>5 DEF DInv, Served
<1>5. CASE ~(r \in Labelled \/ (r \in DeleteAfter /\ flow[r] = "clear"))
  <2>1. Finalize(r, didAnnounce)
    BY <1>5 DEF FlowEnds
  <2>2. ~didAnnounce /\ Patient => r \in Expects \/ Deferred(r)
    BY <1>1 DEF Patient
  <2> QED BY <1>1, <1>2, <1>3, <2>1, <2>2, FinalizeServed
<1> QED BY <1>4, <1>5

\* What was awaited is done; a flow that failed expects a completion message, and has a timer.
LEMMA FlowReturnsServed ==
  ASSUME DInv, NEW r \in Runs, FlowReturns(r) PROVE Served'
<1>1. /\ flow[r] \in {"told", "untold"} /\ Finalize(r, flow[r] = "told")
      /\ UNCHANGED <<child, expired, steering, restarts, told>>
  BY DEF FlowReturns
<1>2. /\ told[r] \in Nat /\ told[r] <= 1 /\ (flow[r] = "told" => told[r] > 0)
      /\ flow[r] = "untold" => told[r] = 0 /\ r \in Labelled \cup DeliveryFails
  BY RunFacts DEF DInv, Served, Story
<1>3. CASE flow[r] = "told"
  <2>1. Finalize(r, TRUE)
    BY <1>1, <1>3
  <2> QED BY <1>1, <1>2, <1>3, <2>1, FinalizeServed
<1>4. CASE flow[r] = "untold"
  <2>1. Finalize(r, FALSE)
    BY <1>1, <1>4
  <2>2. Patient => r \in Expects
    BY <1>2, <1>4 DEF Patient
  <2> QED BY <1>1, <1>2, <1>4, <2>1, <2>2, FinalizeServed
<1> QED BY <1>1, <1>3, <1>4

\* At first there is no run, and nobody waits.
LEMMA InitServed == Init => Served
<1> SUFFICES ASSUME Init PROVE Served
  OBVIOUS
<1>1. \A r \in Runs : Story(r)
  BY DEF Init, Story, NoTimers
<1>2. \A r \in Runs : ~Gone(r)
  BY RunsAssumption DEF Init, Gone
<1>3. Whole
  BY <1>2 DEF Init, Whole, Present, OneHead, Heads, Known
<1>4. Waited
  BY DEF Init, Waited, Stalled, Known
<1> QED BY <1>1, <1>3, <1>4 DEF Served

\* Every action of the registry keeps the second invariant.
LEMMA NextServed == DInv /\ [Next]_vars => Served'
<1> SUFFICES ASSUME DInv, [Next]_vars PROVE Served'
  OBVIOUS
<1>1. ASSUME NEW r \in Runs, RegisterSubagentRun(r) \/ LifecycleEnd(r) \/ WaitReturns(r)
      PROVE  Served'
  BY <1>1, RegisterServed, LifecycleServed, WaitReturnsServed
<1>2. ASSUME NEW r \in Runs, WaitThrows(r) \/ DelayPasses(r) \/ Expires(r)
      PROVE  Served'
  BY <1>2, PlainServed DEF WaitThrows, DelayPasses, Expires
<1>3. ASSUME NEW r \in Runs,
             \/ FlowIsClear(r) \/ FlowReturns(r)
             \/ \E didAnnounce, strayed \in BOOLEAN : FlowEnds(r, didAnnounce, strayed)
      PROVE  Served'
  BY <1>3, ClearServed, FlowEndsServed, FlowReturnsServed
<1>4. ASSUME NEW r \in Runs, TimerFires(r) \/ Sweep(r) \/ MarkTerminated(r)
      PROVE  Served'
  BY <1>4, TimerServed, SweepServed, TerminatedServed
<1>5. ASSUME NEW r \in Runs,
             MarkForSteerRestart(r) \/ ReplaceAfterSteer(r) \/ ClearSteerRestart(r)
      PROVE  Served'
  BY <1>5, MarkServed, ReplaceServed, ClearSteerServed
<1>6. CASE SweepDone
  BY <1>6, PlainServed DEF SweepDone
<1>7. CASE Restart
  BY <1>7, RestartServed
<1>8. CASE UNCHANGED vars
  BY <1>8, PlainServed DEF vars
<1> QED BY <1>1, <1>2, <1>3, <1>4, <1>5, <1>6, <1>7, <1>8 DEF Next

\* When nothing is under way an open run is lost, and a run that waits has an open one.
LEMMA ServedWhenQuiet == DInv => DeferredAreServed
<1> SUFFICES ASSUME DInv, Quiet, restarts = 0, Patient, NEW r \in Runs \ Expects,
                    HasEnded(r), ~Settled(r)
             PROVE  \E q \in Runs : Lost(q)
  BY DEF DeferredAreServed, Patient
<1>1. Whole /\ Waited
  BY DEF DInv, Served
<1>2. Stalled(r)
  BY DEF Stalled, HasEnded, Settled, Quiet
<1>3. PICK q \in Runs : Open(q)
  BY <1>1, <1>2 DEF Waited
<1>4. flow[q] = "none" /\ q \notin steering /\ child[q] # "running"
  BY DEF Quiet
<1>5. child[q] # "unborn" /\ ~Gone(q)
  <2>1. q \in Known(subagentRuns) => child[q] # "unborn" /\ ~Gone(q)
    BY <1>1, RunFacts DEF DInv, Served, Whole, Present, Known
  <2> QED BY <1>3, <2>1 DEF Open, Active, Missing
<1>6. child[q] = "over" /\ (Successor[q] = q \/ child[Successor[q]] = "unborn")
  BY <1>4, <1>5, RunFacts DEF DInv, Served, Gone
<1>7. CASE Active(q)
  <2>1. /\ q \in Known(subagentRuns) /\ ~subagentRuns[q].cleanupCompleted
        /\ ~subagentRuns[q].ended \/ q \in Expects
    BY <1>4, <1>7 DEF Active
  <2>2. told[q] = 0
    BY <1>4, <2>1, RunFacts DEF DInv, Served, Known
  <2> QED BY <1>6, <2>1, <2>2 DEF Lost, HasEnded
<1>8. CASE Missing(q)
  BY <1>6, <1>8 DEF Missing, Lost, Settled
<1> QED BY <1>3, <1>7, <1>8 DEF Open

\* A run that was deferred or held back is taken up again: if nothing is under way, no
\* run was lost and the gateway never crashed, every run that has ended is settled.
THEOREM DeferredServed == Spec => []DeferredAreServed
<1>1. Init => DInv
  BY InitIInv, InitServed DEF DInv
<1>2. DInv /\ [Next]_vars => DInv'
  BY NextIInv, NextServed DEF DInv
<1> QED BY <1>1, <1>2, ServedWhenQuiet, PTL DEF Spec
=============================================================================
