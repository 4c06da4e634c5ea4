-------------------------- MODULE SubagentRegistry --------------------------
(***************************************************************************)
(* The registry of subagent runs, src/src/agents/subagent-registry.ts, and *)
(* the part of the announce flow (subagent-announce.ts) it depends on.     *)
(*                                                                         *)
(* A run that ends is announced to its requester.  Its end is reported     *)
(* twice, by a lifecycle event and by an answer to agent.wait, in either   *)
(* order; an announcement that cannot be made yet is deferred until        *)
(* another one is finished, or retried by a timer; a run may be steered,   *)
(* killed or swept meanwhile, and the records survive a crash.             *)
(*                                                                         *)
(* Each function up to its first await is one action.  Time is abstract:   *)
(* "cooling" are the runs whose retry delay has not passed, "expired"      *)
(* those that ended more than ANNOUNCE_EXPIRY_MS ago.                      *)
(***************************************************************************)
EXTENDS Integers, FiniteSets

CONSTANTS
  Runs,
  NoRecord,       \* stands for an absent record
  Session,        \* childSessionKey of a run
  Requester,      \* its requesterSessionKey: a session, or Main
  Main,
  Successor,      \* the run that replaces it when it is steered, or itself
  Expects,        \* runs with expectsCompletionMessage
  DeleteAfter,    \* runs with cleanup = "delete"
  Labelled,       \* runs with a label, whose announce flow ends with an await
  DeliveryFails,  \* runs whose announcement may fail to be delivered
  WaitFails,      \* runs whose agent.wait may throw
  Killable,       \* runs a user may kill
  Archived,       \* runs that may reach archiveAtMs
  MAX_ANNOUNCE_RETRY_COUNT,
  MaxRestarts     \* bound: crashes of the gateway

Sessions == {Session[r] : r \in Runs}

Records == [ended : BOOLEAN, cleanupHandled : BOOLEAN, cleanupCompleted : BOOLEAN,
            suppress : {"none", "steer-restart", "killed"},
            retryCount : 0..MAX_ANNOUNCE_RETRY_COUNT]

ASSUME RunsAssumption ==
  /\ DOMAIN Session = Runs /\ NoRecord \notin Records
  /\ Requester \in [Runs -> Sessions \cup {Main}]
  /\ Successor \in [Runs -> Runs]
  /\ \A r \in Runs : /\ Session[Successor[r]] = Session[r]
                     /\ Requester[Successor[r]] = Requester[r]
                     /\ \A S \in {Expects, DeleteAfter, Labelled} : r \in S <=> Successor[r] \in S
  /\ \A S \in {Expects, DeleteAfter, Labelled, DeliveryFails, WaitFails, Killable, Archived} :
       S \subseteq Runs
\* Every steer gives its run a new id.
ASSUME SuccessorAssumption ==
  \A q, r \in Runs : q # r /\ Successor[q] = Successor[r] => Successor[q] \in {q, r}
ASSUME BoundsAssumption == MAX_ANNOUNCE_RETRY_COUNT \in Nat \ {0} /\ MaxRestarts \in Nat

VARIABLES
  subagentRuns,   \* the records in memory
  disk,           \* the records last saved
  resumedRuns,    \* runs that are taken care of, by a flow, a timer or a wait
  timers,         \* retry timers set, for each run and attempt
  waits,          \* runs with an agent.wait under way
  child,          \* the run itself: "unborn", "running" or "over"
  flow,           \* its announce flow: "none", "busy", "clear" or its result: "told", "untold"
  cooling, expired,
  steering,       \* runs a steer is under way for
  restarts,
  attempts,       \* history: flows begun
  told,           \* history: announcements reported as delivered
  strays          \* history: requests reported as failed that reached the requester all the same

vars == <<subagentRuns, disk, resumedRuns, timers, waits, child, flow, cooling, expired,
          steering, restarts, attempts, told, strays>>

NewRecord == [ended |-> FALSE, cleanupHandled |-> FALSE, cleanupCompleted |-> FALSE,
              suppress |-> "none", retryCount |-> 0]

Attempts  == 1..MAX_ANNOUNCE_RETRY_COUNT
NoTimers  == [r \in Runs |-> [n \in Attempts |-> 0]]
Known(recs) == {r \in Runs : recs[r] # NoRecord}

Init ==
  /\ subagentRuns = [r \in Runs |-> NoRecord] /\ disk = subagentRuns
  /\ resumedRuns = {} /\ timers = NoTimers /\ waits = {}
  /\ child = [r \in Runs |-> "unborn"] /\ flow = [r \in Runs |-> "none"]
  /\ cooling = {} /\ expired = {} /\ steering = {} /\ restarts = 0
  /\ attempts = [r \in Runs |-> 0] /\ told = [r \in Runs |-> 0]
  /\ strays = [r \in Runs |-> 0]

-----------------------------------------------------------------------------
(* resumeSubagentRun and startSubagentAnnounceCleanupFlow, for several runs  *)
(* at once: what happens to one of them does not depend on the others.       *)

\* Mutant: a flow is begun beside or after another one.
MayBegin_Always(rec) == TRUE

\* beginSubagentCleanup
MayBegin(rec) == ~rec.cleanupCompleted /\ ~rec.cleanupHandled

\* Mutant: the record held back for a steer is announced.
Resume_IgnoresSteer(r, rec) ==
  IF rec.cleanupCompleted THEN "nothing"
  ELSE IF rec.retryCount >= MAX_ANNOUNCE_RETRY_COUNT \/ (rec.ended /\ r \in expired) THEN "giveUp"
  ELSE IF r \in Expects \cap cooling THEN "later"
  ELSE IF ~rec.ended THEN "wait"
  ELSE IF MayBegin(rec) THEN "begin" ELSE "nothing"

Resume(r, rec) ==
  IF rec.cleanupCompleted THEN "nothing"
  ELSE IF rec.retryCount >= MAX_ANNOUNCE_RETRY_COUNT \/ (rec.ended /\ r \in expired) THEN "giveUp"
  ELSE IF r \in Expects \cap cooling THEN "later"
  ELSE IF ~rec.ended THEN "wait"
  ELSE IF rec.suppress = "steer-restart" THEN "hold"
  ELSE IF MayBegin(rec) THEN "begin" ELSE "nothing"

\* The records are recs and the resumed runs are res; then the runs of R are
\* resumed, those of res excepted, and the flows of B are begun.
Proceed(recs, res, R, B, fl, tm, ws) ==
  LET does(r, what) == r \in (R \cap Known(recs)) \ res /\ Resume(r, recs[r]) = what
      begins == {r \in Runs : does(r, "begin")} \cup {r \in B \cap Known(recs) : MayBegin(recs[r])}
  IN  /\ subagentRuns' = [r \in Runs |->
            IF r \in begins THEN [recs[r] EXCEPT !.cleanupHandled = TRUE]
            ELSE IF does(r, "giveUp") THEN [recs[r] EXCEPT !.cleanupCompleted = TRUE]
            ELSE recs[r]]
      /\ flow' = [r \in Runs |-> IF r \in begins THEN "busy" ELSE fl[r]]
      /\ attempts' = [r \in Runs |-> IF r \in begins THEN attempts[r] + 1 ELSE attempts[r]]
      /\ timers' = [r \in Runs |-> IF does(r, "later") THEN [tm[r] EXCEPT ![recs[r].retryCount] = @ + 1]
                                   ELSE tm[r]]
      /\ waits' = ws \cup {r \in Runs : does(r, "wait")}
      /\ resumedRuns' = res \cup {r \in Runs : \E what \in {"begin", "later", "hold", "wait"} : does(r, what)}

Save == disk' = subagentRuns'

-----------------------------------------------------------------------------
(* The beginning and the end of a run.                                       *)

\* registerSubagentRun, after the gateway has accepted the run, in a session of its own
\* (subagent-spawn.ts): by then the run may be over, and its lifecycle events gone by.
RegisterSubagentRun(r) ==
  /\ \A q \in Runs : /\ Session[q] = Session[r] => child[q] = "unborn"
                     /\ Successor[q] = r => q = r
  /\ Requester[r] = Main \/ \E q \in Runs : Session[q] = Requester[r] /\ child[q] = "running"
  /\ \E c \in {"running", "over"} : child' = [child EXCEPT ![r] = c]
  /\ subagentRuns' = [subagentRuns EXCEPT ![r] = NewRecord] /\ Save
  /\ waits' = waits \cup {r}
  /\ UNCHANGED <<resumedRuns, timers, flow, cooling, expired, steering, restarts, attempts, told, strays>>

\* The flows an end of run r begins.
EndFlows(r, recs) == {q \in {r} : recs[q].suppress # "steer-restart"}

\* A lifecycle event "end" or "error"; after the event the run may go on and end
\* again (compaction).  The lane of the session keeps it behind the run it replaces; a
\* run in the registry is the last of its session.
LifecycleEnd(r) ==
  /\ child[r] = "running"
  /\ \A q \in Runs \ {r} : Successor[q] = r \/ (Session[q] = Session[r] /\ r \in Known(subagentRuns))
                            => child[q] # "running"
  /\ \E c \in {"running", "over"} : child' = [child EXCEPT ![r] = c]
  /\ IF subagentRuns[r] = NoRecord
     THEN UNCHANGED <<subagentRuns, disk, resumedRuns, timers, waits, flow, expired, attempts>>
     ELSE LET recs == [subagentRuns EXCEPT ![r].ended = TRUE]
          IN  /\ Proceed(recs, resumedRuns, {}, EndFlows(r, recs), flow, timers, waits)
              /\ expired' = expired \ {r}
              /\ Save
  /\ UNCHANGED <<cooling, steering, restarts, told, strays>>

\* agent.wait answers, with the end of the run or with a timeout.
WaitReturns(r) ==
  /\ r \in waits
  /\ IF subagentRuns[r] = NoRecord
     THEN /\ waits' = waits \ {r}
          /\ UNCHANGED <<subagentRuns, disk, resumedRuns, timers, flow, attempts>>
     ELSE LET recs == [subagentRuns EXCEPT ![r].ended = TRUE]
          IN  /\ Proceed(recs, resumedRuns, {}, EndFlows(r, recs), flow, timers, waits \ {r})
              /\ Save
  /\ UNCHANGED <<child, cooling, expired, steering, restarts, told, strays>>

WaitThrows(r) ==
  /\ r \in waits \cap WaitFails
  /\ waits' = waits \ {r}
  /\ UNCHANGED <<subagentRuns, disk, resumedRuns, timers, child, flow, cooling, expired,
                 steering, restarts, attempts, told, strays>>

-----------------------------------------------------------------------------
(* The announce flow and what follows it.                                    *)

\* The records countActiveDescendantRuns reads: those in memory over those saved.
Snapshot == [r \in Runs |-> IF subagentRuns[r] = NoRecord THEN disk[r] ELSE subagentRuns[r]]

\* The sessions reached from s within n steps from requesters to their children.
Reached(s) ==
  LET near[n \in 0..Cardinality(Runs)] ==
        IF n = 0 THEN {s}
        ELSE near[n - 1] \cup {Session[r] : r \in {q \in Known(Snapshot) : Requester[q] \in near[n - 1]}}
  IN  near[Cardinality(Runs)]

ActiveDescendants(s) == {r \in Known(Snapshot) : Requester[r] \in Reached(s) /\ ~Snapshot[r].ended}

\* The flow may not announce yet: the session of the run is still busy, or runs
\* the session has asked for are.  A completion message does not wait for either.
Deferred(r) ==
  /\ r \notin Expects
  /\ \/ \E q \in Runs : Session[q] = Session[r] /\ child[q] = "running"
     \/ ActiveDescendants(Session[r]) # {}

\* Mutant: runs that are waiting for others are left to the next restart.
RetryDeferred_Never(r, recs) == {}

\* The runs retryDeferredCompletedAnnounces(r) looks at.
RetryDeferred(r, recs) ==
  {q \in Known(recs) \ {r} : /\ recs[q].ended
                            /\ MayBegin(recs[q])
                            /\ recs[q].suppress # "steer-restart"}

\* finalizeSubagentCleanup when the run is settled and its record is now rec.
Settle(r, rec, fl) ==
  LET recs    == [subagentRuns EXCEPT ![r] = rec]
      waiting == RetryDeferred(r, recs)
      late    == waiting \cap expired
      given   == [q \in Runs |-> IF q \in late THEN [recs[q] EXCEPT !.cleanupCompleted = TRUE] ELSE recs[q]]
  IN  /\ Proceed(given, resumedRuns \ (waiting \ late), waiting \ late, {}, fl, timers, waits)
      /\ UNCHANGED cooling

\* Mutant: a deferred run stays claimed.
Defer_Claimed(r, rec, fl) ==
  /\ subagentRuns' = [subagentRuns EXCEPT ![r] = [rec EXCEPT !.cleanupHandled = TRUE]]
  /\ resumedRuns' = resumedRuns \ {r}
  /\ flow' = fl /\ UNCHANGED <<waits, attempts, cooling, timers>>

\* It is to be tried again: by a timer if a completion message is expected,
\* otherwise when another run is settled.
Defer(r, rec, fl) ==
  /\ subagentRuns' = [subagentRuns EXCEPT ![r] = [rec EXCEPT !.cleanupHandled = FALSE]]
  /\ resumedRuns' = resumedRuns \ {r}
  /\ cooling' = cooling \cup ({r} \cap Expects)
  /\ timers' = IF r \in Expects THEN [timers EXCEPT ![r][rec.retryCount] = @ + 1] ELSE timers
  /\ flow' = fl /\ UNCHANGED <<waits, attempts>>

\* Mutant: one attempt too many.
GivesUp_Late(r, rec) == rec.retryCount > MAX_ANNOUNCE_RETRY_COUNT \/ r \in expired

GivesUp(r, rec) == rec.retryCount >= MAX_ANNOUNCE_RETRY_COUNT \/ r \in expired

\* finalizeSubagentCleanup
Finalize(r, didAnnounce) ==
  LET old   == subagentRuns[r]
      rec   == IF didAnnounce THEN old ELSE [old EXCEPT !.retryCount = @ + 1]
      fl    == [flow EXCEPT ![r] = "none"]
  IN  IF old = NoRecord
      THEN flow' = fl /\ UNCHANGED <<subagentRuns, disk, resumedRuns, timers, waits, cooling, attempts>>
      ELSE /\ IF ~didAnnounce /\ ~GivesUp(r, rec) THEN Defer(r, rec, fl)
              ELSE IF didAnnounce /\ r \in DeleteAfter THEN Settle(r, NoRecord, fl)
              ELSE Settle(r, [rec EXCEPT !.cleanupCompleted = TRUE], fl)
           /\ Save

\* runSubagentAnnounceFlow has found nothing to wait for, and prepares the message.
FlowIsClear(r) ==
  /\ flow[r] = "busy" /\ ~Deferred(r)
  /\ flow' = [flow EXCEPT ![r] = "clear"]
  /\ UNCHANGED <<subagentRuns, disk, resumedRuns, timers, waits, child, cooling, expired,
                 steering, restarts, attempts, told, strays>>

\* It gives up for now, or delivers or fails to, whatever has come up since it was clear;
\* if nothing is left to await its caller finalizes in the same step.  A request that is
\* not answered within 15 s counts as failed, but may be carried out (it strays); a
\* completion message whose request has failed is steered or queued instead if it can be.
FlowEnds(r, didAnnounce, strayed) ==
  /\ \/ flow[r] = "busy" /\ Deferred(r) /\ ~didAnnounce /\ ~strayed
     \/ /\ flow[r] = "clear"
        /\ ~didAnnounce \/ strayed => r \in DeliveryFails
        /\ didAnnounce /\ strayed => r \in Expects
  /\ told' = [told EXCEPT ![r] = IF didAnnounce THEN @ + 1 ELSE @]
  /\ strays' = [strays EXCEPT ![r] = IF strayed THEN @ + 1 ELSE @]
  /\ IF r \in Labelled \/ (r \in DeleteAfter /\ flow[r] = "clear")
     THEN /\ flow' = [flow EXCEPT ![r] = IF didAnnounce THEN "told" ELSE "untold"]
          /\ UNCHANGED <<subagentRuns, disk, resumedRuns, timers, waits, cooling, attempts>>
     ELSE Finalize(r, didAnnounce)
  /\ UNCHANGED <<child, expired, steering, restarts>>

\* The label is patched and the session deleted, if it is to be.
FlowReturns(r) ==
  /\ flow[r] \in {"told", "untold"}
  /\ Finalize(r, flow[r] = "told")
  /\ UNCHANGED <<child, expired, steering, restarts, told, strays>>

\* A timer of the present attempt fires after the delay, one of an earlier
\* attempt at any time.
TimerFires(r) ==
  \E n \in Attempts :
    LET tm == [timers EXCEPT ![r][n] = @ - 1]
    IN  /\ timers[r][n] > 0
        /\ r \in cooling \cap Known(subagentRuns) => n < subagentRuns[r].retryCount
        /\ Proceed(subagentRuns, resumedRuns, {r}, {}, flow, tm, waits)
        /\ disk' = IF subagentRuns' = subagentRuns THEN disk ELSE subagentRuns'
        /\ UNCHANGED <<child, cooling, expired, steering, restarts, told, strays>>

DelayPasses(r) ==
  /\ r \in cooling
  /\ cooling' = cooling \ {r}
  /\ UNCHANGED <<subagentRuns, disk, resumedRuns, timers, waits, child, flow, expired,
                 steering, restarts, attempts, told, strays>>

Expires(r) ==
  /\ r \in Known(subagentRuns) \ expired
  /\ subagentRuns[r].ended /\ ~subagentRuns[r].cleanupCompleted
  /\ expired' = expired \cup {r}
  /\ UNCHANGED <<subagentRuns, disk, resumedRuns, timers, waits, child, flow, cooling,
                 steering, restarts, attempts, told, strays>>

-----------------------------------------------------------------------------
(* Users and the sweeper.                                                    *)

\* Steering begins: the record is marked and the run aborted.
MarkForSteerRestart(r) ==
  /\ r \in Known(subagentRuns) \ steering /\ ~subagentRuns[r].ended
  /\ Successor[r] # r /\ child[Successor[r]] = "unborn"
  /\ subagentRuns' = [subagentRuns EXCEPT ![r].suppress = "steer-restart"] /\ Save
  /\ steering' = steering \cup {r}
  /\ UNCHANGED <<resumedRuns, timers, waits, child, flow, cooling, expired, restarts, attempts, told, strays>>

\* The gateway has accepted the new run, whatever has become of the old record.
ReplaceAfterSteer(r) ==
  /\ r \in steering /\ steering' = steering \ {r}
  /\ subagentRuns' = [subagentRuns EXCEPT ![r] = NoRecord, ![Successor[r]] = NewRecord] /\ Save
  /\ resumedRuns' = resumedRuns \ {r}
  /\ waits' = waits \cup {Successor[r]}
  /\ child' = [child EXCEPT ![Successor[r]] = "running"]
  /\ UNCHANGED <<timers, flow, cooling, expired, restarts, attempts, told, strays>>

\* It has not: an end that was held back is announced after all.
ClearSteerRestart(r) ==
  /\ r \in steering /\ steering' = steering \ {r}
  /\ IF r \notin Known(subagentRuns) \/ subagentRuns[r].suppress # "steer-restart"
     THEN UNCHANGED <<subagentRuns, disk, resumedRuns, timers, waits, flow, attempts>>
     ELSE LET recs == [subagentRuns EXCEPT ![r].suppress = "none"]
          IN  /\ Proceed(recs, resumedRuns \ {r}, {q \in {r} : recs[q].ended}, {}, flow, timers, waits)
              /\ Save
  /\ UNCHANGED <<child, cooling, expired, restarts, told, strays>>

Terminated(rec) == [rec EXCEPT !.ended = TRUE, !.cleanupHandled = TRUE,
                               !.cleanupCompleted = TRUE, !.suppress = "killed"]

\* markSubagentRunTerminated: every run of the session that has not ended.
MarkTerminated(r) ==
  LET runs == {q \in Known(subagentRuns) : Session[q] = Session[r] /\ ~subagentRuns[q].ended}
  IN  /\ r \in Killable \cap runs
      /\ subagentRuns' = [q \in Runs |-> IF q \in runs THEN Terminated(subagentRuns[q])
                                         ELSE subagentRuns[q]]
      /\ Save
      /\ UNCHANGED <<resumedRuns, timers, waits, child, flow, cooling, expired,
                     steering, restarts, attempts, told, strays>>

\* sweepSubagentRuns removes a record, ended or not, and awaits the deletion of
\* the session; it saves when it has gone through all records.
Sweep(r) ==
  /\ r \in Archived \cap Known(subagentRuns)
  /\ subagentRuns' = [subagentRuns EXCEPT ![r] = NoRecord]
  /\ UNCHANGED <<disk, resumedRuns, timers, waits, child, flow, cooling, expired,
                 steering, restarts, attempts, told, strays>>

SweepDone ==
  /\ disk # subagentRuns
  /\ disk' = subagentRuns
  /\ UNCHANGED <<subagentRuns, resumedRuns, timers, waits, child, flow, cooling, expired,
                 steering, restarts, attempts, told, strays>>

\* The gateway crashes, is started again and restores the registry; a request under way
\* may have been carried out.
Restart ==
  /\ restarts < MaxRestarts /\ restarts' = restarts + 1
  /\ child' = [r \in Runs |-> IF child[r] = "running" THEN "over" ELSE child[r]]
  /\ steering' = {}
  /\ \E S \in SUBSET {r \in Runs : flow[r] = "clear"} :
       strays' = [r \in Runs |-> IF r \in S THEN strays[r] + 1 ELSE strays[r]]
  /\ Proceed(disk, {}, Runs, {}, [r \in Runs |-> "none"], NoTimers, {})
  /\ Save
  /\ UNCHANGED <<cooling, expired, told>>

-----------------------------------------------------------------------------
Next ==
  \/ \E r \in Runs :
       \/ RegisterSubagentRun(r) \/ LifecycleEnd(r) \/ WaitReturns(r) \/ WaitThrows(r)
       \/ FlowIsClear(r) \/ FlowReturns(r)
       \/ \E didAnnounce, strayed \in BOOLEAN : FlowEnds(r, didAnnounce, strayed)
       \/ TimerFires(r) \/ DelayPasses(r) \/ Expires(r)
       \/ MarkForSteerRestart(r) \/ ReplaceAfterSteer(r) \/ ClearSteerRestart(r)
       \/ MarkTerminated(r) \/ Sweep(r)
  \/ SweepDone \/ Restart

Spec == Init /\ [][Next]_vars

-----------------------------------------------------------------------------
\* The types: in particular the retry count of a record stays within the limit, in
\* memory and on disk, although timers, other runs and restarts all retry.
TypeOK ==
  /\ subagentRuns \in [Runs -> Records \cup {NoRecord}] /\ disk \in [Runs -> Records \cup {NoRecord}]
  /\ \A S \in {resumedRuns, waits, cooling, expired, steering} : S \subseteq Runs
  /\ timers \in [Runs -> [Attempts -> Nat]]
  /\ child \in [Runs -> {"unborn", "running", "over"}]
  /\ flow \in [Runs -> {"none", "busy", "clear", "told", "untold"}]
  /\ restarts \in 0..MaxRestarts
  /\ attempts \in [Runs -> Nat] /\ told \in [Runs -> Nat] /\ strays \in [Runs -> Nat]

\* The result of a run is reported as delivered at most once, after a bounded number of
\* attempts, although its end is reported twice, timers and other runs retry it, and a
\* crash may come between the delivery and the record of it.  It reaches the requester
\* at most once for each attempt, and once more only if a completion message was steered
\* or queued after a request of which it was not known that it was carried out.
AnnouncedOnce ==
  \A r \in Runs :
    /\ told[r] <= 1 /\ attempts[r] <= MAX_ANNOUNCE_RETRY_COUNT
    /\ told[r] + strays[r] <= attempts[r] + (IF r \in Expects THEN 1 ELSE 0)

\* A run that was killed, or is being steered, is not announced: neither an end
\* that arrives later, nor a retry on behalf of others, nor a restart does it.
SilencedIsSilent ==
  \A r \in Known(subagentRuns) : subagentRuns[r].suppress # "none" => attempts[r] = 0

\* A record that is claimed and not settled has a flow that will settle it,
\* unless a crash has ended the flow; and the record of a flow is claimed.
ClaimHasFlow ==
  \A r \in Known(subagentRuns) :
    /\ subagentRuns[r].cleanupHandled /\ ~subagentRuns[r].cleanupCompleted
         => flow[r] # "none" \/ restarts > 0
    /\ flow[r] # "none" => subagentRuns[r].cleanupHandled

Settled(r)  == r \notin Known(subagentRuns) \/ subagentRuns[r].cleanupCompleted
HasEnded(r) == r \in Known(subagentRuns) /\ subagentRuns[r].ended

\* Nothing is under way that could still settle a run.
Quiet ==
  /\ waits = {} /\ steering = {} /\ timers = NoTimers
  /\ \A r \in Runs : flow[r] = "none" /\ child[r] # "running"

\* Run r is over and will never settle: it was killed, swept, given up when it was resumed,
\* or its end was never reported; or it may still expect to be announced, but its retry was
\* cancelled by another run.
Lost(r) ==
  /\ child[r] = "over" /\ (Successor[r] = r \/ child[Successor[r]] = "unborn")
  /\ \/ told[r] = 0 /\ (Settled(r) \/ ~HasEnded(r) \/ r \in Expects)
     \/ r \in Archived \ Known(subagentRuns)

\* A run that was deferred, because of its descendants or its own session, or held back
\* for a steer that failed, is taken up again: when nothing is under way any more, every
\* run that has ended is settled, if no other run was lost and the gateway never crashed.
\* It is not if its delivery failed, or if its label was patched after it was deferred.
DeferredAreServed ==
  Quiet /\ restarts = 0 /\ Labelled \cup DeliveryFails \subseteq Expects /\ ~(\E r \in Runs : Lost(r))
    => \A r \in Runs \ Expects : HasEnded(r) => Settled(r)
=============================================================================
