---------------------------- MODULE DeliveryQueue ----------------------------
(***************************************************************************)
(* The write-ahead queue of outbound deliveries                            *)
(* (src/src/infra/outbound/delivery-queue.ts), the sends that use it       *)
(* (deliverOutboundPayloads in deliver.ts) and its recovery, over the two  *)
(* stores it has: one file for each entry on disk, or one document with    *)
(* all entries in the vault                                                *)
(* (src/extensions/straja-vault/src/delivery-queue-patch.ts).              *)
(*                                                                         *)
(* Actors are the sends of this gateway, one for each delivery, and the    *)
(* recoveries under way: each start of the gateway begins one and nothing  *)
(* waits for the last one, so an in-process restart may leave two.  An     *)
(* operation on the store first loads (the file, or the document) and      *)
(* then saves; between the two, every other actor may load and save.       *)
(*                                                                         *)
(* Deliveries are numbered in the order of enqueuedAt.                     *)
(***************************************************************************)
EXTENDS Naturals, FiniteSets

CONSTANTS
  Ids,          \* the deliveries, 1 .. their number
  Recoverers,   \* recoveries that may be under way at once
  Backend,      \* "disk" or "vault"
  BestEffort,   \* deliveries sent with bestEffort
  Reported,     \* those whose caller passes onError
  MaxRetries,   \* MAX_RETRIES
  Budget,       \* maxRecoveryMs, in seconds
  SendTimes,    \* how long, in seconds, a send of a recovery may take
  MaxCrashes,   \* bound: crashes of the gateway
  MaxFaults     \* bound: operations of the store that throw

ASSUME IdsAssumption ==
  /\ IsFiniteSet(Ids) /\ Ids = 1 .. Cardinality(Ids) /\ 1 \in Ids
  /\ BestEffort \subseteq Ids /\ Reported \subseteq Ids
  /\ Ids \cap Recoverers = {}
ASSUME LimitsAssumption ==
  /\ Backend \in {"disk", "vault"}
  /\ MaxRetries \in Nat \ {0} /\ Budget \in Nat \ {0} /\ SendTimes \subseteq Nat
  /\ MaxCrashes \in Nat /\ MaxFaults \in Nat

VARIABLES
  pending,   \* the queue: the retryCount of every entry in it
  failed,    \* the entries given up
  actors,    \* what every send and every recovery is doing
  sent,      \* history: the deliveries that reached the channel in full
  tries,     \* history: how many of its sends have ended, at most MaxRetries
  aborted,   \* history: deliveries whose send was aborted
  crashes, faults

vars == <<pending, failed, actors, sent, tries, aborted, crashes, faults>>

Actors == Ids \cup Recoverers

\* A document of the store: a function from the entries in it to their retryCount.
IsDoc(d) == DOMAIN d \subseteq Ids /\ d \in [DOMAIN d -> Nat]

Put(d, i, n) == [j \in DOMAIN d \cup {i} |-> IF j = i THEN n ELSE d[j]]
Drop(d, i)   == [j \in DOMAIN d \ {i} |-> d[j]]
Nothing      == [j \in {} |-> 0]

AtMost(n, bound) == IF n < bound THEN n ELSE bound
Oldest(S) == CHOOSE i \in S : \A j \in S : i <= j

Storing == {"enqueue", "ack", "fail", "move"}    \* a call of the store was made
Saving  == {"enqueueSave", "ackSave", "failSave", "moveLoaded", "moveSave", "failedSave"}
Pcs     == {"idle", "send", "next", "done", "dead"} \cup Storing \cup Saving

\* job: the delivery at hand; queued: it has a queue id; view, failedView: what
\* was loaded; todo: the entries a recovery has left, with its snapshot of them.
IsActor(a) ==
  /\ DOMAIN a = {"pc", "job", "queued", "view", "failedView", "todo", "spent"}
  /\ a.pc \in Pcs /\ a.job \in Ids /\ a.queued \in BOOLEAN /\ a.spent \in Nat
  /\ IsDoc(a.view) /\ IsDoc(a.todo) /\ a.failedView \subseteq Ids

Idle(i) == [pc |-> "idle", job |-> i, queued |-> FALSE, view |-> Nothing,
            failedView |-> {}, todo |-> Nothing, spent |-> 0]

Init ==
  /\ pending = Nothing /\ failed = {}
  /\ actors = [p \in Actors |-> Idle(IF p \in Ids THEN p ELSE 1)]
  /\ sent = {} /\ tries = [i \in Ids |-> 0] /\ aborted = {}
  /\ crashes = 0 /\ faults = 0

-----------------------------------------------------------------------------
\* The store.

\* What a save starts from: the document as it was loaded, or the disk as it is.
Base(p) == IF Backend = "vault" THEN actors[p].view ELSE pending

\* Actor p after its operation on the store: a recovery goes on to its next entry.
After(p) ==
  IF p \in Ids THEN [actors[p] EXCEPT !.pc = "done", !.view = Nothing]
  ELSE [actors[p] EXCEPT !.pc = "next", !.view = Nothing, !.failedView = {},
                         !.todo = Drop(@, actors[p].job)]

\* The queue after the save that p is about to make.
Saved(p) ==
  LET a == actors[p]
  IN  CASE a.pc = "enqueueSave" -> Put(Base(p), a.job, 0)
        [] a.pc = "ackSave"     -> Drop(Base(p), a.job)
        [] a.pc = "failSave"    -> IF a.job \in DOMAIN a.view
                                   THEN Put(Base(p), a.job, a.view[a.job] + 1)
                                   ELSE pending
        [] a.pc = "moveSave"    -> Drop(Base(p), a.job)
        [] OTHER                -> pending

SavedFailed(p) == actors[p].failedView \cup {actors[p].job}

\* loadQueue("pending"), or the read of the entry's file.
Load(p) ==
  /\ actors[p].pc \in Storing
  /\ actors' = [actors EXCEPT ![p].pc =
                  CASE @ = "enqueue" -> "enqueueSave" [] @ = "ack"  -> "ackSave"
                    [] @ = "fail"    -> "failSave"    [] @ = "move" -> "moveLoaded",
                              ![p].view = pending]
  /\ UNCHANGED <<pending, failed, sent, tries, aborted, crashes, faults>>

\* enqueueDelivery, ackDelivery and failDelivery end.
Save(p) ==
  /\ actors[p].pc \in {"enqueueSave", "ackSave", "failSave"}
  /\ pending' = Saved(p)
  /\ actors' = [actors EXCEPT ![p] =
                  IF @.pc = "enqueueSave"
                  THEN [@ EXCEPT !.pc = "send", !.queued = TRUE, !.view = Nothing]
                  ELSE After(p)]
  /\ UNCHANGED <<failed, sent, tries, aborted, crashes, faults>>

\* moveToFailed: a rename on disk; two documents, one after the other, in the vault.
MoveOnDisk(p) ==
  /\ actors[p].pc = "moveLoaded" /\ Backend = "disk"
  /\ LET i == actors[p].job
     IN  IF i \in DOMAIN pending
         THEN pending' = Drop(pending, i) /\ failed' = failed \cup {i}
         ELSE UNCHANGED <<pending, failed>>
  /\ actors' = [actors EXCEPT ![p] = After(p)]
  /\ UNCHANGED <<sent, tries, aborted, crashes, faults>>

LoadFailed(p) ==
  /\ actors[p].pc = "moveLoaded" /\ Backend = "vault"
  /\ actors' = [actors EXCEPT ![p] =
                  IF @.job \in DOMAIN @.view
                  THEN [@ EXCEPT !.pc = "moveSave", !.failedView = failed]
                  ELSE After(p)]
  /\ UNCHANGED <<pending, failed, sent, tries, aborted, crashes, faults>>

SavePending(p) ==
  /\ actors[p].pc = "moveSave"
  /\ pending' = Saved(p)
  /\ actors' = [actors EXCEPT ![p].pc = "failedSave"]
  /\ UNCHANGED <<failed, sent, tries, aborted, crashes, faults>>

SaveFailed(p) ==
  /\ actors[p].pc = "failedSave"
  /\ failed' = SavedFailed(p)
  /\ actors' = [actors EXCEPT ![p] = After(p)]
  /\ UNCHANGED <<pending, sent, tries, aborted, crashes, faults>>

\* An operation throws.  A request to the vault that timed out may have been
\* carried out.  A send without a queue id goes on; a recovery whose ack throws
\* counts the delivery as failed; every other error is swallowed.
StoreThrows(p) ==
  LET a == actors[p]
  IN  /\ a.pc \in Storing \cup Saving /\ faults < MaxFaults
      /\ faults' = faults + 1
      /\ \E carriedOut \in IF Backend = "vault" THEN BOOLEAN ELSE {FALSE} :
           /\ pending' = IF carriedOut THEN Saved(p) ELSE pending
           /\ failed' = IF carriedOut /\ a.pc = "failedSave" THEN SavedFailed(p) ELSE failed
      /\ actors' = [actors EXCEPT ![p] =
                      CASE a.pc \in {"enqueue", "enqueueSave"} ->
                             [@ EXCEPT !.pc = "send", !.view = Nothing]
                        [] a.pc \in {"ack", "ackSave"} /\ p \in Recoverers ->
                             [@ EXCEPT !.pc = "fail", !.view = Nothing]
                        [] OTHER -> After(p)]
      /\ UNCHANGED <<sent, tries, aborted, crashes>>

-----------------------------------------------------------------------------
\* Sending.

\* What deliverOutboundPayloadsCore may do with a delivery: whether everything
\* reached the channel, and how the call ends.  It may throw after the last send
\* (the transcript mirror); with bestEffort an error only reaches onError.
Outcomes(i) ==
  {[reached |-> TRUE, ends |-> "resolves"], [reached |-> FALSE, ends |-> "rejects"],
   [reached |-> TRUE, ends |-> "rejects"]} \cup
  (IF i \in BestEffort THEN {[reached |-> FALSE, ends |-> "resolves"]} ELSE {})

Sent(i, o) ==
  /\ sent' = IF o.reached THEN sent \cup {i} ELSE sent
  /\ tries' = [tries EXCEPT ![i] = AtMost(@ + 1, MaxRetries)]

\* deliverOutboundPayloads is called: it first enqueues.
Deliver(i) ==
  /\ actors[i].pc = "idle" /\ \A j \in Ids : j < i => actors[j].pc # "idle"
  /\ actors' = [actors EXCEPT ![i].pc = "enqueue"]
  /\ UNCHANGED <<pending, failed, sent, tries, aborted, crashes, faults>>

\* The send ends: hadPartialFailure is set by onError only.
DeliverEnds(i) ==
  /\ actors[i].pc = "send"
  /\ \E o \in Outcomes(i) :
       /\ Sent(i, o)
       /\ actors' = [actors EXCEPT ![i].pc =
                       IF ~actors[i].queued THEN "done"
                       ELSE IF o.ends = "rejects" \/ (~o.reached /\ i \in Reported)
                       THEN "fail" ELSE "ack"]
  /\ UNCHANGED <<pending, failed, aborted, crashes, faults>>

\* It throws an AbortError: the entry is acknowledged.
DeliverAborts(i) ==
  /\ actors[i].pc = "send"
  /\ aborted' = aborted \cup {i}
  /\ actors' = [actors EXCEPT ![i].pc = IF actors[i].queued THEN "ack" ELSE "done"]
  /\ UNCHANGED <<pending, failed, sent, tries, crashes, faults>>

-----------------------------------------------------------------------------
\* Recovery.

\* BACKOFF_MS, in seconds, and computeBackoffMs for a retryCount from 1.
Backoff == <<5, 25, 120, 600>>
ComputeBackoff(retryCount) == Backoff[AtMost(retryCount, 4)]

\* The gateway starts: recoverPendingDeliveries loads the queue.
RecoverPendingDeliveries(r) ==
  /\ actors[r].pc = "idle" /\ pending # Nothing
  /\ actors' = [actors EXCEPT ![r] = [Idle(1) EXCEPT !.pc = "next", !.todo = pending]]
  /\ UNCHANGED <<pending, failed, sent, tries, aborted, crashes, faults>>

\* Mutants: the limit is passed by one, or reached one early; the budget is looked
\* at before the limit.
NextEntry_OnceMore(r) ==
  LET a == actors[r]
      i == Oldest(DOMAIN a.todo)
      backoff == ComputeBackoff(a.todo[i] + 1)
  IN  /\ a.pc = "next"
      /\ actors' = [actors EXCEPT ![r] =
           IF a.todo = Nothing \/ a.spent >= Budget THEN Idle(1)
           ELSE IF a.todo[i] > MaxRetries THEN [a EXCEPT !.pc = "move", !.job = i]
           ELSE IF a.spent + backoff >= Budget THEN Idle(1)
           ELSE [a EXCEPT !.pc = "send", !.job = i, !.spent = @ + backoff]]
      /\ UNCHANGED <<pending, failed, sent, tries, aborted, crashes, faults>>
NextEntry_OnceLess(r) ==
  LET a == actors[r]
      i == Oldest(DOMAIN a.todo)
      backoff == ComputeBackoff(a.todo[i] + 1)
  IN  /\ a.pc = "next"
      /\ actors' = [actors EXCEPT ![r] =
           IF a.todo = Nothing \/ a.spent >= Budget THEN Idle(1)
           ELSE IF a.todo[i] + 1 >= MaxRetries THEN [a EXCEPT !.pc = "move", !.job = i]
           ELSE IF a.spent + backoff >= Budget THEN Idle(1)
           ELSE [a EXCEPT !.pc = "send", !.job = i, !.spent = @ + backoff]]
      /\ UNCHANGED <<pending, failed, sent, tries, aborted, crashes, faults>>
NextEntry_BudgetFirst(r) ==
  LET a == actors[r]
      i == Oldest(DOMAIN a.todo)
      backoff == ComputeBackoff(a.todo[i] + 1)
  IN  /\ a.pc = "next"
      /\ actors' = [actors EXCEPT ![r] =
           IF a.todo = Nothing \/ a.spent >= Budget THEN Idle(1)
           ELSE IF a.spent + backoff >= Budget THEN Idle(1)
           ELSE IF a.todo[i] >= MaxRetries THEN [a EXCEPT !.pc = "move", !.job = i]
           ELSE [a EXCEPT !.pc = "send", !.job = i, !.spent = @ + backoff]]
      /\ UNCHANGED <<pending, failed, sent, tries, aborted, crashes, faults>>

\* The next entry of the loop, the oldest: it is given up, or retried after its
\* backoff, or the loop ends because the budget does not allow that.
NextEntry(r) ==
  LET a == actors[r]
      i == Oldest(DOMAIN a.todo)
      backoff == ComputeBackoff(a.todo[i] + 1)
  IN  /\ a.pc = "next"
      /\ actors' = [actors EXCEPT ![r] =
           IF a.todo = Nothing \/ a.spent >= Budget THEN Idle(1)
           ELSE IF a.todo[i] >= MaxRetries THEN [a EXCEPT !.pc = "move", !.job = i]
           ELSE IF a.spent + backoff >= Budget THEN Idle(1)
           ELSE [a EXCEPT !.pc = "send", !.job = i, !.spent = @ + backoff]]
      /\ UNCHANGED <<pending, failed, sent, tries, aborted, crashes, faults>>

\* Mutant: a delivery that failed again is acknowledged.
RecoverySendEnds_Acks(r) ==
  /\ actors[r].pc = "send"
  /\ \E o \in Outcomes(actors[r].job), t \in SendTimes :
       /\ Sent(actors[r].job, o)
       /\ actors' = [actors EXCEPT ![r].pc = "ack", ![r].spent = @ + t]
  /\ UNCHANGED <<pending, failed, aborted, crashes, faults>>

\* opts.deliver ends: a recovery passes bestEffort on, and no onError.
RecoverySendEnds(r) ==
  /\ actors[r].pc = "send"
  /\ \E o \in Outcomes(actors[r].job), t \in SendTimes :
       /\ Sent(actors[r].job, o)
       /\ actors' = [actors EXCEPT ![r].pc = IF o.ends = "rejects" THEN "fail" ELSE "ack",
                                   ![r].spent = @ + t]
  /\ UNCHANGED <<pending, failed, aborted, crashes, faults>>

-----------------------------------------------------------------------------
\* The process dies: what is stored is all that remains.
Crash ==
  /\ crashes < MaxCrashes /\ \E p \in Actors : actors[p].pc \notin {"idle", "done", "dead"}
  /\ crashes' = crashes + 1
  /\ actors' = [p \in Actors |->
                  IF p \in Recoverers THEN Idle(1)
                  ELSE IF actors[p].pc \in {"idle", "done"} THEN actors[p]
                  ELSE [actors[p] EXCEPT !.pc = "dead", !.view = Nothing]]
  /\ UNCHANGED <<pending, failed, sent, tries, aborted, faults>>

Stores(p) == Load(p) \/ Save(p) \/ MoveOnDisk(p) \/ LoadFailed(p) \/ SavePending(p) \/ SaveFailed(p)

Next ==
  \/ \E p \in Actors : Stores(p) \/ StoreThrows(p)
  \/ \E i \in Ids : Deliver(i) \/ DeliverEnds(i) \/ DeliverAborts(i)
  \/ \E r \in Recoverers : RecoverPendingDeliveries(r) \/ NextEntry(r) \/ RecoverySendEnds(r)
  \/ Crash

Spec == Init /\ [][Next]_vars

\* Requests and sends end (they time out), timers fire, and the gateway is started
\* again and again: recovery runs at a start only.
Fairness ==
  /\ \A p \in Actors : WF_vars(Stores(p))
  /\ \A i \in Ids : WF_vars(DeliverEnds(i))
  /\ \A r \in Recoverers : /\ WF_vars(RecoverPendingDeliveries(r))
                           /\ WF_vars(NextEntry(r)) /\ WF_vars(RecoverySendEnds(r))

FairSpec == Spec /\ Fairness

-----------------------------------------------------------------------------
\* The types; that only a recovery moves entries and has entries left to do; and that
\* on disk, as long as one recovery is under way at a time, a count exceeds the limit
\* by at most one.  With several recoveries, or in the vault, it has no bound: a save
\* of an old count makes an entry that was at the limit retried again.
TypeOK ==
  /\ IsDoc(pending)
  /\ Backend = "disk" /\ (\A q, r \in Recoverers : q = r) =>
       \A i \in DOMAIN pending : pending[i] <= MaxRetries + 1
  /\ failed \subseteq Ids /\ aborted \subseteq Ids
  /\ sent \subseteq Ids /\ tries \in [Ids -> 0 .. MaxRetries]
  /\ DOMAIN actors = Actors /\ \A p \in Actors : IsActor(actors[p])
  /\ crashes \in 0 .. MaxCrashes /\ faults \in 0 .. MaxFaults
  /\ \A i \in Ids : /\ actors[i].job = i
                    /\ actors[i].pc \notin {"next", "move", "moveLoaded", "moveSave", "failedSave"}

\* A delivery whose enqueue succeeded stays in the queue until it has reached the
\* channel, was aborted, or was put among the failed ones; so it survives any crash.
NothingLost ==
  \A i \in Ids : actors[i].queued =>
    i \in DOMAIN pending \/ i \in failed \cup sent \cup aborted

\* A delivery is given up only after it was tried as often as the limit says, and
\* its count in the queue never exceeds the tries there were.
GivesUpAfterRetries ==
  /\ \A i \in failed : tries[i] = MaxRetries
  /\ \A i \in DOMAIN pending : AtMost(pending[i], MaxRetries) <= tries[i]

\* No recovery can retry an entry with this count: it has tries left, but the
\* backoff before the next one is not shorter than the budget.
OutOfBudget(i) == pending[i] < MaxRetries /\ ComputeBackoff(pending[i] + 1) >= Budget

\* If the gateway is restarted often enough, every entry leaves the queue in the end,
\* delivered or given up, unless it or an older one, at which every recovery then
\* stops, has come to a count whose backoff does not fit the budget.
EntriesLeave ==
  \A i \in Ids :
    i \in DOMAIN pending ~> \/ i \notin DOMAIN pending
                           \/ \E j \in DOMAIN pending : j <= i /\ OutOfBudget(j)
=============================================================================
