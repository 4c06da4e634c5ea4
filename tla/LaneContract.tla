---------------------------- MODULE LaneContract ----------------------------
(***************************************************************************)
(* What the command queue promises to the callers of enqueueCommandInLane, *)
(* with neither queues nor generations: a call has a life of its own, and  *)
(* a lane hands out slots.                                                 *)
(***************************************************************************)
EXTENDS Naturals, FiniteSets

CONSTANTS Tasks, Lanes, LaneOf

VARIABLES
  status,   \* [Tasks -> STRING]: the life of each call
  slots,    \* [Lanes -> SUBSET Tasks]: the calls that hold a slot of the lane
  limit     \* [Lanes -> Nat]: how many slots the lane may hand out

Outcomes == {"resolved", "rejected"}

\* A promise settles once; a task starts once, never after it was cleared.
LifeCycle == {<<"new", "queued">>, <<"new", "running">>, <<"queued", "running">>,
              <<"queued", "cleared">>}
             \cup ({"running"} \X Outcomes)

Init ==
  /\ status = [t \in Tasks |-> "new"]
  /\ slots  = [l \in Lanes |-> {}]
  /\ limit  = [l \in Lanes |-> 1]

Begins(t) == status[t] \in {"new", "queued"} /\ status'[t] = "running"

\* A task that begins takes a slot of its lane, a task that ends gives it back,
\* and a lane gives out no slot beyond its limit.
Next ==
  /\ \A t \in Tasks : status'[t] # status[t] => <<status[t], status'[t]>> \in LifeCycle
  /\ \A l \in Lanes :
       LET begun == {t \in Tasks : LaneOf[t] = l /\ Begins(t)}
       IN  /\ slots'[l] \subseteq slots[l] \cup begun
           /\ begun \subseteq slots'[l]
           /\ \A t \in slots'[l] : status'[t] = "running"
           /\ begun # {} => Cardinality(slots'[l]) <= limit'[l]

Spec == Init /\ [][Next]_<<status, slots, limit>>
=============================================================================
