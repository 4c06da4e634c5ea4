------------------------------ MODULE LaneState ------------------------------
(***************************************************************************)
(* One command lane of src/src/process/command-queue.ts: the record the    *)
(* code calls LaneState and the pure part of its operations.               *)
(*                                                                         *)
(* A queue entry and the numeric id it is given when it starts are the     *)
(* same member of Tasks: nextTaskId gives every started entry an id of its *)
(* own.  The draining flag is not part of the record: it is TRUE only      *)
(* inside one synchronous call of pump, so it is FALSE between any two     *)
(* steps (no caller in src/ passes the onWait callback, the only code that *)
(* could throw out of pump).  A lane the map has not yet created is a lane *)
(* in its initial state.                                                   *)
(***************************************************************************)
EXTENDS Naturals, Sequences, FiniteSets

CONSTANT Tasks      \* the calls of enqueueCommandInLane

LaneStates == [queue : Seq(Tasks), active : SUBSET Tasks,
               maxConcurrent : Nat \ {0}, generation : Nat]

NewLane == [queue |-> <<>>, active |-> {}, maxConcurrent |-> 1, generation |-> 0]

\* The entries of a sequence, as a set.
Entries(q) == {q[i] : i \in DOMAIN q}

NoDuplicates(q) == \A i, j \in DOMAIN q : q[i] = q[j] => i = j

\* Mutant: pump counts the queue only, not the tasks that already run.
StartCount_IgnoresActive(s) ==
  IF s.maxConcurrent < Len(s.queue) THEN s.maxConcurrent ELSE Len(s.queue)

\* How many entries the while loop of pump shifts off the queue.
StartCount(s) ==
  LET room == s.maxConcurrent - Cardinality(s.active)
  IN  IF Cardinality(s.active) >= s.maxConcurrent THEN 0
      ELSE IF room < Len(s.queue) THEN room ELSE Len(s.queue)

\* The entries pump starts, oldest first.
Starting(s) == SubSeq(s.queue, 1, StartCount(s))

\* The lane after pump has run.
Pump(s) == [s EXCEPT !.queue  = SubSeq(@, StartCount(s) + 1, Len(@)),
                     !.active = @ \cup Entries(Starting(s))]

\* Mutant: unshift in place of push.
Push_Front(s, t) == [s EXCEPT !.queue = <<t>> \o @]

Push(s, t) == [s EXCEPT !.queue = Append(@, t)]

\* Mutant: the id is never deleted.
CompleteTask_KeepsSlot(s, t) == s

CompleteTask(s, t) == [s EXCEPT !.active = @ \ {t}]

\* Mutant: Math.max(1, ...) is dropped.
Resize_Unclamped(s, n) == [s EXCEPT !.maxConcurrent = n]

\* setCommandLaneConcurrency clamps what the configuration says to at least 1.
Resize(s, n) == [s EXCEPT !.maxConcurrent = IF n > 1 THEN n ELSE 1]

Clear(s) == [s EXCEPT !.queue = <<>>]

\* Mutant: the generation is bumped but activeTaskIds is not cleared.
Reset_KeepsActive(s) == [s EXCEPT !.generation = @ + 1]

\* A reset forgets the running tasks and keeps the queue.
Reset(s) == [s EXCEPT !.generation = @ + 1, !.active = {}]
=============================================================================
