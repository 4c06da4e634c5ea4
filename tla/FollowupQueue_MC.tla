-------------------------- MODULE FollowupQueue_MC --------------------------
(* Four messages of one session from one or two places; the first starts a run
   of its own and the others arrive while it, or a followup run, is active. *)
EXTENDS FollowupQueue

CONSTANTS m1, m2, m3, m4, chatA, chatB, mixed

MCMsgs     == {m1, m2, m3, m4}
MCRoutes   == [m \in MCMsgs |-> IF m = m2 THEN chatB ELSE chatA]

\* m2 cannot be answered together with anything.
MCUnroutable == [m \in MCMsgs |-> IF m = m2 THEN mixed ELSE chatA]

Mode(d, c, p) == [mode |-> d, cap |-> c, policy |-> p]

\* A cap that refuses what does not fit, while the user toggles the mode.
MCRefuse == {Mode("followup", 3, "new"), Mode("collect", 3, "new")}
\* Everything a user may switch between.
MCAll == {Mode("followup", 1, "old"), Mode("collect", 2, "summarize"), Mode("followup", 2, "summarize")}
=============================================================================
