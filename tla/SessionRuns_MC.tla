--------------------------- MODULE SessionRuns_MC ---------------------------
(* Three runs of one session and one of another, over the main lane and the
   nested lane, with one restart. *)
EXTENDS SessionRuns, TLC

CONSTANTS a1, a2, a3, b1, sessionA, sessionB, main, nested

MCRuns      == {a1, a2, a3, b1}
MCSessionOf == [r \in Tasks |-> IF r = b1 THEN sessionB ELSE sessionA]
MCGlobalOf  == [r \in Tasks |-> IF r = a3 THEN nested ELSE main]
MCLimits    == main :> 1 @@ nested :> 1
=============================================================================
