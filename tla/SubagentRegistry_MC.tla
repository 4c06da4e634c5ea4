------------------------ MODULE SubagentRegistry_MC ------------------------
(* A subagent p of the main session and a subagent that p asks for, the run c,
   and c2 that replaces it when it is steered. *)
EXTENDS SubagentRegistry

CONSTANTS p, c, c2, sp, sc

MCSession   == [r \in Runs |-> IF r = p THEN sp ELSE sc]
MCRequester == [r \in Runs |-> IF r = p THEN Main ELSE sp]
MCSuccessor == [r \in Runs |-> IF r = c /\ c2 \in Runs THEN c2 ELSE r]
=============================================================================
