-------------------------- MODULE MCMatchPipeline --------------------------
(* MatchPipeline on small instances.  Workers are the numbers 1, 2, ...     *)
EXTENDS MatchPipeline, TLC

CONSTANTS p1, p2

\* One process with two workers; two processes with one worker each.
OwnerSolo == [w \in Worker |-> p1]
OwnerDuo == [w \in Worker |-> IF w = 1 THEN p1 ELSE p2]
=============================================================================
