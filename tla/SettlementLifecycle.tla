------------------------ MODULE SettlementLifecycle ------------------------
(***************************************************************************)
(* What the engine promises about one match, with no process, queue, retry *)
(* or table in sight: the pair of orders rests, is matched, is proven, is  *)
(* settled on the ledger and is at last recorded as settled.  No stage is  *)
(* skipped and none is ever undone.  MatchPipeline implements this module. *)
(***************************************************************************)
EXTENDS Naturals

CONSTANT Match

VARIABLE stage   \* stage[m]: how far match m has come

Stages == {"resting", "matched", "proven", "onchain", "settled"}

Init == stage = [m \in Match |-> "resting"]

\* m leaves stage a for stage b.
Advance(m, a, b) == stage[m] = a /\ stage' = [stage EXCEPT ![m] = b]

Pair(m)   == Advance(m, "resting", "matched")
Prove(m)  == Advance(m, "matched", "proven")
Settle(m) == Advance(m, "proven", "onchain")
Record(m) == Advance(m, "onchain", "settled")

Next == \E m \in Match : Pair(m) \/ Prove(m) \/ Settle(m) \/ Record(m)

Spec == Init /\ [][Next]_stage
=============================================================================
