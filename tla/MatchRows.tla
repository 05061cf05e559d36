----------------------------- MODULE MatchRows -----------------------------
(***************************************************************************)
(* A match as the tables let its readers see it: what the API and the      *)
(* pages may count on, with no process, worker or ledger in sight.  Its    *)
(* row appears once and is then proven; a settlement is attempted, and may *)
(* fail and be attempted again, of a proven match only; once confirmed the *)
(* row is final, and both orders become settled in that same step.         *)
(* MatchPipeline implements this module, and so does the engine that       *)
(* Screens reads from.                                                     *)
(***************************************************************************)
CONSTANT Match

VARIABLES
    formed,    \* matches with a row
    proven,    \* those whose proof is stored
    outcome,   \* outcome[m]: how the settlement of m stands
    settled    \* matches whose orders are settled

vars == <<formed, proven, outcome, settled>>

Init ==
    /\ formed = {}
    /\ proven = {}
    /\ outcome = [m \in Match |-> "pending"]
    /\ settled = {}

CreateMatch(m) ==
    /\ m \notin formed
    /\ formed' = formed \cup {m}
    /\ UNCHANGED <<proven, outcome, settled>>

SetProof(m) ==
    /\ m \in formed \ proven
    /\ proven' = proven \cup {m}
    /\ UNCHANGED <<formed, outcome, settled>>

Outcome(m, s) ==
    /\ m \in proven
    /\ outcome[m] # "confirmed"
    /\ outcome' = [outcome EXCEPT ![m] = s]
    /\ UNCHANGED <<formed, proven>>

SetOnchain(m, s) == Outcome(m, s) /\ UNCHANGED settled

MarkSettled(m) == Outcome(m, "confirmed") /\ settled' = settled \cup {m}

Next == \E m \in Match : \/ CreateMatch(m) \/ SetProof(m) \/ MarkSettled(m)
                         \/ \E s \in {"pending", "failed"} : SetOnchain(m, s)

Spec == Init /\ [][Next]_vars
=============================================================================
