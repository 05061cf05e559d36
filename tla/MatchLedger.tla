---------------------------- MODULE MatchLedger ----------------------------
(***************************************************************************)
(* What the engine may count on of the contract: the ledger, which knows   *)
(* keys made of two commitments, settles one match at a time, and only     *)
(* what it has settled is recorded as confirmed.  A match may be settled   *)
(* by somebody else, and be settled from the moment it is formed.          *)
(* NyxVerifier implements this module from the commitments up, where a     *)
(* match is known by its terms: what prices, volumes and salts it joins.   *)
(* MatchPipeline implements it with a ledger that knows matches.           *)
(***************************************************************************)
CONSTANT Match    \* matches, as far as the ledger can tell them apart

VARIABLES
    formed,     \* matches the engine has made
    landed,     \* those the ledger holds a settlement of
    recorded    \* those recorded as confirmed

vars == <<formed, landed, recorded>>

Init ==
    /\ formed = {}
    /\ landed = {}
    /\ recorded = {}

Form(m) ==
    /\ m \notin formed
    /\ formed' = formed \cup {m}
    /\ landed' \in {landed, landed \cup {m}}
    /\ UNCHANGED recorded

Land(m) ==
    /\ m \in formed
    /\ m \notin landed
    /\ landed' = landed \cup {m}
    /\ recorded' \in {recorded, recorded \cup {m}}
    /\ UNCHANGED formed

Record(m) ==
    /\ m \in formed \ recorded
    /\ m \in landed
    /\ recorded' = recorded \cup {m}
    /\ UNCHANGED <<formed, landed>>

Next == \E m \in Match : Form(m) \/ Land(m) \/ Record(m)

Spec == Init /\ [][Next]_vars
=============================================================================
