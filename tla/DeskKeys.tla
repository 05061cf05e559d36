------------------------------ MODULE DeskKeys ------------------------------
(* Desks: Stellar key pairs that sign.  A desk stands for its label, public *)
(* key and secret; a signature nobody can make but its key.                 *)
CONSTANTS
    Desk,
    None     \* the absent value: JavaScript's null, a field that is not there

ASSUME DeskAssumption == None \notin Desk

\* signCommitment: what was signed and by whom.
signCommitment(d, commitment) == [key |-> d, over |-> commitment]

\* stellarkey.Verify: the signature is pubkey's, over this very commitment.
SignedBy(pubkey, commitment, signature) ==
    signature = signCommitment(pubkey, commitment)
=============================================================================
