---------------------------- MODULE NyxVerifier ----------------------------
(***************************************************************************)
(* From the payload of an order to the settlement of its match: the range  *)
(* check of the engine, the pair test of the matcher, the circuit, and the *)
(* contract that verifies a proof and records the pair of commitments.     *)
(* Several engines settle the same matches, and anybody may call the       *)
(* contract with a proof of whatever the circuit accepts, in any encoding  *)
(* of the commitments.  Nothing keeps clients from repeating salts,        *)
(* commitments or whole orders.                                            *)
(***************************************************************************)
EXTENDS DarkpoolMatch, Sequences, FiniteSets

CONSTANTS
    Order,
    Offer,      \* orders that clients send, in range or not, sealed as they are or not
    Engine,     \* engine processes with a contract configured
    Party,      \* addresses on the ledger
    Witness,    \* openings that other callers of the contract prove things about
    MaxLap,        \* how often the modulus of the field goes into 32 bytes
    MaxOthers,     \* bound on the settlements of theirs
    MaxTransfers,  \* bound on the transfers through the contract
    None

VARIABLES
    orders,      \* orders[o]: the payload and commitment of o, None before it is stored
    matches,     \* pairs <<maker, taker>> of orders
    hand,        \* hand[e]: the match engine e has found not to be settled yet
    confirmed,   \* matches recorded as confirmed
    settled,     \* the contract's storage: the keys that are set
    events,      \* the contract's events, in the order of the ledger
    moved,       \* transfers that went through the contract
    others       \* number of calls by others so far

bookVars == <<orders, matches>>
engineVars == <<hand, confirmed>>
ledgerVars == <<settled, events, moved>>
vars == <<bookVars, engineVars, ledgerVars, others>>

\* A number of 32 bytes: the field element it stands for, and how many times the
\* modulus has been added to it.  (The last lap is not a whole one; here it is.)
Encoding == [element : Opening, lap : 0..MaxLap]

\* A client names its commitment by any numeral; a salt is only ever hashed, so that
\* its numeral is the field element it stands for.
Payload(amounts) ==
    [side : {"bid", "ask"}, price : amounts, volume : amounts, salt : Signal,
     commitment : Encoding]
Pairs == Order \X Order
Key == Encoding \X Encoding   \* the two public inputs, as they came

ASSUME VerifierAssumption ==
    /\ Offer \subseteq Payload(Nat)
    /\ Witness \subseteq Opening
    /\ MaxLap \in Nat
    /\ MaxOthers \in Nat /\ MaxTransfers \in Nat
    /\ None \notin Payload(Nat) /\ None \notin Pairs

TypeOK ==
    /\ orders \in [Order -> Payload(1..(Bound - 1)) \cup {None}]
    /\ matches \subseteq Pairs
    /\ hand \in [Engine -> Pairs \cup {None}]
    /\ confirmed \subseteq Pairs
    /\ settled \subseteq Key
    /\ events \in Seq(Key)
    /\ moved \subseteq [key : Key, from : Party]
    /\ others \in 0..MaxOthers

Init ==
    /\ orders = [o \in Order |-> None]
    /\ matches = {}
    /\ hand = [e \in Engine |-> None]
    /\ confirmed = {}
    /\ settled = {}
    /\ events = <<>>
    /\ moved = {}
    /\ others = 0

-----------------------------------------------------------------------------
(* The engine's side                                                        *)

\* Mutant: the bound itself passes.
ValidateInclusive(p) ==
    /\ 0 < p.price /\ p.price <= Bound
    /\ 0 < p.volume /\ p.volume <= Bound

Validate(p) ==
    /\ 0 < p.price /\ p.price < Bound
    /\ 0 < p.volume /\ p.volume < Bound

\* Mutant: nothing is checked before the insert.
InsertUnchecked(o) ==
    /\ orders[o] = None
    /\ \E p \in Offer : orders' = [orders EXCEPT ![o] = p]
    /\ UNCHANGED <<matches, engineVars, ledgerVars, others>>

\* An order is stored under the commitment that came with it, whatever salts and
\* commitments have been stored before.
InsertOrder(o) ==
    /\ orders[o] = None
    /\ \E p \in Offer :
          /\ Validate(p)
          /\ orders' = [orders EXCEPT ![o] = p]
    /\ UNCHANGED <<matches, engineVars, ledgerVars, others>>

Known == {o \in Order : orders[o] # None}

\* The test of pairOrders, over integers.
Crosses(a, b) == orders[a].price <= orders[b].price /\ orders[a].volume = orders[b].volume

Matched(o) == \E m \in matches : o \in {m[1], m[2]}

CreateMatch(a, b) ==
    /\ orders[a] # None /\ orders[b] # None
    /\ orders[a].side = "ask" /\ orders[b].side = "bid"
    /\ ~Matched(a) /\ ~Matched(b)
    /\ Crosses(a, b)
    /\ matches' = matches \cup {<<a, b>>}
    /\ UNCHANGED <<orders, engineVars, ledgerVars, others>>

Private(p) == [price |-> p.price, volume |-> p.volume, salt |-> p.salt]

OpeningOf(o) == Private(orders[o])

\* A numeral or 32 bytes, read as a field element: both the witness calculator
\* and Bn254Fr::from_bytes reduce.
from_bytes(b) == b.element

\* The encoding that the engine gives its public inputs: that of the number below P.
fe(x) == [element |-> x, lap |-> 0]

\* The public half of the input of a match, under which the engine knows it.
PublicInputs(m) ==
    <<fe(from_bytes(orders[m[1]].commitment)), fe(from_bytes(orders[m[2]].commitment))>>

\* What the two orders of a match are about, and the key of just that.
Terms(m) == <<OpeningOf(m[1]), OpeningOf(m[2])>>
KeyOf(terms) == <<fe(Commit(terms[1])), fe(Commit(terms[2]))>>

\* Witness calculation fails for an input that does not satisfy the circuit.
Generated(m) ==
    Satisfies(from_bytes(PublicInputs(m)[1]), from_bytes(PublicInputs(m)[2]),
              Terms(m)[1], Terms(m)[2])

-----------------------------------------------------------------------------
(* The contract                                                             *)

require_auth(address, signer) == address = signer

\* Mutant: the key is built of taker and maker, and stored under maker and taker.
is_settled_swapped(key) == <<key[2], key[1]>> \in settled

is_settled(key) == key \in settled

\* Groth16 is taken to be sound and complete: a proof is the witness it knows,
\* and it verifies if that satisfies the circuit under these inputs.
groth16_verify(proof, public_inputs) ==
    Satisfies(from_bytes(public_inputs[1]), from_bytes(public_inputs[2]), proof.maker, proof.taker)

\* A call that is not refused.  The key is made of the bytes that came, and the proof
\* is about the field elements they stand for.
verify_and_settle(submitter, signer, proof, public_inputs) ==
    /\ require_auth(submitter, signer)
    /\ Len(public_inputs) = 2
    /\ ~is_settled(public_inputs)
    /\ groth16_verify(proof, public_inputs)
    /\ settled' = settled \cup {public_inputs}
    /\ events' = Append(events, public_inputs)
    /\ UNCHANGED moved

settle_transfer(key, from, signer) ==
    /\ is_settled(key)
    /\ require_auth(from, signer)
    /\ moved' = moved \cup {[key |-> key, from |-> from]}
    /\ UNCHANGED <<settled, events>>

-----------------------------------------------------------------------------
(* Who calls it                                                             *)

\* Mutant: the engine asks before it proves.
KnownSettledUnproven(e, m) ==
    /\ hand[e] = None
    /\ m \in matches \ confirmed
    /\ is_settled(PublicInputs(m))
    /\ confirmed' = confirmed \cup {m}
    /\ UNCHANGED <<bookVars, hand, ledgerVars, others>>

\* The engine has a proof and asks first: a match that is settled already is
\* only recorded.
KnownSettled(e, m) ==
    /\ hand[e] = None
    /\ m \in matches \ confirmed
    /\ Generated(m)
    /\ is_settled(PublicInputs(m))
    /\ confirmed' = confirmed \cup {m}
    /\ UNCHANGED <<bookVars, hand, ledgerVars, others>>

NotYetSettled(e, m) ==
    /\ hand[e] = None
    /\ m \in matches \ confirmed
    /\ Generated(m)
    /\ ~is_settled(PublicInputs(m))
    /\ hand' = [hand EXCEPT ![e] = m]
    /\ UNCHANGED <<bookVars, confirmed, ledgerVars, others>>

\* Its transaction is accepted; the engine learns of it or not.
Settle(e) ==
    /\ hand[e] # None
    /\ LET m == hand[e]
           proof == [maker |-> OpeningOf(m[1]), taker |-> OpeningOf(m[2])]
       IN /\ \E submitter \in Party :
                verify_and_settle(submitter, submitter, proof, PublicInputs(m))
          /\ confirmed' \in {confirmed, confirmed \cup {m}}
    /\ hand' = [hand EXCEPT ![e] = None]
    /\ UNCHANGED <<bookVars, others>>

\* The contract refuses the call, as another one was first, or the call fails
\* on its way.
SettleFailed(e) ==
    /\ hand[e] # None
    /\ hand' = [hand EXCEPT ![e] = None]
    /\ UNCHANGED <<bookVars, confirmed, ledgerVars, others>>

Encodings(x) == {[element |-> x, lap |-> l] : l \in 0..MaxLap}

\* Anybody else calls, for the proof it has, with inputs that fit or do not.
OtherSettles ==
    /\ others < MaxOthers
    /\ others' = others + 1
    /\ \E maker, taker \in Witness, submitter, signer \in Party :
       \E public_inputs \in (Encodings(Commit(maker)) \X Encodings(Commit(taker)))
                              \cup (Encodings(Commit(taker)) \X Encodings(Commit(maker))) :
          verify_and_settle(submitter, signer, [maker |-> maker, taker |-> taker], public_inputs)
    /\ UNCHANGED <<bookVars, engineVars>>

\* Somebody moves assets, for a pair of orders or under a key seen on the ledger.
Transfer ==
    /\ Cardinality(moved) < MaxTransfers
    /\ \E from, signer \in Party :
       \E key \in settled \cup {PublicInputs(m) : m \in Known \X Known} :
          settle_transfer(key, from, signer)
    /\ UNCHANGED <<bookVars, engineVars, others>>

Next ==
    \/ \E o \in Order : InsertOrder(o)
    \/ \E a, b \in Order : CreateMatch(a, b)
    \/ \E e \in Engine :
          \/ \E m \in matches : KnownSettled(e, m) \/ NotYetSettled(e, m)
          \/ Settle(e) \/ SettleFailed(e)
    \/ OtherSettles
    \/ Transfer

Spec == Init /\ [][Next]_vars

-----------------------------------------------------------------------------
(* Properties                                                               *)

\* What the engine takes in and pairs, the circuit can prove, provided the two
\* commitments are those of the payloads: order.go Validate, pairOrders and the
\* comparator over the field agree up to the boundaries.
AcceptedCanSettle ==
    \A m \in matches : PublicInputs(m) = KeyOf(Terms(m)) => Generated(m)

\* Whatever field elements anybody puts into a witness, and however they are
\* encoded, a pair that is settled, or for which assets moved, hides two orders
\* that cross as integers, at equal volume: no ordering is proven by wrapping
\* around the field.
SettledMatches ==
    \A k \in settled \cup {t.key : t \in moved} :
        LET maker == from_bytes(k[1])
            taker == from_bytes(k[2])
        IN /\ maker.price <= taker.price /\ taker.price < Bound
           /\ maker.volume = taker.volume /\ taker.volume < Bound

\* A key is settled once, and a match is confirmed on a settlement of its own
\* prices, volumes and salts: an order that repeats another's commitment does
\* not pass for it (matcher.go:281-299 asks the contract of a proven match only).  Two
\* confirmed matches stand on one settlement only if their orders agree in all
\* of these, which nothing in the engine rules out.
SettledOnItsTerms ==
    /\ \A i, j \in 1..Len(events) : events[i] = events[j] => i = j
    /\ \A m \in confirmed : /\ PublicInputs(m) = KeyOf(Terms(m))
                            /\ \E i \in 1..Len(events) : events[i] = PublicInputs(m)

Ledger == INSTANCE MatchLedger WITH
    Match <- {Private(p) : p \in Offer} \X {Private(p) : p \in Offer},
    formed <- {Terms(m) : m \in matches},
    landed <- {t \in {Terms(m) : m \in matches} : is_settled(KeyOf(t))},
    recorded <- {Terms(m) : m \in confirmed}

\* To the engine, a ledger of commitment pairs is one of terms: a call settles the
\* terms of one match at most, nothing unsettles them, and they are confirmed once and
\* only when they are settled.  Commitments and whole orders are repeated, other callers
\* settle first or under another encoding, and orders arrive for terms that are settled.
ImplementsLedger == Ledger!Spec
=============================================================================
