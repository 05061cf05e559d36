------------------------ MODULE NyxVerifier_proofs ------------------------
(***************************************************************************)
(* What the contract records, for every field, operand width, set of       *)
(* orders, engines and callers.  The comparator of the circuit is an       *)
(* identity of the field; Comparator says when it is one of integers.      *)
(***************************************************************************)
EXTENDS NyxVerifier, TLAPS

USE DEF Signal, Opening, Commit, Num2Bits, from_bytes, fe, Private

\* Below the bound, the comparator over the field is that of the integers.
LEMMA Comparator ==
    ASSUME NEW x \in 0..(Bound - 1), NEW y \in 0..(Bound - 1)
    PROVE  LessEqThan(x, y) <=> x <= y
<1>1. Plus(y, 1) = y + 1
  BY CircuitAssumption, SMT DEF Plus
<1>2. Plus(x, Bound) = x + Bound
  BY CircuitAssumption, SMT DEF Plus
<1>3. Minus(x + Bound, y + 1) = x + Bound - (y + 1)
  BY CircuitAssumption, SMT DEF Minus
<1>. QED
  BY <1>1, <1>2, <1>3, CircuitAssumption, SMT DEF LessEqThan, LessThan

\* What the constraints say of any field elements: two operands in range that
\* are ordered as integers.
LEMMA ConstraintsMean ==
    ASSUME NEW maker \in Opening, NEW taker \in Opening
    PROVE  Constraints(maker, taker) <=>
             /\ maker.price <= taker.price /\ taker.price < Bound
             /\ maker.volume = taker.volume /\ taker.volume < Bound
<1>1. P \in Nat /\ Bound \in Nat
  BY CircuitAssumption
<1>2. /\ maker.price \in 0..(P - 1) /\ taker.price \in 0..(P - 1)
      /\ maker.volume \in 0..(P - 1) /\ taker.volume \in 0..(P - 1)
  OBVIOUS
<1>3. ASSUME maker.price < Bound, taker.price < Bound
      PROVE  LessEqThan(maker.price, taker.price) <=> maker.price <= taker.price
  <2>1. maker.price \in 0..(Bound - 1) /\ taker.price \in 0..(Bound - 1)
    BY <1>1, <1>2, <1>3
  <2>. QED  BY <2>1, Comparator
<1>4. maker.price <= taker.price /\ taker.price < Bound => maker.price < Bound
  BY <1>1, <1>2
<1>. QED  BY <1>3, <1>4 DEF Constraints

-----------------------------------------------------------------------------

\* Matches are of stored orders that cross.
BookInv ==
    \A m \in matches :
        /\ orders[m[1]] # None /\ orders[m[2]] # None
        /\ Crosses(m[1], m[2])

\* What is stored is what was sent.
OfferInv == \A o \in Order : orders[o] # None => orders[o] \in Offer

HandInv == \A e \in Engine : hand[e] # None => hand[e] \in matches

\* A confirmed match has a proof of its own orders and is on the ledger.
ConfirmedInv ==
    \A m \in confirmed :
        m \in matches /\ Generated(m) /\ PublicInputs(m) \in settled

\* The events are the storage, each key once; assets follow it.
LedgerInv ==
    /\ \A i \in 1..Len(events) : events[i] \in settled
    /\ \A k \in settled : \E i \in 1..Len(events) : events[i] = k
    /\ \A i, j \in 1..Len(events) : events[i] = events[j] => i = j
    /\ \A t \in moved : t.key \in settled

HidesMatch(k) ==
    LET maker == from_bytes(k[1])
        taker == from_bytes(k[2])
    IN /\ maker.price <= taker.price /\ taker.price < Bound
       /\ maker.volume = taker.volume /\ taker.volume < Bound

SettledInv == \A k \in settled : HidesMatch(k)

Inv ==
    /\ TypeOK
    /\ BookInv
    /\ OfferInv
    /\ HandInv
    /\ ConfirmedInv
    /\ LedgerInv
    /\ SettledInv

LEMMA InitInv == Init => Inv
<1>. SUFFICES ASSUME Init PROVE Inv
  OBVIOUS
<1>1. TypeOK
  BY VerifierAssumption DEF Init, TypeOK
<1>. QED
  BY <1>1 DEF Init, Inv, BookInv, OfferInv, HandInv, ConfirmedInv, LedgerInv, SettledInv

\* The records of the type invariant.
LEMMA Stored ==
    ASSUME TypeOK, NEW o \in Order, orders[o] # None
    PROVE  /\ orders[o].price \in 1..(Bound - 1) /\ orders[o].volume \in 1..(Bound - 1)
           /\ OpeningOf(o) \in Opening
           /\ orders[o].commitment \in Encoding
<1>1. orders[o] \in Payload(1..(Bound - 1))
  BY DEF TypeOK
<1>2. /\ orders[o].price \in 1..(Bound - 1) /\ orders[o].volume \in 1..(Bound - 1)
      /\ orders[o].salt \in Signal /\ orders[o].commitment \in Encoding
  BY <1>1 DEF Payload
<1>3. 1..(Bound - 1) \subseteq Signal
  BY CircuitAssumption
<1>. QED  BY <1>2, <1>3 DEF OpeningOf

\* The keys under which the contract knows pairs of stored orders.
LEMMA PublicKey ==
    ASSUME TypeOK, NEW a \in Order, NEW b \in Order, orders[a] # None, orders[b] # None
    PROVE  PublicInputs(<<a, b>>) \in Key
<1>1. orders[a].commitment.element \in Opening /\ orders[b].commitment.element \in Opening
  BY Stored DEF Encoding
<1>2. 0 \in 0..MaxLap
  BY VerifierAssumption
<1>3. \A x \in Opening : fe(x) \in Encoding
  BY <1>2 DEF Encoding
<1>. QED  BY <1>1, <1>3 DEF PublicInputs, Key

\* A settled key, as a call that is not refused adds it.
LEMMA AcceptedCall ==
    ASSUME Inv, NEW submitter, NEW signer, NEW maker \in Opening, NEW taker \in Opening,
           NEW key \in Key,
           verify_and_settle(submitter, signer, [maker |-> maker, taker |-> taker], key)
    PROVE  /\ settled' \subseteq Key /\ events' \in Seq(Key)
           /\ LedgerInv' /\ SettledInv' /\ moved' = moved
           /\ settled \subseteq settled' /\ key \in settled'
<1>. DEFINE n == Len(events)
<1>1. /\ key \notin settled
      /\ settled' = settled \cup {key} /\ events' = Append(events, key) /\ moved' = moved
      /\ Satisfies(from_bytes(key[1]), from_bytes(key[2]), maker, taker)
  BY DEF verify_and_settle, is_settled, groth16_verify
<1>2. settled \subseteq Key /\ events \in Seq(Key) /\ n \in Nat
  BY DEF Inv, TypeOK
<1>3. /\ Len(events') = n + 1 /\ events'[n + 1] = key
      /\ \A i \in 1..n : events'[i] = events[i]
  BY <1>1, <1>2
<1>4. HidesMatch(key)
  BY <1>1, ConstraintsMean DEF Satisfies, HidesMatch
<1>5. SettledInv'
  BY <1>1, <1>4 DEF Inv, SettledInv, HidesMatch
<1>6. LedgerInv'
  <2>1. \A i \in 1..(n + 1) : i \in 1..n \/ i = n + 1
    BY <1>2
  <2>2. \A i \in 1..n : events[i] \in settled
    BY DEF Inv, LedgerInv
  <2>3. \A i \in 1..(n + 1) : events'[i] \in settled'
    BY <1>1, <1>3, <2>1, <2>2
  <2>4. \A k \in settled' : \E i \in 1..(n + 1) : events'[i] = k
    <3>1. \A k \in settled : \E i \in 1..n : events[i] = k
      BY DEF Inv, LedgerInv
    <3>2. 1..n \subseteq 1..(n + 1) /\ n + 1 \in 1..(n + 1)
      BY <1>2
    <3>. QED  BY <1>1, <1>3, <3>1, <3>2
  <2>5. \A i, j \in 1..(n + 1) : events'[i] = events'[j] => i = j
    <3>1. \A i, j \in 1..n : events[i] = events[j] => i = j
      BY DEF Inv, LedgerInv
    <3>2. \A i \in 1..n : events'[i] # key
      BY <1>1, <1>3, <2>2
    <3>. QED  BY <1>3, <2>1, <3>1, <3>2
  <2>6. \A t \in moved' : t.key \in settled'
    BY <1>1 DEF Inv, LedgerInv
  <2>. QED  BY <1>3, <2>3, <2>4, <2>5, <2>6 DEF LedgerInv
<1>7. settled' \subseteq Key /\ events' \in Seq(Key)
  BY <1>1, <1>2
<1>. QED  BY <1>1, <1>5, <1>6, <1>7

-----------------------------------------------------------------------------
(* One lemma per action                                                     *)

LEMMA InsertInv ==
    ASSUME Inv, NEW o \in Order, InsertOrder(o)
    PROVE  Inv'
<1>. USE DEF InsertOrder, engineVars, ledgerVars
<1>1. PICK p \in Offer :
        /\ Validate(p)
        /\ orders' = [orders EXCEPT ![o] = p]
  OBVIOUS
<1>2. /\ orders \in [Order -> Payload(1..(Bound - 1)) \cup {None}] /\ orders[o] = None
      /\ \A q \in Order : q # o => orders'[q] = orders[q]
      /\ orders'[o] = p
  BY <1>1 DEF Inv, TypeOK
<1>3. p \in Payload(1..(Bound - 1))
  <2>1. p \in Payload(Nat)
    BY VerifierAssumption
  <2>2. p.price \in 1..(Bound - 1) /\ p.volume \in 1..(Bound - 1)
    BY <1>1, <2>1, CircuitAssumption DEF Payload, Validate
  <2>. QED  BY <2>1, <2>2 DEF Payload
<1>4. TypeOK'
  <2>1. orders' \in [Order -> Payload(1..(Bound - 1)) \cup {None}]
    BY <1>1, <1>2, <1>3
  <2>. QED  BY <2>1 DEF Inv, TypeOK
<1>5. \A m \in matches : m[1] \in Order /\ m[2] \in Order /\ m[1] # o /\ m[2] # o
  BY <1>2 DEF Inv, TypeOK, BookInv, Pairs
<1>6. \A m \in matches : orders'[m[1]] = orders[m[1]] /\ orders'[m[2]] = orders[m[2]]
  BY <1>2, <1>5
<1>7. BookInv'
  BY <1>6 DEF Inv, BookInv, Crosses
<1>8. OfferInv'
  BY <1>1, <1>2 DEF Inv, OfferInv
<1>9. HandInv'
  BY DEF Inv, HandInv
<1>10. ConfirmedInv'
  BY <1>6 DEF Inv, ConfirmedInv, Generated, PublicInputs, Terms, OpeningOf
<1>11. LedgerInv' /\ SettledInv'
  BY DEF Inv, LedgerInv, SettledInv, HidesMatch
<1>. QED  BY <1>4, <1>7, <1>8, <1>9, <1>10, <1>11 DEF Inv

LEMMA MatchInv ==
    ASSUME Inv, NEW a \in Order, NEW b \in Order, CreateMatch(a, b)
    PROVE  Inv'
<1>. USE DEF CreateMatch, engineVars, ledgerVars
<1>1. TypeOK'
  BY DEF Inv, TypeOK, Pairs
<1>2. BookInv'
  BY DEF Inv, BookInv, Crosses
<1>3. OfferInv' /\ HandInv'
  BY DEF Inv, OfferInv, HandInv
<1>4. ConfirmedInv'
  BY DEF Inv, ConfirmedInv, Generated, PublicInputs, Terms, OpeningOf
<1>5. LedgerInv' /\ SettledInv'
  BY DEF Inv, LedgerInv, SettledInv, HidesMatch
<1>. QED  BY <1>1, <1>2, <1>3, <1>4, <1>5 DEF Inv

LEMMA KnownInv ==
    ASSUME Inv, NEW e \in Engine, NEW m \in matches, KnownSettled(e, m)
    PROVE  Inv'
<1>. USE DEF KnownSettled, bookVars, ledgerVars
<1>1. TypeOK'
  BY DEF Inv, TypeOK
<1>2. BookInv' /\ OfferInv' /\ HandInv'
  BY DEF Inv, BookInv, OfferInv, HandInv, Crosses
<1>3. ConfirmedInv'
  BY DEF Inv, ConfirmedInv, is_settled, Generated, PublicInputs, Terms, OpeningOf
<1>4. LedgerInv' /\ SettledInv'
  BY DEF Inv, LedgerInv, SettledInv, HidesMatch
<1>. QED  BY <1>1, <1>2, <1>3, <1>4 DEF Inv

LEMMA NotYetInv ==
    ASSUME Inv, NEW e \in Engine, NEW m \in matches, NotYetSettled(e, m)
    PROVE  Inv'
<1>. USE DEF NotYetSettled, bookVars, ledgerVars
<1>1. TypeOK'
  BY DEF Inv, TypeOK
<1>2. BookInv' /\ OfferInv' /\ HandInv'
  BY DEF Inv, TypeOK, BookInv, OfferInv, HandInv, Crosses
<1>3. ConfirmedInv'
  BY DEF Inv, ConfirmedInv, Generated, PublicInputs, Terms, OpeningOf
<1>4. LedgerInv' /\ SettledInv'
  BY DEF Inv, LedgerInv, SettledInv, HidesMatch
<1>. QED  BY <1>1, <1>2, <1>3, <1>4 DEF Inv

LEMMA SettleInv ==
    ASSUME Inv, NEW e \in Engine, Settle(e)
    PROVE  Inv'
<1>. DEFINE m == hand[e]
<1>1. /\ m \in matches /\ m \in Pairs /\ m[1] \in Order /\ m[2] \in Order
      /\ m = <<m[1], m[2]>> /\ orders[m[1]] # None /\ orders[m[2]] # None
  BY DEF Settle, Inv, TypeOK, HandInv, BookInv, Pairs
<1>2. /\ OpeningOf(m[1]) \in Opening /\ OpeningOf(m[2]) \in Opening
      /\ PublicInputs(m) \in Key
  BY <1>1, Stored, PublicKey DEF Inv
<1>3. PICK submitter \in Party :
        verify_and_settle(submitter, submitter,
            [maker |-> OpeningOf(m[1]), taker |-> OpeningOf(m[2])], PublicInputs(m))
  BY DEF Settle
<1>4. /\ settled' \subseteq Key /\ events' \in Seq(Key)
      /\ LedgerInv' /\ SettledInv' /\ moved' = moved
      /\ settled \subseteq settled' /\ PublicInputs(m) \in settled'
  BY <1>2, <1>3, AcceptedCall
<1>5. /\ orders' = orders /\ matches' = matches /\ others' = others
      /\ confirmed' \in {confirmed, confirmed \cup {m}}
      /\ hand' = [hand EXCEPT ![e] = None]
  BY DEF Settle, bookVars
<1>6. Generated(m)
  BY <1>3 DEF verify_and_settle, groth16_verify, Generated, Terms
<1>7. TypeOK'
  BY <1>1, <1>4, <1>5 DEF Inv, TypeOK
<1>8. BookInv' /\ OfferInv'
  BY <1>5 DEF Inv, BookInv, OfferInv, Crosses
<1>9. HandInv'
  BY <1>5 DEF Inv, TypeOK, HandInv
<1>10. ConfirmedInv'
  <2>1. \A n \in matches : (Generated(n))' <=> Generated(n)
    BY <1>5 DEF Generated, PublicInputs, Terms, OpeningOf
  <2>2. \A n \in matches : (PublicInputs(n))' = PublicInputs(n)
    BY <1>5 DEF PublicInputs
  <2>3. \A n \in confirmed' : n \in confirmed \/ n = m
    BY <1>5
  <2>. QED
    BY <1>1, <1>4, <1>5, <1>6, <2>1, <2>2, <2>3 DEF Inv, ConfirmedInv
<1>. QED  BY <1>4, <1>7, <1>8, <1>9, <1>10 DEF Inv

LEMMA FailedInv ==
    ASSUME Inv, NEW e \in Engine, SettleFailed(e)
    PROVE  Inv'
<1>. USE DEF SettleFailed, bookVars, ledgerVars
<1>1. TypeOK'
  BY DEF Inv, TypeOK
<1>2. BookInv' /\ OfferInv' /\ HandInv'
  BY DEF Inv, TypeOK, BookInv, OfferInv, HandInv, Crosses
<1>3. ConfirmedInv'
  BY DEF Inv, ConfirmedInv, Generated, PublicInputs, Terms, OpeningOf
<1>4. LedgerInv' /\ SettledInv'
  BY DEF Inv, LedgerInv, SettledInv, HidesMatch
<1>. QED  BY <1>1, <1>2, <1>3, <1>4 DEF Inv

LEMMA OtherInv ==
    ASSUME Inv, OtherSettles
    PROVE  Inv'
<1>. DEFINE Inputs(x, y) == (Encodings(Commit(x)) \X Encodings(Commit(y)))
                              \cup (Encodings(Commit(y)) \X Encodings(Commit(x)))
<1>0. PICK maker \in Witness, taker \in Witness, submitter \in Party, signer \in Party :
      \E key \in Inputs(maker, taker) :
        verify_and_settle(submitter, signer, [maker |-> maker, taker |-> taker], key)
  BY DEF OtherSettles
<1>1. PICK key \in Inputs(maker, taker) :
        verify_and_settle(submitter, signer, [maker |-> maker, taker |-> taker], key)
  BY <1>0
<1>2. maker \in Opening /\ taker \in Opening
  BY VerifierAssumption
<1>3. \A x \in Opening : Encodings(x) \subseteq Encoding
  BY DEF Encodings, Encoding
<1>4. key \in Key
  BY <1>1, <1>2, <1>3 DEF Key
<1>5. /\ settled' \subseteq Key /\ events' \in Seq(Key)
      /\ LedgerInv' /\ SettledInv' /\ moved' = moved /\ settled \subseteq settled'
  BY <1>1, <1>2, <1>4, AcceptedCall
<1>6. /\ orders' = orders /\ matches' = matches /\ hand' = hand /\ confirmed' = confirmed
      /\ others < MaxOthers /\ others' = others + 1
  BY DEF OtherSettles, bookVars, engineVars
<1>7. TypeOK'
  BY <1>5, <1>6, VerifierAssumption DEF Inv, TypeOK
<1>8. BookInv' /\ OfferInv' /\ HandInv'
  BY <1>6 DEF Inv, BookInv, OfferInv, HandInv, Crosses
<1>9. ConfirmedInv'
  BY <1>5, <1>6 DEF Inv, ConfirmedInv, Generated, PublicInputs, Terms, OpeningOf
<1>. QED  BY <1>5, <1>7, <1>8, <1>9 DEF Inv

LEMMA TransferInv ==
    ASSUME Inv, Transfer
    PROVE  Inv'
<1>0. PICK from \in Party, signer \in Party :
      \E key \in settled \cup {PublicInputs(m) : m \in Known \X Known} :
        settle_transfer(key, from, signer)
  BY DEF Transfer
<1>1. PICK key : settle_transfer(key, from, signer)
  BY <1>0
<1>2. key \in Key /\ key \in settled
  BY <1>1 DEF Inv, TypeOK, settle_transfer, is_settled
<1>3. /\ moved' = moved \cup {[key |-> key, from |-> from]}
      /\ settled' = settled /\ events' = events
  BY <1>1 DEF settle_transfer
<1>4. /\ orders' = orders /\ matches' = matches /\ hand' = hand /\ confirmed' = confirmed
      /\ others' = others
  BY DEF Transfer, bookVars, engineVars
<1>5. TypeOK'
  BY <1>2, <1>3, <1>4 DEF Inv, TypeOK
<1>6. BookInv' /\ OfferInv' /\ HandInv'
  BY <1>4 DEF Inv, BookInv, OfferInv, HandInv, Crosses
<1>7. ConfirmedInv'
  BY <1>3, <1>4 DEF Inv, ConfirmedInv, Generated, PublicInputs, Terms, OpeningOf
<1>8. LedgerInv'
  <2>1. \A t \in moved' : t.key \in settled
    BY <1>2, <1>3 DEF Inv, LedgerInv
  <2>. QED  BY <1>3, <2>1 DEF Inv, LedgerInv
<1>9. SettledInv'
  BY <1>3 DEF Inv, SettledInv, HidesMatch
<1>. QED  BY <1>5, <1>6, <1>7, <1>8, <1>9 DEF Inv

LEMMA StutterInv ==
    ASSUME Inv, UNCHANGED vars
    PROVE  Inv'
<1>. USE DEF vars, bookVars, engineVars, ledgerVars
<1>1. TypeOK'
  BY DEF Inv, TypeOK
<1>2. BookInv' /\ OfferInv' /\ HandInv'
  BY DEF Inv, BookInv, OfferInv, HandInv, Crosses
<1>3. ConfirmedInv'
  BY DEF Inv, ConfirmedInv, Generated, PublicInputs, Terms, OpeningOf
<1>4. LedgerInv' /\ SettledInv'
  BY DEF Inv, LedgerInv, SettledInv, HidesMatch
<1>. QED  BY <1>1, <1>2, <1>3, <1>4 DEF Inv

LEMMA InvHolds == Spec => []Inv
<1>1. Inv /\ [Next]_vars => Inv'
  BY InsertInv, MatchInv, KnownInv, NotYetInv, SettleInv, FailedInv, OtherInv,
     TransferInv, StutterInv DEF Next
<1>. QED  BY <1>1, InitInv, PTL DEF Spec

-----------------------------------------------------------------------------

\* Every state of orders, engines and ledger is of its type: what is stored is
\* in the range of the circuit, what is settled is a pair of commitments.
THEOREM VerifierTypeCorrect == Spec => []TypeOK
<1>1. Inv => TypeOK
  BY DEF Inv
<1>. QED  BY <1>1, InvHolds, PTL

\* The range check of the engine and the comparator of the circuit agree, for
\* every operand width and every field that holds one bit more.
THEOREM VerifierAcceptedCanSettle == Spec => []AcceptedCanSettle
<1>1. Inv => AcceptedCanSettle
  <2>. SUFFICES ASSUME Inv, NEW m \in matches,
                       PublicInputs(m) = KeyOf(Terms(m))
                PROVE  Generated(m)
    BY DEF AcceptedCanSettle
  <2>1. /\ m[1] \in Order /\ m[2] \in Order /\ orders[m[1]] # None /\ orders[m[2]] # None
        /\ Crosses(m[1], m[2])
    BY DEF Inv, TypeOK, BookInv, Pairs
  <2>2. /\ OpeningOf(m[1]) \in Opening /\ OpeningOf(m[2]) \in Opening
        /\ orders[m[2]].price \in 1..(Bound - 1) /\ orders[m[2]].volume \in 1..(Bound - 1)
    BY <2>1, Stored DEF Inv
  <2>3. Constraints(OpeningOf(m[1]), OpeningOf(m[2]))
    <3>1. /\ OpeningOf(m[1]).price <= OpeningOf(m[2]).price
          /\ OpeningOf(m[1]).volume = OpeningOf(m[2]).volume
      BY <2>1 DEF Crosses, OpeningOf
    <3>2. OpeningOf(m[2]).price < Bound /\ OpeningOf(m[2]).volume < Bound
      BY <2>2, CircuitAssumption DEF OpeningOf
    <3>. QED  BY <2>2, <3>1, <3>2, ConstraintsMean
  <2>4. /\ from_bytes(PublicInputs(m)[1]) = OpeningOf(m[1])
        /\ from_bytes(PublicInputs(m)[2]) = OpeningOf(m[2])
    BY DEF KeyOf, Terms
  <2>. QED  BY <2>3, <2>4 DEF Generated, Terms, Satisfies
<1>. QED  BY <1>1, InvHolds, PTL

\* No field element proves a false ordering: what is settled, or moves assets,
\* crosses as integers.
THEOREM VerifierSettledMatches == Spec => []SettledMatches
<1>1. Inv => SettledMatches
  BY DEF Inv, LedgerInv, SettledInv, HidesMatch, SettledMatches
<1>. QED  BY <1>1, InvHolds, PTL

\* What is proven of a match under its public inputs are its terms.
LEMMA ProvenTerms ==
    ASSUME NEW m, Generated(m)
    PROVE  PublicInputs(m) = KeyOf(Terms(m))
<1>1. /\ from_bytes(PublicInputs(m)[1]) = Terms(m)[1]
      /\ from_bytes(PublicInputs(m)[2]) = Terms(m)[2]
  BY DEF Generated, Satisfies
<1>. QED  BY <1>1 DEF PublicInputs, KeyOf

\* Two engines and any number of other callers settle a key once, and a match is
\* confirmed on a settlement of its own terms.
THEOREM VerifierSettledOnItsTerms == Spec => []SettledOnItsTerms
<1>1. Inv => SettledOnItsTerms
  <2>. SUFFICES ASSUME Inv PROVE SettledOnItsTerms
    OBVIOUS
  <2>1. \A i, j \in 1..Len(events) : events[i] = events[j] => i = j
    BY DEF Inv, LedgerInv
  <2>2. \A m \in confirmed : \E i \in 1..Len(events) : events[i] = PublicInputs(m)
    BY DEF Inv, LedgerInv, ConfirmedInv
  <2>3. \A m \in confirmed : PublicInputs(m) = KeyOf(Terms(m))
    BY ProvenTerms DEF Inv, ConfirmedInv
  <2>. QED  BY <2>1, <2>2, <2>3 DEF SettledOnItsTerms
<1>. QED  BY <1>1, InvHolds, PTL

-----------------------------------------------------------------------------
(* The ledger as the engine may see it                                      *)

Formed == {Terms(m) : m \in matches}
Landed == {t \in Formed : is_settled(KeyOf(t))}
Recorded == {Terms(m) : m \in confirmed}

LEMMA LedgerStutters ==
    ASSUME Formed' = Formed, Landed' = Landed, Recorded' = Recorded
    PROVE  UNCHANGED Ledger!vars
BY DEF Ledger!vars, Formed, Landed, Recorded

\* The terms that the engine may form are those of what clients send.
LEMMA TermsSent ==
    ASSUME Inv, NEW a \in Order, NEW b \in Order, orders[a] # None, orders[b] # None
    PROVE  Terms(<<a, b>>) \in {Private(p) : p \in Offer} \X {Private(p) : p \in Offer}
<1>1. orders[a] \in Offer /\ orders[b] \in Offer
  BY DEF Inv, OfferInv
<1>. QED  BY <1>1 DEF Terms, OpeningOf

LEMMA MatchTerms ==
    ASSUME Inv, NEW m \in matches
    PROVE  Terms(m) \in {Private(p) : p \in Offer} \X {Private(p) : p \in Offer}
<1>1. /\ m[1] \in Order /\ m[2] \in Order /\ m = <<m[1], m[2]>>
      /\ orders[m[1]] # None /\ orders[m[2]] # None
  BY DEF Inv, TypeOK, BookInv, Pairs
<1>2. Terms(<<m[1], m[2]>>) \in {Private(p) : p \in Offer} \X {Private(p) : p \in Offer}
  BY <1>1, TermsSent
<1>. QED  BY <1>1, <1>2

\* Different terms have different keys.
LEMMA KeyOfInjective ==
    ASSUME NEW s, NEW t, KeyOf(s) = KeyOf(t)
    PROVE  s[1] = t[1] /\ s[2] = t[2]
BY DEF KeyOf

\* Formed terms are pairs, equal when their components are.
LEMMA FormedPairs ==
    ASSUME NEW s \in Formed, NEW t \in Formed, KeyOf(s) = KeyOf(t)
    PROVE  s = t
<1>1. s = <<s[1], s[2]>> /\ t = <<t[1], t[2]>>
  BY DEF Formed, Terms
<1>. QED  BY <1>1, KeyOfInjective

\* What is recorded has been formed, and landed.
LEMMA RecordedLanded ==
    ASSUME Inv
    PROVE  Recorded \subseteq Landed
<1>1. ASSUME NEW m \in confirmed
      PROVE  Terms(m) \in Landed
  <2>1. m \in matches /\ Generated(m) /\ PublicInputs(m) \in settled
    BY DEF Inv, ConfirmedInv
  <2>2. PublicInputs(m) = KeyOf(Terms(m))
    BY <2>1, ProvenTerms
  <2>. QED  BY <2>1, <2>2 DEF Landed, Formed, is_settled
<1>. QED  BY <1>1 DEF Recorded

\* The terms of the matches depend on their orders alone.
LEMMA SameTerms ==
    ASSUME NEW m, orders'[m[1]] = orders[m[1]], orders'[m[2]] = orders[m[2]]
    PROVE  Terms(m)' = Terms(m)
BY DEF Terms, OpeningOf

LEMMA SameFormed ==
    ASSUME UNCHANGED <<orders, matches>>
    PROVE  Formed' = Formed
BY DEF Formed, Terms, OpeningOf

LEMMA SameLanded ==
    ASSUME UNCHANGED <<orders, matches, settled>>
    PROVE  Formed' = Formed /\ Landed' = Landed
BY SameFormed DEF Landed, is_settled, KeyOf

LEMMA SameRecorded ==
    ASSUME UNCHANGED <<orders, confirmed>>
    PROVE  Recorded' = Recorded
BY DEF Recorded, Terms, OpeningOf

\* A call that is not refused lands the terms that have its key, if any were formed.
LEMMA CallLands ==
    ASSUME UNCHANGED <<orders, matches>>, NEW key, settled' = settled \cup {key}
    PROVE  /\ Formed' = Formed
           /\ Landed' = Landed \cup {t \in Formed : KeyOf(t) = key}
<1>1. Formed' = Formed
  BY SameFormed
<1>2. Landed' = {t \in Formed : KeyOf(t) \in settled \cup {key}}
  BY <1>1 DEF Landed, is_settled, KeyOf
<1>3. Landed = {t \in Formed : KeyOf(t) \in settled}
  BY DEF Landed, is_settled
<1>. QED  BY <1>1, <1>2, <1>3

LEMMA InsertLedger ==
    ASSUME Inv, NEW o \in Order, InsertOrder(o)
    PROVE  UNCHANGED Ledger!vars
<1>1. /\ orders[o] = None /\ matches' = matches /\ settled' = settled /\ confirmed' = confirmed
      /\ \A q \in Order : q # o => orders'[q] = orders[q]
  BY DEF InsertOrder, engineVars, ledgerVars, Inv, TypeOK
<1>2. \A m \in matches : Terms(m)' = Terms(m)
  <2>1. \A m \in matches : m[1] \in Order /\ m[2] \in Order /\ m[1] # o /\ m[2] # o
    BY <1>1 DEF Inv, TypeOK, BookInv, Pairs
  <2>2. \A m \in matches : orders'[m[1]] = orders[m[1]] /\ orders'[m[2]] = orders[m[2]]
    BY <1>1, <2>1
  <2>. QED  BY <2>2, SameTerms
<1>3. Formed' = Formed
  BY <1>1, <1>2 DEF Formed
<1>4. Landed' = Landed
  BY <1>1, <1>3 DEF Landed, is_settled, KeyOf
<1>5. Recorded' = Recorded
  <2>1. \A m \in confirmed : Terms(m)' = Terms(m)
    BY <1>2 DEF Inv, ConfirmedInv
  <2>. QED  BY <1>1, <2>1 DEF Recorded
<1>. QED  BY <1>3, <1>4, <1>5, LedgerStutters

\* A match is formed if no match of its terms was; it has landed if they have.
LEMMA CreateLedger ==
    ASSUME Inv, NEW a \in Order, NEW b \in Order, CreateMatch(a, b)
    PROVE  UNCHANGED Ledger!vars \/ Ledger!Next
<1>. DEFINE t == Terms(<<a, b>>)
<1>1. /\ matches' = matches \cup {<<a, b>>} /\ orders' = orders /\ settled' = settled
      /\ confirmed' = confirmed /\ orders[a] # None /\ orders[b] # None
  BY DEF CreateMatch, engineVars, ledgerVars
<1>2. Formed' = Formed \cup {t}
  <2>1. \A m : Terms(m)' = Terms(m)
    BY <1>1 DEF Terms, OpeningOf
  <2>. QED  BY <1>1, <2>1 DEF Formed
<1>3. Recorded' = Recorded
  BY <1>1, SameRecorded
<1>4. \A u : is_settled(KeyOf(u))' <=> is_settled(KeyOf(u))
  BY <1>1 DEF is_settled, KeyOf
<1>5. CASE t \in Formed
  <2>1. Formed' = Formed
    BY <1>2, <1>5
  <2>2. Landed' = Landed
    BY <1>4, <2>1 DEF Landed
  <2>. QED  BY <1>3, <2>1, <2>2, LedgerStutters
<1>6. CASE t \notin Formed
  <2>1. Landed' \in {Landed, Landed \cup {t}}
    BY <1>2, <1>4 DEF Landed
  <2>2. Ledger!Form(t)
    BY <1>2, <1>3, <1>6, <2>1 DEF Ledger!Form, Formed, Landed, Recorded
  <2>. QED  BY <1>1, <2>2, TermsSent DEF Ledger!Next
<1>. QED  BY <1>5, <1>6

LEMMA KnownLedger ==
    ASSUME Inv, NEW e \in Engine, NEW m \in matches, KnownSettled(e, m)
    PROVE  UNCHANGED Ledger!vars \/ Ledger!Next
<1>. DEFINE t == Terms(m)
<1>1. /\ Generated(m) /\ is_settled(PublicInputs(m))
      /\ confirmed' = confirmed \cup {m}
      /\ UNCHANGED <<orders, matches, settled>>
  BY DEF KnownSettled, bookVars, ledgerVars
<1>2. Formed' = Formed /\ Landed' = Landed
  BY <1>1, SameLanded
<1>3. t \in Formed /\ t \in Landed
  BY <1>1, ProvenTerms DEF Formed, Landed
<1>4. Recorded' = Recorded \cup {t}
  BY <1>1 DEF Recorded, Terms, OpeningOf
<1>5. CASE t \in Recorded
  BY <1>2, <1>4, <1>5, LedgerStutters
<1>6. CASE t \notin Recorded
  <2>1. Ledger!Record(t)
    BY <1>2, <1>3, <1>4, <1>6 DEF Ledger!Record, Formed, Landed, Recorded
  <2>. QED  BY <2>1, MatchTerms DEF Ledger!Next
<1>. QED  BY <1>5, <1>6

LEMMA SettleLedger ==
    ASSUME Inv, NEW e \in Engine, Settle(e)
    PROVE  Ledger!Next
<1>. DEFINE m == hand[e]
            t == Terms(m)
<1>1. /\ m \in matches /\ UNCHANGED <<orders, matches>>
      /\ confirmed' \in {confirmed, confirmed \cup {m}}
  BY DEF Settle, bookVars, Inv, HandInv
<1>2. /\ PublicInputs(m) \notin settled /\ settled' = settled \cup {PublicInputs(m)}
      /\ Generated(m)
  BY DEF Settle, verify_and_settle, is_settled, groth16_verify, Generated, Terms
<1>. HIDE DEF m
<1>3. PublicInputs(m) = KeyOf(t) /\ t \in Formed
  BY <1>1, <1>2, ProvenTerms DEF Formed
<1>4. t \notin Landed
  BY <1>2, <1>3 DEF Landed, is_settled
<1>5. Formed' = Formed /\ Landed' = Landed \cup {t}
  <2>1. /\ Formed' = Formed
        /\ Landed' = Landed \cup {u \in Formed : KeyOf(u) = KeyOf(t)}
    BY <1>1, <1>2, <1>3, CallLands
  <2>2. {u \in Formed : KeyOf(u) = KeyOf(t)} = {t}
    BY <1>3, FormedPairs
  <2>. QED  BY <2>1, <2>2
<1>6. Recorded' \in {Recorded, Recorded \cup {t}}
  BY <1>1 DEF Recorded, Terms, OpeningOf
<1>7. Ledger!Land(t)
  BY <1>3, <1>4, <1>5, <1>6 DEF Ledger!Land, Formed, Landed, Recorded
<1>. QED  BY <1>1, <1>7, MatchTerms DEF Ledger!Next

LEMMA OtherLedger ==
    ASSUME Inv, OtherSettles
    PROVE  UNCHANGED Ledger!vars \/ Ledger!Next
<1>1. PICK key : key \notin settled /\ settled' = settled \cup {key}
  BY DEF OtherSettles, verify_and_settle, is_settled
<1>2. UNCHANGED <<orders, matches>> /\ Recorded' = Recorded
  BY SameRecorded DEF OtherSettles, bookVars, engineVars
<1>3. /\ Formed' = Formed
      /\ Landed' = Landed \cup {t \in Formed : KeyOf(t) = key}
  BY <1>1, <1>2, CallLands
<1>4. CASE \A t \in Formed : KeyOf(t) # key
  <2>1. Landed' = Landed
    BY <1>3, <1>4
  <2>. QED  BY <1>2, <1>3, <2>1, LedgerStutters
<1>5. ASSUME NEW t \in Formed, KeyOf(t) = key
      PROVE  Ledger!Next
  <2>1. {u \in Formed : KeyOf(u) = key} = {t}
    BY <1>5, FormedPairs
  <2>2. t \notin Landed
    BY <1>1, <1>5 DEF Landed, is_settled
  <2>3. Ledger!Land(t)
    BY <1>2, <1>3, <2>1, <2>2 DEF Ledger!Land, Formed, Landed, Recorded
  <2>4. PICK m \in matches : t = Terms(m)
    BY DEF Formed
  <2>. QED  BY <2>3, <2>4, MatchTerms DEF Ledger!Next
<1>. QED  BY <1>4, <1>5

\* Whatever salts, commitments and encodings clients and other callers send, and
\* whoever settles first, the contract is to the engine a ledger of terms: it settles
\* them one at a time, none of them twice, and what the engine confirms it has settled.
THEOREM VerifierImplementsLedger == Spec => ImplementsLedger
<1>1. Init => Ledger!Init
  BY DEF Init, Ledger!Init
<1>2. Inv /\ [Next]_vars => [Ledger!Next]_(Ledger!vars)
  <2>. SUFFICES ASSUME Inv, [Next]_vars
                PROVE  Ledger!Next \/ UNCHANGED Ledger!vars
    OBVIOUS
  <2>1. ASSUME NEW o \in Order, InsertOrder(o) PROVE UNCHANGED Ledger!vars
    BY <2>1, InsertLedger
  <2>2. ASSUME NEW a \in Order, NEW b \in Order, CreateMatch(a, b)
        PROVE  UNCHANGED Ledger!vars \/ Ledger!Next
    BY <2>2, CreateLedger
  <2>3. ASSUME NEW e \in Engine, NEW m \in matches, KnownSettled(e, m)
        PROVE  UNCHANGED Ledger!vars \/ Ledger!Next
    BY <2>3, KnownLedger
  <2>4. ASSUME UNCHANGED <<orders, matches, settled, confirmed>>
        PROVE  UNCHANGED Ledger!vars
    BY <2>4, SameLanded, SameRecorded, LedgerStutters
  <2>5. ASSUME NEW e \in Engine, NEW m \in matches, NotYetSettled(e, m)
        PROVE  UNCHANGED Ledger!vars
    BY <2>4, <2>5 DEF NotYetSettled, bookVars, ledgerVars
  <2>6. ASSUME NEW e \in Engine, Settle(e) PROVE Ledger!Next
    BY <2>6, SettleLedger
  <2>7. ASSUME NEW e \in Engine, SettleFailed(e) PROVE UNCHANGED Ledger!vars
    BY <2>4, <2>7 DEF SettleFailed, bookVars, ledgerVars
  <2>8. CASE OtherSettles
    BY <2>8, OtherLedger
  <2>9. CASE Transfer
    BY <2>4, <2>9 DEF Transfer, settle_transfer, bookVars, engineVars
  <2>10. CASE UNCHANGED vars
    BY <2>4, <2>10 DEF vars, bookVars, engineVars, ledgerVars
  <2>. QED
    BY <2>1, <2>2, <2>3, <2>5, <2>6, <2>7, <2>8, <2>9, <2>10 DEF Next
<1>. QED  BY <1>1, <1>2, InvHolds, PTL DEF Spec, ImplementsLedger, Ledger!Spec
=============================================================================
