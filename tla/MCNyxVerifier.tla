--------------------------- MODULE MCNyxVerifier ---------------------------
(* NyxVerifier over a field of eleven elements and operands of two bits.    *)
EXTENDS NyxVerifier, TLC

CONSTANTS o1, o2, o3, o4, e1, e2, nyx, someone

\* Sides, and prices at the ends of the range and just outside of it, each
\* with its own commitment, all of one salt; the lower price with another salt;
\* and a client that repeats with that salt the commitment of the first, raised by
\* the modulus.
Offers ==
    LET Sent(prices, s) == [side : {"bid", "ask"}, price : prices, volume : {1}, salt : {s}]
        Sealed(p, b) == [side |-> p.side, price |-> p.price, volume |-> p.volume,
                         salt |-> p.salt, commitment |-> b]
        Other == [price |-> 1, volume |-> 1, salt |-> 1]
    IN {Sealed(p, fe(Commit(Private(p)))) : p \in Sent({0, 1, Bound - 1, Bound}, 1)
                                                   \cup Sent({1}, 2)}
         \cup {Sealed(p, [element |-> Commit(Other), lap |-> 1]) : p \in Sent({1}, 2)}

\* P - 1 is minus one: below every price for a comparator without range check.
Witnesses ==
    [price : {1, Bound - 1, Bound, P - 1}, volume : {1}, salt : {1}]

Symmetry == Permutations(Order) \cup Permutations(Engine) \cup Permutations(Party)
=============================================================================
