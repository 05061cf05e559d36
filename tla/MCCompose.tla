----------------------------- MODULE MCCompose -----------------------------
(* Compose on small instances: FieldMax stands for 2^64.                    *)
EXTENDS Compose, TLC

CONSTANTS d1, d2, t1, t2, script, bond

Num(digits, decimals) == [ok |-> TRUE, digits |-> digits, decimals |-> decimals]

\* 2.5 is a good price, 4 is 400 cents and out of range.
Prices == {Num(25, 1), Num(4, 0)}
Sizes == {Num(3, 0)}
FirstShown == [pair |-> bond, side |-> "BID", price |-> Num(25, 1), size |-> Num(3, 0)]

RawOrder(price) ==
    LET s == Seal(price, 1, 0)
    IN [pubkey |-> d1, pair |-> bond, side |-> "ask", price |-> price, volume |-> 1,
        salt |-> 0, commitment |-> s.commitment, nullifier |-> s.nullifier,
        signature |-> signCommitment(d1, s.commitment)]

\* What other clients try: a price out of range, a signature over something
\* else, and what the scripts post.
RawOrders ==
    LET good == RawOrder(1)
    IN {RawOrder(300), [good EXCEPT !.signature.over.price = 2],
        unsigned(good), badSide(good)}
=============================================================================
