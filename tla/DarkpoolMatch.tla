--------------------------- MODULE DarkpoolMatch ---------------------------
(***************************************************************************)
(* The circuit: what a witness must satisfy for a proof to exist.  Signals *)
(* are elements of the field of integers modulo P, and all arithmetic on   *)
(* them wraps.  A signal stands in a constraint, never in a comparison:    *)
(* "less than" is what circomlib's comparators make of it, bit by bit.     *)
(***************************************************************************)
EXTENDS Naturals

CONSTANTS
    P,       \* the modulus of the field
    Bound    \* 2^N_BITS: what N_BITS bits can hold

ASSUME CircuitAssumption ==
    /\ P \in Nat
    /\ Bound \in Nat \ {0}
    /\ 2 * Bound <= P    \* N_BITS + 1 bits fit in the field

Signal == 0..(P - 1)

Plus(x, y) == IF x + y < P THEN x + y ELSE x + y - P
Minus(x, y) == IF x >= y THEN x - y ELSE x + P - y

\* The private signals of one side of a match.
Opening == [price : Signal, volume : Signal, salt : Signal]

\* Poseidon is taken to be free of collisions: a commitment is what it hides.
Commit(o) == o

\* Num2Bits: x is the sum of its bits, which are as many as bound has.
Num2Bits(x, bound) == x < bound

\* LessThan(N_BITS) with its output asserted: of the bits of x + 2^N_BITS - y,
\* one more than N_BITS, the highest is not set.
LessThan(x, y) ==
    LET z == Minus(Plus(x, Bound), y)
    IN Num2Bits(z, 2 * Bound) /\ z < Bound

LessEqThan(x, y) == LessThan(x, Plus(y, 1))

\* Mutant: without the range checks.
ConstraintsUnranged(maker, taker) ==
    /\ LessEqThan(maker.price, taker.price)
    /\ maker.volume = taker.volume

\* The constraints on the private signals alone.
Constraints(maker, taker) ==
    /\ Num2Bits(maker.price, Bound) /\ Num2Bits(taker.price, Bound)
    /\ Num2Bits(maker.volume, Bound) /\ Num2Bits(taker.volume, Bound)
    /\ LessEqThan(maker.price, taker.price)
    /\ maker.volume = taker.volume

\* ... and their binding to the public ones.
Satisfies(maker_hash, taker_hash, maker, taker) ==
    /\ Constraints(maker, taker)
    /\ maker_hash = Commit(maker)
    /\ taker_hash = Commit(taker)
=============================================================================
