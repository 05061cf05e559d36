------------------------------ MODULE FullFill ------------------------------
(***************************************************************************)
(* What the book promises, with no transaction, scan or process in sight:  *)
(* an order rests, and two resting orders that cross are filled together,  *)
(* wholly and once.  OrderBook implements this module.                     *)
(***************************************************************************)
CONSTANTS
    Order,
    Form,
    Fits(_, _)   \* Fits(f, g): an ask that says f may be filled against a bid that says g

VARIABLES
    form,      \* form[o]: what order o says
    resting,   \* orders in the book
    filled     \* pairs <<ask, bid>> filled so far

vars == <<form, resting, filled>>

Init == form \in [Order -> Form] /\ resting = {} /\ filled = {}

\* An order is new when it neither rests nor is part of a fill.
IsNew(o) == o \notin resting /\ \A f \in filled : o # f[1] /\ o # f[2]

Rest(o) ==
    /\ IsNew(o)
    /\ resting' = resting \cup {o}
    /\ UNCHANGED <<form, filled>>

Fill(a, b) ==
    /\ {a, b} \subseteq resting
    /\ Fits(form[a], form[b])
    /\ resting' = resting \ {a, b}
    /\ filled' = filled \cup {<<a, b>>}
    /\ UNCHANGED form

Next == \/ \E o \in Order : Rest(o)
        \/ \E a, b \in Order : Fill(a, b)

Spec == Init /\ [][Next]_vars
=============================================================================
