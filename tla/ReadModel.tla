----------------------------- MODULE ReadModel -----------------------------
(***************************************************************************)
(* The engine as its readers see it: the orders of one asset pair, oldest  *)
(* first, the matches, and what GET /orders and GET /matches/{id} return.  *)
(* An order is known by its position, a match by its older order.          *)
(* MatchPipeline and OrderBook say how the engine comes to these steps.    *)
(***************************************************************************)
EXTENDS Naturals, Sequences, FiniteSets

CONSTANTS
    Owner,       \* public keys of all desks
    Lot,         \* a price with a volume: two sides cross on the same lot only
    MaxOthers,   \* bound on the orders that are no demo counters
    PageSize,    \* the limit most pages list with: 100
    MaxMounts,   \* bound on the pages opened, each of which may post a counter
    None

ASSUME ReadModelAssumption ==
    /\ MaxOthers \in Nat
    /\ MaxMounts \in Nat
    /\ PageSize \in Nat

MaxOrders == MaxOthers + MaxMounts
Id == 1..MaxOrders
Mount == 1..MaxMounts

VARIABLES
    orders,    \* the table orders, oldest first
    match,     \* match[i]: the match of order i, 0 while it is open
    record     \* record[m]: the row of match m

engineVars == <<orders, match, record>>

\* "by" is 0, or the opened page whose demo effect posted the order.
Order == [owner : Owner, side : {"bid", "ask"}, lot : Lot, by : 0..MaxMounts]
\* No reader tells "submitted" from "pending" but by its colour: both are here
\* "pending".
Row == [proof : BOOLEAN, chain : {"pending", "failed", "confirmed"}]

EngineTypeOK ==
    /\ orders \in Seq(Order)
    /\ Len(orders) <= MaxOrders
    /\ match \in [Id -> Id \cup {0}]
    /\ record \in [Id -> Row \cup {None}]

EngineInit ==
    /\ orders = <<>>
    /\ match = [i \in Id |-> 0]
    /\ record = [i \in Id |-> None]

Known == 1..Len(orders)

Status(i) ==
    IF match[i] = 0 THEN "open"
    ELSE IF record[match[i]].chain = "confirmed" THEN "settled" ELSE "matched"

\* Mutant: the side as the form spells it.
OppositeShown(side) == IF side = "bid" THEN "ASK" ELSE "BID"

Opposite(side) == IF side = "bid" THEN "ask" ELSE "bid"

InsertOrder(o) == orders' = Append(orders, o) /\ UNCHANGED <<match, record>>

\* Orders of all desks, this one's from the compose form included.
Arrive(o) ==
    /\ o.by = 0
    /\ Cardinality({i \in Known : orders[i].by = 0}) < MaxOthers
    /\ InsertOrder(o)

Cross(i, j) == orders[i].lot = orders[j].lot /\ orders[i].side # orders[j].side

CreateMatch(i, j) ==
    /\ i < j
    /\ match[i] = 0 /\ match[j] = 0
    /\ Cross(i, j)
    /\ match' = [match EXCEPT ![i] = i, ![j] = i]
    /\ record' = [record EXCEPT ![i] = [proof |-> FALSE, chain |-> "pending"]]
    /\ UNCHANGED orders

SetProof(m) ==
    /\ record[m] # None
    /\ ~record[m].proof
    /\ record' = [record EXCEPT ![m].proof = TRUE]
    /\ UNCHANGED <<orders, match>>

\* Mutant: without the guard of the statement a late failure undoes it all.
SetOnchainAnyway(m, s) ==
    /\ record[m] # None
    /\ record[m].proof
    /\ record' = [record EXCEPT ![m].chain = s]
    /\ UNCHANGED <<orders, match>>

\* Mutant: a match is settled before it is proven.
SetOnchainEarly(m, s) ==
    /\ record[m] # None
    /\ record[m].chain # "confirmed"
    /\ record' = [record EXCEPT ![m].chain = s]
    /\ UNCHANGED <<orders, match>>

\* A settlement begins, or fails and may begin again.
SetOnchain(m, s) ==
    /\ record[m] # None
    /\ record[m].proof
    /\ record[m].chain # "confirmed"
    /\ record' = [record EXCEPT ![m].chain = s]
    /\ UNCHANGED <<orders, match>>

\* The match is confirmed and both its orders are settled, in one transaction.
MarkSettled(m) ==
    /\ record[m] # None
    /\ record[m].proof
    /\ record[m].chain # "confirmed"
    /\ record' = [record EXCEPT ![m].chain = "confirmed"]
    /\ UNCHANGED <<orders, match>>

EngineStep ==
    \/ \E i, j \in Known : CreateMatch(i, j)
    \/ \E m \in Known :
          \/ SetProof(m) \/ MarkSettled(m)
          \/ \E s \in {"pending", "failed"} : SetOnchain(m, s)

\* GET /orders: the newest ones up to the limit, each with its match.
Listed(limit) == {i \in Known : i + limit > Len(orders)}
ListOrders(limit) ==
    [i \in Listed(limit) |-> [status |-> Status(i), match |-> match[i]]]

\* GET /matches/{id}.
GetMatch(m) == record[m]
=============================================================================
