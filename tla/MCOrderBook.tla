---------------------------- MODULE MCOrderBook ----------------------------
(* Small instances of OrderBook for TLC. *)
EXTENDS OrderBook, TLC

CONSTANTS p1, p2

Says(side, pair, price, volume) ==
    [side |-> side, pair |-> pair, price |-> price, volume |-> volume]

\* An ask, a bid that crosses it, and bids that differ in price, volume or asset.
RaceForms == {Says("ask", 1, 2, 1), Says("bid", 1, 1, 1),
              Says("bid", 1, 2, 1), Says("bid", 1, 2, 2), Says("bid", 2, 2, 1)}

TradeForms == {Says("ask", 1, 1, 1), Says("bid", 1, 1, 1)}

OwnKeys == [p \in Proc |-> IF p = p1 THEN 1 ELSE 2]

AllDistinct == [o \in Order |-> o]
=============================================================================
