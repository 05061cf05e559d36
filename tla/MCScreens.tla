----------------------------- MODULE MCScreens -----------------------------
(* Screens on a small instance: one desk of this browser, one of another.  *)
EXTENDS Screens, TLC

CONSTANTS me, other, crossing, apart

MyBid == [owner |-> me, side |-> "bid", lot |-> crossing, by |-> 0]
FarAsk == [owner |-> other, side |-> "ask", lot |-> apart, by |-> 0]
SameBid == [owner |-> other, side |-> "bid", lot |-> crossing, by |-> 0]

Arrivals == {MyBid, FarAsk, SameBid}
=============================================================================
