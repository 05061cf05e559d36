------------------------------ MODULE Screens ------------------------------
(***************************************************************************)
(* The pages of one browser over one engine.  The pool page is both a view *)
(* and the host of a demo counterparty; what that posts is an order like   *)
(* any other to the engine and to the other pages.                         *)
(***************************************************************************)
EXTENDS Views, DemoCounter

CONSTANTS
    Desk,       \* the desks of this browser
    Incoming,   \* orders that may come in besides the counters
    MaxOpen     \* bound on the pages that are open at once, one per tab

ASSUME ScreensAssumption ==
    /\ Desk \subseteq Owner
    /\ Incoming \subseteq Order
    /\ None \notin Owner /\ None \notin Row /\ None \notin Listing

vars == <<engineVars, viewVars, demo>>

TypeOK == EngineTypeOK /\ ViewTypeOK /\ DemoTypeOK

Init == EngineInit /\ ViewInit /\ DemoInit

Opened == {k \in Mount : page[k] # "off"}

\* A page is opened; the pool runs the demo effect when demo mode is on and an
\* order and a desk are stored.  A place is used again and again, but for one
\* demo effect only: MaxMounts bounds these.
Open(k, pg) ==
    /\ page[k] = "off"
    /\ Cardinality(Opened) < MaxOpen
    /\ OpenPage(k, pg)
    /\ \/ UNCHANGED demo
       \/ /\ pg = "pool" /\ active # 0 /\ demo[k] = NoDemo
          /\ \E d \in Desk : StartDemo(k, active, d)
    /\ UNCHANGED engineVars

Leave(k) ==
    /\ ClosePage(k)
    /\ IF demo[k] = NoDemo THEN UNCHANGED demo ELSE Cancel(k)
    /\ UNCHANGED engineVars

Broadcast ==
    \E i \in Known :
        /\ orders[i].owner \in Desk
        /\ setActiveOrder(i)
        /\ UNCHANGED <<engineVars, demo>>

Next ==
    \/ (EngineStep \/ \E o \in Incoming : Arrive(o)) /\ UNCHANGED <<viewVars, demo>>
    \/ Broadcast
    \/ \E k \in Mount :
          \/ \E pg \in Pages : Open(k, pg)
          \/ Leave(k)
          \/ \E p \in Polls : PollStep(k, p) /\ UNCHANGED <<engineVars, demo>>
          \/ DemoStep(k) /\ UNCHANGED viewVars

Spec == Init /\ [][Next]_vars

\* The engine goes on, pages poll for as long as they are open and run what is
\* ready to run, and a network that is asked again and again answers at last.
Fairness ==
    /\ \A i, j \in Id : WF_vars(/\ i \in Known /\ j \in Known
                                /\ CreateMatch(i, j) /\ UNCHANGED <<viewVars, demo>>)
    /\ \A k \in Mount :
          /\ WF_vars(DemoStep(k) /\ UNCHANGED viewVars)
          /\ WF_vars(\E p \in Polls : /\ tick(k, p) \/ HandleOrders(k, p) \/ ShowMatch(k, p)
                                      /\ UNCHANGED <<engineVars, demo>>)
          /\ SF_vars(\E p \in Polls : listOrders(k, p) /\ UNCHANGED <<engineVars, demo>>)
          /\ SF_vars(\E p \in Polls : getMatch(k, p) /\ UNCHANGED <<engineVars, demo>>)

FairSpec == Spec /\ Fairness

-----------------------------------------------------------------------------
(* Properties                                                               *)

\* No page is ever ahead of the engine, however many polls are under way and in
\* whatever order they are answered: what it says of an order, "MATCH FOUND", a
\* stage that is done and "Settled atomically." are true when they are shown and
\* stay so; settled means both orders of the match (the four bodies, MarkSettled).
NeverAhead ==
    \A k \in Opened :
        /\ \A i \in Id : found(k, i) => i \in Known /\ match[i] # 0
        /\ \A i \in Id : statusLabel(k, i) = "settled" => Status(i) = "settled"
        /\ LET m == shown[k].match IN
             /\ buildStages(m, shown[k].row)[2] => record[m].proof
             /\ confirmed(k) => \A i \in Known : match[i] = m => Status(i) = "settled"

Table == INSTANCE MatchRows WITH
    Match <- Id,
    formed <- {m \in Id : record[m] # None},
    proven <- {m \in Id : record[m] # None /\ record[m].proof},
    outcome <- [m \in Id |-> IF record[m] = None THEN "pending" ELSE record[m].chain],
    settled <- {m \in Id : \E i \in Known : match[i] = m /\ Status(i) = "settled"}

\* The engine behind the pages does nothing to a match that the tables of the
\* pipeline do not: what is checked of the pages is checked of that engine.
ReadsMatchRows == Table!Spec

\* The pipeline of the proofs page has no gap: a stage is done only when all
\* before it are, and "verification failed" is said of a proven match only
\* (ProofsBody buildStages, over what the engine stores and in which order).
StagesInOrder ==
    \A k \in Opened :
        LET stages == buildStages(shown[k].match, shown[k].row) IN
        /\ \A s \in 1..3 : stages[s + 1] => stages[s]
        /\ failed(k) => stages[2]

\* One mounting of the pool posts at most one counter, also when the answer to
\* it is lost or the page is left meanwhile (PoolBody, filledRef).
OneCounter ==
    \A k \in Mount : Cardinality({i \in Known : orders[i].by = k}) <= 1

Filled(k) == \E i \in Known : i = demo[k].of /\ match[i] # 0
Taken(k) == \E i \in Known : orders[i].by = k /\ match[i] # 0

\* Resting orders that do not cross cannot starve a solo order: unless the page
\* is left, a call fails or the order has left the listing, it is matched, or
\* its counter has been taken by another order (PoolBody 65-70).
DemoFills ==
    \A k \in Mount :
        demo[k].at = "grace" ~>
            \/ Filled(k) \/ Taken(k)
            \/ demo[k].cancelled \/ demo[k].failed \/ demo[k].request = "dropped"
            \/ demo[k].at = "done" /\ demo[k].seen = "unlisted"

Follows(k, i) == IF page[k] \in {"proofs", "settled"} THEN active = i ELSE page[k] # "off"

UpToDate(k, i) ==
    IF page[k] \in {"proofs", "settled"}
    THEN shown[k].match = match[i] /\ confirmed(k)
    ELSE statusLabel(k, i) = "settled"

\* A page that stays open comes to show that an order it follows is settled,
\* and goes on to show it, although polls fail and overtake each other; as
\* long as the order is among those the page asks for.
ViewCatchesUp ==
    \A k \in Mount, i \in Id :
        <>[](Follows(k, i) /\ i \in Listed(Limit(k)) /\ Status(i) = "settled")
            => <>[]UpToDate(k, i)

\* What the comment in store.go says a listing is for: the frontend follows an
\* order into its settlement.  The settled page keeps the match of an earlier
\* order beside a new one, and offers the two as one receipt.
ReceiptIsOneOrder ==
    \A k \in Mount :
        LET r == downloadReceipt(k) IN
        page[k] = "settled" /\ r.order # 0 /\ r.match # 0 => match[r.order] = r.match
=============================================================================
