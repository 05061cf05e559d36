---------------------------- MODULE DemoCounter ----------------------------
(***************************************************************************)
(* The demo counterparty of the pool page.  When the page is mounted with  *)
(* an active order, an effect waits, looks whether the order is still      *)
(* open, defers twice at most to a resting order of the other side, and    *)
(* posts one order that crosses it.  Leaving the page cancels the timer,   *)
(* but not a decision under way.                                           *)
(***************************************************************************)
EXTENDS ReadModel

CONSTANT MaxDeferrals   \* two in the code

ASSUME DemoAssumption == MaxDeferrals \in Nat

VARIABLE demo   \* demo[k]: the effect of the k-th opened page

\* "of" is the order it fills, "desk" signs the counter, "seen" is what the
\* listing said of the order, "request" the counter on its way.
Demo == [at : {"off", "grace", "asked", "heard", "sent", "done"},
         of : Id \cup {0}, desk : Owner \cup {None}, deferrals : 0..MaxDeferrals,
         seen : {"nothing", "unlisted", "matched", "opposed", "alone"},
         cancelled : BOOLEAN, failed : BOOLEAN,
         request : {"none", "travelling", "inserted", "dropped"}]

DemoTypeOK == demo \in [Mount -> Demo]

NoDemo == [at |-> "off", of |-> 0, desk |-> None, deferrals |-> 0, seen |-> "nothing",
           cancelled |-> FALSE, failed |-> FALSE, request |-> "none"]

DemoInit == demo = [k \in Mount |-> NoDemo]

\* The effect runs with the order and the desk that are stored at this moment.
StartDemo(k, i, d) ==
    demo' = [demo EXCEPT ![k] = [NoDemo EXCEPT !.at = "grace", !.of = i, !.desk = d]]

\* The page is left: the timer is cleared, nothing else is.
Cancel(k) ==
    demo' = [demo EXCEPT ![k].cancelled = TRUE,
                         ![k].at = IF @ = "grace" THEN "done" ELSE @]

demoTick(k) ==
    /\ demo[k].at = "grace"
    /\ demo' = [demo EXCEPT ![k].at = IF demo[k].cancelled THEN "done" ELSE "asked"]

Opposing(i) ==
    {j \in Listed(PageSize) \ {i} : match[j] = 0 /\ orders[j].side # orders[i].side}

Seen(i) ==
    IF i \notin Listed(PageSize) THEN "unlisted"
    ELSE IF match[i] # 0 THEN "matched"
    ELSE IF Opposing(i) # {} THEN "opposed" ELSE "alone"

demoList(k) ==
    /\ demo[k].at = "asked"
    /\ demo' = [demo EXCEPT ![k].at = "heard", ![k].seen = Seen(demo[k].of)]

\* The order is matched, or it is not in the listing, which is taken for the
\* same: there is nothing to fill.
StandDown(k) ==
    /\ demo[k].at = "heard"
    /\ demo[k].seen \in {"unlisted", "matched"}
    /\ demo' = [demo EXCEPT ![k].at = "done"]

\* Mutant: it defers as long as the other side rests.
DeferAlways(k) ==
    /\ demo[k].at = "heard"
    /\ demo[k].seen = "opposed"
    /\ demo' = [demo EXCEPT ![k].at = "grace", ![k].seen = "nothing"]

Defer(k) ==
    /\ demo[k].at = "heard"
    /\ demo[k].seen = "opposed"
    /\ demo[k].deferrals < MaxDeferrals
    /\ demo' = [demo EXCEPT ![k].at = "grace", ![k].seen = "nothing", ![k].deferrals = @ + 1]

\* The counter is sealed and posted; what was counted and seen is forgotten.
Fill(k) ==
    /\ demo[k].at = "heard"
    /\ \/ demo[k].seen = "alone"
       \/ demo[k].seen = "opposed" /\ demo[k].deferrals = MaxDeferrals
    /\ demo' = [demo EXCEPT ![k].at = "sent", ![k].seen = "nothing", ![k].deferrals = 0,
                            ![k].request = "travelling"]

\* It mirrors what is stored of the order, which is what the engine has of it
\* (ActiveIsAccepted of Compose).
Counter(k) ==
    [owner |-> demo[k].desk, side |-> Opposite(orders[demo[k].of].side),
     lot |-> orders[demo[k].of].lot, by |-> k]

\* The engine inserts the counter, which its sender may never learn.
InsertCounter(k) ==
    /\ demo[k].request = "travelling"
    /\ InsertOrder(Counter(k))
    /\ demo' = [demo EXCEPT ![k].request = "inserted"]

DropCounter(k) ==
    /\ demo[k].request = "travelling"
    /\ demo' = [demo EXCEPT ![k].request = "dropped"]

Answered(k) ==
    /\ demo[k].at = "sent"
    /\ demo[k].request = "inserted"
    /\ demo' = [demo EXCEPT ![k].at = "done"]

\* Mutant: the catch arms the timer again, as its comment has it.
DemoRetried(k) ==
    /\ demo[k].at \in {"asked", "sent"}
    /\ demo' = [demo EXCEPT ![k].at = "grace", ![k].failed = TRUE]

\* The listing or the broadcast fails.  The catch lowers a flag that nobody
\* reads again: the timer is not armed any more.
DemoFailed(k) ==
    /\ demo[k].at \in {"asked", "sent"}
    /\ demo' = [demo EXCEPT ![k].at = "done", ![k].failed = TRUE]

\* The steps of the page, of the network and of the engine.
DemoStep(k) ==
    \/ /\ \/ demoTick(k) \/ demoList(k) \/ StandDown(k) \/ Defer(k) \/ Fill(k)
          \/ DropCounter(k) \/ Answered(k) \/ DemoFailed(k)
       /\ UNCHANGED engineVars
    \/ InsertCounter(k)
=============================================================================
