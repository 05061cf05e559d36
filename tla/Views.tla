------------------------------- MODULE Views -------------------------------
(***************************************************************************)
(* The pages of the web desk that follow an order: pool, desk, proofs and  *)
(* settled.  Each polls the engine and shows what it last heard.  Polls    *)
(* are started by a timer whether or not earlier ones are answered, so     *)
(* their answers arrive in any order; a failed one changes nothing.        *)
(***************************************************************************)
EXTENDS ReadModel

CONSTANTS
    DeskSize,   \* the limit of the desk page: 200
    MaxPolls    \* bound on the polls of a page that are under way at once

ASSUME ViewsAssumption == DeskSize \in Nat /\ MaxPolls \in Nat

Polls == 1..MaxPolls

VARIABLES
    active,   \* the order of nyx.activeOrder in localStorage, or 0
    page,     \* page[k]: what the k-th opened page is, "off" before and after
    shown,    \* shown[k]: its state
    polls     \* polls[k][p]: its polls

viewVars == <<active, page, shown, polls>>

Pages == {"pool", "desk", "proofs", "settled"}

Entry == [status : {"open", "matched", "settled"}, match : Id \cup {0}]
Listing == UNION {[S -> Entry] : S \in SUBSET Id}

\* "order" is the order the settled page is about, "match" and "row" the match
\* that is shown, "err" the banner of the desk page.
Shown == [list : Listing \cup {None}, order : Id \cup {0},
          match : Id \cup {0}, row : Row \cup {None}, err : BOOLEAN]

\* A poll waits for the orders, holds them, waits for a match, holds that.
Poll == [at : {"idle", "orders", "listed", "match", "found"}, id : Id \cup {0},
         list : Listing \cup {None}, match : Id \cup {0}, row : Row \cup {None}]

ViewTypeOK ==
    /\ active \in Id \cup {0}
    /\ page \in [Mount -> Pages \cup {"off"}]
    /\ shown \in [Mount -> Shown]
    /\ polls \in [Mount -> [Polls -> Poll]]

Blank == [list |-> None, order |-> 0, match |-> 0, row |-> None, err |-> FALSE]
NoPoll == [at |-> "idle", id |-> 0, list |-> None, match |-> 0, row |-> None]

ViewInit ==
    /\ active = 0
    /\ page = [k \in Mount |-> "off"]
    /\ shown = [k \in Mount |-> Blank]
    /\ polls = [k \in Mount |-> [p \in Polls |-> NoPoll]]

\* The answer to a broadcast is stored, by whichever tab it belongs to.
setActiveOrder(i) ==
    /\ i # active
    /\ orders[i].by = 0
    /\ active' = i
    /\ UNCHANGED <<page, shown, polls>>

\* A page is mounted.  (Which row of its listing the pool page picks out, by
\* its URL or by the stored order, is a matter of what it draws.)
OpenPage(k, pg) ==
    /\ page' = [page EXCEPT ![k] = pg]
    /\ UNCHANGED <<active, shown, polls>>

\* It is left: what its polls still bring is not heard.
ClosePage(k) ==
    /\ page[k] # "off"
    /\ page' = [page EXCEPT ![k] = "off"]
    /\ shown' = [shown EXCEPT ![k] = Blank]
    /\ polls' = [polls EXCEPT ![k] = [p \in Polls |-> NoPoll]]
    /\ UNCHANGED active

\* Mutant: the first poll of the mount, without the interval after it.
TickOnce(k, p) ==
    /\ polls[k][p].at = "idle"
    /\ shown[k] = Blank
    /\ \/ /\ page[k] \in {"pool", "desk"}
          /\ polls' = [polls EXCEPT ![k][p].at = "orders"]
       \/ /\ page[k] \in {"proofs", "settled"}
          /\ active # 0
          /\ polls' = [polls EXCEPT ![k][p].at = "orders", ![k][p].id = active]
    /\ UNCHANGED <<active, page, shown>>

\* The timer starts a poll.  Proofs and settled read the active order now and
\* ask nothing without one.
tick(k, p) ==
    /\ polls[k][p].at = "idle"
    /\ \A q \in Polls : q < p => polls[k][q].at # "idle"
    /\ \/ /\ page[k] \in {"pool", "desk"}
          /\ polls' = [polls EXCEPT ![k][p].at = "orders"]
       \/ /\ page[k] \in {"proofs", "settled"}
          /\ active # 0
          /\ polls' = [polls EXCEPT ![k][p].at = "orders", ![k][p].id = active]
    /\ UNCHANGED <<active, page, shown>>

Limit(k) == IF page[k] = "desk" THEN DeskSize ELSE PageSize

\* The engine answers, first with the orders, then with the match.
listOrders(k, p) ==
    /\ polls[k][p].at = "orders"
    /\ polls' = [polls EXCEPT ![k][p].at = "listed", ![k][p].list = ListOrders(Limit(k))]
    /\ UNCHANGED <<active, page, shown>>

getMatch(k, p) ==
    /\ polls[k][p].at = "match"
    /\ polls' = [polls EXCEPT ![k][p].at = "found", ![k][p].row = GetMatch(polls[k][p].match)]
    /\ UNCHANGED <<active, page, shown>>

Done(k, p) == polls' = [polls EXCEPT ![k][p] = NoPoll]

\* What each page does with the orders.  Pool and desk show them; the desk page
\* takes its banner down.
PoolOrders(k, p) ==
    /\ polls[k][p].at = "listed"
    /\ page[k] = "pool"
    /\ shown' = [shown EXCEPT ![k].list = polls[k][p].list]
    /\ Done(k, p)
    /\ UNCHANGED <<active, page>>

DeskOrders(k, p) ==
    /\ polls[k][p].at = "listed"
    /\ page[k] = "desk"
    /\ shown' = [shown EXCEPT ![k].list = polls[k][p].list, ![k].err = FALSE]
    /\ Done(k, p)
    /\ UNCHANGED <<active, page>>

Found(k, p) == polls[k][p].id \in DOMAIN polls[k][p].list
MatchOf(k, p) == IF Found(k, p) THEN polls[k][p].list[polls[k][p].id].match ELSE 0

\* Proofs and settled go on to ask for the match of the order, if it has one.
AskMatch(k, p) ==
    /\ MatchOf(k, p) # 0
    /\ polls' = [polls EXCEPT ![k][p] =
                   [NoPoll EXCEPT !.at = "match", !.id = polls[k][p].id,
                                  !.match = MatchOf(k, p)]]

\* Proofs drops the match it shows when the order has none; a listing without
\* the order leaves everything as it is.
ProofsOrders(k, p) ==
    /\ polls[k][p].at = "listed"
    /\ page[k] = "proofs"
    /\ \/ ~Found(k, p) /\ Done(k, p) /\ UNCHANGED shown
       \/ /\ Found(k, p) /\ MatchOf(k, p) = 0 /\ Done(k, p)
          /\ shown' = [shown EXCEPT ![k].match = 0, ![k].row = None]
       \/ AskMatch(k, p) /\ UNCHANGED shown
    /\ UNCHANGED <<active, page>>

\* Settled sets the order at once, and leaves the match it shows as it is.
SettledOrders(k, p) ==
    /\ polls[k][p].at = "listed"
    /\ page[k] = "settled"
    /\ shown' = [shown EXCEPT ![k].order = IF Found(k, p) THEN polls[k][p].id ELSE 0]
    /\ \/ MatchOf(k, p) = 0 /\ Done(k, p)
       \/ AskMatch(k, p)
    /\ UNCHANGED <<active, page>>

ShowMatch(k, p) ==
    /\ polls[k][p].at = "found"
    /\ shown' = [shown EXCEPT ![k].match = polls[k][p].match, ![k].row = polls[k][p].row]
    /\ Done(k, p)
    /\ UNCHANGED <<active, page>>

\* A poll fails: the last good state stays, the desk page says so.
PollFailed(k, p) ==
    /\ polls[k][p].at \in {"orders", "match"}
    /\ shown' = [shown EXCEPT ![k].err = (page[k] = "desk")]
    /\ Done(k, p)
    /\ UNCHANGED <<active, page>>

HandleOrders(k, p) ==
    PoolOrders(k, p) \/ DeskOrders(k, p) \/ ProofsOrders(k, p) \/ SettledOrders(k, p)

PollStep(k, p) ==
    \/ tick(k, p) \/ listOrders(k, p) \/ HandleOrders(k, p)
    \/ getMatch(k, p) \/ ShowMatch(k, p) \/ PollFailed(k, p)

\* What the pages say.  Of order i in its listing, the desk page gives the
\* status; the pool page says "MATCH FOUND" when it is no longer open.
statusLabel(k, i) ==
    IF shown[k].list # None /\ i \in DOMAIN shown[k].list
    THEN shown[k].list[i].status ELSE "absent"

found(k, i) == statusLabel(k, i) \in {"matched", "settled"}

\* The pipeline of the proofs page: which of its four stages are done.
buildStages(m, row) ==
    <<m # 0,
      m # 0 /\ row.proof,
      m # 0 /\ row.chain = "confirmed",
      m # 0 /\ row.chain = "confirmed">>

\* The headline of the settled page.
confirmed(k) == shown[k].row # None /\ shown[k].row.chain = "confirmed"
failed(k) == shown[k].row # None /\ shown[k].row.chain = "failed"

\* The receipt that the settled page offers for download.
downloadReceipt(k) ==
    [order |-> shown[k].order, match |-> shown[k].match, row |-> shown[k].row]
=============================================================================
