----------------------------- MODULE OrderBook -----------------------------
(***************************************************************************)
(* The order book in PostgreSQL and the matchers that pair its orders      *)
(* (matchOnce and pairOrders of engine/internal/matcher/matcher.go,        *)
(* InsertOrder, OpenPairs, OpenOrdersByPair and CreateMatch of             *)
(* engine/internal/store/store.go, WithSerializableTx of                   *)
(* engine/internal/db/db.go).  Several engine processes insert orders and  *)
(* run match cycles over one database.  A cycle works on what it read at   *)
(* its start; CreateMatch is a transaction whose statements interleave     *)
(* with those of the others: it takes a snapshot, locks rows one by one,   *)
(* and commits or rolls back.                                              *)
(*                                                                         *)
(* An order is a number: its place in ORDER BY created_at, id.  What the   *)
(* client wrote into it never changes and is chosen in the initial state.  *)
(***************************************************************************)
EXTENDS Naturals, FiniteSets

CONSTANTS
    Proc,        \* engine processes
    NoProc,      \* the owner of a row nobody has locked
    Order,       \* orders, in the order of their created_at
    Form,        \* what an order may say
    Nullifier,   \* Nullifier[o]: equal for two submissions of one sealed order
    Key,         \* blob keys
    BlobKey,     \* the key in NYX_BLOB_KEY
    StartKey,    \* StartKey[p]: the key process p makes at its first start without it
    Modes,       \* how the engines may be configured: with NYX_BLOB_KEY or without
    MaxStops     \* bound of the model: how often processes crash

ASSUME BookAssumption ==
    /\ NoProc \notin Proc
    /\ Order \subseteq Nat \ {0}
    /\ Form \subseteq [side : {"ask", "bid"}, pair : Nat, price : Nat, volume : Nat]
    /\ Nullifier \in [Order -> Nat]
    /\ Key \subseteq Nat \ {0}
    /\ BlobKey \in Key
    /\ StartKey \in [Proc -> Key]
    /\ Modes \subseteq {"persistent", "ephemeral"}
    /\ MaxStops \in Nat

NoKey == 0

VARIABLES
    mode,      \* whether NYX_BLOB_KEY is set
    form,      \* form[o]: side, pair, price and volume of order o
    status,    \* status[o]: absent, open or matched
    sealed,    \* sealed[o]: the key its blob is encrypted with
    matches,   \* rows of the matches table, as <<maker, taker>>
    locked,    \* locked[o]: the process whose transaction holds the row
    pc,        \* where the match cycle of a process is
    todo,      \* asset pairs the cycle has not loaded yet
    plan,      \* pairs of orders still to be written
    snap,      \* rows of the current pair that the transaction saw open
    key,       \* key[p]: the blob key of process p, NoKey while it is down
    stops      \* how often a process has crashed so far

tableVars == <<mode, form, status, sealed, matches>>
cycleVars == <<pc, todo, plan, snap>>
vars == <<tableVars, locked, cycleVars, key, stops>>

Up(p) == key[p] # NoKey
Open == {o \in Order : status[o] = "open"}

\* Mutant: the comparison of prices is the wrong way round.
CrossesBelow(a, b) ==
    /\ form[a].side = "ask" /\ form[b].side = "bid"
    /\ form[a].pair = form[b].pair
    /\ form[a].price >= form[b].price
    /\ form[a].volume = form[b].volume

\* ap.Cmp(bp) <= 0 && av.Cmp(bv) == 0, for two orders of one asset pair.
Crosses(a, b) ==
    /\ form[a].side = "ask" /\ form[b].side = "bid"
    /\ form[a].pair = form[b].pair
    /\ form[a].price <= form[b].price
    /\ form[a].volume = form[b].volume

Init ==
    /\ mode \in Modes
    /\ form \in [Order -> Form]
    /\ status = [o \in Order |-> "absent"]
    /\ sealed = [o \in Order |-> NoKey]
    /\ matches = {}
    /\ locked = [o \in Order |-> NoProc]
    /\ pc = [p \in Proc |-> "idle"]
    /\ todo = [p \in Proc |-> {}]
    /\ plan = [p \in Proc |-> {}]
    /\ snap = [p \in Proc |-> {}]
    /\ key = IF mode = "ephemeral" THEN StartKey ELSE [p \in Proc |-> BlobKey]
    /\ stops = 0

-----------------------------------------------------------------------------
(* Inserting orders. *)

Goto(p, c) == pc' = [pc EXCEPT ![p] = c]

\* A collision of nullifiers is refused as ErrDuplicate.
InsertOrder(p, o) ==
    /\ Up(p)
    /\ status[o] = "absent"
    /\ \A k \in Order : status[k] # "absent" => Nullifier[k] # Nullifier[o]
    /\ status' = [status EXCEPT ![o] = "open"]
    /\ sealed' = [sealed EXCEPT ![o] = key[p]]
    /\ UNCHANGED <<mode, form, matches, locked, cycleVars, key, stops>>

-----------------------------------------------------------------------------
(* The match cycle: matchOnce. *)

OpenPairs(p) ==
    /\ Up(p) /\ pc[p] = "idle"
    /\ todo' = [todo EXCEPT ![p] = {form[o].pair : o \in Open}]
    /\ Goto(p, "pairs")
    /\ UNCHANGED <<tableVars, locked, plan, snap, key, stops>>

\* Rows whose blob does not decrypt under this process's key are skipped.
OpenOrdersByPair(p, x) ==
    {o \in Open : form[o].pair = x /\ sealed[o] = key[p]}

\* Mutant: a bid that is taken ends the search (break in the place of continue).
IsPairingBreak(S, pick) ==
    \A a \in DOMAIN pick :
       LET free == {b \in S : Crosses(a, b) /\ \A c \in DOMAIN pick :
                                  c < a => pick[c] = 0 \/ pick[c] > b}
       IN  IF free = {} THEN pick[a] = 0
           ELSE pick[a] \in free /\ \A b \in free : pick[a] <= b

\* pick is what the two nested loops compute from the orders in S: every ask, in
\* order, takes the first bid that crosses it and that no earlier ask has taken.
IsPairing(S, pick) ==
    \A a \in DOMAIN pick :
       LET free == {b \in S : Crosses(a, b) /\ \A c \in DOMAIN pick : c < a => pick[c] # b}
       IN  IF free = {} THEN pick[a] = 0
           ELSE pick[a] \in free /\ \A b \in free : pick[a] <= b

Asks(S) == {a \in S : form[a].side = "ask"}
Bids(S) == {b \in S : form[b].side = "bid"}

\* Mutant: an ask without a bid stays in the plan.
PairAllAsks(p, x) ==
    LET S == OpenOrdersByPair(p, x) IN
    /\ pc[p] = "pairs" /\ x \in todo[p]
    /\ todo' = [todo EXCEPT ![p] = @ \ {x}]
    /\ \E pick \in [Asks(S) -> Bids(S) \cup {0}] :
          /\ IsPairing(S, pick)
          /\ plan' = [plan EXCEPT ![p] = {<<a, pick[a]>> : a \in Asks(S)}]
    /\ Goto(p, "plan")
    /\ UNCHANGED <<tableVars, locked, snap, key, stops>>

PairOrders(p, x) ==
    LET S == OpenOrdersByPair(p, x) IN
    /\ pc[p] = "pairs" /\ x \in todo[p]
    /\ todo' = [todo EXCEPT ![p] = @ \ {x}]
    /\ \E pick \in [Asks(S) -> Bids(S) \cup {0}] :
          /\ IsPairing(S, pick)
          /\ plan' = [plan EXCEPT ![p] = {<<a, pick[a]>> : a \in {c \in Asks(S) : pick[c] # 0}}]
    /\ Goto(p, "plan")
    /\ UNCHANGED <<tableVars, locked, snap, key, stops>>

\* The query failed: on to the next pair.
LoadFailed(p, x) ==
    /\ pc[p] = "pairs" /\ x \in todo[p]
    /\ todo' = [todo EXCEPT ![p] = @ \ {x}]
    /\ UNCHANGED <<tableVars, locked, pc, plan, snap, key, stops>>

\* Mutant: the asset pairs are read once, at the start of the process.
PairsReadOnce(p) == pc[p] = "pairs" /\ todo[p] = {} /\ UNCHANGED vars

EndCycle(p) ==
    /\ pc[p] = "pairs" /\ todo[p] = {}
    /\ Goto(p, "idle")
    /\ UNCHANGED <<tableVars, locked, todo, plan, snap, key, stops>>

PlanDone(p) ==
    /\ pc[p] = "plan" /\ plan[p] = {}
    /\ Goto(p, "pairs")
    /\ UNCHANGED <<tableVars, locked, todo, plan, snap, key, stops>>

-----------------------------------------------------------------------------
(* CreateMatch in its SERIALIZABLE transaction. *)

\* The pair the loop over the plan has reached.
IsCurrent(p, f) == f \in plan[p] /\ \A g \in plan[p] : f[1] <= g[1]
Rows(f) == {f[1], f[2]}

\* UPDATE ... AND status = 'open': the first statement fixes the snapshot.
BeginTx(p) ==
    /\ pc[p] = "plan"
    /\ \E f \in plan[p] : IsCurrent(p, f) /\ snap' = [snap EXCEPT ![p] = Rows(f) \cap Open]
    /\ Goto(p, "update")
    /\ UNCHANGED <<tableVars, locked, todo, plan, key, stops>>

\* The update of one row: it is free, and nobody has changed it since the snapshot.
LockRow(p, o) ==
    /\ pc[p] = "update" /\ o \in snap[p]
    /\ locked[o] = NoProc /\ status[o] = "open"
    /\ locked' = [locked EXCEPT ![o] = p]
    /\ UNCHANGED <<tableVars, cycleVars, key, stops>>

\* Mutant: RowsAffected() is not checked.
InsertAnyway(p) ==
    /\ pc[p] = "update"
    /\ \A o \in snap[p] : locked[o] = p
    /\ Goto(p, "commit")
    /\ UNCHANGED <<tableVars, locked, todo, plan, snap, key, stops>>

\* Both rows were updated: insert the match.
InsertMatch(p) ==
    /\ pc[p] = "update"
    /\ Cardinality(snap[p]) = 2
    /\ \A o \in snap[p] : locked[o] = p
    /\ Goto(p, "commit")
    /\ UNCHANGED <<tableVars, locked, todo, plan, snap, key, stops>>

\* The transaction is over; matchOnce goes on to the next pair of its plan.
EndTx(p) ==
    /\ plan' = [plan EXCEPT ![p] = {f \in plan[p] : ~IsCurrent(p, f)}]
    /\ snap' = [snap EXCEPT ![p] = {}]
    /\ Goto(p, "plan")
    /\ UNCHANGED <<mode, form, sealed, todo, key, stops>>

\* The rows that p has locked go to q.
PassLocks(p, q) == locked' = [o \in Order |-> IF locked[o] = p THEN q ELSE locked[o]]

Finish(p) == EndTx(p) /\ PassLocks(p, NoProc)

Rollback(p) == Finish(p) /\ UNCHANGED <<status, matches>>

\* RowsAffected() != 2.
AlreadyMatched(p) ==
    /\ pc[p] = "update"
    /\ Cardinality(snap[p]) # 2
    /\ \A o \in snap[p] : locked[o] = p
    /\ Rollback(p)

\* 40001: somebody committed a change of the row after the snapshot.
Conflict(p) ==
    /\ pc[p] = "update"
    /\ \E o \in snap[p] : locked[o] = NoProc /\ status[o] # "open"
    /\ Rollback(p)

WaitsFor(p, q) ==
    p # q /\ pc[p] = "update" /\ \E o \in snap[p] : locked[o] = q

\* 40P01: PostgreSQL ends one of a circle of waiting transactions, and the row goes to
\* the one that waited for it.
Deadlock(p) ==
    \E C \in SUBSET Proc : \E q \in C :
       /\ p \in C /\ WaitsFor(q, p)
       /\ \A r \in C : (\E t \in C : WaitsFor(r, t)) /\ (\E t \in C : WaitsFor(t, r))
       /\ EndTx(p) /\ PassLocks(p, q)
       /\ UNCHANGED <<status, matches>>

\* A commit whose answer is lost is a Commit too: its error is only logged.
Commit(p) ==
    /\ pc[p] = "commit"
    /\ \E f \in plan[p] :
          /\ IsCurrent(p, f)
          /\ status' = [o \in Order |-> IF o \in Rows(f) THEN "matched" ELSE status[o]]
          /\ matches' = matches \cup {f}
    /\ Finish(p)

\* 40001 at the insert or at the commit, a lost connection, a cancelled context.
CommitFailed(p) == pc[p] = "commit" /\ Rollback(p)

CreateMatch(p) == \/ BeginTx(p) \/ (\E o \in Order : LockRow(p, o)) \/ InsertMatch(p)
                  \/ AlreadyMatched(p) \/ Conflict(p) \/ Deadlock(p)
                  \/ Commit(p) \/ CommitFailed(p)

MatchCycle(p) == \/ OpenPairs(p)
                 \/ (\E x \in todo[p] : PairOrders(p, x) \/ LoadFailed(p, x))
                 \/ EndCycle(p) \/ PlanDone(p) \/ CreateMatch(p)

-----------------------------------------------------------------------------
(* Crash and restart. *)

Crash(p) ==
    /\ Up(p) /\ stops < MaxStops
    /\ stops' = stops + 1
    /\ key' = [key EXCEPT ![p] = NoKey]
    /\ todo' = [todo EXCEPT ![p] = {}]
    /\ plan' = [plan EXCEPT ![p] = {}]
    /\ snap' = [snap EXCEPT ![p] = {}]
    /\ PassLocks(p, NoProc)
    /\ Goto(p, "idle")
    /\ UNCHANGED tableVars

\* Keys that are held by no process and have sealed no row.
Fresh == {k \in Key : \A q \in Proc, o \in Order : key[q] # k /\ sealed[o] # k}

\* With NYX_BLOB_KEY the key is the same after a restart; without, it is a new one.
Restart(p) ==
    /\ ~Up(p)
    /\ \E k \in IF mode = "ephemeral" THEN Fresh ELSE {BlobKey} :
          /\ mode = "ephemeral" => \A j \in Fresh : k <= j
          /\ key' = [key EXCEPT ![p] = k]
    /\ UNCHANGED <<tableVars, locked, cycleVars, stops>>

-----------------------------------------------------------------------------
Next == \E p \in Proc : \/ \E o \in Order : InsertOrder(p, o)
                        \/ MatchCycle(p) \/ Crash(p) \/ Restart(p)

Spec == Init /\ [][Next]_vars

\* The poll loop runs on; a query or a commit that is tried for ever does not fail for
\* ever, and PostgreSQL breaks a deadlock.
Fairness ==
    \A p \in Proc : /\ WF_vars(MatchCycle(p))
                    /\ \A x \in {f.pair : f \in Form} : SF_vars(PairOrders(p, x))
                    /\ SF_vars(Commit(p))

FairSpec == Spec /\ Fairness
-----------------------------------------------------------------------------
(* Properties. *)

TypeOK ==
    /\ mode \in Modes
    /\ form \in [Order -> Form]
    /\ status \in [Order -> {"absent", "open", "matched"}]
    /\ sealed \in [Order -> Key \cup {NoKey}]
    /\ matches \subseteq Order \X Order
    /\ locked \in [Order -> Proc \cup {NoProc}]
    /\ pc \in [Proc -> {"idle", "pairs", "plan", "update", "commit"}]
    /\ todo \in [Proc -> SUBSET Nat]
    /\ plan \in [Proc -> SUBSET (Order \X Order)]
    /\ snap \in [Proc -> SUBSET Order]
    /\ key \in [Proc -> Key \cup {NoKey}]
    /\ stops \in 0..MaxStops

\* What the circuit asks of the two orders together: whoever breaks it has formed a
\* match that can never be proven.  What it asks of each of them, its range and its
\* commitment, is the subject of NyxVerifier.
Satisfies(maker, taker) ==
    /\ maker.side = "ask" /\ taker.side = "bid"
    /\ maker.price <= taker.price
    /\ maker.volume = taker.volume

\* store.go:9: the UNIQUE constraints of matches are only a backstop: the guarded update
\* alone keeps a transaction from ever inserting an order that is in a match already.
BackstopIdle ==
    \A p \in Proc : pc[p] = "commit" =>
       \A f \in plan[p], m \in matches : IsCurrent(p, f) => Rows(f) \cap Rows(m) = {}

\* pairOrders' comment: FIFO, each order at most once.  Of the orders that a cycle has
\* loaded, two that cross and are not planned together leave one of them planned with
\* an order as early or earlier: no pair is missed and nobody is overtaken.
PairingStable ==
    [][\A p \in Proc : pc[p] = "pairs" /\ pc'[p] = "plan" =>
          \E x \in todo[p] \ todo'[p] :
             LET S == OpenOrdersByPair(p, x) IN
             /\ \A f \in plan'[p] : Rows(f) \subseteq S
             /\ \A f, g \in plan'[p] : Rows(f) \cap Rows(g) # {} => f = g
             /\ \A a, b \in S : Crosses(a, b) =>
                   \E f \in plan'[p] : \/ f[1] = a /\ f[2] <= b
                                       \/ f[2] = b /\ f[1] <= a]_vars

\* Every order is filled wholly and once, against one it satisfies the circuit with,
\* and both rows and the match change together: however the statements of two
\* processes interleave, and whichever of them dies.
Book == INSTANCE FullFill WITH resting <- Open, filled <- matches, Fits <- Satisfies
ImplementsFullFill == Book!Spec

\* Two orders that cross and that a living process can decrypt do not rest for ever.
Readable(p, o) == Up(p) /\ status[o] = "open" /\ sealed[o] = key[p]
CrossesMeet ==
    \A p \in Proc, a \in Order : \A b \in Order \ {a} :
       Readable(p, a) /\ Readable(p, b) /\ Crosses(a, b)
          ~> ~Readable(p, a) \/ ~Readable(p, b)
=============================================================================
