-------------------------- MODULE OrderBook_proofs --------------------------
(***************************************************************************)
(* Proofs about OrderBook, for every set of processes and orders, whatever *)
(* the orders say and however the keys are configured.                     *)
(***************************************************************************)
EXTENDS OrderBook, FiniteSetTheorems, WellFoundedInduction, TLAPS

-----------------------------------------------------------------------------
(* Types. *)

\* The pairing only joins an ask and a bid of the orders it was given, which cross,
\* and uses an ask once.
LEMMA PairingSound ==
  ASSUME TypeOK, NEW p \in Proc, NEW x, PairOrders(p, x)
  PROVE  /\ plan' \in [Proc -> SUBSET (Order \X Order)]
         /\ \A q \in Proc \ {p} : plan'[q] = plan[q]
         /\ \A f \in plan'[p] : Crosses(f[1], f[2])
         /\ \A f, g \in plan'[p] : f[1] = g[1] => f = g
<1> DEFINE S == OpenOrdersByPair(p, x)
<1>1. S \subseteq Order /\ Asks(S) \subseteq Order /\ Bids(S) \subseteq Order
  BY DEF OpenOrdersByPair, Open, Asks, Bids
<1>2. PICK pick \in [Asks(S) -> Bids(S) \cup {0}] :
         /\ IsPairing(S, pick)
         /\ plan' = [plan EXCEPT ![p] = {<<a, pick[a]>> : a \in {c \in Asks(S) : pick[c] # 0}}]
  BY DEF PairOrders
<1>3. plan \in [Proc -> SUBSET (Order \X Order)]
  BY DEF TypeOK
<1>4. plan'[p] = {<<a, pick[a]>> : a \in {c \in Asks(S) : pick[c] # 0}}
  BY <1>2, <1>3
<1>5. \A a \in Asks(S) : pick[a] # 0 => pick[a] \in Bids(S)
  BY <1>2
<1>6. plan'[p] \subseteq Order \X Order
  BY <1>1, <1>4, <1>5
<1>7. \A a \in Asks(S) : pick[a] # 0 => Crosses(a, pick[a])
  <2>1. SUFFICES ASSUME NEW a \in Asks(S), pick[a] # 0 PROVE Crosses(a, pick[a])
    OBVIOUS
  <2> DEFINE free == {b \in S : Crosses(a, b) /\ \A c \in DOMAIN pick : c < a => pick[c] # b}
  <2>2. IF free = {} THEN pick[a] = 0 ELSE pick[a] \in free
    BY <1>2, <2>1 DEF IsPairing
  <2> QED BY <2>1, <2>2
<1> QED BY <1>2, <1>3, <1>4, <1>6, <1>7

LEMMA TypeInit == Init => TypeOK
BY BookAssumption DEF Init, TypeOK, NoKey

\* The end of a transaction, however it ends, keeps the types of what it writes.
LEMMA FinishType ==
  ASSUME TypeOK, NEW p \in Proc, NEW q \in Proc \cup {NoProc}, EndTx(p), PassLocks(p, q)
  PROVE  /\ plan' \in [Proc -> SUBSET (Order \X Order)]
         /\ snap' \in [Proc -> SUBSET Order]
         /\ locked' \in [Order -> Proc \cup {NoProc}]
         /\ pc' \in [Proc -> {"idle", "pairs", "plan", "update", "commit"}]
<1>1. {f \in plan[p] : ~IsCurrent(p, f)} \subseteq Order \X Order
  BY DEF TypeOK
<1> QED BY <1>1 DEF EndTx, PassLocks, Goto, TypeOK

\* How a transaction that fails ends: nothing is written, its locks are given up.
LEMMA FailedTx ==
  ASSUME NEW p \in Proc, AlreadyMatched(p) \/ Conflict(p) \/ Deadlock(p) \/ CommitFailed(p)
  PROVE  /\ EndTx(p) /\ UNCHANGED <<status, matches>>
         /\ \E q \in Proc \cup {NoProc} : PassLocks(p, q)
BY DEF AlreadyMatched, Conflict, Deadlock, CommitFailed, Rollback, Finish

\* Every step of a match cycle keeps the types.
LEMMA CycleType == ASSUME TypeOK, NEW p \in Proc, MatchCycle(p) PROVE TypeOK'
<1> USE DEF tableVars, cycleVars, Goto
<1>1. CASE OpenPairs(p)
  <2>1. {form[o].pair : o \in Open} \subseteq Nat
    BY BookAssumption DEF TypeOK, Open
  <2> QED BY <1>1, <2>1 DEF OpenPairs, TypeOK
<1>2. CASE \E x \in todo[p] : PairOrders(p, x)
  <2>1. PICK x \in todo[p] : PairOrders(p, x)
    BY <1>2
  <2>2. plan' \in [Proc -> SUBSET (Order \X Order)]
    BY <2>1, PairingSound
  <2> QED BY <2>1, <2>2 DEF PairOrders, TypeOK
<1>3. CASE \E x \in todo[p] : LoadFailed(p, x)
  BY <1>3 DEF LoadFailed, TypeOK
<1>4. CASE EndCycle(p) \/ PlanDone(p)
  BY <1>4 DEF EndCycle, PlanDone, TypeOK
<1>5. CASE BeginTx(p)
  <2>1. \A f : Rows(f) \cap Open \subseteq Order
    BY DEF Open
  <2> QED BY <1>5, <2>1 DEF BeginTx, TypeOK
<1>6. CASE \E o \in Order : LockRow(p, o)
  BY <1>6 DEF LockRow, TypeOK
<1>7. CASE InsertMatch(p)
  BY <1>7 DEF InsertMatch, TypeOK
<1>8. CASE AlreadyMatched(p) \/ Conflict(p) \/ Deadlock(p) \/ CommitFailed(p)
  <2>1. EndTx(p) /\ UNCHANGED <<status, matches>>
    BY <1>8, FailedTx
  <2>2. PICK q \in Proc \cup {NoProc} : PassLocks(p, q)
    BY <1>8, FailedTx
  <2> QED BY <2>1, <2>2, FinishType DEF EndTx, TypeOK
<1>9. CASE Commit(p)
  <2>1. PICK f \in plan[p] :
           /\ status' = [o \in Order |-> IF o \in Rows(f) THEN "matched" ELSE status[o]]
           /\ matches' = matches \cup {f}
    BY <1>9 DEF Commit
  <2>2. f \in Order \X Order
    BY <2>1 DEF TypeOK
  <2>3. status' \in [Order -> {"absent", "open", "matched"}] /\ matches' \subseteq Order \X Order
    BY <2>1, <2>2 DEF TypeOK
  <2>4. EndTx(p) /\ PassLocks(p, NoProc)
    BY <1>9 DEF Commit, Finish
  <2> QED BY <2>3, <2>4, FinishType DEF EndTx, TypeOK
<1> QED BY <1>1, <1>2, <1>3, <1>4, <1>5, <1>6, <1>7, <1>8, <1>9 DEF MatchCycle, CreateMatch

LEMMA TypeStep == TypeOK /\ [Next]_vars => TypeOK'
<1> SUFFICES ASSUME TypeOK, [Next]_vars PROVE TypeOK'
  OBVIOUS
<1> USE DEF tableVars, cycleVars, Goto
<1>1. ASSUME NEW p \in Proc, NEW o \in Order, InsertOrder(p, o) PROVE TypeOK'
  BY <1>1 DEF InsertOrder, Up, TypeOK
<1>2. ASSUME NEW p \in Proc, MatchCycle(p) PROVE TypeOK'
  BY <1>2, CycleType
<1>3. ASSUME NEW p \in Proc, Crash(p) PROVE TypeOK'
  <2>1. stops' \in 0..MaxStops
    BY <1>3, BookAssumption DEF Crash, TypeOK
  <2> QED BY <1>3, <2>1 DEF Crash, PassLocks, TypeOK
<1>4. ASSUME NEW p \in Proc, Restart(p) PROVE TypeOK'
  <2>1. Fresh \subseteq Key /\ BlobKey \in Key
    BY BookAssumption DEF Fresh
  <2> QED BY <1>4, <2>1 DEF Restart, TypeOK
<1>5. CASE UNCHANGED vars
  BY <1>5 DEF vars, TypeOK
<1> QED BY <1>1, <1>2, <1>3, <1>4, <1>5 DEF Next

\* Every variable of the book keeps its type.
THEOREM BookTypeCorrect == Spec => []TypeOK
BY TypeInit, TypeStep, PTL DEF Spec

-----------------------------------------------------------------------------
(* The invariant behind the book: what the transactions in progress rely on. *)

\* The plan of a process joins orders that cross, and an ask at most once.
PlanSound(p) ==
    /\ \A f \in plan[p] : Crosses(f[1], f[2])
    /\ \A f, g \in plan[p] : f[1] = g[1] => f = g

\* A transaction updates rows of the current pair only; before its commit it has
\* locked both of them.
TxSound(p) ==
    /\ pc[p] \in {"update", "commit"} =>
          \E f \in plan[p] : IsCurrent(p, f) /\ snap[p] \subseteq Rows(f)
    /\ pc[p] = "commit" =>
          \A f \in plan[p] : IsCurrent(p, f) => \A o \in Rows(f) : locked[o] = p

\* A locked row is open: whoever locked it saw it open, and nobody else may change it.
LocksSound == \A o \in Order : locked[o] # NoProc => status[o] = "open"

\* The orders of a match are matched.
FilledMatched == \A m \in matches : status[m[1]] = "matched" /\ status[m[2]] = "matched"

BookInv == /\ TypeOK /\ LocksSound /\ FilledMatched
           /\ \A p \in Proc : PlanSound(p) /\ TxSound(p)

\* The pair a plan has reached is unique.
LEMMA OneCurrent ==
  ASSUME TypeOK, NEW p \in Proc, PlanSound(p),
         NEW f \in plan[p], NEW g \in plan[p], IsCurrent(p, f), IsCurrent(p, g)
  PROVE  f = g
<1>1. f \in Order \X Order /\ g \in Order \X Order
  BY DEF TypeOK
<1>2. f[1] \in Nat /\ g[1] \in Nat /\ f[1] <= g[1] /\ g[1] <= f[1]
  BY <1>1, BookAssumption DEF IsCurrent
<1>3. f[1] = g[1]
  BY <1>2
<1> QED BY <1>3 DEF PlanSound

\* Two rows out of a pair of rows are both of them.
LEMMA BothRows ==
  ASSUME NEW f, NEW S \in SUBSET Rows(f), Cardinality(S) = 2
  PROVE  S = Rows(f)
<1>1. IsFiniteSet({}) /\ Cardinality({}) = 0
  BY FS_EmptySet
<1>2. \A x : Cardinality({x}) = 1
  BY FS_Singleton
<1>3. CASE S = {}
  BY <1>1, <1>3
<1>4. CASE \E x : S = {x}
  BY <1>2, <1>4
<1>5. S = {} \/ (\E x : S = {x}) \/ S = Rows(f)
  BY DEF Rows
<1> QED BY <1>3, <1>4, <1>5

\* What a process relies on does not depend on the steps of the others: they neither
\* touch its locals nor release its locks.
LEMMA Undisturbed ==
  ASSUME TypeOK, NEW q \in Proc, PlanSound(q), TxSound(q),
         plan'[q] = plan[q], pc'[q] = pc[q], snap'[q] = snap[q], form' = form,
         \A o \in Order : locked[o] = q => locked'[o] = q
  PROVE  PlanSound(q)' /\ TxSound(q)'
<1>1. \A f \in plan[q] : Rows(f) \subseteq Order
  BY DEF TypeOK, Rows
<1>2. PlanSound(q)'
  BY DEF PlanSound, Crosses
<1>3. \A f : IsCurrent(q, f)' <=> IsCurrent(q, f)
  BY DEF IsCurrent
<1>4. pc[q] = "commit" => \A f \in plan[q] : IsCurrent(q, f) => \A o \in Rows(f) : locked'[o] = q
  BY <1>1 DEF TxSound
<1> QED BY <1>2, <1>3, <1>4 DEF TxSound, Rows

\* A transaction ends without effect: its process relies on nothing but its plan.
LEMMA FailureKeeps ==
  ASSUME BookInv, NEW p \in Proc, NEW r \in Proc \cup {NoProc},
         EndTx(p), PassLocks(p, r), UNCHANGED <<status, matches>>
  PROVE  /\ LocksSound' /\ FilledMatched'
         /\ \A q \in Proc : PlanSound(q)' /\ TxSound(q)'
<1> USE DEF BookInv
<1>1. LocksSound'
  BY BookAssumption DEF PassLocks, LocksSound
<1>2. FilledMatched'
  BY DEF FilledMatched
<1>3. ASSUME NEW q \in Proc \ {p} PROVE PlanSound(q)' /\ TxSound(q)'
  <2>1. /\ plan'[q] = plan[q] /\ pc'[q] = pc[q] /\ snap'[q] = snap[q] /\ form' = form
        /\ \A o \in Order : locked[o] = q => locked'[o] = q
    BY DEF EndTx, PassLocks, Goto, TypeOK
  <2> QED BY <2>1, Undisturbed
<1>4. plan'[p] \subseteq plan[p] /\ pc'[p] = "plan" /\ form' = form
  BY DEF EndTx, PassLocks, Goto, TypeOK
<1>5. PlanSound(p)' /\ TxSound(p)'
  <2>1. PlanSound(p)
    OBVIOUS
  <2>2. PlanSound(p)'
    BY <1>4, <2>1 DEF PlanSound, Crosses
  <2> QED BY <1>4, <2>2 DEF TxSound
<1> QED BY <1>1, <1>2, <1>3, <1>5

\* At its commit a transaction holds the locks of both rows, and they are open.
LEMMA CommitOpen ==
  ASSUME BookInv, NEW p \in Proc, pc[p] = "commit", NEW f \in plan[p], IsCurrent(p, f)
  PROVE  /\ f \in Order \X Order
         /\ Rows(f) \subseteq Order
         /\ \A o \in Rows(f) : locked[o] = p /\ status[o] = "open"
<1>1. f \in Order \X Order /\ Rows(f) \subseteq Order
  BY DEF BookInv, TypeOK, Rows
<1>2. \A o \in Rows(f) : locked[o] = p
  BY DEF BookInv, TxSound
<1>3. p # NoProc
  BY BookAssumption
<1> QED BY <1>1, <1>2, <1>3 DEF BookInv, LocksSound

\* A commit matches the two rows it has locked and nothing else.
LEMMA CommitKeeps ==
  ASSUME BookInv, NEW p \in Proc, Commit(p)
  PROVE  /\ LocksSound' /\ FilledMatched'
         /\ \A q \in Proc : PlanSound(q)' /\ TxSound(q)'
<1> USE DEF BookInv
<1>0. PICK f \in plan[p] :
         /\ IsCurrent(p, f)
         /\ status' = [o \in Order |-> IF o \in Rows(f) THEN "matched" ELSE status[o]]
         /\ matches' = matches \cup {f}
  BY DEF Commit
<1>1. pc[p] = "commit" /\ Finish(p)
  BY DEF Commit
<1>2. f \in Order \X Order /\ Rows(f) \subseteq Order
      /\ \A o \in Rows(f) : locked[o] = p /\ status[o] = "open"
  BY <1>0, <1>1, CommitOpen
<1>3. LocksSound'
  <2>1. \A o \in Order : locked'[o] = IF locked[o] = p THEN NoProc ELSE locked[o]
    BY <1>1 DEF Finish, PassLocks
  <2>2. \A o \in Order : locked'[o] # NoProc => o \notin Rows(f) /\ locked[o] # NoProc
    BY <1>2, <2>1
  <2> QED BY <1>0, <2>2 DEF LocksSound
<1>4. FilledMatched'
  <2>1. \A m \in matches : m[1] \in Order /\ m[2] \in Order
    BY DEF TypeOK
  <2>2. \A m \in matches : status'[m[1]] = "matched" /\ status'[m[2]] = "matched"
    BY <1>0, <2>1 DEF FilledMatched
  <2>3. status'[f[1]] = "matched" /\ status'[f[2]] = "matched"
    BY <1>0, <1>2 DEF Rows
  <2> QED BY <1>0, <2>2, <2>3 DEF FilledMatched
<1>5. ASSUME NEW q \in Proc \ {p} PROVE PlanSound(q)' /\ TxSound(q)'
  <2>1. /\ plan'[q] = plan[q] /\ pc'[q] = pc[q] /\ snap'[q] = snap[q] /\ form' = form
        /\ \A o \in Order : locked[o] = q => locked'[o] = q
    BY <1>1 DEF Finish, EndTx, PassLocks, Goto, TypeOK
  <2> QED BY <2>1, Undisturbed
<1>6. plan'[p] \subseteq plan[p] /\ pc'[p] = "plan" /\ form' = form
  BY <1>1 DEF Finish, EndTx, PassLocks, Goto, TypeOK
<1>7. PlanSound(p)' /\ TxSound(p)'
  <2>1. PlanSound(p)
    OBVIOUS
  <2>2. PlanSound(p)'
    BY <1>6, <2>1 DEF PlanSound, Crosses
  <2> QED BY <1>6, <2>2 DEF TxSound
<1> QED BY <1>3, <1>4, <1>5, <1>7

\* The invariant survives every step of a match cycle.
LEMMA CycleKeeps ==
  ASSUME BookInv, NEW p \in Proc, MatchCycle(p)
  PROVE  /\ LocksSound' /\ FilledMatched'
         /\ \A q \in Proc : PlanSound(q)' /\ TxSound(q)'
<1> USE DEF tableVars, cycleVars, Goto
<1> DEFINE Kept == /\ LocksSound' /\ FilledMatched'
                   /\ \A q \in Proc : PlanSound(q)' /\ TxSound(q)'
<1>0. TypeOK /\ LocksSound /\ FilledMatched /\ \A q \in Proc : PlanSound(q) /\ TxSound(q)
  BY DEF BookInv
\* Steps that write no table and take no lock only matter to their own process.
<1>a. ASSUME UNCHANGED <<tableVars, locked>>,
             \A q \in Proc \ {p} : plan'[q] = plan[q] /\ pc'[q] = pc[q] /\ snap'[q] = snap[q],
             PlanSound(p)' /\ TxSound(p)'
      PROVE  Kept
  <2>1. LocksSound' /\ FilledMatched'
    BY <1>0, <1>a DEF LocksSound, FilledMatched
  <2>2. \A q \in Proc \ {p} : PlanSound(q)' /\ TxSound(q)'
    BY <1>0, <1>a, Undisturbed
  <2> QED BY <1>a, <2>1, <2>2
<1>b. ASSUME UNCHANGED <<plan, form>> PROVE PlanSound(p)'
  BY <1>0, <1>b DEF PlanSound, Crosses
<1>1. CASE OpenPairs(p) \/ EndCycle(p) \/ PlanDone(p) \/ \E x \in todo[p] : LoadFailed(p, x)
  <2>1. /\ UNCHANGED <<tableVars, locked, plan, snap>>
        /\ \A q \in Proc \ {p} : pc'[q] = pc[q]
        /\ pc'[p] \in {"pairs", "idle"}
    BY <1>0, <1>1 DEF OpenPairs, EndCycle, PlanDone, LoadFailed, TypeOK
  <2>2. TxSound(p)'
    BY <2>1 DEF TxSound
  <2> QED BY <1>a, <1>b, <2>1, <2>2
<1>2. CASE \E x \in todo[p] : PairOrders(p, x)
  <2>1. PICK x \in todo[p] : PairOrders(p, x)
    BY <1>2
  <2>2. /\ UNCHANGED <<tableVars, locked, snap>>
        /\ \A q \in Proc \ {p} : pc'[q] = pc[q]
        /\ pc'[p] = "plan"
    BY <1>0, <2>1 DEF PairOrders, TypeOK
  <2>3. \A q \in Proc \ {p} : plan'[q] = plan[q]
    BY <1>0, <2>1, PairingSound
  <2>4. PlanSound(p)'
    <3>1. /\ \A f \in plan'[p] : Crosses(f[1], f[2])
          /\ \A f, g \in plan'[p] : f[1] = g[1] => f = g
      BY <1>0, <2>1, PairingSound
    <3> QED BY <2>2, <3>1 DEF PlanSound, Crosses
  <2>5. TxSound(p)'
    BY <2>2 DEF TxSound
  <2> QED BY <1>a, <2>2, <2>3, <2>4, <2>5
<1>3. CASE BeginTx(p)
  <2>1. PICK f \in plan[p] : IsCurrent(p, f) /\ snap' = [snap EXCEPT ![p] = Rows(f) \cap Open]
    BY <1>3 DEF BeginTx
  <2>2. /\ UNCHANGED <<tableVars, locked, plan>>
        /\ \A q \in Proc \ {p} : pc'[q] = pc[q] /\ snap'[q] = snap[q]
        /\ pc'[p] = "update" /\ snap'[p] \subseteq Rows(f)
    BY <1>0, <1>3, <2>1 DEF BeginTx, TypeOK
  <2>3. TxSound(p)'
    BY <2>1, <2>2 DEF TxSound, IsCurrent, Rows
  <2> QED BY <1>a, <1>b, <2>2, <2>3
<1>4. CASE \E o \in Order : LockRow(p, o)
  <2>1. PICK o \in Order : LockRow(p, o)
    BY <1>4
  <2>2. /\ UNCHANGED <<tableVars, cycleVars>>
        /\ locked[o] = NoProc /\ status[o] = "open" /\ locked' = [locked EXCEPT ![o] = p]
    BY <2>1 DEF LockRow
  <2>3. LocksSound' /\ FilledMatched'
    BY <1>0, <2>2 DEF LocksSound, FilledMatched, TypeOK
  <2>4. ASSUME NEW q \in Proc PROVE PlanSound(q)' /\ TxSound(q)'
    <3>1. \A k \in Order : locked[k] = q => locked'[k] = q
      BY <1>0, <2>2, BookAssumption DEF TypeOK
    <3> QED BY <1>0, <2>2, <3>1, Undisturbed
  <2> QED BY <2>3, <2>4
<1>5. CASE InsertMatch(p)
  <2>1. /\ UNCHANGED <<tableVars, locked, plan, snap>>
        /\ \A q \in Proc \ {p} : pc'[q] = pc[q]
        /\ pc[p] = "update" /\ pc'[p] = "commit"
        /\ Cardinality(snap[p]) = 2 /\ \A o \in snap[p] : locked[o] = p
    BY <1>0, <1>5 DEF InsertMatch, TypeOK
  <2>2. PICK f \in plan[p] : IsCurrent(p, f) /\ snap[p] \subseteq Rows(f)
    BY <1>0, <2>1 DEF TxSound
  <2>3. snap[p] = Rows(f)
    BY <2>1, <2>2, BothRows
  <2>4. \A g \in plan[p] : IsCurrent(p, g) => g = f
    BY <1>0, <2>2, OneCurrent
  <2>5. TxSound(p)'
    BY <2>1, <2>2, <2>3, <2>4 DEF TxSound, IsCurrent, Rows
  <2> QED BY <1>a, <1>b, <2>1, <2>5
<1>6. CASE AlreadyMatched(p) \/ Conflict(p) \/ Deadlock(p) \/ CommitFailed(p)
  <2>1. EndTx(p) /\ UNCHANGED <<status, matches>>
    BY <1>6, FailedTx
  <2>2. PICK q \in Proc \cup {NoProc} : PassLocks(p, q)
    BY <1>6, FailedTx
  <2> QED BY <2>1, <2>2, FailureKeeps
<1>7. CASE Commit(p)
  BY <1>7, CommitKeeps
<1> QED BY <1>1, <1>2, <1>3, <1>4, <1>5, <1>6, <1>7 DEF MatchCycle, CreateMatch

LEMMA BookInvInit == Init => BookInv
BY TypeInit DEF Init, BookInv, LocksSound, FilledMatched, PlanSound, TxSound

LEMMA BookInvStep == BookInv /\ [Next]_vars => BookInv'
<1> SUFFICES ASSUME BookInv, [Next]_vars
             PROVE  /\ LocksSound' /\ FilledMatched'
                    /\ \A q \in Proc : PlanSound(q)' /\ TxSound(q)'
  BY TypeStep DEF BookInv
<1> USE DEF tableVars, cycleVars, Goto
<1> DEFINE Kept == /\ LocksSound' /\ FilledMatched'
                   /\ \A q \in Proc : PlanSound(q)' /\ TxSound(q)'
<1>0. TypeOK /\ LocksSound /\ FilledMatched /\ \A q \in Proc : PlanSound(q) /\ TxSound(q)
  BY DEF BookInv
<1>1. ASSUME NEW p \in Proc, NEW o \in Order, InsertOrder(p, o) PROVE Kept
  <2>1. /\ UNCHANGED <<form, matches, locked, cycleVars>>
        /\ status[o] = "absent" /\ status' = [status EXCEPT ![o] = "open"]
    BY <1>1 DEF InsertOrder
  <2>2. LocksSound'
    BY <1>0, <2>1 DEF LocksSound, TypeOK
  <2>3. FilledMatched'
    BY <1>0, <2>1 DEF FilledMatched, TypeOK
  <2>4. \A q \in Proc : PlanSound(q)' /\ TxSound(q)'
    BY <1>0, <2>1, Undisturbed
  <2> QED BY <2>2, <2>3, <2>4
<1>2. ASSUME NEW p \in Proc, MatchCycle(p) PROVE Kept
  BY <1>2, CycleKeeps
<1>3. ASSUME NEW p \in Proc, Crash(p) PROVE Kept
  <2>1. LocksSound' /\ FilledMatched'
    BY <1>0, <1>3 DEF Crash, PassLocks, LocksSound, FilledMatched
  <2>2. \A q \in Proc \ {p} : PlanSound(q)' /\ TxSound(q)'
    <3>1. SUFFICES ASSUME NEW q \in Proc \ {p} PROVE PlanSound(q)' /\ TxSound(q)'
      OBVIOUS
    <3>2. /\ plan'[q] = plan[q] /\ pc'[q] = pc[q] /\ snap'[q] = snap[q] /\ form' = form
          /\ \A o \in Order : locked[o] = q => locked'[o] = q
      BY <1>0, <1>3 DEF Crash, PassLocks, TypeOK
    <3> QED BY <1>0, <3>2, Undisturbed
  <2>3. plan'[p] = {} /\ pc'[p] = "idle"
    BY <1>0, <1>3 DEF Crash, TypeOK
  <2>4. PlanSound(p)' /\ TxSound(p)'
    BY <2>3 DEF PlanSound, TxSound
  <2> QED BY <2>1, <2>2, <2>4
<1>4. ASSUME NEW p \in Proc, Restart(p) PROVE Kept
  <2>1. UNCHANGED <<tableVars, locked, cycleVars>>
    BY <1>4 DEF Restart
  <2>2. LocksSound' /\ FilledMatched'
    BY <1>0, <2>1 DEF LocksSound, FilledMatched
  <2> QED BY <1>0, <2>1, <2>2, Undisturbed
<1>5. CASE UNCHANGED vars
  <2>1. LocksSound' /\ FilledMatched'
    BY <1>0, <1>5 DEF vars, LocksSound, FilledMatched
  <2> QED BY <1>0, <1>5, <2>1, Undisturbed DEF vars
<1> QED BY <1>1, <1>2, <1>3, <1>4, <1>5 DEF Next

LEMMA BookInvariant == Spec => []BookInv
BY BookInvInit, BookInvStep, PTL DEF Spec

\* The UNIQUE constraints of matches are never what stops a transaction: one that
\* reaches its insert holds the locks of two open orders, and those are in no match.
THEOREM BackstopIdleAlways == Spec => []BackstopIdle
<1>1. BookInv => BackstopIdle
  <2> SUFFICES ASSUME BookInv, NEW p \in Proc, pc[p] = "commit",
                      NEW f \in plan[p], NEW m \in matches, IsCurrent(p, f)
               PROVE  Rows(f) \cap Rows(m) = {}
    BY DEF BackstopIdle
  <2>1. \A o \in Rows(f) : status[o] = "open"
    BY CommitOpen
  <2>2. \A o \in Rows(m) : status[o] = "matched"
    BY DEF BookInv, FilledMatched, Rows
  <2> QED BY <2>1, <2>2
<1> QED BY <1>1, BookInvariant, PTL

-----------------------------------------------------------------------------
(* What the pairing computes, for any orders. *)

\* The natural numbers are well-ordered: what makes an argument by the first order
\* that goes wrong one by induction.
LEMMA LeastNatural ==
  ASSUME NEW T \in SUBSET Nat, T # {}
  PROVE  \E n \in T : \A m \in T : n <= m
<1> DEFINE Less == OpToRel(<, Nat)
<1>1. IsWellFoundedOn(Less, Nat)
  BY NatLessThanWellFounded
<1>2. \A x, y \in Nat : <<y, x>> \in Less <=> y < x
  BY DEF OpToRel
<1> HIDE DEF Less
<1>3. PICK n \in T : \A m \in T : <<m, n>> \notin Less
  BY <1>1, WFMin
<1>4. n \in Nat /\ \A m \in T : m \in Nat /\ ~(m < n)
  BY <1>2, <1>3
<1> QED BY <1>3, <1>4

\* The bids an ask may still take.
Free(S, pick, a) ==
    {b \in S : Crosses(a, b) /\ \A c \in DOMAIN pick : c < a => pick[c] # b}

LEMMA PairingByFree ==
  ASSUME NEW S, NEW pick
  PROVE  IsPairing(S, pick) <=>
            \A a \in DOMAIN pick :
               IF Free(S, pick, a) = {} THEN pick[a] = 0
               ELSE pick[a] \in Free(S, pick, a) /\ \A b \in Free(S, pick, a) : pick[a] <= b
BY DEF IsPairing, Free

Sides(S) == S \in SUBSET Order /\ Asks(S) \subseteq Nat /\ Bids(S) \subseteq Nat \ {0}

LEMMA SidesOf == ASSUME NEW S \in SUBSET Order PROVE Sides(S)
BY BookAssumption DEF Sides, Asks, Bids

\* pairOrders is deterministic, as its comment says: the orders it is given leave no
\* choice of the pairs.
THEOREM PairingUnique ==
  ASSUME NEW S \in SUBSET Order,
         NEW f \in [Asks(S) -> Bids(S) \cup {0}], IsPairing(S, f),
         NEW g \in [Asks(S) -> Bids(S) \cup {0}], IsPairing(S, g)
  PROVE  f = g
<1>0. Sides(S)
  BY SidesOf
<1> DEFINE Differ == {a \in Asks(S) : f[a] # g[a]}
<1>1. ASSUME Differ # {} PROVE FALSE
  <2>1. PICK a \in Differ : \A c \in Differ : a <= c
    <3>1. Differ \in SUBSET Nat
      BY <1>0 DEF Sides
    <3> HIDE DEF Differ
    <3> QED BY <1>1, <3>1, LeastNatural
  <2>2. a \in Asks(S) /\ f[a] # g[a]
    OBVIOUS
  <2>3. \A c \in Asks(S) : c < a => f[c] = g[c]
    BY <1>0, <2>1 DEF Sides
  <2>4. Free(S, f, a) = Free(S, g, a)
    BY <2>3 DEF Free
  <2>5. \A b \in Free(S, f, a) : b \in Nat
    BY BookAssumption DEF Free
  <2>6. CASE Free(S, f, a) = {}
    BY <2>2, <2>4, <2>6, PairingByFree
  <2>7. CASE Free(S, f, a) # {}
    <3>1. /\ f[a] \in Free(S, f, a) /\ \A b \in Free(S, f, a) : f[a] <= b
          /\ g[a] \in Free(S, f, a) /\ \A b \in Free(S, f, a) : g[a] <= b
      BY <2>2, <2>4, <2>7, PairingByFree
    <3>2. f[a] \in Nat /\ g[a] \in Nat /\ f[a] <= g[a] /\ g[a] <= f[a]
      BY <2>5, <3>1
    <3>3. f[a] = g[a]
      BY <3>2
    <3> QED BY <2>2, <3>3
  <2> QED BY <2>6, <2>7
<1>2. \A a \in Asks(S) : f[a] = g[a]
  BY <1>1
<1> QED BY <1>2

\* Induction, over a set of numbers.
LEMMA NumbersByInduction ==
  ASSUME NEW T \in SUBSET Nat, 0 \in T, \A n \in T : n + 1 \in T
  PROVE  T = Nat
<1>1. ASSUME Nat \ T # {} PROVE FALSE
  <2>1. PICK n \in Nat \ T : \A m \in Nat \ T : n <= m
    BY <1>1, LeastNatural
  <2>2. n \in Nat /\ n # 0 /\ n \notin T
    OBVIOUS
  <2>3. n - 1 \in Nat /\ ~(n <= n - 1)
    BY <2>2
  <2>4. n - 1 \in T
    BY <2>1, <2>3
  <2>5. (n - 1) + 1 = n
    BY <2>2
  <2> QED BY <2>2, <2>4, <2>5
<1> QED BY <1>1

\* The elements of a finite set of numbers are below some number.
LEMMA FiniteBounded ==
  ASSUME NEW S \in SUBSET Nat, IsFiniteSet(S)
  PROVE  \E n \in Nat : \A a \in S : a < n
<1>1. PICK k \in Nat : \E f \in Surjection(1..k, S) : TRUE
  BY FS_NatSurjection DEF ExistsSurjection
<1>2. PICK f \in [1..k -> S] : \A a \in S : \E i \in 1..k : f[i] = a
  BY <1>1 DEF Surjection
<1>3. \A j \in 1..k : f[j] \in Nat
  BY <1>2
<1> DEFINE BoundedTo(i) == \E n \in Nat : \A j \in 1..k : j <= i => f[j] < n
<1> DEFINE T == {i \in Nat : BoundedTo(i)}
<1>4. BoundedTo(0)
  <2>1. \A j \in 1..k : ~(j <= 0)
    OBVIOUS
  <2> QED BY <2>1
<1>5. ASSUME NEW i \in Nat, BoundedTo(i) PROVE BoundedTo(i + 1)
  <2>1. PICK n \in Nat : \A j \in 1..k : j <= i => f[j] < n
    BY <1>5
  <2>2. CASE i + 1 \in 1..k
    <3>1. PICK m \in Nat : n <= m /\ f[i + 1] < m
      <4>1. f[i + 1] \in Nat
        BY <1>3, <2>2
      <4>2. CASE f[i + 1] < n
        BY <4>2
      <4>3. CASE ~(f[i + 1] < n)
        <5>1. f[i + 1] + 1 \in Nat /\ n <= f[i + 1] + 1 /\ f[i + 1] < f[i + 1] + 1
          BY <4>1, <4>3
        <5> QED BY <5>1
      <4> QED BY <4>2, <4>3
    <3>2. ASSUME NEW j \in 1..k, j <= i + 1 PROVE f[j] < m
      <4>1. j <= i \/ j = i + 1
        BY <3>2
      <4> QED BY <1>3, <2>1, <3>1, <4>1
    <3> QED BY <3>2
  <2>3. CASE i + 1 \notin 1..k
    <3>1. \A j \in 1..k : j <= i + 1 => j <= i
      BY <2>3
    <3> QED BY <2>1, <3>1
  <2> QED BY <2>2, <2>3
<1> HIDE DEF BoundedTo
<1>6. T = Nat
  <2>1. T \in SUBSET Nat /\ 0 \in T /\ \A i \in T : i + 1 \in T
    BY <1>4, <1>5
  <2> HIDE DEF T
  <2> QED BY <2>1, NumbersByInduction
<1>7. BoundedTo(k)
  BY <1>6
<1>8. PICK n \in Nat : \A j \in 1..k : j <= k => f[j] < n
  BY <1>7 DEF BoundedTo
<1> QED BY <1>2, <1>8

Below(S, n) == {a \in Asks(S) : a < n}

\* One more round of the loop over the asks.
LEMMA PairingGrows ==
  ASSUME NEW S \in SUBSET Order, NEW n \in Nat,
         NEW h \in [Below(S, n) -> Bids(S) \cup {0}], IsPairing(S, h)
  PROVE  \E pick \in [Below(S, n + 1) -> Bids(S) \cup {0}] : IsPairing(S, pick)
<1>0. Sides(S)
  BY SidesOf
<1>1. CASE n \notin Asks(S)
  <2>1. Below(S, n + 1) = Below(S, n)
    BY <1>0, <1>1 DEF Below, Sides
  <2> QED BY <2>1
<1>2. CASE n \in Asks(S)
  <2>1. /\ n \notin Below(S, n)
        /\ \A a \in Below(S, n) : a \in Nat /\ a < n
        /\ \A a : a \in Below(S, n + 1) <=> a \in Below(S, n) \/ a = n
    BY <1>0, <1>2 DEF Below, Sides
  <2>2. Free(S, h, n) \in SUBSET Nat /\ Free(S, h, n) \subseteq Bids(S)
    BY BookAssumption DEF Free, Bids, Crosses
  <2>3. PICK v \in Bids(S) \cup {0} :
           IF Free(S, h, n) = {} THEN v = 0
           ELSE v \in Free(S, h, n) /\ \A b \in Free(S, h, n) : v <= b
    BY <2>2, LeastNatural
  <2> DEFINE pick == [a \in Below(S, n + 1) |-> IF a = n THEN v ELSE h[a]]
  <2>4. /\ pick \in [Below(S, n + 1) -> Bids(S) \cup {0}]
        /\ DOMAIN pick = Below(S, n + 1) /\ DOMAIN h = Below(S, n)
        /\ pick[n] = v
        /\ \A a \in Below(S, n) : pick[a] = h[a]
    BY <2>1
  <2> HIDE DEF pick
  <2>5. \A a \in Below(S, n + 1), c \in Below(S, n + 1) : c < a => c \in Below(S, n)
    BY <2>1
  <2>6. ASSUME NEW a \in Below(S, n + 1) PROVE Free(S, pick, a) = Free(S, h, a)
    <3>1. \A b : (\A c \in Below(S, n + 1) : c < a => pick[c] # b)
                  <=> (\A c \in Below(S, n) : c < a => h[c] # b)
      BY <2>1, <2>4, <2>5
    <3> QED BY <2>4, <3>1 DEF Free
  <2>7. ASSUME NEW a \in DOMAIN pick
        PROVE  IF Free(S, pick, a) = {} THEN pick[a] = 0
               ELSE pick[a] \in Free(S, pick, a) /\ \A b \in Free(S, pick, a) : pick[a] <= b
    <3>1. Free(S, pick, a) = Free(S, h, a)
      BY <2>4, <2>6
    <3>2. CASE a = n
      BY <2>3, <2>4, <3>1, <3>2
    <3>3. CASE a \in Below(S, n)
      BY <2>4, <3>1, <3>3, PairingByFree
    <3> QED BY <2>1, <2>4, <3>2, <3>3
  <2>8. IsPairing(S, pick)
    BY <2>7, PairingByFree
  <2> QED BY <2>4, <2>8
<1> QED BY <1>1, <1>2

\* The loops come to an end with a pairing, whatever finite set of orders was loaded.
THEOREM PairingExists ==
  ASSUME NEW S \in SUBSET Order, IsFiniteSet(S)
  PROVE  \E pick \in [Asks(S) -> Bids(S) \cup {0}] : IsPairing(S, pick)
<1>0. Sides(S)
  BY SidesOf
<1> DEFINE Has(n) == \E pick \in [Below(S, n) -> Bids(S) \cup {0}] : IsPairing(S, pick)
<1> DEFINE T == {n \in Nat : Has(n)}
<1>1. Has(0)
  <2>1. Below(S, 0) = {}
    BY <1>0 DEF Below, Sides
  <2>2. [a \in {} |-> 0] \in [Below(S, 0) -> Bids(S) \cup {0}]
    BY <2>1
  <2>3. IsPairing(S, [a \in {} |-> 0])
    BY DEF IsPairing
  <2> QED BY <2>2, <2>3
<1>2. \A n \in Nat : Has(n) => Has(n + 1)
  BY PairingGrows
<1> HIDE DEF Has
<1>3. T \in SUBSET Nat /\ 0 \in T /\ \A n \in T : n + 1 \in T
  BY <1>1, <1>2
<1>4. \A n \in Nat : Has(n)
  <2>1. T = Nat
    <3> HIDE DEF T
    <3> QED BY <1>3, NumbersByInduction
  <2> QED BY <2>1
<1>5. PICK n \in Nat : \A a \in S : a < n
  <2>1. S \in SUBSET Nat
    BY BookAssumption
  <2> QED BY <2>1, FiniteBounded
<1>6. Below(S, n) = Asks(S)
  BY <1>5 DEF Below, Asks
<1>7. Has(n)
  BY <1>4
<1> QED BY <1>6, <1>7 DEF Has

\* The orders in the book are finitely many at any time.
Stored == {o \in Order : status[o] # "absent"}

LEMMA StoredStep == BookInv /\ IsFiniteSet(Stored) /\ [Next]_vars => IsFiniteSet(Stored)'
<1> SUFFICES ASSUME BookInv, IsFiniteSet(Stored), [Next]_vars PROVE IsFiniteSet(Stored')
  OBVIOUS
<1> USE DEF tableVars, cycleVars
<1>0. TypeOK
  BY DEF BookInv
<1>1. ASSUME Stored' \subseteq Stored PROVE IsFiniteSet(Stored')
  BY <1>1, FS_Subset
<1>2. ASSUME NEW p \in Proc, NEW o \in Order, InsertOrder(p, o) PROVE IsFiniteSet(Stored')
  <2>1. Stored' = Stored \cup {o}
    BY <1>0, <1>2 DEF InsertOrder, Stored, TypeOK
  <2> QED BY <2>1, FS_AddElement
<1>3. ASSUME NEW p \in Proc, MatchCycle(p) PROVE Stored' \subseteq Stored
  <2>1. CASE AlreadyMatched(p) \/ Conflict(p) \/ Deadlock(p) \/ CommitFailed(p)
    BY <2>1, FailedTx DEF Stored
  <2>2. CASE Commit(p)
    <3>1. PICK f \in plan[p] :
             /\ IsCurrent(p, f)
             /\ status' = [o \in Order |-> IF o \in Rows(f) THEN "matched" ELSE status[o]]
      BY <2>2 DEF Commit
    <3>2. \A o \in Rows(f) : status[o] = "open"
      BY <2>2, <3>1, CommitOpen DEF Commit
    <3> QED BY <3>1, <3>2 DEF Stored
  <2>3. CASE ~(AlreadyMatched(p) \/ Conflict(p) \/ Deadlock(p) \/ CommitFailed(p) \/ Commit(p))
    BY <1>3, <2>3 DEF MatchCycle, CreateMatch, OpenPairs, PairOrders, LoadFailed, EndCycle,
                      PlanDone, BeginTx, LockRow, InsertMatch, Stored
  <2> QED BY <2>1, <2>2, <2>3
<1>4. ASSUME NEW p \in Proc, Crash(p) \/ Restart(p) PROVE Stored' \subseteq Stored
  BY <1>4 DEF Crash, Restart, Stored
<1>5. CASE UNCHANGED vars
  BY <1>5 DEF vars, Stored
<1> QED
  <2>1. ASSUME NEW p \in Proc, Crash(p) \/ Restart(p) PROVE IsFiniteSet(Stored')
    BY <1>1, <1>4, <2>1
  <2>2. ASSUME NEW p \in Proc, MatchCycle(p) PROVE IsFiniteSet(Stored')
    BY <1>1, <1>3, <2>2
  <2>3. CASE UNCHANGED vars
    BY <1>1, <1>5, <2>3
  <2> QED BY <1>2, <2>1, <2>2, <2>3 DEF Next

\* Whatever a cycle has loaded, pairOrders returns, and there is one result it can return:
\* IsPairing, which states what the loops compute, is a function of the orders.
PairingDefined ==
    \A p \in Proc, x \in Nat :
       LET S == OpenOrdersByPair(p, x)
           Results == [Asks(S) -> Bids(S) \cup {0}]
       IN  \E f \in Results : \A g \in Results : IsPairing(S, g) <=> g = f

\* pairOrders is "pure and deterministic": on no book that a cycle can load does it have
\* no result, or more than one.
THEOREM PairingAlwaysDefined == Spec => []PairingDefined
<1>1. Init => IsFiniteSet(Stored)
  <2>1. Init => Stored = {}
    BY DEF Init, Stored
  <2> QED BY <2>1, FS_EmptySet
<1>2. IsFiniteSet(Stored) => PairingDefined
  <2> SUFFICES ASSUME IsFiniteSet(Stored), NEW p \in Proc, NEW x \in Nat
               PROVE  \E f \in [Asks(OpenOrdersByPair(p, x)) -> Bids(OpenOrdersByPair(p, x)) \cup {0}] :
                         \A g \in [Asks(OpenOrdersByPair(p, x)) -> Bids(OpenOrdersByPair(p, x)) \cup {0}] :
                            IsPairing(OpenOrdersByPair(p, x), g) <=> g = f
    BY DEF PairingDefined
  <2> DEFINE S == OpenOrdersByPair(p, x)
  <2>1. S \subseteq Stored /\ S \in SUBSET Order
    BY DEF OpenOrdersByPair, Open, Stored
  <2>2. IsFiniteSet(S)
    BY <2>1, FS_Subset
  <2> HIDE DEF S
  <2>3. PICK f \in [Asks(S) -> Bids(S) \cup {0}] : IsPairing(S, f)
    BY <2>1, <2>2, PairingExists
  <2>4. \A g \in [Asks(S) -> Bids(S) \cup {0}] : IsPairing(S, g) <=> g = f
    BY <2>1, <2>3, PairingUnique
  <2> QED BY <2>3, <2>4 DEF S
<1>3. Spec => []IsFiniteSet(Stored)
  BY <1>1, StoredStep, BookInvariant, PTL DEF Spec
<1> QED BY <1>2, <1>3, PTL

\* Two asks never get the same bid.
LEMMA BidsTakenOnce ==
  ASSUME NEW S \in SUBSET Order, NEW pick \in [Asks(S) -> Bids(S) \cup {0}], IsPairing(S, pick),
         NEW a \in Asks(S), NEW c \in Asks(S), pick[a] # 0, pick[a] = pick[c]
  PROVE  a = c
<1>1. \A d, e \in Asks(S) : d < e => pick[e] = 0 \/ pick[e] # pick[d]
  <2>1. SUFFICES ASSUME NEW d \in Asks(S), NEW e \in Asks(S), d < e, pick[e] # 0
                 PROVE  pick[e] # pick[d]
    OBVIOUS
  <2>2. pick[e] \in Free(S, pick, e)
    BY <2>1, PairingByFree
  <2> QED BY <2>1, <2>2 DEF Free
<1>2. a \in Nat /\ c \in Nat
  BY SidesOf DEF Sides
<1>3. ~(a < c) /\ ~(c < a)
  BY <1>1
<1> QED BY <1>2, <1>3

\* The pairs that a cycle plans from what it has loaded.
LEMMA PlanIsStable ==
  ASSUME TypeOK, NEW p \in Proc, NEW x \in todo[p], PairOrders(p, x)
  PROVE  LET S == OpenOrdersByPair(p, x) IN
         /\ \A f \in plan'[p] : Rows(f) \subseteq S
         /\ \A f, g \in plan'[p] : Rows(f) \cap Rows(g) # {} => f = g
         /\ \A a, b \in S : Crosses(a, b) =>
               \E f \in plan'[p] : \/ f[1] = a /\ f[2] <= b
                                   \/ f[2] = b /\ f[1] <= a
<1> DEFINE S == OpenOrdersByPair(p, x)
<1>1. S \in SUBSET Order
  BY DEF OpenOrdersByPair, Open
<1>2. PICK pick \in [Asks(S) -> Bids(S) \cup {0}] :
         /\ IsPairing(S, pick)
         /\ plan' = [plan EXCEPT ![p] = {<<a, pick[a]>> : a \in {c \in Asks(S) : pick[c] # 0}}]
  BY DEF PairOrders
<1>3. plan'[p] = {<<a, pick[a]>> : a \in {c \in Asks(S) : pick[c] # 0}}
  BY <1>2 DEF TypeOK
<1> HIDE DEF S
<1>4. \A a \in Asks(S) : pick[a] # 0 => pick[a] \in Bids(S)
  OBVIOUS
<1>5. Asks(S) \subseteq S /\ Bids(S) \subseteq S /\ Asks(S) \cap Bids(S) = {}
  BY DEF Asks, Bids
<1>6. ASSUME NEW f \in plan'[p] PROVE Rows(f) \subseteq S
  BY <1>3, <1>4, <1>5 DEF Rows
<1>7. ASSUME NEW f \in plan'[p], NEW g \in plan'[p], Rows(f) \cap Rows(g) # {} PROVE f = g
  <2>1. PICK a \in Asks(S) : f = <<a, pick[a]>> /\ pick[a] \in Bids(S)
    BY <1>3, <1>4
  <2>2. PICK c \in Asks(S) : g = <<c, pick[c]>> /\ pick[c] \in Bids(S)
    BY <1>3, <1>4
  <2>3. a = c \/ pick[a] = pick[c]
    BY <1>5, <1>7, <2>1, <2>2 DEF Rows
  <2>4. pick[a] # 0
    BY <1>1, <2>1, SidesOf DEF Sides
  <2>5. a = c
    BY <1>1, <1>2, <2>3, <2>4, BidsTakenOnce
  <2> QED BY <2>1, <2>2, <2>5
<1>8. ASSUME NEW a \in S, NEW b \in S, Crosses(a, b)
      PROVE  \E f \in plan'[p] : \/ f[1] = a /\ f[2] <= b
                                 \/ f[2] = b /\ f[1] <= a
  <2>1. a \in Asks(S) /\ a \in Nat /\ b \in Nat \ {0}
    BY <1>1, <1>8, BookAssumption DEF Asks, Crosses
  <2>2. CASE b \in Free(S, pick, a)
    <3>1. pick[a] \in Free(S, pick, a) /\ pick[a] <= b
      BY <1>2, <2>1, <2>2, PairingByFree
    <3>2. pick[a] # 0
      BY <1>1, <3>1, BookAssumption DEF Free
    <3>3. <<a, pick[a]>> \in plan'[p]
      BY <1>3, <2>1, <3>2
    <3> QED BY <3>1, <3>3
  <2>3. CASE b \notin Free(S, pick, a)
    <3>1. PICK c \in Asks(S) : c < a /\ pick[c] = b
      BY <1>8, <2>3 DEF Free
    <3>2. c \in Nat /\ c <= a
      BY <1>1, <2>1, <3>1, SidesOf DEF Sides
    <3>3. <<c, b>> \in plan'[p]
      BY <1>3, <2>1, <3>1
    <3> QED BY <3>2, <3>3
  <2> QED BY <2>2, <2>3
<1> QED BY <1>6, <1>7, <1>8 DEF S

\* The only step to "plan" from "pairs" is the pairing of one asset pair.
LEMMA OnlyPairOrdersPlans ==
  ASSUME TypeOK, [Next]_vars, NEW p \in Proc, pc[p] = "pairs", pc'[p] = "plan"
  PROVE  \E x \in todo[p] : PairOrders(p, x)
<1> USE DEF tableVars, cycleVars, Goto
<1>0. pc \in [Proc -> {"idle", "pairs", "plan", "update", "commit"}]
  BY DEF TypeOK
<1>1. ASSUME NEW q \in Proc, NEW o \in Order, InsertOrder(q, o) PROVE FALSE
  BY <1>1 DEF InsertOrder
<1>2. ASSUME NEW q \in Proc, Crash(q) \/ Restart(q) PROVE FALSE
  BY <1>0, <1>2 DEF Crash, Restart
<1>3. CASE UNCHANGED vars
  BY <1>3 DEF vars
<1>4. ASSUME NEW q \in Proc, MatchCycle(q), q # p PROVE FALSE
  <2>1. CASE AlreadyMatched(q) \/ Conflict(q) \/ Deadlock(q) \/ CommitFailed(q)
    BY <1>0, <1>4, <2>1, FailedTx DEF EndTx
  <2>2. CASE ~(AlreadyMatched(q) \/ Conflict(q) \/ Deadlock(q) \/ CommitFailed(q))
    BY <1>0, <1>4, <2>2 DEF MatchCycle, CreateMatch, OpenPairs, PairOrders, LoadFailed, EndCycle,
                      PlanDone, BeginTx, LockRow, InsertMatch, Commit, Finish, EndTx
  <2> QED BY <2>1, <2>2
<1>5. ASSUME MatchCycle(p), ~(\E x \in todo[p] : PairOrders(p, x)) PROVE FALSE
  <2>1. CASE CreateMatch(p)
    <3>1. ~Deadlock(p)
      BY DEF Deadlock, WaitsFor
    <3> QED BY <2>1, <3>1 DEF CreateMatch, BeginTx, LockRow, InsertMatch, AlreadyMatched,
                              Conflict, Commit, CommitFailed
  <2>2. CASE ~CreateMatch(p)
    BY <1>0, <1>5, <2>2 DEF MatchCycle, OpenPairs, LoadFailed, EndCycle, PlanDone
  <2> QED BY <2>1, <2>2
<1> QED BY <1>1, <1>2, <1>3, <1>4, <1>5 DEF Next

\* No cycle misses a pair among what it has loaded, and no order is overtaken.
THEOREM PairingStableAlways == Spec => PairingStable
<1> DEFINE Stable ==
      \A p \in Proc : pc[p] = "pairs" /\ pc'[p] = "plan" =>
          \E x \in todo[p] \ todo'[p] :
             LET S == OpenOrdersByPair(p, x) IN
             /\ \A f \in plan'[p] : Rows(f) \subseteq S
             /\ \A f, g \in plan'[p] : Rows(f) \cap Rows(g) # {} => f = g
             /\ \A a, b \in S : Crosses(a, b) =>
                   \E f \in plan'[p] : \/ f[1] = a /\ f[2] <= b
                                       \/ f[2] = b /\ f[1] <= a
<1>1. TypeOK /\ [Next]_vars => [Stable]_vars
  <2> SUFFICES ASSUME TypeOK, [Next]_vars, NEW p \in Proc, pc[p] = "pairs", pc'[p] = "plan"
               PROVE  \E x \in todo[p] \ todo'[p] :
                         LET S == OpenOrdersByPair(p, x) IN
                         /\ \A f \in plan'[p] : Rows(f) \subseteq S
                         /\ \A f, g \in plan'[p] : Rows(f) \cap Rows(g) # {} => f = g
                         /\ \A a, b \in S : Crosses(a, b) =>
                               \E f \in plan'[p] : \/ f[1] = a /\ f[2] <= b
                                                   \/ f[2] = b /\ f[1] <= a
    OBVIOUS
  <2>1. PICK x \in todo[p] : PairOrders(p, x)
    BY OnlyPairOrdersPlans
  <2>2. x \in todo[p] \ todo'[p]
    BY <2>1 DEF PairOrders, TypeOK
  <2> QED BY <2>1, <2>2, PlanIsStable
<1> QED BY <1>1, BookTypeCorrect, PTL DEF Spec, PairingStable

-----------------------------------------------------------------------------
(* The book implements FullFill. *)

\* Every step rests one order, fills one pair, or is none of the book's business.
LEMMA FullFillStep == BookInv /\ [Next]_vars => [Book!Next]_(Book!vars)
<1> SUFFICES ASSUME BookInv, [Next]_vars PROVE [Book!Next]_(Book!vars)
  OBVIOUS
<1> USE DEF tableVars, cycleVars
<1>0. TypeOK /\ FilledMatched
  BY DEF BookInv
<1>a. ASSUME UNCHANGED <<form, status, matches>> PROVE UNCHANGED Book!vars
  BY <1>a DEF Book!vars, Open
<1>1. ASSUME NEW p \in Proc, NEW o \in Order, InsertOrder(p, o) PROVE Book!Next
  <2>1. /\ UNCHANGED <<form, matches>>
        /\ status[o] = "absent" /\ status' = [status EXCEPT ![o] = "open"]
    BY <1>1 DEF InsertOrder
  <2>2. Open' = Open \cup {o}
    BY <1>0, <2>1 DEF Open, TypeOK
  <2>3. Book!IsNew(o)
    BY <1>0, <2>1 DEF Book!IsNew, FilledMatched, Open
  <2> QED BY <2>1, <2>2, <2>3 DEF Book!Next, Book!Rest
<1>2. ASSUME NEW p \in Proc, Commit(p) PROVE Book!Next
  <2>1. PICK f \in plan[p] :
           /\ IsCurrent(p, f)
           /\ status' = [o \in Order |-> IF o \in Rows(f) THEN "matched" ELSE status[o]]
           /\ matches' = matches \cup {f}
    BY <1>2 DEF Commit
  <2>2. pc[p] = "commit" /\ UNCHANGED form
    BY <1>2 DEF Commit, Finish, EndTx
  <2>3. /\ f \in Order \X Order
        /\ \A o \in Rows(f) : status[o] = "open"
    BY <2>1, <2>2, CommitOpen
  <2>4. PICK a \in Order, b \in Order : f = <<a, b>>
    BY <2>3
  <2>5. {a, b} \subseteq Open
    BY <2>3, <2>4 DEF Rows, Open
  <2>6. Crosses(a, b)
    BY <2>1, <2>4 DEF BookInv, PlanSound
  <2>7. Satisfies(form[a], form[b])
    BY <2>6 DEF Crosses, Satisfies
  <2>8. Open' = Open \ {a, b}
    BY <2>1, <2>4 DEF Rows, Open
  <2>9. Book!Fill(a, b)
    BY <2>1, <2>2, <2>4, <2>5, <2>7, <2>8 DEF Book!Fill
  <2> QED BY <2>9 DEF Book!Next
<1>3. ASSUME NEW p \in Proc, MatchCycle(p), ~Commit(p) PROVE UNCHANGED <<form, status, matches>>
  <2>1. CASE AlreadyMatched(p) \/ Conflict(p) \/ Deadlock(p) \/ CommitFailed(p)
    BY <2>1, FailedTx DEF EndTx
  <2>2. CASE ~(AlreadyMatched(p) \/ Conflict(p) \/ Deadlock(p) \/ CommitFailed(p))
    BY <1>3, <2>2 DEF MatchCycle, CreateMatch, OpenPairs, PairOrders, LoadFailed, EndCycle,
                      PlanDone, BeginTx, LockRow, InsertMatch
  <2> QED BY <2>1, <2>2
<1>4. ASSUME NEW p \in Proc, Crash(p) \/ Restart(p) PROVE UNCHANGED <<form, status, matches>>
  BY <1>4 DEF Crash, Restart
<1>5. CASE UNCHANGED vars
  BY <1>a, <1>5 DEF vars
<1> QED BY <1>a, <1>1, <1>2, <1>3, <1>4, <1>5 DEF Next

\* However processes interleave, fail and die: every order is filled wholly and once,
\* against one with which it satisfies the circuit.
THEOREM BookImplementsFullFill == Spec => ImplementsFullFill
<1>1. Init => Book!Init
  BY DEF Init, Book!Init, Open
<1> QED BY <1>1, FullFillStep, BookInvariant, PTL DEF Spec, ImplementsFullFill, Book!Spec
=============================================================================
