--------------------------- MODULE Screens_proofs ---------------------------
(***************************************************************************)
(* Proofs about Screens, for any orders, pages, polls and limits.  What a  *)
(* page shows and what is on its way to it was true when the engine said   *)
(* so; the engine never takes back what a page can show.                   *)
(***************************************************************************)
EXTENDS Screens, FiniteSetTheorems, TLAPS

-----------------------------------------------------------------------------
(* The invariant.                                                           *)

\* A matched order and its match are known, and a match has a row for good; a
\* settlement is attempted of proven matches only.
EngineInv ==
    /\ \A i \in Id : match[i] # 0 =>
          i \in Known /\ match[i] \in Known /\ record[match[i]] # None
    /\ \A m \in Id : record[m] # None =>
          /\ match[m] = m
          /\ record[m].chain # "pending" => record[m].proof

\* What a listing says is true.
TrueListing(l) ==
    l # None => \A i \in DOMAIN l :
        /\ i \in Known
        /\ l[i].match # 0 => match[i] = l[i].match
        /\ l[i].status # "open" => match[i] # 0
        /\ l[i].status = "settled" => record[match[i]].chain = "confirmed"

\* What a row says of match m is true, and its parts agree.
TrueRow(m, row) ==
    row # None =>
        /\ m \in Id /\ record[m] # None
        /\ row.proof => record[m].proof
        /\ row.chain = "confirmed" => record[m].chain = "confirmed"
        /\ row.chain # "pending" => row.proof

TrueShown(s) ==
    /\ TrueListing(s.list)
    /\ TrueRow(s.match, s.row)
    /\ s.match # 0 <=> s.row # None

TruePoll(q) ==
    /\ TrueListing(q.list)
    /\ TrueRow(q.match, q.row)
    /\ q.at = "listed" => q.list # None
    /\ q.at \in {"match", "found"} => q.match # 0 /\ record[q.match] # None
    /\ q.at = "found" => q.row # None

ViewInv ==
    /\ active # 0 => active \in Known
    /\ \A k \in Mount : TrueShown(shown[k])
    /\ \A k \in Mount, p \in Polls : TruePoll(polls[k][p])

\* A demo effect sends its counter once; it is the only order of its page.
DemoInv ==
    /\ \A k \in Mount :
          /\ demo[k].at \in {"off", "grace", "asked", "heard"} => demo[k].request = "none"
          /\ demo[k].at # "off" => demo[k].of \in Known /\ demo[k].desk \in Owner
          /\ demo[k].request # "inserted" => \A i \in Known : orders[i].by # k
    /\ \A i, j \in Known : orders[i].by = orders[j].by /\ orders[i].by # 0 => i = j
    /\ Cardinality({i \in Known : orders[i].by = 0}) <= MaxOthers

Inv ==
    /\ TypeOK
    /\ EngineInv
    /\ ViewInv
    /\ DemoInv

-----------------------------------------------------------------------------
(* The engine.                                                              *)

LEMMA Bounds ==
    /\ MaxOrders \in Nat /\ MaxMounts \in Nat /\ MaxOthers \in Nat
    /\ Id \subseteq Nat \ {0} /\ Mount \subseteq Nat \ {0}
BY ReadModelAssumption DEF MaxOrders, Id, Mount

LEMMA CountUpTo ==
    ASSUME NEW n \in Nat
    PROVE  IsFiniteSet(1..n) /\ Cardinality(1..n) = n
<1>1. IsFiniteSet(1..n) /\ Cardinality(1..n) = IF 1 > n THEN 0 ELSE n - 1 + 1
  BY FS_Interval
<1>. QED  BY <1>1

\* At most MaxOthers orders that are no counters, and one counter for each
\* page, are at most MaxOrders.
LEMMA OrdersBounded ==
    ASSUME NEW os \in Seq(Order),
           Cardinality({i \in 1..Len(os) : os[i].by = 0}) <= MaxOthers,
           \A i, j \in 1..Len(os) : os[i].by = os[j].by /\ os[i].by # 0 => i = j
    PROVE  Len(os) <= MaxOrders
<1>. DEFINE K == 1..Len(os)
            S == {i \in K : os[i].by = 0}
            T == {i \in K : os[i].by # 0}
            f == [i \in T |-> os[i].by]
<1>1. Len(os) \in Nat /\ \A i \in K : os[i] \in Order
  OBVIOUS
<1>2. IsFiniteSet(K) /\ Cardinality(K) = Len(os)
  BY <1>1, CountUpTo
<1>3. IsFiniteSet(Mount) /\ Cardinality(Mount) = MaxMounts
  BY Bounds, CountUpTo DEF Mount
<1>4. f \in Injection(T, Mount)
  <2>1. \A i \in T : os[i].by \in Mount
    BY <1>1, Bounds DEF Order, Mount
  <2>2. f \in [T -> Mount]
    BY <2>1
  <2>3. IsInjective(f)
    BY DEF IsInjective
  <2>. QED  BY <2>2, <2>3 DEF Injection
<1>5. IsFiniteSet(T) /\ Cardinality(T) <= MaxMounts
  <2>. HIDE DEF f, T
  <2>. QED  BY <1>3, <1>4, FS_Injection
<1>6. IsFiniteSet(S)
  BY <1>2, FS_Subset
<1>7. Cardinality(S \cup T) <= Cardinality(S) + Cardinality(T)
  <2>1. S \cap T = {}
    OBVIOUS
  <2>2. Cardinality(S) \in Nat /\ Cardinality(T) \in Nat
    BY <1>5, <1>6, FS_CardinalityType
  <2>3. Cardinality(S \cup T) = Cardinality(S) + Cardinality(T) - Cardinality(S \cap T)
    <3>. HIDE DEF S, T
    <3>. QED  BY <1>5, <1>6, FS_Union
  <2>4. Cardinality(S \cap T) = 0
    BY <2>1, FS_EmptySet
  <2>. QED  BY <2>2, <2>3, <2>4
<1>8. S \cup T = K
  OBVIOUS
<1>9. Cardinality(S) \in Nat /\ Cardinality(T) \in Nat
  BY <1>5, <1>6, FS_CardinalityType
<1>10. Len(os) <= Cardinality(S) + Cardinality(T)
  BY <1>2, <1>7, <1>8
<1>. QED
  <2>. HIDE DEF S, T
  <2>1. Cardinality(S) <= MaxOthers
    BY DEF S
  <2>. QED  BY <1>1, <1>5, <1>9, <1>10, <2>1, Bounds DEF MaxOrders

\* What no step of the engine takes back.
Later ==
    /\ Known \subseteq Known'
    /\ \A i \in Id : match[i] # 0 => match'[i] = match[i]
    /\ \A m \in Id : record[m] # None =>
          /\ record'[m] # None
          /\ record[m].proof => record'[m].proof
          /\ record[m].chain = "confirmed" => record'[m].chain = "confirmed"

LEMMA KnownId ==
    ASSUME EngineTypeOK
    PROVE  /\ Len(orders) \in Nat
           /\ Known \subseteq Id
           /\ \A i \in Known : orders[i] \in Order
BY Bounds DEF EngineTypeOK, Known, Id

\* The steps on matches.
LEMMA EngineStepInv ==
    ASSUME EngineTypeOK, EngineInv, EngineStep
    PROVE  EngineTypeOK' /\ EngineInv' /\ Later /\ orders' = orders
<1>1. /\ Known \subseteq Id
      /\ match \in [Id -> Id \cup {0}] /\ record \in [Id -> Row \cup {None}]
      /\ 0 \notin Id
  BY KnownId, Bounds DEF EngineTypeOK
<1>2. ASSUME NEW i \in Known, NEW j \in Known, CreateMatch(i, j)
      PROVE  EngineTypeOK' /\ EngineInv' /\ Later /\ orders' = orders
  <2>. DEFINE new == [proof |-> FALSE, chain |-> "pending"]
  <2>1. /\ i \in Id /\ j \in Id /\ i # j /\ match[i] = 0 /\ match[j] = 0
        /\ match' = [match EXCEPT ![i] = i, ![j] = i]
        /\ record' = [record EXCEPT ![i] = new]
        /\ orders' = orders /\ Known' = Known
    BY <1>1, <1>2, Bounds DEF CreateMatch, Known
  <2>2. new \in Row /\ new # None
    <3>1. new \in Row
      BY DEF Row
    <3>. QED  BY <3>1, ScreensAssumption
  <2>3. record[i] = None /\ record[j] = None
    BY <1>1, <2>1 DEF EngineInv
  <2>4. /\ match'[i] = i /\ match'[j] = i
        /\ \A n \in Id \ {i, j} : match'[n] = match[n]
        /\ record'[i] = new
        /\ \A n \in Id \ {i} : record'[n] = record[n]
    BY <1>1, <2>1
  <2>5. EngineTypeOK'
    BY <1>1, <2>1, <2>2 DEF EngineTypeOK
  <2>6. Later
    BY <2>1, <2>3, <2>4 DEF Later
  <2>7. EngineInv'
    <3>1. ASSUME NEW n \in Id, match'[n] # 0
          PROVE  n \in Known /\ match'[n] \in Known /\ record'[match'[n]] # None
      <4>1. CASE n \in {i, j}
        BY <2>2, <2>4, <4>1
      <4>2. CASE n \notin {i, j}
        BY <1>1, <2>2, <2>4, <3>1, <4>2 DEF EngineInv
      <4>. QED  BY <4>1, <4>2
    <3>2. ASSUME NEW m \in Id, record'[m] # None
          PROVE  match'[m] = m /\ (record'[m].chain # "pending" => record'[m].proof)
      <4>1. CASE m = i
        BY <2>4, <4>1
      <4>2. CASE m # i
        BY <1>1, <2>3, <2>4, <3>2, <4>2 DEF EngineInv
      <4>. QED  BY <4>1, <4>2
    <3>. QED  BY <2>1, <3>1, <3>2 DEF EngineInv
  <2>. QED  BY <2>1, <2>5, <2>6, <2>7
<1>3. ASSUME NEW m \in Known, NEW row \in Row,
             record[m] # None, record[m].proof => row.proof,
             record[m].chain = "confirmed" => row.chain = "confirmed",
             row.chain # "pending" => row.proof,
             record' = [record EXCEPT ![m] = row], UNCHANGED <<orders, match>>
      PROVE  EngineTypeOK' /\ EngineInv' /\ Later /\ orders' = orders
  <2>1. /\ m \in Id /\ Known' = Known /\ row # None
        /\ record'[m] = row /\ \A n \in Id \ {m} : record'[n] = record[n]
    BY <1>1, <1>3, ScreensAssumption DEF Known
  <2>2. EngineTypeOK'
    BY <1>1, <1>3 DEF EngineTypeOK
  <2>3. Later
    BY <1>3, <2>1 DEF Later
  <2>4. EngineInv'
    <3>1. \A n \in Id : match[n] # 0 => record'[match[n]] # None
      BY <1>1, <2>1 DEF EngineInv
    <3>2. \A n \in Id : record'[n] # None =>
              match[n] = n /\ (record'[n].chain # "pending" => record'[n].proof)
      BY <1>3, <2>1 DEF EngineInv
    <3>. QED  BY <1>3, <2>1, <3>1, <3>2 DEF EngineInv
  <2>. QED  BY <1>3, <2>2, <2>3, <2>4
<1>4. \A m \in Known : record[m] # None =>
          record[m] \in Row /\ record[m].proof \in BOOLEAN
          /\ record[m].chain \in {"pending", "failed", "confirmed"}
          /\ (record[m].chain # "pending" => record[m].proof)
  BY <1>1 DEF Row, EngineInv
<1>5. ASSUME NEW m \in Known, SetProof(m)
      PROVE  EngineTypeOK' /\ EngineInv' /\ Later /\ orders' = orders
  <2>. DEFINE row == [record[m] EXCEPT !.proof = TRUE]
  <2>1. row \in Row /\ row.proof = TRUE /\ row.chain = record[m].chain
    BY <1>4, <1>5 DEF SetProof, Row
  <2>2. record' = [record EXCEPT ![m] = row]
    BY <1>1, <1>5 DEF SetProof
  <2>. QED  BY <1>3, <1>5, <2>1, <2>2 DEF SetProof
<1>6. ASSUME NEW m \in Known, NEW s \in {"pending", "failed", "confirmed"},
             record[m] # None, record[m].proof, record[m].chain # "confirmed",
             record' = [record EXCEPT ![m].chain = s], UNCHANGED <<orders, match>>
      PROVE  EngineTypeOK' /\ EngineInv' /\ Later /\ orders' = orders
  <2>. DEFINE row == [record[m] EXCEPT !.chain = s]
  <2>1. row \in Row /\ row.proof = record[m].proof /\ row.chain = s
    BY <1>4, <1>6 DEF Row
  <2>2. record' = [record EXCEPT ![m] = row]
    BY <1>1, <1>6
  <2>. QED  BY <1>3, <1>6, <2>1, <2>2
<1>7. ASSUME NEW m \in Known, MarkSettled(m)
      PROVE  EngineTypeOK' /\ EngineInv' /\ Later /\ orders' = orders
  BY <1>6, <1>7 DEF MarkSettled
<1>8. ASSUME NEW m \in Known, NEW s \in {"pending", "failed"}, SetOnchain(m, s)
      PROVE  EngineTypeOK' /\ EngineInv' /\ Later /\ orders' = orders
  BY <1>6, <1>8 DEF SetOnchain
<1>. QED  BY <1>2, <1>5, <1>7, <1>8 DEF EngineStep

\* An order is appended.
LEMMA Inserted ==
    ASSUME EngineTypeOK, EngineInv, NEW o \in Order, InsertOrder(o)
    PROVE  LET n == Len(orders) + 1 IN
           /\ orders' \in Seq(Order) /\ Len(orders') = n
           /\ Known' = Known \cup {n} /\ n \notin Known
           /\ orders'[n] = o /\ \A i \in Known : orders'[i] = orders[i]
           /\ match' = match /\ record' = record
           /\ EngineInv' /\ Later
<1>. DEFINE n == Len(orders) + 1
<1>1. /\ orders \in Seq(Order) /\ Len(orders) \in Nat
      /\ orders' = Append(orders, o) /\ match' = match /\ record' = record
  BY DEF EngineTypeOK, InsertOrder
<1>2. /\ orders' \in Seq(Order) /\ Len(orders') = n /\ orders'[n] = o
      /\ \A i \in 1..Len(orders) : orders'[i] = orders[i]
  BY <1>1
<1>3. Known' = Known \cup {n} /\ n \notin Known
  BY <1>1, <1>2 DEF Known
<1>4. EngineInv'
  BY <1>1, <1>3 DEF EngineInv
<1>5. Later
  BY <1>1, <1>3 DEF Later
<1>. QED  BY <1>1, <1>2, <1>3, <1>4, <1>5 DEF Known

-----------------------------------------------------------------------------
(* What was true of the engine stays true.                                  *)

LEMMA ListingLasts ==
    ASSUME EngineTypeOK, EngineInv, Later, NEW l, TrueListing(l)
    PROVE  TrueListing(l)'
<1>. SUFFICES ASSUME l # None, NEW i \in DOMAIN l
              PROVE  /\ i \in Known'
                     /\ l[i].match # 0 => match'[i] = l[i].match
                     /\ l[i].status # "open" => match'[i] # 0
                     /\ l[i].status = "settled" => record'[match'[i]].chain = "confirmed"
  BY DEF TrueListing
<1>1. /\ i \in Known /\ i \in Id
      /\ l[i].match # 0 => match[i] = l[i].match
      /\ l[i].status # "open" => match[i] # 0
      /\ l[i].status = "settled" => record[match[i]].chain = "confirmed"
  BY KnownId DEF TrueListing
<1>2. match[i] # 0 => match'[i] = match[i] /\ match[i] \in Id /\ record[match[i]] # None
  BY <1>1, KnownId DEF Later, EngineInv
<1>. QED  BY <1>1, <1>2 DEF Later

LEMMA RowLasts ==
    ASSUME Later, NEW m, NEW row, TrueRow(m, row)
    PROVE  TrueRow(m, row)'
BY DEF Later, TrueRow

LEMMA ShownLasts ==
    ASSUME EngineTypeOK, EngineInv, Later, NEW s, TrueShown(s)
    PROVE  TrueShown(s)'
<1>1. TrueListing(s.list)' /\ TrueRow(s.match, s.row)'
  BY ListingLasts, RowLasts DEF TrueShown
<1>. QED  BY <1>1 DEF TrueShown

LEMMA PollLasts ==
    ASSUME EngineTypeOK, EngineInv, Later, NEW q \in Poll, TruePoll(q)
    PROVE  TruePoll(q)'
<1>1. TrueListing(q.list)' /\ TrueRow(q.match, q.row)'
  BY ListingLasts, RowLasts DEF TruePoll
<1>2. q.match # 0 => q.match \in Id
  BY DEF Poll
<1>. QED  BY <1>1, <1>2 DEF TruePoll, Later

LEMMA ViewsLast ==
    ASSUME TypeOK, EngineInv, Later, ViewInv, UNCHANGED viewVars
    PROVE  ViewTypeOK' /\ ViewInv'
<1>1. active' = active /\ page' = page /\ shown' = shown /\ polls' = polls
  BY DEF viewVars
<1>2. ViewTypeOK'
  BY <1>1 DEF TypeOK, ViewTypeOK
<1>3. \A k \in Mount : TrueShown(shown[k])'
  BY <1>1, ShownLasts DEF TypeOK, ViewInv
<1>4. ASSUME NEW k \in Mount, NEW p \in Polls PROVE TruePoll(polls[k][p])'
  BY <1>1, PollLasts DEF TypeOK, ViewTypeOK, ViewInv
<1>5. active' # 0 => active' \in Known'
  BY <1>1 DEF ViewInv, Later
<1>. QED  BY <1>2, <1>3, <1>4, <1>5 DEF ViewInv

-----------------------------------------------------------------------------
(* The pages.                                                               *)

LEMMA ListOrdersTrue ==
    ASSUME EngineTypeOK, EngineInv, NEW limit
    PROVE  /\ ListOrders(limit) \in Listing /\ ListOrders(limit) # None
           /\ TrueListing(ListOrders(limit))
<1>. DEFINE l == ListOrders(limit)
<1>1. /\ DOMAIN l = Listed(limit) /\ Listed(limit) \subseteq Known /\ Known \subseteq Id
      /\ \A i \in Listed(limit) : l[i] = [status |-> Status(i), match |-> match[i]]
  BY KnownId DEF ListOrders, Listed
<1>2. ASSUME NEW i \in Listed(limit)
      PROVE  [status |-> Status(i), match |-> match[i]] \in Entry
  <2>1. match[i] \in Id \cup {0}
    BY <1>1 DEF EngineTypeOK
  <2>2. Status(i) \in {"open", "matched", "settled"}
    BY DEF Status
  <2>. QED  BY <2>1, <2>2 DEF Entry
<1>3. l \in [Listed(limit) -> Entry]
  BY <1>2 DEF ListOrders
<1>4. l \in Listing
  <2>1. Listed(limit) \in SUBSET Id
    BY <1>1
  <2>. QED  BY <1>3, <2>1 DEF Listing
<1>5. l # None
  BY <1>4, ScreensAssumption
<1>6. TrueListing(l)
  <2>. SUFFICES ASSUME NEW i \in Listed(limit)
                PROVE  /\ i \in Known
                       /\ l[i].match # 0 => match[i] = l[i].match
                       /\ l[i].status # "open" => match[i] # 0
                       /\ l[i].status = "settled" => record[match[i]].chain = "confirmed"
    BY <1>1 DEF TrueListing
  <2>1. l[i].status = Status(i) /\ l[i].match = match[i]
    BY <1>1
  <2>. QED  BY <1>1, <2>1 DEF Status
<1>. QED  BY <1>4, <1>5, <1>6

LEMMA BlankTrue ==
    /\ Blank \in Shown /\ TrueShown(Blank)
    /\ NoPoll \in Poll /\ TruePoll(NoPoll)
<1>1. Blank \in Shown
  BY DEF Blank, Shown
<1>2. NoPoll \in Poll
  BY DEF NoPoll, Poll
<1>. QED
  BY <1>1, <1>2 DEF Blank, NoPoll, TrueShown, TruePoll, TrueListing, TrueRow

\* All that a step of a poll does: it changes the poll and what its page shows.
LEMMA PollMove ==
    ASSUME TypeOK, ViewInv, NEW k \in Mount, NEW p \in Polls,
           NEW s \in Shown, TrueShown(s), NEW q \in Poll, TruePoll(q),
           shown' = [shown EXCEPT ![k] = s],
           polls' = [polls EXCEPT ![k] = [polls[k] EXCEPT ![p] = q]],
           UNCHANGED <<active, page, engineVars>>
    PROVE  ViewTypeOK' /\ ViewInv'
<1>1. /\ shown \in [Mount -> Shown] /\ polls \in [Mount -> [Polls -> Poll]]
      /\ active' = active /\ page' = page
      /\ orders' = orders /\ match' = match /\ record' = record
  BY DEF TypeOK, ViewTypeOK, engineVars
<1>2. shown' \in [Mount -> Shown] /\ polls' \in [Mount -> [Polls -> Poll]]
  BY <1>1
<1>3. ViewTypeOK'
  BY <1>1, <1>2 DEF TypeOK, ViewTypeOK
<1>4. \A m \in Mount : TrueShown(shown'[m])
  BY <1>1 DEF ViewInv
<1>5. \A m \in Mount, r \in Polls : TruePoll(polls'[m][r])
  BY <1>1 DEF ViewInv
<1>6. Known' = Known
  BY <1>1 DEF Known
<1>7. \A m \in Mount : TrueShown(shown[m])'
  BY <1>1, <1>4, <1>6 DEF TrueShown, TrueListing, TrueRow
<1>8. \A m \in Mount, r \in Polls : TruePoll(polls[m][r])'
  BY <1>1, <1>5, <1>6 DEF TruePoll, TrueListing, TrueRow
<1>9. active' # 0 => active' \in Known'
  BY <1>1, <1>6 DEF ViewInv
<1>. QED  BY <1>3, <1>7, <1>8, <1>9 DEF ViewInv

LEMMA PollStepInv ==
    ASSUME Inv, NEW k \in Mount, NEW p \in Polls, PollStep(k, p), UNCHANGED engineVars
    PROVE  ViewTypeOK' /\ ViewInv'
<1>. DEFINE s == shown[k]
            q == polls[k][p]
<1>1. /\ TypeOK /\ EngineTypeOK /\ EngineInv /\ ViewInv
      /\ shown \in [Mount -> Shown] /\ polls \in [Mount -> [Polls -> Poll]]
      /\ polls[k] \in [Polls -> Poll] /\ active \in Id \cup {0}
      /\ s \in Shown /\ q \in Poll /\ TrueShown(s) /\ TruePoll(q)
  BY DEF Inv, TypeOK, ViewTypeOK, ViewInv
<1>2. active' = active /\ page' = page
  BY DEF PollStep, tick, listOrders, HandleOrders, PoolOrders, DeskOrders, ProofsOrders,
         SettledOrders, getMatch, ShowMatch, PollFailed
<1>3. shown = [shown EXCEPT ![k] = s]
  BY <1>1
\* The two ways in which a step changes its poll.
<1>4. ASSUME NEW n \in Shown, TrueShown(n), shown' = [shown EXCEPT ![k] = n], Done(k, p)
      PROVE  ViewTypeOK' /\ ViewInv'
  <2>1. polls' = [polls EXCEPT ![k] = [polls[k] EXCEPT ![p] = NoPoll]]
    BY <1>1, <1>4 DEF Done
  <2>. QED  BY <1>1, <1>2, <1>4, <2>1, BlankTrue, PollMove
<1>5. ASSUME NEW n \in Shown, TrueShown(n), shown' = [shown EXCEPT ![k] = n],
             q.at = "listed", AskMatch(k, p)
      PROVE  ViewTypeOK' /\ ViewInv'
  <2>. DEFINE m == MatchOf(k, p)
              r == [NoPoll EXCEPT !.at = "match", !.id = q.id, !.match = m]
  <2>1. polls' = [polls EXCEPT ![k] = [polls[k] EXCEPT ![p] = r]]
    BY <1>1, <1>5 DEF AskMatch
  <2>2. /\ m # 0 /\ q.id \in DOMAIN q.list /\ m = q.list[q.id].match
        /\ q.list # None
    BY <1>1, <1>5 DEF AskMatch, MatchOf, Found, TruePoll
  <2>3. q.id \in Known /\ match[q.id] = m /\ q.id \in Id
    BY <1>1, <2>2, KnownId DEF TruePoll, TrueListing
  <2>4. m \in Id /\ record[m] # None
    BY <1>1, <2>2, <2>3, KnownId DEF EngineInv
  <2>5. /\ r.at = "match" /\ r.id = q.id /\ r.match = m /\ r.list = None /\ r.row = None
        /\ r \in Poll
    BY <1>1, <2>4 DEF NoPoll, Poll
  <2>6. TruePoll(r)
    <3>. HIDE DEF m, r
    <3>. QED  BY <2>2, <2>4, <2>5 DEF TruePoll, TrueListing, TrueRow
  <2>. HIDE DEF m, r
  <2>. QED  BY <1>1, <1>2, <1>5, <2>1, <2>5, <2>6, PollMove
<1>6. ASSUME tick(k, p) PROVE ViewTypeOK' /\ ViewInv'
  <2>1. PICK i \in {q.id, active} :
          polls' = [polls EXCEPT ![k] = [polls[k] EXCEPT ![p] =
                      [q EXCEPT !.at = "orders", !.id = i]]]
    <3>1. CASE page[k] \in {"pool", "desk"}
      <4>1. [q EXCEPT !.at = "orders"] = [q EXCEPT !.at = "orders", !.id = q.id]
        BY <1>1 DEF Poll
      <4>2. polls' = [polls EXCEPT ![k] = [polls[k] EXCEPT ![p] = [q EXCEPT !.at = "orders"]]]
        BY <1>1, <1>6, <3>1 DEF tick
      <4>. QED  BY <4>1, <4>2
    <3>2. CASE page[k] \in {"proofs", "settled"}
      BY <1>1, <1>6, <3>2 DEF tick
    <3>. QED  BY <1>6, <3>1, <3>2 DEF tick
  <2>. DEFINE r == [q EXCEPT !.at = "orders", !.id = i]
  <2>2. /\ r.at = "orders" /\ r.list = q.list /\ r.match = q.match /\ r.row = q.row
        /\ r \in Poll
    BY <1>1 DEF Poll
  <2>3. TruePoll(r)
    BY <1>1, <2>2 DEF TruePoll
  <2>4. shown' = [shown EXCEPT ![k] = s]
    BY <1>3, <1>6 DEF tick
  <2>. HIDE DEF r
  <2>. QED  BY <1>1, <1>2, <2>1, <2>2, <2>3, <2>4, PollMove DEF r
<1>7. ASSUME listOrders(k, p) PROVE ViewTypeOK' /\ ViewInv'
  <2>. DEFINE l == ListOrders(Limit(k))
              r == [q EXCEPT !.at = "listed", !.list = l]
  <2>1. l \in Listing /\ l # None /\ TrueListing(l)
    BY <1>1, ListOrdersTrue
  <2>2. polls' = [polls EXCEPT ![k] = [polls[k] EXCEPT ![p] = r]]
    BY <1>1, <1>7 DEF listOrders
  <2>3. shown' = [shown EXCEPT ![k] = s]
    BY <1>3, <1>7 DEF listOrders
  <2>. HIDE DEF l
  <2>4. /\ r.at = "listed" /\ r.list = l /\ r.match = q.match /\ r.row = q.row
        /\ r \in Poll
    BY <1>1, <2>1 DEF Poll
  <2>5. TruePoll(r)
    BY <1>1, <2>1, <2>4 DEF TruePoll
  <2>. HIDE DEF r
  <2>. QED  BY <1>1, <1>2, <2>2, <2>3, <2>4, <2>5, PollMove
<1>8. ASSUME getMatch(k, p) PROVE ViewTypeOK' /\ ViewInv'
  <2>. DEFINE w == record[q.match]
              r == [q EXCEPT !.at = "found", !.row = w]
  <2>1. /\ q.match \in Id /\ w # None /\ w \in Row /\ q.match # 0
        /\ w.chain # "pending" => w.proof
    <3>1. q.match # 0 /\ w # None
      BY <1>1, <1>8 DEF getMatch, TruePoll
    <3>2. q.match \in Id
      BY <1>1, <3>1 DEF Poll
    <3>. QED  BY <1>1, <3>1, <3>2 DEF EngineTypeOK, EngineInv
  <2>2. polls' = [polls EXCEPT ![k] = [polls[k] EXCEPT ![p] = r]]
    BY <1>1, <1>8 DEF getMatch, GetMatch
  <2>3. shown' = [shown EXCEPT ![k] = s]
    BY <1>3, <1>8 DEF getMatch
  <2>4. TrueRow(q.match, w)
    BY <2>1 DEF TrueRow
  <2>5. /\ r.at = "found" /\ r.list = q.list /\ r.match = q.match /\ r.row = w
        /\ r \in Poll
    BY <1>1, <2>1 DEF Poll
  <2>6. TruePoll(r)
    BY <1>1, <2>1, <2>4, <2>5 DEF TruePoll
  <2>. HIDE DEF r
  <2>. QED  BY <1>1, <1>2, <2>2, <2>3, <2>5, <2>6, PollMove
<1>9. ASSUME ShowMatch(k, p) PROVE ViewTypeOK' /\ ViewInv'
  <2>. DEFINE n == [s EXCEPT !.match = q.match, !.row = q.row]
  <2>1. /\ n.list = s.list /\ n.match = q.match /\ n.row = q.row /\ n \in Shown
    BY <1>1 DEF Poll, Shown
  <2>2. q.match # 0 /\ q.row # None
    BY <1>1, <1>9 DEF ShowMatch, TruePoll
  <2>3. TrueShown(n)
    BY <1>1, <2>1, <2>2 DEF TrueShown, TruePoll
  <2>4. shown' = [shown EXCEPT ![k] = n]
    BY <1>1, <1>9 DEF ShowMatch
  <2>. HIDE DEF n
  <2>. QED  BY <1>4, <1>9, <2>1, <2>3, <2>4 DEF ShowMatch
<1>10. ASSUME PollFailed(k, p) PROVE ViewTypeOK' /\ ViewInv'
  <2>. DEFINE n == [s EXCEPT !.err = (page[k] = "desk")]
  <2>1. n.list = s.list /\ n.match = s.match /\ n.row = s.row /\ n \in Shown
    BY <1>1 DEF Shown
  <2>2. TrueShown(n)
    BY <1>1, <2>1 DEF TrueShown
  <2>3. shown' = [shown EXCEPT ![k] = n]
    BY <1>1, <1>10 DEF PollFailed
  <2>. HIDE DEF n
  <2>. QED  BY <1>4, <1>10, <2>1, <2>2, <2>3 DEF PollFailed
<1>11. ASSUME PoolOrders(k, p) PROVE ViewTypeOK' /\ ViewInv'
  <2>. DEFINE n == [s EXCEPT !.list = q.list]
  <2>1. n.list = q.list /\ n.match = s.match /\ n.row = s.row /\ n \in Shown
    BY <1>1 DEF Shown, Poll
  <2>2. TrueShown(n)
    BY <1>1, <2>1 DEF TrueShown, TruePoll
  <2>3. shown' = [shown EXCEPT ![k] = n]
    BY <1>1, <1>11 DEF PoolOrders
  <2>. HIDE DEF n
  <2>. QED  BY <1>4, <1>11, <2>1, <2>2, <2>3 DEF PoolOrders
<1>12. ASSUME DeskOrders(k, p) PROVE ViewTypeOK' /\ ViewInv'
  <2>. DEFINE n == [s EXCEPT !.list = q.list, !.err = FALSE]
  <2>1. n.list = q.list /\ n.match = s.match /\ n.row = s.row /\ n \in Shown
    BY <1>1 DEF Shown, Poll
  <2>2. TrueShown(n)
    BY <1>1, <2>1 DEF TrueShown, TruePoll
  <2>3. shown' = [shown EXCEPT ![k] = n]
    BY <1>1, <1>12 DEF DeskOrders
  <2>. HIDE DEF n
  <2>. QED  BY <1>4, <1>12, <2>1, <2>2, <2>3 DEF DeskOrders
<1>13. ASSUME ProofsOrders(k, p) PROVE ViewTypeOK' /\ ViewInv'
  <2>1. CASE Done(k, p) /\ UNCHANGED shown
    BY <1>1, <1>3, <1>4, <2>1
  <2>2. CASE Done(k, p) /\ shown' = [shown EXCEPT ![k].match = 0, ![k].row = None]
    <3>. DEFINE n == [s EXCEPT !.match = 0, !.row = None]
    <3>1. n.list = s.list /\ n.match = 0 /\ n.row = None /\ n \in Shown
      BY <1>1 DEF Shown
    <3>2. TrueShown(n)
      BY <1>1, <3>1 DEF TrueShown, TrueRow
    <3>3. shown' = [shown EXCEPT ![k] = n]
      BY <1>1, <2>2
    <3>. HIDE DEF n
    <3>. QED  BY <1>4, <2>2, <3>1, <3>2, <3>3
  <2>3. CASE AskMatch(k, p) /\ UNCHANGED shown
    BY <1>1, <1>3, <1>5, <1>13, <2>3 DEF ProofsOrders
  <2>. QED  BY <1>13, <2>1, <2>2, <2>3 DEF ProofsOrders
<1>14. ASSUME SettledOrders(k, p) PROVE ViewTypeOK' /\ ViewInv'
  <2>. DEFINE o == IF Found(k, p) THEN q.id ELSE 0
              n == [s EXCEPT !.order = o]
  <2>1. o \in Id \cup {0}
    BY <1>1 DEF Poll
  <2>2. shown' = [shown EXCEPT ![k] = n]
    BY <1>1, <1>14 DEF SettledOrders
  <2>. HIDE DEF o
  <2>3. n.list = s.list /\ n.match = s.match /\ n.row = s.row /\ n \in Shown
    BY <1>1, <2>1 DEF Shown
  <2>4. TrueShown(n)
    BY <1>1, <2>3 DEF TrueShown
  <2>. HIDE DEF n
  <2>. QED  BY <1>4, <1>5, <1>14, <2>2, <2>3, <2>4 DEF SettledOrders
<1>. QED
  BY <1>6, <1>7, <1>8, <1>9, <1>10, <1>11, <1>12, <1>13, <1>14 DEF PollStep, HandleOrders

-----------------------------------------------------------------------------
(* The demo counterparty.                                                   *)

\* A step of the effect that sends nothing and inserts nothing.
LEMMA DemoMove ==
    ASSUME TypeOK, DemoInv, NEW k \in Mount, NEW d \in Demo,
           d.at \in {"off", "grace", "asked", "heard"} => d.request = "none",
           d.at # "off" => d.of \in Known /\ d.desk \in Owner,
           d.request # "inserted" => demo[k].request # "inserted",
           demo' = [demo EXCEPT ![k] = d], UNCHANGED orders
    PROVE  DemoTypeOK' /\ DemoInv'
<1>1. demo \in [Mount -> Demo] /\ Known' = Known /\ orders' = orders
  BY DEF TypeOK, DemoTypeOK, Known
<1>2. demo'[k] = d /\ \A m \in Mount \ {k} : demo'[m] = demo[m]
  BY <1>1
<1>3. DemoTypeOK'
  BY <1>1 DEF DemoTypeOK
<1>4. ASSUME NEW m \in Mount
      PROVE  /\ demo'[m].at \in {"off", "grace", "asked", "heard"} => demo'[m].request = "none"
             /\ demo'[m].at # "off" => demo'[m].of \in Known /\ demo'[m].desk \in Owner
             /\ demo'[m].request # "inserted" => \A i \in Known : orders[i].by # m
  <2>1. CASE m = k
    BY <1>2, <2>1 DEF DemoInv
  <2>2. CASE m # k
    BY <1>2, <2>2 DEF DemoInv
  <2>. QED  BY <2>1, <2>2
<1>. QED  BY <1>1, <1>3, <1>4 DEF DemoInv

\* The effect's own steps, but for the insertion.
DemoSilent(k) ==
    \/ demoTick(k) \/ demoList(k) \/ StandDown(k) \/ Defer(k) \/ Fill(k)
    \/ DropCounter(k) \/ Answered(k) \/ DemoFailed(k)

LEMMA DemoSilentInv ==
    ASSUME TypeOK, DemoInv, NEW k \in Mount, DemoSilent(k), UNCHANGED orders
    PROVE  DemoTypeOK' /\ DemoInv'
<1>. DEFINE e == demo[k]
<1>1. /\ demo \in [Mount -> Demo] /\ e \in Demo
      /\ e.at \in {"off", "grace", "asked", "heard"} => e.request = "none"
      /\ e.at # "off" => e.of \in Known /\ e.desk \in Owner
  BY DEF TypeOK, DemoTypeOK, DemoInv
<1>2. e.at # "off"
  BY <1>1 DEF DemoSilent, demoTick, demoList, StandDown, Defer, Fill, DropCounter, Answered,
              DemoFailed
\* Any record with the same order and desk will do.
<1>3. ASSUME NEW d \in Demo, d.at # "off", d.of = e.of, d.desk = e.desk,
             d.at \in {"grace", "asked", "heard"} => d.request = "none",
             d.request # "inserted" => e.request # "inserted",
             demo' = [demo EXCEPT ![k] = d]
      PROVE  DemoTypeOK' /\ DemoInv'
  BY <1>1, <1>2, <1>3, DemoMove
<1>4. ASSUME demoTick(k) PROVE DemoTypeOK' /\ DemoInv'
  <2>. DEFINE d == [e EXCEPT !.at = IF e.cancelled THEN "done" ELSE "asked"]
  <2>1. demo' = [demo EXCEPT ![k] = d]
    BY <1>1, <1>4 DEF demoTick
  <2>2. /\ d.of = e.of /\ d.desk = e.desk /\ d.request = e.request
        /\ d.at \in {"done", "asked"} /\ d \in Demo
    BY <1>1 DEF Demo
  <2>. HIDE DEF d
  <2>. QED  BY <1>1, <1>3, <1>4, <2>1, <2>2 DEF demoTick
<1>5. ASSUME demoList(k) PROVE DemoTypeOK' /\ DemoInv'
  <2>. DEFINE d == [e EXCEPT !.at = "heard", !.seen = Seen(e.of)]
  <2>1. demo' = [demo EXCEPT ![k] = d]
    BY <1>1, <1>5 DEF demoList
  <2>2. Seen(e.of) \in {"unlisted", "matched", "opposed", "alone"}
    BY DEF Seen
  <2>3. /\ d.of = e.of /\ d.desk = e.desk /\ d.request = e.request /\ d.at = "heard"
        /\ d \in Demo
    BY <1>1, <2>2 DEF Demo
  <2>. HIDE DEF d
  <2>. QED  BY <1>1, <1>3, <1>5, <2>1, <2>3 DEF demoList
<1>6. ASSUME NEW at \in {"done"}, e.at \notin {"off", "grace"},
             demo' = [demo EXCEPT ![k].at = at]
      PROVE  DemoTypeOK' /\ DemoInv'
  <2>. DEFINE d == [e EXCEPT !.at = at]
  <2>1. demo' = [demo EXCEPT ![k] = d]
    BY <1>1, <1>6
  <2>2. /\ d.of = e.of /\ d.desk = e.desk /\ d.request = e.request /\ d.at = "done"
        /\ d \in Demo
    BY <1>1 DEF Demo
  <2>. HIDE DEF d
  <2>. QED  BY <1>3, <2>1, <2>2
<1>7. ASSUME StandDown(k) \/ Answered(k) PROVE DemoTypeOK' /\ DemoInv'
  BY <1>6, <1>7 DEF StandDown, Answered
<1>8. ASSUME DemoFailed(k) PROVE DemoTypeOK' /\ DemoInv'
  <2>. DEFINE d == [e EXCEPT !.at = "done", !.failed = TRUE]
  <2>1. demo' = [demo EXCEPT ![k] = d]
    BY <1>1, <1>8 DEF DemoFailed
  <2>2. /\ d.of = e.of /\ d.desk = e.desk /\ d.request = e.request /\ d.at = "done"
        /\ d \in Demo
    BY <1>1 DEF Demo
  <2>. HIDE DEF d
  <2>. QED  BY <1>3, <2>1, <2>2
<1>9. ASSUME Defer(k) PROVE DemoTypeOK' /\ DemoInv'
  <2>. DEFINE d == [e EXCEPT !.at = "grace", !.seen = "nothing", !.deferrals = @ + 1]
  <2>1. demo' = [demo EXCEPT ![k] = d]
    BY <1>1, <1>9 DEF Defer
  <2>2. e.deferrals \in 0..MaxDeferrals /\ e.deferrals + 1 \in 0..MaxDeferrals
    BY <1>1, <1>9, DemoAssumption DEF Defer, Demo
  <2>3. /\ d.of = e.of /\ d.desk = e.desk /\ d.request = e.request /\ d.at = "grace"
        /\ d \in Demo
    BY <1>1, <2>2 DEF Demo
  <2>. HIDE DEF d
  <2>. QED  BY <1>1, <1>3, <1>9, <2>1, <2>3 DEF Defer
<1>10. ASSUME Fill(k) PROVE DemoTypeOK' /\ DemoInv'
  <2>. DEFINE d == [e EXCEPT !.at = "sent", !.seen = "nothing", !.deferrals = 0,
                            !.request = "travelling"]
  <2>1. demo' = [demo EXCEPT ![k] = d]
    BY <1>1, <1>10 DEF Fill
  <2>2. 0 \in 0..MaxDeferrals
    BY DemoAssumption
  <2>3. /\ d.of = e.of /\ d.desk = e.desk /\ d.request = "travelling" /\ d.at = "sent"
        /\ d \in Demo
    BY <1>1, <2>2 DEF Demo
  <2>. HIDE DEF d
  <2>. QED  BY <1>1, <1>3, <1>10, <2>1, <2>3 DEF Fill
<1>11. ASSUME DropCounter(k) PROVE DemoTypeOK' /\ DemoInv'
  <2>. DEFINE d == [e EXCEPT !.request = "dropped"]
  <2>1. demo' = [demo EXCEPT ![k] = d]
    BY <1>1, <1>11 DEF DropCounter
  <2>2. /\ d.of = e.of /\ d.desk = e.desk /\ d.request = "dropped" /\ d.at = e.at
        /\ d \in Demo
    BY <1>1 DEF Demo
  <2>. HIDE DEF d
  <2>. QED  BY <1>1, <1>2, <1>3, <1>11, <2>1, <2>2 DEF DropCounter
<1>. QED
  BY <1>4, <1>5, <1>7, <1>8, <1>9, <1>10, <1>11 DEF DemoSilent

-----------------------------------------------------------------------------
(* The system.                                                              *)

\* An order is appended that is the only one of its page, if it is a counter,
\* and within the bound on the others, if it is none.
LEMMA OrderInserted ==
    ASSUME Inv, NEW o \in Order, InsertOrder(o),
           o.by # 0 => \A i \in Known : orders[i].by # o.by,
           o.by = 0 => Cardinality({i \in Known : orders[i].by = 0}) < MaxOthers
    PROVE  /\ EngineTypeOK' /\ EngineInv' /\ Later
           /\ Known \subseteq Known'
           /\ \A i \in Known' : orders'[i].by = o.by \/ (i \in Known /\ orders'[i] = orders[i])
           /\ \A i, j \in Known' : orders'[i].by = orders'[j].by /\ orders'[i].by # 0 => i = j
           /\ Cardinality({i \in Known' : orders'[i].by = 0}) <= MaxOthers
<1>. DEFINE n == Len(orders) + 1
            C == {i \in Known : orders[i].by = 0}
            D == {i \in Known' : orders'[i].by = 0}
<1>1. TypeOK /\ EngineTypeOK /\ EngineInv /\ DemoInv
  BY DEF Inv, TypeOK
<1>2. /\ orders' \in Seq(Order) /\ Len(orders') = n
      /\ Known' = Known \cup {n} /\ n \notin Known
      /\ orders'[n] = o /\ \A i \in Known : orders'[i] = orders[i]
      /\ match' = match /\ record' = record
      /\ EngineInv' /\ Later
  BY <1>1, Inserted
<1>3. \A i, j \in Known' : orders'[i].by = orders'[j].by /\ orders'[i].by # 0 => i = j
  BY <1>1, <1>2 DEF DemoInv
<1>4. IsFiniteSet(C) /\ Cardinality(C) \in Nat /\ Cardinality(C) <= MaxOthers
  <2>1. IsFiniteSet(Known)
    BY <1>1, KnownId, CountUpTo DEF Known
  <2>2. IsFiniteSet(C)
    BY <2>1, FS_Subset
  <2>. QED  BY <1>1, <2>2, FS_CardinalityType DEF DemoInv
<1>5. Cardinality(D) <= MaxOthers
  <2>1. CASE o.by = 0
    <3>1. D = C \cup {n} /\ n \notin C
      BY <1>2, <2>1
    <3>2. Cardinality(C \cup {n}) = Cardinality(C) + 1
      <4>. HIDE DEF C, n
      <4>. QED  BY <1>4, <3>1, FS_AddElement
    <3>. QED
      <4>. HIDE DEF D
      <4>. QED  BY <1>4, <2>1, <3>1, <3>2, Bounds
  <2>2. CASE o.by # 0
    <3>1. D = C
      BY <1>2, <2>2
    <3>. QED  BY <1>4, <3>1
  <2>. QED  BY <2>1, <2>2
<1>6. EngineTypeOK'
  <2>1. Known' = 1..Len(orders')
    BY DEF Known
  <2>2. Len(orders') <= MaxOrders
    BY <1>2, <1>3, <1>5, <2>1, OrdersBounded
  <2>. QED  BY <1>1, <1>2, <2>2 DEF EngineTypeOK
<1>7. \A i \in Known' : orders'[i].by = o.by \/ (i \in Known /\ orders'[i] = orders[i])
  BY <1>2
<1>. HIDE DEF n, C
<1>. QED  BY <1>2, <1>3, <1>5, <1>6, <1>7

LEMMA InitInv == Init => Inv
<1>. SUFFICES ASSUME Init PROVE Inv
  OBVIOUS
<1>1. /\ orders = <<>> /\ match = [i \in Id |-> 0] /\ record = [i \in Id |-> None]
      /\ active = 0 /\ page = [k \in Mount |-> "off"]
      /\ shown = [k \in Mount |-> Blank]
      /\ polls = [k \in Mount |-> [p \in Polls |-> NoPoll]]
      /\ demo = [k \in Mount |-> NoDemo]
  BY DEF Init, EngineInit, ViewInit, DemoInit
<1>2. Known = {} /\ Len(orders) = 0
  BY <1>1 DEF Known
<1>3. EngineTypeOK
  BY <1>1, <1>2, Bounds DEF EngineTypeOK, MaxOrders
<1>4. ViewTypeOK
  BY <1>1, BlankTrue DEF ViewTypeOK
<1>5. NoDemo \in Demo
  BY DemoAssumption DEF NoDemo, Demo
<1>6. DemoTypeOK
  BY <1>1, <1>5 DEF DemoTypeOK
<1>7. EngineInv
  BY <1>1, Bounds DEF EngineInv
<1>8. ViewInv
  BY <1>1, BlankTrue DEF ViewInv
<1>9. Cardinality({i \in Known : orders[i].by = 0}) <= MaxOthers
  <2>1. {i \in Known : orders[i].by = 0} = {}
    BY <1>2
  <2>. QED  BY <2>1, FS_EmptySet, Bounds
<1>10. DemoInv
  BY <1>1, <1>2, <1>9 DEF DemoInv, NoDemo
<1>. QED  BY <1>3, <1>4, <1>6, <1>7, <1>8, <1>10 DEF Inv, TypeOK

\* An order of any desk comes in.
LEMMA ArriveInv ==
    ASSUME Inv, NEW o \in Incoming, Arrive(o), UNCHANGED <<viewVars, demo>>
    PROVE  Inv'
<1>1. o \in Order /\ InsertOrder(o) /\ o.by = 0 /\ demo' = demo
  BY ScreensAssumption DEF Arrive
<1>2. /\ EngineTypeOK' /\ EngineInv' /\ Later
      /\ Known \subseteq Known'
      /\ \A i \in Known' : orders'[i].by = o.by \/ (i \in Known /\ orders'[i] = orders[i])
      /\ \A i, j \in Known' : orders'[i].by = orders'[j].by /\ orders'[i].by # 0 => i = j
      /\ Cardinality({i \in Known' : orders'[i].by = 0}) <= MaxOthers
  BY <1>1, OrderInserted DEF Arrive
<1>3. ViewTypeOK' /\ ViewInv'
  BY <1>2, ViewsLast DEF Inv
<1>4. DemoTypeOK'
  BY <1>1 DEF Inv, TypeOK, DemoTypeOK
<1>5. DemoInv'
  BY <1>1, <1>2, Bounds DEF Inv, DemoInv
<1>. QED  BY <1>2, <1>3, <1>4, <1>5 DEF Inv, TypeOK

\* The engine inserts a counter.
LEMMA InsertCounterInv ==
    ASSUME Inv, NEW k \in Mount, InsertCounter(k), UNCHANGED viewVars
    PROVE  Inv'
<1>. DEFINE e == demo[k]
            o == Counter(k)
            d == [e EXCEPT !.request = "inserted"]
<1>1. /\ TypeOK /\ EngineTypeOK /\ DemoInv
      /\ demo \in [Mount -> Demo] /\ e \in Demo
      /\ e.request = "travelling" /\ InsertOrder(o)
      /\ demo' = [demo EXCEPT ![k] = d]
  BY DEF Inv, TypeOK, DemoTypeOK, InsertCounter
<1>2. /\ e.at \notin {"off", "grace", "asked", "heard"}
      /\ e.of \in Known /\ e.desk \in Owner
      /\ \A i \in Known : orders[i].by # k
  BY <1>1 DEF DemoInv
<1>3. o \in Order /\ o.by = k /\ k # 0
  <2>1. k \in 0..MaxMounts /\ k # 0
    BY Bounds DEF Mount
  <2>2. orders[e.of].lot \in Lot /\ Opposite(orders[e.of].side) \in {"bid", "ask"}
    BY <1>1, <1>2, KnownId DEF Order, Opposite
  <2>. QED  BY <1>2, <2>1, <2>2 DEF Counter, Order
<1>4. /\ EngineTypeOK' /\ EngineInv' /\ Later
      /\ Known \subseteq Known'
      /\ \A i \in Known' : orders'[i].by = k \/ (i \in Known /\ orders'[i] = orders[i])
      /\ \A i, j \in Known' : orders'[i].by = orders'[j].by /\ orders'[i].by # 0 => i = j
      /\ Cardinality({i \in Known' : orders'[i].by = 0}) <= MaxOthers
  <2>. HIDE DEF o
  <2>. QED  BY <1>1, <1>2, <1>3, OrderInserted
<1>5. ViewTypeOK' /\ ViewInv'
  BY <1>4, ViewsLast DEF Inv
<1>6. /\ d \in Demo /\ d.at = e.at /\ d.of = e.of /\ d.desk = e.desk
      /\ d.request = "inserted"
  BY <1>1 DEF Demo
<1>7. DemoTypeOK'
  <2>. HIDE DEF d
  <2>. QED  BY <1>1, <1>6 DEF DemoTypeOK
<1>8. ASSUME NEW m \in Mount
      PROVE  /\ demo'[m].at \in {"off", "grace", "asked", "heard"} => demo'[m].request = "none"
             /\ demo'[m].at # "off" => demo'[m].of \in Known' /\ demo'[m].desk \in Owner
             /\ demo'[m].request # "inserted" => \A i \in Known' : orders'[i].by # m
  <2>1. CASE m = k
    <3>1. demo'[m] = d
      BY <1>1, <2>1
    <3>. HIDE DEF d
    <3>. QED  BY <1>2, <1>4, <1>6, <3>1
  <2>2. CASE m # k
    <3>1. demo'[m] = demo[m]
      BY <1>1, <2>2
    <3>. QED  BY <1>1, <1>4, <2>2, <3>1 DEF DemoInv
  <2>. QED  BY <2>1, <2>2
<1>9. DemoInv'
  BY <1>4, <1>8 DEF DemoInv
<1>. QED  BY <1>4, <1>5, <1>7, <1>9 DEF Inv, TypeOK

LEMMA EngineStays ==
    ASSUME Inv, UNCHANGED engineVars
    PROVE  EngineTypeOK' /\ EngineInv' /\ Later /\ Known' = Known
<1>1. orders' = orders /\ match' = match /\ record' = record
  BY DEF engineVars
<1>2. Known' = Known
  BY <1>1 DEF Known
<1>. QED  BY <1>1, <1>2 DEF Inv, TypeOK, EngineTypeOK, EngineInv, Later

LEMMA DemoStays ==
    ASSUME Inv, UNCHANGED <<orders, demo>>
    PROVE  DemoTypeOK' /\ DemoInv'
<1>1. Known' = Known
  BY DEF Known
<1>. QED  BY <1>1 DEF Inv, TypeOK, DemoTypeOK, DemoInv

\* An order is made the active one, a page is opened or left.
LEMMA PagesInv ==
    ASSUME Inv, UNCHANGED engineVars, active' \in Known \cup {0},
           page' \in [Mount -> Pages \cup {"off"}],
           shown' \in [Mount -> Shown], polls' \in [Mount -> [Polls -> Poll]],
           \A k \in Mount :
              \/ shown'[k] = shown[k] /\ polls'[k] = polls[k]
              \/ shown'[k] = Blank /\ polls'[k] = [p \in Polls |-> NoPoll]
    PROVE  /\ EngineTypeOK' /\ EngineInv'
           /\ ViewTypeOK' /\ ViewInv'
<1>1. /\ EngineTypeOK' /\ EngineInv' /\ Later /\ Known' = Known
      /\ TypeOK /\ EngineTypeOK /\ EngineInv /\ ViewInv
  BY EngineStays DEF Inv, TypeOK, ViewTypeOK
<1>2. active' \in Id \cup {0}
  BY <1>1, KnownId
<1>3. orders' = orders /\ match' = match /\ record' = record
  BY DEF engineVars
<1>4. ASSUME NEW k \in Mount PROVE TrueShown(shown[k])'
  <2>1. TrueShown(shown'[k])
    BY <1>1, BlankTrue DEF ViewInv
  <2>. QED  BY <1>1, <1>3, <2>1 DEF TrueShown, TrueListing, TrueRow
<1>5. ASSUME NEW k \in Mount, NEW p \in Polls PROVE TruePoll(polls[k][p])'
  <2>1. TruePoll(polls'[k][p])
    BY <1>1, BlankTrue DEF ViewInv
  <2>. QED  BY <1>1, <1>3, <2>1 DEF TruePoll, TrueListing, TrueRow
<1>. QED  BY <1>1, <1>2, <1>4, <1>5 DEF ViewTypeOK, ViewInv

LEMMA OpenInv ==
    ASSUME Inv, NEW k \in Mount, NEW pg \in Pages, Open(k, pg)
    PROVE  Inv'
<1>1. /\ TypeOK /\ DemoInv /\ UNCHANGED engineVars /\ orders' = orders
      /\ shown \in [Mount -> Shown] /\ polls \in [Mount -> [Polls -> Poll]]
      /\ page \in [Mount -> Pages \cup {"off"}] /\ active \in Id \cup {0}
      /\ active # 0 => active \in Known
  BY DEF Open, engineVars, Inv, TypeOK, ViewTypeOK, ViewInv
<1>2. /\ active' = active /\ shown' = shown /\ polls' = polls
      /\ page' = [page EXCEPT ![k] = pg]
  BY DEF Open, OpenPage
<1>3. EngineTypeOK' /\ EngineInv' /\ ViewTypeOK' /\ ViewInv'
  <2>1. page' \in [Mount -> Pages \cup {"off"}]
    BY <1>1, <1>2
  <2>. QED  BY <1>1, <1>2, <2>1, PagesInv
<1>4. DemoTypeOK' /\ DemoInv'
  <2>1. CASE UNCHANGED demo
    BY <1>1, <2>1, DemoStays
  <2>2. ASSUME NEW d \in Desk, active # 0, StartDemo(k, active, d), demo[k] = NoDemo
        PROVE  DemoTypeOK' /\ DemoInv'
    <3>. DEFINE e == [NoDemo EXCEPT !.at = "grace", !.of = active, !.desk = d]
    <3>1. demo' = [demo EXCEPT ![k] = e]
      BY <2>2 DEF StartDemo
    <3>2. d \in Owner /\ 0 \in 0..MaxDeferrals
      BY ScreensAssumption, DemoAssumption
    <3>3. e \in Demo /\ e.at = "grace" /\ e.of = active /\ e.desk = d /\ e.request = "none"
      BY <1>1, <3>2 DEF NoDemo, Demo
    <3>4. demo[k].request # "inserted"
      BY <2>2 DEF NoDemo
    <3>. HIDE DEF e
    <3>. QED  BY <1>1, <2>2, <3>1, <3>2, <3>3, <3>4, DemoMove
  <2>. QED  BY <2>1, <2>2 DEF Open
<1>. QED  BY <1>3, <1>4 DEF Inv, TypeOK

LEMMA LeaveInv ==
    ASSUME Inv, NEW k \in Mount, Leave(k)
    PROVE  Inv'
<1>1. /\ TypeOK /\ DemoInv /\ UNCHANGED engineVars /\ orders' = orders
      /\ shown \in [Mount -> Shown] /\ polls \in [Mount -> [Polls -> Poll]]
      /\ page \in [Mount -> Pages \cup {"off"}]
      /\ active \in Known \cup {0}
      /\ demo \in [Mount -> Demo]
  BY DEF Leave, engineVars, Inv, TypeOK, ViewTypeOK, ViewInv, DemoTypeOK
<1>2. /\ active' = active
      /\ page' = [page EXCEPT ![k] = "off"]
      /\ shown' = [shown EXCEPT ![k] = Blank]
      /\ polls' = [polls EXCEPT ![k] = [p \in Polls |-> NoPoll]]
  BY DEF Leave, ClosePage
<1>3. EngineTypeOK' /\ EngineInv' /\ ViewTypeOK' /\ ViewInv'
  <2>1. page' \in [Mount -> Pages \cup {"off"}]
    BY <1>1, <1>2
  <2>. DEFINE idle == [p \in Polls |-> NoPoll]
  <2>2. idle \in [Polls -> Poll] /\ Blank \in Shown
    BY BlankTrue
  <2>3. shown'[k] = Blank /\ polls'[k] = idle
    BY <1>1, <1>2
  <2>4. \A m \in Mount \ {k} : shown'[m] = shown[m] /\ polls'[m] = polls[m]
    BY <1>1, <1>2
  <2>5. shown' \in [Mount -> Shown] /\ polls' \in [Mount -> [Polls -> Poll]]
    BY <1>1, <1>2, <2>2
  <2>6. \A m \in Mount :
           \/ shown'[m] = shown[m] /\ polls'[m] = polls[m]
           \/ shown'[m] = Blank /\ polls'[m] = [p \in Polls |-> NoPoll]
    BY <2>3, <2>4
  <2>. QED  BY <1>1, <1>2, <2>1, <2>5, <2>6, PagesInv
<1>4. DemoTypeOK' /\ DemoInv'
  <2>1. CASE UNCHANGED demo
    BY <1>1, <2>1, DemoStays
  <2>2. CASE demo[k] # NoDemo /\ Cancel(k)
    <3>. DEFINE e == demo[k]
                d == [e EXCEPT !.cancelled = TRUE,
                               !.at = IF e.at = "grace" THEN "done" ELSE e.at]
    <3>1. demo' = [demo EXCEPT ![k] = d]
      BY <1>1, <2>2 DEF Cancel
    <3>2. /\ d \in Demo /\ d.at \in {e.at, "done"} /\ d.of = e.of /\ d.desk = e.desk
          /\ d.request = e.request /\ (d.at # e.at => e.at = "grace")
      BY <1>1 DEF Demo
    <3>3. /\ e.at \in {"off", "grace", "asked", "heard"} => e.request = "none"
          /\ e.at # "off" => e.of \in Known /\ e.desk \in Owner
      BY <1>1 DEF DemoInv
    <3>. HIDE DEF d
    <3>. QED  BY <1>1, <3>1, <3>2, <3>3, DemoMove
  <2>. QED  BY <2>1, <2>2 DEF Leave
<1>. QED  BY <1>3, <1>4 DEF Inv, TypeOK

LEMMA BroadcastInv ==
    ASSUME Inv, Broadcast
    PROVE  Inv'
<1>1. PICK i \in Known : setActiveOrder(i) /\ UNCHANGED <<engineVars, demo>>
  BY DEF Broadcast
<1>2. /\ active' = i /\ page' = page /\ shown' = shown /\ polls' = polls
      /\ UNCHANGED <<orders, demo>>
  BY <1>1 DEF setActiveOrder, engineVars
<1>3. /\ shown \in [Mount -> Shown] /\ polls \in [Mount -> [Polls -> Poll]]
      /\ page \in [Mount -> Pages \cup {"off"}]
  BY DEF Inv, TypeOK, ViewTypeOK
<1>4. EngineTypeOK' /\ EngineInv' /\ ViewTypeOK' /\ ViewInv'
  BY <1>1, <1>2, <1>3, PagesInv
<1>5. DemoTypeOK' /\ DemoInv'
  BY <1>2, DemoStays
<1>. QED  BY <1>4, <1>5 DEF Inv, TypeOK

LEMMA InvStep == Inv /\ [Next]_vars => Inv'
<1>. SUFFICES ASSUME Inv, [Next]_vars PROVE Inv'
  OBVIOUS
<1>1. CASE EngineStep /\ UNCHANGED <<viewVars, demo>>
  <2>1. EngineTypeOK' /\ EngineInv' /\ Later /\ UNCHANGED <<orders, demo>>
    BY <1>1, EngineStepInv DEF Inv, TypeOK
  <2>2. ViewTypeOK' /\ ViewInv'
    BY <1>1, <2>1, ViewsLast DEF Inv
  <2>3. DemoTypeOK' /\ DemoInv'
    BY <2>1, DemoStays
  <2>. QED  BY <2>1, <2>2, <2>3 DEF Inv, TypeOK
<1>2. ASSUME NEW o \in Incoming, Arrive(o), UNCHANGED <<viewVars, demo>>
      PROVE  Inv'
  BY <1>2, ArriveInv
<1>3. CASE Broadcast
  BY <1>3, BroadcastInv
<1>4. ASSUME NEW k \in Mount, NEW pg \in Pages, Open(k, pg)
      PROVE  Inv'
  BY <1>4, OpenInv
<1>5. ASSUME NEW k \in Mount, Leave(k)
      PROVE  Inv'
  BY <1>5, LeaveInv
<1>6. ASSUME NEW k \in Mount, NEW p \in Polls, PollStep(k, p), UNCHANGED <<engineVars, demo>>
      PROVE  Inv'
  <2>1. UNCHANGED <<orders, demo>> /\ UNCHANGED engineVars
    BY <1>6 DEF engineVars
  <2>2. EngineTypeOK' /\ EngineInv'
    BY <2>1, EngineStays
  <2>3. ViewTypeOK' /\ ViewInv'
    BY <1>6, <2>1, PollStepInv
  <2>4. DemoTypeOK' /\ DemoInv'
    BY <2>1, DemoStays
  <2>. QED  BY <2>2, <2>3, <2>4 DEF Inv, TypeOK
<1>7. ASSUME NEW k \in Mount, DemoStep(k), UNCHANGED viewVars
      PROVE  Inv'
  <2>1. CASE InsertCounter(k)
    BY <1>7, <2>1, InsertCounterInv
  <2>2. CASE DemoSilent(k) /\ UNCHANGED engineVars
    <3>1. orders' = orders
      BY <2>2 DEF engineVars
    <3>2. EngineTypeOK' /\ EngineInv' /\ Later
      BY <2>2, EngineStays
    <3>3. ViewTypeOK' /\ ViewInv'
      BY <1>7, <3>2, ViewsLast DEF Inv
    <3>4. DemoTypeOK' /\ DemoInv'
      BY <2>2, <3>1, DemoSilentInv DEF Inv
    <3>. QED  BY <3>2, <3>3, <3>4 DEF Inv, TypeOK
  <2>. QED  BY <1>7, <2>1, <2>2 DEF DemoStep, DemoSilent
<1>8. CASE UNCHANGED vars
  <2>1. UNCHANGED engineVars /\ UNCHANGED viewVars /\ UNCHANGED <<orders, demo>>
    BY <1>8 DEF vars, engineVars
  <2>2. EngineTypeOK' /\ EngineInv' /\ Later
    BY <2>1, EngineStays
  <2>3. ViewTypeOK' /\ ViewInv'
    BY <2>1, <2>2, ViewsLast DEF Inv
  <2>4. DemoTypeOK' /\ DemoInv'
    BY <2>1, DemoStays
  <2>. QED  BY <2>2, <2>3, <2>4 DEF Inv, TypeOK
<1>. QED  BY <1>1, <1>2, <1>3, <1>4, <1>5, <1>6, <1>7, <1>8 DEF Next

LEMMA InvHolds == Spec => []Inv
BY InitInv, InvStep, PTL DEF Spec

-----------------------------------------------------------------------------
(* The theorems.                                                            *)

\* The state of the engine, of the pages and of the demo effects is well typed;
\* in particular the orders never exceed MaxOthers plus a counter for each page.
THEOREM ScreensTypeCorrect == Spec => []TypeOK
<1>1. Inv => TypeOK
  BY DEF Inv
<1>. QED  BY <1>1, InvHolds, PTL

\* However many polls are under way, whatever the order of their answers and
\* however many pages are open, no page says of an order or of a match what the
\* engine has not recorded, and what it says stays so.
THEOREM ScreensNeverAhead == Spec => []NeverAhead
<1>1. Inv => NeverAhead
  <2>. SUFFICES ASSUME Inv, NEW k \in Opened PROVE
          /\ \A i \in Id : found(k, i) => i \in Known /\ match[i] # 0
          /\ \A i \in Id : statusLabel(k, i) = "settled" => Status(i) = "settled"
          /\ LET m == shown[k].match IN
               /\ buildStages(m, shown[k].row)[2] => record[m].proof
               /\ confirmed(k) => \A i \in Known : match[i] = m => Status(i) = "settled"
    BY DEF NeverAhead
  <2>. DEFINE s == shown[k]
  <2>1. /\ k \in Mount /\ EngineInv /\ EngineTypeOK
        /\ TrueListing(s.list) /\ TrueRow(s.match, s.row) /\ (s.match # 0 <=> s.row # None)
    BY DEF Inv, TypeOK, Opened, ViewInv, TrueShown
  <2>2. ASSUME NEW i \in Id, s.list # None, i \in DOMAIN s.list
        PROVE  /\ i \in Known
               /\ s.list[i].status # "open" => match[i] # 0
               /\ s.list[i].status = "settled" => match[i] # 0 /\ Status(i) = "settled"
    BY <2>1, <2>2 DEF TrueListing, Status
  <2>3. \A i \in Id : found(k, i) => i \in Known /\ match[i] # 0
    BY <2>2 DEF found, statusLabel
  <2>4. \A i \in Id : statusLabel(k, i) = "settled" => Status(i) = "settled"
    BY <2>2 DEF statusLabel
  <2>5. buildStages(s.match, s.row)[2] => record[s.match].proof
    BY <2>1 DEF buildStages, TrueRow
  <2>6. confirmed(k) => \A i \in Known : match[i] = s.match => Status(i) = "settled"
    BY <2>1, Bounds DEF confirmed, TrueRow, Status
  <2>. QED  BY <2>3, <2>4, <2>5, <2>6
<1>. QED  BY <1>1, InvHolds, PTL

\* The stages of the proofs page are done in their order, and a verification
\* that failed is one of a proven match: the parts of a row agree.
THEOREM ScreensStagesInOrder == Spec => []StagesInOrder
<1>1. Inv => StagesInOrder
  <2>. SUFFICES ASSUME Inv, NEW k \in Opened PROVE
          LET stages == buildStages(shown[k].match, shown[k].row) IN
          /\ \A s \in 1..3 : stages[s + 1] => stages[s]
          /\ failed(k) => stages[2]
    BY DEF StagesInOrder
  <2>. DEFINE m == shown[k].match
              row == shown[k].row
              stages == buildStages(m, row)
  <2>1. k \in Mount /\ TrueRow(m, row) /\ (m # 0 <=> row # None)
    BY DEF Inv, Opened, ViewInv, TrueShown
  <2>2. /\ stages[1] = (m # 0)
        /\ stages[2] = (m # 0 /\ row.proof)
        /\ stages[3] = (m # 0 /\ row.chain = "confirmed")
        /\ stages[4] = (m # 0 /\ row.chain = "confirmed")
    BY DEF buildStages
  <2>3. m # 0 /\ row.chain # "pending" => row.proof
    BY <2>1 DEF TrueRow
  <2>4. (stages[2] => stages[1]) /\ (stages[3] => stages[2]) /\ (stages[4] => stages[3])
    BY <2>2, <2>3
  <2>5. failed(k) => stages[2]
    BY <2>1, <2>2, <2>3 DEF failed
  <2>. HIDE DEF stages
  <2>6. \A s \in 1..3 : stages[s + 1] => stages[s]
    <3>. SUFFICES ASSUME NEW s \in 1..3, stages[s + 1] PROVE stages[s]
      OBVIOUS
    <3>1. s = 1 \/ s = 2 \/ s = 3
      OBVIOUS
    <3>2. CASE s = 1
      BY <2>4, <3>2
    <3>3. CASE s = 2
      BY <2>4, <3>3
    <3>4. CASE s = 3
      BY <2>4, <3>4
    <3>. QED  BY <3>1, <3>2, <3>3, <3>4
  <2>. QED  BY <2>5, <2>6 DEF stages
<1>. QED  BY <1>1, InvHolds, PTL

\* One mounting of the pool page leaves at most one counter with the engine,
\* also when its answer is lost, or the page is left while it is on its way.
THEOREM ScreensOneCounter == Spec => []OneCounter
<1>1. Inv => OneCounter
  <2>. SUFFICES ASSUME Inv, NEW k \in Mount
                PROVE  Cardinality({i \in Known : orders[i].by = k}) <= 1
    BY DEF OneCounter
  <2>. DEFINE S == {i \in Known : orders[i].by = k}
  <2>1. k # 0 /\ \A i, j \in S : i = j
    BY Bounds DEF Inv, DemoInv
  <2>2. ASSUME S = {} PROVE Cardinality(S) <= 1
    <3>. HIDE DEF S
    <3>. QED  BY <2>2, FS_EmptySet
  <2>3. ASSUME S # {} PROVE Cardinality(S) <= 1
    <3>1. PICK i \in S : TRUE
      BY <2>3
    <3>2. S = {i}
      BY <2>1, <3>1
    <3>. HIDE DEF S
    <3>3. Cardinality(S) = 1
      BY <3>2, FS_Singleton
    <3>. QED  BY <3>3
  <2>4. Cardinality(S) <= 1
    BY <2>2, <2>3
  <2>. QED  BY <2>4
<1>. QED  BY <1>1, InvHolds, PTL
-----------------------------------------------------------------------------
(* The engine that the pages read from is the one that MatchRows describes. *)

ConfirmedRows == {m \in Id : record[m] # None /\ record[m].chain = "confirmed"}
MatchesSettled == {m \in Id : \E i \in Known : match[i] = m /\ Status(i) = "settled"}

\* The status of an order is that of its match, and each match has an order.
LEMMA SettledAreConfirmed == Inv => MatchesSettled = ConfirmedRows
<1>. SUFFICES ASSUME Inv PROVE MatchesSettled = ConfirmedRows
  OBVIOUS
<1>1. Known \subseteq Id /\ 0 \notin Id /\ EngineInv
  BY KnownId, Bounds DEF Inv, TypeOK
<1>2. ASSUME NEW m \in Id, NEW i \in Known, match[i] = m, Status(i) = "settled"
      PROVE  m \in ConfirmedRows
  BY <1>1, <1>2 DEF Status, EngineInv, ConfirmedRows
<1>3. ASSUME NEW m \in ConfirmedRows PROVE m \in MatchesSettled
  <2>1. m \in Id /\ match[m] = m /\ record[m] # None /\ record[m].chain = "confirmed"
    BY <1>1 DEF ConfirmedRows, EngineInv
  <2>2. m \in Known
    BY <1>1, <2>1 DEF EngineInv
  <2>3. Status(m) = "settled"
    BY <1>1, <2>1 DEF Status
  <2>. QED  BY <2>1, <2>2, <2>3 DEF MatchesSettled
<1>. QED  BY <1>2, <1>3 DEF MatchesSettled, ConfirmedRows

\* The rows are all that readers learn of a match.
LEMMA TableKept ==
    ASSUME MatchesSettled = ConfirmedRows, MatchesSettled' = ConfirmedRows', record' = record
    PROVE  UNCHANGED Table!vars
<1>1. MatchesSettled' = MatchesSettled
  BY DEF ConfirmedRows
<1>. QED  BY <1>1 DEF Table!vars, MatchesSettled

\* A row appears, is proven, or takes another outcome.
LEMMA TableStep ==
    ASSUME EngineTypeOK, EngineInv, MatchesSettled = ConfirmedRows,
           MatchesSettled' = ConfirmedRows', EngineStep
    PROVE  [Table!Next]_(Table!vars)
<1>. DEFINE seen(m) == IF record[m] = None THEN "pending" ELSE record[m].chain
<1>1. /\ Known \subseteq Id /\ record \in [Id -> Row \cup {None}]
      /\ match \in [Id -> Id \cup {0}]
      /\ \A m \in Id : record[m] # None =>
            /\ record[m] \in Row /\ match[m] = m
            /\ record[m].chain \in {"pending", "failed", "confirmed"}
  BY KnownId DEF EngineTypeOK, EngineInv, Row
<1>2. ASSUME NEW i \in Known, NEW j \in Known, CreateMatch(i, j) PROVE Table!Next
  <2>. DEFINE new == [proof |-> FALSE, chain |-> "pending"]
  <2>1. /\ i \in Id /\ record[i] = None
        /\ record' = [record EXCEPT ![i] = new]
    BY <1>1, <1>2, Bounds DEF CreateMatch
  <2>2. new # None /\ new.proof = FALSE /\ new.chain = "pending"
    <3>1. new \in Row
      BY DEF Row
    <3>. QED  BY <3>1, ScreensAssumption
  <2>3. record'[i] = new /\ \A m \in Id \ {i} : record'[m] = record[m]
    BY <1>1, <2>1
  <2>. HIDE DEF new
  <2>4. {m \in Id : record[m] # None}' = {m \in Id : record[m] # None} \cup {i}
    BY <2>1, <2>2, <2>3
  <2>5. {m \in Id : record[m] # None /\ record[m].proof}'
            = {m \in Id : record[m] # None /\ record[m].proof}
    BY <2>1, <2>2, <2>3
  <2>6. [m \in Id |-> seen(m)]' = [m \in Id |-> seen(m)]
    BY <2>1, <2>2, <2>3
  <2>7. MatchesSettled' = MatchesSettled
    BY <2>1, <2>2, <2>3 DEF ConfirmedRows
  <2>8. Table!CreateMatch(i)
    BY <2>1, <2>4, <2>5, <2>6, <2>7 DEF Table!CreateMatch, MatchesSettled
  <2>. QED  BY <2>1, <2>8 DEF Table!Next
<1>3. ASSUME NEW m \in Known, SetProof(m) PROVE Table!Next
  <2>1. /\ m \in Id /\ record[m] # None /\ ~record[m].proof /\ record[m] \in Row
        /\ record' = [record EXCEPT ![m].proof = TRUE]
    BY <1>1, <1>3 DEF SetProof
  <2>2. /\ record'[m].proof = TRUE /\ record'[m].chain = record[m].chain
        /\ record'[m] \in Row
        /\ \A n \in Id \ {m} : record'[n] = record[n]
    BY <1>1, <2>1 DEF Row
  <2>3. record'[m] # None
    BY <2>2, ScreensAssumption
  <2>4. {n \in Id : record[n] # None}' = {n \in Id : record[n] # None}
    BY <2>1, <2>2, <2>3
  <2>5. {n \in Id : record[n] # None /\ record[n].proof}'
            = {n \in Id : record[n] # None /\ record[n].proof} \cup {m}
    BY <2>1, <2>2, <2>3
  <2>6. [n \in Id |-> seen(n)]' = [n \in Id |-> seen(n)]
    BY <2>1, <2>2, <2>3
  <2>7. MatchesSettled' = MatchesSettled
    BY <2>1, <2>2, <2>3 DEF ConfirmedRows
  <2>8. Table!SetProof(m)
    BY <2>1, <2>4, <2>5, <2>6, <2>7 DEF Table!SetProof, MatchesSettled
  <2>. QED  BY <2>1, <2>8 DEF Table!Next
<1>4. ASSUME NEW m \in Known, NEW s \in {"pending", "failed", "confirmed"},
             record[m] # None, record[m].proof, record[m].chain # "confirmed",
             record' = [record EXCEPT ![m].chain = s]
      PROVE  Table!Outcome(m, s) /\ m \in Id
             /\ MatchesSettled' = IF s = "confirmed" THEN MatchesSettled \cup {m} ELSE MatchesSettled
  <2>1. m \in Id /\ record[m] \in Row
    BY <1>1, <1>4
  <2>2. /\ record'[m].chain = s /\ record'[m].proof = record[m].proof
        /\ record'[m] \in Row
        /\ \A n \in Id \ {m} : record'[n] = record[n]
    BY <1>1, <1>4, <2>1 DEF Row
  <2>3. record'[m] # None
    BY <2>2, ScreensAssumption
  <2>4. {n \in Id : record[n] # None}' = {n \in Id : record[n] # None}
    BY <1>4, <2>1, <2>2, <2>3
  <2>5. {n \in Id : record[n] # None /\ record[n].proof}'
            = {n \in Id : record[n] # None /\ record[n].proof}
    BY <1>4, <2>1, <2>2, <2>3
  <2>6. [n \in Id |-> seen(n)]' = [[n \in Id |-> seen(n)] EXCEPT ![m] = s]
    <3>1. \A n \in Id : seen(n)' = IF n = m THEN s ELSE seen(n)
      BY <1>4, <2>1, <2>2, <2>3
    <3>. HIDE DEF seen
    <3>. QED  BY <3>1
  <2>7. ConfirmedRows' = IF s = "confirmed" THEN ConfirmedRows \cup {m} ELSE ConfirmedRows
    BY <1>4, <2>1, <2>2, <2>3 DEF ConfirmedRows
  <2>8. Table!Outcome(m, s)
    BY <1>4, <2>1, <2>4, <2>5, <2>6 DEF Table!Outcome
  <2>. QED  BY <2>1, <2>7, <2>8
<1>5. ASSUME NEW m \in Known, MarkSettled(m) PROVE Table!Next
  <2>1. Table!Outcome(m, "confirmed") /\ m \in Id /\ MatchesSettled' = MatchesSettled \cup {m}
    BY <1>4, <1>5 DEF MarkSettled
  <2>2. Table!MarkSettled(m)
    BY <2>1 DEF Table!MarkSettled, MatchesSettled
  <2>. QED  BY <2>1, <2>2 DEF Table!Next
<1>6. ASSUME NEW m \in Known, NEW s \in {"pending", "failed"}, SetOnchain(m, s)
      PROVE  Table!Next
  <2>1. Table!Outcome(m, s) /\ m \in Id /\ MatchesSettled' = MatchesSettled
    BY <1>4, <1>6 DEF SetOnchain
  <2>2. Table!SetOnchain(m, s)
    BY <2>1 DEF Table!SetOnchain, MatchesSettled
  <2>. QED  BY <2>1, <2>2 DEF Table!Next
<1>. QED  BY <1>2, <1>3, <1>5, <1>6 DEF EngineStep

LEMMA TableNext ==
    ASSUME Inv, MatchesSettled = ConfirmedRows, MatchesSettled' = ConfirmedRows', [Next]_vars
    PROVE  [Table!Next]_(Table!vars)
<1>1. CASE EngineStep
  BY <1>1, TableStep DEF Inv, TypeOK
<1>2. ASSUME record' = record PROVE [Table!Next]_(Table!vars)
  BY <1>2, TableKept
<1>3. ASSUME NEW o, Arrive(o) PROVE record' = record
  BY <1>3 DEF Arrive, InsertOrder
<1>4. CASE Broadcast
  BY <1>2, <1>4 DEF Broadcast, engineVars
<1>5. ASSUME NEW k, NEW pg, Open(k, pg) PROVE record' = record
  BY <1>5 DEF Open, engineVars
<1>6. ASSUME NEW k, Leave(k) PROVE record' = record
  BY <1>6 DEF Leave, engineVars
<1>7. ASSUME NEW k, DemoStep(k) PROVE record' = record
  BY <1>7 DEF DemoStep, InsertCounter, InsertOrder, engineVars
<1>8. CASE UNCHANGED vars
  BY <1>2, <1>8 DEF vars, engineVars
<1>. QED  BY <1>1, <1>2, <1>3, <1>4, <1>5, <1>6, <1>7, <1>8 DEF Next, engineVars

\* What the pages are checked against does nothing that the tables of the pipeline
\* do not do: a row appears, is proven, is attempted, and is confirmed with its orders.
THEOREM ScreensReadMatchRows == Spec => ReadsMatchRows
<1>1. Init => Table!Init
  <2>. SUFFICES ASSUME Init PROVE Table!Init
    OBVIOUS
  <2>1. /\ \A m \in Id : record[m] = None
        /\ Known = {}
    BY DEF Init, EngineInit, Known
  <2>. QED  BY <2>1 DEF Table!Init
<1>2. Spec => [](MatchesSettled = ConfirmedRows)
  BY SettledAreConfirmed, InvHolds, PTL
<1>3. Inv /\ MatchesSettled = ConfirmedRows /\ (MatchesSettled = ConfirmedRows)' /\ [Next]_vars
        => [Table!Next]_(Table!vars)
  BY TableNext
<1>. QED  BY <1>1, <1>2, <1>3, InvHolds, PTL DEF Spec, ReadsMatchRows, Table!Spec
=============================================================================
