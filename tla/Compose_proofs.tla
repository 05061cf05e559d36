--------------------------- MODULE Compose_proofs ---------------------------
(***************************************************************************)
(* Proofs about Compose, for any tabs, scripts, desks and pairs, any texts *)
(* a user may type, and any number of calls and seals.                     *)
(***************************************************************************)
EXTENDS Compose, FiniteSetTheorems, TLAPS

-----------------------------------------------------------------------------
(* The data.                                                                *)

LEMMA Scaled ==
  ASSUME NEW x \in Text
  PROVE  PriceInt(x) \in Nat /\ SizeInt(x) \in Nat
<1>1. x.digits \in Nat
  BY DEF Text
<1>2. x.digits * 100 \in Nat /\ x.digits * 10 \in Nat /\ x.digits * 1 \in Nat
  BY <1>1
<1> QED BY <1>1, <1>2 DEF PriceInt, SizeInt, ScaleUp

LEMMA SealType ==
  ASSUME NEW p \in Nat, NEW v \in Nat, NEW s \in Nat
  PROVE  Seal(p, v, s) \in Sealed
BY DEF Seal, Sealed, Commitment, Nullifier

\* A seal commits to its own values.
Proper(s) ==
    /\ InRange(s.priceInt) /\ InRange(s.volumeInt)
    /\ s = Seal(s.priceInt, s.volumeInt, s.salt)

LEMMA SealProper ==
  ASSUME NEW p, NEW v, NEW s, InRange(p), InRange(v)
  PROVE  Proper(Seal(p, v, s))
BY DEF Proper, Seal

-----------------------------------------------------------------------------
(* The calls.  Whatever the tabs do, all that happens to a call is that it *)
(* is posted, handled by the engine, or that its caller hears of it.        *)

\* A call carries a body from the moment it is posted.
CallInv ==
    \A c \in Call :
        IF up[c] = "idle" THEN from[c] = None
        ELSE from[c] \in Client /\ body[c] \in Body

\* The engine has checked what is in the book.
BookInv ==
    /\ \A c \in Book : Acceptable(body[c])
    /\ \A c, d \in Book : body[c].nullifier = body[d].nullifier => c = d

Told == /\ UNCHANGED <<body, from, up>>
        /\ down' \in [Call -> Downs]

Handled(c) == Refuse(c) \/ Insert(c) \/ Duplicate(c) \/ Drop(c)

Posted(c) ==
    \E who \in Client, b \in Body, awaited \in Downs : post(who, b, c, awaited)

IntakeMove ==
    \/ Told
    \/ \E c \in Call : Handled(c)
    \/ \E c \in Call : Posted(c)

LEMMA TypeMove ==
  ASSUME IntakeTypeOK, CallInv, IntakeMove
  PROVE  IntakeTypeOK' /\ CallInv'
<1>1. CASE Told
  BY <1>1 DEF Told, IntakeTypeOK, CallInv
<1>2. ASSUME NEW c \in Call, Handled(c) PROVE IntakeTypeOK' /\ CallInv'
  <2>1. /\ up[c] = "travelling"
        /\ \E u \in Ups \ {"idle"} : up' = [up EXCEPT ![c] = u]
        /\ UNCHANGED <<body, from, down>>
    BY <1>2 DEF Handled, Refuse, Insert, Duplicate, Drop, Ups
  <2>2. PICK u \in Ups \ {"idle"} : up' = [up EXCEPT ![c] = u]
    BY <2>1
  <2> QED BY <2>1, <2>2 DEF IntakeTypeOK, CallInv
<1>3. ASSUME NEW c \in Call, Posted(c) PROVE IntakeTypeOK' /\ CallInv'
  <2>1. PICK who \in Client, b \in Body, awaited \in Downs : post(who, b, c, awaited)
    BY <1>3 DEF Posted
  <2>2. "travelling" \in Ups
    BY DEF Ups
  <2> QED BY <2>1, <2>2 DEF post, IntakeTypeOK, CallInv
<1> QED BY <1>1, <1>2, <1>3 DEF IntakeMove

\* A call in the book stays there, as it is; a call that was posted keeps its body.
LEMMA BookGrows ==
  ASSUME IntakeTypeOK, IntakeMove
  PROVE  /\ Book \subseteq Book'
         /\ \A c \in Call : up[c] # "idle" =>
                body'[c] = body[c] /\ from'[c] = from[c] /\ up'[c] # "idle"
<1>1. CASE Told
  BY <1>1 DEF Told, Book
<1>2. ASSUME NEW c \in Call, Handled(c)
      PROVE  /\ Book \subseteq Book'
             /\ \A d \in Call : up[d] # "idle" =>
                    body'[d] = body[d] /\ from'[d] = from[d] /\ up'[d] # "idle"
  BY <1>2 DEF Handled, Refuse, Insert, Duplicate, Drop, Book, IntakeTypeOK
<1>3. ASSUME NEW c \in Call, Posted(c)
      PROVE  /\ Book \subseteq Book'
             /\ \A d \in Call : up[d] # "idle" =>
                    body'[d] = body[d] /\ from'[d] = from[d] /\ up'[d] # "idle"
  BY <1>3 DEF Posted, post, IsNextCall, Book, IntakeTypeOK
<1> QED BY <1>1, <1>2, <1>3 DEF IntakeMove

LEMMA BookMove ==
  ASSUME IntakeTypeOK, BookInv, IntakeMove
  PROVE  BookInv'
<1>1. CASE Told
  BY <1>1 DEF Told, BookInv, Book
<1>2. ASSUME NEW c \in Call, Handled(c) PROVE BookInv'
  <2>1. CASE Insert(c)
    <3>1. Acceptable(body[c]) /\ ~Taken(body[c].nullifier) /\ body' = body
      BY <2>1 DEF Insert
    <3>2. Book' = Book \cup {c}
      BY <2>1 DEF Insert, Book, IntakeTypeOK
    <3>3. \A d \in Book : body[d].nullifier # body[c].nullifier
      BY <3>1 DEF Taken
    <3> QED BY <3>1, <3>2, <3>3 DEF BookInv
  <2>2. CASE Refuse(c) \/ Duplicate(c) \/ Drop(c)
    <3>1. Book' = Book /\ body' = body
      BY <2>2 DEF Refuse, Duplicate, Drop, Book, IntakeTypeOK
    <3> QED BY <3>1 DEF BookInv
  <2> QED BY <1>2, <2>1, <2>2 DEF Handled
<1>3. ASSUME NEW c \in Call, Posted(c) PROVE BookInv'
  <2>1. up[c] = "idle" /\ Book' = Book /\ c \notin Book /\ \A d \in Book : body'[d] = body[d]
    BY <1>3 DEF Posted, post, IsNextCall, Book, IntakeTypeOK
  <2> QED BY <2>1 DEF BookInv
<1> QED BY <1>1, <1>2, <1>3 DEF IntakeMove

-----------------------------------------------------------------------------
(* What a tab broadcasts.                                                   *)

SealInv == \A t \in Tab : sealed[t] # None => Proper(sealed[t])

LEMMA OrderBodySound ==
  ASSUME TypeOK, SealInv, NEW t \in Tab, Click(t), desk # None
  PROVE  LET b == OrderBody(t) IN
         /\ b \in Body
         /\ InRange(b.price) /\ InRange(b.volume)
         /\ b.commitment = [price |-> b.price, volume |-> b.volume, salt |-> b.salt]
         /\ b.nullifier = [commitment |-> b.commitment, salt |-> b.salt]
         /\ b.nullifier.salt = sealed[t].salt
<1> DEFINE s == sealed[t]
<1>1. s \in Sealed /\ Proper(s)
  BY DEF TypeOK, SealInv, Click
<1>2. /\ s.priceInt \in Nat /\ s.volumeInt \in Nat /\ s.salt \in Nat
      /\ s.commitment \in Commitment /\ s.nullifier \in Nullifier
  BY <1>1 DEF Sealed
<1>3. /\ s.commitment = [price |-> s.priceInt, volume |-> s.volumeInt, salt |-> s.salt]
      /\ s.nullifier = [commitment |-> s.commitment, salt |-> s.salt]
  <2>1. s = Seal(s.priceInt, s.volumeInt, s.salt)
    BY <1>1 DEF Proper
  <2>2. Seal(s.priceInt, s.volumeInt, s.salt).commitment
          = [price |-> s.priceInt, volume |-> s.volumeInt, salt |-> s.salt]
    BY DEF Seal
  <2>3. Seal(s.priceInt, s.volumeInt, s.salt).nullifier
          = [commitment |-> [price |-> s.priceInt, volume |-> s.volumeInt, salt |-> s.salt],
             salt |-> s.salt]
    BY DEF Seal
  <2> QED BY <2>1, <2>2, <2>3
<1>4. desk \in Desk /\ form[t].pair \in Pair /\ Lower(form[t].side) \in Side
  BY DEF TypeOK, SessionTypeOK, Form, Lower, Side
<1>5. signCommitment(desk, s.commitment) \in Signature
  BY <1>2, <1>4 DEF signCommitment, Signature
<1>6. OrderBody(t) \in Body
  BY <1>2, <1>4, <1>5 DEF OrderBody, Body
<1>7. InRange(s.priceInt) /\ InRange(s.volumeInt)
  BY <1>1 DEF Proper
<1> QED BY <1>3, <1>6, <1>7 DEF OrderBody

\* Who posts, and what.
LEMMA BroadcastPosts ==
  ASSUME TypeOK, SealInv, NEW t \in Tab, Broadcast(t)
  PROVE  \E c \in Call : Posted(c)
<1>1. PICK c \in Call : createOrder(t, OrderBody(t), c)
  BY DEF Broadcast
<1>2. OrderBody(t) \in Body
  BY OrderBodySound DEF Broadcast
<1>3. t \in Client /\ "waiting" \in Downs
  BY ComposeAssumption DEF Downs
<1> QED BY <1>1, <1>2, <1>3 DEF Posted, createOrder

LEMMA ScriptPosts ==
  ASSUME NEW s \in Scripts, Post(s)
  PROVE  \E c \in Call : Posted(c)
<1>1. PICK b \in Raw, c \in Call : post(s, b, c, "closed")
  BY DEF Post
<1>2. b \in Body /\ s \in Client /\ "closed" \in Downs
  BY ComposeAssumption DEF Downs
<1> QED BY <1>1, <1>2 DEF Posted

LEMMA TabMoves ==
  ASSUME TypeOK, SealInv, NEW t \in Tab, TabStep(t)
  PROVE  IntakeMove
<1> USE DEF intakeVars
<1>0. UNCHANGED intakeVars => Told
  BY DEF Told, TypeOK, IntakeTypeOK
<1>1. CASE SessionStep(t) /\ UNCHANGED <<intakeVars, composeVars>>
  BY <1>0, <1>1 DEF IntakeMove
<1>2. CASE Mount(t) \/ Restore(t) \/ Edit(t) \/ SealDone(t)
  <2>1. UNCHANGED intakeVars
    BY <1>2 DEF Mount, Restore, Edit, SealDone, Show
  <2> QED BY <1>0, <2>1 DEF IntakeMove
<1>3. CASE Leave(t) \/ SignOut(t) \/ NoDesk(t) \/ Render(t)
  <2>1. UNCHANGED intakeVars
    BY <1>3 DEF Leave, SignOut, NoDesk, Render
  <2> QED BY <1>0, <2>1 DEF IntakeMove
<1>4. CASE Reload(t) \/ Succeed(t) \/ Fail(t)
  <2>1. UNCHANGED <<body, from, up>>
    BY <1>4 DEF Reload, Succeed, Fail, Close
  <2>2. down \in [Call -> Downs] /\ "closed" \in Downs
    BY DEF TypeOK, IntakeTypeOK, Downs
  <2>3. CASE Reload(t)
    BY <2>1, <2>2, <2>3 DEF Reload, Told, IntakeMove
  <2>4. CASE Succeed(t) \/ Fail(t)
    <3>1. PICK c \in Call : Close(c)
      BY <2>4 DEF Succeed, Fail
    <3> QED BY <2>1, <2>2, <3>1 DEF Close, Told, IntakeMove
  <2> QED BY <1>4, <2>3, <2>4
<1>5. CASE Broadcast(t)
  BY <1>5, BroadcastPosts DEF IntakeMove
<1> QED BY <1>1, <1>2, <1>3, <1>4, <1>5 DEF TabStep

LEMMA Moves ==
  ASSUME TypeOK, SealInv, [Next]_vars
  PROVE  IntakeMove
<1>1. CASE \E t \in Tab : TabStep(t)
  BY <1>1, TabMoves
<1>2. ASSUME NEW c \in Call, IntakeStep(c) PROVE IntakeMove
  <2>1. CASE Answer(c) \/ GiveUp(c)
    <3>1. down \in [Call -> Downs] /\ {"answered", "lost"} \subseteq Downs
      BY DEF TypeOK, IntakeTypeOK, Downs
    <3> QED BY <2>1, <3>1 DEF Answer, GiveUp, Told, IntakeMove
  <2>2. CASE Handled(c)
    BY <2>2 DEF IntakeMove
  <2> QED BY <1>2, <2>1, <2>2 DEF IntakeStep, handleCreateOrder, proxy, Handled
<1>3. ASSUME NEW s \in Scripts, Post(s) PROVE IntakeMove
  BY <1>3, ScriptPosts DEF IntakeMove
<1>4. CASE UNCHANGED vars
  BY <1>4 DEF vars, intakeVars, Told, TypeOK, IntakeTypeOK, IntakeMove
<1> QED BY <1>1, <1>2, <1>3, <1>4 DEF Next

-----------------------------------------------------------------------------
(* Types.                                                                   *)

FormType == /\ form \in [Tab -> Form]
            /\ restoring \in [Tab -> Form \cup {None}]
            /\ draft \in Form \cup {None}

SealsType == /\ drawn \in 0..MaxDraws
             /\ pending \in [Tab -> SUBSET Task]
             /\ current \in [Tab -> 0..MaxDraws]
             /\ sealed \in [Tab -> Sealed \cup {None}]

SendType == /\ busyRef \in [Tab -> BOOLEAN]
            /\ busy \in [Tab -> BOOLEAN]
            /\ mine \in [Tab -> SUBSET Call]
            /\ err \in [Tab -> {"none", "no desk", "already broadcast", "failed"}]

TabType == SessionTypeOK /\ FormType /\ SealsType /\ SendType

LEMMA TypeParts ==
  TypeOK <=> TabType /\ IntakeTypeOK /\ active \in ActiveOrder \cup {None}
BY DEF TypeOK, TabType, FormType, SealsType, SendType

LEMMA InitType == Init => TypeOK
<1> SUFFICES ASSUME Init PROVE TypeOK
  OBVIOUS
<1>1. SessionTypeOK
  BY DEF Init, SessionInit, SessionTypeOK, Pages, NoOffer, Offer
<1>2. IntakeTypeOK
  BY DEF Init, IntakeInit, IntakeTypeOK, Ups, Downs
<1>3. 0 \in 0..MaxDraws /\ Default \in Form
  BY ComposeAssumption
<1> QED BY <1>1, <1>2, <1>3 DEF Init, TypeOK

LEMMA SessionType ==
  ASSUME SessionTypeOK, NEW t \in Tab, SessionStep(t)
  PROVE  SessionTypeOK'
<1> USE DEF SessionTypeOK, Pages
<1>1. NoOffer \in Offer /\ \A o \in Offer : o.existing \in Desk \cup {None} /\ o.generated \in Desk \cup {None}
  BY DEF NoOffer, Offer
<1>2. ASSUME NEW d \in Desk
      PROVE  /\ [NoOffer EXCEPT !.existing = d] \in Offer
             /\ [NoOffer EXCEPT !.generated = d] \in Offer
             /\ \A o \in Offer : [o EXCEPT !.generated = d] \in Offer
  BY DEF NoOffer, Offer
<1>3. CASE OpenAccess(t)
  BY <1>2, <1>3 DEF OpenAccess
<1>4. CASE UseDifferent(t)
  BY <1>2, <1>4 DEF UseDifferent
<1>5. CASE regenerate(t)
  <2>1. PICK d \in Desk : offer' = [offer EXCEPT ![t] = [offer[t] EXCEPT !.generated = d]]
    BY <1>5 DEF regenerate
  <2>2. [offer[t] EXCEPT !.generated = d] \in Offer
    BY <1>2
  <2> QED BY <1>5, <2>1, <2>2 DEF regenerate
<1>6. CASE \E d \in Desk : signIn(t, d)
  BY <1>1, <1>6 DEF signIn
<1>7. CASE AuthGate(t)
  BY <1>7 DEF AuthGate
<1>8. Continue(t) \/ authenticate(t) \/ authenticateImport(t) => \E d \in Desk : signIn(t, d)
  BY <1>1 DEF Continue, authenticate, authenticateImport
<1> QED BY <1>3, <1>4, <1>5, <1>6, <1>7, <1>8 DEF SessionStep

LEMMA ShowType ==
  ASSUME FormType, SealsType, NEW t \in Tab, NEW f \in Form, Show(t, f)
  PROVE  /\ form' \in [Tab -> Form] /\ draft' \in Form
         /\ SealsType'
<1>1. CASE StartSeal(t, f)
  <2> DEFINE k == [salt |-> drawn + 1, price |-> f.price, size |-> f.size]
  <2>1. drawn + 1 \in 1..MaxDraws /\ drawn + 1 \in 0..MaxDraws
    BY <1>1, ComposeAssumption DEF StartSeal, SealsType
  <2>2. k \in Task
    BY <2>1 DEF Task, Form
  <2> QED BY <1>1, <2>1, <2>2 DEF StartSeal, Show, FormType, SealsType
<1>2. CASE UNCHANGED <<drawn, pending, current>>
  BY <1>2 DEF Show, FormType, SealsType
<1> QED BY <1>1, <1>2 DEF Show

LEMMA UnmountType ==
  ASSUME TabType, NEW t \in Tab, Unmount(t)
  PROVE  /\ form' \in [Tab -> Form]
         /\ restoring' \in [Tab -> Form \cup {None}]
         /\ pending' \in [Tab -> SUBSET Task]
         /\ current' \in [Tab -> 0..MaxDraws]
         /\ sealed' \in [Tab -> Sealed \cup {None}]
         /\ SendType'
<1>1. 0 \in 0..MaxDraws /\ Default \in Form
  BY ComposeAssumption
<1> QED BY <1>1 DEF Unmount, TabType, FormType, SealsType, SendType

\* The value of a seal that resolves.
Resolved(k) ==
    IF priceToInt(k.price) /\ sizeToInt(k.size)
    THEN Seal(PriceInt(k.price), SizeInt(k.size), k.salt)
    ELSE None

LEMMA ResolvedType ==
  ASSUME NEW k \in Task
  PROVE  /\ Resolved(k) \in Sealed \cup {None}
         /\ Resolved(k) # None => /\ Proper(Resolved(k))
                                  /\ Resolved(k).salt = k.salt
                                  /\ Resolved(k).priceInt = PriceInt(k.price)
                                  /\ Resolved(k).volumeInt = SizeInt(k.size)
<1>1. k.price \in Text /\ k.size \in Text /\ k.salt \in Nat
  BY ComposeAssumption DEF Task
<1>2. PriceInt(k.price) \in Nat /\ SizeInt(k.size) \in Nat
  BY <1>1, Scaled
<1>3. CASE priceToInt(k.price) /\ sizeToInt(k.size)
  <2> DEFINE s == Seal(PriceInt(k.price), SizeInt(k.size), k.salt)
  <2>1. Resolved(k) = s
    BY <1>3 DEF Resolved
  <2>2. InRange(PriceInt(k.price)) /\ InRange(SizeInt(k.size))
    BY <1>3 DEF priceToInt, sizeToInt
  <2>3. s \in Sealed
    BY <1>1, <1>2, SealType
  <2>4. Proper(s)
    BY <2>2, SealProper
  <2>5. s.salt = k.salt /\ s.priceInt = PriceInt(k.price) /\ s.volumeInt = SizeInt(k.size)
    BY DEF Seal
  <2> QED BY <2>1, <2>3, <2>4, <2>5
<1>4. CASE ~(priceToInt(k.price) /\ sizeToInt(k.size))
  BY <1>4 DEF Resolved
<1> QED BY <1>3, <1>4

\* An edit changes one field of the form.
LEMMA Edited ==
  ASSUME FormType, NEW t \in Tab, Edit(t)
  PROVE  /\ page[t] = "compose" /\ UNCHANGED restoring
         /\ \E f \in Form : Show(t, f)
<1>1. PICK f \in {[form[t] EXCEPT !.pair = p] : p \in Pair}
           \cup {[form[t] EXCEPT !.side = s] : s \in {"BID", "ASK"}}
           \cup {[form[t] EXCEPT !.price = x] : x \in PriceText}
           \cup {[form[t] EXCEPT !.size = x] : x \in SizeText} : Show(t, f)
  BY DEF Edit
<1>2. form[t] \in Form
  BY DEF FormType
<1>3. /\ \A p \in Pair : [form[t] EXCEPT !.pair = p] \in Form
      /\ \A s \in {"BID", "ASK"} : [form[t] EXCEPT !.side = s] \in Form
      /\ \A x \in PriceText : [form[t] EXCEPT !.price = x] \in Form
      /\ \A x \in SizeText : [form[t] EXCEPT !.size = x] \in Form
  BY <1>2 DEF Form
<1>4. f \in Form
  BY <1>1, <1>3
<1> QED BY <1>1, <1>4 DEF Edit

LEMMA MetaType ==
  ASSUME TypeOK, CallInv, BookInv, NEW c \in Book
  PROVE  Meta(c) \in ActiveOrder
<1>1. c \in Call /\ Acceptable(body[c])
  BY DEF Book, BookInv
<1>2. body[c] \in Body
  BY <1>1 DEF CallInv, Book
<1> QED BY <1>1, <1>2 DEF Acceptable, WellFormed, Meta, ActiveOrder, Body

\* A seal of t that resolves is k, of its pending ones.
LEMMA SealDoneIs ==
  ASSUME TabType, NEW t \in Tab, SealDone(t)
  PROVE  \E k \in pending[t] :
           /\ k \in Task
           /\ pending' = [pending EXCEPT ![t] = @ \ {k}]
           /\ sealed' = IF ~Heard(t, k) THEN sealed
                        ELSE [sealed EXCEPT ![t] = Resolved(k)]
           /\ UNCHANGED <<sessionVars, intakeVars, formVars, sendVars, active, drawn, current>>
<1>1. PICK k \in pending[t] :
           /\ pending' = [pending EXCEPT ![t] = @ \ {k}]
           /\ sealed' = IF ~Heard(t, k) THEN sealed
                        ELSE [sealed EXCEPT ![t] = Resolved(k)]
           /\ UNCHANGED <<sessionVars, intakeVars, formVars, sendVars, active, drawn, current>>
  BY DEF SealDone, Resolved
<1>2. k \in Task
  BY DEF TabType, SealsType
<1> QED BY <1>1, <1>2

LEMMA TabTypeStep ==
  ASSUME TypeOK, CallInv, BookInv, NEW t \in Tab, TabStep(t)
  PROVE  TabType' /\ active' \in ActiveOrder \cup {None}
<1>0. TabType /\ active \in ActiveOrder \cup {None}
  BY TypeParts
<1> USE DEF sessionVars, formVars, sealVars, sendVars
<1>1. CASE SessionStep(t) /\ UNCHANGED <<intakeVars, composeVars>>
  BY <1>0, <1>1, SessionType DEF TabType, composeVars, FormType, SealsType, SendType
<1>2. CASE Mount(t)
  <2>1. Default \in Form /\ "compose" \in Pages
    BY ComposeAssumption DEF Pages
  <2>2. drawn + 1 \in 1..MaxDraws /\ drawn + 1 \in 0..MaxDraws
    BY <1>0, <1>2, ComposeAssumption DEF Mount, StartSeal, TabType, SealsType
  <2>3. [salt |-> drawn + 1, price |-> Default.price, size |-> Default.size] \in Task
    BY <2>1, <2>2 DEF Task, Form
  <2>4. SealsType'
    BY <1>0, <1>2, <2>2, <2>3 DEF Mount, StartSeal, TabType, SealsType
  <2>5. FormType' /\ SendType' /\ SessionTypeOK'
    BY <1>0, <1>2, <2>1 DEF Mount, TabType, FormType, SendType, SessionTypeOK
  <2> QED BY <1>0, <1>2, <2>4, <2>5 DEF Mount, TabType
<1>3. CASE Restore(t)
  <2>1. restoring[t] \in Form /\ Show(t, restoring[t])
    BY <1>0, <1>3 DEF Restore, TabType, FormType
  <2>2. form' \in [Tab -> Form] /\ draft' \in Form /\ SealsType'
    BY <1>0, <2>1, ShowType DEF TabType
  <2> QED BY <1>0, <1>3, <2>1, <2>2 DEF Restore, Show, TabType, FormType, SendType, SessionTypeOK
<1>4. CASE Edit(t)
  <2>1. PICK f \in Form : Show(t, f)
    BY <1>0, <1>4, Edited DEF TabType
  <2>2. form' \in [Tab -> Form] /\ draft' \in Form /\ SealsType'
    BY <1>0, <2>1, ShowType DEF TabType
  <2> QED BY <1>0, <1>4, <2>1, <2>2 DEF Edit, Show, TabType, FormType, SendType, SessionTypeOK
<1>5. CASE SealDone(t)
  <2>1. PICK k \in pending[t] :
           /\ k \in Task
           /\ pending' = [pending EXCEPT ![t] = @ \ {k}]
           /\ sealed' = IF ~Heard(t, k) THEN sealed
                        ELSE [sealed EXCEPT ![t] = Resolved(k)]
           /\ UNCHANGED <<sessionVars, intakeVars, formVars, sendVars, active, drawn, current>>
    BY <1>0, <1>5, SealDoneIs
  <2>2. Resolved(k) \in Sealed \cup {None}
    BY <2>1, ResolvedType
  <2>3. SealsType'
    BY <1>0, <2>1, <2>2 DEF TabType, SealsType
  <2> QED BY <1>0, <2>1, <2>3 DEF TabType, FormType, SendType, SessionTypeOK
<1>6. CASE Leave(t) \/ SignOut(t) \/ Reload(t)
  <2>1. Unmount(t) /\ UNCHANGED <<drawn, active, draft>>
    BY <1>6 DEF Leave, SignOut, Reload
  <2>2. SessionTypeOK'
    BY <1>0, <1>6 DEF Leave, SignOut, Reload, signOut, TabType, SessionTypeOK, Pages
  <2> QED BY <1>0, <2>1, <2>2, UnmountType DEF TabType, FormType, SealsType
<1>7. CASE NoDesk(t) \/ Broadcast(t) \/ Render(t)
  <2>1. UNCHANGED <<sessionVars, formVars, sealVars, active>>
    BY <1>7 DEF NoDesk, Broadcast, Render
  <2>2. ASSUME NoDesk(t) PROVE SendType'
    BY <1>0, <2>2 DEF NoDesk, TabType, SendType
  <2>3. ASSUME Broadcast(t) PROVE SendType'
    <3>1. PICK c \in Call : mine' = [mine EXCEPT ![t] = @ \cup {c}]
      BY <2>3 DEF Broadcast
    <3> QED BY <1>0, <2>3, <3>1 DEF Broadcast, TabType, SendType
  <2>4. ASSUME Render(t) PROVE SendType'
    BY <1>0, <2>4 DEF Render, TabType, SendType
  <2>5. SendType'
    BY <1>7, <2>2, <2>3, <2>4
  <2> QED BY <1>0, <2>1, <2>5 DEF TabType, SessionTypeOK, FormType, SealsType
<1>8. CASE Succeed(t)
  <2>1. PICK c \in Call : /\ up[c] = "inserted"
                          /\ active' \in {active, Meta(c)}
                          /\ PushShell(t) /\ Unmount(t)
                          /\ UNCHANGED <<desk, drawn, draft>>
    BY <1>8 DEF Succeed
  <2>2. Meta(c) \in ActiveOrder
    BY <2>1, MetaType DEF Book
  <2>3. SessionTypeOK'
    BY <1>0, <2>1 DEF PushShell, TabType, SessionTypeOK, Pages, NoOffer, Offer
  <2> QED BY <1>0, <2>1, <2>2, <2>3, UnmountType DEF TabType, FormType, SealsType
<1>9. CASE Fail(t)
  <2>1. UNCHANGED <<sessionVars, formVars, sealVars, busy, active>>
    BY <1>9 DEF Fail
  <2>2. \/ UNCHANGED <<busyRef, mine, err>>
        \/ \E c \in Call, e \in {"already broadcast", "failed"} :
              /\ busyRef' = [busyRef EXCEPT ![t] = FALSE]
              /\ mine' = [mine EXCEPT ![t] = @ \ {c}]
              /\ err' = [err EXCEPT ![t] = e]
    BY <1>9 DEF Fail
  <2>3. SendType'
    BY <1>0, <2>1, <2>2 DEF TabType, SendType
  <2> QED BY <1>0, <2>1, <2>3 DEF TabType, SessionTypeOK, FormType, SealsType
<1> QED BY <1>1, <1>2, <1>3, <1>4, <1>5, <1>6, <1>7, <1>8, <1>9 DEF TabStep

LEMMA TypeStep ==
  ASSUME TypeOK, CallInv, BookInv, SealInv, [Next]_vars
  PROVE  TypeOK'
<1>1. IntakeTypeOK'
  BY Moves, TypeMove DEF TypeOK
<1>2. ASSUME NEW t \in Tab, TabStep(t) PROVE TabType' /\ active' \in ActiveOrder \cup {None}
  BY <1>2, TabTypeStep
<1>3. ASSUME UNCHANGED <<sessionVars, composeVars>>
      PROVE  TabType' /\ active' \in ActiveOrder \cup {None}
  <2> USE DEF composeVars, sessionVars, formVars, sealVars, sendVars
  <2>1. TabType /\ active \in ActiveOrder \cup {None}
    BY TypeParts
  <2>2. SessionTypeOK' /\ FormType'
    BY <1>3, <2>1 DEF TabType, SessionTypeOK, FormType
  <2>3. SealsType' /\ SendType'
    BY <1>3, <2>1 DEF TabType, SealsType, SendType
  <2> QED BY <1>3, <2>1, <2>2, <2>3 DEF TabType
<1>4. TabType' /\ active' \in ActiveOrder \cup {None}
  BY <1>2, <1>3 DEF Next, Post, vars
<1> QED
  BY <1>1, <1>4 DEF TypeOK, TabType, FormType, SealsType, SendType

-----------------------------------------------------------------------------
(* The invariant.                                                           *)

\* A form that is not shown is in its initial state.
FormInv ==
    \A t \in Tab : page[t] # "compose" => form[t] = Default /\ restoring[t] = None

\* The seal that is heard is that of the inputs on the screen.
PendingInv ==
    \A t \in Tab :
        /\ current[t] <= drawn
        /\ \A k \in pending[t] :
              /\ k.salt <= drawn
              /\ k.salt = current[t] => k.price = form[t].price /\ k.size = form[t].size

\* A broadcast of the form holds the guard.
GuardInv ==
    \A t \in Tab : mine[t] # {} => busyRef[t] /\ \E c \in Call : mine[t] = {c}

\* Where the salts are that a tab has drawn.  A salt is in one tab only.
Salts(t) ==
    {k.salt : k \in pending[t]}
        \cup {s.salt : s \in {sealed[t]} \ {None}}
        \cup {body[c].nullifier.salt : c \in {d \in Call : from[d] = t}}

SaltInv ==
    /\ \A t \in Tab : Salts(t) \subseteq 1..drawn
    /\ \A t, u \in Tab : t # u => Salts(t) \cap Salts(u) = {}
    /\ \A c \in Call : from[c] \in Scripts => body[c].nullifier.salt = 0

Inv ==
    /\ TypeOK
    /\ CallInv
    /\ BookInv
    /\ SealInv
    /\ FormInv
    /\ PendingInv
    /\ GuardInv
    /\ SaltInv
    /\ StaleOnlyWhileSealing
    /\ BroadcastIsSealed
    /\ ActiveIsAccepted
    /\ CollisionIsMine

-----------------------------------------------------------------------------
(* The seals.  Whatever a step is, the seals of one tab at most change.     *)

Shown(t, f) ==
    /\ form' = [form EXCEPT ![t] = f]
    /\ sealed' = sealed
    /\ \/ StartSeal(t, f)
       \/ /\ f.price = form[t].price /\ f.size = form[t].size
          /\ UNCHANGED <<drawn, pending, current>>

Heeded(t, k) ==
    /\ pending' = [pending EXCEPT ![t] = @ \ {k}]
    /\ sealed' = IF ~Heard(t, k) THEN sealed ELSE [sealed EXCEPT ![t] = Resolved(k)]
    /\ UNCHANGED <<form, drawn, current>>

Dropped(t) ==
    /\ pending' = [pending EXCEPT ![t] = {}]
    /\ current' = [current EXCEPT ![t] = 0]
    /\ sealed' = [sealed EXCEPT ![t] = None]
    /\ form' = [form EXCEPT ![t] = Default]
    /\ UNCHANGED drawn

SealMove ==
    \/ UNCHANGED <<form, sealVars>>
    \/ \E t \in Tab :
          \/ \E f \in Form : Shown(t, f)
          \/ \E k \in pending[t] : Heeded(t, k)
          \/ Dropped(t)

LEMMA SealMoves ==
  ASSUME TypeOK, FormInv, [Next]_vars
  PROVE  SealMove
<1>0. TabType
  BY TypeParts
<1> USE DEF formVars, sealVars
<1>1. ASSUME NEW t \in Tab, TabStep(t) PROVE SealMove
  <2>1. CASE SessionStep(t) /\ UNCHANGED <<intakeVars, composeVars>>
    BY <2>1 DEF composeVars, SealMove
  <2>2. CASE Mount(t)
    <3>1. page[t] # "compose" /\ form[t] = Default /\ form' = form
      BY <2>2 DEF Mount, FormInv
    <3>2. form' = [form EXCEPT ![t] = Default]
      BY <1>0, <3>1 DEF TabType, FormType
    <3> QED BY <2>2, <3>2, ComposeAssumption DEF Mount, Shown, SealMove
  <2>3. ASSUME NEW f \in Form, Show(t, f) PROVE SealMove
    <3>1. Shown(t, f)
      BY <2>3 DEF Show, Shown
    <3> QED BY <3>1 DEF SealMove
  <2>4. CASE Restore(t)
    BY <1>0, <2>3, <2>4 DEF Restore, TabType, FormType
  <2>5. CASE Edit(t)
    BY <1>0, <2>3, <2>5, Edited DEF TabType
  <2>6. CASE SealDone(t)
    BY <1>0, <2>6, SealDoneIs DEF Heeded, SealMove
  <2>7. CASE Leave(t) \/ SignOut(t) \/ Reload(t) \/ Succeed(t)
    <3>1. Unmount(t) /\ UNCHANGED drawn
      BY <2>7 DEF Leave, SignOut, Reload, Succeed
    <3> QED BY <3>1 DEF Unmount, Dropped, SealMove
  <2>8. CASE NoDesk(t) \/ Broadcast(t) \/ Render(t) \/ Fail(t)
    BY <2>8 DEF NoDesk, Broadcast, Render, Fail, SealMove
  <2> QED BY <1>1, <2>1, <2>2, <2>4, <2>5, <2>6, <2>7, <2>8 DEF TabStep
<1>2. UNCHANGED composeVars => SealMove
  BY DEF composeVars, SealMove
<1> QED BY <1>1, <1>2 DEF Next, Post, vars

LEMMA SealStep ==
  ASSUME TypeOK, SealInv, PendingInv, StaleOnlyWhileSealing, SealMove
  PROVE  SealInv' /\ PendingInv' /\ StaleOnlyWhileSealing'
<1>0. SealsType /\ FormType
  BY TypeParts DEF TabType
<1>1. CASE UNCHANGED <<form, sealVars>>
  BY <1>1 DEF sealVars, SealInv, PendingInv, StaleOnlyWhileSealing
<1>2. ASSUME NEW t \in Tab, NEW f \in Form, Shown(t, f)
      PROVE  SealInv' /\ PendingInv' /\ StaleOnlyWhileSealing'
  <2>1. SealInv'
    BY <1>2 DEF Shown, SealInv
  <2>2. CASE StartSeal(t, f)
    <3> DEFINE new == [salt |-> drawn + 1, price |-> f.price, size |-> f.size]
    <3>1. /\ drawn' = drawn + 1
          /\ form' = [form EXCEPT ![t] = f]
          /\ current' = [current EXCEPT ![t] = drawn + 1]
          /\ pending' = [pending EXCEPT ![t] = @ \cup {new}]
          /\ sealed' = sealed
      BY <1>2, <2>2 DEF Shown, StartSeal
    <3>2. drawn \in Nat /\ MaxDraws \in Nat
      BY <1>0, ComposeAssumption DEF SealsType
    <3>3. \A u \in Tab : current[u] \in Nat /\ \A k \in pending[u] : k.salt \in Nat
      BY <1>0, ComposeAssumption DEF SealsType, Task
    <3>4. PendingInv'
      <4> SUFFICES ASSUME NEW u \in Tab
                   PROVE  /\ current'[u] <= drawn'
                          /\ \A k \in pending'[u] :
                                /\ k.salt <= drawn'
                                /\ k.salt = current'[u] =>
                                     k.price = form'[u].price /\ k.size = form'[u].size
        BY DEF PendingInv
      <4>1. CASE u = t
        <5>1. current'[u] = drawn + 1 /\ form'[u] = f /\ pending'[u] = pending[u] \cup {new}
          BY <1>0, <3>1, <4>1 DEF SealsType, FormType
        <5>2. \A k \in pending[u] : k.salt <= drawn /\ k.salt # drawn + 1
          BY <3>2, <3>3 DEF PendingInv
        <5> QED BY <3>1, <3>2, <3>3, <5>1, <5>2
      <4>2. CASE u # t
        <5>1. current'[u] = current[u] /\ form'[u] = form[u] /\ pending'[u] = pending[u]
          BY <1>0, <3>1, <4>2 DEF SealsType, FormType
        <5> QED BY <3>1, <3>2, <3>3, <5>1 DEF PendingInv
      <4> QED BY <4>1, <4>2
    <3>5. StaleOnlyWhileSealing'
      <4>1. \A u \in Tab \ {t} : /\ current'[u] = current[u] /\ form'[u] = form[u]
                                 /\ pending'[u] = pending[u]
        BY <1>0, <3>1 DEF SealsType, FormType
      <4>2. new \in pending'[t] /\ new.salt = current'[t]
        BY <1>0, <3>1 DEF SealsType
      <4> QED BY <3>1, <4>1, <4>2 DEF StaleOnlyWhileSealing
    <3> QED BY <2>1, <3>4, <3>5
  <2>3. CASE /\ f.price = form[t].price /\ f.size = form[t].size
             /\ UNCHANGED <<drawn, pending, current>>
    <3>1. \A u \in Tab : form'[u].price = form[u].price /\ form'[u].size = form[u].size
      BY <1>0, <1>2, <2>3 DEF Shown, FormType
    <3>2. UNCHANGED <<drawn, pending, current, sealed>>
      BY <1>2, <2>3 DEF Shown
    <3> QED BY <2>1, <3>1, <3>2 DEF PendingInv, StaleOnlyWhileSealing
  <2> QED BY <1>2, <2>2, <2>3 DEF Shown
<1>3. ASSUME NEW t \in Tab, NEW k \in pending[t], Heeded(t, k)
      PROVE  SealInv' /\ PendingInv' /\ StaleOnlyWhileSealing'
  <2>1. k \in Task
    BY <1>0 DEF SealsType
  <2>2. /\ \A u \in Tab : pending'[u] = IF u = t THEN pending[t] \ {k} ELSE pending[u]
        /\ \A u \in Tab : sealed'[u] = IF u = t /\ Heard(t, k) THEN Resolved(k) ELSE sealed[u]
        /\ UNCHANGED <<form, drawn, current>>
    BY <1>0, <1>3 DEF Heeded, SealsType
  <2>3. SealInv'
    BY <2>1, <2>2, ResolvedType DEF SealInv
  <2>4. PendingInv'
    BY <2>2 DEF PendingInv
  <2>5. StaleOnlyWhileSealing'
    <3>1. CASE Heard(t, k)
      <4>1. k.price = form[t].price /\ k.size = form[t].size
        BY <3>1 DEF Heard, PendingInv
      <4> QED BY <2>1, <2>2, <3>1, <4>1, ResolvedType DEF StaleOnlyWhileSealing
    <3>2. CASE ~Heard(t, k)
      BY <2>2, <3>2 DEF Heard, StaleOnlyWhileSealing
    <3> QED BY <3>1, <3>2
  <2> QED BY <2>3, <2>4, <2>5
<1>4. ASSUME NEW t \in Tab, Dropped(t)
      PROVE  SealInv' /\ PendingInv' /\ StaleOnlyWhileSealing'
  <2>1. /\ \A u \in Tab : pending'[u] = IF u = t THEN {} ELSE pending[u]
        /\ \A u \in Tab : sealed'[u] = IF u = t THEN None ELSE sealed[u]
        /\ \A u \in Tab : current'[u] = IF u = t THEN 0 ELSE current[u]
        /\ \A u \in Tab \ {t} : form'[u] = form[u]
        /\ UNCHANGED drawn
    BY <1>0, <1>4 DEF Dropped, SealsType, FormType
  <2>2. drawn >= 0
    BY <1>0, ComposeAssumption DEF SealsType
  <2> QED BY <2>1, <2>2 DEF SealInv, PendingInv, StaleOnlyWhileSealing
<1> QED BY <1>1, <1>2, <1>3, <1>4 DEF SealMove

-----------------------------------------------------------------------------
(* The form and its guard.                                                  *)

LEMMA FormStep ==
  ASSUME TypeOK, FormInv, [Next]_vars
  PROVE  FormInv'
<1>0. TabType
  BY TypeParts
<1> USE <1>0 DEF FormInv, TabType, FormType, SessionTypeOK, sessionVars, formVars
<1>1. ASSUME NEW t \in Tab, TabStep(t) PROVE FormInv'
  <2>1. CASE SessionStep(t) /\ UNCHANGED <<intakeVars, composeVars>>
    <3>1. page[t] # "compose" /\ \A u \in Tab \ {t} : page'[u] = page[u]
      BY <2>1 DEF SessionStep, OpenAccess, UseDifferent, regenerate, Continue, signIn,
                  authenticate, authenticateImport, AuthGate
    <3> QED BY <2>1, <3>1 DEF composeVars
  <2>2. CASE Mount(t)
    BY <2>2 DEF Mount
  <2>3. ASSUME NEW f \in Form, Show(t, f), page[t] = "compose",
               \A u \in Tab \ {t} : restoring'[u] = restoring[u]
        PROVE  FormInv'
    BY <2>3 DEF Show
  <2>4. CASE Restore(t)
    BY <2>3, <2>4 DEF Restore
  <2>5. CASE Edit(t)
    BY <2>3, <2>5, Edited
  <2>6. CASE SealDone(t) \/ NoDesk(t) \/ Broadcast(t) \/ Render(t) \/ Fail(t)
    BY <2>6 DEF SealDone, NoDesk, Broadcast, Render, Fail
  <2>7. CASE Leave(t) \/ SignOut(t) \/ Reload(t) \/ Succeed(t)
    <3>1. Unmount(t) /\ \A u \in Tab \ {t} : page'[u] = page[u]
      BY <2>7 DEF Leave, SignOut, signOut, Reload, Succeed, PushShell
    <3> QED BY <3>1 DEF Unmount
  <2> QED BY <1>1, <2>1, <2>2, <2>4, <2>5, <2>6, <2>7 DEF TabStep
<1>2. UNCHANGED <<sessionVars, composeVars>> => FormInv'
  BY DEF composeVars
<1> QED BY <1>1, <1>2 DEF Next, Post, vars

\* busyRef and mine change together, in one tab.
LEMMA GuardStep ==
  ASSUME TypeOK, GuardInv, [Next]_vars
  PROVE  GuardInv'
<1>0. SendType
  BY TypeParts DEF TabType
<1> USE <1>0 DEF GuardInv, SendType, sendVars
<1>1. ASSUME NEW t \in Tab, TabStep(t) PROVE GuardInv'
  <2>1. CASE UNCHANGED <<busyRef, mine>>
    BY <2>1
  <2>2. CASE Unmount(t)
    BY <2>2 DEF Unmount
  <2>3. CASE Broadcast(t)
    <3>1. PICK c \in Call : mine' = [mine EXCEPT ![t] = @ \cup {c}]
      BY <2>3 DEF Broadcast
    <3>2. mine[t] = {} /\ mine'[t] = {c} /\ busyRef'[t] = TRUE
      BY <2>3, <3>1 DEF Broadcast, Click
    <3>3. \A u \in Tab \ {t} : mine'[u] = mine[u] /\ busyRef'[u] = busyRef[u]
      BY <2>3, <3>1 DEF Broadcast
    <3> SUFFICES ASSUME NEW u \in Tab, mine'[u] # {}
                 PROVE  busyRef'[u] /\ \E d \in Call : mine'[u] = {d}
      BY DEF GuardInv
    <3>4. CASE u = t
      BY <3>2, <3>4
    <3>5. CASE u # t
      BY <3>3, <3>5
    <3> QED BY <3>4, <3>5
  <2>4. CASE Fail(t)
    <3>1. PICK c \in Call :
            IF c \in mine[t]
            THEN /\ busyRef' = [busyRef EXCEPT ![t] = FALSE]
                 /\ mine' = [mine EXCEPT ![t] = @ \ {c}]
            ELSE UNCHANGED <<busyRef, mine>>
      BY <2>4 DEF Fail
    <3>2. CASE c \in mine[t]
      <4>1. mine[t] = {c}
        BY <3>2
      <4>2. mine'[t] = {} /\ \A u \in Tab \ {t} : mine'[u] = mine[u] /\ busyRef'[u] = busyRef[u]
        BY <3>1, <3>2, <4>1
      <4> QED BY <4>2
    <3> QED BY <2>1, <3>1, <3>2
  <2>5. CASE Leave(t) \/ SignOut(t) \/ Reload(t) \/ Succeed(t)
    BY <2>2, <2>5 DEF Leave, SignOut, Reload, Succeed
  <2>6. CASE Restore(t) \/ Edit(t)
    BY <2>1, <2>6 DEF Restore, Edit, Show
  <2>7. CASE Mount(t) \/ SealDone(t) \/ NoDesk(t) \/ Render(t)
    BY <2>1, <2>7 DEF Mount, SealDone, NoDesk, Render
  <2>8. CASE SessionStep(t) /\ UNCHANGED <<intakeVars, composeVars>>
    BY <2>1, <2>8 DEF composeVars
  <2> QED BY <1>1, <2>3, <2>4, <2>5, <2>6, <2>7, <2>8 DEF TabStep
<1>2. UNCHANGED composeVars => GuardInv'
  BY DEF composeVars
<1> QED BY <1>1, <1>2 DEF Next, Post, vars

-----------------------------------------------------------------------------
(* The calls of a step.                                                     *)

\* What a tab posts commits to itself.
Own(b) ==
    /\ InRange(b.price) /\ InRange(b.volume)
    /\ b.commitment = [price |-> b.price, volume |-> b.volume, salt |-> b.salt]
    /\ b.nullifier = [commitment |-> b.commitment, salt |-> b.salt]

\* A call that a step posts comes from a tab, which broadcasts its seal, or
\* from a script.
FromTab(t, c) ==
    /\ from'[c] = t
    /\ sealed[t] # None /\ UNCHANGED sealVars
    /\ Own(body'[c]) /\ body'[c].nullifier.salt = sealed[t].salt

FromScript(c) == from'[c] \in Scripts /\ body'[c] \in Raw

Posting(c) ==
    /\ up[c] = "idle"
    /\ up' = [up EXCEPT ![c] = "travelling"]
    /\ \A d \in Call \ {c} : body'[d] = body[d] /\ from'[d] = from[d]
    /\ FromScript(c) \/ \E t \in Tab : FromTab(t, c)

CallMove == UNCHANGED <<body, from>> \/ \E c \in Call : Posting(c)

LEMMA CallMoves ==
  ASSUME TypeOK, SealInv, [Next]_vars
  PROVE  CallMove
<1>0. /\ body \in [Call -> Body \cup {None}]
      /\ from \in [Call -> Client \cup {None}]
  BY DEF TypeOK, IntakeTypeOK
<1> USE DEF intakeVars
<1>1. ASSUME NEW t \in Tab, TabStep(t) PROVE CallMove
  <2>1. CASE Broadcast(t)
    <3>1. PICK c \in Call : post(t, OrderBody(t), c, "waiting")
      BY <2>1 DEF Broadcast, createOrder
    <3>2. /\ from'[c] = t /\ body'[c] = OrderBody(t)
          /\ \A d \in Call \ {c} : body'[d] = body[d] /\ from'[d] = from[d]
      BY <1>0, <3>1 DEF post
    <3>3. Click(t) /\ desk # None /\ UNCHANGED sealVars
      BY <2>1 DEF Broadcast
    <3>4. FromTab(t, c)
      BY <3>2, <3>3, OrderBodySound DEF FromTab, Own, Click
    <3> QED BY <3>1, <3>2, <3>4 DEF post, IsNextCall, Posting, CallMove
  <2>2. CASE UNCHANGED <<body, from>>
    BY <2>2 DEF CallMove
  <2>3. CASE SessionStep(t) /\ UNCHANGED <<intakeVars, composeVars>>
    BY <2>2, <2>3
  <2>4. CASE Mount(t) \/ Restore(t) \/ Edit(t) \/ SealDone(t)
    BY <2>2, <2>4 DEF Mount, Restore, Edit, SealDone, Show
  <2>5. CASE Leave(t) \/ SignOut(t) \/ NoDesk(t) \/ Render(t)
    BY <2>2, <2>5 DEF Leave, SignOut, NoDesk, Render
  <2>6. CASE Reload(t) \/ Succeed(t) \/ Fail(t)
    BY <2>2, <2>6 DEF Reload, Succeed, Fail, Close
  <2> QED BY <1>1, <2>1, <2>3, <2>4, <2>5, <2>6 DEF TabStep
<1>2. ASSUME NEW s \in Scripts, Post(s) PROVE CallMove
  <2>1. PICK b \in Raw, c \in Call : post(s, b, c, "closed")
    BY <1>2 DEF Post
  <2>2. /\ from'[c] = s /\ body'[c] = b
        /\ \A d \in Call \ {c} : body'[d] = body[d] /\ from'[d] = from[d]
    BY <1>0, <2>1 DEF post
  <2> QED BY <2>1, <2>2 DEF post, IsNextCall, FromScript, Posting, CallMove
<1>3. ASSUME NEW c \in Call, IntakeStep(c) PROVE CallMove
  BY <1>3 DEF IntakeStep, handleCreateOrder, proxy, Refuse, Insert, Duplicate,
              Answer, GiveUp, Drop, CallMove
<1>4. CASE UNCHANGED vars
  BY <1>4 DEF vars, CallMove
<1> QED BY <1>1, <1>2, <1>3, <1>4 DEF Next

LEMMA OwnRange ==
  ASSUME NEW b \in Body, Own(b)
  PROVE  {b.price, b.volume} \subseteq 1..(FieldMax - 1)
<1>1. b.price \in Nat /\ b.volume \in Nat /\ FieldMax \in Nat
  BY IntakeAssumption DEF Body
<1> QED BY <1>1 DEF Own, InRange

LEMMA BroadcastStep ==
  ASSUME TypeOK, BroadcastIsSealed, CallInv', CallMove
  PROVE  BroadcastIsSealed'
<1>1. CASE UNCHANGED <<body, from>>
  BY <1>1 DEF BroadcastIsSealed
<1>2. ASSUME NEW c \in Call, Posting(c) PROVE BroadcastIsSealed'
  <2>1. CASE FromScript(c)
    <3>1. from'[c] \notin Tab
      BY <2>1, ComposeAssumption DEF FromScript
    <3> QED BY <1>2, <3>1 DEF Posting, BroadcastIsSealed
  <2>2. CASE \E t \in Tab : FromTab(t, c)
    <3>1. Own(body'[c])
      BY <2>2 DEF FromTab
    <3>2. body'[c] \in Body
      <4>1. up'[c] # "idle"
        BY <1>2 DEF Posting, TypeOK, IntakeTypeOK
      <4> QED BY <4>1 DEF CallInv
    <3>3. {body'[c].price, body'[c].volume} \subseteq 1..(FieldMax - 1)
      BY <3>1, <3>2, OwnRange
    <3> QED BY <1>2, <3>1, <3>3 DEF Posting, BroadcastIsSealed, Own
  <2> QED BY <1>2, <2>1, <2>2 DEF Posting
<1> QED BY <1>1, <1>2 DEF CallMove

-----------------------------------------------------------------------------
(* The salts of a tab.                                                      *)

SealSalts(t) == {k.salt : k \in pending[t]} \cup {s.salt : s \in {sealed[t]} \ {None}}

LEMMA SaltsAre ==
  ASSUME NEW t
  PROVE  Salts(t) = SealSalts(t) \cup {body[c].nullifier.salt : c \in {d \in Call : from[d] = t}}
BY DEF Salts, SealSalts

\* Of the seals of a step, one at most is new, and its salt with it.
LEMMA SealSaltsMove ==
  ASSUME TypeOK, SealMove
  PROVE  \/ /\ drawn' = drawn
            /\ \A u \in Tab : SealSalts(u)' \subseteq SealSalts(u)
         \/ /\ drawn' = drawn + 1
            /\ \E t \in Tab :
                  /\ SealSalts(t)' \subseteq SealSalts(t) \cup {drawn + 1}
                  /\ \A u \in Tab \ {t} : SealSalts(u)' \subseteq SealSalts(u)
<1>0. SealsType
  BY TypeParts DEF TabType
<1> USE DEF SealSalts
<1>1. CASE UNCHANGED <<form, sealVars>>
  BY <1>1 DEF sealVars
<1>2. ASSUME NEW t \in Tab, NEW f \in Form, Shown(t, f), StartSeal(t, f)
      PROVE  /\ drawn' = drawn + 1
             /\ SealSalts(t)' \subseteq SealSalts(t) \cup {drawn + 1}
             /\ \A u \in Tab \ {t} : SealSalts(u)' \subseteq SealSalts(u)
  <2> DEFINE new == [salt |-> drawn + 1, price |-> f.price, size |-> f.size]
  <2>1. /\ drawn' = drawn + 1 /\ sealed' = sealed
        /\ pending'[t] = pending[t] \cup {new}
        /\ \A u \in Tab \ {t} : pending'[u] = pending[u]
    BY <1>0, <1>2 DEF Shown, StartSeal, SealsType
  <2>2. new.salt = drawn + 1
    OBVIOUS
  <2> HIDE DEF new
  <2> QED BY <2>1, <2>2
<1>3. ASSUME NEW t \in Tab, NEW f \in Form, Shown(t, f), UNCHANGED <<drawn, pending, current>>
      PROVE  drawn' = drawn /\ \A u \in Tab : SealSalts(u)' \subseteq SealSalts(u)
  BY <1>3 DEF Shown
<1>4. ASSUME NEW t \in Tab, NEW k \in pending[t], Heeded(t, k)
      PROVE  drawn' = drawn /\ \A u \in Tab : SealSalts(u)' \subseteq SealSalts(u)
  <2>1. k \in Task
    BY <1>0 DEF SealsType
  <2>2. /\ \A u \in Tab : pending'[u] \subseteq pending[u]
        /\ \A u \in Tab : sealed'[u] = IF u = t /\ Heard(t, k) THEN Resolved(k) ELSE sealed[u]
        /\ drawn' = drawn
    BY <1>0, <1>4 DEF Heeded, SealsType
  <2>3. Resolved(k) # None => Resolved(k).salt = k.salt
    BY <2>1, ResolvedType
  <2> QED BY <2>2, <2>3
<1>5. ASSUME NEW t \in Tab, Dropped(t)
      PROVE  drawn' = drawn /\ \A u \in Tab : SealSalts(u)' \subseteq SealSalts(u)
  BY <1>0, <1>5 DEF Dropped, SealsType
<1>6. CASE \E t \in Tab, f \in Form : Shown(t, f)
  <2>1. PICK t \in Tab, f \in Form : Shown(t, f)
    BY <1>6
  <2>2. CASE StartSeal(t, f)
    <3> HIDE DEF SealSalts
    <3> QED BY <1>2, <2>1, <2>2
  <2>3. CASE UNCHANGED <<drawn, pending, current>>
    <3> HIDE DEF SealSalts
    <3> QED BY <1>3, <2>1, <2>3
  <2> QED BY <2>1, <2>2, <2>3 DEF Shown
<1> HIDE DEF SealSalts
<1> QED BY <1>1, <1>4, <1>5, <1>6 DEF SealMove

LEMMA SaltStep ==
  ASSUME TypeOK, SaltInv, CallInv, SealMove, CallMove
  PROVE  SaltInv'
<1>0. drawn \in Nat
  BY TypeParts DEF TabType, SealsType
<1> DEFINE Sent(t) == {body[c].nullifier.salt : c \in {d \in Call : from[d] = t}}
<1>1. \A t \in Tab : Salts(t) = SealSalts(t) \cup Sent(t)
  BY SaltsAre
<1>2. \A t \in Tab : Salts(t)' = SealSalts(t)' \cup Sent(t)'
  BY DEF Salts, SealSalts
<1> HIDE DEF Sent
<1>3. CASE UNCHANGED <<body, from>>
  <2>1. \A t \in Tab : Sent(t)' = Sent(t)
    BY <1>3 DEF Sent
  <2>2. CASE /\ drawn' = drawn
             /\ \A u \in Tab : SealSalts(u)' \subseteq SealSalts(u)
    <3>1. \A u \in Tab : Salts(u)' \subseteq Salts(u)
      BY <1>1, <1>2, <2>1, <2>2
    <3> QED BY <1>3, <2>2, <3>1 DEF SaltInv
  <2>3. ASSUME NEW t \in Tab, drawn' = drawn + 1,
               SealSalts(t)' \subseteq SealSalts(t) \cup {drawn + 1},
               \A u \in Tab \ {t} : SealSalts(u)' \subseteq SealSalts(u)
        PROVE  SaltInv'
    <3>1. Salts(t)' \subseteq Salts(t) \cup {drawn + 1}
      BY <1>1, <1>2, <2>1, <2>3
    <3>2. \A u \in Tab \ {t} : Salts(u)' \subseteq Salts(u)
      BY <1>1, <1>2, <2>1, <2>3
    <3>3. \A u \in Tab : Salts(u) \subseteq 1..drawn /\ drawn + 1 \notin Salts(u)
      BY <1>0 DEF SaltInv
    <3>4. \A u \in Tab : Salts(u)' \subseteq 1..drawn'
      BY <1>0, <2>3, <3>1, <3>2, <3>3
    <3>5. \A u, v \in Tab : u # v => Salts(u)' \cap Salts(v)' = {}
      BY <3>1, <3>2, <3>3 DEF SaltInv
    <3> QED BY <1>3, <3>4, <3>5 DEF SaltInv
  <2> QED BY <2>2, <2>3, SealSaltsMove
<1>4. ASSUME NEW c \in Call, Posting(c) PROVE SaltInv'
  <2>1. from[c] = None /\ from'[c] \in Client
    BY <1>4, ComposeAssumption DEF Posting, CallInv, FromScript, FromTab
  <2>2. CASE FromScript(c)
    <3>1. from'[c] \notin Tab /\ from[c] \notin Tab
      BY <2>1, <2>2, ComposeAssumption DEF FromScript
    <3>2. \A t \in Tab : Sent(t)' = Sent(t)
      BY <1>4, <3>1 DEF Posting, Sent
    <3>3. body'[c].nullifier.salt = 0
      BY <2>2, ComposeAssumption DEF FromScript
    <3>4. \A d \in Call : from'[d] \in Scripts => body'[d].nullifier.salt = 0
      BY <1>4, <3>3 DEF Posting, SaltInv
    <3>5. CASE /\ drawn' = drawn
               /\ \A u \in Tab : SealSalts(u)' \subseteq SealSalts(u)
      <4>1. \A u \in Tab : Salts(u)' \subseteq Salts(u)
        BY <1>1, <1>2, <3>2, <3>5
      <4> QED BY <3>4, <3>5, <4>1 DEF SaltInv
    <3>6. ASSUME NEW t \in Tab, drawn' = drawn + 1,
                 SealSalts(t)' \subseteq SealSalts(t) \cup {drawn + 1},
                 \A u \in Tab \ {t} : SealSalts(u)' \subseteq SealSalts(u)
          PROVE  SaltInv'
      <4>1. Salts(t)' \subseteq Salts(t) \cup {drawn + 1}
        BY <1>1, <1>2, <3>2, <3>6
      <4>2. \A u \in Tab \ {t} : Salts(u)' \subseteq Salts(u)
        BY <1>1, <1>2, <3>2, <3>6
      <4>3. \A u \in Tab : Salts(u) \subseteq 1..drawn /\ drawn + 1 \notin Salts(u)
        BY <1>0 DEF SaltInv
      <4>4. \A u \in Tab : Salts(u)' \subseteq 1..drawn'
        BY <1>0, <3>6, <4>1, <4>2, <4>3
      <4>5. \A u, v \in Tab : u # v => Salts(u)' \cap Salts(v)' = {}
        BY <4>1, <4>2, <4>3 DEF SaltInv
      <4> QED BY <3>4, <4>4, <4>5 DEF SaltInv
    <3> QED BY <3>5, <3>6, SealSaltsMove
  <2>3. ASSUME NEW t \in Tab, FromTab(t, c) PROVE SaltInv'
    <3>1. sealed[t] # None /\ UNCHANGED sealVars
          /\ from'[c] = t /\ body'[c].nullifier.salt = sealed[t].salt
      BY <2>3 DEF FromTab
    <3>2. sealed[t].salt \in SealSalts(t)
      BY <3>1 DEF SealSalts
    <3>3. \A u \in Tab : SealSalts(u)' = SealSalts(u)
      BY <3>1 DEF SealSalts, sealVars
    <3>4. \A u \in Tab \ {t} : Sent(u)' = Sent(u)
      BY <1>4, <2>1, <3>1, ComposeAssumption DEF Posting, Sent
    <3>5. Sent(t)' \subseteq Sent(t) \cup {sealed[t].salt}
      BY <1>4, <2>1, <3>1 DEF Posting, Sent
    <3>6. \A u \in Tab : Salts(u)' \subseteq Salts(u)
      BY <1>1, <1>2, <3>2, <3>3, <3>4, <3>5
    <3>7. \A d \in Call : from'[d] \in Scripts => body'[d].nullifier.salt = 0
      BY <1>4, <3>1, ComposeAssumption DEF Posting, SaltInv
    <3> QED BY <3>1, <3>6, <3>7 DEF SaltInv, sealVars
  <2> QED BY <1>4, <2>2, <2>3 DEF Posting
<1> QED BY <1>3, <1>4 DEF CallMove

-----------------------------------------------------------------------------
(* The book and what a tab makes of it.                                     *)

LEMMA ActiveStep ==
  ASSUME TypeOK, CallInv, ActiveIsAccepted, IntakeMove, [Next]_vars
  PROVE  ActiveIsAccepted'
<1>0. /\ Book \subseteq Book'
      /\ \A c \in Book : body'[c] = body[c]
  BY BookGrows DEF TypeOK, Book
<1>1. CASE active' = active
  BY <1>0, <1>1 DEF ActiveIsAccepted
<1>2. ASSUME NEW t \in Tab, Succeed(t) PROVE ActiveIsAccepted'
  <2>1. PICK c \in Call : up[c] = "inserted" /\ active' \in {active, Meta(c)}
    BY <1>2 DEF Succeed
  <2>2. c \in Book
    BY <2>1 DEF Book
  <2>3. CASE active' = Meta(c)
    <3>1. /\ active'.id = c
          /\ active'.side = body[c].side /\ active'.pair = body[c].pair
          /\ active'.priceInt = body[c].price /\ active'.volumeInt = body[c].volume
      BY <2>3 DEF Meta
    <3> QED BY <1>0, <2>2, <3>1 DEF ActiveIsAccepted
  <2> QED BY <1>1, <2>1, <2>3
<1>3. (\A t \in Tab : ~Succeed(t)) => active' = active
  BY DEF Next, TabStep, Mount, Restore, Edit, Show, SealDone, Leave, SignOut, Reload,
         NoDesk, Broadcast, Render, Fail, Post, composeVars, vars
<1> QED BY <1>1, <1>2, <1>3

LEMMA CollisionStep ==
  ASSUME TypeOK, CallInv, SaltInv, CollisionIsMine, IntakeMove
  PROVE  CollisionIsMine'
<1>0. /\ Book \subseteq Book'
      /\ \A c \in Call : up[c] # "idle" => body'[c] = body[c] /\ from'[c] = from[c]
  BY BookGrows DEF TypeOK
<1> SUFFICES ASSUME NEW c \in Call, from'[c] \in Tab, up'[c] = "duplicate"
             PROVE  \E d \in Book' : /\ from'[d] = from'[c]
                                     /\ body'[d].nullifier = body'[c].nullifier
  BY DEF CollisionIsMine
<1>1. CASE up[c] = "duplicate"
  <2>1. PICK d \in Book : from[d] = from[c] /\ body[d].nullifier = body[c].nullifier
    BY <1>0, <1>1 DEF CollisionIsMine
  <2> QED BY <1>0, <1>1, <2>1 DEF Book
<1>2. CASE up[c] # "duplicate"
  <2>1. Duplicate(c)
    <3>1. up \in [Call -> Ups]
      BY DEF TypeOK, IntakeTypeOK
    <3>2. ~Told
      BY <1>2 DEF Told
    <3>3. \A d \in Call : ~Posted(d)
      BY <1>2, <3>1 DEF Posted, post
    <3>4. \A d \in Call : Handled(d) => d = c /\ Duplicate(c)
      BY <1>2, <3>1 DEF Handled, Refuse, Insert, Duplicate, Drop
    <3> QED BY <3>2, <3>3, <3>4 DEF IntakeMove
  <2>2. PICK d \in Book : body[d].nullifier = body[c].nullifier
    BY <2>1 DEF Duplicate, Taken
  <2>3. up[c] # "idle" /\ d \in Call /\ up[d] # "idle" /\ from[c] \in Tab
    BY <1>0, <2>1, <2>2 DEF Duplicate, Book
  <2> DEFINE n == body[c].nullifier.salt
  <2>4. n \in Salts(from[c])
    BY <2>3 DEF Salts
  <2>5. n # 0
    BY <2>3, <2>4 DEF SaltInv
  <2>6. body[d].nullifier.salt = n
    BY <2>2
  <2>7. from[d] \in Tab
    BY <2>3, <2>5, <2>6, ComposeAssumption DEF CallInv, SaltInv
  <2>8. n \in Salts(from[d])
    BY <2>3, <2>6 DEF Salts
  <2>9. from[d] = from[c]
    BY <2>3, <2>4, <2>7, <2>8 DEF SaltInv
  <2> QED BY <1>0, <2>2, <2>3, <2>9
<1> QED BY <1>1, <1>2

-----------------------------------------------------------------------------
(* The invariant is inductive.                                              *)

LEMMA InitInv == Init => Inv
<1> SUFFICES ASSUME Init PROVE Inv
  OBVIOUS
<1>1. TypeOK
  BY InitType
<1>2. Book = {} /\ \A c \in Call : up[c] = "idle" /\ from[c] = None
  BY DEF Init, IntakeInit, Book
<1>3. \A t \in Tab : pending[t] = {} /\ sealed[t] = None /\ mine[t] = {}
                    /\ current[t] = 0 /\ form[t] = Default /\ restoring[t] = None
  BY DEF Init
<1>4. None \notin Tab /\ None \notin Scripts
  BY ComposeAssumption
<1>5. CallInv /\ BookInv /\ BroadcastIsSealed /\ CollisionIsMine
  BY <1>2, <1>4 DEF CallInv, BookInv, BroadcastIsSealed, CollisionIsMine
<1>6. SealInv /\ FormInv /\ GuardInv /\ StaleOnlyWhileSealing /\ ActiveIsAccepted
  BY <1>3 DEF Init, SealInv, FormInv, GuardInv, StaleOnlyWhileSealing, ActiveIsAccepted
<1>7. PendingInv
  BY <1>3 DEF Init, PendingInv
<1>8. SaltInv
  <2>1. \A t \in Tab : Salts(t) = {}
    BY <1>2, <1>3, <1>4 DEF Salts
  <2> QED BY <1>2, <1>4, <2>1 DEF SaltInv
<1> QED BY <1>1, <1>5, <1>6, <1>7, <1>8 DEF Inv

LEMMA InvStep == Inv /\ [Next]_vars => Inv'
<1> SUFFICES ASSUME Inv, [Next]_vars PROVE Inv'
  OBVIOUS
<1> USE DEF Inv
<1>1. IntakeMove /\ SealMove /\ CallMove
  BY Moves, SealMoves, CallMoves
<1>2. TypeOK'
  BY TypeStep
<1>3. CallInv' /\ BookInv'
  BY <1>1, TypeMove, BookMove DEF TypeOK
<1>4. SealInv' /\ PendingInv' /\ StaleOnlyWhileSealing'
  BY <1>1, SealStep
<1>5. FormInv' /\ GuardInv'
  BY FormStep, GuardStep
<1>6. SaltInv'
  BY <1>1, SaltStep
<1>7. BroadcastIsSealed'
  BY <1>1, <1>3, BroadcastStep
<1>8. ActiveIsAccepted' /\ CollisionIsMine'
  BY <1>1, ActiveStep, CollisionStep
<1> QED BY <1>2, <1>3, <1>4, <1>5, <1>6, <1>7, <1>8

LEMMA Invariant == Spec => []Inv
BY InitInv, InvStep, PTL DEF Spec

-----------------------------------------------------------------------------
(* The theorems.                                                            *)

\* Every variable keeps its type, whatever the tabs, the scripts, the proxy and
\* the engine do.
THEOREM ComposeTypeCorrect == Spec => []TypeOK
<1>1. Inv => TypeOK
  BY DEF Inv
<1> QED BY <1>1, Invariant, PTL

\* No interleaving of posts, retries and late answers brings an order into the
\* book that is out of range, badly signed or has the nullifier of another.
THEOREM ComposeBookIsSound == Spec => []BookIsSound
<1>1. Inv => BookIsSound
  <2> SUFFICES ASSUME Inv PROVE BookIsSound
    OBVIOUS
  <2>1. ASSUME NEW c \in Book
        PROVE  /\ body[c].side \in Side
               /\ {body[c].price, body[c].volume} \subseteq 1..(FieldMax - 1)
               /\ body[c].signature = None => ~RequireOrderSig
               /\ body[c].signature # None =>
                      /\ body[c].signature.key = body[c].pubkey
                      /\ body[c].signature.over = body[c].commitment
    <3>1. Acceptable(body[c])
      BY DEF Inv, BookInv
    <3>2. body[c] \in Body
      BY DEF Inv, CallInv, Book
    <3>3. body[c].price \in Nat /\ body[c].volume \in Nat /\ FieldMax \in Nat
      BY <3>2, IntakeAssumption DEF Body
    <3>4. {body[c].price, body[c].volume} \subseteq 1..(FieldMax - 1)
      BY <3>1, <3>3 DEF Acceptable, Validate, InRange
    <3>5. body[c].signature # None =>
             body[c].signature = [key |-> body[c].pubkey, over |-> body[c].commitment]
      BY <3>1 DEF Acceptable, Verify, SignedBy, signCommitment
    <3> QED BY <3>1, <3>4, <3>5 DEF Acceptable, WellFormed, Verify
  <2> QED BY <2>1 DEF BookIsSound, Inv, BookInv
<1> QED BY <1>1, Invariant, PTL

\* Whatever is typed between the seal and the click, what a tab broadcasts
\* opens its own commitment and is in range.
THEOREM ComposeBroadcastIsSealed == Spec => []BroadcastIsSealed
<1>1. Inv => BroadcastIsSealed
  BY DEF Inv
<1> QED BY <1>1, Invariant, PTL

\* However late an answer is, the active order is one of the book, with the
\* values the engine has.
THEOREM ComposeActiveIsAccepted == Spec => []ActiveIsAccepted
<1>1. Inv => ActiveIsAccepted
  BY DEF Inv
<1> QED BY <1>1, Invariant, PTL

\* A form has one broadcast in flight at most.
THEOREM ComposeOneInFlight == Spec => []OneInFlight
<1>1. Inv => OneInFlight
  <2> SUFFICES ASSUME Inv, NEW t \in Tab PROVE Cardinality(mine[t]) <= 1
    BY DEF OneInFlight
  <2>1. CASE mine[t] = {}
    BY <2>1, FS_EmptySet
  <2>2. CASE mine[t] # {}
    <3>1. PICK c \in Call : mine[t] = {c}
      BY <2>2 DEF Inv, GuardInv
    <3> QED BY <3>1, FS_Singleton
  <2> QED BY <2>1, <2>2
<1> QED BY <1>1, Invariant, PTL

\* No seal of earlier inputs, resolving late, replaces that of the inputs on the
\* screen.
THEOREM ComposeStaleOnlyWhileSealing == Spec => []StaleOnlyWhileSealing
<1>1. Inv => StaleOnlyWhileSealing
  BY DEF Inv
<1> QED BY <1>1, Invariant, PTL

\* A collision of nullifiers is one with an order that the same tab broadcast.
THEOREM ComposeCollisionIsMine == Spec => []CollisionIsMine
<1>1. Inv => CollisionIsMine
  BY DEF Inv
<1> QED BY <1>1, Invariant, PTL
=============================================================================
