------------------------------ MODULE Compose ------------------------------
(***************************************************************************)
(* The compose form of the web desk, on top of Session and Intake: the     *)
(* draft, the seal that is recomputed behind the inputs, the broadcast and *)
(* what its answer does.  A promise goes on when the form that started it  *)
(* is gone: a late answer still sets the active order and still navigates. *)
(***************************************************************************)
EXTENDS Session, Intake, FiniteSets

CONSTANTS
    PriceText, SizeText,   \* what a user may type
    Default,               \* the form as it is first shown
    Scripts,               \* clients that are not tabs
    Raw,                   \* what they post
    Composers,             \* bound: the tabs that ever open the form, in the code all of them
    MaxDraws               \* bound on the seals of a behaviour

VARIABLES
    form,        \* form[t]: pair, side and the texts of price and size
    restoring,   \* restoring[t]: the draft read at mount, not yet shown
    drawn,       \* number of seals begun: the source of fresh salts
    pending,     \* pending[t]: seals of t's form that have not resolved
    current,     \* current[t]: the seal whose effect has not been cleaned up
    sealed,      \* sealed[t]: the seal that the button would broadcast
    busyRef,     \* busyRef[t]: the guard that flips at once
    busy,        \* busy[t]: the guard as rendered, which disables the button
    mine,        \* mine[t]: calls whose broadcast belongs to the mounted form
    err,         \* err[t]: what the form says of the last broadcast
    active,      \* the item nyx.activeOrder of localStorage
    draft        \* the item nyx.composeDraft of localStorage

formVars == <<form, restoring, draft>>
sealVars == <<drawn, pending, current, sealed>>
sendVars == <<busyRef, busy, mine, err>>
composeVars == <<formVars, sealVars, sendVars, active>>
vars == <<sessionVars, intakeVars, composeVars>>

\* A text is a decimal numeral, or something that is none ("ok" is false).
Text == [ok : BOOLEAN, digits : Nat, decimals : Nat]
Form == [pair : Pair, side : {"BID", "ASK"}, price : PriceText, size : SizeText]
Sealed == [priceInt : Nat, volumeInt : Nat, salt : Nat,
           commitment : Commitment, nullifier : Nullifier]
ActiveOrder == [id : Call, side : Side, pair : Pair, priceInt : Nat, volumeInt : Nat]
Task == [salt : 1..MaxDraws, price : PriceText, size : SizeText]

ASSUME ComposeAssumption ==
    /\ PriceText \subseteq Text /\ SizeText \subseteq Text
    /\ Default \in Form
    /\ Composers \subseteq Tab
    /\ Client = Tab \cup Scripts /\ Tab \cap Scripts = {} /\ None \notin Client
    /\ Raw \subseteq Body
    /\ \A b \in Raw : b.nullifier.salt = 0   \* no client draws the salt of another
    /\ MaxDraws \in Nat
    /\ None \notin Form /\ None \notin Sealed /\ None \notin ActiveOrder
    /\ None \notin Pair /\ None \notin Signature /\ None \notin Body

TypeOK ==
    /\ SessionTypeOK
    /\ IntakeTypeOK
    /\ form \in [Tab -> Form]
    /\ restoring \in [Tab -> Form \cup {None}]
    /\ drawn \in 0..MaxDraws
    /\ pending \in [Tab -> SUBSET Task]
    /\ current \in [Tab -> 0..MaxDraws]
    /\ sealed \in [Tab -> Sealed \cup {None}]
    /\ busyRef \in [Tab -> BOOLEAN]
    /\ busy \in [Tab -> BOOLEAN]
    /\ mine \in [Tab -> SUBSET Call]
    /\ err \in [Tab -> {"none", "no desk", "already broadcast", "failed"}]
    /\ active \in ActiveOrder \cup {None}
    /\ draft \in Form \cup {None}

Init ==
    /\ SessionInit
    /\ IntakeInit
    /\ form = [t \in Tab |-> Default]
    /\ restoring = [t \in Tab |-> None]
    /\ drawn = 0
    /\ pending = [t \in Tab |-> {}]
    /\ current = [t \in Tab |-> 0]
    /\ sealed = [t \in Tab |-> None]
    /\ busyRef = [t \in Tab |-> FALSE]
    /\ busy = [t \in Tab |-> FALSE]
    /\ mine = [t \in Tab |-> {}]
    /\ err = [t \in Tab |-> "none"]
    /\ active = None
    /\ draft = None

-----------------------------------------------------------------------------
(* Sealing                                                                  *)

\* A price is scaled to cents; a third decimal is an error.
ScaleUp(k) == IF k = 0 THEN 100 ELSE IF k = 1 THEN 10 ELSE 1
PriceInt(x) == x.digits * ScaleUp(x.decimals)
priceToInt(x) == x.ok /\ x.decimals <= 2 /\ InRange(PriceInt(x))

SizeInt(x) == x.digits
sizeToInt(x) == x.ok /\ x.decimals = 0 /\ InRange(SizeInt(x))

Seal(price, volume, salt) ==
    LET c == [price |-> price, volume |-> volume, salt |-> salt]
    IN [priceInt |-> price, volumeInt |-> volume, salt |-> salt,
        commitment |-> c, nullifier |-> [commitment |-> c, salt |-> salt]]

\* The effect of the inputs: the seal of the previous inputs is disowned and
\* a new one begun, with a salt of its own.
StartSeal(t, f) ==
    /\ drawn < MaxDraws
    /\ drawn' = drawn + 1
    /\ current' = [current EXCEPT ![t] = drawn + 1]
    /\ pending' = [pending EXCEPT ![t] =
                     @ \cup {[salt |-> drawn + 1, price |-> f.price, size |-> f.size]}]

\* Mutant: without the flag the seal that resolves last wins.
HeardAlways(t, k) == k \in pending[t]

\* A seal resolves, or is rejected for its inputs.  Only the current one is
\* heard: that is what the flag "alive" of the effect is for.
Heard(t, k) == k.salt = current[t]

SealDone(t) ==
    \E k \in pending[t] :
        /\ pending' = [pending EXCEPT ![t] = @ \ {k}]
        /\ sealed' = IF ~Heard(t, k) THEN sealed
                     ELSE [sealed EXCEPT ![t] =
                             IF priceToInt(k.price) /\ sizeToInt(k.size)
                             THEN Seal(PriceInt(k.price), SizeInt(k.size), k.salt)
                             ELSE None]
        /\ UNCHANGED <<sessionVars, intakeVars, formVars, sendVars, active, drawn, current>>

-----------------------------------------------------------------------------
(* The form                                                                 *)

\* All that the form keeps in its own state is dropped with it.
Unmount(t) ==
    /\ pending' = [pending EXCEPT ![t] = {}]
    /\ current' = [current EXCEPT ![t] = 0]
    /\ sealed' = [sealed EXCEPT ![t] = None]
    /\ restoring' = [restoring EXCEPT ![t] = None]
    /\ form' = [form EXCEPT ![t] = Default]
    /\ busyRef' = [busyRef EXCEPT ![t] = FALSE]
    /\ busy' = [busy EXCEPT ![t] = FALSE]
    /\ mine' = [mine EXCEPT ![t] = {}]
    /\ err' = [err EXCEPT ![t] = "none"]

\* The effects of the first render: read the draft, write the defaults over
\* it, seal the defaults.
Mount(t) ==
    /\ page[t] = "shell"
    /\ t \in Composers
    /\ page' = [page EXCEPT ![t] = "compose"]
    /\ restoring' = [restoring EXCEPT ![t] = draft]
    /\ draft' = Default
    /\ StartSeal(t, Default)
    /\ UNCHANGED <<desk, offer, intakeVars, form, sealed, sendVars, active>>

\* A change of the form is rendered: the draft is saved, and price and size
\* are sealed again when they differ.
Show(t, f) ==
    /\ form' = [form EXCEPT ![t] = f]
    /\ draft' = f
    /\ IF <<f.price, f.size>> # <<form[t].price, form[t].size>>
       THEN StartSeal(t, f)
       ELSE UNCHANGED <<drawn, pending, current>>
    /\ UNCHANGED <<sessionVars, intakeVars, sealed, sendVars, active>>

\* The second render shows the draft that was read before it was overwritten.
Restore(t) ==
    /\ restoring[t] # None
    /\ restoring' = [restoring EXCEPT ![t] = None]
    /\ Show(t, restoring[t])

Edit(t) ==
    /\ page[t] = "compose"
    /\ restoring[t] = None
    /\ \E f \in {[form[t] EXCEPT !.pair = p] : p \in Pair}
           \cup {[form[t] EXCEPT !.side = s] : s \in {"BID", "ASK"}}
           \cup {[form[t] EXCEPT !.price = x] : x \in PriceText}
           \cup {[form[t] EXCEPT !.size = x] : x \in SizeText} :
          f # form[t] /\ Show(t, f)
    /\ UNCHANGED restoring

Leave(t) ==
    /\ page[t] = "compose"
    /\ page' = [page EXCEPT ![t] = "shell"]
    /\ Unmount(t)
    /\ UNCHANGED <<desk, offer, intakeVars, drawn, active, draft>>

SignOut(t) ==
    /\ signOut(t)
    /\ Unmount(t)
    /\ UNCHANGED <<intakeVars, drawn, active, draft>>

\* A reload ends every promise of the tab; what it sent is on its way.
Reload(t) ==
    /\ page[t] \in Shell
    /\ page' = [page EXCEPT ![t] = "gate"]
    /\ down' = [c \in Call |-> IF from[c] = t THEN "closed" ELSE down[c]]
    /\ Unmount(t)
    /\ UNCHANGED <<desk, offer, body, from, up, drawn, active, draft>>

-----------------------------------------------------------------------------
(* Broadcast                                                                *)

\* Mutant: the side is sent as the form spells it.
LowerNot(side) == side

Lower(side) == IF side = "BID" THEN "bid" ELSE "ask"

\* Mutant: the commitment is that of the inputs, the values are those of the seal.
MixedOrder(t) ==
    [pubkey |-> desk, pair |-> form[t].pair, side |-> Lower(form[t].side),
     price |-> PriceInt(form[t].price), volume |-> SizeInt(form[t].size),
     salt |-> sealed[t].salt,
     commitment |-> sealed[t].commitment, nullifier |-> sealed[t].nullifier,
     signature |-> signCommitment(desk, sealed[t].commitment)]

\* What the button sends: routing fields of the form, the rest of the seal.
OrderBody(t) ==
    [pubkey |-> desk, pair |-> form[t].pair, side |-> Lower(form[t].side),
     price |-> sealed[t].priceInt, volume |-> sealed[t].volumeInt,
     salt |-> sealed[t].salt,
     commitment |-> sealed[t].commitment, nullifier |-> sealed[t].nullifier,
     signature |-> signCommitment(desk, sealed[t].commitment)]

\* Mutant: the rendered flag is the only guard.
ClickRendered(t) == page[t] = "compose" /\ sealed[t] # None /\ ~busy[t]

\* A click on the button as it is rendered.
Click(t) == page[t] = "compose" /\ sealed[t] # None /\ ~busy[t] /\ ~busyRef[t]

\* Mutant: the early return leaves the guard set.
NoDeskHeld(t) ==
    /\ Click(t)
    /\ desk = None
    /\ err' = [err EXCEPT ![t] = "no desk"]
    /\ busyRef' = [busyRef EXCEPT ![t] = TRUE]
    /\ UNCHANGED <<sessionVars, intakeVars, formVars, sealVars, busy, mine, active>>

NoDesk(t) ==
    /\ Click(t)
    /\ desk = None
    /\ err' = [err EXCEPT ![t] = "no desk"]
    /\ UNCHANGED <<sessionVars, intakeVars, formVars, sealVars, busyRef, busy, mine, active>>

Broadcast(t) ==
    /\ Click(t)
    /\ desk # None
    /\ busyRef' = [busyRef EXCEPT ![t] = TRUE]
    /\ err' = [err EXCEPT ![t] = "none"]
    /\ \E c \in Call :
          /\ createOrder(t, OrderBody(t), c)
          /\ mine' = [mine EXCEPT ![t] = @ \cup {c}]
    /\ UNCHANGED <<sessionVars, formVars, sealVars, busy, active>>

Render(t) ==
    /\ busy[t] # busyRef[t]
    /\ busy' = [busy EXCEPT ![t] = busyRef[t]]
    /\ UNCHANGED <<sessionVars, intakeVars, formVars, sealVars, busyRef, mine, err, active>>

Close(c) == down' = [down EXCEPT ![c] = "closed"] /\ UNCHANGED <<body, from, up>>

\* Mutant: the active order is taken from the form as it is now.
MetaOfForm(c) ==
    [id |-> c, side |-> Lower(form[from[c]].side), pair |-> form[from[c]].pair,
     priceInt |-> body[c].price, volumeInt |-> body[c].volume]

\* What the closure of broadcast still holds when the answer arrives.
Meta(c) ==
    [id |-> c, side |-> body[c].side, pair |-> body[c].pair,
     priceInt |-> body[c].price, volumeInt |-> body[c].volume]

\* 201: remember the order (a blocked write is ignored) and go to the pool.
Succeed(t) ==
    \E c \in Call :
        /\ from[c] = t
        /\ down[c] = "answered"
        /\ up[c] = "inserted"
        /\ active' \in {active, Meta(c)}
        /\ PushShell(t)
        /\ Close(c)
        /\ Unmount(t)
        /\ UNCHANGED <<desk, drawn, draft>>

\* Any other answer, or none: say so if the form is still there, and let go
\* of the guard.
Fail(t) ==
    \E c \in Call :
        /\ from[c] = t
        /\ \/ down[c] = "answered" /\ up[c] # "inserted"
           \/ down[c] = "lost"
        /\ Close(c)
        /\ IF c \in mine[t]
           THEN /\ busyRef' = [busyRef EXCEPT ![t] = FALSE]
                /\ mine' = [mine EXCEPT ![t] = @ \ {c}]
                /\ err' = [err EXCEPT ![t] =
                             IF down[c] = "answered" /\ up[c] = "duplicate"
                             THEN "already broadcast" ELSE "failed"]
           ELSE UNCHANGED <<busyRef, mine, err>>
        /\ UNCHANGED <<sessionVars, formVars, sealVars, busy, active>>

\* Any other client of the engine posts what it likes.
Post(s) ==
    /\ \E b \in Raw, c \in Call : post(s, b, c, "closed")
    /\ UNCHANGED <<sessionVars, composeVars>>

-----------------------------------------------------------------------------
TabStep(t) ==
    \/ SessionStep(t) /\ UNCHANGED <<intakeVars, composeVars>>
    \/ Mount(t) \/ Restore(t) \/ Edit(t) \/ SealDone(t)
    \/ Leave(t) \/ SignOut(t) \/ Reload(t)
    \/ NoDesk(t) \/ Broadcast(t) \/ Render(t) \/ Succeed(t) \/ Fail(t)

Next ==
    \/ \E t \in Tab : TabStep(t)
    \/ \E c \in Call : IntakeStep(c) /\ UNCHANGED <<sessionVars, composeVars>>
    \/ \E s \in Scripts : Post(s)

Spec == Init /\ [][Next]_vars

\* The proxy answers in the end, if only with its timeout, and the browser
\* runs what is ready to run.
Fairness ==
    /\ \A c \in Call : WF_vars((Answer(c) \/ GiveUp(c)) /\ UNCHANGED <<sessionVars, composeVars>>)
    /\ \A t \in Tab : WF_vars(Succeed(t) \/ Fail(t)) /\ WF_vars(SealDone(t))

FairSpec == Spec /\ Fairness

-----------------------------------------------------------------------------
(* Properties                                                               *)

\* Every order in the book has a side and is within the range of the circuit,
\* carries a good signature where one is given or required, and shares its
\* nullifier with no other order: whatever is posted, retried or answered too late
\* (api.go handleCreateOrder, order.go Validate, the UNIQUE of the nullifier).
BookIsSound ==
    /\ \A c \in Book :
          /\ body[c].side \in Side
          /\ {body[c].price, body[c].volume} \subseteq 1..(FieldMax - 1)
          /\ body[c].signature = None =>
                 ~RequireOrderSig
          /\ body[c].signature # None =>
                 /\ body[c].signature.key = body[c].pubkey
                 /\ body[c].signature.over = body[c].commitment
    /\ \A c, d \in Book : body[c].nullifier = body[d].nullifier => c = d

\* What a tab broadcasts can be proven: commitment and nullifier are those of
\* the very price, volume and salt that go with them, in range, whatever was
\* typed between the seal and the click (ComposeForm broadcast).
BroadcastIsSealed ==
    \A c \in Call : from[c] \in Tab =>
        LET b == body[c] IN
        /\ {b.price, b.volume} \subseteq 1..(FieldMax - 1)
        /\ b.commitment = [price |-> b.price, volume |-> b.volume, salt |-> b.salt]
        /\ b.nullifier = [commitment |-> b.commitment, salt |-> b.salt]

\* The active order is an order of the book, with the side, pair and private
\* values the engine has for it: the counterparty of the demo mirrors them
\* (ComposeForm 118-124), however late the answer came.
ActiveIsAccepted ==
    active # None =>
        /\ active.id \in Book
        /\ LET b == body[active.id] IN
             /\ active.side = b.side /\ active.pair = b.pair
             /\ active.priceInt = b.price /\ active.volumeInt = b.volume

\* Two clicks before the next render do not broadcast twice (busyRef).
OneInFlight == \A t \in Tab : Cardinality(mine[t]) <= 1

\* The button holds the seal of the inputs on the screen, unless their own seal
\* is still being computed: no older seal that resolves late replaces it.
StaleOnlyWhileSealing ==
    \A t \in Tab :
        \/ sealed[t] = None
        \/ \E k \in pending[t] : k.salt = current[t]
        \/ /\ sealed[t].priceInt = PriceInt(form[t].price)
           /\ sealed[t].volumeInt = SizeInt(form[t].size)

\* "nullifier already used" is only ever heard by a tab that broadcast the
\* same seal before, with success, and from the same tab.
CollisionIsMine ==
    \A c \in Call : from[c] \in Tab /\ up[c] = "duplicate" =>
        \E d \in Book : from[d] = from[c] /\ body[d].nullifier = body[c].nullifier

\* Every broadcast ends: the button can be used again or the form is left.
BroadcastEnds == \A t \in Tab : busyRef[t] ~> ~busyRef[t]

\* What the comment in ComposeForm.tsx says of a collision: the order that was
\* accepted is exactly the one that was refused.  It is not: side and pair are
\* no part of the commitment.
CollisionIsExact ==
    \A c \in Call : from[c] \in Tab /\ up[c] = "duplicate" =>
        \E d \in Book : /\ body[d].nullifier = body[c].nullifier
                        /\ body[d].side = body[c].side
                        /\ body[d].pair = body[c].pair
=============================================================================
