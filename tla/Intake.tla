------------------------------- MODULE Intake -------------------------------
(***************************************************************************)
(* How an order gets into the book.  A client posts it through the proxy   *)
(* of the web server, which gives up after its timeout although the engine *)
(* may still be at work; the engine checks what it is sent and inserts it  *)
(* unless its nullifier is taken.  A call is one POST /orders: "up" is what*)
(* became of it on the engine's side, "down" what its caller knows of it.  *)
(* The id of an order is the call that brought it.                         *)
(***************************************************************************)
EXTENDS DeskKeys, Naturals

CONSTANTS
    Client,            \* whoever posts orders: tabs of the web desk, scripts
    Pair,              \* asset pairs
    FieldMax,          \* 2^64 in the code: operands of the circuit are below it
    RequireOrderSig,   \* NYX_REQUIRE_ORDER_SIG
    MaxCalls           \* bound on the calls of a behaviour

ASSUME IntakeAssumption ==
    /\ FieldMax \in Nat
    /\ MaxCalls \in Nat
    /\ RequireOrderSig \in BOOLEAN

Call == 1..MaxCalls

VARIABLES
    body,    \* body[c]: what call c posts
    from,    \* from[c]: who posts it
    up,
    down

intakeVars == <<body, from, up, down>>

Side == {"bid", "ask"}

\* The Poseidon hashes are taken to be free of collisions: a commitment is the
\* triple it commits to, a nullifier the pair it is derived from.
Commitment == [price : Nat, volume : Nat, salt : Nat]
Nullifier == [commitment : Commitment, salt : Nat]
Signature == [key : Desk, over : Commitment]

\* An order as a client may send it.  "buy" is a side the engine does not know.
Body == [pubkey : Desk \cup {None}, pair : Pair \cup {None}, side : Side \cup {"buy"},
         price : Nat, volume : Nat, salt : Nat,
         commitment : Commitment, nullifier : Nullifier,
         signature : Signature \cup {None}]

Ups == {"idle", "travelling", "inserted", "duplicate", "refused", "dropped"}
Downs == {"idle", "waiting", "answered", "lost", "closed"}

IntakeTypeOK ==
    /\ body \in [Call -> Body \cup {None}]
    /\ from \in [Call -> Client \cup {None}]
    /\ up \in [Call -> Ups]
    /\ down \in [Call -> Downs]

IntakeInit ==
    /\ body = [c \in Call |-> None]
    /\ from = [c \in Call |-> None]
    /\ up = [c \in Call |-> "idle"]
    /\ down = [c \in Call |-> "idle"]

Book == {c \in Call : up[c] = "inserted"}

IsNextCall(c) ==
    /\ up[c] = "idle"
    /\ \A d \in Call : d < c => up[d] # "idle"

\* who posts b.  What a caller does with the answer matters for the tabs only:
\* they wait ("waiting"), of the scripts the answer is not followed ("closed").
post(who, b, c, awaited) ==
    /\ IsNextCall(c)
    /\ body' = [body EXCEPT ![c] = b]
    /\ from' = [from EXCEPT ![c] = who]
    /\ up' = [up EXCEPT ![c] = "travelling"]
    /\ down' = [down EXCEPT ![c] = awaited]

createOrder(t, b, c) == post(t, b, c, "waiting")

\* What the scripts make of a good order: the seed script leaves the signature
\* out, the end-to-end test misspells the side.
unsigned(b) == [b EXCEPT !.signature = None]
badSide(b) == [b EXCEPT !.side = "buy"]

\* What the engine checks, in its order: fields and side, range, signature.  Every
\* caller here has a commitment, a nullifier and a decimal salt, which it asks for too.
WellFormed(b) == b.pubkey # None /\ b.pair # None /\ b.side \in Side

\* Mutant: the upper bound is let through.
InRangeInclusive(x) == 0 < x /\ x <= FieldMax

InRange(x) == 0 < x /\ x < FieldMax

Validate(b) == InRange(b.price) /\ InRange(b.volume)

Verify(b) ==
    IF b.signature # None
    THEN SignedBy(b.pubkey, b.commitment, b.signature)
    ELSE ~RequireOrderSig

Acceptable(b) == WellFormed(b) /\ Validate(b) /\ Verify(b)

Taken(n) == \E d \in Book : body[d].nullifier = n

\* The engine handles the request: 201, 409, 400 or 401; a failure of the
\* database (500) is a refusal too.
Refuse(c) ==
    /\ up[c] = "travelling"
    /\ up' = [up EXCEPT ![c] = "refused"]
    /\ UNCHANGED <<body, from, down>>

Insert(c) ==
    /\ up[c] = "travelling"
    /\ Acceptable(body[c])
    /\ ~Taken(body[c].nullifier)
    /\ up' = [up EXCEPT ![c] = "inserted"]
    /\ UNCHANGED <<body, from, down>>

\* Mutant: every error of the insert is taken for a duplicate.
DuplicateOnError(c) ==
    /\ up[c] = "travelling"
    /\ Acceptable(body[c])
    /\ up' = [up EXCEPT ![c] = "duplicate"]
    /\ UNCHANGED <<body, from, down>>

Duplicate(c) ==
    /\ up[c] = "travelling"
    /\ Acceptable(body[c])
    /\ Taken(body[c].nullifier)
    /\ up' = [up EXCEPT ![c] = "duplicate"]
    /\ UNCHANGED <<body, from, down>>

\* The answer of the engine passes the proxy and reaches the caller.
Answer(c) ==
    /\ down[c] = "waiting"
    /\ up[c] \in {"inserted", "duplicate", "refused"}
    /\ down' = [down EXCEPT ![c] = "answered"]
    /\ UNCHANGED <<body, from, up>>

\* The caller is told 504 or 502, or its own fetch fails.  The engine is not
\* asked: it may insert the order later, or have inserted it already.
GiveUp(c) ==
    /\ down[c] = "waiting"
    /\ down' = [down EXCEPT ![c] = "lost"]
    /\ UNCHANGED <<body, from, up>>

\* The request never reaches the handler, or its context is cancelled in time.
Drop(c) ==
    /\ up[c] = "travelling"
    /\ up' = [up EXCEPT ![c] = "dropped"]
    /\ UNCHANGED <<body, from, down>>

handleCreateOrder(c) == Refuse(c) \/ Insert(c) \/ Duplicate(c)

proxy(c) == Answer(c) \/ GiveUp(c) \/ Drop(c)

IntakeStep(c) == handleCreateOrder(c) \/ proxy(c)
=============================================================================
