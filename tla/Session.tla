------------------------------ MODULE Session ------------------------------
(***************************************************************************)
(* Who is at the desk.  A desk is a key pair kept in localStorage, which   *)
(* all tabs of the browser share.  /app/access creates or imports one      *)
(* (AccessForm), the shell lets a tab in if it finds one (AuthGate), its   *)
(* footer signs out (DeskFooter).  The gate looks once, when the shell is  *)
(* mounted: a tab that is in stays in when another tab signs out.          *)
(***************************************************************************)
EXTENDS DeskKeys

CONSTANT Tab   \* tabs of one browser

VARIABLES
    desk,    \* the item nyx.desk of localStorage, as loadDesk reads it
    page,    \* page[t]: what tab t shows
    offer    \* offer[t]: the desks the access form of t holds in its own state

sessionVars == <<desk, page, offer>>

\* "opening" and "gate" are pages that are mounted but whose effect has not
\* yet run; "shell" is any page of the shell but the compose form.
Pages == {"opening", "access", "gate", "shell", "compose"}
Shell == {"shell", "compose"}

Offer == [existing : Desk \cup {None}, generated : Desk \cup {None}]

SessionTypeOK ==
    /\ desk \in Desk \cup {None}
    /\ page \in [Tab -> Pages]
    /\ offer \in [Tab -> Offer]

NoOffer == [existing |-> None, generated |-> None]

SessionInit ==
    /\ desk = None
    /\ page = [t \in Tab |-> "opening"]
    /\ offer = [t \in Tab |-> NoOffer]

\* The access form offers the desk it finds; without one it makes a new key.
OpenAccess(t) ==
    /\ page[t] = "opening"
    /\ page' = [page EXCEPT ![t] = "access"]
    /\ \/ /\ desk # None
          /\ offer' = [offer EXCEPT ![t] = [NoOffer EXCEPT !.existing = desk]]
       \/ /\ desk = None
          /\ \E d \in Desk : offer' = [offer EXCEPT ![t] = [NoOffer EXCEPT !.generated = d]]
    /\ UNCHANGED desk

\* "Use a different key" removes the stored desk, whichever it is by now.
UseDifferent(t) ==
    /\ page[t] = "access"
    /\ offer[t].existing # None
    /\ desk' = None
    /\ \E d \in Desk : offer' = [offer EXCEPT ![t] = [NoOffer EXCEPT !.generated = d]]
    /\ UNCHANGED page

regenerate(t) ==
    /\ page[t] = "access"
    /\ offer[t].existing = None
    /\ \E d \in Desk \ {offer[t].generated} : offer' = [offer EXCEPT ![t].generated = d]
    /\ UNCHANGED <<desk, page>>

\* Sign in with desk d.  A refused write leaves the form as it is.
signIn(t, d) ==
    /\ page[t] = "access"
    /\ desk' = d
    /\ page' = [page EXCEPT ![t] = "gate"]
    /\ offer' = [offer EXCEPT ![t] = NoOffer]

Continue(t) == offer[t].existing # None /\ signIn(t, offer[t].existing)

authenticate(t) ==
    /\ offer[t].existing = None
    /\ offer[t].generated # None
    /\ signIn(t, offer[t].generated)

\* Any other desk whose secret is typed in.
authenticateImport(t) ==
    /\ offer[t].existing = None
    /\ \E d \in Desk : signIn(t, d)

\* The effect of AuthGate: let the tab in, or redirect it to the access form.
AuthGate(t) ==
    /\ page[t] = "gate"
    /\ page' = [page EXCEPT ![t] = IF desk # None THEN "shell" ELSE "opening"]
    /\ UNCHANGED <<desk, offer>>

\* A tab leaves the shell for the access form; signOut removes the desk first.
signOut(t) ==
    /\ page[t] \in Shell
    /\ desk' = None
    /\ page' = [page EXCEPT ![t] = "opening"]
    /\ UNCHANGED offer

\* router.push to a page of the shell: inside the shell the layout stays
\* mounted; from outside it is mounted anew and the gate looks again.
PushShell(t) ==
    /\ page' = [page EXCEPT ![t] = IF @ \in Shell THEN "shell" ELSE "gate"]
    /\ offer' = [offer EXCEPT ![t] = NoOffer]

SessionStep(t) ==
    \/ OpenAccess(t)
    \/ UseDifferent(t)
    \/ regenerate(t)
    \/ Continue(t)
    \/ authenticate(t)
    \/ authenticateImport(t)
    \/ AuthGate(t)
=============================================================================
