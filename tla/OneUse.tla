------------------------------- MODULE OneUse -------------------------------
(***************************************************************************)
(* The chain of things that are good for one use: the state of a Matrix    *)
(* login, the code its callback hands the page, the ticket that opens a    *)
(* WebSocket - and the session between them.  States, codes and sessions   *)
(* are rows of the database; tickets live in the process.                  *)
(*                                                                         *)
(* Random values are distinct by assumption: a credential is a number.     *)
(* Time is what a lifetime has left.                                       *)
(***************************************************************************)
EXTENDS Naturals, FiniteSets

CONSTANTS Credentials,   \* one-use credentials, numbered from 1
          MaxTickets,    \* tickets outstanding at a time
          None

VARIABLES
    credential, \* credential -> what it is, None before it is issued
    spent,      \* credential -> how often it opened something
    session     \* credential -> the session a code became

vars == <<credential, spent, session>>

\* What is good for one use.
Issued == [kind : {"login", "synapse_admin", "code", "ticket"},
           origin : Credentials, life : {"good", "expired", "used", "gone"}]

\* Of the constants: nothing that was issued reads like nothing.
Drawn == None \notin Issued

Is(c, kind) == credential[c] # None /\ credential[c].kind = kind
Good(c)     == credential[c].life = "good"
Tickets     == {c \in Credentials : Is(c, "ticket") /\ credential[c].life # "gone"}

\* A ticket that expired is swept when the next one is issued, and counts until then.
TypeOK ==
    /\ credential \in [Credentials -> Issued \cup {None}]
    /\ spent \in [Credentials -> 0..1]
    /\ session \in [Credentials -> {"none", "open", "revoked"}]
    /\ Cardinality(Tickets) <= MaxTickets

Init ==
    /\ credential = [c \in Credentials |-> None]
    /\ spent = [c \in Credentials |-> 0]
    /\ session = [c \in Credentials |-> "none"]

-----------------------------------------------------------------------------
\* The next number: what is drawn was never drawn before.
Free(c) == credential[c] = None /\ \A d \in Credentials : d < c => credential[d] # None

Issue(c, kind, origin) ==
    /\ Free(c)
    /\ credential' = [credential EXCEPT ![c] = [kind |-> kind, origin |-> origin, life |-> "good"]]

AuthURL(c, purpose) == Issue(c, purpose, c) /\ UNCHANGED <<spent, session>>

\* Fault: what is brought is looked up and judged, and swept an hour later.
SpendFault(c) == spent' = [spent EXCEPT ![c] = @ + 1] /\ UNCHANGED credential

\* One statement finds the row, judges its lifetime and deletes it.
Spend(c) ==
    /\ spent' = [spent EXCEPT ![c] = @ + 1]
    /\ credential' = [credential EXCEPT ![c].life = "used"]

\* Any number of requests may bring the same state or code.
Redeem(c) ==
    /\ credential[c] # None
    /\ credential[c].kind # "ticket"
    /\ Good(c)
    /\ Spend(c)
    /\ UNCHANGED session

Used(c, kind) == Is(c, kind) /\ credential[c].life = "used"

(* What the request wanted fails - MAS refuses the login, its account is   *)
(* no admin, the session cannot be stored - or it is the grant for rooms,  *)
(* which becomes no session of MatrixCtrl.  The state or code is gone.     *)
Ends(c) ==
    /\ credential[c] # None
    /\ credential[c].life = "used"
    /\ credential' = [credential EXCEPT ![c].life = "gone"]
    /\ UNCHANGED <<spent, session>>

\* OIDCCallback: which flow this is comes from the row the state was, never
\* from the browser.
Callback(s, c) ==
    /\ Used(s, "login")
    /\ Free(c)
    /\ credential' = [credential EXCEPT
                        ![s].life = "gone",
                        ![c] = [kind |-> "code", origin |-> s, life |-> "good"]]
    /\ UNCHANGED <<spent, session>>

\* ExchangeCode, CreateOIDCSession
ExchangeCode(c) ==
    /\ Used(c, "code")
    /\ session' = [session EXCEPT ![c] = "open"]
    /\ credential' = [credential EXCEPT ![c].life = "gone"]
    /\ UNCHANGED spent

Logout(c) ==
    /\ session[c] = "open"
    /\ session' = [session EXCEPT ![c] = "revoked"]
    /\ UNCHANGED <<credential, spent>>

\* Issuing sweeps what has expired first, and refuses at the bound.
WSTicket(c, s) ==
    LET swept == [d \in Credentials |->
                    IF d \in Tickets /\ ~Good(d) THEN [credential[d] EXCEPT !.life = "gone"]
                    ELSE credential[d]]
    IN  /\ session[s] = "open"
        /\ Free(c)
        /\ Cardinality({d \in Tickets : Good(d)}) < MaxTickets
        /\ credential' = [swept EXCEPT ![c] = [kind |-> "ticket", origin |-> s, life |-> "good"]]
        /\ UNCHANGED <<spent, session>>

\* The middleware: a ticket that is found is deleted, good or not.
RedeemTicket(c) ==
    /\ c \in Tickets
    /\ spent' = [spent EXCEPT ![c] = IF Good(c) THEN @ + 1 ELSE @]
    /\ credential' = [credential EXCEPT ![c].life = "gone"]
    /\ UNCHANGED session

Expires(c) ==
    /\ credential[c] # None
    /\ Good(c)
    /\ credential' = [credential EXCEPT ![c].life = "expired"]
    /\ UNCHANGED <<spent, session>>

\* A new process knows no ticket, and nothing of the requests under way.
Restart ==
    /\ credential' = [c \in Credentials |->
                        IF c \in Tickets \/ (credential[c] # None /\ credential[c].life = "used")
                        THEN [credential[c] EXCEPT !.life = "gone"] ELSE credential[c]]
    /\ UNCHANGED <<spent, session>>

-----------------------------------------------------------------------------
Next ==
    \/ Restart
    \/ \E c \in Credentials :
       \/ \E purpose \in {"login", "synapse_admin"} : AuthURL(c, purpose)
       \/ Redeem(c)
       \/ Ends(c)
       \/ \E s \in Credentials : Callback(s, c)
       \/ ExchangeCode(c)
       \/ Logout(c)
       \/ \E s \in Credentials : WSTicket(c, s)
       \/ RedeemTicket(c)
       \/ Expires(c)

Spec == Init /\ [][Next]_vars

-----------------------------------------------------------------------------
(* A state, a code or a ticket opens one thing, however many requests      *)
(* bring it, and a session goes back to the state of a login.              *)
CredentialsAreGoodOnce ==
    \A c \in Credentials :
       /\ spent[c] <= 1
       /\ session[c] # "none" => /\ Is(c, "code")
                                 /\ Is(credential[c].origin, "login")
                                 /\ spent[credential[c].origin] = 1
=============================================================================
