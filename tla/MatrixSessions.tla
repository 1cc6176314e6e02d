--------------------------- MODULE MatrixSessions ---------------------------
(***************************************************************************)
(* The operators' Matrix sessions: the store of this process               *)
(* (auth.MatrixTokens), the grants MAS holds for it, and what ends them.   *)
(*                                                                         *)
(* A grant is a session at MAS with a refresh token that MAS may replace   *)
(* at every use; a token is its number, the newest one is the one MAS      *)
(* accepts.  A request asks for an access token and renews it at MAS       *)
(* without holding the lock of the store, so that signing out, a new grant *)
(* and another request may come between its two critical sections.  Grants *)
(* that are let go of are revoked in the background, and what a restart, a *)
(* failure or a full store leaves behind is left to the hourly sweep.      *)
(*                                                                         *)
(* Time is what the operators and the process do not control: an access    *)
(* token may be about to expire whenever it is looked at, and a day may    *)
(* have passed over a grant whenever the sweep looks at it.                *)
(***************************************************************************)
EXTENDS Naturals, FiniteSets

CONSTANTS Operators,     \* numbered in the order of their first grants
          Grants,        \* bound: the grants MAS gives, numbered as they come
          Requests,      \* requests for an access token that run side by side
          maxSessions,   \* sessions the store takes
          MaxTokens,     \* bound: refresh tokens MAS issues for one grant
          MaxTroubles,   \* bound: restarts, calls to MAS that fail, grants ended elsewhere
          None

Tokens  == 1..MaxTokens
\* What the process knows of a grant: its refresh token, None if MAS gave none.
Credential == [grant : Grants, token : Tokens \cup {None}]

ASSUME SessionsAssumption ==
    /\ Operators \cup Grants \cup Requests \subseteq Nat
    /\ IsFiniteSet(Operators)
    /\ maxSessions \in Nat \ {0}
    /\ MaxTokens \in Nat \ {0}
    /\ MaxTroubles \in Nat
    /\ None \notin Nat \cup Credential

VARIABLES
    \* MAS
    owner,      \* grant -> whose it is, None before it is given
    open,       \* grants that work
    newest,     \* grant -> the refresh token MAS accepts
    rotates,    \* whether MAS replaces a refresh token that is used
    \* the process
    store,      \* operator -> credential, or None
    pc,         \* request -> its step
    asker,      \* request -> for whom
    carried,    \* request -> the credential it sent, or got back
    revoking,   \* credentials being revoked in the background
    sweeping,   \* grants the sweep still has to end
    troubles,   \* of these so far
    \* what happened
    signedOut,  \* operators without a grant stored since they signed out, or at all
    raced,      \* operators whose entry was worked on while a request renewed it
    revived     \* operators whose entry a renewal put back after it was gone, until it
                \* is forgotten

mas     == <<owner, open, newest, rotates>>
asking  == <<pc, asker, carried>>
history == <<signedOut, raced, revived>>
vars    == <<mas, store, asking, revoking, sweeping, troubles, history>>

Held(g) == \E u \in Operators : store[u] # None /\ store[u].grant = g
Signed  == {u \in Operators : store[u] # None}
InFlight(u) == {r \in Requests : pc[r] # "idle" /\ asker[r] = u}

TypeOK ==
    /\ owner \in [Grants -> Operators \cup {None}]
    /\ open \subseteq {g \in Grants : owner[g] # None}
    /\ newest \in [Grants -> Tokens]
    /\ rotates \in BOOLEAN
    /\ store \in [Operators -> Credential \cup {None}]
    /\ pc \in [Requests -> {"idle", "asking", "renewed", "refused"}]
    /\ asker \in [Requests -> Operators \cup {None}]
    /\ carried \in [Requests -> [grant : Grants, token : Tokens] \cup {None}]
    /\ revoking \subseteq Credential
    /\ sweeping \subseteq Grants
    /\ troubles \in 0..MaxTroubles
    /\ signedOut \subseteq Operators
    /\ raced \subseteq Operators
    /\ revived \subseteq Signed

Init ==
    /\ owner = [g \in Grants |-> None]
    /\ open = {}
    /\ newest = [g \in Grants |-> 1]
    /\ rotates \in BOOLEAN
    /\ store = [u \in Operators |-> None]
    /\ pc = [r \in Requests |-> "idle"]
    /\ asker = [r \in Requests |-> None]
    /\ carried = [r \in Requests |-> None]
    /\ revoking = {}
    /\ sweeping = {}
    /\ troubles = 0
    /\ signedOut = Operators
    /\ raced = {}
    /\ revived = {}

-----------------------------------------------------------------------------
(* The store: every operator is one critical section of its mutex.         *)

\* The revoker is called with a refresh token, when there is one.
LetGo(credentials) ==
    revoking' = revoking \cup {c \in credentials : c.token # None}

\* Somebody works on an operator's entry while another request than r is
\* renewing it; or writes it anew while none is.
Touches(u, r) ==
    raced' = IF InFlight(u) \ {r} = {} THEN raced ELSE raced \cup {u}
Settles(u, r) ==
    raced' = IF InFlight(u) \ {r} = {} THEN raced \ {u} ELSE raced \cup {u}

\* Fault: the session is revoked at MAS and stays in the store.
ForgetRevokesOnly(u) ==
    /\ LetGo({store[u]} \ {None})
    /\ UNCHANGED <<store, revived>>

Forget(u) ==
    /\ store' = [store EXCEPT ![u] = None]
    /\ revived' = revived \ {u}
    /\ LetGo({store[u]} \ {None})

\* Fault: a full store takes whoever signs in.
PutUnbounded(u, c) ==
    /\ store' = [store EXCEPT ![u] = c]
    /\ signedOut' = signedOut \ {u}
    /\ UNCHANGED revived
    /\ LetGo({store[u]} \ {None})

\* An operator who is new to a full store displaces the expired store nobody
\* can renew, and is refused when there are none; a grant that is replaced is
\* let go of.
Put(u, c) ==
    \E expired \in SUBSET {v \in Signed : store[v].token = None} :
        LET crowded == store[u] = None /\ Cardinality(Signed) >= maxSessions
            gone    == IF crowded THEN expired ELSE {}
        IN  /\ ~crowded => expired = {}
            /\ revived' = revived \ gone
            /\ IF crowded /\ Cardinality(Signed \ gone) >= maxSessions
               THEN /\ store' = [v \in Operators |-> IF v \in gone THEN None ELSE store[v]]
                    /\ UNCHANGED <<revoking, signedOut>>
               ELSE /\ store' = [v \in Operators |-> IF v = u THEN c
                                                     ELSE IF v \in gone THEN None
                                                     ELSE store[v]]
                    /\ LetGo({store[u]} \ {None})
                    /\ signedOut' = signedOut \ {u}

-----------------------------------------------------------------------------
(* Signing in and out.                                                     *)

\* finishSynapseAdmin: MAS opens a session for a code, and its tokens are put
\* into the store, unless the operator cannot be read from them; then the
\* grant is left as it is.  Nobody uses a grant before it is stored, so this
\* is one step.
Authorize(u, g) ==
    /\ owner[g] = None
    /\ \A h \in Grants : h < g => owner[h] # None
    /\ \A v \in Operators : v < u => \E h \in Grants : owner[h] = v
    /\ owner' = [owner EXCEPT ![g] = u]
    /\ open' = open \cup {g}
    /\ \/ /\ \E token \in {1, None} : Put(u, [grant |-> g, token |-> token])
          /\ Settles(u, None)
          /\ UNCHANGED troubles
       \/ /\ troubles < MaxTroubles
          /\ troubles' = troubles + 1
          /\ UNCHANGED <<store, revoking, history>>
    /\ UNCHANGED <<newest, rotates, asking, sweeping>>

Logout(u) ==
    /\ Forget(u)
    /\ signedOut' = signedOut \cup {u}
    /\ Settles(u, None)
    /\ UNCHANGED <<mas, asking, sweeping, troubles>>

-----------------------------------------------------------------------------
(* MatrixTokens.Get, for an access token that is about to expire; for any  *)
(* other it changes nothing.                                               *)

\* The refresh token is read under the lock and used without it.
Ask(r, u) ==
    /\ pc[r] = "idle"
    /\ \A q \in Requests : q < r => pc[q] # "idle"
    /\ u \in Signed
    /\ store[u].token # None
    /\ pc' = [pc EXCEPT ![r] = "asking"]
    /\ asker' = [asker EXCEPT ![r] = u]
    /\ carried' = [carried EXCEPT ![r] = store[u]]
    /\ Touches(u, r)
    /\ UNCHANGED <<mas, store, revoking, sweeping, troubles, signedOut, revived>>

\* Nothing to renew it with.
GetUnrenewable(u) ==
    /\ u \in Signed
    /\ store[u].token = None
    /\ Forget(u)
    /\ Settles(u, None)
    /\ UNCHANGED <<mas, asking, sweeping, troubles, signedOut>>

Accepted(c) == c.grant \in open /\ c.token = newest[c.grant]

\* Fault: no new refresh token is taken for none at all.
AnswerAsGiven(c) == IF rotates THEN [c EXCEPT !.token = @ + 1] ELSE [c EXCEPT !.token = None]

\* When MAS names no new refresh token, the old one stays good.
Answer(c) == IF rotates THEN [c EXCEPT !.token = @ + 1] ELSE c

\* MAS takes the token, and its answer arrives or is lost on the way.
Renew(r) ==
    LET c == carried[r] IN
    /\ pc[r] = "asking"
    /\ Accepted(c)
    /\ rotates => c.token < MaxTokens
    /\ newest' = [newest EXCEPT ![c.grant] = IF rotates THEN @ + 1 ELSE @]
    /\ \/ /\ pc' = [pc EXCEPT ![r] = "renewed"]
          /\ carried' = [carried EXCEPT ![r] = Answer(c)]
          /\ UNCHANGED troubles
       \/ /\ troubles < MaxTroubles
          /\ troubles' = troubles + 1
          /\ pc' = [pc EXCEPT ![r] = "refused"]
          /\ UNCHANGED carried
    /\ UNCHANGED <<owner, open, rotates, store, asker, revoking, sweeping, history>>

\* MAS does not know the token any more, or cannot be reached.
Refuse(r) ==
    /\ pc[r] = "asking"
    /\ \/ /\ ~Accepted(carried[r]) \/ (rotates /\ carried[r].token = MaxTokens)
          /\ UNCHANGED troubles
       \/ /\ troubles < MaxTroubles
          /\ troubles' = troubles + 1
    /\ pc' = [pc EXCEPT ![r] = "refused"]
    /\ UNCHANGED <<mas, store, asker, carried, revoking, sweeping,
                   history>>

Return(r) == /\ pc' = [pc EXCEPT ![r] = "idle"]
             /\ asker' = [asker EXCEPT ![r] = None]
             /\ carried' = [carried EXCEPT ![r] = None]

\* Fault: the answer renews the access token, the refresh token stays.
KeepOldToken(r) ==
    LET u == asker[r] IN
    /\ pc[r] = "renewed"
    /\ store' = [store EXCEPT ![u] = IF @ = None THEN carried[r] ELSE @]
    /\ revived' = IF store[u] = None THEN revived \cup {u} ELSE revived
    /\ Return(r)
    /\ Touches(u, r)
    /\ UNCHANGED <<mas, revoking, sweeping, troubles, signedOut>>

\* What came back is stored, whatever the entry is by now.
Keep(r) ==
    LET u == asker[r] IN
    /\ pc[r] = "renewed"
    /\ store' = [store EXCEPT ![u] = carried[r]]
    /\ revived' = IF store[u] = None THEN revived \cup {u} ELSE revived
    /\ Return(r)
    /\ Touches(u, r)
    /\ UNCHANGED <<mas, revoking, sweeping, troubles, signedOut>>

\* A failed renewal forgets the operator.
GiveUp(r) ==
    /\ pc[r] = "refused"
    /\ Forget(asker[r])
    /\ Return(r)
    /\ Settles(asker[r], r)
    /\ UNCHANGED <<mas, sweeping, troubles, signedOut>>

-----------------------------------------------------------------------------
(* What ends a grant.                                                      *)

Closes(g) == open' = open \ {g}

\* RevokeLater: MAS ends the session behind a token it accepts, may end that
\* of one it has replaced, or is not reached in time.
Revoke(c) ==
    /\ c \in revoking
    /\ revoking' = revoking \ {c}
    /\ \/ Closes(c.grant) /\ UNCHANGED troubles
       \/ ~Accepted(c) /\ UNCHANGED <<open, troubles>>
       \/ /\ troubles < MaxTroubles
          /\ troubles' = troubles + 1
          /\ UNCHANGED open
    /\ UNCHANGED <<owner, newest, rotates, store, asking, sweeping, history>>

\* Fault: only sign-ins are picked, a session with a Matrix grant is kept.
StaleSessionsSignIns == {}

\* GrantIdleLimit has passed since a grant was given or last used: of those
\* that are open, any may be stale.
StaleSessions == SUBSET open \ {{}}

SweepLists ==
    /\ sweeping = {}
    /\ \/ sweeping' \in StaleSessions /\ UNCHANGED troubles
       \/ /\ troubles < MaxTroubles
          /\ troubles' = troubles + 1
          /\ UNCHANGED sweeping
    /\ UNCHANGED <<mas, store, asking, revoking, history>>

\* What was listed is ended, in its order, used again since or not; a failure
\* goes on to the next.
SweepFinishes(g) ==
    /\ g \in sweeping
    /\ \A h \in sweeping : g <= h
    /\ sweeping' = sweeping \ {g}
    /\ \/ Closes(g) /\ UNCHANGED troubles
       \/ /\ troubles < MaxTroubles
          /\ troubles' = troubles + 1
          /\ UNCHANGED open
    /\ UNCHANGED <<owner, newest, rotates, store, asking, revoking, history>>

\* MAS ends a session by itself, or the operator does elsewhere.
EndsElsewhere(g) ==
    /\ g \in open
    /\ troubles < MaxTroubles
    /\ troubles' = troubles + 1
    /\ Closes(g)
    /\ UNCHANGED <<owner, newest, rotates, store, asking, revoking,
                   sweeping, history>>

-----------------------------------------------------------------------------
(* The process.                                                            *)

\* Nothing of this is stored: a restart costs the operators one sign-in.
Restart ==
    /\ troubles < MaxTroubles
    /\ troubles' = troubles + 1
    /\ store' = [u \in Operators |-> None]
    /\ pc' = [r \in Requests |-> "idle"]
    /\ asker' = [r \in Requests |-> None]
    /\ carried' = [r \in Requests |-> None]
    /\ revoking' = {}
    /\ sweeping' = {}
    /\ signedOut' = Operators
    /\ raced' = {}
    /\ revived' = {}
    /\ UNCHANGED mas

Get(r) == \/ \E u \in Operators : Ask(r, u)
          \/ Renew(r) \/ Refuse(r) \/ Keep(r) \/ GiveUp(r)

Next == \/ \E u \in Operators : \/ \E g \in Grants : Authorize(u, g)
                                \/ Logout(u) \/ GetUnrenewable(u)
        \/ \E r \in Requests : Get(r)
        \/ \E c \in revoking : Revoke(c)
        \/ SweepLists
        \/ \E g \in Grants : SweepFinishes(g) \/ EndsElsewhere(g)
        \/ Restart

Spec == Init /\ [][Next]_vars

\* A day passes over the grants nobody holds, and then the sweep, which comes
\* every hour, lists them; what it lists it works off.
Unheld == {g \in open : ~Held(g)}

FairSpec ==
    /\ Spec
    /\ SF_vars(SweepLists /\ Unheld \subseteq sweeping')
    /\ WF_vars(\E g \in Grants : SweepFinishes(g))

-----------------------------------------------------------------------------
(* Properties.                                                             *)

\* The store holds more than maxSessions only by the store a renewal put
\* back after they were gone: signing in never takes it over the bound.
StoreIsBounded == Cardinality(Signed \ revived) <= maxSessions

\* Two requests that renew one session side by side do not leave the older
\* refresh token in the store: what is stored is what MAS accepts, or somebody
\* is on the way to replace it, or an answer was lost.
HeldIsCurrent ==
    \A u \in Operators :
        store[u] # None /\ store[u].token # None
        => \/ store[u].token = newest[store[u].grant]
           \/ \E r \in InFlight(u) : pc[r] \in {"renewed", "refused"}
           \/ troubles > 0

\* Signing out sticks, and what the store holds is not being revoked, for an
\* operator whose entry was left alone while a request renewed it.
SignOutSticks ==
    \A u \in Operators \ raced :
        /\ u \in signedOut => store[u] = None
        /\ \A c \in revoking : store[u] # None => store[u].grant # c.grant

\* No grant stays open at MAS for good that no operator's entry holds, however
\* it was lost: refused by a full store, replaced, orphaned by a restart, its
\* revocation failed ("without it each one stayed open at MAS for good").
NothingStaysOpen ==
    \A g \in Grants : []<>(g \notin open \/ Held(g))

\* auth.go, Logout: "Signing out drops the operator's Matrix session too.
\* Leaving it behind would mean a refresh token that outlived the login it came
\* with": no session is held for who signed out and was given no new grant.
SignedOutHoldsNothing == \A u \in signedOut : store[u] = None

=============================================================================
