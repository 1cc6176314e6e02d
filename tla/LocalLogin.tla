------------------------------ MODULE LocalLogin ------------------------------
(***************************************************************************)
(* The local login behind its throttle.  Requests run side by side; every  *)
(* look at a counter and every change of one is a statement of its own.    *)
(* Time is what a lockout has left.                                        *)
(***************************************************************************)
EXTENDS Naturals, FiniteSets

CONSTANTS Attempts,      \* login requests that run side by side
          Addresses,     \* addresses they come from
          LockoutAfter,  \* failures that lock a key
          MaxTroubles,   \* bound: statements about a counter that fail
          None

VARIABLES
    oidc,       \* an OIDC service is installed
    failures,   \* key -> failures counted, 0 without a row
    age,        \* key -> how long ago the last failure is
    step,       \* attempt -> its step
    from,       \* attempt -> the address it comes from
    guesses,    \* wrong passwords compared since the account's counter was last
                \* cleared or grew old
    troubles    \* bound

throttle == <<failures, age>>
vars     == <<oidc, throttle, step, from, guesses, troubles>>

User == "admin"
Keys == Addresses \cup {User}

\* Of the constants: finitely many requests run at a time, a lockout takes at
\* least one failure, and no address reads like the account.
Throttled ==
    /\ IsFiniteSet(Attempts)
    /\ LockoutAfter \in Nat \ {0}
    /\ MaxTroubles \in Nat
    /\ None \notin Addresses
    /\ User \notin Addresses

\* bounds: failures beyond the lockout, and guesses beyond Enough, are not told apart
Enough == LockoutAfter + Cardinality(Attempts) + MaxTroubles
OneMore(n, most) == IF n = most THEN n ELSE n + 1

TypeOK ==
    /\ oidc \in BOOLEAN
    /\ failures \in [Keys -> 0..LockoutAfter]
    /\ age \in [Keys -> {"recent", "unlocked", "forgotten"}]
    /\ step \in [Attempts -> {"idle", "checkUser", "compare",
                              "failAddress", "failUser", "clearAddress", "clearUser"}]
    /\ from \in [Attempts -> Addresses \cup {None}]
    /\ guesses \in 0..Enough
    /\ troubles \in 0..MaxTroubles

Init ==
    /\ oidc = FALSE
    /\ failures = [k \in Keys |-> 0]
    /\ age = [k \in Keys |-> "recent"]
    /\ step = [a \in Attempts |-> "idle"]
    /\ from = [a \in Attempts |-> None]
    /\ guesses = 0
    /\ troubles = 0

-----------------------------------------------------------------------------
Locked(k) == failures[k] = LockoutAfter /\ age[k] = "recent"

(* BootstrapLogin checks both keys, one statement each; the first together *)
(* with the arrival, which nobody else sees.  A locked address is refused. *)
Arrive(a, address) ==
    /\ step[a] = "idle"
    /\ ~oidc
    /\ ~Locked(address)
    /\ step' = [step EXCEPT ![a] = "checkUser"]
    /\ from' = [from EXCEPT ![a] = address]
    /\ UNCHANGED <<oidc, throttle, guesses, troubles>>

Back(a) == step' = [step EXCEPT ![a] = "idle"] /\ from' = [from EXCEPT ![a] = None]

Check(a, key) ==
    /\ step[a] = "checkUser"
    /\ IF Locked(key) THEN Back(a)
                      ELSE step' = [step EXCEPT ![a] = "compare"] /\ UNCHANGED from
    /\ UNCHANGED <<oidc, throttle, guesses, troubles>>

\* Fault: only the address is looked up.
CheckUserFault(a) == Check(a, from[a])

CheckUser(a) == Check(a, User)

(* The wait of a backoff lies before this step, and whatever else is       *)
(* counted meanwhile.                                                      *)
Compare(a, right) ==
    /\ step[a] = "compare"
    /\ step' = [step EXCEPT ![a] = IF right THEN "clearAddress" ELSE "failAddress"]
    /\ guesses' = IF right THEN guesses ELSE OneMore(guesses, Enough)
    /\ UNCHANGED <<oidc, throttle, from, troubles>>

\* A counter older than the forget window starts over.
Count(k) ==
    /\ failures' = [failures EXCEPT ![k] = IF age[k] = "forgotten" THEN 1 ELSE OneMore(@, LockoutAfter)]
    /\ age' = [age EXCEPT ![k] = "recent"]

\* Only a correct password clears the counter.
Clear(k) ==
    /\ failures' = [failures EXCEPT ![k] = 0]
    /\ age' = [age EXCEPT ![k] = "recent"]

FailAddress(a) ==
    /\ step[a] = "failAddress"
    /\ Count(from[a])
    /\ step' = [step EXCEPT ![a] = "failUser"]
    /\ UNCHANGED <<oidc, from, guesses, troubles>>

FailUser(a) ==
    /\ step[a] = "failUser"
    /\ Count(User)
    /\ Back(a)
    /\ UNCHANGED <<oidc, guesses, troubles>>

ClearAddress(a) ==
    /\ step[a] = "clearAddress"
    /\ Clear(from[a])
    /\ step' = [step EXCEPT ![a] = "clearUser"]
    /\ UNCHANGED <<oidc, from, guesses, troubles>>

ClearUser(a) ==
    /\ step[a] = "clearUser"
    /\ Clear(User)
    /\ Back(a)
    /\ guesses' = 0
    /\ UNCHANGED <<oidc, troubles>>

\* The counters cannot be read, or the client is gone before the wait is over.
Refuse(a) ==
    /\ step[a] \in {"checkUser", "compare"}
    /\ Back(a)
    /\ UNCHANGED <<oidc, throttle, guesses, troubles>>

\* A counter that cannot be written is logged, and the request goes on.
NotWritten(a) ==
    /\ troubles < MaxTroubles
    /\ troubles' = troubles + 1
    /\ \/ step[a] = "failAddress" /\ step' = [step EXCEPT ![a] = "failUser"] /\ UNCHANGED from
       \/ step[a] = "clearAddress" /\ step' = [step EXCEPT ![a] = "clearUser"] /\ UNCHANGED from
       \/ step[a] \in {"failUser", "clearUser"} /\ Back(a)
    /\ UNCHANGED <<oidc, throttle, guesses>>

\* Fifteen minutes, then an hour without a failure on a key.
Ages(k) ==
    /\ failures[k] > 0
    /\ age[k] # "forgotten"
    /\ age' = [age EXCEPT ![k] = IF @ = "recent" THEN "unlocked" ELSE "forgotten"]
    /\ guesses' = IF k = User THEN 0 ELSE guesses
    /\ UNCHANGED <<oidc, failures, step, from, troubles>>

\* InstallOIDC: the local login closes, but not under a request already in it.
OidcLands == ~oidc /\ oidc' = TRUE /\ UNCHANGED <<throttle, step, from, guesses, troubles>>

-----------------------------------------------------------------------------
Next ==
    \/ \E a \in Attempts :
         \/ \E address \in Addresses : Arrive(a, address)
         \/ CheckUser(a)
         \/ \E right \in BOOLEAN : Compare(a, right)
         \/ FailAddress(a)
         \/ FailUser(a)
         \/ ClearAddress(a)
         \/ ClearUser(a)
         \/ Refuse(a)
         \/ NotWritten(a)
    \/ \E k \in Keys : Ages(k)
    \/ OidcLands

Spec == Init /\ [][Next]_vars

-----------------------------------------------------------------------------
(* Between two rests of the account's lock no more wrong passwords are     *)
(* compared than lock it, one for each request that came in together with  *)
(* the last of them, and one for each failure that could not be counted -  *)
(* from however many addresses they come.                                  *)
GuessesAreBounded == guesses <= LockoutAfter + Cardinality(Attempts) - 1 + troubles
=============================================================================
