----------------------------- MODULE PartsProofs -----------------------------
(***************************************************************************)
(* Of the parts that MCParts checks side by side: the throttle of the local *)
(* login, the credentials that are good once, the restore of an archive,   *)
(* the hooks, the histories of what is read on a timer and the settings    *)
(* that are kept in files, for any number of requests, addresses,          *)
(* credentials, restores, triggers, readings and sections, and of          *)
(* failures.                                                               *)
(***************************************************************************)
EXTENDS Integers, Sequences, FiniteSets, FiniteSetTheorems, SequenceTheorems,
        WellFoundedInduction, TLAPS

CONSTANTS Attempts, Addresses, LockoutAfter, MaxTroubles,   \* of LocalLogin
          Credentials, MaxTickets,                          \* of OneUse
          Restores,                                         \* of RestoreJob
          Triggers,                                         \* of HookRuns
          Counters, CPU, MaxCount, MaxLives, Answers, MaxRows,   \* of Samplers
          Sections, Keys, Values, Default, Texts, Requests, MaxEdits,  \* of SectionFiles
          MaxChanges, MaxEvents, None

VARIABLES oidc, failures, age, step, from, guesses, troubles,
          credential, spent, session,
          repo, ownDB, db, secret, loaded, media, slot, restore, events,
          hook, chart, live, helm, trigger, row, lost,
          which, source, memory, sampler, rows, dns, sfu, recorder,
          disk, listed, migration, request, edits

Login == INSTANCE LocalLogin
Once  == INSTANCE OneUse
Job   == INSTANCE RestoreJob
Runs  == INSTANCE HookRuns
Past  == INSTANCE Samplers WITH kind <- which
Saves == INSTANCE SectionFiles

-----------------------------------------------------------------------------
(* LocalLogin's sets are finite when ours are.                             *)
LEMMA SameFinite == Login!IsFiniteSet(Attempts) = IsFiniteSet(Attempts)
BY DEF Login!IsFiniteSet, IsFiniteSet

(* LocalLogin counts as we do.                                             *)
LEMMA SameCount == Login!Cardinality(Attempts) = Cardinality(Attempts)
BY DEF Login!Cardinality, Cardinality

(* Requests about to compare a password, and those whose failure is not    *)
(* counted for the account yet.                                            *)
Comparing == {a \in Attempts : step[a] = "compare"}
Counting  == {a \in Attempts : step[a] \in {"failAddress", "failUser"}}

Steps == {"idle", "checkUser", "compare", "failAddress", "failUser", "clearAddress", "clearUser"}

Keeps ==
    /\ failures \in [Login!Keys -> 0..LockoutAfter]
    /\ age \in [Login!Keys -> {"recent", "unlocked", "forgotten"}]
    /\ step \in [Attempts -> Steps]
    /\ from \in [Attempts -> Addresses \cup {None}]
    /\ \A a \in Attempts : step[a] # "idle" => from[a] \in Addresses
    /\ guesses \in Nat
    /\ troubles \in Nat

(* What the account's counter stands for: nothing when it rested.          *)
Counted == IF age[Login!User] = "recent" THEN failures[Login!User] ELSE 0

(* Open, every guess is counted, about to be, or could not be.  Locked, only *)
(* who came in before may still guess.                                     *)
Tallied ==
    IF Login!Locked(Login!User)
    THEN guesses + Cardinality(Comparing) <= LockoutAfter + Cardinality(Attempts) - 1 + troubles
    ELSE guesses <= Counted + Cardinality(Counting) + troubles

(* Nobody is in both sets.                                                 *)
LEMMA Sizes ==
    ASSUME Login!Throttled
    PROVE  /\ IsFiniteSet(Comparing) /\ IsFiniteSet(Counting)
           /\ Cardinality(Comparing) \in Nat /\ Cardinality(Counting) \in Nat
           /\ Cardinality(Attempts) \in Nat
           /\ Cardinality(Comparing) + Cardinality(Counting) <= Cardinality(Attempts)
<1>1. /\ Comparing \in SUBSET Attempts /\ Counting \in SUBSET Attempts
      /\ Comparing \cup Counting \in SUBSET Attempts
      /\ Comparing \cap Counting = {}
  BY DEF Comparing, Counting
<1>2. /\ IsFiniteSet(Attempts) /\ IsFiniteSet(Comparing) /\ IsFiniteSet(Counting)
      /\ Cardinality(Comparing \cup Counting) <= Cardinality(Attempts)
  BY <1>1, FS_Subset, SameFinite DEF Login!Throttled
<1>3. /\ Cardinality(Comparing) \in Nat /\ Cardinality(Counting) \in Nat
      /\ Cardinality(Attempts) \in Nat
  BY <1>2, FS_CardinalityType
<1>4. Cardinality(Comparing \cup Counting)
        = Cardinality(Comparing) + Cardinality(Counting) - Cardinality(Comparing \cap Counting)
  BY <1>2, FS_Union
<1>5. Cardinality(Comparing \cap Counting) = 0
  BY <1>1, FS_EmptySet
<1>. QED
  BY <1>2, <1>3, <1>4, <1>5

(* A request that goes one step changes each of the sets by itself.        *)
LEMMA OneMoves ==
    ASSUME Login!Throttled, Keeps, NEW a \in Attempts, NEW s \in Steps, step' = [step EXCEPT ![a] = s]
    PROVE  /\ Cardinality(Comparing)' =
                 IF s = "compare"
                 THEN IF step[a] = "compare" THEN Cardinality(Comparing) ELSE Cardinality(Comparing) + 1
                 ELSE IF step[a] = "compare" THEN Cardinality(Comparing) - 1 ELSE Cardinality(Comparing)
           /\ Cardinality(Counting)' =
                 IF s \in {"failAddress", "failUser"}
                 THEN IF step[a] \in {"failAddress", "failUser"}
                      THEN Cardinality(Counting) ELSE Cardinality(Counting) + 1
                 ELSE IF step[a] \in {"failAddress", "failUser"}
                      THEN Cardinality(Counting) - 1 ELSE Cardinality(Counting)
<1>1. /\ Comparing' = IF s = "compare" THEN Comparing \cup {a} ELSE Comparing \ {a}
      /\ Counting' = IF s \in {"failAddress", "failUser"} THEN Counting \cup {a} ELSE Counting \ {a}
  BY DEF Comparing, Counting, Keeps
<1>2. /\ a \in Comparing <=> step[a] = "compare"
      /\ a \in Counting <=> step[a] \in {"failAddress", "failUser"}
  BY DEF Comparing, Counting
<1>3. /\ Cardinality(Comparing \cup {a}) =
            IF a \in Comparing THEN Cardinality(Comparing) ELSE Cardinality(Comparing) + 1
      /\ Cardinality(Comparing \ {a}) =
            IF a \in Comparing THEN Cardinality(Comparing) - 1 ELSE Cardinality(Comparing)
      /\ Cardinality(Counting \cup {a}) =
            IF a \in Counting THEN Cardinality(Counting) ELSE Cardinality(Counting) + 1
      /\ Cardinality(Counting \ {a}) =
            IF a \in Counting THEN Cardinality(Counting) - 1 ELSE Cardinality(Counting)
  BY Sizes, FS_AddElement, FS_RemoveElement
<1>. QED
  BY <1>1, <1>2, <1>3

(* The counters and the steps keep their types.                            *)
LEMMA KeepsStep == ASSUME Login!Throttled, Keeps, [Login!Next]_Login!vars PROVE Keeps'
<1>0. /\ LockoutAfter \in Nat \ {0} /\ Login!Enough \in Nat
      /\ \A n \in 0..LockoutAfter : Login!OneMore(n, LockoutAfter) \in 0..LockoutAfter
      /\ Login!OneMore(guesses, Login!Enough) \in Nat
  <2>1. LockoutAfter \in Nat \ {0} /\ MaxTroubles \in Nat
    BY DEF Login!Throttled
  <2>2. Cardinality(Attempts) \in Nat
    BY Sizes
  <2>3. Login!Enough \in Nat
    BY <2>1, <2>2, SameCount DEF Login!Enough
  <2>. QED
    BY <2>1, <2>3 DEF Login!OneMore, Keeps
<1>1. ASSUME NEW k \in Login!Keys, Login!Count(k) \/ Login!Clear(k)
      PROVE  /\ failures' \in [Login!Keys -> 0..LockoutAfter]
             /\ age' \in [Login!Keys -> {"recent", "unlocked", "forgotten"}]
  <2>1. failures[k] \in 0..LockoutAfter /\ 1 \in 0..LockoutAfter /\ 0 \in 0..LockoutAfter
    BY <1>0 DEF Keeps
  <2>. QED
    BY <1>0, <1>1, <2>1 DEF Keeps, Login!Count, Login!Clear
<1>2. ASSUME NEW a \in Attempts,
             \/ \E address \in Addresses : Login!Arrive(a, address)
             \/ Login!CheckUser(a) \/ (\E right \in BOOLEAN : Login!Compare(a, right))
             \/ Login!FailAddress(a) \/ Login!FailUser(a) \/ Login!ClearAddress(a)
             \/ Login!ClearUser(a) \/ Login!Refuse(a) \/ Login!NotWritten(a)
      PROVE  Keeps'
  <2>1. step' \in [Attempts -> Steps] /\ from' \in [Attempts -> Addresses \cup {None}]
        /\ \A b \in Attempts : step'[b] # "idle" => from'[b] \in Addresses
    BY <1>2
    DEF Keeps, Steps, Login!Arrive, Login!CheckUser, Login!Check, Login!Back, Login!Compare,
        Login!FailAddress, Login!FailUser, Login!ClearAddress, Login!ClearUser, Login!Refuse,
        Login!NotWritten
  <2>2. /\ failures' \in [Login!Keys -> 0..LockoutAfter]
        /\ age' \in [Login!Keys -> {"recent", "unlocked", "forgotten"}]
    <3>1. Login!User \in Login!Keys /\ (step[a] # "idle" => from[a] \in Login!Keys)
      BY DEF Login!Keys, Keeps
    <3>2. CASE UNCHANGED <<failures, age>>
      BY <3>2 DEF Keeps
    <3>. QED
      BY <1>1, <1>2, <3>1, <3>2
      DEF Login!Arrive, Login!CheckUser, Login!Check, Login!Compare,
          Login!FailAddress, Login!FailUser, Login!ClearAddress, Login!ClearUser, Login!Refuse,
          Login!NotWritten, Login!throttle
  <2>3. guesses' \in Nat /\ troubles' \in Nat
    BY <1>0, <1>2
    DEF Keeps, Login!Arrive, Login!CheckUser, Login!Check, Login!Compare,
        Login!FailAddress, Login!FailUser, Login!ClearAddress, Login!ClearUser, Login!Refuse,
        Login!NotWritten
  <2>. QED
    BY <2>1, <2>2, <2>3 DEF Keeps
<1>3. CASE (\E k \in Login!Keys : Login!Ages(k)) \/ Login!OidcLands
  BY <1>3 DEF Keeps, Login!Ages, Login!OidcLands, Login!throttle
<1>4. CASE UNCHANGED Login!vars
  BY <1>4 DEF Keeps, Login!vars, Login!throttle
<1>. QED
  BY <1>2, <1>3, <1>4 DEF Login!Next

(* A failure that is counted for the account leaves one less to count, and *)
(* the lockout meets only those who are comparing.                         *)
LEMMA TalliedStep == ASSUME Login!Throttled, Keeps, Tallied, [Login!Next]_Login!vars PROVE Tallied'
<1>0. /\ Cardinality(Comparing) \in Nat /\ Cardinality(Counting) \in Nat
      /\ Cardinality(Attempts) \in Nat
      /\ Cardinality(Comparing) + Cardinality(Counting) <= Cardinality(Attempts)
      /\ Cardinality(Comparing)' \in Nat /\ Cardinality(Counting)' \in Nat
  <2>1. /\ Comparing' \in SUBSET Attempts /\ Counting' \in SUBSET Attempts
        /\ IsFiniteSet(Attempts)
    BY SameFinite DEF Comparing, Counting, Login!Throttled
  <2>. QED
    BY <2>1, Sizes, FS_Subset, FS_CardinalityType
<1>00. /\ guesses \in Nat /\ troubles \in Nat /\ LockoutAfter \in Nat \ {0}
       /\ Login!User \in Login!Keys /\ Login!User \notin Addresses
       /\ failures[Login!User] \in 0..LockoutAfter
       /\ age[Login!User] \in {"recent", "unlocked", "forgotten"}
  BY DEF Keeps, Login!Throttled, Login!Keys
<1>. USE <1>0, <1>00
(* What only moves a request, or forgets what was guessed.                 *)
<1>1. ASSUME NEW a \in Attempts, NEW s \in {"idle", "checkUser", "clearAddress", "clearUser", "failUser"},
             step' = [step EXCEPT ![a] = s], step[a] # "failUser",
             s = "failUser" <=> step[a] = "failAddress",
             failures'[Login!User] = failures[Login!User], age'[Login!User] = age[Login!User],
             guesses' = guesses, troubles' \in Nat, troubles' >= troubles
      PROVE  Tallied'
  <2>1. /\ Cardinality(Comparing)' <= Cardinality(Comparing)
        /\ Cardinality(Counting)' = Cardinality(Counting)
    <3>1. s \in Steps /\ s # "compare" /\ s # "failAddress" /\ step[a] \in Steps
      BY <1>1 DEF Steps, Keeps
    <3>2. s \in {"failAddress", "failUser"} <=> step[a] \in {"failAddress", "failUser"}
      BY <1>1, <3>1
    <3>3. Cardinality(Comparing)' =
                 IF step[a] = "compare" THEN Cardinality(Comparing) - 1 ELSE Cardinality(Comparing)
      BY <1>1, <3>1, OneMoves
    <3>4. Cardinality(Counting)' = Cardinality(Counting)
      <4>1. CASE s = "failUser"
        BY <1>1, <3>1, <3>2, <4>1, OneMoves
      <4>2. CASE s # "failUser"
        BY <1>1, <3>1, <3>2, <4>2, OneMoves
      <4>. QED
        BY <4>1, <4>2
    <3>. QED
      BY <3>3, <3>4
  <2>. QED
    BY <1>1, <2>1 DEF Tallied, Counted, Login!Locked
<1>2. ASSUME guesses' = 0, failures'[Login!User] = 0 \/ age'[Login!User] # "recent",
             troubles' = troubles, failures'[Login!User] \in Nat
      PROVE  Tallied'
  BY <1>2 DEF Tallied, Counted, Login!Locked
<1>3. ASSUME NEW a \in Attempts, NEW address \in Addresses, Login!Arrive(a, address) PROVE Tallied'
  <2>1. /\ step[a] = "idle" /\ step' = [step EXCEPT ![a] = "checkUser"]
        /\ UNCHANGED <<failures, age, guesses, troubles>>
    BY <1>3 DEF Login!Arrive, Login!throttle
  <2>2. troubles' \in Nat /\ troubles' >= troubles
    BY <2>1
  <2>. QED
    BY <1>1, <2>1, <2>2
<1>4. ASSUME NEW a \in Attempts, Login!CheckUser(a) PROVE Tallied'
  <2>1. CASE Login!Locked(Login!User)
    BY <1>1, <1>4, <2>1 DEF Login!CheckUser, Login!Check, Login!Back, Login!throttle
  <2>2. CASE ~Login!Locked(Login!User)
    <3>1. /\ step[a] = "checkUser" /\ step' = [step EXCEPT ![a] = "compare"]
          /\ UNCHANGED <<failures, age, guesses, troubles>>
      BY <1>4, <2>2 DEF Login!CheckUser, Login!Check, Login!throttle
    <3>2. Cardinality(Counting)' = Cardinality(Counting)
      BY <3>1, OneMoves DEF Steps
    <3>. QED
      BY <2>2, <3>1, <3>2 DEF Tallied, Counted, Login!Locked
  <2>. QED
    BY <2>1, <2>2
<1>5. ASSUME NEW a \in Attempts, NEW right \in BOOLEAN, Login!Compare(a, right) PROVE Tallied'
  <2>1. CASE right
    <3>1. /\ step[a] = "compare" /\ step' = [step EXCEPT ![a] = "clearAddress"]
          /\ UNCHANGED <<failures, age, guesses, troubles>>
      BY <1>5, <2>1 DEF Login!Compare, Login!throttle
    <3>2. troubles' \in Nat /\ troubles' >= troubles
      BY <3>1
    <3>. QED
      BY <1>1, <3>1, <3>2
  <2>2. CASE ~right
    <3>1. /\ step[a] = "compare" /\ step' = [step EXCEPT ![a] = "failAddress"]
          /\ guesses' \in {guesses, guesses + 1}
          /\ UNCHANGED <<failures, age, troubles>>
      BY <1>5, <2>2 DEF Login!Compare, Login!throttle, Login!OneMore
    <3>2. /\ Cardinality(Comparing)' = Cardinality(Comparing) - 1
          /\ Cardinality(Counting)' = Cardinality(Counting) + 1
      BY <3>1, OneMoves DEF Steps
    <3>. QED
      BY <3>1, <3>2 DEF Tallied, Counted, Login!Locked
  <2>. QED
    BY <2>1, <2>2
<1>6. ASSUME NEW a \in Attempts, Login!FailAddress(a) \/ Login!ClearAddress(a) PROVE Tallied'
  <2>1. step[a] # "idle" /\ from[a] \in Addresses
    BY <1>6 DEF Login!FailAddress, Login!ClearAddress, Keeps
  <2>2. failures'[Login!User] = failures[Login!User] /\ age'[Login!User] = age[Login!User]
    BY <1>6, <2>1
    DEF Login!FailAddress, Login!ClearAddress, Login!Count, Login!Clear, Keeps
  <2>. QED
    BY <1>1, <1>6, <2>2 DEF Login!FailAddress, Login!ClearAddress
<1>7. ASSUME NEW a \in Attempts, Login!FailUser(a) PROVE Tallied'
  <2>1. /\ step[a] = "failUser" /\ step' = [step EXCEPT ![a] = "idle"]
        /\ UNCHANGED <<guesses, troubles>>
    BY <1>7 DEF Login!FailUser, Login!Back
  <2>2. /\ Cardinality(Comparing)' = Cardinality(Comparing)
        /\ Cardinality(Counting)' = Cardinality(Counting) - 1
    BY <2>1, OneMoves DEF Steps
  <2>3. /\ age'[Login!User] = "recent"
        /\ failures'[Login!User] =
              IF age[Login!User] = "forgotten" THEN 1
              ELSE IF failures[Login!User] = LockoutAfter THEN LockoutAfter
              ELSE failures[Login!User] + 1
    BY <1>7 DEF Login!FailUser, Login!Count, Login!OneMore, Keeps
  <2>. QED
    BY <2>1, <2>2, <2>3 DEF Tallied, Counted, Login!Locked
<1>8. ASSUME NEW a \in Attempts, Login!ClearUser(a) PROVE Tallied'
  BY <1>2, <1>8 DEF Login!ClearUser, Login!Clear, Keeps
<1>9. ASSUME NEW a \in Attempts, Login!Refuse(a) PROVE Tallied'
  <2>1. /\ step[a] \in {"checkUser", "compare"} /\ step' = [step EXCEPT ![a] = "idle"]
        /\ UNCHANGED <<failures, age, guesses, troubles>>
    BY <1>9 DEF Login!Refuse, Login!Back, Login!throttle
  <2>2. troubles' \in Nat /\ troubles' >= troubles
    BY <2>1
  <2>. QED
    BY <1>1, <2>1, <2>2
<1>10. ASSUME NEW a \in Attempts, Login!NotWritten(a) PROVE Tallied'
  <2>1. UNCHANGED <<failures, age, guesses>> /\ troubles' = troubles + 1
    BY <1>10 DEF Login!NotWritten, Login!throttle
  <2>2. CASE step[a] = "failUser"
    <3>1. step' = [step EXCEPT ![a] = "idle"]
      BY <1>10, <2>2 DEF Login!NotWritten, Login!Back
    <3>2. /\ Cardinality(Comparing)' = Cardinality(Comparing)
          /\ Cardinality(Counting)' = Cardinality(Counting) - 1
      BY <2>2, <3>1, OneMoves DEF Steps
    <3>. QED
      BY <2>1, <3>2 DEF Tallied, Counted, Login!Locked
  <2>3. CASE step[a] # "failUser"
    <3>1. \E s \in {"idle", "clearUser", "failUser"} :
             step' = [step EXCEPT ![a] = s] /\ (s = "failUser" <=> step[a] = "failAddress")
      BY <1>10, <2>3 DEF Login!NotWritten, Login!Back
    <3>2. /\ troubles' \in Nat /\ troubles' >= troubles
          /\ UNCHANGED <<failures, age, guesses>>
      BY <2>1
    <3>. QED
      BY <1>1, <2>3, <3>1, <3>2
  <2>. QED
    BY <2>2, <2>3
<1>11. ASSUME NEW k \in Login!Keys, Login!Ages(k) PROVE Tallied'
  <2>1. CASE k = Login!User
    BY <1>2, <1>11, <2>1 DEF Login!Ages, Keeps
  <2>2. CASE k # Login!User
    BY <1>11, <2>2 DEF Login!Ages, Keeps, Tallied, Counted, Login!Locked, Comparing, Counting
  <2>. QED
    BY <2>1, <2>2
<1>12. CASE UNCHANGED <<failures, age, step, guesses, troubles>>
  BY <1>12 DEF Tallied, Counted, Login!Locked, Comparing, Counting
<1>. QED
  BY <1>3, <1>4, <1>5, <1>6, <1>7, <1>8, <1>9, <1>10, <1>11, <1>12
  DEF Login!Next, Login!OidcLands, Login!vars, Login!throttle

(* BootstrapLogin: between two rests of the account's lock no more wrong   *)
(* passwords are compared than lock it, one for each request that came in  *)
(* with the last of them, and one for each failure nobody could count.     *)
THEOREM GuessingEnds ==
    ASSUME Login!Throttled PROVE Login!Spec => []Login!GuessesAreBounded
<1>1. Login!Init => Keeps /\ Tallied
  <2>. SUFFICES ASSUME Login!Init PROVE Keeps /\ Tallied
    OBVIOUS
  <2>1. LockoutAfter \in Nat \ {0} /\ Login!User \in Login!Keys
    BY DEF Login!Throttled, Login!Keys
  <2>2. Keeps
    BY <2>1 DEF Login!Init, Keeps, Steps
  <2>. QED
    BY <2>1, <2>2, Sizes DEF Login!Init, Tallied, Counted, Login!Locked
<1>2. Keeps /\ Tallied /\ [Login!Next]_Login!vars => (Keeps /\ Tallied)'
  BY KeepsStep, TalliedStep
<1>3. Keeps /\ Tallied => Login!GuessesAreBounded
  <2>. SUFFICES ASSUME Keeps, Tallied PROVE Login!GuessesAreBounded
    OBVIOUS
  <2>1. /\ LockoutAfter \in Nat \ {0} /\ guesses \in Nat /\ troubles \in Nat
        /\ failures[Login!User] \in 0..LockoutAfter
    BY DEF Login!Throttled, Keeps, Login!Keys
  <2>2. /\ Cardinality(Comparing) \in Nat /\ Cardinality(Counting) \in Nat
        /\ Cardinality(Attempts) \in Nat
        /\ Cardinality(Comparing) + Cardinality(Counting) <= Cardinality(Attempts)
    BY Sizes
  <2>3. Counted \in 0..LockoutAfter /\ (~Login!Locked(Login!User) => Counted <= LockoutAfter - 1)
    BY <2>1 DEF Counted, Login!Locked
  <2>4. guesses <= LockoutAfter + Cardinality(Attempts) - 1 + troubles
    <3>1. CASE Login!Locked(Login!User)
      BY <2>1, <2>2, <3>1 DEF Tallied
    <3>2. CASE ~Login!Locked(Login!User)
      BY <2>1, <2>2, <2>3, <3>2 DEF Tallied
    <3>. QED
      BY <3>1, <3>2
  <2>. QED
    BY <2>4, SameCount DEF Login!GuessesAreBounded
<1>. QED
  BY <1>1, <1>2, <1>3, PTL DEF Login!Spec

-----------------------------------------------------------------------------
(* A credential that opened something is good no longer, a code goes back  *)
(* to the state of a login that was used, and a session to a code.         *)
Chained ==
    /\ credential \in [Credentials -> Once!Issued \cup {None}]
    /\ spent \in [Credentials -> {0, 1}]
    /\ session \in [Credentials -> {"none", "open", "revoked"}]
    /\ \A c \in Credentials :
          /\ credential[c] = None => spent[c] = 0
          /\ credential[c] # None /\ credential[c].life = "good" => spent[c] = 0
          /\ credential[c] # None /\ credential[c].life = "used" => spent[c] = 1
          /\ credential[c] # None /\ credential[c].kind = "code" =>
                /\ credential[credential[c].origin] # None
                /\ credential[credential[c].origin].kind = "login"
                /\ spent[credential[c].origin] = 1
          /\ session[c] # "none" => credential[c] # None /\ credential[c].kind = "code"

(* What may become of a credential that is there, and of its use.          *)
Grows ==
    /\ credential' \in [Credentials -> Once!Issued \cup {None}]
    /\ spent' \in [Credentials -> {0, 1}]
    /\ session' \in [Credentials -> {"none", "open", "revoked"}]
    /\ \A c \in Credentials : credential[c] # None =>
          /\ credential'[c] # None
          /\ credential'[c].kind = credential[c].kind
          /\ credential'[c].origin = credential[c].origin
          /\ credential'[c].life = "good" => credential[c].life = "good" /\ spent'[c] = spent[c]
          /\ spent[c] = 1 => spent'[c] = 1
          /\ credential'[c].life = "used" => spent'[c] = 1
    /\ \A c \in Credentials : credential[c] = None =>
          /\ spent'[c] = spent[c]
          /\ credential'[c] # None => /\ credential'[c].life = "good"
                                      /\ credential'[c].kind = "code" =>
                                            /\ credential[credential'[c].origin] # None
                                            /\ credential[credential'[c].origin].kind = "login"
                                            /\ spent'[credential'[c].origin] = 1
    /\ \A c \in Credentials : session'[c] # session[c] =>
          credential[c] # None /\ credential[c].kind = "code"

(* A step spends what is good and issues what was not there.               *)
LEMMA OnceGrows == ASSUME Once!Drawn, Chained, Once!Next PROVE Grows
<1>. USE DEF Chained, Once!Drawn, Once!Is, Once!Good, Once!Used, Once!Free
<1>0. /\ credential \in [Credentials -> Once!Issued \cup {None}]
      /\ spent \in [Credentials -> {0, 1}]
      /\ session \in [Credentials -> {"none", "open", "revoked"}]
  OBVIOUS
<1>1. CASE Once!Restart
  BY <1>1 DEF Once!Restart, Once!Tickets, Once!Issued, Grows
<1>2. ASSUME NEW c \in Credentials, Once!Redeem(c) PROVE Grows
  BY <1>2 DEF Once!Redeem, Once!Spend, Once!Issued, Grows
<1>3. ASSUME NEW c \in Credentials, Once!Ends(c) \/ Once!Expires(c) PROVE Grows
  BY <1>3 DEF Once!Ends, Once!Expires, Once!Issued, Grows
<1>4. ASSUME NEW c \in Credentials, NEW purpose \in {"login", "synapse_admin"},
             Once!AuthURL(c, purpose)
      PROVE Grows
  BY <1>4 DEF Once!AuthURL, Once!Issue, Once!Issued, Grows
<1>5. ASSUME NEW c \in Credentials, NEW s \in Credentials, Once!Callback(s, c) PROVE Grows
  BY <1>5 DEF Once!Callback, Once!Issued, Grows
<1>6. ASSUME NEW c \in Credentials, Once!ExchangeCode(c) PROVE Grows
  BY <1>6 DEF Once!ExchangeCode, Once!Issued, Grows
<1>7. ASSUME NEW c \in Credentials, Once!Logout(c) PROVE Grows
  BY <1>7 DEF Once!Logout, Once!Issued, Grows
<1>8. ASSUME NEW c \in Credentials, NEW s \in Credentials, Once!WSTicket(c, s) PROVE Grows
  BY <1>8 DEF Once!WSTicket, Once!Tickets, Once!Issued, Grows
<1>9. ASSUME NEW c \in Credentials, Once!RedeemTicket(c) PROVE Grows
  BY <1>9 DEF Once!RedeemTicket, Once!Tickets, Once!Issued, Grows
<1>. QED
  BY <1>1, <1>2, <1>3, <1>4, <1>5, <1>6, <1>7, <1>8, <1>9 DEF Once!Next

(* And so the chain holds on.                                              *)
LEMMA ChainedStep == ASSUME Once!Drawn, Chained, [Once!Next]_Once!vars PROVE Chained'
<1>1. CASE Grows
  BY <1>1 DEF Grows, Chained, Once!Issued, Once!Drawn
<1>2. CASE UNCHANGED Once!vars
  BY <1>2 DEF Once!vars, Chained
<1>. QED
  BY <1>1, <1>2, OnceGrows

(* A state, a code and a ticket open one thing, and every session goes     *)
(* back to the state of a login: Spend, RedeemTicket and Callback.         *)
THEOREM OpenOnce ==
    ASSUME Once!Drawn PROVE Once!Spec => []Once!CredentialsAreGoodOnce
<1>1. Once!Init => Chained
  BY DEF Once!Init, Chained
<1>2. Chained /\ [Once!Next]_Once!vars => Chained'
  BY ChainedStep
<1>3. Chained => Once!CredentialsAreGoodOnce
  BY DEF Chained, Once!CredentialsAreGoodOnce, Once!Is
<1>. QED
  BY <1>1, <1>2, <1>3, PTL DEF Once!Spec

-----------------------------------------------------------------------------
(* What the volumes, the tables and a restore can hold.                    *)
Entries  == [Job!Names -> Job!Whose \cup {None}]
Restored == [kind : {None, "own", "full"}, step : Job!Steps, at : 0..3,
             before : Entries \cup {None}, failed : BOOLEAN,
             said : SUBSET {"bare", "skip", "media", "keys", "restart"},
             late : BOOLEAN, alone : BOOLEAN, faults : Nat]

Volumes ==
    /\ repo \in [{"root", "staging", "old"} -> Entries]
    /\ ownDB \in Job!Whose
    /\ db \in [Job!Services -> Job!Whose]
    /\ secret \in [{"identity", "password"} -> Job!Whose]
    /\ loaded \in [Job!Services -> Job!Whose \cup {"restarting"}]
    /\ media \in [files : {"own", "half", "both"}, staging : [Restores -> {"none", "half", "all"}]]
    /\ secret["password"] = "own"

Filled == Volumes /\ slot \in Restores \cup {None} /\ restore \in [Restores -> Restored]

(* The job in the slot is the one that runs; who is alone has nobody beside. *)
Turns ==
    \A r \in Restores :
       /\ Job!Running(r) => slot = r
       /\ restore[r].step \in {"unplace", "back"} => restore[r].at <= 2
       /\ restore[r].alone /\ ~Job!At(r, "idle") => \A o \in Restores \ {r} : ~Job!Active(o)

(* Where the configuration is at each step that moves it.  A second failure *)
(* on the way back leaves it anywhere.                                      *)
Moving(r) ==
    LET phase  == restore[r].step
        at     == restore[r].at
        before == restore[r].before
        root   == repo["root"]
        old    == repo["old"]
    IN  /\ phase \in {"upload", "read", "clear", "stage", "aside", "place"} =>
              ~restore[r].failed /\ restore[r].faults = 0 /\ restore[r].said = {} /\ at >= 1
        /\ phase \in {"stage", "aside", "place", "unplace", "back", "clean"} => before \in Entries
        /\ phase = "stage" => before = root /\ old = Job!Empty
        /\ phase = "aside" =>
              /\ repo["staging"] = Job!Archive
              /\ \A n \in Job!Names : IF n < at THEN root[n] = None /\ old[n] = before[n]
                                                ELSE root[n] = before[n] /\ old[n] = None
        /\ phase = "place" =>
              /\ old = before
              /\ \A n \in Job!Names : IF n < at THEN root[n] = "archive"
                                                ELSE root[n] = None /\ repo["staging"][n] = "archive"
        /\ phase \in {"unplace", "back"} => restore[r].failed /\ restore[r].faults >= 1
        /\ phase = "unplace" /\ restore[r].faults <= 1 =>
              /\ old = before
              /\ \A n \in Job!Names : root[n] = IF n <= at THEN "archive" ELSE None
        /\ phase = "back" /\ restore[r].faults <= 1 =>
              \A n \in Job!Names : IF n <= at THEN root[n] = None /\ old[n] = before[n]
                                              ELSE root[n] = before[n]
        /\ phase = "clean" /\ restore[r].faults <= 1 =>
              root = IF restore[r].failed THEN before ELSE Job!Archive
        /\ phase = "clean" /\ ~restore[r].failed => restore[r].faults = 0 /\ restore[r].said = {}

Later == {"tables", "admin", "synapse", "mas", "media", "unpack", "copy", "tidy", "keys", "restart"}

Ended(r)    == Job!At(r, "over") /\ ~restore[r].failed
By(r, some) == restore[r].step \in some \/ (Ended(r) /\ restore[r].kind = "full")

(* What is done by which step, unless the restore has said otherwise.      *)
Done(r) ==
    LET skips == "skip" \in restore[r].said
        fine  == restore[r].said \subseteq {"bare"}
    IN  /\ restore[r].step \in Later => ~restore[r].failed
        /\ restore[r].step \in Later \/ Ended(r) =>
              "bare" \in restore[r].said \/ repo["root"] = Job!Archive
        /\ restore[r].step \in Later \ {"tables"} \/ Ended(r) => ownDB = "archive"
        /\ By(r, Later \ {"tables", "admin", "synapse"}) => skips \/ db["synapse"] = "archive"
        /\ By(r, Later \ {"tables", "admin", "synapse", "mas"}) => skips \/ db["mas"] = "archive"
        /\ By(r, {"tidy", "keys", "restart"}) /\ fine => media.files = "both"
        /\ By(r, {"restart"}) /\ fine => secret["identity"] = "archive"
        /\ (Job!At(r, "restart") /\ restore[r].at # 1) \/ By(r, {}) =>
              ~fine \/ loaded["synapse"] \in {"archive", "restarting"}
        /\ By(r, {}) /\ fine => loaded["mas"] \in {"archive", "restarting"}

Kept == \A r \in Restores : restore[r].alone /\ ~Job!At(r, "idle") => Moving(r) /\ Done(r)

JobInv == Filled /\ Turns /\ Kept

-----------------------------------------------------------------------------
(* The directories a step writes as a whole.                               *)
LEMMA Directories ==
  /\ Job!Empty \in Entries /\ Job!Archive \in Entries /\ Job!Names = {1, 2}
  /\ \A n \in Job!Names : Job!Empty[n] = None /\ Job!Archive[n] = "archive"
<1>1. Job!Names = {1, 2}
  BY DEF Job!Names
<1>2. Job!Empty = [n \in {1, 2} |-> None] /\ Job!Archive = [n \in {1, 2} |-> "archive"]
  BY DEF Job!Empty, Job!Archive
<1> QED
  BY <1>1, <1>2 DEF Entries, Job!Whose

(* A rename of one entry.                                                  *)
LEMMA Renames ==
  ASSUME Filled, NEW n \in Job!Names, NEW a \in {"root", "staging", "old"},
         NEW b \in {"root", "staging", "old"} \ {a}
  PROVE  LET now == Job!Moved(n, a, b) IN
         /\ now \in [{"root", "staging", "old"} -> Entries]
         /\ now[a][n] = None
         /\ now[b][n] = IF repo[a][n] = None THEN repo[b][n] ELSE repo[a][n]
         /\ \A m \in Job!Names \ {n} : now[a][m] = repo[a][m] /\ now[b][m] = repo[b][m]
         /\ \A c \in {"root", "staging", "old"} \ {a, b} : now[c] = repo[c]
BY DEF Filled, Volumes, Entries, Job!Moved

(* A restore's record remains one when it comes to another step.           *)
LEMMA JobSteps ==
  ASSUME NEW j \in Restored, NEW phase \in Job!Steps
  PROVE  /\ \A at \in 0..3 : [j EXCEPT !.step = phase, !.at = at] \in Restored
         /\ [j EXCEPT !.step = phase, !.alone = FALSE] \in Restored
         /\ [j EXCEPT !.step = phase, !.failed = TRUE, !.alone = FALSE] \in Restored
BY DEF Restored

(* And when it says more.                                                  *)
LEMMA Sayings ==
  ASSUME NEW j \in Restored, NEW phase \in Job!Steps, NEW at \in 0..3,
         NEW said \in SUBSET {"bare", "skip", "media", "keys", "restart"}
  PROVE  [j EXCEPT !.at = at, !.said = said, !.step = phase] \in Restored
BY DEF Restored

(* And when it begins.                                                     *)
LEMMA Beginnings ==
  ASSUME NEW j \in Restored, NEW kind \in {"own", "full"}, NEW phase \in Job!Steps,
         NEW alone \in BOOLEAN
  PROVE  [j EXCEPT !.kind = kind, !.step = phase, !.alone = alone] \in Restored
BY DEF Restored

(* A restore that has not begun.                                           *)
LEMMA Begun == Job!Fresh \in Restored /\ Job!Fresh.step = "idle" /\ Job!Fresh.said = {}
BY DEF Job!Fresh, Restored, Job!Steps

(* What a step of one restore does to the restores.                        *)
Takes(r) ==
    /\ Job!Active(r)
    /\ slot' = slot
    /\ restore' \in [Restores -> Restored]
    /\ \A o \in Restores \ {r} : restore'[o] = restore[o]
    /\ restore'[r].kind = restore[r].kind /\ restore'[r].alone = restore[r].alone
    /\ restore'[r].step # "idle"
    /\ restore'[r].step \in {"unplace", "back"} => restore'[r].at <= 2

(* Who is alone at work has nobody whose work it could spoil.              *)
LEMMA OneTakes ==
  ASSUME JobInv, NEW r \in Restores, Takes(r), Filled', restore[r].alone => Moving(r)' /\ Done(r)'
  PROVE  JobInv'
<1>1. ASSUME NEW o \in Restores, Job!Active(o)' PROVE Job!Active(o)
  BY <1>1 DEF Takes, Job!Active
<1>2. ASSUME NEW o \in Restores, ~Job!At(o, "idle")' PROVE ~Job!At(o, "idle")
  BY <1>2 DEF Takes, Job!At, Job!Active
<1>3. Turns'
  BY <1>1, <1>2 DEF JobInv, Turns, Takes, Job!Running
<1>4. Kept'
  BY <1>2 DEF JobInv, Turns, Kept, Takes, Job!Active
<1> QED
  BY <1>3, <1>4 DEF JobInv

Ok(r) == Filled' /\ Takes(r) /\ (restore[r].alone => Moving(r)' /\ Done(r)')

(* One step of moving entries aside or into their place.                   *)
LEMMA Moves ==
  ASSUME JobInv, NEW r \in Restores, NEW phase \in Job!Steps, phase \notin {"idle", "over"},
         NEW a \in {"root", "staging", "old"}, NEW b \in {"root", "staging", "old"} \ {a},
         NEW then \in Job!Steps \ {"idle"}, NEW onError \in Job!Steps \ {"idle"},
         phase \notin {"unplace", "back"}, then \notin {"unplace", "back"},
         Job!Move(r, phase, a, b, then, onError)
  PROVE  /\ Filled' /\ Takes(r) /\ Job!At(r, phase) /\ restore'[r].before = restore[r].before
         /\ restore'[r].said = restore[r].said /\ UNCHANGED <<ownDB, db, secret, loaded, media>>
         /\ \/ /\ restore[r].at \in Job!Names /\ repo' = Job!Moved(restore[r].at, a, b)
               /\ restore'[r].step = phase /\ restore'[r].at = restore[r].at + 1
               /\ restore'[r].failed = restore[r].failed /\ restore'[r].faults = restore[r].faults
            \/ /\ restore[r].at \in Job!Names /\ repo' = repo
               /\ restore'[r].step = onError /\ restore'[r].at = restore[r].at - 1
               /\ restore'[r].failed /\ restore'[r].faults = restore[r].faults + 1
            \/ /\ restore[r].at \in {0, 3} /\ repo' = repo
               /\ restore'[r].step = then /\ restore'[r].at = 1
               /\ restore'[r].failed = restore[r].failed /\ restore'[r].faults = restore[r].faults
<1>1. /\ restore \in [Restores -> Restored] /\ restore[r] \in Restored /\ Job!At(r, phase)
      /\ UNCHANGED <<ownDB, db, secret, loaded, media, slot>> /\ restore[r].at \in 0..3
      /\ Job!Names = 1..2 /\ restore[r].faults \in Nat /\ Job!Active(r)
  BY DEF JobInv, Filled, Job!Move, Restored, Job!Names, Job!Active, Job!At
<1>3. CASE /\ restore[r].at \in Job!Names /\ repo' = Job!Moved(restore[r].at, a, b)
           /\ restore' = [restore EXCEPT ![r].at = restore[r].at + 1]
  <2>1. /\ restore'[r] = [restore[r] EXCEPT !.at = restore[r].at + 1]
        /\ \A o \in Restores \ {r} : restore'[o] = restore[o]
        /\ restore' \in [Restores -> Restored]
    BY <1>1, <1>3 DEF Restored
  <2>2. repo' \in [{"root", "staging", "old"} -> Entries]
    BY <1>3, Renames DEF JobInv
  <2> QED
    BY <1>1, <1>3, <2>1, <2>2 DEF Takes, JobInv, Filled, Volumes, Restored, Job!At
<1>4. CASE /\ restore[r].at \in Job!Names /\ repo' = repo
           /\ restore' = [restore EXCEPT ![r].step = onError, ![r].at = restore[r].at - 1,
                                         ![r].failed = TRUE, ![r].faults = @ + 1]
  <2>1. /\ restore'[r] = [restore[r] EXCEPT !.step = onError, !.at = restore[r].at - 1,
                                            !.failed = TRUE, !.faults = @ + 1]
        /\ \A o \in Restores \ {r} : restore'[o] = restore[o]
        /\ restore' \in [Restores -> Restored]
    BY <1>1, <1>4 DEF Restored
  <2> QED
    BY <1>1, <1>4, <2>1 DEF Takes, JobInv, Filled, Volumes, Restored
<1>5. CASE /\ restore[r].at \notin Job!Names /\ repo' = repo
           /\ restore' = [restore EXCEPT ![r].step = then, ![r].at = 1]
  <2>1. /\ restore'[r] = [restore[r] EXCEPT !.step = then, !.at = 1]
        /\ \A o \in Restores \ {r} : restore'[o] = restore[o]
        /\ restore' \in [Restores -> Restored]
    BY <1>1, <1>5 DEF Restored
  <2>2. restore[r].at \in {0, 3}
    BY <1>1, <1>5
  <2> QED
    BY <1>1, <1>5, <2>1, <2>2 DEF Takes, JobInv, Filled, Volumes, Restored
<1> QED
  BY <1>3, <1>4, <1>5 DEF Job!Move, Job!To

(* One step of taking entries out, or back.                                *)
LEMMA Undoes ==
  ASSUME JobInv, NEW r \in Restores, NEW phase \in Job!Steps, phase \notin {"idle", "over"},
         NEW a \in {"root", "staging", "old"}, NEW b \in {"root", "staging", "old"} \ {a},
         NEW then \in Job!Steps \ {"idle"}, NEW more \in 0..3,
         phase \in {"unplace", "back"}, Job!Undo(r, phase, a, b, then, more),
         then = "back" => more <= 2
  PROVE  /\ Filled' /\ Takes(r) /\ Job!At(r, phase) /\ restore'[r].before = restore[r].before
         /\ restore'[r].failed = restore[r].failed
         /\ restore'[r].said = restore[r].said /\ UNCHANGED <<ownDB, db, secret, loaded, media>>
         /\ \/ /\ restore[r].at \in Job!Names /\ repo' = Job!Moved(restore[r].at, a, b)
               /\ restore'[r].step = phase /\ restore'[r].at = restore[r].at - 1
               /\ restore'[r].faults = restore[r].faults
            \/ /\ restore[r].at \in Job!Names /\ repo' = repo
               /\ restore'[r].step = phase /\ restore'[r].at = restore[r].at - 1
               /\ restore'[r].faults = restore[r].faults + 1
            \/ /\ restore[r].at = 0 /\ repo' = repo
               /\ restore'[r].step = then /\ restore'[r].at = more
               /\ restore'[r].faults = restore[r].faults
<1>1. /\ restore \in [Restores -> Restored] /\ restore[r] \in Restored /\ Job!At(r, phase)
      /\ UNCHANGED <<ownDB, db, secret, loaded, media, slot>> /\ restore[r].at \in 0..2
      /\ Job!Names = 1..2 /\ restore[r].faults \in Nat /\ Job!Active(r)
  BY DEF JobInv, Filled, Turns, Job!Undo, Restored, Job!Names, Job!Active, Job!At
<1>3. CASE /\ restore[r].at >= 1 /\ repo' = Job!Moved(restore[r].at, a, b)
           /\ restore' = [restore EXCEPT ![r].at = restore[r].at - 1]
  <2>1. /\ restore'[r] = [restore[r] EXCEPT !.at = restore[r].at - 1]
        /\ \A o \in Restores \ {r} : restore'[o] = restore[o]
        /\ restore' \in [Restores -> Restored]
    BY <1>1, <1>3 DEF Restored
  <2>2. restore[r].at \in Job!Names
    BY <1>1, <1>3
  <2>3. repo' \in [{"root", "staging", "old"} -> Entries]
    BY <1>3, <2>2, Renames DEF JobInv
  <2> QED
    BY <1>1, <1>3, <2>1, <2>2, <2>3 DEF Takes, JobInv, Filled, Volumes, Restored, Job!At
<1>4. CASE /\ restore[r].at >= 1 /\ repo' = repo
           /\ restore' = [restore EXCEPT ![r].at = restore[r].at - 1, ![r].faults = @ + 1]
  <2>1. /\ restore'[r] = [restore[r] EXCEPT !.at = restore[r].at - 1, !.faults = @ + 1]
        /\ \A o \in Restores \ {r} : restore'[o] = restore[o]
        /\ restore' \in [Restores -> Restored]
    BY <1>1, <1>4 DEF Restored
  <2>2. restore[r].at \in Job!Names
    BY <1>1, <1>4
  <2> QED
    BY <1>1, <1>4, <2>1, <2>2 DEF Takes, JobInv, Filled, Volumes, Restored, Job!At
<1>5. CASE /\ ~(restore[r].at >= 1) /\ repo' = repo
           /\ restore' = [restore EXCEPT ![r].step = then, ![r].at = more]
  <2>1. /\ restore'[r] = [restore[r] EXCEPT !.step = then, !.at = more]
        /\ \A o \in Restores \ {r} : restore'[o] = restore[o]
        /\ restore' \in [Restores -> Restored]
    BY <1>1, <1>5 DEF Restored
  <2>2. restore[r].at = 0
    BY <1>1, <1>5
  <2> QED
    BY <1>1, <1>5, <2>1, <2>2 DEF Takes, JobInv, Filled, Volumes, Restored
<1> QED
  BY <1>3, <1>4, <1>5 DEF Job!Undo

(* There are two names.                                                    *)
LEMMA TwoNames == Job!Cardinality(Job!Names) = 2
<1>1. Job!Cardinality(1..2) = Cardinality(1..2)
  BY DEF Job!Cardinality, Cardinality
<1>2. Cardinality(1..2) = 2
  <2>1. Cardinality(1..2) = IF 1 > 2 THEN 0 ELSE 2 - 1 + 1
    BY FS_Interval, 1 \in Int, 2 \in Int
  <2> QED
    BY <2>1
<1>3. Job!Names = 1..2
  BY DEF Job!Names
<1> QED
  BY <1>1, <1>2, <1>3

(* Aside: an entry aside is where it should be, the rest where it was.     *)
LEMMA AsideStep == ASSUME JobInv, NEW r \in Restores, Job!Aside(r) PROVE Ok(r)
<1> DEFINE n == restore[r].at
           Way1 == /\ n \in Job!Names /\ repo' = Job!Moved(n, "root", "old")
                   /\ restore'[r].step = "aside" /\ restore'[r].at = n + 1
           /\ restore'[r].failed = restore[r].failed /\ restore'[r].faults = restore[r].faults
           Way2 == /\ n \in Job!Names /\ repo' = repo
                   /\ restore'[r].step = "back" /\ restore'[r].at = n - 1
           /\ restore'[r].failed /\ restore'[r].faults = restore[r].faults + 1
           Way3 == n \in {0, 3} /\ repo' = repo /\ restore'[r].step = "place" /\ restore'[r].at = 1
           /\ restore'[r].failed = restore[r].failed /\ restore'[r].faults = restore[r].faults
<1>1. Job!Move(r, "aside", "root", "old", "place", "back")
  BY DEF Job!Aside
<1>2. /\ Filled' /\ Takes(r) /\ restore'[r].before = restore[r].before
      /\ restore'[r].said = restore[r].said /\ UNCHANGED <<ownDB, db, secret, loaded, media>>
      /\ restore[r].step = "aside" /\ (Way1 \/ Way2 \/ Way3)
  BY <1>1, Moves DEF Job!Steps, Job!At
<1> HIDE DEF Way1, Way2, Way3
<1>3. ASSUME restore[r].alone PROVE Moving(r)'
  <2>1. /\ Moving(r) /\ n \in 0..3 /\ restore[r].faults \in Nat /\ Job!Names = 1..2
    BY <1>2, <1>3 DEF JobInv, Kept, Job!At, Filled, Restored, Job!Names
  <2>2. CASE Way1
    <3>1. /\ repo'["root"][n] = None
          /\ repo'["old"][n] = IF repo["root"][n] = None THEN repo["old"][n] ELSE repo["root"][n]
          /\ \A m \in Job!Names \ {n} : /\ repo'["root"][m] = repo["root"][m]
                                          /\ repo'["old"][m] = repo["old"][m]
          /\ \A c \in {"root", "staging", "old"} \ {"root", "old"} : repo'[c] = repo[c]
      BY <2>2, Renames DEF JobInv, Way1
    <3> QED
      BY <1>2, <2>1, <2>2, <3>1, Directories DEF Moving, Way1
  <2>3. CASE Way2
    BY <1>2, <2>1, <2>3, Directories DEF Moving, Way2
  <2>4. CASE Way3
    BY <1>2, <2>1, <2>4, Directories DEF Moving, Way3, JobInv, Filled, Volumes, Entries
  <2> QED
    BY <1>2, <2>2, <2>3, <2>4
<1>4. Done(r)'
  BY <1>2 DEF Done, Later, Ended, By, Job!At, Way1, Way2, Way3
<1> QED
  BY <1>2, <1>3, <1>4 DEF Ok

(* Place: an entry in its place.                                           *)
LEMMA PlaceStep == ASSUME JobInv, NEW r \in Restores, Job!Place(r) PROVE Ok(r)
<1> DEFINE n == restore[r].at
           Way1 == /\ n \in Job!Names /\ repo' = Job!Moved(n, "staging", "root")
                   /\ restore'[r].step = "place" /\ restore'[r].at = n + 1
           /\ restore'[r].failed = restore[r].failed /\ restore'[r].faults = restore[r].faults
           Way2 == /\ n \in Job!Names /\ repo' = repo
                   /\ restore'[r].step = "unplace" /\ restore'[r].at = n - 1
           /\ restore'[r].failed /\ restore'[r].faults = restore[r].faults + 1
           Way3 == n \in {0, 3} /\ repo' = repo /\ restore'[r].step = "clean" /\ restore'[r].at = 1
           /\ restore'[r].failed = restore[r].failed /\ restore'[r].faults = restore[r].faults
<1>1. Job!Move(r, "place", "staging", "root", "clean", "unplace")
  BY DEF Job!Place
<1>2. /\ Filled' /\ Takes(r) /\ restore'[r].before = restore[r].before
      /\ restore'[r].said = restore[r].said /\ UNCHANGED <<ownDB, db, secret, loaded, media>>
      /\ restore[r].step = "place" /\ (Way1 \/ Way2 \/ Way3)
  BY <1>1, Moves DEF Job!Steps, Job!At
<1> HIDE DEF Way1, Way2, Way3
<1>3. ASSUME restore[r].alone PROVE Moving(r)'
  <2>1. /\ Moving(r) /\ n \in 0..3 /\ restore[r].faults \in Nat /\ Job!Names = 1..2
    BY <1>2, <1>3 DEF JobInv, Kept, Job!At, Filled, Restored, Job!Names
  <2>2. CASE Way1
    <3>1. /\ repo'["staging"][n] = None
          /\ repo'["root"][n] = IF repo["staging"][n] = None THEN repo["root"][n] ELSE repo["staging"][n]
          /\ \A m \in Job!Names \ {n} : /\ repo'["staging"][m] = repo["staging"][m]
                                          /\ repo'["root"][m] = repo["root"][m]
          /\ \A c \in {"root", "staging", "old"} \ {"staging", "root"} : repo'[c] = repo[c]
      BY <2>2, Renames DEF JobInv, Way1
    <3> QED
      BY <1>2, <2>1, <2>2, <3>1, Directories DEF Moving, Way1
  <2>3. CASE Way2
    BY <1>2, <2>1, <2>3, Directories DEF Moving, Way2
  <2>4. CASE Way3
    BY <1>2, <2>1, <2>4, Directories DEF Moving, Way3, JobInv, Filled, Volumes, Entries
  <2> QED
    BY <1>2, <2>2, <2>3, <2>4
<1>4. Done(r)'
  BY <1>2 DEF Done, Later, Ended, By, Job!At, Way1, Way2, Way3
<1> QED
  BY <1>2, <1>3, <1>4 DEF Ok

(* Unplace: an entry taken out again.                                      *)
LEMMA UnplaceStep == ASSUME JobInv, NEW r \in Restores, Job!Unplace(r) PROVE Ok(r)
<1> DEFINE n == restore[r].at
           Way1 == /\ n \in Job!Names /\ repo' = Job!Moved(n, "root", "staging")
                   /\ restore'[r].step = "unplace" /\ restore'[r].at = n - 1
           /\ restore'[r].failed = restore[r].failed /\ restore'[r].faults = restore[r].faults
           Way2 == /\ n \in Job!Names /\ repo' = repo
                   /\ restore'[r].step = "unplace" /\ restore'[r].at = n - 1
           /\ restore'[r].failed = restore[r].failed /\ restore'[r].faults = restore[r].faults + 1
           Way3 == n \in {0} /\ repo' = repo /\ restore'[r].step = "back" /\ restore'[r].at = 2
           /\ restore'[r].failed = restore[r].failed /\ restore'[r].faults = restore[r].faults
<1>1. Job!Undo(r, "unplace", "root", "staging", "back", 2)
  BY TwoNames DEF Job!Unplace
<1>2. /\ Filled' /\ Takes(r) /\ restore'[r].before = restore[r].before
      /\ restore'[r].said = restore[r].said /\ UNCHANGED <<ownDB, db, secret, loaded, media>>
      /\ restore[r].step = "unplace" /\ (Way1 \/ Way2 \/ Way3)
  BY <1>1, Undoes DEF Job!Steps, Job!At
<1> HIDE DEF Way1, Way2, Way3
<1>3. ASSUME restore[r].alone PROVE Moving(r)'
  <2>1. /\ Moving(r) /\ n \in 0..3 /\ restore[r].faults \in Nat /\ Job!Names = 1..2
    BY <1>2, <1>3 DEF JobInv, Kept, Job!At, Filled, Restored, Job!Names
  <2>2. CASE Way1
    <3>1. /\ repo'["root"][n] = None
          /\ repo'["staging"][n] = IF repo["root"][n] = None THEN repo["staging"][n] ELSE repo["root"][n]
          /\ \A m \in Job!Names \ {n} : /\ repo'["root"][m] = repo["root"][m]
                                          /\ repo'["staging"][m] = repo["staging"][m]
          /\ \A c \in {"root", "staging", "old"} \ {"root", "staging"} : repo'[c] = repo[c]
      BY <2>2, Renames DEF JobInv, Way1
    <3> QED
      BY <1>2, <2>1, <2>2, <3>1, Directories DEF Moving, Way1
  <2>3. CASE Way2
    BY <1>2, <2>1, <2>3, Directories DEF Moving, Way2
  <2>4. CASE Way3
    BY <1>2, <2>1, <2>4, Directories DEF Moving, Way3, JobInv, Filled, Volumes, Entries
  <2> QED
    BY <1>2, <2>2, <2>3, <2>4
<1>4. Done(r)'
  BY <1>2 DEF Done, Later, Ended, By, Job!At, Way1, Way2, Way3
<1> QED
  BY <1>2, <1>3, <1>4 DEF Ok

(* RestoreBack: an entry back where it was.                                *)
LEMMA RestoreBackStep == ASSUME JobInv, NEW r \in Restores, Job!RestoreBack(r) PROVE Ok(r)
<1> DEFINE n == restore[r].at
           Way1 == /\ n \in Job!Names /\ repo' = Job!Moved(n, "old", "root")
                   /\ restore'[r].step = "back" /\ restore'[r].at = n - 1
           /\ restore'[r].failed = restore[r].failed /\ restore'[r].faults = restore[r].faults
           Way2 == /\ n \in Job!Names /\ repo' = repo
                   /\ restore'[r].step = "back" /\ restore'[r].at = n - 1
           /\ restore'[r].failed = restore[r].failed /\ restore'[r].faults = restore[r].faults + 1
           Way3 == n \in {0} /\ repo' = repo /\ restore'[r].step = "clean" /\ restore'[r].at = 1
           /\ restore'[r].failed = restore[r].failed /\ restore'[r].faults = restore[r].faults
<1>1. Job!Undo(r, "back", "old", "root", "clean", 1)
  BY TwoNames DEF Job!RestoreBack
<1>2. /\ Filled' /\ Takes(r) /\ restore'[r].before = restore[r].before
      /\ restore'[r].said = restore[r].said /\ UNCHANGED <<ownDB, db, secret, loaded, media>>
      /\ restore[r].step = "back" /\ (Way1 \/ Way2 \/ Way3)
  BY <1>1, Undoes DEF Job!Steps, Job!At
<1> HIDE DEF Way1, Way2, Way3
<1>3. ASSUME restore[r].alone PROVE Moving(r)'
  <2>1. /\ Moving(r) /\ n \in 0..3 /\ restore[r].faults \in Nat /\ Job!Names = 1..2
    BY <1>2, <1>3 DEF JobInv, Kept, Job!At, Filled, Restored, Job!Names
  <2>2. CASE Way1
    <3>1. /\ repo'["old"][n] = None
          /\ repo'["root"][n] = IF repo["old"][n] = None THEN repo["root"][n] ELSE repo["old"][n]
          /\ \A m \in Job!Names \ {n} : /\ repo'["old"][m] = repo["old"][m]
                                          /\ repo'["root"][m] = repo["root"][m]
          /\ \A c \in {"root", "staging", "old"} \ {"old", "root"} : repo'[c] = repo[c]
      BY <2>2, Renames DEF JobInv, Way1
    <3> QED
      BY <1>2, <2>1, <2>2, <3>1, Directories DEF Moving, Way1
  <2>3. CASE Way2
    BY <1>2, <2>1, <2>3, Directories DEF Moving, Way2
  <2>4. CASE Way3
    BY <1>2, <2>1, <2>4, Directories DEF Moving, Way3, JobInv, Filled, Volumes, Entries
  <2> QED
    BY <1>2, <2>2, <2>3, <2>4
<1>4. Done(r)'
  BY <1>2 DEF Done, Later, Ended, By, Job!At, Way1, Way2, Way3
<1> QED
  BY <1>2, <1>3, <1>4 DEF Ok

(* The other steps of the configuration.                                   *)
LEMMA ConfigSteps ==
  ASSUME JobInv, NEW r \in Restores,
         Job!Upload(r) \/ Job!Read(r) \/ Job!Clear(r) \/ Job!Stage(r) \/ Job!Clean(r)
  PROVE  Ok(r)
<1> USE DEF Takes, Job!At, Job!Active, Job!To, Job!Ends, Job!Says, Job!EndsBadly, Job!Event,
            Job!NoEvent, Job!volumes, Job!Steps
<1>0. /\ restore \in [Restores -> Restored] /\ restore[r] \in Restored
      /\ slot \in Restores \cup {None} /\ Volumes /\ restore[r].faults \in Nat
      /\ restore[r].alone /\ restore[r].step # "idle" => Moving(r) /\ Done(r)
  BY DEF JobInv, Filled, Kept, Restored
<1>1. CASE Job!Upload(r)
  <2>1. restore' \in [Restores -> Restored] /\ slot' = slot
    BY <1>0, <1>1 DEF Job!Upload, Restored
  <2>2. Takes(r)
    BY <1>0, <1>1, <2>1 DEF Job!Upload, Restored
  <2>3. Volumes'
    BY <1>0, <1>1, Directories DEF Job!Upload, Volumes, Entries, Job!Whose
  <2>4. restore[r].alone => Moving(r)'
    BY <1>0, <1>1, Directories DEF Job!Upload, Moving, Restored, Volumes, Entries
  <2>5. restore[r].alone => Done(r)'
    BY <1>0, <1>1, Directories DEF Job!Upload, Moving, Done, Later, Ended, By, Restored
  <2> QED
    BY <1>0, <2>1, <2>2, <2>3, <2>4, <2>5 DEF Ok, Filled
<1>2. CASE Job!Read(r)
  <2>1. restore' \in [Restores -> Restored] /\ slot' = slot
    BY <1>0, <1>2 DEF Job!Read, Restored
  <2>2. Takes(r)
    BY <1>0, <1>2, <2>1 DEF Job!Read, Restored
  <2>3. Volumes'
    BY <1>0, <1>2, Directories DEF Job!Read, Volumes, Entries, Job!Whose
  <2>4. restore[r].alone => Moving(r)'
    BY <1>0, <1>2, Directories DEF Job!Read, Moving, Restored, Volumes, Entries
  <2>5. restore[r].alone => Done(r)'
    BY <1>0, <1>2, Directories DEF Job!Read, Moving, Done, Later, Ended, By, Restored
  <2> QED
    BY <1>0, <2>1, <2>2, <2>3, <2>4, <2>5 DEF Ok, Filled
<1>3. CASE Job!Clear(r)
  <2>1. restore' \in [Restores -> Restored] /\ slot' = slot
    BY <1>0, <1>3, Directories DEF Job!Clear, Restored, Volumes
  <2>2. Takes(r)
    BY <1>0, <1>3, <2>1 DEF Job!Clear, Restored
  <2>3. Volumes'
    BY <1>0, <1>3, Directories DEF Job!Clear, Volumes, Entries, Job!Whose
  <2>4. restore[r].alone => Moving(r)'
    BY <1>0, <1>3, Directories DEF Job!Clear, Moving, Restored, Volumes, Entries
  <2>5. restore[r].alone => Done(r)'
    BY <1>0, <1>3, Directories DEF Job!Clear, Moving, Done, Later, Ended, By, Restored
  <2> QED
    BY <1>0, <2>1, <2>2, <2>3, <2>4, <2>5 DEF Ok, Filled
<1>4. CASE Job!Stage(r)
  <2>1. restore' \in [Restores -> Restored] /\ slot' = slot
    BY <1>0, <1>4 DEF Job!Stage, Job!Fault1, Restored
  <2>2. Takes(r)
    BY <1>0, <1>4, <2>1 DEF Job!Stage, Job!Fault1, Restored
  <2>3. Volumes'
    BY <1>0, <1>4, Directories DEF Job!Stage, Job!Fault1, Volumes, Entries, Job!Whose
  <2>4. restore[r].alone => Moving(r)'
    BY <1>0, <1>4, Directories DEF Job!Stage, Job!Fault1, Moving, Restored, Volumes, Entries
  <2>5. restore[r].alone => Done(r)'
    BY <1>0, <1>4, Directories DEF Job!Stage, Job!Fault1, Moving, Done, Later, Ended, By, Restored
  <2> QED
    BY <1>0, <2>1, <2>2, <2>3, <2>4, <2>5 DEF Ok, Filled
<1>5. CASE Job!Clean(r)
  <2>1. restore' \in [Restores -> Restored] /\ slot' = slot
    BY <1>0, <1>5 DEF Job!Clean, Restored
  <2>2. Takes(r)
    BY <1>0, <1>5, <2>1 DEF Job!Clean, Restored
  <2>3. Volumes'
    BY <1>0, <1>5, Directories DEF Job!Clean, Volumes, Entries, Job!Whose
  <2>4. restore[r].alone => Moving(r)'
    BY <1>0, <1>5, Directories DEF Job!Clean, Moving, Restored, Volumes, Entries
  <2>5. restore[r].alone => Done(r)'
    BY <1>0, <1>5, Directories DEF Job!Clean, Moving, Done, Later, Ended, By, Restored, Volumes
  <2> QED
    BY <1>0, <2>1, <2>2, <2>3, <2>4, <2>5 DEF Ok, Filled
<1> QED
  BY <1>1, <1>2, <1>3, <1>4, <1>5

(* What comes after the configuration.                                     *)
LEMMA LaterSteps ==
  ASSUME JobInv, NEW r \in Restores,
         \/ Job!Tables(r) \/ Job!AdminPG(r) \/ Job!Synapse(r) \/ Job!Mas(r) \/ Job!Media(r)
         \/ Job!Unpack(r) \/ Job!Copy(r) \/ Job!Tidy(r) \/ Job!Keys(r) \/ Job!Restart(r)
  PROVE  Ok(r)
<1> USE DEF Takes, Job!At, Job!Active, Job!To, Job!Ends, Job!Says, Job!EndsBadly, Job!Event,
            Job!NoEvent, Job!volumes, Job!Steps, Job!Late, Job!Fails, Job!Skips
<1>0. /\ restore \in [Restores -> Restored] /\ restore[r] \in Restored
      /\ slot \in Restores \cup {None} /\ Volumes
      /\ restore[r].alone /\ restore[r].step # "idle" => Moving(r) /\ Done(r)
  BY DEF JobInv, Filled, Kept
<1>1. CASE Job!Tables(r)
  <2>1. restore' \in [Restores -> Restored] /\ slot' = slot
    BY <1>0, <1>1 DEF Job!Tables, Restored
  <2>2. Takes(r)
    BY <1>0, <1>1, <2>1 DEF Job!Tables, Restored
  <2>3. Volumes'
    BY <1>0, <1>1 DEF Job!Tables, Volumes, Job!Whose, Job!Services
  <2>4. restore[r].alone => Moving(r)'
    BY <1>0, <1>1 DEF Job!Tables, Moving, Restored
  <2>5. restore[r].alone => Done(r)'
    BY <1>0, <1>1 DEF Job!Tables, Done, Later, Ended, By, Restored, Volumes, Job!Services
  <2> QED
    BY <1>0, <2>1, <2>2, <2>3, <2>4, <2>5 DEF Ok, Filled
<1>2. CASE Job!AdminPG(r)
  <2>1. restore' \in [Restores -> Restored] /\ slot' = slot
    BY <1>0, <1>2 DEF Job!AdminPG, Restored
  <2>2. Takes(r)
    BY <1>0, <1>2, <2>1 DEF Job!AdminPG, Restored
  <2>3. Volumes'
    BY <1>0, <1>2 DEF Job!AdminPG, Volumes, Job!Whose, Job!Services
  <2>4. restore[r].alone => Moving(r)'
    BY <1>0, <1>2 DEF Job!AdminPG, Moving, Restored
  <2>5. restore[r].alone => Done(r)'
    BY <1>0, <1>2 DEF Job!AdminPG, Done, Later, Ended, By, Restored, Volumes, Job!Services
  <2> QED
    BY <1>0, <2>1, <2>2, <2>3, <2>4, <2>5 DEF Ok, Filled
<1>3. CASE Job!Synapse(r)
  <2>1. restore' \in [Restores -> Restored] /\ slot' = slot
    BY <1>0, <1>3 DEF Job!Synapse, Job!Database, Restored
  <2>2. Takes(r)
    BY <1>0, <1>3, <2>1 DEF Job!Synapse, Job!Database, Restored
  <2>3. Volumes'
    BY <1>0, <1>3 DEF Job!Synapse, Job!Database, Volumes, Job!Whose, Job!Services
  <2>4. restore[r].alone => Moving(r)'
    BY <1>0, <1>3 DEF Job!Synapse, Job!Database, Moving, Restored
  <2>5. restore[r].alone => Done(r)'
    BY <1>0, <1>3 DEF Job!Synapse, Job!Database, Done, Later, Ended, By, Restored, Volumes, Job!Services
  <2> QED
    BY <1>0, <2>1, <2>2, <2>3, <2>4, <2>5 DEF Ok, Filled
<1>4. CASE Job!Mas(r)
  <2>1. restore' \in [Restores -> Restored] /\ slot' = slot
    BY <1>0, <1>4 DEF Job!Mas, Job!Database, Restored
  <2>2. Takes(r)
    BY <1>0, <1>4, <2>1 DEF Job!Mas, Job!Database, Restored
  <2>3. Volumes'
    BY <1>0, <1>4 DEF Job!Mas, Job!Database, Volumes, Job!Whose, Job!Services
  <2>4. restore[r].alone => Moving(r)'
    BY <1>0, <1>4 DEF Job!Mas, Job!Database, Moving, Restored
  <2>5. restore[r].alone => Done(r)'
    BY <1>0, <1>4 DEF Job!Mas, Job!Database, Done, Later, Ended, By, Restored, Volumes, Job!Services
  <2> QED
    BY <1>0, <2>1, <2>2, <2>3, <2>4, <2>5 DEF Ok, Filled
<1>5. CASE Job!Media(r)
  <2>1. restore' \in [Restores -> Restored] /\ slot' = slot
    BY <1>0, <1>5 DEF Job!Media, Restored
  <2>2. Takes(r)
    BY <1>0, <1>5, <2>1 DEF Job!Media, Restored
  <2>3. Volumes'
    BY <1>0, <1>5 DEF Job!Media, Volumes, Job!Whose, Job!Services
  <2>4. restore[r].alone => Moving(r)'
    BY <1>0, <1>5 DEF Job!Media, Moving, Restored
  <2>5. restore[r].alone => Done(r)'
    BY <1>0, <1>5 DEF Job!Media, Done, Later, Ended, By, Restored, Volumes, Job!Services
  <2> QED
    BY <1>0, <2>1, <2>2, <2>3, <2>4, <2>5 DEF Ok, Filled
<1>6. CASE Job!Unpack(r)
  <2>1. restore' \in [Restores -> Restored] /\ slot' = slot
    BY <1>0, <1>6 DEF Job!Unpack, Restored
  <2>2. Takes(r)
    BY <1>0, <1>6, <2>1 DEF Job!Unpack, Restored
  <2>3. Volumes'
    BY <1>0, <1>6 DEF Job!Unpack, Volumes, Job!Whose, Job!Services
  <2>4. restore[r].alone => Moving(r)'
    BY <1>0, <1>6 DEF Job!Unpack, Moving, Restored
  <2>5. restore[r].alone => Done(r)'
    BY <1>0, <1>6 DEF Job!Unpack, Done, Later, Ended, By, Restored, Volumes, Job!Services
  <2> QED
    BY <1>0, <2>1, <2>2, <2>3, <2>4, <2>5 DEF Ok, Filled
<1>7. CASE Job!Copy(r)
  <2>1. restore' \in [Restores -> Restored] /\ slot' = slot
    BY <1>0, <1>7 DEF Job!Copy, Restored
  <2>2. Takes(r)
    BY <1>0, <1>7, <2>1 DEF Job!Copy, Restored
  <2>3. Volumes'
    BY <1>0, <1>7 DEF Job!Copy, Volumes, Job!Whose, Job!Services
  <2>4. restore[r].alone => Moving(r)'
    BY <1>0, <1>7 DEF Job!Copy, Moving, Restored
  <2>5. restore[r].alone => Done(r)'
    BY <1>0, <1>7 DEF Job!Copy, Done, Later, Ended, By, Restored, Volumes, Job!Services
  <2> QED
    BY <1>0, <2>1, <2>2, <2>3, <2>4, <2>5 DEF Ok, Filled
<1>8. CASE Job!Tidy(r)
  <2>0. slot' = slot /\ restore' = [restore EXCEPT ![r].step = "keys", ![r].at = 1]
    BY <1>8 DEF Job!Tidy
  <2>1. restore' \in [Restores -> Restored] /\ slot' = slot
    <3>1. [restore[r] EXCEPT !.step = "keys", !.at = 1] \in Restored
      <4>1. "keys" \in Job!Steps /\ 1 \in 0..3 /\ restore[r] \in Restored
        BY <1>0
      <4> QED
        BY <4>1, JobSteps
    <3> QED
      BY <1>0, <2>0, <3>1
  <2>2. Takes(r)
    BY <1>0, <1>8, <2>1 DEF Job!Tidy, Restored
  <2>3. Volumes'
    BY <1>0, <1>8 DEF Job!Tidy, Volumes, Job!Whose, Job!Services
  <2>4. restore[r].alone => Moving(r)'
    BY <1>0, <1>8 DEF Job!Tidy, Moving, Restored
  <2>5. restore[r].alone => Done(r)'
    BY <1>0, <1>8 DEF Job!Tidy, Done, Later, Ended, By, Restored, Volumes, Job!Services
  <2> QED
    BY <1>0, <2>1, <2>2, <2>3, <2>4, <2>5 DEF Ok, Filled
<1>9. CASE Job!Keys(r)
  <2>1. restore' \in [Restores -> Restored] /\ slot' = slot
    BY <1>0, <1>9 DEF Job!Keys, Job!Merged, Restored
  <2>2. Takes(r)
    BY <1>0, <1>9, <2>1 DEF Job!Keys, Job!Merged, Restored
  <2>3. Volumes'
    BY <1>0, <1>9 DEF Job!Keys, Job!Merged, Volumes, Job!Whose, Job!Services
  <2>4. restore[r].alone => Moving(r)'
    BY <1>0, <1>9 DEF Job!Keys, Job!Merged, Moving, Restored
  <2>5. restore[r].alone => Done(r)'
    BY <1>0, <1>9 DEF Job!Keys, Job!Merged, Done, Later, Ended, By, Restored, Volumes, Job!Services
  <2> QED
    BY <1>0, <2>1, <2>2, <2>3, <2>4, <2>5 DEF Ok, Filled
<1>10. CASE Job!Restart(r)
  <2> DEFINE one == restore[r].at = 1
             s   == IF one THEN "synapse" ELSE "mas"
  <2>0. /\ slot' = slot /\ restore[r].step = "restart"
        /\ UNCHANGED <<repo, ownDB, db, secret, media>>
        /\ \E said \in {restore[r].said, restore[r].said \cup {"restart"}} :
              /\ restore' = [restore EXCEPT ![r].at = 2, ![r].said = said,
                                            ![r].step = IF one THEN "restart" ELSE "over"]
              /\ \/ loaded' = [loaded EXCEPT ![s] = "restarting"]
                 \/ "restart" \in said /\ loaded' = loaded
    BY <1>10 DEF Job!Restart
  <2>1. restore' \in [Restores -> Restored]
    <3>1. \A said \in {restore[r].said, restore[r].said \cup {"restart"}},
             phase \in {"restart", "over"} :
             [restore[r] EXCEPT !.at = 2, !.said = said, !.step = phase] \in Restored
      <4>1. restore[r].said \subseteq {"bare", "skip", "media", "keys", "restart"}
        BY <1>0 DEF Restored
      <4>2. {"restart", "over"} \subseteq Job!Steps /\ 2 \in 0..3 /\ restore[r] \in Restored
        BY <1>0
      <4> QED
        BY <4>1, <4>2, Sayings
    <3> QED
      BY <1>0, <2>0, <3>1
  <2>2. Takes(r)
    BY <1>0, <2>0, <2>1 DEF Restored
  <2>3. Volumes'
    BY <1>0, <2>0 DEF Volumes, Job!Whose, Job!Services
  <2>4. restore[r].alone => Moving(r)'
    BY <1>0, <2>0 DEF Moving, Restored
  <2>5. restore[r].alone => Done(r)'
    <3>1. CASE one
      BY <1>0, <2>0, <3>1 DEF Done, Later, Ended, By, Restored, Volumes, Job!Services
    <3>2. CASE ~one
      BY <1>0, <2>0, <3>2 DEF Done, Later, Ended, By, Restored, Volumes, Job!Services
    <3> QED
      BY <3>1, <3>2
  <2> QED
    BY <1>0, <2>0, <2>1, <2>2, <2>3, <2>4, <2>5 DEF Ok, Filled
<1> QED
  BY <1>1, <1>2, <1>3, <1>4, <1>5, <1>6, <1>7, <1>8, <1>9, <1>10

(* A restore begins: alone only if no other is at work, and the others are *)
(* no longer.                                                              *)
LEMMA BeginStep ==
  ASSUME JobInv, Job!Distinct, NEW r \in Restores, Job!RestoreFull(r) \/ Job!Restore(r)
  PROVE  JobInv'
<1>1. \E kind \in {"full", "own"}, phase \in {"upload", "read"} :
         /\ Job!Begins(r, kind, phase)
         /\ IF kind = "full" THEN slot' = r /\ (slot # None => ~Job!Running(slot)) ELSE slot' = slot
  BY DEF Job!RestoreFull, Job!Restore
<1>2. PICK kind \in {"full", "own"}, phase \in {"upload", "read"} :
         /\ Job!Begins(r, kind, phase)
         /\ IF kind = "full" THEN slot' = r /\ (slot # None => ~Job!Running(slot)) ELSE slot' = slot
  BY <1>1
<1>3. /\ UNCHANGED Job!volumes /\ Volumes /\ restore[r].step = "idle"
      /\ restore \in [Restores -> Restored] /\ slot \in Restores \cup {None}
  BY DEF JobInv, Filled, Job!RestoreFull, Job!Restore, Job!At
<1>4. restore'[r] = [Job!Fresh EXCEPT !.kind = kind, !.step = phase, !.alone = Job!NobodyActive]
  BY <1>2 DEF Job!Begins
<1>12. ASSUME NEW o \in Restores \ {r}
       PROVE  restore'[o] = IF Job!Active(o) THEN [restore[o] EXCEPT !.alone = FALSE]
                            ELSE [Job!Fresh EXCEPT !.step = restore[o].step, !.alone = FALSE]
  BY <1>2 DEF Job!Begins
<1>5. Job!Fresh = [kind |-> None, step |-> "idle", at |-> 1, before |-> None, failed |-> FALSE,
                   said |-> {}, late |-> FALSE, alone |-> TRUE, faults |-> 0]
  BY DEF Job!Fresh
<1>6. restore' \in [Restores -> Restored]
  <2>1. ASSUME NEW o \in Restores \ {r} PROVE restore'[o] \in Restored
    <3>1. restore[o] \in Restored
      BY <1>3
    <3>2. [restore[o] EXCEPT !.alone = FALSE] \in Restored /\ restore[o].step \in Job!Steps
      BY <3>1 DEF Restored
    <3>3. [Job!Fresh EXCEPT !.step = restore[o].step, !.alone = FALSE] \in Restored
      BY <3>2, Begun, JobSteps
    <3> QED
      BY <1>12, <3>2, <3>3
  <2>2. restore'[r] \in Restored
    <3>1. ASSUME NEW alone \in BOOLEAN
          PROVE  [Job!Fresh EXCEPT !.kind = kind, !.step = phase, !.alone = alone] \in Restored
      BY Begun, Beginnings DEF Job!Steps
    <3>2. Job!NobodyActive \in BOOLEAN
      BY DEF Job!NobodyActive
    <3> QED
      BY <1>4, <3>1, <3>2
  <2> QED
    BY <1>2, <2>1, <2>2 DEF Job!Begins
<1>7. /\ restore'[r].step = phase /\ restore'[r].kind = kind /\ restore'[r].at = 1
      /\ restore'[r].alone = Job!NobodyActive
      /\ restore'[r].said = {} /\ ~restore'[r].failed /\ restore'[r].faults = 0
  BY <1>4, <1>5
<1>8. ASSUME NEW o \in Restores \ {r}
      PROVE  /\ restore'[o].step = restore[o].step /\ ~restore'[o].alone
             /\ Job!Active(o) => restore'[o].kind = restore[o].kind /\ restore'[o].at = restore[o].at
  <2>1. restore[o] \in Restored
    BY <1>3
  <2>2. CASE Job!Active(o)
    BY <1>12, <2>1, <2>2 DEF Restored
  <2>3. CASE ~Job!Active(o)
    BY <1>12, <1>5, <2>3
  <2> QED
    BY <2>2, <2>3
<1>9. Filled'
  BY <1>2, <1>3, <1>6 DEF Filled, Volumes, Job!volumes
<1>10. Turns'
  <2>1. ASSUME NEW o \in Restores, Job!Running(o)' PROVE slot' = o
    <3>1. CASE o = r
      BY <1>2, <1>7, <2>1, <3>1 DEF Job!Running
    <3>2. CASE o # r
      <4>1. Job!Running(o)
        BY <1>8, <2>1, <3>2 DEF Job!Running, Job!Active
      <4>2. slot = o /\ slot # None
        BY <4>1 DEF JobInv, Turns, Job!Distinct
      <4> QED
        BY <1>2, <4>1, <4>2
    <3> QED
      BY <3>1, <3>2
  <2>2. ASSUME NEW o \in Restores, restore'[o].step \in {"unplace", "back"}
        PROVE  restore'[o].at <= 2
    BY <1>7, <1>8, <2>2 DEF JobInv, Turns, Job!Active
  <2>3. ASSUME NEW o \in Restores, restore'[o].alone, NEW q \in Restores \ {o}
        PROVE  ~Job!Active(q)'
    BY <1>7, <1>8, <2>3 DEF Job!NobodyActive, Job!Active
  <2> QED
    BY <2>1, <2>2, <2>3 DEF Turns
<1>11. Kept'
  BY <1>7, <1>8 DEF Kept, Moving, Done, Later, Ended, By, Job!At
<1> QED
  BY <1>9, <1>10, <1>11 DEF JobInv

(* What no restore does: its two hours end, a pod starts, the process dies.*)
LEMMA OutsideStep ==
  ASSUME JobInv, Job!Dies \/ (\E s \in Job!Services : Job!PodRestarts(s))
                 \/ (\E r \in Restores : Job!Deadline(r))
  PROVE  JobInv'
<1>0. restore \in [Restores -> Restored] /\ slot \in Restores \cup {None} /\ Volumes
  BY DEF JobInv, Filled
<1>1. ASSUME NEW r \in Restores, Job!Deadline(r) PROVE JobInv'
  <2>1. /\ UNCHANGED Job!volumes /\ slot' = slot
        /\ restore' = [restore EXCEPT ![r].late = TRUE]
    BY <1>1 DEF Job!Deadline
  <2>2. restore' \in [Restores -> Restored]
    <3>1. [restore[r] EXCEPT !.late = TRUE] \in Restored
      BY <1>0 DEF Restored
    <3> QED
      BY <1>0, <2>1, <3>1
  <2>3. \A o \in Restores :
           /\ restore'[o].kind = restore[o].kind /\ restore'[o].step = restore[o].step
           /\ restore'[o].at = restore[o].at /\ restore'[o].before = restore[o].before
           /\ restore'[o].failed = restore[o].failed /\ restore'[o].said = restore[o].said
           /\ restore'[o].alone = restore[o].alone /\ restore'[o].faults = restore[o].faults
    BY <1>0, <2>1 DEF Restored
  <2>4. Filled'
    BY <1>0, <2>1, <2>2 DEF Filled, Volumes, Job!volumes
  <2>5. Turns'
    BY <2>1, <2>3 DEF JobInv, Turns, Job!Running, Job!Active, Job!At
  <2>6. Kept'
    BY <2>1, <2>3 DEF JobInv, Kept, Moving, Done, Later, Ended, By, Job!At, Job!volumes
  <2> QED
    BY <2>4, <2>5, <2>6 DEF JobInv
<1>2. ASSUME NEW s \in Job!Services, Job!PodRestarts(s) PROVE JobInv'
  <2>1. /\ loaded' = [loaded EXCEPT ![s] = secret["identity"]]
        /\ UNCHANGED <<repo, ownDB, db, secret, media, slot, restore>>
    BY <1>2 DEF Job!PodRestarts
  <2>2. Filled'
    BY <1>0, <2>1 DEF Filled, Volumes
  <2>3. Turns'
    BY <2>1 DEF JobInv, Turns, Job!Running, Job!Active, Job!At
  <2>4. \A r \in Restores : Moving(r) => Moving(r)'
    BY <2>1 DEF Moving
  <2>5. \A r \in Restores : Done(r) => Done(r)'
    BY <1>0, <2>1 DEF Done, Later, Ended, By, Job!At, Volumes, Job!Services
  <2> QED
    BY <2>1, <2>2, <2>3, <2>4, <2>5 DEF JobInv, Kept, Job!At
<1>3. CASE Job!Dies
  <2>1. /\ UNCHANGED Job!volumes /\ slot' = None
        /\ restore' = [r \in Restores |-> IF Job!Active(r)
                          THEN [restore[r] EXCEPT !.step = "over", !.failed = TRUE, !.alone = FALSE]
                          ELSE restore[r]]
    BY <1>3 DEF Job!Dies
  <2>2. restore' \in [Restores -> Restored]
    <3>1. ASSUME NEW r \in Restores
          PROVE  [restore[r] EXCEPT !.step = "over", !.failed = TRUE, !.alone = FALSE] \in Restored
      BY <1>0, JobSteps DEF Job!Steps
    <3> QED
      BY <1>0, <2>1, <3>1
  <2>3. \A r \in Restores : /\ ~Job!Active(r)'
                            /\ restore'[r] = restore[r] \/ ~restore'[r].alone
    BY <1>0, <2>1 DEF Restored, Job!Active
  <2>4. Filled' /\ Turns'
    BY <1>0, <2>1, <2>2, <2>3 DEF Filled, Volumes, Job!volumes, Turns, Job!Running, Job!Active
  <2>5. Kept'
    <3> SUFFICES ASSUME NEW r \in Restores, restore'[r].alone, restore'[r].step # "idle"
                 PROVE  Moving(r)' /\ Done(r)'
      BY DEF Kept, Job!At
    <3>1. restore'[r] = restore[r] /\ Moving(r) /\ Done(r)
      BY <2>3 DEF JobInv, Kept, Job!At
    <3>2. Moving(r)'
      BY <2>1, <3>1 DEF Moving, Job!volumes
    <3>3. Done(r)'
      BY <2>1, <3>1 DEF Done, Later, Ended, By, Job!At, Job!volumes
    <3> QED
      BY <3>2, <3>3
  <2> QED
    BY <2>4, <2>5 DEF JobInv
<1> QED
  BY <1>1, <1>2, <1>3

(* One full restore runs at a time.  One that nobody ran beside leaves the *)
(* configuration the archive's or, when it failed, as it was; and one that *)
(* ended without a complaint has put back every part, and each service has *)
(* the archive's keys or was asked to restart for them: RestoreFull,       *)
(* RestoreConfigRepo and the full job.                                     *)
THEOREM RestoredWhole ==
    ASSUME Job!Distinct PROVE Job!Spec => []Job!RestoresAreWhole
<1>1. Job!Init => JobInv
  <2> SUFFICES ASSUME Job!Init PROVE JobInv
    OBVIOUS
  <2>1. Volumes
    BY Directories DEF Job!Init, Volumes, Entries, Job!Previous, Job!Whose, Job!Services, Job!Names
  <2>3. restore = [r \in Restores |-> Job!Fresh] /\ slot = None
    BY DEF Job!Init
  <2> QED
    BY <2>1, <2>3, Begun DEF JobInv, Filled, Turns, Kept, Job!Running, Job!Active, Job!At
<1>2. JobInv /\ [Job!Next]_Job!vars => JobInv'
  <2> SUFFICES ASSUME JobInv, [Job!Next]_Job!vars PROVE JobInv'
    OBVIOUS
  <2>1. ASSUME NEW r \in Restores, Ok(r) PROVE JobInv'
    BY <2>1, OneTakes DEF Ok
  <2>2. CASE UNCHANGED Job!vars
    BY <2>2 DEF Job!vars, Job!volumes, JobInv, Filled, Volumes, Turns, Kept, Moving, Done, Later,
               Ended, By, Job!Running, Job!Active, Job!At
  <2> QED
    BY <2>1, <2>2, ConfigSteps, AsideStep, PlaceStep, UnplaceStep, RestoreBackStep, LaterSteps,
       BeginStep, OutsideStep
    DEF Job!Next
<1>3. JobInv => Job!RestoresAreWhole
  <2> SUFFICES ASSUME JobInv PROVE Job!RestoresAreWhole
    OBVIOUS
  <2>1. ASSUME NEW r \in Restores PROVE Job!ConfigIsWhole(r)
    BY DEF JobInv, Kept, Moving, Job!ConfigIsWhole, Job!At
  <2>2. ASSUME NEW r \in Restores PROVE Job!JobIsWhole(r)
    <3> SUFFICES ASSUME restore[r].alone, restore[r].step = "over", ~restore[r].failed
                 PROVE  Job!JobIsWhole(r)
      BY DEF Job!JobIsWhole, Job!At
    <3>1. Done(r) /\ Volumes
      BY DEF JobInv, Kept, Filled, Job!At
    <3> QED
      BY <3>1 DEF Job!JobIsWhole, Done, Ended, By, Job!At, Volumes, Job!Services
  <2> QED
    BY <2>1, <2>2 DEF Job!RestoresAreWhole, JobInv, Turns
<1> QED
  BY <1>1, <1>2, <1>3, PTL DEF Job!Spec

-----------------------------------------------------------------------------
(* What a trigger, the hooks and their rows can hold.                      *)
Phases    == {"idle", "helm", "list", "insert", "judge", "act", "close", "over"}
Results   == {"success", "skipped", "failed"}
Queued    == [id : Runs!Hooks, actions : Runs!ActionSets]
Triggered == [kind : Runs!Kinds, step : Phases, queue : SUBSET Queued, listed : SUBSET Runs!Hooks,
              ran : Seq(Results), quiet : BOOLEAN, gone : BOOLEAN]

Listing ==
    /\ hook \in [Runs!Hooks -> [there : BOOLEAN, enabled : BOOLEAN, actions : Runs!ActionSets]]
    /\ chart \subseteq Runs!Hooks
    /\ live \subseteq Runs!Hooks
    /\ helm \in Triggers \cup {"deployed", "failed"}
    /\ trigger \in [Triggers -> Triggered]
    /\ row \in [Triggers -> [Runs!Hooks -> Runs!Statuses]]
    /\ lost \in SUBSET (Triggers \X Runs!Hooks)

(* Every hook a trigger listed has its end, or is lost, or waits its turn. *)
Queues(t) ==
    /\ trigger[t].step \in {"idle", "helm", "list"} => trigger[t].listed = {}
    /\ trigger[t].step \in {"idle", "helm", "list", "over"} => trigger[t].queue = {}
    /\ trigger[t].step \in {"insert", "judge", "act", "close"} => trigger[t].queue # {}
    /\ \A p, q \in trigger[t].queue : p.id = q.id => p = q
    /\ \A q \in trigger[t].queue :
          q.id \in trigger[t].listed /\ row[t][q.id] \in {"none", "running"}
    /\ \A h \in Runs!Hooks \ trigger[t].listed : row[t][h] = "none"
    /\ \A h \in trigger[t].listed :
          \/ row[t][h] \notin {"none", "running"}
          \/ <<t, h>> \in lost
          \/ \E q \in trigger[t].queue : q.id = h

(* Helm has not been at the objects since a quiet trigger listed its hooks,*)
(* and what it patched so far is in.                                       *)
Patches(t) ==
    LET ran  == trigger[t].ran
        here == Runs!Current(t)
    IN  /\ trigger[t].step = "helm" => helm = t
        /\ trigger[t].quiet /\ helm \in Triggers => helm = t
        /\ trigger[t].quiet /\ trigger[t].step \in {"list", "insert", "judge", "act", "close"} =>
              helm = "deployed"
        /\ trigger[t].quiet => \A h \in trigger[t].listed :
              row[t][h] \in {"success", "skipped"} => h \in live
        /\ trigger[t].step \notin {"act", "close"} => ran = <<>>
        /\ trigger[t].step = "act" =>
              /\ Len(ran) < Len(here.actions)
              /\ \A i \in 1..Len(ran) : ran[i] = "success"
              /\ trigger[t].quiet =>
                    \A i \in 1..Len(ran) : here.actions[i] = "patch" => here.id \in live
        /\ trigger[t].step = "close" =>
              /\ Len(ran) > 0
              /\ \A i \in 1..(Len(ran) - 1) : ran[i] = "success"
              /\ trigger[t].quiet /\ ran[Len(ran)] # "failed" => here.id \in live

InEffect == helm = "deployed" => chart \subseteq live

HookInv == Listing /\ InEffect /\ \A t \in Triggers : Queues(t) /\ Patches(t)

-----------------------------------------------------------------------------
(* Whose turn it is is in the queue, and leaves it.                        *)
LEMMA OneIsNext ==
  ASSUME NEW t \in Triggers, trigger[t].queue \subseteq Queued, trigger[t].queue # {}
  PROVE  /\ Runs!Current(t) \in trigger[t].queue
         /\ Runs!Rest(t) = trigger[t].queue \ {Runs!Current(t)}
<1>1. \E c \in trigger[t].queue : \A o \in trigger[t].queue : c.id <= o.id
  <2>1. \A q \in trigger[t].queue : q.id \in {1, 2}
    BY DEF Queued, Runs!Hooks
  <2>2. CASE \E c \in trigger[t].queue : c.id = 1
    BY <2>1, <2>2
  <2>3. CASE \A c \in trigger[t].queue : c.id = 2
    BY <2>3
  <2> QED
    BY <2>1, <2>2, <2>3
<1> QED
  BY <1>1 DEF Runs!Current, Runs!Rest

(* A trigger's record remains one when it comes to another step.           *)
LEMMA TriggerSteps ==
  ASSUME NEW j \in Triggered, NEW phase \in Phases, NEW queue \in SUBSET Queued,
         NEW ran \in Seq(Results)
  PROVE  [j EXCEPT !.queue = queue, !.ran = ran, !.step = phase] \in Triggered
BY DEF Triggered

(* What a trigger is before anything happens.                              *)
LEMMA WaitingIs ==
  Runs!Waiting = [kind |-> "manual", step |-> "idle", queue |-> {}, listed |-> {}, ran |-> <<>>,
                  quiet |-> FALSE, gone |-> FALSE]
BY DEF Runs!Waiting

(* And when it begins.                                                     *)
LEMMA TriggerBegins ==
  ASSUME NEW ids \in SUBSET Runs!Hooks, NEW queue \in SUBSET Queued, NEW quiet \in BOOLEAN
  PROVE  /\ \A kind \in {"post-upgrade", "post-rollback"} :
               [Runs!Waiting EXCEPT !.kind = kind, !.step = "helm", !.quiet = TRUE] \in Triggered
         /\ [Runs!Waiting EXCEPT !.step = "insert", !.listed = ids, !.queue = queue,
                                 !.quiet = quiet] \in Triggered
<1>1. Runs!Waiting \in Triggered
  BY WaitingIs DEF Triggered, Phases, Runs!Kinds
<1>2. ASSUME NEW j \in Triggered, NEW kind \in Runs!Kinds, NEW phase \in Phases
      PROVE  [j EXCEPT !.kind = kind, !.step = phase, !.quiet = TRUE] \in Triggered
  BY DEF Triggered
<1>3. ASSUME NEW j \in Triggered, NEW phase \in Phases
      PROVE  [j EXCEPT !.step = phase, !.listed = ids, !.queue = queue, !.quiet = quiet]
             \in Triggered
  BY DEF Triggered
<1>4. {"helm", "insert"} \subseteq Phases /\ {"post-upgrade", "post-rollback"} \subseteq Runs!Kinds
  BY DEF Phases, Runs!Kinds
<1> QED
  BY <1>1, <1>2, <1>3, <1>4

(* What a step of one trigger leaves to the others.                        *)
Goes(t) ==
    /\ UNCHANGED <<chart, helm>>
    /\ live \subseteq live' /\ lost \subseteq lost'
    /\ \A s \in Triggers \ {t} : trigger'[s] = trigger[s] /\ row'[s] = row[s]

(* They are where they were.                                               *)
LEMMA OneGoes ==
  ASSUME HookInv, NEW t \in Triggers, Listing', Goes(t), Queues(t)', Patches(t)'
  PROVE  HookInv'
<1>1. InEffect'
  BY DEF HookInv, InEffect, Goes
<1>2. ASSUME NEW s \in Triggers \ {t} PROVE Queues(s)' /\ Patches(s)'
  <2>1. /\ Queues(s) /\ Patches(s) /\ trigger'[s] = trigger[s] /\ row'[s] = row[s]
        /\ UNCHANGED <<chart, helm>> /\ live \subseteq live' /\ lost \subseteq lost'
    BY DEF HookInv, Goes
  <2>2. Runs!Current(s)' = Runs!Current(s)
    BY <2>1 DEF Runs!Current
  <2>3. Queues(s)'
    BY <2>1 DEF Queues
  <2>4. Patches(s)'
    BY <2>1, <2>2 DEF Patches
  <2> QED
    BY <2>3, <2>4
<1> QED
  BY <1>1, <1>2 DEF HookInv

(* The hooks as they are when they are listed.                             *)
LEMMA Snapshots ==
  ASSUME HookInv, NEW ids \in SUBSET Runs!Hooks
  PROVE  /\ Runs!Snapshot(ids) \subseteq Queued
         /\ \A p, q \in Runs!Snapshot(ids) : p.id = q.id => p = q
         /\ \A h \in ids : \E q \in Runs!Snapshot(ids) : q.id = h
         /\ \A q \in Runs!Snapshot(ids) : q.id \in ids
<1>1. \A h \in ids : [id |-> h, actions |-> hook[h].actions] \in Queued
  BY DEF HookInv, Listing, Queued
<1>2. \A q \in Runs!Snapshot(ids) : \E h \in ids : q = [id |-> h, actions |-> hook[h].actions]
  BY DEF Runs!Snapshot
<1>3. \A h \in ids : [id |-> h, actions |-> hook[h].actions] \in Runs!Snapshot(ids)
  BY DEF Runs!Snapshot
<1>4. ASSUME NEW p \in Runs!Snapshot(ids), NEW q \in Runs!Snapshot(ids), p.id = q.id PROVE p = q
  BY <1>2, <1>4
<1>5. Runs!Snapshot(ids) \subseteq Queued /\ \A q \in Runs!Snapshot(ids) : q.id \in ids
  BY <1>1, <1>2
<1>6. \A h \in ids : \E q \in Runs!Snapshot(ids) : q.id = h
  BY <1>3
<1> QED
  BY <1>4, <1>5, <1>6

(* A trigger lists its hooks, or finds that it cannot.                     *)
LEMMA ListStep == ASSUME HookInv, NEW t \in Triggers, Runs!List(t) PROVE HookInv'
<1>0. /\ trigger \in [Triggers -> Triggered] /\ trigger[t] \in Triggered
      /\ trigger[t].step = "list" /\ UNCHANGED <<hook, chart, live, helm, row, lost>>
      /\ Queues(t) /\ Patches(t)
  BY DEF HookInv, Listing, Runs!List, Runs!At
<1>1. Goes(t) /\ trigger' \in [Triggers -> Triggered] => Listing'
  BY <1>0 DEF HookInv, Listing
<1>2. ASSUME NEW ids \in SUBSET Runs!Hooks, Runs!Begin(t, ids) PROVE HookInv'
  <2> DEFINE phase == IF ids = {} THEN "over" ELSE "insert"
             new  == [trigger[t] EXCEPT !.queue = Runs!Snapshot(ids), !.listed = ids, !.step = phase]
  <2>1. trigger' = [trigger EXCEPT ![t] = new]
    BY <1>2 DEF Runs!Begin
  <2>2. new \in Triggered
    BY <1>0, Snapshots DEF Triggered, Phases
  <2>3. /\ trigger' \in [Triggers -> Triggered] /\ Goes(t)
        /\ trigger'[t].queue = Runs!Snapshot(ids) /\ trigger'[t].listed = ids
        /\ trigger'[t].step = phase /\ trigger'[t].ran = trigger[t].ran
        /\ trigger'[t].quiet = trigger[t].quiet
    BY <1>0, <2>1, <2>2 DEF Goes, Triggered
  <2>4. Queues(t)'
    BY <1>0, <2>3, Snapshots DEF Queues
  <2>5. Patches(t)'
    BY <1>0, <2>3 DEF Patches, Queues
  <2> QED
    BY <1>1, <2>3, <2>4, <2>5, OneGoes
<1>3. CASE Runs!Goes(t, "over")
  <2>1. /\ trigger' \in [Triggers -> Triggered] /\ Goes(t)
        /\ trigger'[t] = [trigger[t] EXCEPT !.step = "over"]
    BY <1>0, <1>3 DEF Goes, Runs!Goes, Triggered, Phases
  <2>2. Queues(t)' /\ Patches(t)'
    BY <1>0, <2>1 DEF Queues, Patches, Triggered
  <2> QED
    BY <1>1, <2>1, <2>2, OneGoes
<1> QED
  BY <1>2, <1>3 DEF Runs!List

(* One hook on request, whatever it is for.                                *)
LEMMA RunHookByIDStep ==
  ASSUME HookInv, Runs!Named, NEW t \in Triggers, NEW h \in Runs!Hooks,
         Runs!RunHookByID(t, h)
  PROVE  HookInv'
<1>0. /\ trigger \in [Triggers -> Triggered] /\ trigger[t].step = "idle"
      /\ UNCHANGED <<hook, chart, live, helm, row, lost>> /\ Queues(t) /\ Patches(t)
  BY DEF HookInv, Listing, Runs!RunHookByID, Runs!At
<1> DEFINE new == [Runs!Waiting EXCEPT !.step = "insert", !.listed = {h},
                                       !.queue = Runs!Snapshot({h}), !.quiet = Runs!Deployed]
<1>1. trigger' = [trigger EXCEPT ![t] = new]
  BY DEF Runs!RunHookByID
<1>2. /\ new.step = "insert" /\ new.queue = Runs!Snapshot({h}) /\ new.listed = {h}
      /\ new.ran = <<>> /\ new.quiet = Runs!Deployed
  BY WaitingIs
<1>7. new \in Triggered
  <2>1. Runs!Deployed \in BOOLEAN
    BY DEF Runs!Deployed
  <2>2. {h} \in SUBSET Runs!Hooks /\ Runs!Snapshot({h}) \in SUBSET Queued
    BY Snapshots
  <2> QED
    BY <2>1, <2>2, TriggerBegins
<1> HIDE DEF new
<1>3. trigger' \in [Triggers -> Triggered] /\ Goes(t) /\ trigger'[t] = new
  BY <1>0, <1>1, <1>7 DEF Goes
<1>4. Queues(t)'
  BY <1>0, <1>2, <1>3, Snapshots DEF Queues
<1>5. Patches(t)'
  <2>1. trigger'[t].quiet => helm = "deployed" /\ helm \notin Triggers
    BY <1>2, <1>3 DEF Runs!Deployed, Runs!Named
  <2>2. trigger'[t].step = "insert" /\ trigger'[t].listed = {h} /\ trigger'[t].ran = <<>>
    BY <1>2, <1>3
  <2>3. row'[t][h] = "none" /\ helm' = helm
    BY <1>0 DEF Queues
  <2> QED
    BY <2>1, <2>2, <2>3 DEF Patches
<1>6. Listing'
  BY <1>0, <1>3 DEF HookInv, Listing
<1> QED
  BY <1>3, <1>4, <1>5, <1>6, OneGoes

(* Helm takes the objects: nobody else is quiet any more.                  *)
LEMMA HelmStep ==
  ASSUME HookInv, Runs!Named, NEW t \in Triggers,
         \/ \E kind \in {"post-upgrade", "post-rollback"}, m \in SUBSET Runs!Hooks :
               Runs!HelmStarts(t, kind, m)
         \/ \E kept \in SUBSET Runs!Hooks : Runs!HelmReturns(t, kept)
         \/ \E now \in SUBSET Runs!Hooks : Runs!HelmFails(t, now)
  PROVE  HookInv'
<1>0. /\ trigger \in [Triggers -> Triggered] /\ helm \in Triggers \cup {"deployed", "failed"}
      /\ "deployed" \notin Triggers /\ "failed" \notin Triggers
      /\ \A s \in Triggers : Queues(s) /\ Patches(s)
  BY DEF HookInv, Listing, Runs!Named
<1>1. ASSUME NEW kind \in {"post-upgrade", "post-rollback"}, NEW m \in SUBSET Runs!Hooks,
             Runs!HelmStarts(t, kind, m)
      PROVE  HookInv'
  <2> DEFINE new == [Runs!Waiting EXCEPT !.kind = kind, !.step = "helm", !.quiet = TRUE]
  <2>1. /\ trigger[t].step = "idle" /\ helm \notin Triggers /\ helm' = t /\ chart' = m
        /\ UNCHANGED <<hook, live, row, lost>>
        /\ trigger' = [s \in Triggers |-> IF s = t THEN new ELSE [trigger[s] EXCEPT !.quiet = FALSE]]
    BY <1>1 DEF Runs!HelmStarts, Runs!At
  <2>2. /\ new.step = "helm" /\ new.queue = {} /\ new.listed = {} /\ new.ran = <<>>
        /\ new.kind = kind /\ new.quiet
    BY WaitingIs
  <2>3. new \in Triggered
    BY TriggerBegins
  <2> HIDE DEF new
  <2>4. trigger' \in [Triggers -> Triggered] /\ trigger'[t] = new
    BY <1>0, <2>1, <2>3 DEF Triggered
  <2>5. ASSUME NEW s \in Triggers \ {t} PROVE Queues(s)' /\ Patches(s)'
    <3>1. /\ trigger'[s].step = trigger[s].step /\ trigger'[s].queue = trigger[s].queue
          /\ trigger'[s].listed = trigger[s].listed /\ trigger'[s].ran = trigger[s].ran
          /\ ~trigger'[s].quiet
      BY <1>0, <2>1 DEF Triggered
    <3>2. Runs!Current(s)' = Runs!Current(s)
      BY <3>1 DEF Runs!Current
    <3>3. trigger[s].step # "helm"
      BY <1>0, <2>1 DEF Patches
    <3>6. Queues(s) /\ Patches(s) /\ UNCHANGED <<live, row, lost>>
      BY <1>0, <2>1
    <3>4. Queues(s)'
      BY <3>1, <3>6 DEF Queues
    <3>5. Patches(s)'
      BY <3>1, <3>2, <3>3, <3>6 DEF Patches
    <3> QED
      BY <3>4, <3>5
  <2>6. Queues(t)' /\ Patches(t)'
    <3>1. Queues(t)'
      BY <1>0, <2>1, <2>2, <2>4 DEF Queues
    <3>2. Patches(t)'
      BY <1>0, <2>1, <2>2, <2>4 DEF Patches
    <3> QED
      BY <3>1, <3>2
  <2>7. Listing' /\ InEffect'
    BY <1>0, <2>1, <2>4 DEF HookInv, Listing, InEffect
  <2> QED
    BY <2>5, <2>6, <2>7 DEF HookInv
<1>2. ASSUME trigger[t].step = "helm",
             \/ /\ \E kept \in SUBSET Runs!Hooks : live' = chart \cup (live \cap kept)
                /\ helm' = "deployed" /\ Runs!Goes(t, "list")
             \/ live' \subseteq Runs!Hooks /\ helm' = "failed" /\ Runs!Goes(t, "over"),
             UNCHANGED <<hook, chart, row, lost>>
      PROVE  HookInv'
  <2>1. helm = t /\ \A s \in Triggers \ {t} : ~trigger[s].quiet
    BY <1>0, <1>2 DEF Patches, Triggered
  <2>2. \E phase \in {"list", "over"} :
           /\ trigger' = [trigger EXCEPT ![t].step = phase]
           /\ phase = "list" => helm' = "deployed"
    BY <1>2 DEF Runs!Goes
  <2>3. /\ trigger' \in [Triggers -> Triggered]
        /\ \A s \in Triggers \ {t} : trigger'[s] = trigger[s]
        /\ trigger'[t].listed = trigger[t].listed /\ trigger'[t].queue = trigger[t].queue
        /\ trigger'[t].ran = trigger[t].ran /\ trigger'[t].quiet = trigger[t].quiet
        /\ trigger'[t].step \in {"list", "over"}
        /\ trigger'[t].step = "list" => helm' = "deployed"
    <3>1. PICK phase \in {"list", "over"} :
             /\ trigger' = [trigger EXCEPT ![t].step = phase]
             /\ phase = "list" => helm' = "deployed"
      BY <2>2
    <3>2. trigger[t] \in Triggered /\ [trigger[t] EXCEPT !.step = phase] \in Triggered
      BY <1>0 DEF Triggered, Phases
    <3> QED
      BY <1>0, <3>1, <3>2 DEF Triggered
  <2>4. helm' \in {"deployed", "failed"} /\ live' \subseteq Runs!Hooks
    BY <1>2 DEF HookInv, Listing
  <2>5. Listing' /\ InEffect'
    BY <1>2, <2>3, <2>4 DEF HookInv, Listing, InEffect
  <2>6. Queues(t)' /\ Patches(t)'
    BY <1>0, <1>2, <2>3, <2>4 DEF Queues, Patches
  <2>7. ASSUME NEW s \in Triggers \ {t} PROVE Queues(s)' /\ Patches(s)'
    <3>1. Runs!Current(s)' = Runs!Current(s)
      BY <2>3 DEF Runs!Current
    <3>2. trigger[s].step # "helm"
      BY <1>0, <2>1 DEF Patches
    <3> QED
      BY <1>0, <1>2, <2>1, <2>3, <3>1, <3>2 DEF Queues, Patches
  <2> QED
    BY <2>5, <2>6, <2>7 DEF HookInv
<1> QED
  BY <1>1, <1>2 DEF Runs!HelmReturns, Runs!HelmFails, Runs!At

(* Between two hooks.                                                      *)
LEMMA NextStep ==
  ASSUME HookInv, NEW t \in Triggers, NEW status, Runs!NextHook(t, status),
         UNCHANGED <<hook, chart, live, helm>>, lost \subseteq lost',
         lost' \in SUBSET (Triggers \X Runs!Hooks),
         trigger[t].step \in {"insert", "close"},
         row' \in [Triggers -> [Runs!Hooks -> Runs!Statuses]],
         \A s \in Triggers \ {t} : row'[s] = row[s],
         LET h == Runs!Current(t).id IN
         /\ \A g \in Runs!Hooks \ {h} : row'[t][g] = row[t][g]
         /\ row'[t][h] \notin {"none", "running"} \/ <<t, h>> \in lost'
         /\ row'[t][h] = "none" => row[t][h] = "none"
         /\ trigger[t].quiet /\ row'[t][h] \in {"success", "skipped"} => h \in live
  PROVE  HookInv'
<1> DEFINE c == Runs!Current(t)
           q == trigger[t].queue
<1>0. /\ trigger \in [Triggers -> Triggered] /\ trigger[t] \in Triggered
      /\ Queues(t) /\ Patches(t) /\ q \subseteq Queued /\ q # {}
  BY DEF HookInv, Listing, Queues, Triggered
<1>1. c \in q /\ Runs!Rest(t) = q \ {c} /\ c.id \in Runs!Hooks
  BY <1>0, OneIsNext DEF Queued
<1>2. trigger' = [trigger EXCEPT ![t].queue = q \ {c}, ![t].ran = <<>>,
                                 ![t].step = IF q \ {c} = {} THEN "over" ELSE "insert"]
  BY <1>1 DEF Runs!NextHook
<1> HIDE DEF c, q
<1>3. \A phase \in {"over", "insert"} :
         [trigger[t] EXCEPT !.queue = q \ {c}, !.ran = <<>>, !.step = phase] \in Triggered
  <2>1. <<>> \in Seq(Results) /\ q \ {c} \in SUBSET Queued /\ {"over", "insert"} \subseteq Phases
    BY <1>0 DEF Phases
  <2> QED
    BY <1>0, <2>1, TriggerSteps
<1>4. /\ trigger' \in [Triggers -> Triggered]
      /\ \A s \in Triggers \ {t} : trigger'[s] = trigger[s]
      /\ trigger'[t].queue = q \ {c} /\ trigger'[t].ran = <<>>
      /\ trigger'[t].step = IF q \ {c} = {} THEN "over" ELSE "insert"
      /\ trigger'[t].listed = trigger[t].listed /\ trigger'[t].quiet = trigger[t].quiet
  BY <1>0, <1>2, <1>3 DEF Triggered
<1>8. /\ \A g \in Runs!Hooks \ {c.id} : row'[t][g] = row[t][g]
      /\ row'[t][c.id] \notin {"none", "running"} \/ <<t, c.id>> \in lost'
      /\ row'[t][c.id] = "none" => row[t][c.id] = "none"
      /\ trigger[t].quiet /\ row'[t][c.id] \in {"success", "skipped"} => c.id \in live
      /\ q = trigger[t].queue /\ lost \subseteq lost' /\ live' = live /\ helm' = helm
  BY DEF c, q
<1>9. \A p \in q \ {c} : p.id # c.id /\ p.id \in Runs!Hooks
  BY <1>0, <1>1, <1>8 DEF Queues, Queued
<1>5. Queues(t)'
  <2>1. \A p \in q \ {c} : p.id \in trigger[t].listed /\ row'[t][p.id] \in {"none", "running"}
    BY <1>0, <1>8, <1>9 DEF Queues
  <2>2. \A g \in Runs!Hooks \ trigger[t].listed : row'[t][g] = "none"
    BY <1>0, <1>1, <1>8 DEF Queues
  <2>3. ASSUME NEW g \in trigger[t].listed
        PROVE  \/ row'[t][g] \notin {"none", "running"}
               \/ <<t, g>> \in lost'
               \/ \E p \in q \ {c} : p.id = g
    <3>1. CASE g = c.id
      BY <1>8, <3>1
    <3>2. CASE g # c.id
      BY <1>0, <1>8, <3>2 DEF Queues, Triggered
    <3> QED
      BY <3>1, <3>2
  <2> QED
    BY <1>0, <1>4, <1>8, <2>1, <2>2, <2>3 DEF Queues
<1>6. Patches(t)'
  <2>1. /\ trigger[t].quiet /\ helm \in Triggers => helm = t
        /\ trigger[t].quiet /\ trigger[t].step \in {"list", "insert", "judge", "act", "close"} =>
              helm = "deployed"
        /\ trigger[t].quiet => \A h \in trigger[t].listed :
              row[t][h] \in {"success", "skipped"} => h \in live
    BY <1>0 DEF Patches
  <2>2. trigger[t].quiet => \A h \in trigger[t].listed :
              row'[t][h] \in {"success", "skipped"} => h \in live'
    BY <1>0, <1>8, <2>1 DEF Triggered
  <2> QED
    BY <1>4, <1>8, <2>1, <2>2 DEF Patches
<1>7. Listing' /\ Goes(t)
  BY <1>4 DEF HookInv, Listing, Goes
<1> QED
  BY <1>5, <1>6, <1>7, OneGoes

(* Every hook has a patch among its actions.                               *)
LEMMA EveryHookPatches ==
  ASSUME NEW a \in Runs!ActionSets
  PROVE  Len(a) > 0 /\ \E i \in 1..Len(a) : a[i] = "patch"
<1>1. CASE a = <<"patch">>
  <2>1. Len(a) = 1 /\ a[1] = "patch"
    BY <1>1
  <2> QED
    BY <2>1
<1>2. CASE a = <<"patch", "wait">>
  <2>1. Len(a) = 2 /\ a[1] = "patch"
    BY <1>2
  <2> QED
    BY <2>1
<1>3. CASE a = <<"call", "patch">>
  <2>1. Len(a) = 2 /\ a[2] = "patch"
    BY <1>3
  <2> QED
    BY <2>1
<1> QED
  BY <1>1, <1>2, <1>3 DEF Runs!ActionSets

(* A hook runs: its row, the verdict on it, its actions, its end.          *)
LEMMA RunStep ==
  ASSUME HookInv, NEW t \in Triggers,
         Runs!Insert(t) \/ Runs!NotInserted(t) \/ Runs!Judge(t) \/ Runs!Act(t) \/ Runs!Close(t)
  PROVE  HookInv'
<1> DEFINE c == Runs!Current(t)
           q == trigger[t].queue
<1>0. /\ trigger \in [Triggers -> Triggered] /\ trigger[t] \in Triggered
      /\ q \subseteq Queued /\ Queues(t) /\ Patches(t)
      /\ row \in [Triggers -> [Runs!Hooks -> Runs!Statuses]]
      /\ lost \in SUBSET (Triggers \X Runs!Hooks) /\ live \subseteq Runs!Hooks
  BY DEF HookInv, Listing, Triggered
<1>1. trigger[t].step \in {"insert", "judge", "act", "close"}
  BY DEF Runs!Insert, Runs!NotInserted, Runs!Judge, Runs!Act, Runs!Close, Runs!At
<1>2. /\ c \in q /\ c.id \in Runs!Hooks /\ c.actions \in Runs!ActionSets
      /\ row[t][c.id] \in {"none", "running"}
  BY <1>0, <1>1, OneIsNext DEF Queues, Queued
<1>3. CASE Runs!Insert(t)
  <2>1. /\ UNCHANGED <<hook, chart, live, helm, lost>> /\ trigger[t].step = "insert"
        /\ row' = [row EXCEPT ![t][c.id] = "running"]
        /\ trigger' = [trigger EXCEPT ![t].step = "judge"]
    BY <1>3 DEF Runs!Insert, Runs!Goes, Runs!At
  <2> HIDE DEF c, q
  <2>2. /\ trigger' \in [Triggers -> Triggered]
        /\ \A s \in Triggers \ {t} : trigger'[s] = trigger[s] /\ row'[s] = row[s]
        /\ trigger'[t].queue = trigger[t].queue /\ trigger'[t].ran = trigger[t].ran
        /\ trigger'[t].listed = trigger[t].listed /\ trigger'[t].quiet = trigger[t].quiet
        /\ trigger'[t].step = "judge"
    BY <1>0, <2>1 DEF Triggered, Phases
  <2>3. /\ row' \in [Triggers -> [Runs!Hooks -> Runs!Statuses]]
        /\ row'[t][c.id] = "running" /\ \A g \in Runs!Hooks \ {c.id} : row'[t][g] = row[t][g]
    BY <1>0, <1>2, <2>1 DEF Runs!Statuses
  <2>4. Queues(t)'
    BY <1>0, <1>2, <2>1, <2>2, <2>3 DEF Queues, Triggered, Queued, q
  <2>5. Patches(t)'
    BY <1>0, <1>2, <2>1, <2>2, <2>3 DEF Patches, Triggered
  <2>6. Listing' /\ Goes(t)
    BY <2>1, <2>2, <2>3 DEF HookInv, Listing, Goes
  <2> QED
    BY <2>4, <2>5, <2>6, OneGoes
<1>4. CASE Runs!NotInserted(t)
  <2>1. /\ UNCHANGED <<hook, chart, live, helm, row>> /\ lost' = lost \cup {<<t, c.id>>}
        /\ Runs!NextHook(t, "failed") /\ trigger[t].step = "insert"
    BY <1>4 DEF Runs!NotInserted, Runs!At
  <2>2. /\ lost \subseteq lost' /\ lost' \in SUBSET (Triggers \X Runs!Hooks)
        /\ <<t, c.id>> \in lost' /\ row[t][c.id] \notin {"success", "skipped"}
    BY <1>0, <1>2, <2>1
  <2> QED
    BY <1>0, <2>1, <2>2, NextStep
<1>5. ASSUME NEW ran \in Seq(Results), NEW phase \in {"act", "close"},
             trigger' = [trigger EXCEPT ![t].ran = ran, ![t].step = phase],
             UNCHANGED <<hook, chart, helm, row, lost>>,
             live \subseteq live', live' \subseteq Runs!Hooks,
             phase = "act" =>
                /\ Len(ran) < Len(c.actions)
                /\ \A i \in 1..Len(ran) : ran[i] = "success"
                /\ trigger[t].quiet =>
                      \A i \in 1..Len(ran) : c.actions[i] = "patch" => c.id \in live',
             phase = "close" =>
                /\ Len(ran) > 0
                /\ \A i \in 1..(Len(ran) - 1) : ran[i] = "success"
                /\ trigger[t].quiet /\ ran[Len(ran)] # "failed" => c.id \in live'
      PROVE  HookInv'
  <2>1. /\ trigger' \in [Triggers -> Triggered]
        /\ \A s \in Triggers \ {t} : trigger'[s] = trigger[s]
        /\ trigger'[t].queue = trigger[t].queue /\ trigger'[t].ran = ran
        /\ trigger'[t].listed = trigger[t].listed /\ trigger'[t].quiet = trigger[t].quiet
        /\ trigger'[t].step = phase
    <3>1. [trigger[t] EXCEPT !.ran = ran, !.step = phase] \in Triggered
      BY <1>0 DEF Triggered, Phases
    <3> QED
      BY <1>0, <1>5, <3>1 DEF Triggered
  <2>2. Runs!Current(t)' = c
    BY <2>1 DEF Runs!Current
  <2> HIDE DEF c, q
  <2>3. Queues(t)'
    BY <1>0, <1>1, <1>5, <2>1 DEF Queues
  <2>4. Patches(t)'
    BY <1>0, <1>1, <1>5, <2>1, <2>2 DEF Patches
  <2>5. Listing' /\ Goes(t)
    BY <1>5, <2>1 DEF HookInv, Listing, Goes
  <2> QED
    BY <2>3, <2>4, <2>5, OneGoes
<1>6. CASE Runs!Judge(t)
  <2>1. /\ trigger[t].step = "judge" /\ UNCHANGED <<hook, chart, live, helm, row, lost>>
        /\ trigger[t].ran = <<>>
    BY <1>0, <1>6 DEF Runs!Judge, Runs!At, Patches
  <2>2. CASE /\ Runs!Covered(c.id, c.actions)
             /\ trigger' = [trigger EXCEPT ![t].ran = <<"skipped">>, ![t].step = "close"]
    <3>1. trigger[t].quiet => c.id \in live
      BY <1>0, <2>1, <2>2 DEF Patches, HookInv, InEffect, Runs!Covered
    <3> DEFINE now == <<"skipped">>
    <3>2. now \in Seq(Results) /\ Len(now) = 1
      BY DEF Results
    <3>3. trigger' = [trigger EXCEPT ![t].ran = now, ![t].step = "close"]
      BY <2>2
    <3> HIDE DEF now, c, q
    <3>4. \A i \in 1..(Len(now) - 1) : now[i] = "success"
      BY <3>2
    <3>5. trigger[t].quiet /\ now[Len(now)] # "failed" => c.id \in live'
      BY <2>1, <3>1
    <3>6. live' \subseteq Runs!Hooks /\ live \subseteq live' /\ Len(now) > 0
      BY <1>0, <2>1, <3>2
    <3> QED
      BY <1>5, <2>1, <3>2, <3>3, <3>4, <3>5, <3>6
  <2>3. CASE Runs!Goes(t, "act")
    <3>1. trigger' = [trigger EXCEPT ![t].ran = <<>>, ![t].step = "act"]
      BY <1>0, <2>1, <2>3 DEF Runs!Goes, Triggered
    <3>2. Len(c.actions) > 0
      BY <1>2, EveryHookPatches
    <3> DEFINE now == <<>>
    <3>3. now \in Seq(Results) /\ Len(now) = 0
      OBVIOUS
    <3>4. trigger' = [trigger EXCEPT ![t].ran = now, ![t].step = "act"]
      BY <3>1
    <3> HIDE DEF now, c, q
    <3>5. live' \subseteq Runs!Hooks /\ live \subseteq live'
      BY <1>0, <2>1
    <3>6. Len(now) < Len(c.actions) /\ \A i \in 1..Len(now) : FALSE
      BY <3>2, <3>3
    <3> QED
      BY <1>5, <2>1, <3>3, <3>4, <3>5, <3>6
  <2> QED
    BY <1>6, <2>2, <2>3 DEF Runs!Judge
<1>7. CASE Runs!Act(t)
  <2> DEFINE ran  == trigger[t].ran
             here == Len(ran) + 1
  <2>1. /\ trigger[t].step = "act" /\ UNCHANGED <<hook, chart, helm, row, lost>>
        /\ ran \in Seq(Results) /\ here \in Nat /\ here <= Len(c.actions)
        /\ \A i \in 1..Len(ran) : ran[i] = "success"
        /\ trigger[t].quiet => \A i \in 1..Len(ran) : c.actions[i] = "patch" => c.id \in live
    BY <1>0, <1>7 DEF Runs!Act, Runs!At, Patches, Triggered
  <2>2. \E result \in {"success", "failed"} :
           /\ trigger' = [trigger EXCEPT ![t].ran = Append(ran, result),
                 ![t].step = IF result = "failed" \/ here = Len(c.actions) THEN "close" ELSE "act"]
           /\ live \subseteq live' /\ live' \subseteq live \cup {c.id}
           /\ result = "success" /\ c.actions[here] = "patch" => c.id \in live'
    BY <1>0, <1>7 DEF Runs!Act
  <2>3. PICK result \in {"success", "failed"} :
           /\ trigger' = [trigger EXCEPT ![t].ran = Append(ran, result),
                 ![t].step = IF result = "failed" \/ here = Len(c.actions) THEN "close" ELSE "act"]
           /\ live \subseteq live' /\ live' \subseteq live \cup {c.id}
           /\ result = "success" /\ c.actions[here] = "patch" => c.id \in live'
    BY <2>2
  <2> DEFINE now == Append(ran, result)
  <2>4. /\ now \in Seq(Results) /\ Len(now) = here /\ now[here] = result
        /\ \A i \in 1..Len(ran) : now[i] = "success"
    BY <2>1 DEF Results
  <2>5. result = "success" =>
           /\ \A i \in 1..here : now[i] = "success"
           /\ trigger[t].quiet => \A i \in 1..here : c.actions[i] = "patch" => c.id \in live'
    BY <2>1, <2>3, <2>4
  <2>6. result = "success" /\ here = Len(c.actions) /\ trigger[t].quiet => c.id \in live'
    <3>1. \E i \in 1..Len(c.actions) : c.actions[i] = "patch"
      BY <1>2, EveryHookPatches
    <3> QED
      BY <2>5, <3>1
  <2> HIDE DEF now, here, ran, c, q
  <2>7. live' \subseteq Runs!Hooks /\ live \subseteq live'
    BY <1>0, <1>2, <2>3
  <2>8. CASE result = "failed" \/ here = Len(c.actions)
    <3>1. trigger' = [trigger EXCEPT ![t].ran = now, ![t].step = "close"]
      BY <2>3, <2>8 DEF now
    <3>2. Len(now) > 0 /\ Len(now) - 1 = Len(ran)
      BY <2>1, <2>4 DEF here
    <3>3. trigger[t].quiet /\ now[Len(now)] # "failed" => c.id \in live'
      BY <2>4, <2>6, <2>8
    <3> QED
      BY <1>5, <2>1, <2>4, <2>7, <3>1, <3>2, <3>3
  <2>9. CASE ~(result = "failed" \/ here = Len(c.actions))
    <3>1. trigger' = [trigger EXCEPT ![t].ran = now, ![t].step = "act"] /\ result = "success"
      BY <2>3, <2>9 DEF now
    <3>2. Len(c.actions) \in Nat /\ Len(now) < Len(c.actions)
      BY <1>2, <2>1, <2>4, <2>9 DEF Runs!ActionSets
    <3> QED
      BY <1>5, <2>1, <2>4, <2>5, <2>7, <3>1, <3>2
  <2> QED
    BY <2>8, <2>9
<1>8. CASE Runs!Close(t)
  <2> DEFINE ran    == trigger[t].ran
             status == Runs!Outcome(ran)
  <2>1. /\ UNCHANGED <<hook, chart, live, helm>> /\ Runs!NextHook(t, status)
        /\ trigger[t].step = "close"
        /\ \/ row' = [row EXCEPT ![t][c.id] = status] /\ lost' = lost
           \/ row' = row /\ lost' = lost \cup {<<t, c.id>>}
    BY <1>8 DEF Runs!Close, Runs!At
  <2>2. status \in {"skipped", "partial", "failed", "success"}
    BY DEF Runs!Outcome
  <2>3. trigger[t].quiet /\ status \in {"success", "skipped"} => c.id \in live
    <3>1. /\ ran \in Seq(Results) /\ Len(ran) > 0 /\ \A i \in 1..(Len(ran) - 1) : ran[i] = "success"
          /\ trigger[t].quiet /\ ran[Len(ran)] # "failed" => c.id \in live
      BY <1>0, <2>1 DEF Patches, Triggered
    <3>2. ran[1] = "skipped" => ran[Len(ran)] # "failed"
      BY <3>1
    <3>3. status \in {"success", "skipped"} => ran[Len(ran)] # "failed"
      BY <3>2 DEF Runs!Outcome, Runs!Last
    <3> QED
      BY <3>1, <3>3
  <2> HIDE DEF status
  <2>4. CASE row' = [row EXCEPT ![t][c.id] = status] /\ lost' = lost
    <3>1. /\ row' \in [Triggers -> [Runs!Hooks -> Runs!Statuses]] /\ row'[t][c.id] = status
          /\ \A s \in Triggers \ {t} : row'[s] = row[s]
          /\ \A g \in Runs!Hooks \ {c.id} : row'[t][g] = row[t][g]
      BY <1>0, <1>2, <2>2, <2>4 DEF Runs!Statuses
    <3> QED
      BY <1>0, <2>1, <2>2, <2>3, <2>4, <3>1, NextStep
  <2>5. CASE row' = row /\ lost' = lost \cup {<<t, c.id>>}
    <3>1. /\ lost \subseteq lost' /\ lost' \in SUBSET (Triggers \X Runs!Hooks)
          /\ <<t, c.id>> \in lost' /\ row[t][c.id] \notin {"success", "skipped"}
      BY <1>0, <1>2, <2>5
    <3> QED
      BY <1>0, <2>1, <2>5, <3>1, NextStep
  <2> QED
    BY <2>1, <2>4, <2>5
<1> QED
  BY <1>3, <1>4, <1>6, <1>7, <1>8

(* An edit of a hook disturbs no run: it has its actions from the list.    *)
LEMMA EditsLeaveRuns ==
  ASSUME HookInv, UNCHANGED <<chart, live, helm, trigger, row, lost>>,
         hook' \in [Runs!Hooks -> [there : BOOLEAN, enabled : BOOLEAN, actions : Runs!ActionSets]]
  PROVE  HookInv'
<1>1. Listing' /\ InEffect'
  BY DEF HookInv, Listing, InEffect
<1>2. ASSUME NEW t \in Triggers PROVE Queues(t)' /\ Patches(t)'
  <2>1. Queues(t) /\ Patches(t) /\ Runs!Current(t)' = Runs!Current(t)
    BY DEF HookInv, Runs!Current
  <2>2. Queues(t)'
    BY <2>1 DEF Queues
  <2>3. Patches(t)'
    BY <2>1 DEF Patches
  <2> QED
    BY <2>2, <2>3
<1> QED
  BY <1>1, <1>2 DEF HookInv

(* A page is closed, a hook is edited, switched or deleted.                *)
LEMMA EditStep ==
  ASSUME HookInv,
         \/ \E t \in Triggers : Runs!Gone(t)
         \/ \E h \in Runs!Hooks : \/ Runs!SetEnabled(h) \/ Runs!Delete(h)
                                  \/ \E actions \in Runs!ActionSets : Runs!Update(h, actions)
  PROVE  HookInv'
<1>0. /\ trigger \in [Triggers -> Triggered]
      /\ hook \in [Runs!Hooks -> [there : BOOLEAN, enabled : BOOLEAN, actions : Runs!ActionSets]]
  BY DEF HookInv, Listing
<1>1. ASSUME NEW t \in Triggers, Runs!Gone(t) PROVE HookInv'
  <2>1. UNCHANGED <<hook, chart, live, helm, row, lost>>
        /\ trigger' = [trigger EXCEPT ![t].gone = TRUE]
    BY <1>1 DEF Runs!Gone
  <2>2. [trigger[t] EXCEPT !.gone = TRUE] \in Triggered
    BY <1>0 DEF Triggered
  <2>3. /\ trigger' \in [Triggers -> Triggered]
        /\ \A s \in Triggers \ {t} : trigger'[s] = trigger[s]
        /\ trigger'[t].queue = trigger[t].queue /\ trigger'[t].ran = trigger[t].ran
        /\ trigger'[t].listed = trigger[t].listed /\ trigger'[t].quiet = trigger[t].quiet
        /\ trigger'[t].step = trigger[t].step
    BY <1>0, <2>1, <2>2 DEF Triggered
  <2>4. Listing' /\ Goes(t)
    BY <2>1, <2>3 DEF HookInv, Listing, Goes
  <2>5. Runs!Current(t)' = Runs!Current(t)
    BY <2>3 DEF Runs!Current
  <2>6. Queues(t) /\ Patches(t)
    BY DEF HookInv
  <2>7. Queues(t)' /\ Patches(t)'
    BY <2>1, <2>3, <2>5, <2>6 DEF Queues, Patches
  <2> QED
    BY <2>4, <2>7, OneGoes
<1>2. ASSUME NEW h \in Runs!Hooks,
             \/ Runs!SetEnabled(h) \/ Runs!Delete(h)
             \/ \E actions \in Runs!ActionSets : Runs!Update(h, actions)
      PROVE  HookInv'
  <2>1. UNCHANGED <<chart, live, helm, trigger, row, lost>>
    BY <1>2 DEF Runs!SetEnabled, Runs!Delete, Runs!Update, Runs!Edit
  <2>2. hook' \in [Runs!Hooks -> [there : BOOLEAN, enabled : BOOLEAN, actions : Runs!ActionSets]]
    <3>1. hook[h] \in [there : BOOLEAN, enabled : BOOLEAN, actions : Runs!ActionSets]
      BY <1>0
    <3>2. CASE Runs!SetEnabled(h)
      BY <1>0, <3>1, <3>2 DEF Runs!SetEnabled, Runs!Edit
    <3>3. CASE Runs!Delete(h)
      BY <1>0, <3>1, <3>3 DEF Runs!Delete, Runs!Edit
    <3>4. ASSUME NEW actions \in Runs!ActionSets, Runs!Update(h, actions)
          PROVE  hook' \in [Runs!Hooks -> [there : BOOLEAN, enabled : BOOLEAN,
                                          actions : Runs!ActionSets]]
      BY <1>0, <3>1, <3>4 DEF Runs!Update, Runs!Edit
    <3> QED
      BY <1>2, <3>2, <3>3, <3>4
  <2> QED
    BY <2>1, <2>2, EditsLeaveRuns
<1> QED
  BY <1>1, <1>2

(* The process dies: what was listed and has no end is lost.               *)
LEMMA RestartStep == ASSUME HookInv, Runs!Named, Runs!Restart PROVE HookInv'
<1>0. /\ trigger \in [Triggers -> Triggered] /\ lost \in SUBSET (Triggers \X Runs!Hooks)
      /\ hook \in [Runs!Hooks -> [there : BOOLEAN, enabled : BOOLEAN, actions : Runs!ActionSets]]
      /\ helm \in Triggers \cup {"deployed", "failed"}
  BY DEF HookInv, Listing
<1>1. /\ UNCHANGED <<chart, live, row>> /\ helm' = IF helm \in Triggers THEN "failed" ELSE helm
      /\ trigger' = [t \in Triggers |->
                       IF trigger[t].step = "idle" THEN trigger[t]
                       ELSE [trigger[t] EXCEPT !.step = "over", !.queue = {}, !.ran = <<>>]]
  BY DEF Runs!Restart, Runs!At
<1>2. hook' \in [Runs!Hooks -> [there : BOOLEAN, enabled : BOOLEAN, actions : Runs!ActionSets]]
  BY <1>0 DEF Runs!Restart, Runs!ActionSets
<1>3. /\ lost \subseteq lost' /\ lost' \in SUBSET (Triggers \X Runs!Hooks)
      /\ \A t \in Triggers, h \in Runs!Hooks :
            trigger[t].step # "over" /\ h \in trigger[t].listed /\ row[t][h] \in {"none", "running"}
            => <<t, h>> \in lost'
  BY <1>0 DEF Runs!Restart
<1>4. ASSUME NEW t \in Triggers
      PROVE  /\ trigger'[t] \in Triggered /\ trigger'[t].listed = trigger[t].listed
             /\ trigger'[t].queue = {} /\ trigger'[t].ran = <<>>
             /\ trigger'[t].step = IF trigger[t].step = "idle" THEN "idle" ELSE "over"
             /\ trigger'[t].quiet = trigger[t].quiet
  <2>1. trigger[t] \in Triggered /\ Queues(t) /\ Patches(t)
    BY DEF HookInv, Listing
  <2>2. CASE trigger[t].step = "idle"
    BY <1>1, <2>1, <2>2 DEF Queues, Patches
  <2>3. CASE trigger[t].step # "idle"
    <3>1. [trigger[t] EXCEPT !.step = "over", !.queue = {}, !.ran = <<>>] \in Triggered
      <4>1. {} \in SUBSET Queued /\ <<>> \in Seq(Results) /\ "over" \in Phases
        BY DEF Phases
      <4>2. [trigger[t] EXCEPT !.queue = {}, !.ran = <<>>, !.step = "over"] \in Triggered
        BY <2>1, <4>1, TriggerSteps
      <4>3. [trigger[t] EXCEPT !.step = "over", !.queue = {}, !.ran = <<>>]
            = [trigger[t] EXCEPT !.queue = {}, !.ran = <<>>, !.step = "over"]
        BY <2>1 DEF Triggered
      <4> QED
        BY <4>2, <4>3
    <3> QED
      BY <1>1, <2>1, <2>3, <3>1 DEF Triggered
  <2> QED
    BY <2>2, <2>3
<1>5. ASSUME NEW t \in Triggers PROVE Queues(t)' /\ Patches(t)'
  <2>1. Queues(t) /\ Patches(t) /\ trigger[t].listed \subseteq Runs!Hooks
    BY DEF HookInv, Listing, Triggered
  <2>2. Queues(t)'
    <3>1. \A h \in trigger[t].listed : row[t][h] \notin {"none", "running"} \/ <<t, h>> \in lost'
      <4> SUFFICES ASSUME NEW h \in trigger[t].listed, row[t][h] \in {"none", "running"}
                   PROVE  <<t, h>> \in lost'
        OBVIOUS
      <4>1. CASE trigger[t].step = "over"
        BY <1>3, <2>1, <4>1 DEF Queues
      <4>2. CASE trigger[t].step # "over"
        BY <1>3, <2>1, <4>2
      <4> QED
        BY <4>1, <4>2
    <3>2. /\ trigger'[t].step \in {"idle", "over"} /\ trigger'[t].queue = {}
          /\ trigger'[t].step = "idle" => trigger'[t].listed = {}
          /\ trigger'[t].listed = trigger[t].listed
      BY <1>4, <2>1 DEF Queues
    <3>3. \A h \in Runs!Hooks \ trigger[t].listed : row[t][h] = "none"
      BY <2>1 DEF Queues
    <3>4. row' = row
      BY <1>1
    <3> QED
      BY <3>1, <3>2, <3>3, <3>4 DEF Queues
  <2>3. Patches(t)'
    <3>1. trigger'[t].step \notin {"helm", "list", "insert", "judge", "act", "close"}
      BY <1>4
    <3>2. helm' \in Triggers => FALSE
      BY <1>0, <1>1 DEF Runs!Named
    <3>3. row'[t] = row[t] /\ live' = live
      BY <1>1
    <3> QED
      BY <1>4, <2>1, <3>1, <3>2, <3>3 DEF Patches
  <2> QED
    BY <2>2, <2>3
<1>6. Listing' /\ InEffect'
  <2>1. trigger' \in [Triggers -> Triggered]
    BY <1>1, <1>4
  <2> QED
    BY <1>0, <1>1, <1>2, <1>3, <2>1 DEF HookInv, Listing, InEffect
<1> QED
  BY <1>5, <1>6 DEF HookInv

(* A trigger runs every hook it listed, and a success or a skip that was   *)
(* recorded is in the objects until Helm takes them again: RunTrigger.     *)
THEOREM HooksAreHeld ==
    ASSUME Runs!Named PROVE Runs!Spec => []Runs!HooksHold
<1>1. Runs!Init => HookInv
  <2> SUFFICES ASSUME Runs!Init PROVE HookInv
    OBVIOUS
  <2>1. /\ trigger = [t \in Triggers |-> Runs!Waiting] /\ Runs!Waiting \in Triggered
    BY WaitingIs DEF Runs!Init, Triggered, Phases, Runs!Kinds
  <2>2. Listing /\ InEffect
    BY <2>1 DEF Runs!Init, Listing, InEffect, Runs!Hooks, Runs!ActionSets, Runs!Statuses
  <2>3. ASSUME NEW t \in Triggers PROVE Queues(t) /\ Patches(t)
    BY <2>1, WaitingIs DEF Runs!Init, Queues, Patches, Runs!Named
  <2> QED
    BY <2>2, <2>3 DEF HookInv
<1>2. HookInv /\ [Runs!Next]_Runs!vars => HookInv'
  <2> SUFFICES ASSUME HookInv, [Runs!Next]_Runs!vars PROVE HookInv'
    OBVIOUS
  <2>1. CASE UNCHANGED Runs!vars
    BY <2>1, EditsLeaveRuns DEF Runs!vars, HookInv, Listing
  <2> QED
    BY <2>1, HelmStep, ListStep, RunHookByIDStep, RunStep, EditStep, RestartStep DEF Runs!Next
<1>3. HookInv => Runs!HooksHold
  BY DEF HookInv, Listing, Queues, Patches, Runs!HooksHold, Runs!At
<1> QED
  BY <1>1, <1>2, <1>3, PTL DEF Runs!Spec

---------------------------------------------------------------------------
(* Induction over the numbers, in the form the provers can use: a set of    *)
(* numbers has a least element, as the intervals below it are finite sets.  *)
LEMMA Least ==
  ASSUME NEW S, S \subseteq Nat, S # {}
  PROVE  \E m \in S : \A k \in S : m <= k
<1> DEFINE T == {0..n : n \in S}
<1>1. T \subseteq FiniteSubsetsOf(Nat) /\ T # {}
  <2>1. ASSUME NEW n \in S PROVE 0..n \in FiniteSubsetsOf(Nat)
    <3>1. IsFiniteSet(0..n)
      BY FS_Interval
    <3> QED
      BY <3>1 DEF FiniteSubsetsOf
  <2> QED
    BY <2>1
<1>2. PICK x \in T : \A y \in T : <<y, x>> \notin StrictSubsetOrdering(Nat)
  BY <1>1, FS_StrictSubsetOrderingWellFounded, WFMin
<1>3. PICK m \in S : x = 0..m
  BY <1>2
<1>4. ASSUME NEW k \in S, k < m PROVE FALSE
  <2>1. <<0..k, x>> \in StrictSubsetOrdering(Nat)
    BY <1>3, <1>4 DEF StrictSubsetOrdering
  <2> QED
    BY <1>2, <2>1
<1> QED
  BY <1>4

(* A set of numbers with zero and every successor has them all.             *)
LEMMA Inductive ==
  ASSUME NEW S, S \subseteq Nat, 0 \in S, \A n \in S : n + 1 \in S
  PROVE  S = Nat
<1> SUFFICES ASSUME Nat \ S # {} PROVE FALSE
  OBVIOUS
<1>1. PICK m \in Nat \ S : \A k \in Nat \ S : m <= k
  BY Least
<1>2. m - 1 \in Nat /\ m - 1 \notin Nat \ S
  BY <1>1
<1> QED
  BY <1>1, <1>2

(* What is defined from one step to the next is defined.                    *)
LEMMA Iterates ==
  ASSUME NEW D, NEW base \in D, NEW n \in Nat, NEW next \in [1..n -> [D -> D]]
  PROVE  \E g \in [0..n -> D] : g[0] = base /\ \A i \in 1..n : g[i] = next[i][g[i - 1]]
<1> DEFINE Upto(g, k) == g \in [0..k -> D] /\ g[0] = base
                         /\ \A i \in 1..k : g[i] = next[i][g[i - 1]]
           S == {k \in Nat : k <= n => \E g : Upto(g, k)}
<1>1. 0 \in S
  <2>1. Upto([i \in 0..0 |-> base], 0)
    OBVIOUS
  <2> QED
    BY <2>1
<1>2. ASSUME NEW k \in S PROVE k + 1 \in S
  <2> SUFFICES ASSUME k + 1 <= n PROVE \E g : Upto(g, k + 1)
    OBVIOUS
  <2>1. PICK g : Upto(g, k)
    BY <1>2
  <2> DEFINE h == [i \in 0..(k + 1) |-> IF i = k + 1 THEN next[k + 1][g[k]] ELSE g[i]]
  <2>2. g[k] \in D /\ k + 1 \in 1..n
    BY <2>1
  <2>3. next[k + 1][g[k]] \in D
    BY <2>2
  <2>4. h \in [0..(k + 1) -> D] /\ h[0] = base
    BY <2>1, <2>3
  <2>5. ASSUME NEW i \in 1..(k + 1) PROVE h[i] = next[i][h[i - 1]]
    <3>1. CASE i = k + 1
      BY <3>1
    <3>2. CASE i \in 1..k
      BY <2>1, <3>2
    <3> QED
      BY <3>1, <3>2
  <2>6. Upto(h, k + 1)
    BY <2>4, <2>5
  <2> QED
    BY <2>6
<1> HIDE DEF S
<1>3. S = Nat
  <2>1. S \subseteq Nat
    BY DEF S
  <2> QED
    BY <1>1, <1>2, <2>1, Inductive
<1> QED
  BY <1>3 DEF S

-----------------------------------------------------------------------------
(* The histories: readings in the order they were taken.                   *)
Reading == [count : [Counters -> Nat], ever : [Counters -> Nat], life : Nat]

(* What one reading, or the process itself, says of another taken before:  *)
(* the counters of one life grew by what happened, those of a later life   *)
(* count no more than happened since.                                      *)
Before(a, b) ==
    /\ a.life <= b.life
    /\ \A c \in Counters : a.ever[c] <= b.ever[c]
    /\ a.life = b.life => \A c \in Counters : b.count[c] - a.count[c] = b.ever[c] - a.ever[c]
    /\ a.life < b.life => \A c \in Counters : b.count[c] <= b.ever[c] - a.ever[c]

(* A reading, and the process it was taken of.                             *)
Taken == [seen : [Counters -> Nat], start : Nat, of : Reading]

Counts == [d : [Counters -> Int], reading : Taken, from : Taken]

(* Nothing that is counted in one row is counted in a later one.           *)
Follows(r, n) == \A c \in Counters : r.reading.of.ever[c] <= n.from.of.ever[c]

IsGood(r) == Past!CountsAreTrue(r) /\ \A c \in Counters : r.from.of.ever[c] <= r.reading.of.ever[c]

SourceCounts == source \in Reading

RowsChain ==
    /\ rows \in Seq(Counts)
    /\ \A i \in 1..Len(rows) : Before(rows[i].reading.of, source) /\ IsGood(rows[i])
    /\ \A i, j \in 1..Len(rows) : i < j => Follows(rows[i], rows[j])

Sampled ==
    /\ sampler.at \in {"idle", "read", "record"}
    /\ sampler.at # "idle" =>
         /\ sampler.reading \in Taken /\ Before(sampler.reading.of, source)
         /\ \A i \in 1..Len(rows) : Before(rows[i].reading.of, sampler.reading.of)
    /\ sampler.at = "record" =>
         /\ sampler.row \in Counts /\ sampler.row.reading = sampler.reading
         /\ IsGood(sampler.row)
         /\ \A i \in 1..Len(rows) : Follows(rows[i], sampler.row)

Remembered ==
    /\ which = "calls" => memory = None
    /\ memory # None =>
         /\ memory \in Taken /\ Before(memory.of, source)
         /\ sampler.at = "read" => Before(memory.of, sampler.reading.of)
         /\ sampler.at = "record" => memory = sampler.reading
         /\ \A i \in 1..Len(rows) : \A c \in Counters : rows[i].reading.of.ever[c] <= memory.of.ever[c]

CountInv == SourceCounts /\ RowsChain /\ Sampled /\ Remembered

(* A reading is before itself.                                             *)
LEMMA BeforeItself == ASSUME NEW a \in Reading PROVE Before(a, a)
BY DEF Before, Reading

(* Readings are in one order.                                              *)
LEMMA BeforeAll ==
  ASSUME NEW a \in Reading, NEW b \in Reading, NEW c \in Reading, Before(a, b), Before(b, c)
  PROVE  Before(a, c)
<1>1. a.life <= c.life
  BY DEF Before, Reading
<1>2. ASSUME NEW x \in Counters PROVE a.ever[x] <= c.ever[x]
  BY DEF Before, Reading
<1>3. ASSUME a.life = c.life, NEW x \in Counters
      PROVE  c.count[x] - a.count[x] = c.ever[x] - a.ever[x]
  <2>1. a.life = b.life /\ b.life = c.life
    BY <1>3 DEF Before, Reading
  <2>2. /\ a.count[x] \in Nat /\ b.count[x] \in Nat /\ c.count[x] \in Nat
        /\ a.ever[x] \in Nat /\ b.ever[x] \in Nat /\ c.ever[x] \in Nat
    BY <1>3 DEF Reading
  <2>3. b.count[x] - a.count[x] = b.ever[x] - a.ever[x]
    BY <1>3, <2>1 DEF Before
  <2>4. c.count[x] - b.count[x] = c.ever[x] - b.ever[x]
    BY <1>3, <2>1 DEF Before
  <2> QED
    BY <2>2, <2>3, <2>4
<1>4. ASSUME a.life < c.life, NEW x \in Counters PROVE c.count[x] <= c.ever[x] - a.ever[x]
  <2>1. CASE b.life < c.life
    BY <2>1 DEF Before, Reading
  <2>2. CASE b.life = c.life
    <3>1. a.life < b.life
      BY <1>4, <2>2
    <3> QED
      BY <2>2, <3>1 DEF Before, Reading
  <2>3. b.life <= c.life /\ b.life \in Nat /\ c.life \in Nat
    BY DEF Before, Reading
  <2> QED
    BY <2>1, <2>2, <2>3
<1> QED
  BY <1>1, <1>2, <1>3, <1>4 DEF Before

(* The process counts, and starts again: it stays after every reading.     *)
LEMMA SourceGoesOn ==
  ASSUME SourceCounts, Past!Happens \/ Past!SourceStarts, NEW a \in Reading, Before(a, source)
  PROVE  SourceCounts' /\ Before(a, source')
<1>1. CASE Past!Happens
  <2>1. PICK e \in Counters : source' = [source EXCEPT !.count[e] = @ + 1, !.ever[e] = @ + 1]
    BY <1>1 DEF Past!Happens
  <2> DEFINE plus(f) == [f EXCEPT ![e] = f[e] + 1]
  <2>5. /\ plus(source.count) \in [Counters -> Nat] /\ plus(source.ever) \in [Counters -> Nat]
        /\ source.life \in Nat
        /\ source = [count |-> source.count, ever |-> source.ever, life |-> source.life]
    BY DEF SourceCounts, Reading
  <2>6. source' = [count |-> plus(source.count), ever |-> plus(source.ever), life |-> source.life]
    BY <2>1, <2>5
  <2>2. /\ source' \in Reading /\ source'.life = source.life
        /\ \A x \in Counters : x # e => source'.count[x] = source.count[x] /\ source'.ever[x] = source.ever[x]
        /\ source'.count[e] = source.count[e] + 1 /\ source'.ever[e] = source.ever[e] + 1
    BY <2>5, <2>6 DEF SourceCounts, Reading
  <2>3. \A x \in Counters : source.count[x] \in Nat /\ source.ever[x] \in Nat /\ a.ever[x] \in Nat /\ a.count[x] \in Nat
    BY DEF SourceCounts, Reading
  <2>4. SourceCounts'
    BY <2>2, <2>3 DEF SourceCounts
  <2> QED
    BY <2>2, <2>3, <2>4 DEF Before
<1>2. CASE Past!SourceStarts
  <2>1. source' = [source EXCEPT !.count = Past!Zero, !.life = @ + 1]
    BY <1>2 DEF Past!SourceStarts
  <2>6. /\ Past!Zero \in [Counters -> Nat] /\ \A x \in Counters : Past!Zero[x] = 0
    BY DEF Past!Zero
  <2>7. /\ source.life \in Nat /\ source.ever \in [Counters -> Nat]
        /\ source = [count |-> source.count, ever |-> source.ever, life |-> source.life]
    BY DEF SourceCounts, Reading
  <2>8. source' = [count |-> Past!Zero, ever |-> source.ever, life |-> source.life + 1]
    BY <2>1, <2>7
  <2>2. /\ source' \in Reading /\ source'.life = source.life + 1 /\ source'.ever = source.ever
        /\ \A x \in Counters : source'.count[x] = 0
    BY <2>6, <2>7, <2>8 DEF Reading
  <2>3. \A x \in Counters : source.count[x] \in Nat /\ source.ever[x] \in Nat /\ a.ever[x] \in Nat /\ a.count[x] \in Nat
    BY DEF SourceCounts, Reading
  <2>4. SourceCounts'
    BY <2>2, <2>3 DEF SourceCounts
  <2>5. a.life \in Nat /\ source.life \in Nat
    BY DEF SourceCounts, Reading
  <2> QED
    BY <2>2, <2>3, <2>4, <2>5 DEF Before
<1> QED
  BY <1>1, <1>2

(* A row made of a reading and the one before it counts what happened since *)
(* at most, and all of it when they are of one life, unless one of them    *)
(* lacked a counter; it never counts backwards (NewSample, Between).       *)
LEMMA NewRow ==
  ASSUME NEW a \in Taken, NEW b \in Taken, Before(a.of, b.of), which # "synapse", a # None
  PROVE  LET n == Past!NewSample(a, b)
         IN  n \in Counts /\ IsGood(n) /\ n.reading = b /\ n.from = a
<1> DEFINE n == Past!NewSample(a, b)
<1>1. \A x \in Counters : /\ a.seen[x] \in Nat /\ b.seen[x] \in Nat
                          /\ a.of.ever[x] \in Nat /\ b.of.ever[x] \in Nat
  BY DEF Taken, Reading
<1>2. a.of.life \in Nat /\ b.of.life \in Nat
  BY DEF Taken, Reading
<1>7. \A x \in Counters : a.of.ever[x] <= b.of.ever[x]
  BY DEF Before
<1>3. CASE Past!Restarted(a, b)
  <2>1. n = [d |-> b.seen, reading |-> b, from |-> a]
    BY <1>3 DEF Past!NewSample, Past!Row
  <2>3. n \in Counts /\ n.reading = b /\ n.from = a
    BY <2>1 DEF Counts, Taken
  <2>2. ASSUME Past!Complete(n)
        PROVE  a.of.life < b.of.life
    <3>1. PICK x \in Counters : b.seen[x] < a.seen[x]
      BY <1>3 DEF Past!Restarted
    <3> SUFFICES ASSUME a.of.life = b.of.life PROVE FALSE
      BY <1>2 DEF Before
    <3>2. a.seen = a.of.count /\ b.seen = b.of.count
      BY <2>2, <2>3 DEF Past!Complete, Past!Whole
    <3>3. b.seen[x] - a.seen[x] = b.of.ever[x] - a.of.ever[x]
      BY <3>2 DEF Before
    <3> QED
      BY <1>1, <1>7, <3>1, <3>3
  <2>4. ASSUME Past!Complete(n)
        PROVE  \A x \in Counters : b.seen[x] <= b.of.ever[x] - a.of.ever[x]
    <3>1. b.seen = b.of.count
      BY <2>3, <2>4 DEF Past!Complete, Past!Whole
    <3> QED
      BY <2>2, <2>4, <3>1 DEF Before
  <2>5. Past!CountsAreTrue(n)
    BY <1>1, <1>2, <2>1, <2>2, <2>4 DEF Past!CountsAreTrue, Past!Minus
  <2>6. IsGood(n)
    BY <1>7, <2>3, <2>5 DEF IsGood
  <2> QED
    BY <2>3, <2>6
<1>4. CASE ~Past!Restarted(a, b)
  <2>1. n = [d |-> [x \in Counters |-> b.seen[x] - a.seen[x]], reading |-> b, from |-> a]
    BY <1>4 DEF Past!NewSample, Past!Row, Past!Minus
  <2>2. \A x \in Counters : a.seen[x] <= b.seen[x]
    BY <1>1, <1>4 DEF Past!Restarted
  <2>3. n \in Counts /\ n.reading = b /\ n.from = a
    BY <1>1, <2>1 DEF Counts
  <2>4. ASSUME Past!Complete(n)
        PROVE  /\ \A x \in Counters : b.seen[x] - a.seen[x] <= b.of.ever[x] - a.of.ever[x]
               /\ a.of.life = b.of.life =>
                    \A x \in Counters : b.seen[x] - a.seen[x] = b.of.ever[x] - a.of.ever[x]
    <3>1. a.seen = a.of.count /\ b.seen = b.of.count
      BY <2>3, <2>4 DEF Past!Complete, Past!Whole
    <3> QED
      BY <1>1, <1>2, <2>2, <3>1 DEF Before
  <2>5. Past!CountsAreTrue(n)
    BY <1>1, <2>1, <2>2, <2>4 DEF Past!CountsAreTrue, Past!Minus
  <2>6. IsGood(n)
    BY <1>7, <2>3, <2>5 DEF IsGood
  <2> QED
    BY <2>3, <2>6
<1> QED
  BY <1>3, <1>4

(* The first reading counts nothing.                                       *)
LEMMA FirstRow ==
  ASSUME NEW b \in Taken, which # "synapse"
  PROVE  LET n == Past!NewSample(None, b)
         IN  n \in Counts /\ IsGood(n) /\ n.reading = b /\ n.from = b
<1> DEFINE n == Past!NewSample(None, b)
<1>1. \A x \in Counters : b.of.ever[x] \in Nat
  BY DEF Taken, Reading
<1>2. n = [d |-> [x \in Counters |-> 0], reading |-> b, from |-> b]
  BY DEF Past!NewSample, Past!Row, Past!Zero
<1>3. n \in Counts
  BY <1>2 DEF Counts
<1>4. IsGood(n)
  BY <1>1, <1>2 DEF IsGood, Past!CountsAreTrue, Past!Minus
<1> QED
  BY <1>2, <1>3, <1>4

(* A row of Synapse is of one life, unless the start was not said.         *)
LEMMA PairRow ==
  ASSUME NEW a \in Taken, NEW b \in Taken, Before(a.of, b.of), a # None, Past!Between(a, b) # None
  PROVE  LET n == Past!Between(a, b)
         IN  n \in Counts /\ IsGood(n) /\ n.reading = b /\ n.from = a
<1> DEFINE n == Past!Between(a, b)
           e == [x \in Counters |-> IF a.seen[x] < b.seen[x] THEN b.seen[x] - a.seen[x] ELSE 0]
<1>1. \A x \in Counters : /\ a.seen[x] \in Nat /\ b.seen[x] \in Nat
                          /\ a.of.ever[x] \in Nat /\ b.of.ever[x] \in Nat
  BY DEF Taken, Reading
<1>2. n = [d |-> e, reading |-> b, from |-> a] /\ a.start = b.start
  BY DEF Past!Between, Past!Row
<1>3. \A x \in Counters : a.of.ever[x] <= b.of.ever[x]
  BY DEF Before
<1>4. e \in [Counters -> Nat]
  BY <1>1
<1>5. n \in Counts /\ n.reading = b /\ n.from = a
  BY <1>2, <1>4 DEF Counts
<1>6. ASSUME Past!Complete(n)
      PROVE  a.of.life = b.of.life /\ \A x \in Counters : e[x] = b.of.ever[x] - a.of.ever[x]
  <2>1. /\ a.seen = a.of.count /\ b.seen = b.of.count
        /\ a.start = a.of.life /\ b.start = b.of.life
    BY <1>5, <1>6 DEF Past!Complete, Past!Whole
  <2>2. \A x \in Counters : b.seen[x] - a.seen[x] = b.of.ever[x] - a.of.ever[x]
    BY <1>2, <2>1 DEF Before
  <2>3. ASSUME NEW x \in Counters PROVE e[x] = b.of.ever[x] - a.of.ever[x]
    <3>1. a.of.ever[x] <= b.of.ever[x] /\ b.seen[x] - a.seen[x] = b.of.ever[x] - a.of.ever[x]
      BY <1>3, <2>2
    <3>2. /\ a.seen[x] \in Nat /\ b.seen[x] \in Nat
          /\ a.of.ever[x] \in Nat /\ b.of.ever[x] \in Nat
      BY <1>1
    <3>3. e[x] = IF a.seen[x] < b.seen[x] THEN b.seen[x] - a.seen[x] ELSE 0
      OBVIOUS
    <3> HIDE DEF e
    <3> QED
      BY <3>1, <3>2, <3>3
  <2> QED
    BY <1>2, <2>1, <2>3
<1> HIDE DEF e
<1>7. e = [x \in Counters |-> e[x]]
  BY <1>4
<1>8. Past!CountsAreTrue(n)
  <2>1. \A x \in Counters : n.d[x] >= 0
    BY <1>2, <1>4
  <2>2. ASSUME Past!Complete(n)
        PROVE  n.d = Past!Minus(n.reading.of.ever, n.from.of.ever)
    BY <1>2, <1>6, <1>7, <2>2 DEF Past!Minus
  <2>3. ASSUME Past!Complete(n), NEW x \in Counters
        PROVE  n.d[x] <= Past!Minus(n.reading.of.ever, n.from.of.ever)[x]
    BY <1>1, <1>2, <1>4, <2>2, <2>3
  <2> QED
    BY <1>2, <1>6, <2>1, <2>2, <2>3 DEF Past!CountsAreTrue
<1>9. IsGood(n)
  BY <1>3, <1>5, <1>8 DEF IsGood
<1> QED
  BY <1>5, <1>9

(* The newest row has everything that is counted in those before it.       *)
LEMMA NewestHasAll ==
  ASSUME RowsChain, rows # <<>>
  PROVE  /\ rows[Len(rows)].reading \in Taken
         /\ \A i \in 1..Len(rows) : \A c \in Counters :
               rows[i].reading.of.ever[c] <= rows[Len(rows)].reading.of.ever[c]
<1>1. Len(rows) \in 1..Len(rows)
  BY DEF RowsChain
<1>2. \A i \in 1..Len(rows) : rows[i] \in Counts
  BY DEF RowsChain
<1> DEFINE last == rows[Len(rows)]
<1>3. last \in Counts /\ IsGood(last)
  BY <1>1, <1>2 DEF RowsChain
<1>4. ASSUME NEW i \in 1..Len(rows), i # Len(rows), NEW c \in Counters
      PROVE  rows[i].reading.of.ever[c] <= last.reading.of.ever[c]
  <2>1. rows[i].reading.of.ever[c] <= last.from.of.ever[c]
    BY <1>1, <1>4 DEF RowsChain, Follows
  <2>2. last.from.of.ever[c] <= last.reading.of.ever[c]
    BY <1>3 DEF IsGood
  <2>3. /\ rows[i].reading.of.ever[c] \in Nat /\ last.from.of.ever[c] \in Nat
        /\ last.reading.of.ever[c] \in Nat
    BY <1>2, <1>3 DEF Counts, Taken, Reading
  <2> QED
    BY <2>1, <2>2, <2>3
<1>5. last.reading \in Taken /\ \A c \in Counters : last.reading.of.ever[c] <= last.reading.of.ever[c]
  BY <1>3 DEF Counts, Taken, Reading
<1> QED
  BY <1>4, <1>5

(* The process goes on: nothing that was read or recorded is disturbed.    *)
LEMMA CountGoesOn ==
  ASSUME CountInv, Past!Happens \/ Past!SourceStarts
  PROVE  CountInv'
<1>1. UNCHANGED <<which, memory, sampler, rows>>
  BY DEF Past!Happens, Past!SourceStarts, Past!addresses
<1>2. \A a \in Reading : Before(a, source) => SourceCounts' /\ Before(a, source')
  BY SourceGoesOn DEF CountInv
<1>3. SourceCounts'
  BY <1>2, BeforeItself DEF CountInv, SourceCounts
<1>4. ASSUME NEW i \in 1..Len(rows) PROVE rows[i] \in Counts /\ rows[i].reading.of \in Reading
  <2>1. rows[i] \in Counts
    BY DEF CountInv, RowsChain
  <2> QED
    BY <2>1 DEF Counts, Taken
<1>5. RowsChain'
  BY <1>1, <1>2, <1>4 DEF CountInv, RowsChain, IsGood, Past!CountsAreTrue
<1>6. Sampled'
  BY <1>1, <1>2 DEF CountInv, Sampled, Taken, IsGood, Past!CountsAreTrue
<1>7. Remembered'
  BY <1>1, <1>2 DEF CountInv, Remembered, Taken
<1> QED
  BY <1>3, <1>5, <1>6, <1>7 DEF CountInv

(* What may be read of the process.                                        *)
Readings == {Past!Reading(P, s) : P \in SUBSET Counters, s \in {source.life, 0}}

(* That is a reading of it.                                                *)
LEMMA ReadingTaken ==
  ASSUME SourceCounts, NEW r \in Readings
  PROVE  r \in Taken /\ r.of = source
<1>1. PICK P \in SUBSET Counters, s \in {source.life, 0} : r = Past!Reading(P, s)
  BY DEF Readings
<1> DEFINE seen == [c \in Counters |-> IF c \in P THEN source.count[c] ELSE 0]
<1>2. seen \in [Counters -> Nat] /\ s \in Nat
  BY DEF SourceCounts, Reading
<1>3. r = [seen |-> seen, start |-> s, of |-> source]
  BY <1>1 DEF Past!Reading
<1> QED
  BY <1>2, <1>3 DEF Taken, SourceCounts

(* The process is read, or nothing of it is.                               *)
LEMMA OneReading ==
  ASSUME Past!ReadSFU \/ Past!ReadSynapse
  PROVE  /\ UNCHANGED <<which, source, memory, rows, recorder>> /\ sampler.at = "idle"
         /\ \/ UNCHANGED sampler
            \/ \E r \in Readings : sampler' = [Past!NoSample EXCEPT !.at = "read", !.reading = r]
<1>1. CASE Past!ReadSFU
  <2>1. \A P \in SUBSET Counters : Past!Reading(P, source.life) \in Readings
    BY DEF Readings
  <2>2. UNCHANGED <<which, source, memory, rows, recorder>> /\ sampler.at = "idle"
    BY <1>1 DEF Past!ReadSFU, Past!Read, Past!addresses
  <2>3. \/ UNCHANGED sampler
        \/ \E P \in SUBSET Counters :
              sampler' = [Past!NoSample EXCEPT !.at = "read", !.reading = Past!Reading(P, source.life)]
    BY <1>1 DEF Past!ReadSFU, Past!Read
  <2> QED
    BY <2>1, <2>2, <2>3
<1>2. CASE Past!ReadSynapse
  <2>2. UNCHANGED <<which, source, memory, rows, recorder>> /\ sampler.at = "idle"
    BY <1>2 DEF Past!ReadSynapse, Past!Read, Past!addresses
  <2>3. \/ UNCHANGED sampler
        \/ \E r \in Readings : sampler' = [Past!NoSample EXCEPT !.at = "read", !.reading = r]
    <3> DEFINE R == {r \in {Past!Reading(P, s) : P \in SUBSET Counters, s \in {source.life, 0}} :
                       r.seen[CPU] # 0 \/ r.start # 0}
    <3>1. \A r \in R : r \in Readings
      BY DEF Readings
    <3>2. Past!Read("synapse", R)
      BY <1>2 DEF Past!ReadSynapse
    <3> HIDE DEF R
    <3>3. \/ UNCHANGED sampler
          \/ \E r \in R : sampler' = [Past!NoSample EXCEPT !.at = "read", !.reading = r]
      BY <3>2 DEF Past!Read
    <3> QED
      BY <3>1, <3>3
  <2> QED
    BY <2>2, <2>3
<1> QED
  BY <1>1, <1>2

(* The readings that were taken before stay before what the process is.    *)
LEMMA CountRead ==
  ASSUME CountInv, which # "address", Past!ReadSFU \/ Past!ReadSynapse
  PROVE  CountInv'
<1>1. UNCHANGED <<which, source, memory, rows>> /\ sampler.at = "idle"
  BY OneReading
<1>2. SourceCounts' /\ RowsChain'
  BY <1>1 DEF CountInv, SourceCounts, RowsChain, IsGood, Past!CountsAreTrue
<1>3. CASE sampler' = sampler
  BY <1>1, <1>2, <1>3 DEF CountInv, Sampled, Remembered
<1>4. ASSUME NEW r \in Readings, sampler' = [Past!NoSample EXCEPT !.at = "read", !.reading = r]
      PROVE  CountInv'
  <2>1. sampler'.at = "read" /\ sampler'.reading = r
    BY <1>4 DEF Past!NoSample
  <2>4. r \in Taken /\ r.of = source
    BY ReadingTaken DEF CountInv
  <2>2. Sampled'
    BY <1>1, <2>1, <2>4, BeforeItself DEF CountInv, Sampled, SourceCounts, RowsChain
  <2>3. Remembered'
    BY <1>1, <2>1, <2>4 DEF CountInv, Remembered
  <2> QED
    BY <1>2, <2>2, <2>3 DEF CountInv
<1> QED
  BY <1>3, <1>4, OneReading

(* The newest row is asked for, and a row made.                            *)
LEMMA CountPrevious ==
  ASSUME CountInv, Past!Previous
  PROVE  CountInv'
<1>1. UNCHANGED <<which, source, memory, rows>> /\ sampler.at = "read" /\ which = "calls"
  BY DEF Past!Previous
<1>2. SourceCounts' /\ RowsChain' /\ memory' = None
  BY <1>1 DEF CountInv, SourceCounts, RowsChain, IsGood, Past!CountsAreTrue, Remembered
<1>3. Remembered'
  BY <1>1, <1>2 DEF Remembered
<1>4. CASE sampler' = Past!NoSample
  BY <1>2, <1>3, <1>4 DEF CountInv, Sampled, Past!NoSample
<1>5. CASE sampler' # Past!NoSample
  <2> DEFINE prev == IF rows = <<>> THEN None ELSE Past!Last(rows).reading
             b == sampler.reading
  <2>1. sampler' = [sampler EXCEPT !.at = "record", !.row = Past!NewSample(prev, b)]
    BY <1>5 DEF Past!Previous
  <2>2. b \in Taken /\ Before(b.of, source) /\ \A i \in 1..Len(rows) : Before(rows[i].reading.of, b.of)
    BY <1>1 DEF CountInv, Sampled
  <2> DEFINE n == Past!NewSample(prev, b)
  <2>3. n \in Counts /\ IsGood(n) /\ n.reading = b /\ \A i \in 1..Len(rows) : Follows(rows[i], n)
    <3>1. CASE prev = None
      <4>1. n \in Counts /\ IsGood(n) /\ n.reading = b /\ n.from = b
        BY <1>1, <2>2, <3>1, FirstRow
      <4> QED
        BY <2>2, <4>1 DEF Follows, Before, Taken
    <3>2. CASE prev # None
      <4>1. rows # <<>> /\ prev = rows[Len(rows)].reading
        BY <3>2 DEF Past!Last
      <4>2. prev \in Taken /\ \A i \in 1..Len(rows) : \A c \in Counters : rows[i].reading.of.ever[c] <= prev.of.ever[c]
        BY <4>1, NewestHasAll DEF CountInv
      <4>3. Before(prev.of, b.of)
        <5>1. Len(rows) \in 1..Len(rows)
          BY <4>1 DEF CountInv, RowsChain
        <5> QED
          BY <2>2, <4>1, <5>1
      <4>4. n \in Counts /\ IsGood(n) /\ n.reading = b /\ n.from = prev
        BY <1>1, <2>2, <3>2, <4>2, <4>3, NewRow
      <4> QED
        BY <4>2, <4>4 DEF Follows
    <3> QED
      BY <3>1, <3>2
  <2> HIDE DEF n
  <2>4. sampler'.at = "record" /\ sampler'.reading = b /\ sampler'.row = n
    BY <1>4, <2>1 DEF n
  <2> QED
    BY <1>1, <1>2, <1>3, <2>2, <2>3, <2>4 DEF CountInv, Sampled, IsGood, Past!CountsAreTrue
<1> QED
  BY <1>4, <1>5

(* A reading of Synapse is compared with the one in memory.                *)
LEMMA CountPair ==
  ASSUME CountInv, Past!Pair
  PROVE  CountInv'
<1>1. UNCHANGED <<which, source, rows>> /\ sampler.at = "read" /\ memory' = sampler.reading
      /\ which = "synapse"
  BY DEF Past!Pair
<1>2. SourceCounts' /\ RowsChain'
  BY <1>1 DEF CountInv, SourceCounts, RowsChain, IsGood, Past!CountsAreTrue
<1> DEFINE b == sampler.reading
           n == IF memory = None THEN None ELSE Past!Between(memory, b)
<1>3. b \in Taken /\ Before(b.of, source) /\ \A i \in 1..Len(rows) : Before(rows[i].reading.of, b.of)
  BY <1>1 DEF CountInv, Sampled
<1>4. CASE n = None
  <2>1. sampler' = Past!NoSample
    BY <1>4 DEF Past!Pair
  <2>2. sampler'.at = "idle"
    BY <2>1 DEF Past!NoSample
  <2>3. Sampled'
    BY <2>2 DEF Sampled
  <2>4. Remembered'
    BY <1>1, <1>3, <2>2 DEF Remembered, Before
  <2> QED
    BY <1>2, <2>3, <2>4 DEF CountInv
<1>5. CASE n # None
  <2>1. sampler' = [sampler EXCEPT !.at = "record", !.row = n]
    BY <1>5 DEF Past!Pair
  <2>2. memory # None /\ n = Past!Between(memory, b)
    BY <1>5
  <2>3. /\ memory \in Taken /\ Before(memory.of, b.of)
        /\ \A i \in 1..Len(rows) : \A c \in Counters : rows[i].reading.of.ever[c] <= memory.of.ever[c]
    BY <1>1, <2>2 DEF CountInv, Remembered
  <2>4. n \in Counts /\ IsGood(n) /\ n.reading = b /\ n.from = memory
    BY <1>3, <1>5, <2>2, <2>3, PairRow
  <2>5. \A i \in 1..Len(rows) : Follows(rows[i], n)
    BY <2>3, <2>4 DEF Follows
  <2> HIDE DEF n
  <2>6. sampler'.at = "record" /\ sampler'.reading = b /\ sampler'.row = n
    BY <2>1
  <2>7. Sampled'
    BY <1>1, <1>3, <2>4, <2>5, <2>6 DEF Sampled, IsGood, Past!CountsAreTrue
  <2>8. Remembered'
    BY <1>1, <1>3, <2>6 DEF Remembered, Before
  <2> QED
    BY <1>2, <2>7, <2>8 DEF CountInv
<1> QED
  BY <1>4, <1>5

(* The row is written, or not.                                             *)
LEMMA CountRecord ==
  ASSUME CountInv, Past!Record
  PROVE  CountInv'
<1>1. UNCHANGED <<which, source, memory>> /\ sampler.at = "record" /\ sampler'.at = "idle"
  BY DEF Past!Record, Past!NoSample
<1>2. SourceCounts' /\ Sampled'
  BY <1>1 DEF CountInv, SourceCounts, Sampled
<1>3. CASE rows' = rows
  <2>1. RowsChain'
    BY <1>1, <1>3 DEF CountInv, RowsChain, IsGood, Past!CountsAreTrue
  <2>2. Remembered'
    BY <1>1, <1>3 DEF CountInv, Remembered
  <2> QED
    BY <1>2, <2>1, <2>2 DEF CountInv
<1>4. CASE rows' = Append(rows, sampler.row)
  <2> DEFINE n == sampler.row
  <2>1. /\ n \in Counts /\ IsGood(n) /\ n.reading = sampler.reading
        /\ Before(n.reading.of, source) /\ \A i \in 1..Len(rows) : Follows(rows[i], n)
    BY <1>1 DEF CountInv, Sampled
  <2>2. rows \in Seq(Counts)
    BY DEF CountInv, RowsChain
  <2> HIDE DEF n
  <2>3. /\ rows' \in Seq(Counts) /\ Len(rows') = Len(rows) + 1 /\ rows'[Len(rows) + 1] = n
        /\ \A i \in 1..Len(rows) : rows'[i] = rows[i]
    BY <1>4, <2>1, <2>2 DEF n
  <2>4. ASSUME NEW i \in 1..Len(rows') PROVE Before(rows'[i].reading.of, source) /\ IsGood(rows'[i])
    BY <2>1, <2>2, <2>3 DEF CountInv, RowsChain
  <2>5. ASSUME NEW i \in 1..Len(rows'), NEW j \in 1..Len(rows'), i < j
        PROVE  Follows(rows'[i], rows'[j])
    <3>1. i \in 1..Len(rows) /\ rows'[i] = rows[i] /\ Len(rows) \in Nat
      BY <2>2, <2>3, <2>5
    <3>2. CASE j = Len(rows) + 1
      BY <2>1, <2>3, <3>1, <3>2
    <3>3. CASE j \in 1..Len(rows)
      BY <2>3, <2>5, <3>1, <3>3 DEF CountInv, RowsChain
    <3> QED
      BY <2>3, <3>1, <3>2, <3>3
  <2>6. RowsChain'
    BY <1>1, <2>3, <2>4, <2>5 DEF RowsChain, IsGood, Past!CountsAreTrue
  <2>7. Remembered'
    <3>1. CASE memory = None
      BY <1>1, <3>1 DEF Remembered
    <3>2. CASE memory # None
      <4>1. memory = n.reading /\ memory \in Taken
        BY <1>1, <2>1, <3>2 DEF CountInv, Remembered
      <4>2. \A c \in Counters : memory.of.ever[c] <= memory.of.ever[c]
        BY <4>1 DEF Taken, Reading
      <4>3. \A i \in 1..Len(rows') : \A c \in Counters : rows'[i].reading.of.ever[c] <= memory.of.ever[c]
        BY <2>2, <2>3, <3>2, <4>1, <4>2 DEF CountInv, Remembered
      <4> QED
        BY <1>1, <3>2, <4>3 DEF CountInv, Remembered
    <3> QED
      BY <3>1, <3>2
  <2> QED
    BY <1>2, <2>6, <2>7 DEF CountInv
<1> QED
  BY <1>3, <1>4 DEF Past!Record

(* The oldest row goes.                                                    *)
LEMMA CountPrune ==
  ASSUME CountInv, Past!Prune
  PROVE  CountInv'
<1>1. UNCHANGED <<which, source, memory, sampler>> /\ rows # <<>> /\ rows' = Tail(rows)
  BY DEF Past!Prune, Past!counted
<1>2. rows \in Seq(Counts)
  BY DEF CountInv, RowsChain
<1>3. /\ rows' \in Seq(Counts) /\ Len(rows') = Len(rows) - 1
      /\ \A i \in 1..Len(rows') : i + 1 \in 1..Len(rows) /\ rows'[i] = rows[i + 1]
  BY <1>1, <1>2
<1>4. ASSUME NEW i \in 1..Len(rows'), NEW j \in 1..Len(rows'), i < j
      PROVE  Follows(rows'[i], rows'[j])
  <2>1. i + 1 < j + 1
    BY <1>4
  <2> QED
    BY <1>3, <2>1 DEF CountInv, RowsChain
<1>5. RowsChain'
  BY <1>1, <1>3, <1>4 DEF CountInv, RowsChain, IsGood, Past!CountsAreTrue
<1>6. Sampled'
  BY <1>1, <1>3 DEF CountInv, Sampled, IsGood, Past!CountsAreTrue
<1>7. Remembered'
  BY <1>1, <1>3 DEF CountInv, Remembered
<1>8. SourceCounts'
  BY <1>1 DEF CountInv, SourceCounts
<1> QED
  BY <1>5, <1>6, <1>7, <1>8 DEF CountInv

(* MatrixCtrl starts again.                                                *)
LEMMA CountRestart ==
  ASSUME CountInv, Past!Restart
  PROVE  CountInv'
<1>1. UNCHANGED <<which, source, rows>> /\ memory' = None /\ sampler'.at = "idle"
  BY DEF Past!Restart, Past!NoSample
<1> QED
  BY <1>1 DEF CountInv, SourceCounts, RowsChain, IsGood, Past!CountsAreTrue, Sampled, Remembered

(* The total of the first i rows is no more than what had happened when the *)
(* last of them was read.                                                  *)
LEMMA TotalIsBounded ==
  ASSUME CountInv, \A i \in 1..Len(rows) : Past!Complete(rows[i])
  PROVE  \A c \in Counters : Past!Sum[c] <= source.ever[c]
<1>1. rows \in Seq(Counts) /\ Len(rows) \in Nat
  BY DEF CountInv, RowsChain
<1> DEFINE D == [Counters -> Int]
           next == [i \in 1..Len(rows) |-> [t \in D |-> [c \in Counters |-> t[c] + rows[i].d[c]]]]
<1>2. \A i \in 1..Len(rows) : /\ rows[i].d \in D /\ rows[i].reading \in Taken /\ rows[i].from \in Taken
  <2>1. \A i \in 1..Len(rows) : rows[i] \in Counts
    BY <1>1
  <2> QED
    BY <2>1 DEF Counts
<1>3. Past!Zero \in D /\ next \in [1..Len(rows) -> [D -> D]]
  <2>1. Past!Zero \in D
    BY DEF Past!Zero
  <2>2. ASSUME NEW i \in 1..Len(rows), NEW t \in D PROVE [c \in Counters |-> t[c] + rows[i].d[c]] \in D
    BY <1>2
  <2> QED
    BY <2>1, <2>2
<1>4. PICK g \in [0..Len(rows) -> D] :
         g[0] = Past!Zero /\ \A i \in 1..Len(rows) : g[i] = next[i][g[i - 1]]
  <2> DEFINE n == Len(rows)
             base == Past!Zero
  <2>1. n \in Nat /\ base \in D /\ next \in [1..n -> [D -> D]]
    BY <1>1, <1>3
  <2> HIDE DEF D, next, n, base
  <2>2. \E g \in [0..n -> D] : g[0] = base /\ \A i \in 1..n : g[i] = next[i][g[i - 1]]
    BY <2>1, Iterates
  <2> QED
    BY <2>2 DEF n, base
<1> DEFINE Sums(h) == h = [i \in 0..Len(rows) |-> IF i = 0 THEN Past!Zero
                            ELSE [c \in Counters |-> h[i - 1][c] + rows[i].d[c]]]
<1>5. Sums(g)
  <2>1. ASSUME NEW i \in 1..Len(rows)
        PROVE  g[i] = [c \in Counters |-> g[i - 1][c] + rows[i].d[c]]
    <3>1. g[i - 1] \in D
      <4>1. i - 1 \in 0..Len(rows)
        BY <1>1
      <4> HIDE DEF D
      <4> QED
        BY <1>4, <4>1
    <3> QED
      BY <1>4, <3>1
  <2>2. \A i \in 0..Len(rows) : i = 0 \/ i \in 1..Len(rows)
    BY <1>1
  <2>3. g = [i \in 0..Len(rows) |-> g[i]] /\ g[0] = Past!Zero
    BY <1>4
  <2> QED
    BY <2>1, <2>2, <2>3
<1>6. Past!Added = CHOOSE h : Sums(h)
  BY DEF Past!Added
<1>7. Sums(Past!Added)
  <2> HIDE DEF Sums
  <2> QED
    BY <1>5, <1>6
<1> DEFINE a == Past!Added
<1>17. Sums(a)
  BY <1>7
<1> HIDE DEF a
<1>8. /\ a[0] = Past!Zero
      /\ \A i \in 1..Len(rows) : a[i] = [c \in Counters |-> a[i - 1][c] + rows[i].d[c]]
  <2> DEFINE rest(i) == [c \in Counters |-> a[i - 1][c] + rows[i].d[c]]
  <2>1. a = [i \in 0..Len(rows) |-> IF i = 0 THEN Past!Zero ELSE rest(i)]
    BY <1>17
  <2> HIDE DEF rest
  <2>2. a[0] = Past!Zero /\ \A i \in 1..Len(rows) : a[i] = rest(i)
    BY <1>1, <2>1
  <2> QED
    BY <2>2 DEF rest
<1> DEFINE T == {i \in Nat : i <= Len(rows) => a[i] \in D /\ \A c \in Counters :
                    (i = 0 => a[i][c] = 0) /\ (i # 0 => a[i][c] <= rows[i].reading.of.ever[c])}
<1>9. 0 \in T
  BY <1>8 DEF Past!Zero
<1>10. ASSUME NEW i \in T PROVE i + 1 \in T
  <2> SUFFICES ASSUME i + 1 <= Len(rows)
               PROVE  a[i + 1] \in D /\ \A c \in Counters : a[i + 1][c] <= rows[i + 1].reading.of.ever[c]
    OBVIOUS
  <2>1. i + 1 \in 1..Len(rows) /\ a[i] \in D
    BY <1>1
  <2>2. a[i + 1] = [c \in Counters |-> a[i][c] + rows[i + 1].d[c]]
    <3>1. (i + 1) - 1 = i
      OBVIOUS
    <3> HIDE DEF D, T
    <3> QED
      BY <1>8, <2>1, <3>1
  <2>3. a[i + 1] \in D
    BY <1>2, <2>1, <2>2
  <2>4. ASSUME NEW c \in Counters PROVE a[i + 1][c] <= rows[i + 1].reading.of.ever[c]
    <3> DEFINE n == rows[i + 1]
    <3>1. /\ n.d[c] \in Int /\ n.reading.of.ever[c] \in Nat /\ n.from.of.ever[c] \in Nat
          /\ a[i][c] \in Int /\ a[i + 1][c] = a[i][c] + n.d[c]
      BY <1>2, <2>1, <2>2 DEF Taken, Reading
    <3>2. IsGood(n) /\ Past!Complete(n)
      BY <2>1 DEF CountInv, RowsChain
    <3>3. n.d[c] <= n.reading.of.ever[c] - n.from.of.ever[c]
      BY <3>2 DEF IsGood, Past!CountsAreTrue, Past!Minus
    <3>4. a[i][c] <= n.from.of.ever[c]
      <4>1. CASE i = 0
        BY <1>1, <3>1, <4>1
      <4>2. CASE i # 0
        <5>1. i \in 1..Len(rows) /\ i < i + 1
          BY <1>1, <2>1, <4>2
        <5>2. Follows(rows[i], n)
          BY <2>1, <5>1 DEF CountInv, RowsChain
        <5>3. a[i][c] <= rows[i].reading.of.ever[c] /\ rows[i].reading.of.ever[c] \in Nat
          BY <1>1, <1>2, <4>2, <5>1 DEF Taken, Reading
        <5> QED
          BY <3>1, <5>2, <5>3 DEF Follows
      <4> QED
        BY <4>1, <4>2
    <3> QED
      BY <3>1, <3>3, <3>4
  <2> QED
    BY <2>3, <2>4
<1>11. T = Nat
  <2>1. T \subseteq Nat
    OBVIOUS
  <2> HIDE DEF T
  <2> QED
    BY <1>9, <1>10, <2>1, Inductive
<1>12. Len(rows) \in T
  BY <1>1, <1>11
<1>13. SUFFICES ASSUME NEW c \in Counters PROVE a[Len(rows)][c] <= source.ever[c]
  BY DEF Past!Sum, a
<1>14. source.ever[c] \in Nat
  BY DEF CountInv, SourceCounts, Reading
<1>15. CASE Len(rows) = 0
  BY <1>12, <1>14, <1>15
<1>16. CASE Len(rows) # 0
  <2>1. Len(rows) \in 1..Len(rows)
    BY <1>1, <1>16
  <2>2. a[Len(rows)] \in D /\ a[Len(rows)][c] <= rows[Len(rows)].reading.of.ever[c]
    BY <1>12, <1>16
  <2>3. rows[Len(rows)].reading.of.ever[c] <= source.ever[c]
    BY <2>1 DEF CountInv, RowsChain, Before
  <2>4. rows[Len(rows)].reading.of.ever[c] \in Nat
    BY <1>2, <2>1 DEF Taken, Reading
  <2> QED
    BY <1>14, <2>2, <2>3, <2>4
<1> QED
  BY <1>15, <1>16

(* What the watcher and the page take an answer for.                       *)
Heard == {Past!AddressKey(a) : a \in Answers}

(* The rows there would be were this answer the next to be recorded.       *)
Projected(k) == IF rows = <<>> \/ rows[Len(rows)].key # k THEN Len(rows) + 1 ELSE Len(rows)

Resolving ==
    /\ rows \in Seq([key : Heard])
    /\ dns = [key |-> dns.key, changes |-> dns.changes, missed |-> dns.missed, crossed |-> dns.crossed]
    /\ dns.changes \in Nat /\ dns.missed \in BOOLEAN /\ dns.crossed \in BOOLEAN
    /\ sfu.since \in 0..Len(rows)
    /\ DOMAIN recorder = Past!Recorders
    /\ \A q \in Past!Recorders :
         /\ DOMAIN recorder[q] = {"at", "got", "newest", "good", "verdict"}
         /\ recorder[q].good \in BOOLEAN
         /\ Past!Recording(q) => recorder[q].got \in Heard

(* What waits to be recorded is a change that happened, unless two lookups *)
(* crossed.                                                                *)
Anticipates(q) ==
    /\ Projected(recorder[q].got) <= 1 + dns.changes
    /\ recorder[q].got # dns.key => Projected(recorder[q].got) <= dns.changes
    /\ recorder[q].at = "write" =>
         recorder[q].newest = IF rows = <<>> THEN None ELSE rows[Len(rows)].key

ChangesHappened ==
    ~dns.crossed =>
        /\ Len(rows) <= 1 + dns.changes /\ Projected(dns.key) <= 1 + dns.changes
        /\ \A q \in Past!Recorders : Past!Recording(q) => Anticipates(q)
        /\ \A p, q \in Past!Recorders : Past!Recording(p) /\ Past!Recording(q) => p = q

(* A page that is about to judge without a moment to show for it will find *)
(* a row newer than the start of the call server.                          *)
JudgesBySight ==
    /\ sfu.since = Len(rows) => Past!Sound(dns, sfu, rows)
    /\ recorder["page"].at = "judge" =>
         recorder["page"].good \/ sfu.since < recorder["page"].newest
    /\ recorder["page"].at = "judge" => recorder["page"].newest \in 0..Len(rows)
    /\ recorder["page"].verdict = "ok" => recorder["page"].at = "idle" /\ recorder["page"].good

AddressInv == Resolving /\ ChangesHappened /\ JudgesBySight

(* What the watcher and the page are at, as other steps leave it: only a   *)
(* page that is about to judge may have found its moment.                  *)
LEMMA WitnessShows ==
  ASSUME Resolving, NEW d, NEW s, NEW r, Past!Sound(d, s, r) \in BOOLEAN
  PROVE  LET w == Past!Witness(d, s, r)
         IN  /\ DOMAIN w = Past!Recorders
             /\ \A q \in Past!Recorders :
                  /\ DOMAIN w[q] = {"at", "got", "newest", "good", "verdict"}
                  /\ w[q].good \in BOOLEAN
                  /\ w[q].at = recorder[q].at /\ w[q].got = recorder[q].got
                  /\ w[q].newest = recorder[q].newest /\ w[q].verdict = recorder[q].verdict
                  /\ recorder[q].at # "judge" => w[q].good = recorder[q].good
                  /\ recorder[q].at = "judge" => w[q].good = (recorder[q].good \/ Past!Sound(d, s, r))
<1> DEFINE w == Past!Witness(d, s, r)
<1>1. w = [q \in Past!Recorders |->
             IF recorder[q].at = "judge" THEN [recorder[q] EXCEPT !.good = @ \/ Past!Sound(d, s, r)]
             ELSE recorder[q]]
  BY DEF Past!Witness
<1> HIDE DEF w
<1> SUFFICES ASSUME NEW q \in Past!Recorders
             PROVE  /\ DOMAIN w[q] = {"at", "got", "newest", "good", "verdict"}
                    /\ w[q].good \in BOOLEAN
                    /\ w[q].at = recorder[q].at /\ w[q].got = recorder[q].got
                    /\ w[q].newest = recorder[q].newest /\ w[q].verdict = recorder[q].verdict
                    /\ recorder[q].at # "judge" => w[q].good = recorder[q].good
                    /\ recorder[q].at = "judge" => w[q].good = (recorder[q].good \/ Past!Sound(d, s, r))
  BY <1>1 DEF w
<1>2. DOMAIN recorder[q] = {"at", "got", "newest", "good", "verdict"} /\ recorder[q].good \in BOOLEAN
  BY DEF Resolving
<1>3. CASE recorder[q].at = "judge"
  <2> DEFINE g == recorder[q].good \/ Past!Sound(d, s, r)
  <2>1. w[q] = [recorder[q] EXCEPT !.good = g] /\ g \in BOOLEAN
    BY <1>1, <1>2, <1>3
  <2> HIDE DEF g
  <2>2. DOMAIN w[q] = DOMAIN recorder[q] /\ w[q].good = g /\ w[q].at = recorder[q].at
        /\ w[q].got = recorder[q].got /\ w[q].newest = recorder[q].newest
        /\ w[q].verdict = recorder[q].verdict
    BY <1>2, <2>1
  <2> QED
    BY <1>2, <1>3, <2>1, <2>2 DEF g
<1>4. CASE recorder[q].at # "judge"
  <2>1. w[q] = recorder[q]
    BY <1>1, <1>4
  <2> QED
    BY <1>2, <1>4, <2>1
<1> QED
  BY <1>3, <1>4

(* What the host resolves to changes.                                      *)
LEMMA AddressMoves ==
  ASSUME AddressInv, NEW a \in Answers, Past!Moves(a)
  PROVE  AddressInv'
<1> DEFINE k == Past!ToSet(a)
           gone == dns.missed \/ rows = <<>> \/ Past!Last(rows).key # dns.key
<1>1. /\ k # dns.key /\ UNCHANGED <<rows, sfu>> /\ recorder' = Past!Witness(dns', sfu, rows)
      /\ dns' = [dns EXCEPT !.key = k, !.changes = @ + 1, !.missed = gone]
  BY DEF Past!Moves
<1> HIDE DEF k, gone
<1>2. Resolving /\ ChangesHappened /\ JudgesBySight
  BY DEF AddressInv
<1>3. gone \in BOOLEAN
  BY <1>2 DEF gone, Resolving
<1>4. dns' = [key |-> k, changes |-> dns.changes + 1, missed |-> gone, crossed |-> dns.crossed]
  BY <1>1, <1>2 DEF Resolving
<1>5. dns'.key = k /\ dns'.changes = dns.changes + 1 /\ dns'.missed = gone /\ dns'.crossed = dns.crossed
  BY <1>4
<1>6. Past!Sound(dns', sfu, rows) \in BOOLEAN
  BY <1>3, <1>5 DEF Past!Sound
<1> DEFINE w == Past!Witness(dns', sfu, rows)
<1>7. /\ DOMAIN recorder' = Past!Recorders
      /\ \A q \in Past!Recorders :
           /\ DOMAIN recorder'[q] = {"at", "got", "newest", "good", "verdict"}
           /\ recorder'[q].good \in BOOLEAN
           /\ recorder'[q].at = recorder[q].at /\ recorder'[q].got = recorder[q].got
           /\ recorder'[q].newest = recorder[q].newest /\ recorder'[q].verdict = recorder[q].verdict
           /\ recorder[q].at # "judge" => recorder'[q].good = recorder[q].good
           /\ recorder[q].at = "judge" => recorder'[q].good = (recorder[q].good \/ Past!Sound(dns', sfu, rows))
  <2>1. PICK d : d = dns'
    OBVIOUS
  <2>2. recorder' = Past!Witness(d, sfu, rows)
    BY <1>1, <2>1
  <2>3. Past!Sound(d, sfu, rows) \in BOOLEAN
    BY <1>6, <2>1
  <2> QED
    BY <1>2, <2>1, <2>2, <2>3, WitnessShows
<1>8. Resolving'
  <2>1. /\ rows' \in Seq([key : Heard]) /\ sfu'.since \in 0..Len(rows')
    BY <1>1, <1>2 DEF Resolving
  <2>2. /\ dns' = [key |-> dns'.key, changes |-> dns'.changes, missed |-> dns'.missed, crossed |-> dns'.crossed]
        /\ dns'.changes \in Nat /\ dns'.missed \in BOOLEAN /\ dns'.crossed \in BOOLEAN
    BY <1>2, <1>3, <1>4, <1>5 DEF Resolving
  <2>3. \A q \in Past!Recorders : Past!Recording(q)' => recorder'[q].got \in Heard
    BY <1>2, <1>7 DEF Resolving, Past!Recording
  <2> QED
    BY <1>7, <2>1, <2>2, <2>3 DEF Resolving
<1>9. ChangesHappened'
  <2> SUFFICES ASSUME ~dns.crossed PROVE ChangesHappened'
    BY <1>5 DEF ChangesHappened
  <2>1. Len(rows) \in Nat /\ dns.changes \in Nat /\ Len(rows) <= 1 + dns.changes
    BY <1>2 DEF Resolving, ChangesHappened
  <2>2. Projected(dns.key)' <= 1 + dns'.changes
    BY <1>1, <1>5, <2>1 DEF Projected
  <2>3. ASSUME NEW q \in Past!Recorders, Past!Recording(q)' PROVE Anticipates(q)'
    <3>1. Past!Recording(q) /\ recorder'[q].got = recorder[q].got /\ recorder'[q].newest = recorder[q].newest
          /\ recorder'[q].at = recorder[q].at
      BY <1>7, <2>3 DEF Past!Recording
    <3>2. Anticipates(q)
      BY <1>2, <3>1 DEF ChangesHappened
    <3>3. Projected(recorder[q].got) <= 1 + dns.changes /\ Projected(recorder[q].got) \in Nat
      BY <2>1, <3>2 DEF Anticipates, Projected
    <3>4. Projected(recorder[q].got)' = Projected(recorder[q].got)
      BY <1>1, <3>1 DEF Projected
    <3> QED
      BY <1>1, <1>5, <2>1, <3>1, <3>2, <3>3, <3>4 DEF Anticipates
  <2>4. ASSUME NEW p \in Past!Recorders, NEW q \in Past!Recorders, Past!Recording(p)', Past!Recording(q)'
        PROVE  p = q
    BY <1>2, <1>7, <2>4 DEF ChangesHappened, Past!Recording
  <2> QED
    BY <1>1, <1>5, <2>1, <2>2, <2>3, <2>4 DEF ChangesHappened
<1>10. JudgesBySight'
  <2>1. "page" \in Past!Recorders
    BY DEF Past!Recorders
  <2>2. ASSUME sfu.since = Len(rows) PROVE Past!Sound(dns', sfu, rows)
    <3>1. Past!Sound(dns, sfu, rows)
      BY <1>2, <2>2 DEF JudgesBySight
    <3> QED
      BY <1>1, <1>5, <3>1 DEF Past!Sound, gone
  <2> QED
    BY <1>1, <1>2, <1>7, <2>1, <2>2 DEF JudgesBySight
<1> QED
  BY <1>8, <1>9, <1>10 DEF AddressInv

(* The call server starts and finds its address.                           *)
LEMMA AddressFound ==
  ASSUME AddressInv, Past!RestartSFU
  PROVE  AddressInv'
<1>1. /\ UNCHANGED <<rows, dns>> /\ recorder' = Past!Witness(dns, sfu', rows)
      /\ sfu'.announced = dns.key /\ sfu'.since = Len(rows)
  BY DEF Past!RestartSFU
<1>2. Resolving /\ ChangesHappened /\ JudgesBySight
  BY DEF AddressInv
<1>3. Past!Sound(dns, sfu', rows)
  BY <1>1 DEF Past!Sound
<1>4. /\ DOMAIN recorder' = Past!Recorders
      /\ \A q \in Past!Recorders :
           /\ DOMAIN recorder'[q] = {"at", "got", "newest", "good", "verdict"}
           /\ recorder'[q].good \in BOOLEAN
           /\ recorder'[q].at = recorder[q].at /\ recorder'[q].got = recorder[q].got
           /\ recorder'[q].newest = recorder[q].newest /\ recorder'[q].verdict = recorder[q].verdict
           /\ recorder[q].at # "judge" => recorder'[q].good = recorder[q].good
           /\ recorder[q].at = "judge" => recorder'[q].good
  <2>1. PICK s : s = sfu'
    OBVIOUS
  <2>2. recorder' = Past!Witness(dns, s, rows) /\ Past!Sound(dns, s, rows)
    BY <1>1, <1>3, <2>1
  <2>3. Past!Sound(dns, s, rows) \in BOOLEAN
    BY <1>2 DEF Past!Sound, Resolving
  <2> DEFINE w == Past!Witness(dns, s, rows)
  <2>4. /\ DOMAIN w = Past!Recorders
        /\ \A q \in Past!Recorders :
             /\ DOMAIN w[q] = {"at", "got", "newest", "good", "verdict"}
             /\ w[q].good \in BOOLEAN
             /\ w[q].at = recorder[q].at /\ w[q].got = recorder[q].got
             /\ w[q].newest = recorder[q].newest /\ w[q].verdict = recorder[q].verdict
             /\ recorder[q].at # "judge" => w[q].good = recorder[q].good
             /\ recorder[q].at = "judge" => w[q].good = (recorder[q].good \/ Past!Sound(dns, s, rows))
    BY <1>2, <2>3, WitnessShows
  <2> HIDE DEF w
  <2>5. recorder' = w
    BY <2>2 DEF w
  <2> QED
    BY <2>2, <2>4, <2>5
<1>5. Resolving'
  <2>1. Len(rows) \in 0..Len(rows) /\ rows \in Seq([key : Heard])
    BY <1>2 DEF Resolving
  <2>2. \A q \in Past!Recorders : Past!Recording(q)' => recorder'[q].got \in Heard
    BY <1>2, <1>4 DEF Resolving, Past!Recording
  <2> QED
    BY <1>1, <1>2, <1>4, <2>1, <2>2 DEF Resolving
<1>6. ChangesHappened'
  <2>1. Projected(dns.key)' = Projected(dns.key)
    BY <1>1 DEF Projected
  <2>2. ASSUME NEW q \in Past!Recorders
        PROVE  Past!Recording(q)' = Past!Recording(q) /\ Anticipates(q)' = Anticipates(q)
    <3>1. Projected(recorder[q].got)' = Projected(recorder[q].got)
      BY <1>1, <1>4 DEF Projected
    <3> QED
      BY <1>1, <1>4, <3>1 DEF Past!Recording, Anticipates
  <2> QED
    BY <1>1, <1>2, <2>1, <2>2 DEF ChangesHappened
<1>7. JudgesBySight'
  <2>1. "page" \in Past!Recorders
    BY DEF Past!Recorders
  <2> QED
    BY <1>1, <1>2, <1>3, <1>4, <2>1 DEF JudgesBySight
<1> QED
  BY <1>5, <1>6, <1>7 DEF AddressInv

(* A step of one recorder that leaves the table, the resolver and the call *)
(* server alone.                                                           *)
LEMMA RecorderSteps ==
  ASSUME AddressInv, UNCHANGED <<rows, sfu>>, NEW q \in Past!Recorders,
         \/ UNCHANGED dns
         \/ dns' = [dns EXCEPT !.crossed = @ \/ \E p \in Past!Recorders \ {q} : Past!Recording(p)],
         NEW now, recorder' = [recorder EXCEPT ![q] = now],
         DOMAIN now = {"at", "got", "newest", "good", "verdict"}, now.good \in BOOLEAN,
         now.at \in {"look", "write"} =>
            /\ now.got \in Heard
            /\ ~dns'.crossed =>
                 /\ \A p \in Past!Recorders \ {q} : ~Past!Recording(p)
                 /\ now.at = "write" =>
                      now.newest = IF rows = <<>> THEN None ELSE rows[Len(rows)].key
                 /\ (Past!Recording(q) /\ now.got = recorder[q].got) \/ now.got = dns.key,
         q = "page" =>
            /\ now.at = "judge" => /\ now.good \/ sfu.since < now.newest
                                   /\ now.newest \in 0..Len(rows)
            /\ now.verdict = "ok" => now.at = "idle" /\ now.good
  PROVE  AddressInv'
<1>1. Resolving /\ ChangesHappened /\ JudgesBySight
  BY DEF AddressInv
<1> DEFINE crossing == dns.crossed \/ \E p \in Past!Recorders \ {q} : Past!Recording(p)
<1>2. /\ dns'.key = dns.key /\ dns'.changes = dns.changes /\ dns'.missed = dns.missed
      /\ dns'.crossed \in BOOLEAN
      /\ dns.crossed => dns'.crossed
      /\ dns' = [key |-> dns'.key, changes |-> dns'.changes, missed |-> dns'.missed, crossed |-> dns'.crossed]
  <2>1. CASE UNCHANGED dns
    BY <1>1, <2>1 DEF Resolving
  <2>2. CASE dns' = [dns EXCEPT !.crossed = @ \/ \E p \in Past!Recorders \ {q} : Past!Recording(p)]
    <3>1. crossing \in BOOLEAN
      BY <1>1 DEF Resolving
    <3>2. dns' = [dns EXCEPT !.crossed = crossing]
      BY <2>2
    <3> HIDE DEF crossing
    <3>3. dns' = [key |-> dns.key, changes |-> dns.changes, missed |-> dns.missed, crossed |-> crossing]
      BY <1>1, <3>2 DEF Resolving
    <3>4. /\ dns'.key = dns.key /\ dns'.changes = dns.changes /\ dns'.missed = dns.missed
          /\ dns'.crossed = crossing
      BY <3>3
    <3>5. dns.crossed => crossing
      BY DEF crossing
    <3> QED
      BY <3>1, <3>3, <3>4, <3>5
  <2> QED
    BY <2>1, <2>2
<1>3. /\ DOMAIN recorder' = Past!Recorders /\ recorder'[q] = now
      /\ \A p \in Past!Recorders \ {q} : recorder'[p] = recorder[p]
  BY <1>1 DEF Resolving
<1>4. \A p \in Past!Recorders : Past!Recording(p)' <=> recorder'[p].at \in {"look", "write"}
  BY DEF Past!Recording
<1>5. Resolving'
  <2>1. rows' \in Seq([key : Heard]) /\ sfu'.since \in 0..Len(rows')
    BY <1>1 DEF Resolving
  <2>2. dns'.changes \in Nat /\ dns'.missed \in BOOLEAN
    BY <1>1, <1>2 DEF Resolving
  <2>3. ASSUME NEW p \in Past!Recorders
        PROVE  /\ DOMAIN recorder'[p] = {"at", "got", "newest", "good", "verdict"}
               /\ recorder'[p].good \in BOOLEAN
               /\ Past!Recording(p)' => recorder'[p].got \in Heard
    <3>1. CASE p = q
      BY <1>3, <1>4, <3>1
    <3>2. CASE p # q
      BY <1>1, <1>3, <3>2 DEF Resolving, Past!Recording
    <3> QED
      BY <3>1, <3>2
  <2> QED
    BY <1>2, <1>3, <2>1, <2>2, <2>3 DEF Resolving
<1>6. ChangesHappened'
  <2> SUFFICES ASSUME ~dns'.crossed PROVE ChangesHappened'
    BY DEF ChangesHappened
  <2>1. /\ ~dns.crossed /\ Len(rows) <= 1 + dns.changes /\ Projected(dns.key) <= 1 + dns.changes
        /\ \A p \in Past!Recorders : Past!Recording(p) => Anticipates(p)
        /\ \A p, r \in Past!Recorders : Past!Recording(p) /\ Past!Recording(r) => p = r
    BY <1>1, <1>2 DEF ChangesHappened
  <2>2. Projected(dns.key)' = Projected(dns.key)
    BY <1>2 DEF Projected
  <2>3. ASSUME NEW p \in Past!Recorders, Past!Recording(p)' PROVE Anticipates(p)'
    <3>1. CASE p # q
      <4>1. recorder'[p] = recorder[p] /\ Past!Recording(p)
        BY <1>3, <2>3, <3>1 DEF Past!Recording
      <4>2. Anticipates(p)
        BY <2>1, <4>1
      <4>3. Projected(recorder[p].got)' = Projected(recorder[p].got)
        BY <4>1 DEF Projected
      <4> QED
        BY <1>2, <4>1, <4>2, <4>3 DEF Anticipates
    <3>2. CASE p = q
      <4>1. now.at \in {"look", "write"} /\ recorder'[p] = now
        BY <1>3, <1>4, <2>3, <3>2
      <4>2. now.at = "write" => now.newest = IF rows = <<>> THEN None ELSE rows[Len(rows)].key
        BY <4>1
      <4>3. Projected(now.got)' = Projected(now.got) /\ Projected(recorder[q].got) \in Nat
        <5>1. Len(rows) \in Nat
          BY <1>1 DEF Resolving
        <5> QED
          BY <5>1 DEF Projected
      <4>4. Projected(now.got) <= 1 + dns.changes /\ (now.got # dns.key => Projected(now.got) <= dns.changes)
        <5>1. CASE now.got = dns.key
          BY <2>1, <5>1
        <5>2. CASE Past!Recording(q) /\ now.got = recorder[q].got
          BY <2>1, <5>2 DEF Anticipates
        <5> QED
          BY <4>1, <5>1, <5>2
      <4>5. Projected(recorder[p].got)' = Projected(now.got)
        BY <4>1, <4>3 DEF Projected
      <4> QED
        BY <1>2, <4>1, <4>2, <4>4, <4>5 DEF Anticipates
    <3> QED
      BY <3>1, <3>2
  <2>4. ASSUME NEW p \in Past!Recorders, NEW r \in Past!Recorders, Past!Recording(p)', Past!Recording(r)'
        PROVE  p = r
    <3>1. CASE now.at \in {"look", "write"}
      <4>1. \A x \in Past!Recorders : x # q => ~Past!Recording(x)'
        BY <1>3, <3>1 DEF Past!Recording
      <4> QED
        BY <2>4, <4>1
    <3>2. CASE now.at \notin {"look", "write"}
      <4>1. p # q /\ r # q
        BY <1>3, <1>4, <2>4, <3>2
      <4>2. Past!Recording(p) /\ Past!Recording(r)
        BY <1>3, <2>4, <4>1 DEF Past!Recording
      <4> QED
        BY <2>1, <4>2
    <3> QED
      BY <3>1, <3>2
  <2> QED
    BY <1>2, <2>1, <2>2, <2>3, <2>4 DEF ChangesHappened
<1>7. JudgesBySight'
  <2>1. "page" \in Past!Recorders
    BY DEF Past!Recorders
  <2>2. Past!Sound(dns, sfu, rows)' = Past!Sound(dns, sfu, rows)
    BY <1>2 DEF Past!Sound
  <2>3. CASE q = "page"
    BY <1>1, <1>3, <2>1, <2>2, <2>3 DEF JudgesBySight
  <2>4. CASE q # "page"
    BY <1>1, <1>3, <2>1, <2>2, <2>4 DEF JudgesBySight
  <2> QED
    BY <2>3, <2>4
<1> QED
  BY <1>5, <1>6, <1>7 DEF AddressInv

(* A lookup.                                                               *)
LEMMA AddressResolves ==
  ASSUME Past!Judged, AddressInv, NEW q \in Past!Recorders, Past!Resolve(q)
  PROVE  AddressInv'
<1>1. UNCHANGED <<rows, sfu>> /\ recorder[q].at = "idle"
  BY DEF Past!Resolve
<1>2. /\ DOMAIN Past!Rest = {"at", "got", "newest", "good", "verdict"}
      /\ Past!Rest = [at |-> "idle", got |-> None, newest |-> None, good |-> FALSE, verdict |-> None]
  BY DEF Past!Rest
<1>3. CASE UNCHANGED dns /\ recorder' = [recorder EXCEPT ![q] = Past!Rest]
  <2>1. Past!Rest.at = "idle" /\ Past!Rest.good = FALSE /\ Past!Rest.verdict = None
    BY <1>2
  <2>2. PICK now : now = Past!Rest
    OBVIOUS
  <2>3. /\ DOMAIN now = {"at", "got", "newest", "good", "verdict"} /\ now.good \in BOOLEAN
        /\ now.at = "idle" /\ now.verdict # "ok" /\ recorder' = [recorder EXCEPT ![q] = now]
    BY <1>2, <1>3, <2>1, <2>2 DEF Past!Judged
  <2> QED
    BY <1>1, <1>3, <2>3, RecorderSteps
<1>4. CASE ~(UNCHANGED dns /\ recorder' = [recorder EXCEPT ![q] = Past!Rest])
  <2>1. PICK a \in Answers : Past!ToSet(a) = dns.key
           /\ recorder' = [recorder EXCEPT ![q] = [Past!Rest EXCEPT !.at = "look", !.got = Past!AddressKey(a)]]
    BY <1>4 DEF Past!Resolve
  <2>2. dns' = [dns EXCEPT !.crossed = @ \/ \E p \in Past!Recorders \ {q} : Past!Recording(p)]
    BY <1>4 DEF Past!Resolve
  <2>3. Past!AddressKey(a) = dns.key /\ Past!AddressKey(a) \in Heard
    BY <2>1 DEF Past!AddressKey, Heard
  <2> DEFINE k == Past!AddressKey(a)
  <2>4. PICK now : now = [Past!Rest EXCEPT !.at = "look", !.got = k]
    OBVIOUS
  <2>5. recorder' = [recorder EXCEPT ![q] = now]
    BY <2>1, <2>4
  <2> HIDE DEF k
  <2>6. /\ DOMAIN now = {"at", "got", "newest", "good", "verdict"} /\ now.good \in BOOLEAN
        /\ now.at = "look" /\ now.verdict # "ok" /\ now.got = dns.key /\ now.got \in Heard
    <3>1. /\ Past!Rest.good \in BOOLEAN /\ Past!Rest.verdict # "ok"
      BY <1>2 DEF Past!Judged
    <3>2. /\ DOMAIN now = {"at", "got", "newest", "good", "verdict"} /\ now.at = "look" /\ now.got = k
          /\ now.good = Past!Rest.good /\ now.verdict = Past!Rest.verdict
      BY <1>2, <2>4
    <3> QED
      BY <2>3, <3>1, <3>2 DEF k
  <2>7. ~dns'.crossed => \A p \in Past!Recorders \ {q} : ~Past!Recording(p)
    <3> DEFINE others == \E p \in Past!Recorders \ {q} : Past!Recording(p)
    <3>1. dns' = [dns EXCEPT !.crossed = dns.crossed \/ others]
      BY <2>2
    <3> HIDE DEF others
    <3>2. dns'.crossed = (dns.crossed \/ others)
      BY <3>1 DEF AddressInv, Resolving
    <3> QED
      BY <3>2 DEF others
  <2> QED
    BY <1>1, <2>2, <2>5, <2>6, <2>7, RecorderSteps
<1> QED
  BY <1>3, <1>4

(* A recorder goes on with nothing but its place, and what it found, changed. *)
LEMMA RecorderKeeps ==
  ASSUME Resolving, NEW q \in Past!Recorders, NEW at, NEW found
  PROVE  LET now == [recorder[q] EXCEPT !.at = at, !.newest = found]
         IN  /\ DOMAIN now = {"at", "got", "newest", "good", "verdict"} /\ now.good \in BOOLEAN
             /\ now.at = at /\ now.newest = found /\ now.got = recorder[q].got
             /\ now.good = recorder[q].good /\ now.verdict = recorder[q].verdict
BY DEF Resolving

(* The newest row is looked up, or cannot be.                              *)
LEMMA AddressLooks ==
  ASSUME AddressInv, NEW q \in Past!Recorders, Past!Look(q)
  PROVE  AddressInv'
<1>1. UNCHANGED <<rows, sfu, dns>> /\ recorder[q].at = "look"
  BY DEF Past!Look
<1>2. Resolving /\ ChangesHappened /\ JudgesBySight
  BY DEF AddressInv
<1>3. Past!Recording(q) /\ recorder[q].got \in Heard
  BY <1>1, <1>2 DEF Past!Recording, Resolving
<1>4. q = "page" => recorder[q].verdict # "ok"
  BY <1>1, <1>2 DEF JudgesBySight
<1>5. ~dns.crossed => \A p \in Past!Recorders \ {q} : ~Past!Recording(p)
  BY <1>2, <1>3 DEF ChangesHappened
<1>6. DOMAIN recorder[q] = {"at", "got", "newest", "good", "verdict"}
  BY <1>2 DEF Resolving
<1> DEFINE top == IF rows = <<>> THEN None ELSE rows[Len(rows)].key
<1>7. CASE recorder' = [recorder EXCEPT ![q].at = "write",
                         ![q].newest = IF rows = <<>> THEN None ELSE Past!Last(rows).key]
  <2>1. recorder' = [recorder EXCEPT ![q].at = "write", ![q].newest = top]
    BY <1>7 DEF Past!Last
  <2> HIDE DEF top
  <2>2. PICK now : now = [recorder[q] EXCEPT !.at = "write", !.newest = top]
    OBVIOUS
  <2>3. recorder' = [recorder EXCEPT ![q] = now]
    BY <1>2, <2>1, <2>2 DEF Resolving
  <2>4. /\ DOMAIN now = {"at", "got", "newest", "good", "verdict"} /\ now.good \in BOOLEAN
        /\ now.at = "write" /\ now.newest = top /\ now.got = recorder[q].got
        /\ now.verdict = recorder[q].verdict
    BY <1>2, <2>2, RecorderKeeps
  <2>5. now.newest = IF rows = <<>> THEN None ELSE rows[Len(rows)].key
    BY <2>4 DEF top
  <2> QED
    BY <1>1, <1>3, <1>4, <1>5, <2>3, <2>4, <2>5, RecorderSteps
<1>8. CASE recorder' = [recorder EXCEPT ![q].at = Past!Leaves(q)]
  <2>1. Past!Leaves(q) \in {"idle", "newest"}
    BY DEF Past!Leaves
  <2>2. PICK now : now = [recorder[q] EXCEPT !.at = Past!Leaves(q)]
    OBVIOUS
  <2>3. recorder' = [recorder EXCEPT ![q] = now]
    BY <1>2, <1>8, <2>2 DEF Resolving
  <2>4. /\ DOMAIN now = {"at", "got", "newest", "good", "verdict"} /\ now.good \in BOOLEAN
        /\ now.at = Past!Leaves(q) /\ now.verdict = recorder[q].verdict
    BY <1>2, <2>2 DEF Resolving
  <2> QED
    BY <1>1, <1>4, <2>1, <2>3, <2>4, RecorderSteps
<1> QED
  BY <1>7, <1>8 DEF Past!Look

(* The page reads the newest row and judges by it.                         *)
LEMMA AddressNewest ==
  ASSUME AddressInv, Past!Newest
  PROVE  AddressInv'
<1>1. UNCHANGED <<rows, sfu, dns>> /\ recorder["page"].at = "newest"
  BY DEF Past!Newest
<1>2. Resolving /\ JudgesBySight /\ "page" \in Past!Recorders
  BY DEF AddressInv, Past!Recorders
<1>3. recorder["page"].verdict # "ok"
  BY <1>1, <1>2 DEF JudgesBySight
<1>4. DOMAIN recorder["page"] = {"at", "got", "newest", "good", "verdict"}
  BY <1>2 DEF Resolving
<1> DEFINE seen == Past!Sound(dns, sfu, rows)
<1>5. seen \in BOOLEAN
  BY <1>2 DEF Past!Sound, Resolving
<1>6. recorder' = [recorder EXCEPT !["page"] =
                     [recorder["page"] EXCEPT !.at = "judge", !.newest = Len(rows), !.good = seen]]
  BY <1>2 DEF Past!Newest, Resolving
<1>7. /\ sfu.since \in Nat /\ Len(rows) \in Nat /\ sfu.since <= Len(rows)
      /\ sfu.since = Len(rows) => seen
  BY <1>2 DEF Resolving, JudgesBySight
<1> HIDE DEF seen
<1>8. PICK now : now = [recorder["page"] EXCEPT !.at = "judge", !.newest = Len(rows), !.good = seen]
  OBVIOUS
<1>9. /\ DOMAIN now = {"at", "got", "newest", "good", "verdict"}
      /\ now.at = "judge" /\ now.newest = Len(rows) /\ now.good = seen
      /\ now.verdict = recorder["page"].verdict
  BY <1>4, <1>8
<1>10. now.good \/ sfu.since < now.newest
  BY <1>7, <1>9
<1>11. now.good \in BOOLEAN /\ now.newest \in 0..Len(rows) /\ now.verdict # "ok" /\ now.at \notin {"look", "write"}
  BY <1>3, <1>5, <1>7, <1>9
<1>12. recorder' = [recorder EXCEPT !["page"] = now]
  BY <1>6, <1>8
<1> QED
  BY <1>1, <1>2, <1>9, <1>10, <1>11, <1>12, RecorderSteps

(* What is called current was seen to be.                                  *)
LEMMA AddressJudges ==
  ASSUME AddressInv, Past!Judge
  PROVE  AddressInv'
<1>1. UNCHANGED <<rows, sfu, dns>> /\ recorder["page"].at = "judge"
  BY DEF Past!Judge
<1>2. Resolving /\ JudgesBySight /\ "page" \in Past!Recorders
  BY DEF AddressInv, Past!Recorders
<1> DEFINE n == recorder["page"].newest
<1>3. PICK v : /\ v = Past!Verdict(n) \/ v = "unknown"
               /\ recorder' = [recorder EXCEPT !["page"].at = "idle", !["page"].verdict = v]
  BY DEF Past!Judge
<1>4. v = "ok" => recorder["page"].good
  <2>1. recorder["page"].good \/ sfu.since < n
    BY <1>1, <1>2 DEF JudgesBySight
  <2>2. sfu.since < n => Past!Verdict(n) # "ok"
    <3>1. n \in Nat /\ sfu.since \in Nat
      BY <1>1, <1>2 DEF JudgesBySight, Resolving
    <3> QED
      BY <3>1 DEF Past!Verdict
  <2> QED
    BY <1>3, <2>1, <2>2
<1>5. PICK now : now = [recorder["page"] EXCEPT !.at = "idle", !.verdict = v]
  OBVIOUS
<1>6. recorder' = [recorder EXCEPT !["page"] = now]
  BY <1>2, <1>3, <1>5 DEF Resolving
<1>7. /\ DOMAIN now = {"at", "got", "newest", "good", "verdict"} /\ now.good \in BOOLEAN
      /\ now.at = "idle" /\ now.verdict = v /\ now.good = recorder["page"].good
  BY <1>2, <1>5 DEF Resolving
<1> QED
  BY <1>1, <1>2, <1>4, <1>6, <1>7, RecorderSteps

(* A row is added, or the newest one extended, or neither.                 *)
LEMMA AddressWrites ==
  ASSUME AddressInv, NEW q \in Past!Recorders, Past!Write(q)
  PROVE  AddressInv'
<1>1. UNCHANGED <<sfu, dns>> /\ recorder[q].at = "write"
  BY DEF Past!Write
<1>2. Resolving /\ ChangesHappened /\ JudgesBySight
  BY DEF AddressInv
<1>3. Past!Recording(q) /\ recorder[q].got \in Heard
  BY <1>1, <1>2 DEF Past!Recording, Resolving
<1>4. Past!Leaves(q) \in {"idle", "newest"}
  BY DEF Past!Leaves
<1>5. CASE UNCHANGED rows /\ recorder' = [recorder EXCEPT ![q].at = Past!Leaves(q)]
  <2>1. PICK now : now = [recorder[q] EXCEPT !.at = Past!Leaves(q)]
    OBVIOUS
  <2>2. recorder' = [recorder EXCEPT ![q] = now]
    BY <1>2, <1>5, <2>1 DEF Resolving
  <2>3. /\ DOMAIN now = {"at", "got", "newest", "good", "verdict"} /\ now.good \in BOOLEAN
        /\ now.at = Past!Leaves(q) /\ now.verdict = recorder[q].verdict
    BY <1>2, <2>1 DEF Resolving
  <2>4. q = "page" => recorder[q].verdict # "ok"
    BY <1>1, <1>2 DEF JudgesBySight
  <2> QED
    BY <1>1, <1>4, <1>5, <2>2, <2>3, <2>4, RecorderSteps
<1>6. CASE ~(UNCHANGED rows /\ recorder' = [recorder EXCEPT ![q].at = Past!Leaves(q)])
  <2> DEFINE new == [key |-> recorder[q].got]
  <2>1. /\ rows' = IF recorder[q].newest = recorder[q].got THEN rows ELSE Append(rows, new)
        /\ recorder' = [Past!Witness(dns, sfu, rows') EXCEPT ![q].at = Past!Leaves(q)]
    BY <1>6 DEF Past!Write
  <2>2. rows \in Seq([key : Heard]) /\ Len(rows) \in Nat /\ new \in [key : Heard] /\ new.key = recorder[q].got
    BY <1>2, <1>3 DEF Resolving
  <2> HIDE DEF new
  <2>3. \/ rows' = rows /\ recorder[q].newest = recorder[q].got
        \/ /\ recorder[q].newest # recorder[q].got /\ rows' = Append(rows, new)
           /\ Len(rows') = Len(rows) + 1 /\ rows'[Len(rows')] = new /\ rows' # <<>>
    BY <2>1, <2>2
  <2>4. rows' \in Seq([key : Heard]) /\ Len(rows') \in Nat /\ Len(rows) <= Len(rows')
    <3> DEFINE S == [key : Heard]
    <3>1. rows \in Seq(S) /\ new \in S /\ Len(rows) \in Nat
      BY <2>2
    <3> HIDE DEF S
    <3>2. rows' \in Seq(S) /\ Len(rows') \in Nat /\ Len(rows) <= Len(rows')
      BY <2>3, <3>1
    <3> QED
      BY <3>2 DEF S
  <2>5. PICK r : r = rows'
    OBVIOUS
  <2> DEFINE w == Past!Witness(dns, sfu, r)
  <2>6. Past!Sound(dns, sfu, r) \in BOOLEAN
    BY <1>2 DEF Past!Sound, Resolving
  <2>7. /\ DOMAIN w = Past!Recorders
        /\ \A p \in Past!Recorders :
             /\ DOMAIN w[p] = {"at", "got", "newest", "good", "verdict"}
             /\ w[p].good \in BOOLEAN
             /\ w[p].at = recorder[p].at /\ w[p].got = recorder[p].got
             /\ w[p].newest = recorder[p].newest /\ w[p].verdict = recorder[p].verdict
             /\ recorder[p].at # "judge" => w[p].good = recorder[p].good
             /\ recorder[p].at = "judge" => w[p].good = (recorder[p].good \/ Past!Sound(dns, sfu, r))
    BY <1>2, <2>6, WitnessShows
  <2>8. recorder' = [w EXCEPT ![q].at = Past!Leaves(q)]
    BY <2>1, <2>5
  <2> HIDE DEF w
  <2>9. /\ DOMAIN recorder' = Past!Recorders
        /\ \A p \in Past!Recorders :
             /\ DOMAIN recorder'[p] = {"at", "got", "newest", "good", "verdict"}
             /\ recorder'[p].good \in BOOLEAN
             /\ recorder'[p].at = IF p = q THEN Past!Leaves(q) ELSE recorder[p].at
             /\ recorder'[p].got = recorder[p].got /\ recorder'[p].newest = recorder[p].newest
             /\ recorder'[p].verdict = recorder[p].verdict
             /\ recorder[p].at # "judge" => recorder'[p].good = recorder[p].good
             /\ recorder[p].at = "judge" /\ recorder[p].good => recorder'[p].good
    <3>1. DOMAIN recorder' = Past!Recorders /\ recorder'[q] = [w[q] EXCEPT !.at = Past!Leaves(q)]
          /\ \A p \in Past!Recorders \ {q} : recorder'[p] = w[p]
      BY <2>7, <2>8
    <3>2. /\ DOMAIN recorder'[q] = DOMAIN w[q] /\ recorder'[q].good = w[q].good
          /\ recorder'[q].at = Past!Leaves(q) /\ recorder'[q].got = w[q].got
          /\ recorder'[q].newest = w[q].newest /\ recorder'[q].verdict = w[q].verdict
      BY <2>7, <3>1
    <3> QED
      BY <2>7, <3>1, <3>2
  <2>10. Resolving'
    <3>1. sfu'.since \in 0..Len(rows')
      BY <1>1, <1>2, <2>4 DEF Resolving
    <3>2. \A p \in Past!Recorders : Past!Recording(p)' => recorder'[p].got \in Heard
      BY <1>2, <1>3, <2>9 DEF Resolving, Past!Recording
    <3> QED
      BY <1>1, <1>2, <2>4, <2>9, <3>1, <3>2 DEF Resolving
  <2>11. ChangesHappened'
    <3> SUFFICES ASSUME ~dns.crossed PROVE ChangesHappened'
      BY <1>1 DEF ChangesHappened
    <3>1. /\ Len(rows) <= 1 + dns.changes /\ Projected(dns.key) <= 1 + dns.changes /\ dns.changes \in Nat
          /\ Anticipates(q) /\ \A p \in Past!Recorders \ {q} : ~Past!Recording(p)
      BY <1>2, <1>3 DEF ChangesHappened, Resolving
    <3>2. \A p \in Past!Recorders : ~Past!Recording(p)'
      BY <1>4, <2>9, <3>1 DEF Past!Recording
    <3>3. CASE rows' = rows
      BY <1>1, <3>1, <3>2, <3>3 DEF ChangesHappened, Projected
    <3>4. CASE rows' # rows
      <4>1. /\ recorder[q].newest # recorder[q].got
            /\ Len(rows') = Len(rows) + 1 /\ rows'[Len(rows')].key = recorder[q].got /\ rows' # <<>>
        BY <2>2, <2>3, <3>4
      <4>2. Projected(recorder[q].got) = Len(rows) + 1
        BY <1>1, <3>1, <4>1 DEF Projected, Anticipates
      <4>3. Len(rows') <= 1 + dns.changes /\ (recorder[q].got # dns.key => Len(rows') <= dns.changes)
        BY <3>1, <4>1, <4>2 DEF Anticipates
      <4>4. Projected(dns.key)' <= 1 + dns.changes
        BY <1>1, <2>4, <3>1, <4>1, <4>3 DEF Projected
      <4> QED
        BY <1>1, <3>2, <4>3, <4>4 DEF ChangesHappened
    <3> QED
      BY <3>3, <3>4
  <2>12. JudgesBySight'
    <3>1. "page" \in Past!Recorders
      BY DEF Past!Recorders
    <3>2. sfu'.since = Len(rows') => Past!Sound(dns, sfu, rows)'
      <4>1. sfu.since = Len(rows') => rows' = rows
        BY <1>2, <2>2, <2>3 DEF Resolving
      <4> QED
        BY <1>1, <1>2, <4>1 DEF JudgesBySight, Past!Sound
    <3>3. recorder'["page"].at = "judge" =>
             /\ recorder'["page"].good \/ sfu'.since < recorder'["page"].newest
             /\ recorder'["page"].newest \in 0..Len(rows')
      <4> SUFFICES ASSUME recorder'["page"].at = "judge"
                   PROVE  /\ recorder'["page"].good \/ sfu'.since < recorder'["page"].newest
                          /\ recorder'["page"].newest \in 0..Len(rows')
        OBVIOUS
      <4>1. recorder["page"].at = "judge" /\ "page" # q
        BY <1>4, <2>9, <3>1
      <4>2. /\ recorder["page"].good \/ sfu.since < recorder["page"].newest
            /\ recorder["page"].newest \in 0..Len(rows)
        BY <1>2, <4>1 DEF JudgesBySight
      <4>3. recorder'["page"].newest = recorder["page"].newest
            /\ (recorder["page"].good => recorder'["page"].good)
        BY <2>9, <3>1, <4>1
      <4> QED
        BY <1>1, <2>2, <2>4, <4>2, <4>3
    <3>4. recorder'["page"].verdict = "ok" => recorder'["page"].at = "idle" /\ recorder'["page"].good
      <4> SUFFICES ASSUME recorder'["page"].verdict = "ok"
                   PROVE  recorder'["page"].at = "idle" /\ recorder'["page"].good
        OBVIOUS
      <4>1. recorder["page"].verdict = "ok"
        BY <2>9, <3>1
      <4>2. recorder["page"].at = "idle" /\ recorder["page"].good
        BY <1>2, <4>1 DEF JudgesBySight
      <4> QED
        BY <1>1, <2>9, <3>1, <4>2
    <3> QED
      BY <3>2, <3>3, <3>4 DEF JudgesBySight
  <2> QED
    BY <2>10, <2>11, <2>12 DEF AddressInv
<1> QED
  BY <1>5, <1>6

(* MatrixCtrl starts again: the page and the watcher begin anew.           *)
LEMMA AddressRestarts ==
  ASSUME Past!Judged, AddressInv, Past!Restart
  PROVE  AddressInv'
<1>1. UNCHANGED <<rows, dns, sfu>> /\ recorder' = [q \in Past!Recorders |-> Past!Rest]
  BY DEF Past!Restart
<1>2. /\ DOMAIN Past!Rest = {"at", "got", "newest", "good", "verdict"} /\ Past!Rest.at = "idle"
      /\ Past!Rest.good \in BOOLEAN /\ Past!Rest.verdict # "ok" /\ "page" \in Past!Recorders
  BY DEF Past!Rest, Past!Judged, Past!Recorders
<1>3. DOMAIN recorder' = Past!Recorders /\ \A q \in Past!Recorders : recorder'[q] = Past!Rest
  BY <1>1
<1>4. \A q \in Past!Recorders : ~Past!Recording(q)'
  BY <1>2, <1>3 DEF Past!Recording
<1>5. Resolving'
  BY <1>1, <1>2, <1>3, <1>4 DEF AddressInv, Resolving
<1>6. ChangesHappened'
  BY <1>1, <1>4 DEF AddressInv, ChangesHappened, Projected
<1>7. JudgesBySight'
  BY <1>1, <1>2, <1>3 DEF AddressInv, JudgesBySight, Past!Sound
<1> QED
  BY <1>5, <1>6, <1>7 DEF AddressInv

HistInv ==
    /\ which \in Past!Kinds
    /\ which = "address" => AddressInv /\ sampler.at = "idle"
    /\ which # "address" => CountInv /\ \A q \in Past!Recorders : recorder[q].at = "idle"

(* Where a history begins.                                                 *)
LEMMA HistInit ==
  ASSUME Past!Judged, Past!Init
  PROVE  HistInv
<1>1. /\ which \in Past!Kinds /\ rows = <<>> /\ sampler.at = "idle" /\ memory = None
      /\ recorder = [q \in Past!Recorders |-> Past!Rest]
      /\ source = [count |-> Past!Zero, life |-> 1, ever |-> Past!Zero]
  BY DEF Past!Init, Past!NoSample
<1>2. rows \in Seq(Counts) /\ rows \in Seq([key : Heard]) /\ Len(rows) = 0
  BY <1>1
<1>3. /\ DOMAIN Past!Rest = {"at", "got", "newest", "good", "verdict"} /\ Past!Rest.at = "idle"
      /\ Past!Rest.good \in BOOLEAN /\ Past!Rest.verdict # "ok" /\ "page" \in Past!Recorders
  BY DEF Past!Rest, Past!Judged, Past!Recorders
<1>4. DOMAIN recorder = Past!Recorders /\ \A q \in Past!Recorders : recorder[q] = Past!Rest
  BY <1>1
<1>5. \A q \in Past!Recorders : ~Past!Recording(q)
  BY <1>3, <1>4 DEF Past!Recording
<1>6. CountInv
  <2>1. Past!Zero \in [Counters -> Nat]
    BY DEF Past!Zero
  <2>2. SourceCounts
    BY <1>1, <2>1 DEF SourceCounts, Reading
  <2> QED
    BY <1>1, <1>2, <2>2 DEF CountInv, RowsChain, Sampled, Remembered
<1>7. AddressInv
  <2>1. PICK a \in Answers :
           dns = [key |-> Past!ToSet(a), changes |-> 0, missed |-> FALSE, crossed |-> FALSE]
    BY DEF Past!Init
  <2>2. sfu = [announced |-> dns.key, since |-> 0, starts |-> 1]
    BY DEF Past!Init
  <2>3. Resolving
    <3>1. /\ dns = [key |-> dns.key, changes |-> dns.changes, missed |-> dns.missed, crossed |-> dns.crossed]
          /\ dns.changes \in Nat /\ dns.missed \in BOOLEAN /\ dns.crossed \in BOOLEAN
      BY <2>1
    <3> QED
      BY <1>2, <1>3, <1>4, <1>5, <2>2, <3>1 DEF Resolving
  <2>4. ChangesHappened
    BY <1>1, <1>2, <1>5, <2>1 DEF ChangesHappened, Projected
  <2>5. JudgesBySight
    BY <1>2, <1>3, <1>4, <2>2 DEF JudgesBySight, Past!Sound
  <2> QED
    BY <2>3, <2>4, <2>5 DEF AddressInv
<1> QED
  BY <1>1, <1>3, <1>4, <1>6, <1>7 DEF HistInv

(* Every step of a history.                                                *)
LEMMA HistNext ==
  ASSUME Past!Judged, HistInv, [Past!Next]_(Past!vars)
  PROVE  HistInv'
<1>1. which \in Past!Kinds
  BY DEF HistInv
<1>2. CASE UNCHANGED Past!vars
  <2>1. UNCHANGED <<which, source, memory, sampler, rows, dns, sfu, recorder>>
    BY <1>2 DEF Past!vars, Past!counted, Past!addresses
  <2>2. CountInv => CountInv'
    BY <2>1 DEF CountInv, SourceCounts, RowsChain, Sampled, Remembered, IsGood, Past!CountsAreTrue
  <2>3. AddressInv => AddressInv'
    BY <2>1 DEF AddressInv, Resolving, ChangesHappened, JudgesBySight, Past!Recording, Anticipates,
       Projected, Past!Sound
  <2> QED
    BY <2>1, <2>2, <2>3 DEF HistInv
<1>3. CASE which = "address" /\ Past!Next
  <2>1. AddressInv /\ sampler.at = "idle"
    BY <1>3 DEF HistInv
  <2>2. \/ \E a \in Answers : Past!Moves(a)
        \/ Past!RestartSFU \/ \E q \in Past!Recorders : Past!Resolve(q) \/ Past!Look(q) \/ Past!Write(q)
        \/ Past!Newest \/ Past!Judge \/ Past!Restart
    BY <1>3, <2>1 DEF Past!Next, Past!Happens, Past!SourceStarts, Past!ReadSFU, Past!ReadSynapse, Past!Read,
       Past!Previous, Past!Pair, Past!Record, Past!Prune
  <2>3. which' = "address" /\ sampler'.at = "idle"
    <3>1. CASE Past!Restart
      BY <1>3, <3>1 DEF Past!Restart, Past!NoSample
    <3>2. CASE ~Past!Restart
      BY <1>3, <2>1, <2>2, <3>2 DEF Past!Moves, Past!RestartSFU, Past!Resolve, Past!Look, Past!Write,
         Past!Newest, Past!Judge, Past!counted
    <3> QED
      BY <3>1, <3>2
  <2>4. AddressInv'
    BY <2>1, <2>2, AddressMoves, AddressFound, AddressResolves, AddressLooks, AddressWrites,
       AddressNewest, AddressJudges, AddressRestarts
  <2> QED
    BY <1>1, <1>3, <2>3, <2>4 DEF HistInv
<1>4. CASE which # "address" /\ Past!Next
  <2>1. CountInv /\ \A q \in Past!Recorders : recorder[q].at = "idle"
    BY <1>4 DEF HistInv
  <2>2. \/ Past!Happens \/ Past!SourceStarts \/ Past!ReadSFU \/ Past!ReadSynapse
        \/ Past!Previous \/ Past!Pair \/ Past!Record \/ Past!Prune \/ Past!Restart
    BY <1>4, <2>1 DEF Past!Next, Past!Moves, Past!RestartSFU, Past!Resolve, Past!Look, Past!Write,
       Past!Newest, Past!Judge, Past!Recorders
  <2>3. CountInv'
    BY <1>4, <2>1, <2>2, CountGoesOn, CountRead, CountPrevious, CountPair, CountRecord, CountPrune,
       CountRestart
  <2>4. which' = which /\ \A q \in Past!Recorders : recorder'[q].at = "idle"
    <3>1. CASE Past!Restart
      BY <3>1 DEF Past!Restart, Past!Rest
    <3>2. CASE ~Past!Restart
      <4>1. UNCHANGED <<which, recorder>>
        BY <2>2, <3>2, OneReading DEF Past!Happens, Past!SourceStarts, Past!Previous, Past!Pair,
           Past!Record, Past!Prune, Past!addresses
      <4> QED
        BY <2>1, <4>1
    <3> QED
      BY <3>1, <3>2
  <2> QED
    BY <1>1, <1>4, <2>3, <2>4 DEF HistInv
<1> QED
  BY <1>2, <1>3, <1>4

(* What the invariant is for.                                              *)
LEMMA HistoryHolds ==
  ASSUME HistInv
  PROVE  Past!HistoryIsTrue
<1>1. CASE which = "address"
  BY <1>1 DEF HistInv, AddressInv, ChangesHappened, JudgesBySight, Past!HistoryIsTrue, Past!ChangesAreReal
<1>2. CASE which # "address"
  <2>1. CountInv
    BY <1>2 DEF HistInv
  <2>2. \A i \in DOMAIN rows : Past!CountsAreTrue(rows[i])
    BY <2>1 DEF CountInv, RowsChain, IsGood
  <2>3. DOMAIN rows = 1..Len(rows)
    BY <2>1 DEF CountInv, RowsChain
  <2> QED
    BY <1>2, <2>1, <2>2, <2>3, TotalIsBounded DEF Past!HistoryIsTrue
<1> QED
  BY <1>1, <1>2

(* The histories of the call server, of Synapse and of the address hold    *)
(* nothing that did not happen, their totals count nothing twice, and the  *)
(* page calls the announced address current only when it was (Sampler,     *)
(* NewSample, Once, AssessFreshness, Store.Record).                        *)
THEOREM PastIsTrue ==
    ASSUME Past!Judged PROVE Past!Spec => []Past!HistoryIsTrue
<1>1. Past!Init => HistInv
  BY HistInit
<1>2. HistInv /\ [Past!Next]_(Past!vars) => HistInv'
  BY HistNext
<1>3. HistInv => Past!HistoryIsTrue
  BY HistoryHolds
<1> QED
  BY <1>1, <1>2, <1>3, PTL DEF Past!Spec

-----------------------------------------------------------------------------
(* The merge of a list of files is what any account of it says, layer by   *)
(* layer.                                                                  *)
LEMMA MergedLayerByLayer ==
  ASSUME NEW files, NEW d, Len(files) \in Nat, NEW g, DOMAIN g = 0..Len(files),
         g = [i \in DOMAIN g |-> g[i]],
         g[0] = Saves!EmptyFile,
         \A i \in 1..Len(files) :
            g[i] = IF d[files[i]] = None THEN g[i - 1] ELSE Saves!Layer(g[i - 1], d[files[i]])
  PROVE  Saves!MergeOf(files, d) = g[Len(files)]
<1> DEFINE next(h, i) == IF d[files[i]] = None THEN h[i - 1] ELSE Saves!Layer(h[i - 1], d[files[i]])
           P(h) == h = [i \in 0..Len(files) |-> IF i = 0 THEN Saves!EmptyFile
                        ELSE IF d[files[i]] = None THEN h[i - 1]
                        ELSE Saves!Layer(h[i - 1], d[files[i]])]
<1>1. Saves!MergeOf(files, d) = (CHOOSE h : P(h))[Len(files)]
  BY DEF Saves!MergeOf
<1>2. P(g)
  <2>1. \A i \in 0..Len(files) : i = 0 \/ i \in 1..Len(files)
    OBVIOUS
  <2>2. \A i \in 0..Len(files) : g[i] = IF i = 0 THEN Saves!EmptyFile
                        ELSE IF d[files[i]] = None THEN g[i - 1]
                        ELSE Saves!Layer(g[i - 1], d[files[i]])
    BY <2>1
  <2> QED
    BY <2>2
<1>3. PICK h : P(h) /\ Saves!MergeOf(files, d) = h[Len(files)]
  <2> HIDE DEF P
  <2>1. P(CHOOSE h : P(h))
    BY <1>2
  <2> QED
    BY <1>1, <2>1
<1>4. \A i \in 0..Len(files) : h[i] = IF i = 0 THEN Saves!EmptyFile ELSE next(h, i)
  BY <1>3
<1>5. \A i \in 0..Len(files) : g[i] = IF i = 0 THEN Saves!EmptyFile ELSE next(g, i)
  BY <1>2
<1> HIDE DEF P
<1> DEFINE T == {i \in Nat : i <= Len(files) => h[i] = g[i]}
<1>6. 0 \in T
  BY <1>4, <1>5
<1>7. ASSUME NEW i \in T PROVE i + 1 \in T
  <2> SUFFICES ASSUME i + 1 <= Len(files) PROVE h[i + 1] = g[i + 1]
    OBVIOUS
  <2>1. h[i] = g[i] /\ i + 1 \in 0..Len(files) /\ i + 1 # 0 /\ (i + 1) - 1 = i
    OBVIOUS
  <2>2. next(h, i + 1) = next(g, i + 1)
    BY <2>1
  <2> HIDE DEF next
  <2> QED
    BY <1>4, <1>5, <2>1, <2>2
<1>8. T = Nat
  <2>1. T \subseteq Nat
    OBVIOUS
  <2> HIDE DEF T
  <2> QED
    BY <1>6, <1>7, <2>1, Inductive
<1>9. Len(files) \in T
  BY <1>8
<1> QED
  BY <1>3, <1>9

(* What a file can hold.                                                   *)
SheetEntries == [val : Values \cup {None}, ours : Saves!Blocks, other : Saves!Blocks]
Sheets == [Sections -> SheetEntries]

(* What a file says of a section.                                          *)
Says(d, f, s) == IF d[f] = None THEN Saves!Blank ELSE d[f][s]

(* What a later entry makes of an earlier one.                             *)
Covers(high, low) == [val   |-> Saves!Over(high.val, low.val),
                      ours  |-> Saves!Over(high.ours, low.ours),
                      other |-> Saves!Over(high.other, low.other)]

(* Nothing is known of a section that no file names.                       *)
LEMMA BlankSheet == Saves!Blank \in SheetEntries /\ Saves!EmptyFile \in Sheets
<1>1. None \in Saves!Blocks
  BY DEF Saves!Blocks
<1> QED
  BY <1>1 DEF Saves!Blank, Saves!EmptyFile, Sheets, SheetEntries

(* Nothing covers nothing, and what says the same changes nothing.         *)
LEMMA Covered ==
  ASSUME NEW e \in SheetEntries
  PROVE  /\ Covers(Saves!Blank, e) = e /\ Covers(e, Saves!Blank) = e /\ Covers(e, e) = e
         /\ \A x \in SheetEntries : Covers(x, e) \in SheetEntries
<1>1. e = [val |-> e.val, ours |-> e.ours, other |-> e.other]
  BY DEF SheetEntries
<1>2. Covers(e, e) = e
  BY <1>1 DEF Covers, Saves!Over
<1>3. Covers(Saves!Blank, e) = e /\ Covers(e, Saves!Blank) = e
  BY <1>1 DEF Covers, Saves!Over, Saves!Blank
<1>4. \A x \in SheetEntries : Covers(x, e) \in SheetEntries
  BY DEF Covers, Saves!Over, SheetEntries
<1> QED
  BY <1>2, <1>3, <1>4

(* A list of files that hold something.                                    *)
Written(files, d) ==
    Len(files) \in Nat /\ \A i \in 1..Len(files) : d[files[i]] # None => d[files[i]] \in Sheets

(* Each layer puts what the next file says over what there is.             *)
Layered(files, d, g) ==
    /\ g \in [0..Len(files) -> Sheets] /\ g[0] = Saves!EmptyFile
    /\ \A i \in 1..Len(files) : \A s \in Sections : g[i][s] = Covers(Says(d, files[i], s), g[i - 1][s])

(* A layer of two files is one.                                            *)
LEMMA LayerSheet ==
  ASSUME NEW a \in Sheets, NEW b \in Sheets
  PROVE  Saves!Layer(a, b) \in Sheets /\ \A s \in Sections : Saves!Layer(a, b)[s] = Covers(b[s], a[s])
<1>1. Saves!Layer(a, b) = [s \in Sections |-> Covers(b[s], a[s])]
  BY DEF Saves!Layer, Covers
<1>2. \A s \in Sections : Covers(b[s], a[s]) \in SheetEntries
  BY Covered DEF Sheets
<1> QED
  BY <1>1, <1>2 DEF Sheets

(* That is what MergeOf computes.                                          *)
LEMMA MergedIsLayered ==
  ASSUME NEW files, NEW d, Written(files, d)
  PROVE  \E g : Layered(files, d, g) /\ Saves!MergeOf(files, d) = g[Len(files)]
<1> DEFINE n == Len(files)
           put(i, h) == IF d[files[i]] = None THEN h ELSE Saves!Layer(h, d[files[i]])
           next == [i \in 1..n |-> [h \in Sheets |-> put(i, h)]]
<1>1. n \in Nat /\ \A i \in 1..n : d[files[i]] # None => d[files[i]] \in Sheets
  BY DEF Written
<1>2. \A i \in 1..n : \A h \in Sheets : put(i, h) \in Sheets
  BY <1>1, LayerSheet
<1>3. next \in [1..n -> [Sheets -> Sheets]]
  BY <1>2
<1>4. PICK g \in [0..n -> Sheets] : g[0] = Saves!EmptyFile /\ \A i \in 1..n : g[i] = next[i][g[i - 1]]
  <2> DEFINE base == Saves!EmptyFile
  <2>1. n \in Nat /\ base \in Sheets /\ next \in [1..n -> [Sheets -> Sheets]]
    BY <1>1, <1>3, BlankSheet
  <2> HIDE DEF next, n, base
  <2>2. \E g \in [0..n -> Sheets] : g[0] = base /\ \A i \in 1..n : g[i] = next[i][g[i - 1]]
    BY <2>1, Iterates
  <2> QED
    BY <2>2 DEF base
<1>5. ASSUME NEW i \in 1..n
      PROVE  g[i] = put(i, g[i - 1]) /\ g[i - 1] \in Sheets
  <2>1. g[i - 1] \in Sheets
    BY <1>1, <1>4
  <2> QED
    BY <1>4, <2>1
<1>6. \A i \in 1..n : \A s \in Sections : g[i][s] = Covers(Says(d, files[i], s), g[i - 1][s])
  <2> SUFFICES ASSUME NEW i \in 1..n, NEW s \in Sections
               PROVE  g[i][s] = Covers(Says(d, files[i], s), g[i - 1][s])
    OBVIOUS
  <2>1. g[i - 1] \in Sheets /\ g[i - 1][s] \in SheetEntries
    BY <1>5 DEF Sheets
  <2>2. CASE d[files[i]] = None
    BY <1>5, <2>1, <2>2, Covered DEF Says
  <2>3. CASE d[files[i]] # None
    BY <1>1, <1>5, <2>1, <2>3, LayerSheet DEF Says
  <2> QED
    BY <2>2, <2>3
<1>7. Layered(files, d, g)
  BY <1>4, <1>6 DEF Layered
<1>8. Saves!MergeOf(files, d) = g[n]
  <2>1. DOMAIN g = 0..Len(files) /\ g = [i \in DOMAIN g |-> g[i]]
    BY <1>4
  <2>2. \A i \in 1..Len(files) : g[i] = IF d[files[i]] = None THEN g[i - 1] ELSE Saves!Layer(g[i - 1], d[files[i]])
    BY <1>5
  <2> QED
    BY <1>1, <1>4, <2>1, <2>2, MergedLayerByLayer
<1> QED
  BY <1>7, <1>8

(* The merge says of a section what the files say of it, and is a file.    *)
LEMMA MergedAgrees ==
  ASSUME NEW files, NEW d, Written(files, d), NEW e, Written(files, e), NEW s \in Sections,
         \A i \in 1..Len(files) : Says(d, files[i], s) = Says(e, files[i], s)
  PROVE  Saves!MergeOf(files, d)[s] = Saves!MergeOf(files, e)[s] /\ Saves!MergeOf(files, d) \in Sheets
<1>1. PICK g : Layered(files, d, g) /\ Saves!MergeOf(files, d) = g[Len(files)]
  BY MergedIsLayered
<1>2. PICK h : Layered(files, e, h) /\ Saves!MergeOf(files, e) = h[Len(files)]
  BY MergedIsLayered
<1> DEFINE T == {i \in Nat : i <= Len(files) => g[i][s] = h[i][s]}
<1>3. Len(files) \in Nat
  BY DEF Written
<1>4. 0 \in T
  BY <1>1, <1>2 DEF Layered
<1>5. ASSUME NEW i \in T PROVE i + 1 \in T
  <2> SUFFICES ASSUME i + 1 <= Len(files) PROVE g[i + 1][s] = h[i + 1][s]
    OBVIOUS
  <2>1. g[i][s] = h[i][s] /\ i + 1 \in 1..Len(files) /\ (i + 1) - 1 = i
    BY <1>3
  <2>2. /\ g[i + 1][s] = Covers(Says(d, files[i + 1], s), g[i][s])
        /\ h[i + 1][s] = Covers(Says(e, files[i + 1], s), h[i][s])
    BY <1>1, <1>2, <2>1 DEF Layered
  <2> QED
    BY <2>1, <2>2
<1>6. T = Nat
  <2>1. T \subseteq Nat
    OBVIOUS
  <2> HIDE DEF T
  <2> QED
    BY <1>4, <1>5, <2>1, Inductive
<1>7. Len(files) \in T /\ Len(files) \in 0..Len(files)
  BY <1>3, <1>6
<1> QED
  BY <1>1, <1>2, <1>7 DEF Layered

(* Of a section that no other file speaks of, it says what its own does.   *)
LEMMA MergedOwn ==
  ASSUME NEW files, NEW d, Written(files, d), NEW s \in Sections, d[s] # None => d[s] \in Sheets,
         \A i \in 1..Len(files) : files[i] # s => Says(d, files[i], s) = Saves!Blank
  PROVE  Saves!MergeOf(files, d)[s] =
            IF \E i \in 1..Len(files) : files[i] = s THEN Says(d, s, s) ELSE Saves!Blank
<1>1. PICK g : Layered(files, d, g) /\ Saves!MergeOf(files, d) = g[Len(files)]
  BY MergedIsLayered
<1> DEFINE own(i) == IF \E j \in 1..i : files[j] = s THEN Says(d, s, s) ELSE Saves!Blank
           T == {i \in Nat : i <= Len(files) => g[i][s] = own(i)}
<1>2. Len(files) \in Nat
  BY DEF Written
<1>3. Says(d, s, s) \in SheetEntries /\ Saves!Blank \in SheetEntries
  BY BlankSheet DEF Says, Sheets
<1>4. 0 \in T
  <2>1. g[0][s] = Saves!Blank
    BY <1>1 DEF Layered, Saves!EmptyFile
  <2> QED
    BY <2>1
<1>5. ASSUME NEW i \in T PROVE i + 1 \in T
  <2> SUFFICES ASSUME i + 1 <= Len(files) PROVE g[i + 1][s] = own(i + 1)
    OBVIOUS
  <2>1. g[i][s] = own(i) /\ i + 1 \in 1..Len(files) /\ (i + 1) - 1 = i
    BY <1>2
  <2>2. g[i + 1][s] = Covers(Says(d, files[i + 1], s), own(i))
    BY <1>1, <2>1 DEF Layered
  <2>3. CASE files[i + 1] = s
    <3>1. own(i + 1) = Says(d, s, s)
      BY <2>1, <2>3
    <3>2. own(i) = Says(d, s, s) \/ own(i) = Saves!Blank
      OBVIOUS
    <3> QED
      BY <1>3, <2>2, <2>3, <3>1, <3>2, Covered
  <2>4. CASE files[i + 1] # s
    <3>1. \A j \in 1..(i + 1) : files[j] = s => j \in 1..i
      BY <2>4
    <3>2. own(i + 1) = own(i)
      BY <3>1
    <3>3. own(i) \in SheetEntries
      BY <1>3
    <3>4. Says(d, files[i + 1], s) = Saves!Blank
      BY <2>1, <2>4
    <3> QED
      BY <2>2, <3>2, <3>3, <3>4, Covered
  <2> QED
    BY <2>3, <2>4
<1>6. T = Nat
  <2>1. T \subseteq Nat
    OBVIOUS
  <2> HIDE DEF T
  <2> QED
    BY <1>4, <1>5, <2>1, Inductive
<1>7. Len(files) \in T
  BY <1>2, <1>6
<1> QED
  BY <1>1, <1>7

(* A finite set of sections is listed in some order.                       *)
LEMMA SetListed ==
  ASSUME NEW S, S \subseteq Sections, Saves!IsFiniteSet(Sections)
  PROVE  Saves!SetToSeq(S) \in Seq(S) /\ Saves!ToSet(Saves!SetToSeq(S)) = S
<1>1. IsFiniteSet(S)
  <2>1. IsFiniteSet(Sections)
    BY DEF Saves!IsFiniteSet, IsFiniteSet
  <2> QED
    BY <2>1, FS_Subset
<1>2. Saves!Cardinality(S) = Cardinality(S)
  BY DEF Saves!Cardinality, Cardinality
<1> DEFINE n == Cardinality(S)
<1>3. n \in Nat /\ ExistsBijection(1..n, S)
  BY <1>1, FS_CardinalityType
<1>4. PICK b \in [1..n -> S] : /\ \A i, j \in 1..n : b[i] = b[j] => i = j
                               /\ \A s \in S : \E i \in 1..n : b[i] = s
  BY <1>3 DEF ExistsBijection, Bijection, Injection, Surjection, IsInjective
<1>5. Saves!IsInjective(b)
  BY <1>4 DEF Saves!IsInjective
<1> DEFINE q == Saves!SetToSeq(S)
<1>6. q \in [1..n -> S] /\ Saves!IsInjective(q)
  BY <1>2, <1>4, <1>5 DEF Saves!SetToSeq
<1> HIDE DEF q, n
<1>7. \A i, j \in 1..n : q[i] = q[j] => i = j
  BY <1>6 DEF Saves!IsInjective
<1>8. q \in Seq(S) /\ Len(q) = n /\ DOMAIN q = 1..n
  BY <1>3, <1>6
<1>9. Saves!ToSet(q) = S
  <2>1. q \in Surjection(1..n, S)
    <3> DEFINE R == {q[i] : i \in 1..n}
    <3>1. R \subseteq S
      BY <1>6
    <3>2. q \in Bijection(1..n, R)
      BY <1>6, <1>7 DEF Bijection, Injection, Surjection, IsInjective
    <3>3. Cardinality(R) = n /\ IsFiniteSet(R)
      <4>1. ExistsBijection(1..n, R)
        BY <3>2 DEF ExistsBijection
      <4>2. Cardinality(R) = n
        BY <1>3, <4>1, FS_CountingElements
      <4> QED
        BY <1>1, <3>1, <4>2, FS_Subset
    <3>4. R = S
      BY <1>1, <3>1, <3>3, FS_Subset DEF n
    <3> QED
      BY <1>6, <3>4 DEF Surjection
  <2> QED
    BY <1>6, <1>8, <2>1 DEF Saves!ToSet, Surjection
<1> QED
  BY <1>8, <1>9 DEF q

(* The changes a request asks for, and the entry its plan makes of one.    *)
Changing(c) ==
    /\ DOMAIN c \subseteq Saves!Fields
    /\ \A f \in DOMAIN c : c[f] \in Values \cup {None}

After(e, p) == [val   |-> IF "val" \in p.sets THEN p.val ELSE e.val,
                ours  |-> IF "ours" \in p.sets THEN p.ours ELSE e.ours,
                other |-> e.other]

(* MatrixCtrl's block as a request leaves it: the keys that were changed to *)
(* something else than the default, and those that were there.             *)
LEMMA BlockSays ==
  ASSUME Saves!Named, NEW values \in Sheets, NEW c, Changing(c), NEW s \in Sections
  PROVE  LET b == Saves!Block(values, c, s)
         IN  /\ b \in Saves!Blocks
             /\ \A k \in Keys :
                  IF <<s, k>> \in DOMAIN c
                    THEN /\ Saves!Has(b, k) <=> c[<<s, k>>] \notin {None, Default}
                         /\ Saves!Has(b, k) => b[k] = c[<<s, k>>]
                    ELSE /\ Saves!Has(b, k) <=> Saves!Has(values[s].ours, k)
                         /\ Saves!Has(b, k) => b[k] = values[s].ours[k]
<1> DEFINE old == values[s].ours
           touched(k) == <<s, k>> \in DOMAIN c
           wanted(k) == IF touched(k) THEN c[<<s, k>>] ELSE IF Saves!Has(old, k) THEN old[k] ELSE None
           kept == {k \in Keys : wanted(k) # None /\ ~(touched(k) /\ wanted(k) = Default)}
           b == IF kept = {} THEN None ELSE [k \in kept |-> wanted(k)]
<1>1. Saves!Block(values, c, s) = b
  BY DEF Saves!Block
<1>2. old \in Saves!Blocks
  BY DEF Sheets, SheetEntries
<1>3. \A k \in Keys : Saves!Has(old, k) => old[k] \in Values /\ old[k] # None
  BY <1>2 DEF Saves!Blocks, Saves!Has, Saves!Named
<1>4. \A k \in Keys : touched(k) => c[<<s, k>>] \in Values \cup {None}
  BY DEF Changing
<1>5. \A k \in kept : wanted(k) \in Values
  BY <1>3, <1>4
<1> HIDE DEF wanted
<1>6. b \in Saves!Blocks /\ (kept # {} => b # None)
  <2>1. CASE kept = {}
    BY <2>1 DEF Saves!Blocks
  <2>2. CASE kept # {}
    <3>1. kept \in SUBSET Keys /\ b = [k \in kept |-> wanted(k)]
      BY <2>2
    <3> HIDE DEF kept, b
    <3>2. b \in [kept -> Values]
      BY <1>5, <3>1
    <3>3. b # None
      BY <3>1, <3>2 DEF Saves!Named
    <3> QED
      BY <2>2, <3>1, <3>2, <3>3 DEF Saves!Blocks
  <2> QED
    BY <2>1, <2>2
<1>7. ASSUME NEW k \in Keys
      PROVE  (Saves!Has(b, k) <=> k \in kept) /\ (Saves!Has(b, k) => b[k] = wanted(k))
  <2>1. CASE kept = {}
    BY <2>1 DEF Saves!Has
  <2>2. CASE kept # {}
    <3>1. b = [x \in kept |-> wanted(x)] /\ b # None
      BY <1>6, <2>2
    <3> HIDE DEF kept, b
    <3> QED
      BY <3>1 DEF Saves!Has
  <2> QED
    BY <2>1, <2>2
<1>8. ASSUME NEW k \in Keys
      PROVE  IF touched(k)
               THEN /\ k \in kept <=> c[<<s, k>>] \notin {None, Default}
                    /\ wanted(k) = c[<<s, k>>]
               ELSE /\ k \in kept <=> Saves!Has(old, k)
                    /\ Saves!Has(old, k) => wanted(k) = old[k]
  BY <1>3 DEF wanted
<1> HIDE DEF kept, b
<1> QED
  BY <1>1, <1>6, <1>7, <1>8

(* An entry that is changed as planned is one.                             *)
LEMMA AfterEntry ==
  ASSUME Saves!Named, NEW values \in Sheets, NEW c, Changing(c), NEW s \in Saves!Owners(c), s \in Sections,
         NEW e \in SheetEntries
  PROVE  After(e, Saves!Plan(values, c)[s]) \in SheetEntries
<1> DEFINE p == Saves!Plan(values, c)[s]
<1>1. /\ p.val = IF <<s, "val">> \in DOMAIN c THEN c[<<s, "val">>] ELSE None
      /\ p.ours = Saves!Block(values, c, s)
  BY DEF Saves!Plan
<1>2. p.val \in Values \cup {None}
  BY <1>1 DEF Changing
<1>3. p.ours \in Saves!Blocks
  BY <1>1, BlockSays
<1> HIDE DEF p
<1> QED
  BY <1>2, <1>3 DEF After, p, SheetEntries

(* What the page shows after a request that was written as planned: the    *)
(* fields it changed are what was asked for, the others what they were.    *)
LEMMA PlanReadsBack ==
  ASSUME Saves!Named, NEW values \in Sheets, NEW c, Changing(c), ~Saves!Refuses(values, c),
         NEW f \in Saves!Fields, NEW new,
         new[f[1]] = IF f[1] \in Saves!Owners(c) THEN After(values[f[1]], Saves!Plan(values, c)[f[1]])
                     ELSE values[f[1]]
  PROVE  Saves!Read(new, f) = IF f \in DOMAIN c
            THEN [value |-> Saves!Over(c[f], Default), elsewhere |-> FALSE]
            ELSE Saves!Read(values, f)
<1>1. PICK s \in Sections, k \in Keys \cup {"val"} : f = <<s, k>>
  BY DEF Saves!Fields
<1>2. f[1] = s /\ f[2] = k
  BY <1>1
<1>3. CASE s \notin Saves!Owners(c)
  <2>1. f \notin DOMAIN c
    BY <1>2, <1>3 DEF Saves!Owners
  <2>2. new[s] = values[s]
    BY <1>2, <1>3
  <2> QED
    BY <1>2, <2>1, <2>2 DEF Saves!Read
<1>4. CASE s \in Saves!Owners(c)
  <2> DEFINE p == Saves!Plan(values, c)[s]
             old == values[s]
             e == new[s]
  <2>1. /\ e = After(old, p)
        /\ p.sets = {sl \in {"val", "ours"} : \E g \in DOMAIN c : g[1] = s /\ (sl = "val") = Saves!IsValue(g)}
        /\ p.val = IF <<s, "val">> \in DOMAIN c THEN c[<<s, "val">>] ELSE None
        /\ p.ours = Saves!Block(values, c, s)
    BY <1>2, <1>4 DEF Saves!Plan
  <2> HIDE DEF p, e
  <2>2. /\ e.val = IF "val" \in p.sets THEN p.val ELSE old.val
        /\ e.ours = IF "ours" \in p.sets THEN p.ours ELSE old.ours
        /\ e.other = old.other
    BY <2>1 DEF After
  <2>3. CASE k = "val"
    <3>1. /\ Saves!Read(new, f) = [value |-> Saves!Over(e.val, Default), elsewhere |-> FALSE]
          /\ Saves!Read(values, f) = [value |-> Saves!Over(old.val, Default), elsewhere |-> FALSE]
      BY <1>2, <2>3 DEF Saves!Read, Saves!IsValue, e
    <3>2. CASE f \in DOMAIN c
      <4>1. "val" \in p.sets /\ p.val = c[f]
        BY <1>1, <1>2, <2>1, <2>3, <3>2 DEF Saves!IsValue
      <4> QED
        BY <2>2, <3>1, <3>2, <4>1
    <3>3. CASE f \notin DOMAIN c
      <4>1. ASSUME NEW g \in DOMAIN c, g[1] = s, Saves!IsValue(g) PROVE FALSE
        <5>1. g \in Saves!Fields
          BY DEF Changing
        <5>2. g = <<s, "val">>
          BY <4>1, <5>1 DEF Saves!Fields, Saves!IsValue
        <5> QED
          BY <1>1, <2>3, <3>3, <5>2
      <4>2. "val" \notin p.sets
        BY <2>1, <4>1
      <4> QED
        BY <2>2, <3>1, <3>3, <4>2
    <3> QED
      BY <3>2, <3>3
  <2>4. CASE k # "val" /\ k \in Keys
    <3> DEFINE shown(x) == IF Saves!Has(x.other, k) THEN [value |-> x.other[k], elsewhere |-> TRUE]
                           ELSE IF Saves!Has(x.ours, k) THEN [value |-> x.ours[k], elsewhere |-> FALSE]
                           ELSE [value |-> Default, elsewhere |-> FALSE]
    <3>1. Saves!Read(new, f) = shown(e) /\ Saves!Read(values, f) = shown(old)
      BY <1>2, <2>4 DEF Saves!Read, Saves!IsValue, e
    <3> DEFINE b == p.ours
    <3>2. IF f \in DOMAIN c
            THEN /\ Saves!Has(b, k) <=> c[f] \notin {None, Default}
                 /\ Saves!Has(b, k) => b[k] = c[f]
            ELSE /\ Saves!Has(b, k) <=> Saves!Has(old.ours, k)
                 /\ Saves!Has(b, k) => b[k] = old.ours[k]
      BY <1>1, <2>1, <2>4, BlockSays
    <3>3. CASE f \in DOMAIN c
      <4>1. "ours" \in p.sets
        BY <1>2, <2>1, <2>4, <3>3 DEF Saves!IsValue
      <4>2. ~Saves!Has(old.other, k)
        <5>1. Saves!Read(values, f).elsewhere # TRUE
          BY <3>3 DEF Saves!Refuses
        <5>2. Saves!Has(old.other, k) => shown(old).elsewhere = TRUE
          OBVIOUS
        <5> QED
          BY <3>1, <5>1, <5>2
      <4>3. e.ours = b /\ e.other = old.other
        BY <2>2, <4>1
      <4>4. CASE c[f] \notin {None, Default}
        <5>1. shown(e) = [value |-> c[f], elsewhere |-> FALSE]
          BY <3>2, <3>3, <4>2, <4>3, <4>4
        <5> QED
          BY <3>1, <3>3, <4>4, <5>1 DEF Saves!Over
      <4>5. CASE c[f] \in {None, Default}
        <5>1. shown(e) = [value |-> Default, elsewhere |-> FALSE]
          BY <3>2, <3>3, <4>2, <4>3, <4>5
        <5>2. Saves!Over(c[f], Default) = Default
          BY <4>5 DEF Saves!Over
        <5> QED
          BY <3>1, <3>3, <5>1, <5>2
      <4> QED
        BY <4>4, <4>5
    <3>4. CASE f \notin DOMAIN c
      <4>1. /\ Saves!Has(e.ours, k) <=> Saves!Has(old.ours, k)
            /\ Saves!Has(e.ours, k) => e.ours[k] = old.ours[k]
        BY <2>2, <3>2, <3>4
      <4>2. shown(e) = shown(old)
        BY <2>2, <4>1
      <4> QED
        BY <3>1, <3>4, <4>2
    <3> QED
      BY <3>3, <3>4
  <2> QED
    BY <1>1, <2>3, <2>4
<1> QED
  BY <1>3, <1>4

(* The files, and the list of them.                                        *)
Filed ==
    /\ DOMAIN disk = Saves!Files
    /\ \A f \in Saves!Files : disk[f] # None => disk[f] \in Sheets
    /\ listed \in Seq(Saves!Files)
    /\ listed = Saves!Legacy \/ listed \in Seq(Sections)

(* A migration writes what it read, removes what it has written, and lists *)
(* it last; nobody edits before it is over.                                *)
Split(c) == [s \in Saves!InSections(c) |-> [Saves!EmptyFile EXCEPT ![s] = c[s]]]

Migrates ==
    /\ migration.at \in {"start", "split", "list", "over"}
    /\ migration.at \in {"split", "list"} =>
         /\ listed = Saves!Legacy /\ migration.before \in Sheets
         /\ migration.files = Split(migration.before)
    /\ migration.at = "split" /\ Saves!Todo # {} => Saves!Merged = migration.before
    /\ migration.at = "list" => Saves!Todo = {}
    /\ migration.at # "over" => \A r \in Requests : request[r].at = "idle"

(* What a request has written so far of a section.                         *)
SoFar(q, s) ==
    IF s \in Saves!Owners(q.changes) \ DOMAIN q.plan
      THEN After(q.before[s], Saves!Plan(q.before, q.changes)[s])
      ELSE q.before[s]

(* While nobody else changes a file, the merge is what the request found   *)
(* with what it has written in its place, but of sections it writes and    *)
(* other files speak of.                                                   *)
Editing(q) ==
    /\ Changing(q.changes) /\ DOMAIN q.changes # {} /\ q.before \in Sheets
    /\ ~Saves!Refuses(q.before, q.changes)
    /\ DOMAIN q.plan \subseteq Saves!Owners(q.changes)
    /\ \A s \in DOMAIN q.plan : q.plan[s] = Saves!Plan(q.before, q.changes)[s]
    /\ q.alone => \A s \in Sections : (s \in Saves!Owners(q.changes) => Saves!OwnsAlone(s)) =>
                    Saves!Merged[s] = SoFar(q, s)

Asked ==
    /\ DOMAIN request = Requests
    /\ \A r \in Requests :
         /\ DOMAIN request[r] = {"at", "changes", "plan", "before", "alone"}
         /\ request[r].at \in {"idle", "write"}
         /\ request[r].at = "write" => Editing(request[r])

SaveInv == Filed /\ Migrates /\ Asked

(* The files that are listed.                                              *)
LEMMA ListedWritten ==
  ASSUME Filed
  PROVE  /\ Written(listed, disk) /\ Saves!ToSet(listed) = {listed[i] : i \in 1..Len(listed)}
         /\ Saves!ToSet(listed) \subseteq Saves!Files
<1>1. Len(listed) \in Nat /\ DOMAIN listed = 1..Len(listed) /\ \A i \in 1..Len(listed) : listed[i] \in Saves!Files
  BY DEF Filed
<1>2. Saves!ToSet(listed) = {listed[i] : i \in 1..Len(listed)}
  BY <1>1 DEF Saves!ToSet
<1> QED
  BY <1>1, <1>2 DEF Filed, Written

(* The files there are merge to one.                                       *)
LEMMA MergedSheet ==
  ASSUME Filed
  PROVE  Saves!Merged \in Sheets
<1>1. PICK g : Layered(listed, disk, g) /\ Saves!MergeOf(listed, disk) = g[Len(listed)]
  BY ListedWritten, MergedIsLayered
<1>2. Len(listed) \in 0..Len(listed)
  BY DEF Filed
<1> QED
  BY <1>1, <1>2 DEF Layered, Saves!Merged

(* Who owns a section alone has it in the merge.                           *)
LEMMA OwnedMerges ==
  ASSUME Saves!Named, Filed, NEW s \in Sections, Saves!OwnsAlone(s)
  PROVE  Saves!Merged[s] = Says(disk, s, s)
<1>1. Written(listed, disk) /\ Saves!ToSet(listed) = {listed[i] : i \in 1..Len(listed)}
  BY ListedWritten
<1>2. \A i \in 1..Len(listed) : listed[i] # s => Says(disk, listed[i], s) = Saves!Blank
  BY <1>1 DEF Saves!OwnsAlone, Says
<1>3. \E i \in 1..Len(listed) : listed[i] = s
  BY <1>1 DEF Saves!OwnsAlone
<1>4. disk[s] # None => disk[s] \in Sheets
  BY DEF Filed, Saves!Files
<1> QED
  BY <1>1, <1>2, <1>3, <1>4, MergedOwn DEF Saves!Merged

(* Where the listed files say the same of a section, so does the merge.    *)
LEMMA MergedStays ==
  ASSUME Filed, Filed', UNCHANGED listed, NEW s \in Sections,
         \A f \in Saves!ToSet(listed) : Says(disk', f, s) = Says(disk, f, s)
  PROVE  Saves!Merged'[s] = Saves!Merged[s]
<1> PICK e : e = disk'
  OBVIOUS
<1>1. Written(listed, disk) /\ Saves!ToSet(listed) = {listed[i] : i \in 1..Len(listed)}
      /\ Saves!ToSet(listed) \subseteq Saves!Files
  BY ListedWritten
<1>2. Written(listed, e)
  <2>1. \A f \in Saves!Files : e[f] # None => e[f] \in Sheets
    BY DEF Filed
  <2> QED
    BY <1>1, <2>1 DEF Written
<1>3. \A i \in 1..Len(listed) : Says(e, listed[i], s) = Says(disk, listed[i], s)
  BY <1>1
<1>4. Saves!MergeOf(listed, e)[s] = Saves!MergeOf(listed, disk)[s]
  BY <1>1, <1>2, <1>3, MergedAgrees
<1> QED
  BY <1>4 DEF Saves!Merged

(* A section is not an old file, and who asks for one asks of a section.   *)
LEMMA Apart ==
  ASSUME Saves!Named
  PROVE  /\ "values" \notin Sections /\ "overlay" \notin Sections
         /\ Saves!ToSet(Saves!Legacy) = {"values", "overlay"}
         /\ Saves!Files = Sections \cup {"values", "overlay"}
<1>1. Saves!ToSet(Saves!Legacy) = {"values", "overlay"}
  <2>1. DOMAIN Saves!Legacy = {1, 2} /\ Saves!Legacy[1] = "values" /\ Saves!Legacy[2] = "overlay"
    BY DEF Saves!Legacy
  <2> QED
    BY <2>1 DEF Saves!ToSet
<1> QED
  BY <1>1 DEF Saves!Named, Saves!Files

(* A missing file is none.                                                 *)
LEMMA NoneApart == ASSUME Saves!Named PROVE None \notin Sheets
BY DEF Saves!Named, Saves!Entry, Sheets, SheetEntries

(* The sections a request changes, of which there is one.                  *)
LEMMA OwnersAre ==
  ASSUME NEW c, Changing(c)
  PROVE  Saves!Owners(c) \subseteq Sections /\ (DOMAIN c # {} => Saves!Owners(c) # {})
BY DEF Changing, Saves!Owners, Saves!Fields

(* A request that is not disturbed goes on as it was.                      *)
LEMMA EditingStays ==
  ASSUME NEW q, Editing(q), UNCHANGED <<disk, listed>>
  PROVE  Editing(q)'
<1>1. Saves!Merged' = Saves!Merged /\ \A s : Saves!OwnsAlone(s)' = Saves!OwnsAlone(s)
  BY DEF Saves!Merged, Saves!OwnsAlone
<1> QED
  BY <1>1 DEF Editing, SoFar

(* One that is disturbed is held to nothing.                               *)
LEMMA EditingDisturbed ==
  ASSUME NEW q, Editing(q), NEW d, d.changes = q.changes, d.plan = q.plan, d.before = q.before,
         d.alone = FALSE
  PROVE  Editing(d)'
BY DEF Editing

(* What a change of the files makes of the requests.                       *)
LEMMA Disturbs ==
  ASSUME Asked, NEW who
  PROVE  LET w == Saves!Disturb(who)
         IN  /\ DOMAIN w = Requests
             /\ \A r \in Requests :
                  /\ DOMAIN w[r] = {"at", "changes", "plan", "before", "alone"}
                  /\ w[r].at = request[r].at /\ w[r].changes = request[r].changes
                  /\ w[r].plan = request[r].plan /\ w[r].before = request[r].before
                  /\ r \in who => w[r] = request[r]
                  /\ r \notin who /\ request[r].at # "idle" => w[r].alone = FALSE
<1> DEFINE w == Saves!Disturb(who)
<1>1. w = [r \in Requests |-> IF r \in who \/ request[r].at = "idle" THEN request[r]
                              ELSE [request[r] EXCEPT !.alone = FALSE]]
  BY DEF Saves!Disturb
<1> HIDE DEF w
<1>2. ASSUME NEW r \in Requests
      PROVE  /\ DOMAIN w[r] = {"at", "changes", "plan", "before", "alone"}
             /\ w[r].at = request[r].at /\ w[r].changes = request[r].changes
             /\ w[r].plan = request[r].plan /\ w[r].before = request[r].before
             /\ r \in who => w[r] = request[r]
             /\ r \notin who /\ request[r].at # "idle" => w[r].alone = FALSE
  <2>1. DOMAIN request[r] = {"at", "changes", "plan", "before", "alone"}
    BY DEF Asked
  <2>2. CASE r \in who \/ request[r].at = "idle"
    <3>1. w[r] = request[r]
      BY <1>1, <2>2
    <3> QED
      BY <2>1, <2>2, <3>1
  <2>3. CASE ~(r \in who \/ request[r].at = "idle")
    <3>1. w[r] = [request[r] EXCEPT !.alone = FALSE]
      BY <1>1, <2>3
    <3> QED
      BY <2>1, <2>3, <3>1
  <2> QED
    BY <2>2, <2>3
<1> QED
  BY <1>1, <1>2 DEF w

(* Everybody who is at work was disturbed.                                 *)
LEMMA AllDisturbed ==
  ASSUME Asked, request' = Saves!Disturb({})
  PROVE  Asked'
<1> DEFINE w == Saves!Disturb({})
<1>1. /\ DOMAIN w = Requests
      /\ \A r \in Requests :
           /\ DOMAIN w[r] = {"at", "changes", "plan", "before", "alone"}
           /\ w[r].at = request[r].at /\ w[r].changes = request[r].changes
           /\ w[r].plan = request[r].plan /\ w[r].before = request[r].before
           /\ r \notin {} /\ request[r].at # "idle" => w[r].alone = FALSE
  BY Disturbs
<1> HIDE DEF w
<1>2. request' = w
  BY DEF w
<1>3. ASSUME NEW r \in Requests
      PROVE  /\ DOMAIN request'[r] = {"at", "changes", "plan", "before", "alone"}
             /\ request'[r].at \in {"idle", "write"}
             /\ request'[r].at = "write" => Editing(request[r])'
  <2>1. request'[r] = w[r]
    BY <1>2
  <2>2. request[r].at \in {"idle", "write"} /\ (request[r].at = "write" => Editing(request[r]))
    BY DEF Asked
  <2>3. ASSUME request[r].at = "write" PROVE Editing(request[r])'
    <3>1. PICK q : q = request[r]
      OBVIOUS
    <3>2. PICK d : d = request'[r]
      OBVIOUS
    <3>3. Editing(q) /\ d.changes = q.changes /\ d.plan = q.plan /\ d.before = q.before /\ d.alone = FALSE
      BY <1>1, <2>1, <2>2, <2>3, <3>1, <3>2
    <3>4. Editing(d)'
      BY <3>3, EditingDisturbed
    <3> QED
      BY <3>2, <3>4
  <2> QED
    BY <1>1, <2>1, <2>2, <2>3
<1> QED
  BY <1>1, <1>2, <1>3 DEF Asked

(* A request reads the merge and makes its plan.                           *)
LEMMA SaveBegins ==
  ASSUME Saves!Named, SaveInv, NEW r \in Requests, Saves!Begin(r)
  PROVE  SaveInv'
<1>1. UNCHANGED <<disk, listed, migration>> /\ migration.at = "over"
  BY DEF Saves!Begin, Saves!Up
<1>2. Saves!Merged' = Saves!Merged
  BY <1>1 DEF Saves!Merged
<1>3. Filed' /\ Migrates'
  BY <1>1 DEF SaveInv, Filed, Migrates
<1>4. PICK F \in SUBSET Saves!Fields : \E c \in [F -> Values \cup {None}] :
        /\ F # {}
        /\ request' = [request EXCEPT ![r] =
              [at |-> "write", changes |-> c, before |-> Saves!Merged, plan |-> Saves!Plan(Saves!Merged, c),
               alone |-> \A q \in Requests : request[q].at = "idle"]]
        /\ ~Saves!Refuses(Saves!Merged, c)
  BY DEF Saves!Begin
<1>5. PICK c \in [F -> Values \cup {None}] :
        /\ F # {}
        /\ request' = [request EXCEPT ![r] =
              [at |-> "write", changes |-> c, before |-> Saves!Merged, plan |-> Saves!Plan(Saves!Merged, c),
               alone |-> \A q \in Requests : request[q].at = "idle"]]
        /\ ~Saves!Refuses(Saves!Merged, c)
  BY <1>4
<1>6. PICK m : m = Saves!Merged
  OBVIOUS
<1>7. PICK q : q = [at |-> "write", changes |-> c, before |-> m, plan |-> Saves!Plan(m, c),
                    alone |-> \A x \in Requests : request[x].at = "idle"]
  OBVIOUS
<1>8. request' = [request EXCEPT ![r] = q]
  BY <1>5, <1>6, <1>7
<1>9. /\ q.changes = c /\ q.before = m /\ q.plan = Saves!Plan(m, c) /\ q.at = "write"
      /\ DOMAIN q = {"at", "changes", "plan", "before", "alone"}
  BY <1>7
<1>10. m \in Sheets /\ DOMAIN Saves!Plan(m, c) = Saves!Owners(c)
  BY <1>6, MergedSheet DEF SaveInv, Saves!Plan
<1>11. Changing(c) /\ DOMAIN c # {} /\ ~Saves!Refuses(m, c)
  BY <1>5, <1>6 DEF Changing
<1>12. Editing(q)
  BY <1>6, <1>9, <1>10, <1>11 DEF Editing, SoFar
<1>13. \A x \in Requests : request'[x] = IF x = r THEN q ELSE request[x]
  BY <1>8 DEF SaveInv, Asked
<1>14. ASSUME NEW x \in Requests
       PROVE  /\ DOMAIN request'[x] = {"at", "changes", "plan", "before", "alone"}
              /\ request'[x].at \in {"idle", "write"}
              /\ request'[x].at = "write" => Editing(request[x])'
  <2>1. PICK d : d = request'[x]
    OBVIOUS
  <2>2. /\ DOMAIN d = {"at", "changes", "plan", "before", "alone"} /\ d.at \in {"idle", "write"}
        /\ d.at = "write" => Editing(d)
    BY <1>9, <1>12, <1>13, <2>1 DEF SaveInv, Asked
  <2>3. d.at = "write" => Editing(d)'
    BY <1>1, <1>2, <2>2, EditingStays
  <2> QED
    BY <2>1, <2>2, <2>3
<1>15. Asked'
  BY <1>8, <1>14 DEF SaveInv, Asked
<1> QED
  BY <1>3, <1>15 DEF SaveInv

(* A request ends.                                                         *)
LEMMA SaveEnds ==
  ASSUME SaveInv, UNCHANGED <<disk, listed, migration>>, NEW r \in Requests,
         request' = [request EXCEPT ![r] = Saves!Idle]
  PROVE  SaveInv'
<1>1. Saves!Merged' = Saves!Merged
  BY DEF Saves!Merged
<1>2. Filed'
  BY DEF SaveInv, Filed
<1>3. /\ Saves!Idle.at = "idle" /\ DOMAIN Saves!Idle = {"at", "changes", "plan", "before", "alone"}
  BY DEF Saves!Idle
<1>4. \A x \in Requests : request'[x] = IF x = r THEN Saves!Idle ELSE request[x]
  BY DEF SaveInv, Asked
<1>5. Migrates'
  BY <1>1, <1>3, <1>4 DEF SaveInv, Migrates, Saves!Todo
<1>6. ASSUME NEW x \in Requests
      PROVE  /\ DOMAIN request'[x] = {"at", "changes", "plan", "before", "alone"}
             /\ request'[x].at \in {"idle", "write"}
             /\ request'[x].at = "write" => Editing(request[x])'
  <2>1. PICK d : d = request'[x]
    OBVIOUS
  <2>2. /\ DOMAIN d = {"at", "changes", "plan", "before", "alone"} /\ d.at \in {"idle", "write"}
        /\ d.at = "write" => Editing(d)
    BY <1>3, <1>4, <2>1 DEF SaveInv, Asked
  <2>3. d.at = "write" => Editing(d)'
    BY <1>1, <2>2, EditingStays
  <2> QED
    BY <2>1, <2>2, <2>3
<1>7. Asked'
  BY <1>6 DEF SaveInv, Asked
<1> QED
  BY <1>2, <1>5, <1>7 DEF SaveInv

(* The file of a section as a request writes it.                           *)
LEMMA EditedSheet ==
  ASSUME Saves!Named, Filed, NEW q, Editing(q), NEW s \in DOMAIN q.plan
  PROVE  /\ s \in Sections /\ Saves!Edited(s, q.plan[s]) \in Sheets
         /\ \A t \in Sections \ {s} : Saves!Edited(s, q.plan[s])[t] = Says(disk, s, t)
         /\ Saves!Edited(s, q.plan[s])[s] = After(Says(disk, s, s), Saves!Plan(q.before, q.changes)[s])
<1> DEFINE p == q.plan[s]
           old == IF disk[s] = None THEN Saves!EmptyFile ELSE disk[s]
<1>1. s \in Saves!Owners(q.changes) /\ s \in Sections /\ p = Saves!Plan(q.before, q.changes)[s]
  BY OwnersAre DEF Editing
<1>2. old \in Sheets /\ \A t \in Sections : old[t] = Says(disk, s, t)
  <2>1. CASE disk[s] = None
    BY <2>1, BlankSheet DEF Saves!EmptyFile, Says
  <2>2. CASE disk[s] # None
    BY <1>1, <2>2, Apart DEF Filed, Says
  <2> QED
    BY <2>1, <2>2
<1>3. Saves!Edited(s, p) = [old EXCEPT ![s] = After(old[s], p)]
  BY DEF Saves!Edited, After
<1>4. old[s] \in SheetEntries
  BY <1>1, <1>2 DEF Sheets
<1>5. After(old[s], p) \in SheetEntries
  BY <1>1, <1>4, AfterEntry DEF Editing
<1> HIDE DEF old, p
<1> DEFINE a == After(old[s], p)
<1>6. a = After(Says(disk, s, s), Saves!Plan(q.before, q.changes)[s])
  BY <1>1, <1>2
<1> HIDE DEF a
<1>7. /\ Saves!Edited(s, p) \in Sheets /\ Saves!Edited(s, p)[s] = a
      /\ \A t \in Sections \ {s} : Saves!Edited(s, p)[t] = old[t]
  <2>1. Saves!Edited(s, p) = [old EXCEPT ![s] = a]
    BY <1>3 DEF a
  <2>2. old \in [Sections -> SheetEntries] /\ a \in SheetEntries
    BY <1>2, <1>5 DEF Sheets, a
  <2> QED
    BY <1>1, <2>1, <2>2 DEF Sheets
<1> QED
  BY <1>1, <1>2, <1>6, <1>7 DEF p

(* A file is written.                                                      *)
LEMMA FileWritten ==
  ASSUME Saves!Named, Filed, NEW s \in Saves!Files, NEW x \in Sheets,
         disk' = [disk EXCEPT ![s] = x], UNCHANGED listed
  PROVE  /\ Filed' /\ DOMAIN disk' = Saves!Files /\ disk'[s] = x
         /\ \A f \in Saves!Files \ {s} : disk'[f] = disk[f]
         /\ s \notin Saves!ToSet(listed) => Saves!Merged' = Saves!Merged
<1>1. DOMAIN disk' = Saves!Files /\ disk'[s] = x /\ \A f \in Saves!Files \ {s} : disk'[f] = disk[f]
  BY DEF Filed
<1>2. Filed'
  BY <1>1 DEF Filed
<1>3. ASSUME s \notin Saves!ToSet(listed) PROVE Saves!Merged' = Saves!Merged
  <2>1. \A f \in Saves!ToSet(listed) : disk'[f] = disk[f]
    BY <1>1, <1>3, ListedWritten
  <2>2. \A t \in Sections : Saves!Merged'[t] = Saves!Merged[t]
    <3> SUFFICES ASSUME NEW t \in Sections PROVE Saves!Merged'[t] = Saves!Merged[t]
      OBVIOUS
    <3>1. \A f \in Saves!ToSet(listed) : Says(disk', f, t) = Says(disk, f, t)
      BY <2>1 DEF Says
    <3> QED
      BY <1>2, <3>1, MergedStays
  <2>3. Saves!Merged \in Sheets
    BY MergedSheet
  <2>4. Saves!Merged' \in Sheets
    <3>1. PICK g : Layered(listed, disk', g) /\ Saves!MergeOf(listed, disk') = g[Len(listed)]
      <4>1. PICK e : e = disk'
        OBVIOUS
      <4>2. Written(listed, e)
        BY <1>1, <4>1, ListedWritten DEF Filed, Written
      <4> QED
        BY <4>1, <4>2, MergedIsLayered
    <3>2. Len(listed) \in 0..Len(listed)
      BY DEF Filed
    <3> QED
      BY <3>1, <3>2 DEF Layered, Saves!Merged
  <2> QED
    BY <2>2, <2>3, <2>4 DEF Sheets
<1> QED
  BY <1>1, <1>2, <1>3

(* A request writes one of its files.                                      *)
LEMMA SaveWrites ==
  ASSUME Saves!Named, SaveInv, NEW r \in Requests, Saves!Up, request[r].at = "write",
         NEW s \in DOMAIN request[r].plan,
         disk' = [disk EXCEPT ![s] = Saves!Edited(s, request[r].plan[s])],
         request' = [Saves!Disturb({r}) EXCEPT ![r].plan =
                       [x \in DOMAIN request[r].plan \ {s} |-> request[r].plan[x]]],
         UNCHANGED <<listed, migration>>
  PROVE  SaveInv'
<1>1. Filed /\ Migrates /\ Asked
  BY DEF SaveInv
<1>2. PICK q : q = request[r]
  OBVIOUS
<1>3. Editing(q)
  BY <1>1, <1>2 DEF Asked
<1> DEFINE x == Saves!Edited(s, q.plan[s])
           rest == [t \in DOMAIN q.plan \ {s} |-> q.plan[t]]
<1>4. /\ s \in Sections /\ x \in Sheets /\ \A t \in Sections \ {s} : x[t] = Says(disk, s, t)
      /\ x[s] = After(Says(disk, s, s), Saves!Plan(q.before, q.changes)[s])
  BY <1>1, <1>2, <1>3, EditedSheet
<1>5. disk' = [disk EXCEPT ![s] = x]
  BY <1>2
<1> HIDE DEF x
<1>6. /\ Filed' /\ DOMAIN disk' = Saves!Files /\ disk'[s] = x
      /\ \A f \in Saves!Files \ {s} : disk'[f] = disk[f]
  BY <1>1, <1>4, <1>5, FileWritten, Apart
<1>7. Migrates'
  <2>1. migration.at = "over" /\ UNCHANGED migration
    BY DEF Saves!Up
  <2> QED
    BY <2>1 DEF Migrates
<1> DEFINE w == Saves!Disturb({r})
<1>8. /\ DOMAIN w = Requests
      /\ \A p \in Requests :
           /\ DOMAIN w[p] = {"at", "changes", "plan", "before", "alone"}
           /\ w[p].at = request[p].at /\ w[p].changes = request[p].changes
           /\ w[p].plan = request[p].plan /\ w[p].before = request[p].before
           /\ p \in {r} => w[p] = request[p]
           /\ p \notin {r} /\ request[p].at # "idle" => w[p].alone = FALSE
  BY <1>1, Disturbs
<1>9. request' = [w EXCEPT ![r].plan = rest]
  BY <1>2
<1> HIDE DEF w, rest
<1>10. /\ DOMAIN request' = Requests
       /\ \A p \in Requests \ {r} : request'[p] = w[p]
       /\ request'[r] = [q EXCEPT !.plan = rest]
  BY <1>2, <1>8, <1>9
<1>11. DOMAIN q = {"at", "changes", "plan", "before", "alone"} /\ q.at = "write"
  BY <1>1, <1>2 DEF Asked
<1>12. PICK d : d = request'[r]
  OBVIOUS
<1>13. /\ DOMAIN d = {"at", "changes", "plan", "before", "alone"} /\ d.at = "write"
       /\ d.changes = q.changes /\ d.before = q.before /\ d.alone = q.alone /\ d.plan = rest
  BY <1>10, <1>11, <1>12
<1>14. DOMAIN rest = DOMAIN q.plan \ {s} /\ \A t \in DOMAIN rest : rest[t] = q.plan[t]
  BY DEF rest
<1>15. Editing(d)'
  <2>1. /\ Changing(d.changes) /\ DOMAIN d.changes # {} /\ d.before \in Sheets
        /\ ~Saves!Refuses(d.before, d.changes)
        /\ DOMAIN d.plan \subseteq Saves!Owners(d.changes)
        /\ \A t \in DOMAIN d.plan : d.plan[t] = Saves!Plan(d.before, d.changes)[t]
    BY <1>3, <1>13, <1>14 DEF Editing
  <2>2. ASSUME q.alone, NEW t \in Sections, t \in Saves!Owners(q.changes) => Saves!OwnsAlone(t)'
        PROVE  Saves!Merged'[t] = SoFar(d, t)
    <3>1. Saves!ToSet(listed) \subseteq Saves!Files /\ s \in Saves!Owners(q.changes)
      BY <1>1, <1>2, <1>3, ListedWritten DEF Editing
    <3>2. \A f \in Saves!ToSet(listed) \ {s} : disk'[f] = disk[f]
      BY <1>6, <3>1
    <3>3. disk'[s] # None
      BY <1>4, <1>6, NoneApart
    <3>4. Saves!OwnsAlone(t)' => t \in Saves!ToSet(listed)
      BY DEF Saves!OwnsAlone
    <3>5. Saves!OwnsAlone(t)' => Saves!OwnsAlone(t)
      <4> SUFFICES ASSUME Saves!OwnsAlone(t)', NEW f \in Saves!ToSet(listed) \ {t}, disk[f] # None
                   PROVE  disk[f][t] = Saves!Blank
        BY <3>4 DEF Saves!OwnsAlone
      <4>1. disk'[f] # None => disk'[f][t] = Saves!Blank
        BY DEF Saves!OwnsAlone
      <4>2. CASE f # s
        BY <3>2, <4>1, <4>2
      <4>3. CASE f = s
        BY <1>4, <1>6, <3>3, <4>1, <4>3 DEF Says
      <4> QED
        BY <4>2, <4>3
    <3>6. Saves!Merged[t] = SoFar(q, t)
      BY <1>3, <2>2, <3>5 DEF Editing
    <3>7. CASE t = s
      <4>1. Saves!OwnsAlone(s) /\ Saves!OwnsAlone(s)'
        BY <2>2, <3>1, <3>5, <3>7
      <4>2. Saves!Merged[s] = Says(disk, s, s)
        BY <1>1, <1>4, <4>1, OwnedMerges
      <4>3. SoFar(q, s) = q.before[s]
        BY <1>2, <3>1 DEF SoFar
      <4>4. Saves!Merged'[s] = x[s]
        <5>1. PICK e : e = disk'
          OBVIOUS
        <5>2. /\ Written(listed, e) /\ Saves!ToSet(listed) = {listed[i] : i \in 1..Len(listed)}
          BY <1>1, <1>6, <5>1, ListedWritten DEF Filed, Written
        <5>3. \A i \in 1..Len(listed) : listed[i] # s => Says(e, listed[i], s) = Saves!Blank
          BY <4>1, <5>1, <5>2 DEF Saves!OwnsAlone, Says
        <5>4. \E i \in 1..Len(listed) : listed[i] = s
          BY <3>4, <3>7, <4>1, <5>2
        <5>5. Says(e, s, s) = x[s] /\ e[s] \in Sheets
          BY <1>4, <1>6, <3>3, <5>1 DEF Says
        <5>6. Saves!MergeOf(listed, e)[s] = x[s]
          BY <1>4, <5>2, <5>3, <5>4, <5>5, MergedOwn
        <5> QED
          BY <5>1, <5>6 DEF Saves!Merged
      <4>5. SoFar(d, s) = After(q.before[s], Saves!Plan(q.before, q.changes)[s])
        BY <1>13, <1>14, <3>1 DEF SoFar
      <4> QED
        BY <1>4, <3>6, <3>7, <4>2, <4>3, <4>4, <4>5
    <3>8. CASE t # s
      <4>1. ASSUME NEW f \in Saves!ToSet(listed) PROVE Says(disk', f, t) = Says(disk, f, t)
        <5>1. CASE f # s
          BY <3>2, <4>1, <5>1 DEF Says
        <5>2. CASE f = s
          BY <1>4, <1>6, <3>3, <3>8, <5>2 DEF Says
        <5> QED
          BY <5>1, <5>2
      <4>2. Saves!Merged'[t] = Saves!Merged[t]
        BY <1>1, <1>6, <4>1, MergedStays
      <4>3. SoFar(d, t) = SoFar(q, t)
        BY <1>13, <1>14, <3>8 DEF SoFar
      <4> QED
        BY <3>6, <4>2, <4>3
    <3> QED
      BY <3>7, <3>8
  <2> QED
    BY <1>13, <2>1, <2>2 DEF Editing, SoFar
<1>16. ASSUME NEW p \in Requests
       PROVE  /\ DOMAIN request'[p] = {"at", "changes", "plan", "before", "alone"}
              /\ request'[p].at \in {"idle", "write"}
              /\ request'[p].at = "write" => Editing(request[p])'
  <2>1. CASE p = r
    BY <1>12, <1>13, <1>15, <2>1
  <2>2. CASE p # r
    <3>1. PICK e : e = request'[p]
      OBVIOUS
    <3>2. PICK f : f = request[p]
      OBVIOUS
    <3>3. /\ DOMAIN e = {"at", "changes", "plan", "before", "alone"}
          /\ e.at = f.at /\ e.changes = f.changes /\ e.plan = f.plan /\ e.before = f.before
          /\ f.at # "idle" => e.alone = FALSE
      <4>1. e = w[p] /\ p \notin {r}
        BY <1>10, <2>2, <3>1
      <4> QED
        BY <1>8, <3>2, <4>1
    <3>4. f.at \in {"idle", "write"} /\ (f.at = "write" => Editing(f))
      BY <1>1, <3>2 DEF Asked
    <3>5. e.at = "write" => Editing(e)'
      BY <3>3, <3>4, EditingDisturbed
    <3> QED
      BY <3>1, <3>3, <3>4, <3>5
  <2> QED
    BY <2>1, <2>2
<1>17. Asked'
  BY <1>10, <1>16 DEF Asked
<1> QED
  BY <1>6, <1>7, <1>17 DEF SaveInv

(* The operator edits a file as text.                                      *)
LEMMA SavePuts ==
  ASSUME Saves!Named, SaveInv, Saves!PutSlice
  PROVE  SaveInv'
<1>1. /\ migration.at = "over" /\ UNCHANGED <<listed, migration>> /\ request' = Saves!Disturb({})
  BY DEF Saves!PutSlice, Saves!Up
<1>2. PICK f \in Saves!ToSet(listed), x \in Texts : disk' = [disk EXCEPT ![f] = x]
  BY DEF Saves!PutSlice
<1>3. f \in Saves!Files /\ x \in Sheets
  BY ListedWritten DEF SaveInv, Saves!Named, Saves!Entry, Sheets, SheetEntries
<1>4. Filed'
  BY <1>1, <1>2, <1>3, FileWritten DEF SaveInv
<1>5. Migrates'
  BY <1>1 DEF Migrates
<1>6. Asked'
  BY <1>1, AllDisturbed DEF SaveInv
<1> QED
  BY <1>4, <1>5, <1>6 DEF SaveInv

(* What a release or the chart says of the sections.                       *)
LEMMA ContentSheet ==
  ASSUME Saves!Named, NEW c \in Saves!Contents
  PROVE  c \in Sheets
<1> DEFINE content(S, e) == [s \in Sections |-> IF s \in S THEN e ELSE Saves!Blank]
<1>1. PICK S \in SUBSET Sections, v \in Values, b \in {None, [k \in Keys |-> Default]} :
        c = content(S, [val |-> v, ours |-> None, other |-> b])
  <2> DEFINE bs == {None, [k \in Keys |-> Default]}
             told(S, v, b) == content(S, [val |-> v, ours |-> None, other |-> b])
  <2>1. c \in {told(S, v, b) : S \in SUBSET Sections, v \in Values, b \in bs}
    BY DEF Saves!Contents
  <2> HIDE DEF bs, told
  <2>2. \E S \in SUBSET Sections, v \in Values, b \in bs : c = told(S, v, b)
    BY <2>1
  <2> QED
    BY <2>2 DEF bs, told
<1>2. None \in Saves!Blocks /\ b \in Saves!Blocks
  <2>1. [k \in Keys |-> Default] \in [Keys -> Values] /\ Keys \in (SUBSET Keys) \ {{}}
    BY DEF Saves!Named
  <2>2. [k \in Keys |-> Default] \in Saves!Blocks
    BY <2>1 DEF Saves!Blocks
  <2> QED
    BY <2>2 DEF Saves!Blocks
<1> DEFINE e == [val |-> v, ours |-> None, other |-> b]
<1>3. e \in SheetEntries /\ Saves!Blank \in SheetEntries
  BY <1>2, BlankSheet DEF SheetEntries
<1> HIDE DEF e
<1>4. c \in [Sections -> SheetEntries]
  BY <1>1, <1>3 DEF e
<1> QED
  BY <1>4 DEF Sheets

(* A repository is seeded.                                                 *)
LEMMA SaveSeeds ==
  ASSUME Saves!Named, SaveInv, Saves!Seed
  PROVE  SaveInv'
<1>1. /\ migration.at = "over" /\ UNCHANGED migration /\ request' = Saves!Disturb({}) /\ listed = <<>>
  BY DEF Saves!Seed, Saves!Up
<1>2. PICK c \in Saves!Contents : \E F \in SUBSET Saves!InSections(c) :
        /\ disk' = [f \in Saves!Files |-> IF f \in F THEN [Saves!EmptyFile EXCEPT ![f] = c[f]] ELSE disk[f]]
        /\ \/ F = Saves!InSections(c) /\ listed' = Saves!SetToSeq(F)
           \/ UNCHANGED listed
  BY DEF Saves!Seed
<1>3. PICK F \in SUBSET Saves!InSections(c) :
        /\ disk' = [f \in Saves!Files |-> IF f \in F THEN [Saves!EmptyFile EXCEPT ![f] = c[f]] ELSE disk[f]]
        /\ \/ F = Saves!InSections(c) /\ listed' = Saves!SetToSeq(F)
           \/ UNCHANGED listed
  BY <1>2
<1>4. F \subseteq Sections /\ c \in Sheets
  BY ContentSheet DEF Saves!InSections
<1> DEFINE x(f) == [Saves!EmptyFile EXCEPT ![f] = c[f]]
<1>5. ASSUME NEW f \in Sections PROVE x(f) \in Sheets
  <2>1. Saves!EmptyFile \in [Sections -> SheetEntries] /\ c[f] \in SheetEntries
    BY <1>4, BlankSheet DEF Sheets
  <2> QED
    BY <2>1 DEF Sheets
<1>6. DOMAIN disk' = Saves!Files /\ \A f \in Saves!Files : disk'[f] = IF f \in F THEN x(f) ELSE disk[f]
  BY <1>3
<1> HIDE DEF x
<1>7. \A f \in Saves!Files : disk'[f] # None => disk'[f] \in Sheets
  BY <1>4, <1>5, <1>6 DEF SaveInv, Filed
<1>9. (listed \in Seq(Sections))'
  <2>1. CASE listed' = Saves!SetToSeq(F)
    <3>1. Saves!SetToSeq(F) \in Seq(F)
      BY <1>4, SetListed DEF Saves!Named
    <3> QED
      BY <1>4, <2>1, <3>1
  <2>2. CASE UNCHANGED listed
    BY <1>1, <2>2
  <2> QED
    BY <1>3, <2>1, <2>2
<1>10. Filed'
  <2>1. (listed \in Seq(Saves!Files))'
    BY <1>9, Apart
  <2> QED
    BY <1>6, <1>7, <1>9, <2>1 DEF Filed
<1>11. Migrates'
  BY <1>1 DEF Migrates
<1>12. Asked'
  BY <1>1, AllDisturbed DEF SaveInv
<1> QED
  BY <1>10, <1>11, <1>12 DEF SaveInv

(* Nobody is at work while a migration runs, and nobody starts.            *)
LEMMA AskedStays ==
  ASSUME Asked, UNCHANGED request, \A r \in Requests : request[r].at = "idle"
  PROVE  Asked'
BY DEF Asked

(* The sections of the merge are split.                                    *)
LEMMA MigrationStarts ==
  ASSUME Saves!Named, SaveInv, Saves!MigrationBegins
  PROVE  SaveInv'
<1>1. /\ migration.at = "start" /\ UNCHANGED <<disk, listed, request>>
  BY DEF Saves!MigrationBegins
<1>2. Saves!Merged' = Saves!Merged /\ Filed'
  BY <1>1 DEF Saves!Merged, SaveInv, Filed
<1>3. \A r \in Requests : request[r].at = "idle"
  BY <1>1 DEF SaveInv, Migrates
<1>4. Asked'
  BY <1>1, <1>3, AskedStays DEF SaveInv
<1>5. CASE Saves!IsMigrated
  <2>1. migration' = [migration EXCEPT !.at = "over"]
    BY <1>5 DEF Saves!MigrationBegins
  <2>2. migration'.at = "over"
    BY <2>1 DEF SaveInv, Migrates
  <2> QED
    BY <1>2, <1>4, <2>2 DEF SaveInv, Migrates
<1>6. CASE ~Saves!IsMigrated
  <2>1. listed = Saves!Legacy
    <3>1. listed \in Seq(Sections) => Saves!ToSet(listed) \subseteq Sections
      BY DEF Saves!ToSet
    <3> QED
      BY <1>6, <3>1, Apart DEF SaveInv, Filed, Saves!IsMigrated
  <2>2. /\ migration'.at = "split" /\ migration'.before = Saves!Merged
        /\ migration'.files = Split(Saves!Merged)
    BY <1>6 DEF Saves!MigrationBegins, Split
  <2>3. Saves!Merged \in Sheets
    BY MergedSheet DEF SaveInv
  <2>4. Migrates'
    <3>1. PICK m : m = Saves!Merged
      OBVIOUS
    <3>2. /\ migration'.at = "split" /\ migration'.before = m /\ migration'.files = Split(m) /\ m \in Sheets
          /\ listed' = Saves!Legacy /\ Saves!Merged' = m
      BY <1>1, <1>2, <2>1, <2>2, <2>3, <3>1
    <3> QED
      BY <1>1, <1>3, <3>2 DEF Migrates
  <2> QED
    BY <1>2, <1>4, <2>4 DEF SaveInv
<1> QED
  BY <1>5, <1>6

(* A new file of a section.                                                *)
LEMMA SplitFile ==
  ASSUME NEW c \in Sheets
  PROVE  /\ DOMAIN Split(c) = Saves!InSections(c) /\ DOMAIN Split(c) \subseteq Sections
         /\ \A s \in DOMAIN Split(c) :
              /\ Split(c)[s] \in Sheets /\ Split(c)[s][s] = c[s]
              /\ \A t \in Sections \ {s} : Split(c)[s][t] = Saves!Blank
<1>1. DOMAIN Split(c) = Saves!InSections(c) /\ DOMAIN Split(c) \subseteq Sections
  BY DEF Split, Saves!InSections
<1>2. ASSUME NEW s \in DOMAIN Split(c)
      PROVE  /\ Split(c)[s] \in Sheets /\ Split(c)[s][s] = c[s]
             /\ \A t \in Sections \ {s} : Split(c)[s][t] = Saves!Blank
  <2> DEFINE x == Split(c)[s]
  <2>1. s \in Sections /\ x = [Saves!EmptyFile EXCEPT ![s] = c[s]]
    BY <1>1 DEF Split
  <2>2. Saves!EmptyFile \in [Sections -> SheetEntries] /\ Sheets = [Sections -> SheetEntries] /\ c[s] \in SheetEntries
    BY <2>1, BlankSheet DEF Sheets
  <2> HIDE DEF x
  <2>3. x \in Sheets /\ x[s] = c[s] /\ \A t \in Sections \ {s} : x[t] = Saves!EmptyFile[t]
    BY <2>1, <2>2
  <2> QED
    BY <2>3 DEF x, Saves!EmptyFile
<1> QED
  BY <1>1, <1>2

(* A new file is written, or the migration gives up with all as it was.    *)
LEMMA MigrationGoesOn ==
  ASSUME Saves!Named, SaveInv, Saves!MigrationWrites
  PROVE  SaveInv' /\ (migration'.at = "over" => Saves!Merged' = migration.before)
<1>1. /\ migration.at = "split" /\ Saves!Todo # {} /\ UNCHANGED <<listed, request>>
  BY DEF Saves!MigrationWrites
<1>2. /\ listed = Saves!Legacy /\ migration.before \in Sheets /\ migration.files = Split(migration.before)
      /\ Saves!Merged = migration.before /\ \A r \in Requests : request[r].at = "idle"
  BY <1>1 DEF SaveInv, Migrates
<1>3. Asked'
  BY <1>1, <1>2, AskedStays DEF SaveInv
<1>4. ASSUME NEW s \in Saves!Todo, disk' = [disk EXCEPT ![s] = migration.files[s]], UNCHANGED migration
      PROVE  SaveInv' /\ migration'.at = "split"
  <2>1. s \in DOMAIN Split(migration.before)
    BY <1>2 DEF Saves!Todo
  <2>2. PICK x : x = Split(migration.before)[s]
    OBVIOUS
  <2>3. s \in Sections /\ x \in Sheets /\ s \in Saves!Files /\ s \notin Saves!ToSet(listed)
    BY <1>2, <2>1, <2>2, SplitFile, Apart
  <2>4. disk' = [disk EXCEPT ![s] = x]
    BY <1>2, <1>4, <2>2
  <2>5. Filed' /\ Saves!Merged' = Saves!Merged
    BY <1>1, <1>2, <2>3, <2>4, FileWritten DEF SaveInv
  <2>6. Migrates'
    BY <1>1, <1>2, <1>4, <2>5 DEF Migrates
  <2> QED
    BY <1>1, <1>3, <1>4, <2>5, <2>6 DEF SaveInv
<1>5. ASSUME Saves!MigrationStops, UNCHANGED disk PROVE SaveInv' /\ Saves!Merged' = migration.before
  <2>1. migration'.at = "over"
    BY <1>5 DEF Saves!MigrationStops, Saves!NoMigration
  <2>2. Saves!Merged' = Saves!Merged /\ Filed'
    BY <1>1, <1>5 DEF Saves!Merged, SaveInv, Filed
  <2>3. Migrates'
    BY <2>1 DEF Migrates
  <2> QED
    BY <1>2, <1>3, <2>2, <2>3 DEF SaveInv
<1> QED
  BY <1>1, <1>4, <1>5 DEF Saves!MigrationWrites

(* An old file is removed: what was split is written already.              *)
LEMMA MigrationClears ==
  ASSUME Saves!Named, SaveInv, Saves!MigrationRemoves
  PROVE  SaveInv' /\ migration'.at # "over"
<1>1. /\ migration.at = "split" /\ Saves!Todo = {} /\ UNCHANGED <<listed, request>>
  BY DEF Saves!MigrationRemoves
<1>2. /\ listed = Saves!Legacy /\ migration.before \in Sheets /\ migration.files = Split(migration.before)
      /\ \A r \in Requests : request[r].at = "idle"
  BY <1>1 DEF SaveInv, Migrates
<1>3. Asked'
  BY <1>1, <1>2, AskedStays DEF SaveInv
<1>4. DOMAIN migration.files \subseteq Sections
  BY <1>2, SplitFile
<1>5. CASE UNCHANGED disk
  <2>1. migration' = [migration EXCEPT !.at = "list"]
    <3> DEFINE left == {i \in DOMAIN Saves!Legacy : disk[Saves!Legacy[i]] # None}
    <3>1. ASSUME left # {} PROVE disk' # disk
      <4>1. PICK i \in left : disk' = [disk EXCEPT ![Saves!Legacy[i]] = None]
        <5>1. left \subseteq {1, 2}
          BY DEF Saves!Legacy
        <5>2. \E i \in left : \A j \in left : i <= j
          BY <3>1, <5>1
        <5>3. (CHOOSE i \in left : \A j \in left : i <= j) \in left
          BY <5>2
        <5> QED
          BY <3>1, <5>3 DEF Saves!MigrationRemoves
      <4>2. disk[Saves!Legacy[i]] # None /\ Saves!Legacy[i] \in Saves!Files
        BY DEF Saves!Files, Saves!ToSet
      <4>3. disk'[Saves!Legacy[i]] = None
        BY <4>1, <4>2 DEF SaveInv, Filed
      <4> QED
        BY <4>2, <4>3
    <3> QED
      BY <1>5, <3>1 DEF Saves!MigrationRemoves
  <2>2. migration'.at = "list" /\ migration'.files = migration.files /\ migration'.before = migration.before
    BY <2>1 DEF SaveInv, Migrates
  <2>3. Saves!Todo' = {}
    BY <1>1, <1>5, <2>2 DEF Saves!Todo
  <2>4. Migrates'
    BY <1>1, <1>2, <2>2, <2>3 DEF Migrates
  <2>5. Filed'
    BY <1>1, <1>5 DEF SaveInv, Filed
  <2> QED
    BY <1>3, <2>2, <2>4, <2>5 DEF SaveInv
<1>6. CASE ~UNCHANGED disk
  <2>1. UNCHANGED migration
    BY <1>6 DEF Saves!MigrationRemoves
  <2> DEFINE left == {i \in DOMAIN Saves!Legacy : disk[Saves!Legacy[i]] # None}
  <2>2. PICK f : disk' = [disk EXCEPT ![f] = None] /\ f \in {"values", "overlay"}
    <3>1. left \subseteq {1, 2} /\ Saves!Legacy[1] = "values" /\ Saves!Legacy[2] = "overlay"
      BY DEF Saves!Legacy
    <3>2. left # {}
      BY <1>6 DEF Saves!MigrationRemoves
    <3>3. \E i \in left : \A j \in left : i <= j
      BY <3>1, <3>2
    <3>4. (CHOOSE i \in left : \A j \in left : i <= j) \in left
      BY <3>3
    <3> QED
      BY <1>6, <3>1, <3>4 DEF Saves!MigrationRemoves
  <2>3. /\ DOMAIN disk' = Saves!Files /\ disk'[f] = None
        /\ \A g \in Saves!Files \ {f} : disk'[g] = disk[g]
    BY <2>2, Apart DEF SaveInv, Filed
  <2>4. \A s \in Sections : disk'[s] = disk[s]
    BY <2>2, <2>3, Apart
  <2>5. Filed'
    BY <1>1, <2>3 DEF SaveInv, Filed
  <2>6. Saves!Todo' = {}
    BY <1>1, <1>4, <2>1, <2>4 DEF Saves!Todo
  <2>7. Migrates'
    BY <1>1, <1>2, <2>1, <2>6 DEF Migrates
  <2> QED
    BY <1>1, <1>3, <2>1, <2>5, <2>7 DEF SaveInv
<1> QED
  BY <1>5, <1>6

(* The list is written: its files merge to what the old ones did.          *)
LEMMA MigrationFinishes ==
  ASSUME Saves!Named, SaveInv, Saves!MigrationLists
  PROVE  SaveInv' /\ (listed' # listed => Saves!Merged' = migration.before)
<1>1. /\ migration.at = "list" /\ UNCHANGED <<disk, request>> /\ migration'.at = "over"
  BY DEF Saves!MigrationLists, Saves!MigrationStops, Saves!NoMigration
<1>2. PICK m : m = migration.before
  OBVIOUS
<1>3. /\ m \in Sheets /\ migration.files = Split(m) /\ Saves!Todo = {} /\ listed = Saves!Legacy
      /\ \A r \in Requests : request[r].at = "idle"
  BY <1>1, <1>2 DEF SaveInv, Migrates
<1>4. Asked' /\ Migrates'
  BY <1>1, <1>3, AskedStays DEF SaveInv, Migrates
<1>5. CASE UNCHANGED listed
  BY <1>1, <1>4, <1>5 DEF SaveInv, Filed
<1>6. CASE listed' = Saves!SetToSeq(DOMAIN migration.files)
  <2> DEFINE D == Saves!InSections(m)
             l == Saves!SetToSeq(D)
  <2>1. D \subseteq Sections /\ DOMAIN Split(m) = D
    BY <1>3, SplitFile
  <2>2. l \in Seq(D) /\ Saves!ToSet(l) = D
    BY <2>1, SetListed DEF Saves!Named
  <2>3. listed' = l
    BY <1>3, <1>6, <2>1
  <2> HIDE DEF l, D
  <2>4. Filed'
    <3>1. l \in Seq(Sections) /\ l \in Seq(Saves!Files)
      BY <2>1, <2>2, Apart
    <3> QED
      BY <1>1, <2>3, <3>1 DEF SaveInv, Filed
  <2>5. \A i \in 1..Len(l) : l[i] \in D
    BY <2>2
  <2>6. ASSUME NEW f \in D
        PROVE  /\ f \in Sections /\ disk[f] \in Sheets /\ Says(disk, f, f) = m[f]
               /\ \A s \in Sections \ {f} : Says(disk, f, s) = Saves!Blank
    <3>1. disk[f] = Split(m)[f]
      BY <1>3, <2>1, <2>6 DEF Saves!Todo
    <3>2. disk[f] \in Sheets /\ disk[f][f] = m[f] /\ \A s \in Sections \ {f} : disk[f][s] = Saves!Blank
      BY <1>3, <2>1, <2>6, <3>1, SplitFile
    <3>3. disk[f] # None
      BY <3>2, NoneApart
    <3> QED
      BY <2>1, <2>6, <3>2, <3>3 DEF Says
  <2>7. Saves!MergeOf(l, disk) = m
    <3>1. Written(l, disk)
      BY <2>2, <2>5, <2>6 DEF Written
    <3>2. ASSUME NEW s \in Sections PROVE Saves!MergeOf(l, disk)[s] = m[s]
      <4>1. \A i \in 1..Len(l) : l[i] # s => Says(disk, l[i], s) = Saves!Blank
        BY <2>5, <2>6
      <4>2. disk[s] # None => disk[s] \in Sheets
        BY Apart DEF SaveInv, Filed
      <4>3. Saves!MergeOf(l, disk)[s] = IF \E i \in 1..Len(l) : l[i] = s THEN Says(disk, s, s) ELSE Saves!Blank
        BY <3>1, <4>1, <4>2, MergedOwn
      <4>4. (\E i \in 1..Len(l) : l[i] = s) <=> s \in D
        BY <2>2 DEF Saves!ToSet
      <4>5. s \notin D => m[s] = Saves!Blank
        BY DEF D, Saves!InSections
      <4> QED
        BY <2>6, <4>3, <4>4, <4>5
    <3>3. Saves!MergeOf(l, disk) \in Sheets
      <4>1. PICK g : Layered(l, disk, g) /\ Saves!MergeOf(l, disk) = g[Len(l)]
        BY <3>1, MergedIsLayered
      <4>2. Len(l) \in 0..Len(l)
        BY <2>2
      <4> QED
        BY <4>1, <4>2 DEF Layered
    <3> QED
      BY <1>3, <3>2, <3>3 DEF Sheets
  <2>8. Saves!Merged' = m
    BY <1>1, <2>3, <2>7 DEF Saves!Merged
  <2> QED
    BY <1>2, <1>4, <2>4, <2>8 DEF SaveInv
<1> QED
  BY <1>5, <1>6 DEF Saves!MigrationLists

(* The process dies and starts again.                                      *)
LEMMA SaveRestarts ==
  ASSUME SaveInv, Saves!Restart
  PROVE  SaveInv'
<1>1. /\ UNCHANGED <<disk, listed>> /\ migration'.at = "start"
      /\ request' = [r \in Requests |-> Saves!Idle]
  BY DEF Saves!Restart, Saves!NoMigration
<1>2. Saves!Idle.at = "idle" /\ DOMAIN Saves!Idle = {"at", "changes", "plan", "before", "alone"}
  BY DEF Saves!Idle
<1>3. DOMAIN request' = Requests /\ \A r \in Requests : request'[r] = Saves!Idle
  BY <1>1
<1>4. Asked' /\ Migrates' /\ Filed'
  BY <1>1, <1>2, <1>3 DEF SaveInv, Asked, Migrates, Filed
<1> QED
  BY <1>4 DEF SaveInv

(* An old repository, or an empty one.                                     *)
LEMMA SaveInit ==
  ASSUME Saves!Named, Saves!Init
  PROVE  SaveInv
<1>1. /\ listed = Saves!Legacy /\ migration.at = "start" /\ request = [r \in Requests |-> Saves!Idle]
  BY DEF Saves!Init, Saves!NoMigration
<1>2. PICK c \in Saves!Contents, o \in Saves!Contents :
         disk \in {[f \in Saves!Files |-> IF f = "values" THEN c ELSE IF f = "overlay" THEN o ELSE None],
                   [f \in Saves!Files |-> None]}
  BY DEF Saves!Init
<1>3. /\ DOMAIN disk = Saves!Files
      /\ \A f \in Saves!Files : disk[f] \in {c, o, None} /\ (f \in Sections => disk[f] = None)
  BY <1>2, Apart
<1>4. Filed
  <2>1. Saves!Legacy \in Seq(Saves!Files)
    BY Apart DEF Saves!Legacy
  <2> QED
    BY <1>1, <1>3, <2>1, ContentSheet DEF Filed
<1>5. Saves!Idle.at = "idle" /\ DOMAIN Saves!Idle = {"at", "changes", "plan", "before", "alone"}
  BY DEF Saves!Idle
<1>6. Asked /\ Migrates
  BY <1>1, <1>5 DEF Asked, Migrates
<1> QED
  BY <1>4, <1>6 DEF SaveInv

(* A request that has written all it planned reads back.                   *)
LEMMA SavedShows ==
  ASSUME Saves!Named, SaveInv, NEW r \in Requests, Saves!Saved(r)
  PROVE  Saves!ReadsBack(request[r])
<1>1. PICK q : q = request[r]
  OBVIOUS
<1>2. q.at = "write" /\ DOMAIN q.plan = {} /\ q.alone
  BY <1>1 DEF Saves!Saved
<1>3. Editing(q)
  BY <1>1, <1>2 DEF SaveInv, Asked
<1>4. /\ q.before \in Sheets /\ Changing(q.changes) /\ ~Saves!Refuses(q.before, q.changes)
      /\ \A s \in Sections : (s \in Saves!Owners(q.changes) => Saves!OwnsAlone(s)) =>
                               Saves!Merged[s] = SoFar(q, s)
  BY <1>1, <1>2, <1>3 DEF Editing
<1>5. PICK m : m = Saves!Merged
  OBVIOUS
<1>6. ASSUME NEW f \in Saves!Fields, f[1] \in Saves!Owners(q.changes) => Saves!OwnsAlone(f[1])
      PROVE  Saves!Read(m, f) = IF f \in DOMAIN q.changes
                THEN [value |-> Saves!Over(q.changes[f], Default), elsewhere |-> FALSE]
                ELSE Saves!Read(q.before, f)
  <2>1. f[1] \in Sections
    BY DEF Saves!Fields
  <2>2. m[f[1]] = IF f[1] \in Saves!Owners(q.changes)
                    THEN After(q.before[f[1]], Saves!Plan(q.before, q.changes)[f[1]])
                    ELSE q.before[f[1]]
    BY <1>2, <1>4, <1>5, <1>6, <2>1 DEF SoFar
  <2> QED
    BY <1>4, <2>2, PlanReadsBack
<1> QED
  BY <1>1, <1>5, <1>6 DEF Saves!ReadsBack

(* Every step of the files, and of those who edit them.                    *)
LEMMA SaveNext ==
  ASSUME Saves!Named, SaveInv, [Saves!Next]_(Saves!vars)
  PROVE  SaveInv' /\ [Saves!KeepsWhatItSays]_(Saves!vars)
<1>1. \A r \in Requests : Saves!Saved(r) => Saves!ReadsBack(request[r])
  BY SavedShows
<1>2. CASE UNCHANGED Saves!vars
  <2>1. UNCHANGED <<disk, listed, migration, request>>
    BY <1>2 DEF Saves!vars
  <2>2. Saves!Merged' = Saves!Merged /\ Saves!Todo' = Saves!Todo
    BY <2>1 DEF Saves!Merged, Saves!Todo
  <2>3. Filed' /\ Migrates'
    BY <2>1, <2>2 DEF SaveInv, Filed, Migrates
  <2>4. ASSUME NEW r \in Requests, request[r].at = "write" PROVE Editing(request[r])'
    <3>1. PICK q : q = request[r] /\ q = request'[r]
      BY <2>1
    <3>2. Editing(q)
      BY <2>4, <3>1 DEF SaveInv, Asked
    <3>3. Editing(q)'
      BY <2>1, <3>2, EditingStays
    <3> QED
      BY <3>1, <3>3
  <2>5. Asked'
    BY <2>1, <2>4 DEF SaveInv, Asked
  <2> QED
    BY <1>2, <2>3, <2>5 DEF SaveInv
<1>3. CASE Saves!MigrationBegins
  <2>1. migration.at = "start"
    BY <1>3 DEF Saves!MigrationBegins
  <2> QED
    BY <1>1, <1>3, <2>1, MigrationStarts DEF Saves!KeepsWhatItSays
<1>4. CASE Saves!MigrationWrites
  <2>1. migration.at = "split"
    BY <1>4 DEF Saves!MigrationWrites
  <2> QED
    BY <1>1, <1>4, <2>1, MigrationGoesOn DEF Saves!KeepsWhatItSays
<1>5. CASE Saves!MigrationRemoves
  <2>1. migration.at = "split"
    BY <1>5 DEF Saves!MigrationRemoves
  <2> QED
    BY <1>1, <1>5, <2>1, MigrationClears DEF Saves!KeepsWhatItSays
<1>6. CASE Saves!MigrationLists
  <2>1. migration.at = "list"
    BY <1>6 DEF Saves!MigrationLists
  <2> QED
    BY <1>1, <1>6, <2>1, MigrationFinishes DEF Saves!KeepsWhatItSays
<1>7. CASE Saves!Restart
  <2>1. migration'.at = "start" /\ UNCHANGED listed
    BY <1>7 DEF Saves!Restart, Saves!NoMigration
  <2> QED
    BY <1>1, <1>7, <2>1, SaveRestarts DEF Saves!KeepsWhatItSays
<1>8. ASSUME migration.at = "over", SaveInv' PROVE SaveInv' /\ [Saves!KeepsWhatItSays]_(Saves!vars)
  BY <1>1, <1>8 DEF Saves!KeepsWhatItSays
<1>9. ASSUME NEW r \in Requests, Saves!Begin(r) \/ Saves!WriteFile(r) \/ Saves!Save(r)
      PROVE  SaveInv' /\ [Saves!KeepsWhatItSays]_(Saves!vars)
  <2>1. migration.at = "over"
    BY <1>9 DEF Saves!Begin, Saves!WriteFile, Saves!Save, Saves!Up
  <2>2. CASE Saves!Begin(r)
    BY <1>8, <2>1, <2>2, SaveBegins
  <2>3. CASE Saves!WriteFile(r)
    <3>1. /\ Saves!Up /\ request[r].at = "write" /\ UNCHANGED <<listed, migration>>
      BY <2>3 DEF Saves!WriteFile
    <3>2. CASE UNCHANGED disk /\ request' = [request EXCEPT ![r] = Saves!Idle]
      BY <1>8, <2>1, <3>1, <3>2, SaveEnds
    <3>3. CASE ~(UNCHANGED disk /\ request' = [request EXCEPT ![r] = Saves!Idle])
      <4>1. PICK s \in DOMAIN request[r].plan :
              /\ disk' = [disk EXCEPT ![s] = Saves!Edited(s, request[r].plan[s])]
              /\ request' = [Saves!Disturb({r}) EXCEPT ![r].plan =
                               [x \in DOMAIN request[r].plan \ {s} |-> request[r].plan[x]]]
        BY <2>3, <3>3 DEF Saves!WriteFile
      <4>2. SaveInv'
        BY <3>1, <4>1, SaveWrites
      <4> QED
        BY <1>8, <2>1, <4>2
    <3> QED
      BY <3>2, <3>3
  <2>4. CASE Saves!Save(r)
    <3>1. UNCHANGED <<disk, listed, migration>> /\ request' = [request EXCEPT ![r] = Saves!Idle]
      BY <2>4 DEF Saves!Save
    <3> QED
      BY <1>8, <2>1, <3>1, SaveEnds
  <2> QED
    BY <1>9, <2>2, <2>3, <2>4
<1>10. CASE Saves!PutSlice
  <2>1. migration.at = "over"
    BY <1>10 DEF Saves!PutSlice, Saves!Up
  <2> QED
    BY <1>8, <1>10, <2>1, SavePuts
<1>11. CASE Saves!Seed
  <2>1. migration.at = "over"
    BY <1>11 DEF Saves!Seed, Saves!Up
  <2> QED
    BY <1>8, <1>11, <2>1, SaveSeeds
<1> QED
  BY <1>2, <1>3, <1>4, <1>5, <1>6, <1>7, <1>9, <1>10, <1>11 DEF Saves!Next

(* A setting reported as saved, with nobody else editing meanwhile, is what *)
(* Helm is given and what the page shows next, where no other listed file  *)
(* speaks of its section, and nothing else is changed by it, whatever the  *)
(* files say; splitting an old repository leaves what Helm is given as it  *)
(* was (SetTasks, tasks.Write, SetSectionValues, MigrateToSections).           *)
THEOREM SavedIsRead ==
    ASSUME Saves!Named PROVE Saves!Spec => Saves!SavedReadsBack
<1>1. Saves!Init => SaveInv
  BY SaveInit
<1>2. SaveInv /\ [Saves!Next]_(Saves!vars) => SaveInv' /\ [Saves!KeepsWhatItSays]_(Saves!vars)
  BY SaveNext
<1> QED
  BY <1>1, <1>2, PTL DEF Saves!Spec, Saves!SavedReadsBack
=============================================================================
