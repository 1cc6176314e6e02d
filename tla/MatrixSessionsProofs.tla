------------------------ MODULE MatrixSessionsProofs ------------------------
(***************************************************************************)
(* The store of Matrix sessions stays within its bound, signing out        *)
(* sticks, and the tokens kept are the newest there are: for every number  *)
(* of operators, grants and requests.                                      *)
(***************************************************************************)
EXTENDS MatrixSessions, FiniteSetTheorems, TLAPS

\* What the bound rests on: entries are per operator, and what a renewal put
\* back is still there.
BoundInv ==
    /\ store = [u \in Operators |-> store[u]]
    /\ revived \subseteq Signed
    /\ StoreIsBounded

\* The entries that signing in put there do not become more.
LEMMA FewerAreBounded ==
    ASSUME BoundInv, Signed' \ revived' \subseteq Signed \ revived
    PROVE  StoreIsBounded'
<1>1. IsFiniteSet(Signed \ revived) /\ IsFiniteSet(Operators)
  <2>1. Signed \ revived \subseteq Operators
    BY DEF Signed
  <2>. QED
    BY <2>1, FS_Subset, SessionsAssumption DEF SessionsAssumption
<1>2. Cardinality(Signed' \ revived') <= Cardinality(Signed \ revived)
  BY <1>1, FS_Subset
<1>3. /\ Cardinality(Signed' \ revived') \in Nat
      /\ Cardinality(Signed \ revived) \in Nat
  BY <1>1, FS_Subset, FS_CardinalityType
<1>. QED
  BY <1>2, <1>3, SessionsAssumption DEF BoundInv, StoreIsBounded, SessionsAssumption

\* A store that nobody signed in to is within its bound.
LEMMA InitBound == Init => BoundInv
<1>. SUFFICES ASSUME Init PROVE BoundInv
  OBVIOUS
<1>1. Signed = {} /\ revived = {}
  BY DEF Init, Signed
<1>2. Signed \ revived = {}
  BY <1>1
<1>3. Cardinality(Signed \ revived) = 0
  BY <1>2, FS_EmptySet
<1>. QED
  BY <1>1, <1>3, SessionsAssumption
  DEF Init, BoundInv, StoreIsBounded, SessionsAssumption

\* Forgetting takes entries away.
LEMMA ForgetBound ==
    ASSUME BoundInv, NEW u, Forget(u)
    PROVE  BoundInv'
<1>1. /\ store' = [v \in Operators |-> IF v = u THEN None ELSE store[v]]
      /\ revived' = revived \ {u}
  BY DEF BoundInv, Forget
<1>2. Signed' = Signed \ {u}
  BY <1>1 DEF Signed
<1>3. store' = [v \in Operators |-> store'[v]] /\ revived' \subseteq Signed'
  BY <1>1, <1>2 DEF BoundInv
<1>4. Signed' \ revived' \subseteq Signed \ revived
  BY <1>1, <1>2
<1>. QED
  BY <1>3, <1>4, FewerAreBounded DEF BoundInv

\* A new operator is let in below the bound only, and replacing a grant leaves
\* the operators who are in as they are.
LEMMA PutBound ==
    ASSUME BoundInv, NEW u \in Operators, NEW c, c # None, Put(u, c)
    PROVE  BoundInv'
<1>. PICK expired \in SUBSET {v \in Signed : store[v].token = None} :
        LET crowded == store[u] = None /\ Cardinality(Signed) >= maxSessions
            gone    == IF crowded THEN expired ELSE {}
        IN  /\ revived' = revived \ gone
            /\ IF crowded /\ Cardinality(Signed \ gone) >= maxSessions
               THEN store' = [v \in Operators |-> IF v \in gone THEN None ELSE store[v]]
               ELSE store' = [v \in Operators |-> IF v = u THEN c
                                                  ELSE IF v \in gone THEN None
                                                  ELSE store[v]]
  BY Zenon DEF Put
<1>. DEFINE crowded == store[u] = None /\ Cardinality(Signed) >= maxSessions
            gone    == IF crowded THEN expired ELSE {}
            stays   == Signed \ gone
<1>1. revived' = revived \ gone
  OBVIOUS
<1>2. CASE crowded /\ Cardinality(stays) >= maxSessions
  <2>1. store' = [v \in Operators |-> IF v \in gone THEN None ELSE store[v]]
    BY <1>2
  <2>2. Signed' = stays
    BY <2>1 DEF Signed
  <2>3. revived' \subseteq Signed' /\ Signed' \ revived' \subseteq Signed \ revived
    BY <1>1, <2>2 DEF BoundInv
  <2>4. store' = [v \in Operators |-> store'[v]]
    BY <2>1
  <2>. QED
    BY <2>3, <2>4, FewerAreBounded DEF BoundInv
<1>3. CASE ~(crowded /\ Cardinality(stays) >= maxSessions)
  <2>1. store' = [v \in Operators |-> IF v = u THEN c
                                      ELSE IF v \in gone THEN None ELSE store[v]]
    BY <1>3
  <2>2. store' = [v \in Operators |-> store'[v]]
    BY <2>1
  <2>3. Signed' = stays \cup {u}
    BY <2>1 DEF Signed
  <2>4. revived' \subseteq Signed'
    BY <1>1, <2>3 DEF BoundInv
  <2>5. CASE store[u] # None
    <3>1. Signed' = Signed /\ revived' = revived
      BY <1>1, <2>3, <2>5 DEF Signed
    <3>. QED
      BY <3>1, <2>2, <2>4, FewerAreBounded DEF BoundInv
  <2>6. CASE store[u] = None
    <3>1. IsFiniteSet(Signed) /\ IsFiniteSet(stays) /\ IsFiniteSet(Signed')
      <4>1. Signed \subseteq Operators /\ stays \subseteq Operators /\ Signed' \subseteq Operators
        BY <2>3 DEF Signed
      <4>. QED
        BY <4>1, FS_Subset, SessionsAssumption DEF SessionsAssumption
    <3>2. /\ Cardinality(Signed) \in Nat
          /\ Cardinality(stays) \in Nat
          /\ Cardinality(Signed') \in Nat
      BY <3>1, FS_CardinalityType
    <3>3. ~crowded => stays = Signed
      OBVIOUS
    <3>4. ~(Cardinality(stays) >= maxSessions)
      BY <1>3, <2>6, <3>3
    <3>5. Cardinality(Signed') <= Cardinality(stays) + 1
      BY <2>3, <3>1, <3>2, FS_AddElement
    <3>6. Cardinality(Signed' \ revived') <= Cardinality(Signed')
      BY <3>1, FS_Subset
    <3>7. Cardinality(Signed' \ revived') \in Nat
      BY <3>1, FS_Subset, FS_CardinalityType
    <3>8. StoreIsBounded'
      BY <3>2, <3>4, <3>5, <3>6, <3>7, SessionsAssumption
      DEF StoreIsBounded, SessionsAssumption
    <3>. QED
      BY <2>2, <2>4, <3>8 DEF BoundInv
  <2>. QED
    BY <2>5, <2>6
<1>. QED
  BY <1>2, <1>3

\* What a renewal writes is an entry that was there, or one it puts back.
LEMMA KeepBound ==
    ASSUME BoundInv, NEW r \in Requests, Keep(r),
           asker[r] \in Operators, carried[r] # None
    PROVE  BoundInv'
<1>. DEFINE u == asker[r]
<1>1. /\ store' = [v \in Operators |-> IF v = u THEN carried[r] ELSE store[v]]
      /\ revived' = IF store[u] = None THEN revived \cup {u} ELSE revived
  BY DEF Keep, BoundInv
<1>2. Signed' = Signed \cup {u}
  BY <1>1 DEF Signed
<1>3. u \in Signed <=> store[u] # None
  BY DEF Signed
<1>4. store' = [v \in Operators |-> store'[v]] /\ revived' \subseteq Signed'
  BY <1>1, <1>2 DEF BoundInv
<1>5. Signed' \ revived' \subseteq Signed \ revived
  BY <1>1, <1>2, <1>3
<1>. QED
  BY <1>4, <1>5, FewerAreBounded DEF BoundInv

-----------------------------------------------------------------------------
(* Types.                                                                  *)

\* The entries, what is let go of, and who signed out, after one critical
\* section of the store.
EntriesOK ==
    /\ store \in [Operators -> Credential \cup {None}]
    /\ revived \subseteq Signed
    /\ revoking \subseteq Credential

\* What is put up for revocation is a credential.
LEMMA LetGoType ==
    ASSUME NEW C, LetGo(C \ {None}), C \subseteq Credential \cup {None},
           revoking \subseteq Credential
    PROVE  revoking' \subseteq Credential
BY DEF LetGo

\* MatrixTokens.Drop and the expiry of an entry keep the store's entries typed.
LEMMA ForgetType ==
    ASSUME TypeOK, NEW u \in Operators, Forget(u)
    PROVE  EntriesOK'
<1>1. store' = [store EXCEPT ![u] = None] /\ revived' = revived \ {u}
  BY DEF Forget
<1>2. Signed' = Signed \ {u}
  BY <1>1 DEF Signed, TypeOK
<1>3. revoking' \subseteq Credential
  BY DEF Forget, LetGo, TypeOK
<1>. QED
  BY <1>1, <1>2, <1>3 DEF TypeOK, EntriesOK

\* MatrixTokens.Put does too, whatever it displaces from a full store.
LEMMA PutType ==
    ASSUME TypeOK, NEW u \in Operators, NEW c \in Credential, c # None, Put(u, c)
    PROVE  /\ EntriesOK'
           /\ signedOut' \subseteq Operators
<1>. PICK expired \in SUBSET {v \in Signed : store[v].token = None} :
        LET crowded == store[u] = None /\ Cardinality(Signed) >= maxSessions
            gone    == IF crowded THEN expired ELSE {}
        IN  /\ revived' = revived \ gone
            /\ IF crowded /\ Cardinality(Signed \ gone) >= maxSessions
               THEN /\ store' = [v \in Operators |-> IF v \in gone THEN None ELSE store[v]]
                    /\ UNCHANGED <<revoking, signedOut>>
               ELSE /\ store' = [v \in Operators |-> IF v = u THEN c
                                                  ELSE IF v \in gone THEN None
                                                  ELSE store[v]]
                    /\ LetGo({store[u]} \ {None})
                    /\ signedOut' = signedOut \ {u}
  BY Zenon DEF Put
<1>. DEFINE crowded == store[u] = None /\ Cardinality(Signed) >= maxSessions
            gone    == IF crowded THEN expired ELSE {}
<1>1. revived' = revived \ gone
  OBVIOUS
<1>2. CASE crowded /\ Cardinality(Signed \ gone) >= maxSessions
  <2>1. /\ store' = [v \in Operators |-> IF v \in gone THEN None ELSE store[v]]
        /\ UNCHANGED <<revoking, signedOut>>
    BY <1>2
  <2>2. Signed' = Signed \ gone
    BY <2>1 DEF Signed
  <2>. HIDE DEF gone
  <2>. QED
    BY <1>1, <2>1, <2>2 DEF TypeOK, EntriesOK
<1>3. CASE ~(crowded /\ Cardinality(Signed \ gone) >= maxSessions)
  <2>1. /\ store' = [v \in Operators |-> IF v = u THEN c
                                         ELSE IF v \in gone THEN None ELSE store[v]]
        /\ LetGo({store[u]} \ {None})
        /\ signedOut' = signedOut \ {u}
    BY <1>3
  <2>. HIDE DEF gone
  <2>2. Signed' = (Signed \ gone) \cup {u}
    BY <2>1 DEF Signed
  <2>3. revoking' \subseteq Credential
    BY <2>1 DEF LetGo, TypeOK
  <2>. QED
    BY <1>1, <2>1, <2>2, <2>3 DEF TypeOK, EntriesOK
<1>. QED
  BY <1>2, <1>3

\* The absent entry is no operator, grant, token or credential.
LEMMA NoneIsNobody ==
    /\ None \notin Operators
    /\ None \notin Grants
    /\ None \notin Tokens
    /\ None \notin Credential
BY SessionsAssumption DEF SessionsAssumption, Tokens

\* A request under way knows for whom it asks and what it sent.
RequestsKnow ==
    \A r \in Requests : pc[r] # "idle" => asker[r] \in Operators /\ carried[r] # None

Inv == TypeOK /\ RequestsKnow /\ BoundInv

\* The store and the requests start out as the invariant says.
LEMMA InitInv == Init => Inv
<1>1. Init => TypeOK
  BY SessionsAssumption DEF Init, TypeOK, SessionsAssumption, Tokens
<1>2. Init => RequestsKnow
  BY DEF Init, RequestsKnow
<1>. QED
  BY <1>1, <1>2, InitBound DEF Inv

\* Nothing of the store changes.
LEMMA QuietBound ==
    ASSUME BoundInv, UNCHANGED <<store, revived>>
    PROVE  BoundInv'
<1>1. Signed' = Signed
  BY DEF Signed
<1>. QED
  BY <1>1 DEF BoundInv, StoreIsBounded

\* A step that leaves the entries alone keeps them typed.
LEMMA QuietEntries ==
    ASSUME TypeOK, UNCHANGED <<store, revived>>, revoking' \subseteq revoking
    PROVE  EntriesOK'
<1>1. Signed' = Signed
  BY DEF Signed
<1>. QED
  BY <1>1 DEF EntriesOK, TypeOK

\* One step of MatrixCtrl, of MAS or of time keeps all of it.
LEMMA StepInv == Inv /\ [Next]_vars => Inv'
<1>. SUFFICES ASSUME Inv, [Next]_vars
              PROVE  Inv'
  OBVIOUS
<1>. USE NoneIsNobody
<1>a. TypeOK /\ RequestsKnow /\ BoundInv
  BY DEF Inv
<1>1. CASE UNCHANGED vars
  <2>1. BoundInv'
    BY <1>a, <1>1, QuietBound DEF vars, history
  <2>2. EntriesOK'
    BY <1>a, <1>1, QuietEntries DEF vars, history
  <2>. QED
    BY <1>a, <1>1, <2>1, <2>2
    DEF Inv, TypeOK, EntriesOK, RequestsKnow, vars, mas, asking, history
<1>2. ASSUME NEW u \in Operators, NEW g \in Grants, Authorize(u, g)
      PROVE  Inv'
  <2>1. CASE \E token \in {1, None} : /\ Put(u, [grant |-> g, token |-> token])
                                     /\ Settles(u, None)
                                     /\ UNCHANGED troubles
    <3>1. PICK token \in {1, None} : Put(u, [grant |-> g, token |-> token])
      BY <2>1
    <3>2. [grant |-> g, token |-> token] \in Credential
      BY SessionsAssumption DEF SessionsAssumption, Credential, Tokens
    <3>3. EntriesOK' /\ signedOut' \subseteq Operators
      BY <1>a, <3>1, <3>2, PutType
    <3>4. BoundInv'
      BY <1>a, <3>1, <3>2, PutBound
    <3>5. raced' \subseteq Operators
      BY <1>a, <2>1 DEF Settles, TypeOK
    <3>6. open' \subseteq {h \in Grants : owner'[h] # None}
      BY <1>a, <1>2 DEF Authorize, TypeOK
    <3>7. owner' \in [Grants -> Operators \cup {None}]
      BY <1>a, <1>2 DEF Authorize, TypeOK
    <3>8. troubles' \in 0..MaxTroubles
      BY <1>a, <2>1 DEF TypeOK
    <3>9. TypeOK' /\ RequestsKnow'
      BY <1>a, <1>2, <3>3, <3>5, <3>6, <3>7, <3>8
      DEF Authorize, TypeOK, EntriesOK, RequestsKnow, asking
    <3>. QED
      BY <3>4, <3>9 DEF Inv
  <2>2. CASE /\ troubles < MaxTroubles
             /\ troubles' = troubles + 1
             /\ UNCHANGED <<store, revoking, history>>
    <3>1. BoundInv' /\ EntriesOK'
      BY <1>a, <2>2, QuietBound, QuietEntries DEF history
    <3>2. open' \subseteq {h \in Grants : owner'[h] # None}
      BY <1>a, <1>2 DEF Authorize, TypeOK
    <3>3. owner' \in [Grants -> Operators \cup {None}]
      BY <1>a, <1>2 DEF Authorize, TypeOK
    <3>4. troubles' \in 0..MaxTroubles
      BY <1>a, <2>2, SessionsAssumption DEF TypeOK, SessionsAssumption
    <3>5. TypeOK' /\ RequestsKnow'
      BY <1>a, <1>2, <2>2, <3>1, <3>2, <3>3, <3>4
      DEF Authorize, TypeOK, EntriesOK, RequestsKnow, asking, history
    <3>. QED
      BY <3>1, <3>5 DEF Inv
  <2>. QED
    BY <1>2, <2>1, <2>2 DEF Authorize
<1>3. ASSUME NEW u \in Operators, Logout(u) \/ GetUnrenewable(u)
      PROVE  Inv'
  <2>1. Forget(u) /\ UNCHANGED <<mas, asking, sweeping, troubles>> /\ Settles(u, None)
    BY <1>3 DEF Logout, GetUnrenewable
  <2>2. BoundInv' /\ EntriesOK'
    BY <1>a, <2>1, ForgetBound, ForgetType
  <2>3. raced' \subseteq Operators /\ signedOut' \subseteq Operators
    BY <1>a, <1>3 DEF Logout, GetUnrenewable, Settles, TypeOK
  <2>. QED
    BY <1>a, <2>1, <2>2, <2>3 DEF Inv, TypeOK, EntriesOK, RequestsKnow, mas, asking
<1>4. ASSUME NEW r \in Requests, NEW u \in Operators, Ask(r, u)
      PROVE  Inv'
  <2>1. BoundInv' /\ EntriesOK'
    BY <1>a, <1>4, QuietBound, QuietEntries DEF Ask
  <2>2. raced' \subseteq Operators
    BY <1>a, <1>4 DEF Ask, Touches, TypeOK
  <2>3. store[u] \in [grant : Grants, token : Tokens] /\ store[u] # None
    BY <1>a, <1>4 DEF Ask, TypeOK, Signed, Credential
  <2>4. /\ carried' \in [Requests -> [grant : Grants, token : Tokens] \cup {None}]
        /\ asker' \in [Requests -> Operators \cup {None}]
        /\ pc' \in [Requests -> {"idle", "asking", "renewed", "refused"}]
    BY <1>a, <1>4, <2>3 DEF Ask, TypeOK
  <2>5. RequestsKnow'
    BY <1>a, <1>4, <2>3 DEF Ask, RequestsKnow, TypeOK
  <2>. QED
    BY <1>a, <1>4, <2>1, <2>2, <2>4, <2>5 DEF Inv, Ask, TypeOK, EntriesOK, mas
<1>5. ASSUME NEW r \in Requests, Renew(r)
      PROVE  Inv'
  <2>1. BoundInv' /\ EntriesOK'
    BY <1>a, <1>5, QuietBound, QuietEntries DEF Renew, history
  <2>2. carried[r] \in [grant : Grants, token : Tokens] /\ asker[r] \in Operators
    BY <1>a, <1>5 DEF Renew, TypeOK, RequestsKnow
  <2>3. carried[r].token = newest[carried[r].grant]
    BY <1>5 DEF Renew, Accepted
  <2>4. rotates => carried[r].token + 1 \in Tokens
    BY <1>5, <2>2, SessionsAssumption DEF Renew, Tokens, SessionsAssumption
  <2>5. Answer(carried[r]) \in [grant : Grants, token : Tokens]
    BY <2>2, <2>4 DEF Answer
  <2>6. newest' \in [Grants -> Tokens]
    BY <1>a, <1>5, <2>2, <2>3, <2>4 DEF Renew, TypeOK
  <2>7. /\ carried' \in [Requests -> [grant : Grants, token : Tokens] \cup {None}]
        /\ pc' \in [Requests -> {"idle", "asking", "renewed", "refused"}]
    BY <1>a, <1>5, <2>5 DEF Renew, TypeOK
  <2>8. [grant : Grants, token : Tokens] \subseteq Credential
    BY DEF Credential
  <2>9. RequestsKnow'
    BY <1>a, <1>5, <2>2, <2>5, <2>8 DEF Renew, RequestsKnow, TypeOK
  <2>10. troubles' \in 0..MaxTroubles
    BY <1>a, <1>5, SessionsAssumption DEF Renew, TypeOK, SessionsAssumption
  <2>. QED
    BY <1>a, <1>5, <2>1, <2>6, <2>7, <2>9, <2>10
    DEF Inv, Renew, TypeOK, EntriesOK, history
<1>6. ASSUME NEW r \in Requests, Refuse(r)
      PROVE  Inv'
  <2>1. BoundInv' /\ EntriesOK'
    BY <1>a, <1>6, QuietBound, QuietEntries DEF Refuse, history
  <2>2. troubles' \in 0..MaxTroubles
    BY <1>a, <1>6, SessionsAssumption DEF Refuse, TypeOK, SessionsAssumption
  <2>3. RequestsKnow'
    BY <1>a, <1>6 DEF Refuse, RequestsKnow, TypeOK
  <2>. QED
    BY <1>a, <1>6, <2>1, <2>2, <2>3
    DEF Inv, Refuse, TypeOK, EntriesOK, mas, history
<1>7. ASSUME NEW r \in Requests, Keep(r)
      PROVE  Inv'
  <2>1. asker[r] \in Operators /\ carried[r] \in Credential
    BY <1>a, <1>7 DEF Keep, TypeOK, RequestsKnow, Credential
  <2>2. BoundInv'
    BY <1>a, <1>7, <2>1, KeepBound
  <2>3. Signed' = Signed \cup {asker[r]}
    BY <1>a, <1>7, <2>1 DEF Keep, Signed, TypeOK
  <2>4. EntriesOK'
    BY <1>a, <1>7, <2>1, <2>3 DEF Keep, EntriesOK, TypeOK
  <2>5. raced' \subseteq Operators
    BY <1>a, <1>7, <2>1 DEF Keep, Touches, TypeOK
  <2>6. RequestsKnow'
    BY <1>a, <1>7 DEF Keep, Return, RequestsKnow, TypeOK
  <2>7. /\ carried' \in [Requests -> [grant : Grants, token : Tokens] \cup {None}]
        /\ asker' \in [Requests -> Operators \cup {None}]
        /\ pc' \in [Requests -> {"idle", "asking", "renewed", "refused"}]
    BY <1>a, <1>7 DEF Keep, Return, TypeOK
  <2>. QED
    BY <1>a, <1>7, <2>2, <2>4, <2>5, <2>6, <2>7 DEF Inv, Keep, TypeOK, EntriesOK, mas
<1>8. ASSUME NEW r \in Requests, GiveUp(r)
      PROVE  Inv'
  <2>1. asker[r] \in Operators
    BY <1>a, <1>8 DEF GiveUp, RequestsKnow
  <2>2. BoundInv' /\ EntriesOK'
    BY <1>a, <1>8, <2>1, ForgetBound, ForgetType DEF GiveUp
  <2>3. raced' \subseteq Operators
    BY <1>a, <1>8, <2>1 DEF GiveUp, Settles, TypeOK
  <2>4. RequestsKnow'
    BY <1>a, <1>8 DEF GiveUp, Return, RequestsKnow, TypeOK
  <2>5. /\ carried' \in [Requests -> [grant : Grants, token : Tokens] \cup {None}]
        /\ asker' \in [Requests -> Operators \cup {None}]
        /\ pc' \in [Requests -> {"idle", "asking", "renewed", "refused"}]
    BY <1>a, <1>8 DEF GiveUp, Return, TypeOK
  <2>. QED
    BY <1>a, <1>8, <2>2, <2>3, <2>4, <2>5 DEF Inv, GiveUp, TypeOK, EntriesOK, mas
<1>9. CASE \/ \E c \in revoking : Revoke(c)
           \/ SweepLists
           \/ \E g \in Grants : SweepFinishes(g) \/ EndsElsewhere(g)
  <2>1. /\ UNCHANGED <<store, asking, owner, newest, rotates, history>>
        /\ revoking' \subseteq revoking
    BY <1>9 DEF Revoke, SweepLists, SweepFinishes, EndsElsewhere, mas
  <2>2. BoundInv' /\ EntriesOK'
    BY <1>a, <2>1, QuietBound, QuietEntries DEF history
  <2>3. open' \subseteq open
    BY <1>a, <1>9
    DEF Revoke, SweepLists, SweepFinishes, EndsElsewhere, Closes, mas, TypeOK
  <2>4. sweeping' \subseteq Grants
    BY <1>a, <1>9
    DEF Revoke, SweepLists, SweepFinishes, EndsElsewhere, StaleSessions, TypeOK
  <2>5. troubles' \in 0..MaxTroubles
    BY <1>a, <1>9, SessionsAssumption
    DEF Revoke, SweepLists, SweepFinishes, EndsElsewhere, TypeOK, SessionsAssumption
  <2>. QED
    BY <1>a, <2>1, <2>2, <2>3, <2>4, <2>5
    DEF Inv, TypeOK, EntriesOK, RequestsKnow, asking, history
<1>10. CASE Restart
  <2>1. store' = [u \in Operators |-> None] /\ revived' = {} /\ revoking' = {}
    BY <1>10 DEF Restart
  <2>2. Signed' = {} /\ EntriesOK'
    BY <2>1 DEF Signed, EntriesOK
  <2>3. Signed' \ revived' \subseteq Signed \ revived
    BY <2>2
  <2>4. BoundInv'
    BY <1>a, <2>1, <2>2, <2>3, FewerAreBounded DEF BoundInv
  <2>5. troubles' \in 0..MaxTroubles
    BY <1>a, <1>10, SessionsAssumption DEF Restart, TypeOK, SessionsAssumption
  <2>. QED
    BY <1>a, <1>10, <2>2, <2>4, <2>5
    DEF Inv, Restart, TypeOK, EntriesOK, RequestsKnow, mas
<1>11. ASSUME NEW r \in Requests, Get(r)
       PROVE  Inv'
  BY <1>4, <1>5, <1>6, <1>7, <1>8, <1>11 DEF Get
<1>. QED
  BY <1>1, <1>2, <1>3, <1>9, <1>10, <1>11 DEF Next

\* Every variable keeps its type: a request is never without the operator it
\* asks for, an answer of MAS never leaves an entry without a refresh token.
THEOREM TypeCorrect == Spec => []TypeOK
<1>1. Inv => TypeOK
  BY DEF Inv
<1>. QED
  BY <1>1, InitInv, StepInv, PTL DEF Spec

\* Signing in never takes the store of MatrixTokens over maxSessions, whatever
\* requests renew, sign-outs and new grants come between their critical
\* sections (Put, Get, Forget).
THEOREM StoreBounded == Spec => []StoreIsBounded
<1>1. Inv => StoreIsBounded
  BY DEF Inv, BoundInv
<1>. QED
  BY <1>1, InitInv, StepInv, PTL DEF Spec

-----------------------------------------------------------------------------
(* Whose grants, whose tokens.                                             *)

\* A grant belongs to the operator it was given to, in the store, in a request
\* and among those let go of.
Ownership ==
    /\ \A u \in Operators : store[u] # None => owner[store[u].grant] = u
    /\ \A r \in Requests : pc[r] # "idle" => owner[carried[r].grant] = asker[r]
    /\ \A c \in revoking : owner[c.grant] # None

\* A request that got an answer holds the refresh token MAS accepts, and while
\* MAS replaces tokens nobody else does.
Latest(r) ==
    pc[r] = "renewed" =>
        LET g == carried[r].grant IN
        /\ carried[r].token = newest[g]
        /\ rotates => /\ \A u \in Operators : store[u] # None /\ store[u].grant = g
                                              => store[u].token # newest[g]
                      /\ \A q \in Requests \ {r} : pc[q] # "idle" /\ carried[q].grant = g
                                                   => carried[q].token # newest[g]

\* No token is newer than the one MAS accepts.
Past(c) == c.token # None => c.token <= newest[c.grant]

Tokenwise ==
    /\ \A g \in Grants : owner[g] = None \/ ~rotates => newest[g] = 1
    /\ \A u \in Operators : store[u] # None => Past(store[u])
    /\ \A r \in Requests : pc[r] # "idle" => Past(carried[r])
    /\ \A r \in Requests : Latest(r)

\* What a request renews is what the store holds, unless somebody was at work
\* on the entry meanwhile.
Undisturbed ==
    \A u \in Operators \ raced : \A r \in InFlight(u) :
        store[u] # None /\ store[u].token # None /\ store[u].grant = carried[r].grant

\* Putting a grant into the store lets some expired entries go when the store
\* is full, and is refused or not.
LEMMA PutEffect ==
    ASSUME NEW u \in Operators, NEW c, Put(u, c)
    PROVE  \E gone \in SUBSET {v \in Signed : store[v].token = None} :
              /\ gone = {} \/ store[u] = None
              /\ \/ /\ store[u] = None
                    /\ store' = [v \in Operators |-> IF v \in gone THEN None ELSE store[v]]
                    /\ UNCHANGED <<revoking, signedOut>>
                 \/ /\ store' = [v \in Operators |-> IF v = u THEN c
                                                     ELSE IF v \in gone THEN None
                                                     ELSE store[v]]
                    /\ LetGo({store[u]} \ {None})
                    /\ signedOut' = signedOut \ {u}
<1>. PICK expired \in SUBSET {v \in Signed : store[v].token = None} :
        LET crowded == store[u] = None /\ Cardinality(Signed) >= maxSessions
            gone    == IF crowded THEN expired ELSE {}
        IN  IF crowded /\ Cardinality(Signed \ gone) >= maxSessions
            THEN /\ store' = [v \in Operators |-> IF v \in gone THEN None ELSE store[v]]
                 /\ UNCHANGED <<revoking, signedOut>>
            ELSE /\ store' = [v \in Operators |-> IF v = u THEN c
                                               ELSE IF v \in gone THEN None
                                               ELSE store[v]]
                 /\ LetGo({store[u]} \ {None})
                 /\ signedOut' = signedOut \ {u}
  BY Zenon DEF Put
<1>. DEFINE crowded == store[u] = None /\ Cardinality(Signed) >= maxSessions
            gone    == IF crowded THEN expired ELSE {}
<1>1. /\ gone \in SUBSET {v \in Signed : store[v].token = None}
      /\ gone = {} \/ store[u] = None
  OBVIOUS
<1>2. CASE crowded /\ Cardinality(Signed \ gone) >= maxSessions
  <2>1. /\ store[u] = None
        /\ store' = [v \in Operators |-> IF v \in gone THEN None ELSE store[v]]
        /\ UNCHANGED <<revoking, signedOut>>
    BY <1>2
  <2>. HIDE DEF gone
  <2>. QED
    BY <1>1, <2>1
<1>3. CASE ~(crowded /\ Cardinality(Signed \ gone) >= maxSessions)
  <2>1. /\ store' = [v \in Operators |-> IF v = u THEN c
                                         ELSE IF v \in gone THEN None ELSE store[v]]
        /\ LetGo({store[u]} \ {None})
        /\ signedOut' = signedOut \ {u}
    BY <1>3
  <2>. HIDE DEF gone
  <2>. QED
    BY <1>1, <2>1
<1>. QED
  BY <1>2, <1>3

\* What an authorization does to the entries: others may be displaced, the
\* operator's own is the new one, the old one, or none still.
LEMMA AuthorizeEffect ==
    ASSUME TypeOK, NEW u \in Operators, NEW g \in Grants, Authorize(u, g)
    PROVE  /\ owner[g] = None /\ owner' = [owner EXCEPT ![g] = u]
           /\ UNCHANGED <<newest, rotates, pc, asker, carried>>
           /\ \A v \in Operators \ {u} :
                 \/ store'[v] = store[v]
                 \/ store'[v] = None /\ store[v] # None /\ store[v].token = None
           /\ \/ store'[u] = store[u] /\ (store[u] = None \/ UNCHANGED <<raced, revoking>>)
              \/ /\ store'[u] \in {[grant |-> g, token |-> t] : t \in {1, None}}
                 /\ Settles(u, None) /\ u \notin signedOut'
           /\ UNCHANGED raced \/ Settles(u, None)
           /\ signedOut' \subseteq signedOut /\ troubles' \in {troubles, troubles + 1}
           /\ \A c \in revoking' : c \in revoking \/ (c = store[u] /\ store[u] # None)
<1>1. /\ owner[g] = None /\ owner' = [owner EXCEPT ![g] = u]
      /\ UNCHANGED <<newest, rotates, pc, asker, carried>>
  BY DEF Authorize, asking
<1>2. CASE UNCHANGED <<store, revoking, history>> /\ troubles' = troubles + 1
  BY <1>1, <1>2 DEF history
<1>3. CASE /\ \E t \in {1, None} : Put(u, [grant |-> g, token |-> t])
           /\ Settles(u, None) /\ UNCHANGED troubles
  <2>1. PICK t \in {1, None} : Put(u, [grant |-> g, token |-> t])
    BY <1>3
  <2>. DEFINE c == [grant |-> g, token |-> t]
  <2>2. PICK gone \in SUBSET {v \in Signed : store[v].token = None} :
              /\ gone = {} \/ store[u] = None
              /\ \/ /\ store[u] = None
                    /\ store' = [v \in Operators |-> IF v \in gone THEN None ELSE store[v]]
                    /\ UNCHANGED <<revoking, signedOut>>
                 \/ /\ store' = [v \in Operators |-> IF v = u THEN c
                                                     ELSE IF v \in gone THEN None
                                                     ELSE store[v]]
                    /\ LetGo({store[u]} \ {None})
                    /\ signedOut' = signedOut \ {u}
    BY <2>1, PutEffect
  <2>3. c \in {[grant |-> g, token |-> x] : x \in {1, None}}
    OBVIOUS
  <2>. HIDE DEF c
  <2>4. u \notin gone \/ store[u] = None
    BY <2>2
  <2>. QED
    BY <1>1, <1>3, <2>2, <2>3, <2>4 DEF LetGo, Signed
<1>. QED
  BY <1>2, <1>3 DEF Authorize

\* One step keeps the grants with their operators.
LEMMA StepOwnership ==
    ASSUME Inv, Ownership, [Next]_vars
    PROVE  Ownership'
<1>. USE NoneIsNobody
<1>a. TypeOK /\ RequestsKnow
  BY DEF Inv
<1>1. ASSUME NEW u \in Operators, NEW g \in Grants, Authorize(u, g)
      PROVE  Ownership'
  <2>1. \A h \in Grants : owner[h] # None => owner'[h] = owner[h]
    BY <1>a, <1>1, AuthorizeEffect DEF TypeOK
  <2>2. \A v \in Operators : store[v] # None => store[v].grant \in Grants
    BY <1>a DEF TypeOK, Credential
  <2>3. \A r \in Requests : pc[r] # "idle" => /\ carried[r].grant \in Grants
                                              /\ asker[r] \in Operators
    BY <1>a DEF TypeOK, RequestsKnow
  <2>4. \A c \in revoking : c.grant \in Grants
    BY <1>a DEF TypeOK, Credential
  <2>5. ASSUME NEW v \in Operators, store'[v] # None PROVE owner'[store'[v].grant] = v
    <3>1. CASE store'[v] = store[v]
      BY <2>1, <2>2, <2>5, <3>1 DEF Ownership
    <3>2. CASE store'[v] # store[v]
      <4>1. v = u /\ store'[v] \in {[grant |-> g, token |-> t] : t \in {1, None}}
        BY <1>a, <1>1, <2>5, <3>2, AuthorizeEffect
      <4>2. store'[v].grant = g
        BY <4>1
      <4>3. owner'[g] = u
        BY <1>a, <1>1, AuthorizeEffect DEF TypeOK
      <4>. QED
        BY <4>1, <4>2, <4>3
    <3>. QED
      BY <3>1, <3>2
  <2>6. \A r \in Requests : pc'[r] # "idle" => owner'[carried'[r].grant] = asker'[r]
    <3>1. UNCHANGED <<pc, asker, carried>>
      BY <1>a, <1>1, AuthorizeEffect
    <3>. QED
      BY <2>1, <2>3, <3>1 DEF Ownership
  <2>7. \A c \in revoking' : owner'[c.grant] # None
    <3>1. \A c \in revoking' : c \in revoking \/ (c = store[u] /\ store[u] # None)
      BY <1>a, <1>1, AuthorizeEffect
    <3>. QED
      BY <2>1, <2>2, <2>4, <3>1 DEF Ownership
  <2>. QED
    BY <2>5, <2>6, <2>7 DEF Ownership
<1>2. ASSUME NEW u \in Operators, Forget(u), UNCHANGED owner,
             \A r \in Requests : pc'[r] # "idle" => /\ pc[r] # "idle"
                                                    /\ UNCHANGED <<asker[r], carried[r]>>
      PROVE  Ownership'
  BY <1>a, <1>2 DEF Forget, LetGo, Ownership, TypeOK
<1>3. ASSUME NEW u \in Operators, Logout(u) \/ GetUnrenewable(u)
      PROVE  Ownership'
  BY <1>2, <1>3 DEF Logout, GetUnrenewable, mas, asking
<1>4. ASSUME NEW r \in Requests, NEW u \in Operators, Ask(r, u)
      PROVE  Ownership'
  BY <1>a, <1>4 DEF Ask, Ownership, Signed, TypeOK, mas
<1>5. ASSUME NEW r \in Requests, Renew(r) \/ Refuse(r)
      PROVE  Ownership'
  <2>1. Answer(carried[r]).grant = carried[r].grant
    BY <1>a, <1>5 DEF Answer, TypeOK, RequestsKnow, Renew, Refuse
  <2>2. /\ UNCHANGED <<owner, store, revoking, asker>> /\ pc[r] # "idle"
        /\ \A q \in Requests : /\ pc'[q] # "idle" => pc[q] # "idle"
                               /\ carried'[q].grant = carried[q].grant
    BY <1>a, <1>5, <2>1 DEF Renew, Refuse, TypeOK, mas
  <2>. QED
    BY <2>2 DEF Ownership
<1>6. ASSUME NEW r \in Requests, Keep(r)
      PROVE  Ownership'
  <2>1. /\ asker[r] \in Operators /\ carried[r] # None
        /\ owner[carried[r].grant] = asker[r]
        /\ store' = [store EXCEPT ![asker[r]] = carried[r]]
        /\ UNCHANGED <<owner, revoking>>
    BY <1>a, <1>6 DEF Keep, RequestsKnow, Ownership, mas
  <2>2. \A q \in Requests : pc'[q] # "idle" => /\ pc[q] # "idle"
                                               /\ UNCHANGED <<asker[q], carried[q]>>
    BY <1>a, <1>6 DEF Keep, Return, TypeOK
  <2>. QED
    BY <1>a, <2>1, <2>2 DEF Ownership, TypeOK
<1>7. ASSUME NEW r \in Requests, GiveUp(r)
      PROVE  Ownership'
  <2>1. asker[r] \in Operators
    BY <1>a, <1>7 DEF GiveUp, RequestsKnow
  <2>2. \A q \in Requests : pc'[q] # "idle" => /\ pc[q] # "idle"
                                               /\ UNCHANGED <<asker[q], carried[q]>>
    BY <1>a, <1>7 DEF GiveUp, Return, TypeOK
  <2>. QED
    BY <1>2, <1>7, <2>1, <2>2 DEF GiveUp, mas
<1>8. CASE \/ \E c \in revoking : Revoke(c)
           \/ SweepLists
           \/ \E g \in Grants : SweepFinishes(g) \/ EndsElsewhere(g)
           \/ UNCHANGED vars
  <2>1. UNCHANGED <<store, pc, asker, carried, owner>> /\ revoking' \subseteq revoking
    BY <1>8 DEF Revoke, SweepLists, SweepFinishes, EndsElsewhere, mas, asking, vars
  <2>. QED
    BY <2>1 DEF Ownership
<1>9. CASE Restart
  BY <1>9 DEF Restart, Ownership, mas
<1>. QED
  BY <1>1, <1>3, <1>4, <1>5, <1>6, <1>7, <1>8, <1>9 DEF Next, Get

-----------------------------------------------------------------------------
(* Signing out.                                                            *)

\* Whoever forgets an entry leaves nothing under way for it unmarked.
LEMMA ForgetSticks ==
    ASSUME Inv, Ownership, Undisturbed, SignOutSticks,
           NEW u \in Operators, NEW x, Forget(u), Settles(u, x),
           signedOut' \subseteq signedOut \cup {u},
           \A r \in Requests : pc'[r] # "idle" =>
               pc[r] # "idle" /\ r # x /\ UNCHANGED <<asker[r], carried[r]>>
    PROVE  (Undisturbed /\ SignOutSticks)'
<1>1. /\ store'[u] = None /\ \A v \in Operators \ {u} : store'[v] = store[v]
      /\ \A c \in revoking' : c \in revoking \/ (c = store[u] /\ store[u] # None)
  BY DEF Inv, TypeOK, Forget, LetGo
<1>2. /\ \A v \in Operators : InFlight(v)' \subseteq InFlight(v)
      /\ InFlight(u)' \subseteq InFlight(u) \ {x}
  BY DEF InFlight
<1>3. /\ raced' \cup {u} = raced \cup {u}
      /\ u \notin raced' => InFlight(u) \ {x} = {}
  BY DEF Settles
<1>4. ASSUME NEW v \in Operators \ {u}, v \notin raced'
      PROVE  /\ v \in signedOut' => store'[v] = None
             /\ \A c \in revoking' : store'[v] # None => store'[v].grant # c.grant
             /\ \A r \in InFlight(v)' : /\ store'[v] # None /\ store'[v].token # None
                                        /\ store'[v].grant = carried'[r].grant
  <2>1. v \notin raced
    BY <1>3, <1>4
  <2>2. store[u] # None /\ store[v] # None => store[u].grant # store[v].grant
    BY DEF Ownership
  <2>3. \A r \in InFlight(v)' : carried'[r] = carried[r]
    BY DEF InFlight
  <2>. QED
    BY <1>1, <1>2, <2>1, <2>2, <2>3 DEF Undisturbed, SignOutSticks
<1>. QED
  BY <1>1, <1>2, <1>3, <1>4 DEF Undisturbed, SignOutSticks

\* One step of a request, of the sweep, of MAS or of an operator: who signed
\* out stays so, and what is held is not being revoked.
LEMMA StepSticks ==
    ASSUME Inv, Ownership, Undisturbed, SignOutSticks, [Next]_vars
    PROVE  (Undisturbed /\ SignOutSticks)'
<1>. USE NoneIsNobody
<1>a. TypeOK /\ RequestsKnow /\ None \notin Requests
  BY SessionsAssumption DEF Inv, SessionsAssumption
<1>1. ASSUME NEW u \in Operators, NEW g \in Grants, Authorize(u, g)
      PROVE  (Undisturbed /\ SignOutSticks)'
  <2>1. /\ owner[g] = None /\ UNCHANGED <<pc, asker, carried>>
        /\ \A v \in Operators \ {u} :
                 \/ store'[v] = store[v]
                 \/ store'[v] = None /\ store[v] # None /\ store[v].token = None
        /\ \/ store'[u] = store[u] /\ (store[u] = None \/ UNCHANGED <<raced, revoking>>)
           \/ /\ store'[u] \in {[grant |-> g, token |-> t] : t \in {1, None}}
              /\ Settles(u, None) /\ u \notin signedOut'
        /\ UNCHANGED raced \/ Settles(u, None)
        /\ signedOut' \subseteq signedOut
        /\ \A c \in revoking' : c \in revoking \/ (c = store[u] /\ store[u] # None)
    BY <1>a, <1>1, AuthorizeEffect
  <2>2. \A v \in Operators : InFlight(v)' = InFlight(v)
    BY <2>1 DEF InFlight
  <2>3. /\ raced' \cup {u} = raced \cup {u}
        /\ UNCHANGED raced \/ (u \notin raced' => InFlight(u) = {})
    BY <1>a, <2>1 DEF Settles, InFlight
  <2>4. ASSUME NEW v \in Operators \ {u}, v \notin raced'
        PROVE  /\ v \in signedOut' => store'[v] = None
               /\ \A c \in revoking' : store'[v] # None => store'[v].grant # c.grant
               /\ \A r \in InFlight(v)' : /\ store'[v] # None /\ store'[v].token # None
                                          /\ store'[v].grant = carried'[r].grant
    <3>1. v \notin raced
      BY <2>3, <2>4
    <3>2. store[u] # None /\ store[v] # None => store[u].grant # store[v].grant
      BY DEF Ownership
    <3>. QED
      BY <2>1, <2>2, <3>1, <3>2 DEF Undisturbed, SignOutSticks
  <2>5. ASSUME u \notin raced'
        PROVE  /\ u \in signedOut' => store'[u] = None
               /\ \A c \in revoking' : store'[u] # None => store'[u].grant # c.grant
               /\ \A r \in InFlight(u)' : /\ store'[u] # None /\ store'[u].token # None
                                          /\ store'[u].grant = carried'[r].grant
    <3>1. CASE store'[u] \in {[grant |-> g, token |-> t] : t \in {1, None}} /\ Settles(u, None)
                 /\ u \notin signedOut'
      <4>1. store'[u].grant = g /\ InFlight(u) = {}
        BY <1>a, <2>5, <3>1 DEF Settles, InFlight
      <4>2. \A c \in revoking' : owner[c.grant] # None
        BY <2>1 DEF Ownership
      <4>. QED
        BY <2>1, <2>2, <3>1, <4>1, <4>2
    <3>2. CASE store'[u] = store[u] /\ UNCHANGED <<raced, revoking>>
      BY <2>1, <2>2, <2>5, <3>2 DEF Undisturbed, SignOutSticks
    <3>3. CASE store'[u] = store[u] /\ store[u] = None
      BY <2>1, <2>2, <2>3, <2>5, <3>3 DEF Undisturbed
    <3>. QED
      BY <2>1, <3>1, <3>2, <3>3
  <2>. QED
    BY <2>4, <2>5 DEF Undisturbed, SignOutSticks
<1>2. ASSUME NEW u \in Operators, Logout(u) \/ GetUnrenewable(u)
      PROVE  (Undisturbed /\ SignOutSticks)'
  <2>1. /\ Forget(u) /\ Settles(u, None) /\ signedOut' \subseteq signedOut \cup {u}
        /\ UNCHANGED <<pc, asker, carried>>
    BY <1>2 DEF Logout, GetUnrenewable, asking
  <2>. QED
    BY <1>a, <2>1, ForgetSticks
<1>3. ASSUME NEW r \in Requests, GiveUp(r)
      PROVE  (Undisturbed /\ SignOutSticks)'
  <2>1. /\ asker[r] \in Operators /\ Forget(asker[r]) /\ Settles(asker[r], r)
        /\ UNCHANGED signedOut
    BY <1>a, <1>3 DEF GiveUp, RequestsKnow
  <2>2. \A q \in Requests : pc'[q] # "idle" =>
             pc[q] # "idle" /\ q # r /\ UNCHANGED <<asker[q], carried[q]>>
    BY <1>a, <1>3 DEF GiveUp, Return, TypeOK
  <2>. QED
    BY <2>1, <2>2, ForgetSticks
<1>4. ASSUME NEW r \in Requests, NEW u \in Operators, Ask(r, u)
      PROVE  (Undisturbed /\ SignOutSticks)'
  <2>1. /\ pc[r] = "idle" /\ store[u] # None /\ store[u].token # None
        /\ \A q \in Requests : pc'[q] = IF q = r THEN "asking" ELSE pc[q]
        /\ \A q \in Requests : asker'[q] = IF q = r THEN u ELSE asker[q]
        /\ \A q \in Requests : carried'[q] = IF q = r THEN store[u] ELSE carried[q]
        /\ UNCHANGED <<store, revoking, signedOut>>
        /\ raced \subseteq raced' /\ (u \notin raced' => InFlight(u) \ {r} = {})
    BY <1>a, <1>4 DEF Ask, Touches, Signed, TypeOK
  <2>2. /\ \A v \in Operators \ {u} : InFlight(v)' = InFlight(v) /\ r \notin InFlight(v)
        /\ u \notin raced' => InFlight(u)' = {r}
    BY <2>1 DEF InFlight
  <2>. QED
    BY <2>1, <2>2 DEF Undisturbed, SignOutSticks, InFlight
<1>5. ASSUME NEW r \in Requests, Renew(r) \/ Refuse(r)
      PROVE  (Undisturbed /\ SignOutSticks)'
  <2>1. Answer(carried[r]).grant = carried[r].grant
    BY <1>a, <1>5 DEF Answer, TypeOK, RequestsKnow, Renew, Refuse
  <2>2. /\ UNCHANGED <<store, revoking, asker, signedOut, raced>>
        /\ \A q \in Requests : /\ pc'[q] # "idle" => pc[q] # "idle"
                               /\ carried'[q].grant = carried[q].grant
    BY <1>a, <1>5, <2>1 DEF Renew, Refuse, TypeOK, history
  <2>3. \A v \in Operators : InFlight(v)' \subseteq InFlight(v)
    BY <2>2 DEF InFlight
  <2>. QED
    BY <2>2, <2>3 DEF Undisturbed, SignOutSticks, InFlight
<1>6. ASSUME NEW r \in Requests, Keep(r)
      PROVE  (Undisturbed /\ SignOutSticks)'
  <2>. PICK u \in Operators : u = asker[r]
    BY <1>a, <1>6 DEF Keep, RequestsKnow
  <2>1. /\ r \in InFlight(u)
        /\ \A v \in Operators : store'[v] = IF v = u THEN carried[r] ELSE store[v]
        /\ UNCHANGED <<revoking, signedOut>>
        /\ raced \subseteq raced' /\ (u \notin raced' => InFlight(u) \ {r} = {})
    BY <1>a, <1>6 DEF Keep, RequestsKnow, InFlight, TypeOK, Touches
  <2>2. /\ \A q \in Requests : pc'[q] # "idle" =>
             pc[q] # "idle" /\ q # r /\ UNCHANGED <<asker[q], carried[q]>>
    BY <1>a, <1>6 DEF Keep, Return, TypeOK
  <2>3. /\ \A v \in Operators : InFlight(v)' \subseteq InFlight(v) \ {r}
        /\ \A v \in Operators : \A q \in InFlight(v)' : carried'[q] = carried[q]
    BY <2>2 DEF InFlight
  <2>4. ASSUME NEW v \in Operators \ {u}, v \notin raced'
        PROVE  /\ v \in signedOut' => store'[v] = None
               /\ \A c \in revoking' : store'[v] # None => store'[v].grant # c.grant
               /\ \A q \in InFlight(v)' : /\ store'[v] # None /\ store'[v].token # None
                                          /\ store'[v].grant = carried'[q].grant
    BY <2>1, <2>3, <2>4 DEF Undisturbed, SignOutSticks
  <2>5. ASSUME u \notin raced'
        PROVE  /\ u \notin signedOut'
               /\ \A c \in revoking' : store'[u].grant # c.grant
               /\ InFlight(u)' = {}
    <3>1. store[u] # None /\ store[u].grant = carried[r].grant /\ u \notin raced
      BY <2>1, <2>5 DEF Undisturbed
    <3>. QED
      BY <2>1, <2>3, <2>5, <3>1 DEF SignOutSticks
  <2>. QED
    BY <2>4, <2>5 DEF Undisturbed, SignOutSticks
<1>7. CASE \/ \E c \in revoking : Revoke(c)
           \/ SweepLists
           \/ \E g \in Grants : SweepFinishes(g) \/ EndsElsewhere(g)
           \/ UNCHANGED vars
  <2>1. /\ UNCHANGED <<store, pc, asker, carried, signedOut, raced>>
        /\ revoking' \subseteq revoking
    BY <1>7 DEF Revoke, SweepLists, SweepFinishes, EndsElsewhere, mas, asking, vars, history
  <2>. QED
    BY <2>1 DEF Undisturbed, SignOutSticks, InFlight
<1>8. CASE Restart
  BY <1>8 DEF Restart, Undisturbed, SignOutSticks, InFlight
<1>. QED
  BY <1>1, <1>2, <1>3, <1>4, <1>5, <1>6, <1>7, <1>8 DEF Next, Get

\* Before anybody signed in there is no token that could be old.
LEMMA InitTokens == Init => Ownership /\ Tokenwise /\ Undisturbed /\ SignOutSticks /\ HeldIsCurrent
BY DEF Init, Ownership, Tokenwise, Latest, Undisturbed, SignOutSticks, HeldIsCurrent, InFlight

\* Signing out sticks: whatever renewals, sign-ins and displacements by a full
\* store come between, an operator whose entry was not worked on while a
\* request renewed it is not signed in again by MatrixTokens.Get, and no
\* session in the store is on its way to RevokeLater.
THEOREM SigningOutSticks == Spec => []SignOutSticks
<1>1. Inv /\ Ownership /\ Undisturbed /\ SignOutSticks /\ [Next]_vars
      => (Inv /\ Ownership /\ Undisturbed /\ SignOutSticks)'
  BY StepInv, StepOwnership, StepSticks
<1>. QED
  BY <1>1, InitInv, InitTokens, PTL DEF Spec

-----------------------------------------------------------------------------
(* Refresh tokens.                                                         *)

\* What the process knows of a grant: numbers, and whose.
LEMMA KnownTokens ==
    ASSUME Inv, Ownership
    PROVE  /\ \A u \in Operators : store[u] # None =>
                 /\ store[u].grant \in Grants /\ store[u].token \in Nat \cup {None}
                 /\ owner[store[u].grant] = u
           /\ \A r \in Requests : pc[r] # "idle" =>
                 /\ carried[r].grant \in Grants /\ carried[r].token \in Nat
                 /\ owner[carried[r].grant] = asker[r] /\ asker[r] \in Operators
                 /\ carried[r] # None
           /\ \A g \in Grants : newest[g] \in Nat \ {0}
           /\ None \notin Nat /\ None \notin Operators /\ rotates \in BOOLEAN
<1>1. Tokens \subseteq Nat \ {0} /\ None \notin Nat /\ Operators \subseteq Nat
  BY SessionsAssumption DEF SessionsAssumption, Tokens
<1>. QED
  BY <1>1 DEF Inv, TypeOK, RequestsKnow, Ownership, Credential

\* A token MAS replaces was in nobody else's hands as the latest one.
LEMMA RenewTokens ==
    ASSUME Inv, Ownership, Tokenwise, NEW r \in Requests, Renew(r)
    PROVE  Tokenwise'
<1>. DEFINE g == carried[r].grant
<1>1. /\ pc[r] = "asking" /\ g \in Grants /\ carried[r].token = newest[g]
      /\ newest[g] \in Nat \ {0} /\ owner[g] # None /\ rotates \in BOOLEAN
      /\ \A h \in Grants : newest[h] \in Nat \ {0}
  BY KnownTokens DEF Renew, Accepted
<1>2. /\ newest' = [newest EXCEPT ![g] = IF rotates THEN @ + 1 ELSE @]
      /\ UNCHANGED <<owner, rotates, store>>
      /\ \A q \in Requests \ {r} : pc'[q] = pc[q] /\ carried'[q] = carried[q]
      /\ \/ pc'[r] = "renewed" /\ carried'[r] = Answer(carried[r])
         \/ pc'[r] = "refused" /\ carried'[r] = carried[r]
  BY DEF Renew, Inv, TypeOK
<1>3. /\ \A u \in Operators : store[u] # None =>
                 store[u].grant \in Grants /\ store[u].token \in Nat \cup {None}
      /\ \A q \in Requests : pc[q] # "idle" =>
                 carried[q].grant \in Grants /\ carried[q].token \in Nat
      /\ None \notin Nat
  BY KnownTokens
<1>4. CASE ~rotates
  <2>1. UNCHANGED newest /\ carried'[r] = carried[r]
    BY <1>2, <1>4 DEF Answer, Inv, TypeOK
  <2>. QED
    BY <1>1, <1>2, <1>4, <2>1 DEF Tokenwise, Latest, Past
<1>5. CASE rotates
  <2>1. /\ newest'[g] = newest[g] + 1
        /\ \A h \in Grants \ {g} : newest'[h] = newest[h]
    BY <1>1, <1>2, <1>5 DEF Inv, TypeOK
  <2>2. /\ carried'[r].grant = g
        /\ carried'[r].token \in {newest[g], newest[g] + 1}
        /\ pc'[r] = "renewed" => carried'[r].token = newest[g] + 1
    <3>1. carried[r] \in [grant : Grants, token : Tokens]
      BY <1>1, KnownTokens DEF Inv, TypeOK
    <3>. QED
      BY <1>1, <1>2, <1>5, <3>1 DEF Answer
  <2>. HIDE DEF g
  <2>3. /\ \A u \in Operators : store[u] # None => Past(store[u])
        /\ \A q \in Requests : pc[q] # "idle" => Past(carried[q])
        /\ \A q \in Requests : Latest(q)
        /\ \A h \in Grants : owner[h] = None \/ ~rotates => newest[h] = 1
    BY DEF Tokenwise
  <2>4. \A h \in Grants : owner'[h] = None \/ ~rotates' => newest'[h] = 1
    BY <1>1, <1>2, <1>5, <2>1, <2>3
  <2>5. ASSUME NEW u \in Operators, store[u] # None
        PROVE  /\ Past(store[u])'
               /\ store[u].grant = g => store[u].token # newest'[g]
    <3>1. /\ store[u].grant \in Grants /\ store[u].token \in Nat \cup {None}
          /\ store[u].token # None => store[u].token <= newest[store[u].grant]
      BY <1>3, <2>3, <2>5 DEF Past
    <3>. QED
      BY <1>1, <1>2, <1>3, <2>1, <3>1 DEF Past
  <2>6. ASSUME NEW q \in Requests \ {r}, pc[q] # "idle"
        PROVE  /\ Past(carried[q])'
               /\ carried[q].grant = g => carried[q].token # newest'[g]
    <3>1. /\ carried[q].grant \in Grants /\ carried[q].token \in Nat
          /\ carried[q].token <= newest[carried[q].grant]
      BY <1>3, <2>3, <2>6 DEF Past
    <3>. QED
      BY <1>1, <1>2, <1>3, <2>1, <3>1 DEF Past
  <2>7. Past(carried[r])'
    BY <1>1, <2>1, <2>2 DEF Past
  <2>8. Latest(r)'
    BY <1>2, <2>1, <2>2, <2>5, <2>6 DEF Latest
  <2>9. ASSUME NEW q \in Requests \ {r}, pc[q] = "renewed" PROVE Latest(q)'
    <3>1. carried[q].grant # g
      BY <1>1, <1>5, <2>3, <2>9 DEF Latest, g
    <3>2. carried[q].grant \in Grants /\ newest'[carried[q].grant] = newest[carried[q].grant]
      BY <1>3, <2>1, <2>9, <3>1
    <3>3. \A p \in Requests \ {q} : pc'[p] # "idle" /\ carried'[p].grant = carried[q].grant
              => p # r /\ pc[p] # "idle" /\ carried'[p] = carried[p]
      BY <1>2, <2>2, <3>1
    <3>. QED
      BY <1>2, <2>3, <2>9, <3>2, <3>3 DEF Latest
  <2>10. \A q \in Requests : Latest(q)'
    BY <1>2, <2>8, <2>9 DEF Latest
  <2>. QED
    BY <1>2, <2>4, <2>5, <2>6, <2>7, <2>10 DEF Tokenwise
<1>. QED
  BY <1>1, <1>4, <1>5

\* No step, a renewal least of all, makes a token newer than the one MAS accepts.
LEMMA StepTokens ==
    ASSUME Inv, Ownership, Tokenwise, [Next]_vars
    PROVE  Tokenwise'
<1>. USE NoneIsNobody
<1>a. TypeOK /\ RequestsKnow
  BY DEF Inv
<1>1. ASSUME NEW u \in Operators, NEW g \in Grants, Authorize(u, g)
      PROVE  Tokenwise'
  <2>1. /\ owner[g] = None /\ owner' = [owner EXCEPT ![g] = u]
        /\ UNCHANGED <<newest, rotates, pc, asker, carried>>
        /\ \A v \in Operators : \/ store'[v] = store[v] \/ store'[v] = None
                                \/ store'[v] \in {[grant |-> g, token |-> t] : t \in {1, None}}
    BY <1>a, <1>1, AuthorizeEffect
  <2>2. newest[g] = 1 /\ \A r \in Requests : pc[r] # "idle" => carried[r].grant # g
    BY <2>1, KnownTokens DEF Tokenwise
  <2>3. ASSUME NEW v \in Operators, store'[v] # None, store'[v] # store[v]
        PROVE  store'[v].grant = g /\ store'[v].token \in {1, None}
    BY <2>1, <2>3
  <2>4. \A h \in Grants : owner'[h] = None => owner[h] = None
    BY <1>a, <2>1 DEF TypeOK
  <2>5. \A v \in Operators : store'[v] # None => Past(store[v])'
    BY <2>1, <2>2, <2>3 DEF Tokenwise, Past
  <2>6. \A r \in Requests : Latest(r)'
    BY <2>1, <2>2, <2>3 DEF Tokenwise, Latest
  <2>. QED
    BY <2>1, <2>4, <2>5, <2>6 DEF Tokenwise, Past
<1>2. ASSUME NEW u \in Operators, Logout(u) \/ GetUnrenewable(u)
      PROVE  Tokenwise'
  <2>1. /\ UNCHANGED <<newest, rotates, owner, pc, carried>>
        /\ \A v \in Operators : store'[v] \in {store[v], None}
    BY <1>a, <1>2 DEF Logout, GetUnrenewable, Forget, mas, asking, TypeOK
  <2>. QED
    BY <2>1 DEF Tokenwise, Latest, Past
<1>3. ASSUME NEW r \in Requests, GiveUp(r)
      PROVE  Tokenwise'
  <2>1. /\ UNCHANGED <<newest, rotates, owner>>
        /\ \A v \in Operators : store'[v] \in {store[v], None}
        /\ \A q \in Requests : pc'[q] # "idle" => pc'[q] = pc[q] /\ carried'[q] = carried[q]
    BY <1>a, <1>3 DEF GiveUp, Forget, Return, mas, TypeOK, RequestsKnow
  <2>. QED
    BY <2>1 DEF Tokenwise, Latest, Past
<1>4. ASSUME NEW r \in Requests, Refuse(r)
      PROVE  Tokenwise'
  <2>1. /\ UNCHANGED <<newest, rotates, owner, store, carried>>
        /\ \A q \in Requests : /\ pc'[q] = "renewed" => pc[q] = "renewed"
                               /\ pc'[q] # "idle" => pc[q] # "idle"
    BY <1>a, <1>4 DEF Refuse, mas, TypeOK
  <2>. QED
    BY <2>1 DEF Tokenwise, Latest, Past
<1>5. ASSUME NEW r \in Requests, NEW u \in Operators, Ask(r, u)
      PROVE  Tokenwise'
  <2>1. /\ pc[r] = "idle" /\ store[u] # None
        /\ \A q \in Requests : pc'[q] = IF q = r THEN "asking" ELSE pc[q]
        /\ \A q \in Requests : carried'[q] = IF q = r THEN store[u] ELSE carried[q]
        /\ UNCHANGED <<store, newest, rotates, owner>>
    BY <1>a, <1>5 DEF Ask, Signed, TypeOK, mas
  <2>. QED
    BY <2>1 DEF Tokenwise, Latest, Past
<1>6. ASSUME NEW r \in Requests, Keep(r)
      PROVE  Tokenwise'
  <2>1. /\ pc[r] = "renewed" /\ UNCHANGED <<newest, rotates, owner>>
        /\ \A v \in Operators : store'[v] \in {store[v], carried[r]}
        /\ \A q \in Requests : pc'[q] # "idle" =>
                 q # r /\ pc'[q] = pc[q] /\ carried'[q] = carried[q]
    BY <1>a, <1>6 DEF Keep, Return, TypeOK, mas
  <2>. QED
    BY <2>1 DEF Tokenwise, Latest, Past
<1>7. ASSUME NEW r \in Requests, Renew(r)
      PROVE  Tokenwise'
  BY <1>7, RenewTokens
<1>8. CASE \/ \E c \in revoking : Revoke(c)
           \/ SweepLists
           \/ \E g \in Grants : SweepFinishes(g) \/ EndsElsewhere(g)
           \/ UNCHANGED vars
  <2>1. UNCHANGED <<store, pc, carried, newest, rotates, owner>>
    BY <1>8 DEF Revoke, SweepLists, SweepFinishes, EndsElsewhere, mas, asking, vars
  <2>. QED
    BY <2>1 DEF Tokenwise, Latest, Past
<1>9. CASE Restart
  BY <1>9 DEF Restart, mas, Tokenwise, Latest, Past
<1>. QED
  BY <1>1, <1>2, <1>3, <1>4, <1>5, <1>6, <1>7, <1>8, <1>9 DEF Next, Get

\* An operator's token is current, or somebody is on the way to replace it.
Current(u) ==
    store[u] # None /\ store[u].token # None
    => \/ store[u].token = newest[store[u].grant]
       \/ \E r \in InFlight(u) : pc[r] \in {"renewed", "refused"}

\* No step leaves an old token in the store, but for a request that still has its answer to put there.
LEMMA StepCurrent ==
    ASSUME Inv, Ownership, Tokenwise, HeldIsCurrent, [Next]_vars
    PROVE  HeldIsCurrent'
<1>. USE NoneIsNobody
<1>a. TypeOK /\ RequestsKnow /\ troubles \in Nat
  BY SessionsAssumption DEF Inv, TypeOK, SessionsAssumption
<1>. SUFFICES ASSUME troubles' = 0 PROVE \A u \in Operators : Current(u)'
  <2>1. troubles' \in Nat
    BY StepInv, SessionsAssumption DEF Inv, TypeOK, SessionsAssumption
  <2>. QED
    BY <2>1 DEF HeldIsCurrent, Current
<1>1. ASSUME NEW u \in Operators, NEW g \in Grants, Authorize(u, g)
      PROVE  \A v \in Operators : Current(v)'
  <2>1. /\ owner[g] = None
        /\ UNCHANGED <<newest, pc, asker, carried>>
        /\ \A v \in Operators : \/ store'[v] = store[v] \/ store'[v] = None
                                \/ store'[v] \in {[grant |-> g, token |-> t] : t \in {1, None}}
        /\ troubles' \in {troubles, troubles + 1}
    BY <1>a, <1>1, AuthorizeEffect
  <2>2. newest[g] = 1 /\ troubles = 0
    BY <1>a, <2>1 DEF Tokenwise
  <2>3. ASSUME NEW v \in Operators, store'[v] # None, store'[v] # store[v]
        PROVE  store'[v].grant = g /\ store'[v].token \in {1, None}
    BY <2>1, <2>3
  <2>. QED
    BY <2>1, <2>2, <2>3 DEF HeldIsCurrent, Current, InFlight
<1>2. ASSUME NEW u \in Operators, Logout(u) \/ GetUnrenewable(u)
      PROVE  \A v \in Operators : Current(v)'
  <2>1. /\ UNCHANGED <<newest, pc, asker, troubles>>
        /\ \A v \in Operators : store'[v] \in {store[v], None}
    BY <1>a, <1>2 DEF Logout, GetUnrenewable, Forget, mas, asking, TypeOK
  <2>. QED
    BY <2>1 DEF HeldIsCurrent, Current, InFlight
<1>3. ASSUME NEW r \in Requests, NEW u \in Operators, Ask(r, u)
      PROVE  \A v \in Operators : Current(v)'
  <2>1. /\ UNCHANGED <<newest, store, troubles>> /\ pc[r] = "idle"
        /\ \A q \in Requests \ {r} : pc'[q] = pc[q] /\ asker'[q] = asker[q]
    BY <1>a, <1>3 DEF Ask, mas, TypeOK
  <2>. QED
    BY <2>1 DEF HeldIsCurrent, Current, InFlight
<1>4. ASSUME NEW r \in Requests, Renew(r) \/ Refuse(r)
      PROVE  \A v \in Operators : Current(v)'
  <2>1. /\ UNCHANGED <<store, asker>> /\ pc[r] = "asking"
        /\ troubles = 0
        /\ \A q \in Requests \ {r} : pc'[q] = pc[q]
        /\ pc'[r] \in {"renewed", "refused"}
        /\ \A h \in Grants : h # carried[r].grant => newest'[h] = newest[h]
    BY <1>a, <1>4 DEF Renew, Refuse, mas, TypeOK
  <2>2. ASSUME NEW v \in Operators, asker[r] = v PROVE Current(v)'
    BY <2>1, <2>2 DEF Current, InFlight
  <2>3. ASSUME NEW v \in Operators, asker[r] # v, store[v] # None PROVE Current(v)'
    <3>1. store[v].grant \in Grants /\ store[v].grant # carried[r].grant
      BY <2>1, <2>3, KnownTokens
    <3>. QED
      BY <2>1, <2>3, <3>1 DEF HeldIsCurrent, Current, InFlight
  <2>. QED
    BY <2>1, <2>2, <2>3 DEF Current
<1>5. ASSUME NEW r \in Requests, Keep(r) \/ GiveUp(r)
      PROVE  \A v \in Operators : Current(v)'
  <2>1. /\ UNCHANGED <<newest, troubles>>
        /\ store'[asker[r]] = None \/ (pc[r] = "renewed" /\ store'[asker[r]] = carried[r])
        /\ \A v \in Operators : v # asker[r] => store'[v] = store[v]
        /\ \A q \in Requests \ {r} : pc'[q] = pc[q] /\ asker'[q] = asker[q]
    BY <1>a, <1>5 DEF Keep, GiveUp, Forget, Return, mas, TypeOK, RequestsKnow
  <2>. QED
    BY <2>1 DEF HeldIsCurrent, Current, InFlight, Tokenwise, Latest
<1>6. CASE \/ \E c \in revoking : Revoke(c)
           \/ SweepLists
           \/ \E g \in Grants : SweepFinishes(g) \/ EndsElsewhere(g)
           \/ UNCHANGED vars
  <2>1. UNCHANGED <<store, pc, asker, newest>> /\ troubles = 0
    BY <1>a, <1>6 DEF Revoke, SweepLists, SweepFinishes, EndsElsewhere, mas, asking, vars
  <2>. QED
    BY <2>1 DEF HeldIsCurrent, Current, InFlight
<1>7. CASE Restart
  BY <1>7 DEF Restart, Current
<1>. QED
  BY <1>1, <1>2, <1>3, <1>4, <1>5, <1>6, <1>7 DEF Next, Get

\* Two requests that renew one session side by side do not leave the older
\* refresh token behind: as long as no answer of MAS is lost, what the store
\* of MatrixTokens holds is what MAS accepts or about to be replaced.
THEOREM TokensAreCurrent == Spec => []HeldIsCurrent
<1>1. Inv /\ Ownership /\ Tokenwise /\ HeldIsCurrent /\ [Next]_vars
      => (Inv /\ Ownership /\ Tokenwise /\ HeldIsCurrent)'
  BY StepInv, StepOwnership, StepTokens, StepCurrent
<1>. QED
  BY <1>1, InitInv, InitTokens, PTL DEF Spec

=============================================================================
