-------------------------- MODULE MatrixLoginProofs --------------------------
(***************************************************************************)
(* The way to signing in through MAS, for any number of requests,          *)
(* addresses and troubles: the local login stays open until MAS confirmed, *)
(* a connect that is left alone switches to settings somebody can sign in  *)
(* with, and the loop that retries takes no service's place.               *)
(***************************************************************************)
EXTENDS MatrixLogin, TLAPS

Past == {"confirm", "people", "save", "load", "build"}

(* What a request has with it at its steps.                                *)
HasWith(r) ==
    /\ pc[r] \in {"write", "name"} => seen[r] # Garbled /\ host[r] \in Hosts
    /\ pc[r] = "write" /\ seen[r] = None => carrying[r] \in Nat
    /\ pc[r] = "name" => seen[r] # None
    /\ pc[r] = "build" => settings[r] # None
    /\ pc[r] # "save" => saved[r] = {}

Held == \A r \in Requests : HasWith(r)

(* Helm has one rollout at a time, and none over an install under way.     *)
OneRollout ==
    /\ \A r \in Requests : pc[r] \in {"rolling", "installing"} => release = "pending"
    /\ \A r, q \in Requests :
          {pc[r], pc[q]} \subseteq {"rolling", "installing"} => r = q
    /\ \A r, q \in Requests : pc[r] = "installing" => pc[q] \notin Past
    /\ release = "absent" => \A q \in Requests : pc[q] \notin Past

(* These of a login's settings are such that somebody can sign in.         *)
Fits(c, keys) == /\ "client" \in keys => c.client = fragment.id
                 /\ "secret" \in keys => c.secret = fragment.id
                 /\ "redirect" \in keys => c.redirect \in fragment.uris

(* What a connect stands on from its write to its switch, as long as       *)
(* nobody takes it away: its client is the one of the configuration, then  *)
(* the one MAS runs with, whatever is rolled out next; and what it stores  *)
(* and reads back names that client.                                       *)
Footing(r) ==
    /\ pc[r] \in {"credentials", "upgrade", "rolling"} \cup Past =>
          /\ Readable(fragment) /\ host[r] \in fragment.uris
          /\ pc[r] # "credentials" => carrying[r] = fragment.id
    /\ pc[r] \in Past => \A q \in Requests :
          pc[q] = "rolling" => Readable(seen[q]) /\ seen[q].id = fragment.id
    /\ pc[r] \in Past \ {"confirm"} => loaded # None /\ loaded.id = fragment.id
    /\ pc[r] \in {"save", "load", "build"} => account = "admin"
    /\ pc[r] = "save" => Fits(stored, saved[r])
    /\ pc[r] = "load" => Fits(stored, DOMAIN Nothing)
    /\ pc[r] = "build" => Fits(settings[r], DOMAIN Nothing)

(* Before MAS confirmed anything there are no settings anywhere.           *)
NotYet == ~mayClose => /\ <<env, stored, startCfg>> = <<Nothing, Nothing, Nothing>>
                       /\ installed = None
                       /\ \A r \in Requests : pc[r] \notin {"save", "load", "build"}

(* The loop builds only where there is no service, or one came meanwhile.  *)
Straddle == retry = "building" => straddled \/ ~OIDCConfigured

LoginInv == /\ TypeOK /\ Held /\ OneRollout /\ NotYet /\ Straddle
            /\ \A r \in Requests \ disturbed : Footing(r)

-----------------------------------------------------------------------------
(* The settings of a login and their names.                                *)
LEMMA Keys == DOMAIN Nothing = {"client", "secret", "issuer", "redirect"} /\ Nothing \in Settings
BY DEF Nothing, Settings

(* A step of a request leaves what the others have alone.                  *)
LEMMA Others ==
    ASSUME TypeOK, NEW r \in Requests, Step(r), NEW q \in Requests, q # r
    PROVE  /\ pc'[q] = pc[q] /\ seen'[q] = seen[q] /\ carrying'[q] = carrying[q]
           /\ settings'[q] = settings[q] /\ host'[q] = host[q] /\ saved'[q] = saved[q]
<1>. USE DEF TypeOK, Goto, End, Comes, requests, process, cluster
<1>1. CASE \E h \in Hosts : Connect(r, h)
  BY <1>1 DEF Connect
<1>2. CASE NotWritten(r) \/ ConnectWrite(r) \/ Reconcile(r) \/ Credentials(r)
  BY <1>2 DEF NotWritten, ConnectWrite, Reconcile, Credentials
<1>3. CASE Upgrade(r) \/ NotAttempted(r) \/ Upgraded(r) \/ NotUpgraded(r)
  BY <1>3 DEF Upgrade, NotAttempted, Upgraded, NotUpgraded
<1>4. CASE Confirm(r) \/ People(r) \/ (\E key \in DOMAIN Nothing : SaveKey(r, key)) \/ NotSaved(r)
  BY <1>4 DEF Confirm, People, SaveKey, NotSaved
<1>5. CASE Load(r) \/ NotLoaded(r) \/ Reload(r)
  BY <1>5 DEF Load, NotLoaded, Reload
<1>6. CASE Deploy(r) \/ Install(r) \/ Deployed(r) \/ NotDeployed(r)
  BY <1>6 DEF Deploy, Install, Deployed, NotDeployed
<1>7. CASE CreateAdmin(r) \/ CreateUser(r) \/ SetPassword(r) \/ SetAdmin(r) \/ PasswordRejected(r)
  BY <1>7 DEF CreateAdmin, CreateUser, SetPassword, SetAdmin, AccountStep, PasswordRejected
<1>. QED
  BY <1>1, <1>2, <1>3, <1>4, <1>5, <1>6, <1>7 DEF Step

(* A request that ends has nothing left.                                   *)
LEMMA EndHolds ==
    ASSUME TypeOK, NEW r \in Requests, NEW how \in Ends, End(r, how)
    PROVE  /\ kind' \in [Requests -> Kinds \cup {None}]
           /\ pc' \in [Requests -> Steps]
           /\ host' \in [Requests -> Hosts \cup {None}]
           /\ seen' \in [Requests -> Registration \cup {None, Garbled}]
           /\ carrying' \in [Requests -> Nat \cup {None}]
           /\ settings' \in [Requests -> Settings \cup {None}]
           /\ saved' \in [Requests -> SUBSET DOMAIN Nothing]
           /\ pc'[r] = how /\ saved'[r] = {}
BY DEF TypeOK, End, Goto, Steps

(* A request that goes on is at its next step.                             *)
LEMMA GotoHolds ==
    ASSUME TypeOK, NEW r \in Requests, NEW step \in Steps, Goto(r, step)
    PROVE  pc' \in [Requests -> Steps] /\ pc'[r] = step
BY DEF TypeOK, Goto

(* The types, request by request.                                          *)
LEMMA RequestTyped ==
    ASSUME TypeOK, Held, NEW r \in Requests, Step(r)
    PROVE  TypeOK' /\ HasWith(r)'
<1>0. TypeOK /\ HasWith(r) /\ pc[r] \in Steps
  BY DEF Held, TypeOK
<1>. USE <1>0 DEF requests, process, cluster, history
<1>1. ASSUME NEW h \in Hosts, Connect(r, h) PROVE TypeOK' /\ HasWith(r)'
  BY <1>1 DEF Connect, Comes, Goto, TypeOK, HasWith, Steps, Ends
<1>2. CASE NotWritten(r) \/ NotAttempted(r) \/ NotSaved(r) \/ NotLoaded(r)
  <2>1. PICK how \in {"refused", "failed", "success"} : End(r, how) /\ Trouble
                /\ UNCHANGED <<cluster, env, stored, process, fresh, history>>
    BY <1>2 DEF NotWritten, NotAttempted, NotSaved, NotLoaded
  <2>2. troubles' \in 0..MaxTroubles
    BY <2>1, LoginAssumption DEF Trouble, LoginAssumption, TypeOK
  <2>. QED
    BY <2>1, <2>2, EndHolds DEF Ends, TypeOK, HasWith
<1>3. CASE ConnectWrite(r)
  <2>1. seen[r] # None => seen[r] \in Registration
    BY <1>3 DEF ConnectWrite, At, HasWith, TypeOK
  <2>2. host[r] \in Hosts /\ (seen[r] = None => carrying[r] \in Nat)
    BY <1>3 DEF ConnectWrite, At, HasWith
  <2>3. fragment' \in Registration
    BY <1>3, <2>1, <2>2 DEF ConnectWrite, Registration
  <2>4. disturbed' \subseteq Requests /\ disturbed' \subseteq disturbed \cup Requests
    BY <1>3 DEF ConnectWrite, Crosses, Active, TypeOK
  <2>5. pc' \in [Requests -> Steps] /\ pc'[r] \in {"upgrade", "credentials"}
    BY <1>3 DEF ConnectWrite, Goto, Steps, TypeOK
  <2>6. /\ pc[r] = "write" /\ fragment' \in Registration
        /\ UNCHANGED <<loaded, release, masUp, account, env, stored, process, fresh, kind, host,
                       seen, carrying, settings, saved, troubles, mayClose, straddled>>
    BY <1>3, <2>3 DEF ConnectWrite, At
  <2>7. TypeOK'
    BY <2>4, <2>5, <2>6 DEF TypeOK
  <2>. QED
    BY <2>5, <2>6, <2>7 DEF HasWith
<1>4. CASE Reconcile(r)
  <2>1. seen[r] \in Registration
    BY <1>4 DEF Reconcile, At, HasWith, TypeOK
  <2>2. fragment' \in Registration
    BY <1>4, <2>1 DEF Reconcile, Registration
  <2>3. disturbed' \subseteq Requests
    BY <1>4 DEF Reconcile, Crosses, Active, TypeOK
  <2>4. End(r, "already") /\ UNCHANGED <<loaded, release, masUp, account, env, stored, process, fresh,
                                         troubles, mayClose, straddled>>
    BY <1>4 DEF Reconcile
  <2>. QED
    BY <2>2, <2>3, <2>4, EndHolds DEF Ends, TypeOK, HasWith
<1>5. CASE Credentials(r)
  <2>1. CASE End(r, "unreachable")
    BY <1>5, <2>1, EndHolds DEF Credentials, Ends, TypeOK, HasWith
  <2>2. CASE /\ Readable(fragment) /\ carrying' = [carrying EXCEPT ![r] = fragment.id]
             /\ Goto(r, "upgrade") /\ UNCHANGED <<kind, host, seen, settings, saved>>
    <3>1. fragment.id \in Nat
      BY <2>2 DEF Readable, TypeOK, Registration
    <3>. QED
      BY <1>5, <2>2, <3>1, GotoHolds DEF Credentials, At, Steps, TypeOK, HasWith
  <2>. QED
    BY <1>5, <2>1, <2>2 DEF Credentials
<1>6. CASE Upgrade(r)
  <2>1. CASE End(r, "failed")
    BY <1>6, <2>1, EndHolds DEF Upgrade, Ends, TypeOK, HasWith
  <2>2. CASE /\ release' = "pending" /\ seen' = [seen EXCEPT ![r] = fragment]
             /\ Goto(r, "rolling") /\ UNCHANGED <<kind, host, carrying, settings, saved>>
    BY <1>6, <2>2, GotoHolds DEF Upgrade, At, Steps, TypeOK, HasWith
  <2>. QED
    BY <1>6, <2>1, <2>2 DEF Upgrade
<1>7. Understood(seen[r]) \in Registration \cup {None}
  BY DEF Understood, Readable, TypeOK
<1>8. CASE Upgraded(r)
  BY <1>7, <1>8, GotoHolds DEF Upgraded, At, Steps, TypeOK, HasWith
<1>9. CASE NotUpgraded(r)
  <2>1. troubles' \in 0..MaxTroubles
    BY <1>9, LoginAssumption DEF NotUpgraded, Trouble, LoginAssumption, TypeOK
  <2>. QED
    BY <1>7, <1>9, <2>1, EndHolds DEF NotUpgraded, Ends, TypeOK, HasWith
<1>10. CASE Confirm(r)
  <2>1. CASE End(r, "failed")
    BY <1>10, <2>1, EndHolds DEF Confirm, Ends, TypeOK, HasWith
  <2>2. CASE Goto(r, "people") /\ UNCHANGED <<kind, host, seen, carrying, settings, saved>>
    BY <1>10, <2>2, GotoHolds DEF Confirm, At, Steps, TypeOK, HasWith
  <2>. QED
    BY <1>10, <2>1, <2>2 DEF Confirm
<1>11. CASE People(r)
  <2>1. CASE End(r, "needs-account") /\ UNCHANGED mayClose
    BY <1>11, <2>1, EndHolds DEF People, Ends, TypeOK, HasWith
  <2>2. CASE /\ Goto(r, "save") /\ mayClose' = TRUE
             /\ UNCHANGED <<kind, host, seen, carrying, settings, saved>>
    BY <1>11, <2>2, GotoHolds DEF People, At, Steps, TypeOK, HasWith
  <2>. QED
    BY <1>11, <2>1, <2>2 DEF People
<1>12. ASSUME NEW key \in DOMAIN Nothing, SaveKey(r, key) PROVE TypeOK' /\ HasWith(r)'
  <2>1. key \in {"client", "secret", "issuer", "redirect"}
    BY <1>12, Keys
  <2>2. stored' \in Settings
    <3>1. stored \in Settings /\ carrying[r] \in Nat \cup {None} /\ host[r] \in Hosts \cup {None}
      BY DEF TypeOK
    <3>2. \/ stored' = [stored EXCEPT !["client"] = carrying[r]]
          \/ stored' = [stored EXCEPT !["secret"] = carrying[r]]
          \/ stored' = [stored EXCEPT !["issuer"] = TRUE]
          \/ stored' = [stored EXCEPT !["redirect"] = host[r]]
      <4>1. CASE key = "client"
        BY <1>12, <4>1 DEF SaveKey
      <4>2. CASE key = "secret"
        BY <1>12, <4>2 DEF SaveKey
      <4>3. CASE key = "issuer"
        BY <1>12, <4>3 DEF SaveKey
      <4>4. CASE key = "redirect"
        BY <1>12, <4>4 DEF SaveKey
      <4>. QED
        BY <2>1, <4>1, <4>2, <4>3, <4>4
    <3>. QED
      BY <3>1, <3>2 DEF Settings
  <2>3. disturbed' \subseteq Requests
    BY <1>12 DEF SaveKey, Active, TypeOK
  <2>4. /\ saved' \in [Requests -> SUBSET DOMAIN Nothing] /\ pc' \in [Requests -> Steps]
        /\ pc'[r] = "save" \/ (pc'[r] = "load" /\ saved'[r] = {})
    BY <1>12 DEF SaveKey, Goto, Steps, TypeOK
  <2>5. UNCHANGED <<cluster, env, process, fresh, kind, host, seen, carrying, settings,
                    troubles, mayClose, straddled>>
    BY <1>12 DEF SaveKey
  <2>6. TypeOK'
    BY <2>2, <2>3, <2>4, <2>5 DEF TypeOK
  <2>. QED
    BY <2>4, <2>6 DEF HasWith
<1>13. CASE Load(r)
  <2>1. stored # None
    BY LoginAssumption DEF LoginAssumption, TypeOK
  <2>. QED
    BY <1>13, <2>1, GotoHolds DEF Load, At, Steps, TypeOK, HasWith
<1>14. CASE Reload(r)
  <2>1. PICK how \in {"success", "hooks-failed"} : End(r, how)
    BY <1>14 DEF Reload
  <2>2. installed' \in Settings \cup {None} /\ straddled' \in BOOLEAN
    BY <1>14 DEF Reload, TypeOK
  <2>. QED
    BY <1>14, <2>1, <2>2, EndHolds DEF Reload, Ends, TypeOK, HasWith
<1>15. CASE Deploy(r) \/ CreateAdmin(r)
  BY <1>15 DEF Deploy, CreateAdmin, Comes, Goto, TypeOK, HasWith, Steps, Ends
<1>16. CASE Install(r)
  <2>1. CASE End(r, "failed") /\ UNCHANGED release
    BY <1>16, <2>1, EndHolds DEF Install, Ends, TypeOK, HasWith
  <2>2. CASE /\ release' = "pending" /\ seen' = [seen EXCEPT ![r] = fragment]
             /\ Goto(r, "installing") /\ UNCHANGED <<kind, host, carrying, settings, saved>>
    BY <1>16, <2>2, GotoHolds DEF Install, At, Steps, TypeOK, HasWith
  <2>. QED
    BY <1>16, <2>1, <2>2 DEF Install
<1>17. CASE Deployed(r)
  <2>1. PICK how \in {"done", "hooks-failed"} : End(r, how)
    BY <1>17 DEF Deployed
  <2>. QED
    BY <1>7, <1>17, <2>1, EndHolds DEF Deployed, Ends, TypeOK, HasWith
<1>18. CASE NotDeployed(r)
  <2>1. troubles' \in 0..MaxTroubles
    BY <1>18, LoginAssumption DEF NotDeployed, Trouble, LoginAssumption, TypeOK
  <2>. QED
    BY <1>18, <2>1, EndHolds DEF NotDeployed, Ends, TypeOK, HasWith
<1>19. CASE CreateUser(r) \/ SetPassword(r) \/ SetAdmin(r) \/ PasswordRejected(r)
  BY <1>19 DEF CreateUser, SetPassword, SetAdmin, AccountStep, PasswordRejected, At, Goto,
               Steps, Ends, TypeOK, HasWith
<1>. QED
  BY <1>1, <1>2, <1>3, <1>4, <1>5, <1>6, <1>8, <1>9, <1>10, <1>11, <1>12, <1>13, <1>14, <1>15,
     <1>16, <1>17, <1>18, <1>19 DEF Step

(* The types, through every step.                                          *)
LEMMA StepTyped == TypeOK /\ Held /\ [Next]_vars => (TypeOK /\ Held)'
<1>. SUFFICES ASSUME TypeOK, Held, [Next]_vars PROVE (TypeOK /\ Held)'
  OBVIOUS
<1>. USE DEF requests, process, cluster, history
<1>1. ASSUME NEW r \in Requests, Step(r) PROVE (TypeOK /\ Held)'
  <2>1. TypeOK' /\ HasWith(r)'
    BY <1>1, RequestTyped
  <2>2. \A q \in Requests \ {r} : HasWith(q)'
    BY <1>1, Others DEF Held, HasWith
  <2>. QED
    BY <2>1, <2>2 DEF Held
<1>2. CASE Start
  BY <1>2, Keys DEF Start, Effective, TypeOK, Held, HasWith
<1>3. Trouble => troubles' \in 0..MaxTroubles
  BY LoginAssumption DEF Trouble, LoginAssumption, TypeOK
<1>4. CASE Die
  <2>1. pc' \in [Requests -> Steps]
    BY <1>4 DEF Die, TypeOK, Steps, Ends
  <2>2. \A r \in Requests : (pc'[r] = pc[r] /\ pc[r] \in Ends) \/ pc'[r] = "dead"
    BY <1>4 DEF Die, Active, TypeOK
  <2>3. TypeOK'
    BY <1>3, <1>4, <2>1, Keys DEF Die, TypeOK
  <2> QED
    BY <1>4, <2>2, <2>3 DEF Die, Held, HasWith, Ends
<1>5. CASE RetryLook \/ RetryBuild
  <2>1. CASE RetryLook
    BY <2>1 DEF RetryLook, TypeOK, Held, HasWith
  <2>2. CASE RetryBuild
    BY <2>2 DEF RetryBuild, TypeOK, Held, HasWith
  <2> QED
    BY <1>5, <2>1, <2>2
<1>6. CASE MasDown \/ MasUp \/ ConfigReverted \/ OthersDeploy \/ AdminDemoted
  <2>1. Understood(fragment) \in Registration \cup {None} /\ Active \subseteq Requests
    BY DEF Understood, Readable, TypeOK, Active
  <2>2. UNCHANGED <<env, stored, process, fresh, requests, mayClose, straddled>>
    BY <1>6 DEF MasDown, MasUp, ConfigReverted, OthersDeploy, AdminDemoted
  <2>3. disturbed' \subseteq Requests /\ troubles' \in 0..MaxTroubles
    BY <1>3, <1>6, <2>1 DEF MasDown, MasUp, ConfigReverted, OthersDeploy, AdminDemoted, TypeOK
  <2>4. /\ fragment' \in Registration \cup {None, Garbled} /\ loaded' \in Registration \cup {None}
        /\ release' \in {"absent", "broken", "pending", "deployed", "failed"}
        /\ masUp' \in BOOLEAN /\ account' \in {"none", "bare", "password", "admin"}
    BY <1>6, <2>1 DEF MasDown, MasUp, ConfigReverted, OthersDeploy, AdminDemoted, TypeOK
  <2>5. TypeOK'
    BY <2>2, <2>3, <2>4 DEF TypeOK
  <2>. QED
    BY <2>2, <2>5 DEF Held, HasWith
<1>7. CASE UNCHANGED vars
  BY <1>7 DEF vars, TypeOK, Held, HasWith
<1>. QED
  BY <1>1, <1>2, <1>4, <1>5, <1>6, <1>7 DEF Next

-----------------------------------------------------------------------------
(* Who may be rolling out after a step of a request.                       *)
LEMMA RolloutMoves ==
    ASSUME TypeOK, NEW r \in Requests, Step(r)
    PROVE  /\ pc'[r] = "rolling" => /\ pc[r] = "upgrade" /\ release' = "pending"
                                    /\ release \in {"deployed", "failed"}
                                    /\ seen'[r] = fragment /\ UNCHANGED fragment
           /\ pc'[r] = "installing" => /\ release = "absent" /\ release' = "pending"
           /\ pc'[r] \in Past => pc[r] \in Past \/ (pc[r] = "rolling" /\ release' = "deployed")
           /\ release' # release => \/ pc'[r] \in {"rolling", "installing"}
                                    \/ pc[r] \in {"rolling", "installing"}
           /\ release' = "absent" => release = "absent" \/ pc[r] = "installing"
<1>. USE DEF TypeOK, Goto, End, Comes, requests, process, cluster, At, Past
<1>1. CASE \E h \in Hosts : Connect(r, h)
  BY <1>1 DEF Connect
<1>2. CASE NotWritten(r) \/ ConnectWrite(r) \/ Reconcile(r) \/ Credentials(r)
  BY <1>2 DEF NotWritten, ConnectWrite, Reconcile, Credentials
<1>3. CASE Upgrade(r) \/ NotAttempted(r) \/ Upgraded(r) \/ NotUpgraded(r)
  BY <1>3 DEF Upgrade, NotAttempted, Upgraded, NotUpgraded
<1>4. CASE Confirm(r) \/ People(r) \/ (\E key \in DOMAIN Nothing : SaveKey(r, key)) \/ NotSaved(r)
  BY <1>4 DEF Confirm, People, SaveKey, NotSaved
<1>5. CASE Load(r) \/ NotLoaded(r) \/ Reload(r)
  BY <1>5 DEF Load, NotLoaded, Reload
<1>6. CASE Deploy(r) \/ Install(r) \/ Deployed(r) \/ NotDeployed(r)
  BY <1>6 DEF Deploy, Install, Deployed, NotDeployed
<1>7. CASE CreateAdmin(r) \/ CreateUser(r) \/ SetPassword(r) \/ SetAdmin(r) \/ PasswordRejected(r)
  BY <1>7 DEF CreateAdmin, CreateUser, SetPassword, SetAdmin, AccountStep, PasswordRejected
<1>. QED
  BY <1>1, <1>2, <1>3, <1>4, <1>5, <1>6, <1>7 DEF Step

(* One rollout at a time, through every step.                              *)
LEMMA StepOneRollout == TypeOK /\ OneRollout /\ [Next]_vars => OneRollout'
<1>. SUFFICES ASSUME TypeOK, OneRollout, [Next]_vars PROVE OneRollout'
  OBVIOUS
<1>1. ASSUME NEW r \in Requests, Step(r) PROVE OneRollout'
  <2>1. \A q \in Requests \ {r} : pc'[q] = pc[q]
    BY <1>1, Others
  <2>2. \A q \in Requests : pc'[q] \in {"rolling", "installing"} => release' = "pending"
    BY <1>1, <2>1, RolloutMoves DEF OneRollout
  <2>3. \A p, q \in Requests : {pc'[p], pc'[q]} \subseteq {"rolling", "installing"} => p = q
    BY <1>1, <2>1, RolloutMoves DEF OneRollout
  <2>4. \A p, q \in Requests : pc'[p] = "installing" => pc'[q] \notin Past
    BY <1>1, <2>1, RolloutMoves DEF OneRollout, Past
  <2>5. release' = "absent" => \A q \in Requests : pc'[q] \notin Past
    BY <1>1, <2>1, RolloutMoves DEF OneRollout, Past
  <2>. QED
    BY <2>2, <2>3, <2>4, <2>5 DEF OneRollout
<1>2. CASE Die
  BY <1>2 DEF Die, OneRollout, Past, Active, Ends, cluster
<1>3. CASE OthersDeploy
  BY <1>3 DEF OthersDeploy, OneRollout, requests, Active, Ends
<1>4. CASE \/ Start \/ RetryLook \/ RetryBuild \/ MasDown \/ MasUp \/ ConfigReverted \/ AdminDemoted
           \/ UNCHANGED vars
  <2>1. UNCHANGED <<pc, release>>
    BY <1>4 DEF Start, RetryLook, RetryBuild, MasDown, MasUp, ConfigReverted, AdminDemoted, vars,
                requests, cluster
  <2>. QED
    BY <2>1 DEF OneRollout
<1>. QED
  BY <1>1, <1>2, <1>3, <1>4 DEF Next

(* What a request's step can do to the settings and the service.           *)
LEMMA SwitchMoves ==
    ASSUME TypeOK, NEW r \in Requests, Step(r)
    PROVE  /\ UNCHANGED <<env, startCfg, retry>>
           /\ stored' # stored => pc[r] = "save"
           /\ installed' # installed => pc[r] = "build" /\ (retry = "building" => straddled')
           /\ mayClose => mayClose'
           /\ disturbed \subseteq disturbed'
           /\ straddled => straddled'
           /\ pc'[r] \in {"save", "load", "build"} =>
                 mayClose' \/ pc[r] \in {"save", "load", "build"}
<1>. USE DEF TypeOK, Goto, End, Comes, process, cluster, history, At
<1>1. CASE \E h \in Hosts : Connect(r, h)
  BY <1>1 DEF Connect
<1>2. CASE NotWritten(r) \/ ConnectWrite(r) \/ Reconcile(r) \/ Credentials(r)
  BY <1>2 DEF NotWritten, ConnectWrite, Reconcile, Credentials
<1>3. CASE Upgrade(r) \/ NotAttempted(r) \/ Upgraded(r) \/ NotUpgraded(r)
  BY <1>3 DEF Upgrade, NotAttempted, Upgraded, NotUpgraded
<1>4. CASE Confirm(r) \/ People(r) \/ (\E key \in DOMAIN Nothing : SaveKey(r, key)) \/ NotSaved(r)
  BY <1>4 DEF Confirm, People, SaveKey, NotSaved
<1>5. CASE Load(r) \/ NotLoaded(r) \/ Reload(r)
  BY <1>5 DEF Load, NotLoaded, Reload
<1>6. CASE Deploy(r) \/ Install(r) \/ Deployed(r) \/ NotDeployed(r)
  BY <1>6 DEF Deploy, Install, Deployed, NotDeployed
<1>7. CASE CreateAdmin(r) \/ CreateUser(r) \/ SetPassword(r) \/ SetAdmin(r) \/ PasswordRejected(r)
  BY <1>7 DEF CreateAdmin, CreateUser, SetPassword, SetAdmin, AccountStep, PasswordRejected
<1>. QED
  BY <1>1, <1>2, <1>3, <1>4, <1>5, <1>6, <1>7 DEF Step

(* No settings and no building over a service, through every step.         *)
LEMMA StepNotYet == TypeOK /\ NotYet /\ Straddle /\ [Next]_vars => (NotYet /\ Straddle)'
<1>. SUFFICES ASSUME TypeOK, NotYet, Straddle, [Next]_vars PROVE (NotYet /\ Straddle)'
  OBVIOUS
<1>1. ASSUME NEW r \in Requests, Step(r) PROVE (NotYet /\ Straddle)'
  <2>1. \A q \in Requests \ {r} : pc'[q] = pc[q]
    BY <1>1, Others
  <2>2. NotYet'
    BY <1>1, <2>1, SwitchMoves DEF NotYet
  <2>3. Straddle'
    BY <1>1, SwitchMoves DEF Straddle, OIDCConfigured
  <2>. QED
    BY <2>2, <2>3
<1>2. CASE Start
  BY <1>2 DEF Start, Effective, NotYet, Nothing, Straddle, cluster, requests, history, OIDCConfigured
<1>3. CASE Die
  BY <1>3 DEF Die, NotYet, Straddle, Active, Ends, cluster, history
<1>4. CASE RetryLook \/ RetryBuild
  BY <1>4 DEF RetryLook, RetryBuild, Builds, NotYet, Straddle, Nothing, OIDCConfigured, cluster, requests, history
<1>5. CASE MasDown \/ MasUp \/ ConfigReverted \/ OthersDeploy \/ AdminDemoted \/ UNCHANGED vars
  BY <1>5 DEF MasDown, MasUp, ConfigReverted, OthersDeploy, AdminDemoted, vars, NotYet, Straddle,
              OIDCConfigured, cluster, requests, process, history
<1>. QED
  BY <1>1, <1>2, <1>3, <1>4, <1>5 DEF Next

(* What can change under a connect that is left alone.                     *)
LEMMA FootingKept ==
    ASSUME NEW q \in Requests, Footing(q),
           pc'[q] = pc[q], host'[q] = host[q], carrying'[q] = carrying[q],
           saved'[q] = saved[q], settings'[q] = settings[q],
           pc[q] \in {"credentials", "upgrade", "rolling"} \cup Past =>
              /\ Readable(fragment') /\ fragment'.id = fragment.id
              /\ fragment.uris \subseteq fragment'.uris,
           pc[q] \in Past => \A p \in Requests :
              pc'[p] = "rolling" => Readable(seen'[p]) /\ seen'[p].id = fragment.id,
           pc[q] \in Past \ {"confirm"} => loaded' # None /\ loaded'.id = fragment.id,
           account = "admin" => account' = "admin",
           pc[q] \in {"save", "load"} =>
              /\ stored'.client \in {stored.client, fragment.id}
              /\ stored'.secret \in {stored.secret, fragment.id}
              /\ stored'.redirect = stored.redirect \/ stored'.redirect \in fragment.uris
    PROVE  Footing(q)'
<1>1. /\ pc[q] = "save" => Fits(stored, saved[q])'
      /\ pc[q] = "load" => Fits(stored, DOMAIN Nothing)'
      /\ pc[q] = "build" => Fits(settings[q], DOMAIN Nothing)'
  BY DEF Footing, Fits, Past
<1>. QED
  BY <1>1 DEF Footing, Readable, Past

(* A connect that takes a step of its own stands on firm ground after it.  *)
LEMMA OwnFooting ==
    ASSUME LoginInv, NEW r \in Requests, Step(r), r \notin disturbed'
    PROVE  Footing(r)'
<1>0. /\ TypeOK /\ OneRollout /\ HasWith(r) /\ None \notin Registration /\ Garbled \notin Registration
      /\ r \notin disturbed => Footing(r)
      /\ DOMAIN Nothing = {"client", "secret", "issuer", "redirect"}
  BY Keys, LoginAssumption DEF LoginInv, Held, LoginAssumption
<1>. USE <1>0 DEF Past, requests, process, cluster, history
<1>1. CASE pc'[r] \notin {"credentials", "upgrade", "rolling"} \cup Past
  BY <1>1 DEF Footing
<1>2. ASSUME NEW h \in Hosts, Connect(r, h), pc'[r] = "credentials" PROVE Footing(r)'
  BY <1>2 DEF Connect, Goto, Footing, Readable, TypeOK
<1>3. CASE ConnectWrite(r)
  <2>1. /\ pc[r] = "write" /\ host[r] \in Hosts /\ host'[r] = host[r] /\ carrying'[r] = carrying[r]
        /\ pc'[r] = IF seen[r] = None THEN "upgrade" ELSE "credentials"
    BY <1>3 DEF ConnectWrite, Goto, HasWith, At, TypeOK
  <2>2. CASE seen[r] = None
    <3>1. fragment' = [id |-> carrying[r], uris |-> {host[r]}, named |-> TRUE]
          /\ carrying[r] \in Nat
      BY <1>3, <2>1, <2>2 DEF ConnectWrite, HasWith
    <3>2. fragment' \in Registration
      BY <2>1, <3>1 DEF Registration
    <3>. QED
      BY <2>1, <2>2, <3>1, <3>2 DEF Footing, Readable
  <2>3. CASE seen[r] # None
    <3>1. seen[r] \in Registration /\ fragment' = [seen[r] EXCEPT !.uris = @ \cup {host[r]}]
      BY <1>3, <2>1, <2>3 DEF ConnectWrite, HasWith, TypeOK
    <3>2. fragment' \in Registration /\ host[r] \in fragment'.uris
      BY <2>1, <3>1 DEF Registration
    <3>. QED
      BY <2>1, <2>3, <3>2 DEF Footing, Readable
  <2>. QED
    BY <2>2, <2>3
<1>4. CASE Credentials(r) /\ pc'[r] = "upgrade"
  BY <1>4 DEF Credentials, Goto, End, Footing, At, TypeOK, Ends
<1>5. CASE Upgrade(r) /\ pc'[r] = "rolling"
  BY <1>5 DEF Upgrade, Goto, End, Footing, At, TypeOK, Ends
<1>6. CASE Upgraded(r)
  <2>1. \A q \in Requests : pc'[q] # "rolling"
    BY <1>6 DEF Upgraded, Goto, At, TypeOK, OneRollout
  <2>. QED
    BY <1>6, <2>1 DEF Upgraded, Goto, Footing, At, TypeOK
<1>7. CASE Confirm(r) /\ pc'[r] = "people"
  BY <1>7 DEF Confirm, ClientKnown, Admits, Goto, End, Footing, At, TypeOK, Ends
<1>8. CASE People(r) /\ pc'[r] = "save"
  <2>1. /\ pc[r] = "people" /\ account = "admin" /\ saved'[r] = {}
        /\ host'[r] = host[r] /\ carrying'[r] = carrying[r]
        /\ \A q \in Requests : pc'[q] = "rolling" => pc[q] = "rolling"
        /\ UNCHANGED <<fragment, loaded, account, seen>>
    BY <1>8 DEF People, Goto, End, At, HasWith, TypeOK, Ends
  <2>2. Fits(stored, saved[r])'
    BY <2>1 DEF Fits
  <2>3. Footing(r)
    BY <1>8, SwitchMoves
  <2>. QED
    BY <1>8, <2>1, <2>2, <2>3 DEF Footing
<1>9. ASSUME NEW key \in DOMAIN Nothing, SaveKey(r, key) PROVE Footing(r)'
  <2>1. /\ Footing(r) /\ pc[r] = "save" /\ host'[r] = host[r] /\ carrying'[r] = carrying[r]
        /\ UNCHANGED <<fragment, loaded, account, seen>>
        /\ \A q \in Requests : pc'[q] = "rolling" => pc[q] = "rolling"
        /\ stored \in Settings
    BY <1>9, SwitchMoves DEF SaveKey, Goto, At, TypeOK
  <2>2. /\ Fits(stored, saved[r]) /\ carrying[r] = fragment.id /\ host[r] \in fragment.uris
    BY <2>1 DEF Footing
  <2>3. \/ pc'[r] = "save" /\ saved'[r] = saved[r] \cup {key}
        \/ pc'[r] = "load" /\ saved[r] \cup {key} = DOMAIN Nothing
    BY <1>9 DEF SaveKey, Goto, TypeOK
  <2>4. Fits(stored', saved[r] \cup {key})
    <3>1. stored.client \in Nat \cup {None}
      BY <2>1 DEF Settings
    <3>2. CASE key = "client"
      <4>1. stored' = [stored EXCEPT !["client"] = carrying[r]]
        BY <1>9, <3>2 DEF SaveKey
      <4>. QED
        BY <2>1, <2>2, <3>2, <4>1 DEF Fits, Settings
    <3>3. CASE key = "secret"
      <4>1. stored' = [stored EXCEPT !["secret"] = carrying[r]]
        BY <1>9, <3>3 DEF SaveKey
      <4>. QED
        BY <2>1, <2>2, <3>3, <4>1 DEF Fits, Settings
    <3>4. CASE key = "issuer"
      <4>1. stored' = [stored EXCEPT !["issuer"] = TRUE]
        BY <1>9, <3>4 DEF SaveKey
      <4>. QED
        BY <2>1, <2>2, <3>4, <4>1 DEF Fits, Settings
    <3>5. CASE key = "redirect"
      <4>1. stored' = [stored EXCEPT !["redirect"] = host[r]]
        BY <1>9, <3>5 DEF SaveKey
      <4>. QED
        BY <2>1, <2>2, <3>5, <4>1 DEF Fits, Settings
    <3>. QED
      BY <1>9, <3>2, <3>3, <3>4, <3>5
  <2>5. /\ pc'[r] = "save" => Fits(stored, saved[r])'
        /\ pc'[r] = "load" => Fits(stored, DOMAIN Nothing)'
    BY <2>1, <2>3, <2>4 DEF Fits
  <2>. QED
    BY <2>1, <2>3, <2>5 DEF Footing
<1>10. CASE Load(r)
  <2>1. Fits(stored, DOMAIN Nothing)
    BY <1>10 DEF Load, At, Footing
  <2>2. settings'[r] = stored /\ pc'[r] = "build" /\ UNCHANGED fragment
    BY <1>10 DEF Load, Goto, TypeOK
  <2>3. Fits(settings[r], DOMAIN Nothing)'
    BY <2>1, <2>2 DEF Fits
  <2>. QED
    BY <1>10, <2>2, <2>3 DEF Load, Goto, Footing, At, TypeOK
<1>11. CASE pc'[r] \in {"credentials", "upgrade", "rolling"} \cup Past
  <2>1. \/ \E h \in Hosts : Connect(r, h) /\ pc'[r] = "credentials"
        \/ ConnectWrite(r)
        \/ Credentials(r) /\ pc'[r] = "upgrade"
        \/ Upgrade(r) /\ pc'[r] = "rolling"
        \/ Upgraded(r)
        \/ Confirm(r) /\ pc'[r] = "people"
        \/ People(r) /\ pc'[r] = "save"
        \/ \E key \in DOMAIN Nothing : SaveKey(r, key)
        \/ Load(r)
    <3>. USE DEF Step, Goto, End, Comes, At, TypeOK, Ends
    <3>1. CASE \E h \in Hosts : Connect(r, h)
      <4>1. PICK h \in Hosts : Connect(r, h)
        BY <3>1
      <4>2. pc'[r] = "credentials"
        BY <1>11, <4>1 DEF Connect
      <4>. QED
        BY <4>1, <4>2
    <3>2. CASE NotWritten(r) \/ Reconcile(r) \/ Credentials(r) \/ Upgrade(r) \/ NotAttempted(r)
      BY <1>11, <3>2 DEF NotWritten, Reconcile, Credentials, Upgrade, NotAttempted
    <3>3. CASE NotUpgraded(r) \/ Confirm(r) \/ People(r) \/ NotSaved(r) \/ NotLoaded(r) \/ Reload(r)
      BY <1>11, <3>3 DEF NotUpgraded, Confirm, People, NotSaved, NotLoaded, Reload
    <3>4. CASE Deploy(r) \/ Install(r) \/ Deployed(r) \/ NotDeployed(r)
      BY <1>11, <3>4 DEF Deploy, Install, Deployed, NotDeployed
    <3>5. CASE CreateAdmin(r) \/ CreateUser(r) \/ SetPassword(r) \/ SetAdmin(r) \/ PasswordRejected(r)
      BY <1>11, <3>5 DEF CreateAdmin, CreateUser, SetPassword, SetAdmin, AccountStep, PasswordRejected
    <3>. QED
      BY <3>1, <3>2, <3>3, <3>4, <3>5
  <2>. QED
    BY <1>2, <1>3, <1>4, <1>5, <1>6, <1>7, <1>8, <1>9, <1>10, <2>1
<1>. QED
  BY <1>1, <1>11

(* And it takes the ground from nobody without their being told.           *)
LEMMA OthersFooting ==
    ASSUME LoginInv, NEW r \in Requests, Step(r),
           NEW q \in Requests \ disturbed', q # r
    PROVE  Footing(q)'
<1>0. /\ TypeOK /\ OneRollout /\ HasWith(r) /\ None \notin Registration /\ Garbled \notin Registration
      /\ q \notin disturbed /\ Footing(q)
      /\ pc'[q] = pc[q] /\ seen'[q] = seen[q] /\ carrying'[q] = carrying[q]
      /\ settings'[q] = settings[q] /\ host'[q] = host[q] /\ saved'[q] = saved[q]
  BY SwitchMoves, Others, LoginAssumption DEF LoginInv, Held, LoginAssumption
<1>. USE <1>0
<1>1. CASE pc[q] \notin {"credentials", "upgrade", "rolling"} \cup Past
  BY <1>1 DEF Footing, Past
<1>2. CASE pc[q] \in {"credentials", "upgrade", "rolling"} \cup Past
  <2>1. Readable(fragment) /\ fragment \in Registration /\ q \in Active
    BY <1>2 DEF Footing, Readable, TypeOK, Active, Ends, Past
  <2>2. /\ Readable(fragment') /\ fragment'.id = fragment.id /\ fragment.uris \subseteq fragment'.uris
    <3>1. CASE UNCHANGED fragment
      BY <2>1, <3>1
    <3>2. CASE ConnectWrite(r) \/ Reconcile(r)
      <4>1. seen[r] = fragment /\ seen[r] # None
        BY <2>1, <3>2 DEF ConnectWrite, Reconcile, Crosses, Readable
      <4>2. \/ fragment' = [fragment EXCEPT !.uris = @ \cup {host[r]}] /\ host[r] \in Hosts
            \/ fragment' = [fragment EXCEPT !.named = TRUE]
        BY <3>2, <4>1 DEF ConnectWrite, Reconcile, At, HasWith
      <4>3. fragment' \in Registration
        BY <2>1, <4>2 DEF Registration
      <4>. QED
        BY <2>1, <4>2, <4>3 DEF Readable, Registration
    <3>. QED
      BY <3>1, <3>2
      DEF Step, Connect, NotWritten, Credentials, Upgrade, NotAttempted, Upgraded, NotUpgraded,
          Confirm, People, SaveKey, NotSaved, Load, NotLoaded, Reload, Deploy, Install, Deployed,
          NotDeployed, CreateAdmin, CreateUser, SetPassword, SetAdmin, AccountStep,
          PasswordRejected, cluster
  <2>3. pc[q] \in Past => \A p \in Requests :
           pc'[p] = "rolling" => Readable(seen'[p]) /\ seen'[p].id = fragment.id
    <3>. SUFFICES ASSUME pc[q] \in Past, NEW p \in Requests, pc'[p] = "rolling"
                  PROVE  Readable(seen'[p]) /\ seen'[p].id = fragment.id
      OBVIOUS
    <3>1. CASE p = r
      BY <2>1, <3>1, RolloutMoves
    <3>2. CASE p # r
      BY <3>2, Others DEF Footing
    <3>. QED
      BY <3>1, <3>2
  <2>4. ASSUME pc[q] \in Past \ {"confirm"} PROVE loaded' # None /\ loaded'.id = fragment.id
    <3>1. loaded # None /\ loaded.id = fragment.id
      BY <2>4 DEF Footing
    <3>2. CASE Upgraded(r) \/ NotUpgraded(r)
      <4>1. Readable(seen[r]) /\ seen[r].id = fragment.id
        BY <2>4, <3>2 DEF Upgraded, NotUpgraded, At, Footing
      <4>. QED
        BY <3>1, <3>2, <4>1 DEF Upgraded, NotUpgraded, Understood, Readable
    <3>3. ~Deployed(r)
      BY <2>4 DEF Deployed, At, OneRollout
    <3>4. CASE UNCHANGED loaded
      BY <3>1, <3>4
    <3>. QED
      BY <3>2, <3>3, <3>4
      DEF Step, Connect, NotWritten, ConnectWrite, Reconcile, Credentials, Upgrade, NotAttempted,
          Confirm, People, SaveKey, NotSaved, Load, NotLoaded, Reload, Deploy, Install,
          NotDeployed, CreateAdmin, CreateUser, SetPassword, SetAdmin, AccountStep,
          PasswordRejected, cluster
  <2>5. account = "admin" => account' = "admin"
    BY DEF Step, Connect, NotWritten, ConnectWrite, Reconcile, Credentials, Upgrade, NotAttempted,
          Upgraded, NotUpgraded, Confirm, People, SaveKey, NotSaved, Load, NotLoaded, Reload,
          Deploy, Install, Deployed, NotDeployed, CreateAdmin, CreateUser, SetPassword, SetAdmin,
          AccountStep, PasswordRejected, cluster
  <2>6. /\ stored'.client \in {stored.client, fragment.id}
        /\ stored'.secret \in {stored.secret, fragment.id}
        /\ stored'.redirect = stored.redirect \/ stored'.redirect \in fragment.uris
    <3>1. CASE UNCHANGED stored
      BY <3>1
    <3>2. ASSUME NEW key \in DOMAIN Nothing, SaveKey(r, key)
          PROVE  /\ stored'.client \in {stored.client, fragment.id}
                 /\ stored'.secret \in {stored.secret, fragment.id}
                 /\ stored'.redirect = stored.redirect \/ stored'.redirect \in fragment.uris
      <4>1. r \notin disturbed /\ pc[r] = "save"
        BY <2>1, <3>2 DEF SaveKey, At
      <4>2. carrying[r] = fragment.id /\ host[r] \in fragment.uris
        BY <4>1 DEF LoginInv, Footing, Past
      <4>3. stored \in Settings /\ key \in {"client", "secret", "issuer", "redirect"}
        BY <3>2, Keys DEF TypeOK
      <4>4. CASE key = "client"
        <5>1. stored' = [stored EXCEPT !["client"] = carrying[r]]
          BY <3>2, <4>4 DEF SaveKey
        <5>. QED
          BY <4>2, <4>3, <5>1 DEF Settings
      <4>5. CASE key = "secret"
        <5>1. stored' = [stored EXCEPT !["secret"] = carrying[r]]
          BY <3>2, <4>5 DEF SaveKey
        <5>. QED
          BY <4>2, <4>3, <5>1 DEF Settings
      <4>6. CASE key = "issuer"
        <5>1. stored' = [stored EXCEPT !["issuer"] = TRUE]
          BY <3>2, <4>6 DEF SaveKey
        <5>. QED
          BY <4>2, <4>3, <5>1 DEF Settings
      <4>7. CASE key = "redirect"
        <5>1. stored' = [stored EXCEPT !["redirect"] = host[r]]
          BY <3>2, <4>7 DEF SaveKey
        <5>. QED
          BY <4>2, <4>3, <5>1 DEF Settings
      <4>. QED
        BY <4>3, <4>4, <4>5, <4>6, <4>7
    <3>. QED
      BY <3>1, <3>2
      DEF Step, Connect, NotWritten, ConnectWrite, Reconcile, Credentials, Upgrade, NotAttempted,
          Upgraded, NotUpgraded, Confirm, People, NotSaved, Load, NotLoaded, Reload,
          Deploy, Install, Deployed, NotDeployed, CreateAdmin, CreateUser, SetPassword, SetAdmin,
          AccountStep, PasswordRejected
  <2>. QED
    BY <2>2, <2>3, <2>4, <2>5, <2>6, FootingKept
<1>. QED
  BY <1>1, <1>2

(* The ground, through every step.                                         *)
LEMMA StepFooting ==
    LoginInv /\ [Next]_vars => \A q \in Requests \ disturbed' : Footing(q)'
<1>. SUFFICES ASSUME LoginInv, [Next]_vars, NEW q \in Requests \ disturbed' PROVE Footing(q)'
  OBVIOUS
<1>0. TypeOK /\ (q \notin disturbed => Footing(q))
  BY DEF LoginInv
<1>. USE <1>0
<1>1. ASSUME NEW r \in Requests, Step(r) PROVE Footing(q)'
  BY <1>1, OwnFooting, OthersFooting
<1>2. CASE Die
  <2>1. pc'[q] \in Ends
    BY <1>2 DEF Die, Active, Ends, TypeOK
  <2>. QED
    BY <2>1 DEF Footing, Ends, Past
<1>3. CASE ConfigReverted \/ OthersDeploy \/ AdminDemoted
  <2>1. q \notin Active /\ UNCHANGED pc
    BY <1>3 DEF ConfigReverted, OthersDeploy, AdminDemoted, requests
  <2>. QED
    BY <2>1 DEF Active, Ends, Footing, Past
<1>4. CASE Start \/ RetryLook \/ RetryBuild \/ MasDown \/ MasUp \/ UNCHANGED vars
  <2>1. UNCHANGED <<pc, host, carrying, seen, saved, settings, fragment, loaded, account, stored, disturbed>>
    BY <1>4 DEF Start, RetryLook, RetryBuild, MasDown, MasUp, vars, cluster, requests, history
  <2>. QED
    BY <2>1 DEF Footing, Fits, Readable
<1>. QED
  BY <1>1, <1>2, <1>3, <1>4 DEF Next

(* It holds at the start.                                                  *)
LEMMA LoginStart == Init => LoginInv
<1>. SUFFICES ASSUME Init PROVE LoginInv
  OBVIOUS
<1>1. First(TRUE) \in Registration /\ First(FALSE) \in Registration /\ Connected \in Settings
      /\ Nothing \in Settings
  BY Keys, LoginAssumption DEF First, Connected, Registration, Settings, LoginAssumption
<1>2. TypeOK
  <2>1. /\ fragment \in Registration \cup {None, Garbled}
        /\ loaded \in Registration \cup {None}
        /\ release \in {"absent", "broken", "pending", "deployed", "failed"}
        /\ account \in {"none", "bare", "password", "admin"}
        /\ env \in Settings /\ stored \in Settings
    <3>1. CASE release = "absent"
      BY <1>1, <3>1 DEF Init
    <3>2. CASE release = "deployed"
      BY <1>1, <3>2 DEF Init
    <3>. QED
      BY <3>1, <3>2 DEF Init
  <2>2. masUp \in BOOLEAN /\ mayClose \in BOOLEAN
    BY Zenon DEF Init
  <2>3. troubles \in 0..MaxTroubles
    BY LoginAssumption DEF Init, LoginAssumption
  <2>. QED
    BY <1>1, <2>1, <2>2, <2>3 DEF Init, TypeOK, Steps, Ends
<1>3. Held /\ OneRollout
  BY DEF Init, Held, HasWith, OneRollout, Past
<1>4. NotYet /\ Straddle
  BY DEF Init, NotYet, Straddle
<1>5. \A r \in Requests : Footing(r)
  BY DEF Init, Footing, Past
<1>. QED
  BY <1>2, <1>3, <1>4, <1>5 DEF LoginInv

(* And every step keeps it.                                                *)
LEMMA LoginStep == LoginInv /\ [Next]_vars => LoginInv'
BY StepTyped, StepOneRollout, StepNotYet, StepFooting DEF LoginInv

(* What the theorems below rest on.                                        *)
THEOREM Inductive == Spec => []LoginInv
BY LoginStart, LoginStep, PTL DEF Spec

-----------------------------------------------------------------------------
(* Every variable of the way to signing in keeps its type.                 *)
THEOREM TypeCorrect == Spec => []TypeOK
<1>1. LoginInv => TypeOK
  BY DEF LoginInv
<1>. QED
  BY <1>1, Inductive, PTL

(* Until MAS confirmed the client and an admin to a connect, no OIDC       *)
(* service is installed, and the local login works: ConnectOIDC stores the *)
(* settings last, and a start finds none before.                           *)
THEOREM LocalStaysOpen == Spec => []LocalLoginStays
<1>1. LoginInv => LocalLoginStays
  BY DEF LoginInv, NotYet, LocalLoginStays, OIDCConfigured
<1>. QED
  BY <1>1, Inductive, PTL

(* RetryOIDC takes no service's place, but that of a connect it overlaps.  *)
THEOREM PersonFirst == Spec => PersonWins
<1>1. LoginInv /\ [Next]_vars =>
        [retry = "building" /\ up' /\ installed' # installed /\ retry' = "off"
            => ~OIDCConfigured \/ straddled]_vars
  BY DEF LoginInv, Straddle
<1>. QED
  BY <1>1, Inductive, PTL DEF Spec, PersonWins

(* ConnectOIDC switches over to settings somebody can sign in with, unless *)
(* its ground was taken from it.                                           *)
THEOREM SwitchedConfirmed == Spec => SwitchIsConfirmed
<1>1. ASSUME LoginInv, [Next]_vars, NEW r \in Requests \ disturbed,
             pc[r] = "build", pc'[r] = "success"
      PROVE  Passable(installed')
  <2>0. TypeOK /\ Footing(r)
    BY <1>1 DEF LoginInv
  <2>1. Step(r)
    <3>1. \A q \in Requests : Step(q) => q = r
      BY <1>1, <2>0, Others
    <3>2. ~UNCHANGED pc /\ pc'[r] # "dead"
      BY <1>1
    <3>3. ~Die
      BY <1>1, <2>0 DEF Die, Active, Ends, TypeOK
    <3>. QED
      BY <1>1, <3>1, <3>2, <3>3
      DEF Next, Start, RetryLook, RetryBuild, MasDown, MasUp, ConfigReverted, OthersDeploy,
          AdminDemoted, requests, vars
  <2>2. Reload(r) /\ installed' = settings[r]
    <3>. USE <1>1, <2>0, <2>1 DEF Step, Goto, End, Comes, At, TypeOK, Ends
    <3>1. Reload(r)
      BY DEF Connect, NotWritten, ConnectWrite, Reconcile, Credentials, Upgrade, NotAttempted,
             Upgraded, NotUpgraded, Confirm, People, SaveKey, NotSaved, Load, NotLoaded, Deploy,
             Install, Deployed, NotDeployed, CreateAdmin, CreateUser, SetPassword, SetAdmin,
             AccountStep, PasswordRejected
    <3>. QED
      BY <3>1 DEF Reload
  <2>. QED
    BY <1>1, <2>0, <2>2, Keys DEF Footing, Fits, Passable, Past
<1>2. LoginInv /\ [Next]_vars =>
        [\A r \in Requests \ disturbed :
            pc[r] = "build" /\ pc'[r] = "success" => Passable(installed')]_vars
  BY <1>1
<1>. QED
  BY <1>2, Inductive, PTL DEF Spec, SwitchIsConfirmed

=============================================================================
