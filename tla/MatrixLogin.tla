----------------------------- MODULE MatrixLogin -----------------------------
(***************************************************************************)
(* From the local admin login to signing in through MAS: the deployment of *)
(* ESS, the registration of MatrixCtrl as a client of MAS, the first Matrix *)
(* account, the switch of MatrixCtrl's own login, and the loop that builds *)
(* the OIDC service again when MAS did not answer at the start.            *)
(*                                                                         *)
(* The registration travels through four places that may disagree: the     *)
(* configuration repository (fragment), what MAS runs with (loaded), the   *)
(* login settings in the database (stored) and the service the process     *)
(* holds (installed).  The first three survive a death of the process.     *)
(* Requests run side by side.                                              *)
(*                                                                         *)
(* A client of MAS is a number; its secret is known by the same number.    *)
(* The issuer is MAS's own address wherever it is set at all.              *)
(***************************************************************************)
EXTENDS Naturals, FiniteSets

CONSTANTS Requests,     \* requests that are made, in this order
          Kinds,        \* what they may ask for
          Hosts,        \* addresses the panel may answer under
          Home,         \* the address it was first set up under
          MaxTroubles,  \* bound: failures, deaths, and what others do meanwhile
          Garbled,      \* a registration nobody can read
          None

Registration == [id : Nat, uris : SUBSET Hosts, named : BOOLEAN]
Settings     == [client : Nat \cup {None}, secret : Nat \cup {None},
                 issuer : BOOLEAN, redirect : Hosts \cup {None}]
Nothing      == [client |-> None, secret |-> None, issuer |-> FALSE, redirect |-> None]

ASSUME LoginAssumption ==
    /\ Requests \subseteq Nat
    /\ Kinds \subseteq {"deploy", "connect", "account"}
    /\ Home \in Hosts
    /\ MaxTroubles \in Nat
    /\ None \notin Hosts \cup Nat \cup Settings \cup Registration
    /\ Garbled \notin {None} \cup Registration

VARIABLES
    fragment,   \* the registration in the configuration
    loaded,     \* the registration MAS runs with
    release,    \* what Helm says of ESS
    masUp,      \* MAS answers
    account,    \* how far the first Matrix account has come
    env,        \* login settings in the environment of the process
    stored,     \* login settings in the database
    up,         \* the process serves
    startCfg,   \* the settings the process started with
    installed,  \* the settings of the OIDC service it holds, or None
    retry,      \* the loop that builds the service again
    fresh,      \* the next client number
    kind,       \* request -> what it asks for
    pc,         \* request -> its step, or how it ended
    host,       \* request -> the address the panel has in it
    seen,       \* request -> the registration it works with
    carrying,   \* request -> the client it will switch over to
    settings,   \* request -> the settings it read back, or None
    saved,      \* request -> the settings it has stored
    troubles,   \* troubles so far
    disturbed,  \* requests somebody else's doing took the ground from
    mayClose,   \* a connect was told by MAS that somebody can sign in
    straddled   \* a connect installed a service while the loop was building

cluster  == <<fragment, loaded, release, masUp, account>>
process  == <<up, startCfg, installed, retry>>
requests == <<kind, pc, host, seen, carrying, settings, saved>>
history  == <<disturbed, mayClose, straddled>>
vars     == <<cluster, env, stored, process, fresh, requests, troubles, history>>

Readable(f) == f \notin {None, Garbled}

Ends == {"unused", "refused", "already", "unreachable", "failed", "needs-account",
         "hooks-failed", "success", "conflict", "rejected", "done", "dead"}
Steps == Ends \cup {"write", "name", "credentials", "upgrade", "rolling", "confirm",
                    "people", "save", "load", "build", "seed", "installing",
                    "create", "password", "promote"}

Active == {r \in Requests : pc[r] \notin Ends}

TypeOK ==
    /\ fragment \in Registration \cup {None, Garbled}
    /\ loaded \in Registration \cup {None}
    /\ release \in {"absent", "broken", "pending", "deployed", "failed"}
    /\ masUp \in BOOLEAN
    /\ account \in {"none", "bare", "password", "admin"}
    /\ env \in Settings
    /\ stored \in Settings
    /\ up \in BOOLEAN
    /\ startCfg \in Settings
    /\ installed \in Settings \cup {None}
    /\ retry \in {"off", "waiting", "building"}
    /\ fresh \in Nat
    /\ kind \in [Requests -> Kinds \cup {None}]
    /\ pc \in [Requests -> Steps]
    /\ host \in [Requests -> Hosts \cup {None}]
    /\ seen \in [Requests -> Registration \cup {None, Garbled}]
    /\ carrying \in [Requests -> Nat \cup {None}]
    /\ settings \in [Requests -> Settings \cup {None}]
    /\ saved \in [Requests -> SUBSET DOMAIN Nothing]
    /\ troubles \in 0..MaxTroubles
    /\ disturbed \subseteq Requests
    /\ mayClose \in BOOLEAN
    /\ straddled \in BOOLEAN

First(named) == [id |-> 0, uris |-> {Home}, named |-> named]

Connected == [client |-> 0, secret |-> 0, issuer |-> TRUE, redirect |-> Home]

(* Nothing deployed; a homeserver without a client MatrixCtrl can read; one *)
(* that was moved here with its registration but without login settings;   *)
(* one an older version connected, with the settings in the environment or *)
(* in the database and a registration that lacks the client's name.        *)
Init ==
    /\ \/ /\ release = "absent"
          /\ fragment \in {None, First(TRUE)}
          /\ loaded = None
          /\ account = "none"
          /\ env = Nothing /\ stored = Nothing
       \/ /\ release = "deployed"
          /\ fragment \in {None, Garbled, First(TRUE)}
          /\ loaded = IF fragment = First(TRUE) THEN fragment ELSE None
          /\ account \in {"none", "admin"}
          /\ env = Nothing /\ stored = Nothing
       \/ /\ release = "deployed"
          /\ fragment = First(FALSE)
          /\ loaded = fragment
          /\ account = "admin"
          /\ \/ env = Connected /\ stored = Nothing
             \/ env = Nothing /\ stored = Connected
    /\ masUp \in {FALSE, release = "deployed"}
    /\ up = FALSE
    /\ startCfg = Nothing
    /\ installed = None
    /\ retry = "off"
    /\ fresh = 1
    /\ kind = [r \in Requests |-> None]
    /\ pc = [r \in Requests |-> "unused"]
    /\ host = [r \in Requests |-> None]
    /\ seen = [r \in Requests |-> None]
    /\ carrying = [r \in Requests |-> None]
    /\ settings = [r \in Requests |-> None]
    /\ saved = [r \in Requests |-> {}]
    /\ troubles = 0
    /\ disturbed = {}
    /\ mayClose = (<<env, stored>> # <<Nothing, Nothing>>)
    /\ straddled = FALSE

-----------------------------------------------------------------------------
(* OIDCService.Enabled and AuthHandler.OIDCConfigured: the local login is   *)
(* refused exactly while the latter holds.                                  *)
Enabled(c) == c.client # None /\ c.secret # None /\ c.issuer
OIDCConfigured == installed # None /\ Enabled(installed)

\* NewOIDCService: discovery needs an issuer, and MAS to answer
Builds(c) == c.issuer /\ masUp

\* a client credentials token for this client, and so any admin call with it
Admits(id) == masUp /\ loaded # None /\ loaded.id = id

\* masAdmin and ClientKnown: the client of the configuration, asked of MAS
ClientKnown == Readable(fragment) /\ Admits(fragment.id)

Trouble == troubles < MaxTroubles /\ troubles' = troubles + 1

\* What a request holds is gone when it ends.
Goto(r, step) == pc' = [pc EXCEPT ![r] = step]
End(r, how) ==
    /\ Goto(r, how)
    /\ seen' = [seen EXCEPT ![r] = None]
    /\ carrying' = [carrying EXCEPT ![r] = None]
    /\ settings' = [settings EXCEPT ![r] = None]
    /\ host' = [host EXCEPT ![r] = None]
    /\ saved' = [saved EXCEPT ![r] = {}]
    /\ UNCHANGED kind

At(r, step) == up /\ pc[r] = step

-----------------------------------------------------------------------------
(* The process.                                                            *)

\* The environment always wins over the database.
Effective == IF env.client # None THEN env
             ELSE IF stored.client # None THEN stored ELSE Nothing

Start ==
    /\ ~up
    /\ up' = TRUE
    /\ startCfg' = Effective
    /\ IF Effective.client # None
       THEN IF Builds(Effective)
            THEN installed' = Effective /\ retry' = "off"
            ELSE installed' = None /\ retry' = "waiting"
       ELSE installed' = None /\ retry' = "off"
    /\ UNCHANGED <<cluster, env, stored, fresh, requests, troubles, history>>

\* An upgrade under way when the process dies stays pending.
Die ==
    /\ up
    /\ Trouble
    /\ up' = FALSE
    /\ startCfg' = Nothing
    /\ installed' = None
    /\ retry' = "off"
    /\ pc' = [r \in Requests |-> IF r \in Active THEN "dead" ELSE pc[r]]
    /\ seen' = [r \in Requests |-> None]
    /\ carrying' = [r \in Requests |-> None]
    /\ settings' = [r \in Requests |-> None]
    /\ host' = [r \in Requests |-> None]
    /\ saved' = [r \in Requests |-> {}]
    /\ UNCHANGED <<cluster, env, stored, fresh, kind, history>>

\* Fault: the loop does not look before it builds.
RetryLookFault ==
    /\ up
    /\ retry = "waiting"
    /\ retry' = "building"
    /\ straddled' = FALSE
    /\ UNCHANGED <<cluster, env, stored, up, startCfg, installed, fresh, requests,
                   troubles, disturbed, mayClose>>

\* RetryOIDC after its wait: somebody else may have installed a service.
RetryLook ==
    /\ up
    /\ retry = "waiting"
    /\ retry' = IF OIDCConfigured THEN "off" ELSE "building"
    /\ straddled' = FALSE
    /\ UNCHANGED <<cluster, env, stored, up, startCfg, installed, fresh, requests,
                   troubles, disturbed, mayClose>>

\* Fault: the loop gives up when MAS does not answer.
RetryBuildFault ==
    /\ up
    /\ retry = "building"
    /\ IF Builds(startCfg) THEN installed' = startCfg ELSE UNCHANGED installed
    /\ retry' = "off"
    /\ UNCHANGED <<cluster, env, stored, up, startCfg, fresh, requests, troubles, history>>

\* It builds from the settings of the start, and installs what it built.
RetryBuild ==
    /\ up
    /\ retry = "building"
    /\ IF Builds(startCfg)
       THEN installed' = startCfg /\ retry' = "off"
       ELSE retry' = "waiting" /\ UNCHANGED installed
    /\ UNCHANGED <<cluster, env, stored, up, startCfg, fresh, requests, troubles, history>>

-----------------------------------------------------------------------------
(* A request comes in.  Requests are numbered in the order they come.      *)
Comes(r, k) ==
    /\ up
    /\ pc[r] = "unused"
    /\ k \in Kinds
    /\ \A q \in Requests : q < r => pc[q] # "unused"
    /\ kind' = [kind EXCEPT ![r] = k]

(* ConnectOIDC up to its first write.  A registration in the configuration *)
(* that MAS does not know is no error of its own: the admin token it would *)
(* take to hear so is refused, and the code goes on as if it knew.         *)
Connect(r, h) ==
    /\ Comes(r, "connect")
    /\ host' = [host EXCEPT ![r] = h]
    /\ seen' = [seen EXCEPT ![r] = fragment]
    /\ CASE fragment = None ->
              /\ Goto(r, "write")
              /\ carrying' = [carrying EXCEPT ![r] = fresh]
              /\ fresh' = fresh + 1
         [] fragment = Garbled ->
              Goto(r, "refused") /\ UNCHANGED <<carrying, fresh>>
         [] OTHER ->
              /\ Goto(r, IF h \notin fragment.uris THEN "write"
                         ELSE IF stored.client = None THEN "credentials"
                         ELSE IF ~fragment.named THEN "name" ELSE "already")
              /\ UNCHANGED <<carrying, fresh>>
    /\ UNCHANGED <<cluster, env, stored, process, settings, saved, troubles, history>>

\* SetSectionValues may fail; then nothing was written.
NotWritten(r) ==
    /\ \E step \in {"write", "name"} : At(r, step)
    /\ Trouble
    /\ End(r, "refused")
    /\ UNCHANGED <<cluster, env, stored, process, fresh, history>>

\* A write made from a reading that is no longer true takes the ground from the others.
Crosses(r) == IF seen[r] = fragment THEN {} ELSE Active \ {r}

\* Fault: the login settings are stored as soon as the client is written.
ConnectWriteFault(r) ==
    /\ At(r, "write")
    /\ fragment' = IF seen[r] = None
                   THEN [id |-> carrying[r], uris |-> {host[r]}, named |-> TRUE]
                   ELSE [seen[r] EXCEPT !.uris = @ \cup {host[r]}]
    /\ stored' = IF seen[r] # None THEN stored
                 ELSE [client |-> carrying[r], secret |-> carrying[r], issuer |-> TRUE,
                       redirect |-> host[r]]
    /\ Goto(r, IF seen[r] = None THEN "upgrade" ELSE "credentials")
    /\ disturbed' = disturbed \cup Crosses(r)
    /\ UNCHANGED <<loaded, release, masUp, account, env, process, fresh, kind, host,
                   seen, carrying, settings, saved, troubles, mayClose, straddled>>

\* buildMASClientConfig for a new client, ensureRedirect for a known one
ConnectWrite(r) ==
    /\ At(r, "write")
    /\ fragment' = IF seen[r] = None
                   THEN [id |-> carrying[r], uris |-> {host[r]}, named |-> TRUE]
                   ELSE [seen[r] EXCEPT !.uris = @ \cup {host[r]}]
    /\ Goto(r, IF seen[r] = None THEN "upgrade" ELSE "credentials")
    /\ disturbed' = disturbed \cup Crosses(r)
    /\ UNCHANGED <<loaded, release, masUp, account, env, stored, process, fresh, kind, host,
                   seen, carrying, settings, saved, troubles, mayClose, straddled>>

\* reconcileMASClient: the name of a client that has none, and nothing is deployed
Reconcile(r) ==
    /\ At(r, "name")
    /\ fragment' = [seen[r] EXCEPT !.named = TRUE]
    /\ End(r, "already")
    /\ disturbed' = disturbed \cup Crosses(r)
    /\ UNCHANGED <<loaded, release, masUp, account, env, stored, process, fresh, troubles, mayClose, straddled>>

\* connectUpgrade: the client the configuration has now, when MAS answers at all
Credentials(r) ==
    /\ At(r, "credentials")
    /\ IF Readable(fragment) /\ masUp
       THEN /\ carrying' = [carrying EXCEPT ![r] = fragment.id]
            /\ Goto(r, "upgrade")
            /\ UNCHANGED <<kind, host, seen, settings, saved>>
       ELSE End(r, "unreachable")
    /\ UNCHANGED <<cluster, env, stored, process, fresh, troubles, history>>

\* Helm deploys the whole configuration as it is now.
Upgrade(r) ==
    /\ At(r, "upgrade")
    /\ IF release \in {"deployed", "failed"}
       THEN /\ release' = "pending"
            /\ seen' = [seen EXCEPT ![r] = fragment]
            /\ Goto(r, "rolling")
            /\ UNCHANGED <<kind, host, carrying, settings, saved>>
       ELSE End(r, "failed") /\ UNCHANGED release
    /\ UNCHANGED <<fragment, loaded, masUp, account, env, stored, process, fresh, troubles, history>>

\* The chart is not to be had, or the preflight says the upgrade would fail.
NotAttempted(r) ==
    /\ At(r, "upgrade")
    /\ Trouble
    /\ End(r, "failed")
    /\ UNCHANGED <<cluster, env, stored, process, fresh, history>>

\* Fault: an unreadable registration is loaded as it is.
UnderstoodFault(f) == f

\* What MAS makes of a configuration it is started with
Understood(f) == IF Readable(f) THEN f ELSE None

\* Helm is done; that MAS has read its new configuration is not said by that.
Upgraded(r) ==
    /\ At(r, "rolling")
    /\ release' = "deployed"
    /\ loaded' \in {loaded, Understood(seen[r])}
    /\ seen' = [seen EXCEPT ![r] = None]
    /\ Goto(r, "confirm")
    /\ UNCHANGED <<fragment, masUp, account, env, stored, process, fresh, kind, host,
                   carrying, settings, saved, troubles, history>>

NotUpgraded(r) ==
    /\ At(r, "rolling")
    /\ Trouble
    /\ release' = "failed"
    /\ loaded' \in {loaded, Understood(seen[r])}
    /\ End(r, "failed")
    /\ UNCHANGED <<fragment, masUp, account, env, stored, process, fresh, history>>

\* Fault: MAS answering is taken for MAS knowing.
ConfirmFault(r) ==
    /\ At(r, "confirm")
    /\ IF Readable(fragment) /\ masUp
       THEN Goto(r, "people") /\ UNCHANGED <<kind, host, seen, carrying, settings, saved>>
       ELSE End(r, "failed")
    /\ UNCHANGED <<cluster, env, stored, process, fresh, troubles, history>>

\* A dozen times: does MAS know the client?  It is asked about the client the
\* configuration names now.
Confirm(r) ==
    /\ At(r, "confirm")
    /\ IF ClientKnown
       THEN Goto(r, "people") /\ UNCHANGED <<kind, host, seen, carrying, settings, saved>>
       ELSE End(r, "failed")
    /\ UNCHANGED <<cluster, env, stored, process, fresh, troubles, history>>

\* Is there anybody to sign in as?
People(r) ==
    /\ At(r, "people")
    /\ IF masUp /\ account = "admin"
       THEN /\ Goto(r, "save")
            /\ mayClose' = TRUE
            /\ UNCHANGED <<kind, host, seen, carrying, settings, saved>>
       ELSE End(r, "needs-account") /\ UNCHANGED mayClose
    /\ UNCHANGED <<cluster, env, stored, process, fresh, troubles, disturbed,
                   straddled>>

\* SaveOIDCConfig: four statements, in the order a Go map gives them
SaveKey(r, key) ==
    LET mine == [client |-> carrying[r], secret |-> carrying[r], issuer |-> TRUE,
                 redirect |-> host[r]]
        all  == saved[r] \cup {key} = DOMAIN Nothing
    IN  /\ At(r, "save")
        /\ key \notin saved[r]
        /\ stored' = [stored EXCEPT ![key] = mine[key]]
        /\ saved' = [saved EXCEPT ![r] = IF all THEN {} ELSE @ \cup {key}]
        /\ Goto(r, IF all THEN "load" ELSE "save")
        /\ disturbed' = IF r \in disturbed THEN disturbed \cup Active ELSE disturbed
        /\ UNCHANGED <<cluster, env, process, fresh, kind, host, seen, carrying, settings,
                       troubles, mayClose, straddled>>

NotSaved(r) ==
    /\ At(r, "save")
    /\ Trouble
    /\ End(r, "failed")
    /\ UNCHANGED <<cluster, env, stored, process, fresh, history>>

\* ReloadOIDC: settings that cannot be read count as none, and none as a success.
Load(r) ==
    /\ At(r, "load")
    /\ Goto(r, "build")
    /\ settings' = [settings EXCEPT ![r] = stored]
    /\ UNCHANGED <<cluster, env, stored, process, fresh, kind, host, seen, carrying, saved,
                   troubles, history>>

NotLoaded(r) ==
    /\ At(r, "load")
    /\ Trouble
    /\ End(r, "success")
    /\ UNCHANGED <<cluster, env, stored, process, fresh, history>>

\* After a dozen builds that failed the switch is given up, and the settings stay.
Reload(r) ==
    /\ At(r, "build")
    /\ IF Builds(settings[r])
       THEN /\ installed' = settings[r]
            /\ straddled' = (straddled \/ retry = "building")
            /\ End(r, "success")
       ELSE End(r, "hooks-failed") /\ UNCHANGED <<installed, straddled>>
    /\ UNCHANGED <<cluster, env, stored, up, startCfg, retry, fresh, troubles,
                   disturbed, mayClose>>

-----------------------------------------------------------------------------
(* DeployESS.  A configuration that is already there is kept.              *)
Deploy(r) ==
    /\ Comes(r, "deploy")
    /\ Goto(r, IF release = "absent" THEN "seed" ELSE "refused")
    /\ UNCHANGED <<cluster, env, stored, process, fresh, host, seen, carrying, settings,
                   saved, troubles, history>>

\* Another deployment may have come first: Helm does not install over a release.
Install(r) ==
    /\ At(r, "seed")
    /\ IF release = "absent"
       THEN /\ release' = "pending"
            /\ seen' = [seen EXCEPT ![r] = fragment]
            /\ Goto(r, "installing")
            /\ UNCHANGED <<kind, host, carrying, settings, saved>>
       ELSE End(r, "failed") /\ UNCHANGED release
    /\ UNCHANGED <<fragment, loaded, masUp, account, env, stored, process, fresh, troubles, history>>

Deployed(r) ==
    /\ At(r, "installing")
    /\ release' = "deployed"
    /\ loaded' = Understood(seen[r])
    /\ masUp' = TRUE
    /\ \E how \in {"done", "hooks-failed"} : End(r, how)
    /\ UNCHANGED <<fragment, account, env, stored, process, fresh, troubles, history>>

\* An install that failed leaves a release nobody can upgrade, or none at all.
NotDeployed(r) ==
    /\ At(r, "installing")
    /\ Trouble
    /\ release' \in {"broken", "absent"}
    /\ End(r, "failed")
    /\ UNCHANGED <<fragment, loaded, masUp, account, env, stored, process, fresh,
                   history>>

-----------------------------------------------------------------------------
(* CreateMatrixAdmin: create, set the password, promote.                   *)
CreateAdmin(r) ==
    /\ Comes(r, "account")
    /\ Goto(r, IF ClientKnown THEN "create" ELSE "unreachable")
    /\ UNCHANGED <<cluster, env, stored, process, fresh, host, seen, carrying, settings,
                   saved, troubles, history>>

AccountStep(r, from, refusal, becomes, next) ==
    /\ At(r, from)
    /\ IF masUp /\ (from = "create" => account = "none")
       THEN /\ account' = becomes
            /\ Goto(r, next)
       ELSE Goto(r, refusal) /\ UNCHANGED account
    /\ UNCHANGED <<fragment, loaded, release, masUp, env, stored, process, fresh, kind, host,
                   seen, carrying, settings, saved, troubles, history>>

CreateUser(r) ==
    AccountStep(r, "create", IF masUp THEN "conflict" ELSE "unreachable", "bare", "password")
SetPassword(r) ==
    AccountStep(r, "password", "unreachable",
                IF account = "admin" THEN "admin" ELSE "password", "promote")
SetAdmin(r) == AccountStep(r, "promote", "unreachable", "admin", "done")

\* MAS refuses a password that is too simple; the account stays without one.
PasswordRejected(r) ==
    /\ At(r, "password")
    /\ masUp
    /\ Goto(r, "rejected")
    /\ UNCHANGED <<cluster, env, stored, process, fresh, kind, host, seen, carrying, settings,
                   saved, troubles, history>>

-----------------------------------------------------------------------------
(* What happens around the process.                                        *)
MasDown ==
    /\ masUp
    /\ Trouble
    /\ masUp' = FALSE
    /\ UNCHANGED <<fragment, loaded, release, account, env, stored, process, fresh, requests, history>>

MasUp ==
    /\ ~masUp
    /\ release \notin {"absent", "broken"}
    /\ masUp' = TRUE
    /\ UNCHANGED <<fragment, loaded, release, account, env, stored, process, fresh, requests,
                   troubles, history>>

\* The configuration goes back to before the registration.
ConfigReverted ==
    /\ fragment # None
    /\ Trouble
    /\ fragment' = None
    /\ disturbed' = disturbed \cup Active
    /\ UNCHANGED <<loaded, release, masUp, account, env, stored, process, fresh, requests, mayClose, straddled>>

\* Another deployment of the configuration, or a pending release rolled back
OthersDeploy ==
    /\ release \notin {"absent", "broken"}
    /\ \A r \in Active : pc[r] \notin {"rolling", "installing"}
    /\ Trouble
    /\ release' = "deployed"
    /\ loaded' = Understood(fragment)
    /\ disturbed' = disturbed \cup Active
    /\ UNCHANGED <<fragment, masUp, account, env, stored, process, fresh, requests,
                   mayClose, straddled>>

AdminDemoted ==
    /\ account = "admin"
    /\ Trouble
    /\ account' = "password"
    /\ disturbed' = disturbed \cup Active
    /\ UNCHANGED <<fragment, loaded, release, masUp, env, stored, process, fresh, requests, mayClose, straddled>>

-----------------------------------------------------------------------------
Step(r) ==
    \/ \E h \in Hosts : Connect(r, h)
    \/ NotWritten(r)
    \/ ConnectWrite(r)
    \/ Reconcile(r)
    \/ Credentials(r)
    \/ Upgrade(r)
    \/ NotAttempted(r)
    \/ Upgraded(r)
    \/ NotUpgraded(r)
    \/ Confirm(r)
    \/ People(r)
    \/ \E key \in DOMAIN Nothing : SaveKey(r, key)
    \/ NotSaved(r)
    \/ Load(r)
    \/ NotLoaded(r)
    \/ Reload(r)
    \/ Deploy(r)
    \/ Install(r)
    \/ Deployed(r)
    \/ NotDeployed(r)
    \/ CreateAdmin(r)
    \/ CreateUser(r)
    \/ SetPassword(r)
    \/ SetAdmin(r)
    \/ PasswordRejected(r)

Next ==
    \/ Start
    \/ Die
    \/ RetryLook
    \/ RetryBuild
    \/ \E r \in Requests : Step(r)
    \/ MasDown
    \/ MasUp
    \/ ConfigReverted
    \/ OthersDeploy
    \/ AdminDemoted

(* The process is started again, and its loop runs; nobody promises that a *)
(* request is made or that MAS comes back.                                 *)
Fairness == WF_vars(Start) /\ WF_vars(RetryLook) /\ WF_vars(RetryBuild)

Spec == Init /\ [][Next]_vars /\ Fairness

-----------------------------------------------------------------------------
(* Somebody can sign in with these settings: MAS runs with the client, the *)
(* configuration names the address, and there is an admin.                 *)
Passable(c) ==
    /\ loaded # None
    /\ c.client = loaded.id
    /\ c.secret = loaded.id
    /\ fragment.id = loaded.id
    /\ c.redirect \in fragment.uris
    /\ account = "admin"

(* A connect hands MatrixCtrl's login over only to a MAS that runs with    *)
(* exactly this client and has somebody to log in as, and only with an     *)
(* address the configuration registers - unless the ground was taken from  *)
(* it on the way (the configuration reverted, deployed by others or        *)
(* written by a connect that had read it earlier, the admin demoted).      *)
(* That MAS has read the address too is not asked by anybody: a client it  *)
(* knew before passes with the addresses it knew before.                   *)
SwitchIsConfirmed ==
    [][\A r \in Requests \ disturbed :
          pc[r] = "build" /\ pc'[r] = "success" => Passable(installed')]_vars

(* As long as MAS never confirmed the client and an admin to a connect,    *)
(* the local login stays open, across restarts too: what a connect leaves  *)
(* behind when it fails must not be taken for settings at the next start.  *)
LocalLoginStays == ~mayClose => ~OIDCConfigured

(* The loop never takes the place of a service that was there when it last *)
(* looked: a person acting deliberately wins, but for a connect that lands *)
(* while the loop is already building.                                     *)
PersonWins ==
    [][retry = "building" /\ up' /\ installed' # installed /\ retry' = "off"
          => ~OIDCConfigured \/ straddled]_vars

(* When MAS answers for good, a process that was started with settings     *)
(* comes to hold a service, however long MAS did not answer before.        *)
RetryRecovers ==
    <>[](up /\ masUp /\ startCfg.client # None /\ startCfg.issuer) => <>[](installed # None)
=============================================================================
