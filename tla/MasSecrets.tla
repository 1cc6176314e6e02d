------------------------------ MODULE MasSecrets ------------------------------
(* The two blocks of MAS's configuration that MatrixCtrl keeps in Kubernetes *)
(* Secrets (internal/api/handlers/login_providers.go, mail.go, mas_block.go, *)
(* internal/masupstream/masupstream.go, internal/k8s/secrets.go): external   *)
(* login providers and e-mail.                                               *)
(*                                                                           *)
(* A request changes a Secret under the lock of its handler and then makes   *)
(* MAS read it: the settings get a reference the operator still has to       *)
(* apply, or, when MAS mounts the Secret already, MAS is restarted, because  *)
(* nothing else would.  The handlers share the settings file and MAS, not    *)
(* the lock; an apply runs beside them.  A request that is refused, or that  *)
(* cannot read, changes nothing and is no step.                              *)
EXTENDS Naturals

CONSTANTS
    Requests,       \* requests at work at the same time
    Values,         \* credentials
    MaxRequests,    \* bound
    MaxTroubles,    \* bound: calls that fail, and restarts of MatrixCtrl
    None

VARIABLES
    secret,     \* the Secret of each block: id -> [cred, on]; that of mail has one entry, 0
    mounts,     \* the blocks the settings file of MAS refers to
    applying,   \* what an apply that runs has read of the settings, or None
    deployed,   \* the blocks the Deployment of MAS mounts
    mas,        \* [running, restarting]: what MAS read at its start, and whether it starts anew
    request,    \* where each request is
    told,       \* [made, crossed]: the providers operators were told of and did not delete;
                \* whether two requests edited the settings file across one another
    asked,      \* bound
    troubles    \* bound

vars == <<secret, mounts, applying, deployed, mas, request, told, asked, troubles>>

Blocks == {"providers", "mail"}
Fails == troubles < MaxTroubles /\ troubles' = troubles + 1
Works == UNCHANGED troubles

---------------------------------------------------------------------------
(* A provider has its credentials (client, secret and issuer) and a switch;  *)
(* a draft has no credentials yet, and MAS would not start with one.  The    *)
(* settings of the mail server are the same, with a server and a password.   *)
Complete(p) == p.cred # None
NoEntry == [i \in {} |-> None]

(* Render, of either package: what MAS reads of a block.  Drafts are left    *)
(* out, and mail that is switched off names no server.                       *)
Render(b, entries) ==
    IF b = "providers"
      THEN [i \in {j \in DOMAIN entries : Complete(entries[j])} |-> entries[i]]
      ELSE [i \in {j \in DOMAIN entries : entries[j].on} |-> entries[i]]

(* What a request makes of the block it loaded, and whether MAS has to read  *)
(* it: a change of a provider only when it is one of what MAS reads.         *)
Change(b, new, made, gone, active) ==
    [block |-> b, new |-> new, made |-> made, gone |-> gone, active |-> active]

(* Create: a draft, under an id nobody had.                                  *)
Creates(ps) ==
    LET id  == asked + 2
        new == [i \in DOMAIN ps \cup {id} |->
                  IF i \in DOMAIN ps THEN ps[i] ELSE [cred |-> None, on |-> TRUE]]
    IN  {Change("providers", new, {id}, {}, FALSE)}

(* Update: credentials or the switch.                                        *)
Settings(p) ==
    {[p EXCEPT !.cred = c] : c \in Values \cup {None}} \cup {[p EXCEPT !.on = o] : o \in BOOLEAN}

Updates(ps) ==
    UNION {{LET new == [ps EXCEPT ![i] = p]
            IN  Change("providers", new, {}, {}, Render("providers", new) # Render("providers", ps)) :
               p \in Settings(ps[i])} : i \in DOMAIN ps}

(* Delete: drafts only, MAS remembers a provider it has read.                *)
Deletes(ps) ==
    {Change("providers", [i \in DOMAIN ps \ {id} |-> ps[i]], {}, {id}, FALSE) :
        id \in {i \in DOMAIN ps : ~Complete(ps[i])}}

(* Put of the mail settings: an empty password keeps the stored one, and     *)
(* what would stop MAS is refused; MAS has to read every one.                *)
Puts(old) ==
    LET kept == IF old = NoEntry THEN None ELSE old[0].cred
        settings == {[cred |-> IF c = None THEN kept ELSE c, on |-> on] : c \in Values \cup {None}, on \in BOOLEAN}
    IN  {Change("mail", [i \in {0} |-> s], {}, {}, TRUE) : s \in {x \in settings : x.on => Complete(x)}}

Changes(b) ==
    IF b = "mail" THEN Puts(secret.mail)
    ELSE Creates(secret.providers) \cup Updates(secret.providers) \cup Deletes(secret.providers)

---------------------------------------------------------------------------
Idle == [at |-> "idle", change |-> None, seen |-> {}]
Rest(q) == request' = [request EXCEPT ![q] = Idle]
Goes(q, where) == request' = [request EXCEPT ![q].at = where]
BlockOf(q) == request[q].change.block

\* Fault: nobody waits for the lock.
FreeFault(b) == TRUE

(* The lock of a handler is held from the load to the answer.                *)
Free(b) == \A q \in Requests : request[q].at # "idle" => BlockOf(q) # b

Load(q) ==
    /\ request[q].at = "idle" /\ asked < MaxRequests /\ asked' = asked + 1
    /\ \E b \in {x \in Blocks : Free(x)} : \E c \in Changes(b) :
         request' = [request EXCEPT ![q] = [Idle EXCEPT !.at = "save", !.change = c]]
    /\ UNCHANGED <<secret, mounts, applying, deployed, mas, told, troubles>>

(* PutSecret: both entries of the Secret are written by one call, whose      *)
(* answer may be lost.                                                       *)
Save(q) ==
    /\ request[q].at = "save"
    /\ LET c == request[q].change
           written == [secret EXCEPT ![c.block] = c.new]
       IN  \/ /\ secret' = written /\ Works
              /\ told' = [told EXCEPT !.made = (@ \cup c.made) \ c.gone]
              /\ IF c.active THEN Goes(q, "values") ELSE Rest(q)
           \/ /\ secret' \in {secret, written} /\ Fails
              /\ told' = [told EXCEPT !.made = @ \ c.gone]
              /\ Rest(q)
    /\ UNCHANGED <<mounts, applying, deployed, mas, asked>>

(* wiring: settings that cannot be read count as settings without the        *)
(* reference ...                                                             *)
InConfig(q) ==
    /\ request[q].at = "values"
    /\ \/ Works /\ Goes(q, IF BlockOf(q) \in mounts THEN "volumes" ELSE "edit")
       \/ Fails /\ Goes(q, "edit")
    /\ UNCHANGED <<secret, mounts, applying, deployed, mas, told, asked>>

(* ... and a Deployment that cannot be read as one that mounts nothing:      *)
(* "apply-pending".                                                          *)
Deployed(q) ==
    /\ request[q].at = "volumes"
    /\ \/ Works /\ (IF BlockOf(q) \in deployed THEN Goes(q, "restart") ELSE Rest(q))
       \/ Fails /\ Rest(q)
    /\ UNCHANGED <<secret, mounts, applying, deployed, mas, told, asked>>

(* SetSectionValues reads the file of the section and writes it: "apply".    *)
EditReads(q) ==
    /\ request[q].at = "edit"
    /\ request' = [request EXCEPT ![q].at = "write", ![q].seen = mounts]
    /\ UNCHANGED <<secret, mounts, applying, deployed, mas, told, asked, troubles>>

EditWrites(q) ==
    /\ request[q].at = "write" /\ Rest(q)
    /\ \/ /\ mounts' = request[q].seen \cup {BlockOf(q)} /\ Works
          /\ told' = [told EXCEPT !.crossed = @ \/ \E p \in Requests \ {q} : request[p].at = "write"]
       \/ Fails /\ UNCHANGED <<mounts, told>>
    /\ UNCHANGED <<secret, applying, deployed, mas, asked>>

(* RolloutRestart: "restarting".  No two within one second, the unit of the  *)
(* annotation it writes.                                                     *)
RolloutRestart(q) ==
    /\ request[q].at = "restart" /\ Rest(q)
    /\ \/ mas' = [mas EXCEPT !.restarting = TRUE] /\ Works
       \/ Fails /\ UNCHANGED mas
    /\ UNCHANGED <<secret, mounts, applying, deployed, told, asked>>

(* MatrixCtrl dies and starts again.                                         *)
Dies ==
    /\ \E q \in Requests : request[q].at # "idle"
    /\ request' = [q \in Requests |-> Idle] /\ Fails
    /\ UNCHANGED <<secret, mounts, applying, deployed, mas, told, asked>>

---------------------------------------------------------------------------
(* An apply reads the settings, and Helm writes the Deployment later; MAS    *)
(* starts anew when what it mounts has changed.                              *)
ApplyReads ==
    /\ applying = None /\ mounts # deployed
    /\ applying' = mounts
    /\ UNCHANGED <<secret, mounts, deployed, mas, request, told, asked, troubles>>

ApplyWrites ==
    /\ applying # None /\ applying' = None
    /\ deployed' = applying
    /\ mas' = [mas EXCEPT !.restarting = @ \/ applying # deployed]
    /\ UNCHANGED <<secret, mounts, request, told, asked, troubles>>

Running(D, s) == [b \in D |-> Render(b, s[b])]

MasStarts ==
    /\ mas.restarting
    /\ mas' = [running |-> Running(deployed, secret), restarting |-> FALSE]
    /\ UNCHANGED <<secret, mounts, applying, deployed, request, told, asked, troubles>>

(* Nothing is set up, or one provider is and MAS runs it.                    *)
Init ==
    /\ \E p \in {NoEntry} \cup {[i \in {1} |-> [cred |-> x, on |-> TRUE]] : x \in Values} :
         /\ secret = [providers |-> p, mail |-> NoEntry]
         /\ told = [made |-> DOMAIN p, crossed |-> FALSE]
         /\ mounts = IF DOMAIN p = {} THEN {} ELSE {"providers"}
    /\ deployed = mounts /\ applying = None
    /\ mas = [running |-> Running(deployed, secret), restarting |-> FALSE]
    /\ request = [q \in Requests |-> Idle]
    /\ asked = 0 /\ troubles = 0

Next ==
    \/ \E q \in Requests :
         Load(q) \/ Save(q) \/ InConfig(q) \/ Deployed(q) \/ EditReads(q) \/ EditWrites(q)
         \/ RolloutRestart(q)
    \/ Dies \/ ApplyReads \/ ApplyWrites \/ MasStarts

Spec == Init /\ [][Next]_vars

---------------------------------------------------------------------------
TypeOK ==
    /\ mounts \subseteq Blocks /\ deployed \subseteq Blocks
    /\ DOMAIN mas.running \subseteq Blocks
    /\ told.made \subseteq 1..(MaxRequests + 1)

(* A provider an operator was told of, and whose callback address is         *)
(* registered elsewhere by now, stays until it is deleted, whoever else      *)
(* saves at the same time (the lock of LoginProvidersHandler).               *)
NoProviderIsDropped == told.made \subseteq DOMAIN secret.providers

Quiet == ~mas.restarting /\ applying = None /\ \A q \in Requests : request[q].at = "idle"

(* Once everybody is done, MAS runs what the Secrets say, or the settings    *)
(* refer to the Secret and an apply makes it so: whichever of the three ways *)
(* activate took, and whatever was applied while it looked (masBlock).       *)
(* Taken out is what the code does not keep: calls of activate that failed,  *)
(* and two edits of the settings file across one another.                    *)
MasReadsIt ==
    Quiet /\ troubles = 0 /\ ~told.crossed =>
        /\ \A b \in deployed : mas.running[b] = Render(b, secret[b])
        /\ \A b \in Blocks \ mounts : Render(b, secret[b]) = NoEntry

SecretsAreRead == NoProviderIsDropped /\ MasReadsIt
=============================================================================
