---------------------------- MODULE ReleaseReads ----------------------------
(* How MatrixCtrl reads the ESS release without decoding all of it           *)
(* (internal/helm/release_read.go, cache.go, history_read.go, history.go).   *)
(*                                                                           *)
(* The labels of Helm's release secrets answer most questions.  A read of    *)
(* the release probes them, reuses the decoded release when the probe saw    *)
(* exactly the secret it was decoded from, and decodes that revision         *)
(* otherwise; a read of the history takes the status of every revision from  *)
(* the labels and the chart from facts that are decoded once and kept in     *)
(* memory and in the database.  Whatever goes wrong ends in the full read.   *)
(* Several requests read at once, Helm changes the release between any two   *)
(* of their steps, the release may be uninstalled and installed again under  *)
(* its name, and the process may be restarted.                               *)
EXTENDS Integers, FiniteSets, FiniteSetsExt, Functions

CONSTANTS
    Readers,        \* requests that read at the same time
    Charts,         \* chart versions
    MaxRevision,    \* bound: the highest revision Helm reaches
    MaxTroubles,    \* bound: calls that fail, and restarts
    Reinstalls,     \* bound: whether the release is installed again, once
    None

VARIABLES
    secrets,    \* the release secrets: revision -> [status, chart]
    relCache,   \* the decoded release and the identity it was decoded under, or None
    revCache,   \* revision -> chart, in memory
    store,      \* revision -> chart, in helm_revision_facts
    kind,       \* which of the two reads the requests make: they share no state
    again,      \* the release was uninstalled and installed again
    reader,     \* where each request is
    troubles    \* bound

vars == <<secrets, relCache, revCache, store, kind, again, reader, troubles>>

Revisions == 1..MaxRevision
Statuses == {"pending", "deployed", "superseded", "failed"}
Secret == [status : Statuses, chart : Charts]
Empty == [r \in {} |-> None]

Idle == [at |-> "idle", id |-> None, listed |-> {}, rows |-> Empty,
         missing |-> {}, answer |-> None, seen |-> {}, newest |-> {}, misled |-> FALSE]

---------------------------------------------------------------------------
(* What a request may truthfully be told: the facts that held at some moment *)
(* since it began.  seen, newest and misled of a request are history         *)
(* variables.                                                                *)

Newest(s) == IF s = Empty THEN 0 ELSE Max(DOMAIN s)

Told(s) == {[rev |-> r, status |-> s[r].status, chart |-> s[r].chart] : r \in DOMAIN s}

Witness(rd, s) == [q \in Readers |->
    IF rd[q].at = "idle" THEN rd[q]
    ELSE [rd[q] EXCEPT !.seen = @ \cup Told(s), !.newest = @ \cup {Newest(s)}]]

\* Fault: the memo is keyed by the revision alone.
IdentityFault(s, r) == [revision |-> r, status |-> "any", stamp |-> None]

(* What a probe sees of a revision.  As long as the release stays installed  *)
(* its modifiedAt stamp tells nothing apart that the revision and its status *)
(* leave together: Helm never gives a revision back a status it had.  A      *)
(* release that is installed again begins at 1 again, and then the stamp     *)
(* tells the revisions apart -- except one that is still pending, for Helm   *)
(* stamps a secret when it rewrites it and not when it creates it.           *)
Identity(s, r) ==
    [revision |-> r, status |-> s[r].status,
     stamp |-> IF s[r].status = "pending" THEN None ELSE again]

Put(q, rec) == reader' = [reader EXCEPT ![q] = rec]
Fails == troubles < MaxTroubles /\ troubles' = troubles + 1
Works == UNCHANGED troubles

---------------------------------------------------------------------------
(* The cluster: Helm writes, rewrites and removes release secrets.           *)

Changed(s) ==
    /\ secrets' = s
    /\ reader' = Witness(reader, s)
    /\ UNCHANGED <<relCache, revCache, store, kind, again, troubles>>

Settled == \A r \in DOMAIN secrets : secrets[r].status # "pending"

(* Before an upgrade or a rollback Helm removes the oldest revisions beyond   *)
(* its history-max, never the newest nor the deployed one ...                *)
HelmForgets ==
    /\ Settled
    /\ \E r \in DOMAIN secrets \ {Newest(secrets)} :
         /\ secrets[r].status # "deployed"
         /\ Changed(Restrict(secrets, DOMAIN secrets \ {r}))

(* ... and writes a new highest revision as pending.                         *)
HelmBegins(c) ==
    LET n == Newest(secrets)
    IN  /\ Settled /\ n \in 1..(MaxRevision - 1)
        /\ Changed([r \in DOMAIN secrets \cup {n + 1} |->
                      IF r = n + 1 THEN [status |-> "pending", chart |-> c] ELSE secrets[r]])

(* A call that succeeded rewrites the revision that was deployed ...         *)
HelmSupersedes ==
    LET n == Newest(secrets)
    IN  /\ n # 0 /\ secrets[n].status = "pending"
        /\ \E r \in DOMAIN secrets :
             /\ secrets[r].status = "deployed"
             /\ Changed([secrets EXCEPT ![r].status = "superseded"])

(* ... and then its own; one that failed rewrites only its own.              *)
HelmEnds ==
    LET n == Newest(secrets)
    IN  /\ n # 0 /\ secrets[n].status = "pending"
        /\ \E st \in {"deployed", "failed"} :
             /\ st = "deployed" => \A r \in DOMAIN secrets : secrets[r].status # "deployed"
             /\ Changed([secrets EXCEPT ![n].status = st])

Uninstall ==
    /\ Settled /\ secrets # Empty
    /\ Changed(Empty)

(* A release is installed again under its name: its revisions begin at 1, and *)
(* nothing that was kept of the old ones is touched.                         *)
Install(c) ==
    /\ secrets = Empty /\ Reinstalls /\ ~again
    /\ secrets' = [r \in {1} |-> [status |-> "pending", chart |-> c]]
    /\ reader' = Witness(reader, secrets')
    /\ again' = TRUE
    /\ UNCHANGED <<relCache, revCache, store, kind, troubles>>

---------------------------------------------------------------------------
(* A request begins, and another one after its answer is out.                *)

Begin(q) ==
    /\ reader[q].at = "idle"
    /\ Put(q, [Idle EXCEPT !.at = kind, !.seen = Told(secrets), !.newest = {Newest(secrets)}])
    /\ UNCHANGED <<secrets, relCache, revCache, store, kind, again, troubles>>

(* Facts are kept by revision, in memory and in the database, and neither is *)
(* told when the release is installed again: the history then shows the      *)
(* charts of old revisions of the same number.  And the release that was     *)
(* kept under a pending revision is taken for the pending one of that number.*)
Mistakable(q) == again /\ kind = "release" /\ reader[q].id # None /\ reader[q].id.status = "pending"

(* An answer is true when every revision in it was so at some such moment,   *)
(* and the release it shows was the newest one at some such moment; after    *)
(* the release was installed again, what is said above is taken out.         *)
Truly(q, a) ==
    \/ Mistakable(q)
    \/ /\ \A i \in a : \E j \in reader[q].seen :
            /\ j.rev = i.rev /\ j.status = i.status
            /\ (again /\ kind = "history") \/ j.chart = i.chart
       /\ kind = "release" => \A i \in a : i.rev \in reader[q].newest

Answer(q, a) == Put(q, [Idle EXCEPT !.misled = a # None /\ ~Truly(q, a)])
Cluster == UNCHANGED <<secrets, kind, again>>
NoCache == UNCHANGED <<relCache, revCache, store>>

---------------------------------------------------------------------------
(* Reading the release.                                                      *)

(* The probe lists the labels; without an answer the full read follows.      *)
Probe(q) ==
    /\ reader[q].at = "release"
    /\ \/ /\ secrets # Empty /\ Works
          /\ Put(q, [reader[q] EXCEPT !.at = "memo", !.id = Identity(secrets, Newest(secrets))])
       \/ /\ (IF secrets = Empty THEN Works ELSE Fails)
          /\ Put(q, [reader[q] EXCEPT !.at = "fullRelease"])
    /\ Cluster /\ NoCache

Memo(q) ==
    /\ reader[q].at = "memo"
    /\ IF relCache # None /\ relCache.id = reader[q].id
         THEN Answer(q, {relCache.info})
         ELSE Put(q, [reader[q] EXCEPT !.at = "decode"])
    /\ Cluster /\ NoCache /\ Works

(* The revision the probe named is decoded as it is now, and remembered under *)
(* the identity the probe saw.                                               *)
Decode(q) ==
    LET r == reader[q].id.revision
    IN  /\ reader[q].at = "decode"
        /\ \/ /\ r \in DOMAIN secrets /\ Works
              /\ LET info == [rev |-> r, status |-> secrets[r].status, chart |-> secrets[r].chart]
                 IN  Put(q, [reader[q] EXCEPT !.at = "remember", !.answer = {info}])
           \/ /\ (IF r \in DOMAIN secrets THEN Fails ELSE Works)
              /\ Put(q, [reader[q] EXCEPT !.at = "fullRelease"])
        /\ Cluster /\ NoCache

Remember(q) ==
    /\ reader[q].at = "remember"
    /\ relCache' = [id |-> reader[q].id, info |-> CHOOSE i \in reader[q].answer : TRUE]
    /\ Answer(q, reader[q].answer)
    /\ Cluster /\ UNCHANGED <<revCache, store>> /\ Works

(* The full read decodes everything and returns the newest revision.         *)
FullRelease(q) ==
    LET n == Newest(secrets)
    IN  /\ reader[q].at = "fullRelease"
        /\ \/ /\ n # 0 /\ Works
              /\ Answer(q, {[rev |-> n, status |-> secrets[n].status, chart |-> secrets[n].chart]})
           \/ (IF n = 0 THEN Works ELSE Fails) /\ Answer(q, None)
        /\ Cluster /\ NoCache

(* InvalidateRelease, called by MatrixCtrl's own upgrade and rollback.       *)
Invalidate ==
    /\ relCache # None /\ relCache' = None
    /\ Cluster /\ Works /\ UNCHANGED <<revCache, store, reader>>

---------------------------------------------------------------------------
(* Reading the history.                                                      *)

(* The labels of every revision; the newest `max' of them become rows.       *)
List(q) ==
    /\ reader[q].at = "history"
    /\ \/ /\ secrets # Empty /\ Works
          /\ \E max \in {1, MaxRevision} :
               LET top == {r \in DOMAIN secrets : Cardinality({s \in DOMAIN secrets : s > r}) < max}
               IN  Put(q, [reader[q] EXCEPT !.at = "prune",
                             !.listed = DOMAIN secrets,
                             !.rows = [r \in top |-> secrets[r].status]])
       \/ /\ (IF secrets = Empty THEN Works ELSE Fails)
          /\ Put(q, [reader[q] EXCEPT !.at = "fullHistory"])
    /\ Cluster /\ NoCache

Lacking(q) == DOMAIN reader[q].rows \ DOMAIN revCache

(* Facts of revisions that are gone are forgotten: against the whole list,   *)
(* before it is cut to `max'.                                                *)
Prune(q) ==
    /\ reader[q].at = "prune"
    /\ revCache' = Restrict(revCache, DOMAIN revCache \cap reader[q].listed)
    /\ Put(q, [reader[q] EXCEPT !.at = "load", !.listed = {}])
    /\ Cluster /\ Works /\ UNCHANGED <<relCache, store>>

(* The database is asked before anything is decoded; it may not answer.      *)
Load(q) ==
    /\ reader[q].at = "load"
    /\ \/ /\ Lacking(q) # {} /\ Works
          /\ revCache' = [r \in DOMAIN revCache \cup DOMAIN store |->
                            IF r \in DOMAIN store THEN store[r] ELSE revCache[r]]
          /\ Put(q, [reader[q] EXCEPT !.at = "fill",
                       !.missing = DOMAIN reader[q].rows \ DOMAIN revCache'])
       \/ /\ IF Lacking(q) = {} THEN Works ELSE Fails
          /\ UNCHANGED revCache
          /\ Put(q, [reader[q] EXCEPT !.at = "fill", !.missing = Lacking(q)])
    /\ Cluster /\ UNCHANGED <<relCache, store>>

(* What is still missing is decoded, one revision after the other.           *)
Fill(q) ==
    LET todo == reader[q].missing \ DOMAIN revCache
    IN  /\ reader[q].at = "fill"
        /\ \/ /\ todo = {} /\ Works /\ UNCHANGED revCache
              /\ Put(q, [reader[q] EXCEPT !.at = IF reader[q].missing = {} THEN "rows" ELSE "persist"])
           \/ /\ todo # {} /\ Works
              /\ LET r == Max(todo)
                 IN  IF r \in DOMAIN secrets
                       THEN /\ revCache' = [x \in DOMAIN revCache \cup {r} |->
                                 IF x = r THEN secrets[r].chart ELSE revCache[x]]
                            /\ UNCHANGED reader
                       ELSE /\ UNCHANGED revCache
                            /\ Put(q, [reader[q] EXCEPT !.at = "fullHistory"])
           \/ /\ todo # {} /\ Fails /\ UNCHANGED revCache
              /\ Put(q, [reader[q] EXCEPT !.at = "fullHistory"])
        /\ Cluster /\ UNCHANGED <<relCache, store>>

(* The new facts are stored, if the database takes them; a row that exists   *)
(* is left as it is.                                                         *)
Persist(q) ==
    LET fresh == reader[q].missing \cap DOMAIN revCache
    IN  /\ reader[q].at = "persist"
        /\ \/ /\ store' = [r \in DOMAIN store \cup fresh |->
                             IF r \in DOMAIN store THEN store[r] ELSE revCache[r]]
              /\ Works
           \/ fresh # {} /\ Fails /\ UNCHANGED store
        /\ Put(q, [reader[q] EXCEPT !.at = "rows", !.missing = {}])
        /\ Cluster /\ UNCHANGED <<relCache, revCache>>

(* A row without facts is not shown blank: the whole read is made instead.   *)
Rows(q) ==
    /\ reader[q].at = "rows"
    /\ IF Lacking(q) = {}
         THEN Answer(q, {[rev |-> r, status |-> reader[q].rows[r], chart |-> revCache[r]] :
                           r \in DOMAIN reader[q].rows})
         ELSE Put(q, [reader[q] EXCEPT !.at = "fullHistory"])
    /\ Cluster /\ NoCache /\ Works

FullHistory(q) ==
    /\ reader[q].at = "fullHistory"
    /\ \/ secrets # Empty /\ Works /\ Answer(q, Told(secrets))
       \/ (IF secrets = Empty THEN Works ELSE Fails) /\ Answer(q, None)
    /\ Cluster /\ NoCache

---------------------------------------------------------------------------
(* The process dies: memory goes, the table stays.                           *)
Restart ==
    /\ Fails
    /\ relCache' = None /\ revCache' = Empty
    /\ reader' = [q \in Readers |-> Idle]
    /\ Cluster /\ UNCHANGED store

Init ==
    /\ \E c \in Charts : secrets = [r \in {1} |-> [status |-> "deployed", chart |-> c]]
    /\ relCache = None /\ revCache = Empty /\ store = Empty
    /\ kind \in {"release", "history"} /\ again = FALSE
    /\ reader = [q \in Readers |-> Idle]
    /\ troubles = 0

Next ==
    \/ \E c \in Charts : HelmBegins(c) \/ Install(c)
    \/ HelmForgets \/ HelmSupersedes \/ HelmEnds \/ Uninstall
    \/ \E q \in Readers : Begin(q)
    \/ \E q \in Readers : Probe(q) \/ Memo(q) \/ Decode(q) \/ Remember(q) \/ FullRelease(q)
    \/ \E q \in Readers : List(q) \/ Prune(q) \/ Load(q) \/ Fill(q) \/ Persist(q) \/ Rows(q)
    \/ \E q \in Readers : FullHistory(q)
    \/ Invalidate \/ Restart

Spec == Init /\ [][Next]_vars

---------------------------------------------------------------------------
TypeOK ==
    /\ DOMAIN secrets \subseteq Revisions /\ Range(secrets) \subseteq Secret
    /\ DOMAIN revCache \subseteq Revisions /\ Range(revCache) \subseteq Charts
    /\ DOMAIN store \subseteq Revisions /\ Range(store) \subseteq Charts
    /\ DOMAIN reader = Readers /\ again \in BOOLEAN

(* What an answer says of a revision was so at some moment since the request *)
(* began, whatever Helm and the other requests did between the steps of the  *)
(* read (cache.go: a returned value is either confirmed current or freshly   *)
(* decoded), and the release it shows was the newest at some such moment.    *)
(* Of a release that was installed again under its name the charts in the    *)
(* history are taken out, which may be those of the revisions before, and    *)
(* the release that is shown while a revision of it is pending.              *)
ReadsAreTrue == \A q \in Readers : ~reader[q].misled

(* Nothing is taken out as long as the release stays installed, or gone.     *)
ReadsAreTrueOfOne == again \/ ReadsAreTrue
=============================================================================
