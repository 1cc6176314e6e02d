------------------------------- MODULE MCParts -------------------------------
(* Eleven parts of the program that share no state with one another, or none *)
(* that matters to what is said of them, checked side by side: the first     *)
(* state chooses a part, and from there on its own specification runs.  The  *)
(* variables are slots; what a part calls them is said where it is named.    *)
(* Five parts are checked twice: wide and without trouble, narrow and with.  *)
EXTENDS Integers, FiniteSets, Sequences, TLC

CONSTANTS
    None,
    m1, m2,     \* requests, restores, readers, fields: interchangeable
    p1, p2,     \* clients' addresses, charts, credentials: interchangeable
    n1, n2,     \* hooks, keys, a server's addresses
    s1, s2,     \* sections, which have an order, and workloads of two kinds
    d, v        \* values

VARIABLES part, v1, v2, v3, v4, v5, v6, v7, v8, v9

vars == <<part, v1, v2, v3, v4, v5, v6, v7, v8, v9>>

---------------------------------------------------------------------------
Login == INSTANCE LocalLogin WITH
    Attempts <- {m1, m2}, Addresses <- {p1, p2}, LockoutAfter <- 2,
    MaxTroubles <- 1, oidc <- v1, failures <- v2, age <- v3, step <- v4,
    from <- v5, guesses <- v6, troubles <- v7

Once == INSTANCE OneUse WITH
    Credentials <- 1..4, MaxTickets <- 1, credential <- v1, spent <- v2,
    session <- v3

Runs == INSTANCE HookRuns WITH
    Triggers <- {m1, m2}, MaxEvents <- 0, hook <- v1, chart <- v2,
    live <- v3, helm <- v4, trigger <- v5, row <- v6, lost <- v7,
    events <- v8

OneRun == INSTANCE HookRuns WITH
    Triggers <- {m1}, MaxEvents <- 2, hook <- v1, chart <- v2,
    live <- v3, helm <- v4, trigger <- v5, row <- v6, lost <- v7,
    events <- v8

Job == INSTANCE RestoreJob WITH
    Restores <- {m1, m2}, MaxEvents <- 0, repo <- v1, ownDB <- v2,
    db <- v3, secret <- v4, loaded <- v5, media <- v6, slot <- v7,
    restore <- v8, events <- v9

OneJob == INSTANCE RestoreJob WITH
    Restores <- {m1}, MaxEvents <- 3, repo <- v1, ownDB <- v2,
    db <- v3, secret <- v4, loaded <- v5, media <- v6, slot <- v7,
    restore <- v8, events <- v9

Reads == INSTANCE ReleaseReads WITH
    Readers <- {m1, m2}, Charts <- {p1, p2}, MaxRevision <- 2,
    MaxTroubles <- 0, Reinstalls <- FALSE, secrets <- v1, relCache <- v2, revCache <- v3,
    store <- v4, kind <- v5, reader <- v6, troubles <- v7,
    again <- v8

ReadAlone == INSTANCE ReleaseReads WITH
    Readers <- {m1}, Charts <- {p1, p2}, MaxRevision <- 2,
    MaxTroubles <- 1, Reinstalls <- TRUE, secrets <- v1, relCache <- v2, revCache <- v3,
    store <- v4, kind <- v5, reader <- v6, troubles <- v7,
    again <- v8

\* A text says one thing of each section, or nothing.
Nothing == [val |-> None, ours |-> None, other |-> None]
Block == [k \in {n1} |-> v]
Said == {[Nothing EXCEPT !.val = d], [Nothing EXCEPT !.val = v],
         [Nothing EXCEPT !.ours = Block], [Nothing EXCEPT !.other = Block]}
OneText == [{s1, s2} -> Said \cup {Nothing}]

Files == INSTANCE SectionFiles WITH Texts <- OneText,
    Sections <- {s1, s2}, Keys <- {n1}, Values <- {d, v}, Default <- d,
    MaxChanges <- 1, Requests <- {n1}, MaxEdits <- 2, MaxTroubles <- 1,
    disk <- v1, listed <- v2, migration <- v3, request <- v4, edits <- v5,
    troubles <- v6

LongEdit == INSTANCE SectionFiles WITH Texts <- OneText,
    Sections <- {s1, s2}, Keys <- {n1}, Values <- {d, v}, Default <- d,
    MaxChanges <- 2, Requests <- {n1}, MaxEdits <- 1, MaxTroubles <- 1,
    disk <- v1, listed <- v2, migration <- v3, request <- v4, edits <- v5,
    troubles <- v6

Drift == INSTANCE DriftReport WITH
    Fields <- {m1, m2}, Values <- {d, v}, Hooks <- {n1}, MaxEvents <- 1,
    MaxTroubles <- 1, live <- v1, owner <- v2, chart <- v3, hooks <- v4,
    report <- v5, events <- v6, troubles <- v7

Archive == INSTANCE Backup WITH
    MaxId <- 2, HookIds <- {n1}, MaxTroubles <- 1, counter <- v1,
    open <- v2, rows <- v3, own <- v4, counted <- v5, export <- v6,
    archive <- v7, troubles <- v8

View == INSTANCE RolloutView WITH
    Deployments <- {s1, s2}, HostNetwork <- {s2}, StatefulSets <- {},
    MaxTroubles <- 0, spec <- v1, pods <- v2, events <- v3, op <- v4,
    stream <- v5, snap <- v6, probe <- v7, troubles <- v8

ViewOfOne == INSTANCE RolloutView WITH
    Deployments <- {s2}, HostNetwork <- {s2}, StatefulSets <- {},
    MaxTroubles <- 2, spec <- v1, pods <- v2, events <- v3, op <- v4,
    stream <- v5, snap <- v6, probe <- v7, troubles <- v8

Past == INSTANCE Samplers WITH
    Counters <- {n1, n2}, CPU <- n1, MaxCount <- 2, MaxLives <- 3,
    Answers <- {<<n1>>, <<n1, n2>>, <<n2, n1>>}, MaxChanges <- 2,
    MaxRows <- 2, MaxTroubles <- 1, kind <- v1, source <- v2, memory <- v3,
    sampler <- v4, rows <- v5, dns <- v6, sfu <- v7, recorder <- v8,
    troubles <- v9

Secrets == INSTANCE MasSecrets WITH
    Requests <- {m1, m2}, Values <- {p1, p2}, MaxRequests <- 3, MaxTroubles <- 1,
    secret <- v1, mounts <- v2, applying <- v3, deployed <- v4, mas <- v5,
    request <- v6, told <- v7, asked <- v8, troubles <- v9

\* What the theorems of PartsProofs and ReadingProofs assume of their constants.
ASSUME PartsAssumption ==
    /\ Login!Throttled /\ Once!Drawn /\ Drift!Listed
    /\ Runs!Named /\ OneRun!Named /\ Job!Distinct /\ OneJob!Distinct
    /\ Files!Named /\ LongEdit!Named /\ Past!Judged

---------------------------------------------------------------------------
Interchangeable == Permutations({m1, m2}) \cup Permutations({p1, p2})

Init ==
    \/ part = "login" /\ Login!Init /\ v8 = None /\ v9 = None
    \/ part = "oneuse" /\ Once!Init /\ v4 = None /\ v5 = None /\ v6 = None /\ v7 = None /\ v8 = None /\ v9 = None
    \/ part = "hooks" /\ Runs!Init /\ v9 = None
    \/ part = "hook" /\ OneRun!Init /\ v9 = None
    \/ part = "restore" /\ Job!Init
    \/ part = "job" /\ OneJob!Init
    \/ part = "reads" /\ Reads!Init /\ v9 = None
    \/ part = "read" /\ ReadAlone!Init /\ v9 = None
    \/ part = "sections" /\ Files!Init /\ v7 = None /\ v8 = None /\ v9 = None
    \/ part = "section" /\ LongEdit!Init /\ v7 = None /\ v8 = None /\ v9 = None
    \/ part = "drift" /\ Drift!Init /\ v8 = None /\ v9 = None
    \/ part = "backup" /\ Archive!Init /\ v9 = None
    \/ part = "rollout" /\ View!Init /\ v9 = None
    \/ part = "rolling" /\ ViewOfOne!Init /\ v9 = None
    \/ part = "history" /\ Past!Init
    \/ part = "secrets" /\ Secrets!Init

Next ==
    /\ UNCHANGED part
    /\ \/ part = "login" /\ Login!Next /\ UNCHANGED <<v8, v9>>
       \/ part = "oneuse" /\ Once!Next /\ UNCHANGED <<v4, v5, v6, v7, v8, v9>>
       \/ part = "hooks" /\ Runs!Next /\ UNCHANGED v9
       \/ part = "hook" /\ OneRun!Next /\ UNCHANGED v9
       \/ part = "restore" /\ Job!Next
       \/ part = "job" /\ OneJob!Next
       \/ part = "reads" /\ Reads!Next /\ UNCHANGED v9
       \/ part = "read" /\ ReadAlone!Next /\ UNCHANGED v9
       \/ part = "sections" /\ Files!Next /\ UNCHANGED <<v7, v8, v9>>
       \/ part = "section" /\ LongEdit!Next /\ UNCHANGED <<v7, v8, v9>>
       \/ part = "drift" /\ Drift!Next /\ UNCHANGED <<v8, v9>>
       \/ part = "backup" /\ Archive!Next /\ UNCHANGED v9
       \/ part = "rollout" /\ View!Next /\ UNCHANGED v9
       \/ part = "rolling" /\ ViewOfOne!Next /\ UNCHANGED v9
       \/ part = "history" /\ Past!Next
       \/ part = "secrets" /\ Secrets!Next

Spec == Init /\ [][Next]_vars

---------------------------------------------------------------------------
(* BootstrapLogin: an account that is being guessed is locked before many    *)
(* tries, however they arrive.                                               *)
GuessesAreBounded == part = "login" => Login!GuessesAreBounded

(* States, codes and tickets open one thing each, however many requests      *)
(* bring one.                                                                *)
CredentialsAreGoodOnce == part = "oneuse" => Once!CredentialsAreGoodOnce

(* A trigger runs all its hooks, and what is recorded of them was so.        *)
HooksHold == /\ part = "hooks" => Runs!HooksHold
             /\ part = "hook" => OneRun!HooksHold

(* One full restore at a time, whole or as before, and never called whole    *)
(* when it is not.                                                           *)
RestoresAreWhole ==
    /\ part = "restore" => Job!RestoresAreWhole
    /\ part = "job" => OneJob!RestoresAreWhole

(* What is read of the release and its history through the caches was so     *)
(* during the read.                                                          *)
ReadsAreTrue == /\ part = "reads" => Reads!ReadsAreTrue
                /\ part = "read" => ReadAlone!ReadsAreTrue

(* A saved setting is what Helm is given and what the page shows, and        *)
(* nothing else changes.                                                     *)
SavedReadsBack == [][/\ part = "sections" => Files!KeepsWhatItSays
                     /\ part = "section" => LongEdit!KeepsWhatItSays]_vars

(* A drift report that finds nothing is right about the cluster it read.     *)
GreenMeansInEffect == part = "drift" => Drift!GreenMeansInEffect

(* The archive holds one moment of the homeserver's database, and a counter  *)
(* at or past it.                                                            *)
BackupIsOneMoment == part = "backup" => Archive!BackupIsOneMoment

(* The probe ends no pod it need not end, and the stepper shows the          *)
(* upgrade's own phase.                                                      *)
RolloutIsTold == /\ part = "rollout" => View!RolloutIsTold
                 /\ part = "rolling" => ViewOfOne!RolloutIsTold

(* The recorded histories say nothing that did not happen.                   *)
HistoryIsTrue == part = "history" => Past!HistoryIsTrue

(* No login provider is lost, and MAS runs what was saved for it.            *)
SecretsAreRead == part = "secrets" => Secrets!SecretsAreRead
=============================================================================
