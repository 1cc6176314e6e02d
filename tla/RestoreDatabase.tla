--------------------------- MODULE RestoreDatabase ---------------------------
(***************************************************************************)
(* restore.Database: one database of the homeserver is replaced from an    *)
(* archive while its service is stopped.  The model runs the steps of the  *)
(* Go function against a Postgres server (databases, sessions, one admin   *)
(* connection), a Kubernetes workload (wanted replicas, pods, the          *)
(* readiness last reported) and a clock (the deadline of the context), any *)
(* step of which may fail, and lets the process die at any step.           *)
(*                                                                         *)
(* A database is a generation and a filling: generation 0 was there first, *)
(* run number k creates generation k.                                      *)
(***************************************************************************)
EXTENDS Naturals, FiniteSets

CONSTANTS Asides,       \* the names "<database>_vor_<minute>" a run may use
          Live,         \* the name the service connects to
          None,         \* no database, no previous data, no report
          MaxReplicas,  \* what an operator may ask the workload to run
          MaxRuns,      \* bound: restores started
          MaxFailures   \* bound: failures injected into one run

Names    == Asides \cup {Live}
Fillings == {"empty", "schema", "filling", "loaded"}
Database == [gen : Nat, filled : Fillings]
Reports  == {"refused", "error", "unchanged", "undone", "blocked",
             "dataBack", "restored", "notUp", "crashed"}

ASSUME RestoreAssumption ==
    /\ Live \notin Asides
    /\ None \notin Nat \cup Database \cup Reports
    /\ MaxReplicas \in Nat \ {0}
    /\ MaxRuns \in Nat
    /\ MaxFailures \in Nat

VARIABLES
    pc,         \* the step of restore.Database, "idle" when none runs
    waiting,    \* in a stop or start: Scale was accepted, the pods are awaited
    run,        \* restores started so far; also the generation this one creates
    aside,      \* the name the old data gets in this run
    want,       \* replicas to put back
    origin,     \* generation that was live when this run began, or None
    previous,   \* res.PreviousName # ""
    report,     \* what the last run told the operator, None while it runs
    failed,     \* steps of this run that failed
    expired,    \* the two-hour context of this run has ended
    connected,  \* the admin connection of this run is up
    dbs,        \* name -> database or None
    sessions,   \* who is connected to the live database
    replicas,   \* spec.replicas of the workload
    pods,       \* whether a pod of it exists
    ready,      \* the readiness last reported in its status
    meddled,    \* somebody else scaled the workload during this run
    precious    \* generations that held somebody's data

runner   == <<pc, waiting, run, aside, want, origin, previous, report>>
trouble  == <<failed, expired, connected>>
workload == <<replicas, pods, ready, meddled>>
vars     == <<runner, trouble, dbs, sessions, workload, precious>>

StopSteps  == {"stop", "stopAgain", "rbStop"}
StartSteps == {"buildSchema", "startRestored", "rbStart", "startUnchanged"}
Undoable   == {"create", "buildSchema", "stopAgain", "terminateAgain", "open",
               "prepare", "load", "verify", "mergeKept"}
RollBack   == {"rbStop", "rbTerminate", "rbDrop", "rbRename", "rbStart"}
Early      == {"checkAside", "readReplicas", "stop", "terminate", "exists",
               "rename", "startUnchanged"}
Steps      == Early \cup Undoable \cup RollBack \cup {"startRestored"}

\* The steps that ask the admin connection, and those whose statement may have
\* taken effect although its answer was lost.
AdminSteps   == {"checkAside", "terminate", "exists", "rename", "create",
                 "terminateAgain", "rbTerminate", "rbDrop", "rbRename"}
EffectOnLoss == {"rename", "create", "rbDrop", "rbRename"}

Gens   == {dbs[n].gen : n \in {m \in Names : dbs[m] # None}}
GenAt(n) == IF dbs[n] = None THEN None ELSE dbs[n].gen

TypeOK ==
    /\ pc \in Steps \cup {"idle"}
    /\ waiting \in BOOLEAN
    /\ run \in 0..MaxRuns
    /\ aside \in Asides \cup {None}
    /\ want \in 0..MaxReplicas
    /\ origin \in Nat \cup {None}
    /\ previous \in BOOLEAN
    /\ report \in Reports \cup {None}
    /\ failed \subseteq Steps
    /\ expired \in BOOLEAN
    /\ connected \in BOOLEAN
    /\ dbs \in [Names -> Database \cup {None}]
    /\ sessions \subseteq {"service", "other", "sink"}
    /\ replicas \in 0..MaxReplicas
    /\ pods \in BOOLEAN
    /\ ready \in BOOLEAN
    /\ meddled \in BOOLEAN
    /\ precious \subseteq Nat

\* A running server, a stopped one, or one that was never installed.
Init ==
    /\ pc = "idle"
    /\ waiting = FALSE
    /\ run = 0
    /\ aside = None
    /\ want = 0
    /\ origin = None
    /\ previous = FALSE
    /\ report = None
    /\ failed = {}
    /\ expired = FALSE
    /\ connected = TRUE
    /\ dbs \in [Names -> {None, [gen |-> 0, filled |-> "loaded"]}]
    /\ \A n \in Asides : dbs[n] = None
    /\ sessions = {}
    /\ replicas \in 0..MaxReplicas
    /\ pods = FALSE
    /\ ready = FALSE
    /\ meddled = FALSE
    /\ precious = Gens

-----------------------------------------------------------------------------
(* The runner: what every step has in common.                              *)

GoTo(next) == /\ pc' = next
              /\ waiting' = FALSE
              /\ UNCHANGED <<run, aside, want, origin, report>>

\* The function returns; the deferred Close takes the loading session along.
Return(told) == /\ pc' = "idle"
                /\ waiting' = FALSE
                /\ report' = told
                /\ UNCHANGED <<run, aside, want, origin>>

\* A step worked: the program goes on to `next`.
Then(next) == /\ GoTo(next)
              /\ UNCHANGED <<trouble, precious>>

\* Whether the step can do its work now: the context lives, the admin
\* connection too when the step needs it.
CanDo(step) == /\ pc = step
               /\ ~expired
               /\ step \in AdminSteps => connected

Begin(name) ==
    /\ pc = "idle"
    /\ run < MaxRuns
    /\ pc' = "checkAside"
    /\ waiting' = FALSE
    /\ run' = run + 1
    /\ aside' = name
    /\ want' = 0
    /\ origin' = GenAt(Live)
    /\ previous' = FALSE
    /\ report' = None
    /\ failed' = {}
    /\ expired' = FALSE
    /\ connected' = TRUE
    /\ meddled' = FALSE
    /\ precious' = precious \cup Gens
    /\ UNCHANGED <<dbs, sessions, replicas, pods, ready>>

\* A name an earlier run left something under is never touched.
CheckAside ==
    /\ CanDo("checkAside")
    /\ IF dbs[aside] # None
       THEN Return("refused") /\ UNCHANGED <<trouble, precious>>
       ELSE Then("readReplicas")
    /\ UNCHANGED <<previous, dbs, sessions, workload>>

\* Fault: a workload whose spec names no number is read as "nothing".
ReadReplicasNoDefault ==
    /\ CanDo("readReplicas")
    /\ want' = IF replicas = 0 THEN None ELSE replicas
    /\ pc' = "stop"
    /\ UNCHANGED <<waiting, run, aside, origin, previous, report, trouble,
                   dbs, sessions, workload, precious>>

\* A service somebody stopped is started with one replica all the same.
ReadReplicas ==
    /\ CanDo("readReplicas")
    /\ want' = IF replicas = 0 THEN 1 ELSE replicas
    /\ pc' = "stop"
    /\ UNCHANGED <<waiting, run, aside, origin, previous, report, trouble,
                   dbs, sessions, workload, precious>>

-----------------------------------------------------------------------------
(* Stopping and starting: Scale asks, WaitGone and WaitReady look at what  *)
(* the cluster did.                                                        *)

AfterStop(step) == CASE step = "stop"      -> "terminate"
                     [] step = "stopAgain" -> "terminateAgain"
                     [] step = "rbStop"    -> "rbTerminate"

Scale(step) ==
    /\ CanDo(step)
    /\ step \in StopSteps \cup StartSteps
    /\ ~waiting
    /\ waiting' = TRUE
    /\ replicas' = IF step \in StopSteps THEN 0 ELSE want
    /\ UNCHANGED <<pc, run, aside, want, origin, previous, report, trouble,
                   dbs, sessions, pods, ready, meddled, precious>>

\* Fault: the stop is believed once Scale is accepted.
WaitGoneTrusting(step) ==
    /\ CanDo(step)
    /\ step \in StopSteps
    /\ waiting
    /\ Then(AfterStop(step))
    /\ UNCHANGED <<previous, dbs, sessions, workload>>

\* WaitGone asks about the pods, not about the wanted number.
WaitGone(step) ==
    /\ CanDo(step)
    /\ step \in StopSteps
    /\ waiting
    /\ ~pods
    /\ Then(AfterStop(step))
    /\ UNCHANGED <<previous, dbs, sessions, workload>>

\* WaitReady compares the last reported readiness with the wanted number.
WaitReady(step) ==
    /\ CanDo(step)
    /\ step \in StartSteps
    /\ waiting
    /\ ready = (replicas > 0)
    /\ \/ /\ step = "buildSchema"
          /\ Then("stopAgain")
       \/ /\ step = "startRestored"
          /\ Return("restored")
          /\ precious' = precious \cup {run}
          /\ UNCHANGED trouble
       \/ /\ step = "rbStart"
          /\ Return("undone")
          /\ UNCHANGED <<trouble, precious>>
       \/ /\ step = "startUnchanged"
          /\ Return("unchanged")
          /\ UNCHANGED <<trouble, precious>>
    /\ UNCHANGED <<previous, dbs, sessions, workload>>

-----------------------------------------------------------------------------
(* The database server.                                                    *)

\* Every session but the admin's own is ended, the loading one included.
Terminate(step, next) ==
    /\ CanDo(step)
    /\ sessions' = {}
    /\ Then(next)
    /\ UNCHANGED <<previous, dbs, workload>>

FindLive ==
    /\ CanDo("exists")
    /\ Then(IF dbs[Live] = None THEN "create" ELSE "rename")
    /\ UNCHANGED <<previous, dbs, sessions, workload>>

\* Postgres refuses to rename or drop a database somebody is connected to, and
\* to give two databases one name.
Accepts(step) ==
    CASE step = "rename"   -> sessions = {} /\ dbs[Live] # None /\ dbs[aside] = None
      [] step = "create"   -> dbs[Live] = None
      [] step = "rbDrop"   -> sessions = {}
      [] step = "rbRename" -> sessions = {} /\ dbs[aside] # None /\ dbs[Live] = None

Fresh == [gen |-> run, filled |-> "empty"]

\* Fault: the old database is put back as a copy.
EffectCopiesBack(step) ==
    dbs' = CASE step = "rename"   -> [dbs EXCEPT ![aside] = dbs[Live], ![Live] = None]
             [] step = "create"   -> [dbs EXCEPT ![Live] = Fresh]
             [] step = "rbDrop"   -> [dbs EXCEPT ![Live] = None]
             [] step = "rbRename" -> [dbs EXCEPT ![Live] = dbs[aside]]

\* What the statement of a step does to the server.
Effect(step) ==
    dbs' = CASE step = "rename"   -> [dbs EXCEPT ![aside] = dbs[Live], ![Live] = None]
             [] step = "create"   -> [dbs EXCEPT ![Live] = Fresh]
             [] step = "rbDrop"   -> [dbs EXCEPT ![Live] = None]
             [] step = "rbRename" -> [dbs EXCEPT ![Live] = dbs[aside], ![aside] = None]

\* Fault: the rollback forgets to rename back.
AfterEffectNoRename(step) ==
    CASE step = "rename"   -> "create"
      [] step = "create"   -> "buildSchema"
      [] step = "rbDrop"   -> "rbStart"
      [] step = "rbRename" -> "rbStart"

AfterEffect(step) ==
    CASE step = "rename"   -> "create"
      [] step = "create"   -> "buildSchema"
      [] step = "rbDrop"   -> IF previous THEN "rbRename" ELSE "rbStart"
      [] step = "rbRename" -> "rbStart"

\* res.PreviousName names the aside database between the two renames.
Statement(step) ==
    /\ CanDo(step)
    /\ step \in EffectOnLoss
    /\ Accepts(step)
    /\ Effect(step)
    /\ previous' = (step = "rename" \/ (previous /\ step # "rbRename"))
    /\ Then(AfterEffect(step))
    /\ UNCHANGED <<sessions, workload>>

-----------------------------------------------------------------------------
(* Filling the new database.                                               *)

Fill(filling) == dbs' = [dbs EXCEPT ![Live].filled = filling]

OpenSink ==
    /\ CanDo("open")
    /\ dbs[Live] # None
    /\ sessions' = sessions \cup {"sink"}
    /\ Then("prepare")
    /\ UNCHANGED <<previous, dbs, workload>>

\* DeferConstraints, KeepTargetOnly, TruncateAll: a database without tables
\* is emptied without complaint.
Prepare ==
    /\ CanDo("prepare")
    /\ "sink" \in sessions
    /\ IF dbs[Live].filled = "empty" THEN UNCHANGED dbs ELSE Fill("filling")
    /\ Then("load")
    /\ UNCHANGED <<previous, sessions, workload>>

\* Rows and sequences: COPY needs the tables the service built.
Load ==
    /\ CanDo("load")
    /\ "sink" \in sessions
    /\ dbs[Live].filled = "filling"
    /\ Fill("loaded")
    /\ Then("verify")
    /\ UNCHANGED <<previous, sessions, workload>>

\* Counts agree; a newer schema takes the target's own open jobs back in, and
\* the sink is closed before the service starts.
Verify ==
    /\ CanDo("verify")
    /\ "sink" \in sessions
    /\ \/ Then("mergeKept") /\ UNCHANGED sessions
       \/ Then("startRestored") /\ sessions' = sessions \ {"sink"}
    /\ UNCHANGED <<previous, dbs, workload>>

MergeKept ==
    /\ CanDo("mergeKept")
    /\ "sink" \in sessions
    /\ sessions' = sessions \ {"sink"}
    /\ Then("startRestored")
    /\ UNCHANGED <<previous, dbs, workload>>

-----------------------------------------------------------------------------
(* Failure.                                                                *)

\* Fault: the wait for the pods does not look at its context.
HopelessButPatient(step) ==
    \/ expired /\ ~waiting
    \/ step \in AdminSteps /\ ~connected
    \/ step \in EffectOnLoss /\ ~Accepts(step)
    \/ step = "open" /\ dbs[Live] = None
    \/ step \in {"prepare", "load", "verify", "mergeKept"} /\ "sink" \notin sessions
    \/ step = "load" /\ dbs[Live].filled # "filling"

\* A step that cannot work whatever happens next.
Hopeless(step) ==
    \/ expired
    \/ step \in AdminSteps /\ ~connected
    \/ step \in EffectOnLoss /\ ~Accepts(step)
    \/ step = "open" /\ dbs[Live] = None
    \/ step \in {"prepare", "load", "verify", "mergeKept"} /\ "sink" \notin sessions
    \/ step = "load" /\ dbs[Live].filled # "filling"

MayFail(step) == Hopeless(step) \/ Cardinality(failed) < MaxFailures

Fails(step) == /\ pc = step
               /\ MayFail(step)
               /\ failed' = failed \cup {step}

\* Fault: a refused rename is rolled back like everything after it.
OnErrorRollsBackRename(step) ==
    \/ /\ step \in Undoable \cup {"rename"}
       /\ GoTo("rbStop")
       /\ UNCHANGED <<sessions, precious>>
    \/ /\ step = "rbTerminate"
       /\ GoTo("rbDrop")
       /\ UNCHANGED <<sessions, precious>>
    \/ /\ step \notin Undoable \cup {"rename", "rbTerminate"}
       /\ Return("error")
       /\ sessions' = sessions \ {"sink"}
       /\ UNCHANGED precious

\* Fault: rows that do not add up are reported, not rolled back.
OnErrorKeepsMismatch(step) ==
    \/ /\ step \in Undoable \ {"verify"}
       /\ GoTo("rbStop")
       /\ UNCHANGED <<sessions, precious>>
    \/ /\ step \notin Undoable \ {"verify"}
       /\ Return("error")
       /\ sessions' = sessions \ {"sink"}
       /\ UNCHANGED precious

\* What an error makes of the program: an early one is returned as it is, one
\* after the swap goes to the rollback, one inside the rollback is final.
\* Two errors are ignored: that of rbTerminate, and that of starting the
\* service again after a refused rename.
OnError(step) ==
    \/ /\ step \in Undoable
       /\ GoTo("rbStop")
       /\ UNCHANGED <<sessions, precious>>
    \/ /\ step = "rename"
       /\ GoTo("startUnchanged")
       /\ UNCHANGED <<sessions, precious>>
    \/ /\ step = "rbTerminate"
       /\ GoTo("rbDrop")
       /\ UNCHANGED <<sessions, precious>>
    \/ /\ step \in {"rbStop", "rbDrop", "rbRename"}
       /\ Return("blocked")
       /\ sessions' = sessions \ {"sink"}
       /\ UNCHANGED precious
    \/ /\ step = "rbStart"
       /\ Return("dataBack")
       /\ UNCHANGED <<sessions, precious>>
    \/ /\ step = "startRestored"
       /\ Return("notUp")
       /\ precious' = precious \cup {run}
       /\ UNCHANGED sessions
    \/ /\ step \in Early \ {"rename"}
       /\ Return(IF step = "startUnchanged" THEN "unchanged" ELSE "error")
       /\ UNCHANGED <<sessions, precious>>

\* An error that leaves nothing behind, except that a Scale may have arrived.
Refuse(step) ==
    /\ Fails(step)
    /\ OnError(step)
    /\ replicas' \in IF step \in StopSteps /\ ~waiting THEN {replicas, 0}
                     ELSE IF step \in StartSteps /\ ~waiting THEN {replicas, want}
                     ELSE {replicas}
    /\ UNCHANGED <<previous, expired, connected, dbs, pods, ready, meddled>>

\* The admin connection breaks under a statement, before or after it took effect.
LoseAnswer(step) ==
    /\ CanDo(step)
    /\ step \in EffectOnLoss
    /\ Cardinality(failed) < MaxFailures
    /\ Fails(step)
    /\ OnError(step)
    /\ connected' = FALSE
    /\ UNCHANGED dbs \/ (Accepts(step) /\ Effect(step))
    /\ UNCHANGED <<previous, expired, workload>>

\* The two hours are over: nothing this run asks for works any more.
Expire ==
    /\ pc # "idle"
    /\ ~expired
    /\ expired' = TRUE
    /\ UNCHANGED <<runner, failed, connected, dbs, sessions, workload, precious>>

\* MatrixCtrl dies. Nothing of the run is stored anywhere.
Crash ==
    /\ pc # "idle"
    /\ Return("crashed")
    /\ sessions' = sessions \ {"sink"}
    /\ UNCHANGED <<previous, trouble, dbs, workload, precious>>

-----------------------------------------------------------------------------
(* The cluster and the people around it.                                   *)

PodsFollow ==
    /\ pods # (replicas > 0)
    /\ pods' = ~pods
    /\ sessions' = IF pods THEN sessions \ {"service"} ELSE sessions
    /\ UNCHANGED <<runner, trouble, dbs, replicas, ready, meddled, precious>>

\* A service that finds an empty database builds its schema in it.
ServiceConnects ==
    /\ pods
    /\ dbs[Live] # None
    /\ "service" \notin sessions
    /\ sessions' = sessions \cup {"service"}
    /\ IF dbs[Live].filled = "empty" THEN Fill("schema") ELSE UNCHANGED dbs
    /\ UNCHANGED <<runner, trouble, workload, precious>>

\* The status of the workload lags behind its pods.
StatusUpdate ==
    /\ ready # (pods /\ "service" \in sessions)
    /\ ready' = ~ready
    /\ UNCHANGED <<runner, trouble, dbs, sessions, replicas, pods, meddled, precious>>

OtherConnects ==
    /\ dbs[Live] # None
    /\ sessions' = sessions \cup {"other"}
    /\ UNCHANGED <<runner, trouble, dbs, workload, precious>>

\* An operator, or a Helm upgrade, sets the wanted number: at will between two
\* restores, once during one (nothing in MatrixCtrl forbids it).
ScaleOutside(n) ==
    /\ replicas' = n
    /\ IF pc = "idle" THEN UNCHANGED meddled
                      ELSE ~meddled /\ meddled' = TRUE
    /\ UNCHANGED <<runner, trouble, dbs, sessions, pods, ready, precious>>

-----------------------------------------------------------------------------
Work == \/ CheckAside \/ ReadReplicas \/ FindLive \/ OpenSink \/ Prepare
        \/ Load \/ Verify \/ MergeKept
        \/ Terminate("terminate", "exists")
        \/ Terminate("terminateAgain", "open")
        \/ Terminate("rbTerminate", "rbDrop")
        \/ \E step \in Steps : \/ Scale(step) \/ WaitGone(step) \/ WaitReady(step)
                               \/ Statement(step)

Environment == \/ PodsFollow \/ ServiceConnects \/ StatusUpdate \/ OtherConnects
               \/ \E n \in 0..MaxReplicas : ScaleOutside(n)

Next == \/ \E name \in Asides : Begin(name)
        \/ Work
        \/ \E step \in Steps : Refuse(step) \/ LoseAnswer(step)
        \/ Expire
        \/ Crash
        \/ Environment

Spec == Init /\ [][Next]_vars

\* The goroutine keeps running, its context has a deadline, and a step that
\* cannot work returns its error.
Fairness == /\ WF_vars(Work \/ \E step \in Steps : Refuse(step) /\ Hopeless(step))
            /\ WF_vars(Expire)

FairSpec == Spec /\ Fairness

-----------------------------------------------------------------------------
(* Properties.                                                             *)

\* Nothing that existed when a restore began, and nothing a restore completed,
\* is ever lost: whatever fails, in whatever order, over any number of runs,
\* crashes and lost answers ("renamed, never dropped").
NothingIsLost == precious \subseteq Gens

\* The rows go into the database this run created, never into one that was
\* there before, and unless somebody else scaled the workload no pod of the
\* service exists while they do ("loading under a running server would race it").
LoadsAlone ==
    pc \in {"prepare", "load", "verify", "mergeKept"} =>
        /\ dbs[Live] # None /\ dbs[Live].gen = run
        /\ meddled \/ ~pods

\* What the operator is told about the data is where the data is. A lost answer
\* is the one excuse: then the statement may have happened after all.
ReportIsTrue ==
    /\ report \in {"undone", "dataBack"} => GenAt(Live) = origin
    /\ report \in {"restored", "notUp"} =>
           /\ GenAt(Live) = run /\ dbs[Live].filled = "loaded"
           /\ origin # None => GenAt(aside) = origin
    /\ report = "blocked" /\ previous /\ connected => GenAt(aside) = origin
    /\ report \in {"unchanged", "error", "refused"} /\ connected => GenAt(Live) = origin

\* One refused step after the swap, everything else working: the old database
\* is back and the service is asked to run as before ("every failure before the
\* last step is undone by renaming back").
OneRefusalIsUndone ==
    [][ /\ report' \notin {None, "crashed"} /\ report = None
        /\ \E step \in Undoable : failed' = {step}
        /\ ~expired' /\ connected' /\ ~meddled'
        => report' = "undone" /\ GenAt(Live)' = origin' /\ replicas' = want' ]_vars

\* Every restore comes to an end, because its context does.
RunReturns == []<>(pc = "idle")

\* The restore is a database swap: the live name, the databases kept aside and
\* whether the live one is half-built.
Swap == INSTANCE DatabaseSwap
            WITH live <- GenAt(Live),
                 kept <- {GenAt(n) : n \in {m \in Asides : dbs[m] # None}},
                 used <- run,
                 halfBuilt <- dbs[Live] # None /\ GenAt(Live) \notin precious
SwapSpec == Swap!Spec

\* restore.go: "A failure anywhere in 2-6 rolls back ... The operator ends up
\* where they started": a service with a database that was asked to run when the
\* restore began, one step of 2-6 refused and everything else working, is asked to
\* run as before.  Two replicas were there to be read; one is also what a service
\* that was down already is started with.
FailureLeavesServiceWanted ==
    [][ /\ report' \notin {None, "crashed", "restored"} /\ report = None
        /\ Cardinality(failed') = 1 /\ failed' \subseteq {"exists", "rename"} \cup Undoable
        /\ ~meddled' /\ ~expired' /\ connected'
        /\ origin' # None /\ want' > 1
        => replicas' = want' ]_vars
=============================================================================
