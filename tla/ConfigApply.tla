----------------------------- MODULE ConfigApply -----------------------------
(***************************************************************************)
(* Changing the homeserver: the config repository, the Helm release and    *)
(* the upgrade history, and the requests that move them.                   *)
(*                                                                         *)
(* "Übernehmen" (ApplyConfig), an upgrade, a commit without a deployment,  *)
(* a Helm rollback and the taking back of an apply (RevertApply) are jobs  *)
(* that run side by side; nothing but Helm's own pending status keeps them *)
(* apart.  Editing, discarding and going back to a commit are one step.    *)
(* The process may die at any step; the repository, the release and the    *)
(* rows of upgrade_history survive it, the jobs and their streams do not.  *)
(*                                                                         *)
(* A configuration is a number, 0 the one everything started with; Empty   *)
(* is what an upgrade hands to Helm when it cannot read any.               *)
(***************************************************************************)
EXTENDS Naturals, Sequences, FiniteSets

CONSTANTS Jobs,        \* requests that are made, in this order
          Kinds,       \* what they may ask for
          MaxEdits,    \* bound: edits of the files
          MaxTroubles, \* bound: discards, resets to a commit, deaths of the process,
                       \* statements the database did not take, and questions to git
                       \* or to the release that failed, together
          None

Requests == {"apply", "upgrade", "commit", "rollback", "revert"}

\* nonTerminalUpgradeStates
InFlight == {"pending", "running", "running-hooks"}
Terminal == {"success", "hooks-failed", "failed", "interrupted"}

ASSUME ApplyAssumption ==
    /\ Jobs \subseteq Nat
    /\ IsFiniteSet(Jobs)
    /\ Kinds \subseteq Requests
    /\ MaxEdits \in Nat
    /\ MaxTroubles \in Nat
    /\ None \notin Nat \cup Requests \cup InFlight \cup Terminal

Empty   == MaxEdits + 1
Configs == 0..Empty

VARIABLES
    up,        \* "up" while the process serves, else "down"
    crashes,   \* deaths so far
    edits,     \* edits so far, the newest configuration
    resets,    \* discards and resets so far
    trips,     \* failures so far of git, and of reading the release or the values
    lost,      \* jobs with a row the database did not write
    files,     \* configuration in the working tree
    index,     \* configuration staged for a commit
    commits,   \* every commit made: its tree and its parent
    head,      \* the commit the branch is at
    releases,  \* every revision of the release: its configuration and status
    cluster,   \* configuration last handed to the cluster
    kind,      \* job -> what it is
    pc,        \* job -> its step
    values,    \* job -> configuration it deploys
    sha,       \* job -> commit it started from or goes back to, or None
    rev,       \* job -> revision it started from or goes back to, or None
    mine,      \* job -> the commit the branch was at when its own was taken, the
               \* head a revert puts back, or None
    written,   \* job -> the revision it wrote, or None
    undoes,    \* revert -> the apply it takes back
    hooksRun,  \* job -> how the post-upgrade hooks went
    row,       \* job -> status in upgrade_history, None without a row
    over,      \* job -> its stream is finished
    foreign,   \* job -> somebody else was at work when it came, or moved repository
               \* or release since
    moved      \* apply -> the files changed between its measuring and its commit

repo    == <<files, moved, index, commits, head>>
release == <<releases, cluster>>
own     == <<kind, values, sha, rev, mine, written, undoes, hooksRun>>
record  == <<row, over, lost>>
budget  == <<crashes, edits, resets, trips>>
vars    == <<up, budget, repo, release, own, pc, record, foreign>>

Steps == {"unused", "admit", "register", "origin", "load", "add", "commit", "helm",
          "rolling", "hooks", "record", "finish", "failFinish", "failRecord",
          "check", "compare", "rollback", "rollingBack", "postHooks", "resolve",
          "hardReset", "softReset", "revertCommit", "restored", "ended", "dead"}

Ends == {"unused", "restored", "ended", "dead"}

TypeOK ==
    /\ up \in {"up", "down"}
    /\ crashes \in 0..MaxTroubles
    /\ edits \in 0..MaxEdits
    /\ resets \in 0..MaxTroubles
    /\ trips \in 0..MaxTroubles
    /\ lost \subseteq Jobs
    /\ files \in Configs
    /\ index \in Configs
    /\ commits \in Seq([tree : Configs, parent : Nat])
    /\ head \in 1..Len(commits)
    /\ releases \in Seq([config : Configs,
                         status : {"pending", "deployed", "failed"}])
    /\ cluster \in Configs
    /\ kind \in [Jobs -> Kinds \cup {None}]
    /\ pc \in [Jobs -> Steps]
    /\ values \in [Jobs -> Configs]
    /\ sha \in [Jobs -> 1..Len(commits) \cup {None}]
    /\ rev \in [Jobs -> 1..Len(releases) \cup {None}]
    /\ mine \in [Jobs -> 1..Len(commits) \cup {None}]
    /\ written \in [Jobs -> 1..Len(releases) \cup {None}]
    /\ undoes \in [Jobs -> Jobs \cup {None}]
    /\ hooksRun \in [Jobs -> {"none", "allRan", "oneFailed", "notListed"}]
    /\ row \in [Jobs -> InFlight \cup Terminal \cup {None}]
    /\ over \in [Jobs -> BOOLEAN]
    /\ foreign \in [Jobs -> BOOLEAN]
    /\ moved \in [Jobs -> BOOLEAN]

Init ==
    /\ up = "up"
    /\ crashes = 0 /\ edits = 0 /\ resets = 0 /\ trips = 0
    /\ lost = {}
    /\ files = 0 /\ index = 0
    /\ commits = <<[tree |-> 0, parent |-> 0]>>
    /\ head = 1
    /\ releases = <<[config |-> 0, status |-> "deployed"]>>
    /\ cluster = 0
    /\ kind = [j \in Jobs |-> None]
    /\ pc = [j \in Jobs |-> "unused"]
    /\ values = [j \in Jobs |-> 0]
    /\ sha = [j \in Jobs |-> None]
    /\ rev = [j \in Jobs |-> None]
    /\ mine = [j \in Jobs |-> None]
    /\ written = [j \in Jobs |-> None]
    /\ undoes = [j \in Jobs |-> None]
    /\ hooksRun = [j \in Jobs |-> "none"]
    /\ row = [j \in Jobs |-> None]
    /\ over = [j \in Jobs |-> FALSE]
    /\ foreign = [j \in Jobs |-> FALSE]
    /\ moved = [j \in Jobs |-> FALSE]

-----------------------------------------------------------------------------
(* What the jobs share.                                                    *)

Tree(c)  == commits[c].tree
Latest   == Len(releases)
At(j, step)  == up = "up" /\ pc[j] = step
Go(j, step)  == pc' = [pc EXCEPT ![j] = step]
Set(f, j, v) == [f EXCEPT ![j] = v]

\* Whoever moves the repository or the release disturbs every other job made
\* so far, except that a revert does not disturb the apply it takes back.
Allies(j) == {j, undoes[j]}
Disturbs(j) == foreign' = [k \in Jobs |->
                    foreign[k] \/ (pc[k] # "unused" /\ k \notin Allies(j))]
OperatorDisturbs == foreign' = [k \in Jobs |-> foreign[k] \/ pc[k] # "unused"]
Quietly == UNCHANGED foreign

\* Whoever writes the files, or the index without committing, may do it under an
\* apply that has measured them and not committed yet.
Measured(j) == kind[j] = "apply" /\ pc[j] \in {"register", "origin", "add", "commit"}
FilesMove   == moved' = [j \in Jobs |->
                    moved[j] \/ (Measured(j) /\ <<files, index>>' # <<files, index>>)]

\* The database is not there at a start only after a death, so that one is not counted.
Trouble == crashes + resets + trips + Cardinality(lost) < MaxTroubles

Trips    == Trouble /\ trips' = trips + 1
Succeeds == UNCHANGED trips

\* An UPDATE of the job's row; its error is ignored.
Write(j, status) ==
    \/ /\ row' = IF row[j] = None THEN row ELSE Set(row, j, status)
       /\ UNCHANGED lost
    \/ /\ Trouble
       /\ lost' = lost \cup {j}
       /\ UNCHANGED row

\* wt.Commit: what is staged, on top of the branch; nothing when it is the same.
CommitIndex(j) ==
    /\ Succeeds
    /\ IF index = Tree(head)
       THEN UNCHANGED <<commits, head>>
       ELSE /\ commits' = Append(commits, [tree |-> index, parent |-> head])
            /\ head' = Len(commits) + 1
    /\ mine' = Set(mine, j, head')

\* Git does not take the commit; what was staged stays staged.
CommitFails == Trips /\ UNCHANGED <<commits, head, mine>>

-----------------------------------------------------------------------------
(* Requests.                                                               *)

\* The lowest job not made yet, so that jobs are numbered as they come.
NextJob == {j \in Jobs : pc[j] = "unused" /\ \A k \in Jobs : k < j => pc[k] # "unused"}

FirstStep(k) == CASE k = "apply"    -> "admit"
                  [] k = "upgrade"  -> "register"
                  [] k = "commit"   -> "add"
                  [] k = "rollback" -> "rollback"
                  [] k = "revert"   -> "check"

Request(j, k) ==
    /\ up = "up"
    /\ j \in NextJob
    /\ kind' = Set(kind, j, k)
    /\ Go(j, FirstStep(k))
    /\ \/ /\ k = "revert"
          /\ \E a \in Jobs : /\ kind[a] \in {"apply", "upgrade"}
                             /\ undoes' = Set(undoes, j, a)
          /\ UNCHANGED rev
       \/ /\ k = "rollback"
          /\ \E r \in 1..Latest : rev' = Set(rev, j, r)
          /\ UNCHANGED undoes
       \/ /\ k \notin {"revert", "rollback"}
          /\ UNCHANGED <<rev, undoes>>
    /\ foreign' = Set(foreign, j, \E o \in Jobs \ {undoes'[j]} : pc[o] \notin Ends)
    /\ UNCHANGED <<up, budget, repo, release, values, sha, mine, written, hooksRun,
                   record>>

\* ApplyConfig reads the pending values and measures them; a blocking verdict
\* refuses the request before anything was saved.
Admit(j) ==
    /\ At(j, "admit")
    /\ values' = Set(values, j, files)
    /\ Go(j, "register") \/ Go(j, "ended")
    /\ Quietly
    /\ UNCHANGED <<up, budget, repo, release, kind, sha, rev, mine, written, undoes,
                   hooksRun, record>>

\* The revision before, none when the release cannot be read a second time; the
\* stream, the row.
Register(j) ==
    /\ At(j, "register")
    /\ \/ /\ kind[j] = "apply"
          /\ \/ Succeeds /\ rev' = Set(rev, j, Latest)
             \/ Trips /\ UNCHANGED rev
          /\ Go(j, "origin")
       \/ /\ kind[j] = "upgrade"
          /\ Succeeds /\ UNCHANGED rev
          /\ Go(j, "load")
    /\ \/ row' = Set(row, j, "pending") /\ UNCHANGED lost
       \/ /\ Trouble
          /\ lost' = lost \cup {j}
          /\ UNCHANGED row
    /\ Quietly
    /\ UNCHANGED <<up, crashes, edits, resets, repo, release, kind, values, sha, mine, written,
                   undoes, hooksRun, over>>

\* The commit before, none when HeadSHA fails.
Origin(j) ==
    /\ At(j, "origin")
    /\ \/ Succeeds /\ sha' = Set(sha, j, head)
       \/ Trips /\ UNCHANGED sha
    /\ Go(j, "add")
    /\ Quietly
    /\ UNCHANGED <<up, crashes, edits, resets, repo, release, kind, values, rev, mine,
                   written, undoes, hooksRun, record>>

\* Fault: what was edited is committed without being staged.
AddNothing(j) ==
    /\ At(j, "add")
    /\ Go(j, "commit")
    /\ Disturbs(j)
    /\ UNCHANGED <<up, budget, repo, release, own, record>>

\* What follows the commit whether or not git took it: an apply goes on to deploy
\* and its row says "running"; committing alone is over.
Deploys(j) ==
    \/ kind[j] = "apply" /\ Go(j, "helm") /\ Write(j, "running")
    \/ kind[j] = "commit" /\ Go(j, "ended") /\ UNCHANGED <<row, lost>>

\* CommitAll, first half: every change in the working tree is staged, or nothing is
\* and there is no second half.
Add(j) ==
    /\ At(j, "add")
    /\ \/ Succeeds /\ index' = files /\ Go(j, "commit") /\ UNCHANGED <<row, lost>>
       \/ Trips /\ UNCHANGED index /\ Deploys(j)
    /\ Disturbs(j)
    /\ UNCHANGED <<up, crashes, edits, resets, files, moved, commits, head, release, own, over>>

\* CommitAll, second half.
Commit(j) ==
    /\ At(j, "commit")
    /\ CommitIndex(j) \/ CommitFails
    /\ Deploys(j)
    /\ Disturbs(j)
    /\ UNCHANGED <<up, crashes, edits, resets, files, moved, index, release, kind,
                   values, sha, rev, written, undoes, hooksRun, over>>

\* An upgrade reads its values once it runs, and runs without when it cannot.
Load(j) ==
    /\ At(j, "load")
    /\ \/ Succeeds /\ values' = Set(values, j, files)
       \/ Trips /\ values' = Set(values, j, Empty)
    /\ Write(j, "running")
    /\ Go(j, "helm")
    /\ Quietly
    /\ UNCHANGED <<up, crashes, edits, resets, repo, release, kind, sha, rev, mine,
                   written, undoes, hooksRun, over>>

-----------------------------------------------------------------------------
(* Helm.                                                                   *)

Pending == releases[Latest].status = "pending"

Starts(j, config) ==
    /\ releases' = Append(releases, [config |-> config, status |-> "pending"])
    /\ cluster' = config
    /\ written' = Set(written, j, Latest + 1)

Ended(j, result) == releases' = [releases EXCEPT ![written[j]].status = result]

\* The chart cannot be pulled, the dry run fails, or another operation is
\* pending: nothing was changed.
HelmRefuses(j) ==
    /\ At(j, "helm")
    /\ Go(j, "failFinish")
    /\ Quietly
    /\ UNCHANGED <<up, budget, repo, release, own, record>>

HelmStarts(j) ==
    /\ At(j, "helm")
    /\ ~Pending
    /\ Starts(j, values[j])
    /\ Go(j, "rolling")
    /\ Disturbs(j)
    /\ UNCHANGED <<up, budget, repo, kind, values, sha, rev, mine, undoes, hooksRun,
                   record>>

\* Fault: the error of helm.Upgrade is reported and not returned from.
HelmReturnsRegardless(j) ==
    /\ At(j, "rolling")
    /\ Ended(j, "deployed") \/ Ended(j, "failed")
    /\ Go(j, "hooks")
    /\ Write(j, "running-hooks")
    /\ Disturbs(j)
    /\ UNCHANGED <<up, budget, repo, cluster, own, over>>

\* The rollout is complete, or Helm gives up on it.
HelmReturns(j) ==
    /\ At(j, "rolling")
    /\ \/ /\ Ended(j, "deployed")
          /\ Go(j, "hooks")
          /\ Write(j, "running-hooks")
       \/ /\ Ended(j, "failed")
          /\ Go(j, "failFinish")
          /\ UNCHANGED <<row, lost>>
    /\ Disturbs(j)
    /\ UNCHANGED <<up, budget, repo, cluster, own, over>>

\* RunTrigger fails when the hooks cannot be listed; a hook that fails is logged.
HooksRan(j) == \E result \in {"allRan", "oneFailed", "notListed"} :
                    hooksRun' = Set(hooksRun, j, result)

RunHooks(j) ==
    /\ At(j, "hooks")
    /\ HooksRan(j)
    /\ Go(j, "record")
    /\ Quietly
    /\ UNCHANGED <<up, budget, repo, release, kind, values, sha, rev, mine, written,
                   undoes, record>>

\* Fault: the word Helm uses for a good end.
FinalStatusOfHelm(j) == IF hooksRun[j] = "notListed" THEN "hooks-failed" ELSE "deployed"

FinalStatus(j) == IF hooksRun[j] = "notListed" THEN "hooks-failed" ELSE "success"

Record(j) ==
    /\ At(j, "record")
    /\ Write(j, FinalStatus(j))
    /\ Go(j, "finish")
    /\ Quietly
    /\ UNCHANGED <<up, budget, repo, release, own, over>>

Finish(j) ==
    /\ At(j, "finish")
    /\ over' = Set(over, j, TRUE)
    /\ Go(j, "ended")
    /\ Quietly
    /\ UNCHANGED <<up, budget, repo, release, own, row, lost>>

\* Fault: the failure path returns with the stream and leaves the row.
FailFinishReturns(j) ==
    /\ At(j, "failFinish")
    /\ over' = Set(over, j, TRUE)
    /\ Go(j, "ended")
    /\ Quietly
    /\ UNCHANGED <<up, budget, repo, release, own, row, lost>>

\* A failure ends the stream first and the row after it.
FailFinish(j) ==
    /\ At(j, "failFinish")
    /\ over' = Set(over, j, TRUE)
    /\ Go(j, "failRecord")
    /\ Quietly
    /\ UNCHANGED <<up, budget, repo, release, own, row, lost>>

FailRecord(j) ==
    /\ At(j, "failRecord")
    /\ Write(j, "failed")
    /\ Go(j, "ended")
    /\ Quietly
    /\ UNCHANGED <<up, budget, repo, release, own, over>>

-----------------------------------------------------------------------------
(* Going back: the Helm rollback, and RevertApply around it.               *)

\* An operation that noted neither a revision nor a commit was no apply.
HasOrigin(a) == rev[a] # None \/ sha[a] # None

\* Fault: an apply that still runs is taken back.
CheckNothing(j) ==
    /\ At(j, "check")
    /\ \/ /\ HasOrigin(undoes[j])
          /\ rev' = Set(rev, j, rev[undoes[j]])
          /\ sha' = Set(sha, j, sha[undoes[j]])
          /\ Go(j, "compare")
       \/ /\ ~HasOrigin(undoes[j])
          /\ Go(j, "ended")
          /\ UNCHANGED <<rev, sha>>
    /\ Quietly
    /\ UNCHANGED <<up, budget, repo, release, kind, values, mine, written, undoes,
                   hooksRun, record>>

\* The stream is known and done, and the operation had an origin.
Check(j) ==
    /\ At(j, "check")
    /\ \/ /\ over[undoes[j]]
          /\ HasOrigin(undoes[j])
          /\ rev' = Set(rev, j, rev[undoes[j]])
          /\ sha' = Set(sha, j, sha[undoes[j]])
          /\ Go(j, "compare")
       \/ /\ ~over[undoes[j]] \/ ~HasOrigin(undoes[j])
          /\ Go(j, "ended")
          /\ UNCHANGED <<rev, sha>>
    /\ Quietly
    /\ UNCHANGED <<up, budget, repo, release, kind, values, mine, written, undoes,
                   hooksRun, record>>

\* An upgrade that failed before Helm wrote a revision left the cluster alone, and
\* where no revision was noted there is none to roll back to; a release that cannot
\* be read ends it.
Compare(j) ==
    /\ At(j, "compare")
    /\ \/ Succeeds /\ Go(j, IF rev[j] \in {None, Latest} THEN "resolve" ELSE "rollback")
       \/ Trips /\ Go(j, "ended")
    /\ Quietly
    /\ UNCHANGED <<up, crashes, edits, resets, repo, release, own, record>>

\* Fault: the error of the rollback is noted and the repository goes back.
RollbackReturnsRegardless(j) ==
    /\ At(j, "rollingBack")
    /\ Ended(j, "deployed") \/ Ended(j, "failed")
    /\ Go(j, "postHooks")
    /\ Disturbs(j)
    /\ UNCHANGED <<up, budget, repo, cluster, own, record>>

\* Helm rolls back whether or not something is pending, or refuses at once.
Rollback(j) ==
    /\ At(j, "rollback")
    /\ \/ /\ Starts(j, releases[rev[j]].config)
          /\ Go(j, "rollingBack")
          /\ Disturbs(j)
       \/ /\ Go(j, "ended")
          /\ Quietly
          /\ UNCHANGED <<releases, cluster, written>>
    /\ UNCHANGED <<up, budget, repo, kind, values, sha, rev, mine, undoes, hooksRun,
                   record>>

RollbackReturns(j) ==
    /\ At(j, "rollingBack")
    /\ \/ Ended(j, "deployed") /\ Go(j, "postHooks")
       \/ Ended(j, "failed") /\ Go(j, "ended")
    /\ Disturbs(j)
    /\ UNCHANGED <<up, budget, repo, cluster, own, record>>

\* What becomes of the post-rollback hooks is logged.
PostHooks(j) ==
    /\ At(j, "postHooks")
    /\ Go(j, IF kind[j] = "revert" THEN "resolve" ELSE "ended")
    /\ Quietly
    /\ UNCHANGED <<up, budget, repo, release, own, record>>

\* RestoreCommit, where a commit was noted: where the branch is now is where it will
\* be put back, unless neither can be found.
Resolve(j) ==
    /\ At(j, "resolve")
    /\ \/ /\ sha[j] \in {None, head}
          /\ Go(j, "restored")
          /\ Succeeds /\ UNCHANGED mine
       \/ /\ sha[j] \notin {None, head}
          /\ mine' = Set(mine, j, head)
          /\ Go(j, "hardReset")
          /\ Succeeds
       \/ /\ sha[j] # None
          /\ Go(j, "ended")
          /\ Trips /\ UNCHANGED mine
    /\ Quietly
    /\ UNCHANGED <<up, crashes, edits, resets, repo, release, kind, values, sha, rev, written, undoes,
                   hooksRun, record>>

HardResetTo(c) == /\ head' = c
                  /\ files' = Tree(c)
                  /\ index' = Tree(c)
                  /\ FilesMove
                  /\ UNCHANGED commits

HardReset(j) ==
    /\ At(j, "hardReset")
    /\ HardResetTo(sha[j])
    /\ Go(j, "softReset")
    /\ Disturbs(j)
    /\ UNCHANGED <<up, budget, release, own, record>>

\* Fault: the branch is not put back before the commit.
SoftResetSkipped(j) ==
    /\ At(j, "softReset")
    /\ Go(j, "revertCommit")
    /\ Disturbs(j)
    /\ UNCHANGED <<up, budget, repo, release, own, record>>

SoftReset(j) ==
    /\ At(j, "softReset")
    /\ head' = mine[j]
    /\ Go(j, "revertCommit")
    /\ Disturbs(j)
    /\ UNCHANGED <<up, budget, files, moved, index, commits, release, own, record>>

RevertCommit(j) ==
    /\ At(j, "revertCommit")
    /\ \/ CommitIndex(j) /\ Go(j, "restored")
       \/ CommitFails /\ Go(j, "ended")
    /\ Disturbs(j)
    /\ UNCHANGED <<up, crashes, edits, resets, files, moved, index, release, kind,
                   values, sha, rev, written, undoes, hooksRun, record>>

\* A reset that fails leaves the branch moved or not, and then the index, and then
\* the files; whatever comes after starts from there.
ResetFails(j) ==
    /\ up = "up"
    /\ \/ /\ pc[j] = "hardReset"
          /\ head' \in {head, sha[j]}
          /\ index' \in {index, IF head' = sha[j] THEN Tree(sha[j]) ELSE index}
          /\ files' \in {files, index'}
       \/ /\ pc[j] = "softReset"
          /\ UNCHANGED <<head, index, files>>
    /\ FilesMove
    /\ Trips
    /\ Go(j, "ended")
    /\ OperatorDisturbs
    /\ UNCHANGED <<up, crashes, edits, resets, commits, release, own, record>>

-----------------------------------------------------------------------------
(* The operator's single steps, and the process.                           *)

Edit ==
    /\ up = "up"
    /\ edits < MaxEdits
    /\ edits' = edits + 1
    /\ files' = edits + 1
    /\ UNCHANGED <<up, crashes, resets, trips, index, commits, head, release, own, pc,
                   record>>
    /\ FilesMove
    /\ OperatorDisturbs

\* Discard goes to the branch, RollbackToCommit to any commit there is.
Reset(c) ==
    /\ up = "up"
    /\ Trouble
    /\ resets' = resets + 1
    /\ HardResetTo(c)
    /\ OperatorDisturbs
    /\ UNCHANGED <<up, crashes, edits, trips, release, own, pc, record>>

Crash ==
    /\ up = "up"
    /\ Trouble
    /\ crashes' = crashes + 1
    /\ up' = "down"
    /\ pc' = [j \in Jobs |-> IF pc[j] \in Ends THEN pc[j] ELSE "dead"]
    /\ over' = [j \in Jobs |-> FALSE]
    /\ UNCHANGED <<edits, resets, trips, repo, release, own, row, lost, foreign>>

\* Fault: the status that was added last is not one of those to close.
ReconcileOldStates ==
    /\ up = "down"
    /\ up' = "up"
    /\ row' = [j \in Jobs |->
                 IF row[j] \in InFlight \ {"running-hooks"} THEN "interrupted" ELSE row[j]]
    /\ UNCHANGED <<lost, budget, repo, release, own, pc, over, foreign>>

\* A restart closes the rows no process is working on; when the database does
\* not take the statement the process starts all the same.
Reconcile ==
    /\ up = "down"
    /\ up' = "up"
    /\ \/ /\ row' = [j \in Jobs |-> IF row[j] \in InFlight THEN "interrupted" ELSE row[j]]
          /\ UNCHANGED lost
       \/ /\ lost' = lost \cup {j \in Jobs : row[j] \in InFlight}
          /\ UNCHANGED row
    /\ UNCHANGED <<budget, repo, release, own, pc, over, foreign>>

Work(j) == \/ Admit(j) \/ Register(j) \/ Origin(j) \/ Add(j) \/ Commit(j) \/ Load(j)
           \/ HelmRefuses(j) \/ HelmStarts(j) \/ HelmReturns(j)
           \/ RunHooks(j) \/ Record(j) \/ Finish(j)
           \/ FailFinish(j) \/ FailRecord(j)
           \/ Check(j) \/ Compare(j)
           \/ Rollback(j) \/ RollbackReturns(j) \/ PostHooks(j)
           \/ Resolve(j) \/ HardReset(j) \/ SoftReset(j) \/ RevertCommit(j)

Next == \/ \E j \in Jobs, k \in Kinds : Request(j, k)
        \/ \E j \in Jobs : Work(j) \/ ResetFails(j)
        \/ Edit
        \/ \E c \in 1..Len(commits) : Reset(c)
        \/ Crash
        \/ Reconcile

Spec == Init /\ [][Next]_vars

\* Helm's timeouts end its calls, the other steps are the goroutine's own, and
\* the cluster restarts the process.
FairSpec == Spec /\ WF_vars(Reconcile \/ \E j \in Jobs : Work(j))

-----------------------------------------------------------------------------
(* Properties.                                                             *)

\* A commit and those it was built on: what every set of commits holds that has
\* the commit and the parents of its members.
Line(c) ==
    {x \in 1..Len(commits) :
        \A S \in SUBSET (1..Len(commits)) :
            c \in S /\ (\A s \in S : commits[s].parent \in S \cup {0}) => x \in S}

Ancestry == Line(head)

\* While the process serves, a row that says an upgrade is under way has a
\* goroutine working on it, unless the database did not take its last status:
\* the reconciliation at startup knows every status an upgrade passes through.
InFlightIsOwned ==
    up = "up" => \A j \in Jobs : row[j] \in InFlight => pc[j] \notin Ends \/ j \in lost

\* A row says "success" or "hooks-failed" of a revision that was deployed with
\* the job's values, and "failed" of one that was not, over failures, crashes
\* and lost statements.
RowIsTrue ==
    \A j \in Jobs :
        /\ row[j] \in {"success", "hooks-failed"} =>
               written[j] # None /\ releases[written[j]] = [config |-> values[j], status |-> "deployed"]
        /\ row[j] = "failed" =>
               written[j] = None \/ releases[written[j]].status = "failed"

\* What an apply that succeeded deployed is what it left in git, whoever else
\* stages, commits, resets or deploys beside it: the commit the branch was at when
\* its own was taken holds the configuration that was measured and that its
\* revision runs.  Two cases are taken out, and are so in the code: somebody wrote
\* the files after they were measured, and git did not take the commit.
AppliedWhole ==
    \A j \in Jobs :
        kind[j] = "apply" /\ row[j] \in {"success", "hooks-failed"}
          /\ mine[j] # None /\ ~moved[j]
        => /\ Tree(mine[j]) = values[j]
           /\ releases[written[j]].config = Tree(mine[j])

\* RevertApply starts once the operation it takes back is over.
RevertWaits ==
    \A r \in Jobs :
        pc[r] \in {"compare", "rollback", "rollingBack", "postHooks", "resolve",
                   "hardReset", "softReset", "revertCommit"} /\ kind[r] = "revert"
        => pc[undoes[r]] \in {"failRecord", "ended"}

\* Taking back an apply nobody interfered with ends where the apply began.  Where
\* the revision it replaced was noted, the cluster is on that configuration, even
\* when the apply failed before Helm wrote one; where the commit it was built on was
\* noted and its own was taken, the files are on that commit and what it committed
\* is still in the history.
RevertGoesBackWhole ==
    \A r \in Jobs :
        pc[r] = "restored" /\ ~foreign[r] /\ ~foreign[undoes[r]]
        => LET a == undoes[r] IN
           /\ rev[a] # None => cluster = releases[rev[a]].config
           /\ sha[a] # None /\ mine[a] # None =>
                 /\ Tree(head) = Tree(sha[a]) /\ files = Tree(head) /\ index = Tree(head)
                 /\ mine[a] \in Ancestry

\* "Cluster first. If Helm cannot go back, the configuration is left alone": a
\* revert nobody interferes with moves the repository only when the cluster is
\* on the old configuration and Helm's last word on it was good.  An apply that
\* noted no revision is taken out: there the code moves the repository alone.
ClusterFirst ==
    \A r \in Jobs :
        kind[r] = "revert" /\ ~foreign[r] /\ ~foreign[undoes[r]] /\ rev[r] # None
          /\ pc[r] \in {"hardReset", "softReset", "revertCommit", "restored"}
        => /\ cluster = releases[rev[r]].config
           /\ Latest = rev[r] \/ releases[Latest].status = "deployed"

\* A row comes to its end, after a restart too, unless a statement was lost.
RowsSettle == <>[](\A j \in Jobs : row[j] \in InFlight => j \in lost)

\* docs/GUIDE.md: "hooks-failed ... Helm succeeded; a post-upgrade hook did
\* not."  An upgrade whose hook failed is recorded as one.
HookFailureIsReported ==
    \A j \in Jobs : hooksRun[j] = "oneFailed" => row[j] # "success"

\* repo.go, RestoreCommit: "a revert of everything since, not a rewrite of
\* history": with no reset by the operator and no job at work, what was
\* committed is in the history.
RevertIsNotARewrite ==
    resets = 0 /\ (\A j \in Jobs : pc[j] \in Ends) => Ancestry = 1..Len(commits)

=============================================================================
