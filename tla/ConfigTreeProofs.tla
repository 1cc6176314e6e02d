--------------------------- MODULE ConfigTreeProofs ---------------------------
(* An apply commits and deploys one configuration whoever works beside it;  *)
(* a revert nobody disturbs moves the repository only after the cluster,    *)
(* and takes both back to where they were without losing a commit: for any  *)
(* number of jobs, and as far as the apply noted where it began.            *)
EXTENDS ConfigApplyProofs

(* An apply before git has taken its commit.                                *)
Early == {"unused", "admit", "register", "origin", "add", "commit"}

(* Who has not committed has no commit.                                     *)
Uncommitted == \A j \in Jobs : pc[j] \in Early => mine[j] = None

(* How far an apply has come, and what agrees with its values by then,      *)
(* unless the files were written under it.                                  *)
Kept(j) ==
    ~moved[j] =>
        /\ pc[j] \in {"register", "origin", "add", "commit"} => files = values[j]
        /\ pc[j] = "commit" => index = values[j]
        /\ mine[j] # None => Tree(mine[j]) = values[j]

KeptSoFar == \A j \in Jobs : kind[j] = "apply" => Kept(j)

(* How far a revert has come, and where the cluster is by then, when there  *)
(* is a revision to go back to.                                             *)
Back(r) ==
    rev[r] # None =>
    /\ pc[r] = "rollingBack" => written[r] = Latest /\ cluster = releases[rev[r]].config
    /\ pc[r] \in {"postHooks", "resolve", "hardReset", "softReset", "revertCommit", "restored"} =>
          /\ cluster = releases[rev[r]].config
          /\ Latest = rev[r] \/ releases[Latest].status = "deployed"

ClusterIsLatest == cluster = releases[Latest].config
BackSoFar       == \A r \in Jobs : kind[r] = "revert" /\ ~foreign[r] => Back(r)

-----------------------------------------------------------------------------
(* Who moves the repository or the release says so to the others.           *)
LEMMA MovesDisturb ==
  ASSUME NEW j \in Jobs, Work(j)
  PROVE  Disturbs(j) \/ (Quietly /\ UNCHANGED <<files, index, commits, head, releases, cluster>>)
BY DEF Work, Admit, Register, Origin, Add, Commit, Load, HelmRefuses, HelmStarts,
       HelmReturns, RunHooks, Record, Finish, FailFinish, FailRecord, Check, Compare,
       Rollback, RollbackReturns, PostHooks, Resolve, HardReset, SoftReset, RevertCommit,
       repo, release

(* Whoever is undisturbed after another job's step found everything alone,  *)
(* unless it is an apply that is being taken back.                          *)
LEMMA OthersLeaveAlone ==
  ASSUME TypeOK, NEW j \in Jobs, Work(j), NEW k \in Jobs \ {j}, undoes[j] # k,
         pc[k] # "unused", ~foreign'[k]
  PROVE  ~foreign[k] /\ UNCHANGED <<files, index, commits, head, releases, cluster>>
<1>1. CASE Disturbs(j)
  BY <1>1 DEF Disturbs, Allies
<1>2. CASE Quietly /\ UNCHANGED <<files, index, commits, head, releases, cluster>>
  BY <1>2 DEF Quietly
<1> QED
  BY <1>1, <1>2, MovesDisturb

(* A job is no stranger to itself.                                          *)
LEMMA OwnStepsAreNotForeign ==
  ASSUME TypeOK, NEW j \in Jobs, Work(j)
  PROVE  foreign'[j] = foreign[j]
BY MovesDisturb DEF Disturbs, Allies, Quietly, TypeOK

-----------------------------------------------------------------------------
(* The cluster has what the latest revision says.                           *)
LEMMA LatestStep ==
  ASSUME TypeOK, Shape, ClusterIsLatest, NEW j \in Jobs, Work(j)
  PROVE  ClusterIsLatest'
<1>0. Len(releases) \in Nat /\ Latest \in 1..Len(releases)
  BY Elements
<1>1. CASE \E config \in Configs : Starts(j, config)
  <2>1. PICK config \in Configs : Starts(j, config)
    BY <1>1
  <2>2. /\ Len(releases') = Len(releases) + 1 /\ cluster' = config
        /\ releases'[Len(releases) + 1] = [config |-> config, status |-> "pending"]
    BY <2>1, StartsGrows
  <2> QED
    BY <2>2 DEF ClusterIsLatest, Latest
<1>2. CASE HelmReturns(j) \/ RollbackReturns(j)
  <2>1. written[j] # None
    BY <1>2 DEF HelmReturns, RollbackReturns, At, Shape, Known, Written
  <2>2. (Ended(j, "deployed") \/ Ended(j, "failed")) /\ UNCHANGED cluster
    BY <1>2 DEF HelmReturns, RollbackReturns
  <2>3. /\ Len(releases') = Len(releases)
        /\ \A i \in 1..Len(releases) : releases'[i].config = releases[i].config
    BY <2>1, <2>2, EndedKeeps
  <2> QED
    BY <1>0, <2>2, <2>3 DEF ClusterIsLatest, Latest
<1>3. CASE UNCHANGED <<releases, cluster>>
  BY <1>3 DEF ClusterIsLatest, Latest
<1>4. CASE HelmStarts(j)
  <2>1. values[j] \in Configs /\ Starts(j, values[j])
    BY <1>4 DEF HelmStarts, TypeOK
  <2> QED
    BY <1>1, <2>1
<1>5. CASE Rollback(j)
  <2>1. rev[j] \in 1..Len(releases)
    BY <1>5 DEF Rollback, At, Shape, Known, TypeOK
  <2>2. releases[rev[j]].config \in Configs
    BY <2>1, Elements
  <2> QED
    BY <1>1, <1>3, <1>5, <2>2 DEF Rollback
<1> QED
  BY <1>2, <1>3, <1>4, <1>5
  DEF Work, Admit, Register, Origin, Add, Commit, Load, HelmRefuses, RunHooks, Record,
      Finish, FailFinish, FailRecord, Check, Compare, PostHooks, Resolve, HardReset,
      SoftReset, RevertCommit, release

(* A revert's own step: the rollback first, the repository after it.        *)
LEMMA BackStep ==
  ASSUME TypeOK, Shape, ClusterIsLatest, NEW r \in Jobs, Work(r), kind[r] = "revert", Back(r)
  PROVE  Back(r)'
<1>0. /\ Len(releases) \in Nat /\ Latest \in 1..Len(releases) /\ Latest = Len(releases)
      /\ pc[r] \in RevertSteps
      /\ pc[r] \in Reverting /\ rev[r] # None => rev[r] \in 1..Len(releases)
  <2>1. Len(releases) \in Nat /\ Latest \in 1..Len(releases) /\ Latest = Len(releases)
    BY Elements DEF Latest
  <2>2. pc[r] \in RevertSteps
    BY DEF Shape, KindFits, TypeOK
  <2>3. pc[r] \in Reverting /\ rev[r] # None => rev[r] \in 1..Len(releases)
    BY DEF TypeOK
  <2> QED
    BY <2>1, <2>2, <2>3
<1>1. CASE Check(r)
  BY <1>1 DEF Check, Go, Back, TypeOK
<1>2. CASE Compare(r)
  <2>1. /\ UNCHANGED <<releases, cluster, rev>>
        /\ pc'[r] \in {"rollback", "resolve", "ended"}
        /\ pc'[r] = "resolve" /\ rev[r] # None => Latest = rev[r]
    BY <1>2 DEF Compare, Go, release, own, TypeOK
  <2> QED
    BY <2>1 DEF ClusterIsLatest, Back, Latest
<1>3. CASE Rollback(r)
  <2>1. pc[r] \in Reverting /\ rev[r] \in 1..Len(releases)
    BY <1>0, <1>3 DEF Rollback, At, Reverting, RevertSteps, RollbackSteps, Shape, Known
  <2>2. releases[rev[r]].config \in Configs
    BY <2>1, Elements
  <2>3. CASE Starts(r, releases[rev[r]].config) /\ Go(r, "rollingBack")
    <3>1. /\ Len(releases') = Len(releases) + 1 /\ written'[r] = Len(releases) + 1
          /\ \A i \in 1..Len(releases) : releases'[i] = releases[i]
          /\ cluster' = releases[rev[r]].config
      BY <2>2, <2>3, StartsGrows
    <3>2. pc'[r] = "rollingBack" /\ UNCHANGED rev
      BY <1>3, <2>3 DEF Rollback, Go, TypeOK
    <3> QED
      BY <2>1, <3>1, <3>2 DEF Back, Latest
  <2>4. CASE Go(r, "ended")
    BY <2>4 DEF Go, Back, TypeOK
  <2> QED
    BY <1>3, <2>3, <2>4 DEF Rollback
<1>4. CASE RollbackReturns(r)
  <2>1. /\ pc[r] \in Reverting /\ rev[r] \in 1..Len(releases) /\ written[r] # None
        /\ UNCHANGED <<rev, cluster>> /\ rev[r] # None
    BY <1>0, <1>4
    DEF RollbackReturns, At, Reverting, RevertSteps, RollbackSteps, Shape, Known, Written, own
  <2>2. written[r] = Latest /\ cluster = releases[rev[r]].config
    BY <1>4, <2>1 DEF RollbackReturns, At, Back
  <2>3. CASE Ended(r, "deployed") /\ Go(r, "postHooks")
    <3>1. /\ Len(releases') = Len(releases)
          /\ \A i \in 1..Len(releases) : releases'[i].config = releases[i].config
          /\ releases'[written[r]] = [config |-> releases[written[r]].config,
                                      status |-> "deployed"]
      BY <2>1, <2>3, EndedKeeps
    <3>2. pc'[r] = "postHooks"
      BY <2>3 DEF Go, TypeOK
    <3> QED
      BY <1>0, <2>1, <2>2, <3>1, <3>2 DEF Back, Latest
  <2>4. CASE Go(r, "ended")
    BY <2>4 DEF Go, Back, TypeOK
  <2> QED
    BY <1>4, <2>3, <2>4 DEF RollbackReturns
<1>5. CASE PostHooks(r) \/ Resolve(r) \/ HardReset(r) \/ SoftReset(r) \/ RevertCommit(r)
  <2>1. /\ UNCHANGED <<releases, cluster, rev>> /\ pc'[r] # "rollingBack"
        /\ pc[r] \in {"postHooks", "resolve", "hardReset", "softReset", "revertCommit"}
    BY <1>5
    DEF PostHooks, Resolve, HardReset, SoftReset, RevertCommit, At, Go,
        release, own, TypeOK
  <2> QED
    BY <2>1 DEF Back, Latest
<1> QED
  BY <1>0, <1>1, <1>2, <1>3, <1>4, <1>5
  DEF Work, Admit, Register, Origin, Add, Commit, Load, HelmRefuses, HelmStarts,
      HelmReturns, RunHooks, Record, Finish, FailFinish, FailRecord, At, RevertSteps,
      RollbackSteps

(* Nobody else moves the cluster of a revert that is undisturbed.           *)
LEMMA BackSoFarStep ==
  ASSUME TypeOK, Shape, ClusterIsLatest, BackSoFar, [Next]_vars
  PROVE  ClusterIsLatest' /\ BackSoFar'
<1>1. ASSUME NEW j \in Jobs, Work(j) PROVE ClusterIsLatest' /\ BackSoFar'
  <2>1. ClusterIsLatest'
    BY <1>1, LatestStep
  <2>2. ASSUME NEW r \in Jobs, kind'[r] = "revert", ~foreign'[r] PROVE Back(r)'
    <3>1. kind[r] = "revert"
      BY <1>1, <2>2, WorkIsOwn
    <3>2. CASE r = j
      BY <1>1, <2>2, <3>1, <3>2, BackStep, OwnStepsAreNotForeign DEF BackSoFar
    <3>3. CASE r # j
      <4>1. undoes[j] # r
        BY <3>1, ApplyAssumption DEF Shape, Undoing
      <4>2. pc[r] # "unused"
        BY <3>1 DEF Shape, KindFits, RevertSteps, RollbackSteps
      <4>3. ~foreign[r] /\ UNCHANGED <<releases, cluster>>
        BY <1>1, <2>2, <3>3, <4>1, <4>2, OthersLeaveAlone
      <4>4. UNCHANGED <<pc[r], written[r], rev[r]>>
        BY <1>1, <3>3, WorkIsOwn
      <4> QED
        BY <3>1, <4>3, <4>4 DEF BackSoFar, Back, Latest
    <3> QED
      BY <3>2, <3>3
  <2> QED
    BY <2>1, <2>2 DEF BackSoFar
<1>2. ASSUME NEW j \in Jobs, NEW k \in Kinds, Request(j, k)
      PROVE  ClusterIsLatest' /\ BackSoFar'
  <2>1. /\ k \in Requests /\ UNCHANGED <<releases, cluster, written>>
        /\ kind' = [kind EXCEPT ![j] = k] /\ pc' = [pc EXCEPT ![j] = FirstStep(k)]
        /\ \A r \in Jobs \ {j} : foreign'[r] = foreign[r] /\ rev'[r] = rev[r]
    BY <1>2, ApplyAssumption DEF Request, ApplyAssumption, release, Set, Go, TypeOK
  <2>2. pc'[j] \in {"admit", "register", "add", "rollback", "check"}
    BY <2>1 DEF FirstStep, Requests, TypeOK
  <2>3. Back(j)'
    BY <2>2 DEF Back
  <2>4. ASSUME NEW r \in Jobs \ {j}, kind'[r] = "revert", ~foreign'[r] PROVE Back(r)'
    BY <2>1, <2>4 DEF BackSoFar, Back, Latest, TypeOK
  <2> QED
    BY <2>1, <2>3, <2>4 DEF BackSoFar, ClusterIsLatest, Latest
<1>3. CASE Edit \/ \E c \in 1..Len(commits) : Reset(c)
  <2>1. /\ UNCHANGED <<releases, cluster, kind, rev, written, pc>>
        /\ \A j \in Jobs : ~foreign'[j] => ~foreign[j]
    BY <1>3 DEF Edit, Reset, OperatorDisturbs, own, release
  <2> QED
    BY <2>1 DEF BackSoFar, Back, ClusterIsLatest, Latest
<1>4. CASE Crash \/ Reconcile
  <2>1. /\ UNCHANGED <<releases, cluster, kind, rev, written, foreign>>
        /\ \A j \in Jobs : pc'[j] = pc[j] \/ pc'[j] = "dead"
    BY <1>4 DEF Crash, Reconcile, own, release
  <2> QED
    BY <2>1 DEF BackSoFar, Back, ClusterIsLatest, Latest
<1>5. ASSUME NEW j \in Jobs, ResetFails(j) PROVE ClusterIsLatest' /\ BackSoFar'
  <2>1. /\ UNCHANGED <<releases, cluster, kind, rev, written>>
        /\ \A k \in Jobs : pc'[k] = pc[k] \/ pc'[k] = "ended"
    BY <1>5 DEF ResetFails, Go, own, release, TypeOK
  <2>2. \A k \in Jobs : ~foreign'[k] => ~foreign[k]
    BY <1>5 DEF ResetFails, OperatorDisturbs
  <2> QED
    BY <2>1, <2>2 DEF BackSoFar, Back, ClusterIsLatest, Latest
<1>6. CASE UNCHANGED vars
  BY <1>6 DEF vars, own, release, BackSoFar, Back, ClusterIsLatest, Latest
<1> QED
  BY <1>1, <1>2, <1>3, <1>4, <1>5, <1>6 DEF Next

(* "Cluster first": where the apply noted the revision it replaced,         *)
(* RestoreCommit runs only when the release is back on it and Helm did not  *)
(* fail, however many other jobs, edits, resets, failures and deaths there  *)
(* are.                                                                     *)
THEOREM RevertsClusterFirst == Spec => []ClusterFirst
<1>1. Init => ClusterIsLatest /\ BackSoFar
  BY ApplyAssumption DEF Init, ClusterIsLatest, BackSoFar, Latest, Back
<1>2. /\ TypeOK /\ Shape /\ ClusterIsLatest /\ BackSoFar /\ [Next]_vars
      => (TypeOK /\ Shape /\ ClusterIsLatest /\ BackSoFar)'
  BY TypeStep, ShapeStep, BackSoFarStep
<1>3. BackSoFar => ClusterFirst
  BY DEF BackSoFar, Back, ClusterFirst
<1> QED
  BY <1>1, <1>2, <1>3, InitShape, PTL DEF Spec

-----------------------------------------------------------------------------
(* Only commits and reverts name a commit as theirs.                        *)
LEMMA UncommittedStep ==
  ASSUME TypeOK, Uncommitted, NEW j \in Jobs, Work(j)
  PROVE  Uncommitted'
<1>1. \A k \in Jobs \ {j} : pc'[k] = pc[k] /\ mine'[k] = mine[k]
  BY WorkIsOwn
<1>2. pc'[j] \in Early => pc[j] \in Early /\ UNCHANGED mine
  BY DEF Early, TypeOK, Work, At, Go, own, Admit, Register, Origin, Add, Commit, Deploys, Load,
         HelmRefuses, HelmStarts, HelmReturns, RunHooks, Record, Finish, FailFinish,
         FailRecord, Check, Compare, Rollback, RollbackReturns, PostHooks, Resolve,
         HardReset, SoftReset, RevertCommit
<1> QED
  BY <1>1, <1>2 DEF Uncommitted

(* What a step does to files and index: nothing an apply that has measured  *)
(* them would commit, or it is noted.                                       *)
LEMMA FilesOrNoted ==
  ASSUME \/ \E j \in Jobs : Work(j) \/ ResetFails(j)
         \/ Edit \/ \E c \in 1..Len(commits) : Reset(c)
  PROVE  FilesMove \/ (UNCHANGED <<files, moved>> /\ index' \in {index, files})
<1>1. ASSUME NEW j \in Jobs, Work(j)
      PROVE  FilesMove \/ (UNCHANGED <<files, moved>> /\ index' \in {index, files})
  BY <1>1 DEF Work, Admit, Register, Origin, Add, Commit, Load, HelmRefuses, HelmStarts,
              HelmReturns, RunHooks, Record, Finish, FailFinish, FailRecord, Check, Compare,
              Rollback, RollbackReturns, PostHooks, Resolve, HardReset, HardResetTo, SoftReset,
              RevertCommit, repo
<1>2. (\E j \in Jobs : ResetFails(j)) \/ Edit \/ (\E c \in 1..Len(commits) : Reset(c)) => FilesMove
  BY DEF ResetFails, Edit, Reset, HardResetTo
<1> QED
  BY <1>1, <1>2

(* Nobody takes a commit away, nor changes it.                              *)
LEMMA CommitsStay ==
  ASSUME TypeOK, [Next]_vars
  PROVE  \A i \in 1..Len(commits) : commits'[i] = commits[i]
<1>1. ASSUME NEW j \in Jobs, CommitIndex(j)
      PROVE  \A i \in 1..Len(commits) : commits'[i] = commits[i]
  BY <1>1, CommitGrows
<1>2. CASE UNCHANGED commits
  BY <1>2
<1> QED
  BY <1>1, <1>2
  DEF Next, vars, Request, Work, Admit, Register, Origin, Add, Commit, CommitFails, Load,
      HelmRefuses, HelmStarts, HelmReturns, RunHooks, Record, Finish, FailFinish, FailRecord,
      Check, Compare, Rollback, RollbackReturns, PostHooks, Resolve, HardReset, HardResetTo,
      SoftReset, RevertCommit, ResetFails, Edit, Reset, Crash, Reconcile, repo

(* Whoever is at work beside an apply leaves what it keeps, or it is noted. *)
LEMMA KeptByOthers ==
  ASSUME TypeOK, NEW a \in Jobs, kind[a] = "apply", Kept(a),
         FilesMove \/ (UNCHANGED <<files, moved>> /\ index' \in {index, files}),
         \A i \in 1..Len(commits) : commits'[i] = commits[i],
         UNCHANGED <<values[a], mine[a]>>,
         pc'[a] = pc[a] \/ pc'[a] \in {"ended", "dead"}
  PROVE  Kept(a)'
<1>1. mine[a] # None => Tree(mine[a])' = Tree(mine[a])
  BY DEF Tree, TypeOK
<1>2. CASE UNCHANGED <<files, moved>> /\ index' \in {index, files}
  BY <1>1, <1>2 DEF Kept
<1>3. CASE FilesMove
  <2>1. moved[a] => moved'[a]
    BY <1>3 DEF FilesMove
  <2>2. Measured(a) /\ ~moved'[a] => UNCHANGED <<files, index>>
    BY <1>3 DEF FilesMove
  <2> QED
    BY <1>1, <2>1, <2>2 DEF Kept, Measured
<1> QED
  BY <1>2, <1>3

(* An apply's own step keeps to what it has measured.                       *)
LEMMA KeptStep ==
  ASSUME TypeOK, Shape, Uncommitted, NEW j \in Jobs, Work(j), kind[j] = "apply", Kept(j)
  PROVE  Kept(j)'
<1>0. /\ pc[j] \in ApplySteps /\ (pc[j] \in Early => mine[j] = None)
      /\ j \in DOMAIN pc /\ j \in DOMAIN values
  BY DEF Shape, KindFits, Uncommitted, TypeOK
<1> USE <1>0 DEF Go, At, Set, own, repo, Early
<1>1. CASE Admit(j)
  BY <1>1 DEF Admit, Kept
<1>2. CASE Register(j) \/ Origin(j)
  BY <1>2 DEF Register, Origin, Kept
<1>3. CASE Add(j)
  BY <1>3 DEF Add, Deploys, Kept
<1>4. CASE Commit(j)
  <2>1. UNCHANGED <<files, index, moved, values>> /\ pc[j] = "commit" /\ pc'[j] = "helm"
    BY <1>4 DEF Commit, Deploys
  <2>2. CASE CommitFails
    BY <2>1, <2>2 DEF CommitFails, Kept
  <2>3. CASE CommitIndex(j)
    <3>1. mine'[j] = head' /\ commits'[head'].tree = index
      BY <2>3, CommitGrows
    <3> QED
      BY <2>1, <3>1 DEF Kept, Tree
  <2> QED
    BY <1>4, <2>2, <2>3 DEF Commit
<1>5. CASE \/ HelmRefuses(j) \/ HelmStarts(j) \/ HelmReturns(j) \/ RunHooks(j) \/ Record(j)
           \/ Finish(j) \/ FailFinish(j) \/ FailRecord(j)
  <2>1. /\ UNCHANGED <<commits, moved, mine, values>>
        /\ pc'[j] \notin {"register", "origin", "add", "commit"}
    BY <1>5
    DEF HelmRefuses, HelmStarts, HelmReturns, RunHooks, Record, Finish, FailFinish, FailRecord
  <2> QED
    BY <2>1 DEF Kept, Tree
<1> QED
  BY <1>1, <1>2, <1>3, <1>4, <1>5
  DEF Work, Load, Check, Compare, Rollback, RollbackReturns, PostHooks, Resolve, HardReset,
      SoftReset, RevertCommit, ApplySteps, UpgradeSteps

(* Every step keeps to what the applies have measured.                      *)
LEMMA KeptSoFarStep ==
  ASSUME TypeOK, Shape, Uncommitted, KeptSoFar, [Next]_vars
  PROVE  KeptSoFar' /\ Uncommitted'
<1>0. \A i \in 1..Len(commits) : commits'[i] = commits[i]
  BY CommitsStay
<1>1. ASSUME NEW j \in Jobs, Work(j) PROVE KeptSoFar' /\ Uncommitted'
  <2>1. UNCHANGED kind /\ \A k \in Jobs \ {j} : UNCHANGED <<pc[k], values[k], mine[k]>>
    BY <1>1, WorkIsOwn
  <2>2. FilesMove \/ (UNCHANGED <<files, moved>> /\ index' \in {index, files})
    BY <1>1, FilesOrNoted
  <2>3. ASSUME NEW a \in Jobs \ {j}, kind[a] = "apply" PROVE Kept(a)'
    BY <1>0, <2>1, <2>2, <2>3, KeptByOthers DEF KeptSoFar
  <2>4. kind[j] = "apply" => Kept(j)'
    BY <1>1, KeptStep DEF KeptSoFar
  <2> QED
    BY <1>1, <2>1, <2>3, <2>4, UncommittedStep DEF KeptSoFar
<1>2. ASSUME NEW j \in Jobs, NEW k \in Kinds, Request(j, k) PROVE KeptSoFar' /\ Uncommitted'
  <2>1. /\ k \in Requests /\ UNCHANGED <<files, moved, index, commits, values, mine>>
        /\ pc[j] = "unused"
        /\ kind' = [kind EXCEPT ![j] = k] /\ pc' = [pc EXCEPT ![j] = FirstStep(k)]
    BY <1>2, ApplyAssumption DEF Request, NextJob, ApplyAssumption, repo, Set, Go
  <2>2. mine[j] = None
    BY <2>1 DEF Uncommitted, Early
  <2>3. \A a \in Jobs \ {j} : kind'[a] = kind[a] /\ pc'[a] = pc[a]
    BY <2>1 DEF TypeOK
  <2>4. k = "apply" => pc'[j] = "admit"
    BY <2>1 DEF FirstStep, TypeOK
  <2> QED
    BY <2>1, <2>2, <2>3, <2>4 DEF KeptSoFar, Kept, Uncommitted, Tree, TypeOK
<1>3. CASE Edit \/ \E c \in 1..Len(commits) : Reset(c)
  <2>1. UNCHANGED <<kind, pc, values, mine>>
    BY <1>3 DEF Edit, Reset, own
  <2>2. FilesMove \/ (UNCHANGED <<files, moved>> /\ index' \in {index, files})
    BY <1>3, FilesOrNoted
  <2> QED
    BY <1>0, <2>1, <2>2, KeptByOthers DEF KeptSoFar, Uncommitted
<1>4. CASE Crash \/ Reconcile
  <2>1. /\ UNCHANGED <<files, moved, index, commits, kind, values, mine>>
        /\ \A j \in Jobs : pc'[j] = pc[j] \/ pc'[j] = "dead"
    BY <1>4 DEF Crash, Reconcile, own, repo
  <2> QED
    BY <1>0, <2>1, KeptByOthers DEF KeptSoFar, Uncommitted, Early
<1>5. ASSUME NEW j \in Jobs, ResetFails(j) PROVE KeptSoFar' /\ Uncommitted'
  <2>1. /\ UNCHANGED <<kind, values, mine>>
        /\ \A k \in Jobs : pc'[k] = pc[k] \/ pc'[k] = "ended"
    BY <1>5 DEF ResetFails, Go, own, TypeOK
  <2>2. FilesMove \/ (UNCHANGED <<files, moved>> /\ index' \in {index, files})
    BY <1>5, FilesOrNoted
  <2> QED
    BY <1>0, <2>1, <2>2, KeptByOthers DEF KeptSoFar, Uncommitted, Early
<1>6. CASE UNCHANGED vars
  BY <1>6 DEF vars, own, repo, KeptSoFar, Kept, Uncommitted, Tree
<1> QED
  BY <1>1, <1>2, <1>3, <1>4, <1>5, <1>6 DEF Next

(* ApplyConfig beside any other requests: what was measured is what git has *)
(* and what the revision runs, once the row says so, unless the files were  *)
(* written in between or git did not take the commit.                       *)
THEOREM ApplyIsWhole == Spec => []AppliedWhole
<1>1. Init => Booked /\ KeptSoFar /\ Uncommitted
  BY InitBooked, ApplyAssumption DEF Init, KeptSoFar, Uncommitted, ApplyAssumption, Requests
<1>2. TypeOK /\ Shape /\ Booked /\ KeptSoFar /\ Uncommitted /\ [Next]_vars
      => (TypeOK /\ Shape /\ Booked /\ KeptSoFar /\ Uncommitted)'
  BY TypeStep, ShapeStep, BookedStep, KeptSoFarStep
<1>3. Booked /\ KeptSoFar => AppliedWhole
  <2> SUFFICES ASSUME Booked, KeptSoFar, NEW j \in Jobs, kind[j] = "apply",
                      row[j] \in {"success", "hooks-failed"}, mine[j] # None, ~moved[j]
               PROVE  Tree(mine[j]) = values[j] /\ releases[written[j]].config = Tree(mine[j])
    BY DEF AppliedWhole
  <2>1. Tree(mine[j]) = values[j]
    BY DEF KeptSoFar, Kept
  <2>2. releases[written[j]].config = values[j]
    <3>1. Told(j)
      BY DEF Booked
    <3>2. releases[written[j]] = [config |-> values[j], status |-> "deployed"]
      BY <3>1 DEF Told
    <3> QED
      BY <3>2
  <2> QED
    BY <2>1, <2>2
<1> QED
  BY <1>1, <1>2, <1>3, InitShape, PTL DEF Spec

-----------------------------------------------------------------------------
(* Going back to where an apply began.                                      *)

Reverts(a) == {r \in Jobs : undoes[r] = a}

(* Reverts between their two resets and their commit.                       *)
Moving(a) == {r \in Reverts(a) : pc[r] \in {"softReset", "revertCommit"}}

Parents == \A c \in 1..Len(commits) : commits[c].parent \in 0..Len(commits)

(* A revert at work knows that the stream of what it takes back is over.    *)
StreamOver ==
    \A r \in Jobs : kind[r] = "revert" /\ pc[r] \in Reverting \ {"restored"} => over[undoes[r]]

Committed == {"helm", "rolling", "hooks", "record", "finish", "failFinish", "failRecord"}

(* How an apply that noted its origin and got its commit left the           *)
(* repository, and what its reverts make of it.  Its commit is out of the   *)
(* history only between the two resets of a revert.                         *)
Left(a) ==
    /\ files \in {Tree(head), Tree(sha[a])}
    /\ Moving(a) # {} => files = Tree(sha[a])
    /\ index = files
    /\ \/ mine[a] \in Line(head)
       \/ head = sha[a] /\ \E r \in Moving(a) : pc[r] = "softReset"
    /\ \A r \in Reverts(a) :
          pc[r] \in {"hardReset", "softReset"} => mine[a] \in Line(mine[r])

Noted(a) == sha[a] # None /\ mine[a] # None

Standing(a) ==
    /\ pc[a] \in {"admit", "register", "origin"} => sha[a] = None
    /\ pc[a] \in {"add", "commit"} /\ sha[a] # None => head = sha[a]
    /\ pc[a] = "commit" => index = files
    /\ (pc[a] \in Committed \/ over[a]) /\ Noted(a) => Left(a)

(* Two reverts of one apply disturb each other, though not the apply.       *)
Alone(r) ==
    \A q \in Jobs \ {r} : undoes[q] = undoes[r] => pc[q] \notin {"softReset", "revertCommit"}

Returned(r) ==
    LET a == undoes[r] IN
    pc[r] = "restored" /\ Noted(a) =>
        /\ files = Tree(sha[a]) /\ Tree(head) = files /\ index = files
        /\ mine[a] \in Line(head)

AppliesStand == \A a \in Jobs : kind[a] = "apply" /\ ~foreign[a] => Standing(a)
RevertsAlone == \A r \in Jobs : kind[r] = "revert" /\ ~foreign[r] => Alone(r)
GoneBack     == \A r \in Jobs : kind[r] = "revert" /\ ~foreign[r] /\ ~foreign[undoes[r]]
                                => Returned(r)

TreeInv == Parents /\ Uncommitted /\ StreamOver /\ AppliesStand /\ RevertsAlone /\ GoneBack

-----------------------------------------------------------------------------
(* Histories do not change when a commit is added, and the new one has that *)
(* of the commit it was put upon.                                           *)
LEMMA LineGrows ==
  ASSUME TypeOK, Parents, NEW tree \in Configs,
         commits' = Append(commits, [tree |-> tree, parent |-> head]),
         head' = Len(commits) + 1
  PROVE  /\ Parents'
         /\ \A c \in 1..Len(commits) : \A x \in Line(c) : x \in Line(c)'
         /\ \A x \in Line(head) : x \in Line(head)'
<1> DEFINE new == [tree |-> tree, parent |-> head]
<1>1. /\ commits \in Seq(CommitObject) /\ Len(commits) \in Nat /\ new \in CommitObject
      /\ head \in 1..Len(commits)
  BY LenProperties DEF TypeOK, CommitObject
<1>2. /\ Len(commits') = Len(commits) + 1
      /\ \A i \in 1..Len(commits) : commits'[i] = commits[i]
      /\ commits'[Len(commits) + 1].parent = head
  BY <1>1, AppendProperties
<1>3. Parents'
  BY <1>1, <1>2 DEF Parents
<1>4. ASSUME NEW c \in 1..Len(commits), NEW x \in Line(c),
             NEW S \in SUBSET (1..Len(commits')), c \in S,
             \A s \in S : commits'[s].parent \in S \cup {0}
      PROVE  x \in S
  <2> DEFINE T == S \cap (1..Len(commits))
  <2>1. T \in SUBSET (1..Len(commits)) /\ c \in T
    BY <1>4
  <2>2. ASSUME NEW s \in T PROVE commits[s].parent \in T \cup {0}
    <3>1. commits[s].parent \in S \cup {0} /\ commits[s].parent \in 0..Len(commits)
      BY <1>2, <1>4, <2>2 DEF Parents
    <3> QED
      BY <1>1, <3>1
  <2> QED
    BY <2>1, <2>2 DEF Line
<1>5. \A c \in 1..Len(commits) : \A x \in Line(c) : x \in 1..Len(commits')
  BY <1>1, <1>2 DEF Line
<1>6. ASSUME NEW c \in 1..Len(commits), NEW x \in Line(c) PROVE x \in Line(c)'
  BY <1>4, <1>5, <1>6 DEF Line
<1>7. ASSUME NEW x \in Line(head) PROVE x \in Line(head)'
  <2>1. ASSUME NEW S \in SUBSET (1..Len(commits')), Len(commits) + 1 \in S,
               \A s \in S : commits'[s].parent \in S \cup {0}
        PROVE  x \in S
    <3>1. head \in S
      BY <1>1, <1>2, <2>1
    <3> QED
      BY <1>1, <1>4, <1>7, <2>1, <3>1
  <2> QED
    BY <1>1, <1>5, <1>7, <2>1 DEF Line
<1> QED
  BY <1>3, <1>6, <1>7

(* So whatever a job commits, if anything, the history has it all.          *)
LEMMA CommitKeepsLine ==
  ASSUME TypeOK, Parents, NEW j \in Jobs, CommitIndex(j)
  PROVE  /\ Parents'
         /\ \A c \in 1..Len(commits) : \A x \in Line(c) : x \in Line(c)'
         /\ \A x \in Line(head) : x \in Line(head)'
         /\ index = Tree(head) => UNCHANGED <<commits, head>>
         /\ mine'[j] = head' /\ mine'[j] \in Line(head)'
<1>0. mine'[j] = head'
  BY CommitGrows
<1>1. CASE index = Tree(head)
  <2>1. UNCHANGED <<commits, head>>
    BY <1>1 DEF CommitIndex
  <2>2. head \in Line(head)'
    BY <2>1 DEF Line, TypeOK
  <2> QED
    BY <1>0, <1>1, <2>1, <2>2 DEF Parents, Line
<1>2. CASE index # Tree(head)
  <2>1. /\ commits' = Append(commits, [tree |-> index, parent |-> head])
        /\ head' = Len(commits) + 1
    BY <1>2 DEF CommitIndex
  <2>2. /\ Parents'
        /\ \A c \in 1..Len(commits) : \A x \in Line(c) : x \in Line(c)'
        /\ \A x \in Line(head) : x \in Line(head)'
    BY <2>1, LineGrows DEF TypeOK
  <2>4. head' \in Line(head)'
    <3>1. head' \in 1..Len(commits')
      BY CommitGrows
    <3> QED
      BY <3>1 DEF Line
  <2> QED
    BY <1>0, <1>2, <2>2, <2>4
<1> QED
  BY <1>1, <1>2

(* The repository's steps keep every history.                               *)
LEMMA LineStep ==
  ASSUME TypeOK, Parents, NEW j \in Jobs, Work(j)
  PROVE  Parents' /\ \A c \in 1..Len(commits) : \A x \in Line(c) : x \in Line(c)'
<1>1. CASE CommitIndex(j)
  BY <1>1, CommitKeepsLine
<1>2. CASE UNCHANGED commits
  BY <1>2 DEF Parents, Line
<1>3. CASE Commit(j) \/ RevertCommit(j)
  BY <1>1, <1>2, <1>3 DEF Commit, RevertCommit, CommitFails
<1> QED
  BY <1>2, <1>3
  DEF Work, Admit, Register, Origin, Add, Load, HelmRefuses, HelmStarts, HelmReturns,
      RunHooks, Record, Finish, FailFinish, FailRecord, Check, Compare, Rollback,
      RollbackReturns, PostHooks, Resolve, HardReset, HardResetTo, SoftReset, repo

(* A revert at work knows its stream is over, and nobody opens it again.    *)
LEMMA StreamOverStep ==
  ASSUME TypeOK, Shape, StreamOver, NEW j \in Jobs, Work(j)
  PROVE  StreamOver'
<1>1. \A k \in Jobs \ {j} : pc'[k] = pc[k] /\ over'[k] = over[k]
  BY WorkIsOwn
<1>2. UNCHANGED <<kind, undoes>> /\ (over[j] => over'[j])
  <2>1. over'[j] = over[j] \/ over'[j]
    BY DEF TypeOK, Set, record, Work, Admit, Register, Origin, Add, Commit, Load, HelmRefuses,
           HelmStarts, HelmReturns, RunHooks, Record, Finish, FailFinish, FailRecord, Check,
           Compare, Rollback, RollbackReturns, PostHooks, Resolve, HardReset, SoftReset,
           RevertCommit
  <2> QED
    BY <2>1, WorkIsOwn
<1>3. ASSUME kind[j] = "revert", pc'[j] \in Reverting \ {"restored"} PROVE over[undoes[j]]
  <2>1. CASE Check(j)
    BY <1>3, <2>1 DEF Check, Go, TypeOK, Reverting
  <2>2. CASE ~Check(j)
    <3>1. pc[j] \in Reverting \ {"restored"}
      <4>1. pc[j] \in RevertSteps
        BY <1>3 DEF Shape, KindFits
      <4>2. pc[j] \notin {"check", "ended", "dead", "restored"}
        BY <2>2 DEF Work, At, Admit, Register, Origin, Add, Commit, Load, HelmRefuses,
                    HelmStarts, HelmReturns, RunHooks, Record, Finish, FailFinish, FailRecord,
                    Compare, Rollback, RollbackReturns, PostHooks, Resolve, HardReset,
                    SoftReset, RevertCommit
      <4> QED
        BY <4>1, <4>2 DEF Reverting
    <3> QED
      BY <1>3, <3>1 DEF StreamOver
  <2> QED
    BY <2>1, <2>2
<1>4. ASSUME NEW r \in Jobs, kind[r] = "revert", pc'[r] \in Reverting \ {"restored"}
      PROVE  over'[undoes[r]]
  <2>1. over[undoes[r]]
    BY <1>1, <1>3, <1>4 DEF StreamOver
  <2>2. undoes[r] \in Jobs
    BY <1>4 DEF Shape, Undoing
  <2> QED
    BY <1>1, <1>2, <2>1, <2>2
<1> QED
  BY <1>2, <1>4 DEF StreamOver

(* While an apply is at work nobody who takes it back is.                   *)
LEMMA NobodyReverts ==
  ASSUME TypeOK, Shape, NEW a \in Jobs, pc[a] \notin {"failRecord", "ended", "dead"}
  PROVE  \A r \in Reverts(a) : pc[r] \notin Reverting
BY ApplyAssumption DEF Reverts, Shape, Undoing, Known, ApplyAssumption

(* Who moves nothing leaves what an apply left.                             *)
LEMMA SameLeft ==
  ASSUME NEW a \in Jobs, Left(a), UNCHANGED <<files, index, commits, head>>,
         UNCHANGED <<sha[a], mine[a]>>, Reverts(a)' = Reverts(a), Moving(a)' = Moving(a),
         \A r \in Moving(a) : pc'[r] = pc[r],
         \A r \in Reverts(a) : pc'[r] \in {"hardReset", "softReset"} =>
             pc[r] \in {"hardReset", "softReset"} /\ mine'[r] = mine[r]
  PROVE  Left(a)'
<1>1. Line(head)' = Line(head)
  BY DEF Line
<1>2. \A r \in Reverts(a) : mine'[r] = mine[r] => Line(mine[r])' = Line(mine[r])
  BY DEF Line
<1> QED
  BY <1>1, <1>2 DEF Left, Tree

(* An apply's own step, from what it started from to its commit.            *)
LEMMA OwnStanding ==
  ASSUME TypeOK, Shape, Parents, Uncommitted,
         NEW a \in Jobs, Work(a), kind[a] = "apply", Standing(a)
  PROVE  Standing(a)'
<1>0. /\ pc[a] \in ApplySteps /\ undoes[a] = None /\ None \notin Jobs
      /\ over[a] => pc[a] \in {"failRecord", "ended"}
      /\ \A r \in Jobs \ {a} : pc'[r] = pc[r] /\ mine'[r] = mine[r]
      /\ UNCHANGED undoes /\ a \in DOMAIN pc /\ a \in DOMAIN sha /\ a \in DOMAIN mine
  <2>1. /\ pc[a] \in ApplySteps /\ None \notin Jobs
        /\ a \in DOMAIN pc /\ a \in DOMAIN sha /\ a \in DOMAIN mine
    BY ApplyAssumption DEF Shape, KindFits, ApplyAssumption, TypeOK
  <2>2. undoes[a] = None /\ (over[a] => pc[a] \in {"failRecord", "ended"})
    BY <2>1, ApplyAssumption DEF Shape, KindFits, Undoing, OriginKnown, ApplyAssumption, TypeOK
  <2>3. UNCHANGED undoes /\ \A r \in Jobs \ {a} : pc'[r] = pc[r] /\ mine'[r] = mine[r]
    BY WorkIsOwn
  <2> QED
    BY <2>1, <2>2, <2>3
<1>1. /\ Reverts(a)' = Reverts(a) /\ Moving(a)' = Moving(a) /\ a \notin Reverts(a)
      /\ \A r \in Reverts(a) : pc'[r] = pc[r] /\ mine'[r] = mine[r]
  BY <1>0 DEF Reverts, Moving
<1> USE DEF Go, At, Set, own, repo, record
<1>2. CASE Admit(a) \/ Register(a)
  BY <1>0, <1>2 DEF Admit, Register, Standing, Committed
<1>3. CASE Origin(a)
  BY <1>0, <1>3 DEF Origin, Standing, Committed
<1>4. CASE Add(a)
  <2>1. /\ pc[a] = "add" /\ mine[a] = None /\ UNCHANGED <<files, head, sha, mine, over>>
        /\ ~over[a]
    BY <1>0, <1>4 DEF Add, Uncommitted, Early
  <2>2. \/ pc'[a] = "commit" /\ index' = files
        \/ pc'[a] = "helm"
    BY <1>0, <1>4 DEF Add, Deploys
  <2> QED
    BY <2>1, <2>2 DEF Standing, Committed, Noted
<1>5. CASE Commit(a)
  <2>1. /\ pc[a] = "commit" /\ UNCHANGED <<files, index, sha, over>>
        /\ pc'[a] = "helm" /\ index = files /\ mine[a] = None
    BY <1>0, <1>5 DEF Commit, Deploys, Standing, Uncommitted, Early
  <2>2. CASE CommitFails
    BY <2>1, <2>2 DEF CommitFails, Standing, Noted
  <2>3. CASE CommitIndex(a)
    <3>1. Tree(head)' = index /\ mine'[a] \in Line(head)'
      BY <2>3, CommitGrows, CommitKeepsLine DEF Tree
    <3>2. Moving(a) = {} /\ \A r \in Reverts(a) : pc[r] \notin {"hardReset", "softReset"}
      BY <2>1, NobodyReverts DEF Moving, Reverting, RevertSteps, RollbackSteps
    <3> QED
      BY <1>1, <2>1, <3>1, <3>2 DEF Standing, Left
  <2> QED
    BY <1>5, <2>2, <2>3 DEF Commit
<1>6. CASE \/ HelmRefuses(a) \/ HelmStarts(a) \/ HelmReturns(a) \/ RunHooks(a) \/ Record(a)
           \/ Finish(a) \/ FailFinish(a) \/ FailRecord(a)
  <2>1. /\ UNCHANGED <<files, index, commits, head, sha, mine>>
        /\ pc[a] \in Committed /\ pc'[a] \notin Early
    BY <1>0, <1>6
    DEF HelmRefuses, HelmStarts, HelmReturns, RunHooks, Record, Finish, FailFinish,
        FailRecord, Committed, Early
  <2>2. Noted(a) => Left(a)
    BY <2>1 DEF Standing
  <2>3. Noted(a) => Left(a)'
    BY <1>1, <2>1, <2>2, SameLeft DEF Moving
  <2> QED
    BY <2>1, <2>3 DEF Standing, Noted, Early
<1> QED
  BY <1>0, <1>2, <1>3, <1>4, <1>5, <1>6
  DEF Work, Load, Check, Compare, Rollback, RollbackReturns, PostHooks, Resolve, HardReset,
      SoftReset, RevertCommit, ApplySteps, UpgradeSteps

(* A step of a revert: to the old commit, back, and a commit on top.        *)
LEMMA RevertStanding ==
  ASSUME TypeOK, Shape, Parents, StreamOver,
         NEW a \in Jobs, NEW r \in Reverts(a), Work(r), kind[a] = "apply", Standing(a)
  PROVE  Standing(a)'
<1>0. /\ r \in Jobs /\ undoes[r] = a /\ kind[r] = "revert" /\ r # a
      /\ pc[r] \in RevertSteps
      /\ pc[r] \in Reverting => sha[r] = sha[a]
  BY ApplyAssumption DEF Reverts, Shape, KindFits, Undoing, Known, ApplyAssumption
<1>1. /\ \A q \in Jobs \ {r} : pc'[q] = pc[q] /\ mine'[q] = mine[q]
      /\ UNCHANGED <<undoes, pc[a], sha[a], mine[a], over[a]>>
      /\ r \in DOMAIN pc /\ r \in DOMAIN mine
  BY <1>0, WorkIsOwn DEF TypeOK
<1>2. Reverts(a)' = Reverts(a)
  BY <1>1 DEF Reverts
<1>3. CASE /\ UNCHANGED <<files, index, commits, head, mine>>
           /\ pc[r] \notin {"softReset", "revertCommit"}
           /\ pc'[r] \notin {"hardReset", "softReset", "revertCommit"}
  <2>1. Moving(a)' = Moving(a)
    BY <1>0, <1>1, <1>2, <1>3 DEF Moving, Reverts
  <2>2. Left(a) => Left(a)'
    BY <1>0, <1>1, <1>2, <1>3, <2>1, SameLeft DEF Reverts, Moving
  <2> QED
    BY <1>1, <1>3, <2>2 DEF Standing, Noted
<1>4. ASSUME pc[r] \in {"resolve", "hardReset", "softReset", "revertCommit"}
      PROVE  /\ sha[r] = sha[a] /\ over[a] /\ (Noted(a) => Left(a))
             /\ pc[a] \in {"failRecord", "ended"}
  <2>1. pc[r] \in Reverting \ {"restored"}
    BY <1>4 DEF Reverting, RevertSteps
  <2>2. over[a] /\ sha[r] = sha[a]
    BY <1>0, <2>1 DEF StreamOver
  <2> QED
    BY <2>2 DEF Standing, Shape, OriginKnown
<1> SUFFICES ASSUME pc[r] \in {"resolve", "hardReset", "softReset", "revertCommit"},
                    ~ /\ UNCHANGED <<files, index, commits, head, mine>>
                      /\ pc[r] \notin {"softReset", "revertCommit"}
                      /\ pc'[r] \notin {"hardReset", "softReset", "revertCommit"},
                    Noted(a)
             PROVE  Left(a)'
  <2>1. CASE Check(r) \/ Compare(r) \/ Rollback(r) \/ RollbackReturns(r) \/ PostHooks(r)
    BY <1>1, <1>3, <2>1
    DEF Check, Compare, Rollback, RollbackReturns, PostHooks, At, Go, own, repo
  <2>2. CASE pc[r] \in {"resolve", "hardReset", "softReset", "revertCommit"}
    BY <1>1, <1>3, <1>4, <2>2 DEF Standing, Noted
  <2> QED
    BY <1>0, <2>1, <2>2
    DEF Work, Admit, Register, Origin, Add, Commit, Load, HelmRefuses, HelmStarts,
        HelmReturns, RunHooks, Record, Finish, FailFinish, FailRecord, Resolve, HardReset,
        SoftReset, RevertCommit, At, RevertSteps, RollbackSteps
<1>5. /\ sha[r] = sha[a] /\ sha[a] \in 1..Len(commits) /\ Left(a)
  BY <1>4 DEF Noted, TypeOK
<1> USE DEF At, Go, Set, own
<1>6. CASE Resolve(r)
  <2>1. /\ pc[r] = "resolve" /\ pc'[r] = "hardReset" /\ head # sha[a] /\ mine'[r] = head
        /\ UNCHANGED <<files, index, commits, head>>
    BY <1>1, <1>5, <1>6 DEF Resolve, repo
  <2>2. Moving(a)' = Moving(a)
    BY <1>0, <1>1, <1>2, <2>1 DEF Moving, Reverts
  <2>3. mine[a] \in Line(mine[r])'
    BY <1>0, <1>5, <2>1 DEF Left, Line
  <2>4. Line(head)' = Line(head)
    BY <2>1 DEF Line
  <2>5. \A q \in Reverts(a) \ {r} :
            pc'[q] = pc[q] /\ mine'[q] = mine[q] /\ Line(mine[q])' = Line(mine[q])
    BY <1>1, <2>1 DEF Line, Reverts
  <2>6. r \notin Moving(a)
    BY <2>1 DEF Moving
  <2> QED
    BY <1>1, <1>2, <1>5, <2>1, <2>2, <2>3, <2>4, <2>5, <2>6 DEF Left, Tree, Moving
<1>7. CASE HardReset(r)
  <2>1. /\ pc[r] = "hardReset" /\ pc'[r] = "softReset" /\ UNCHANGED <<commits, mine>>
        /\ head' = sha[a] /\ files' = Tree(sha[a]) /\ index' = files'
    BY <1>1, <1>5, <1>7 DEF HardReset, HardResetTo
  <2>2. r \in Moving(a)'
    BY <1>2, <2>1 DEF Moving
  <2>3. \A q \in Reverts(a) : pc'[q] \in {"hardReset", "softReset"}
                              => pc[q] \in {"hardReset", "softReset"}
    BY <1>1, <2>1 DEF Reverts
  <2>4. \A q \in Reverts(a) : Line(mine[q])' = Line(mine[q])
    BY <2>1 DEF Line
  <2> QED
    BY <1>1, <1>2, <1>5, <2>1, <2>2, <2>3, <2>4 DEF Left, Tree
<1>8. CASE SoftReset(r)
  <2>1. /\ pc[r] = "softReset" /\ pc'[r] = "revertCommit" /\ head' = mine[r]
        /\ UNCHANGED <<files, index, commits, mine>>
    BY <1>1, <1>8 DEF SoftReset
  <2>2. r \in Moving(a)' /\ r \in Moving(a)
    BY <1>2, <2>1 DEF Moving
  <2>3. \A q \in Reverts(a) : pc'[q] \in {"hardReset", "softReset"}
                              => pc[q] \in {"hardReset", "softReset"}
    BY <1>1, <2>1 DEF Reverts
  <2>4. /\ \A q \in Reverts(a) : Line(mine[q])' = Line(mine[q])
        /\ Line(head)' = Line(mine[r])
    BY <1>0, <2>1 DEF Line
  <2> QED
    BY <1>1, <1>2, <1>5, <2>1, <2>2, <2>3, <2>4 DEF Left, Tree
<1>9. CASE RevertCommit(r)
  <2>1. /\ pc[r] = "revertCommit" /\ UNCHANGED <<files, index>> /\ pc'[r] \in {"restored", "ended"}
        /\ CommitIndex(r) \/ UNCHANGED <<commits, head, mine>>
        /\ pc'[r] = "restored" => CommitIndex(r)
    BY <1>1, <1>9 DEF RevertCommit, CommitFails
  <2>2. /\ \A i \in 1..Len(commits) : commits'[i] = commits[i]
        /\ Tree(head)' = index \/ UNCHANGED <<commits, head>>
    BY <1>0, <2>1, CommitGrows DEF Tree
  <2>3. /\ \A c \in 1..Len(commits) : \A x \in Line(c) : x \in Line(c)'
        /\ \A x \in Line(head) : x \in Line(head)'
        /\ index = Tree(head) => UNCHANGED <<commits, head>>
    <3>1. CASE CommitIndex(r)
      BY <1>0, <3>1, CommitKeepsLine
    <3>2. CASE UNCHANGED <<commits, head, mine>>
      BY <3>2 DEF Line
    <3> QED
      BY <2>1, <3>1, <3>2
  <2>4. r \in Moving(a) /\ Moving(a)' = Moving(a) \ {r} /\ files = Tree(sha[a]) /\ index = files
    BY <1>0, <1>1, <1>2, <1>5, <2>1 DEF Moving, Reverts, Left
  <2>5. /\ Tree(sha[a])' = Tree(sha[a]) /\ files' = Tree(sha[a])' /\ index' = files'
    BY <1>1, <1>5, <2>1, <2>2, <2>4 DEF Tree
  <2>6. \/ mine[a] \in Line(head)'
        \/ head' = sha[a] /\ \E q \in Moving(a)' : pc'[q] = "softReset"
    <3>1. CASE mine[a] \in Line(head)
      BY <2>3, <3>1
    <3>2. CASE head = sha[a] /\ \E q \in Moving(a) : pc[q] = "softReset"
      <4>1. head' = head
        BY <2>3, <2>4, <3>2
      <4>2. \E q \in Moving(a) \ {r} : pc'[q] = "softReset"
        BY <1>1, <2>1, <3>2 DEF Moving, Reverts
      <4> QED
        BY <2>4, <3>2, <4>1, <4>2
    <3> QED
      BY <1>5, <3>1, <3>2 DEF Left
  <2>7. ASSUME NEW q \in Reverts(a), pc'[q] \in {"hardReset", "softReset"}
        PROVE  mine[a] \in Line(mine[q])'
    <3>1. q # r /\ q \in Jobs /\ pc[q] \in {"hardReset", "softReset"} /\ mine'[q] = mine[q]
      BY <1>1, <2>1, <2>7 DEF Reverts
    <3>2. mine[q] \in 1..Len(commits)
      BY <3>1 DEF Shape, Known, TypeOK
    <3>3. mine[a] \in Line(mine[q])
      BY <1>5, <2>7, <3>1 DEF Left
    <3> DEFINE c == mine[q]
    <3>4. c' = c
      BY <3>1
    <3> HIDE DEF c
    <3>5. mine[a] \in Line(c)'
      BY <2>3, <3>2, <3>3, <3>4 DEF c
    <3> QED
      BY <3>5 DEF c
  <2> QED
    BY <1>1, <1>2, <2>5, <2>6, <2>7 DEF Left
<1> QED
  BY <1>6, <1>7, <1>8, <1>9
  DEF Work, Admit, Register, Origin, Add, Commit, Load, HelmRefuses, HelmStarts,
      HelmReturns, RunHooks, Record, Finish, FailFinish, FailRecord, Check, Compare, Rollback,
      RollbackReturns, PostHooks

(* An undisturbed apply stands whoever works.                               *)
LEMMA StandStep ==
  ASSUME TypeOK, Shape, Parents, Uncommitted, StreamOver, AppliesStand, NEW j \in Jobs, Work(j)
  PROVE  AppliesStand'
<1> SUFFICES ASSUME NEW a \in Jobs, kind'[a] = "apply", ~foreign'[a] PROVE Standing(a)'
  BY DEF AppliesStand
<1>1. /\ kind[a] = "apply" /\ UNCHANGED undoes /\ pc[a] # "unused"
      /\ \A k \in Jobs \ {j} : /\ pc'[k] = pc[k] /\ mine'[k] = mine[k] /\ sha'[k] = sha[k]
                               /\ over'[k] = over[k]
  BY WorkIsOwn DEF Shape, KindFits, ApplySteps, UpgradeSteps
<1>2. ~foreign[a]
  BY MovesDisturb DEF Disturbs, Quietly, TypeOK
<1>3. Standing(a)
  BY <1>1, <1>2 DEF AppliesStand
<1>4. CASE j = a
  BY <1>1, <1>3, <1>4, OwnStanding
<1>5. CASE j \in Reverts(a)
  BY <1>1, <1>3, <1>5, RevertStanding
<1>6. CASE j # a /\ j \notin Reverts(a)
  <2>1. UNCHANGED <<files, index, commits, head>>
    BY <1>1, <1>6, OthersLeaveAlone DEF Reverts
  <2>2. /\ Reverts(a)' = Reverts(a) /\ Moving(a)' = Moving(a)
        /\ \A r \in Reverts(a) : pc'[r] = pc[r] /\ mine'[r] = mine[r]
    BY <1>1, <1>6 DEF Reverts, Moving
  <2>3. Left(a) => Left(a)'
    BY <1>1, <1>6, <2>1, <2>2, SameLeft DEF Moving
  <2> QED
    BY <1>1, <1>3, <1>6, <2>1, <2>3 DEF Standing, Noted
<1> QED
  BY <1>4, <1>5, <1>6

(* A revert that begins to move the repository disturbs its rivals.         *)
LEMMA AloneStep ==
  ASSUME TypeOK, Shape, RevertsAlone, NEW j \in Jobs, Work(j)
  PROVE  RevertsAlone'
<1> SUFFICES ASSUME NEW r \in Jobs, kind'[r] = "revert", ~foreign'[r],
                    NEW q \in Jobs \ {r}, undoes'[q] = undoes'[r],
                    pc'[q] \in {"softReset", "revertCommit"}
             PROVE  FALSE
  BY DEF RevertsAlone, Alone
<1>1. /\ kind[r] = "revert" /\ undoes[q] = undoes[r] /\ pc[r] # "unused"
      /\ \A k \in Jobs \ {j} : pc'[k] = pc[k]
      /\ undoes[r] \in Jobs /\ kind[undoes[r]] \in {"apply", "upgrade"}
  BY WorkIsOwn DEF Shape, KindFits, Undoing, RevertSteps, RollbackSteps
<1>2. ~foreign[r]
  BY MovesDisturb DEF Disturbs, Quietly, TypeOK
<1>3. pc[q] \notin {"softReset", "revertCommit"}
  BY <1>1, <1>2 DEF RevertsAlone, Alone
<1>4. q = j
  BY <1>1, <1>3
<1>5. HardReset(q)
  BY <1>3, <1>4
  DEF TypeOK, Work, At, Go, Admit, Register, Origin, Add, Commit, Deploys, Load,
      HelmRefuses, HelmStarts, HelmReturns, RunHooks, Record, Finish, FailFinish, FailRecord,
      Check, Compare, Rollback, RollbackReturns, PostHooks, Resolve, SoftReset, RevertCommit
<1>6. foreign'[r]
  BY <1>1, <1>4, <1>5 DEF HardReset, Disturbs, Allies
<1> QED
  BY <1>6

(* A revert nobody disturbs ends where its apply began.                     *)
LEMMA BackWholeStep ==
  ASSUME TypeOK, Shape, Parents, StreamOver, AppliesStand, RevertsAlone, GoneBack,
         NEW j \in Jobs, Work(j)
  PROVE  GoneBack'
<1> SUFFICES ASSUME NEW r \in Jobs, kind'[r] = "revert", ~foreign'[r], ~foreign'[undoes'[r]],
                    pc'[r] = "restored"
             PROVE  Returned(r)'
  BY DEF GoneBack, Returned
<1> DEFINE a == undoes[r]
<1>1. /\ kind[r] = "revert" /\ UNCHANGED undoes /\ pc[r] \in RevertSteps
      /\ a \in Jobs /\ kind[a] \in {"apply", "upgrade"} /\ a # r
      /\ \A k \in Jobs \ {j} : pc'[k] = pc[k] /\ mine'[k] = mine[k] /\ sha'[k] = sha[k]
      /\ kind[j] = "revert" => undoes[j] \in Jobs /\ kind[undoes[j]] \in {"apply", "upgrade"}
      /\ kind[j] # "revert" => undoes[j] = None
  BY WorkIsOwn DEF Shape, KindFits, Undoing
<1>2. ~foreign[r] /\ ~foreign[a]
  BY <1>1, MovesDisturb DEF Disturbs, Quietly, TypeOK
<1>3. pc[r] \in Reverting =>
        /\ sha[r] = sha[a] /\ kind[a] = "apply"
        /\ pc[a] \in {"failRecord", "ended", "dead"}
  BY <1>1 DEF Shape, Known
<1>4. CASE j = r
  <2>1. pc[r] \in {"resolve", "revertCommit"} /\ (Resolve(r) \/ RevertCommit(r))
    BY <1>1, <1>4
    DEF TypeOK, Work, At, Go, Admit, Register, Origin, Add, Commit, Deploys, Load,
        HelmRefuses, HelmStarts, HelmReturns, RunHooks, Record, Finish, FailFinish,
        FailRecord, Check, Compare, Rollback, RollbackReturns, PostHooks, Resolve, HardReset,
        SoftReset, RevertCommit, RevertSteps, RollbackSteps
  <2>2. pc[r] \in Reverting \ {"restored"} /\ over[a]
    BY <1>1, <2>1 DEF StreamOver, Reverting, RevertSteps
  <2>3. Noted(a) => Left(a) /\ sha[r] = sha[a] /\ sha[a] \in 1..Len(commits)
    BY <1>1, <1>2, <1>3, <2>2 DEF AppliesStand, Standing, Noted, TypeOK
  <2>4. \A q \in Moving(a) : q = r
    BY <1>1, <1>2 DEF RevertsAlone, Alone, Moving, Reverts
  <2>5. UNCHANGED <<sha[a], mine[a], undoes[r]>>
    BY <1>1, <1>4
  <2> SUFFICES ASSUME Noted(a)
               PROVE  files' = Tree(sha[a])' /\ Tree(head)' = files' /\ index' = files'
                      /\ mine[a] \in Line(head)'
    BY <2>5 DEF Returned, Noted
  <2>6. CASE Resolve(r)
    <3>1. head = sha[a] /\ UNCHANGED <<files, index, commits, head>>
      BY <1>1, <2>3, <2>6 DEF Resolve, Go, TypeOK, repo, Noted
    <3>2. Moving(a) = {}
      BY <2>4, <2>6 DEF Resolve, At, Moving
    <3>3. files = Tree(sha[a]) /\ index = files /\ mine[a] \in Line(head)
      BY <2>3, <3>1, <3>2 DEF Left
    <3>4. Line(head)' = Line(head)
      BY <3>1 DEF Line
    <3> QED
      BY <2>5, <3>1, <3>3, <3>4 DEF Tree
  <2>7. CASE RevertCommit(r)
    <3>1. pc[r] = "revertCommit" /\ CommitIndex(r) /\ UNCHANGED <<files, index>>
      BY <1>1, <2>7 DEF RevertCommit, At, Go, TypeOK
    <3>2. files = Tree(sha[a]) /\ index = files /\ mine[a] \in Line(head)
      <4>1. r \in Moving(a)
        BY <3>1 DEF Moving, Reverts
      <4>2. \A q \in Moving(a) : pc[q] # "softReset"
        BY <2>4, <3>1
      <4> QED
        BY <2>3, <4>1, <4>2 DEF Left
    <3>3. /\ \A i \in 1..Len(commits) : commits'[i] = commits[i]
          /\ Tree(head)' = index
      BY <3>1, CommitGrows DEF Tree
    <3>4. \A x \in Line(head) : x \in Line(head)'
      BY <3>1, CommitKeepsLine
    <3> QED
      BY <2>3, <2>5, <3>1, <3>2, <3>3, <3>4 DEF Tree
  <2> QED
    BY <2>1, <2>6, <2>7
<1>5. CASE j # r
  <2>1. pc[r] = "restored" /\ pc[r] \in Reverting
    BY <1>1, <1>5 DEF Reverting, RevertSteps
  <2>2. UNCHANGED <<files, index, commits, head>>
    <3>1. undoes[j] # r
      BY <1>1, ApplyAssumption DEF ApplyAssumption
    <3> QED
      BY <1>5, <2>1, <3>1, OthersLeaveAlone
  <2>3. UNCHANGED <<sha[a], mine[a]>>
    <3>1. CASE j = a
      <4>1. FailRecord(a)
        BY <1>3, <2>1, <3>1
        DEF Work, At, Admit, Register, Origin, Add, Commit, Load, HelmRefuses, HelmStarts,
            HelmReturns, RunHooks, Record, Finish, FailFinish, Check, Compare, Rollback,
            RollbackReturns, PostHooks, Resolve, HardReset, SoftReset, RevertCommit
      <4> QED
        BY <4>1 DEF FailRecord, own
    <3> QED
      BY <1>1, <3>1
  <2>4. Returned(r)
    BY <1>1, <1>2 DEF GoneBack
  <2>5. Line(head)' = Line(head)
    BY <2>2 DEF Line
  <2> QED
    BY <1>1, <2>1, <2>2, <2>3, <2>4, <2>5 DEF Returned, Tree, Noted
<1> QED
  BY <1>4, <1>5

(* Nothing is under way in the beginning.                                   *)
LEMMA InitTree == Init => TreeInv
<1> SUFFICES ASSUME Init PROVE TreeInv
  OBVIOUS
<1>1. /\ commits = <<[tree |-> 0, parent |-> 0]>> /\ Len(commits) = 1
      /\ \A j \in Jobs : kind[j] = None /\ pc[j] = "unused" /\ mine[j] = None
  BY DEF Init
<1>2. Parents
  BY <1>1 DEF Parents
<1>3. None \notin {"apply", "revert"}
  BY ApplyAssumption DEF ApplyAssumption, Requests
<1> QED
  BY <1>1, <1>2, <1>3
  DEF TreeInv, Uncommitted, StreamOver, AppliesStand, RevertsAlone, GoneBack

(* Every step keeps it.                                                     *)
LEMMA TreeStep ==
  ASSUME TypeOK, Shape, TreeInv, [Next]_vars
  PROVE  TreeInv'
<1> USE DEF TreeInv
<1>1. ASSUME NEW j \in Jobs, Work(j) PROVE TreeInv'
  BY <1>1, LineStep, UncommittedStep, StreamOverStep, StandStep, AloneStep, BackWholeStep
<1>2. ASSUME NEW j \in Jobs, NEW k \in Kinds, Request(j, k) PROVE TreeInv'
  <2>1. /\ k \in Requests /\ UNCHANGED <<files, index, commits, head, mine, sha, over>>
        /\ pc[j] = "unused" /\ kind[j] = None /\ ~over[j] /\ undoes[j] = None
        /\ sha[j] = None
        /\ kind' = [kind EXCEPT ![j] = k] /\ pc' = [pc EXCEPT ![j] = FirstStep(k)]
        /\ foreign'[j] = (\E o \in Jobs \ {undoes'[j]} : pc[o] \notin Ends)
        /\ \A r \in Jobs \ {j} : foreign'[r] = foreign[r] /\ undoes'[r] = undoes[r]
    <3>1. kind[j] = None
      BY <1>2, ApplyAssumption
      DEF Request, NextJob, Shape, KindFits, TypeOK, ApplyAssumption, Requests, ApplySteps,
          UpgradeSteps, CommitSteps, RollbackSteps, RevertSteps
    <3>2. k \in Requests /\ UNCHANGED <<files, index, commits, head, mine, sha, over>>
      BY <1>2, ApplyAssumption DEF Request, ApplyAssumption, repo, release, record
    <3>3. pc[j] = "unused"
      BY <1>2, <3>1 DEF Request, NextJob, Shape, KindFits
    <3>4. ~over[j] /\ undoes[j] = None /\ sha[j] = None
      BY <3>1, <3>3, ApplyAssumption
      DEF Shape, Undoing, OriginKnown, ApplyAssumption, Requests, TypeOK, Known
    <3>5. /\ kind' = [kind EXCEPT ![j] = k] /\ pc' = [pc EXCEPT ![j] = FirstStep(k)]
          /\ foreign' = [foreign EXCEPT ![j] = \E o \in Jobs \ {undoes'[j]} : pc[o] \notin Ends]
      BY <1>2 DEF Request, Set, Go
    <3>6. \A r \in Jobs \ {j} : undoes'[r] = undoes[r]
      BY <1>2 DEF Request, Set, TypeOK
    <3> QED
      BY <3>1, <3>2, <3>3, <3>4, <3>5, <3>6 DEF TypeOK
  <2>2. /\ pc'[j] \in {"admit", "register", "add", "rollback", "check"}
        /\ kind'[j] = k /\ (k = "revert" => pc'[j] = "check") /\ (k = "apply" => pc'[j] = "admit")
        /\ \A r \in Jobs \ {j} : kind'[r] = kind[r] /\ pc'[r] = pc[r]
    BY <2>1 DEF FirstStep, Requests, TypeOK
  <2>3. Parents'
    BY <2>1 DEF Parents
  <2>4. Uncommitted'
    BY <2>1, <2>2 DEF Uncommitted, Early
  <2>5. StreamOver'
    BY <2>1, <2>2 DEF StreamOver, Reverting, RevertSteps
  <2>6. ASSUME NEW a \in Jobs, kind'[a] = "apply", ~foreign'[a] PROVE Standing(a)'
    <3>1. CASE a = j
      BY <2>1, <2>2, <2>6, <3>1 DEF Standing, Committed
    <3>2. CASE a # j
      <4>1. Standing(a) /\ a # None
        BY <2>1, <2>2, <2>6, <3>2, ApplyAssumption DEF AppliesStand, ApplyAssumption
      <4>2. /\ Moving(a)' = Moving(a)
            /\ \A r \in Reverts(a) : r # j /\ pc'[r] = pc[r]
            /\ \A r \in Reverts(a)' : pc'[r] \in {"hardReset", "softReset"} => r \in Reverts(a)
        BY <2>1, <2>2, <4>1 DEF Moving, Reverts
      <4>3. Left(a) => Left(a)'
        BY <2>1, <4>2 DEF Left, Tree, Line, Moving
      <4> QED
        BY <2>1, <2>2, <3>2, <4>1, <4>3 DEF Standing, Noted
    <3> QED
      BY <3>1, <3>2
  <2>7. RevertsAlone'
    <3>1. ASSUME NEW r \in Jobs, kind'[r] = "revert", ~foreign'[r],
                 NEW q \in Jobs \ {r}, undoes'[q] = undoes'[r]
          PROVE  pc'[q] \notin {"softReset", "revertCommit"}
      <4>1. CASE q = j
        BY <2>2, <4>1
      <4>2. CASE r = j
        <5>1. undoes[q] = undoes'[j] /\ undoes'[j] \in Jobs /\ kind[undoes'[j]] \in {"apply", "upgrade"}
          BY <1>2, <2>1, <2>2, <3>1, <4>2 DEF Request, Set, TypeOK
        <5>2. q # undoes'[j]
          BY <5>1, ApplyAssumption DEF Shape, Undoing, ApplyAssumption
        <5>3. pc[q] \in Ends
          BY <2>1, <3>1, <4>2, <5>2
        <5> QED
          BY <2>2, <3>1, <4>2, <5>3 DEF Ends
      <4>3. CASE q # j /\ r # j
        BY <2>1, <2>2, <3>1, <4>3 DEF RevertsAlone, Alone
      <4> QED
        BY <4>1, <4>2, <4>3
    <3> QED
      BY <3>1 DEF RevertsAlone, Alone
  <2>8. ASSUME NEW r \in Jobs, kind'[r] = "revert", ~foreign'[r], ~foreign'[undoes'[r]],
               pc'[r] = "restored"
        PROVE  Returned(r)'
    <3>1. r # j /\ kind[r] = "revert" /\ ~foreign[r] /\ undoes'[r] = undoes[r]
      BY <2>1, <2>2, <2>8
    <3>2. undoes[r] # j
      BY <2>1, <3>1, ApplyAssumption DEF Shape, Undoing, ApplyAssumption, Requests
    <3>3. Returned(r)
      BY <2>1, <2>8, <3>1, <3>2 DEF GoneBack, Shape, Undoing
    <3>4. Line(head)' = Line(head)
      BY <2>1 DEF Line
    <3> QED
      BY <2>1, <2>2, <2>8, <3>1, <3>3, <3>4 DEF Returned, Tree, Noted
  <2> QED
    BY <2>3, <2>4, <2>5, <2>6, <2>7, <2>8 DEF AppliesStand, GoneBack, Returned
<1>3. CASE Edit \/ \E c \in 1..Len(commits) : Reset(c)
  <2>1. /\ UNCHANGED <<commits, kind, pc, undoes, mine, over>>
        /\ \A j \in Jobs : pc[j] # "unused" => foreign'[j]
    BY <1>3 DEF Edit, Reset, HardResetTo, OperatorDisturbs, own, record
  <2>2. \A j \in Jobs : kind[j] \in {"apply", "revert"} => pc[j] # "unused"
    BY DEF Shape, KindFits, ApplySteps, UpgradeSteps, RevertSteps, RollbackSteps
  <2> QED
    BY <2>1, <2>2
    DEF Parents, Uncommitted, StreamOver, AppliesStand, RevertsAlone, GoneBack
<1>4. CASE Crash
  <2>1. /\ UNCHANGED <<files, index, commits, head, kind, sha, mine, undoes, foreign>>
        /\ \A j \in Jobs : pc'[j] = (IF pc[j] \in Ends THEN pc[j] ELSE "dead") /\ ~over'[j]
    BY <1>4 DEF Crash, own, repo
  <2>2. Line(head)' = Line(head)
    BY <2>1 DEF Line
  <2>3. \A j \in Jobs : pc'[j] \in Ends /\ (pc'[j] \in {"unused", "restored"} => pc[j] = pc'[j])
    BY <2>1 DEF Ends
  <2>4. Parents' /\ Uncommitted' /\ StreamOver'
    <3>1. Parents'
      BY <2>1 DEF Parents
    <3>2. Uncommitted'
      BY <2>3, <2>1 DEF Uncommitted, Early, Ends
    <3>3. StreamOver'
      BY <2>3, <2>1 DEF StreamOver, Reverting, RevertSteps, RollbackSteps, Ends
    <3> QED
      BY <3>1, <3>2, <3>3
  <2>5. AppliesStand' /\ RevertsAlone'
    BY <2>1, <2>3 DEF AppliesStand, Standing, Committed, RevertsAlone, Alone, Ends
  <2>6. GoneBack'
    BY <2>1, <2>2, <2>3 DEF GoneBack, Returned, Tree, Noted
  <2> QED
    BY <2>4, <2>5, <2>6
<1>5. CASE Reconcile \/ UNCHANGED vars
  <2>1. UNCHANGED <<files, index, commits, head, kind, sha, mine, undoes, foreign, pc, over>>
    BY <1>5 DEF Reconcile, vars, own, repo, record
  <2>2. Line(head)' = Line(head)
    BY <2>1 DEF Line
  <2>3. \A a \in Jobs : Left(a) => Left(a)'
    BY <2>1 DEF Left, Moving, Reverts, Tree, Line
  <2> QED
    BY <2>1, <2>2, <2>3
    DEF Parents, Uncommitted, StreamOver, AppliesStand, Standing, RevertsAlone, Alone,
        GoneBack, Returned, Tree, Noted
<1>6. ASSUME NEW j \in Jobs, ResetFails(j) PROVE TreeInv'
  <2>1. /\ UNCHANGED <<commits, kind, undoes, mine, over>>
        /\ \A k \in Jobs : pc'[k] = pc[k] \/ pc'[k] = "ended"
        /\ \A k \in Jobs : pc[k] # "unused" => foreign'[k]
    BY <1>6 DEF ResetFails, OperatorDisturbs, Go, own, record, TypeOK
  <2>2. \A k \in Jobs : kind[k] \in {"apply", "revert"} => pc[k] # "unused"
    BY DEF Shape, KindFits, ApplySteps, UpgradeSteps, RevertSteps, RollbackSteps
  <2>3. Uncommitted' /\ StreamOver'
    BY <2>1 DEF Uncommitted, Early, StreamOver, Reverting, RevertSteps, RollbackSteps
  <2> QED
    BY <2>1, <2>2, <2>3 DEF Parents, AppliesStand, RevertsAlone, GoneBack
<1> QED
  BY <1>1, <1>2, <1>3, <1>4, <1>5, <1>6 DEF Next

(* RevertApply takes an apply back as far as it noted where it began, when  *)
(* nobody interferes: the cluster on the configuration before it, branch    *)
(* and files on the commit before it, and what the apply committed still in *)
(* the history (RestoreCommit).                                             *)
THEOREM RevertReturns == Spec => []RevertGoesBackWhole
<1>1. Init => TreeInv /\ ClusterIsLatest /\ BackSoFar
  BY InitTree, ApplyAssumption DEF Init, ClusterIsLatest, BackSoFar, Latest, Back
<1>2. /\ TypeOK /\ Shape /\ ClusterIsLatest /\ BackSoFar /\ TreeInv /\ [Next]_vars
      => (TypeOK /\ Shape /\ ClusterIsLatest /\ BackSoFar /\ TreeInv)'
  BY TypeStep, ShapeStep, BackSoFarStep, TreeStep
<1>3. TypeOK /\ Shape /\ BackSoFar /\ TreeInv => RevertGoesBackWhole
  <2> SUFFICES ASSUME TypeOK, Shape, BackSoFar, TreeInv, NEW r \in Jobs, pc[r] = "restored",
                      ~foreign[r], ~foreign[undoes[r]]
               PROVE  LET a == undoes[r] IN
                      /\ rev[a] # None => cluster = releases[rev[a]].config
                      /\ sha[a] # None /\ mine[a] # None =>
                            /\ Tree(head) = Tree(sha[a]) /\ files = Tree(head)
                            /\ index = Tree(head) /\ mine[a] \in Ancestry
    BY DEF RevertGoesBackWhole
  <2>1. kind[r] = "revert"
    BY RevertingIsRevert DEF Shape, Reverting, RevertSteps, RollbackSteps
  <2>2. Returned(r)
    BY <2>1 DEF TreeInv, GoneBack
  <2>3. rev[r] # None => cluster = releases[rev[r]].config
    BY <2>1 DEF BackSoFar, Back
  <2>4. rev[r] = rev[undoes[r]]
    BY <2>1 DEF Shape, Known, Reverting, RevertSteps, RollbackSteps
  <2> QED
    BY <2>2, <2>3, <2>4 DEF Returned, Noted, Ancestry
<1> QED
  BY <1>1, <1>2, <1>3, InitShape, PTL DEF Spec

=============================================================================
