-------------------------- MODULE ConfigApplyProofs --------------------------
(* For any number of requests of any kinds, edits and troubles: changing    *)
(* the homeserver keeps its types, a revert waits for what it takes back,   *)
(* and the rows of upgrade_history are owned and true.                      *)
EXTENDS ConfigApply, SequenceTheorems, FiniteSetTheorems, TLAPS

(* The steps each kind of request goes through.                             *)
UpgradeSteps  == {"register", "load", "helm", "rolling", "hooks", "record", "finish",
                  "failFinish", "failRecord", "ended", "dead"}
ApplySteps    == (UpgradeSteps \ {"load"}) \cup {"admit", "origin", "add", "commit"}
CommitSteps   == {"add", "commit", "ended", "dead"}
RollbackSteps == {"rollback", "rollingBack", "postHooks", "ended", "dead"}
RevertSteps   == RollbackSteps \cup {"check", "compare", "resolve", "hardReset",
                                     "softReset", "revertCommit", "restored"}
Reverting     == RevertSteps \ {"check", "ended", "dead"}
NotWritten    == {"unused", "admit", "register", "origin", "add", "commit", "load",
                  "helm", "check", "compare", "rollback"}
Written       == {"rolling", "hooks", "record", "finish", "rollingBack"}

KindFits ==
    \A j \in Jobs : /\ kind[j] = None       => pc[j] = "unused"
                    /\ kind[j] = "apply"    => pc[j] \in ApplySteps
                    /\ kind[j] = "upgrade"  => pc[j] \in UpgradeSteps
                    /\ kind[j] = "commit"   => pc[j] \in CommitSteps
                    /\ kind[j] = "rollback" => pc[j] \in RollbackSteps
                    /\ kind[j] = "revert"   => pc[j] \in RevertSteps

(* Only a revert takes something back, and what it takes back is an apply   *)
(* or an upgrade.                                                           *)
Undoing ==
    \A j \in Jobs : /\ kind[j] = "revert" => /\ undoes[j] \in Jobs
                                             /\ kind[undoes[j]] \in {"apply", "upgrade"}
                    /\ kind[j] # "revert" => undoes[j] = None

(* Only an apply notes where it began from, and a stream that is over is    *)
(* that of an operation at its end.                                         *)
OriginKnown ==
    \A j \in Jobs : /\ kind[j] \in {"upgrade", None} => rev[j] = None /\ sha[j] = None
                    /\ over[j] => pc[j] \in {"failRecord", "ended"}

(* A revert that got past its check goes to where the apply began, and the  *)
(* names a step uses are there.                                             *)
Known ==
    \A j \in Jobs : /\ pc[j] \in {"rollback", "rollingBack"} => rev[j] # None
                    /\ kind[j] = "revert" /\ pc[j] \in Reverting =>
                          /\ kind[undoes[j]] = "apply"
                          /\ rev[j] = rev[undoes[j]] /\ sha[j] = sha[undoes[j]]
                          /\ \/ pc[undoes[j]] \in {"failRecord", "ended"}
                             \/ pc[undoes[j]] = "dead" /\ pc[j] = "restored"
                    /\ pc[j] \in {"hardReset", "softReset"} => mine[j] # None /\ sha[j] # None
                    /\ pc[j] \in NotWritten => written[j] = None
                    /\ pc[j] \in Written => written[j] # None

Serving   == up = "down" => \A j \in Jobs : pc[j] \in Ends
Installed == Len(releases) > 0

Shape == KindFits /\ Undoing /\ OriginKnown /\ Known /\ Serving /\ Installed

-----------------------------------------------------------------------------
(* The sequences and how they change.                                       *)

CommitObject == [tree : Configs, parent : Nat]
Revision     == [config : Configs, status : {"pending", "deployed", "failed"}]

(* Helm writes a new revision on top of the others.                         *)
LEMMA StartsGrows ==
  ASSUME TypeOK, NEW j \in Jobs, NEW config \in Configs, Starts(j, config)
  PROVE  /\ releases' \in Seq(Revision) /\ Len(releases') = Len(releases) + 1
         /\ \A i \in 1..Len(releases) : releases'[i] = releases[i]
         /\ releases'[Len(releases) + 1] = [config |-> config, status |-> "pending"]
         /\ written' \in [Jobs -> 1..Len(releases') \cup {None}]
         /\ written'[j] = Len(releases) + 1
         /\ \A k \in Jobs \ {j} : written'[k] = written[k]
         /\ cluster' = config
<1> DEFINE new == [config |-> config, status |-> "pending"]
<1>1. releases \in Seq(Revision) /\ new \in Revision /\ releases' = Append(releases, new)
  BY DEF TypeOK, Revision, Starts
<1>2. /\ releases' \in Seq(Revision) /\ Len(releases') = Len(releases) + 1
      /\ \A i \in 1..Len(releases) : releases'[i] = releases[i]
      /\ releases'[Len(releases) + 1] = new
  BY <1>1, AppendProperties
<1>3. written' = [written EXCEPT ![j] = Len(releases) + 1] /\ cluster' = config
  BY DEF Starts, Set, Latest
<1>4. Len(releases) \in Nat
  BY <1>1, LenProperties
<1> QED
  BY <1>2, <1>3, <1>4 DEF TypeOK

(* A rollout ends: the status of its own revision, and nothing else.        *)
LEMMA EndedKeeps ==
  ASSUME TypeOK, NEW j \in Jobs, written[j] # None,
         NEW result \in {"deployed", "failed"}, Ended(j, result)
  PROVE  /\ releases' \in Seq(Revision) /\ Len(releases') = Len(releases)
         /\ \A i \in 1..Len(releases) :
               /\ releases'[i].config = releases[i].config
               /\ i # written[j] => releases'[i] = releases[i]
         /\ releases'[written[j]] = [config |-> releases[written[j]].config, status |-> result]
<1> DEFINE w == written[j]
           new == [releases[w] EXCEPT !.status = result]
<1>1. releases \in Seq(Revision) /\ w \in 1..Len(releases)
  BY DEF TypeOK, Revision
<1>2. releases[w] \in Revision
  BY <1>1, ElementOfSeq
<1>3. /\ new \in Revision /\ new = [config |-> releases[w].config, status |-> result]
      /\ new.config = releases[w].config
  BY <1>2 DEF Revision
<1>4. releases' = [releases EXCEPT ![w] = new]
  BY DEF Ended
<1> HIDE DEF new, w
<1>5. /\ releases' \in Seq(Revision) /\ Len(releases') = Len(releases)
      /\ \A i \in 1..Len(releases) : releases'[i] = IF i = w THEN new ELSE releases[i]
  BY <1>1, <1>3, <1>4, ExceptSeq
<1> QED
  BY <1>1, <1>3, <1>5 DEF w

(* A commit goes on top of the branch, or there is nothing to commit.       *)
LEMMA CommitGrows ==
  ASSUME TypeOK, NEW j \in Jobs, CommitIndex(j)
  PROVE  /\ commits' \in Seq(CommitObject) /\ Len(commits) \in Nat /\ Len(commits') \in Nat
         /\ Len(commits') >= Len(commits)
         /\ \A i \in 1..Len(commits) : commits'[i] = commits[i]
         /\ head' \in 1..Len(commits') /\ commits'[head'].tree = index
         /\ mine' \in [Jobs -> 1..Len(commits') \cup {None}]
         /\ mine'[j] = head' /\ \A k \in Jobs \ {j} : mine'[k] = mine[k]
<1> DEFINE new == [tree |-> index, parent |-> head]
<1>1. /\ commits \in Seq(CommitObject) /\ Len(commits) \in Nat /\ new \in CommitObject
      /\ head \in 1..Len(commits)
  BY LenProperties DEF TypeOK, CommitObject
<1>2. CASE index = Tree(head)
  BY <1>1, <1>2 DEF CommitIndex, Set, Tree, TypeOK
<1>3. CASE index # Tree(head)
  <2>1. /\ commits' = Append(commits, new) /\ head' = Len(commits) + 1
        /\ mine' = [mine EXCEPT ![j] = head']
    BY <1>3 DEF CommitIndex, Set
  <2>2. /\ commits' \in Seq(CommitObject) /\ Len(commits') = Len(commits) + 1
        /\ \A i \in 1..Len(commits) : commits'[i] = commits[i]
        /\ commits'[Len(commits) + 1] = new
    BY <1>1, <2>1, AppendProperties
  <2> QED
    BY <1>1, <2>1, <2>2 DEF TypeOK
<1> QED
  BY <1>2, <1>3

(* There is room for the trouble that is about to happen.                   *)
LEMMA TroubleIsCounted ==
  ASSUME TypeOK, Trouble
  PROVE  /\ crashes + 1 \in 0..MaxTroubles /\ resets + 1 \in 0..MaxTroubles
         /\ trips + 1 \in 0..MaxTroubles
<1>1. Cardinality(lost) \in Nat
  BY ApplyAssumption, FS_Subset, FS_CardinalityType DEF ApplyAssumption, TypeOK
<1> QED
  BY <1>1, ApplyAssumption DEF ApplyAssumption, TypeOK, Trouble

(* A question that fails is counted, one that does not is not.              *)
LEMMA TripsTyped == ASSUME TypeOK, Trips \/ Succeeds PROVE trips' \in 0..MaxTroubles
BY TroubleIsCounted DEF Trips, Succeeds, TypeOK

(* What an UPDATE of a row may leave behind.                                *)
LEMMA WriteTyped ==
  ASSUME TypeOK, NEW j \in Jobs, NEW word \in InFlight \cup Terminal, Write(j, word)
  PROVE  /\ row' \in [Jobs -> InFlight \cup Terminal \cup {None}]
         /\ lost' \subseteq Jobs /\ lost \subseteq lost'
         /\ \A k \in Jobs \ {j} : row'[k] = row[k]
         /\ row'[j] = IF row[j] = None \/ UNCHANGED row THEN row[j] ELSE word
         /\ row[j] = None \/ row'[j] = word \/ j \in lost'
  BY DEF Write, Set, TypeOK

(* What a commit or a revision holds is a configuration.                    *)
LEMMA Elements ==
  ASSUME TypeOK, Shape
  PROVE  /\ Len(commits) \in Nat /\ Len(releases) \in Nat
         /\ Latest \in 1..Len(releases)
         /\ \A c \in 1..Len(commits) : Tree(c) \in Configs
         /\ \A r \in 1..Len(releases) : releases[r] \in Revision /\ releases[r].config \in Configs
<1>1. commits \in Seq(CommitObject) /\ releases \in Seq(Revision)
  BY DEF TypeOK, CommitObject, Revision
<1>2. \A c \in 1..Len(commits) : commits[c] \in CommitObject
  BY <1>1, ElementOfSeq
<1>3. \A r \in 1..Len(releases) : releases[r] \in Revision
  BY <1>1, ElementOfSeq
<1>4. Len(commits) \in Nat /\ Len(releases) \in Nat /\ Len(releases) > 0
  BY <1>1, LenProperties DEF Shape, Installed
<1> QED
  BY <1>2, <1>3, <1>4 DEF CommitObject, Revision, Tree, Latest

(* The steps of a revert are taken by reverts, and reverts take back jobs.  *)
LEMMA CheckIsRevert ==
  ASSUME TypeOK, Shape, NEW j \in Jobs, pc[j] = "check"
  PROVE  kind[j] = "revert" /\ undoes[j] \in Jobs /\ kind[undoes[j]] \in {"apply", "upgrade"}
<1>1. kind[j] \in {"apply", "upgrade", "commit", "rollback", "revert", None}
  BY ApplyAssumption DEF ApplyAssumption, Requests, TypeOK
<1> QED
  BY <1>1 DEF Shape, KindFits, Undoing, ApplySteps, UpgradeSteps, CommitSteps, RollbackSteps

(* So are the steps beyond it.                                              *)
LEMMA RevertingIsRevert ==
  ASSUME TypeOK, Shape, NEW j \in Jobs,
         pc[j] \in {"compare", "resolve", "hardReset", "softReset", "revertCommit", "restored"}
  PROVE  kind[j] = "revert" /\ undoes[j] \in Jobs /\ kind[undoes[j]] \in {"apply", "upgrade"}
<1>1. kind[j] \in {"apply", "upgrade", "commit", "rollback", "revert", None}
  BY ApplyAssumption DEF ApplyAssumption, Requests, TypeOK
<1> QED
  BY <1>1 DEF Shape, KindFits, Undoing, ApplySteps, UpgradeSteps, CommitSteps, RollbackSteps

(* Going on, and disturbing or not, keeps steps and flags what they are.    *)
LEMMA GoTyped ==
  ASSUME TypeOK, NEW j \in Jobs, NEW step \in Steps, Go(j, step)
  PROVE  pc' \in [Jobs -> Steps]
  BY DEF TypeOK, Go

(* Disturbing others, or nobody, is a matter of yes or no.                  *)
LEMMA ForeignTyped ==
  ASSUME TypeOK, NEW j, Disturbs(j) \/ Quietly \/ OperatorDisturbs
  PROVE  foreign' \in [Jobs -> BOOLEAN]
  BY DEF TypeOK, Disturbs, Quietly, OperatorDisturbs

(* Whether the files move or not, it is noted as one or the other.          *)
LEMMA MovedTyped == ASSUME TypeOK, FilesMove PROVE moved' \in [Jobs -> BOOLEAN]
BY DEF TypeOK, FilesMove

(* Every step keeps the types.                                              *)
LEMMA TypeStep == ASSUME TypeOK, Shape, [Next]_vars PROVE TypeOK'
<1> USE DEF Set
<1>0. /\ Len(commits) \in Nat /\ Len(releases) \in Nat /\ Latest \in 1..Len(releases)
      /\ \A c \in 1..Len(commits) : Tree(c) \in Configs
      /\ \A r \in 1..Len(releases) : releases[r].config \in Configs
  BY Elements
<1>1. ASSUME NEW j \in Jobs, NEW k \in Kinds, Request(j, k) PROVE TypeOK'
  <2>1. k \in {"apply", "upgrade", "commit", "rollback", "revert"}
    BY ApplyAssumption DEF ApplyAssumption, Requests
  <2>2. FirstStep(k) \in Steps
    BY <2>1 DEF FirstStep, Steps
  <2>3. /\ kind' \in [Jobs -> Kinds \cup {None}] /\ pc' \in [Jobs -> Steps]
        /\ foreign' \in [Jobs -> BOOLEAN]
    BY <1>1, <2>2, GoTyped DEF Request, TypeOK
  <2>4. undoes' \in [Jobs -> Jobs \cup {None}]
    BY <1>1 DEF Request, TypeOK
  <2>5. rev' \in [Jobs -> 1..Len(releases) \cup {None}]
    BY <1>1, <1>0 DEF Request, Latest, TypeOK
  <2> QED
    BY <1>1, <2>3, <2>4, <2>5 DEF TypeOK, Request, budget, repo, release, record
<1>2. ASSUME NEW j \in Jobs, Admit(j) PROVE TypeOK'
  <2>1. pc' \in [Jobs -> Steps]
    BY <1>2, GoTyped DEF Admit, Steps
  <2>2. values' \in [Jobs -> Configs]
    BY <1>2 DEF Admit, TypeOK
  <2> QED
    BY <1>2, <2>1, <2>2 DEF TypeOK, Admit, Quietly, budget, repo, release, record
<1>3. ASSUME NEW j \in Jobs, Register(j) PROVE TypeOK'
  <2>1. pc' \in [Jobs -> Steps]
    BY <1>3, GoTyped DEF Register, Steps
  <2>2. rev' \in [Jobs -> 1..Len(releases) \cup {None}]
    BY <1>3, <1>0 DEF Register, TypeOK
  <2>3. row' \in [Jobs -> InFlight \cup Terminal \cup {None}] /\ lost' \subseteq Jobs
    BY <1>3 DEF Register, InFlight, TypeOK
  <2>4. trips' \in 0..MaxTroubles
    BY <1>3, TripsTyped DEF Register
  <2> QED
    BY <1>3, <2>1, <2>2, <2>3, <2>4 DEF TypeOK, Register, Quietly, repo, release
<1>4. ASSUME NEW j \in Jobs, Origin(j) PROVE TypeOK'
  <2>1. pc' \in [Jobs -> Steps]
    BY <1>4, GoTyped DEF Origin, Steps
  <2>2. sha' \in [Jobs -> 1..Len(commits) \cup {None}]
    BY <1>4 DEF Origin, TypeOK
  <2>3. trips' \in 0..MaxTroubles
    BY <1>4, TripsTyped DEF Origin
  <2> QED
    BY <1>4, <2>1, <2>2, <2>3 DEF TypeOK, Origin, Quietly, repo, release, record
<1>5. ASSUME NEW j \in Jobs, Add(j) PROVE TypeOK'
  <2>1. pc' \in [Jobs -> Steps]
    BY <1>5, GoTyped DEF Add, Deploys, Steps
  <2>2. foreign' \in [Jobs -> BOOLEAN]
    BY <1>5, ForeignTyped DEF Add
  <2>3. row' \in [Jobs -> InFlight \cup Terminal \cup {None}] /\ lost' \subseteq Jobs
    BY <1>5, WriteTyped DEF Add, Deploys, InFlight, TypeOK
  <2>4. trips' \in 0..MaxTroubles /\ index' \in Configs
    BY <1>5, TripsTyped DEF Add, TypeOK
  <2> QED
    BY <1>5, <2>1, <2>2, <2>3, <2>4 DEF TypeOK, Add, release, own
<1>6. ASSUME NEW j \in Jobs, Commit(j) PROVE TypeOK'
  <2>1. /\ commits' \in Seq(CommitObject) /\ Len(commits') \in Nat
        /\ Len(commits') >= Len(commits)
        /\ head' \in 1..Len(commits') /\ mine' \in [Jobs -> 1..Len(commits') \cup {None}]
        /\ trips' \in 0..MaxTroubles
    <3>1. CASE CommitIndex(j)
      BY <3>1, CommitGrows, TripsTyped DEF CommitIndex
    <3>2. CASE CommitFails
      BY <1>0, <3>2, TripsTyped DEF CommitFails, TypeOK, CommitObject
    <3> QED
      BY <1>6, <3>1, <3>2 DEF Commit
  <2>2. pc' \in [Jobs -> Steps] /\ foreign' \in [Jobs -> BOOLEAN]
    BY <1>6, GoTyped, ForeignTyped DEF Commit, Deploys, Steps
  <2>3. row' \in [Jobs -> InFlight \cup Terminal \cup {None}] /\ lost' \subseteq Jobs
    BY <1>6, WriteTyped DEF Commit, Deploys, InFlight, TypeOK
  <2>4. sha' \in [Jobs -> 1..Len(commits') \cup {None}]
    BY <1>0, <1>6, <2>1 DEF Commit, TypeOK
  <2> QED
    BY <1>6, <2>1, <2>2, <2>3, <2>4 DEF TypeOK, Commit, CommitObject, release
<1>7. ASSUME NEW j \in Jobs, Load(j) PROVE TypeOK'
  <2>1. pc' \in [Jobs -> Steps]
    BY <1>7, GoTyped DEF Load, Steps
  <2>2. values' \in [Jobs -> Configs]
    BY <1>7, ApplyAssumption DEF Load, TypeOK, ApplyAssumption, Configs, Empty
  <2>3. row' \in [Jobs -> InFlight \cup Terminal \cup {None}] /\ lost' \subseteq Jobs
    BY <1>7, WriteTyped DEF Load, InFlight
  <2>4. trips' \in 0..MaxTroubles
    BY <1>7, TripsTyped DEF Load
  <2> QED
    BY <1>7, <2>1, <2>2, <2>3, <2>4 DEF TypeOK, Load, Quietly, repo, release
<1>8. ASSUME NEW j \in Jobs, HelmRefuses(j) PROVE TypeOK'
  <2>1. pc' \in [Jobs -> Steps]
    BY <1>8, GoTyped DEF HelmRefuses, Steps
  <2> QED
    BY <1>8, <2>1 DEF TypeOK, HelmRefuses, Quietly, budget, repo, release, own, record
<1>9. ASSUME NEW j \in Jobs, HelmStarts(j) PROVE TypeOK'
  <2>1. values[j] \in Configs
    BY DEF TypeOK
  <2>2. /\ releases' \in Seq(Revision) /\ Len(releases') = Len(releases) + 1
        /\ written' \in [Jobs -> 1..Len(releases') \cup {None}]
        /\ cluster' \in Configs
    BY <1>9, <2>1, StartsGrows DEF HelmStarts
  <2>3. rev' \in [Jobs -> 1..Len(releases') \cup {None}]
    BY <1>0, <1>9, <2>2 DEF HelmStarts, TypeOK
  <2>4. pc' \in [Jobs -> Steps] /\ foreign' \in [Jobs -> BOOLEAN]
    BY <1>9, GoTyped, ForeignTyped DEF HelmStarts, Steps
  <2> QED
    BY <1>9, <2>2, <2>3, <2>4 DEF TypeOK, HelmStarts, Revision, budget, repo, record
<1>10. ASSUME NEW j \in Jobs, HelmReturns(j) PROVE TypeOK'
  <2>1. releases' \in Seq(Revision) /\ Len(releases') = Len(releases)
    BY <1>10, EndedKeeps DEF HelmReturns, At, Shape, Known, Written
  <2>2. row' \in [Jobs -> InFlight \cup Terminal \cup {None}] /\ lost' \subseteq Jobs
    BY <1>10, WriteTyped DEF HelmReturns, InFlight, TypeOK
  <2>3. pc' \in [Jobs -> Steps] /\ foreign' \in [Jobs -> BOOLEAN]
    BY <1>10, GoTyped, ForeignTyped DEF HelmReturns, Steps
  <2> QED
    BY <1>10, <2>1, <2>2, <2>3 DEF TypeOK, HelmReturns, Revision, budget, repo, own
<1>11. ASSUME NEW j \in Jobs, RunHooks(j) PROVE TypeOK'
  <2>1. pc' \in [Jobs -> Steps]
    BY <1>11, GoTyped DEF RunHooks, Steps
  <2>2. hooksRun' \in [Jobs -> {"none", "allRan", "oneFailed", "notListed"}]
    BY <1>11 DEF RunHooks, HooksRan, TypeOK
  <2> QED
    BY <1>11, <2>1, <2>2 DEF TypeOK, RunHooks, Quietly, budget, repo, release, record
<1>12. ASSUME NEW j \in Jobs, Record(j) PROVE TypeOK'
  <2>1. pc' \in [Jobs -> Steps]
    BY <1>12, GoTyped DEF Record, Steps
  <2>2. row' \in [Jobs -> InFlight \cup Terminal \cup {None}] /\ lost' \subseteq Jobs
    BY <1>12, WriteTyped DEF Record, FinalStatus, Terminal
  <2> QED
    BY <1>12, <2>1, <2>2 DEF TypeOK, Record, Quietly, budget, repo, release, own
<1>13. ASSUME NEW j \in Jobs, Finish(j) \/ FailFinish(j) PROVE TypeOK'
  <2>1. pc' \in [Jobs -> Steps]
    BY <1>13, GoTyped DEF Finish, FailFinish, Steps
  <2>2. over' \in [Jobs -> BOOLEAN]
    BY <1>13 DEF Finish, FailFinish, TypeOK
  <2> QED
    BY <1>13, <2>1, <2>2 DEF TypeOK, Finish, FailFinish, Quietly, budget, repo, release, own
<1>14. ASSUME NEW j \in Jobs, FailRecord(j) PROVE TypeOK'
  <2>1. pc' \in [Jobs -> Steps]
    BY <1>14, GoTyped DEF FailRecord, Steps
  <2>2. row' \in [Jobs -> InFlight \cup Terminal \cup {None}] /\ lost' \subseteq Jobs
    BY <1>14, WriteTyped DEF FailRecord, Terminal
  <2> QED
    BY <1>14, <2>1, <2>2 DEF TypeOK, FailRecord, Quietly, budget, repo, release, own
<1>15. ASSUME NEW j \in Jobs, Check(j) PROVE TypeOK'
  <2>1. undoes[j] \in Jobs
    BY <1>15, CheckIsRevert DEF Check, At
  <2>2. /\ rev' \in [Jobs -> 1..Len(releases) \cup {None}]
        /\ sha' \in [Jobs -> 1..Len(commits) \cup {None}]
    <3>1. CASE UNCHANGED <<rev, sha>>
      BY <3>1 DEF TypeOK
    <3>2. CASE /\ rev' = [rev EXCEPT ![j] = rev[undoes[j]]]
               /\ sha' = [sha EXCEPT ![j] = sha[undoes[j]]]
      BY <2>1, <3>2 DEF TypeOK
    <3> QED
      BY <1>15, <3>1, <3>2 DEF Check
  <2>3. pc' \in [Jobs -> Steps]
    BY <1>15, GoTyped DEF Check, Steps
  <2> QED
    BY <1>15, <2>2, <2>3 DEF TypeOK, Check, Quietly, budget, repo, release, record
<1>16. ASSUME NEW j \in Jobs, Compare(j) PROVE TypeOK'
  <2>1. pc' \in [Jobs -> Steps]
    BY <1>16, GoTyped DEF Compare, Steps
  <2>2. trips' \in 0..MaxTroubles
    BY <1>16, TripsTyped DEF Compare
  <2> QED
    BY <1>16, <2>1, <2>2 DEF TypeOK, Compare, Quietly, repo, release, own, record
<1>17. ASSUME NEW j \in Jobs, Rollback(j) PROVE TypeOK'
  <2>1. CASE Starts(j, releases[rev[j]].config) /\ Go(j, "rollingBack") /\ Disturbs(j)
    <3>1. releases[rev[j]].config \in Configs
      BY <1>0, <1>17 DEF Rollback, At, Shape, Known, TypeOK
    <3>2. /\ releases' \in Seq(Revision) /\ Len(releases') = Len(releases) + 1
          /\ written' \in [Jobs -> 1..Len(releases') \cup {None}]
          /\ cluster' \in Configs
      BY <2>1, <3>1, StartsGrows
    <3>3. rev' \in [Jobs -> 1..Len(releases') \cup {None}]
      BY <1>0, <1>17, <3>2 DEF Rollback, TypeOK
    <3>4. pc' \in [Jobs -> Steps] /\ foreign' \in [Jobs -> BOOLEAN]
      BY <2>1, GoTyped, ForeignTyped DEF Steps
    <3> QED
      BY <1>17, <3>2, <3>3, <3>4 DEF TypeOK, Rollback, Revision, budget, repo, record
  <2>2. CASE Go(j, "ended") /\ Quietly /\ UNCHANGED <<releases, cluster, written>>
    <3>1. pc' \in [Jobs -> Steps]
      BY <2>2, GoTyped DEF Steps
    <3> QED
      BY <1>17, <2>2, <3>1 DEF TypeOK, Rollback, Quietly, budget, repo, record
  <2> QED
    BY <1>17, <2>1, <2>2 DEF Rollback
<1>18. ASSUME NEW j \in Jobs, RollbackReturns(j) PROVE TypeOK'
  <2>1. releases' \in Seq(Revision) /\ Len(releases') = Len(releases)
    BY <1>18, EndedKeeps DEF RollbackReturns, At, Shape, Known, Written
  <2>2. pc' \in [Jobs -> Steps] /\ foreign' \in [Jobs -> BOOLEAN]
    BY <1>18, GoTyped, ForeignTyped DEF RollbackReturns, Steps
  <2> QED
    BY <1>18, <2>1, <2>2 DEF TypeOK, RollbackReturns, Revision, budget, repo, own, record
<1>19. ASSUME NEW j \in Jobs, PostHooks(j) PROVE TypeOK'
  <2>1. pc' \in [Jobs -> Steps]
    BY <1>19, GoTyped DEF PostHooks, Steps
  <2> QED
    BY <1>19, <2>1 DEF TypeOK, PostHooks, Quietly, budget, repo, release, own, record
<1>20. ASSUME NEW j \in Jobs, Resolve(j) PROVE TypeOK'
  <2>1. pc' \in [Jobs -> Steps]
    BY <1>20, GoTyped DEF Resolve, Steps
  <2>2. mine' \in [Jobs -> 1..Len(commits) \cup {None}]
    BY <1>20 DEF Resolve, TypeOK
  <2>3. trips' \in 0..MaxTroubles
    BY <1>20, TripsTyped DEF Resolve
  <2> QED
    BY <1>20, <2>1, <2>2, <2>3 DEF TypeOK, Resolve, Quietly, repo, release, record
<1>21. ASSUME NEW j \in Jobs, HardReset(j) PROVE TypeOK'
  <2>1. sha[j] \in 1..Len(commits)
    BY <1>21 DEF HardReset, At, Shape, Known, TypeOK
  <2>2. Tree(sha[j]) \in Configs
    BY <1>0, <2>1
  <2>3. pc' \in [Jobs -> Steps] /\ foreign' \in [Jobs -> BOOLEAN]
    BY <1>21, GoTyped, ForeignTyped DEF HardReset, Steps
  <2>4. moved' \in [Jobs -> BOOLEAN]
    BY <1>21, MovedTyped DEF HardReset, HardResetTo
  <2> QED
    BY <1>21, <2>1, <2>2, <2>3, <2>4 DEF TypeOK, HardReset, HardResetTo, budget, release, own, record
<1>22. ASSUME NEW j \in Jobs, SoftReset(j) PROVE TypeOK'
  <2>1. pc' \in [Jobs -> Steps]
    BY <1>22, GoTyped DEF SoftReset, Steps
  <2>2. foreign' \in [Jobs -> BOOLEAN]
    BY <1>22, ForeignTyped DEF SoftReset
  <2>3. head' \in 1..Len(commits)
    BY <1>22 DEF SoftReset, At, Shape, Known, TypeOK
  <2> QED
    BY <1>22, <2>1, <2>2, <2>3 DEF TypeOK, SoftReset, budget, release, own, record
<1>23. ASSUME NEW j \in Jobs, RevertCommit(j) PROVE TypeOK'
  <2>1. /\ commits' \in Seq(CommitObject) /\ Len(commits') \in Nat
        /\ Len(commits') >= Len(commits)
        /\ head' \in 1..Len(commits') /\ mine' \in [Jobs -> 1..Len(commits') \cup {None}]
        /\ trips' \in 0..MaxTroubles
    <3>1. CASE CommitIndex(j)
      BY <3>1, CommitGrows, TripsTyped DEF CommitIndex
    <3>2. CASE CommitFails
      BY <1>0, <3>2, TripsTyped DEF CommitFails, TypeOK, CommitObject
    <3> QED
      BY <1>23, <3>1, <3>2 DEF RevertCommit
  <2>2. pc' \in [Jobs -> Steps] /\ foreign' \in [Jobs -> BOOLEAN]
    BY <1>23, GoTyped, ForeignTyped DEF RevertCommit, Steps
  <2>3. sha' \in [Jobs -> 1..Len(commits') \cup {None}]
    BY <1>0, <1>23, <2>1 DEF RevertCommit, TypeOK
  <2> QED
    BY <1>23, <2>1, <2>2, <2>3 DEF TypeOK, RevertCommit, CommitObject, release, record
<1>24. CASE Edit
  <2>1. edits' \in 0..MaxEdits /\ files' \in Configs
    BY <1>24, ApplyAssumption DEF Edit, Configs, Empty, ApplyAssumption, TypeOK
  <2>2. foreign' \in [Jobs -> BOOLEAN] /\ moved' \in [Jobs -> BOOLEAN]
    BY <1>24, ForeignTyped, MovedTyped DEF Edit
  <2> QED
    BY <1>24, <2>1, <2>2 DEF TypeOK, Edit, release, own, record
<1>25. ASSUME NEW c \in 1..Len(commits), Reset(c) PROVE TypeOK'
  <2>1. resets' \in 0..MaxTroubles
    BY <1>25, TroubleIsCounted DEF Reset
  <2>2. foreign' \in [Jobs -> BOOLEAN] /\ moved' \in [Jobs -> BOOLEAN]
    BY <1>25, ForeignTyped, MovedTyped DEF Reset, HardResetTo
  <2> QED
    BY <1>0, <1>25, <2>1, <2>2 DEF TypeOK, Reset, HardResetTo, release, own, record
<1>26. CASE Crash
  <2>1. crashes' \in 0..MaxTroubles
    BY <1>26, TroubleIsCounted DEF Crash
  <2>2. pc' \in [Jobs -> Steps] /\ over' \in [Jobs -> BOOLEAN]
    BY <1>26 DEF Crash, Steps, TypeOK
  <2> QED
    BY <1>26, <2>1, <2>2 DEF TypeOK, Crash, repo, release, own
<1>27. CASE Reconcile
  <2>1. row' \in [Jobs -> InFlight \cup Terminal \cup {None}] /\ lost' \subseteq Jobs
    BY <1>27 DEF Reconcile, InFlight, Terminal, TypeOK
  <2> QED
    BY <1>27, <2>1 DEF TypeOK, Reconcile, budget, repo, release, own
<1>28. ASSUME NEW j \in Jobs, ResetFails(j) PROVE TypeOK'
  <2>1. /\ pc[j] \in {"hardReset", "softReset"} /\ sha[j] \in 1..Len(commits)
        /\ Tree(sha[j]) \in Configs
    BY <1>0, <1>28 DEF ResetFails, Shape, Known, TypeOK
  <2>2. head' \in 1..Len(commits) /\ index' \in Configs /\ files' \in Configs
    BY <1>28, <2>1 DEF ResetFails, TypeOK
  <2>3. pc' \in [Jobs -> Steps] /\ foreign' \in [Jobs -> BOOLEAN] /\ moved' \in [Jobs -> BOOLEAN]
    BY <1>28, GoTyped, ForeignTyped, MovedTyped DEF ResetFails, Steps
  <2>4. trips' \in 0..MaxTroubles
    BY <1>28, TripsTyped DEF ResetFails
  <2> QED
    BY <1>28, <2>2, <2>3, <2>4 DEF TypeOK, ResetFails, release, own, record
<1>29. CASE UNCHANGED vars
  BY <1>29 DEF TypeOK, vars, budget, repo, release, own, record
<1> QED
  BY <1>1, <1>2, <1>3, <1>4, <1>5, <1>6, <1>7, <1>8, <1>9, <1>10, <1>11, <1>12,
     <1>13, <1>14, <1>15, <1>16, <1>17, <1>18, <1>19, <1>20, <1>21, <1>22, <1>23,
     <1>24, <1>25, <1>26, <1>27, <1>28, <1>29
  DEF Next, Work

-----------------------------------------------------------------------------
(* What a step of one job leaves alone: the steps of the others, and what   *)
(* every job is and takes back.                                             *)
LEMMA WorkIsOwn ==
  ASSUME TypeOK, NEW j \in Jobs, Work(j)
  PROVE  /\ up = "up" /\ UNCHANGED <<up, kind, undoes>>
         /\ \A k \in Jobs \ {j} :
               /\ pc'[k] = pc[k] /\ rev'[k] = rev[k] /\ sha'[k] = sha[k]
               /\ mine'[k] = mine[k] /\ written'[k] = written[k] /\ over'[k] = over[k]
               /\ values'[k] = values[k] /\ row'[k] = row[k]
               /\ (k \in lost => k \in lost')
<1> USE DEF Set, Go, At, own, record, repo, release
<1>1. CASE Admit(j) \/ Register(j) \/ Origin(j) \/ Add(j) \/ Load(j)
  BY <1>1 DEF Admit, Register, Origin, Add, Deploys, Load, Write, TypeOK
<1>2. CASE Commit(j) \/ RevertCommit(j)
  BY <1>2 DEF Commit, RevertCommit, CommitIndex, CommitFails, Deploys, Write, TypeOK
<1>3. CASE HelmRefuses(j) \/ HelmStarts(j) \/ HelmReturns(j)
  BY <1>3 DEF HelmRefuses, HelmStarts, HelmReturns, Starts, Write, TypeOK
<1>4. CASE RunHooks(j) \/ Record(j) \/ Finish(j) \/ FailFinish(j) \/ FailRecord(j)
  BY <1>4 DEF RunHooks, Record, Finish, FailFinish, FailRecord, Write, TypeOK
<1>5. CASE \/ Check(j) \/ Compare(j) \/ Rollback(j) \/ RollbackReturns(j)
           \/ PostHooks(j)
  BY <1>5 DEF Check, Compare, Rollback, RollbackReturns, PostHooks, Starts, TypeOK
<1>6. CASE Resolve(j) \/ HardReset(j) \/ SoftReset(j)
  BY <1>6 DEF Resolve, HardReset, SoftReset, TypeOK
<1> QED
  BY <1>1, <1>2, <1>3, <1>4, <1>5, <1>6 DEF Work

(* Every step stays among the steps of its kind.                            *)
LEMMA KindStep ==
  ASSUME TypeOK, Shape, NEW j \in Jobs, Work(j)
  PROVE  KindFits'
<1>1. \A k \in Jobs \ {j} : pc'[k] = pc[k] /\ kind'[k] = kind[k]
  BY WorkIsOwn
<1>2. kind'[j] = kind[j] /\ kind[j] \in {"apply", "upgrade", "commit", "rollback", "revert", None}
  BY WorkIsOwn, ApplyAssumption DEF TypeOK, ApplyAssumption, Requests
<1> SUFFICES /\ kind[j] # None
             /\ kind[j] = "apply"    => pc'[j] \in ApplySteps
             /\ kind[j] = "upgrade"  => pc'[j] \in UpgradeSteps
             /\ kind[j] = "commit"   => pc'[j] \in CommitSteps
             /\ kind[j] = "rollback" => pc'[j] \in RollbackSteps
             /\ kind[j] = "revert"   => pc'[j] \in RevertSteps
  BY <1>1, <1>2 DEF Shape, KindFits
<1> USE <1>2 DEF Go, At, Shape, KindFits, ApplySteps, UpgradeSteps, CommitSteps, RollbackSteps,
            RevertSteps
<1> pc[j] \in Steps /\ j \in DOMAIN pc
  BY DEF TypeOK
<1>3. CASE Admit(j) \/ Register(j) \/ Origin(j) \/ Add(j) \/ Load(j)
  BY <1>3 DEF Admit, Register, Origin, Add, Deploys, Load
<1>4. CASE Commit(j) \/ RevertCommit(j)
  BY <1>4 DEF Commit, RevertCommit, Deploys
<1>5. CASE HelmRefuses(j) \/ HelmStarts(j) \/ HelmReturns(j)
  BY <1>5 DEF HelmRefuses, HelmStarts, HelmReturns
<1>6. CASE RunHooks(j) \/ Record(j) \/ Finish(j) \/ FailFinish(j) \/ FailRecord(j)
  BY <1>6 DEF RunHooks, Record, Finish, FailFinish, FailRecord
<1>7. CASE \/ Check(j) \/ Compare(j) \/ Rollback(j) \/ RollbackReturns(j)
           \/ PostHooks(j)
  BY <1>7 DEF Check, Compare, Rollback, RollbackReturns, PostHooks
<1>8. CASE Resolve(j) \/ HardReset(j) \/ SoftReset(j)
  BY <1>8 DEF Resolve, HardReset, SoftReset
<1> QED
  BY <1>3, <1>4, <1>5, <1>6, <1>7, <1>8 DEF Work

(* What a job knows of its own origin, its step and its revision.           *)
LEMMA OriginStep ==
  ASSUME TypeOK, Shape, NEW j \in Jobs, Work(j)
  PROVE  OriginKnown'
<1>1. \A k \in Jobs \ {j} : UNCHANGED <<kind[k], rev[k], sha[k], over[k], pc[k]>>
  BY WorkIsOwn
<1>2. kind'[j] = kind[j]
  BY WorkIsOwn
<1> SUFFICES /\ kind[j] \in {"upgrade", None} => rev'[j] = None /\ sha'[j] = None
             /\ over'[j] => pc'[j] \in {"failRecord", "ended"}
  BY <1>1, <1>2 DEF Shape, OriginKnown
<1>0. /\ kind[j] = "upgrade" => pc[j] \in UpgradeSteps
      /\ kind[j] = None => pc[j] = "unused"
      /\ kind[j] \in {"upgrade", None} => rev[j] = None /\ sha[j] = None
      /\ over[j] => pc[j] \in {"failRecord", "ended"}
  BY DEF Shape, KindFits, OriginKnown
<1> USE <1>0 DEF Set, Go, At, own, record, TypeOK, UpgradeSteps
<1>3. CASE Admit(j) \/ Register(j) \/ Add(j) \/ Load(j)
  BY <1>3 DEF Admit, Register, Add, Deploys, Load
<1>4. CASE Origin(j)
  BY <1>4 DEF Origin
<1>5. CASE Commit(j) \/ RevertCommit(j)
  BY <1>5 DEF Commit, RevertCommit, Deploys
<1>6. CASE HelmRefuses(j) \/ HelmStarts(j) \/ HelmReturns(j)
  BY <1>6 DEF HelmRefuses, HelmStarts, HelmReturns
<1>7. CASE RunHooks(j) \/ Record(j) \/ Finish(j) \/ FailFinish(j) \/ FailRecord(j)
  BY <1>7 DEF RunHooks, Record, Finish, FailFinish, FailRecord
<1>8. CASE \/ Check(j) \/ Compare(j) \/ Rollback(j) \/ RollbackReturns(j)
           \/ PostHooks(j)
  BY <1>8 DEF Check, Compare, Rollback, RollbackReturns, PostHooks
<1>9. CASE Resolve(j) \/ HardReset(j) \/ SoftReset(j)
  BY <1>9 DEF Resolve, HardReset, SoftReset
<1> QED
  BY <1>3, <1>4, <1>5, <1>6, <1>7, <1>8, <1>9 DEF Work

(* What a step knows of the job itself.                                     *)
KnowsOwn(j) ==
    /\ pc[j] \in {"rollback", "rollingBack"} => rev[j] # None
    /\ pc[j] \in {"hardReset", "softReset"} => mine[j] # None /\ sha[j] # None
    /\ pc[j] \in NotWritten => written[j] = None
    /\ pc[j] \in Written => written[j] # None

(* What a revert beyond its check knows of the apply.                       *)
KnowsApply(j) ==
    kind[j] = "revert" /\ pc[j] \in Reverting =>
       /\ kind[undoes[j]] = "apply"
       /\ rev[j] = rev[undoes[j]] /\ sha[j] = sha[undoes[j]]
       /\ \/ pc[undoes[j]] \in {"failRecord", "ended"}
          \/ pc[undoes[j]] = "dead" /\ pc[j] = "restored"

(* A job keeps what its own step has to know.                               *)
LEMMA OwnStep ==
  ASSUME TypeOK, Shape, NEW j \in Jobs, Work(j)
  PROVE  KnowsOwn(j)'
<1>0. /\ KnowsOwn(j) /\ KnowsApply(j)
      /\ pc[j] \in {"compare", "resolve"} => kind[j] = "revert"
  BY RevertingIsRevert DEF Shape, Known, KnowsOwn, KnowsApply
<1> USE <1>0 DEF Set, Go, At, own, record, KnowsOwn, KnowsApply, TypeOK, NotWritten, Written
<1>1. CASE Admit(j) \/ Register(j) \/ Origin(j) \/ Add(j) \/ Load(j)
  BY <1>1 DEF Admit, Register, Origin, Add, Deploys, Load
<1>2. CASE Commit(j) \/ RevertCommit(j)
  BY <1>2 DEF Commit, RevertCommit, Deploys
<1>3. CASE HelmRefuses(j) \/ HelmStarts(j) \/ HelmReturns(j)
  <2>1. CASE HelmRefuses(j) \/ HelmReturns(j)
    BY <2>1, ApplyAssumption, LenProperties DEF HelmRefuses, HelmReturns, ApplyAssumption, Latest
  <2>2. CASE HelmStarts(j)
    BY <2>2, ApplyAssumption, LenProperties DEF HelmStarts, Starts, ApplyAssumption, Latest
  <2> QED
    BY <1>3, <2>1, <2>2
<1>4. CASE RunHooks(j) \/ Record(j) \/ Finish(j) \/ FailFinish(j) \/ FailRecord(j)
  BY <1>4 DEF RunHooks, Record, Finish, FailFinish, FailRecord
<1>5. CASE Check(j)
  BY <1>5 DEF Check
<1>6. CASE Compare(j)
  BY <1>6 DEF Compare, Reverting, RevertSteps
<1>7. CASE Rollback(j) \/ RollbackReturns(j)
  <2>1. CASE At(j, "rollback") /\ Starts(j, releases[rev[j]].config) /\ Go(j, "rollingBack") /\ Rollback(j)
    BY <2>1, ApplyAssumption, LenProperties DEF Rollback, Starts, ApplyAssumption, Latest
  <2>3. CASE At(j, "rollback") /\ Go(j, "ended") /\ UNCHANGED written /\ Rollback(j)
    BY <2>3 DEF Rollback
  <2>2. CASE RollbackReturns(j)
    BY <2>2, ApplyAssumption, LenProperties DEF RollbackReturns, ApplyAssumption, Latest
  <2> QED
    BY <1>7, <2>1, <2>2, <2>3 DEF Rollback
<1>8. CASE PostHooks(j) \/ HardReset(j) \/ SoftReset(j)
  BY <1>8 DEF PostHooks, HardReset, SoftReset
<1>9. CASE Resolve(j)
  BY <1>9, ApplyAssumption DEF Resolve, ApplyAssumption
<1> QED
  BY <1>1, <1>2, <1>3, <1>4, <1>5, <1>6, <1>7, <1>8, <1>9 DEF Work

(* Nothing takes a commit or a revision away.                               *)
LEMMA LenGrows ==
  ASSUME TypeOK, Shape, NEW j \in Jobs, Work(j)
  PROVE  /\ Len(releases') \in Nat /\ Len(releases') >= Len(releases)
         /\ \A i \in 1..Len(releases) : releases'[i].config = releases[i].config
<1>0. Len(releases) \in Nat
  BY Elements
<1>1. CASE HelmStarts(j)
  <2>1. values[j] \in Configs
    BY DEF TypeOK
  <2>2. Starts(j, values[j])
    BY <1>1 DEF HelmStarts
  <2>3. /\ Len(releases') = Len(releases) + 1
        /\ \A i \in 1..Len(releases) : releases'[i] = releases[i]
    BY <2>1, <2>2, StartsGrows
  <2> QED
    BY <1>0, <2>3
<1>2. CASE HelmReturns(j) \/ RollbackReturns(j)
  <2>1. written[j] # None
    BY <1>2 DEF HelmReturns, RollbackReturns, At, Shape, Known, Written
  <2>2. Ended(j, "deployed") \/ Ended(j, "failed")
    BY <1>2 DEF HelmReturns, RollbackReturns
  <2>3. /\ Len(releases') = Len(releases)
        /\ \A i \in 1..Len(releases) : releases'[i].config = releases[i].config
    BY <2>1, <2>2, EndedKeeps
  <2> QED
    BY <1>0, <2>3
<1>3. CASE Rollback(j)
  <2>1. rev[j] \in 1..Len(releases)
    BY <1>3 DEF Rollback, At, Shape, Known, TypeOK
  <2>2. releases[rev[j]].config \in Configs
    BY <2>1, Elements
  <2>3. Starts(j, releases[rev[j]].config) \/ UNCHANGED releases
    BY <1>3 DEF Rollback
  <2>4. CASE Starts(j, releases[rev[j]].config)
    <3>1. /\ Len(releases') = Len(releases) + 1
          /\ \A i \in 1..Len(releases) : releases'[i] = releases[i]
      BY <2>2, <2>4, StartsGrows
    <3> QED
      BY <1>0, <3>1
  <2> QED
    BY <1>0, <2>3, <2>4
<1>4. CASE UNCHANGED releases
  BY <1>0, <1>4
<1> QED
  BY <1>1, <1>2, <1>3, <1>4
  DEF Work, Admit, Register, Origin, Add, Commit, Load, HelmRefuses, RunHooks, Record,
      Finish, FailFinish, FailRecord, Check, Compare, PostHooks, Resolve, HardReset,
      SoftReset, RevertCommit, release

(* Going through the check means that the apply is over, and it stays what  *)
(* it was when the revert took its origin.                                  *)
LEMMA ApplyStep ==
  ASSUME TypeOK, Shape, NEW j \in Jobs, Work(j), NEW k \in Jobs
  PROVE  KnowsApply(k)'
<1>0. /\ UNCHANGED <<kind, undoes>>
      /\ \A i \in Jobs \ {j} : UNCHANGED <<rev[i], sha[i], pc[i]>>
  BY WorkIsOwn
<1>1. KnowsApply(k) /\ (kind[k] = "revert" => /\ undoes[k] \in Jobs
                                              /\ kind[undoes[k]] \in {"apply", "upgrade"})
  BY DEF Shape, Known, KnowsApply, Undoing
<1>2. CASE kind[k] # "revert"
  BY <1>0, <1>2 DEF KnowsApply
<1>3. CASE kind[k] = "revert" /\ k # j /\ undoes[k] # j
  BY <1>0, <1>1, <1>3 DEF KnowsApply
<1>4. CASE kind[k] = "revert" /\ undoes[k] = j
  <2>1. k # j
    BY <1>1, <1>4
  <2>2. CASE pc[k] \in Reverting
    <3>1. pc[j] = "failRecord"
      <4>1. pc[j] \notin {"ended", "dead"}
        BY DEF Work, Admit, Register, Origin, Add, Commit, Load, HelmRefuses, HelmStarts,
               HelmReturns, RunHooks, Record, Finish, FailFinish, FailRecord, Check,
               Compare, Rollback, RollbackReturns, PostHooks, Resolve, HardReset,
               SoftReset, RevertCommit, At
      <4> QED
        BY <1>1, <1>4, <2>2, <4>1 DEF KnowsApply
    <3>2. FailRecord(j)
      BY <3>1 DEF Work, Admit, Register, Origin, Add, Commit, Load, HelmRefuses, HelmStarts,
                  HelmReturns, RunHooks, Record, Finish, FailFinish, Check,
                  Compare, Rollback, RollbackReturns, PostHooks, Resolve, HardReset,
                  SoftReset, RevertCommit, At
    <3>3. UNCHANGED <<rev, sha>> /\ pc'[j] = "ended"
      BY <3>2 DEF FailRecord, Go, own, TypeOK
    <3> QED
      BY <1>0, <1>1, <1>4, <2>1, <3>3 DEF KnowsApply
  <2>3. CASE pc[k] \notin Reverting
    BY <1>0, <2>1, <2>3 DEF KnowsApply
  <2> QED
    BY <2>2, <2>3
<1>5. CASE kind[k] = "revert" /\ k = j
  <2>1. undoes[j] # j /\ UNCHANGED <<rev[undoes[j]], sha[undoes[j]], pc[undoes[j]]>>
    BY <1>0, <1>1, <1>5
  <2>2. CASE Check(j)
    <3>1. CASE ~over[undoes[j]] \/ ~HasOrigin(undoes[j])
      BY <1>5, <2>2, <3>1 DEF Check, Go, TypeOK, KnowsApply, Reverting, RevertSteps
    <3>2. CASE over[undoes[j]] /\ HasOrigin(undoes[j])
      <4>1. /\ rev'[j] = rev[undoes[j]] /\ sha'[j] = sha[undoes[j]]
        BY <2>2, <3>2 DEF Check, Set, TypeOK
      <4>2. kind[undoes[j]] = "apply" /\ pc[undoes[j]] \in {"failRecord", "ended"}
        BY <1>1, <1>5, <3>2 DEF Shape, OriginKnown, HasOrigin
      <4> QED
        BY <1>0, <1>5, <2>1, <3>2, <4>1, <4>2 DEF KnowsApply
    <3> QED
      BY <3>1, <3>2
  <2>3. CASE ~Check(j)
    <3>1. /\ pc[j] \in RevertSteps \ {"check", "restored"} /\ pc[j] \in Reverting
      BY <1>5, <2>3
      DEF Shape, KindFits, Work, Admit, Register, Origin, Add, Commit, Load, HelmRefuses,
          HelmStarts, HelmReturns, RunHooks, Record, Finish, FailFinish, FailRecord,
          Compare, Rollback, RollbackReturns, PostHooks, Resolve, HardReset,
          SoftReset, RevertCommit, At, RevertSteps, RollbackSteps, Reverting
    <3>2. UNCHANGED <<rev[j], sha[j]>>
      BY <2>3, <3>1
      DEF Work, Admit, Register, Origin, Add, Commit, Load, HelmRefuses,
          HelmStarts, HelmReturns, RunHooks, Record, Finish, FailFinish, FailRecord,
          Compare, Rollback, RollbackReturns, PostHooks, Resolve, HardReset,
          SoftReset, RevertCommit, At, RevertSteps, RollbackSteps, Reverting, own
    <3> QED
      BY <1>0, <1>1, <1>5, <2>1, <3>1, <3>2 DEF KnowsApply
  <2> QED
    BY <2>2, <2>3
<1> QED
  BY <1>2, <1>3, <1>4, <1>5

(* Every step keeps the shape: the work of a job, a new request, and what   *)
(* the operator and the process do.                                         *)
LEMMA ShapeStep == ASSUME TypeOK, Shape, [Next]_vars PROVE Shape'
<1>1. ASSUME NEW j \in Jobs, Work(j) PROVE Shape'
  <2>1. KindFits' /\ OriginKnown'
    BY <1>1, KindStep, OriginStep
  <2>2. Undoing'
    BY <1>1, WorkIsOwn DEF Shape, Undoing
  <2>3. \A k \in Jobs \ {j} : KnowsOwn(k)'
    BY <1>1, WorkIsOwn DEF Shape, Known, KnowsOwn
  <2>4. Known'
    BY <1>1, <2>3, OwnStep, ApplyStep DEF Known, KnowsOwn, KnowsApply
  <2>5. Serving'
    BY <1>1, WorkIsOwn DEF Serving
  <2>6. Installed'
    <3>1. Len(releases) \in Nat /\ Len(releases) > 0
      BY Elements DEF Shape, Installed
    <3> QED
      BY <1>1, <3>1, LenGrows DEF Installed
  <2> QED
    BY <2>1, <2>2, <2>4, <2>5, <2>6 DEF Shape
<1>2. ASSUME NEW j \in Jobs, NEW k \in Kinds, Request(j, k) PROVE Shape'
  <2> USE DEF Shape, Set, Go
  <2>1. /\ pc[j] = "unused" /\ k \in {"apply", "upgrade", "commit", "rollback", "revert"}
        /\ kind' = [kind EXCEPT ![j] = k] /\ pc' = [pc EXCEPT ![j] = FirstStep(k)]
        /\ UNCHANGED <<up, sha, mine, written, over, releases>>
        /\ \A i \in Jobs \ {j} : undoes'[i] = undoes[i] /\ rev'[i] = rev[i]
    BY <1>2, ApplyAssumption
    DEF Request, NextJob, ApplyAssumption, Requests, TypeOK, record, release
  <2>2. kind[j] = None /\ kind[j] \notin Requests
    BY <2>1, ApplyAssumption
    DEF KindFits, ApplySteps, UpgradeSteps, CommitSteps, RollbackSteps, RevertSteps,
        TypeOK, ApplyAssumption, Requests
  <2>3. KindFits'
    BY <2>1, ApplyAssumption DEF KindFits, FirstStep, ApplySteps, UpgradeSteps, CommitSteps,
       RollbackSteps, RevertSteps, TypeOK, ApplyAssumption, Requests
  <2>4. Undoing'
    <3>1. undoes[j] = None
      BY <2>2 DEF Undoing, Requests
    <3>2. \A a \in Jobs : kind[a] \in {"apply", "upgrade"} => a # j
      BY <2>2 DEF Requests
    <3>3. /\ k = "revert" => /\ undoes'[j] \in Jobs
                             /\ kind[undoes'[j]] \in {"apply", "upgrade"}
          /\ k # "revert" => undoes'[j] = None
      BY <1>2, <3>1 DEF Request, TypeOK
    <3>4. \A i \in Jobs : kind'[i] = IF i = j THEN k ELSE kind[i]
      BY <2>1 DEF TypeOK
    <3> QED
      BY <2>1, <3>2, <3>3, <3>4 DEF Undoing
  <2>5. OriginKnown'
    <3>1. sha[j] = None /\ ~over[j] /\ (k = "upgrade" => rev'[j] = None)
      BY <1>2, <2>1, <2>2 DEF OriginKnown, Request, TypeOK
    <3>2. k # None
      BY <2>1, ApplyAssumption DEF ApplyAssumption, Requests
    <3> QED
      BY <2>1, <3>1, <3>2 DEF OriginKnown, TypeOK
  <2>6. Known'
    <3>1. \A i \in Jobs \ {j} : KnowsOwn(i)' /\ kind'[i] = kind[i] /\ pc'[i] = pc[i]
      BY <2>1 DEF Known, KnowsOwn, TypeOK
    <3>2. kind'[j] = k /\ pc'[j] = FirstStep(k)
      BY <2>1 DEF TypeOK
    <3>3. KnowsOwn(j)'
      <4>1. written[j] = None
        BY <2>1 DEF Known, NotWritten
      <4>2. k = "rollback" => rev'[j] # None
        BY <1>2, ApplyAssumption, Elements DEF Request, TypeOK, ApplyAssumption, Latest
      <4> QED
        BY <2>1, <3>2, <4>1, <4>2 DEF KnowsOwn, FirstStep, Written
    <3>4. KnowsApply(j)'
      BY <2>1, <3>2 DEF KnowsApply, FirstStep, Reverting, RevertSteps
    <3>5. ASSUME NEW i \in Jobs \ {j} PROVE KnowsApply(i)'
      <4>1. kind[i] = "revert" => undoes[i] \in Jobs \ {j}
        BY <2>2 DEF Undoing, Requests
      <4> QED
        BY <2>1, <3>1, <4>1 DEF Known, KnowsApply
    <3> QED
      BY <3>1, <3>3, <3>4, <3>5 DEF Known, KnowsOwn, KnowsApply
  <2> QED
    BY <1>2, <2>1, <2>3, <2>4, <2>5, <2>6 DEF Serving, Installed, Request
<1>3. CASE Edit \/ \E c \in 1..Len(commits) : Reset(c)
  BY <1>3 DEF Edit, Reset, Shape, KindFits, Undoing, OriginKnown, Known, Serving,
              Installed, own, record, release
<1>4. CASE Crash
  <2>1. /\ \A j \in Jobs : pc'[j] = IF pc[j] \in Ends THEN pc[j] ELSE "dead"
        /\ \A j \in Jobs : over'[j] = FALSE
        /\ UNCHANGED <<releases, kind, undoes, rev, sha, mine, written>>
    BY <1>4 DEF Crash, own, release
  <2> USE <2>1 DEF Shape, Ends
  <2>2. KindFits'
    BY DEF KindFits, ApplySteps, UpgradeSteps, CommitSteps, RollbackSteps, RevertSteps
  <2>3. Undoing' /\ OriginKnown' /\ Serving' /\ Installed'
    BY DEF Undoing, OriginKnown, Serving, Installed
  <2>4. \A j \in Jobs : KnowsOwn(j)'
    BY DEF Known, KnowsOwn, NotWritten, Written
  <2>5. \A j \in Jobs : KnowsApply(j)'
    BY DEF Known, KnowsApply, Undoing, Reverting, RevertSteps, RollbackSteps
  <2> QED
    BY <2>2, <2>3, <2>4, <2>5 DEF Known, KnowsOwn, KnowsApply
<1>5. CASE Reconcile
  BY <1>5 DEF Reconcile, Shape, KindFits, Undoing, OriginKnown, Known, Serving,
              Installed, own, release
<1>6. ASSUME NEW j \in Jobs, ResetFails(j) PROVE Shape'
  <2>1. /\ up = "up" /\ UNCHANGED <<up, releases, kind, undoes, rev, sha, mine, written, over>>
        /\ pc[j] \in {"hardReset", "softReset"} /\ pc' = [pc EXCEPT ![j] = "ended"]
    BY <1>6 DEF ResetFails, Go, own, record, release
  <2>2. kind[j] = "revert"
    BY <2>1, RevertingIsRevert
  <2>3. /\ pc'[j] = "ended" /\ \A k \in Jobs \ {j} : pc'[k] = pc[k]
        /\ None \notin Requests
    BY <2>1, ApplyAssumption DEF TypeOK, ApplyAssumption
  <2> USE DEF Shape
  <2>4. KindFits'
    BY <2>1, <2>2, <2>3 DEF KindFits, RevertSteps, RollbackSteps, Requests
  <2>5. Undoing' /\ OriginKnown' /\ Serving' /\ Installed'
    BY <2>1, <2>3 DEF Undoing, OriginKnown, Serving, Installed
  <2>6. \A k \in Jobs : KnowsOwn(k)'
    BY <2>1, <2>3 DEF Known, KnowsOwn, NotWritten, Written
  <2>7. \A k \in Jobs : KnowsApply(k)'
    <3>1. \A k \in Jobs : kind[k] = "revert" => undoes[k] # j
      BY <2>2 DEF Undoing
    <3> QED
      BY <2>1, <2>3, <3>1 DEF Known, KnowsApply, Undoing, Reverting
  <2> QED
    BY <2>4, <2>5, <2>6, <2>7 DEF Known, KnowsOwn, KnowsApply
<1>7. CASE UNCHANGED vars
  BY <1>7 DEF vars, Shape, KindFits, Undoing, OriginKnown, Known, Serving,
              Installed, own, record, release
<1> QED
  BY <1>1, <1>2, <1>3, <1>4, <1>5, <1>6, <1>7 DEF Next


(* The process starts that way.                                             *)
LEMMA InitShape == Init => TypeOK /\ Shape
<1> SUFFICES ASSUME Init PROVE TypeOK /\ Shape
  OBVIOUS
<1> USE ApplyAssumption DEF ApplyAssumption, Init
<1>0. 0 \in Configs /\ 0 \in 0..MaxEdits
  BY DEF Configs, Empty
<1>1. /\ commits \in Seq([tree : Configs, parent : Nat]) /\ Len(commits) = 1
      /\ releases \in Seq([config : Configs, status : {"pending", "deployed", "failed"}])
      /\ Len(releases) = 1
  BY <1>0
<1>2. TypeOK
  BY <1>0, <1>1 DEF TypeOK, Steps
<1>3. Shape
  <2>1. None \notin Requests
    OBVIOUS
  <2>2. KindFits /\ Undoing /\ OriginKnown
    BY <2>1 DEF KindFits, Undoing, OriginKnown, Requests
  <2>3. Known /\ Serving /\ Installed
    BY <1>1 DEF Known, Serving, Installed, NotWritten, Written, Ends, Reverting,
                RevertSteps, RollbackSteps
  <2> QED
    BY <2>2, <2>3 DEF Shape
<1> QED
  BY <1>2, <1>3

(* Types: heads, revisions and origins always name a commit or a revision   *)
(* there is, whatever jobs append to the repository and to the release.     *)
THEOREM TypeCorrect == Spec => []TypeOK
<1>1. TypeOK /\ Shape /\ [Next]_vars => (TypeOK /\ Shape)'
  BY TypeStep, ShapeStep
<1> QED
  BY <1>1, InitShape, PTL DEF Spec

(* "RevertApply": a revert that got past its check works on an operation    *)
(* whose stream was done, so the two never move the cluster together.       *)
THEOREM Waits == Spec => []RevertWaits
<1>1. TypeOK /\ Shape /\ [Next]_vars => (TypeOK /\ Shape)'
  BY TypeStep, ShapeStep
<1>2. TypeOK /\ Shape => RevertWaits
  BY DEF RevertWaits, Shape, Known, Reverting, RevertSteps, RollbackSteps
<1> QED
  BY <1>1, <1>2, InitShape, PTL DEF Spec

-----------------------------------------------------------------------------
(* The rows of upgrade_history.  A row goes through the statuses of work    *)
(* under way while its job does, a job has one revision of the release for  *)
(* itself, and what became of that revision is what the job was told.       *)
Rows ==
    \A j \in Jobs :
        /\ pc[j] \notin {"finish", "ended", "dead"} => row[j] \in InFlight \cup {None}
        /\ kind[j] \notin {"apply", "upgrade"} \/ pc[j] \in {"admit", "register"} =>
               row[j] = None
        /\ pc[j] = "finish" => row[j] \notin InFlight \/ j \in lost

OwnRevision ==
    \A j, k \in Jobs : written[j] # None /\ written[j] = written[k] => j = k

Rolled(j) ==
    /\ pc[j] = "rolling" => releases[written[j]].config = values[j]
    /\ pc[j] \in {"hooks", "record", "finish"} =>
           releases[written[j]] = [config |-> values[j], status |-> "deployed"]
    /\ pc[j] \in {"failFinish", "failRecord"} =>
           written[j] = None \/ releases[written[j]].status = "failed"

Told(j) ==
    /\ row[j] \in {"success", "hooks-failed"} =>
           written[j] # None /\ releases[written[j]] = [config |-> values[j], status |-> "deployed"]
    /\ row[j] = "failed" =>
           written[j] = None \/ releases[written[j]].status = "failed"

Booked == Rows /\ OwnRevision /\ (\A j \in Jobs : Rolled(j) /\ Told(j)) /\ InFlightIsOwned

(* A job touches only the revision it wrote itself.                         *)
LEMMA RevisionsApart ==
  ASSUME TypeOK, Shape, OwnRevision, NEW j \in Jobs, Work(j)
  PROVE  /\ OwnRevision'
         /\ \A k \in Jobs \ {j} :
               written[k] # None => releases'[written[k]] = releases[written[k]]
<1>0. /\ Len(releases) \in Nat
      /\ \A k \in Jobs : written[k] # None => written[k] \in 1..Len(releases)
      /\ \A k \in Jobs \ {j} : written'[k] = written[k]
  BY Elements, WorkIsOwn DEF TypeOK
<1>1. CASE \E config \in Configs : Starts(j, config)
  <2>1. /\ written'[j] = Len(releases) + 1
        /\ \A i \in 1..Len(releases) : releases'[i] = releases[i]
    BY <1>1, StartsGrows
  <2>2. ASSUME NEW k \in Jobs \ {j} PROVE written'[k] # written'[j]
    <3>1. written'[k] = written[k]
      BY <1>0
    <3>2. CASE written[k] = None
      BY <1>0, <2>1, <3>1, <3>2, ApplyAssumption DEF ApplyAssumption
    <3>3. CASE written[k] \in 1..Len(releases)
      BY <1>0, <2>1, <3>1, <3>3
    <3> QED
      BY <1>0, <3>2, <3>3
  <2> QED
    BY <1>0, <2>1, <2>2 DEF OwnRevision
<1>2. CASE UNCHANGED written /\ (Ended(j, "deployed") \/ Ended(j, "failed")) /\ written[j] # None
  <2>1. \A i \in 1..Len(releases) : i # written[j] => releases'[i] = releases[i]
    BY <1>2, EndedKeeps
  <2>2. \A k \in Jobs \ {j} : written[k] # None => written[k] # written[j]
    BY DEF OwnRevision
  <2> QED
    BY <1>0, <1>2, <2>1, <2>2 DEF OwnRevision
<1>3. CASE UNCHANGED <<written, releases>>
  BY <1>3 DEF OwnRevision
<1>4. CASE HelmStarts(j)
  <2>1. values[j] \in Configs /\ Starts(j, values[j])
    BY <1>4 DEF HelmStarts, TypeOK
  <2> QED
    BY <1>1, <2>1
<1>5. CASE HelmReturns(j) \/ RollbackReturns(j)
  <2>1. written[j] # None
    BY <1>5 DEF HelmReturns, RollbackReturns, At, Shape, Known, Written
  <2> QED
    BY <1>2, <1>5, <2>1 DEF HelmReturns, RollbackReturns, own
<1>6. CASE Rollback(j)
  <2>1. rev[j] \in 1..Len(releases)
    BY <1>6 DEF Rollback, At, Shape, Known, TypeOK
  <2>2. releases[rev[j]].config \in Configs
    BY <2>1, Elements
  <2> QED
    BY <1>1, <1>3, <1>6, <2>2 DEF Rollback
<1> QED
  BY <1>3, <1>4, <1>5, <1>6
  DEF Work, Admit, Register, Origin, Add, Commit, Load, HelmRefuses, RunHooks, Record,
      Finish, FailFinish, FailRecord, Check, Compare, PostHooks, Resolve, HardReset,
      SoftReset, RevertCommit, release, own

(* What a job was told of its rollout is what Helm recorded.                *)
LEMMA RolledStep ==
  ASSUME TypeOK, Shape, Booked, NEW j \in Jobs, Work(j)
  PROVE  Rolled(j)'
<1>0. /\ Rolled(j)
      /\ pc[j] \in {"helm"} => written[j] = None
      /\ pc[j] \in {"rolling"} => written[j] # None
  BY DEF Booked, Shape, Known, NotWritten, Written
<1>1. CASE HelmStarts(j)
  <2>1. values[j] \in Configs /\ Starts(j, values[j]) /\ UNCHANGED values /\ pc'[j] = "rolling"
    BY <1>1 DEF HelmStarts, Go, TypeOK
  <2>2. /\ written'[j] = Len(releases) + 1
        /\ releases'[Len(releases) + 1] = [config |-> values[j], status |-> "pending"]
    BY <2>1, StartsGrows
  <2> QED
    BY <2>1, <2>2 DEF Rolled
<1>2. CASE HelmReturns(j)
  <2>1. /\ written[j] # None /\ UNCHANGED <<values, written>>
        /\ releases[written[j]].config = values[j]
    BY <1>0, <1>2 DEF HelmReturns, At, own, Rolled
  <2>2. \/ Ended(j, "deployed") /\ pc'[j] = "hooks"
        \/ Ended(j, "failed") /\ pc'[j] = "failFinish"
    BY <1>2 DEF HelmReturns, Go, TypeOK
  <2>3. CASE Ended(j, "deployed") /\ pc'[j] = "hooks"
    <3>1. releases'[written[j]] = [config |-> values[j], status |-> "deployed"]
      BY <2>1, <2>3, EndedKeeps
    <3> QED
      BY <2>1, <2>3, <3>1 DEF Rolled
  <2>4. CASE Ended(j, "failed") /\ pc'[j] = "failFinish"
    <3>1. releases'[written[j]] = [config |-> values[j], status |-> "failed"]
      BY <2>1, <2>4, EndedKeeps
    <3> QED
      BY <2>1, <2>4, <3>1 DEF Rolled
  <2> QED
    BY <2>2, <2>3, <2>4
<1>3. CASE pc'[j] \notin {"rolling", "hooks", "record", "finish", "failFinish", "failRecord"}
  BY <1>3 DEF Rolled
<1>4. CASE RunHooks(j) \/ Record(j) \/ HelmRefuses(j) \/ FailFinish(j)
  BY <1>0, <1>4 DEF RunHooks, Record, HelmRefuses, FailFinish, At, Go, own, release, Rolled, TypeOK
<1> QED
  BY <1>1, <1>2, <1>3, <1>4
  DEF Work, Admit, Register, Origin, Add, Commit, Deploys, Load, Finish, FailRecord,
      Check, Compare, Rollback, RollbackReturns, PostHooks, Resolve, HardReset, SoftReset,
      RevertCommit, Go, TypeOK

(* A row tells of its own revision only once the rollout of it is over.     *)
LEMMA ToldStep ==
  ASSUME TypeOK, Shape, Booked, NEW j \in Jobs, Work(j)
  PROVE  Told(j)'
<1>0. /\ Rolled(j) /\ Told(j)
      /\ pc[j] \notin {"finish", "ended", "dead"} => row[j] \in InFlight \cup {None}
      /\ pc[j] = "record" => written[j] # None
      /\ {"success", "hooks-failed", "failed"} \cap (InFlight \cup {None}) = {}
      /\ j \in DOMAIN row
  BY ApplyAssumption
  DEF Booked, Rows, Shape, Known, Written, ApplyAssumption, InFlight, Terminal, TypeOK
<1>1. CASE Record(j)
  BY <1>0, <1>1 DEF Record, Write, Set, FinalStatus, At, own, release, Rolled, Told
<1>2. CASE FailRecord(j)
  BY <1>0, <1>2 DEF FailRecord, Write, Set, At, own, release, Rolled, Told
<1>3. CASE Finish(j)
  BY <1>0, <1>3 DEF Finish, own, release, Told
<1>4. CASE row'[j] \in InFlight \cup {None}
  BY <1>0, <1>4 DEF Told
<1> QED
  BY <1>0, <1>1, <1>2, <1>3, <1>4
  DEF Work, Admit, Register, Origin, Add, Commit, Deploys, Load, HelmRefuses, HelmStarts,
      HelmReturns, RunHooks, FailFinish, Check, Compare, Rollback, RollbackReturns,
      PostHooks, Resolve, HardReset, SoftReset, RevertCommit, At, Write, Set, record,
      InFlight

(* A row under way belongs to a job under way.                              *)
LEMMA RowsStep ==
  ASSUME TypeOK, Shape, Booked, NEW j \in Jobs, Work(j)
  PROVE  Rows' /\ InFlightIsOwned'
<1>0. /\ up = "up" /\ UNCHANGED <<up, kind>>
      /\ \A k \in Jobs \ {j} :
            pc'[k] = pc[k] /\ row'[k] = row[k] /\ (k \in lost => k \in lost')
  BY WorkIsOwn
<1> DEFINE Fits ==
      /\ pc'[j] \notin {"finish", "ended", "dead"} => row'[j] \in InFlight \cup {None}
      /\ kind[j] \notin {"apply", "upgrade"} \/ pc'[j] \in {"admit", "register"} =>
             row'[j] = None
      /\ pc'[j] = "finish" => row'[j] \notin InFlight \/ j \in lost'
      /\ row'[j] \in InFlight => pc'[j] \notin Ends \/ j \in lost'
<1>1. SUFFICES Fits
  BY <1>0 DEF Booked, Rows, InFlightIsOwned
<1>2. /\ pc[j] \notin {"finish", "ended", "dead"} => row[j] \in InFlight \cup {None}
      /\ kind[j] \notin {"apply", "upgrade"} \/ pc[j] \in {"admit", "register"} => row[j] = None
      /\ pc[j] = "finish" => row[j] \notin InFlight \/ j \in lost
      /\ j \in DOMAIN row /\ j \in DOMAIN pc
  BY DEF Booked, Rows, TypeOK
<1>3. /\ pc[j] \in {"load", "helm", "rolling", "hooks", "record", "finish", "failFinish",
                    "failRecord", "register", "origin"} => kind[j] \in {"apply", "upgrade"}
      /\ kind[j] \in Requests \cup {None} /\ None \notin InFlight /\ None \notin Terminal
      /\ pc[j] \in {"check", "compare", "resolve", "rollback", "rollingBack", "postHooks",
                    "hardReset", "softReset", "revertCommit"} => row[j] = None
      /\ pc[j] \in {"add", "commit"} => kind[j] \in {"apply", "commit"}
  BY <1>2, ApplyAssumption
  DEF Shape, KindFits, ApplySteps, UpgradeSteps, CommitSteps, RollbackSteps, RevertSteps,
      TypeOK, ApplyAssumption, Requests
<1> HIDE DEF Fits
<1> USE <1>2, <1>3 DEF Go, At, Ends, record
<1>4. CASE Admit(j) \/ Origin(j)
  BY <1>4 DEF Fits, Admit, Origin
<1>5. CASE Register(j)
  BY <1>5 DEF Fits, Register, Set, InFlight
<1>6. CASE Add(j) \/ Commit(j) \/ Load(j)
  BY <1>6 DEF Fits, Add, Commit, Deploys, Load, Write, Set, InFlight
<1>7. CASE HelmRefuses(j) \/ HelmStarts(j) \/ RunHooks(j) \/ Finish(j) \/ FailFinish(j)
  BY <1>7 DEF Fits, HelmRefuses, HelmStarts, RunHooks, Finish, FailFinish
<1>8. CASE HelmReturns(j)
  BY <1>8 DEF Fits, HelmReturns, Write, Set, InFlight
<1>9. CASE Record(j)
  BY <1>9 DEF Fits, Record, Write, Set, FinalStatus, InFlight
<1>10. CASE FailRecord(j)
  BY <1>10 DEF Fits, FailRecord, Write, Set, InFlight
<1>11. CASE Check(j) \/ Compare(j) \/ Rollback(j) \/ RollbackReturns(j) \/ PostHooks(j)
  BY <1>11 DEF Fits, Check, Compare, Rollback, RollbackReturns, PostHooks
<1>12. CASE Resolve(j) \/ HardReset(j) \/ SoftReset(j) \/ RevertCommit(j)
  BY <1>12 DEF Fits, Resolve, HardReset, SoftReset, RevertCommit
<1> QED
  BY <1>4, <1>5, <1>6, <1>7, <1>8, <1>9, <1>10, <1>11, <1>12 DEF Work

(* Every step keeps the books: the work of a job, a request, what the       *)
(* operator does, a death and the reconciliation after it.                  *)
LEMMA BookedStep == ASSUME TypeOK, Shape, Booked, [Next]_vars PROVE Booked'
<1>1. ASSUME NEW j \in Jobs, Work(j) PROVE Booked'
  <2>1. OwnRevision' /\ Rolled(j)' /\ Told(j)' /\ Rows' /\ InFlightIsOwned'
    BY <1>1, RevisionsApart, RolledStep, ToldStep, RowsStep DEF Booked
  <2>2. ASSUME NEW k \in Jobs \ {j} PROVE Rolled(k)' /\ Told(k)'
    <3>1. /\ UNCHANGED <<pc[k], written[k], values[k], row[k]>>
          /\ written[k] # None => releases'[written[k]] = releases[written[k]]
      BY <1>1, WorkIsOwn, RevisionsApart DEF Booked
    <3>2. pc[k] \in {"rolling", "hooks", "record", "finish"} => written[k] # None
      BY DEF Shape, Known, Written
    <3> QED
      BY <3>1, <3>2 DEF Booked, Rolled, Told
  <2> QED
    BY <2>1, <2>2 DEF Booked
<1>2. ASSUME NEW j \in Jobs, NEW k \in Kinds, Request(j, k) PROVE Booked'
  <2>1. /\ pc[j] = "unused" /\ k \in Requests /\ up = "up"
        /\ \A i \in Jobs : /\ kind'[i] = IF i = j THEN k ELSE kind[i]
                           /\ pc'[i] = IF i = j THEN FirstStep(k) ELSE pc[i]
        /\ UNCHANGED <<up, values, written, releases, row, lost>>
    BY <1>2, ApplyAssumption
    DEF Request, NextJob, ApplyAssumption, TypeOK, record, release, Set, Go
  <2>2. row[j] = None /\ None \notin InFlight \cup Terminal
    BY <2>1, ApplyAssumption
    DEF Booked, Rows, Shape, KindFits, ApplySteps, UpgradeSteps, ApplyAssumption
  <2>3. FirstStep(k) \in {"admit", "register", "add", "rollback", "check"}
    BY <2>1 DEF FirstStep, Requests
  <2>4. Rows' /\ InFlightIsOwned'
    BY <2>1, <2>2, <2>3 DEF Booked, Rows, InFlightIsOwned, Ends
  <2>5. OwnRevision' /\ \A i \in Jobs : Rolled(i)' /\ Told(i)'
    BY <2>1, <2>2, <2>3 DEF Booked, OwnRevision, Rolled, Told
  <2> QED
    BY <2>4, <2>5 DEF Booked
<1>3. CASE Edit \/ \E c \in 1..Len(commits) : Reset(c)
  BY <1>3 DEF Edit, Reset, Booked, Rows, OwnRevision, Rolled, Told, InFlightIsOwned,
              own, record, release
<1>4. CASE Crash
  <2>1. /\ \A j \in Jobs : pc'[j] = IF pc[j] \in Ends THEN pc[j] ELSE "dead"
        /\ UNCHANGED <<releases, kind, values, written, row, lost>> /\ up' = "down"
    BY <1>4 DEF Crash, own, release
  <2> QED
    BY <2>1 DEF Booked, Rows, OwnRevision, Rolled, Told, InFlightIsOwned, Ends
<1>5. CASE Reconcile
  <2>1. /\ up = "down" /\ UNCHANGED <<releases, kind, values, written, pc>>
        /\ \A j \in Jobs : \/ row'[j] = row[j] /\ (row[j] \in InFlight => j \in lost')
                           \/ row'[j] = "interrupted" /\ row[j] \in InFlight
    BY <1>5 DEF Reconcile, own, release
  <2>2. \A j \in Jobs : /\ pc[j] \in Ends
                        /\ pc[j] \in {"unused", "restored"} => row[j] = None
    BY <2>1, ApplyAssumption
    DEF Shape, Serving, KindFits, ApplySteps, UpgradeSteps, Booked, Rows, ApplyAssumption
  <2>3. "interrupted" \notin InFlight /\ None \notin InFlight
    BY ApplyAssumption DEF ApplyAssumption, InFlight
  <2>4. Rows' /\ InFlightIsOwned'
    BY <2>1, <2>2, <2>3 DEF Booked, Rows, InFlightIsOwned, Ends
  <2>5. OwnRevision' /\ \A i \in Jobs : Rolled(i)' /\ Told(i)'
    BY <2>1 DEF Booked, OwnRevision, Rolled, Told
  <2> QED
    BY <2>4, <2>5 DEF Booked
<1>6. ASSUME NEW j \in Jobs, ResetFails(j) PROVE Booked'
  <2>1. /\ UNCHANGED <<up, releases, kind, values, written, row, lost>>
        /\ pc[j] \in {"hardReset", "softReset"}
        /\ \A k \in Jobs : pc'[k] = IF k = j THEN "ended" ELSE pc[k]
    BY <1>6 DEF ResetFails, Go, own, record, release, TypeOK
  <2>2. row[j] = None /\ None \notin InFlight
    BY <2>1, RevertingIsRevert, ApplyAssumption DEF Booked, Rows, ApplyAssumption
  <2> QED
    BY <2>1, <2>2 DEF Booked, Rows, OwnRevision, Rolled, Told, InFlightIsOwned
<1>7. CASE UNCHANGED vars
  BY <1>7 DEF vars, Booked, Rows, OwnRevision, Rolled, Told, InFlightIsOwned,
              own, record, release
<1> QED
  BY <1>1, <1>2, <1>3, <1>4, <1>5, <1>6, <1>7 DEF Next

(* There is nothing to book at first.                                       *)
LEMMA InitBooked == Init => Booked
BY ApplyAssumption
DEF Init, Booked, Rows, OwnRevision, Rolled, Told, InFlightIsOwned, ApplyAssumption,
    InFlight, Terminal

(* While the process serves, a row under way has a goroutine, unless the    *)
(* database lost a statement: upgrade_history and its reconciliation at     *)
(* startup agree on the statuses for any number of jobs and deaths.         *)
THEOREM RowsOwned == Spec => []InFlightIsOwned
<1>1. TypeOK /\ Shape /\ Booked /\ [Next]_vars => (TypeOK /\ Shape /\ Booked)'
  BY TypeStep, ShapeStep, BookedStep
<1>2. Booked => InFlightIsOwned
  BY DEF Booked
<1> QED
  BY <1>1, <1>2, InitBooked, InitShape, PTL DEF Spec

(* What a row says of an upgrade is what Helm recorded of its revision: a   *)
(* good end of one deployed with the job's values, "failed" of none or of   *)
(* one that failed.                                                         *)
THEOREM RowsTrue == Spec => []RowIsTrue
<1>1. TypeOK /\ Shape /\ Booked /\ [Next]_vars => (TypeOK /\ Shape /\ Booked)'
  BY TypeStep, ShapeStep, BookedStep
<1>2. Booked => RowIsTrue
  BY DEF Booked, RowIsTrue, Told
<1> QED
  BY <1>1, <1>2, InitBooked, InitShape, PTL DEF Spec

=============================================================================
