# A verification development for MatrixCtrl

MatrixCtrl is a panel that runs an Element Server Suite (Synapse, the
authentication service MAS, the SFU) on Kubernetes: it edits the configuration,
drives Helm, backs a homeserver up and restores it, and passes rooms, users and
moderation on to the servers' admin APIs. This directory holds TLA+ modules for
the parts of it that are protocols: several steps, several actors, something
that may fail in between. TLC checks them on small instances; TLAPS proves the
statements listed under *Proofs* for every value of the constants. All paths
below are relative to `src/`.

## The system

| Component | Code | State | Operations | Hard because | Correct when |
|---|---|---|---|---|---|
| Database restore | `internal/restore`, `internal/backup/dbrestore.go`, `internal/k8s/scale.go` | databases of the server, wanted replicas of the workload; nothing of its own is stored | `restore.Database`: stop, set aside, create, let the service build its schema, stop, load, verify, start; roll back on failure | any step may fail, the rollback too; answers get lost; a deadline; the process may die | old data is never lost, the report is true, one failure is undone |
| Full restore job | `internal/api/handlers/restore_full.go`, `internal/restore/parts.go`, `internal/backup/restore.go` | one job in memory, its log; configuration volume, own tables, media volume, one Secret | start, progress, plain restore; tables, repository, databases, media, keys | a guard read under another lock than it is written, a request beside the job, two hours, a death | one job at a time, each volume whole or as before, never called whole when it is not |
| Log stream | `internal/api/handlers/helm_stream.go`, `ws.go`, `web/src/lib/ws.ts` | log, subscribers, status; per connection a handler; the page's gate | emit, finish, subscribe, unsubscribe, replay, reconnect, ask | handlers outlive connections, buffers fill, the operation ends at any moment | the page shows the log once and in order and is told the true end |
| Applying configuration | `helm_upgrade.go`, `config_preview.go`, `internal/config/store.go`, `internal/git/repo.go`, `internal/helm/upgrade.go` | working tree, index and branch; the release and its revisions; history rows; origin of each apply | edit, discard, commit, apply, upgrade, rollback, revert an apply, go to a commit | no lock around the repository, Helm calls of minutes, database errors ignored, crashes | history tells the truth, an apply is whole, a revert returns to where the apply began |
| History and reconciliation | `internal/db/reconcile.go` | `upgrade_history` | close what no process works on, at startup | must know every status | no row is in flight for good |
| Hooks | `internal/hooks`, `internal/api/handlers/hooks.go` | hooks, `hook_run_log`, the fields they patch | run a trigger, run one, cover, edit, delete | one failing of several, a crash in a run, a second Helm call | every listed hook runs, its row is so |
| Helm's release, read cheaply | `internal/helm/release_read.go`, `cache.go`, `history_read.go`, `history.go`, `internal/db/revisionfacts.go` | a decoded release, facts of revisions in memory and in the database | probe, decode, list, fill, persist, invalidate | Helm rewrites its secrets between any two reads | an answer was so at some moment of the read |
| View of a rollout | `internal/rollout`, `internal/k8s/rollout.go`, `hostport.go`, `internal/api/handlers/helm.go` | the phase, the newest snapshot | read part by part, promote, publish; end the pod that holds a port | the cluster moves between two reads, the upgrade announces phases meanwhile | no healthy pod is ended, the stepper follows the upgrade |
| Drift report | `internal/api/handlers/drift.go`, `internal/drift` | none | ask hooks, cluster, field owners, manifest | each question may fail by itself | finding nothing means there is nothing |
| Matrix sessions | `internal/auth/matrixtoken.go`, `sessionsweep.go`, `internal/mas/sessions.go`, `internal/auth/oidc.go` | a store in memory; grants at MAS | put, get with renewal, forget, revoke, sweep | renewal without the lock, single-use refresh tokens, restarts | bounded, current, gone after sign-out, nothing left open at MAS |
| Login of MatrixCtrl | `internal/auth/throttle.go`, `bootstrap.go`, `authcode.go`, `wsticket.go`, `internal/api/handlers/auth.go` | attempts, login states, codes, sessions, tickets | log in, count, lock; issue, redeem, log out | requests that arrive together | attempts are limited, a credential is good once |
| From local to Matrix login | `internal/auth/oidc*.go`, `internal/api/handlers/helm_setup.go`, `setup.go`, `internal/helm/install.go` | the registration (fragment, what MAS loaded), login settings, the installed service, the first account | deploy ESS, connect, create the account, retry, reload | four places that may disagree, a slow build against a person, restarts | the local login closes only when somebody can get in, the person's service stays, the loop ends with a service |
| Backup | `internal/backup/full.go`, `homeserver.go`, `backup.go` | none | own tables, snapshot, counters, tables, other parts | the homeserver writes meanwhile | one moment, counters at or past it |
| Settings | `internal/config`, `internal/tasks`, `internal/api/handlers/config.go` | section files, `config-slices.json` | migrate, seed, edit by form, task or text | partial writes, two editors, text blocks inside YAML | what is reported as saved is what Helm gets |
| Login providers and mail | `login_providers.go`, `mail.go`, `mas_block.go`, `internal/masupstream`, `internal/k8s/secrets.go` | two Secrets, a reference in the settings, what MAS mounted and read | save, switch, delete, make MAS read | two handlers, one settings file, an apply beside them | no provider lost, MAS runs what was saved |
| Samplers | `internal/rtc`, `internal/synmetrics` | samples, the previous reading, address history | read, difference, record, judge | counters start again, rows fail, two recorders | nothing recorded that did not happen |
| Checks, proxies, web pages | `dnshealth`, `nodehist`, `updatecheck`, `capacity`, `synapse`, `mas`, `web` | last samples | read, compute, pass on | little | data, not protocol |

How they interact: a request handler starts a goroutine for a Helm operation;
the goroutine moves repository, release and history row and writes to a stream;
WebSocket handlers read the stream. A restore scales the same workloads an
upgrade rolls out, with nothing to keep them apart. Requests for rooms and users
take an access token from the session store, which renews it at MAS; signing out
and the hourly sweep end what the store and MAS hold. Setup writes the registration into the same
repository and drives the same Helm client. Login providers and mail edit the
same settings files as every form and rely on an apply or a restart of MAS.
`PROJECT.json` lists every
component with its status and every hazard with the line where it bites.

## The modules

### RestoreDatabase, and DatabaseSwap above it

`RestoreDatabase` is `restore.Database` step by step; `pc` names the call the
function is in. A *generation* identifies a database: 0 was there first, run
number k creates generation k; its *filling* says how far it is (empty, the
service's schema, being filled, loaded). `want`, `aside`, `previous` are the
function's `want`, `aside` and `res.PreviousName != ""`; `report` is what its
result and error tell the operator:

- `refused` (the aside name is taken), `error` (returned as it is),
  `unchanged` (the rename was refused), `undone` (rolled back),
  `blocked` (the rollback could not finish), `dataBack` (rolled back, service
  not up), `restored`, `notUp` (loaded, service not up), `crashed`.

Each call is an action that works (`CheckAside`, `Scale` then `WaitGone` or
`WaitReady`, `Terminate`, `Statement`, `OpenSink`, `Prepare`, `Load`, `Verify`,
`MergeKept`) and the two ways it fails: `Refuse` (an error that left nothing
behind, except that a `Scale` may have arrived) and `LoseAnswer` (the admin
connection breaks and nobody knows whether the statement happened). `OnError`
is the error path of every call, the ignored errors included. `Expire` is the
two-hour context, `Crash` the process. Kubernetes (`PodsFollow`,
`StatusUpdate`), the service (`ServiceConnects`), other clients and people
(`OtherConnects`, `ScaleOutside`) act whenever they like. Postgres' refusals
(`Accepts`) are external: no rename or drop while somebody is connected, no two
databases of one name.

`DatabaseSwap` is the promise without the means: set aside, create, finish,
discard what is unfinished, put back. `SwapSpec` is the refinement: the live
generation, the set of those kept aside, the runs, and "half-built" for a live
generation that is nobody's data yet.

### UpgradeStream

One operation with its heartbeat, the stream under its mutex, one handler per
connection (`at[c]` is its step in `WSHandler.UpgradeLogs`), and the page:
`useUpgradeStream` with its gate. Each operator `Emit`, `Finish`, `Subscribe`,
`Snapshot`, `Unsubscribe` is one critical section. A line is its position in
the log and the log records who wrote it (the introduction, the heartbeat, the
conclusion). A handler whose browser has gone notices by a failed write only.
The phase and the snapshots travel beside the log as a latest value; they are
`RolloutView`'s. `missed` is a history variable: a line was written while the page's
handler was between snapshot and subscription, or while its channel was full.

### ConfigApply

The repository (working tree, index, commits with their parents, branch), the
release (revisions with configuration and status), the cluster, and jobs: an
apply, an upgrade, a commit without deployment, a Helm rollback, a revert. A job
is a request; its `pc` names the next call. A configuration is a number, and
`Empty` the one an upgrade runs with that could not read any. `CommitAll` is two
steps (stage, commit) and `RestoreCommit` four, because nothing locks the
repository. Every database statement may be lost (`lost`), and git and the reads
of the release may fail (`trips`): the revision and the commit an apply notes as
its origin may both be missing, staging or committing may fail and the apply
deploys all the same (`Deploys`), each reset and the commit of a revert may fail
(`ResetFails`: branch, then index, then files may have moved). `foreign[j]`
is a history variable: somebody else moved repository or release while j was at
work, or was at work when it came; `moved[j]` says that the files changed between
the measuring of an apply and its commit. Edits, discards and resets to a commit
are one step each. Helm is external: it refuses an upgrade while a revision is pending,
writes a pending revision, and ends it deployed or failed; a rollback does not
look for a pending one.

### MatrixSessions

MAS (grants, the newest refresh token of each, whether they rotate), the store,
requests in `MatrixTokens.Get` (`asking` while the call to MAS runs without the
lock, then `renewed` or `refused`), background revocations, and the sweep. Time
is a choice: an access token may be within `refreshSkew` of its end whenever it
is looked at, and a day may have passed over any open grant when the sweep lists
the stale ones. `Put`, `Forget`, `Ask`, `Keep` are the critical
sections. `revived` and `raced` are history variables: an entry a renewal put
back after it was gone, an operator whose entry was worked on during a renewal.

### MatrixLogin

How a panel with a local login becomes one people sign in to through MAS. The
registration is in four places: `fragment` (repository), `loaded` (what MAS runs
with), `stored`/`env` (login settings), `installed` (the service of the
process). Requests deploy ESS (`Deploy`, `Install`), connect (`Connect`,
`ConnectWrite`, `Upgrade`, `Confirm`, `People`, four times `SaveKey`, `Load`,
`Reload`) or create the first account (`CreateUser`, `SetPassword`, `SetAdmin`);
`pc` names the next call. `RetryLook` and `RetryBuild` are the loop of
`RetryOIDC`. `Die` and `Start` are the process; `MasDown`, `MasUp`,
`ConfigReverted`, `OthersDeploy` and `AdminDemoted` are what others do.
`disturbed`, `mayClose` and `straddled` are history variables. Requests of one
kind side by side, and of different kinds, are all in the run.

### The parts

Eleven smaller modules are about state nobody else relies on. `MCParts` checks
them side by side: the first state chooses one, and from there that module's own
`Init` and `Next` run, its variables in the slots `v1` to `v9`. One run stands
for eleven, with the bounds at each `INSTANCE`; five parts have two, one with
more actors and no trouble, one with fewer actors and two or three troubles (a
restore that starts where another failed or died is left to the proof,
`RestoredWhole`). `m1`, `m2` and `p1`, `p2` are
interchangeable in every part that uses them (requests, restores, fields,
counters; addresses, charts, credentials), so symmetry is sound: none of the
properties is about liveness.

- `LocalLogin`: the bootstrap login and its throttle, each look at a counter and
  each change of it a statement (`CheckUser`, `Compare`, `FailAddress`,
  `FailUser`, `ClearAddress`, ...). Two requests, a lockout after two.
- `OneUse`: `AuthURL` issues a state, `Callback` spends it for a code,
  `ExchangeCode` spends that for a session, `WSTicket` and `RedeemTicket` spend
  tickets; expiry, logout, restart. Rows of the database are redeemed by one
  statement, which is why several requests need not be told apart.
- `HookRuns`: `RunTrigger` and `RunHookByID` with the list read once, the row
  inserted, judged against the manifest, acted on and closed; hooks edited and
  deleted meanwhile, a second trigger, lost statements, a death.
- `RestoreJob`: the guard, the upload, the move of the repository (`Clear`,
  `Stage`, `Aside`, `Place`, `Unplace`, `Clean`), own tables, the databases, media
  with its staging, keys and the restart after them; every call may fail, the
  deadline may pass, the process may die. A restart is asked for and not waited for:
  a service is `"restarting"` from the patch of its annotation until its pod is
  new (`PodRestarts`), which may be never.
- `ReleaseReads`: the probe, the cached release and its identity; the list of
  revisions and their facts; Helm begins, supersedes, forgets, ends, uninstalls
  and installs again, from revision 1 (`Install`), between any two steps; what was
  kept of the old release stays in memory and in the database. A reader is `misled` when its answer was true at no moment of
  its read.
- `SectionFiles`: migration to sections, seeding, edits by form, task and text. A
  text (`PutSlice`) may say anything of any section in any listed file.
  A request may be partly written, which the code allows.
- `DriftReport`: one object, its fields with value and owner, the chart, the
  hooks; a report of five questions.
- `Backup`: numbers drawn and committed by the homeserver, own tables, the
  order of the archive.
- `RolloutView`: workloads with old and new pods, Helm's writes, the upgrade's
  announcements, the snapshot in its six reads, the probe in its three.
- `Samplers`: the counters of a process that starts again, readings in which any
  counter may be missing and counts as zero (`Reading`), the two kinds of
  previous reading, the address history with watcher and page.
- `MasSecrets`: the two Secrets, the settings that mount them, an apply, MAS;
  `activate` step by step for two requests under two locks.

In every module a definition marked *Fault* is a bug the code does not have; no
action uses it, it is there to show which property would find it
(`PROJECT.json`, "mutants").

## What is checked

Deadlock checking is off everywhere: every one of these systems may stop (no more runs,
the operation over, all jobs done, nothing left to sweep at a bound).

| Run | Bounds | Distinct states | Shows |
|---|---|---|---|
| `restore_database` | 2 aside names, up to 1 replica, 2 runs, 1 injected failure in each | 336 000 | `NothingIsLost`, `LoadsAlone`, `ReportIsTrue`, `OneRefusalIsUndone`, `SwapSpec`, `RunReturns` |
| `upgrade_stream` | 2 sockets, 1 retry, a channel of 1, 1 heartbeat, 1 line before Helm, a failing operation | 604 000 | `GateIsExact`, `WholeStory`, `TheEndIsTrue`, `HeartbeatNeverUnderneath`, `NobodyLeaksAChannel`, `EveryHandlerEnds`, `EveryPageSettles` |
| `config_apply` | 2 jobs of any kinds, 1 edit, 1 trouble (a reset, a death, a lost statement, or a failure of git or of a read) | 869 000 | `InFlightIsOwned`, `RowIsTrue`, `AppliedWhole`, `RevertWaits`, `RevertGoesBackWhole`, `ClusterFirst`, `RowsSettle` |
| `matrix_sessions` | 2 operators, 2 grants, 2 requests, room for 1, 2 tokens a grant, 1 trouble | 432 000 | `StoreIsBounded`, `HeldIsCurrent`, `SignOutSticks`, `NothingStaysOpen` |
| `matrix_login` | 2 requests of any kind, 2 addresses, 1 trouble or death | 715 000 | `LocalLoginStays`, `SwitchIsConfirmed`, `PersonWins`, `RetryRecovers` |
| `parts` | at each `INSTANCE` of `MCParts` | 4 047 000 | one property for each of the eleven parts, see below |

What the eleven properties of `parts` say: `GuessesAreBounded` (no more wrong
passwords between two rests of a lock than lock it, plus those that came in
together, plus those that could not be counted), `CredentialsAreGoodOnce` (and a
session goes back to the state of a login), `HooksHold` (every listed hook has a
row with its end, and where it says success or skipped the patch is in effect),
`RestoresAreWhole` (one job; the repository whole or as before; a restore without
complaint is complete, and its services run with the archive's keys or have been
asked to restart and read them), `ReadsAreTrue`, `GreenMeansInEffect`,
`BackupIsOneMoment` (tables of one snapshot, counters at or past it, no run of a
hook without the hook), `RolloutIsTold` (the probe ends no pod it need not end;
the stepper shows the upgrade's phase), `HistoryIsTrue` (no row counts backwards; no delta of something
that did not happen and nothing summed twice where no answer lacked a counter;
"ok" only when it was),
`SecretsAreRead` (no provider dropped; once everybody is done MAS runs what was
saved or the settings say what an apply will bring), `SavedReadsBack` (what is
reported as saved is what Helm is given, and nothing else changed, for sections
with a listed file of which no other listed file speaks). `ReadsAreTrue` says that
a reader was told what was so at some moment of its read; of a release that was
installed again it says it of revisions and statuses, not of the charts in a
history, and not of a release that was probed while pending.

What `config_apply` says of an apply: `AppliedWhole` needs nobody's absence. An
apply that ended well deployed the configuration of the commit it left, whoever
stages, commits, resets or deploys beside it, but for files written after they
were measured (`moved`) and a commit git did not take (`mine` is `None`). A revert
is judged by what its apply had noted: without a revision nothing is said of the
cluster, without a commit nothing of the files.

The type invariant of `RestoreDatabase` is among the properties of its run. The
others (`TypeOK` in each module) hold at the same bounds and are not repeated in
the configurations: what they could find, the properties above find too.

Why the bounds are enough to be interesting. Two runs with two names meet the
same-minute name, an aside database of an earlier run and a restore after a
failed one; two failures in one run arise all the same, because a failure may
make later steps hopeless (an expired context, a lost connection). Two sockets
give one reconnect with the old handler still alive; a channel of one line runs
full within a log of four. Two jobs give every pair: an apply and its revert, two
applies, a rollback during an apply; three jobs are beyond five minutes. Room for
one session makes the second operator meet a full store; two tokens per grant are
one renewal and its competitor. A replica count of 0 or 1 tells "as it was" from
"started". Failing operations only are what the stream run
uses because the outcome does nothing but decide how many lines follow. One
trouble in `config_apply` is one failing question, reset or commit, in each of the
places it can be. Two counters (`CPU` is the one every Synapse has) make an answer
that has one and lacks the other; three lives make a restart before and after it.
A text says one of four things of each of two sections, or nothing (`Texts`), so
that a file can speak of the other's section. A reinstallation (`Reinstalls`) is
checked with one reader and one trouble; two readers see none.

### Fairness

- `RestoreDatabase`: the goroutine takes a step it can take, a call that cannot
  succeed returns its error (every call takes the context, and
  `context.WithTimeout` of two hours is real), the deadline comes. Neither
  Kubernetes nor anybody else is assumed to do anything.
- `UpgradeStream`: operation, heartbeat and handlers are goroutines, Helm's
  call has a timeout of ten minutes, a dead socket fails the ping every handler
  sends, the page's timers fire; one condition for all of them, whose steps are
  finitely many. Sockets need not drop, nor the process die.
- `ConfigApply`: a goroutine that can go on does, Helm's timeouts end its calls, a
  dead process is restarted (a Deployment) and reconciles before it serves. The
  jobs share one condition of fairness: each makes finitely many steps, so none
  is held up for good.
- `MatrixLogin`: a dead process is started again, and the retry loop, a
  goroutine with a bounded wait, takes its next step. No request is promised, nor
  that MAS comes back: `RetryRecovers` says what follows if it does.
- The parts have no liveness property and assume no fairness.
- `MatrixSessions`: a grant nobody holds is not used and a day passes, after which
  the sweep, which ticks every hour, lists it; its calls have a deadline.
  Revocation is not assumed to happen.

### Where the code and its words differ

Six runs expect a violation; each states a sentence of the repository.

- `restore_service_down`: "A failure anywhere in 2-6 rolls back ... start the
  service" (`restore.go`). When the second `Exists`, after the first stop, fails,
  the function returns with the service at zero replicas. The run begins with a
  service asked to run with two, its database in place, and has that one failure.
- `upgrade_lost_line`: "so a reconnecting client loses nothing" (`ws.go`). A
  line between snapshot and subscription is in neither.
- `hook_failure`: `hooks-failed` means "a post-upgrade hook did not" succeed
  (`docs/GUIDE.md`). It means the hooks could not be listed.
- `revert_rewrites`: "not a rewrite of history" (`repo.go`). A death between the
  hard and the soft reset, one of them failing, or another job in between, is one.
- `sign_out`: "Signing out drops the operator's Matrix session too" (`auth.go`).
  A renewal in flight puts it back.
- `ready_bar`: "every replica exists, runs it, and is ready" (`k8s/rollout.go`).
  The new pod is counted as updated and the old one as ready.

Other places where modelling met a difference between the code and what is said
of it, or a weakness somebody should decide about. No run is spent on them; where
one touches a property, the property takes the case out and says so.

*Login.* Two fresh connects that cross can install a client MAS does not know.
Connecting does not ask whether MAS has read the redirect it added. The retry
loop installs what it built without looking again. A reload that could not build
says success. The four login settings are stored one by one, and "Nothing was
switched over" is said with some of them stored. Creating the account again after
half of it worked is a conflict. "Continuing to hammer it keeps it locked" is not
so: a locked key is not counted up. A failure that cannot be recorded is not
counted. A local login in flight when OIDC is installed succeeds. A WebSocket
ticket outlives a logout by its thirty seconds. A failed first install leaves a
release, after which deploying is refused.

*Applying and reverting.* When git does not take the commit, an apply warns and
deploys all the same, and its row says success: the branch then does not hold what
runs (taken out of `AppliedWhole`). Files written between measuring and commit are
committed and not deployed. When the release cannot be read a second time, the
apply notes no revision, and its revert moves the repository alone while the
cluster stays on the new configuration; when `HeadSHA` fails it notes no commit,
and the revert leaves the files where they are (taken out of `ClusterFirst` and
`RevertGoesBackWhole`). "Callers run it right after a commit, when there are none"
is not so of `RestoreCommit`: after a commit that failed, the revert throws the
uncommitted edits away. An upgrade that cannot read its configuration runs with
none. A reset that fails halfway leaves branch, index and files apart.

*Hooks and drift.* A hook with a history cannot be deleted. An update of a hook
ignores a changed trigger. Rollback hooks run under the request. A manual run
after a failed Helm call judges by that release's manifest. A hook whose row
cannot be decoded is silently missing from the report. *Covered* means at least
one field is.

*Restore and backup.* Dying between moving the repository aside and placing the
new one leaves it empty, and the next restore removes what was set aside. A plain
restore is not held back by the job. A lost commit answer makes "the database is
unchanged" untrue. Media staging is named by the run, so leftovers are never
removed. A restored archive brings old sessions back. "The services start with the restored
data" is said when their restart was asked for; nobody waits for it. A failing backup ends its
archive regularly; verification looks only at loaded tables. Which own tables
have rows is asked of statistics.

*Helm and the rollout.* Facts of revisions outlive an uninstall, in memory and in
`helm_revision_facts`: when the release is installed again its revisions begin at 1
and the history shows them with their predecessors' charts, although
`revisionfacts.go` says "there is no invalidation here, and none is missing". A
secret Helm created and has not rewritten has no `modifiedAt`, so a pending revision
of the new release may be taken for the one of that number that was kept (taken out
of `ReadsAreTrue`). The phase shown
last may stay one announced earlier, when a snapshot was in flight. A partial list
of workloads shows what it has as everything. Pods are matched by the prefix of a
name.

*Settings and secrets.* A migration that dies between removing the old files and
writing the list leaves an empty configuration. An edit of a section whose file
is not listed is written and never merged; one of a section that a later listed file
sets as well, which any text may do, is written and overridden (both are taken out
of `SavedReadsBack`). Two edits of one file lose one of
them, a reference to a Secret included. A provider saved but not activated is
"unchanged" the next time, and MAS is not told. Emptying a client id turns a
working provider into a draft that may be deleted. A failed look at the volumes
of MAS counts as "not deployed". Two restarts in one second are one.

*Samples.* Two recorders can record one answer twice, and an address recorded
after the SFU started counts as changed since. An address that came and went
between two lookups is not seen. A counter missing from a reading is zero: the call
server's sampler takes that for a restart and counts all the others in full again,
Synapse's counts this one again when it is back (taken out of `HistoryIsTrue`, but for
a row below zero). An older update check may overwrite a newer one. With no free CPU on the
largest node there is no warning.

The passing invariants say what holds in spite of these: `SignOutSticks` and
`StoreIsBounded` except the entries a renewal revived, `GateIsExact` and
`WholeStory` unless a line was missed, `RevertGoesBackWhole` for a revert that
got to its end alone.

Some hazards in `PROJECT.json` have no property, because what goes wrong there is
what the code does and every property takes it out: the line dropped at a full
channel, the page that gives up silently, the late promotion of the phase, the
retry loop that overwrites a connect. Their notes say so.

## Proofs

Each theorem is `Spec => []Property` or `Spec => Property`, for every value of
the constants within the assumption of its module. These assumptions say that
bounds are numbers, that jobs, requests and operators are numbered, some of them
finitely many, and that `None` is none of the things it stands beside; TLC
evaluates each one on every run of its module (`PartsAssumption` of `MCParts` for
the parts that assume anything). None of them limits how many jobs, failures,
sockets, restarts or requests there are. Almost no property is inductive as it
stands; the named invariants below are what it takes. Those of the large modules
were checked by TLC before they were proved.

**`RestoreDatabaseProofs`** (`RestoreAssumption`)

- `TypeCorrect`: `TypeOK`.
- `DataSafe`: `NothingIsLost`. The drop of a rollback removes whatever has the
  live name, so one needs to know that this is never anybody's data. `IInv` adds
  that from the rename until the old database is back the live name holds nothing
  or this run's own generation (`LiveIsOwn`, `OwnIsThere`), that this run's
  generation is nobody's data before the last start (`OwnIsNobodys`), and that
  generations are handed out once (`GensBounded`). `EffectLosesNothing` is the
  lemma about the four statements, lost answers included; `HandOver` the one
  about the moment a new database becomes somebody's data.
- `ImplementsSwap`: the refinement `SwapSpec`. `Apart` adds that what is aside, or
  live before the new database is there, is somebody's data, and that no two names
  hold one generation. `EffectSwaps` maps the statements, `SwapStep` every action,
  to a step of `DatabaseSwap` or a stutter.
- On `IInv` too, what a restore works on and what it says. `LoadedAlone`: `LoadsAlone`, from `Stopped`: once the second stop was believed
  nothing but an operator who scales starts a pod before the loading is over.
- `ReportTrue`: `ReportIsTrue`, from `Where`, which says for every step under which
  name the data is that the run found. The one step that leaves the program in the dark
  is a refused rename whose answer was lost; the report has an excuse for exactly
  that.
- `RefusalUndone`: the action property `OneRefusalIsUndone`, from `Regret` (with one
  refused step the rollback goes through each of its steps) and `Wanted` (the
  replicas to go back to).

**`ConfigApplyProofs`** and **`ConfigTreeProofs`** (`ApplyAssumption`)

- `TypeCorrect`: `TypeOK`; that heads, revisions and origins name something that
  is there needs `Shape`: which steps each kind of request goes through, that only a
  revert takes something back, what is known by which step.
- `Waits`: `RevertWaits`, from `Shape`: an operation whose stream is over does not
  move the cluster again.
- `RowsOwned`, `RowsTrue`: `InFlightIsOwned` and `RowIsTrue`, from `Booked`: the
  status of a row at each step of its job, no two jobs with one revision, and what
  a job was told of its rollout is what Helm recorded.
- `RevertsClusterFirst`: `ClusterFirst`, of reverts whose apply noted a revision.
  `ClusterIsLatest` and `BackSoFar` say where
  the cluster is at each step of a revert nobody disturbs; `OthersLeaveAlone` is
  the lemma that not being disturbed means what it should.
- `ApplyIsWhole`: `AppliedWhole`, from `KeptSoFar`: files, then index, then the commit
  agree with the measured values at each step of an apply, unless the files were
  written under it. `FilesOrNoted` is why nobody else's step escapes that: it stages
  the same files, leaves them alone, or is noted in `moved`.
- `RevertReturns`: `RevertGoesBackWhole`, from `TreeInv`. An apply nobody disturbed whose
  commit git took leaves files and index on the branch and its commit in the history, except
  between the two resets of one of its reverts, which still has the branch to go
  back to (`Left`, `Standing`). Two reverts of one apply disturb each other, though
  not the apply, so only the undisturbed one is alone between its resets (`Alone`).
  `LineGrows` is the lemma about histories: a commit on top of what was there has
  every older line unchanged. The history of a commit (`Line`) is a closure, not a
  recursive function, which is what makes that provable without induction.

**`MatrixSessionsProofs`** (`SessionsAssumption`)

- `TypeCorrect`: `TypeOK`; it needs to know that a request under way carries
  somebody's credential (`RequestsKnow`).
- `StoreBounded`: `StoreIsBounded`, from `BoundInv`: what was revived is in the
  store, and the rest is within `maxSessions`. `FewerAreBounded` carries the
  cardinality argument.
- `SigningOutSticks`: `SignOutSticks`, from `Ownership` (every entry, request and
  revocation has a grant of its operator) and `Undisturbed` (what a request renews
  is what the store holds, unless somebody was at work on the entry).
- `TokensAreCurrent`: `HeldIsCurrent`, from `Tokenwise`: no token is newer than the
  one MAS accepts, and a request with an answer has that one. It needs the sign-out
  invariants too: an entry that was put back late has an old token.

**`UpgradeStreamProofs`** (`StreamAssumption`)

- `ConclusionIsLast`, `EndIsTrue`, `NoChannelLeaks`: `HeartbeatNeverUnderneath`,
  `TheEndIsTrue` and `NobodyLeaksAChannel`, together as `StreamInv` with `Goroutine`
  (what the log can hold at each step of the operation) and `Ending` (the stream
  ends once, and its end is what every handler was given).
- `LinesAreShownOnce` and `EndComesLast`: `GateIsExact` and `WholeStory`, from
  `StoryInv`. As long as nothing was missed the page shows a beginning of the log and the
  handler it listens to owes it exactly the rest (`Exact`, `Owed`), be it by
  replay, in its channel, or as its last word. A handler of an earlier connection
  owes nothing.

**`MatrixLoginProofs`** (`LoginAssumption`), all from `LoginInv`

- `TypeCorrect`: `TypeOK`.
- `LocalStaysOpen`: `LocalLoginStays`, by `NotYet`: before a confirmation there are no
  settings in any of the four places they can be in.
- `PersonFirst`: the action property `PersonWins`, by `Straddle`.
- `SwitchedConfirmed`: the action property `SwitchIsConfirmed`, by `Footing`: what an
  undisturbed connect stands on from its write to its switch. It needs
  `OneRollout`: Helm's rollouts exclude one another, or another request's rollout
  would replace what MAS loaded.

**`PartsProofs`** (the parts in which requests and jobs meet one another)

- `GuessingEnds` (assuming `Throttled`): `GuessesAreBounded`. `Tallied` counts: open,
  every guess is counted, on its way to being counted, or could not be; locked, only
  who passed the check before may still guess. `OneMoves` is the lemma about how
  the two sets of requests change when one of them takes a step.
- `OpenOnce` (assuming `Drawn`): `CredentialsAreGoodOnce`, from `Chained`: what opened
  something is good no longer, and a session has a code, a code a login that was
  used.
- `RestoredWhole` (assuming `Distinct`): `RestoresAreWhole`, for any number of
  restores beside one another and any number of failures and deaths. `JobInv` says
  whose turn it is (`Turns`: the job that runs is the one in the slot, and a restore
  that calls itself alone has nobody beside it); for each step that moves the
  repository, entry by entry, what the live, the staged and the old directory hold,
  on the way there and on the way back (`Moving`; a second failure on the way back
  leaves them anywhere, which the code allows and the property too); and what is
  done by which later step unless the restore has said that it was not (`Done`): of
  the services, that they have the archive's keys or were asked to restart.
  `Renames` is the lemma about the one `Moved` all of it rests on.
- `HooksAreHeld` (assuming `Named`): `HooksHold`, for any number of triggers and
  failures. Of every hook a trigger listed `HookInv` says that it has its end, is told
  as lost or still waits in the queue, and is there once (`Queues`); and that since a
  quiet trigger listed its hooks Helm has not been at the objects, so what it patched
  so far is in (`Patches`). `InEffect` is why a hook may be skipped: after a Helm
  call that went through the chart's own patches are live.
- `PastIsTrue` (assuming `Judged`: None is not a verdict): `HistoryIsTrue`, for any
  number of readings, restarts of either side, rows, lookups and failures, from
  `HistInv`. Of the counters (`CountInv`): the process as it was at any reading taken
  earlier, in a row, in memory or under way, is `Before` what it was at a later one,
  which says how their counts and lives relate, and no row counts from before what an
  earlier row ends with (`Follows`). What was seen of it is all of it only in a complete
  row, and only of those `CountsAreTrue` says more than that nothing counts below zero.
  `TotalIsBounded` adds the rows up when all are complete. Of the address (`AddressInv`): what a recorder is
  about to write is a change that happened unless two lookups crossed
  (`Anticipates`), and a page that has not had its moment yet will find a row newer
  than the start of the call server (`JudgesBySight`).
- `SavedIsRead` (assuming `Named`: sections have no old file's name, and nothing is no
  value, block or file): the action property `SavedReadsBack`, for any number of
  sections, keys, requests, edits, migrations and failures, from `SaveInv`. Any file may
  say anything of any section (`Filed`); the merge takes of each section what the files
  say of it, layer by layer (`MergedIsLayered`), so that files which say the same of a
  section merge to the same of it (`MergedAgrees`), and a section nobody else speaks of
  is what its own file says (`MergedOwn`). While a request is alone the merge is what it
  found with what it has written in its place, but for sections it writes and others
  speak of (`Editing`, `SoFar`); `PlanReadsBack` is the lemma about the form's plan. A migration keeps the merge until its files are all
  written, and the list comes last (`Migrates`).
- Both are about something that is folded from its entries, `Sum` of the rows and
  `MergeOf` of the files. The modules write these folds as recursive functions, and
  the induction over their length is `Least` (a set of numbers has a least element,
  by the well-foundedness of finite subsets), `Inductive` (a set with zero and every
  successor has all numbers) and `Iterates` (what is defined from one step to the
  next is defined).

**`ReadingProofs`** (the parts that read what somebody else writes meanwhile)

- `BackupHoldsOneMoment`: `BackupIsOneMoment`, from `ArchiveInv`. Once the counter is
  in the stream it is at or past every number of the snapshot, and every table that
  was copied is the snapshot (`OneMoment`); the runs that were copied are of hooks
  that are still there until the hooks are copied too, which is why the runs go first
  (`RunsHaveHooks`); and with no failure what is not in the stream is still to come
  (`Complete`).
- `GreenIsInEffect` (assuming `Listed`): `GreenMeansInEffect`, from `DriftInv`: while the
  cluster is left alone, each verdict so far is true of it and each edit by hand is
  in the list it was put on (`TrueSoFar`). A report that does not say *drifted* or
  *unknown* has then looked at every patch.
- `SecretsAreSeenTo`: `SecretsAreRead`, from `SecretsInv`. Two requests that are at work
  are at work on different blocks (`Locked`), so that what one saves is what it loaded,
  changed, and drops nobody's provider (`Proposed`). A block MAS does not run as it is
  saved has a request that is about to see to it (`SeenTo`), as long as nothing failed
  and no two requests edited the settings across one another.
- `RolloutIsShown`: `RolloutIsTold`, from `ViewInv`. A pod is refused its ports only after
  Helm wrote its workload, and the probe's victims are pods that hold ports
  (`Refused`); what nobody wrote is ready and is read as done (`Untouched`, `Reading`),
  so that no snapshot speaks of a rollout before Helm wrote.
- `ReadsAreSo`: `ReadsAreTrue` of a release that is installed once
  (`ReadsAreTrueOfOne`), from `ReadsInv`, for any number of requests, revisions,
  failures and restarts. Whoever knows a chart of a revision, be it the cluster, the
  memory, the table or what a request has seen, knows the same one, and nobody
  knows one of a revision that Helm has yet to write (`Agreed`): that is why facts
  may be kept as long as the release stays installed, and no longer, for with an
  installation the numbers begin again. A status only
  moves on (`MovesTo`), so that a release which was decoded after a probe saw its
  identity was, too, at some moment of whoever probes that identity again
  (`Decoded`). `HelmChanges` is the lemma about the steps of Helm.

Only model-checked, because the proof system does not reach it: liveness under
fairness (`RunReturns`, `EveryHandlerEnds`, `EveryPageSettles`, `RowsSettle`,
`NothingStaysOpen`, `RetryRecovers`); and `ReadsAreTrue` after an installation anew,
which is beyond `ReadsInv`. Every other property of a passing run is proved
for every value of the constants, those of `MCParts` part by part.

## Not modelled, and why

Rows and tables of an archive (data; a restore's filling stands for them), its
format and its sealing, the verdict of the capacity check (a computation; it
admits or refuses), chart rendering, the chart registry, the schema and the
catalogue of settings and the keeping of comments (text), the checks of DNS, TLS,
nodes and updates (periodic reads nothing depends on), rooms, users and
moderation (requests passed on, nothing kept), the update of MatrixCtrl itself
(one Job handed to Kubernetes), the web pages other than the stream's hook,
deployment files. Of the sweep, the sign-in sessions and MatrixCtrl's own tokens,
which no operator's entry refers to.

## Plan

Order of the work, the most important behaviour first:

1. done: `DatabaseSwap`/`RestoreDatabase`, `UpgradeStream`, `ConfigApply`,
   `MatrixSessions`.
2. done: `MatrixLogin`, and the eleven parts under `MCParts`.
3. done: proofs of the five large modules, the refinement `SwapSpec`, and the
   eleven parts.
4. worth an abstract specification: a log with a reader that misses nothing,
   above `UpgradeStream` without its gap; the one-use credential above `OneUse`.

## Running it

    tlc -workers 2 -config MCRestoreDatabase.cfg MCRestoreDatabase
    tlapm RestoreDatabaseProofs.tla

and likewise for the other configurations and the other modules whose name ends in
`Proofs`; the runs of `PROJECT.json` name the module and the configuration. The
longest run takes two or three minutes, the longest proof ten.
