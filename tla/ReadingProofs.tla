---------------------------- MODULE ReadingProofs ----------------------------
(***************************************************************************)
(* Of the parts that MCParts checks side by side: those that read, step by *)
(* step, what somebody else writes meanwhile.  The backup reads Synapse's  *)
(* database, MAS the blocks of its settings, the drift report a live       *)
(* object, the view of a rollout the workloads, and the reads of the       *)
(* release the secrets of Helm; for any number of rows, requests, fields,  *)
(* workloads and revisions, and of failures.                               *)
(***************************************************************************)
EXTENDS Integers, Sequences, FiniteSets, FiniteSetTheorems, TLAPS

CONSTANTS MaxId, HookIds,                           \* of Backup
          Fields, Values, Hooks, MaxEvents,         \* of DriftReport
          Requests, MaxRequests,                    \* of MasSecrets
          Deployments, HostNetwork, StatefulSets,   \* of RolloutView
          Readers, Charts, MaxRevision, Reinstalls, \* of ReleaseReads
          MaxTroubles, None

VARIABLES counter, open, rows, own, counted, export, archive,
          live, owner, chart, hooks, report,
          secret, mounts, applying, deployed, mas, request, told, asked,
          spec, pods, op, stream, snap, probe,
          secrets, relCache, revCache, store, which, again, reader,
          events, troubles

Archive == INSTANCE Backup
Drift == INSTANCE DriftReport
Secrets == INSTANCE MasSecrets
View == INSTANCE RolloutView
Reads == INSTANCE ReleaseReads WITH kind <- which

-----------------------------------------------------------------------------
(* What Synapse's database, the own tables, an export and an archive hold. *)
Exports  == [at : {"idle", "own", "snapshot", "sequences", "tables", "others"},
             todo : SUBSET (Archive!OwnTables \cup Archive!Tables), others : SUBSET Archive!Others,
             hs : BOOLEAN, snapshot : SUBSET Nat]
Archives == [parts : SUBSET ({"matrixctrl", "homeserver"} \cup Archive!Others),
             own : UNION {[D -> SUBSET HookIds] : D \in SUBSET Archive!OwnTables},
             config : BOOLEAN, listed : SUBSET Archive!Tables, sequence : Nat \cup {None},
             tables : UNION {[D -> SUBSET Nat] : D \in SUBSET Archive!Tables},
             others : SUBSET Archive!Others, closed : BOOLEAN]

Recorded ==
    /\ counter \in Nat /\ open \in SUBSET (1..counter) /\ rows \in SUBSET (1..counter)
    /\ own \in [Archive!OwnTables -> SUBSET HookIds]
    /\ own["hook_executions"] \subseteq own["hooks"]
    /\ counted \in SUBSET Archive!OwnTables
    /\ export \in Exports /\ archive \in Archives /\ troubles \in Nat

(* What is in the stream, at each step of the export.                      *)
OneMoment ==
    /\ \A id \in export.snapshot : export.at \in {"sequences", "tables"} => id <= counter
    /\ export.at \in {"own", "snapshot", "sequences"} =>
          DOMAIN archive.tables = {} /\ archive.listed = {}
    /\ export.at \in {"sequences", "tables"} => export.todo \subseteq Archive!Tables
    /\ export.at = "sequences" => export.todo = Archive!Tables
    /\ export.at = "tables" =>
          /\ archive.sequence \in Nat /\ \A id \in export.snapshot : id <= archive.sequence
          /\ \A t \in DOMAIN archive.tables : archive.tables[t] = export.snapshot
          /\ archive.listed = Archive!Tables
          /\ DOMAIN archive.tables = Archive!Tables \ export.todo

(* The runs that were copied are of hooks that are still there.            *)
RunsHaveHooks ==
    /\ export.at = "own" =>
          /\ export.todo \subseteq Archive!OwnTables
          /\ "hooks" \in DOMAIN archive.own => "hook_executions" \notin export.todo
    /\ "hook_executions" \in DOMAIN archive.own =>
          archive.own["hook_executions"] \subseteq own["hook_executions"]

(* Where nothing failed, what is not in the stream is still to come.       *)
Complete ==
    /\ export.at # "idle" => ~archive.closed
    /\ export.at # "idle" =>
          archive.others \cup export.others = archive.parts \ {"matrixctrl", "homeserver"}
    /\ export.at = "others" => archive.listed = DOMAIN archive.tables

ArchiveInv ==
    Recorded /\ OneMoment /\ RunsHaveHooks /\ Complete /\ Archive!BackupIsOneMoment

(* The next one of a list is in it, and run records come before hooks.     *)
LEMMA FirstOfTwo ==
  /\ \A S \in SUBSET Archive!OwnTables : S # {} =>
        Archive!First(S) \in S /\ ("hook_executions" \in S => Archive!First(S) = "hook_executions")
  /\ \A S \in SUBSET Archive!Tables : S # {} => Archive!First(S) \in S
<1> DEFINE Least(S, t) == t \in S /\ \A u \in S : Archive!Rank[t] <= Archive!Rank[u]
<1>1. /\ Archive!Rank["hook_executions"] = 1 /\ Archive!Rank["hooks"] = 2
      /\ Archive!Rank["event_json"] = 1 /\ Archive!Rank["events"] = 2
  BY DEF Archive!Rank
<1>2. ASSUME NEW S, \E t : Least(S, t) PROVE Least(S, Archive!First(S))
  BY <1>2 DEF Archive!First
<1>3. ASSUME NEW S \in SUBSET Archive!OwnTables, S # {}
      PROVE  \E t : Least(S, t)
  <2>1. CASE "hook_executions" \in S
    <3>1. Least(S, "hook_executions")
      BY <1>1, <2>1 DEF Archive!OwnTables
    <3> QED
      BY <3>1
  <2>2. CASE "hook_executions" \notin S
    <3>0. S = {"hooks"}
      BY <1>3, <2>2 DEF Archive!OwnTables
    <3>1. Least(S, "hooks")
      BY <1>1, <3>0
    <3> QED
      BY <3>1
  <2> QED
    BY <2>1, <2>2
<1>4. ASSUME NEW S \in SUBSET Archive!Tables, S # {}
      PROVE  \E t : Least(S, t)
  <2>1. CASE "event_json" \in S
    <3>1. Least(S, "event_json")
      BY <1>1, <2>1 DEF Archive!Tables
    <3> QED
      BY <3>1
  <2>2. CASE "event_json" \notin S
    <3>0. S = {"events"}
      BY <1>4, <2>2 DEF Archive!Tables
    <3>1. Least(S, "events")
      BY <1>1, <3>0
    <3> QED
      BY <3>1
  <2> QED
    BY <2>1, <2>2
<1>5. ASSUME NEW S \in SUBSET Archive!OwnTables, S # {}
      PROVE  Archive!First(S) \in S /\ ("hook_executions" \in S => Archive!First(S) = "hook_executions")
  <2>1. Least(S, Archive!First(S))
    BY <1>2, <1>3, <1>5
  <2>2. "hook_executions" \in S => Archive!Rank[Archive!First(S)] <= 1
    BY <2>1, <1>1
  <2>3. Archive!First(S) \in {"hook_executions", "hooks"}
    BY <2>1, <1>5 DEF Archive!OwnTables
  <2> QED
    BY <2>1, <2>2, <2>3, <1>1
<1>6. ASSUME NEW S \in SUBSET Archive!Tables, S # {} PROVE Archive!First(S) \in S
  <2>1. Least(S, Archive!First(S))
    BY <1>2, <1>4, <1>6
  <2> QED
    BY <2>1
<1> QED
  BY <1>5, <1>6

(* The same of the parts.                                                  *)
LEMMA FirstOfOthers == \A S \in SUBSET Archive!Others : S # {} => Archive!First(S) \in S
<1> DEFINE Least(S, t) == t \in S /\ \A u \in S : Archive!Rank[t] <= Archive!Rank[u]
<1>1. Archive!Rank["mas"] = 1 /\ Archive!Rank["media"] = 2 /\ Archive!Rank["secrets"] = 3
  BY DEF Archive!Rank
<1> SUFFICES ASSUME NEW S \in SUBSET Archive!Others, S # {} PROVE Archive!First(S) \in S
  OBVIOUS
<1>2. "mas" \in S => Least(S, "mas")
  BY <1>1 DEF Archive!Others
<1>3. "mas" \notin S /\ "media" \in S => Least(S, "media")
  BY <1>1 DEF Archive!Others
<1>4. ASSUME "mas" \notin S, "media" \notin S PROVE Least(S, "secrets")
  <2>1. S = {"secrets"}
    BY <1>4 DEF Archive!Others
  <2> QED
    BY <2>1, <1>1
<1>5. \E t : Least(S, t)
  BY <1>2, <1>3, <1>4
<1>6. Least(S, Archive!First(S))
  BY <1>5 DEF Archive!First
<1> QED
  BY <1>6

(* Synapse, the hooks and the statistics leave the export as it is.        *)
LEMMA OthersWork ==
  ASSUME ArchiveInv, Archive!Draw \/ Archive!Settle \/ Archive!Hook \/ Archive!Count
  PROVE  ArchiveInv'
<1> USE DEF Archive!database
<1>1. CASE Archive!Draw
  <2>1. Recorded'
    BY <1>1 DEF Archive!Draw, ArchiveInv, Recorded
  <2> QED
    BY <1>1, <2>1 DEF Archive!Draw, ArchiveInv, Recorded, Exports, OneMoment, RunsHaveHooks, Complete,
                      Archive!BackupIsOneMoment
<1>2. CASE Archive!Settle
  <2>1. Recorded'
    BY <1>2 DEF Archive!Settle, ArchiveInv, Recorded
  <2> QED
    BY <1>2, <2>1 DEF Archive!Settle, ArchiveInv, OneMoment, RunsHaveHooks, Complete,
                      Archive!BackupIsOneMoment
<1>3. CASE Archive!Hook
  <2>1. /\ own' \in [Archive!OwnTables -> SUBSET HookIds]
        /\ own'["hook_executions"] \subseteq own'["hooks"]
        /\ own["hook_executions"] \subseteq own'["hook_executions"]
    BY <1>3 DEF Archive!Hook, ArchiveInv, Recorded, Archive!OwnTables
  <2>2. UNCHANGED <<counter, open, rows, counted, export, archive, troubles>>
    BY <1>3 DEF Archive!Hook
  <2> QED
    BY <2>1, <2>2 DEF ArchiveInv, Recorded, OneMoment, RunsHaveHooks, Complete,
                      Archive!BackupIsOneMoment
<1>4. CASE Archive!Count
  <2>1. Recorded'
    BY <1>4 DEF Archive!Count, ArchiveInv, Recorded
  <2> QED
    BY <1>4, <2>1 DEF Archive!Count, ArchiveInv, OneMoment, RunsHaveHooks, Complete,
                      Archive!BackupIsOneMoment
<1> QED
  BY <1>1, <1>2, <1>3, <1>4

(* An archive of which there is nothing yet.                               *)
LEMMA NoneYet ==
  /\ Archive!NoArchive \in Archives /\ ~Archive!NoArchive.closed
  /\ DOMAIN Archive!NoArchive.own = {} /\ DOMAIN Archive!NoArchive.tables = {}
  /\ Archive!NoArchive.listed = {} /\ Archive!NoArchive.others = {}
<1>1. /\ [t \in {} |-> {}] \in UNION {[D -> SUBSET HookIds] : D \in SUBSET Archive!OwnTables}
      /\ [t \in {} |-> {}] \in UNION {[D -> SUBSET Nat] : D \in SUBSET Archive!Tables}
  <2>1. [t \in {} |-> {}] \in [{} -> SUBSET HookIds] /\ [t \in {} |-> {}] \in [{} -> SUBSET Nat]
    OBVIOUS
  <2> QED
    BY <2>1
<1> QED
  BY <1>1 DEF Archive!NoArchive, Archives

(* An archive that was closed at its end, or never begun.                  *)
LEMMA Ends ==
  ASSUME ArchiveInv, export' = Archive!Idle, UNCHANGED <<counter, open, rows, own, counted>>,
         troubles' \in Nat,
         \/ archive' = [archive EXCEPT !.closed = TRUE] /\
               (troubles' = 0 => troubles = 0 /\ export.at = "others" /\ export.others = {})
         \/ archive' = Archive!NoArchive
  PROVE  ArchiveInv'
<1>1. export'.at = "idle" /\ export' \in Exports
  BY DEF Archive!Idle, Exports
<1>2. CASE /\ archive' = [archive EXCEPT !.closed = TRUE]
           /\ troubles' = 0 => troubles = 0 /\ export.at = "others" /\ export.others = {}
  <2>1. /\ archive' \in Archives /\ archive'.own = archive.own /\ archive'.tables = archive.tables
        /\ archive'.sequence = archive.sequence /\ archive'.listed = archive.listed
        /\ archive'.others = archive.others /\ archive'.parts = archive.parts
    BY <1>2 DEF ArchiveInv, Recorded, Archives
  <2> QED
    BY <1>1, <1>2, <2>1 DEF ArchiveInv, Recorded, OneMoment, RunsHaveHooks, Complete,
                            Archive!BackupIsOneMoment
<1>3. CASE archive' = Archive!NoArchive
  <2>1. /\ archive' \in Archives /\ DOMAIN archive'.own = {} /\ DOMAIN archive'.tables = {}
        /\ ~archive'.closed
    BY <1>3, NoneYet
  <2> QED
    BY <1>1, <2>1 DEF ArchiveInv, Recorded, OneMoment, RunsHaveHooks, Complete,
                      Archive!BackupIsOneMoment, Archive!OwnTables
<1> QED
  BY <1>2, <1>3

(* An archive begins with nothing in it.                                   *)
LEMMA BeginsExport == ASSUME ArchiveInv, Archive!Begin PROVE ArchiveInv'
<1> PICK hs \in BOOLEAN, S \in SUBSET Archive!Others :
       /\ export' = [Archive!Idle EXCEPT !.at = "own", !.hs = hs, !.todo = counted, !.others = S]
       /\ archive' = [Archive!NoArchive EXCEPT !.parts = {"matrixctrl"} \cup S
                                            \cup (IF hs THEN {"homeserver"} ELSE {})]
  BY DEF Archive!Begin
<1>1. /\ export' \in Exports /\ export'.at = "own" /\ export'.todo = counted /\ export'.others = S
  BY DEF Archive!Idle, Exports, ArchiveInv, Recorded
<1> DEFINE parts == {"matrixctrl"} \cup S \cup (IF hs THEN {"homeserver"} ELSE {})
<1>4. /\ parts \in SUBSET ({"matrixctrl", "homeserver"} \cup Archive!Others)
      /\ parts \ {"matrixctrl", "homeserver"} = S
  BY DEF Archive!Others
<1> HIDE DEF parts
<1>2. /\ archive' \in Archives /\ DOMAIN archive'.own = {} /\ DOMAIN archive'.tables = {}
      /\ ~archive'.closed /\ archive'.listed = {} /\ archive'.others = {}
      /\ archive'.parts = parts
  <2>1. archive' = [Archive!NoArchive EXCEPT !.parts = parts]
    BY DEF parts
  <2> QED
    BY <2>1, <1>4, NoneYet DEF Archives
<1>3. UNCHANGED <<counter, open, rows, own, counted, troubles>>
  BY DEF Archive!Begin, Archive!database
<1> QED
  BY <1>1, <1>2, <1>3, <1>4 DEF ArchiveInv, Recorded, OneMoment, RunsHaveHooks, Complete,
                          Archive!BackupIsOneMoment, Archive!OwnTables

(* The own tables, each at its own moment, run records first.              *)
LEMMA CopiesOwn == ASSUME ArchiveInv, Archive!CopyOwn PROVE ArchiveInv'
<1>0. UNCHANGED <<counter, open, rows, own, counted, troubles>> /\ export.at = "own"
  BY DEF Archive!CopyOwn, Archive!database
<1>1. CASE export.todo = {}
  <2> PICK there \in BOOLEAN : archive' = [archive EXCEPT !.config = there]
    BY <1>1 DEF Archive!CopyOwn
  <2>1. export' = [export EXCEPT !.at = IF export.hs THEN "snapshot" ELSE "others"]
    BY <1>1 DEF Archive!CopyOwn
  <2>2. /\ export' \in Exports /\ export'.at \in {"snapshot", "others"}
        /\ export'.others = export.others
    BY <2>1 DEF ArchiveInv, Recorded, Exports
  <2>3. /\ archive' \in Archives /\ archive'.own = archive.own /\ archive'.tables = archive.tables
        /\ archive'.sequence = archive.sequence /\ archive'.listed = archive.listed
        /\ archive'.others = archive.others /\ archive'.parts = archive.parts
        /\ archive'.closed = archive.closed
    BY DEF ArchiveInv, Recorded, Archives
  <2> QED
    BY <1>0, <2>2, <2>3 DEF ArchiveInv, Recorded, OneMoment, RunsHaveHooks, Complete,
                            Archive!BackupIsOneMoment
<1>2. CASE export.todo # {}
  <2> DEFINE t == Archive!First(export.todo)
  <2>1. export.todo \in SUBSET Archive!OwnTables
    BY <1>0 DEF ArchiveInv, RunsHaveHooks
  <2>2. t \in export.todo /\ t \in Archive!OwnTables
        /\ ("hook_executions" \in export.todo => t = "hook_executions")
    BY <1>2, <2>1, FirstOfTwo
  <2>3. /\ archive' = [archive EXCEPT !.own = Archive!With(@, t, own[t])]
        /\ export' = [export EXCEPT !.todo = @ \ {t}]
    BY <1>2 DEF Archive!CopyOwn
  <2> HIDE DEF t
  <2>4. /\ export' \in Exports /\ export'.at = "own" /\ export'.todo = export.todo \ {t}
        /\ export'.others = export.others
    BY <1>0, <2>3 DEF ArchiveInv, Recorded, Exports
  <2>5. archive' = [archive EXCEPT !.own = archive'.own] /\ archive'.own = Archive!With(archive.own, t, own[t])
    BY <2>3 DEF ArchiveInv, Recorded, Archives
  <2>6. /\ DOMAIN archive'.own = DOMAIN archive.own \cup {t} /\ archive'.own[t] = own[t]
        /\ \A x \in DOMAIN archive.own \ {t} : archive'.own[x] = archive.own[x]
    BY <2>5 DEF Archive!With
  <2>7. archive'.own \in UNION {[D -> SUBSET HookIds] : D \in SUBSET Archive!OwnTables}
    <3>1. PICK D \in SUBSET Archive!OwnTables : archive.own \in [D -> SUBSET HookIds]
      BY DEF ArchiveInv, Recorded, Archives
    <3>2. archive'.own \in [D \cup {t} -> SUBSET HookIds]
      BY <3>1, <2>2, <2>5, <1>0 DEF Archive!With, ArchiveInv, Recorded
    <3> QED
      BY <3>2, <2>2
  <2>8. /\ archive' \in Archives /\ archive'.tables = archive.tables
        /\ archive'.sequence = archive.sequence /\ archive'.listed = archive.listed
        /\ archive'.others = archive.others /\ archive'.parts = archive.parts
        /\ archive'.closed = archive.closed
    BY <2>5, <2>7 DEF ArchiveInv, Recorded, Archives
  <2>9. Recorded' /\ OneMoment' /\ Complete'
    BY <1>0, <2>4, <2>8 DEF ArchiveInv, Recorded, OneMoment, Complete
  <2>10. RunsHaveHooks'
    BY <1>0, <2>1, <2>2, <2>4, <2>6 DEF ArchiveInv, RunsHaveHooks, Archive!OwnTables
  <2>11. /\ "hook_executions" \in DOMAIN archive'.own /\ "hooks" \in DOMAIN archive'.own
            => archive'.own["hook_executions"] \subseteq archive'.own["hooks"]
    <3>1. CASE t = "hook_executions"
      BY <1>0, <2>2, <2>6, <3>1 DEF ArchiveInv, RunsHaveHooks
    <3>2. CASE t = "hooks"
      BY <1>0, <2>2, <2>6, <3>2 DEF ArchiveInv, RunsHaveHooks, Recorded
    <3> QED
      BY <2>2, <3>1, <3>2 DEF Archive!OwnTables
  <2>12. Archive!BackupIsOneMoment'
    BY <1>0, <2>8, <2>11 DEF ArchiveInv, Complete, Archive!BackupIsOneMoment, Archive!OwnTables
  <2> QED
    BY <2>9, <2>10, <2>12 DEF ArchiveInv
<1> QED
  BY <1>1, <1>2

(* The snapshot is taken.                                                  *)
LEMMA TakesSnapshot == ASSUME ArchiveInv, Archive!Snapshot PROVE ArchiveInv'
<1>1. /\ UNCHANGED <<counter, open, rows, own, counted, archive, troubles>>
      /\ export.at = "snapshot"
      /\ export' = [export EXCEPT !.at = "sequences", !.snapshot = rows, !.todo = Archive!Tables]
  BY DEF Archive!Snapshot, Archive!database
<1>2. rows \in SUBSET Nat /\ \A id \in rows : id <= counter
  BY DEF ArchiveInv, Recorded
<1>3. /\ export' \in Exports /\ export'.at = "sequences" /\ export'.snapshot = rows
      /\ export'.todo = Archive!Tables /\ export'.others = export.others
  BY <1>1, <1>2 DEF ArchiveInv, Recorded, Exports
<1> QED
  BY <1>1, <1>2, <1>3 DEF ArchiveInv, Recorded, OneMoment, RunsHaveHooks, Complete,
                          Archive!BackupIsOneMoment

(* The counter is read after it, so it is not behind.                      *)
LEMMA ReadsCounter == ASSUME ArchiveInv, Archive!ReadSequences PROVE ArchiveInv'
<1>1. /\ UNCHANGED <<counter, open, rows, own, counted, troubles>> /\ export.at = "sequences"
      /\ archive' = [archive EXCEPT !.sequence = counter, !.listed = Archive!Tables]
      /\ export' = [export EXCEPT !.at = "tables"]
  BY DEF Archive!ReadSequences, Archive!database
<1>2. /\ export' \in Exports /\ export'.at = "tables" /\ export'.snapshot = export.snapshot
      /\ export'.todo = export.todo /\ export'.others = export.others
  BY <1>1 DEF ArchiveInv, Recorded, Exports
<1>3. /\ archive' \in Archives /\ archive'.own = archive.own /\ archive'.tables = archive.tables
      /\ archive'.sequence = counter /\ archive'.listed = Archive!Tables
      /\ archive'.others = archive.others /\ archive'.parts = archive.parts
      /\ archive'.closed = archive.closed
  BY <1>1 DEF ArchiveInv, Recorded, Archives
<1> QED
  BY <1>1, <1>2, <1>3 DEF ArchiveInv, Recorded, OneMoment, RunsHaveHooks, Complete,
                          Archive!BackupIsOneMoment

(* Every table is copied as the snapshot has it.                           *)
LEMMA CopiesTable == ASSUME ArchiveInv, Archive!CopyTable PROVE ArchiveInv'
<1>0. UNCHANGED <<counter, open, rows, own, counted, troubles>> /\ export.at = "tables"
  BY DEF Archive!CopyTable, Archive!database
<1>1. CASE export.todo = {}
  <2>1. export' = [export EXCEPT !.at = "others"] /\ archive' = archive
    BY <1>1 DEF Archive!CopyTable
  <2>2. export' \in Exports /\ export'.at = "others" /\ export'.others = export.others
    BY <2>1 DEF ArchiveInv, Recorded, Exports
  <2> QED
    BY <1>0, <1>1, <2>1, <2>2 DEF ArchiveInv, Recorded, OneMoment, RunsHaveHooks, Complete,
                                  Archive!BackupIsOneMoment
<1>2. CASE export.todo # {}
  <2> DEFINE t == Archive!First(export.todo)
  <2>1. export.todo \in SUBSET Archive!Tables
    BY <1>0 DEF ArchiveInv, OneMoment
  <2>2. t \in export.todo /\ t \in Archive!Tables
    BY <1>2, <2>1, FirstOfTwo
  <2>3. /\ archive' = [archive EXCEPT !.tables = Archive!With(@, t, export.snapshot)]
        /\ export' = [export EXCEPT !.todo = @ \ {t}]
    BY <1>2 DEF Archive!CopyTable, Archive!Seen
  <2> HIDE DEF t
  <2>4. /\ export' \in Exports /\ export'.at = "tables" /\ export'.todo = export.todo \ {t}
        /\ export'.others = export.others /\ export'.snapshot = export.snapshot
    BY <1>0, <2>3 DEF ArchiveInv, Recorded, Exports
  <2>5. /\ archive' = [archive EXCEPT !.tables = archive'.tables]
        /\ archive'.tables = Archive!With(archive.tables, t, export.snapshot)
    BY <2>3 DEF ArchiveInv, Recorded, Archives
  <2>6. /\ DOMAIN archive'.tables = DOMAIN archive.tables \cup {t}
        /\ archive'.tables[t] = export.snapshot
        /\ \A x \in DOMAIN archive.tables \ {t} : archive'.tables[x] = archive.tables[x]
    BY <2>5 DEF Archive!With
  <2>7. archive'.tables \in UNION {[D -> SUBSET Nat] : D \in SUBSET Archive!Tables}
    <3>1. PICK D \in SUBSET Archive!Tables : archive.tables \in [D -> SUBSET Nat]
      BY DEF ArchiveInv, Recorded, Archives
    <3>2. archive'.tables \in [D \cup {t} -> SUBSET Nat]
      BY <3>1, <2>2, <2>5 DEF Archive!With, ArchiveInv, Recorded, Exports
    <3> QED
      BY <3>2, <2>2
  <2>8. /\ archive' \in Archives /\ archive'.own = archive.own
        /\ archive'.sequence = archive.sequence /\ archive'.listed = archive.listed
        /\ archive'.others = archive.others /\ archive'.parts = archive.parts
        /\ archive'.closed = archive.closed
    BY <2>5, <2>7 DEF ArchiveInv, Recorded, Archives
  <2>9. \A u \in DOMAIN archive'.tables : archive'.tables[u] = export'.snapshot
    BY <1>0, <2>4, <2>6 DEF ArchiveInv, OneMoment
  <2>10. OneMoment'
    BY <1>0, <2>1, <2>2, <2>4, <2>6, <2>8, <2>9 DEF ArchiveInv, OneMoment
  <2>11. Recorded' /\ RunsHaveHooks' /\ Complete'
    BY <1>0, <2>4, <2>8 DEF ArchiveInv, Recorded, RunsHaveHooks, Complete
  <2>12. Archive!BackupIsOneMoment'
    BY <1>0, <2>8, <2>9, <2>10, <2>4 DEF ArchiveInv, OneMoment, Complete, Archive!BackupIsOneMoment
  <2> QED
    BY <2>10, <2>11, <2>12 DEF ArchiveInv
<1> QED
  BY <1>1, <1>2

(* And every other part is.                                                *)
LEMMA CopiesOther == ASSUME ArchiveInv, Archive!CopyOther PROVE ArchiveInv'
<1> DEFINE p == Archive!First(export.others)
<1>0. /\ UNCHANGED <<counter, open, rows, own, counted, troubles>>
      /\ export.at = "others" /\ export.others # {}
      /\ archive' = [archive EXCEPT !.others = @ \cup {p}]
      /\ export' = [export EXCEPT !.others = @ \ {p}]
  BY DEF Archive!CopyOther, Archive!database
<1>1. p \in export.others /\ p \in Archive!Others
  BY <1>0, FirstOfOthers DEF ArchiveInv, Recorded, Exports
<1> HIDE DEF p
<1>2. /\ export' \in Exports /\ export'.at = "others" /\ export'.others = export.others \ {p}
  BY <1>0 DEF ArchiveInv, Recorded, Exports
<1>3. /\ archive' \in Archives /\ archive'.own = archive.own /\ archive'.tables = archive.tables
      /\ archive'.sequence = archive.sequence /\ archive'.listed = archive.listed
      /\ archive'.others = archive.others \cup {p} /\ archive'.parts = archive.parts
      /\ archive'.closed = archive.closed
  BY <1>0, <1>1 DEF ArchiveInv, Recorded, Archives
<1> QED
  BY <1>0, <1>1, <1>2, <1>3 DEF ArchiveInv, Recorded, OneMoment, RunsHaveHooks, Complete,
                                Archive!BackupIsOneMoment

(* An archive holds one moment of Synapse's database with a counter that is *)
(* not behind, runs with their hooks, and where nothing failed all it names: *)
(* CreateFull and exportDatabaseUnder.                                     *)
THEOREM BackupHoldsOneMoment == Archive!Spec => []Archive!BackupIsOneMoment
<1>1. Archive!Init => ArchiveInv
  <2> SUFFICES ASSUME Archive!Init PROVE ArchiveInv
    OBVIOUS
  <2>1. export \in Exports /\ export.at = "idle"
    BY DEF Archive!Init, Archive!Idle, Exports
  <2>2. Recorded
    BY <2>1, NoneYet DEF Archive!Init, Recorded, Archive!OwnTables
  <2> QED
    BY <2>1, <2>2, NoneYet DEF Archive!Init, ArchiveInv, OneMoment, RunsHaveHooks, Complete,
                               Archive!BackupIsOneMoment, Archive!OwnTables
<1>2. ArchiveInv /\ [Archive!Next]_Archive!vars => ArchiveInv'
  <2> SUFFICES ASSUME ArchiveInv, [Archive!Next]_Archive!vars PROVE ArchiveInv'
    OBVIOUS
  <2>1. CASE UNCHANGED Archive!vars
    BY <2>1 DEF Archive!vars, Archive!database, ArchiveInv, Recorded, OneMoment, RunsHaveHooks,
                Complete, Archive!BackupIsOneMoment
  <2>2. CASE Archive!Finish
    BY <2>2, Ends DEF Archive!Finish, Archive!Close, Archive!database, ArchiveInv, Recorded
  <2>3. CASE Archive!Fail
    BY <2>3, Ends DEF Archive!Fail, Archive!Fails, Archive!Close, Archive!database, ArchiveInv, Recorded
  <2>4. CASE Archive!Abort
    BY <2>4, Ends DEF Archive!Abort, Archive!Fails, Archive!database, ArchiveInv, Recorded
  <2> QED
    BY <2>1, <2>2, <2>3, <2>4, OthersWork, BeginsExport, CopiesOwn, TakesSnapshot, ReadsCounter,
       CopiesTable, CopiesOther
    DEF Archive!Next
<1>3. ArchiveInv => Archive!BackupIsOneMoment
  BY DEF ArchiveInv
<1> QED
  BY <1>1, <1>2, <1>3, PTL DEF Archive!Spec

-----------------------------------------------------------------------------
(* What a report holds.                                                    *)
Verdicts == {"satisfied", "unknown", "drifted"}
Manuals  == [manager : {"human", "foreign"}, paths : SUBSET Fields, covered : BOOLEAN,
             matches : BOOLEAN]
Reports  == [at : {"idle", "check", "own", "match", "answer"}, actions : SUBSET Hooks,
             found : UNION {[H -> Verdicts] : H \in SUBSET Hooks}, edits : SUBSET Manuals,
             partial : BOOLEAN, alone : BOOLEAN]

(* What an undisturbed report has found is so, and nothing is left out.    *)
TrueSoFar ==
    /\ report.actions = Drift!PatchActions
    /\ DOMAIN report.found \subseteq report.actions
    /\ \A h \in DOMAIN report.found : report.found[h] = "satisfied" =>
          \A f \in DOMAIN hooks[h].sets : live[f] = hooks[h].sets[f]
    /\ report.at # "check" => DOMAIN report.found = report.actions
    /\ report.at \in {"match", "answer"} /\ ~report.partial =>
          \A f \in Fields : owner[f] = "human" =>
             \E e \in report.edits : e.manager = "human" /\ f \in e.paths
    /\ \A e \in report.edits : e.matches => Drift!MatchesChart(e.paths)

DriftInv ==
    /\ report \in Reports
    /\ report.alone /\ report.at # "idle" => TrueSoFar

(* No hook has a verdict when none is counted.                             *)
LEMMA NoneCounted ==
  ASSUME Drift!Listed, DriftInv, NEW status \in Verdicts, Drift!Count(status) = 0
  PROVE  \A h \in report.actions : report.found[h] # status
<1> DEFINE S == {h \in report.actions : report.found[h] = status}
<1>1. IsFiniteSet(Hooks)
  BY DEF Drift!Listed, Drift!IsFiniteSet, IsFiniteSet
<1>2. IsFiniteSet(S)
  <2>1. S \subseteq Hooks
    BY DEF DriftInv, Reports
  <2> QED
    BY <1>1, <2>1, FS_Subset
<1>3. Cardinality(S) = 0
  BY DEF Drift!Count, Drift!Cardinality, Cardinality
<1>4. S = {}
  BY <1>2, <1>3, FS_EmptySet
<1> QED
  BY <1>4

(* A report that is disturbed promises nothing.                            *)
LEMMA DisturbedStep == ASSUME DriftInv, Drift!Disturbed PROVE DriftInv'
BY DEF DriftInv, Drift!Disturbed, Reports

(* A report begins with the hooks that are enabled.                        *)
LEMMA ReportBegins == ASSUME DriftInv, Drift!Begin PROVE DriftInv'
<1>1. /\ report' = [Drift!Idle EXCEPT !.at = "check", !.actions = Drift!PatchActions]
      /\ UNCHANGED <<live, owner, chart, hooks>>
  BY DEF Drift!Begin
<1>2. [h \in {} |-> None] \in UNION {[H -> Verdicts] : H \in SUBSET Hooks}
  <2>1. [h \in {} |-> None] \in [{} -> Verdicts]
    OBVIOUS
  <2> QED
    BY <2>1
<1>3. Drift!PatchActions \in SUBSET Hooks
  BY DEF Drift!PatchActions
<1>4. /\ report' \in Reports /\ report'.at = "check" /\ report'.actions = Drift!PatchActions
      /\ DOMAIN report'.found = {} /\ report'.edits = {}
  BY <1>1, <1>2, <1>3 DEF Drift!Idle, Reports
<1>5. Drift!PatchActions' = Drift!PatchActions
  BY <1>1 DEF Drift!PatchActions
<1> QED
  BY <1>4, <1>5 DEF DriftInv, TrueSoFar

(* One hook after the other is compared with the object.                   *)
LEMMA Checks == ASSUME DriftInv, Drift!Check PROVE DriftInv'
<1>0. report.at = "check" /\ UNCHANGED <<live, owner, chart, hooks>>
  BY DEF Drift!Check
<1>5. Drift!PatchActions' = Drift!PatchActions
  BY <1>0 DEF Drift!PatchActions
<1> DEFINE left == report.actions \ DOMAIN report.found
<1>1. CASE left = {}
  <2>1. report' = [report EXCEPT !.at = "own"]
    BY <1>1 DEF Drift!Check
  <2>2. /\ report' \in Reports /\ report'.at = "own" /\ report'.actions = report.actions
        /\ report'.found = report.found /\ report'.edits = report.edits
        /\ report'.alone = report.alone
    BY <2>1 DEF DriftInv, Reports
  <2>3. ASSUME NEW P PROVE Drift!MatchesChart(P)' = Drift!MatchesChart(P)
    BY <1>0 DEF Drift!MatchesChart
  <2> QED
    BY <1>0, <1>1, <1>5, <2>2 DEF DriftInv, TrueSoFar, Drift!MatchesChart
<1>2. CASE left # {}
  <2>1. PICK h \in left, fetched \in BOOLEAN :
          report' = [report EXCEPT !.found =
             [g \in DOMAIN report.found \cup {h} |->
                 IF g = h THEN Drift!CheckOne(h, fetched) ELSE report.found[g]]]
    BY <1>2 DEF Drift!Check
  <2>2. /\ Drift!CheckOne(h, fetched) \in Verdicts
        /\ Drift!CheckOne(h, fetched) = "satisfied" =>
              \A f \in DOMAIN hooks[h].sets : live[f] = hooks[h].sets[f]
    BY DEF Drift!CheckOne, Verdicts
  <2>3. h \in report.actions /\ h \in Hooks
    BY DEF DriftInv, Reports
  <2>4. /\ report' = [report EXCEPT !.found = report'.found]
        /\ report'.found = [g \in DOMAIN report.found \cup {h} |->
                 IF g = h THEN Drift!CheckOne(h, fetched) ELSE report.found[g]]
    BY <2>1 DEF DriftInv, Reports
  <2>5. report'.found \in UNION {[H -> Verdicts] : H \in SUBSET Hooks}
    <3>1. PICK H \in SUBSET Hooks : report.found \in [H -> Verdicts]
      BY DEF DriftInv, Reports
    <3>2. report'.found \in [H \cup {h} -> Verdicts]
      BY <3>1, <2>2, <2>4
    <3> QED
      BY <3>2, <2>3
  <2>6. /\ report' \in Reports /\ report'.at = "check" /\ report'.actions = report.actions
        /\ report'.edits = report.edits /\ report'.alone = report.alone
    BY <1>0, <2>4, <2>5 DEF DriftInv, Reports
  <2>7. /\ DOMAIN report'.found = DOMAIN report.found \cup {h}
        /\ report'.found[h] = "satisfied" =>
              \A f \in DOMAIN hooks[h].sets : live[f] = hooks[h].sets[f]
        /\ \A g \in DOMAIN report.found : report'.found[g] = report.found[g]
    BY <2>2, <2>4
  <2> QED
    BY <1>0, <1>5, <2>3, <2>6, <2>7 DEF DriftInv, TrueSoFar, Drift!MatchesChart
<1> QED
  BY <1>1, <1>2

(* Every field of a person is in an entry.                                 *)
LEMMA FindsEdits == ASSUME DriftInv, Drift!Own PROVE DriftInv'
<1>0. report.at = "own" /\ UNCHANGED <<live, owner, chart, hooks>>
  BY DEF Drift!Own
<1>5. Drift!PatchActions' = Drift!PatchActions
  BY <1>0 DEF Drift!PatchActions
<1>1. CASE report' = [report EXCEPT !.at = "match", !.edits = Drift!FindManualEdits]
  <2> DEFINE by(who)    == {f \in Fields : owner[f] = who}
             hooked     == UNION {Drift!PatchPaths(h) : h \in report.actions}
             entry(who) == [manager |-> who, paths |-> by(who), covered |-> by(who) \cap hooked # {},
                            matches |-> FALSE]
             Someone    == {who \in {"human", "foreign"} : by(who) # {}}
  <2>5. Drift!FindManualEdits = {entry(who) : who \in Someone}
    BY DEF Drift!FindManualEdits
  <2>6. \A who \in Someone : /\ entry(who) \in Manuals /\ ~entry(who).matches
                             /\ entry(who).manager = who /\ entry(who).paths = by(who)
    BY DEF Manuals
  <2> HIDE DEF entry
  <2>1. Drift!FindManualEdits \in SUBSET Manuals
    BY <2>5, <2>6
  <2>2. \A e \in Drift!FindManualEdits : ~e.matches
    BY <2>5, <2>6
  <2>3. ASSUME NEW f \in Fields, owner[f] = "human"
        PROVE  \E e \in Drift!FindManualEdits : e.manager = "human" /\ f \in e.paths
    <3>1. f \in by("human") /\ "human" \in Someone
      BY <2>3
    <3>2. entry("human") \in Drift!FindManualEdits
      BY <2>5, <3>1
    <3> QED
      BY <2>6, <3>1, <3>2
  <2> DEFINE E == Drift!FindManualEdits
  <2> HIDE DEF E
  <2>4. /\ report' \in Reports /\ report'.at = "match" /\ report'.actions = report.actions
        /\ report'.found = report.found /\ report'.edits = E /\ report'.alone = report.alone
    BY <1>1, <2>1 DEF DriftInv, Reports, E
  <2> QED
    BY <1>0, <1>5, <2>2, <2>3, <2>4 DEF DriftInv, TrueSoFar, Drift!MatchesChart, E
<1>2. CASE report' = [report EXCEPT !.at = "match", !.partial = TRUE]
  <2>1. /\ report' \in Reports /\ report'.at = "match" /\ report'.actions = report.actions
        /\ report'.found = report.found /\ report'.edits = report.edits
        /\ report'.alone = report.alone /\ report'.partial
    BY <1>2 DEF DriftInv, Reports
  <2> QED
    BY <1>0, <1>5, <2>1 DEF DriftInv, TrueSoFar, Drift!MatchesChart
<1> QED
  BY <1>1, <1>2 DEF Drift!Own

(* Only what the chart gives the object is marked so.                      *)
LEMMA Marks == ASSUME DriftInv, Drift!Mark PROVE DriftInv'
<1>0. report.at = "match" /\ UNCHANGED <<live, owner, chart, hooks>>
  BY DEF Drift!Mark
<1>5. Drift!PatchActions' = Drift!PatchActions
  BY <1>0 DEF Drift!PatchActions
<1> DEFINE M(e) == IF e.manager = "human" THEN [e EXCEPT !.matches = Drift!MatchesChart(e.paths)] ELSE e
           E == {M(e) : e \in report.edits}
<1>1. CASE report' = [report EXCEPT !.at = "answer", !.edits = E]
  <2>1. ASSUME NEW e \in Manuals
        PROVE  /\ M(e) \in Manuals /\ M(e).manager = e.manager /\ M(e).paths = e.paths
               /\ e.manager = "human" => M(e).matches = Drift!MatchesChart(e.paths)
               /\ e.manager # "human" => M(e) = e
    BY DEF Manuals, Drift!MatchesChart
  <2>2. report.edits \in SUBSET Manuals
    BY DEF DriftInv, Reports
  <2> HIDE DEF M
  <2>3. E \in SUBSET Manuals
    BY <2>1, <2>2
  <2>4. /\ report' \in Reports /\ report'.at = "answer" /\ report'.actions = report.actions
        /\ report'.found = report.found /\ report'.edits = E /\ report'.alone = report.alone
        /\ report'.partial = report.partial
    BY <1>1, <2>3 DEF DriftInv, Reports
  <2>5. ASSUME TrueSoFar, ~report.partial, NEW f \in Fields, owner[f] = "human"
        PROVE  \E e \in E : e.manager = "human" /\ f \in e.paths
    <3>1. PICK e \in report.edits : e.manager = "human" /\ f \in e.paths
      BY <1>0, <2>5 DEF TrueSoFar
    <3>2. M(e) \in E /\ M(e).manager = "human" /\ f \in M(e).paths
      BY <2>1, <2>2, <3>1
    <3> QED
      BY <3>2
  <2>6. ASSUME TrueSoFar, NEW x \in E, x.matches PROVE Drift!MatchesChart(x.paths)
    <3>1. PICK e \in report.edits : x = M(e)
      OBVIOUS
    <3> QED
      BY <2>1, <2>2, <2>6, <3>1 DEF TrueSoFar
  <2> HIDE DEF E
  <2> QED
    BY <1>0, <1>5, <2>4, <2>5, <2>6 DEF DriftInv, TrueSoFar, Drift!MatchesChart
<1>2. CASE report' = [report EXCEPT !.at = "answer"]
  <2>1. /\ report' \in Reports /\ report'.at = "answer" /\ report'.actions = report.actions
        /\ report'.found = report.found /\ report'.edits = report.edits
        /\ report'.alone = report.alone /\ report'.partial = report.partial
    BY <1>2 DEF DriftInv, Reports
  <2> QED
    BY <1>0, <1>5, <2>1 DEF DriftInv, TrueSoFar, Drift!MatchesChart
<1> QED
  BY <1>1, <1>2 DEF Drift!Mark

(* A report that finds nothing, about a cluster that did not change while  *)
(* it was made, is right: the drift handler's Status and manualEdits.      *)
THEOREM GreenIsInEffect == ASSUME Drift!Listed PROVE Drift!Spec => []Drift!GreenMeansInEffect
<1>0. Drift!Idle \in Reports /\ Drift!Idle.at = "idle"
  <2>1. [h \in {} |-> None] \in [{} -> Verdicts]
    OBVIOUS
  <2>2. [h \in {} |-> None] \in UNION {[H -> Verdicts] : H \in SUBSET Hooks}
    BY <2>1
  <2> QED
    BY <2>2 DEF Drift!Idle, Reports
<1>1. Drift!Init => DriftInv
  BY <1>0 DEF Drift!Init, DriftInv
<1>2. DriftInv /\ [Drift!Next]_Drift!vars => DriftInv'
  <2> SUFFICES ASSUME DriftInv, [Drift!Next]_Drift!vars PROVE DriftInv'
    OBVIOUS
  <2>1. CASE Drift!Edit \/ Drift!Upgrade \/ Drift!RunHook \/ Drift!SetEnabled
    <3>1. Drift!Disturbed
      BY <2>1 DEF Drift!Edit, Drift!Upgrade, Drift!RunHook, Drift!SetEnabled
    <3> QED
      BY <3>1, DisturbedStep
  <2>2. CASE Drift!Answer \/ Drift!Abandon
    BY <2>2, <1>0 DEF Drift!Answer, Drift!Abandon, DriftInv
  <2>3. CASE UNCHANGED Drift!vars
    BY <2>3 DEF Drift!vars, DriftInv, TrueSoFar, Drift!PatchActions, Drift!MatchesChart
  <2> QED
    BY <2>1, <2>2, <2>3, ReportBegins, Checks, FindsEdits, Marks DEF Drift!Next
<1>3. DriftInv => Drift!GreenMeansInEffect
  <2> SUFFICES ASSUME DriftInv, report.at = "answer", report.alone
               PROVE  Drift!GreenMeansInEffect
    BY DEF Drift!GreenMeansInEffect
  <2>1. TrueSoFar
    BY DEF DriftInv
  <2>2. ASSUME Drift!Count("drifted") = 0, Drift!Count("unknown") = 0, NEW h \in Drift!PatchActions
        PROVE  \A f \in DOMAIN hooks[h].sets : live[f] = hooks[h].sets[f]
    <3>1. h \in report.actions /\ h \in DOMAIN report.found
      BY <2>1 DEF TrueSoFar
    <3>2. report.found[h] # "drifted" /\ report.found[h] # "unknown"
      BY <2>2, <3>1, NoneCounted DEF Verdicts
    <3>3. report.found[h] \in Verdicts
      BY <3>1 DEF DriftInv, Reports
    <3> QED
      BY <2>1, <3>1, <3>2, <3>3 DEF TrueSoFar, Verdicts
  <2>3. ASSUME ~report.partial, Drift!Unmaintained = {}, Drift!ByHand = {},
               NEW f \in Fields, owner[f] = "human"
        PROVE  live[f] = chart[f]
    <3>1. PICK e \in report.edits : e.manager = "human" /\ f \in e.paths
      BY <2>1, <2>3 DEF TrueSoFar
    <3>2. e.matches
      BY <2>3, <3>1 DEF Drift!Unmaintained, Drift!ByHand
    <3> QED
      BY <2>1, <3>1, <3>2 DEF TrueSoFar, Drift!MatchesChart
  <2> QED
    BY <2>2, <2>3 DEF Drift!GreenMeansInEffect
<1> QED
  BY <1>1, <1>2, <1>3, PTL DEF Drift!Spec

-----------------------------------------------------------------------------
(* The shape of the Secrets, of MAS and of the requests.                   *)
Waits  == {"idle", "save", "values", "volumes", "edit", "write", "restart"}

Shapes ==
    /\ DOMAIN secret = Secrets!Blocks
    /\ DOMAIN told = {"made", "crossed"} /\ told.crossed \in BOOLEAN
    /\ DOMAIN mas = {"running", "restarting"} /\ mas.restarting \in BOOLEAN
    /\ troubles \in Nat
    /\ DOMAIN request = Requests
    /\ \A q \in Requests : DOMAIN request[q] = {"at", "change", "seen"} /\ request[q].at \in Waits

Now(b)        == Secrets!Render(b, secret[b])
Busy(b, some) == \E q \in Requests : request[q].at \in some /\ Secrets!BlockOf(q) = b

(* What MAS reads of a block depends on the block alone.                   *)
LEMMA Rendered ==
  ASSUME NEW b, NEW e
  PROVE  secret'[b] = e => Now(b)' = Secrets!Render(b, e)
BY DEF Now, Secrets!Render, Secrets!Complete

(* No two requests hold the lock of one block.                             *)
Locked ==
    /\ \A q \in Requests : request[q].at # "idle" => Secrets!BlockOf(q) \in Secrets!Blocks
    /\ \A p, q \in Requests :
          p # q /\ request[p].at # "idle" /\ request[q].at # "idle" =>
             Secrets!BlockOf(p) # Secrets!BlockOf(q)

(* What is to be saved is what was loaded, changed, and nothing else saves  *)
(* that block meanwhile.                                                   *)
Proposed(c) ==
    /\ c.block = "providers" =>
          c.made \subseteq DOMAIN c.new /\ (DOMAIN secret["providers"]) \ c.gone \subseteq DOMAIN c.new
    /\ c.block = "mail" => c.made = {} /\ c.gone = {}
    /\ ~c.active => Secrets!Render(c.block, c.new) = Now(c.block)

(* Where a request stands while it makes MAS read a block.                 *)
Standing(q) ==
    /\ request[q].at = "write" => request[q].seen = mounts
    /\ request[q].at \in {"edit", "write"} => Secrets!BlockOf(q) \notin mounts
    /\ request[q].at \in {"volumes", "restart"} => Secrets!BlockOf(q) \in mounts

(* MAS reads a block, or somebody is about to see to it.                   *)
SeenTo(b) ==
    /\ b \in deployed /\ ~mas.restarting =>
          mas.running[b] = Now(b) \/ Busy(b, {"values", "volumes", "restart"})
    /\ b \notin mounts => Now(b) = Secrets!NoEntry \/ Busy(b, {"values", "edit", "write"})

Undisturbed ==
    troubles = 0 /\ ~told.crossed =>
       /\ deployed \subseteq mounts /\ mounts \subseteq Secrets!Blocks
       /\ applying # None => applying \subseteq mounts
       /\ \A q \in Requests : Standing(q)
       /\ \A b \in Secrets!Blocks : SeenTo(b)

SecretsInv ==
    /\ Shapes /\ Locked /\ Undisturbed /\ Secrets!NoProviderIsDropped
    /\ \A q \in Requests : request[q].at = "save" => Proposed(request[q].change)

(* A request goes on with the same change.                                 *)
LEMMA RequestGoes ==
  ASSUME Shapes, NEW q \in Requests, NEW where \in Waits,
         Secrets!Goes(q, where)
  PROVE  /\ DOMAIN request' = Requests /\ request'[q].at = where
         /\ request'[q].change = request[q].change /\ request'[q].seen = request[q].seen
         /\ \A p \in Requests : DOMAIN request'[p] = {"at", "change", "seen"} /\ request'[p].at \in Waits
         /\ \A p \in Requests \ {q} : request'[p] = request[p]
BY DEF Shapes, Secrets!Goes

(* Or it is done.                                                          *)
LEMMA RequestRests ==
  ASSUME Shapes, NEW q \in Requests, Secrets!Rest(q)
  PROVE  /\ DOMAIN request' = Requests /\ request'[q].at = "idle"
         /\ \A p \in Requests : DOMAIN request'[p] = {"at", "change", "seen"} /\ request'[p].at \in Waits
         /\ \A p \in Requests \ {q} : request'[p] = request[p]
BY DEF Shapes, Secrets!Rest, Secrets!Idle, Waits

(* A change keeps what it does not delete, and one that MAS need not read  *)
(* is none to MAS.                                                         *)
LEMMA ChangesKeep ==
  ASSUME Shapes, NEW b \in Secrets!Blocks, NEW c \in Secrets!Changes(b)
  PROVE  c.block = b /\ Proposed(c)
<1> DEFINE ps == secret["providers"]
<1>1. ASSUME b = "mail" PROVE c.block = b /\ Proposed(c)
  <2>1. c \in Secrets!Puts(secret.mail)
    BY <1>1 DEF Secrets!Changes
  <2>2. c.block = "mail" /\ c.made = {} /\ c.gone = {} /\ c.active
    BY <2>1 DEF Secrets!Puts, Secrets!Change
  <2> QED
    BY <1>1, <2>2 DEF Proposed
<1>2. CASE c \in Secrets!Creates(ps)
  <2> DEFINE id  == asked + 2
             new == [i \in DOMAIN ps \cup {id} |->
                        IF i \in DOMAIN ps THEN ps[i] ELSE [cred |-> None, on |-> TRUE]]
  <2>1. c.block = "providers" /\ c.new = new /\ c.made = {id} /\ c.gone = {}
    BY <1>2 DEF Secrets!Creates, Secrets!Change
  <2>2. /\ DOMAIN new = DOMAIN ps \cup {id}
        /\ \A i \in DOMAIN ps : new[i] = ps[i]
        /\ \A i \in DOMAIN new \ DOMAIN ps : new[i].cred = None
    OBVIOUS
  <2> HIDE DEF new
  <2>3. {j \in DOMAIN new : Secrets!Complete(new[j])} = {j \in DOMAIN ps : Secrets!Complete(ps[j])}
    BY <2>2 DEF Secrets!Complete
  <2>4. Secrets!Render("providers", new) = Secrets!Render("providers", ps)
    BY <2>2, <2>3 DEF Secrets!Render
  <2> QED
    BY <2>1, <2>2, <2>4, <1>1 DEF Proposed, Now, Secrets!Blocks
<1>3. CASE c \in Secrets!Updates(ps)
  <2>0. PICK i \in DOMAIN ps :
          c \in {LET new == [ps EXCEPT ![i] = p]
                IN  Secrets!Change("providers", new, {}, {},
                          Secrets!Render("providers", new) # Secrets!Render("providers", ps)) :
                   p \in Secrets!Settings(ps[i])}
    BY <1>3 DEF Secrets!Updates
  <2>1. PICK p \in Secrets!Settings(ps[i]) :
          LET new == [ps EXCEPT ![i] = p]
          IN  c = Secrets!Change("providers", new, {}, {},
                                 Secrets!Render("providers", new) # Secrets!Render("providers", ps))
    BY <2>0
  <2>2. /\ c.block = "providers" /\ c.new = [ps EXCEPT ![i] = p] /\ c.made = {} /\ c.gone = {}
        /\ c.active = (Secrets!Render("providers", c.new) # Secrets!Render("providers", ps))
    BY <2>1 DEF Secrets!Change
  <2>3. DOMAIN c.new = DOMAIN ps
    BY <2>2
  <2> QED
    BY <2>2, <2>3, <1>1 DEF Proposed, Now, Secrets!Blocks
<1>4. CASE c \in Secrets!Deletes(ps)
  <2>1. PICK id \in {i \in DOMAIN ps : ~Secrets!Complete(ps[i])} :
          c = Secrets!Change("providers", [i \in DOMAIN ps \ {id} |-> ps[i]], {}, {id}, FALSE)
    BY <1>4 DEF Secrets!Deletes
  <2> DEFINE new == [i \in DOMAIN ps \ {id} |-> ps[i]]
  <2>2. c.block = "providers" /\ c.new = new /\ c.made = {} /\ c.gone = {id}
    BY <2>1 DEF Secrets!Change
  <2>3. DOMAIN new = DOMAIN ps \ {id} /\ \A i \in DOMAIN new : new[i] = ps[i]
    OBVIOUS
  <2> HIDE DEF new
  <2>4. {j \in DOMAIN new : Secrets!Complete(new[j])} = {j \in DOMAIN ps : Secrets!Complete(ps[j])}
    BY <2>1, <2>3
  <2>5. Secrets!Render("providers", new) = Secrets!Render("providers", ps)
    BY <2>3, <2>4 DEF Secrets!Render
  <2> QED
    BY <2>2, <2>3, <2>5, <1>1 DEF Proposed, Now, Secrets!Blocks
<1> QED
  BY <1>1, <1>2, <1>3, <1>4 DEF Secrets!Changes, Secrets!Blocks

(* A request begins with the lock of its block.                            *)
LEMMA Loads == ASSUME SecretsInv, NEW q \in Requests, Secrets!Load(q) PROVE SecretsInv'
<1>1. PICK b \in {x \in Secrets!Blocks : Secrets!Free(x)} : \E c \in Secrets!Changes(b) :
        request' = [request EXCEPT ![q] = [Secrets!Idle EXCEPT !.at = "save", !.change = c]]
  BY DEF Secrets!Load
<1>2. PICK c \in Secrets!Changes(b) :
        request' = [request EXCEPT ![q] = [Secrets!Idle EXCEPT !.at = "save", !.change = c]]
  BY <1>1
<1>3. c.block = b /\ Proposed(c)
  BY ChangesKeep DEF SecretsInv
<1>4. /\ DOMAIN request' = Requests /\ request'[q].at = "save" /\ request'[q].change = c
      /\ DOMAIN request'[q] = {"at", "change", "seen"}
      /\ \A p \in Requests \ {q} : request'[p] = request[p]
      /\ request[q].at = "idle"
  BY <1>2 DEF SecretsInv, Shapes, Secrets!Idle, Secrets!Load
<1>5. UNCHANGED <<secret, mounts, applying, deployed, mas, told, troubles>>
  BY DEF Secrets!Load
<1>6. Shapes'
  BY <1>4, <1>5 DEF SecretsInv, Shapes, Waits
<1>7. Locked'
  BY <1>1, <1>3, <1>4 DEF SecretsInv, Locked, Secrets!BlockOf, Secrets!Free
<1>8. ASSUME NEW d \in Secrets!Blocks, SeenTo(d) PROVE SeenTo(d)'
  <2>1. \A some \in {{"values", "volumes", "restart"}, {"values", "edit", "write"}} :
           Busy(d, some) => Busy(d, some)'
    BY <1>4 DEF Busy, Secrets!BlockOf
  <2>2. Now(d)' = Now(d)
    BY <1>5 DEF Now, Secrets!Render, Secrets!Complete
  <2> QED
    BY <1>5, <1>8, <2>1, <2>2 DEF SeenTo, Secrets!NoEntry
<1>9. Undisturbed'
  BY <1>4, <1>5, <1>8 DEF SecretsInv, Undisturbed, Standing, Secrets!BlockOf
<1>10. \A p \in Requests : request'[p].at = "save" => Proposed(request[p].change)'
  <2>1. \A x : Proposed(x)' = Proposed(x)
    BY <1>5 DEF Proposed, Now, Secrets!Render, Secrets!Complete
  <2> QED
    BY <1>3, <1>4, <2>1 DEF SecretsInv
<1> QED
  BY <1>5, <1>6, <1>7, <1>9, <1>10 DEF SecretsInv, Secrets!NoProviderIsDropped

(* One request takes a step, or is done.                                   *)
Onward(q) ==
    /\ request[q].at # "idle"
    /\ DOMAIN request' = Requests
    /\ \A p \in Requests : DOMAIN request'[p] = {"at", "change", "seen"} /\ request'[p].at \in Waits
    /\ request'[q].at # "save"
    /\ request'[q].at # "idle" => request'[q].change = request[q].change
    /\ \A p \in Requests \ {q} : request'[p] = request[p]

(* Such a step takes nobody else's lock, and gives its own back at the end.  *)
LEMMA OnwardLocks ==
  ASSUME SecretsInv, NEW q \in Requests, Onward(q)
  PROVE  Locked'
BY DEF SecretsInv, Locked, Onward, Secrets!BlockOf

(* With the Secrets as they were, every block but its own is seen to as it  *)
(* was, and its own when MAS's part and the settings are, by itself.       *)
LEMMA OnwardKeeps ==
  ASSUME SecretsInv, NEW q \in Requests, Onward(q), secret' = secret, told'.made = told.made
  PROVE  /\ Secrets!NoProviderIsDropped'
         /\ \A p \in Requests : request'[p].at = "save" => Proposed(request[p].change)'
         /\ \A b : Now(b)' = Now(b)
         /\ \A b, some : b # Secrets!BlockOf(q) /\ Busy(b, some) => Busy(b, some)'
<1>1. \A b : Now(b)' = Now(b)
  BY DEF Now, Secrets!Render, Secrets!Complete
<1>2. \A x : Proposed(x)' = Proposed(x)
  BY <1>1 DEF Proposed, Now, Secrets!Render, Secrets!Complete
<1>3. \A p \in Requests : request'[p].at = "save" => Proposed(request[p].change)'
  BY <1>2 DEF SecretsInv, Onward
<1>4. \A b, some : b # Secrets!BlockOf(q) /\ Busy(b, some) => Busy(b, some)'
  BY DEF Busy, Onward, Secrets!BlockOf
<1> QED
  BY <1>1, <1>3, <1>4 DEF SecretsInv, Secrets!NoProviderIsDropped

(* The Secret is written, perhaps without an answer.                       *)
LEMMA Saves == ASSUME SecretsInv, NEW q \in Requests, Secrets!Save(q) PROVE SecretsInv'
<1> DEFINE c == request[q].change
           written == [secret EXCEPT ![c.block] = c.new]
<1>1. /\ request[q].at = "save" /\ c.block \in Secrets!Blocks /\ Proposed(c)
      /\ UNCHANGED <<mounts, applying, deployed, mas>> /\ troubles' \in Nat
      /\ Secrets!BlockOf(q) = c.block
  BY DEF SecretsInv, Shapes, Locked, Secrets!BlockOf, Secrets!Save, Secrets!Works, Secrets!Fails
<1>2. /\ DOMAIN written = Secrets!Blocks /\ written[c.block] = c.new
      /\ \A b \in Secrets!Blocks \ {c.block} : written[b] = secret[b]
  BY <1>1 DEF SecretsInv, Shapes
<1>3. /\ told' = [told EXCEPT !.made = told'.made] /\ told'.crossed = told.crossed
      /\ \/ told'.made = (told.made \cup c.made) \ c.gone /\ secret' = written
         \/ told'.made = told.made \ c.gone /\ secret' \in {secret, written}
  BY DEF SecretsInv, Shapes, Secrets!Save
<1>4. Onward(q) /\ request'[q].at \in {"values", "idle"}
  <2>1. Secrets!Goes(q, "values") \/ Secrets!Rest(q)
    BY DEF Secrets!Save
  <2> QED
    BY <1>1, <2>1, RequestGoes, RequestRests DEF Onward, SecretsInv, Waits
<1>5. Shapes'
  BY <1>1, <1>2, <1>3, <1>4 DEF SecretsInv, Shapes, Onward
<1>6. Secrets!NoProviderIsDropped'
  <2>1. CASE c.block = "providers"
    BY <1>1, <1>2, <1>3, <2>1 DEF SecretsInv, Secrets!NoProviderIsDropped, Proposed
  <2>2. CASE c.block = "mail"
    BY <1>1, <1>2, <1>3, <2>2 DEF SecretsInv, Secrets!NoProviderIsDropped, Proposed, Secrets!Blocks
  <2> QED
    BY <1>1, <2>1, <2>2 DEF Secrets!Blocks
<1>7. ASSUME NEW p \in Requests, request'[p].at = "save" PROVE Proposed(request[p].change)'
  <2>1. p # q /\ request'[p] = request[p]
    BY <1>4, <1>7 DEF Onward
  <2>2. /\ request[p].change.block \in Secrets!Blocks /\ request[p].change.block # c.block
        /\ Proposed(request[p].change)
    BY <1>1, <1>7, <2>1 DEF SecretsInv, Locked, Secrets!BlockOf
  <2>3. secret'[request[p].change.block] = secret[request[p].change.block]
    BY <1>2, <1>3, <2>2
  <2>4. PICK x : x = request[p].change
    OBVIOUS
  <2>5. Now(x.block)' = Now(x.block)
    BY <2>3, <2>4, Rendered DEF Now
  <2>6. Proposed(x)'
    BY <2>2, <2>3, <2>4, <2>5 DEF Proposed, Secrets!Render, Secrets!Complete
  <2> QED
    BY <2>1, <2>4, <2>6
<1>8. Undisturbed'
  <2> SUFFICES ASSUME troubles' = 0, ~told'.crossed PROVE Undisturbed'
    BY DEF Undisturbed
  <2>1. /\ troubles = 0 /\ secret' = written
        /\ IF c.active THEN Secrets!Goes(q, "values") ELSE Secrets!Rest(q)
    BY DEF Secrets!Save, Secrets!Works, Secrets!Fails, SecretsInv, Shapes
  <2>2. /\ deployed \subseteq mounts /\ mounts \subseteq Secrets!Blocks
        /\ (applying # None => applying \subseteq mounts)
        /\ \A p \in Requests : Standing(p)
        /\ \A b \in Secrets!Blocks : SeenTo(b)
    BY <1>3, <2>1 DEF SecretsInv, Undisturbed
  <2>3. \A p \in Requests : Standing(p)'
    BY <1>1, <1>4, <2>2 DEF Standing, Onward, Secrets!BlockOf
  <2>4. ASSUME NEW b \in Secrets!Blocks, b # c.block PROVE SeenTo(b)'
    <3>1. Now(b)' = Now(b)
      BY <1>2, <2>1, <2>4 DEF Now, Secrets!Render, Secrets!Complete
    <3>2. \A some : Busy(b, some) => Busy(b, some)'
      BY <1>1, <1>4, <2>4 DEF Busy, Onward, Secrets!BlockOf
    <3> QED
      BY <1>1, <2>2, <3>1, <3>2 DEF SeenTo, Secrets!NoEntry
  <2> PICK mine \in Secrets!Blocks : mine = c.block
    BY <1>1
  <2>7. SeenTo(mine) /\ Secrets!BlockOf(q) = mine
    BY <1>1, <2>2
  <2>5. CASE c.active
    <3>1. request'[q].at = "values" /\ request'[q].change = c
      BY <2>1, <2>5, RequestGoes DEF SecretsInv, Waits
    <3>2. \A some : "values" \in some => Busy(mine, some)'
      BY <3>1 DEF Busy, Secrets!BlockOf
    <3>3. SeenTo(mine)'
      BY <3>2 DEF SeenTo
    <3> QED
      BY <1>1, <2>2, <2>3, <2>4, <3>3 DEF Undisturbed
  <2>6. CASE ~c.active
    <3>1. Now(mine)' = Now(mine)
      <4>1. Secrets!Render(mine, c.new) = Secrets!Render(mine, secret[mine])
        BY <1>1, <2>6 DEF Proposed, Now
      <4>2. secret'[mine] = c.new
        BY <1>2, <2>1
      <4>3. PICK e : e = c.new
        OBVIOUS
      <4> QED
        BY <4>1, <4>2, <4>3, Rendered DEF Now
    <3>2. \A some : "save" \notin some /\ Busy(mine, some) => Busy(mine, some)'
      BY <1>1, <1>4 DEF Busy, Onward, Secrets!BlockOf
    <3>3. SeenTo(mine)'
      BY <1>1, <2>7, <3>1, <3>2 DEF SeenTo, Secrets!NoEntry
    <3> QED
      BY <1>1, <2>2, <2>3, <2>4, <3>3 DEF Undisturbed
  <2> QED
    BY <2>5, <2>6
<1> QED
  BY <1>4, <1>5, <1>6, <1>7, <1>8, OnwardLocks DEF SecretsInv

(* The block of a request that moves on, changing nothing but itself, is    *)
(* seen to when the request goes on seeing to it or has found it seen to.  *)
LEMMA OnwardOnly ==
  ASSUME SecretsInv, NEW q \in Requests, Onward(q),
         UNCHANGED <<secret, mounts, applying, deployed, mas, told>>, troubles' \in Nat,
         troubles' = 0 => troubles = 0,
         NEW mine \in Secrets!Blocks, mine = Secrets!BlockOf(q),
         Undisturbed /\ troubles' = 0 /\ ~told.crossed =>
            Standing(q)' /\ (SeenTo(mine) => SeenTo(mine)')
  PROVE  SecretsInv'
<1>1. Shapes'
  BY DEF SecretsInv, Shapes, Onward
<1>2. Undisturbed'
  <2> SUFFICES ASSUME troubles' = 0, ~told.crossed PROVE Undisturbed'
    BY DEF Undisturbed
  <2>1. /\ deployed \subseteq mounts /\ mounts \subseteq Secrets!Blocks
        /\ (applying # None => applying \subseteq mounts)
        /\ \A p \in Requests : Standing(p)
        /\ \A b \in Secrets!Blocks : SeenTo(b)
    BY DEF SecretsInv, Undisturbed
  <2>2. \A p \in Requests : Standing(p)'
    BY <2>1 DEF SecretsInv, Standing, Onward, Secrets!BlockOf
  <2>3. ASSUME NEW b \in Secrets!Blocks, b # mine PROVE SeenTo(b)'
    BY <2>1, <2>3, OnwardKeeps DEF SeenTo, Secrets!NoEntry
  <2>4. SeenTo(mine)'
    BY <2>1 DEF SecretsInv
  <2> QED
    BY <2>1, <2>2, <2>3, <2>4 DEF Undisturbed
<1> QED
  BY <1>1, <1>2, OnwardLocks, OnwardKeeps DEF SecretsInv

(* activate, up to what it changes: the settings are looked at, and then   *)
(* the Deployment.                                                         *)
LEMMA Looks ==
  ASSUME SecretsInv, NEW q \in Requests,
         Secrets!InConfig(q) \/ Secrets!Deployed(q) \/ Secrets!EditReads(q)
  PROVE  SecretsInv'
<1>1. PICK mine \in Secrets!Blocks : mine = Secrets!BlockOf(q)
  BY DEF SecretsInv, Locked, Secrets!InConfig, Secrets!Deployed, Secrets!EditReads
<1>2. /\ UNCHANGED <<secret, mounts, applying, deployed, mas, told>> /\ troubles' \in Nat
      /\ troubles' = 0 => troubles = 0
  BY DEF Secrets!InConfig, Secrets!Deployed, Secrets!EditReads, Secrets!Works, Secrets!Fails,
         SecretsInv, Shapes
<1>0. Now(mine)' = Now(mine)
  BY <1>2 DEF Now, Secrets!Render, Secrets!Complete
<1>3. CASE Secrets!InConfig(q)
  <2>1. \/ Secrets!Goes(q, "volumes") /\ mine \in mounts
        \/ Secrets!Goes(q, "edit") /\ (mine \notin mounts \/ troubles' # 0)
    BY <1>1, <1>3 DEF Secrets!InConfig, Secrets!Works, Secrets!Fails, SecretsInv, Shapes
  <2>2. /\ Onward(q) /\ request[q].at = "values" /\ request'[q].change = request[q].change
        /\ \/ request'[q].at = "volumes" /\ mine \in mounts
           \/ request'[q].at = "edit" /\ (mine \notin mounts \/ troubles' # 0)
    BY <1>3, <2>1, RequestGoes DEF Secrets!InConfig, Onward, SecretsInv, Waits
  <2>3. \A some : request'[q].at \in some => Busy(mine, some)'
    BY <1>1, <2>2 DEF Busy, Secrets!BlockOf
  <2>4. Undisturbed /\ troubles' = 0 /\ ~told.crossed => Standing(q)' /\ SeenTo(mine)'
    <3> SUFFICES ASSUME Undisturbed, troubles' = 0, ~told.crossed PROVE Standing(q)' /\ SeenTo(mine)'
      OBVIOUS
    <3>1. Standing(q)'
      BY <1>1, <1>2, <2>2 DEF Standing, Secrets!BlockOf
    <3>2. deployed \subseteq mounts
      BY <1>2 DEF Undisturbed
    <3>3. CASE request'[q].at = "volumes" /\ mine \in mounts
      BY <1>2, <2>3, <3>1, <3>3 DEF SeenTo
    <3>4. CASE request'[q].at = "edit" /\ mine \notin mounts
      BY <1>2, <2>3, <3>1, <3>2, <3>4 DEF SeenTo
    <3> QED
      BY <2>2, <3>1, <3>3, <3>4
  <2> QED
    BY <1>1, <1>2, <2>2, <2>4, OnwardOnly
<1>4. CASE Secrets!Deployed(q)
  <2>1. \/ Secrets!Goes(q, "restart")
        \/ Secrets!Rest(q) /\ (mine \notin deployed \/ troubles' # 0)
    BY <1>1, <1>4 DEF Secrets!Deployed, Secrets!Works, Secrets!Fails, SecretsInv, Shapes
  <2>2. /\ Onward(q) /\ request[q].at = "volumes"
        /\ \/ request'[q].at = "restart" /\ request'[q].change = request[q].change
           \/ request'[q].at = "idle" /\ (mine \notin deployed \/ troubles' # 0)
    BY <1>4, <2>1, RequestGoes, RequestRests DEF Secrets!Deployed, Onward, SecretsInv, Waits
  <2>4. Undisturbed /\ troubles' = 0 /\ ~told.crossed => Standing(q)' /\ SeenTo(mine)'
    <3> SUFFICES ASSUME Undisturbed, troubles' = 0, ~told.crossed PROVE Standing(q)' /\ SeenTo(mine)'
      OBVIOUS
    <3>1. mine \in mounts
      BY <1>1, <1>2, <2>2 DEF Undisturbed, Standing
    <3>2. Standing(q)'
      BY <1>1, <1>2, <2>2, <3>1 DEF Standing, Secrets!BlockOf
    <3>3. CASE request'[q].at = "restart" /\ request'[q].change = request[q].change
      <4>1. Busy(mine, {"values", "volumes", "restart"})'
        BY <1>1, <3>3 DEF Busy, Secrets!BlockOf
      <4> QED
        BY <1>2, <3>1, <3>2, <4>1 DEF SeenTo
    <3>4. CASE mine \notin deployed
      BY <1>2, <3>1, <3>2, <3>4 DEF SeenTo
    <3> QED
      BY <2>2, <3>2, <3>3, <3>4
  <2> QED
    BY <1>1, <1>2, <2>2, <2>4, OnwardOnly
<1>5. CASE Secrets!EditReads(q)
  <2>1. /\ Onward(q) /\ request[q].at = "edit" /\ request'[q].at = "write"
        /\ request'[q].change = request[q].change /\ request'[q].seen = mounts
    BY <1>5 DEF Secrets!EditReads, Onward, SecretsInv, Shapes, Waits
  <2>4. Undisturbed /\ troubles' = 0 /\ ~told.crossed => Standing(q)' /\ SeenTo(mine)'
    <3> SUFFICES ASSUME Undisturbed, troubles' = 0, ~told.crossed PROVE Standing(q)' /\ SeenTo(mine)'
      OBVIOUS
    <3>1. mine \notin mounts /\ deployed \subseteq mounts
      BY <1>1, <1>2, <2>1 DEF Undisturbed, Standing
    <3>2. Standing(q)'
      BY <1>1, <1>2, <2>1, <3>1 DEF Standing, Secrets!BlockOf
    <3>3. SeenTo(mine)'
      BY <1>1, <1>2, <2>1, <3>1 DEF SeenTo, Busy, Secrets!BlockOf
    <3> QED
      BY <3>2, <3>3
  <2> QED
    BY <1>1, <1>2, <2>1, <2>4, OnwardOnly
<1> QED
  BY <1>3, <1>4, <1>5

(* The settings refer to the block, and to all they referred to before when *)
(* nobody edits across.                                                    *)
LEMMA Edits == ASSUME SecretsInv, NEW q \in Requests, Secrets!EditWrites(q) PROVE SecretsInv'
<1>1. PICK mine \in Secrets!Blocks : mine = Secrets!BlockOf(q)
  BY DEF SecretsInv, Locked, Secrets!EditWrites
<1> DEFINE across == \E p \in Requests \ {q} : request[p].at = "write"
<1>5. \/ /\ mounts' = request[q].seen \cup {mine} /\ troubles' = troubles
         /\ told' = [told EXCEPT !.crossed = @ \/ across]
      \/ troubles' = troubles + 1 /\ UNCHANGED <<mounts, told>>
  BY <1>1 DEF Secrets!EditWrites, Secrets!Works, Secrets!Fails
<1>6. /\ Onward(q) /\ request[q].at = "write" /\ request'[q].at = "idle"
      /\ UNCHANGED <<secret, applying, deployed, mas>>
  BY RequestRests DEF SecretsInv, Onward, Secrets!EditWrites
<1>7. /\ troubles' \in Nat /\ (troubles' = 0 => troubles = 0)
      /\ told'.made = told.made /\ DOMAIN told' = DOMAIN told
      /\ told'.crossed \in BOOLEAN
      /\ troubles' = 0 /\ ~told'.crossed => ~told.crossed /\ ~across
  <2> across \in BOOLEAN
    OBVIOUS
  <2> HIDE DEF across
  <2> QED
    BY <1>5 DEF SecretsInv, Shapes
<1>2. /\ Onward(q) /\ request[q].at = "write" /\ request'[q].at = "idle"
      /\ UNCHANGED <<secret, applying, deployed, mas>> /\ troubles' \in Nat
      /\ told'.made = told.made /\ DOMAIN told' = DOMAIN told /\ told'.crossed \in BOOLEAN
  BY <1>6, <1>7
<1>3. Shapes'
  BY <1>2 DEF SecretsInv, Shapes, Onward
<1>4. Undisturbed'
  <2> SUFFICES ASSUME troubles' = 0, ~told'.crossed PROVE Undisturbed'
    BY DEF Undisturbed
  <2>1. /\ troubles = 0 /\ ~told.crossed /\ mounts' = request[q].seen \cup {mine}
        /\ \A p \in Requests \ {q} : request[p].at # "write"
    BY <1>5, <1>7 DEF SecretsInv, Shapes
  <2>2. /\ deployed \subseteq mounts /\ mounts \subseteq Secrets!Blocks
        /\ (applying # None => applying \subseteq mounts)
        /\ \A p \in Requests : Standing(p)
        /\ \A b \in Secrets!Blocks : SeenTo(b)
    BY <2>1 DEF SecretsInv, Undisturbed
  <2>3. mounts' = mounts \cup {mine} /\ mine \notin mounts
    BY <1>1, <1>2, <2>1, <2>2 DEF Standing
  <2>4. ASSUME NEW p \in Requests PROVE Standing(p)'
    <3>1. p # q /\ request[p].at # "idle" => Secrets!BlockOf(p) # mine
      BY <1>1, <1>2 DEF SecretsInv, Locked
    <3> QED
      BY <1>2, <2>1, <2>2, <2>3, <3>1 DEF Standing, Onward, Secrets!BlockOf
  <2>5. ASSUME NEW b \in Secrets!Blocks, b # mine PROVE SeenTo(b)'
    BY <1>1, <1>2, <2>2, <2>3, <2>5, OnwardKeeps DEF SeenTo, Secrets!NoEntry
  <2>6. SeenTo(mine)'
    BY <1>2, <2>2, <2>3 DEF SeenTo
  <2> QED
    BY <1>2, <2>2, <2>3, <2>4, <2>5, <2>6 DEF Undisturbed
<1> QED
  BY <1>2, <1>3, <1>4, OnwardLocks, OnwardKeeps DEF SecretsInv

(* MAS is to start anew.                                                   *)
LEMMA Restarts == ASSUME SecretsInv, NEW q \in Requests, Secrets!RolloutRestart(q) PROVE SecretsInv'
<1>1. PICK mine \in Secrets!Blocks : mine = Secrets!BlockOf(q)
  BY DEF SecretsInv, Locked, Secrets!RolloutRestart
<1>2. /\ Onward(q) /\ request[q].at = "restart" /\ request'[q].at = "idle"
      /\ UNCHANGED <<secret, mounts, applying, deployed, told>> /\ troubles' \in Nat
      /\ \/ mas' = mas /\ troubles' # 0
         \/ mas' = [mas EXCEPT !.restarting = TRUE] /\ troubles' = troubles
  BY RequestRests DEF SecretsInv, Shapes, Onward, Secrets!RolloutRestart, Secrets!Works, Secrets!Fails
<1>3. Shapes'
  BY <1>2 DEF SecretsInv, Shapes, Onward
<1>4. Undisturbed'
  <2> SUFFICES ASSUME troubles' = 0, ~told.crossed PROVE Undisturbed'
    BY <1>2 DEF Undisturbed
  <2>1. troubles = 0 /\ mas'.restarting
    BY <1>2 DEF SecretsInv, Shapes
  <2>2. /\ deployed \subseteq mounts /\ mounts \subseteq Secrets!Blocks
        /\ (applying # None => applying \subseteq mounts)
        /\ \A p \in Requests : Standing(p)
        /\ \A b \in Secrets!Blocks : SeenTo(b)
    BY <2>1 DEF SecretsInv, Undisturbed
  <2>3. \A p \in Requests : Standing(p)'
    BY <1>2, <2>2 DEF Standing, Onward, Secrets!BlockOf
  <2>4. ASSUME NEW b \in Secrets!Blocks, b # mine PROVE SeenTo(b)'
    BY <1>1, <1>2, <2>1, <2>2, <2>4, OnwardKeeps DEF SeenTo, Secrets!NoEntry
  <2>5. SeenTo(mine)'
    BY <1>1, <1>2, <2>1, <2>2 DEF SeenTo, Standing
  <2> QED
    BY <1>2, <2>2, <2>3, <2>4, <2>5 DEF Undisturbed
<1> QED
  BY <1>2, <1>3, <1>4, OnwardLocks, OnwardKeeps DEF SecretsInv

(* What an apply and MAS do leaves requests and Secrets alone.             *)
LEMMA Around ==
  ASSUME SecretsInv, UNCHANGED <<secret, mounts, request, told, troubles>>,
         Shapes', Undisturbed'
  PROVE  SecretsInv'
<1>1. Locked' /\ Secrets!NoProviderIsDropped'
  BY DEF SecretsInv, Locked, Secrets!BlockOf, Secrets!NoProviderIsDropped
<1>2. \A x : Proposed(x)' = Proposed(x)
  BY DEF Proposed, Now, Secrets!Render, Secrets!Complete
<1> QED
  BY <1>1, <1>2 DEF SecretsInv

(* An apply reads the settings and Helm writes what it read; MAS starts    *)
(* anew for a new mount, and reads what is mounted.                        *)
LEMMA Applies ==
  ASSUME SecretsInv, Secrets!ApplyReads \/ Secrets!ApplyWrites \/ Secrets!MasStarts
  PROVE  SecretsInv'
<1>0. UNCHANGED <<secret, mounts, request, told, troubles>>
  BY DEF Secrets!ApplyReads, Secrets!ApplyWrites, Secrets!MasStarts
<1>1. Shapes'
  <2>1. DOMAIN mas' = {"running", "restarting"} /\ mas'.restarting \in BOOLEAN
    <3>1. CASE Secrets!ApplyReads
      BY <3>1 DEF SecretsInv, Shapes, Secrets!ApplyReads
    <3>2. CASE Secrets!ApplyWrites
      <4> DEFINE changed == applying # deployed
      <4>1. mas' = [mas EXCEPT !.restarting = @ \/ changed] /\ changed \in BOOLEAN
        BY <3>2 DEF Secrets!ApplyWrites
      <4> HIDE DEF changed
      <4> QED
        BY <4>1 DEF SecretsInv, Shapes
    <3>3. CASE Secrets!MasStarts
      BY <3>3 DEF Secrets!MasStarts
    <3> QED
      BY <3>1, <3>2, <3>3
  <2> QED
    BY <1>0, <2>1 DEF SecretsInv, Shapes
<1>2. /\ \A b : Now(b)' = Now(b)
      /\ \A b, some : Busy(b, some)' = Busy(b, some)
      /\ \A q \in Requests : Standing(q)' = Standing(q)
  BY <1>0 DEF Now, Busy, Standing, Secrets!BlockOf, Secrets!Render, Secrets!Complete
<1>3. Undisturbed'
  <2> SUFFICES ASSUME troubles = 0, ~told.crossed PROVE Undisturbed'
    BY <1>0 DEF Undisturbed
  <2>1. /\ deployed \subseteq mounts /\ mounts \subseteq Secrets!Blocks
        /\ (applying # None => applying \subseteq mounts)
        /\ \A p \in Requests : Standing(p)
        /\ \A b \in Secrets!Blocks : SeenTo(b)
    BY DEF SecretsInv, Undisturbed
  <2>2. CASE Secrets!ApplyReads
    BY <1>0, <1>2, <2>1, <2>2 DEF Secrets!ApplyReads, Undisturbed, SeenTo, Secrets!NoEntry
  <2>3. CASE Secrets!ApplyWrites
    <3>1. deployed' = applying /\ applying' = None /\ deployed' \subseteq mounts
      BY <2>1, <2>3 DEF Secrets!ApplyWrites
    <3>2. mas'.running = mas.running /\ (~mas'.restarting => ~mas.restarting /\ deployed' = deployed)
      BY <2>3, <3>1 DEF Secrets!ApplyWrites, SecretsInv, Shapes
    <3> QED
      BY <1>0, <1>2, <2>1, <3>1, <3>2 DEF Undisturbed, SeenTo, Secrets!NoEntry
  <2>4. CASE Secrets!MasStarts
    <3>1. UNCHANGED <<deployed, applying>> /\ mas'.running = [b \in deployed |-> Now(b)]
      BY <2>4 DEF Secrets!MasStarts, Secrets!Running, Now
    <3>2. \A b \in deployed : mas'.running[b] = Now(b)
      BY <3>1
    <3> QED
      BY <1>0, <1>2, <2>1, <3>1, <3>2 DEF Undisturbed, SeenTo, Secrets!NoEntry
  <2> QED
    BY <2>2, <2>3, <2>4
<1> QED
  BY <1>0, <1>1, <1>3, Around

(* A provider an operator was told of stays until it is deleted; and once  *)
(* everybody is done MAS runs what was saved, or the settings say what an  *)
(* apply will bring: LoginProvidersHandler, MailHandler and masBlock.      *)
THEOREM SecretsAreSeenTo == Secrets!Spec => []Secrets!SecretsAreRead
<1>1. Secrets!Init => SecretsInv
  <2> SUFFICES ASSUME Secrets!Init PROVE SecretsInv
    OBVIOUS
  <2>1. PICK p : /\ secret = [providers |-> p, mail |-> Secrets!NoEntry]
                 /\ told = [made |-> DOMAIN p, crossed |-> FALSE]
                 /\ mounts = IF DOMAIN p = {} THEN {} ELSE {"providers"}
                 /\ p = Secrets!NoEntry \/ DOMAIN p = {1}
    BY DEF Secrets!Init
  <2>2. /\ request = [q \in Requests |-> Secrets!Idle] /\ deployed = mounts /\ applying = None
        /\ mas = [running |-> Secrets!Running(deployed, secret), restarting |-> FALSE]
        /\ troubles = 0
    BY DEF Secrets!Init
  <2>3. Shapes /\ \A q \in Requests : request[q].at = "idle"
    BY <2>1, <2>2 DEF Shapes, Secrets!Blocks, Secrets!Idle, Waits
  <2>4. \A b \in deployed : mas.running[b] = Now(b)
    BY <2>2 DEF Secrets!Running, Now
  <2>5. ASSUME NEW b \in Secrets!Blocks, b \notin mounts PROVE Now(b) = Secrets!NoEntry
    <3>1. secret[b] = Secrets!NoEntry
      BY <2>1, <2>5 DEF Secrets!Blocks, Secrets!NoEntry
    <3> QED
      BY <3>1 DEF Now, Secrets!Render, Secrets!NoEntry
  <2>6. Undisturbed
    BY <2>1, <2>2, <2>3, <2>4, <2>5 DEF Undisturbed, Standing, SeenTo, Secrets!Blocks
  <2>7. Secrets!NoProviderIsDropped
    BY <2>1 DEF Secrets!NoProviderIsDropped
  <2> QED
    BY <2>3, <2>6, <2>7 DEF SecretsInv, Locked
<1>2. SecretsInv /\ [Secrets!Next]_Secrets!vars => SecretsInv'
  <2> SUFFICES ASSUME SecretsInv, [Secrets!Next]_Secrets!vars PROVE SecretsInv'
    OBVIOUS
  <2>1. CASE Secrets!Dies
    <3>1. /\ request' = [q \in Requests |-> Secrets!Idle] /\ troubles' = troubles + 1
          /\ UNCHANGED <<secret, mounts, applying, deployed, mas, told>>
      BY <2>1 DEF Secrets!Dies, Secrets!Fails
    <3>2. /\ Shapes' /\ troubles' # 0 /\ \A q \in Requests : request'[q].at = "idle"
      BY <3>1 DEF SecretsInv, Shapes, Secrets!Idle, Waits
    <3> QED
      BY <3>1, <3>2 DEF SecretsInv, Locked, Undisturbed, Secrets!NoProviderIsDropped
  <2>2. CASE UNCHANGED Secrets!vars
    <3>1. Shapes' /\ UNCHANGED <<secret, mounts, request, told, troubles>>
      BY <2>2 DEF Secrets!vars, SecretsInv, Shapes
    <3>2. Undisturbed'
      BY <2>2 DEF Secrets!vars, SecretsInv, Undisturbed, Standing, SeenTo, Busy, Now,
                  Secrets!BlockOf, Secrets!Render, Secrets!Complete, Secrets!NoEntry
    <3> QED
      BY <3>1, <3>2, Around
  <2> QED
    BY <2>1, <2>2, Loads, Saves, Looks, Edits, Restarts, Applies DEF Secrets!Next
<1>3. SecretsInv => Secrets!SecretsAreRead
  <2> SUFFICES ASSUME SecretsInv, Secrets!Quiet, troubles = 0, ~told.crossed
               PROVE  /\ \A b \in deployed : mas.running[b] = Secrets!Render(b, secret[b])
                      /\ \A b \in Secrets!Blocks \ mounts :
                            Secrets!Render(b, secret[b]) = Secrets!NoEntry
    BY DEF SecretsInv, Secrets!SecretsAreRead, Secrets!MasReadsIt
  <2>1. \A b : /\ ~Busy(b, {"values", "volumes", "restart"})
               /\ ~Busy(b, {"values", "edit", "write"})
    BY DEF Busy, Secrets!Quiet
  <2> QED
    BY <2>1 DEF SecretsInv, Undisturbed, SeenTo, Secrets!Quiet, Now
<1> QED
  BY <1>1, <1>2, <1>3, PTL DEF Secrets!Spec

---------------------------------------------------------------------------
(* The view of a rollout.  The probe ends no pod but one that holds ports a *)
(* successor was refused, and nobody was refused before Helm wrote: while a *)
(* workload is as it was its one pod is ready, so that a snapshot takes it  *)
(* for done and does not speak of a rollout.                                *)
Progresses == {"phase", "comps", "crossed"}

Kinds ==
    /\ spec = [w \in View!Workloads |-> [gen |-> spec[w].gen, seen |-> spec[w].seen]]
    /\ \A w \in View!Workloads : spec[w].gen \in {1, 2} /\ spec[w].seen \in {1, 2}
    /\ pods \in [View!Workloads -> [old : View!Old, new : View!New]]
    /\ DOMAIN events = {"refused", "pulling"}
    /\ stream = [phase |-> stream.phase, progress |-> stream.progress]
    /\ stream.progress # None => DOMAIN stream.progress = Progresses
    /\ DOMAIN snap = {"at", "phase", "read", "blocked", "crossed"} /\ snap.crossed \in BOOLEAN
    /\ DOMAIN probe = {"at", "pending", "running", "victims"}

Written(w) == spec[w].gen = 2

Untouched ==
    \A w \in View!Workloads :
        spec[w].gen = 1 => spec[w].seen = 1 /\ pods[w] = [old |-> "ready", new |-> "none"]

Refused ==
    /\ \A w \in events.refused : w \in View!Workloads /\ Written(w)
    /\ probe.victims \subseteq HostNetwork \cap events.refused

Reading ==
    /\ \A w \in DOMAIN snap.read : ~snap.read[w].done => \E x \in View!Workloads : Written(x)
    /\ snap.at # "idle" /\ ~snap.crossed => snap.phase = stream.phase

ViewInv == Kinds /\ Untouched /\ Refused /\ Reading /\ View!PredecessorStays /\ View!StepperIsTrue

(* Kubernetes takes a step with one workload.                               *)
LEMMA ClusterSteps ==
  ASSUME ViewInv, NEW w \in View!Workloads,
         \/ View!Observe(w) \/ View!Create(w) \/ View!Place(w)
         \/ View!Run(w) \/ View!Retire(w) \/ View!Goes(w)
  PROVE  ViewInv'
<1>0. UNCHANGED <<stream, snap, probe>>
  BY DEF View!Observe, View!Create, View!Place, View!Run, View!Retire, View!Goes
<1>1. \/ /\ spec[w].seen < spec[w].gen /\ UNCHANGED <<pods, events>>
         /\ spec' = [spec EXCEPT ![w].seen = spec[w].gen]
      \/ /\ Written(w) /\ UNCHANGED spec /\ pods[w].new = "none"
         /\ \/ w \in HostNetwork /\ pods' = [pods EXCEPT ![w].new = "refused"]
               /\ events' = [events EXCEPT !.refused = @ \cup {w}]
            \/ pods' = [pods EXCEPT ![w].new = "starting"] /\ UNCHANGED events
      \/ /\ Written(w) /\ UNCHANGED spec /\ pods[w].new \notin {"none", "ready"}
         /\ \E st \in View!New : pods' = [pods EXCEPT ![w].new = st]
         /\ DOMAIN events' = DOMAIN events /\ events'.refused = events.refused
      \/ /\ Written(w) /\ UNCHANGED <<spec, events>>
         /\ w \in Deployments /\ pods[w].old = "ready" => pods[w].new = "ready"
         /\ \E st \in View!Old : pods' = [pods EXCEPT ![w].old = st]
  BY DEF ViewInv, Kinds, Untouched, Written, View!Rolling, View!Observe, View!Create, View!Place,
     View!Run, View!Retire, View!Goes, View!New_, View!Old_, View!New, View!Old, View!Fails, View!Works
<1>7. /\ spec' = [x \in View!Workloads |-> [gen |-> spec'[x].gen, seen |-> spec'[x].seen]]
      /\ \A x \in View!Workloads :
           /\ spec'[x].gen = spec[x].gen /\ spec'[x].seen \in {1, 2}
           /\ spec[x].gen = 1 => spec'[x].seen = spec[x].seen
  <2>1. CASE UNCHANGED spec
    BY <2>1 DEF ViewInv, Kinds
  <2>2. CASE spec[w].seen < spec[w].gen /\ spec' = [spec EXCEPT ![w].seen = spec[w].gen]
    <3>1. /\ DOMAIN spec' = View!Workloads /\ spec'[w] = [gen |-> spec[w].gen, seen |-> spec[w].gen]
          /\ \A x \in View!Workloads \ {w} : spec'[x] = spec[x]
      BY <2>2 DEF ViewInv, Kinds
    <3>2. spec[w].gen = 2
      BY <2>2 DEF ViewInv, Kinds
    <3>3. \A x \in View!Workloads : spec'[x] = [gen |-> spec'[x].gen, seen |-> spec'[x].seen]
      BY <3>1 DEF ViewInv, Kinds
    <3>4. spec' = [x \in DOMAIN spec' |-> spec'[x]]
      BY <2>2
    <3> QED
      BY <3>1, <3>2, <3>3, <3>4 DEF ViewInv, Kinds
  <2> QED
    BY <1>1, <2>1, <2>2
<1>8. /\ pods' \in [View!Workloads -> [old : View!Old, new : View!New]]
      /\ \A x \in View!Workloads : spec[x].gen = 1 => pods'[x] = pods[x]
  <2>1. pods' \in [View!Workloads -> [old : View!Old, new : View!New]]
    BY <1>1 DEF ViewInv, Kinds, Written, View!New, View!Old
  <2>2. \A x \in View!Workloads : spec[x].gen = 1 => pods'[x] = pods[x]
    BY <1>1 DEF ViewInv, Kinds, Untouched, Written
  <2> QED
    BY <2>1, <2>2
<1>9. /\ DOMAIN events' = {"refused", "pulling"} /\ events.refused \subseteq events'.refused
      /\ \A x \in events'.refused \ events.refused : x = w /\ Written(w)
  BY <1>1 DEF ViewInv, Kinds
<1>2. Kinds' /\ Untouched'
  BY <1>0, <1>7, <1>8, <1>9 DEF ViewInv, Kinds, Untouched
<1>3. Refused' /\ \A x \in View!Workloads : Written(x) => Written(x)'
  BY <1>0, <1>7, <1>9 DEF ViewInv, Refused, Written
<1>4. Reading'
  BY <1>0, <1>3 DEF ViewInv, Reading
<1>5. View!PredecessorStays'
  BY <1>0, <1>1 DEF ViewInv, Kinds, View!PredecessorStays, View!Workloads, View!New, View!Old
<1>6. View!StepperIsTrue'
  BY <1>0, <1>3 DEF ViewInv, View!StepperIsTrue, Written
<1> QED
  BY <1>2, <1>3, <1>4, <1>5, <1>6 DEF ViewInv

(* The upgrade announces a phase.                                           *)
LEMMA Announces ==
  ASSUME ViewInv, NEW ph \in View!Phases \ {"rollout"}, View!Announce(ph),
         UNCHANGED <<spec, pods, events, probe>>
  PROVE  ViewInv'
<1>1. /\ stream' = [phase |-> ph, progress |-> stream'.progress]
      /\ stream'.progress # None =>
            /\ DOMAIN stream'.progress = Progresses /\ stream'.progress.phase = ph
  BY DEF View!Announce, View!SetPhase, ViewInv, Kinds
<1>2. /\ DOMAIN snap' = DOMAIN snap /\ snap'.crossed = TRUE /\ snap'.read = snap.read
  BY DEF View!Announce, ViewInv, Kinds
<1>3. Kinds' /\ Untouched' /\ Refused' /\ Reading'
  BY <1>1, <1>2 DEF ViewInv, Kinds, Untouched, Refused, Reading, Written
<1>4. View!PredecessorStays' /\ View!StepperIsTrue'
  BY <1>1 DEF ViewInv, View!PredecessorStays, View!StepperIsTrue
<1> QED
  BY <1>3, <1>4 DEF ViewInv

(* Helm writes a workload.                                                  *)
LEMMA Writes == ASSUME ViewInv, NEW w \in View!Workloads, View!HelmWrites(w) PROVE ViewInv'
<1>1. /\ spec' = [spec EXCEPT ![w].gen = 2] /\ UNCHANGED <<pods, events, stream, snap, probe>>
  BY DEF View!HelmWrites
<1>2. /\ DOMAIN spec' = View!Workloads /\ spec'[w] = [gen |-> 2, seen |-> spec[w].seen]
      /\ \A x \in View!Workloads \ {w} : spec'[x] = spec[x]
  BY <1>1 DEF ViewInv, Kinds
<1>3. \A x \in View!Workloads : Written(x) => Written(x)'
  BY <1>2 DEF Written
<1>4. Kinds' /\ Untouched'
  BY <1>1, <1>2 DEF ViewInv, Kinds, Untouched, Written
<1>5. Refused' /\ Reading'
  BY <1>1, <1>3 DEF ViewInv, Refused, Reading
<1> QED
  BY <1>1, <1>4, <1>5 DEF ViewInv, View!PredecessorStays, View!StepperIsTrue

(* A snapshot begins with the phase of the moment.                          *)
LEMMA SnapBegins == ASSUME ViewInv, View!SnapPhase PROVE ViewInv'
<1>1. /\ snap' = [at |-> "deployments", phase |-> stream.phase, read |-> View!NoReads,
                  blocked |-> {}, crossed |-> FALSE]
      /\ UNCHANGED <<spec, pods, events, stream, probe>>
  BY DEF View!SnapPhase, View!Taken, View!cluster
<1>2. DOMAIN snap'.read = {}
  BY <1>1 DEF View!NoReads
<1> QED
  BY <1>1, <1>2 DEF ViewInv, Kinds, Untouched, Refused, Reading, Written,
     View!PredecessorStays, View!StepperIsTrue

(* A workload that nobody wrote is read as done.                            *)
LEMMA SnapReads ==
  ASSUME ViewInv, NEW S \in SUBSET View!Workloads, NEW next \in {"statefulsets", "promote"},
         snap.at # "idle", View!ReadWorkloads(S, next),
         UNCHANGED <<spec, pods, events, stream, probe>>
  PROVE  ViewInv'
<1>1. ASSUME NEW w \in View!Workloads, ~View!Done(w) PROVE Written(w)
  BY <1>1 DEF ViewInv, Kinds, Untouched, Written, View!Done, View!Settled, View!Updated, View!Ready,
     View!Rolling
<1>2. /\ DOMAIN snap' = DOMAIN snap /\ snap'.at = next /\ snap'.phase = snap.phase
      /\ snap'.crossed = snap.crossed
  BY DEF View!ReadWorkloads, ViewInv, Kinds
<1>3. \A w \in DOMAIN snap'.read :
        ~snap'.read[w].done => \E x \in View!Workloads : Written(x)
  <2>1. CASE snap' = [snap EXCEPT !.at = next]
    BY <2>1 DEF ViewInv, Kinds, Reading
  <2>2. CASE snap'.read = [w \in DOMAIN snap.read \cup S |->
                  IF w \notin S THEN snap.read[w]
                  ELSE [done |-> View!Done(w), begun |-> View!Settled(w) /\ View!Updated(w) > 0]]
    <3>1. ASSUME NEW w \in DOMAIN snap'.read
          PROVE  \/ w \in S /\ snap'.read[w].done = View!Done(w)
                 \/ w \in DOMAIN snap.read /\ snap'.read[w] = snap.read[w]
      BY <2>2, <3>1
    <3> QED
      BY <3>1, <1>1 DEF ViewInv, Reading
  <2> QED
    BY <2>1, <2>2 DEF View!ReadWorkloads, ViewInv, Kinds
<1> QED
  BY <1>2, <1>3 DEF ViewInv, Kinds, Untouched, Refused, Reading, Written,
     View!PredecessorStays, View!StepperIsTrue

(* A snapshot is published with the phase it has.                           *)
LEMMA Publishes ==
  ASSUME ViewInv, snap.at # "idle", NEW comps, View!Publish(snap.phase, comps), snap' = View!Taken,
         UNCHANGED <<spec, pods, events, probe>>
  PROVE  ViewInv'
<1>1. /\ stream' = [phase |-> stream.phase, progress |-> stream'.progress]
      /\ stream'.progress = [phase |-> snap.phase, comps |-> comps, crossed |-> snap.crossed]
  BY DEF View!Publish, ViewInv, Kinds
<1>2. /\ DOMAIN snap' = {"at", "phase", "read", "blocked", "crossed"} /\ snap'.crossed = FALSE
      /\ snap'.at = "idle" /\ DOMAIN snap'.read = {}
  BY DEF View!Taken, View!NoReads
<1>3. ~snap.crossed => snap.phase = stream.phase
  BY DEF ViewInv, Reading
<1>4. Kinds' /\ Untouched' /\ Refused' /\ Reading'
  BY <1>1, <1>2 DEF ViewInv, Kinds, Untouched, Refused, Reading, Written, Progresses
<1>5. View!PredecessorStays' /\ View!StepperIsTrue'
  BY <1>1, <1>3 DEF ViewInv, View!PredecessorStays, View!StepperIsTrue
<1> QED
  BY <1>4, <1>5 DEF ViewInv

(* The first workload that is not done turns apply into rollout.            *)
LEMMA Promotes == ASSUME ViewInv, View!SnapPromote PROVE ViewInv'
<1>0. snap.at = "promote" /\ UNCHANGED <<spec, pods, events, probe>>
  BY DEF View!SnapPromote, View!cluster
<1>1. CASE DOMAIN snap.read = {}
  BY <1>0, <1>1, Publishes DEF View!SnapPromote
<1>2. CASE /\ stream' = View!SetPhase("rollout")
           /\ snap' = [snap EXCEPT !.phase = "rollout", !.at = "pods"]
           /\ \E w \in DOMAIN snap.read : ~snap.read[w].done
  <2>1. /\ stream' = [phase |-> "rollout", progress |-> stream'.progress]
        /\ stream'.progress # None =>
              /\ DOMAIN stream'.progress = Progresses /\ stream'.progress.phase = "rollout"
    BY <1>2 DEF View!SetPhase, ViewInv, Kinds
  <2>2. /\ DOMAIN snap' = DOMAIN snap /\ snap'.crossed = snap.crossed /\ snap'.read = snap.read
        /\ snap'.phase = "rollout"
    BY <1>2 DEF ViewInv, Kinds
  <2>3. \E w \in View!Workloads : Written(w)
    BY <1>2 DEF ViewInv, Reading
  <2> QED
    BY <1>0, <2>1, <2>2, <2>3 DEF ViewInv, Kinds, Untouched, Refused, Reading, Written,
       View!PredecessorStays, View!StepperIsTrue
<1>3. CASE snap' = [snap EXCEPT !.at = "pods"] /\ UNCHANGED stream
  BY <1>0, <1>3 DEF ViewInv, Kinds, Untouched, Refused, Reading, Written,
     View!PredecessorStays, View!StepperIsTrue
<1> QED
  BY <1>1, <1>2, <1>3 DEF View!SnapPromote

(* The pods and their events are read.                                      *)
LEMMA SnapEnds == ASSUME ViewInv, View!SnapPods \/ View!SnapPulls PROVE ViewInv'
<1>1. CASE View!SnapPods
  <2>1. /\ DOMAIN snap' = DOMAIN snap /\ snap'.at = "pulls" /\ snap'.phase = snap.phase
        /\ snap'.read = snap.read /\ snap'.crossed = snap.crossed /\ snap.at # "idle"
        /\ UNCHANGED <<spec, pods, events, stream, probe>>
    BY <1>1 DEF View!SnapPods, View!cluster, ViewInv, Kinds
  <2> QED
    BY <2>1 DEF ViewInv, Kinds, Untouched, Refused, Reading, Written,
       View!PredecessorStays, View!StepperIsTrue
<1>2. CASE View!SnapPulls
  <2>1. \E comps : View!Publish(snap.phase, comps)
    BY <1>2 DEF View!SnapPulls
  <2>2. snap.at # "idle" /\ snap' = View!Taken /\ UNCHANGED <<spec, pods, events, probe>>
    BY <1>2 DEF View!SnapPulls, View!cluster
  <2> QED
    BY <2>1, <2>2, Publishes
<1> QED
  BY <1>1, <1>2

(* The probe asks before it deletes, and what it asked for stays so.        *)
LEMMA Probes ==
  ASSUME ViewInv, View!ProbeList \/ View!ProbeAsks \/ View!ProbeDeletes
  PROVE  ViewInv'
<1>0. UNCHANGED <<spec, events, stream, snap>>
  BY DEF View!ProbeList, View!ProbeAsks, View!ProbeDeletes, View!cluster
<1>5. DOMAIN probe = {"at", "pending", "running", "victims"}
  BY DEF ViewInv, Kinds
<1>1. /\ DOMAIN probe' = {"at", "pending", "running", "victims"}
      /\ probe'.victims \subseteq HostNetwork \cap events.refused
  <2>1. CASE View!ProbeList
    BY <2>1 DEF View!ProbeList
  <2>2. CASE View!ProbeAsks
    BY <2>2, <1>5 DEF View!ProbeAsks, View!Victims
  <2>3. CASE View!ProbeDeletes
    <3>1. \/ probe' = View!ProbeIdle
          \/ \E w : probe' = [probe EXCEPT !.victims = @ \ {w}]
      BY <2>3 DEF View!ProbeDeletes
    <3> QED
      BY <3>1, <1>5 DEF View!ProbeIdle, ViewInv, Refused
  <2> QED
    BY <2>1, <2>2, <2>3
<1>2. \/ UNCHANGED pods
      \/ \E w \in HostNetwork \cap events.refused : pods' = [pods EXCEPT ![w].old = "leaving"]
  BY DEF View!ProbeList, View!ProbeAsks, View!ProbeDeletes, View!Old_, View!cluster, ViewInv, Refused
<1>3. CASE UNCHANGED pods
  BY <1>0, <1>1, <1>3 DEF ViewInv, Kinds, Untouched, Refused, Reading, Written,
     View!PredecessorStays, View!StepperIsTrue
<1>4. CASE \E w \in HostNetwork \cap events.refused : pods' = [pods EXCEPT ![w].old = "leaving"]
  <2>1. PICK w \in HostNetwork \cap events.refused : pods' = [pods EXCEPT ![w].old = "leaving"]
    BY <1>4
  <2>2. w \in View!Workloads /\ spec[w].gen = 2
    BY DEF ViewInv, Refused, Written
  <2>3. /\ pods' \in [View!Workloads -> [old : View!Old, new : View!New]]
        /\ pods'[w].new = pods[w].new
        /\ \A x \in View!Workloads \ {w} : pods'[x] = pods[x]
    BY <2>1, <2>2 DEF ViewInv, Kinds, View!Old
  <2>4. Kinds'
    BY <1>0, <1>1, <2>3 DEF ViewInv, Kinds
  <2>5. Untouched' /\ Refused' /\ Reading'
    BY <1>0, <1>1, <2>2, <2>3 DEF ViewInv, Untouched, Refused, Reading, Written
  <2>6. View!PredecessorStays'
    BY <1>0, <2>3 DEF ViewInv, View!PredecessorStays, View!Workloads
  <2>7. View!StepperIsTrue'
    BY <1>0 DEF ViewInv, View!StepperIsTrue
  <2> QED
    BY <2>4, <2>5, <2>6, <2>7 DEF ViewInv
<1> QED
  BY <1>2, <1>3, <1>4

(* The probe ends an old pod only where its successor was refused the ports *)
(* it holds, and a page is shown the phase that was announced last, or the  *)
(* rollout it turned into: hostPortVictims and setPhase.                    *)
THEOREM RolloutIsShown == View!Spec => []View!RolloutIsTold
<1>1. View!Init => ViewInv
  <2> SUFFICES ASSUME View!Init PROVE ViewInv
    OBVIOUS
  <2>1. Kinds /\ Untouched
    BY DEF View!Init, Kinds, Untouched, View!Old, View!New, View!Taken, View!ProbeIdle
  <2>2. Refused /\ Reading
    BY DEF View!Init, Refused, Reading, View!Taken, View!NoReads, View!ProbeIdle
  <2>3. View!PredecessorStays /\ View!StepperIsTrue
    BY DEF View!Init, View!PredecessorStays, View!StepperIsTrue, View!Workloads
  <2> QED
    BY <2>1, <2>2, <2>3 DEF ViewInv
<1>2. ViewInv /\ [View!Next]_View!vars => ViewInv'
  <2> SUFFICES ASSUME ViewInv, [View!Next]_View!vars PROVE ViewInv'
    OBVIOUS
  <2>1. CASE View!StartApply \/ View!HelmSucceeded \/ View!Finish
    BY <2>1, Announces DEF View!StartApply, View!HelmSucceeded, View!Finish, View!cluster, View!Phases
  <2>2. CASE View!SnapDeployments \/ View!SnapStatefulSets
    <3>1. Deployments \in SUBSET View!Workloads /\ StatefulSets \in SUBSET View!Workloads
      BY DEF View!Workloads
    <3> QED
      BY <2>2, <3>1, SnapReads DEF View!SnapDeployments, View!SnapStatefulSets, View!cluster
  <2>3. CASE View!HelmReturns \/ View!HelmFailed \/ UNCHANGED View!vars
    BY <2>3 DEF View!HelmReturns, View!HelmFailed, View!vars, View!cluster, ViewInv, Kinds,
       Untouched, Refused, Reading, Written, View!PredecessorStays, View!StepperIsTrue
  <2> QED
    BY <2>1, <2>2, <2>3, ClusterSteps, Writes, SnapBegins, Promotes, SnapEnds, Probes DEF View!Next
<1>3. ViewInv => View!RolloutIsTold
  BY DEF ViewInv, View!RolloutIsTold
<1> QED
  BY <1>1, <1>2, <1>3, PTL DEF View!Spec

---------------------------------------------------------------------------
(* The reads of the release.  Every fact about a revision that is kept      *)
(* anywhere, in the cluster, in memory, in the database or in what a        *)
(* request has seen, gives it one chart, and no fact is about a revision    *)
(* that Helm has yet to write.  The status of a revision only moves on, so  *)
(* that who saw the identity a decoded release is kept under saw the        *)
(* release, too.                                                            *)
Facts == [rev : Nat, status : Reads!Statuses, chart : Charts]
RequestParts == {"at", "id", "listed", "rows", "missing", "answer", "seen", "newest", "misled"}
HistoryPoints == {"history", "prune", "load", "fill", "persist", "rows", "fullHistory"}

MovesTo(a, b) == a = b \/ a = "pending" \/ (a = "deployed" /\ b = "superseded")

Below(r) == r \in Nat /\ (DOMAIN secrets # {} => \E n \in DOMAIN secrets : r <= n)

Said(r, c) ==
    \/ r \in DOMAIN secrets /\ secrets[r].chart = c
    \/ r \in DOMAIN revCache /\ revCache[r] = c
    \/ r \in DOMAIN store /\ store[r] = c
    \/ \E q \in Readers : \E i \in reader[q].seen : i.rev = r /\ i.chart = c

Releases(s) ==
    /\ s \in UNION {[D -> Reads!Secret] : D \in SUBSET Nat}
    /\ DOMAIN s # {} => \E n \in DOMAIN s : \A r \in DOMAIN s : r <= n

Agreed == \A r, c, d : Said(r, c) => Below(r) /\ (Said(r, d) => c = d)

(* info was decoded after a probe had seen id.                              *)
Decoded(id, info) ==
    /\ info \in Facts /\ info.rev = id.revision /\ Below(info.rev)
    /\ MovesTo(id.status, info.status)
    /\ info.rev \in DOMAIN secrets =>
         /\ MovesTo(info.status, secrets[info.rev].status)
         /\ secrets[info.rev].chart = info.chart
    /\ \A q \in Readers : \A i \in reader[q].seen :
         i.rev = info.rev /\ i.status = id.status => info \in reader[q].seen

Seen(q, r, st) == \E c : [rev |-> r, status |-> st, chart |-> c] \in reader[q].seen

Truthful(q) ==
    LET rd == reader[q]
    IN  /\ DOMAIN rd = RequestParts /\ rd.misled = FALSE /\ rd.seen \subseteq Facts
        /\ rd.at = "idle" => rd.seen = {}
        /\ rd.at # "idle" => Reads!Told(secrets) \subseteq rd.seen /\ Reads!Newest(secrets) \in rd.newest
        /\ rd.at \in {"memo", "decode", "remember"} =>
             rd.id.revision \in rd.newest /\ Seen(q, rd.id.revision, rd.id.status)
        /\ rd.at \in {"memo", "decode"} /\ rd.id.revision \in DOMAIN secrets =>
             MovesTo(rd.id.status, secrets[rd.id.revision].status)
        /\ rd.at = "remember" => \E info \in Facts : rd.answer = {info} /\ Decoded(rd.id, info)
        /\ rd.at \in HistoryPoints => which = "history"
        /\ rd.at \in HistoryPoints \ {"history", "fullHistory"} =>
             \A r \in DOMAIN rd.rows : Seen(q, r, rd.rows[r])

Answering == DOMAIN reader = Readers /\ \A q \in Readers : Truthful(q)

ReadsInv ==
    /\ Releases(secrets) /\ Agreed /\ Answering /\ which \in {"release", "history"}
    /\ relCache # None => Decoded(relCache.id, relCache.info)

(* The newest revision is the last one.                                     *)
LEMMA NewestIsLast ==
  ASSUME NEW s, Releases(s)
  PROVE  /\ s = Reads!Empty <=> DOMAIN s = {}
         /\ DOMAIN s \subseteq Nat /\ \A r \in DOMAIN s : s[r] \in Reads!Secret
         /\ IF DOMAIN s = {} THEN Reads!Newest(s) = 0
            ELSE Reads!Newest(s) \in DOMAIN s /\ \A r \in DOMAIN s : r <= Reads!Newest(s)
<1>1. PICK D \in SUBSET Nat : s \in [D -> Reads!Secret]
  BY DEF Releases
<1>2. DOMAIN s \subseteq Nat
  BY <1>1
<1>3. s = Reads!Empty <=> DOMAIN s = {}
  BY <1>1 DEF Reads!Empty
<1>4. ASSUME DOMAIN s # {}
      PROVE  Reads!Newest(s) \in DOMAIN s /\ \A r \in DOMAIN s : r <= Reads!Newest(s)
  <2>1. PICK n \in DOMAIN s : \A r \in DOMAIN s : n >= r
    BY <1>2, <1>4 DEF Releases
  <2>2. Reads!Newest(s) = CHOOSE x \in DOMAIN s : \A y \in DOMAIN s : x >= y
    BY <1>3, <1>4 DEF Reads!Newest, Reads!Max
  <2>3. Reads!Newest(s) \in DOMAIN s /\ \A y \in DOMAIN s : Reads!Newest(s) >= y
    BY <2>1, <2>2
  <2> QED
    BY <1>2, <2>3
<1> QED
  BY <1>1, <1>2, <1>3, <1>4 DEF Reads!Newest

(* What is told of the releases are facts.                                  *)
LEMMA ToldIsTrue ==
  ASSUME NEW s, Releases(s)
  PROVE  /\ Reads!Told(s) \subseteq Facts
         /\ \A i \in Reads!Told(s) : i.rev \in DOMAIN s /\ s[i.rev].status = i.status /\ s[i.rev].chart = i.chart
         /\ \A r \in DOMAIN s : [rev |-> r, status |-> s[r].status, chart |-> s[r].chart] \in Reads!Told(s)
BY NewestIsLast DEF Reads!Told, Facts, Reads!Secret

(* A fact is given by its parts.                                            *)
LEMMA FactIs ==
  ASSUME NEW i \in Facts, NEW j \in Facts, i.rev = j.rev, i.status = j.status, i.chart = j.chart
  PROVE  i = j
BY DEF Facts

(* Helm moves the statuses on, writes above what there is, and forgets.     *)
LEMMA HelmChanges ==
  ASSUME ReadsInv, NEW s, Releases(s), Reads!Changed(s),
         \A r \in DOMAIN s \cap DOMAIN secrets :
            s[r].chart = secrets[r].chart /\ MovesTo(secrets[r].status, s[r].status),
         \A r \in DOMAIN s \ DOMAIN secrets : DOMAIN secrets # {} /\ \A x \in DOMAIN secrets : x < r,
         DOMAIN s # {} => \A n \in DOMAIN secrets : \E m \in DOMAIN s : n <= m
  PROVE  ReadsInv'
<1>1. /\ secrets' = s /\ UNCHANGED <<relCache, revCache, store, which>>
      /\ reader' = [q \in Readers |->
            IF reader[q].at = "idle" THEN reader[q]
            ELSE [reader[q] EXCEPT !.seen = @ \cup Reads!Told(s), !.newest = @ \cup {Reads!Newest(s)}]]
  BY DEF Reads!Changed, Reads!Witness
<1>2. \A q \in Readers : Truthful(q)
  BY DEF ReadsInv, Answering
<1>3. ASSUME NEW q \in Readers, reader[q].at = "idle"
      PROVE  reader'[q] = reader[q] /\ reader'[q].seen = {}
  BY <1>1, <1>2, <1>3 DEF Truthful
<1>4. ASSUME NEW q \in Readers, reader[q].at # "idle"
      PROVE  /\ DOMAIN reader'[q] = RequestParts
             /\ \A part \in RequestParts \ {"seen", "newest"} : reader'[q][part] = reader[q][part]
             /\ reader'[q].seen = reader[q].seen \cup Reads!Told(s)
             /\ reader'[q].newest = reader[q].newest \cup {Reads!Newest(s)}
  BY <1>1, <1>2, <1>4 DEF Truthful, RequestParts
<1>5. /\ DOMAIN secrets \subseteq Nat /\ DOMAIN s \subseteq Nat
      /\ \A i \in Reads!Told(s) :
           i \in Facts /\ i.rev \in DOMAIN s /\ s[i.rev].status = i.status /\ s[i.rev].chart = i.chart
  BY NewestIsLast, ToldIsTrue DEF ReadsInv
<1>6. \A q \in Readers : \A i \in reader'[q].seen : i \in reader[q].seen \/ i \in Reads!Told(s)
  BY <1>3, <1>4
<1>7. ASSUME NEW r, Below(r) PROVE Below(r)'
  <2>1. ASSUME DOMAIN s # {} PROVE \E m \in DOMAIN s : r <= m
    <3>1. DOMAIN secrets # {}
      BY <2>1
    <3>2. PICK n \in DOMAIN secrets : r <= n
      BY <3>1, <1>7 DEF Below
    <3>3. PICK m \in DOMAIN s : n <= m
      BY <2>1
    <3> QED
      BY <1>5, <1>7, <3>2, <3>3 DEF Below
  <2> QED
    BY <1>1, <1>7, <2>1 DEF Below
<1>8. ASSUME NEW r \in DOMAIN s PROVE Below(r)'
  <2>1. r \in Nat /\ r <= r
    BY <1>5
  <2> QED
    BY <1>1, <2>1 DEF Below
<1>9. \A r \in DOMAIN s \ DOMAIN secrets : ~Below(r)
  BY <1>5 DEF Below
<1>10. \A r, c : Said(r, c)' => Said(r, c) \/ (r \in DOMAIN s /\ s[r].chart = c)
  BY <1>1, <1>5, <1>6 DEF Said
<1>11. \A r \in DOMAIN s \cap DOMAIN secrets : Said(r, s[r].chart)
  BY DEF Said
<1>12. Agreed'
  <2>1. ASSUME NEW r, NEW c, NEW e, Said(r, c)', Said(r, e)' PROVE Below(r)' /\ c = e
    <3>1. CASE Said(r, c) /\ Said(r, e)
      BY <3>1, <1>7 DEF ReadsInv, Agreed
    <3>2. CASE r \in DOMAIN s
      BY <3>2, <2>1, <1>8, <1>9, <1>10, <1>11 DEF ReadsInv, Agreed
    <3> QED
      BY <2>1, <3>1, <3>2, <1>10
  <2> QED
    BY <2>1 DEF Agreed
<1>13. ASSUME NEW id, NEW info, Decoded(id, info) PROVE Decoded(id, info)'
  <2>1. info.rev \in DOMAIN s => info.rev \in DOMAIN secrets
    BY <1>13, <1>9 DEF Decoded
  <2>2. info.rev \in DOMAIN s =>
          MovesTo(info.status, s[info.rev].status) /\ s[info.rev].chart = info.chart
    BY <1>13, <2>1 DEF Decoded, MovesTo
  <2>3. ASSUME NEW i \in Reads!Told(s), i.rev = info.rev, i.status = id.status PROVE i = info
    <3>1. s[info.rev].status = id.status /\ i.chart = info.chart /\ info.rev \in DOMAIN s
      BY <2>2, <2>3, <1>5
    <3>2. info.status = id.status
      BY <1>13, <2>2, <3>1 DEF Decoded, MovesTo
    <3> QED
      BY <1>13, <1>5, <2>3, <3>1, <3>2, FactIs DEF Decoded
  <2>4. ASSUME NEW q \in Readers, NEW i \in reader'[q].seen, i.rev = info.rev, i.status = id.status
        PROVE  info \in reader'[q].seen
    <3>1. reader[q].at # "idle"
      BY <1>3, <2>4
    <3>2. CASE i \in reader[q].seen
      BY <3>1, <3>2, <1>4, <1>13, <2>4 DEF Decoded
    <3>3. CASE i \in Reads!Told(s)
      BY <2>3, <2>4, <3>3
    <3> QED
      BY <3>2, <3>3, <1>6
  <2> QED
    BY <1>1, <1>7, <1>13, <2>2, <2>4 DEF Decoded
<1>14. ASSUME NEW q \in Readers PROVE Truthful(q)'
  <2>1. CASE reader[q].at = "idle"
    BY <2>1, <1>2, <1>3 DEF Truthful, HistoryPoints
  <2>2. CASE reader[q].at # "idle"
    <3>1. \A r, st : Seen(q, r, st) =>
             \E c : [rev |-> r, status |-> st, chart |-> c] \in reader'[q].seen
      BY <2>2, <1>4 DEF Seen
    <3>2. /\ reader'[q].misled = FALSE /\ reader'[q].at # "idle"
          /\ reader'[q].at = reader[q].at /\ reader'[q].id = reader[q].id
          /\ reader'[q].answer = reader[q].answer /\ reader'[q].rows = reader[q].rows
      BY <2>2, <1>2, <1>4 DEF Truthful, RequestParts
    <3>3. /\ DOMAIN reader'[q] = RequestParts /\ reader'[q].seen \subseteq Facts
          /\ Reads!Told(s) \subseteq reader'[q].seen /\ Reads!Newest(s) \in reader'[q].newest
      BY <2>2, <1>2, <1>4, <1>5 DEF Truthful
    <3>4. reader'[q].at \in {"memo", "decode", "remember"} =>
             /\ reader'[q].id.revision \in reader'[q].newest
             /\ Seen(q, reader[q].id.revision, reader[q].id.status)'
      <4>1. reader[q].at \in {"memo", "decode", "remember"} =>
              /\ reader[q].id.revision \in reader[q].newest
              /\ Seen(q, reader[q].id.revision, reader[q].id.status)
        BY <1>2 DEF Truthful
      <4> QED
        BY <2>2, <1>4, <3>1, <3>2, <4>1 DEF Seen
    <3>5. reader[q].at \in {"memo", "decode"} /\ reader[q].id.revision \in DOMAIN s =>
             MovesTo(reader[q].id.status, s[reader[q].id.revision].status)
      <4> SUFFICES ASSUME reader[q].at \in {"memo", "decode"}, reader[q].id.revision \in DOMAIN s
                   PROVE  MovesTo(reader[q].id.status, s[reader[q].id.revision].status)
        OBVIOUS
      <4>1. Seen(q, reader[q].id.revision, reader[q].id.status)
        BY <1>2 DEF Truthful
      <4>2. PICK c : [rev |-> reader[q].id.revision, status |-> reader[q].id.status, chart |-> c]
                       \in reader[q].seen
        BY <4>1 DEF Seen
      <4>3. Said(reader[q].id.revision, c)
        BY <4>2 DEF Said
      <4>4. Below(reader[q].id.revision)
        BY <4>3 DEF ReadsInv, Agreed
      <4>5. reader[q].id.revision \in DOMAIN secrets
        BY <4>4, <1>9
      <4>6. MovesTo(reader[q].id.status, secrets[reader[q].id.revision].status)
        BY <4>5, <1>2 DEF Truthful
      <4> QED
        BY <4>5, <4>6 DEF MovesTo
    <3>6. ASSUME reader[q].at = "remember"
          PROVE  \E info \in Facts : reader'[q].answer = {info} /\ Decoded(reader[q].id, info)'
      <4>1. PICK id, info : /\ id = reader[q].id /\ info \in Facts
                            /\ reader[q].answer = {info} /\ Decoded(id, info)
        BY <1>2, <3>6 DEF Truthful
      <4>2. Decoded(id, info)'
        BY <4>1, <1>13
      <4> QED
        BY <3>2, <4>1, <4>2
    <3>7. reader[q].at \in HistoryPoints => which' = "history"
      BY <1>1, <1>2 DEF Truthful
    <3>8. reader[q].at \in HistoryPoints \ {"history", "fullHistory"} =>
             \A r \in DOMAIN reader'[q].rows :
               \E c : [rev |-> r, status |-> reader'[q].rows[r], chart |-> c] \in reader'[q].seen
      <4>1. reader[q].at \in HistoryPoints \ {"history", "fullHistory"} =>
              \A r \in DOMAIN reader[q].rows : Seen(q, r, reader[q].rows[r])
        BY <1>2 DEF Truthful
      <4> QED
        BY <3>1, <3>2, <4>1
    <3>9. Reads!Told(s) = Reads!Told(secrets)' /\ Reads!Newest(s) = Reads!Newest(secrets)'
      BY <1>1
    <3> QED
      BY <1>1, <3>2, <3>3, <3>4, <3>5, <3>6, <3>7, <3>8, <3>9 DEF Truthful, Seen
  <2> QED
    BY <2>1, <2>2
<1>15. Answering'
  BY <1>1, <1>14 DEF Answering
<1>16. ASSUME relCache' # None PROVE Decoded(relCache.id, relCache.info)'
  <2>1. PICK id, info : id = relCache.id /\ info = relCache.info
    OBVIOUS
  <2>2. Decoded(id, info)'
    BY <1>1, <1>13, <1>16, <2>1 DEF ReadsInv
  <2> QED
    BY <1>1, <2>1, <2>2
<1> QED
  BY <1>1, <1>12, <1>15, <1>16 DEF ReadsInv, Releases

(* Helm's five steps are such changes.                                      *)
LEMMA HelmSteps ==
  ASSUME ReadsInv,
         \/ \E c \in Charts : Reads!HelmBegins(c)
         \/ Reads!HelmForgets \/ Reads!HelmSupersedes \/ Reads!HelmEnds \/ Reads!Uninstall
  PROVE  ReadsInv'
<1>1. /\ DOMAIN secrets \subseteq Nat
      /\ \A r \in DOMAIN secrets : secrets[r] \in Reads!Secret
      /\ secrets = Reads!Empty <=> DOMAIN secrets = {}
      /\ IF DOMAIN secrets = {} THEN Reads!Newest(secrets) = 0
         ELSE Reads!Newest(secrets) \in DOMAIN secrets /\ \A r \in DOMAIN secrets : r <= Reads!Newest(secrets)
  BY NewestIsLast DEF ReadsInv
<1> DEFINE n == Reads!Newest(secrets)
<1>2. ASSUME NEW c \in Charts, Reads!HelmBegins(c) PROVE ReadsInv'
  <2> DEFINE s == [r \in DOMAIN secrets \cup {n + 1} |->
                     IF r = n + 1 THEN [status |-> "pending", chart |-> c] ELSE secrets[r]]
  <2>1. n \in 1..(MaxRevision - 1) /\ Reads!Changed(s)
    BY <1>2 DEF Reads!HelmBegins
  <2>2. n \in DOMAIN secrets /\ n \in Nat /\ \A r \in DOMAIN secrets : r < n + 1
    BY <1>1, <2>1
  <2>3. /\ DOMAIN s = DOMAIN secrets \cup {n + 1}
        /\ \A r \in DOMAIN secrets : s[r] = secrets[r]
        /\ s[n + 1] = [status |-> "pending", chart |-> c]
    BY <2>2
  <2> HIDE DEF s, n
  <2>4. \A r \in DOMAIN s : s[r] \in Reads!Secret
    BY <1>1, <2>3 DEF Reads!Secret, Reads!Statuses
  <2>5. s = [r \in DOMAIN s |-> s[r]]
    BY DEF s
  <2>6. DOMAIN s \in SUBSET Nat
    BY <1>1, <2>2, <2>3
  <2>7. s \in [DOMAIN s -> Reads!Secret]
    BY <2>4, <2>5
  <2>8. \A r \in DOMAIN s : r <= n + 1
    BY <1>1, <2>2, <2>3
  <2>9. Releases(s)
    BY <2>3, <2>6, <2>7, <2>8 DEF Releases
  <2> QED
    BY <1>1, <2>1, <2>2, <2>3, <2>8, <2>9, HelmChanges DEF MovesTo
<1>3. CASE Reads!HelmForgets
  <2>1. PICK r \in DOMAIN secrets \ {n} : Reads!Changed(Reads!Restrict(secrets, DOMAIN secrets \ {r}))
    BY <1>3 DEF Reads!HelmForgets
  <2> DEFINE s == Reads!Restrict(secrets, DOMAIN secrets \ {r})
  <2>2. s = [x \in DOMAIN secrets \ {r} |-> secrets[x]]
    BY DEF Reads!Restrict
  <2>3. n \in DOMAIN secrets /\ n # r /\ \A x \in DOMAIN secrets : x <= n
    BY <1>1, <2>1
  <2> HIDE DEF s, n
  <2>4. /\ DOMAIN s = DOMAIN secrets \ {r} /\ \A x \in DOMAIN s : s[x] = secrets[x]
        /\ s \in [DOMAIN s -> Reads!Secret]
    BY <1>1, <2>2
  <2>5. Releases(s)
    BY <1>1, <2>3, <2>4 DEF Releases
  <2>6. Reads!Changed(s)
    BY <2>1 DEF s
  <2> QED
    BY <1>1, <2>3, <2>4, <2>5, <2>6, HelmChanges DEF MovesTo
<1>4. CASE Reads!HelmSupersedes \/ Reads!HelmEnds
  <2>1. PICK r \in DOMAIN secrets, st \in Reads!Statuses :
          /\ Reads!Changed([secrets EXCEPT ![r].status = st])
          /\ MovesTo(secrets[r].status, st)
    <3>1. CASE Reads!HelmSupersedes
      BY <3>1 DEF Reads!HelmSupersedes, MovesTo, Reads!Statuses
    <3>2. CASE Reads!HelmEnds
      BY <1>1, <3>2 DEF Reads!HelmEnds, MovesTo, Reads!Statuses
    <3> QED
      BY <1>4, <3>1, <3>2
  <2> DEFINE s == [secrets EXCEPT ![r].status = st]
  <2>2. /\ DOMAIN s = DOMAIN secrets /\ s[r] = [status |-> st, chart |-> secrets[r].chart]
        /\ \A x \in DOMAIN secrets \ {r} : s[x] = secrets[x]
        /\ s \in [DOMAIN secrets -> Reads!Secret]
    BY <1>1 DEF Reads!Secret
  <2> HIDE DEF s
  <2>3. Releases(s)
    BY <1>1, <2>2 DEF ReadsInv, Releases
  <2>4. \A x \in DOMAIN secrets :
          s[x].chart = secrets[x].chart /\ MovesTo(secrets[x].status, s[x].status)
    BY <2>1, <2>2 DEF MovesTo
  <2>5. Reads!Changed(s) /\ \A x \in DOMAIN secrets : x <= x
    BY <1>1, <2>1 DEF s
  <2> QED
    BY <2>2, <2>3, <2>4, <2>5, HelmChanges
<1>5. CASE Reads!Uninstall
  <2>1. Reads!Changed(Reads!Empty) /\ DOMAIN Reads!Empty = {} /\ Reads!Empty \in [{} -> Reads!Secret]
    BY <1>5 DEF Reads!Uninstall, Reads!Empty
  <2>2. Releases(Reads!Empty)
    BY <2>1 DEF Releases
  <2> QED
    BY <2>1, <2>2, HelmChanges
<1> QED
  BY <1>2, <1>3, <1>4, <1>5

(* A request goes on, begins, or is over.                                   *)
Turns(q) ==
    /\ UNCHANGED <<secrets, which>> /\ DOMAIN reader' = Readers
    /\ \A p \in Readers \ {q} : reader'[p] = reader[p]
    /\ reader'[q].seen = {} \/ reader'[q].seen = reader[q].seen
       \/ reader'[q].seen = Reads!Told(secrets)

(* What was decoded stays so.                                               *)
LEMMA StaysDecoded ==
  ASSUME ReadsInv, NEW q \in Readers, Turns(q), NEW id, NEW info, Decoded(id, info)
  PROVE  Decoded(id, info)'
<1>1. ASSUME NEW i \in Reads!Told(secrets), i.rev = info.rev, i.status = id.status PROVE i = info
  <2>1. /\ i \in Facts /\ info.rev \in DOMAIN secrets
        /\ secrets[info.rev].status = id.status /\ i.chart = secrets[info.rev].chart
    BY <1>1, ToldIsTrue DEF ReadsInv
  <2>2. info.status = id.status /\ i.chart = info.chart /\ info \in Facts
    BY <2>1 DEF Decoded, MovesTo
  <2> QED
    BY <1>1, <2>1, <2>2, FactIs
<1>2. ASSUME NEW p \in Readers, NEW i \in reader'[p].seen, i.rev = info.rev, i.status = id.status
      PROVE  info \in reader'[p].seen
  <2>1. CASE p # q \/ reader'[q].seen = reader[q].seen
    BY <1>2, <2>1 DEF Turns, Decoded
  <2>2. CASE p = q /\ reader'[q].seen = Reads!Told(secrets)
    BY <1>1, <1>2, <2>2
  <2> QED
    BY <1>2, <2>1, <2>2 DEF Turns
<1> QED
  BY <1>2 DEF Turns, Decoded, Below

(* What is kept of it was known, and the request itself is told the truth.  *)
LEMMA RequestTurns ==
  ASSUME ReadsInv, NEW q \in Readers, Turns(q), Truthful(q)',
         \A r \in DOMAIN revCache' : Said(r, revCache'[r]),
         \A r \in DOMAIN store' : Said(r, store'[r]),
         relCache' = relCache \/ relCache' = None \/ Decoded(relCache.id, relCache.info)'
  PROVE  ReadsInv'
<1>1. /\ UNCHANGED <<secrets, which>> /\ DOMAIN reader' = Readers
      /\ \A p \in Readers \ {q} : reader'[p] = reader[p]
  BY DEF Turns
<1>2. ASSUME NEW p \in Readers, NEW i \in reader'[p].seen PROVE Said(i.rev, i.chart)
  <2>1. CASE i \in reader[p].seen
    BY <2>1 DEF Said
  <2>2. CASE i \in Reads!Told(secrets)
    BY <2>2, ToldIsTrue DEF ReadsInv, Said
  <2> QED
    BY <1>2, <2>1, <2>2 DEF Turns
<1>3. \A r, c : Said(r, c)' => Said(r, c)
  BY <1>1, <1>2 DEF Said
<1>4. Agreed'
  BY <1>1, <1>3 DEF ReadsInv, Agreed, Below
<1>5. ASSUME NEW p \in Readers \ {q} PROVE Truthful(p)'
  <2>1. reader'[p] = reader[p] /\ secrets' = secrets /\ which' = which /\ Truthful(p)
    BY <1>1 DEF ReadsInv, Answering
  <2>2. ASSUME reader[p].at = "remember"
        PROVE  \E info \in Facts : reader'[p].answer = {info} /\ Decoded(reader[p].id, info)'
    <3>1. PICK id, info : /\ id = reader[p].id /\ info \in Facts
                          /\ reader[p].answer = {info} /\ Decoded(id, info)
      BY <2>1, <2>2 DEF Truthful
    <3>2. Decoded(id, info)'
      BY <3>1, StaysDecoded
    <3> QED
      BY <2>1, <3>1, <3>2
  <2>3. Reads!Told(secrets)' = Reads!Told(secrets) /\ Reads!Newest(secrets)' = Reads!Newest(secrets)
    BY <1>1
  <2> QED
    BY <2>1, <2>2, <2>3 DEF Truthful, Seen
<1>6. Answering'
  BY <1>1, <1>5 DEF Answering
<1>7. relCache' # None => Decoded(relCache.id, relCache.info)'
  <2>1. CASE relCache' = relCache /\ relCache # None
    <3>1. PICK id, info : id = relCache.id /\ info = relCache.info
      OBVIOUS
    <3>2. Decoded(id, info)'
      BY <2>1, <3>1, StaysDecoded DEF ReadsInv
    <3> QED
      BY <2>1, <3>1, <3>2
  <2> QED
    BY <2>1
<1> QED
  BY <1>1, <1>4, <1>6, <1>7 DEF ReadsInv, Releases

(* A request begins by seeing what there is.                                *)
LEMMA ReadBegins == ASSUME ReadsInv, NEW q \in Readers, Reads!Begin(q) PROVE ReadsInv'
<1>1. /\ reader' = [reader EXCEPT ![q] = [Reads!Idle EXCEPT !.at = which,
                       !.seen = Reads!Told(secrets), !.newest = {Reads!Newest(secrets)}]]
      /\ UNCHANGED <<secrets, relCache, revCache, store, which>>
  BY DEF Reads!Begin, Reads!Put
<1>2. /\ DOMAIN reader'[q] = RequestParts /\ reader'[q].misled = FALSE
      /\ reader'[q].at = which /\ reader'[q].seen = Reads!Told(secrets)
      /\ reader'[q].newest = {Reads!Newest(secrets)}
  BY <1>1 DEF ReadsInv, Answering, Reads!Idle, RequestParts
<1>3. Reads!Told(secrets) \subseteq Facts
  BY ToldIsTrue DEF ReadsInv
<1>4. Reads!Told(secrets)' = Reads!Told(secrets) /\ Reads!Newest(secrets)' = Reads!Newest(secrets)
  BY <1>1
<1>5. Truthful(q)'
  BY <1>1, <1>2, <1>3, <1>4 DEF ReadsInv, Truthful, HistoryPoints
<1>6. Turns(q)
  BY <1>1, <1>2 DEF Turns, ReadsInv, Answering
<1> QED
  BY <1>1, <1>5, <1>6, RequestTurns DEF Said

(* A request gives an answer that is true.                                  *)
LEMMA ReadAnswers ==
  ASSUME ReadsInv, NEW q \in Readers, NEW a, Reads!Answer(q, a), a # None => Reads!Truly(q, a),
         UNCHANGED <<secrets, which, revCache, store>>,
         relCache' = relCache \/ Decoded(relCache.id, relCache.info)'
  PROVE  ReadsInv'
<1>1. (a # None /\ ~Reads!Truly(q, a)) = FALSE
  OBVIOUS
<1>2. reader' = [reader EXCEPT ![q] = [Reads!Idle EXCEPT !.misled = FALSE]]
  BY <1>1 DEF Reads!Answer, Reads!Put
<1>3. /\ DOMAIN reader'[q] = RequestParts /\ reader'[q].misled = FALSE
      /\ reader'[q].at = "idle" /\ reader'[q].seen = {}
  BY <1>2 DEF ReadsInv, Answering, Reads!Idle, RequestParts
<1>4. Truthful(q)' /\ Turns(q)
  BY <1>2, <1>3 DEF ReadsInv, Answering, Truthful, Turns, HistoryPoints
<1> QED
  BY <1>4, RequestTurns DEF Said

(* A request goes on to its next step, keeping what it has seen.            *)
LEMMA ReadGoes ==
  ASSUME ReadsInv, NEW q \in Readers, DOMAIN reader' = Readers, UNCHANGED <<secrets, which, relCache>>,
         \A p \in Readers \ {q} : reader'[p] = reader[p],
         DOMAIN reader'[q] = RequestParts, reader[q].at # "idle", reader'[q].at # "idle",
         reader'[q].misled = reader[q].misled, reader'[q].seen = reader[q].seen,
         reader'[q].newest = reader[q].newest,
         reader'[q].at \in {"memo", "decode", "remember"} =>
            /\ reader'[q].id.revision \in reader[q].newest
            /\ Seen(q, reader[q].id.revision, reader[q].id.status)',
         reader'[q].at \in {"memo", "decode"} /\ reader'[q].id.revision \in DOMAIN secrets =>
            MovesTo(reader'[q].id.status, secrets[reader'[q].id.revision].status),
         reader'[q].at = "remember" =>
            \E info \in Facts : reader'[q].answer = {info} /\ Decoded(reader[q].id, info)',
         reader'[q].at \in HistoryPoints => which = "history",
         reader'[q].at \in HistoryPoints \ {"history", "fullHistory"} =>
            \A r \in DOMAIN reader'[q].rows : Seen(q, r, reader[q].rows[r])',
         \A r \in DOMAIN revCache' : Said(r, revCache'[r]),
         \A r \in DOMAIN store' : Said(r, store'[r])
  PROVE  ReadsInv'
<1>1. /\ reader[q].misled = FALSE /\ reader[q].seen \subseteq Facts
      /\ Reads!Told(secrets) \subseteq reader[q].seen /\ Reads!Newest(secrets) \in reader[q].newest
  BY DEF ReadsInv, Answering, Truthful
<1>2. Reads!Told(secrets)' = Reads!Told(secrets) /\ Reads!Newest(secrets)' = Reads!Newest(secrets)
  OBVIOUS
<1>3. Truthful(q)'
  BY <1>1, <1>2 DEF Truthful
<1>4. Turns(q)
  BY DEF Turns
<1> QED
  BY <1>3, <1>4, RequestTurns

(* The probe names the newest revision.                                     *)
LEMMA ReleaseProbed == ASSUME ReadsInv, NEW q \in Readers, Reads!Probe(q) PROVE ReadsInv'
<1>0. /\ DOMAIN reader = Readers /\ Truthful(q) /\ reader[q].at = "release"
      /\ UNCHANGED <<secrets, which, relCache, revCache, store>>
  BY DEF ReadsInv, Answering, Reads!Probe, Reads!Cluster, Reads!NoCache
<1>1. CASE /\ secrets # Reads!Empty
           /\ reader' = [reader EXCEPT ![q] = [reader[q] EXCEPT !.at = "memo",
                            !.id = Reads!Identity(secrets, Reads!Newest(secrets))]]
  <2> DEFINE n == Reads!Newest(secrets)
  <2>1. n \in DOMAIN secrets
    BY <1>1, NewestIsLast DEF ReadsInv
  <2>2. [rev |-> n, status |-> secrets[n].status, chart |-> secrets[n].chart] \in reader[q].seen
    BY <1>0, <2>1, ToldIsTrue DEF ReadsInv, Truthful
  <2>3. n \in reader[q].newest
    BY <1>0 DEF Truthful
  <2> HIDE DEF n
  <2>4. reader' = [reader EXCEPT ![q] = [reader[q] EXCEPT !.at = "memo",
                      !.id = Reads!Identity(secrets, n)]]
    BY <1>1 DEF n
  <2>5. /\ DOMAIN reader' = Readers /\ \A p \in Readers \ {q} : reader'[p] = reader[p]
        /\ DOMAIN reader'[q] = RequestParts /\ reader'[q].at = "memo"
        /\ reader'[q].id.revision = n /\ reader'[q].id.status = secrets[n].status
        /\ reader'[q].misled = reader[q].misled /\ reader'[q].seen = reader[q].seen
        /\ reader'[q].newest = reader[q].newest
    BY <1>0, <2>4 DEF Truthful, RequestParts, Reads!Identity
  <2>6. Seen(q, reader[q].id.revision, reader[q].id.status)'
    <3>1. reader'[q].id.revision = n /\ reader'[q].id.status = secrets[n].status
      BY <2>5
    <3> QED
      BY <2>2, <2>5, <3>1 DEF Seen
  <2> QED
    BY <1>0, <2>3, <2>5, <2>6, ReadGoes DEF HistoryPoints, MovesTo, Said
<1>2. CASE reader' = [reader EXCEPT ![q] = [reader[q] EXCEPT !.at = "fullRelease"]]
  <2>1. /\ DOMAIN reader' = Readers /\ \A p \in Readers \ {q} : reader'[p] = reader[p]
        /\ DOMAIN reader'[q] = RequestParts /\ reader'[q].at = "fullRelease"
        /\ reader'[q].misled = reader[q].misled /\ reader'[q].seen = reader[q].seen
        /\ reader'[q].newest = reader[q].newest
    BY <1>0, <1>2 DEF Truthful, RequestParts
  <2> QED
    BY <1>0, <2>1, ReadGoes DEF HistoryPoints, Said
<1> QED
  BY <1>1, <1>2 DEF Reads!Probe, Reads!Put

(* Who saw the identity saw the release.                                    *)
LEMMA DecodedIsTrue ==
  ASSUME ReadsInv, NEW q \in Readers, reader[q].at \in {"memo", "remember"},
         NEW info, Decoded(reader[q].id, info)
  PROVE  Reads!Truly(q, {info})
<1>1. Truthful(q)
  BY DEF ReadsInv, Answering
<1>2. /\ reader[q].id.revision \in reader[q].newest
      /\ \E c : [rev |-> reader[q].id.revision, status |-> reader[q].id.status, chart |-> c]
                   \in reader[q].seen
  BY <1>1 DEF Truthful, Seen
<1>3. info \in reader[q].seen /\ info.rev \in reader[q].newest
  BY <1>2 DEF Decoded
<1> QED
  BY <1>3 DEF Reads!Truly

(* The memo answers, or the revision is decoded.                            *)
LEMMA MemoAnswers == ASSUME ReadsInv, NEW q \in Readers, Reads!Memo(q) PROVE ReadsInv'
<1>0. /\ DOMAIN reader = Readers /\ Truthful(q) /\ reader[q].at = "memo"
      /\ UNCHANGED <<secrets, which, relCache, revCache, store>>
  BY DEF ReadsInv, Answering, Reads!Memo, Reads!Cluster, Reads!NoCache
<1>1. CASE /\ relCache # None /\ relCache.id = reader[q].id /\ Reads!Answer(q, {relCache.info})
  BY <1>0, <1>1, DecodedIsTrue, ReadAnswers DEF ReadsInv
<1>2. CASE reader' = [reader EXCEPT ![q] = [reader[q] EXCEPT !.at = "decode"]]
  <2>1. /\ DOMAIN reader' = Readers /\ \A p \in Readers \ {q} : reader'[p] = reader[p]
        /\ DOMAIN reader'[q] = RequestParts /\ reader'[q].at = "decode"
        /\ reader'[q].id = reader[q].id
        /\ reader'[q].misled = reader[q].misled /\ reader'[q].seen = reader[q].seen
        /\ reader'[q].newest = reader[q].newest
    BY <1>0, <1>2 DEF Truthful, RequestParts
  <2>2. reader[q].id.revision \in reader[q].newest /\ Seen(q, reader[q].id.revision, reader[q].id.status)'
    BY <1>0, <2>1 DEF Truthful, Seen
  <2>3. reader[q].id.revision \in DOMAIN secrets =>
          MovesTo(reader[q].id.status, secrets[reader[q].id.revision].status)
    BY <1>0 DEF Truthful
  <2> QED
    BY <1>0, <2>1, <2>2, <2>3, ReadGoes DEF HistoryPoints, Said
<1> QED
  BY <1>1, <1>2 DEF Reads!Memo, Reads!Put

(* What is decoded now, every open request has seen.                        *)
LEMMA Decodes == ASSUME ReadsInv, NEW q \in Readers, Reads!Decode(q) PROVE ReadsInv'
<1>0. /\ DOMAIN reader = Readers /\ Truthful(q) /\ reader[q].at = "decode"
      /\ UNCHANGED <<secrets, which, relCache, revCache, store>>
  BY DEF ReadsInv, Answering, Reads!Decode, Reads!Cluster, Reads!NoCache
<1> PICK id : id = reader[q].id
  OBVIOUS
<1> PICK r : r = id.revision
  OBVIOUS
<1>1. CASE /\ r \in DOMAIN secrets
           /\ LET info == [rev |-> r, status |-> secrets[r].status, chart |-> secrets[r].chart]
              IN  reader' = [reader EXCEPT ![q] = [reader[q] EXCEPT !.at = "remember", !.answer = {info}]]
  <2> PICK info : info = [rev |-> r, status |-> secrets[r].status, chart |-> secrets[r].chart]
    OBVIOUS
  <2>1. info \in Reads!Told(secrets) /\ info \in Facts
    BY <1>1, ToldIsTrue DEF ReadsInv
  <2>2. Below(r)
    BY <1>1 DEF ReadsInv, Agreed, Said
  <2>3. MovesTo(id.status, secrets[r].status)
    BY <1>0, <1>1 DEF Truthful
  <2>4. \A p \in Readers : reader[p].seen = {} \/ info \in reader[p].seen
    BY <2>1 DEF ReadsInv, Answering, Truthful
  <2>5. Decoded(id, info)
    BY <2>1, <2>2, <2>3, <2>4 DEF Decoded, MovesTo
  <2>6. /\ DOMAIN reader' = Readers /\ \A p \in Readers \ {q} : reader'[p] = reader[p]
        /\ DOMAIN reader'[q] = RequestParts /\ reader'[q].at = "remember"
        /\ reader'[q].id = id /\ reader'[q].answer = {info}
        /\ reader'[q].misled = reader[q].misled /\ reader'[q].seen = reader[q].seen
        /\ reader'[q].newest = reader[q].newest
    BY <1>0, <1>1 DEF Truthful, RequestParts
  <2>7. reader[q].id.revision \in reader[q].newest /\ Seen(q, reader[q].id.revision, reader[q].id.status)'
    BY <1>0, <2>6 DEF Truthful, Seen
  <2>8. Decoded(id, info)'
    BY <1>0, <2>5, <2>6, StaysDecoded DEF Turns
  <2>9. \E i \in Facts : reader'[q].answer = {i} /\ Decoded(reader[q].id, i)'
    BY <2>1, <2>6, <2>8
  <2> QED
    BY <1>0, <2>6, <2>7, <2>9, ReadGoes DEF HistoryPoints, Said
<1>2. CASE reader' = [reader EXCEPT ![q] = [reader[q] EXCEPT !.at = "fullRelease"]]
  <2>1. /\ DOMAIN reader' = Readers /\ \A p \in Readers \ {q} : reader'[p] = reader[p]
        /\ DOMAIN reader'[q] = RequestParts /\ reader'[q].at = "fullRelease"
        /\ reader'[q].misled = reader[q].misled /\ reader'[q].seen = reader[q].seen
        /\ reader'[q].newest = reader[q].newest
    BY <1>0, <1>2 DEF Truthful, RequestParts
  <2> QED
    BY <1>0, <2>1, ReadGoes DEF HistoryPoints, Said
<1> QED
  BY <1>1, <1>2 DEF Reads!Decode, Reads!Put

(* It is remembered under what the probe saw, and is the answer.            *)
LEMMA Remembers == ASSUME ReadsInv, NEW q \in Readers, Reads!Remember(q) PROVE ReadsInv'
<1>0. /\ DOMAIN reader = Readers /\ Truthful(q) /\ reader[q].at = "remember"
      /\ UNCHANGED <<secrets, which, revCache, store>> /\ Reads!Answer(q, reader[q].answer)
  BY DEF ReadsInv, Answering, Reads!Remember, Reads!Cluster
<1>1. PICK id, info : /\ id = reader[q].id /\ info \in Facts
                      /\ reader[q].answer = {info} /\ Decoded(id, info)
  BY <1>0 DEF Truthful
<1>2. relCache' = [id |-> id, info |-> info]
  BY <1>1 DEF Reads!Remember
<1>3. Turns(q)
  <2>1. reader' = [reader EXCEPT ![q] = reader'[q]] /\ reader'[q].seen = {}
    BY <1>0 DEF Reads!Answer, Reads!Put, Reads!Idle
  <2> QED
    BY <1>0, <2>1 DEF Turns
<1>4. Decoded(id, info)'
  BY <1>1, <1>3, StaysDecoded
<1>5. relCache'.id = id /\ relCache'.info = info
  BY <1>2
<1>6. Decoded(relCache.id, relCache.info)'
  BY <1>4, <1>5
<1> QED
  BY <1>0, <1>1, <1>6, DecodedIsTrue, ReadAnswers

(* The whole read returns the newest revision, or nothing.                  *)
LEMMA ReadsAll == ASSUME ReadsInv, NEW q \in Readers, Reads!FullRelease(q) PROVE ReadsInv'
<1> DEFINE n == Reads!Newest(secrets)
           i == [rev |-> n, status |-> secrets[n].status, chart |-> secrets[n].chart]
<1>0. /\ Truthful(q) /\ reader[q].at = "fullRelease" /\ UNCHANGED <<secrets, which, relCache, revCache, store>>
  BY DEF ReadsInv, Answering, Reads!FullRelease, Reads!Cluster, Reads!NoCache
<1>1. n # 0 => n \in DOMAIN secrets /\ n \in reader[q].newest
  BY <1>0, NewestIsLast DEF ReadsInv, Truthful
<1>2. n # 0 => i \in reader[q].seen
  BY <1>0, <1>1, ToldIsTrue DEF ReadsInv, Truthful
<1>3. n # 0 => Reads!Truly(q, {i})
  BY <1>1, <1>2 DEF Reads!Truly
<1>4. Reads!Answer(q, None) \/ (n # 0 /\ Reads!Answer(q, {i}))
  BY DEF Reads!FullRelease
<1> HIDE DEF i, n
<1> QED
  BY <1>0, <1>3, <1>4, ReadAnswers

(* The memo is forgotten, or nothing happens.                               *)
LEMMA Forgets == ASSUME ReadsInv, Reads!Invalidate \/ UNCHANGED Reads!vars PROVE ReadsInv'
<1>1. relCache' \in {None, relCache} /\ UNCHANGED <<secrets, which, revCache, store, reader>>
  BY DEF Reads!Invalidate, Reads!Cluster, Reads!vars
<1>2. Agreed' /\ Releases(secrets)'
  BY <1>1 DEF ReadsInv, Agreed, Said, Below, Releases
<1>3. Reads!Told(secrets)' = Reads!Told(secrets) /\ Reads!Newest(secrets)' = Reads!Newest(secrets)
  BY <1>1
<1>5. \A id, info : Decoded(id, info) => Decoded(id, info)'
  BY <1>1 DEF Decoded, Below
<1>6. ASSUME NEW q \in Readers PROVE Truthful(q)'
  <2>1. Truthful(q)
    BY DEF ReadsInv, Answering
  <2>2. ASSUME reader[q].at = "remember"
        PROVE  \E info \in Facts : reader[q].answer = {info} /\ Decoded(reader[q].id, info)'
    <3>1. PICK id, info : /\ id = reader[q].id /\ info \in Facts
                          /\ reader[q].answer = {info} /\ Decoded(id, info)
      BY <2>1, <2>2 DEF Truthful
    <3>2. Decoded(id, info)'
      BY <3>1, <1>5
    <3> QED
      BY <1>1, <3>1, <3>2
  <2> QED
    BY <1>1, <1>3, <2>1, <2>2 DEF Truthful, Seen
<1>4. Answering'
  BY <1>1, <1>6 DEF ReadsInv, Answering
<1>7. ASSUME relCache' # None PROVE Decoded(relCache.id, relCache.info)'
  <2>1. PICK id, info : id = relCache.id /\ info = relCache.info
    OBVIOUS
  <2>2. Decoded(id, info)'
    BY <1>1, <1>5, <1>7, <2>1 DEF ReadsInv
  <2> QED
    BY <1>1, <1>7, <2>1, <2>2
<1> QED
  BY <1>1, <1>2, <1>4, <1>7 DEF ReadsInv

(* The labels that are listed make the rows.                                *)
LEMMA Lists == ASSUME ReadsInv, NEW q \in Readers, Reads!List(q) PROVE ReadsInv'
<1>0. /\ DOMAIN reader = Readers /\ Truthful(q) /\ reader[q].at = "history"
      /\ UNCHANGED <<secrets, which, relCache, revCache, store>>
  BY DEF ReadsInv, Answering, Reads!List, Reads!Cluster, Reads!NoCache
<1>1. ASSUME NEW top \in SUBSET DOMAIN secrets,
             reader' = [reader EXCEPT ![q] = [reader[q] EXCEPT !.at = "prune",
                           !.listed = DOMAIN secrets, !.rows = [r \in top |-> secrets[r].status]]]
      PROVE  ReadsInv'
  <2>1. /\ DOMAIN reader' = Readers /\ \A p \in Readers \ {q} : reader'[p] = reader[p]
        /\ DOMAIN reader'[q] = RequestParts /\ reader'[q].at = "prune"
        /\ reader'[q].rows = [r \in top |-> secrets[r].status]
        /\ reader'[q].misled = reader[q].misled /\ reader'[q].seen = reader[q].seen
        /\ reader'[q].newest = reader[q].newest
    BY <1>0, <1>1 DEF Truthful, RequestParts
  <2>2. \A r \in DOMAIN secrets :
          [rev |-> r, status |-> secrets[r].status, chart |-> secrets[r].chart] \in reader[q].seen
    BY <1>0, ToldIsTrue DEF ReadsInv, Truthful
  <2>3. \A r \in DOMAIN reader'[q].rows : r \in DOMAIN secrets /\ reader'[q].rows[r] = secrets[r].status
    BY <2>1
  <2>4. \A r \in DOMAIN reader'[q].rows : Seen(q, r, reader[q].rows[r])'
    BY <2>1, <2>2, <2>3 DEF Seen
  <2>5. which = "history"
    BY <1>0 DEF Truthful, HistoryPoints
  <2> QED
    BY <1>0, <2>1, <2>4, <2>5, ReadGoes DEF Said
<1>2. CASE reader' = [reader EXCEPT ![q] = [reader[q] EXCEPT !.at = "fullHistory"]]
  <2>1. /\ DOMAIN reader' = Readers /\ \A p \in Readers \ {q} : reader'[p] = reader[p]
        /\ DOMAIN reader'[q] = RequestParts /\ reader'[q].at = "fullHistory"
        /\ reader'[q].misled = reader[q].misled /\ reader'[q].seen = reader[q].seen
        /\ reader'[q].newest = reader[q].newest /\ which = "history"
    BY <1>0, <1>2 DEF Truthful, RequestParts, HistoryPoints
  <2> QED
    BY <1>0, <2>1, ReadGoes DEF Said
<1>3. \/ reader' = [reader EXCEPT ![q] = [reader[q] EXCEPT !.at = "fullHistory"]]
      \/ \E top \in SUBSET DOMAIN secrets :
           reader' = [reader EXCEPT ![q] = [reader[q] EXCEPT !.at = "prune",
                         !.listed = DOMAIN secrets, !.rows = [r \in top |-> secrets[r].status]]]
  BY <1>0 DEF Reads!List, Reads!Put
<1> QED
  BY <1>1, <1>2, <1>3

(* A step that leaves a request its rows and its witnesses.                 *)
KeepsRows(q, next) ==
    /\ DOMAIN reader' = Readers /\ \A p \in Readers \ {q} : reader'[p] = reader[p]
    /\ DOMAIN reader'[q] = RequestParts /\ reader'[q].at = next
    /\ reader'[q].rows = reader[q].rows
    /\ reader'[q].misled = reader[q].misled /\ reader'[q].seen = reader[q].seen
    /\ reader'[q].newest = reader[q].newest

(* The rows stay as they were listed while their charts are looked up.      *)
LEMMA RowsStay ==
  ASSUME ReadsInv, NEW q \in Readers, UNCHANGED <<secrets, which, relCache>>,
         reader[q].at \in HistoryPoints \ {"history", "fullHistory"},
         NEW next \in HistoryPoints \ {"history"}, KeepsRows(q, next),
         \A r \in DOMAIN revCache' : Said(r, revCache'[r]),
         \A r \in DOMAIN store' : Said(r, store'[r])
  PROVE  ReadsInv'
<1>0. DOMAIN reader = Readers /\ Truthful(q)
  BY DEF ReadsInv, Answering
<1>1. /\ DOMAIN reader' = Readers /\ \A p \in Readers \ {q} : reader'[p] = reader[p]
      /\ DOMAIN reader'[q] = RequestParts /\ reader'[q].at = next
      /\ reader'[q].rows = reader[q].rows
      /\ reader'[q].misled = reader[q].misled /\ reader'[q].seen = reader[q].seen
      /\ reader'[q].newest = reader[q].newest
  BY DEF KeepsRows
<1>2. \A r \in DOMAIN reader'[q].rows : Seen(q, r, reader[q].rows[r])'
  BY <1>0, <1>1 DEF Truthful, Seen
<1>3. which = "history" /\ reader[q].at # "idle" /\ next \notin {"idle", "memo", "decode", "remember"}
  BY <1>0 DEF Truthful, HistoryPoints
<1> QED
  BY <1>1, <1>2, <1>3, ReadGoes

(* A step that only moves a request on, and what it listed or misses.       *)
LEMMA PlaceGoes ==
  ASSUME ReadsInv, NEW q \in Readers, NEW next,
         \/ reader' = [reader EXCEPT ![q] = [reader[q] EXCEPT !.at = next]]
         \/ \E m : reader' = [reader EXCEPT ![q] = [reader[q] EXCEPT !.at = next, !.missing = m]]
         \/ \E l : reader' = [reader EXCEPT ![q] = [reader[q] EXCEPT !.at = next, !.listed = l]]
  PROVE  KeepsRows(q, next)
<1>0. DOMAIN reader = Readers /\ DOMAIN reader[q] = RequestParts
  BY DEF ReadsInv, Answering, Truthful
<1>1. CASE reader' = [reader EXCEPT ![q] = [reader[q] EXCEPT !.at = next]]
  BY <1>0, <1>1 DEF KeepsRows, RequestParts
<1>2. CASE \E m : reader' = [reader EXCEPT ![q] = [reader[q] EXCEPT !.at = next, !.missing = m]]
  BY <1>0, <1>2 DEF KeepsRows, RequestParts
<1>3. CASE \E l : reader' = [reader EXCEPT ![q] = [reader[q] EXCEPT !.at = next, !.listed = l]]
  BY <1>0, <1>3 DEF KeepsRows, RequestParts
<1> QED
  BY <1>1, <1>2, <1>3

(* The facts that are kept in memory and in the table are looked up ...     *)
LEMMA LooksUp ==
  ASSUME ReadsInv, NEW q \in Readers, Reads!Prune(q) \/ Reads!Load(q)
  PROVE  ReadsInv'
<1>0. Truthful(q) /\ UNCHANGED <<secrets, which, relCache, store>>
  BY DEF ReadsInv, Answering, Reads!Prune, Reads!Load, Reads!Cluster
<1>1. (\A r \in DOMAIN revCache : Said(r, revCache[r])) /\ (\A r \in DOMAIN store : Said(r, store[r]))
  BY DEF Said
<1>2. CASE Reads!Prune(q)
  <2>1. /\ reader[q].at = "prune"
        /\ reader' = [reader EXCEPT ![q] = [reader[q] EXCEPT !.at = "load", !.listed = {}]]
        /\ revCache' = [r \in DOMAIN revCache \cap reader[q].listed |-> revCache[r]]
    BY <1>2 DEF Reads!Prune, Reads!Put, Reads!Restrict
  <2>2. \A r \in DOMAIN revCache' : Said(r, revCache'[r])
    BY <1>1, <2>1
  <2>3. KeepsRows(q, "load")
    BY <2>1, PlaceGoes
  <2> QED
    BY <1>0, <1>1, <2>1, <2>2, <2>3, RowsStay DEF HistoryPoints
<1>3. CASE Reads!Load(q)
  <2>1. /\ reader[q].at = "load"
        /\ \E m : reader' = [reader EXCEPT ![q] = [reader[q] EXCEPT !.at = "fill", !.missing = m]]
        /\ \/ UNCHANGED revCache
           \/ revCache' = [r \in DOMAIN revCache \cup DOMAIN store |->
                             IF r \in DOMAIN store THEN store[r] ELSE revCache[r]]
    BY <1>3 DEF Reads!Load, Reads!Put
  <2>2. \A r \in DOMAIN revCache' : Said(r, revCache'[r])
    BY <1>1, <2>1
  <2>3. KeepsRows(q, "fill")
    BY <2>1, PlaceGoes
  <2> QED
    BY <1>0, <1>1, <2>1, <2>2, <2>3, RowsStay DEF HistoryPoints
<1> QED
  BY <1>2, <1>3

(* ... and what is missing is decoded and kept.                             *)
LEMMA Fills ==
  ASSUME ReadsInv, NEW q \in Readers, Reads!Fill(q) \/ Reads!Persist(q)
  PROVE  ReadsInv'
<1>0. Truthful(q) /\ DOMAIN reader = Readers /\ UNCHANGED <<secrets, which, relCache>>
  BY DEF ReadsInv, Answering, Reads!Fill, Reads!Persist, Reads!Cluster
<1>1. /\ \A r \in DOMAIN revCache : Said(r, revCache[r])
      /\ \A r \in DOMAIN store : Said(r, store[r])
      /\ \A r \in DOMAIN secrets : Said(r, secrets[r].chart)
  BY DEF Said
<1>2. CASE Reads!Fill(q)
  <2>1. reader[q].at = "fill" /\ UNCHANGED store
    BY <1>2 DEF Reads!Fill
  <2>2. CASE /\ UNCHANGED revCache
             /\ \E next \in {"rows", "persist", "fullHistory"} :
                  reader' = [reader EXCEPT ![q] = [reader[q] EXCEPT !.at = next]]
    <3>1. PICK next \in {"rows", "persist", "fullHistory"} :
            reader' = [reader EXCEPT ![q] = [reader[q] EXCEPT !.at = next]]
      BY <2>2
    <3>2. KeepsRows(q, next)
      BY <3>1, PlaceGoes
    <3> QED
      BY <1>0, <1>1, <2>1, <2>2, <3>2, RowsStay DEF HistoryPoints
  <2>3. CASE /\ UNCHANGED reader
             /\ \E r \in DOMAIN secrets : revCache' = [x \in DOMAIN revCache \cup {r} |->
                                 IF x = r THEN secrets[r].chart ELSE revCache[x]]
    <3>1. \A r \in DOMAIN revCache' : Said(r, revCache'[r])
      BY <1>1, <2>3
    <3>2. KeepsRows(q, "fill")
      BY <1>0, <2>1, <2>3 DEF KeepsRows, Truthful
    <3> QED
      BY <1>0, <1>1, <2>1, <3>1, <3>2, RowsStay DEF HistoryPoints
  <2> QED
    BY <1>2, <2>2, <2>3 DEF Reads!Fill, Reads!Put
<1>3. CASE Reads!Persist(q)
  <2>1. /\ reader[q].at = "persist" /\ UNCHANGED revCache
        /\ reader' = [reader EXCEPT ![q] = [reader[q] EXCEPT !.at = "rows", !.missing = {}]]
        /\ \/ UNCHANGED store
           \/ store' = [r \in DOMAIN store \cup (reader[q].missing \cap DOMAIN revCache) |->
                          IF r \in DOMAIN store THEN store[r] ELSE revCache[r]]
    BY <1>3 DEF Reads!Persist, Reads!Put
  <2>2. \A r \in DOMAIN store' : Said(r, store'[r])
    BY <1>1, <2>1
  <2>3. KeepsRows(q, "rows")
    BY <2>1, PlaceGoes
  <2> QED
    BY <1>0, <1>1, <2>1, <2>2, <2>3, RowsStay DEF HistoryPoints
<1> QED
  BY <1>2, <1>3

(* The rows get the charts that are known of them.                          *)
LEMMA RowsAnswer ==
  ASSUME ReadsInv, NEW q \in Readers, Reads!Rows(q) \/ Reads!FullHistory(q)
  PROVE  ReadsInv'
<1>0. /\ Truthful(q) /\ UNCHANGED <<secrets, which, relCache, revCache, store>>
      /\ \A r \in DOMAIN revCache : Said(r, revCache[r])
      /\ \A r \in DOMAIN store : Said(r, store[r])
  BY DEF ReadsInv, Answering, Reads!Rows, Reads!FullHistory, Reads!Cluster, Reads!NoCache, Said
<1>4. reader[q].at \in HistoryPoints /\ which = "history"
  BY <1>0 DEF Reads!Rows, Reads!FullHistory, Truthful, HistoryPoints
<1>1. CASE Reads!Rows(q)
  <2> DEFINE a == {[rev |-> r, status |-> reader[q].rows[r], chart |-> revCache[r]] :
                     r \in DOMAIN reader[q].rows}
  <2>0. reader[q].at = "rows"
    BY <1>1 DEF Reads!Rows
  <2>1. CASE DOMAIN reader[q].rows \subseteq DOMAIN revCache /\ Reads!Answer(q, a)
    <3>1. ASSUME NEW r \in DOMAIN reader[q].rows
          PROVE  [rev |-> r, status |-> reader[q].rows[r], chart |-> revCache[r]] \in reader[q].seen
      <4>1. PICK c : [rev |-> r, status |-> reader[q].rows[r], chart |-> c] \in reader[q].seen
        BY <1>0, <2>0, <3>1 DEF Truthful, HistoryPoints, Seen
      <4>2. Said(r, c)
        BY <4>1 DEF Said
      <4>3. Said(r, revCache[r])
        BY <1>0, <2>1
      <4> QED
        BY <4>1, <4>2, <4>3 DEF ReadsInv, Agreed
    <3>2. a \subseteq reader[q].seen
      BY <3>1
    <3> HIDE DEF a
    <3>3. Reads!Truly(q, a)
      BY <1>4, <3>2 DEF Reads!Truly
    <3> QED
      BY <1>0, <2>1, <3>3, ReadAnswers
  <2>2. CASE reader' = [reader EXCEPT ![q] = [reader[q] EXCEPT !.at = "fullHistory"]]
    <3>1. KeepsRows(q, "fullHistory")
      BY <2>2, PlaceGoes
    <3> QED
      BY <1>0, <2>0, <3>1, RowsStay DEF HistoryPoints
  <2> QED
    BY <1>1, <2>1, <2>2 DEF Reads!Rows, Reads!Lacking, Reads!Put
<1>2. CASE Reads!FullHistory(q)
  <2>1. Reads!Answer(q, None) \/ Reads!Answer(q, Reads!Told(secrets))
    BY <1>2 DEF Reads!FullHistory
  <2>2. Reads!Truly(q, Reads!Told(secrets))
    <3>1. reader[q].at # "idle"
      BY <1>4 DEF HistoryPoints
    <3> QED
      BY <1>0, <1>4, <3>1 DEF Truthful, Reads!Truly
  <2> QED
    BY <1>0, <2>1, <2>2, ReadAnswers
<1> QED
  BY <1>1, <1>2

(* Memory goes, the table stays.                                            *)
LEMMA MemoryGoes == ASSUME ReadsInv, Reads!Restart PROVE ReadsInv'
<1>1. /\ relCache' = None /\ revCache' = Reads!Empty /\ reader' = [q \in Readers |-> Reads!Idle]
      /\ UNCHANGED <<secrets, which, store>>
  BY DEF Reads!Restart, Reads!Cluster
<1>2. /\ DOMAIN Reads!Idle = RequestParts /\ Reads!Idle.misled = FALSE
      /\ Reads!Idle.at = "idle" /\ Reads!Idle.seen = {}
  BY DEF Reads!Idle, RequestParts
<1>3. DOMAIN revCache' = {}
  BY <1>1 DEF Reads!Empty
<1>4. \A r, c : Said(r, c)' => Said(r, c)
  BY <1>1, <1>2, <1>3 DEF Said
<1>5. Agreed' /\ Releases(secrets)'
  BY <1>1, <1>4 DEF ReadsInv, Agreed, Below, Releases
<1>6. Answering'
  BY <1>1, <1>2 DEF Answering, Truthful, HistoryPoints
<1> QED
  BY <1>1, <1>5, <1>6 DEF ReadsInv

(* What a request is told of a revision was so at some moment since it      *)
(* began, and the release it is shown was the newest one: the memoised      *)
(* release and the facts of old revisions in memory and in the database; as *)
(* long as the release was not installed again under its name.              *)
THEOREM ReadsAreSo == Reads!Spec => []Reads!ReadsAreTrueOfOne
<1>1. Reads!Init => again \/ ReadsInv
  <2> SUFFICES ASSUME Reads!Init PROVE ReadsInv
    OBVIOUS
  <2>1. PICK c \in Charts : secrets = [r \in {1} |-> [status |-> "deployed", chart |-> c]]
    BY DEF Reads!Init
  <2>2. DOMAIN secrets = {1} /\ secrets[1].chart = c
    BY <2>1
  <2>3. /\ relCache = None /\ DOMAIN revCache = {} /\ DOMAIN store = {}
        /\ reader = [q \in Readers |-> Reads!Idle] /\ which \in {"release", "history"}
    BY DEF Reads!Init, Reads!Empty
  <2>4. /\ DOMAIN Reads!Idle = RequestParts /\ Reads!Idle.misled = FALSE
        /\ Reads!Idle.at = "idle" /\ Reads!Idle.seen = {}
    BY DEF Reads!Idle, RequestParts
  <2>5. secrets \in [{1} -> Reads!Secret]
    BY <2>1 DEF Reads!Secret, Reads!Statuses
  <2>6. Releases(secrets)
    BY <2>2, <2>5 DEF Releases
  <2>7. Agreed
    BY <2>2, <2>3, <2>4 DEF Agreed, Said, Below
  <2>8. Answering
    BY <2>3, <2>4 DEF Answering, Truthful, HistoryPoints
  <2> QED
    BY <2>3, <2>6, <2>7, <2>8 DEF ReadsInv
<1>2. (again \/ ReadsInv) /\ [Reads!Next]_Reads!vars => (again \/ ReadsInv)'
  <2> SUFFICES ASSUME again \/ ReadsInv, [Reads!Next]_Reads!vars PROVE (again \/ ReadsInv)'
    OBVIOUS
  <2>1. CASE again
    BY <2>1 DEF Reads!Next, Reads!vars, Reads!Cluster, Reads!Changed, Reads!HelmBegins, Reads!HelmForgets,
       Reads!HelmSupersedes, Reads!HelmEnds, Reads!Uninstall, Reads!Install, Reads!Begin, Reads!Probe,
       Reads!Memo, Reads!Decode, Reads!Remember, Reads!FullRelease, Reads!Invalidate, Reads!List,
       Reads!Prune, Reads!Load, Reads!Fill, Reads!Persist, Reads!Rows, Reads!FullHistory, Reads!Restart
  <2>2. CASE ReadsInv
    <3>1. ASSUME NEW c \in Charts, Reads!Install(c) PROVE again'
      BY <3>1 DEF Reads!Install
    <3> QED
      BY <2>2, <3>1, HelmSteps, ReadBegins, ReleaseProbed, MemoAnswers, Decodes, Remembers, ReadsAll,
         Lists, LooksUp, Fills, RowsAnswer, Forgets, MemoryGoes DEF Reads!Next
  <2> QED
    BY <2>1, <2>2
<1>3. (again \/ ReadsInv) => Reads!ReadsAreTrueOfOne
  BY DEF ReadsInv, Answering, Truthful, Reads!ReadsAreTrue, Reads!ReadsAreTrueOfOne
<1> QED
  BY <1>1, <1>2, <1>3, PTL DEF Reads!Spec
=============================================================================
