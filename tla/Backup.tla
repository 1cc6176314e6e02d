-------------------------------- MODULE Backup --------------------------------
(* The full archive: MatrixCtrl's own tables and configuration, Synapse's    *)
(* database, the accounts, the uploaded files and the sealed keys, one after *)
(* the other into one stream (internal/backup/full.go, backup.go,            *)
(* homeserver.go, internal/api/handlers/status.go).  The homeserver goes on  *)
(* working meanwhile.                                                        *)
(*                                                                           *)
(* Synapse's database is two tables that refer to each other and the counter *)
(* their rows are numbered from.  A transaction draws its number at once,    *)
(* outside of any snapshot, and its rows appear together when it commits.    *)
(* MatrixCtrl's own is the hooks and the records of their runs.              *)
EXTENDS Naturals

CONSTANTS
    MaxId,          \* bound: numbers the counter gives out
    HookIds,        \* hooks that may come to exist
    MaxTroubles,    \* bound: statements, services and clients that fail
    None

VARIABLES
    counter,    \* the last number given out
    open,       \* numbers of transactions that have not committed
    rows,       \* numbers whose rows both tables hold
    own,        \* own table -> the hooks its rows are of
    counted,    \* own tables the statistics say hold rows
    export,     \* the step of the export, its snapshot and what it is to write
    archive,    \* what is in the stream so far
    troubles    \* bound

database == <<counter, open, rows>>
vars == <<database, own, counted, export, archive, troubles>>

OwnTables == {"hook_executions", "hooks"}
Tables == {"event_json", "events"}
Others == {"mas", "media", "secrets"}

\* Tables come in name order, the other parts in that of the code.
Rank == [hook_executions |-> 1, hooks |-> 2, event_json |-> 1, events |-> 2,
         mas |-> 1, media |-> 2, secrets |-> 3]
First(S) == CHOOSE t \in S : \A u \in S : Rank[t] <= Rank[u]

Idle == [at |-> "idle", todo |-> {}, others |-> {}, hs |-> FALSE, snapshot |-> {}]
NoArchive == [parts |-> {}, own |-> [t \in {} |-> {}], config |-> FALSE, listed |-> {},
              sequence |-> None, tables |-> [t \in {} |-> {}], others |-> {}, closed |-> FALSE]

With(f, k, v) == [x \in DOMAIN f \cup {k} |-> IF x = k THEN v ELSE f[x]]

Fails == troubles < MaxTroubles /\ troubles' = troubles + 1
Works == UNCHANGED troubles

---------------------------------------------------------------------------
(* Synapse: a number is drawn, the rows are committed or never come.         *)
Draw ==
    /\ counter < MaxId
    /\ counter' = counter + 1 /\ open' = open \cup {counter + 1}
    /\ UNCHANGED <<rows, own, counted, export, archive, troubles>>

Settle ==
    /\ \E id \in open :
         /\ open' = open \ {id}
         /\ rows' \in {rows \cup {id}, rows}
    /\ UNCHANGED <<counter, own, counted, export, archive, troubles>>

(* MatrixCtrl: hooks come, run and go; one with recorded runs stays (the     *)
(* foreign key of migration 002).                                            *)
Hook ==
    /\ \E h \in HookIds :
         \/ own' = [own EXCEPT !["hooks"] = @ \cup {h}] /\ h \notin own["hooks"]
         \/ own' = [own EXCEPT !["hooks"] = @ \ {h}]
            /\ h \in own["hooks"] /\ h \notin own["hook_executions"]
         \/ own' = [own EXCEPT !["hook_executions"] = @ \cup {h}]
            /\ h \in own["hooks"] /\ h \notin own["hook_executions"]
    /\ UNCHANGED <<database, counted, export, archive, troubles>>

(* The statistics follow the tables in their own time.                       *)
Count ==
    /\ \E t \in DOMAIN own :
         counted' = IF own[t] = {} THEN counted \ {t} ELSE counted \cup {t}
    /\ counted' # counted
    /\ UNCHANGED <<database, own, export, archive, troubles>>

---------------------------------------------------------------------------
(* BackupFull and the head of CreateFull.  A database that cannot be         *)
(* reached, keys that cannot be read and files nobody asked for are left out *)
(* and named as left out; the own tables are those the statistics know.      *)
Begin ==
    /\ export.at = "idle"
    /\ \E hs \in BOOLEAN, S \in SUBSET Others :
         /\ export' = [Idle EXCEPT !.at = "own", !.hs = hs, !.todo = counted, !.others = S]
         /\ archive' = [NoArchive EXCEPT !.parts = {"matrixctrl"} \cup S
                                            \cup (IF hs THEN {"homeserver"} ELSE {})]
    /\ UNCHANGED <<database, own, counted, troubles>>

(* copyTable: each own table at its own moment; then the configuration.      *)
CopyOwn ==
    /\ export.at = "own"
    /\ IF export.todo = {}
         THEN /\ \E there \in BOOLEAN : archive' = [archive EXCEPT !.config = there]
              /\ export' = [export EXCEPT !.at = IF export.hs THEN "snapshot" ELSE "others"]
         ELSE LET t == First(export.todo)
              IN  /\ archive' = [archive EXCEPT !.own = With(@, t, own[t])]
                  /\ export' = [export EXCEPT !.todo = @ \ {t}]
    /\ UNCHANGED <<database, own, counted, troubles>>

(* exportDatabaseUnder: one transaction; its first statement, the list of    *)
(* the tables, takes the snapshot.                                           *)
Snapshot ==
    /\ export.at = "snapshot"
    /\ export' = [export EXCEPT !.at = "sequences", !.snapshot = rows, !.todo = Tables]
    /\ UNCHANGED <<database, own, counted, archive, troubles>>

(* readSequences: the counter as it is now, then the manifest of the part.   *)
ReadSequences ==
    /\ export.at = "sequences"
    /\ archive' = [archive EXCEPT !.sequence = counter, !.listed = Tables]
    /\ export' = [export EXCEPT !.at = "tables"]
    /\ UNCHANGED <<database, own, counted, troubles>>

\* Fault: the default isolation, in which every statement has its own moment.
SeenFault == rows

(* REPEATABLE READ: every statement sees the snapshot.                       *)
Seen == export.snapshot

CopyTable ==
    /\ export.at = "tables"
    /\ IF export.todo = {}
         THEN export' = [export EXCEPT !.at = "others"] /\ UNCHANGED archive
         ELSE LET t == First(export.todo)
              IN  /\ archive' = [archive EXCEPT !.tables = With(@, t, Seen)]
                  /\ export' = [export EXCEPT !.todo = @ \ {t}]
    /\ UNCHANGED <<database, own, counted, troubles>>

(* The accounts by the same exporter, the files and the keys as one member.  *)
CopyOther ==
    /\ export.at = "others" /\ export.others # {}
    /\ LET p == First(export.others)
       IN  /\ archive' = [archive EXCEPT !.others = @ \cup {p}]
           /\ export' = [export EXCEPT !.others = @ \ {p}]
    /\ UNCHANGED <<database, own, counted, troubles>>

Close == export' = Idle /\ archive' = [archive EXCEPT !.closed = TRUE]

Finish ==
    /\ export.at = "others" /\ export.others = {}
    /\ Close
    /\ UNCHANGED <<database, own, counted, troubles>>

(* A statement fails.  Every member is read whole before it is written, and  *)
(* the two writers are closed on the way out: the stream ends as the stream  *)
(* of a whole archive does, and the handler only logs it.                    *)
Fail ==
    /\ export.at # "idle" /\ Fails /\ Close
    /\ UNCHANGED <<database, own, counted>>

(* The client goes, or the process dies: what was received has no end.       *)
Abort ==
    /\ export.at # "idle" /\ Fails
    /\ export' = Idle /\ archive' = NoArchive
    /\ UNCHANGED <<database, own, counted>>

Init ==
    /\ counter = 1 /\ open = {} /\ rows = {1}
    /\ own = [t \in OwnTables |-> {}] /\ counted = {}
    /\ export = Idle /\ archive = NoArchive
    /\ troubles = 0

Next ==
    \/ Draw \/ Settle \/ Hook \/ Count
    \/ Begin \/ CopyOwn \/ Snapshot \/ ReadSequences \/ CopyTable \/ CopyOther
    \/ Finish \/ Fail \/ Abort

Spec == Init /\ [][Next]_vars

---------------------------------------------------------------------------
TypeOK ==
    /\ counter \in 0..MaxId /\ open \subseteq 1..counter /\ rows \subseteq 1..counter
    /\ own \in [OwnTables -> SUBSET HookIds]
    /\ counted \subseteq DOMAIN own
    /\ export.at \in {"idle", "own", "snapshot", "sequences", "tables", "others"}
    /\ archive.sequence \in (0..MaxId) \cup {None}

(* Of Synapse's database the archive holds one moment, and a counter that    *)
(* has not fallen behind it: no table refers to a row another one does not   *)
(* have, and a restored server gives out no number a restored row has        *)
(* (exportDatabaseUnder, readSequences).  The own tables are not from one    *)
(* moment and still fit: no run of a hook without the hook, when both tables *)
(* are there (tablesWithRows, assembleUnder).  And where nothing failed, the *)
(* archive has what its manifests say it has (CreateFull).                   *)
BackupIsOneMoment ==
    /\ \A t, u \in DOMAIN archive.tables : archive.tables[t] = archive.tables[u]
    /\ \A t \in DOMAIN archive.tables : \A id \in archive.tables[t] : id <= archive.sequence
    /\ OwnTables \subseteq DOMAIN archive.own
         => archive.own["hook_executions"] \subseteq archive.own["hooks"]
    /\ archive.closed /\ troubles = 0 =>
         /\ archive.listed = DOMAIN archive.tables
         /\ archive.others = archive.parts \ {"matrixctrl", "homeserver"}
=============================================================================
