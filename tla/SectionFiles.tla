----------------------------- MODULE SectionFiles -----------------------------
(* The configuration as files, and the settings page that edits them         *)
(* (internal/config/sections.go, migrate.go, merge.go, store.go,             *)
(* internal/tasks/tasks.go, internal/api/handlers/config.go).                *)
(*                                                                           *)
(* config-slices.json lists the files whose merge is what Helm is given.     *)
(* An old repository holds values.yaml and overlays of it; at the start it   *)
(* is split into one file per section.  A new one is seeded from the values  *)
(* of a release.  Every form writes into the file that owns the section.  A  *)
(* field of the task page is a Helm value or a key of a service's own        *)
(* configuration, which lives in a block of text under the section: one      *)
(* block is MatrixCtrl's, and a key that another block sets is not its own.  *)
(* Whoever edits a file as text may let it say anything of any section.      *)
EXTENDS Naturals, FiniteSets, Sequences, SequencesExt

CONSTANTS
    Sections,       \* top-level sections, each with a file of its own
    Keys,           \* keys of a service's own configuration
    Values,         \* values of a setting
    Default,        \* the value of a setting nobody wrote down, one of Values
    MaxChanges,     \* bound: fields changed by one request
    Texts,          \* bound: what a file says that an operator wrote
    Requests,       \* requests that edit at the same time
    MaxEdits,       \* bound: requests and edits of a file as text
    MaxTroubles,    \* bound: writes that fail, and restarts
    None

VARIABLES
    disk,       \* file -> its content, None when the file is missing
    listed,     \* the files of config-slices.json, in the order they are merged
    migration,  \* the migration that runs at the start
    request,    \* where each request is
    edits,      \* bound
    troubles    \* bound

vars == <<disk, listed, migration, request, edits, troubles>>

Legacy == <<"values", "overlay">>
Files == Sections \cup ToSet(Legacy)

(* What one file says of one section: the Helm value, the block of           *)
(* MatrixCtrl and the block of somebody else, each absent when None.         *)
Nothing == [k \in {} |-> None]
Blank == [val |-> None, ours |-> None, other |-> None]
Blocks == (UNION {[K -> Values] : K \in (SUBSET Keys) \ {{}}}) \cup {None}
Entry == [val : Values \cup {None}, ours : Blocks, other : Blocks]
EmptyFile == [s \in Sections |-> Blank]

\* No section has the name of an old file, and nothing is no value, block or file.
Named ==
    /\ IsFiniteSet(Sections) /\ Sections \cap ToSet(Legacy) = {}
    /\ Keys # {} /\ Default \in Values /\ None \notin Values
    /\ \A K \in SUBSET Keys : None \notin [K -> Values]
    /\ None \notin [Sections -> Entry] /\ Texts \subseteq [Sections -> Entry]

---------------------------------------------------------------------------
(* MergeToMap: the later file wins, setting by setting.  A block is one      *)
(* text, so it wins whole.                                                   *)
Over(late, early) == IF late = None THEN early ELSE late

Layer(low, high) ==
    [s \in Sections |-> [val   |-> Over(high[s].val, low[s].val),
                         ours  |-> Over(high[s].ours, low[s].ours),
                         other |-> Over(high[s].other, low[s].other)]]

MergeOf(files, d) ==
    LET merged[i \in 0..Len(files)] ==
            IF i = 0 THEN EmptyFile
            ELSE IF d[files[i]] = None THEN merged[i - 1]
            ELSE Layer(merged[i - 1], d[files[i]])
    IN  merged[Len(files)]

Merged == MergeOf(listed, disk)

---------------------------------------------------------------------------
(* The fields of the task page: the value of a section, or a service key.    *)
Fields == {<<s, "val">> : s \in Sections} \cup (Sections \X Keys)
IsValue(f) == f[2] = "val"

Has(block, k) == block # None /\ k \in DOMAIN block

(* read: what the page shows of a field, and whose block says so.            *)
Read(values, f) ==
    LET e == values[f[1]]
    IN  IF IsValue(f) THEN [value |-> Over(e.val, Default), elsewhere |-> FALSE]
        ELSE IF Has(e.other, f[2]) THEN [value |-> e.other[f[2]], elsewhere |-> TRUE]
        ELSE IF Has(e.ours, f[2]) THEN [value |-> e.ours[f[2]], elsewhere |-> FALSE]
        ELSE [value |-> Default, elsewhere |-> FALSE]

\* Fault: a key that another block sets is written into MatrixCtrl's all the same.
RefusesFault(values, changes) == FALSE

(* Write refuses the whole request when one of its keys is set elsewhere.    *)
Refuses(values, changes) == \E f \in DOMAIN changes : Read(values, f).elsewhere

(* Write: MatrixCtrl's block of a section as it is to be.  It holds only     *)
(* what differs from the service's default, and an empty one is removed.     *)
Block(values, changes, s) ==
    LET old == values[s].ours
        wanted(k) == IF <<s, k>> \in DOMAIN changes THEN changes[<<s, k>>]
                     ELSE IF Has(old, k) THEN old[k] ELSE None
        touched(k) == <<s, k>> \in DOMAIN changes
        kept == {k \in Keys : wanted(k) # None /\ ~(touched(k) /\ wanted(k) = Default)}
    IN  IF kept = {} THEN None ELSE [k \in kept |-> wanted(k)]

Owners(changes) == {f[1] : f \in DOMAIN changes}

(* The plan of a request: for each section it touches, the entry written     *)
(* into the file that owns it.  Only the slots named are replaced there.     *)
Plan(values, changes) ==
    [s \in Owners(changes) |->
        [sets |-> {sl \in {"val", "ours"} : \E f \in DOMAIN changes :
                     f[1] = s /\ (sl = "val") = IsValue(f)},
         val  |-> IF <<s, "val">> \in DOMAIN changes THEN changes[<<s, "val">>] ELSE None,
         ours |-> Block(values, changes, s)]]

(* SetSectionValues on one file: read (a missing file is empty), set,        *)
(* remove, write.                                                            *)
Edited(s, p) ==
    LET old == IF disk[s] = None THEN EmptyFile ELSE disk[s]
    IN  [old EXCEPT ![s] = [val   |-> IF "val" \in p.sets THEN p.val ELSE @.val,
                            ours  |-> IF "ours" \in p.sets THEN p.ours ELSE @.ours,
                            other |-> @.other]]

---------------------------------------------------------------------------
Idle == [at |-> "idle", changes |-> Nothing, plan |-> Nothing, before |-> None, alone |-> TRUE]
Counted == edits < MaxEdits /\ edits' = edits + 1
Fails == troubles < MaxTroubles /\ troubles' = troubles + 1
Works == UNCHANGED troubles

(* Whoever else was at work while the files change was not alone.            *)
Disturb(who) == [r \in Requests |->
    IF r \in who \/ request[r].at = "idle" THEN request[r]
    ELSE [request[r] EXCEPT !.alone = FALSE]]

Up == migration.at = "over"

(* SetTasks: the merge is read, the plan made from it or refused.            *)
Begin(r) ==
    /\ Up /\ request[r].at = "idle"
    /\ \E F \in SUBSET Fields : \E changes \in [F -> Values \cup {None}] :
         /\ F # {} /\ Cardinality(F) <= MaxChanges
         /\ request' = [request EXCEPT ![r] =
              [at |-> "write", changes |-> changes, before |-> Merged, plan |-> Plan(Merged, changes),
               alone |-> \A q \in Requests : request[q].at = "idle"]]
         /\ ~Refuses(Merged, changes)
    /\ Counted /\ UNCHANGED <<disk, listed, migration, troubles>>

(* One file after the other, in no order; a write that fails ends it.        *)
WriteFile(r) ==
    /\ Up /\ request[r].at = "write"
    /\ \E s \in DOMAIN request[r].plan :
         \/ /\ disk' = [disk EXCEPT ![s] = Edited(s, request[r].plan[s])]
            /\ LET rest == [x \in DOMAIN request[r].plan \ {s} |-> request[r].plan[x]]
               IN  request' = [Disturb({r}) EXCEPT ![r].plan = rest]
            /\ Works
         \/ /\ Fails /\ request' = [request EXCEPT ![r] = Idle] /\ UNCHANGED disk
    /\ UNCHANGED <<edits, listed, migration>>

(* "saved"                                                                   *)
Save(r) ==
    /\ Up /\ request[r].at = "write" /\ DOMAIN request[r].plan = {}
    /\ request' = [request EXCEPT ![r] = Idle]
    /\ UNCHANGED <<edits, disk, listed, migration, troubles>>

(* PutSlice: the operator edits a listed file as text.  Nothing holds the    *)
(* text to the section of the file, nor to MatrixCtrl's block in it.         *)
PutSlice ==
    /\ Up
    /\ \E f \in ToSet(listed), text \in Texts : disk' = [disk EXCEPT ![f] = text]
    /\ request' = Disturb({})
    /\ Counted /\ UNCHANGED <<listed, migration, troubles>>

---------------------------------------------------------------------------
(* SeedSections: a repository without a listed file takes the values of the  *)
(* running release, or the defaults of the chart: the sections they name get *)
(* a file, and only those are listed.                                        *)
InSections(content) == {s \in Sections : content[s] # Blank}

Contents ==
    {[s \in Sections |-> IF s \in S THEN [val |-> v, ours |-> None, other |-> b] ELSE Blank] :
        S \in SUBSET Sections, v \in Values, b \in {None, [k \in Keys |-> Default]}}

Seed ==
    /\ Up /\ listed = <<>>
    /\ \E c \in Contents : \E F \in SUBSET InSections(c) :
         /\ disk' = [f \in Files |-> IF f \in F THEN [EmptyFile EXCEPT ![f] = c[f]] ELSE disk[f]]
         /\ \/ F = InSections(c) /\ listed' = SetToSeq(F) /\ Works
            \/ Fails /\ UNCHANGED listed
    /\ request' = Disturb({})
    /\ UNCHANGED <<migration, edits>>

---------------------------------------------------------------------------
(* MigrateToSections, at every start.                                        *)
NoMigration == [at |-> "start", files |-> Nothing, before |-> EmptyFile]

IsMigrated == "values" \notin ToSet(listed)

(* The sections of the merge are built, compared with it and only then       *)
(* written.                                                                  *)
MigrationBegins ==
    /\ migration.at = "start"
    /\ IF IsMigrated
         THEN migration' = [migration EXCEPT !.at = "over"]
         ELSE migration' = [at |-> "split", before |-> Merged,
                 files |-> [s \in InSections(Merged) |-> [EmptyFile EXCEPT ![s] = Merged[s]]]]
    /\ UNCHANGED <<edits, disk, listed, request, troubles>>

Todo == {s \in DOMAIN migration.files : disk[s] # migration.files[s]}

MigrationStops == migration' = [NoMigration EXCEPT !.at = "over"]

MigrationWrites ==
    /\ migration.at = "split" /\ Todo # {}
    /\ \E s \in Todo :
         \/ disk' = [disk EXCEPT ![s] = migration.files[s]] /\ Works /\ UNCHANGED migration
         \/ Fails /\ MigrationStops /\ UNCHANGED disk
    /\ UNCHANGED <<edits, listed, request>>

(* The old files are removed one after the other; an error is ignored.       *)
MigrationRemoves ==
    /\ migration.at = "split" /\ Todo = {}
    /\ LET left == {i \in DOMAIN Legacy : disk[Legacy[i]] # None}
       IN  IF left = {} THEN migration' = [migration EXCEPT !.at = "list"] /\ UNCHANGED disk
           ELSE /\ disk' = [disk EXCEPT ![Legacy[CHOOSE i \in left : \A j \in left : i <= j]] = None]
                /\ UNCHANGED migration
    /\ UNCHANGED <<edits, listed, request, troubles>>

(* The list is written last.                                                 *)
MigrationLists ==
    /\ migration.at = "list"
    /\ \/ listed' = SetToSeq(DOMAIN migration.files) /\ Works
       \/ Fails /\ UNCHANGED listed
    /\ MigrationStops
    /\ UNCHANGED <<edits, disk, request>>

(* The process dies and starts again.                                        *)
Restart ==
    /\ Fails
    /\ migration' = NoMigration
    /\ request' = [r \in Requests |-> Idle]
    /\ UNCHANGED <<edits, disk, listed>>

(* An old repository with its overlay, or one that was just created.         *)
Init ==
    /\ \E c \in Contents, o \in {x \in Contents : \A s \in Sections : x[s].other = None} :
         disk \in {[f \in Files |-> IF f = "values" THEN c ELSE IF f = "overlay" THEN o ELSE None],
                   [f \in Files |-> None]}
    /\ listed = Legacy
    /\ migration = NoMigration
    /\ request = [r \in Requests |-> Idle]
    /\ edits = 0 /\ troubles = 0

Next ==
    \/ MigrationBegins \/ MigrationWrites \/ MigrationRemoves \/ MigrationLists \/ Restart
    \/ \E r \in Requests : Begin(r) \/ WriteFile(r) \/ Save(r)
    \/ PutSlice \/ Seed

Spec == Init /\ [][Next]_vars

---------------------------------------------------------------------------
TypeOK ==
    /\ \A f \in Files : disk[f] = None \/ disk[f] \in [Sections -> Entry]
    /\ ToSet(listed) \subseteq Files
    /\ DOMAIN request = Requests

(* No listed file but its own says anything of a section.                    *)
OwnsAlone(s) ==
    /\ s \in ToSet(listed)
    /\ \A f \in ToSet(listed) \ {s} : disk[f] # None => disk[f][s] = Blank

(* What a request left behind reads back as what it asked for: every field   *)
(* it changed shows the new value, every other field what it showed before.  *)
ReadsBack(q) ==
    \A f \in Fields : (f[1] \in Owners(q.changes) => OwnsAlone(f[1])) =>
        Read(Merged, f) =
            IF f \in DOMAIN q.changes
              THEN [value |-> Over(q.changes[f], Default), elsewhere |-> FALSE]
              ELSE Read(q.before, f)

Saved(r) == request[r].at = "write" /\ DOMAIN request[r].plan = {} /\ request[r].alone
            /\ request'[r].at = "idle"

(* A setting that is reported as saved, with nobody else editing meanwhile,  *)
(* is what Helm is given and what the page shows next, and nothing else is   *)
(* changed by it (SetTasks, tasks.Write, SetSectionValues); splitting an old *)
(* repository into sections leaves what Helm is given as it was, also when   *)
(* one of the new files cannot be written (MigrateToSections).  Taken out    *)
(* are the cases in which the code does not keep this: a section without a   *)
(* listed file, one of which another listed file speaks as well -- the form  *)
(* writes into the owner, and the other file wins or shows through --, and a *)
(* migration whose list is not written.                                      *)
KeepsWhatItSays ==
    /\ \A r \in Requests : Saved(r) => ReadsBack(request[r])
    /\ migration.at = "split" /\ migration'.at = "over" => Merged' = migration.before
    /\ migration.at = "list" /\ listed' # listed => Merged' = migration.before

SavedReadsBack == [][KeepsWhatItSays]_vars
=============================================================================
