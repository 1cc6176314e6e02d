----------------------------- MODULE RestoreJob -----------------------------
(***************************************************************************)
(* An archive written back: MatrixCtrl's own configuration and tables, by  *)
(* a request or by the job that goes on to the homeserver's databases, its *)
(* files and its keys.  One job runs at a time; the request is not held    *)
(* back by it.  Calls fail, the job's two hours end, the process dies.     *)
(*                                                                         *)
(* One database's own steps are RestoreDatabase's.                         *)
(***************************************************************************)
EXTENDS Naturals, FiniteSets

CONSTANTS Restores,    \* restores, each once
          MaxEvents,   \* failures and deaths of the process, together
          None

VARIABLES
    repo,      \* place in the config volume -> name -> whose file is there
    ownDB,     \* whose rows MatrixCtrl's own tables hold
    db,        \* service -> whose rows its database holds
    secret,    \* entry of ess-generated -> whose it is
    loaded,    \* service -> the identity it runs with, "restarting" from when
               \* it is asked to restart until a pod has started
    media,     \* whose files the media volume holds, and what lies in staging
    slot,      \* StatusHandler.restore: the last job
    restore,   \* restore -> its kind, step and report
    events

\* None is no restore and nobody's file.
Distinct == None \notin Restores /\ None \notin {"own", "archive", "full"}

volumes == <<repo, ownDB, db, secret, loaded, media>>
vars    == <<volumes, slot, restore, events>>

Names    == 1..2
Services == {"synapse", "mas"}
Whose    == {"own", "archive"}
\* The archive has a name the configuration does not have.
Previous == <<None, "own">>
Archive  == <<"archive", "archive">>
Empty    == <<None, None>>
Fresh    == [kind |-> None, step |-> "idle", at |-> 1, before |-> None, failed |-> FALSE,
             said |-> {}, late |-> FALSE, alone |-> TRUE, faults |-> 0]
Steps    == {"idle", "upload", "read", "clear", "stage", "aside", "place", "unplace", "back", "clean",
             "tables", "admin", "synapse", "mas", "media", "unpack", "copy", "tidy", "keys", "restart", "over"}

TypeOK ==
    /\ repo \in [{"root", "staging", "old"} -> [Names -> Whose \cup {None}]]
    /\ ownDB \in Whose
    /\ db \in [Services -> Whose]
    /\ secret \in [{"identity", "password"} -> Whose]
    /\ loaded \in [Services -> Whose \cup {"restarting"}]
    /\ media \in [files : {"own", "half", "both"}, staging : [Restores -> {"none", "half", "all"}]]
    /\ slot \in Restores \cup {None}
    /\ \A r \in Restores :
         /\ restore[r].kind \in {None, "own", "full"} /\ restore[r].step \in Steps
         /\ restore[r].at \in 0..3 /\ restore[r].said \subseteq {"bare", "skip", "media", "keys", "restart"}
         /\ {restore[r].failed, restore[r].late, restore[r].alone} \subseteq BOOLEAN
    /\ events \in 0..MaxEvents

Init ==
    /\ repo = [place \in {"root", "staging", "old"} |-> IF place = "root" THEN Previous ELSE Empty]
    /\ ownDB = "own"
    /\ db = [s \in Services |-> "own"]
    /\ secret = [e \in {"identity", "password"} |-> "own"]
    /\ loaded = [s \in Services |-> "own"]
    /\ media = [files |-> "own", staging |-> [r \in Restores |-> "none"]]
    /\ slot = None
    /\ restore = [r \in Restores |-> Fresh]
    /\ events = 0

-----------------------------------------------------------------------------
At(r, step) == restore[r].step = step
Active(r)   == restore[r].step \notin {"idle", "over"}
Running(r)  == Active(r) /\ restore[r].kind = "full"

\* The step r comes to, with what it remembers.
To(r, step)       == restore' = [restore EXCEPT ![r].step = step, ![r].at = 1]
Ends(r)           == restore' = [restore EXCEPT ![r].step = "over"]
Says(r, what, step) == restore' = [restore EXCEPT ![r].said = @ \cup {what}, ![r].step = step]
EndsBadly(r)      == restore' = [restore EXCEPT ![r].step = "over", ![r].failed = TRUE]

\* Bound: events counts the failures. Under a deadline that is over, calls
\* that take the job's context fail by themselves.
Event    == events < MaxEvents /\ events' = events + 1
NoEvent  == UNCHANGED events
Late(r)  == restore[r].late

-----------------------------------------------------------------------------
NobodyActive == \A o \in Restores : ~Active(o)

\* Of a restore that is over nothing is needed any more when another begins.
Begins(r, kind, step) ==
    LET others == [s \in Restores |->
                     IF Active(s) THEN [restore[s] EXCEPT !.alone = FALSE]
                                  ELSE [Fresh EXCEPT !.step = restore[s].step, !.alone = FALSE]]
    IN  restore' = [others EXCEPT ![r] = [Fresh EXCEPT !.kind = kind, !.step = step,
                                                       !.alone = NobodyActive]]

\* RestoreFull: one at a time. The flag is written under another lock than it
\* is read: whoever reads it late is refused once more.
RestoreFull(r) ==
    /\ At(r, "idle")
    /\ slot # None => ~Running(slot)
    /\ slot' = r
    /\ Begins(r, "full", "upload")
    /\ UNCHANGED <<volumes, events>>

\* Restore: MatrixCtrl's own part, whatever else is under way.
Restore(r) ==
    /\ At(r, "idle")
    /\ Begins(r, "own", "read")
    /\ UNCHANGED <<volumes, slot, events>>

\* Spooled before anything is touched, then the manifests, then the archive.
Upload(r) ==
    /\ At(r, "upload")
    /\ \/ To(r, "read") /\ NoEvent
       \/ EndsBadly(r) /\ Event
    /\ UNCHANGED <<volumes, slot>>

Read(r) ==
    /\ At(r, "read")
    /\ \/ To(r, "clear") /\ NoEvent
       \/ EndsBadly(r) /\ Event
    /\ UNCHANGED <<volumes, slot>>

\* RestoreConfigRepo. An archive without a configuration leaves the one that is
\* there; otherwise what an earlier run left is removed first.
Clear(r) ==
    /\ At(r, "clear")
    /\ \/ /\ repo' = [repo EXCEPT !["staging"] = Empty, !["old"] = Empty]
          /\ restore' = [restore EXCEPT ![r].step = "stage", ![r].before = repo["root"]]
          /\ NoEvent
       \/ /\ repo' \in {repo, [repo EXCEPT !["staging"] = Empty]}
          /\ EndsBadly(r)
          /\ Event
       \/ Says(r, "bare", "tables") /\ NoEvent /\ UNCHANGED repo
    /\ UNCHANGED <<ownDB, db, secret, loaded, media, slot>>

Fault1(r) == restore' = [restore EXCEPT ![r].failed = TRUE, ![r].faults = @ + 1, ![r].step = "clean"]

Stage(r) ==
    /\ At(r, "stage")
    /\ \/ /\ repo' = [repo EXCEPT !["staging"] = Archive]
          /\ To(r, "aside")
          /\ NoEvent
       \/ /\ repo' = [repo EXCEPT !["staging"][1] = "archive"]
          /\ Fault1(r)
          /\ Event
    /\ UNCHANGED <<ownDB, db, secret, loaded, media, slot>>

\* A rename; a name that is not there has nothing to be moved.
Moved(n, a, b) == IF repo[a][n] = None THEN repo
                  ELSE [repo EXCEPT ![a][n] = None, ![b][n] = repo[a][n]]

\* One entry after the other; where one cannot be moved, at remembers how far it came.
Move(r, step, a, b, then, onError) ==
    LET n == restore[r].at
    IN  /\ At(r, step)
        /\ IF n \in Names
           THEN \/ /\ repo' = Moved(n, a, b)
                   /\ restore' = [restore EXCEPT ![r].at = n + 1]
                   /\ NoEvent
                \/ /\ restore' = [restore EXCEPT ![r].step = onError, ![r].at = n - 1,
                                      ![r].failed = TRUE, ![r].faults = @ + 1]
                   /\ Event
                   /\ UNCHANGED repo
           ELSE To(r, then) /\ NoEvent /\ UNCHANGED repo
        /\ UNCHANGED <<ownDB, db, secret, loaded, media, slot>>

Aside(r) == Move(r, "aside", "root", "old", "place", "back")

\* Fault: what was placed already stays where it is.
PlaceFault(r) == Move(r, "place", "staging", "root", "clean", "back")

\* What was placed is taken out again before the old entries go back.
Place(r) == Move(r, "place", "staging", "root", "clean", "unplace")

\* Best effort: an entry that cannot be moved is left, and the next one tried.
Undo(r, step, a, b, then, more) ==
    LET n == restore[r].at
    IN  /\ At(r, step)
        /\ IF n >= 1
           THEN /\ \/ repo' = Moved(n, a, b) /\ NoEvent /\ restore' = [restore EXCEPT ![r].at = n - 1]
                   \/ UNCHANGED repo /\ Event
                      /\ restore' = [restore EXCEPT ![r].at = n - 1, ![r].faults = @ + 1]
           ELSE /\ restore' = [restore EXCEPT ![r].step = then, ![r].at = more]
                /\ NoEvent /\ UNCHANGED repo
        /\ UNCHANGED <<ownDB, db, secret, loaded, media, slot>>

Unplace(r) == Undo(r, "unplace", "root", "staging", "back", Cardinality(Names))
RestoreBack(r) == Undo(r, "back", "old", "root", "clean", 1)

\* Both directories go, with whatever is in them.
Clean(r) ==
    /\ At(r, "clean")
    /\ repo' = [repo EXCEPT !["staging"] = Empty, !["old"] = Empty]
    /\ IF restore[r].failed THEN Ends(r) ELSE To(r, "tables")
    /\ UNCHANGED <<ownDB, db, secret, loaded, media, slot, events>>

\* Archive.RestoreDatabase: one transaction. A commit whose answer is lost may have happened.
Tables(r) ==
    /\ At(r, "tables")
    /\ \/ /\ ~Late(r)
          /\ ownDB' = "archive"
          /\ IF restore[r].kind = "own" THEN Ends(r) ELSE To(r, "admin")
          /\ NoEvent
       \/ Late(r) /\ NoEvent /\ UNCHANGED ownDB /\ EndsBadly(r)
       \/ ~Late(r) /\ Event /\ ownDB' \in {ownDB, "archive"} /\ EndsBadly(r)
    /\ UNCHANGED <<repo, db, secret, loaded, media, slot>>

-----------------------------------------------------------------------------
Fails(r) == IF Late(r) THEN NoEvent ELSE Event

\* What the archive does not hold, the operator did not ask for, or no cluster is there for.
Skips(r, then) == Says(r, "skip", then) /\ NoEvent

AdminPG(r) ==
    /\ At(r, "admin")
    /\ \/ ~Late(r) /\ To(r, "synapse") /\ NoEvent
       \/ Skips(r, "over")
       \/ EndsBadly(r) /\ Fails(r)
    /\ UNCHANGED <<volumes, slot>>

(* restore.Database: the rows are the archive's and the service read its   *)
(* keys anew, or it is an error and the job ends there.  What a failed one *)
(* leaves is RestoreDatabase's subject.                                    *)
Database(r, s, then) ==
    /\ At(r, s)
    /\ \/ /\ ~Late(r)
          /\ db' = [db EXCEPT ![s] = "archive"]
          /\ loaded' = [loaded EXCEPT ![s] = secret["identity"]]
          /\ To(r, then)
          /\ NoEvent
       \/ Skips(r, then) /\ UNCHANGED <<db, loaded>>
       \/ EndsBadly(r) /\ Fails(r) /\ UNCHANGED <<db, loaded>>
    /\ UNCHANGED <<repo, ownDB, secret, media, slot>>

Synapse(r) == Database(r, "synapse", "mas")
Mas(r)     == Database(r, "mas", "media")

(* restore.Media: room, a staging directory of this run's own, the tar     *)
(* into it, a count, a copy over what is there, and staging removed again, *)
(* whatever became of the rest.  An error is said, and the job goes on.    *)
Media(r) ==
    /\ At(r, "media")
    /\ \/ ~Late(r) /\ To(r, "unpack") /\ NoEvent
       \/ Skips(r, "keys")
       \/ Says(r, "media", "keys") /\ Fails(r)
    /\ UNCHANGED <<volumes, slot>>

\* Nothing in staging is an error too: an empty stream unpacks without one.
Unpack(r) ==
    /\ At(r, "unpack")
    /\ \/ ~Late(r) /\ media' = [media EXCEPT !.staging[r] = "all"] /\ To(r, "copy") /\ NoEvent
       \/ /\ media' \in {media, [media EXCEPT !.staging[r] = "half"]}
          /\ Says(r, "media", "tidy") /\ Fails(r)
    /\ UNCHANGED <<repo, ownDB, db, secret, loaded, slot>>

Copy(r) ==
    /\ At(r, "copy")
    /\ \/ ~Late(r) /\ media' = [media EXCEPT !.files = "both"] /\ To(r, "tidy") /\ NoEvent
       \/ media' \in {media, [media EXCEPT !.files = IF @ = "both" THEN @ ELSE "half"]}
          /\ Says(r, "media", "tidy") /\ Fails(r)
    /\ UNCHANGED <<repo, ownDB, db, secret, loaded, slot>>

\* Under a context that outlives the job's, and its error is not looked at.
Tidy(r) ==
    /\ At(r, "tidy")
    /\ To(r, "keys")
    /\ \/ media' = [media EXCEPT !.staging[r] = "none"] /\ NoEvent
       \/ UNCHANGED media /\ Event
    /\ UNCHANGED <<repo, ownDB, db, secret, loaded, slot>>

\* KeysKeptLocal
Merged(e) == IF e = "password" THEN secret[e] ELSE "archive"

\* restore.Keys; a wrong recovery key or a refused write is said.
Keys(r) ==
    /\ At(r, "keys")
    /\ \/ ~Late(r) /\ secret' = [e \in DOMAIN secret |-> Merged(e)] /\ To(r, "restart") /\ NoEvent
       \/ Skips(r, "over") /\ UNCHANGED secret
       \/ Says(r, "keys", "over") /\ Fails(r) /\ UNCHANGED secret
    /\ UNCHANGED <<repo, ownDB, db, loaded, media, slot>>

\* Both services are asked to restart, as they read the secret when they start; one
\* that cannot be asked is named. Nobody waits for the pods.
Restart(r) ==
    LET s == IF restore[r].at = 1 THEN "synapse" ELSE "mas"
        on(said) == restore' = [restore EXCEPT ![r].at = 2, ![r].said = said,
                                  ![r].step = IF s = "mas" THEN "over" ELSE "restart"]
    IN  /\ At(r, "restart")
        /\ \/ ~Late(r) /\ loaded' = [loaded EXCEPT ![s] = "restarting"]
              /\ on(restore[r].said) /\ NoEvent
           \/ on(restore[r].said \cup {"restart"}) /\ Fails(r) /\ UNCHANGED loaded
        /\ UNCHANGED <<repo, ownDB, db, secret, media, slot>>

-----------------------------------------------------------------------------
\* The job's two hours are over.
Deadline(r) ==
    /\ Running(r)
    /\ ~Late(r)
    /\ restore[r].step # "upload"
    /\ restore' = [restore EXCEPT ![r].late = TRUE]
    /\ UNCHANGED <<volumes, slot, events>>

\* A pod starts, by itself or because its service was asked to restart.
PodRestarts(s) ==
    /\ loaded' = [loaded EXCEPT ![s] = secret["identity"]]
    /\ UNCHANGED <<repo, ownDB, db, secret, media, slot, restore, events>>

\* The process dies: no job, no request, and nothing is undone.
Dies ==
    /\ Event
    /\ slot' = None
    /\ restore' = [r \in Restores |-> IF Active(r) THEN [restore[r] EXCEPT !.step = "over", !.failed = TRUE,
                                                          !.alone = FALSE] ELSE restore[r]]
    /\ UNCHANGED volumes

Next ==
    \/ \E r \in Restores :
       \/ RestoreFull(r) \/ Restore(r) \/ Upload(r) \/ Read(r)
       \/ Clear(r) \/ Stage(r) \/ Aside(r) \/ Place(r) \/ Unplace(r) \/ RestoreBack(r) \/ Clean(r)
       \/ Tables(r) \/ AdminPG(r) \/ Synapse(r) \/ Mas(r)
       \/ Media(r) \/ Unpack(r) \/ Copy(r) \/ Tidy(r) \/ Keys(r) \/ Restart(r)
       \/ Deadline(r)
    \/ \E s \in Services : PodRestarts(s)
    \/ Dies

Spec == Init /\ [][Next]_vars

-----------------------------------------------------------------------------
(* A restore that nothing else ran beside leaves the configuration as the  *)
(* archive has it or, when it failed, as it was before - unless a second   *)
(* failure befell it while it was putting it back.                         *)
ConfigIsWhole(r) ==
    restore[r].alone /\ At(r, "clean") /\ restore[r].faults <= 1 =>
        repo["root"] = IF restore[r].failed THEN restore[r].before ELSE Archive

(* A restore that ended without an error or a complaint has put back every *)
(* part and kept this installation's passwords, and no service goes on     *)
(* with the identity it had: each runs with the archive's, or was asked to *)
(* restart. That its pods do come up again is not waited for.              *)
JobIsWhole(r) ==
    restore[r].alone /\ At(r, "over") /\ ~restore[r].failed =>
        /\ ownDB = "archive" /\ ("bare" \notin restore[r].said => repo["root"] = Archive)
        /\ restore[r].kind = "full" /\ "skip" \notin restore[r].said => db = [s \in Services |-> "archive"]
        /\ restore[r].kind = "full" /\ restore[r].said \subseteq {"bare"} =>
              /\ media.files = "both"
              /\ secret = [identity |-> "archive", password |-> "own"]
              /\ \A s \in Services : loaded[s] \in {"archive", "restarting"}

\* One job at a time, and the promises of each restore.
RestoresAreWhole ==
    /\ \A r, s \in Restores : Running(r) /\ Running(s) => r = s
    /\ \A r \in Restores : ConfigIsWhole(r) /\ JobIsWhole(r)
=============================================================================
