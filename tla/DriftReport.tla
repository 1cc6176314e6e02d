------------------------------ MODULE DriftReport ------------------------------
(* The report that says whether the hooks' patches are still in effect and   *)
(* what somebody set by hand (internal/api/handlers/drift.go,                *)
(* internal/drift/drift.go, manual.go, chartmatch.go,                        *)
(* internal/k8s/ownership.go).                                               *)
(*                                                                           *)
(* One object of the cluster, field by field.  The hooks say what they patch *)
(* into it, the API server knows who wrote a field last, the manifest of the *)
(* release says what the chart gives it.  A report asks for these one after  *)
(* the other, and each question may fail by itself.                          *)
EXTENDS Naturals, FiniteSets

CONSTANTS
    Fields,         \* fields of the object
    Values,         \* values of a field
    Hooks,          \* hooks, each with one patch
    MaxEvents,      \* bound: edits, upgrades and hook runs
    MaxTroubles,    \* bound: questions of a report that fail
    None

VARIABLES
    live,       \* the object: field -> its value, None when it is absent
    owner,      \* managedFields: who wrote a field last
    chart,      \* the manifest of the release: field -> value or None
    hooks,      \* hook -> its row
    report,     \* the report that is being made
    events,     \* bound
    troubles    \* bound

vars == <<live, owner, chart, hooks, report, events, troubles>>

\* The hooks are rows of a table.
Listed == IsFiniteSet(Hooks)

Owners == {"helm", "human", "matrixctrl", "foreign", "nobody"}
PatchTypes == {"merge", "strategic"}
Patches == UNION {[F -> Values] : F \in (SUBSET Fields) \ {{}}}
Rows == [enabled : BOOLEAN, readable : BOOLEAN, type : PatchTypes, sets : Patches]
Object == [Fields -> Values \cup {None}]

---------------------------------------------------------------------------
(* Writing to the object, as the API server records it: a field changes      *)
(* hands when its value changes.                                             *)
Write(who, new) ==
    /\ live' = new
    /\ owner' = [f \in Fields |-> IF new[f] # live[f] THEN who ELSE owner[f]]

Event == events < MaxEvents /\ events' = events + 1
Fails == troubles < MaxTroubles /\ troubles' = troubles + 1
Works == UNCHANGED troubles

(* A report during which the cluster or a hook changes was not undisturbed.  *)
Disturbed == report' = [report EXCEPT !.alone = FALSE]

(* A person with kubectl, or an operator nobody here has heard of.           *)
Edit ==
    /\ Event /\ Disturbed
    /\ \E who \in {"human", "foreign"}, f \in Fields, v \in Values :
         Write(who, [live EXCEPT ![f] = v])
    /\ UNCHANGED <<chart, hooks, troubles>>

(* Helm's three-way merge: what the new manifest names is set, what only the *)
(* old one named is removed, and a field the chart never named stays.        *)
Upgrade ==
    /\ Event /\ Disturbed
    /\ chart' \in Object
    /\ Write("helm", [f \in Fields |-> IF chart'[f] # None THEN chart'[f]
                                       ELSE IF chart[f] # None THEN None ELSE live[f]])
    /\ UNCHANGED <<hooks, troubles>>

(* The hook engine applies one enabled hook.                                 *)
RunHook ==
    /\ Event /\ Disturbed
    /\ \E h \in Hooks :
         /\ hooks[h].enabled /\ hooks[h].readable
         /\ Write("matrixctrl", [f \in Fields |->
                IF f \in DOMAIN hooks[h].sets THEN hooks[h].sets[f] ELSE live[f]])
    /\ UNCHANGED <<chart, hooks, troubles>>

SetEnabled ==
    /\ Event /\ Disturbed
    /\ \E h \in Hooks : hooks' = [hooks EXCEPT ![h].enabled = ~@]
    /\ UNCHANGED <<live, owner, chart, troubles>>

---------------------------------------------------------------------------
Idle == [at |-> "idle", actions |-> {}, found |-> [h \in {} |-> None], edits |-> {},
         partial |-> FALSE, alone |-> TRUE]

(* patchActions: the enabled hooks; a row that cannot be decoded is skipped. *)
PatchActions == {h \in Hooks : hooks[h].enabled /\ hooks[h].readable}

Begin ==
    /\ report.at = "idle"
    /\ report' = [Idle EXCEPT !.at = "check", !.actions = PatchActions]
    /\ UNCHANGED <<live, owner, chart, hooks, events, troubles>>

\* Fault: an object that could not be fetched counts as patched.
CheckOneFault(h, fetched) ==
    IF ~fetched THEN "satisfied"
    ELSE IF hooks[h].type = "strategic" THEN "unknown"
    ELSE IF \A f \in DOMAIN hooks[h].sets : live[f] = hooks[h].sets[f] THEN "satisfied"
    ELSE "drifted"

(* checkOne: the live object is fetched, the patch applied in memory.        *)
CheckOne(h, fetched) ==
    IF ~fetched \/ hooks[h].type = "strategic" THEN "unknown"
    ELSE IF \A f \in DOMAIN hooks[h].sets : live[f] = hooks[h].sets[f] THEN "satisfied"
    ELSE "drifted"

Check ==
    /\ report.at = "check"
    /\ LET left == report.actions \ DOMAIN report.found
       IN  IF left = {} THEN report' = [report EXCEPT !.at = "own"] /\ Works
           ELSE \E h \in left, fetched \in BOOLEAN :
                  /\ IF fetched THEN Works ELSE Fails
                  /\ report' = [report EXCEPT !.found =
                        [g \in DOMAIN report.found \cup {h} |->
                            IF g = h THEN CheckOne(h, fetched) ELSE report.found[g]]]
    /\ UNCHANGED <<live, owner, chart, hooks, events>>

(* PatchPaths: nothing is said of a strategic patch.                         *)
PatchPaths(h) == IF hooks[h].type = "strategic" THEN {} ELSE DOMAIN hooks[h].sets

(* FindManualEdits: one entry for each manager that is neither the chart,    *)
(* a controller nor MatrixCtrl; covered when a hook maintains one field.     *)
FindManualEdits ==
    LET by(who) == {f \in Fields : owner[f] = who}
        hooked == UNION {PatchPaths(h) : h \in report.actions}
    IN  {[manager |-> who, paths |-> by(who), covered |-> by(who) \cap hooked # {}, matches |-> FALSE] :
            who \in {w \in {"human", "foreign"} : by(w) # {}}}

(* manualEdits: a type that cannot be listed makes the report partial.       *)
Own ==
    /\ report.at = "own"
    /\ \/ report' = [report EXCEPT !.at = "match", !.edits = FindManualEdits] /\ Works
       \/ report' = [report EXCEPT !.at = "match", !.partial = TRUE] /\ Fails
    /\ UNCHANGED <<live, owner, chart, hooks, events>>

(* MatchesChart: absent on either side is no match.                          *)
MatchesChart(paths) ==
    \A f \in paths : live[f] # None /\ chart[f] # None /\ live[f] = chart[f]

(* markChartMatches: without the manifest, or without the object, nothing is *)
(* marked; an entry of somebody else than a person is not looked at.         *)
Mark ==
    /\ report.at = "match"
    /\ \/ /\ report' = [report EXCEPT !.at = "answer", !.edits =
                {IF e.manager = "human" THEN [e EXCEPT !.matches = MatchesChart(e.paths)] ELSE e :
                    e \in report.edits}]
          /\ Works
       \/ report' = [report EXCEPT !.at = "answer"] /\ Fails
    /\ UNCHANGED <<live, owner, chart, hooks, events>>

Count(status) == Cardinality({h \in report.actions : report.found[h] = status})

(* SummariseManual                                                           *)
Unmaintained == {e \in report.edits : e.manager = "human" /\ ~e.covered /\ ~e.matches}
ByHand == {e \in report.edits : e.manager = "human" /\ e.covered}

(* The answer is sent: the findings counted by status, the edits by kind.    *)
Answer ==
    /\ report.at = "answer" /\ report' = Idle
    /\ UNCHANGED <<live, owner, chart, hooks, events, troubles>>

(* The query for the hooks fails, the reader goes, twenty seconds are over.  *)
Abandon ==
    /\ report.at \notin {"idle", "answer"} /\ Fails /\ report' = Idle
    /\ UNCHANGED <<live, owner, chart, hooks, events>>

Init ==
    /\ chart \in Object /\ live = chart
    /\ owner = [f \in Fields |-> IF chart[f] = None THEN "nobody" ELSE "helm"]
    /\ hooks \in [Hooks -> Rows]
    /\ report = Idle
    /\ events = 0 /\ troubles = 0

Next ==
    \/ Edit \/ Upgrade \/ RunHook \/ SetEnabled
    \/ Begin \/ Check \/ Own \/ Mark \/ Answer \/ Abandon

Spec == Init /\ [][Next]_vars

---------------------------------------------------------------------------
TypeOK ==
    /\ live \in Object /\ chart \in Object
    /\ owner \in [Fields -> Owners]
    /\ hooks \in [Hooks -> Rows]
    /\ report.at \in {"idle", "check", "own", "match", "answer"}

(* A report that finds nothing, about a cluster that did not change while it *)
(* was made, is right: every patch of an enabled hook is in the object, and  *)
(* every field a person set is what the chart gives it.  The upgrade outside *)
(* MatrixCtrl that reverted the patches with every screen green is what the  *)
(* report is there for (drift.go 1-16, Status, manualEdits,                  *)
(* markChartMatches).                                                        *)
GreenMeansInEffect ==
    report.at = "answer" /\ report.alone =>
        /\ Count("drifted") = 0 /\ Count("unknown") = 0 =>
             \A h \in PatchActions : \A f \in DOMAIN hooks[h].sets : live[f] = hooks[h].sets[f]
        /\ ~report.partial /\ Unmaintained = {} /\ ByHand = {} =>
             \A f \in Fields : owner[f] = "human" => live[f] = chart[f]
=============================================================================
