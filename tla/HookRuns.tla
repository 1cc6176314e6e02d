------------------------------ MODULE HookRuns ------------------------------
(***************************************************************************)
(* The hooks that put patches back after Helm took them away.  A trigger   *)
(* lists the hooks once and runs them one after the other; each run is a   *)
(* row that says running until its outcome is written.  Meanwhile hooks    *)
(* are edited, switched and deleted, a second trigger and a second Helm    *)
(* call run, statements fail, requests are given up, the process dies.     *)
(***************************************************************************)
EXTENDS Naturals, Sequences, SequencesExt

CONSTANTS Triggers,    \* triggers that run side by side, each once
          MaxEvents    \* edits of hooks, failures and deaths of the process, together

VARIABLES
    hook,     \* hook -> whether it exists, is enabled, and its actions
    chart,    \* hooks whose patch the newest release manifest sets by itself
    live,     \* hooks whose patch the live objects carry
    helm,     \* the trigger whose Helm call runs, or how the last one ended
    trigger,  \* trigger -> its kind, step, queued hooks and what it remembers
    row,      \* trigger -> hook -> status of the run in hook_run_log
    lost,     \* runs whose row the database never got, or never got the end of
    events    \* edits, failures and deaths so far

vars == <<hook, chart, live, helm, trigger, row, lost, events>>

\* A trigger is not the outcome of a Helm call.
Named == "deployed" \notin Triggers /\ "failed" \notin Triggers

\* Hooks in priority order.  The first is built in and follows upgrades, the
\* second is an operator's own and follows rollbacks.
Hooks      == {1, 2}
Builtin    == {1}
When(h)    == IF h = 1 THEN "post-upgrade" ELSE "post-rollback"
Statuses   == {"none", "running", "success", "skipped", "partial", "failed"}
Kinds      == {"post-upgrade", "post-rollback", "manual"}
ActionSets == {<<"patch">>, <<"patch", "wait">>, <<"call", "patch">>}
Waiting    == [kind |-> "manual", step |-> "idle", queue |-> {}, listed |-> {},
               ran |-> <<>>, quiet |-> FALSE, gone |-> FALSE]

TypeOK ==
    /\ hook \in [Hooks -> [there : BOOLEAN, enabled : BOOLEAN, actions : ActionSets]]
    /\ chart \in SUBSET Hooks
    /\ live \in SUBSET Hooks
    /\ helm \in Triggers \cup {"deployed", "failed"}
    /\ \A t \in Triggers :
         /\ trigger[t].kind \in Kinds
         /\ trigger[t].step \in {"idle", "helm", "list", "insert", "judge", "act", "close", "over"}
         /\ trigger[t].queue \subseteq [id : Hooks, actions : ActionSets]
         /\ trigger[t].listed \subseteq Hooks
         /\ \A i \in DOMAIN trigger[t].ran : trigger[t].ran[i] \in {"success", "skipped", "failed"}
         /\ trigger[t].quiet \in BOOLEAN /\ trigger[t].gone \in BOOLEAN
    /\ row \in [Triggers -> [Hooks -> Statuses]]
    /\ lost \in SUBSET (Triggers \X Hooks)
    /\ events \in 0..MaxEvents

Init ==
    /\ hook = [h \in Hooks |-> [there |-> TRUE, enabled |-> TRUE, actions |-> <<"patch", "wait">>]]
    /\ chart = {}
    /\ live = Hooks
    /\ helm = "deployed"
    /\ trigger = [t \in Triggers |-> Waiting]
    /\ row = [t \in Triggers |-> [h \in Hooks |-> "none"]]
    /\ lost = {}
    /\ events = 0

-----------------------------------------------------------------------------
At(t, step)   == trigger[t].step = step
Event         == events < MaxEvents /\ events' = events + 1
NoEvent       == UNCHANGED events
\* Whose turn it is, by priority, and who is left then.
Current(t)    == CHOOSE h \in trigger[t].queue : \A o \in trigger[t].queue : h.id <= o.id
Rest(t)       == trigger[t].queue \ {Current(t)}
\* A statement or call under a context that is gone fails by itself.
Fails(t)      == IF trigger[t].gone THEN NoEvent ELSE Event
Goes(t, step) == trigger' = [trigger EXCEPT ![t].step = step]

\* Upgrade, DeployESS, ApplyConfig: the newest release is this call's from now
\* on, whatever becomes of it.  Helm lets one operation run at a time.
HelmStarts(t, kind, rendered) ==
    /\ At(t, "idle")
    /\ helm \notin Triggers
    /\ helm' = t
    /\ chart' = rendered
    /\ trigger' = [s \in Triggers |->
                     IF s = t THEN [Waiting EXCEPT !.kind = kind, !.step = "helm", !.quiet = TRUE]
                              ELSE [trigger[s] EXCEPT !.quiet = FALSE]]
    /\ UNCHANGED <<hook, live, row, lost, events>>

(* The chart's fields are as the manifest has them; what it does not set   *)
(* may survive the three-way merge.                                        *)
HelmReturns(t, kept) ==
    /\ At(t, "helm")
    /\ live' = chart \cup (live \cap kept)
    /\ helm' = "deployed"
    /\ Goes(t, "list")
    /\ UNCHANGED <<hook, chart, row, lost, events>>

\* Helm gave up halfway: no trigger, and nobody knows what was applied.
HelmFails(t, now) ==
    /\ At(t, "helm")
    /\ live' = now
    /\ helm' = "failed"
    /\ Goes(t, "over")
    /\ Event
    /\ UNCHANGED <<hook, chart, row, lost>>

\* triggeredBy, listByTrigger
TriggeredBy(kind) == IF kind = "post-rollback" THEN {"post-rollback", "post-upgrade"} ELSE {kind}
Snapshot(ids) == {[id |-> h, actions |-> hook[h].actions] : h \in ids}

Begin(t, ids) ==
    trigger' = [trigger EXCEPT ![t].queue = Snapshot(ids), ![t].listed = ids,
                               ![t].step = IF ids = {} THEN "over" ELSE "insert"]

List(t) ==
    /\ At(t, "list")
    /\ \/ Begin(t, {h \in Hooks : hook[h].there /\ hook[h].enabled /\ When(h) \in TriggeredBy(trigger[t].kind)})
          /\ ~trigger[t].gone
          /\ NoEvent
       \/ Goes(t, "over") /\ Fails(t)
    /\ UNCHANGED <<hook, chart, live, helm, row, lost>>

\* The last Helm call went through, and none runs.
Deployed == helm = "deployed"

\* RunHookByID: any hook there is, enabled or not.
RunHookByID(t, h) ==
    /\ At(t, "idle")
    /\ hook[h].there
    /\ trigger' = [trigger EXCEPT ![t] = [Waiting EXCEPT !.step = "insert", !.listed = {h},
                       !.queue = Snapshot({h}), !.quiet = Deployed]]
    /\ UNCHANGED <<hook, chart, live, helm, row, lost, events>>

\* Fault: a hook that did not succeed ends the trigger.
NextHookFault(t, status) ==
    trigger' = [trigger EXCEPT ![t].queue = Rest(t), ![t].ran = <<>>,
                  ![t].step = IF Rest(t) = {} \/ status \notin {"success", "skipped"}
                              THEN "over" ELSE "insert"]

\* A hook that fails is logged, and the next one runs.
NextHook(t, status) ==
    trigger' = [trigger EXCEPT ![t].queue = Rest(t), ![t].ran = <<>>,
                  ![t].step = IF Rest(t) = {} THEN "over" ELSE "insert"]

\* The row's hook has to exist still, and the statement to get through.
Insert(t) ==
    /\ At(t, "insert")
    /\ ~trigger[t].gone
    /\ hook[Current(t).id].there
    /\ row' = [row EXCEPT ![t][Current(t).id] = "running"]
    /\ Goes(t, "judge")
    /\ UNCHANGED <<hook, chart, live, helm, lost, events>>

NotInserted(t) ==
    /\ At(t, "insert")
    /\ lost' = lost \cup {<<t, Current(t).id>>}
    /\ NextHook(t, "failed")
    /\ IF hook[Current(t).id].there THEN Fails(t) ELSE NoEvent
    /\ UNCHANGED <<hook, chart, live, helm, row>>

(* HookCoverage: every action a patch the newest manifest already sets, or *)
(* a wait.  A manifest that cannot be read covers nothing.                 *)
Covered(h, actions) == h \in chart /\ "call" \notin ToSet(actions)

Judge(t) ==
    /\ At(t, "judge")
    /\ \/ /\ Covered(Current(t).id, Current(t).actions)
          /\ trigger' = [trigger EXCEPT ![t].ran = <<"skipped">>, ![t].step = "close"]
          /\ NoEvent
       \/ /\ ~Covered(Current(t).id, Current(t).actions)
          /\ Goes(t, "act")
          /\ NoEvent
       \/ Covered(Current(t).id, Current(t).actions) /\ Goes(t, "act") /\ Event
    /\ UNCHANGED <<hook, chart, live, helm, row, lost>>

\* Actions run in order, until one fails; a patch whose answer was lost may be in.
Act(t) ==
    LET h    == Current(t)
        here == Len(trigger[t].ran) + 1
        Ran(result) == trigger' = [trigger EXCEPT ![t].ran = Append(@, result),
                          ![t].step = IF result = "failed" \/ here = Len(h.actions) THEN "close" ELSE "act"]
        Patched == IF h.actions[here] = "patch" THEN live \cup {h.id} ELSE live
    IN  /\ At(t, "act")
        /\ \/ ~trigger[t].gone /\ live' = Patched /\ Ran("success") /\ NoEvent
           \/ live' \in {live, Patched} /\ Ran("failed") /\ Fails(t)
        /\ UNCHANGED <<hook, chart, helm, row, lost>>

Outcome(ran) ==
    CASE ran[1] = "skipped"                                -> "skipped"
      [] Last(ran) = "failed" /\ ran[1] = "success"        -> "partial"
      [] Last(ran) = "failed"                              -> "failed"
      [] OTHER                                             -> "success"

Close(t) ==
    LET h == Current(t).id
        status == Outcome(trigger[t].ran)
    IN  /\ At(t, "close")
        /\ \/ /\ ~trigger[t].gone
              /\ row' = [row EXCEPT ![t][h] = status]
              /\ NoEvent
              /\ UNCHANGED lost
           \/ /\ lost' = lost \cup {<<t, h>>}
              /\ Fails(t)
              /\ UNCHANGED row
        /\ NextHook(t, status)
        /\ UNCHANGED <<hook, chart, live, helm>>

\* A rollback's hooks run under the request: its page may be closed.
Gone(t) ==
    /\ trigger[t].kind = "post-rollback"
    /\ trigger[t].step \notin {"idle", "over"}
    /\ ~trigger[t].gone
    /\ trigger' = [trigger EXCEPT ![t].gone = TRUE]
    /\ UNCHANGED <<hook, chart, live, helm, row, lost, events>>

-----------------------------------------------------------------------------
Edit(h, new) ==
    /\ Event
    /\ hook[h].there
    /\ hook' = [hook EXCEPT ![h] = new]
    /\ UNCHANGED <<chart, live, helm, trigger, row, lost>>

SetEnabled(h) == Edit(h, [hook[h] EXCEPT !.enabled = ~@])

Update(h, actions) == h \notin Builtin /\ Edit(h, [hook[h] EXCEPT !.actions = actions])

\* A hook that has runs is held by their rows.
Delete(h) ==
    /\ h \notin Builtin
    /\ \A t \in Triggers : row[t][h] = "none"
    /\ Edit(h, [hook[h] EXCEPT !.there = FALSE])

\* Whatever ran is over; its rows stay as they are. The actions of the
\* built-in hooks are those of the binary again.
Restart ==
    /\ Event
    /\ helm' = IF helm \in Triggers THEN "failed" ELSE helm
    /\ lost' = lost \cup {run \in Triggers \X Hooks :
                  LET t == run[1]
                      h == run[2]
                  IN  /\ trigger[t].step # "over" /\ h \in trigger[t].listed
                      /\ row[t][h] \in {"none", "running"}}
    /\ trigger' = [t \in Triggers |->
                     IF At(t, "idle") THEN trigger[t]
                     ELSE [trigger[t] EXCEPT !.step = "over", !.queue = {}, !.ran = <<>>]]
    /\ hook' = [h \in Hooks |-> IF h \in Builtin THEN [hook[h] EXCEPT !.actions = <<"patch", "wait">>]
                                                 ELSE hook[h]]
    /\ UNCHANGED <<chart, live, row>>

Next ==
    \/ \E t \in Triggers :
       \/ \E kind \in {"post-upgrade", "post-rollback"}, m \in SUBSET Hooks : HelmStarts(t, kind, m)
       \/ \E kept \in SUBSET Hooks : HelmReturns(t, kept)
       \/ \E now \in SUBSET Hooks : HelmFails(t, now)
       \/ List(t)
       \/ \E h \in Hooks : RunHookByID(t, h)
       \/ Insert(t) \/ NotInserted(t) \/ Judge(t) \/ Act(t) \/ Close(t)
       \/ Gone(t)
    \/ \E h \in Hooks :
       \/ SetEnabled(h)
       \/ \E actions \in ActionSets : Update(h, actions)
       \/ Delete(h)
    \/ Restart

Spec == Init /\ [][Next]_vars

-----------------------------------------------------------------------------
(* A trigger that is over has run every hook it listed, whatever became of *)
(* the ones before: each has a row with its end unless the database did    *)
(* not get it - and where the row says success or skipped, the objects     *)
(* carry the patch, as long as Helm has not been at them again.            *)
HooksHold ==
    \A t \in Triggers, h \in Hooks :
       At(t, "over") /\ h \in trigger[t].listed =>
          /\ row[t][h] \in {"none", "running"} => <<t, h>> \in lost
          /\ trigger[t].quiet /\ row[t][h] \in {"success", "skipped"} => h \in live
=============================================================================
