------------------------------ MODULE RolloutView ------------------------------
(* What an operator sees of a running upgrade, and the one thing the view    *)
(* does about it (internal/rollout/rollout.go, internal/k8s/rollout.go,      *)
(* hostport.go, internal/api/handlers/helm.go, helm_stream.go).              *)
(*                                                                           *)
(* While Helm writes the workloads and waits for them, one goroutine reads   *)
(* the cluster, part by part, and publishes a snapshot: a phase for the      *)
(* stepper and a state for each component.  Another one removes the old pod  *)
(* of a host-network workload when the new one waits for its ports.  The     *)
(* upgrade announces its own phases meanwhile, except the one it cannot see: *)
(* that Helm has begun to write.                                             *)
EXTENDS Naturals, FiniteSets

CONSTANTS
    Deployments,    \* workloads that start the new pod before the old one goes
    HostNetwork,    \* those of them whose pods hold ports of the node
    StatefulSets,   \* workloads that end the old pod first
    MaxTroubles,    \* bound: reads that fail and containers that crash
    None

VARIABLES
    spec,       \* workload -> [gen, seen]: written and observed generation
    pods,       \* workload -> [old, new]: its pods of either generation
    events,     \* events of the new pods: [refused, pulling]
    op,         \* the upgrade
    stream,     \* [phase, progress]: what the handler of the page reads
    snap,       \* the snapshot that is being taken
    probe,      \* the probe that looks for the deadlock
    troubles    \* bound

cluster == <<spec, pods, events>>
vars == <<cluster, op, stream, snap, probe, troubles>>

Workloads == Deployments \cup StatefulSets
Phases == {"config", "apply", "rollout", "hooks", "done"}
Old == {"ready", "leaving", "gone"}
New == {"none", "refused", "starting", "pulling", "failing", "ready"}

Fails == troubles < MaxTroubles /\ troubles' = troubles + 1
Works == UNCHANGED troubles

---------------------------------------------------------------------------
(* Kubernetes.  One replica each, at most one pod more during an update and  *)
(* none less: the old pod of a Deployment goes when the new one is ready.    *)
New_(w, st) == pods' = [pods EXCEPT ![w].new = st]
Old_(w, st) == pods' = [pods EXCEPT ![w].old = st]

Observe(w) ==
    /\ spec[w].seen < spec[w].gen
    /\ spec' = [spec EXCEPT ![w].seen = spec[w].gen]
    /\ UNCHANGED <<pods, events, op, stream, snap, probe, troubles>>

Rolling(w) == spec[w].seen = 2

(* The ports are those of the node: the old pod holds them until it is gone. *)
Create(w) ==
    /\ Rolling(w) /\ pods[w].new = "none"
    /\ w \in StatefulSets => pods[w].old = "gone"
    /\ IF w \in HostNetwork /\ pods[w].old # "gone"
         THEN New_(w, "refused") /\ events' = [events EXCEPT !.refused = @ \cup {w}]
         ELSE New_(w, "starting") /\ UNCHANGED events
    /\ UNCHANGED <<spec, op, stream, snap, probe, troubles>>

Place(w) ==
    /\ pods[w].new = "refused" /\ pods[w].old = "gone"
    /\ New_(w, "starting")
    /\ UNCHANGED <<spec, events, op, stream, snap, probe, troubles>>

Run(w) ==
    /\ \/ pods[w].new = "starting" /\ New_(w, "pulling") /\ Works
          /\ events' = [events EXCEPT !.pulling = @ \cup {w}]
       \/ pods[w].new \in {"starting", "pulling"} /\ New_(w, "failing") /\ Fails /\ UNCHANGED events
       \/ pods[w].new \in {"starting", "pulling", "failing"} /\ New_(w, "ready") /\ Works
          /\ UNCHANGED events
    /\ UNCHANGED <<spec, op, stream, snap, probe>>

Retire(w) ==
    /\ pods[w].old = "ready" /\ Rolling(w)
    /\ w \in Deployments => pods[w].new = "ready"
    /\ Old_(w, "leaving")
    /\ UNCHANGED <<spec, events, op, stream, snap, probe, troubles>>

Goes(w) ==
    /\ pods[w].old = "leaving" /\ Old_(w, "gone")
    /\ UNCHANGED <<spec, events, op, stream, snap, probe, troubles>>

(* The counters of the status: the replicas of the template that was seen    *)
(* last, and the ready ones of any template.  A pod that leaves counts not.  *)
Updated(w) == IF Rolling(w) THEN (IF pods[w].new = "none" THEN 0 ELSE 1) ELSE 1
Ready(w) == (IF pods[w].old = "ready" THEN 1 ELSE 0) + (IF pods[w].new = "ready" THEN 1 ELSE 0)
Settled(w) == spec[w].seen = spec[w].gen

(* RolloutWorkload.Done, and the first case of BuildProgress                 *)
Done(w) == Settled(w) /\ Updated(w) = 1 /\ Ready(w) = 1

(* Every replica runs what was written and is ready.                         *)
InPlace(w) == Settled(w) /\ (Rolling(w) => pods[w].new = "ready" /\ pods[w].old # "ready")

---------------------------------------------------------------------------
(* The upgrade.  setPhase also changes the snapshot that is shown.           *)
\* Fault: the phase of the snapshot that is shown stays.
SetPhaseFault(ph) == [stream EXCEPT !.phase = ph]

SetPhase(ph) ==
    [phase |-> ph,
     progress |-> IF stream.progress = None THEN None
                  ELSE [stream.progress EXCEPT !.phase = ph]]

(* The operation announces a phase; a snapshot in flight may not know it.    *)
Announce(ph) ==
    /\ stream' = SetPhase(ph)
    /\ snap' = [snap EXCEPT !.crossed = TRUE]

StartApply ==
    /\ op = "config" /\ op' = "apply"
    /\ Announce("apply")
    /\ UNCHANGED <<cluster, probe, troubles>>

(* Inside of helm.Upgrade: the workloads are written, one by one ...         *)
HelmWrites(w) ==
    /\ op = "apply" /\ spec[w].gen = 1
    /\ spec' = [spec EXCEPT ![w].gen = 2]
    /\ UNCHANGED <<pods, events, op, stream, snap, probe, troubles>>

(* ... and waited for.  It fails, or ten minutes are over.                   *)
HelmReturns ==
    /\ op = "apply"
    /\ \/ \A w \in Workloads : InPlace(w) /\ op' = "helmed" /\ Works
       \/ op' = "failing" /\ Fails
    /\ UNCHANGED <<cluster, stream, snap, probe>>

(* stopProgress waits for the probe.  A failed upgrade announces no phase.   *)
HelmSucceeded ==
    /\ op = "helmed" /\ probe.at = "idle" /\ op' = "hooks"
    /\ Announce("hooks")
    /\ UNCHANGED <<cluster, probe, troubles>>

HelmFailed ==
    /\ op = "failing" /\ probe.at = "idle" /\ op' = "over"
    /\ UNCHANGED <<cluster, stream, snap, probe, troubles>>

Finish ==
    /\ op = "hooks" /\ op' = "over"
    /\ Announce("done")
    /\ UNCHANGED <<cluster, probe, troubles>>

---------------------------------------------------------------------------
(* startSnapshots: one snapshot after the other, the last one is waited for. *)
NoReads == [w \in {} |-> None]
Taken == [at |-> "idle", phase |-> None, read |-> NoReads, blocked |-> {}, crossed |-> FALSE]

SnapPhase ==
    /\ snap.at = "idle" /\ op # "over"
    /\ snap' = [Taken EXCEPT !.at = "deployments", !.phase = stream.phase]
    /\ UNCHANGED <<cluster, op, stream, probe, troubles>>

(* WorkloadRollout: a list that fails leaves a partial answer.               *)
ReadWorkloads(kind, next) ==
    \/ /\ Works
       /\ snap' = [snap EXCEPT !.at = next,
              !.read = [w \in DOMAIN @ \cup kind |->
                  IF w \notin kind THEN @[w]
                  ELSE [done |-> Done(w), begun |-> Settled(w) /\ Updated(w) > 0]]]
    \/ Fails /\ snap' = [snap EXCEPT !.at = next]

SnapDeployments ==
    /\ snap.at = "deployments" /\ ReadWorkloads(Deployments, "statefulsets")
    /\ UNCHANGED <<cluster, op, stream, probe>>

SnapStatefulSets ==
    /\ snap.at = "statefulsets" /\ ReadWorkloads(StatefulSets, "promote")
    /\ UNCHANGED <<cluster, op, stream, probe>>

Publish(ph, comps) ==
    stream' = [stream EXCEPT !.progress =
        [phase |-> ph, comps |-> comps, crossed |-> snap.crossed]]

(* Without any answer the phase alone is published; with one, the first      *)
(* workload that is not done any more turns apply into rollout.              *)
SnapPromote ==
    /\ snap.at = "promote"
    /\ IF DOMAIN snap.read = {}
         THEN Publish(snap.phase, NoReads) /\ snap' = Taken
         ELSE IF snap.phase = "apply" /\ \E w \in DOMAIN snap.read : ~snap.read[w].done
           THEN /\ stream' = SetPhase("rollout")
                /\ snap' = [snap EXCEPT !.phase = "rollout", !.at = "pods"]
           ELSE snap' = [snap EXCEPT !.at = "pods"] /\ UNCHANGED stream
    /\ UNCHANGED <<cluster, op, probe, troubles>>

(* Assess: a pod that waits for its image or its volumes only starts, one    *)
(* whose container exits or crashes is a blocker.                            *)
Failing(w) == pods[w].new = "failing"

(* RolloutState: the pods that are not ready and not on their way out.       *)
SnapPods ==
    /\ snap.at = "pods"
    /\ \/ Works /\ snap' = [snap EXCEPT !.at = "pulls",
                              !.blocked = {w \in Workloads : Failing(w)}]
       \/ Fails /\ snap' = [snap EXCEPT !.at = "pulls"]
    /\ UNCHANGED <<cluster, op, stream, probe>>

(* BuildProgress                                                             *)
State(w, pulling) ==
    IF snap.read[w].done THEN "ready"
    ELSE IF w \in snap.blocked THEN "failing"
    ELSE IF w \in pulling THEN "pulling"
    ELSE IF snap.read[w].begun THEN "starting"
    ELSE "waiting"

(* PullingPods: the events of this upgrade; then the snapshot is published.  *)
SnapPulls ==
    /\ snap.at = "pulls"
    /\ \E pulling \in {events.pulling, {}} :
         /\ IF pulling = events.pulling THEN Works ELSE Fails
         /\ Publish(snap.phase, [w \in DOMAIN snap.read |-> State(w, pulling)])
    /\ snap' = Taken
    /\ UNCHANGED <<cluster, op, probe>>

---------------------------------------------------------------------------
(* rolloutProbe, on the ticker of the log while helm.Upgrade runs.           *)
ProbeIdle == [at |-> "idle", pending |-> {}, running |-> {}, victims |-> {}]

\* Fault: any pending successor will do, whatever keeps it from starting.
VictimsFault(pending, running) == pending \cap running

(* hostPortVictims: the pending pod and the running one belong to the same   *)
(* workload, both use the host network, and the scheduler said "ports".      *)
Victims(pending, running) == pending \cap running \cap HostNetwork \cap events.refused

ProbeList ==
    /\ probe.at = "idle" /\ op = "apply"
    /\ probe' = [at |-> "listed", victims |-> {},
                 pending |-> {w \in Workloads : pods[w].new \in {"refused", "starting", "pulling"}},
                 running |-> {w \in Workloads : pods[w].old = "ready"}]
    /\ UNCHANGED <<cluster, op, stream, snap, troubles>>

ProbeAsks ==
    /\ probe.at = "listed"
    /\ probe' = [probe EXCEPT !.at = "delete", !.victims = Victims(probe.pending, probe.running)]
    /\ UNCHANGED <<cluster, op, stream, snap, troubles>>

(* One deletion after the other; an error ends it.                           *)
ProbeDeletes ==
    /\ probe.at = "delete"
    /\ IF probe.victims = {} THEN probe' = ProbeIdle /\ Works /\ UNCHANGED cluster
       ELSE \/ /\ \E w \in probe.victims :
                    /\ IF pods[w].old = "gone" THEN UNCHANGED pods ELSE Old_(w, "leaving")
                    /\ probe' = IF pods[w].old = "gone" THEN ProbeIdle
                                ELSE [probe EXCEPT !.victims = @ \ {w}]
               /\ UNCHANGED <<spec, events>> /\ Works
            \/ Fails /\ probe' = ProbeIdle /\ UNCHANGED cluster
    /\ UNCHANGED <<op, stream, snap>>

---------------------------------------------------------------------------
Init ==
    /\ spec = [w \in Workloads |-> [gen |-> 1, seen |-> 1]]
    /\ pods = [w \in Workloads |-> [old |-> "ready", new |-> "none"]]
    /\ events = [refused |-> {}, pulling |-> {}]
    /\ op = "config" /\ stream = [phase |-> "config", progress |-> None]
    /\ snap = Taken /\ probe = ProbeIdle
    /\ troubles = 0

Next ==
    \/ \E w \in Workloads : Observe(w) \/ Create(w) \/ Place(w) \/ Run(w) \/ Retire(w) \/ Goes(w)
    \/ StartApply \/ \E w \in Workloads : HelmWrites(w)
    \/ HelmReturns \/ HelmSucceeded \/ HelmFailed \/ Finish
    \/ SnapPhase \/ SnapDeployments \/ SnapStatefulSets \/ SnapPromote \/ SnapPods \/ SnapPulls
    \/ ProbeList \/ ProbeAsks \/ ProbeDeletes

Spec == Init /\ [][Next]_vars

---------------------------------------------------------------------------
TypeOK ==
    /\ pods \in [Workloads -> [old : Old, new : New]]
    /\ op \in {"config", "apply", "helmed", "failing", "hooks", "over"}
    /\ stream.phase \in Phases

(* Nothing but the deadlock is taken down: the old pod of a Deployment stays *)
(* until its successor is ready, or was refused the ports the old one holds, *)
(* however old the list of pods is the probe acts upon (hostPortVictims).    *)
PredecessorStays ==
    \A w \in Deployments :
        pods[w].old # "ready" => pods[w].new = "ready" \/ w \in HostNetwork \cap events.refused

(* The phase a page is shown is the one the upgrade announced last, or the   *)
(* rollout it turned into; only a snapshot that was in flight when the       *)
(* upgrade announced one can show an earlier one (setPhase, startSnapshots). *)
(* Nor does a snapshot say rollout before Helm wrote anything.               *)
StepperIsTrue ==
    /\ stream.progress # None /\ ~stream.progress.crossed =>
         stream.progress.phase = stream.phase
    /\ stream.phase = "rollout" => \E w \in Workloads : spec[w].gen = 2

RolloutIsTold == PredecessorStays /\ StepperIsTrue

(* "Done reports the condition Helm's own ReadyChecker applies: the          *)
(* controller has seen the current spec, and every replica exists, runs it,  *)
(* and is ready" (k8s/rollout.go): a component a snapshot takes for done,    *)
(* and shows as ready, is in place when it is read.                          *)
ReadyIsReady ==
    [][\A w \in DOMAIN snap'.read \ DOMAIN snap.read : snap'.read[w].done => InPlace(w)]_vars
=============================================================================
