--------------------------- MODULE HelmChartProxy ---------------------------
(***************************************************************************)
(* The HelmChartProxy reconciler of                                        *)
(* src/controllers/helmchartproxy/helmchartproxy_controller.go, for one    *)
(* HelmChartProxy object, together with the parts of its environment the   *)
(* reconciler observes: the Cluster label selection, the HelmReleaseProxy  *)
(* objects in the API server and the HelmReleaseProxy controller that      *)
(* installs them, and the user who edits or deletes the proxy.             *)
(*                                                                         *)
(* A reconcile pass is split at the remote calls after which the store can *)
(* change under it: Reconcile (Get, list, finalizer, reconcileNormal),      *)
(* Aggregate (the re-list in aggregateHelmReleaseProxyReadyCondition) and  *)
(* Patch (the deferred patchHelmChartProxy).  The status the pass builds   *)
(* lives in worker.obj until Patch writes it to stored.                    *)
(***************************************************************************)
EXTENDS Naturals, FiniteSets, Sequences, SequencesExt

CONSTANTS
    Clusters,          \* cluster identities; < is the "namespace/name" order
    Nil,               \* an unset pointer (nil RolloutOptions or IntOrString)
    ReconcileStrategy, \* Spec.ReconcileStrategy: "Normal" or "InstallOnce"
    Rollout,           \* Spec.Rollout: Nil or [install |-> Opts, upgrade |-> Opts]
    InitSelected,      \* clusters matching the selector when the proxy is created
    MaxGeneration,     \* bound on user edits of the proxy's spec
    MaxLabelChanges,   \* bound on Cluster label changes (selection churn)
    MaxFaults,         \* bound on failed API calls (list, patch, create/update)
    MaxReleaseDeletions, \* bound on releases deleted by another writer
    ReleaseMayFail,    \* an install can report Ready=False before succeeding
    UserMayDelete      \* the user may delete the proxy

ASSUME /\ Clusters \subseteq Nat
       /\ InitSelected \subseteq Clusters
       /\ ReconcileStrategy \in {"Normal", "InstallOnce"}
       /\ MaxGeneration \in Nat \ {0}
       /\ {MaxLabelChanges, MaxFaults, MaxReleaseDeletions} \subseteq Nat

VARIABLES
    selected,      \* clusters the ClusterSelector currently matches
    labelChanges,  \* label changes made so far
    hrp,           \* HelmReleaseProxies labelled with the proxy, by cluster
    hcp,           \* the proxy's metadata and spec: exists, generation, deleting
    stored,        \* the proxy's finalizer and status as persisted
    worker,        \* the reconcile pass in flight
    faults,        \* failed API calls so far
    deletions      \* releases deleted by another writer so far

vars == <<selected, labelChanges, hrp, hcp, stored, worker, faults, deletions>>

-----------------------------------------------------------------------------
(* Data *)

\* An IntOrString step value: an absolute count or a percentage.
StepValue == [pct : BOOLEAN, val : Nat]

\* The conditions the reconciler reads back: HelmReleaseProxiesReady is
\* "Unknown" while unset; RolloutCompleted is "Unset", "True", "False", or
\* "Undefined" (True with reason RolloutUndefined).
ReadyValues == {"Unknown", "False", "True"}
CompletedValues == {"Unset", "True", "False", "Undefined"}

\* A HelmReleaseProxy: the proxy generation whose spec it carries, whether
\* its controller has observed that spec (ObservedGeneration = Generation),
\* its Ready condition, and whether its deletion has been requested.
Release == [applied : 1..MaxGeneration, observed : BOOLEAN,
            ready : BOOLEAN, deleting : BOOLEAN]

\* The part of the proxy this reconciler writes: finalizer and status.
Status == [finalizer : BOOLEAN, count : Nat, stepSize : Nat,
           readyCond : ReadyValues, completed : CompletedValues]

\* Step sizes above the number of clusters all walk the whole sorted list,
\* so the persisted StepSize is saturated there to keep the model finite.
StepCap == Cardinality(Clusters)
Sat(n) == IF n > StepCap THEN StepCap ELSE n

Idle == [pc |-> "idle", obj |-> [finalizer |-> FALSE, count |-> 0,
         stepSize |-> 0, readyCond |-> "Unknown", completed |-> "Unset"],
         created |-> {}, panicked |-> FALSE, requeue |-> FALSE]

-----------------------------------------------------------------------------
(* Batch planner *)

\* Fault model: the comparator's results swapped (descending order).
SortedDescending(S) == SetToSortSeq(S, >)

\* rolloutMetaSorted: the selected clusters in "namespace/name" order.
Sorted(S) == SetToSortSeq(S, <)

\* intstr.GetScaledValueFromIntOrPercent(v, total, true): a percentage
\* scales to ceil(val * total / 100), a count is itself.
ScaledValue(v, total) == IF v.pct THEN (v.val * total + 99) \div 100 ELSE v.val

\* An optional step value resolves to 0 when it is nil.
OptScaled(v, total) == IF v = Nil THEN 0 ELSE ScaledValue(v, total)

\* The next step size: the old one plus the increment, capped at the limit
\* only when the limit is above the initial step.
NextStepSize(old, inc, limit, init) ==
    IF limit > init /\ old + inc > limit THEN limit ELSE old + inc

\* The first batch: the loop that reconciles sorted clusters until
\* count reaches stepSize.
FirstBatch(seq, stepSize) ==
    SubSeq(seq, 1, IF stepSize < Len(seq) THEN stepSize ELSE Len(seq))

\* Fault model: the defensive check on existing releases that are not
\* Ready is dropped.
RECURSIVE NextBatchWithoutReadyCheck(_, _, _, _)
NextBatchWithoutReadyCheck(seq, H, count, stepSize) ==
    IF seq = <<>> \/ count >= stepSize THEN <<>>
    ELSE IF Head(seq) \in DOMAIN H
         THEN NextBatchWithoutReadyCheck(Tail(seq), H, count, stepSize)
    ELSE <<Head(seq)>> \o NextBatchWithoutReadyCheck(Tail(seq), H, count + 1, stepSize)

\* Fault model: count++ also runs for the clusters that are skipped.
RECURSIVE NextBatchCountingSkipped(_, _, _, _)
NextBatchCountingSkipped(seq, H, count, stepSize) ==
    IF seq = <<>> THEN <<>>
    ELSE IF Head(seq) \in DOMAIN H /\ ~H[Head(seq)].ready THEN <<>>
    ELSE IF count >= stepSize THEN <<>>
    ELSE <<Head(seq)>> \o NextBatchCountingSkipped(Tail(seq), H, count + 1, stepSize)

\* The next batch: walk the sorted clusters, stop at a release that exists
\* but is not Ready or once stepSize clusters were created, skip clusters
\* whose release exists, create the others.
RECURSIVE NextBatch(_, _, _, _)
NextBatch(seq, H, count, stepSize) ==
    IF seq = <<>> THEN <<>>
    ELSE LET c == Head(seq) IN
         IF c \in DOMAIN H /\ ~H[c].ready THEN <<>>
         ELSE IF count >= stepSize THEN <<>>
         ELSE IF c \in DOMAIN H THEN NextBatch(Tail(seq), H, count, stepSize)
         ELSE <<c>> \o NextBatch(Tail(seq), H, count + 1, stepSize)

\* Fault model: the deferred update forgets the old count.
NewCountDroppingOld(old, created) == created

\* The deferred status update of the True branch: the old Count plus the
\* clusters reconciled by this pass.
NewCount(old, created) == old + created

\* While HelmReleaseProxiesReady is False only existing releases are touched.
ExistingInOrder(seq, H) == SelectSeq(seq, LAMBDA c : c \in DOMAIN H)

-----------------------------------------------------------------------------
(* Calls to the API server made by helpers outside this file *)

\* Fault model: the release is stamped one generation ahead.
NewReleaseNextGeneration(gen) == [applied |-> gen + 1, observed |-> FALSE,
                                  ready |-> FALSE, deleting |-> FALSE]

\* A new release carries the current spec and has no Ready condition yet.
NewRelease(gen) == [applied |-> gen, observed |-> FALSE,
                    ready |-> FALSE, deleting |-> FALSE]

\* reconcileForCluster: create the cluster's release, or update it to the
\* current spec (which bumps its generation past ObservedGeneration).
ApplyRelease(H, c, gen) ==
    IF c \notin DOMAIN H THEN NewRelease(gen)
    ELSE IF H[c].applied = gen THEN H[c]
    ELSE [H[c] EXCEPT !.applied = gen, !.observed = FALSE]

ApplyReleases(H, cs, gen) ==
    [c \in DOMAIN H \cup cs |-> IF c \in cs THEN ApplyRelease(H, c, gen)
                                ELSE H[c]]

\* Fault model: orphaned releases are left in place.
DeleteOrphansSkipped(H, S) == H

\* deleteOrphanedHelmReleaseProxies: request deletion of every release
\* whose cluster is no longer selected.
DeleteOrphans(H, S) ==
    [c \in DOMAIN H |-> IF c \in S THEN H[c]
                        ELSE [H[c] EXCEPT !.deleting = TRUE]]

\* conditions.SetAggregate over releases' Ready conditions.
AggregateReady(H) ==
    IF \A c \in DOMAIN H : H[c].ready THEN "True" ELSE "False"

\* A sequence of calls runs k of them successfully; k below the length
\* means call k+1 returned an error, which ends the pass.
Successes(seq) ==
    IF faults < MaxFaults THEN 0..Len(seq) ELSE {Len(seq)}

\* The ctrl.Result of reconcileNormal: every branch requeues or returns an
\* error except the completion branch and a pass without rollout options.
Requeues(o) == o.err \/ o.obj.completed \notin {"True", "Undefined"}

Outcome(H, obj, err) ==
    [rel |-> H, obj |-> obj, err |-> err, panicked |-> FALSE]

\* Reconcile the first k clusters of seq, for every k the faults allow.
ReconcileSeq(H, obj, seq, gen) ==
    {Outcome(ApplyReleases(H, ToSet(SubSeq(seq, 1, k)), gen), obj,
             k < Len(seq)) : k \in Successes(seq)}

-----------------------------------------------------------------------------
(* reconcileNormal and rolloutReconcile *)

\* The rollout options of the active phase: Install on generation 1,
\* Upgrade afterwards; Nil when the phase has none.
ActivePolicy(gen) ==
    IF Rollout = Nil THEN Nil
    ELSE IF gen = 1 THEN Rollout.install ELSE Rollout.upgrade

\* No rollout options: RolloutCompleted is True (RolloutUndefined) and
\* every selected cluster is reconciled.
NoRollout(H, obj, S, gen) ==
    ReconcileSeq(H, [obj EXCEPT !.completed = "Undefined"], Sorted(S), gen)

\* rolloutReconcile, given the listed releases H (after orphan deletion
\* requests, which leave them listed) and the persisted status in obj.
RolloutReconcile(H, obj, S, gen, opts) ==
    LET total == Cardinality(S)
        seq == Sorted(S)
        obj1 == [obj EXCEPT !.completed = "False"]
    IN
    IF total = obj.count THEN {Outcome(H, [obj EXCEPT !.completed = "True"], FALSE)}
    \* a listed release whose cluster is not selected has no metadata entry:
    \* meta is nil and meta.hrpExists = true panics
    ELSE IF ~(DOMAIN H \subseteq S)
    THEN {[rel |-> H, obj |-> obj1, err |-> TRUE, panicked |-> TRUE]}
    ELSE IF obj.readyCond = "Unknown" THEN
        IF DOMAIN H # {} THEN {Outcome(H, obj1, FALSE)}
        ELSE IF opts.stepInit = Nil THEN {Outcome(H, obj1, TRUE)}
        ELSE LET step == ScaledValue(opts.stepInit, total)
                 batch == FirstBatch(seq, step)
             IN {Outcome(ApplyReleases(H, ToSet(SubSeq(batch, 1, k)), gen),
                         [obj1 EXCEPT !.count = k, !.stepSize = Sat(step)],
                         k < Len(batch)) : k \in Successes(batch)}
    ELSE IF obj.readyCond = "False" THEN
        ReconcileSeq(H, obj1, ExistingInOrder(seq, H), gen)
    ELSE LET step == Sat(NextStepSize(obj.stepSize,
                                      OptScaled(opts.stepIncrement, total),
                                      OptScaled(opts.stepLimit, total),
                                      OptScaled(opts.stepInit, total)))
             batch == NextBatch(seq, H, 0, step)
         IN {Outcome(ApplyReleases(H, ToSet(SubSeq(batch, 1, k)), gen),
                     [obj1 EXCEPT !.count = NewCount(obj.count, k), !.stepSize = step],
                     k < Len(batch)) : k \in Successes(batch)}

\* reconcileNormal: orphan deletion unless InstallOnce, then dispatch.
ReconcileNormal(H, obj, S, gen) ==
    LET H1 == IF ReconcileStrategy # "InstallOnce" THEN DeleteOrphans(H, S)
              ELSE H
        opts == ActivePolicy(gen)
    IN IF opts = Nil THEN NoRollout(H1, obj, S, gen)
       ELSE RolloutReconcile(H1, obj, S, gen, opts)

-----------------------------------------------------------------------------
(* The reconciler's steps *)

Init ==
    /\ selected = InitSelected
    /\ labelChanges = 0
    /\ hrp = <<>>
    /\ hcp = [exists |-> TRUE, generation |-> 1, deleting |-> FALSE]
    /\ stored = Idle.obj
    /\ worker = Idle
    /\ faults = 0
    /\ deletions = 0

\* listClustersWithLabels or listInstalledReleases returns an error: the
\* pass ends before the finalizer check, in either branch, and the deferred
\* patch writes the unchanged status back.
ListFailed ==
    /\ worker.pc = "idle"
    /\ hcp.exists
    /\ faults < MaxFaults
    /\ faults' = faults + 1
    /\ worker' = [Idle EXCEPT !.pc = "patch", !.obj = stored, !.requeue = TRUE]
    /\ UNCHANGED <<selected, labelChanges, hrp, hcp, stored, deletions>>

\* Reconcile up to reconcileNormal for a proxy that is not being deleted:
\* register the finalizer (its own patch), then reconcileNormal.
Reconcile ==
    /\ worker.pc = "idle"
    /\ hcp.exists
    /\ ~hcp.deleting
    /\ \/ /\ ~stored.finalizer
          /\ faults < MaxFaults
          /\ faults' = faults + 1
          /\ UNCHANGED <<hrp, stored, worker>>
       \/ LET obj == [stored EXCEPT !.finalizer = TRUE] IN
          /\ stored' = obj
          /\ \E o \in ReconcileNormal(hrp, obj, selected, hcp.generation) :
                /\ hrp' = o.rel
                /\ worker' = [pc |-> IF o.err THEN "patch" ELSE "aggregate",
                              obj |-> o.obj,
                              created |-> DOMAIN o.rel \ DOMAIN hrp,
                              panicked |-> o.panicked,
                              requeue |-> Requeues(o)]
                /\ faults' = faults + (IF o.err /\ ~o.panicked THEN 1 ELSE 0)
    /\ UNCHANGED <<selected, labelChanges, hcp, deletions>>

\* Get returns NotFound once the proxy is gone: nothing to do.
ReconcileMissing ==
    /\ worker.pc = "idle"
    /\ ~hcp.exists
    /\ UNCHANGED vars

\* deleteHelmReleaseProxy on every listed release: its deletion is
\* requested; the API server may remove it before the Get that follows.
RequestDeletion(H) == [c \in DOMAIN H |-> [H[c] EXCEPT !.deleting = TRUE]]

\* Fault model: every Get after Delete is taken for NotFound.
StillFoundIgnoringGet(H, gone) == {}

\* The releases the Get after Delete still finds: NotFound (gone from the
\* API server) continues, any release found is pending.
StillFound(H, gone) == DOMAIN H \ gone

\* reconcileDelete: delete every listed release and Get it again; a
\* release still found is pending.  With none pending the finalizer is
\* removed by its own patch and the API server removes the proxy.
ReconcileDelete ==
    /\ worker.pc = "idle"
    /\ hcp.exists
    /\ hcp.deleting
    /\ stored.finalizer
    /\ LET del == RequestDeletion(hrp) IN
       \E gone \in SUBSET {c \in DOMAIN del : del[c].deleting} :
        LET rel == Restrict(del, DOMAIN del \ gone)
            pending == StillFound(del, gone)
        IN /\ hrp' = rel
           /\ IF pending # {}
              THEN /\ worker' = [Idle EXCEPT !.pc = "patch",
                          !.obj = [stored EXCEPT !.readyCond =
                                      AggregateReady(Restrict(rel, pending))]]
                   /\ UNCHANGED <<hcp, stored, faults>>
              ELSE /\ worker' = Idle
                   /\ \/ /\ stored' = [stored EXCEPT !.finalizer = FALSE]
                         /\ hcp' = [hcp EXCEPT !.exists = FALSE]
                         /\ UNCHANGED faults
                      \/ /\ faults < MaxFaults
                         /\ faults' = faults + 1
                         /\ UNCHANGED <<hcp, stored>>
    /\ UNCHANGED <<selected, labelChanges, deletions>>

\* aggregateHelmReleaseProxyReadyCondition, after a successful
\* reconcileNormal: re-list the releases; vacuously True when there are
\* none; left as it was while one lags its ObservedGeneration.  A failed
\* re-list returns an error with the condition left as it was.
Aggregate ==
    /\ worker.pc = "aggregate"
    /\ \/ /\ worker' = [worker EXCEPT !.pc = "patch",
                       !.obj.readyCond =
                          IF DOMAIN hrp = {} THEN "True"
                          ELSE IF \E c \in DOMAIN hrp : ~hrp[c].observed THEN @
                          ELSE AggregateReady(hrp)]
          /\ UNCHANGED faults
       \/ /\ faults < MaxFaults
          /\ faults' = faults + 1
          /\ worker' = [worker EXCEPT !.pc = "patch", !.requeue = TRUE]
    /\ UNCHANGED <<selected, labelChanges, hrp, hcp, stored, deletions>>

\* The deferred patchHelmChartProxy at the end of every pass.
Patch ==
    /\ worker.pc = "patch"
    /\ worker' = Idle
    /\ \/ /\ stored' = worker.obj
          /\ UNCHANGED faults
       \/ /\ faults < MaxFaults
          /\ faults' = faults + 1
          /\ UNCHANGED stored
    /\ UNCHANGED <<selected, labelChanges, hrp, hcp, deletions>>

-----------------------------------------------------------------------------
(* The environment *)

\* Changes to the fleet, which reach the reconciler only through its
\* watches: Relabel and ExternalDelete are steps of WatchQueue's WSpec.
\* Spec is the reconciler over a stable fleet.

\* A Cluster's labels change so that it enters or leaves the selection.
Relabel(c) ==
    /\ labelChanges < MaxLabelChanges
    /\ selected' = IF c \in selected THEN selected \ {c} ELSE selected \cup {c}
    /\ labelChanges' = labelChanges + 1
    /\ UNCHANGED <<hrp, hcp, stored, worker, faults, deletions>>

\* The user edits the proxy's spec, which bumps its generation.
EditSpec ==
    /\ hcp.exists /\ ~hcp.deleting
    /\ hcp.generation < MaxGeneration
    /\ hcp' = [hcp EXCEPT !.generation = @ + 1]
    /\ UNCHANGED <<selected, labelChanges, hrp, stored, worker, faults, deletions>>

\* The user deletes the proxy; without a finalizer it is removed at once.
DeleteProxy ==
    /\ UserMayDelete
    /\ hcp.exists /\ ~hcp.deleting
    /\ hcp' = [hcp EXCEPT !.deleting = TRUE, !.exists = stored.finalizer]
    /\ UNCHANGED <<selected, labelChanges, hrp, stored, worker, faults, deletions>>

\* The HelmReleaseProxy controller reconciles a release's current spec and
\* sets its Ready condition.
ObserveRelease(c) ==
    /\ c \in DOMAIN hrp
    /\ ~hrp[c].observed /\ ~hrp[c].deleting
    /\ \E ok \in IF ReleaseMayFail THEN BOOLEAN ELSE {TRUE} :
          hrp' = [hrp EXCEPT ![c].observed = TRUE, ![c].ready = ok]
    /\ UNCHANGED <<selected, labelChanges, hcp, stored, worker, faults, deletions>>

\* A failed install is retried by the release controller and succeeds.
RecoverRelease(c) ==
    /\ c \in DOMAIN hrp
    /\ hrp[c].observed /\ ~hrp[c].ready /\ ~hrp[c].deleting
    /\ hrp' = [hrp EXCEPT ![c].ready = TRUE]
    /\ UNCHANGED <<selected, labelChanges, hcp, stored, worker, faults, deletions>>

\* Another writer (a user, a GitOps agent) deletes a release; its finalizer
\* keeps it listed, marked for deletion, until it is uninstalled.
ExternalDelete(c) ==
    /\ deletions < MaxReleaseDeletions
    /\ c \in DOMAIN hrp /\ ~hrp[c].deleting
    /\ hrp' = [hrp EXCEPT ![c].deleting = TRUE]
    /\ deletions' = deletions + 1
    /\ UNCHANGED <<selected, labelChanges, hcp, stored, worker, faults>>

\* A release whose deletion was requested is uninstalled and removed.
RemoveRelease(c) ==
    /\ c \in DOMAIN hrp
    /\ hrp[c].deleting
    /\ hrp' = [d \in DOMAIN hrp \ {c} |-> hrp[d]]
    /\ UNCHANGED <<selected, labelChanges, hcp, stored, worker, faults, deletions>>

ReconcilerStep ==
    Reconcile \/ ReconcileMissing \/ ReconcileDelete \/ Aggregate \/ Patch
    \/ ListFailed

ReleaseControllerStep ==
    \E c \in Clusters : ObserveRelease(c) \/ RecoverRelease(c) \/ RemoveRelease(c)

UserStep == EditSpec \/ DeleteProxy

Next == ReconcilerStep \/ ReleaseControllerStep \/ UserStep

\* The reconciler is re-run on every requeue and error, and the release
\* controller keeps reconciling its releases; the user need not act.
\* ReconcileDelete is not fair here: Reconcile drops its Requeue (line
\* 181), so another deletion pass needs a watch event, which WatchQueue
\* models.
Fairness ==
    /\ WF_vars(Reconcile)
    /\ WF_vars(Aggregate) /\ WF_vars(Patch)
    /\ \A c \in Clusters : /\ WF_vars(ObserveRelease(c))
                           /\ WF_vars(RecoverRelease(c))
                           /\ WF_vars(RemoveRelease(c))

Spec == Init /\ [][Next]_vars /\ Fairness

-----------------------------------------------------------------------------
(* Properties *)

TypeOK ==
    /\ selected \subseteq Clusters
    /\ labelChanges \in 0..MaxLabelChanges
    /\ DOMAIN hrp \subseteq Clusters
    /\ \A c \in DOMAIN hrp : hrp[c] \in Release
    /\ hcp \in [exists : BOOLEAN, generation : 1..MaxGeneration,
                deleting : BOOLEAN]
    /\ stored \in Status
    /\ worker.pc \in {"idle", "aggregate", "patch"}
    /\ worker.obj \in Status
    /\ worker.created \subseteq Clusters
    /\ worker.panicked \in BOOLEAN
    /\ worker.requeue \in BOOLEAN
    /\ faults \in 0..MaxFaults
    /\ deletions \in 0..MaxReleaseDeletions

\* While the proxy is not being deleted, the clusters with a release are a
\* prefix of the sorted selection: rolloutReconcile's first batch, its
\* walk that skips existing releases, and failures part-way through a
\* batch never leave a gap in the "namespace/name" order.
SortedPrefix ==
    ~hcp.deleting =>
        /\ DOMAIN hrp \subseteq selected
        /\ \A c \in DOMAIN hrp, d \in selected \ DOMAIN hrp : c < d

\* rolloutReconcile never creates a release for a new cluster while a
\* release that already exists is not Ready, although the Ready condition
\* it branches on was aggregated by an earlier pass.
NoAdvanceWhileUnready ==
    [][DOMAIN hrp' \ DOMAIN hrp # {} =>
         \A c \in DOMAIN hrp : hrp[c].ready]_vars

\* The persisted Status.Rollout.Count never exceeds the number of selected
\* clusters that have a release, across failed patches and failed calls
\* part-way through a batch.
CountWithinSelectedReleases ==
    ~hcp.deleting => stored.count <= Cardinality(selected \cap DOMAIN hrp)

\* A pass marks RolloutCompleted True only when every cluster it selected
\* has a release: the engine never claims final success while a candidate
\* cluster lacks one, whatever Count was persisted by earlier passes.
CompletionOnlyWhenAllReleased ==
    [][Reconcile /\ worker'.obj.completed = "True" =>
           selected \subseteq DOMAIN hrp']_vars

\* reconcileDelete removes the finalizer, letting the proxy go, only once
\* every release it listed is gone from the API server.
DeletionWaitsForReleases ==
    [][hcp.exists /\ ~hcp'.exists => DOMAIN hrp' = {}]_vars

\* The rollout finishes: every selected cluster gets a release and
\* RolloutCompleted stays True.
RolloutCompletes ==
    <>[](stored.completed = "True" /\ selected \subseteq DOMAIN hrp)

\* A proxy being deleted is eventually removed: reconcileDelete's passes,
\* re-run by the events of its releases' removal although Reconcile drops
\* their Requeue (line 181), end with the finalizer removed.
DeletionCompletes == hcp.deleting ~> ~hcp.exists

\* A release of a cluster that left the selection is eventually removed
\* (deleteOrphanedHelmReleaseProxies), unless the cluster comes back.
OrphansEventuallyRemoved ==
    \A c \in Clusters :
        (c \in DOMAIN hrp /\ c \notin selected) ~>
            (c \notin DOMAIN hrp \/ c \in selected)

\* A cluster that is (or comes to be) selected without a release, because
\* it joined the selection, eventually gets one unless the proxy is
\* deleted, even when the proxy had gone quiet after completing its rollout
\* (the Cluster mapper's old-and-new-labels enqueue, line 673) and across a
\* controller restart.  A release deleted by another writer, or a join
\* while another cluster leaves, is not covered: the completion test at
\* line 318 trusts Count (CompletionOnlyWhenAllReleased).
SelectedClusterEventuallyReleased ==
    \A c \in Clusters :
        (c \in selected) ~> (c \in DOMAIN hrp \/ c \notin selected \/ hcp.deleting)

\* A pass that creates no release leaves the persisted StepSize as it
\* was: rolloutReconcile's abort on a release that is not Ready is to take
\* no further action.
StepSizeGrowsOnlyWithBatch ==
    [][stored'.stepSize # stored.stepSize => worker.created # {}]_vars

\* rolloutReconcile finds a metadata entry for every release it lists
\* (no nil dereference at meta.hrpExists = true).
RolloutMetaDefined == ~worker.panicked

\* A spec edit reaches every selected cluster: eventually every selected
\* cluster's release carries the proxy's current generation.
UpgradeEventuallyApplied ==
    <>[](\A c \in selected : c \in DOMAIN hrp /\ hrp[c].applied = hcp.generation)

=============================================================================
