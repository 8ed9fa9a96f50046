# TLA+ models of the HelmChartProxy reconciler

This directory holds the TLA+ models and TLC configurations for
`src/controllers/helmchartproxy/helmchartproxy_controller.go`. That file
holds the controller that rolls a Helm chart out to the Cluster API clusters
a `HelmChartProxy` selects. The rollout is staged when the proxy has a
`Spec.Rollout` policy. `PROJECT.json` lists the components, the runs, the
mutants, the source map, the findings and the hazards.

## 1. Inventory

### Components and their state

| Component | Code | State it keeps | Operations |
|---|---|---|---|
| Reconcile entry | `Reconcile` (104-210) | none of its own: reads the proxy, lists Clusters and HelmReleaseProxies (HRPs) each pass | Get / NotFound, register the finalizer (own patch), branch on deletion, call reconcileNormal, aggregate, deferred patch |
| Batch planner | `rolloutReconcile` 336-377, 386-390, 448-476 | none (per pass) | sort clusters by `namespace/name`, scale IntOrPercent with round-up, next step size with the cap rule |
| Rollout state machine | `rolloutReconcile` (296-516) | persisted `Status.Rollout{Count, StepSize}`, the `RolloutCompleted` condition; reads the `HelmReleaseProxiesReady` condition | completion test; Unknown branch (first batch); False branch (touch existing); True branch (next batch, defensive readiness check) |
| Orphan and deletion reconciler | `reconcileNormal` 219-225, `reconcileDelete` (518-553) | the finalizer | delete releases of deselected clusters; on deletion delete each release, Get it, remove the finalizer when none is found |
| Readiness aggregator | `aggregateHelmReleaseProxyReadyCondition` (583-618) | the `HelmReleaseProxiesReady` condition | re-list releases; vacuously True; return early while one lags its ObservedGeneration; aggregate Ready |
| Status patch | `patchHelmChartProxy` (620-643) | writes all of the above | summary condition + patch with owned conditions; may fail |
| Watches and work queue | `SetupWithManager` (73-89), mappers 645-714 | the proxy's key in the work queue | enqueue on proxy, HRP and Cluster events; the Cluster mapper drops an event on a List or selector error; requeue on a pass's Result or error |
| Outside `src/` | `reconcileForCluster`, `deleteOrphanedHelmReleaseProxies`, `deleteHelmReleaseProxy`, the HRP controller | the HRP objects | create or update a release; request its deletion; install, report Ready and ObservedGeneration, uninstall |
| Registry client test | `src/internal/helm_client_test.go` | none | TLS/credentials setup; pure I/O, not modelled |

### How they interact
There is one worker per proxy key, so a single pass of `Reconcile` runs at a
time for a proxy. It shares state with other actors only through the API
server:
- the user edits the spec (the generation goes up) or deletes the proxy;
- Cluster labels change the selection;
- another writer (a user, a GitOps prune) may delete a release;
- the HRP controller moves each release's ObservedGeneration and Ready
  condition, and removes releases whose deletion was requested.

A pass reads the proxy's persisted status, which was written by the previous
pass. It lists Clusters and releases fresh, creates, updates or deletes
releases, lists the releases again to aggregate readiness, and writes the
status in a deferred patch. Every unfinished branch returns `Requeue`, and
events from Clusters and releases enqueue the proxy again.

### What is hard
- **Stale control state.** The branch is chosen by a condition that an
  earlier pass aggregated. That pass's aggregation returns early whenever a
  new release lags its ObservedGeneration, which is the normal case right
  after a batch is created.
- **Non-idempotent counting.** `Count` is *old Count + releases created
  by this pass*. It is never recomputed from the releases that exist.
- **Partial failure.** Releases are created before the status patch. A call
  can fail in the middle of a batch, and the patch itself can fail.
- **Selection churn.** A release whose cluster is no longer selected can
  still be listed: always with InstallOnce, and with Normal until the API
  server removes it.
- **Deletion.** Delete, then Get: a release may still exist or may already be
  gone when the Get runs.

### Properties each component needs
- Planner and state machine:
  - batches follow the sorted order;
  - no new batch starts while an existing release is not Ready;
  - `Count` never overstates the selected clusters that have a release,
    and never decreases;
  - an aborted pass changes nothing;
  - the rollout completes;
  - a spec edit reaches every cluster;
  - a selected cluster without a release, also one whose release another
    writer deleted, eventually gets one;
  - RolloutCompleted is never claimed while a selected cluster lacks a
    release;
  - the whole of it refines a short statement of the staged rollout.
- Watches and work queue: a selected cluster, an orphan and a deletion are
  eventually handled with the reconciler run only when its key is queued.
- Orphan and deletion reconciler:
  - releases of deselected clusters are eventually removed;
  - the finalizer is removed only when no release remains;
  - deletion completes.
- Aggregator: it reports readiness of the current releases and is vacuously
  True with no releases. This is exercised through the state machine's
  properties.

## 2. Modules

### `HelmChartProxy.tla`: the reconciler and its environment
The module models one proxy. Its state:
- `selected`: the clusters the selector matches.
- `hrp`: a function from cluster to release. A release is
  `[applied, observed, ready, deleting]`: the proxy generation it carries,
  ObservedGeneration = Generation, its Ready condition, and whether its
  deletion was requested.
- `hcp`: whether the proxy exists, its generation, and whether it is
  being deleted.
- `stored`: the finalizer, `Count`, `StepSize` and the two conditions, as
  persisted.
- `worker`: the pass in flight. `worker.obj` is the in-memory object the
  deferred patch will write.
- `faults`: the number of failed API calls so far.
- `deletions`: the number of releases another writer has deleted so far.

A pass is cut at the remote calls after which other actors can change the
store:

| Action | Code |
|---|---|
| `Reconcile` | 104-200 (Get, lists, finalizer patch, `reconcileNormal` → `RolloutReconcile`/`NoRollout`) |
| `ListFailed` | a failed `listClustersWithLabels` or `listInstalledReleases` (141-160): the pass ends, the deferred patch writes the status back |
| `ReconcileDelete` | 174-194 and `reconcileDelete` |
| `ReconcileMissing` | 110-119 |
| `Aggregate` | 201-209 and `aggregateHelmReleaseProxyReadyCondition`; its re-list may fail, leaving the condition as it was |
| `Patch` | the deferred `patchHelmChartProxy` (127-136); may fail |
| `ObserveRelease`, `RecoverRelease`, `RemoveRelease` | the HRP controller (modelled from the spec's interface) |
| `EditSpec`, `DeleteProxy` | the user |
| `Relabel(c)`, `ExternalDelete(c)` | Cluster labels change; another writer deletes a release. Steps of `WatchQueue` only |

`Spec` is the reconciler over a stable fleet: the selection and the set of
releases change only through the reconciler and the HRP controller. Changes
to the fleet reach the reconciler only through its watches, so `Relabel` and
`ExternalDelete` are steps of `WatchQueue`'s `WSpec`, which models those
watches.

`RolloutReconcile` keeps the order of checks in the code:
1. the completion test;
2. the metadata build, which panics when a listed release has no selected
   cluster;
3. then one of three branches, Unknown, False or True.

The loops are operators:
- `FirstBatch` for the Unknown branch;
- `ExistingInOrder` for the False branch;
- `NextBatch` (RECURSIVE) for the True branch.

Calls can fail part-way through a loop: a pass may perform the first *k*
calls of its batch and then end with an error. The deferred `RolloutStatus`
update still records *k*, as the `defer` in the code does.

Abstractions:
- Cluster identities are numbers, in the order of their `namespace/name`
  strings.
- Step values are `[pct, val]` records.
- The persisted `StepSize` saturates at the number of clusters. Any step at
  or above that size walks the whole list, so larger values behave the same.
- `SpecsUpToDate` and the summary `Ready` condition are left out: they are
  only displayed.
- In `Spec`, a cancelled pass or a controller restart is the same as a
  failed patch: the releases it created stay and its status is lost.
  `WatchQueue` adds the restart as its own step, which also loses the work
  queue and the pass's `Requeue`.

### `MC_HelmChartProxy.tla`
This module supplies the constants the configurations use:
- the cluster sets `{1,2,3}` and `{1,2,3,4}`;
- `MCStagedRollout`: install with step 1, increment 1 and limit 50%, which
  is capped; upgrade with a first step of 34%;
- `MCUncappedRollout`: install with step 1, increment 1 and no limit.

### `RolloutAbstract.tla`: what the staged rollout promises
Three variables: `released` (clusters with a release), `ready` and
`completed`, over a fixed selection. `AddBatch` adds a non-empty set of the
smallest unreleased selected clusters, only while every release is Ready
and before completion. `BecomeReady`/`BecomeUnready` are the release
controller's reports. `Complete` needs every selected cluster released.
Weak fairness on `AddBatch`, `Complete` and `BecomeReady` makes the
rollout finish.

`MC_HelmChartProxy` maps the reconciler onto it:

    Abstract == INSTANCE RolloutAbstract
        WITH Selected <- InitSelected, released <- DOMAIN hrp,
             ready <- {c \in DOMAIN hrp : hrp[c].ready},
             completed <- stored.completed = "True"

and `ImplementsRolloutAbstract == Abstract!Spec` is checked as a property.
The mapping holds only for a stable selection and no failed calls: with
failures the lost patch finding breaks the liveness part, and with churn the
Count finding breaks `Complete`'s guard.

### `WatchQueue.tla`: the reconciler run from its work queue
`WatchQueue` EXTENDS `HelmChartProxy` and adds:
- `queued`, whether the proxy's key is in the queue (the queue
  de-duplicates keys, so a flag is enough), and
- `mapperFailures`, the Cluster events dropped so far, and
- `restarts`, the controller restarts so far.

Each reconciler action runs only when the key is queued and takes it off
the queue. Events during a step put it back:

| Action | Code | Puts the key back when |
|---|---|---|
| `QReconcile` | `Reconcile`, 160-172 | a release changed, the finalizer was patched, or a call failed |
| `QListFailed` | `ListFailed`, 141-160 | when the deferred patch runs (the error) |
| `QReconcileMissing` | 110-116 | never (`Result{}`) |
| `QReconcileDelete` | 174-194 | a release changed or a call failed; the `Requeue` of `reconcileDelete` is dropped at line 181 |
| `QPatch` | deferred patch, 127-136 | the pass asked for a requeue (`Requeues`), the patch failed, or it changed the proxy (a `For` event) |
| `QRelabel(c)` | `ClusterToHelmChartProxiesMapper` | the old or the new labels match (`ClusterMapped`), unless the mapper's List fails |
| `QRelease(c)`, `QExternalDelete(c)`, `QUser` | the HRP and `For` watches, after a step of the HRP controller, another writer's deletion, or the user | always (`OwnerMapper`) |
| `Resync` | informer resync | always; no fairness |
| `Restart` | a new controller process, `SetupWithManager` 73-89 | the proxy exists (`RestartedQueue`: the initial list); the pass in flight, its patch and its `Requeue` are lost |

`Requeues` (in `HelmChartProxy`) is the `ctrl.Result`: every branch
requeues or errs except the completion branch and a pass without rollout
options.

### `MC_WatchQueue.tla`
This module EXTENDS `WatchQueue` and `MC_HelmChartProxy`, and adds
`MCFirstOne`, a selection of one cluster out of three.


## 3. Runs

| Run | Config | Expect | What it shows |
|---|---|---|---|
| `rollout_safety` | 4 clusters, staged install and upgrade, 1 fault (list, create, patch), failing installs, edit, delete | pass (40k states) | `TypeOK`, `SortedPrefix`, `CountWithinSelectedReleases`, `NoAdvanceWhileUnready`, `DeletionWaitsForReleases` over a stable selection; eventual deletion is checked queue-driven in `watch_deletion` |
| `rollout_refinement` | 4 clusters, staged, no faults, no churn, no delete | pass | `ImplementsRolloutAbstract`, `RolloutCompletes` |
| `watch_liveness` | queue-driven, 1 of 3 selected, 1 label change, edit, delete, 1 restart | pass (30k states) | `SelectedClusterEventuallyReleased` for a cluster joining a proxy that completed and went quiet, `OrphansEventuallyRemoved`; no release is deleted by another writer here (that case fails, finding 3) |
| `watch_deletion` | queue-driven, 1 dropped Cluster event, 1 fault, 1 release deleted by another writer, 1 restart | pass (923k states, about 90 s) | `DeletionCompletes` without the dropped `Requeue` |
| `lost_patch_stalls_rollout` | 1 fault | violation | `RolloutCompletes`: a lost patch after batch 2 leaves Count = 1 with 3 releases; the rollout never completes |
| `stepsize_on_abort` | 4 clusters, uncapped | violation | `StepSizeGrowsOnlyWithBatch`: StepSize goes 2 → 3 in a pass that created nothing |
| `completion_trusts_count` | queue-driven, 2 of 3 selected, 1 label change, 1 release deleted by another writer | violation | `CompletionOnlyWhenAllReleased`: Count keeps a deselected cluster or a deleted release, so RolloutCompleted is set while a selected cluster has no release |
| `unready_batch_overtaken` | queue-driven, 1 of 3 selected, 2 label changes | violation | `NoAdvanceWhileUnready`: cluster 2 joins after batch {3} was created and gets a release before release 3 is Ready |
| `orphan_meta_panic` | queue-driven, InstallOnce, 1 label change | violation | `RolloutMetaDefined`: nil dereference at line 349 |
| `upgrade_not_applied` | MaxGeneration 2 | violation | `UpgradeEventuallyApplied`: an edit under an Upgrade policy never reaches existing releases |
| `late_selection_stalls_rollout` | queue-driven, no cluster selected at creation, StepInit 1, no StepIncrement | violation | `RolloutCompletes`: the cluster selected later never gets a release |
| `lost_cluster_event` | queue-driven, 1 dropped Cluster event | violation | `SelectedClusterEventuallyReleased`: a completed proxy does not hear of the new cluster until an unrelated event or a resync, neither of which is fair |

Each property of a passing run has a mutant in `PROJECT.json`. Each mutant
is a plausible bug in the code: descending sort, a dropped readiness check,
`count++` before `continue`, a dropped old Count, a Get result taken as
NotFound, or a wrong generation stamp. The watch mutants map only the old or only the new
labels of a Cluster, find no controller owner on a release, or leave the
queue of a restarted controller empty. TLC finds each one.

### Bounds
Three or four clusters are enough for these cases:
- two real batches and a third pending, with a stale True condition between
  them;
- an orphan, and a release that is still terminating.

In the queue-driven runs one label change, from a selection of one
cluster, is enough: it either adds a cluster to a proxy that has completed
and gone quiet, or removes the one released cluster.
`MaxMapperFailures = 1` drops one Cluster event.
`MaxFaults = 1` gives one failed List, patch, finalizer patch or create in
any position. `MaxReleaseDeletions = 1` lets another writer delete one
release, at any time. `MaxRestarts = 1` restarts the controller once, at any
point of a pass. Two label changes from a selection of one are needed to
place a new cluster before the last batch (`unready_batch_overtaken`). `MaxGeneration = 2` covers install then upgrade. Label changes are
bounded by `MaxLabelChanges`, and the step size saturates at the number of
clusters.

### Fairness
In `Spec` the reconcile pass is weakly fair: every unfinished branch
returns `Requeue` and errors are retried. The deletion pass is not fair in
`Spec`, because `Reconcile` drops the `Requeue` of `reconcileDelete` (line
181); only release events bring it back, and those are modelled in
`WatchQueue`, so eventual deletion is checked there only. The HRP controller
is weakly fair per release: it observes, recovers failed installs and
uninstalls. The user, the label changes, deletions by other writers and
failed calls (`ListFailed`, the failing disjuncts) and restarts are not
fair. Liveness runs
exclude faults, or bound them, so that no run relies on infinite failure.

`WatchQueue` replaces the assumption that the reconciler always runs. Its
reconciler actions are weakly fair only while the key is queued, which is
what the controller's worker guarantees. The informer resync gets no
fairness, because its period is set by the manager, outside this file.
Deadlock is not checked in the queue-driven runs: an idle controller with an
empty queue is a legitimate end state.

## 4. Findings
1. **A lost status patch stalls the rollout for good** (line 484). Count is
   incremented by the releases a pass creates and is never recomputed.
2. **Aborted passes grow StepSize** (lines 479 and 492). The condition stays
   stale True after a batch, so passes abort, and the deferred update still
   adds the increment to StepSize.
3. **The completion test trusts Count over the release set** (line 318).
   Count only grows, and the test compares it with the selection size
   without looking at the releases. A deselected cluster keeps its place in
   Count, so a pass marks RolloutCompleted True while a selected cluster
   has no release, and never creates it. A release that another writer
   deletes after completion is never recreated: its deletion events and
   every resync requeue the proxy, and every pass takes the completion
   branch. Each trigger violates `CompletionOnlyWhenAllReleased` on its
   own (`completion_trusts_count` with the other bound at 0). The spec
   names only the orphan and deletion reconcilers as deleters of a release
   and does not say what restores one. Without rollout options every pass
   reconciles every selected cluster (lines 237-242), so the release would
   come back; no run of this project checks that case.
4. **Nil dereference in the rollout metadata build** (line 349). It happens
   for a listed release of an unselected cluster: always with InstallOnce,
   and transiently with Normal.
5. **Upgrades never reach existing releases under an Upgrade policy**
   (lines 318 and 502).
6. **A proxy created before any cluster matches never rolls out**
   (line 601). The empty release list is aggregated as vacuously True on
   the first pass, contrary to the comment at lines 599-600. Later passes
   take the True branch with StepSize 0 and never apply StepInit. With no
   StepIncrement, no release is ever created.
7. **A dropped Cluster event is recovered only by an unrelated event or a resync** (line 661, and line 670).
   The mapper swallows its List error. A proxy whose rollout completed does
   not requeue, so a newly selected cluster waits for an unrelated event or
   a resync.
8. **A late-selected cluster overtakes an unready batch** (line 492).
   Right after a batch is created, the aggregation leaves the readiness
   condition at its stale True while the new release lags its
   ObservedGeneration. If a cluster that sorts before that release joins
   the selection, the next pass takes the True branch. Its defensive check
   stops only at an unready release met before the first unreleased
   cluster, so the new cluster gets a release while the last batch is not
   Ready. Spec 4.3 says batch N+1 must not start while batch N settles.
   Without selection churn the releases form a sorted prefix and the check
   is enough (`NoAdvanceWhileUnready` holds in `rollout_safety`).

Not a finding but checked: `Reconcile` drops the `Requeue` of
`reconcileDelete` (line 181), which spec scenario E expects. Deletion still
finishes because each removed release is an event for its owner
(`watch_deletion`).

## 5. Not modelled
- The registry client and its test: I/O and configuration.
- The watch predicates (`ResourceNotPausedAndHasFilterLabel`): a paused
  or filtered proxy is simply never queued.
- Rate limiting and backoff of the work queue: they delay a pass, and no
  property is about timing.
- The internals of `reconcileForCluster` and the HRP controller, which are
  outside `src/`. They are modelled from the spec's interface.
- Conflicts between concurrent writers of the proxy: they are a failed
  patch, which the model includes.
- Several proxies. They share no state but the Cluster mapper, whose
  cross-proxy failure (one unparsable selector at line 670 aborts the
  mapping for all) is the mapper drop of `QRelabel`. Their releases are
  kept apart by the proxy-name label, which the model's per-proxy `hrp`
  assumes.
- A separate reference check of `ScaledValue`: it is a one-line closed form
  of `GetScaledValueFromIntOrPercent` with round-up, exercised at 34% and
  50% of three and four clusters by the runs.
