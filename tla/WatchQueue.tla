----------------------------- MODULE WatchQueue -----------------------------
(***************************************************************************)
(* HelmChartProxy driven by its work queue instead of by fairness alone.   *)
(* A pass runs only when the proxy's key is queued.  The key is queued by  *)
(* the watches SetupWithManager registers: the proxy itself (For), its     *)
(* HelmReleaseProxies through HelmReleaseProxyToHelmChartProxyMapper, and  *)
(* Clusters through ClusterToHelmChartProxiesMapper; and by the pass's own *)
(* result (Requeue or an error).  The Cluster mapper drops the event when  *)
(* its List fails.                                                         *)
(***************************************************************************)
EXTENDS HelmChartProxy

CONSTANTS
    MaxMapperFailures,  \* bound on Cluster events the mapper drops
    MaxRestarts         \* bound on restarts of the controller

ASSUME {MaxMapperFailures, MaxRestarts} \subseteq Nat

VARIABLES
    queued,           \* the proxy's key is in the work queue
    mapperFailures,   \* Cluster events dropped so far
    restarts          \* controller restarts so far

wvars == <<vars, queued, mapperFailures, restarts>>

\* Fault model: the release carries no controller owner reference, so the
\* mapper finds no owner.
OwnerMapperNoController(H1, H2) == FALSE

\* HelmReleaseProxyToHelmChartProxyMapper: any change to a release whose
\* controller reference names the proxy enqueues the proxy.
OwnerMapper(H1, H2) == H1 # H2

\* Fault model: only the Cluster as it was before the update is mapped.
ClusterMappedOldLabelsOnly(c, S1, S2) == c \in S1

\* Fault model: only the Cluster as it is after the update is mapped.
ClusterMappedNewLabelsOnly(c, S1, S2) == c \in S2

\* ClusterToHelmChartProxiesMapper, after a successful List: the proxy is
\* enqueued when its selector matches the Cluster's labels; an update is
\* mapped for the old and for the new object.
ClusterMapped(c, S1, S2) == c \in S1 \cup S2

\* Events a step of the reconciler or of the release controller causes:
\* release changes, and changes to the proxy object itself (For).
Events == OwnerMapper(hrp, hrp') \/ stored' # stored \/ hcp' # hcp

WInit ==
    /\ Init
    /\ queued = TRUE
    /\ mapperFailures = 0
    /\ restarts = 0

\* processNextWorkItem takes the key off the queue for the pass; events
\* during the pass, and an error return, put it back.
QReconcile ==
    /\ queued /\ Reconcile
    /\ queued' = (Events \/ faults' > faults)
    /\ UNCHANGED <<mapperFailures, restarts>>

\* A failed List ends the pass; its error requeues the key when the
\* deferred patch has run.
QListFailed ==
    /\ queued /\ ListFailed
    /\ queued' = FALSE
    /\ UNCHANGED <<mapperFailures, restarts>>

QReconcileMissing ==
    /\ queued /\ ReconcileMissing
    /\ queued' = FALSE
    /\ UNCHANGED <<mapperFailures, restarts>>

QReconcileDelete ==
    /\ queued /\ ReconcileDelete
    /\ queued' = (Events \/ faults' > faults)
    /\ UNCHANGED <<mapperFailures, restarts>>

QAggregate == Aggregate /\ UNCHANGED <<queued, mapperFailures, restarts>>

\* The pass ends: its Result or error requeues, and a patch that changed
\* the proxy is itself an event.
QPatch ==
    /\ Patch
    /\ queued' = (queued \/ worker.requeue \/ faults' > faults \/ stored' # stored)
    /\ UNCHANGED <<mapperFailures, restarts>>

\* A Cluster's labels change; the mapper's List may fail and drop the event.
QRelabel(c) ==
    /\ Relabel(c)
    /\ \/ /\ queued' = (queued \/ ClusterMapped(c, selected, selected'))
          /\ UNCHANGED <<mapperFailures, restarts>>
       \/ /\ mapperFailures < MaxMapperFailures
          /\ mapperFailures' = mapperFailures + 1
          /\ UNCHANGED <<queued, restarts>>

QUser ==
    /\ EditSpec \/ DeleteProxy
    /\ queued' = TRUE
    /\ UNCHANGED <<mapperFailures, restarts>>

\* A step of the release controller on release c; the owner mapper turns
\* the release's change into an event for the proxy.
QRelease(c) ==
    /\ ObserveRelease(c) \/ RecoverRelease(c) \/ RemoveRelease(c)
    /\ queued' = (queued \/ Events)
    /\ UNCHANGED <<mapperFailures, restarts>>

\* Another writer deletes release c; the owner mapper enqueues the proxy.
QExternalDelete(c) ==
    /\ ExternalDelete(c)
    /\ queued' = (queued \/ Events)
    /\ UNCHANGED <<mapperFailures, restarts>>

\* The informers' periodic resync redelivers the proxy.  Whether the
\* manager sets a SyncPeriod is configured outside this controller, so no
\* fairness is assumed for it.
Resync ==
    /\ hcp.exists /\ ~queued
    /\ queued' = TRUE
    /\ UNCHANGED <<vars, mapperFailures, restarts>>

\* Fault model: the restarted controller does not enqueue the proxy.
RestartedQueueEmpty == FALSE

\* SetupWithManager in the new process: the informers list every object
\* again and the For watch enqueues every proxy that exists.
RestartedQueue == hcp.exists

\* The controller process restarts: the pass in flight stops where it is,
\* its deferred patch never runs and its Requeue is lost, and the work
\* queue starts empty; the API server keeps every write already made.
Restart ==
    /\ restarts < MaxRestarts
    /\ restarts' = restarts + 1
    /\ worker' = Idle
    /\ queued' = RestartedQueue
    /\ UNCHANGED <<selected, labelChanges, hrp, hcp, stored, faults, deletions,
                   mapperFailures>>

WNext ==
    \/ QReconcile \/ QListFailed \/ QReconcileMissing \/ QReconcileDelete
    \/ QAggregate \/ QPatch \/ QUser \/ Resync \/ Restart
    \/ \E c \in Clusters : QRelabel(c) \/ QRelease(c) \/ QExternalDelete(c)

\* The worker processes every queued key; the release controller keeps
\* reconciling its releases.  Other writers' deletions, label changes,
\* resyncs and restarts get no fairness.
WFairness ==
    /\ WF_wvars(QReconcile) /\ WF_wvars(QReconcileMissing)
    /\ WF_wvars(QReconcileDelete) /\ WF_wvars(QAggregate) /\ WF_wvars(QPatch)
    /\ \A c \in Clusters : WF_wvars(QRelease(c))

WSpec == WInit /\ [][WNext]_wvars /\ WFairness

-----------------------------------------------------------------------------
(* Properties *)

\* SelectedClusterEventuallyReleased (HelmChartProxy) is checked under WSpec.

=============================================================================
