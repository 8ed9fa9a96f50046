\* Queue-driven reconciler with one dropped Cluster event and one failed
\* API call: deleting the proxy still finishes, driven by the releases'
\* deletion events although Reconcile drops reconcileDelete's Requeue.
\* An idle controller with an empty queue is a legitimate end state.
CONSTANTS
    Nil = Nil
    Clusters <- MCClusters
    InitSelected <- MCFirstOne
    Rollout <- MCUncappedRollout
    ReconcileStrategy = "Normal"
    MaxGeneration = 2
    MaxLabelChanges = 1
    MaxFaults = 1
    MaxReleaseDeletions = 1
    MaxMapperFailures = 1
    MaxRestarts = 1
    ReleaseMayFail = TRUE
    UserMayDelete = TRUE
SPECIFICATION WSpec
PROPERTY DeletionCompletes
CHECK_DEADLOCK FALSE
