\* Queue-driven reconciler: one of three clusters selected, one label
\* change, uncapped install, a spec edit, installs that fail and recover,
\* deletion; no dropped Cluster events.  An idle controller with an empty queue is a
\* legitimate end state, so deadlock is not checked.
CONSTANTS
    Nil = Nil
    Clusters <- MCClusters
    InitSelected <- MCFirstOne
    Rollout <- MCUncappedRollout
    ReconcileStrategy = "Normal"
    MaxGeneration = 2
    MaxLabelChanges = 1
    MaxFaults = 0
    MaxReleaseDeletions = 0
    MaxMapperFailures = 0
    MaxRestarts = 1
    ReleaseMayFail = TRUE
    UserMayDelete = TRUE
SPECIFICATION WSpec
PROPERTY SelectedClusterEventuallyReleased
PROPERTY OrphansEventuallyRemoved
CHECK_DEADLOCK FALSE
