\* As watch_liveness, but the Cluster mapper's List may fail once
\* (ClusterToHelmChartProxiesMapper returns nil on the error) and only the
\* cluster selection is checked.
CONSTANTS
    Nil = Nil
    Clusters <- MCClusters
    InitSelected <- MCFirstOne
    Rollout <- MCUncappedRollout
    ReconcileStrategy = "Normal"
    MaxGeneration = 1
    MaxLabelChanges = 1
    MaxFaults = 0
    MaxReleaseDeletions = 0
    MaxMapperFailures = 1
    MaxRestarts = 0
    ReleaseMayFail = FALSE
    UserMayDelete = FALSE
SPECIFICATION WSpec
PROPERTY SelectedClusterEventuallyReleased
CHECK_DEADLOCK FALSE
