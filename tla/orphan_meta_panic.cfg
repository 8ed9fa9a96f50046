\* InstallOnce strategy, staged install, a cluster leaves the selection:
\* rolloutReconcile must find metadata for every release it lists.
CONSTANTS
    Nil = Nil
    Clusters <- MCClusters
    Rollout <- MCStagedRollout
    ReconcileStrategy = "InstallOnce"
    InitSelected <- MCClusters
    MaxGeneration = 1
    MaxLabelChanges = 1
    MaxFaults = 0
    MaxReleaseDeletions = 0
    MaxMapperFailures = 0
    MaxRestarts = 0
    ReleaseMayFail = FALSE
    UserMayDelete = FALSE
SPECIFICATION WSpec
INVARIANT RolloutMetaDefined
