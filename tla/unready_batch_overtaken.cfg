\* Queue-driven reconciler, one of three clusters selected, staged install,
\* two label changes, no faults.  No pass may create a release while an
\* existing one is not Ready, also when a cluster that sorts before the
\* last batch joins the selection while the readiness condition is stale.
CONSTANTS
    Nil = Nil
    Clusters <- MCClusters
    InitSelected <- MCFirstOne
    Rollout <- MCStagedRollout
    ReconcileStrategy = "Normal"
    MaxGeneration = 1
    MaxLabelChanges = 2
    MaxFaults = 0
    MaxReleaseDeletions = 0
    MaxMapperFailures = 0
    MaxRestarts = 0
    ReleaseMayFail = TRUE
    UserMayDelete = FALSE
SPECIFICATION WSpec
PROPERTY NoAdvanceWhileUnready
CHECK_DEADLOCK FALSE
