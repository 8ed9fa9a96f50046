\* Staged install, nothing fails: a pass that aborts on a release that is
\* not yet Ready must leave the persisted StepSize alone.
CONSTANTS
    Nil = Nil
    Clusters <- MCClusters4
    Rollout <- MCUncappedRollout
    ReconcileStrategy = "Normal"
    InitSelected <- MCClusters4
    MaxGeneration = 1
    MaxLabelChanges = 0
    MaxFaults = 0
    MaxReleaseDeletions = 0
    ReleaseMayFail = FALSE
    UserMayDelete = FALSE
SPECIFICATION Spec
PROPERTY StepSizeGrowsOnlyWithBatch
