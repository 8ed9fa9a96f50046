\* One failed status patch after a batch was created: the rollout must
\* still finish once the API server accepts patches again.
CONSTANTS
    Nil = Nil
    Clusters <- MCClusters
    InitSelected <- MCClusters
    Rollout <- MCStagedRollout
    ReconcileStrategy = "Normal"
    MaxGeneration = 1
    MaxLabelChanges = 0
    MaxFaults = 1
    MaxReleaseDeletions = 0
    ReleaseMayFail = FALSE
    UserMayDelete = FALSE
SPECIFICATION Spec
PROPERTY RolloutCompletes
