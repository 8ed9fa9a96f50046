\* Staged install and upgrade with failing API calls, failing installs,
\* spec edits and deletion, over a fixed selection of four clusters.
CONSTANTS
    Nil = Nil
    Clusters <- MCClusters4
    InitSelected <- MCClusters4
    Rollout <- MCStagedRollout
    ReconcileStrategy = "Normal"
    MaxGeneration = 2
    MaxLabelChanges = 0
    MaxFaults = 1
    MaxReleaseDeletions = 0
    ReleaseMayFail = TRUE
    UserMayDelete = TRUE
SPECIFICATION Spec
INVARIANT TypeOK
INVARIANT SortedPrefix
INVARIANT CountWithinSelectedReleases
PROPERTY NoAdvanceWhileUnready
PROPERTY DeletionWaitsForReleases
