\* Queue-driven reconciler, two of three clusters selected, staged install:
\* one label change and one release deleted by another writer.  A pass must
\* not mark RolloutCompleted while a selected cluster has no release; the
\* completion test compares the selection size with the persisted Count,
\* which keeps a deselected cluster and a deleted release.
CONSTANTS
    Nil = Nil
    Clusters <- MCClusters
    Rollout <- MCStagedRollout
    ReconcileStrategy = "Normal"
    InitSelected <- MCFirstTwo
    MaxGeneration = 1
    MaxLabelChanges = 1
    MaxFaults = 0
    MaxReleaseDeletions = 1
    MaxMapperFailures = 0
    MaxRestarts = 0
    ReleaseMayFail = FALSE
    UserMayDelete = FALSE
SPECIFICATION WSpec
PROPERTY CompletionOnlyWhenAllReleased
