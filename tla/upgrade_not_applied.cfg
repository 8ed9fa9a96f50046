\* Staged install, then one spec edit under the staged upgrade policy:
\* the edit must reach every selected cluster.
CONSTANTS
    Nil = Nil
    Clusters <- MCClusters
    Rollout <- MCStagedRollout
    ReconcileStrategy = "Normal"
    InitSelected <- MCClusters
    MaxGeneration = 2
    MaxLabelChanges = 0
    MaxFaults = 0
    MaxReleaseDeletions = 0
    ReleaseMayFail = FALSE
    UserMayDelete = FALSE
SPECIFICATION Spec
PROPERTY UpgradeEventuallyApplied
