\* The proxy is created before any cluster matches its selector; later one
\* cluster is labelled to match.  Install policy: StepInit 1, no
\* StepIncrement.  The rollout must still reach that cluster.
CONSTANTS
    Nil = Nil
    Clusters <- MCClusters
    InitSelected <- MCNoClusters
    Rollout <- MCInitOnlyRollout
    ReconcileStrategy = "Normal"
    MaxGeneration = 1
    MaxLabelChanges = 1
    MaxFaults = 0
    MaxReleaseDeletions = 0
    MaxMapperFailures = 0
    MaxRestarts = 0
    ReleaseMayFail = FALSE
    UserMayDelete = FALSE
SPECIFICATION WSpec
PROPERTY RolloutCompletes
