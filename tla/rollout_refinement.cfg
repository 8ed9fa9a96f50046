\* Four clusters, staged install then staged upgrade, installs that may
\* fail and recover, a stable selection and no failed API calls: the
\* reconciler implements RolloutAbstract and the rollout finishes.
CONSTANTS
    Nil = Nil
    Clusters <- MCClusters4
    InitSelected <- MCClusters4
    Rollout <- MCStagedRollout
    ReconcileStrategy = "Normal"
    MaxGeneration = 2
    MaxLabelChanges = 0
    MaxFaults = 0
    MaxReleaseDeletions = 0
    ReleaseMayFail = TRUE
    UserMayDelete = FALSE
SPECIFICATION Spec
PROPERTY ImplementsRolloutAbstract
PROPERTY RolloutCompletes
