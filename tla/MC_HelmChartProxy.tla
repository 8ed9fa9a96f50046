------------------------- MODULE MC_HelmChartProxy -------------------------
(* Instances of HelmChartProxy for TLC: clusters are numbered in the     *)
(* order of their "namespace/name" strings.                                *)
EXTENDS HelmChartProxy

MCClusters == {1, 2, 3}

\* Four clusters: the install rollout then needs a third batch, so a pass
\* can meet the batch before it still settling.
MCClusters4 == {1, 2, 3, 4}

\* Two of the three clusters match when the proxy is created.
MCFirstTwo == {1, 2}

Count(n) == [pct |-> FALSE, val |-> n]
Percent(p) == [pct |-> TRUE, val |-> p]

\* Install in batches of 1 then 2 (limit 50% of 3 = 2 is above the initial
\* step, so the cap applies); upgrade with a first step of 34% = 2.
MCStagedRollout ==
    [install |-> [stepInit |-> Count(1), stepIncrement |-> Count(1),
                  stepLimit |-> Percent(50)],
     upgrade |-> [stepInit |-> Percent(34), stepIncrement |-> Count(1),
                  stepLimit |-> Nil]]

\* Install in batches of 1, 2, 3, ... with no limit.
MCUncappedRollout ==
    [install |-> [stepInit |-> Count(1), stepIncrement |-> Count(1),
                  stepLimit |-> Nil],
     upgrade |-> Nil]

\* No cluster matches the selector when the proxy is created.
MCNoClusters == {}

\* Install with a first step of 1 and no StepIncrement or StepLimit: each
\* later batch has the size of the first.
MCInitOnlyRollout ==
    [install |-> [stepInit |-> Count(1), stepIncrement |-> Nil,
                  stepLimit |-> Nil],
     upgrade |-> Nil]

\* The refinement mapping onto the rollout's promise: the clusters with a
\* release, those whose release is Ready, and RolloutCompleted = True.
Abstract == INSTANCE RolloutAbstract
    WITH Selected <- InitSelected,
         released <- DOMAIN hrp,
         ready <- {c \in DOMAIN hrp : hrp[c].ready},
         completed <- stored.completed = "True"

\* With a stable selection and no failed calls, rolloutReconcile implements
\* the staged rollout: every pass adds a sorted-prefix batch only while all
\* releases are Ready, RolloutCompleted becomes True only once every
\* cluster has a release and is never withdrawn, and batches keep coming
\* until it does.
ImplementsRolloutAbstract == Abstract!Spec
=============================================================================
