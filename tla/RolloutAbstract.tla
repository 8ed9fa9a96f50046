--------------------------- MODULE RolloutAbstract ---------------------------
(***************************************************************************)
(* What a staged rollout promises, with no batch sizes, conditions or      *)
(* status fields: releases are added in batches that extend a prefix of    *)
(* the selected clusters in "namespace/name" order; a batch is added only  *)
(* when every existing release is Ready; the rollout is declared complete  *)
(* only once every selected cluster has a release, and stays complete.     *)
(* The selection is fixed: this is the promise for a stable fleet.         *)
(***************************************************************************)
EXTENDS Naturals, FiniteSets

CONSTANTS
    Clusters,   \* cluster identities, ordered by <
    Selected    \* the clusters the selector matches

ASSUME Selected \subseteq Clusters /\ Clusters \subseteq Nat

VARIABLES
    released,   \* clusters with a release
    ready,      \* released clusters whose release is Ready
    completed   \* the rollout has been declared complete

avars == <<released, ready, completed>>

Init ==
    /\ released = {}
    /\ ready = {}
    /\ completed = FALSE

\* A batch: some of the smallest selected clusters without a release,
\* added while every existing release is Ready.
AddBatch ==
    /\ ~completed
    /\ released = ready
    /\ \E B \in SUBSET (Selected \ released) :
          /\ B # {}
          /\ \A b \in B, d \in Selected \ (released \cup B) : b < d
          /\ released' = released \cup B
    /\ UNCHANGED <<ready, completed>>

\* A release reports Ready, or stops reporting it while an upgrade of it
\* fails.
BecomeReady(c) ==
    /\ c \in released \ ready
    /\ ready' = ready \cup {c}
    /\ UNCHANGED <<released, completed>>

BecomeUnready(c) ==
    /\ c \in ready
    /\ ready' = ready \ {c}
    /\ UNCHANGED <<released, completed>>

\* The rollout is declared complete once every selected cluster has a
\* release.
Complete ==
    /\ ~completed
    /\ Selected \subseteq released
    /\ completed' = TRUE
    /\ UNCHANGED <<released, ready>>

Next ==
    \/ AddBatch \/ Complete
    \/ \E c \in Clusters : BecomeReady(c) \/ BecomeUnready(c)

\* Batches keep being added and the completion is declared; a release
\* that stays Ready-able becomes Ready.
Spec ==
    /\ Init /\ [][Next]_avars
    /\ WF_avars(AddBatch) /\ WF_avars(Complete)
    /\ \A c \in Clusters : WF_avars(BecomeReady(c))

TypeOK ==
    /\ ready \subseteq released
    /\ released \subseteq Selected
    /\ completed \in BOOLEAN

=============================================================================
