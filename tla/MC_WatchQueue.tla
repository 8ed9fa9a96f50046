--------------------------- MODULE MC_WatchQueue ---------------------------
(* Instances of WatchQueue for TLC, with the cluster sets and rollout      *)
(* policies of MC_HelmChartProxy.                                          *)
EXTENDS WatchQueue, MC_HelmChartProxy

\* One of the three clusters matches when the proxy is created.
MCFirstOne == {1}
=============================================================================
