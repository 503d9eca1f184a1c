----------------------- MODULE MC_ImageCacheReconciler -----------------------
(* Model-checking instances of ImageCacheReconciler.                        *)
EXTENDS ImageCacheReconciler

\* Nodes are only tainted or untainted: every node stays registered.
MCNodeStatesStable == {"Eligible", "Tainted"}

\* Nodes may also leave the cluster (node deletion).
MCNodeStatesAll == {"Eligible", "Tainted", "Absent"}

================================================================================
