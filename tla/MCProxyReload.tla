---------------------------- MODULE MCProxyReload ----------------------------
(* Small instances of the directory with its reloads for TLC.              *)
EXTENDS ProxyReload

\* Jobs are interchangeable; used without liveness.
JobSymmetry == Permutations(Jobs)
=============================================================================
