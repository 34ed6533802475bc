------------------------ MODULE MCNginxReloadManager ------------------------
(* Small instances of the reload manager for TLC.                          *)
EXTENDS NginxReloadManager, TLC

\* The requests are interchangeable; used by the runs without liveness.
RequestSymmetry == Permutations(Requests)
=============================================================================
