--------------------------- MODULE MCJobLifecycle ---------------------------
(* Small instances of the job life cycle for TLC.                          *)
EXTENDS JobLifecycle, TLC

\* Jobs, workers and requests are interchangeable; used without liveness.
JobSymmetry == Permutations(Jobs) \cup Permutations(Workers) \cup Permutations(Requests)
=============================================================================
