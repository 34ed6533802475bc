---------------------------- MODULE MCConfigFile ----------------------------
(* Small instances of the configuration file for TLC.                      *)
EXTENDS ConfigFile, TLC

\* Jobs of one kind are interchangeable; used without liveness.
JobSymmetry == Permutations(Setters) \cup Permutations(Adders) \cup Permutations(Removers)
=============================================================================
