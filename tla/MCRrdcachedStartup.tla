-------------------------- MODULE MCRrdcachedStartup ---------------------------
(* Starts of the daemon with the same options, for the model checker.       *)
EXTENDS RrdcachedStartup, TLC

\* Nothing tells one start from another.
MCSymmetry == Permutations(Starts)
=============================================================================
