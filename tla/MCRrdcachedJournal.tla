-------------------------- MODULE MCRrdcachedJournal --------------------------
(* Model values of RrdcachedJournal that can be exchanged for one another.  *)
EXTENDS RrdcachedJournal, TLC

Symmetry == Permutations(Files) \union Permutations(QueueThreads)
=============================================================================
