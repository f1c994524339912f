---------------------------- MODULE MCRrdcached ----------------------------
(* Small instances of Rrdcached.  Threads of one kind and files are        *)
(* interchangeable: no action orders them.                                 *)
EXTENDS Rrdcached

Symmetry == Permutations(Clients) \union Permutations(QueueThreads)
              \union Permutations(Files)
=============================================================================
