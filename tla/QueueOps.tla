------------------------------ MODULE QueueOps ------------------------------
(***************************************************************************)
(* The update queue of rrdcached (rrd_daemon.c) seen as what it promises:  *)
(* a sequence of cache items without duplicates.  The C code keeps it as a *)
(* doubly linked list threaded through the cache items; module             *)
(* CacheQueueList models that list and shows that it computes exactly      *)
(* these operators.  Module Rrdcached uses them for the whole daemon.      *)
(***************************************************************************)
EXTENDS Naturals, Sequences, SequencesExt

\* The flag CI_FLAGS_IN_QUEUE of an item.
InQueue(q, ci) == \E i \in 1..Len(q) : q[i] = ci

\* remove_from_queue(): drop the item, wherever it is; a no-op otherwise.
Removed(q, ci) ==
    IF InQueue(q, ci)
    THEN RemoveAt(q, CHOOSE i \in 1..Len(q) : q[i] = ci)
    ELSE q

\* enqueue_cache_item(ci, HEAD): to the front, also from further down.
AtHead(q, ci) == <<ci>> \o Removed(q, ci)

\* enqueue_cache_item(ci, TAIL): to the end, unless it is queued already.
AtTail(q, ci) == IF InQueue(q, ci) THEN q ELSE Append(q, ci)

\* No item is queued twice.
NoDuplicates(q) == \A i, j \in 1..Len(q) : q[i] = q[j] => i = j
=============================================================================
