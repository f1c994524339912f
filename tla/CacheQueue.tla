----------------------------- MODULE CacheQueue -----------------------------
(***************************************************************************)
(* What the update queue of rrdcached promises to its callers: which       *)
(* item an update thread gets next, and that an item is queued at most     *)
(* once.  Every action is one critical section under cache_lock.           *)
(***************************************************************************)
EXTENDS QueueOps

CONSTANTS Items,      \* the cache items (one per RRD file)
          MaxValues   \* bound: values one item may hold

VARIABLES queue,      \* the items waiting to be written, head first
          nvals       \* values_num of every item

vars == <<queue, nvals>>

Init == /\ queue = <<>>
        /\ nvals = [ci \in Items |-> 0]

\* A value was accepted for an item; it need not be queued yet.
AddValue(ci) == /\ nvals[ci] < MaxValues
                /\ nvals' = [nvals EXCEPT ![ci] = @ + 1]
                /\ UNCHANGED queue

\* Ask for the item to be written before all others.
EnqueueHead(ci) == /\ nvals[ci] > 0
                   /\ queue' = AtHead(queue, ci)
                   /\ UNCHANGED nvals

\* Ask for the item to be written some time.
EnqueueTail(ci) == /\ nvals[ci] > 0
                   /\ queue' = AtTail(queue, ci)
                   /\ UNCHANGED nvals

\* An update thread takes the first item with all its values.
Dequeue == /\ queue # <<>>
           /\ queue' = Tail(queue)
           /\ nvals' = [nvals EXCEPT ![Head(queue)] = 0]

\* The item is dropped from the cache, its values with it.
Drop(ci) == /\ queue' = Removed(queue, ci)
            /\ nvals' = [nvals EXCEPT ![ci] = 0]

Next == \/ \E ci \in Items : \/ AddValue(ci)
                             \/ EnqueueHead(ci)
                             \/ EnqueueTail(ci)
                             \/ Drop(ci)
        \/ Dequeue

Spec == Init /\ [][Next]_vars
=============================================================================
