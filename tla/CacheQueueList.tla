--------------------------- MODULE CacheQueueList ---------------------------
(***************************************************************************)
(* The update queue as rrd_daemon.c implements it: cache_queue_head,       *)
(* cache_queue_tail, the prev and next pointers and the IN_QUEUE flag of   *)
(* every cache_item_t, and the counter stats_queue_length.  All of it is   *)
(* protected by cache_lock, so each operation is one atomic step.          *)
(***************************************************************************)
EXTENDS QueueOps

CONSTANTS Items,      \* the cache items
          NULL,       \* the null pointer
          MaxValues   \* bound: values one item may hold

ASSUME NullAssumption == NULL \notin Items
ASSUME MaxValuesAssumption == MaxValues \in Nat

VARIABLES list,       \* the pointers, flags and length of the queue
          nvals       \* values_num of every item

vars == <<list, nvals>>

Pointer == Items \union {NULL}

Lists == [head : Pointer, tail : Pointer, prev : [Items -> Pointer],
          next : [Items -> Pointer], inq : [Items -> BOOLEAN], len : Nat]

EmptyList == [head |-> NULL, tail |-> NULL,
              prev |-> [ci \in Items |-> NULL],
              next |-> [ci \in Items |-> NULL],
              inq  |-> [ci \in Items |-> FALSE],
              len  |-> 0]

-----------------------------------------------------------------------------
(* The two functions of rrd_daemon.c, as functions of the list.            *)

\* Mutant: the item keeps its own pointers.
remove_from_queue_Dangling(L, ci) ==
    IF ~L.inq[ci] THEN L
    ELSE LET p == L.prev[ci]
             n == L.next[ci]
         IN  [head |-> IF p = NULL THEN n ELSE L.head,
              tail |-> IF n = NULL THEN p ELSE L.tail,
              next |-> [x \in Items |-> IF x = p THEN n ELSE L.next[x]],
              prev |-> [x \in Items |-> IF x = n THEN p ELSE L.prev[x]],
              inq  |-> [L.inq EXCEPT ![ci] = FALSE],
              len  |-> L.len - 1]

remove_from_queue(L, ci) ==
    IF ~L.inq[ci] THEN L
    ELSE LET p == L.prev[ci]
             n == L.next[ci]
         IN  [head |-> IF p = NULL THEN n ELSE L.head,
              tail |-> IF n = NULL THEN p ELSE L.tail,
              next |-> [x \in Items |-> IF x = ci THEN NULL
                                        ELSE IF x = p THEN n ELSE L.next[x]],
              prev |-> [x \in Items |-> IF x = ci THEN NULL
                                        ELSE IF x = n THEN p ELSE L.prev[x]],
              inq  |-> [L.inq EXCEPT ![ci] = FALSE],
              len  |-> L.len - 1]

\* The head branch of enqueue_cache_item.
enqueue_head(L, ci) ==
    IF L.head = ci THEN L
    ELSE LET R == remove_from_queue(L, ci)
         IN  [head |-> ci,
              tail |-> IF R.tail = NULL THEN ci ELSE R.tail,
              next |-> [R.next EXCEPT ![ci] = R.head],
              prev |-> [x \in Items |-> IF x = ci THEN NULL
                                        ELSE IF x = R.head THEN ci ELSE R.prev[x]],
              inq  |-> [R.inq EXCEPT ![ci] = TRUE],
              len  |-> R.len + 1]

\* Mutant: an item that is queued already moves back to the end.
enqueue_tail_MovesBack(L, ci) ==
    LET R == remove_from_queue(L, ci)
    IN  [head |-> IF R.tail = NULL THEN ci ELSE R.head,
         tail |-> ci,
         next |-> [x \in Items |-> IF x = R.tail THEN ci ELSE R.next[x]],
         prev |-> [R.prev EXCEPT ![ci] = R.tail],
         inq  |-> [R.inq EXCEPT ![ci] = TRUE],
         len  |-> R.len + 1]

\* The tail branch; it leaves ci->next as it is (asserted to be NULL).
enqueue_tail(L, ci) ==
    IF L.inq[ci] THEN L
    ELSE [head |-> IF L.tail = NULL THEN ci ELSE L.head,
          tail |-> ci,
          next |-> [x \in Items |-> IF x = L.tail THEN ci ELSE L.next[x]],
          prev |-> [L.prev EXCEPT ![ci] = L.tail],
          inq  |-> [L.inq EXCEPT ![ci] = TRUE],
          len  |-> L.len + 1]

-----------------------------------------------------------------------------
(* The callers, each inside one critical section.                          *)

Init == /\ list = EmptyList
        /\ nvals = [ci \in Items |-> 0]

\* handle_request_update appends a value with rrd_add_strdup.
AddValue(ci) == /\ nvals[ci] < MaxValues
                /\ nvals' = [nvals EXCEPT ![ci] = @ + 1]
                /\ UNCHANGED list

\* flush_file: FLUSH moves the item to the head.
EnqueueHead(ci) == /\ nvals[ci] > 0
                   /\ list' = enqueue_head(list, ci)
                   /\ UNCHANGED nvals

\* UPDATE and tree_callback_flush put the item at the tail.
EnqueueTail(ci) == /\ nvals[ci] > 0
                   /\ list' = enqueue_tail(list, ci)
                   /\ UNCHANGED nvals

\* queue_thread_main takes the head: wipe_ci_values, remove_from_queue.
Dequeue == /\ list.head # NULL
           /\ nvals' = [nvals EXCEPT ![list.head] = 0]
           /\ list' = remove_from_queue(list, list.head)

\* Mutant: the item is freed while it is queued.
Drop_StaysQueued(ci) == /\ nvals' = [nvals EXCEPT ![ci] = 0]
                        /\ UNCHANGED list

\* free_cache_item (FORGET, purge) and the replay of WROTE.
Drop(ci) == /\ list' = remove_from_queue(list, ci)
            /\ nvals' = [nvals EXCEPT ![ci] = 0]

Next == \/ \E ci \in Items : \/ AddValue(ci)
                             \/ EnqueueHead(ci)
                             \/ EnqueueTail(ci)
                             \/ Drop(ci)
        \/ Dequeue

Spec == Init /\ [][Next]_vars

-----------------------------------------------------------------------------
(* The sequence a list stands for, and the refinement.                     *)

\* The list L holds exactly the items of the sequence q, in that order.
Represents(q, L) ==
    /\ Len(q) = L.len
    /\ NoDuplicates(q)
    /\ \A ci \in Items : L.inq[ci] <=> InQueue(q, ci)
    /\ L.head = (IF Len(q) = 0 THEN NULL ELSE q[1])
    /\ L.tail = (IF Len(q) = 0 THEN NULL ELSE q[Len(q)])
    /\ \A i \in 1..Len(q) :
          /\ L.prev[q[i]] = (IF i = 1 THEN NULL ELSE q[i - 1])
          /\ L.next[q[i]] = (IF i = Len(q) THEN NULL ELSE q[i + 1])
    /\ \A ci \in Items : ~L.inq[ci] => L.prev[ci] = NULL /\ L.next[ci] = NULL

QueueOf(L) == CHOOSE q \in [1..L.len -> Items] : Represents(q, L)

Abstract == INSTANCE CacheQueue WITH queue <- QueueOf(list)

(***************************************************************************)
(* Type invariant.                                                         *)
(***************************************************************************)
TypeOK == /\ list \in Lists
          /\ nvals \in [Items -> 0..MaxValues]

(***************************************************************************)
(* The list is well formed after every operation: walking next from the    *)
(* head and prev from the tail visit the same flagged items, each once,    *)
(* stats_queue_length counts them, and an item that is not queued has no   *)
(* dangling pointer (asserted by enqueue_cache_item before a TAIL insert). *)
(***************************************************************************)
WellFormed == \E q \in [1..list.len -> Items] : Represents(q, list)

(***************************************************************************)
(* An update thread never dequeues an item without values: the assertion   *)
(* values_num > 0 of queue_thread_main.                                    *)
(***************************************************************************)
QueuedHasValues == \A ci \in Items : list.inq[ci] => nvals[ci] > 0

(***************************************************************************)
(* The pointer code implements the abstract queue: every C operation is    *)
(* the sequence operation of the same name, seen through QueueOf.          *)
(***************************************************************************)
ImplementsCacheQueue == Abstract!Spec
=============================================================================
