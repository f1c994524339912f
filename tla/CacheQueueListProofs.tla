------------------------ MODULE CacheQueueListProofs ------------------------
(***************************************************************************)
(* The linked list of rrd_daemon.c computes the sequence operations of     *)
(* QueueOps, for every set of items: each C function maps a list that      *)
(* represents a sequence to one that represents the changed sequence.      *)
(* From this the list is always well formed, and CacheQueueList implements *)
(* CacheQueue.                                                             *)
(***************************************************************************)
EXTENDS CacheQueueList, QueueOpsProofs, WellFoundedInduction

\* remove_from_queue unlinks exactly the given item, at whatever place.
LEMMA RemoveRepresents ==
    ASSUME NEW L \in Lists, NEW q \in Seq(Items), Represents(q, L),
           NEW ci \in Items
    PROVE  /\ remove_from_queue(L, ci) \in Lists
           /\ Represents(Removed(q, ci), remove_from_queue(L, ci))
<1> DEFINE R == remove_from_queue(L, ci)
           r == Removed(q, ci)
<1>1. CASE ~L.inq[ci]
  BY <1>1 DEF Represents, remove_from_queue, Removed
<1>2. CASE L.inq[ci]
  <2>1. PICK k \in 1..Len(q) : q[k] = ci
    BY <1>2 DEF Represents, InQueue
  <2>2. NoDuplicates(q) /\ Len(q) = L.len
    BY DEF Represents
  <2>3. /\ r \in Seq(Items)
        /\ Len(r) = Len(q) - 1
        /\ \A j \in 1..(Len(q) - 1) : r[j] = IF j < k THEN q[j] ELSE q[j + 1]
    BY <2>1, <2>2, RemovedProperties
  <2>4. /\ NoDuplicates(r)
        /\ \A x : InQueue(r, x) <=> InQueue(q, x) /\ x # ci
    BY <2>2, RemovedIsQueue
  <2> HIDE DEF r
  <2> DEFINE p == L.prev[ci]
             n == L.next[ci]
  <2>5. /\ p = IF k = 1 THEN NULL ELSE q[k - 1]
        /\ n = IF k = Len(q) THEN NULL ELSE q[k + 1]
    BY <2>1 DEF Represents
  <2>6. /\ R.head = IF p = NULL THEN n ELSE L.head
        /\ R.tail = IF n = NULL THEN p ELSE L.tail
        /\ R.next = [x \in Items |-> IF x = ci THEN NULL
                                     ELSE IF x = p THEN n ELSE L.next[x]]
        /\ R.prev = [x \in Items |-> IF x = ci THEN NULL
                                     ELSE IF x = n THEN p ELSE L.prev[x]]
        /\ R.inq = [L.inq EXCEPT ![ci] = FALSE]
        /\ R.len = L.len - 1
    BY <1>2 DEF remove_from_queue
  <2>7. p \in Pointer /\ n \in Pointer /\ L.len - 1 \in Nat
    BY <2>2, <2>1 DEF Lists
  <2>8. R \in Lists
    BY <2>7, <1>2 DEF Lists, remove_from_queue, Pointer
  <2> HIDE DEF p, n, R
  <2>9. \A i \in 1..Len(q) : q[i] \in Items /\ q[i] # NULL
    BY NullAssumption
  <2>10. \A ci2 \in Items : R.inq[ci2] <=> InQueue(r, ci2)
    BY <2>4, <2>6 DEF Represents, Lists
  <2>11. R.head = (IF Len(r) = 0 THEN NULL ELSE r[1])
    <3>1. CASE k = 1
      <4>1. R.head = n
        BY <3>1, <2>5, <2>6
      <4>2. Len(q) # 1 => r[1] = q[2]
        BY <3>1, <2>3
      <4> QED BY <3>1, <4>1, <4>2, <2>3, <2>5
    <3>2. CASE k # 1
      <4>1. q[k - 1] # NULL
        BY <3>2, <2>9
      <4>2. R.head = q[1]
        BY <3>2, <4>1, <2>5, <2>6 DEF Represents
      <4>3. r[1] = q[1]
        BY <3>2, <2>3
      <4> QED BY <3>2, <4>2, <4>3, <2>3
    <3> QED BY <3>1, <3>2
  <2>12. R.tail = (IF Len(r) = 0 THEN NULL ELSE r[Len(r)])
    <3>1. CASE k = Len(q)
      <4>1. R.tail = p
        BY <3>1, <2>5, <2>6
      <4>2. Len(q) # 1 => r[Len(q) - 1] = q[Len(q) - 1]
        BY <3>1, <2>3
      <4> QED BY <3>1, <4>1, <4>2, <2>3, <2>5
    <3>2. CASE k # Len(q)
      <4>1. q[k + 1] # NULL
        BY <3>2, <2>9
      <4>2. R.tail = q[Len(q)]
        BY <3>2, <4>1, <2>5, <2>6 DEF Represents
      <4>3. r[Len(q) - 1] = q[Len(q)]
        BY <3>2, <2>3
      <4> QED BY <3>2, <4>2, <4>3, <2>3
    <3> QED BY <3>1, <3>2
  <2>13. ASSUME NEW i \in 1..Len(r)
         PROVE  /\ R.prev[r[i]] = (IF i = 1 THEN NULL ELSE r[i - 1])
                /\ R.next[r[i]] = (IF i = Len(r) THEN NULL ELSE r[i + 1])
    <3> DEFINE j == IF i < k THEN i ELSE i + 1
    <3>1. j \in 1..Len(q) /\ j # k /\ r[i] = q[j] /\ q[j] # ci
      <4>1. CASE i < k
        BY <4>1, <2>1, <2>2, <2>3 DEF NoDuplicates
      <4>2. CASE ~(i < k)
        <5>1. i + 1 \in 1..Len(q) /\ r[i] = q[i + 1]
          BY <4>2, <2>3
        <5>2. q[i + 1] # q[k]
          BY <5>1, <4>2, <2>2 DEF NoDuplicates
        <5> QED BY <5>1, <5>2, <4>2, <2>1
      <4> QED BY <4>1, <4>2
    <3>2. /\ L.prev[q[j]] = (IF j = 1 THEN NULL ELSE q[j - 1])
          /\ L.next[q[j]] = (IF j = Len(q) THEN NULL ELSE q[j + 1])
      BY <3>1 DEF Represents
    <3>3. /\ R.prev[q[j]] = IF q[j] = n THEN p ELSE L.prev[q[j]]
          /\ R.next[q[j]] = IF q[j] = p THEN n ELSE L.next[q[j]]
      BY <3>1, <2>6, <2>9
    <3>4. q[j] = n <=> j = k + 1
      BY <3>1, <2>1, <2>2, <2>5, <2>9 DEF NoDuplicates
    <3>5. q[j] = p <=> j = k - 1
      BY <3>1, <2>1, <2>2, <2>5, <2>9 DEF NoDuplicates
    <3>6. i # 1 => r[i - 1] = IF i - 1 < k THEN q[i - 1] ELSE q[i]
      BY <2>3
    <3>7. i # Len(r) => r[i + 1] = IF i + 1 < k THEN q[i + 1] ELSE q[i + 2]
      BY <2>3
    <3>8. R.prev[r[i]] = (IF i = 1 THEN NULL ELSE r[i - 1])
      <4>1. CASE i < k
        BY <4>1, <3>1, <3>2, <3>3, <3>4, <3>6
      <4>2. CASE i = k
        BY <4>2, <3>1, <3>2, <3>3, <3>4, <3>6, <2>5
      <4>3. CASE i > k
        BY <4>3, <3>1, <3>2, <3>3, <3>4, <3>6
      <4> QED BY <4>1, <4>2, <4>3
    <3>9. R.next[r[i]] = (IF i = Len(r) THEN NULL ELSE r[i + 1])
      <4>1. CASE i < k - 1
        BY <4>1, <3>1, <3>2, <3>3, <3>5, <3>7, <2>3
      <4>2. CASE i = k - 1
        BY <4>2, <3>1, <3>2, <3>3, <3>5, <3>7, <2>5, <2>3
      <4>3. CASE i > k - 1
        BY <4>3, <3>1, <3>2, <3>3, <3>5, <3>7, <2>3
      <4> QED BY <4>1, <4>2, <4>3
    <3> QED BY <3>8, <3>9
  <2>14. \A x \in Items : ~R.inq[x] => R.prev[x] = NULL /\ R.next[x] = NULL
    <3> TAKE x \in Items
    <3>1. CASE x = ci
      BY <3>1, <2>6
    <3>2. CASE x # ci /\ ~L.inq[x]
      <4>1. L.prev[x] = NULL /\ L.next[x] = NULL /\ ~InQueue(q, x)
        BY <3>2 DEF Represents
      <4>2. x # p /\ x # n
        BY <4>1, <2>1, <2>5, NullAssumption DEF InQueue
      <4> QED BY <3>2, <4>1, <4>2, <2>6
    <3>3. CASE x # ci /\ L.inq[x]
      BY <3>3, <2>6 DEF Lists
    <3> QED BY <3>1, <3>2, <3>3
  <2> QED BY <2>2, <2>3, <2>4, <2>6, <2>8, <2>10, <2>11, <2>12, <2>13, <2>14
          DEF Represents, r, R
<1> QED BY <1>1, <1>2

\* enqueue_cache_item(ci, HEAD) makes ci the first item and keeps the order
\* of the others; it returns early only when ci is the first already.
LEMMA HeadRepresents ==
    ASSUME NEW L \in Lists, NEW q \in Seq(Items), Represents(q, L),
           NEW ci \in Items
    PROVE  /\ enqueue_head(L, ci) \in Lists
           /\ Represents(AtHead(q, ci), enqueue_head(L, ci))
<1> DEFINE R == remove_from_queue(L, ci)
           r == Removed(q, ci)
           H == enqueue_head(L, ci)
           h == AtHead(q, ci)
<1>0. NoDuplicates(q)
  BY DEF Represents
<1>1. r \in Seq(Items) /\ \A x : InQueue(r, x) <=> InQueue(q, x) /\ x # ci
  BY <1>0, RemovedIsQueue
<1>2. R \in Lists /\ Represents(r, R)
  BY RemoveRepresents
<1>3. /\ h \in Seq(Items)
      /\ Len(h) = Len(r) + 1
      /\ h[1] = ci
      /\ \A i \in 2..(Len(r) + 1) : h[i] = r[i - 1]
  BY <1>1, ConsProperties DEF AtHead
<1>4. NoDuplicates(h) /\ \A x : InQueue(h, x) <=> InQueue(q, x) \/ x = ci
  BY <1>0, AtHeadIsQueue
<1>5. CASE L.head = ci
  <2>1. Len(q) # 0 /\ q[1] = ci
    BY <1>5, NullAssumption DEF Represents
  <2>2. /\ Len(r) = Len(q) - 1
        /\ \A j \in 1..(Len(q) - 1) : r[j] = q[j + 1]
    <3>1. 1 \in 1..Len(q)
      BY <2>1
    <3>2. /\ Len(r) = Len(q) - 1
          /\ \A j \in 1..(Len(q) - 1) : r[j] = IF j < 1 THEN q[j] ELSE q[j + 1]
      BY <3>1, <2>1, <1>0, RemovedProperties
    <3> HIDE DEF r
    <3> QED BY <3>2
  <2>3. h = q
    <3> HIDE DEF h, r
    <3>1. Len(h) = Len(q)
      BY <1>1, <1>3, <2>2
    <3>2. \A i \in 1..Len(q) : h[i] = q[i]
      BY <1>1, <1>3, <2>1, <2>2, SMTT(30)
    <3> QED BY <3>1, <3>2, <1>3, SeqEqual
  <2> QED BY <2>3, <1>5 DEF enqueue_head
<1>6. CASE L.head # ci
  <2>1. /\ H.head = ci
        /\ H.tail = IF R.tail = NULL THEN ci ELSE R.tail
        /\ H.next = [R.next EXCEPT ![ci] = R.head]
        /\ H.prev = [x \in Items |-> IF x = ci THEN NULL
                                     ELSE IF x = R.head THEN ci ELSE R.prev[x]]
        /\ H.inq = [R.inq EXCEPT ![ci] = TRUE]
        /\ H.len = R.len + 1
    BY <1>6 DEF enqueue_head
  <2> HIDE DEF R
  <2>2. H \in Lists
    BY <1>2, <1>6 DEF Lists, enqueue_head, Pointer, R
  <2> HIDE DEF H, h, r
  <2>3. \A i \in 1..Len(r) : r[i] \in Items /\ r[i] # NULL /\ r[i] # ci
    <3>1. ~InQueue(r, ci)
      BY <1>1
    <3> QED BY <3>1, <1>1, NullAssumption DEF InQueue
  <2>4. R.len = Len(r)
    BY <1>2 DEF Represents
  <2>5. \A x \in Items : H.inq[x] <=> InQueue(h, x)
    BY <2>1, <1>1, <1>2, <1>4 DEF Represents, Lists
  <2>6. H.tail = h[Len(h)]
    <3>1. CASE Len(r) = 0
      BY <3>1, <2>1, <1>2, <1>3, SMTT(30) DEF Represents
    <3>2. CASE Len(r) # 0
      <4>1. R.tail = r[Len(r)] /\ R.tail # NULL
        BY <3>2, <1>1, <1>2, <2>3 DEF Represents
      <4>2. h[Len(h)] = r[Len(r)]
        BY <3>2, <1>1, <1>3
      <4> QED BY <4>1, <4>2, <2>1
    <3> QED BY <3>1, <3>2
  <2>7. ASSUME NEW i \in 1..Len(h)
        PROVE  /\ H.prev[h[i]] = (IF i = 1 THEN NULL ELSE h[i - 1])
               /\ H.next[h[i]] = (IF i = Len(h) THEN NULL ELSE h[i + 1])
    <3>1. CASE i = 1
      <4>1. H.prev[ci] = NULL /\ H.next[ci] = R.head
        BY <2>1, <1>2 DEF Lists
      <4>2. R.head = IF Len(r) = 0 THEN NULL ELSE r[1]
        BY <1>2 DEF Represents
      <4>3. Len(r) # 0 => h[2] = r[1]
        BY <1>1, <1>3
      <4> QED BY <3>1, <4>1, <4>2, <4>3, <1>1, <1>3
    <3>2. CASE i # 1
      <4> DEFINE j == i - 1
      <4>1. j \in 1..Len(r) /\ h[i] = r[j] /\ r[j] \in Items /\ r[j] # ci
        BY <3>2, <1>1, <1>3, <2>3
      <4>2. /\ R.prev[r[j]] = (IF j = 1 THEN NULL ELSE r[j - 1])
            /\ R.next[r[j]] = (IF j = Len(r) THEN NULL ELSE r[j + 1])
        BY <4>1, <1>2 DEF Represents
      <4>3. /\ H.prev[r[j]] = IF r[j] = R.head THEN ci ELSE R.prev[r[j]]
            /\ H.next[r[j]] = R.next[r[j]]
        BY <4>1, <2>1, <1>2 DEF Lists
      <4>4. r[j] = R.head <=> j = 1
        BY <4>1, <1>2 DEF Represents, NoDuplicates
      <4>5. /\ j = 1 => h[i - 1] = ci
            /\ j # 1 => h[i - 1] = r[j - 1]
            /\ j # Len(r) => h[i + 1] = r[j + 1]
        <5>1. ASSUME j = 1 PROVE h[i - 1] = ci
          BY <5>1, <4>1, <1>3
        <5>2. ASSUME j # 1 PROVE h[i - 1] = r[j - 1]
          <6>1. i - 1 \in 2..(Len(r) + 1)
            BY <5>2, <4>1, <1>1
          <6> QED BY <6>1, <1>3
        <5>3. ASSUME j # Len(r) PROVE h[i + 1] = r[j + 1]
          <6>1. i + 1 \in 2..(Len(r) + 1) /\ (i + 1) - 1 = j + 1
            BY <5>3, <4>1, <1>1
          <6> QED BY <6>1, <1>3
        <5> QED BY <5>1, <5>2, <5>3
      <4> QED BY <3>2, <4>1, <4>2, <4>3, <4>4, <4>5, <1>1, <1>3
    <3> QED BY <3>1, <3>2
  <2>8. \A x \in Items : ~H.inq[x] => H.prev[x] = NULL /\ H.next[x] = NULL
    <3> SUFFICES ASSUME NEW x \in Items, ~H.inq[x]
                 PROVE  H.prev[x] = NULL /\ H.next[x] = NULL
      OBVIOUS
    <3>1. x # ci /\ ~R.inq[x]
      BY <2>1, <1>2 DEF Lists
    <3>2. R.prev[x] = NULL /\ R.next[x] = NULL /\ ~InQueue(r, x)
      BY <3>1, <1>2 DEF Represents
    <3>3. x # R.head
      BY <3>2, <1>1, <1>2, NullAssumption DEF Represents, InQueue
    <3> QED BY <3>1, <3>2, <3>3, <2>1, <1>2 DEF Lists
  <2>9. H.len = Len(h) /\ Len(h) # 0
    BY <2>1, <2>4, <1>1, <1>3
  <2>10. Represents(h, H)
    BY <2>1, <2>5, <2>6, <2>7, <2>8, <2>9, <1>3, <1>4 DEF Represents
  <2> QED BY <2>2, <2>10 DEF H, h
<1> QED BY <1>5, <1>6

\* enqueue_cache_item(ci, TAIL) appends ci, or leaves the list alone.
LEMMA TailRepresents ==
    ASSUME NEW L \in Lists, NEW q \in Seq(Items), Represents(q, L),
           NEW ci \in Items
    PROVE  /\ enqueue_tail(L, ci) \in Lists
           /\ Represents(AtTail(q, ci), enqueue_tail(L, ci))
<1> DEFINE T == enqueue_tail(L, ci)
           t == AtTail(q, ci)
<1>0. NoDuplicates(q) /\ Len(q) = L.len
  BY DEF Represents
<1>1. CASE L.inq[ci]
  BY <1>1 DEF enqueue_tail, AtTail, Represents
<1>2. CASE ~L.inq[ci]
  <2>1. ~InQueue(q, ci) /\ L.prev[ci] = NULL /\ L.next[ci] = NULL
    BY <1>2 DEF Represents
  <2>2. /\ t \in Seq(Items)
        /\ Len(t) = Len(q) + 1
        /\ \A i \in 1..Len(q) : t[i] = q[i]
        /\ t[Len(q) + 1] = ci
    BY <2>1, AppendProperties DEF AtTail
  <2>3. NoDuplicates(t) /\ \A x : InQueue(t, x) <=> InQueue(q, x) \/ x = ci
    BY <1>0, AtTailIsQueue
  <2>4. /\ T.head = IF L.tail = NULL THEN ci ELSE L.head
        /\ T.tail = ci
        /\ T.next = [x \in Items |-> IF x = L.tail THEN ci ELSE L.next[x]]
        /\ T.prev = [L.prev EXCEPT ![ci] = L.tail]
        /\ T.inq = [L.inq EXCEPT ![ci] = TRUE]
        /\ T.len = L.len + 1
    BY <1>2 DEF enqueue_tail
  <2>5. T \in Lists
    BY <1>2 DEF Lists, enqueue_tail, Pointer
  <2> HIDE DEF T, t
  <2>6. \A i \in 1..Len(q) : q[i] \in Items /\ q[i] # NULL /\ q[i] # ci
    BY <2>1, NullAssumption DEF InQueue
  <2>7. L.tail = (IF Len(q) = 0 THEN NULL ELSE q[Len(q)])
    BY DEF Represents
  <2>8. T.head = t[1]
    BY <2>2, <2>4, <2>6, <2>7 DEF Represents
  <2>9. \A x \in Items : T.inq[x] <=> InQueue(t, x)
    BY <2>3, <2>4 DEF Represents, Lists
  <2>10. ASSUME NEW i \in 1..Len(t)
         PROVE  /\ T.prev[t[i]] = (IF i = 1 THEN NULL ELSE t[i - 1])
                /\ T.next[t[i]] = (IF i = Len(t) THEN NULL ELSE t[i + 1])
    <3>1. CASE i = Len(t)
      <4>1. t[i] = ci /\ i = Len(q) + 1
        BY <3>1, <2>2
      <4>2. T.prev[ci] = L.tail
        BY <2>4 DEF Lists
      <4>3. ci # L.tail
        BY <2>6, <2>7, NullAssumption
      <4>4. T.next[ci] = NULL
        BY <2>1, <2>4, <4>3
      <4>5. i # 1 => t[i - 1] = q[Len(q)]
        BY <4>1, <2>2
      <4> QED BY <3>1, <4>1, <4>2, <4>4, <4>5, <2>7
    <3>2. CASE i # Len(t)
      <4>1. i \in 1..Len(q) /\ t[i] = q[i]
        BY <3>2, <2>2
      <4>2. /\ L.prev[q[i]] = (IF i = 1 THEN NULL ELSE q[i - 1])
            /\ L.next[q[i]] = (IF i = Len(q) THEN NULL ELSE q[i + 1])
        BY <4>1 DEF Represents
      <4>3. /\ T.prev[q[i]] = L.prev[q[i]]
            /\ T.next[q[i]] = IF q[i] = L.tail THEN ci ELSE L.next[q[i]]
        BY <4>1, <2>4, <2>6 DEF Lists
      <4>4. q[i] = L.tail <=> i = Len(q)
        BY <4>1, <1>0, <2>7 DEF NoDuplicates
      <4>5. /\ i # 1 => t[i - 1] = q[i - 1]
            /\ i = Len(q) => t[i + 1] = ci
            /\ i # Len(q) => t[i + 1] = q[i + 1]
        BY <4>1, <2>2
      <4> QED BY <3>2, <4>1, <4>2, <4>3, <4>4, <4>5
    <3> QED BY <3>1, <3>2
  <2>11. \A x \in Items : ~T.inq[x] => T.prev[x] = NULL /\ T.next[x] = NULL
    <3> SUFFICES ASSUME NEW x \in Items, ~T.inq[x]
                 PROVE  T.prev[x] = NULL /\ T.next[x] = NULL
      OBVIOUS
    <3>1. x # ci /\ ~L.inq[x]
      BY <2>4 DEF Lists
    <3>2. L.prev[x] = NULL /\ L.next[x] = NULL /\ ~InQueue(q, x)
      BY <3>1 DEF Represents
    <3>3. x # L.tail
      BY <3>2, <2>7, NullAssumption DEF InQueue
    <3> QED BY <3>1, <3>2, <3>3, <2>4 DEF Lists
  <2>12. T.len = Len(t) /\ Len(t) # 0
    BY <1>0, <2>2, <2>4
  <2>13. T.tail = t[Len(t)]
    BY <2>2, <2>4
  <2>14. Represents(t, T)
    BY <2>2, <2>3, <2>8, <2>9, <2>10, <2>11, <2>12, <2>13 DEF Represents
  <2> QED BY <2>5, <2>14 DEF T, t
<1> QED BY <1>1, <1>2

\* A list stands for one sequence only: two sequences that agree with the
\* pointers agree at the head and, following next, at every later place.
LEMMA RepresentationUnique ==
    ASSUME NEW L, NEW q \in Seq(Items), NEW r \in Seq(Items),
           Represents(q, L), Represents(r, L)
    PROVE  q = r
<1>1. Len(q) = Len(r)
  BY DEF Represents
<1> DEFINE T == {i \in 1..Len(q) : q[i] # r[i]}
<1>2. T = {}
  <2> SUFFICES ASSUME T # {} PROVE FALSE
    OBVIOUS
  <2>1. T \subseteq Nat
    OBVIOUS
  <2>2. PICK x \in T : \A y \in T : ~(<<y, x>> \in OpToRel(<, Nat))
    <3> HIDE DEF T
    <3> QED BY <2>1, WFMin, NatLessThanWellFounded
  <2>3. \A y \in T : ~(y < x)
    BY <2>1, <2>2 DEF OpToRel
  <2>4. CASE x = 1
    BY <2>4, <1>1 DEF Represents
  <2>5. CASE x # 1
    <3>1. x - 1 \in 1..Len(q) /\ x - 1 \notin T
      BY <2>3, <2>5
    <3>2. q[x - 1] = r[x - 1]
      BY <3>1
    <3>3. /\ L.next[q[x - 1]] = q[x]
          /\ L.next[r[x - 1]] = r[x]
      <4>1. /\ x - 1 # Len(q) /\ (x - 1) + 1 = x
            /\ x - 1 \in 1..Len(q) /\ x - 1 \in 1..Len(r)
        BY <3>1, <1>1
      <4>2. L.next[q[x - 1]] = q[(x - 1) + 1]
        BY <4>1 DEF Represents
      <4>3. L.next[r[x - 1]] = r[(x - 1) + 1]
        BY <4>1, <1>1 DEF Represents
      <4> QED BY <4>1, <4>2, <4>3
    <3> QED BY <3>2, <3>3
  <2> QED BY <2>4, <2>5
<1>3. \A i \in 1..Len(q) : q[i] = r[i]
  BY <1>2
<1> QED BY <1>1, <1>3, SeqEqual

\* So the refinement mapping returns the sequence that is represented.
LEMMA QueueOfRepresented ==
    ASSUME NEW L \in Lists, NEW q \in Seq(Items), Represents(q, L)
    PROVE  QueueOf(L) = q
<1>1. q \in [1..L.len -> Items]
  BY DEF Represents
<1>2. \A r \in [1..L.len -> Items] : r \in Seq(Items)
  <2>1. L.len \in Nat
    BY DEF Lists
  <2> QED BY <2>1, IsASeq
<1>3. PICK r \in [1..L.len -> Items] : r = QueueOf(L) /\ Represents(r, L)
  BY <1>1 DEF QueueOf
<1> QED BY <1>2, <1>3, RepresentationUnique

-----------------------------------------------------------------------------
(* The inductive invariant.                                                *)

Inv == TypeOK /\ WellFormed /\ QueuedHasValues

\* The sequence behind the current list.
LEMMA InvWitness ==
    ASSUME Inv
    PROVE  /\ list \in Lists
           /\ QueueOf(list) \in Seq(Items)
           /\ Represents(QueueOf(list), list)
           /\ NoDuplicates(QueueOf(list))
<1>1. list \in Lists
  BY DEF Inv, TypeOK
<1>2. PICK q \in [1..list.len -> Items] : Represents(q, list)
  BY DEF Inv, WellFormed
<1>3. q \in Seq(Items)
  BY <1>1, IsASeq DEF Lists
<1>4. QueueOf(list) = q
  BY <1>1, <1>2, <1>3, QueueOfRepresented
<1> QED BY <1>1, <1>2, <1>3, <1>4 DEF Represents

\* A step whose new list represents some sequence keeps the list well
\* formed, and that sequence is its abstract queue.
LEMMA StepWitness ==
    ASSUME NEW r \in Seq(Items), list' \in Lists, Represents(r, list')
    PROVE  WellFormed' /\ QueueOf(list)' = r
<1>1. r \in [1..list'.len -> Items]
  BY DEF Represents
<1>2. WellFormed'
  BY <1>1 DEF WellFormed
<1>3. QueueOf(list') = r
  BY QueueOfRepresented
<1> QED BY <1>2, <1>3

\* The empty list represents the empty queue.
LEMMA InitInv == Init => Inv /\ QueueOf(list) = <<>>
<1> SUFFICES ASSUME Init PROVE Inv /\ QueueOf(list) = <<>>
  OBVIOUS
<1>1. list \in Lists /\ list.len = 0
  BY DEF Init, EmptyList, Lists, Pointer
<1>2. <<>> \in Seq(Items) /\ Len(<<>>) = 0
  OBVIOUS
<1>3. Represents(<<>>, list)
  BY <1>2 DEF Represents, Init, EmptyList, NoDuplicates, InQueue
<1>4. QueueOf(list) = <<>>
  BY <1>1, <1>2, <1>3, QueueOfRepresented
<1>5. <<>> \in [1..list.len -> Items]
  BY <1>1
<1>6. WellFormed
  BY <1>3, <1>5 DEF WellFormed
<1>7. QueuedHasValues
  BY DEF QueuedHasValues, Init, EmptyList
<1>8. nvals \in [Items -> 0..MaxValues]
  BY MaxValuesAssumption DEF Init
<1> QED BY <1>1, <1>4, <1>6, <1>7, <1>8 DEF Inv, TypeOK

\* Every operation keeps the invariant, and is the abstract operation of the
\* same name on the sequence behind the list.
LEMMA NextInv ==
    Inv /\ [Next]_vars => Inv' /\ [Abstract!Next]_(Abstract!vars)
<1> SUFFICES ASSUME Inv, [Next]_vars
             PROVE  Inv' /\ [Abstract!Next]_(Abstract!vars)
  OBVIOUS
<1> DEFINE q == QueueOf(list)
<1>0. /\ list \in Lists
      /\ q \in Seq(Items)
      /\ Represents(q, list)
      /\ NoDuplicates(q)
  BY InvWitness
<1>a. /\ nvals \in [Items -> 0..MaxValues]
      /\ \A ci \in Items : list.inq[ci] => nvals[ci] > 0
      /\ \A ci \in Items : list.inq[ci] <=> InQueue(q, ci)
  BY <1>0 DEF Inv, TypeOK, QueuedHasValues, Represents
\* The instance has its own copies of the operators of QueueOps.
<1>b. \A x : /\ Abstract!Removed(q, x) = Removed(q, x)
            /\ Abstract!AtHead(q, x) = AtHead(q, x)
            /\ Abstract!AtTail(q, x) = AtTail(q, x)
  BY DEF Removed, AtHead, AtTail, InQueue, RemoveAt,
         Abstract!Removed, Abstract!AtHead, Abstract!AtTail,
         Abstract!InQueue, Abstract!RemoveAt
<1> HIDE DEF q
<1>1. ASSUME NEW ci \in Items, AddValue(ci)
      PROVE  Inv' /\ [Abstract!Next]_(Abstract!vars)
  <2>1. list' = list /\ nvals' \in [Items -> 0..MaxValues]
    BY <1>1, <1>a, MaxValuesAssumption DEF AddValue
  <2>2. QueuedHasValues'
    BY <1>1, <1>a, <2>1 DEF AddValue, QueuedHasValues
  <2>3. Inv'
    BY <2>1, <2>2 DEF Inv, TypeOK, WellFormed
  <2>4. Abstract!AddValue(ci)
    BY <1>1, <2>1 DEF AddValue, Abstract!AddValue
  <2> QED BY <2>3, <2>4 DEF Abstract!Next
<1>2. ASSUME NEW ci \in Items, EnqueueHead(ci)
      PROVE  Inv' /\ [Abstract!Next]_(Abstract!vars)
  <2>1. list' \in Lists /\ Represents(AtHead(q, ci), list')
    BY <1>0, <1>2, HeadRepresents DEF EnqueueHead
  <2>2. /\ AtHead(q, ci) \in Seq(Items)
        /\ \A x : InQueue(AtHead(q, ci), x) <=> InQueue(q, x) \/ x = ci
    BY <1>0, AtHeadIsQueue
  <2>3. WellFormed' /\ QueueOf(list)' = AtHead(q, ci)
    BY <2>1, <2>2, StepWitness
  <2>4. QueuedHasValues'
    BY <1>2, <1>a, <2>1, <2>2 DEF EnqueueHead, QueuedHasValues, Represents
  <2>5. Abstract!EnqueueHead(ci)
    BY <1>2, <1>b, <2>3 DEF EnqueueHead, Abstract!EnqueueHead, q
  <2>6. nvals' = nvals
    BY <1>2 DEF EnqueueHead
  <2> QED BY <1>a, <2>1, <2>3, <2>4, <2>5, <2>6 DEF Inv, TypeOK, Abstract!Next
<1>3. ASSUME NEW ci \in Items, EnqueueTail(ci)
      PROVE  Inv' /\ [Abstract!Next]_(Abstract!vars)
  <2>1. list' \in Lists /\ Represents(AtTail(q, ci), list')
    BY <1>0, <1>3, TailRepresents DEF EnqueueTail
  <2>2. /\ AtTail(q, ci) \in Seq(Items)
        /\ \A x : InQueue(AtTail(q, ci), x) <=> InQueue(q, x) \/ x = ci
    BY <1>0, AtTailIsQueue
  <2>3. WellFormed' /\ QueueOf(list)' = AtTail(q, ci)
    BY <2>1, <2>2, StepWitness
  <2>4. QueuedHasValues'
    BY <1>3, <1>a, <2>1, <2>2 DEF EnqueueTail, QueuedHasValues, Represents
  <2>5. Abstract!EnqueueTail(ci)
    BY <1>3, <1>b, <2>3 DEF EnqueueTail, Abstract!EnqueueTail, q
  <2>6. nvals' = nvals
    BY <1>3 DEF EnqueueTail
  <2> QED BY <1>a, <2>1, <2>3, <2>4, <2>5, <2>6 DEF Inv, TypeOK, Abstract!Next
<1>4. ASSUME NEW ci \in Items, Drop(ci)
      PROVE  Inv' /\ [Abstract!Next]_(Abstract!vars)
  <2>1. list' \in Lists /\ Represents(Removed(q, ci), list')
    BY <1>0, <1>4, RemoveRepresents DEF Drop
  <2>2. /\ Removed(q, ci) \in Seq(Items)
        /\ \A x : InQueue(Removed(q, ci), x) <=> InQueue(q, x) /\ x # ci
    BY <1>0, RemovedIsQueue
  <2>3. WellFormed' /\ QueueOf(list)' = Removed(q, ci)
    BY <2>1, <2>2, StepWitness
  <2>4. QueuedHasValues'
    BY <1>4, <1>a, <2>1, <2>2 DEF Drop, QueuedHasValues, Represents
  <2>5. nvals' \in [Items -> 0..MaxValues]
    BY <1>4, <1>a, MaxValuesAssumption DEF Drop
  <2>6. Abstract!Drop(ci)
    BY <1>4, <1>b, <2>3 DEF Drop, Abstract!Drop, q
  <2> QED BY <2>1, <2>3, <2>4, <2>5, <2>6 DEF Inv, TypeOK, Abstract!Next
<1>5. ASSUME Dequeue
      PROVE  Inv' /\ [Abstract!Next]_(Abstract!vars)
  <2> DEFINE ci == list.head
  <2>1. q # <<>> /\ ci = q[1]
    BY <1>0, <1>5 DEF Dequeue, Represents
  <2>2. /\ Head(q) \in Items
        /\ Head(q) = ci
        /\ InQueue(q, ci)
        /\ Tail(q) = Removed(q, ci)
    BY <1>0, <2>1, TailIsQueue
  <2>3. list' \in Lists /\ Represents(Removed(q, ci), list')
    BY <1>0, <1>5, <2>2, RemoveRepresents DEF Dequeue
  <2>4. /\ Removed(q, ci) \in Seq(Items)
        /\ \A x : InQueue(Removed(q, ci), x) <=> InQueue(q, x) /\ x # ci
    BY <1>0, <2>2, RemovedIsQueue
  <2>5. WellFormed' /\ QueueOf(list)' = Removed(q, ci)
    BY <2>3, <2>4, StepWitness
  <2>6. QueuedHasValues'
    BY <1>5, <1>a, <2>3, <2>4 DEF Dequeue, QueuedHasValues, Represents
  <2>7. nvals' \in [Items -> 0..MaxValues]
    BY <1>5, <1>a, <2>2, MaxValuesAssumption DEF Dequeue
  <2>8. Abstract!Dequeue
    BY <1>5, <2>1, <2>2, <2>5 DEF Dequeue, Abstract!Dequeue, q
  <2> QED BY <2>3, <2>5, <2>6, <2>7, <2>8 DEF Inv, TypeOK, Abstract!Next
<1>6. CASE UNCHANGED vars
  BY <1>6 DEF vars, Abstract!vars, Inv, TypeOK, WellFormed, QueuedHasValues
<1> QED BY <1>1, <1>2, <1>3, <1>4, <1>5, <1>6 DEF Next

-----------------------------------------------------------------------------
(***************************************************************************)
(* Pointers point to items or nowhere, and stats_queue_length never goes   *)
(* below zero, for any number of cache items.                              *)
(***************************************************************************)
THEOREM ListTypeCorrect == Spec => []TypeOK
<1>1. Init => Inv
  BY InitInv
<1>2. Inv /\ [Next]_vars => Inv'
  BY NextInv
<1>3. Inv => TypeOK
  BY DEF Inv
<1> QED BY <1>1, <1>2, <1>3, PTL DEF Spec

(***************************************************************************)
(* The queue of rrd_daemon.c is a well-formed doubly linked list after     *)
(* every operation, for any number of cache items: head, tail, prev, next, *)
(* the IN_QUEUE flags and stats_queue_length always agree.                 *)
(***************************************************************************)
THEOREM ListWellFormed == Spec => []WellFormed
<1>1. Init => Inv
  BY InitInv
<1>2. Inv /\ [Next]_vars => Inv'
  BY NextInv
<1>3. Inv => WellFormed
  BY DEF Inv
<1> QED BY <1>1, <1>2, <1>3, PTL DEF Spec

(***************************************************************************)
(* No queued item is ever without values, so the assertion values_num > 0  *)
(* of queue_thread_main cannot fail.                                       *)
(***************************************************************************)
THEOREM QueuedItemsHaveValues == Spec => []QueuedHasValues
<1>1. Init => Inv
  BY InitInv
<1>2. Inv /\ [Next]_vars => Inv'
  BY NextInv
<1>3. Inv => QueuedHasValues
  BY DEF Inv
<1> QED BY <1>1, <1>2, <1>3, PTL DEF Spec

(***************************************************************************)
(* The pointer code implements the abstract queue of module CacheQueue.    *)
(***************************************************************************)
THEOREM ListRefinesQueue == Spec => ImplementsCacheQueue
<1>1. Init => Inv /\ Abstract!Init
  BY InitInv DEF Abstract!Init, Init
<1>2. Inv /\ [Next]_vars => Inv' /\ [Abstract!Next]_(Abstract!vars)
  BY NextInv
<1> QED BY <1>1, <1>2, PTL DEF Spec, ImplementsCacheQueue, Abstract!Spec
=============================================================================
