--------------------------- MODULE QueueOpsProofs ---------------------------
(***************************************************************************)
(* What the operators of QueueOps return, element by element.  The proofs  *)
(* about the linked list and about the daemon rest on these lemmas.        *)
(***************************************************************************)
EXTENDS QueueOps, SequenceTheorems, TLAPS

\* In a queue without duplicates, the position of an item is unique.
LEMMA PositionUnique ==
    ASSUME NEW S, NEW q \in Seq(S), NoDuplicates(q), NEW k \in 1..Len(q)
    PROVE  (CHOOSE i \in 1..Len(q) : q[i] = q[k]) = k
BY DEF NoDuplicates

\* Removing the item at position k closes the gap: what was behind it moves
\* one place forward (remove_from_queue).
LEMMA RemovedProperties ==
    ASSUME NEW S, NEW q \in Seq(S), NoDuplicates(q), NEW k \in 1..Len(q)
    PROVE  /\ Removed(q, q[k]) \in Seq(S)
           /\ Len(Removed(q, q[k])) = Len(q) - 1
           /\ \A j \in 1..(Len(q) - 1) :
                 Removed(q, q[k])[j] = IF j < k THEN q[j] ELSE q[j + 1]
<1> DEFINE a == SubSeq(q, 1, k - 1)
           b == SubSeq(q, k + 1, Len(q))
<1>1. Removed(q, q[k]) = a \o b
  BY PositionUnique DEF Removed, InQueue, RemoveAt
<1>0. \A i \in 1..Len(q) : q[i] \in S
  OBVIOUS
<1>2. /\ a \in Seq(S)
      /\ Len(a) = k - 1
      /\ \A i \in 1..(k - 1) : a[i] = q[i]
  BY <1>0
<1>3. /\ b \in Seq(S)
      /\ Len(b) = Len(q) - k
      /\ \A i \in 1..(Len(q) - k) : b[i] = q[k + i]
  BY <1>0
<1> HIDE DEF a, b
<1>4. /\ a \o b \in Seq(S)
      /\ Len(a \o b) = Len(a) + Len(b)
      /\ \A i \in 1..(Len(a) + Len(b)) :
            (a \o b)[i] = IF i <= Len(a) THEN a[i] ELSE b[i - Len(a)]
  BY <1>2, <1>3, ConcatProperties, Zenon
<1>5. \A j \in 1..(Len(q) - 1) : (a \o b)[j] = IF j < k THEN q[j] ELSE q[j + 1]
  <2> TAKE j \in 1..(Len(q) - 1)
  <2>1. CASE j < k
    BY <2>1, <1>2, <1>3, <1>4
  <2>2. CASE ~(j < k)
    <3>1. (a \o b)[j] = b[j - (k - 1)]
      BY <2>2, <1>2, <1>3, <1>4
    <3>2. j - (k - 1) \in 1..(Len(q) - k)
      BY <2>2
    <3>3. b[j - (k - 1)] = q[k + (j - (k - 1))]
      BY <3>2, <1>3
    <3>4. k + (j - (k - 1)) = j + 1
      OBVIOUS
    <3> QED BY <2>2, <3>1, <3>3, <3>4
  <2> QED BY <2>1, <2>2
<1> QED BY <1>1, <1>2, <1>3, <1>4, <1>5

\* Removal leaves a duplicate-free queue of exactly the other items.
LEMMA RemovedIsQueue ==
    ASSUME NEW S, NEW q \in Seq(S), NoDuplicates(q), NEW ci \in S
    PROVE  /\ Removed(q, ci) \in Seq(S)
           /\ NoDuplicates(Removed(q, ci))
           /\ \A x : InQueue(Removed(q, ci), x) <=> InQueue(q, x) /\ x # ci
<1>1. CASE ~InQueue(q, ci)
  BY <1>1 DEF Removed, InQueue
<1>2. CASE InQueue(q, ci)
  <2>1. PICK k \in 1..Len(q) : q[k] = ci
    BY <1>2 DEF InQueue
  <2> DEFINE r == Removed(q, ci)
  <2>2. /\ r \in Seq(S)
        /\ Len(r) = Len(q) - 1
        /\ \A j \in 1..(Len(q) - 1) : r[j] = IF j < k THEN q[j] ELSE q[j + 1]
    BY <2>1, RemovedProperties
  <2> HIDE DEF r
  <2>3. NoDuplicates(r)
    <3> SUFFICES ASSUME NEW i \in 1..Len(r), NEW j \in 1..Len(r), r[i] = r[j]
                 PROVE  i = j
      BY DEF NoDuplicates
    <3> DEFINE at(x) == IF x < k THEN x ELSE x + 1
    <3>1. at(i) \in 1..Len(q) /\ r[i] = q[at(i)]
      BY <2>2
    <3>2. at(j) \in 1..Len(q) /\ r[j] = q[at(j)]
      BY <2>2
    <3>3. at(i) = at(j) => i = j
      OBVIOUS
    <3> HIDE DEF at
    <3>4. at(i) = at(j)
      BY <3>1, <3>2 DEF NoDuplicates
    <3> QED BY <3>3, <3>4
  <2>4. ASSUME NEW x, InQueue(r, x) PROVE InQueue(q, x) /\ x # ci
    <3>1. PICK j \in 1..Len(r) : r[j] = x
      BY <2>4 DEF InQueue
    <3> QED BY <3>1, <2>1, <2>2, SMTT(30) DEF InQueue, NoDuplicates
  <2>5. ASSUME NEW x, InQueue(q, x), x # ci PROVE InQueue(r, x)
    <3>1. PICK j \in 1..Len(q) : q[j] = x
      BY <2>5 DEF InQueue
    <3>2. CASE j < k
      BY <3>1, <3>2, <2>2 DEF InQueue
    <3>3. CASE j > k
      <4>1. /\ j - 1 \in 1..Len(r)
            /\ r[j - 1] = x
        BY <3>1, <3>3, <2>2
      <4> QED BY <4>1 DEF InQueue
    <3> QED BY <3>1, <3>2, <3>3, <2>1, <2>5
  <2> QED BY <2>2, <2>3, <2>4, <2>5 DEF r
<1> QED BY <1>1, <1>2

\* The element-by-element view of a queue with a new head.
LEMMA ConsProperties ==
    ASSUME NEW S, NEW r \in Seq(S), NEW ci \in S
    PROVE  /\ <<ci>> \o r \in Seq(S)
           /\ Len(<<ci>> \o r) = Len(r) + 1
           /\ (<<ci>> \o r)[1] = ci
           /\ \A i \in 2..(Len(r) + 1) : (<<ci>> \o r)[i] = r[i - 1]
<1>1. <<ci>> \in Seq(S) /\ Len(<<ci>>) = 1 /\ <<ci>>[1] = ci
  OBVIOUS
<1> DEFINE h == <<ci>>
<1>2. /\ h \o r \in Seq(S)
      /\ Len(h \o r) = Len(h) + Len(r)
      /\ \A i \in 1..(Len(h) + Len(r)) :
            (h \o r)[i] = IF i <= Len(h) THEN h[i] ELSE r[i - Len(h)]
  BY <1>1, ConcatProperties, Zenon
<1> HIDE DEF h
<1>3. Len(h) = 1 /\ h[1] = ci
  BY <1>1 DEF h
<1>4. /\ h \o r \in Seq(S)
      /\ Len(h \o r) = Len(r) + 1
      /\ (h \o r)[1] = ci
      /\ \A i \in 2..(Len(r) + 1) : (h \o r)[i] = r[i - 1]
  BY <1>2, <1>3
<1> QED BY <1>4 DEF h

\* Enqueueing at the head (a FLUSH) keeps the queue free of duplicates and
\* adds only the item itself.
LEMMA AtHeadIsQueue ==
    ASSUME NEW S, NEW q \in Seq(S), NoDuplicates(q), NEW ci \in S
    PROVE  /\ AtHead(q, ci) \in Seq(S)
           /\ NoDuplicates(AtHead(q, ci))
           /\ \A x : InQueue(AtHead(q, ci), x) <=> InQueue(q, x) \/ x = ci
<1> DEFINE r == Removed(q, ci)
           h == <<ci>> \o r
<1>1. /\ r \in Seq(S)
      /\ NoDuplicates(r)
      /\ \A x : InQueue(r, x) <=> InQueue(q, x) /\ x # ci
  BY RemovedIsQueue
<1> HIDE DEF r
<1>2. /\ h \in Seq(S)
      /\ Len(h) = Len(r) + 1
      /\ h[1] = ci
      /\ \A i \in 2..(Len(r) + 1) : h[i] = r[i - 1]
  BY <1>1, ConsProperties
<1> HIDE DEF h
<1>3. \A i \in 1..Len(r) : r[i] # ci
  BY <1>1 DEF InQueue
<1>4. NoDuplicates(h)
  <2> SUFFICES ASSUME NEW i \in 1..Len(h), NEW j \in 1..Len(h), h[i] = h[j]
               PROVE  i = j
    BY DEF NoDuplicates
  <2>1. CASE i = 1 /\ j = 1
    BY <2>1
  <2>2. CASE i = 1 /\ j # 1
    <3>1. j - 1 \in 1..Len(r) /\ h[j] = r[j - 1]
      BY <2>2, <1>1, <1>2
    <3> QED BY <3>1, <2>2, <1>2, <1>3
  <2>3. CASE i # 1 /\ j = 1
    <3>1. i - 1 \in 1..Len(r) /\ h[i] = r[i - 1]
      BY <2>3, <1>1, <1>2
    <3> QED BY <3>1, <2>3, <1>2, <1>3
  <2>4. CASE i # 1 /\ j # 1
    <3>1. /\ i - 1 \in 1..Len(r) /\ h[i] = r[i - 1]
          /\ j - 1 \in 1..Len(r) /\ h[j] = r[j - 1]
      BY <2>4, <1>1, <1>2
    <3>2. i - 1 = j - 1
      BY <3>1, <1>1 DEF NoDuplicates
    <3> QED BY <3>2
  <2> QED BY <2>1, <2>2, <2>3, <2>4
<1>5. ASSUME NEW x PROVE InQueue(h, x) <=> InQueue(r, x) \/ x = ci
  <2>1. ASSUME InQueue(h, x), x # ci PROVE InQueue(r, x)
    <3>1. PICK i \in 1..Len(h) : h[i] = x
      BY <2>1 DEF InQueue
    <3>2. i - 1 \in 1..Len(r) /\ r[i - 1] = x
      BY <3>1, <2>1, <1>1, <1>2
    <3> QED BY <3>2 DEF InQueue
  <2>2. ASSUME InQueue(r, x) PROVE InQueue(h, x)
    <3>1. PICK i \in 1..Len(r) : r[i] = x
      BY <2>2 DEF InQueue
    <3>2. i + 1 \in 1..Len(h) /\ h[i + 1] = x
      BY <3>1, <1>1, <1>2
    <3> QED BY <3>2 DEF InQueue
  <2>3. InQueue(h, ci)
    BY <1>1, <1>2 DEF InQueue
  <2> QED BY <2>1, <2>2, <2>3
<1>6. AtHead(q, ci) = h
  BY DEF AtHead, h, r
<1> QED BY <1>1, <1>2, <1>4, <1>5, <1>6

\* Enqueueing at the tail does too, and never moves a queued item back.
LEMMA AtTailIsQueue ==
    ASSUME NEW S, NEW q \in Seq(S), NoDuplicates(q), NEW ci \in S
    PROVE  /\ AtTail(q, ci) \in Seq(S)
           /\ NoDuplicates(AtTail(q, ci))
           /\ \A x : InQueue(AtTail(q, ci), x) <=> InQueue(q, x) \/ x = ci
<1>1. CASE InQueue(q, ci)
  BY <1>1 DEF AtTail, InQueue
<1>2. CASE ~InQueue(q, ci)
  <2> DEFINE t == Append(q, ci)
  <2>1. /\ t \in Seq(S)
        /\ Len(t) = Len(q) + 1
        /\ \A i \in 1..Len(q) : t[i] = q[i]
        /\ t[Len(q) + 1] = ci
    BY AppendProperties
  <2> HIDE DEF t
  <2>2. \A i \in 1..Len(q) : q[i] # ci
    BY <1>2 DEF InQueue
  <2>3. NoDuplicates(t)
    BY <2>1, <2>2 DEF NoDuplicates
  <2>4. \A x : InQueue(t, x) <=> InQueue(q, x) \/ x = ci
    BY <2>1 DEF InQueue
  <2>5. AtTail(q, ci) = t
    BY <1>2 DEF AtTail, t
  <2> QED BY <2>1, <2>3, <2>4, <2>5
<1> QED BY <1>1, <1>2

\* Dequeueing the head is removing the item at position 1.
LEMMA TailIsQueue ==
    ASSUME NEW S, NEW q \in Seq(S), NoDuplicates(q), q # <<>>
    PROVE  /\ Head(q) \in S
           /\ Head(q) = q[1]
           /\ InQueue(q, Head(q))
           /\ Tail(q) = Removed(q, Head(q))
<1>1. Len(q) >= 1 /\ Head(q) = q[1] /\ q[1] \in S
  OBVIOUS
<1> DEFINE r == Removed(q, Head(q))
           t == Tail(q)
<1>2. /\ r \in Seq(S)
      /\ Len(r) = Len(q) - 1
      /\ \A j \in 1..(Len(q) - 1) : r[j] = q[j + 1]
  BY <1>1, RemovedProperties
<1>3. /\ t \in Seq(S)
      /\ Len(t) = Len(q) - 1
      /\ \A j \in 1..(Len(q) - 1) : t[j] = q[j + 1]
  BY <1>1
<1> HIDE DEF r, t
<1>4. r = t
  BY <1>2, <1>3
<1> QED BY <1>1, <1>4 DEF r, t, InQueue
=============================================================================
