----------------------- MODULE RrdcachedJournalProofs -----------------------
(***************************************************************************)
(* What is owed can be restored and nothing else comes back, for any       *)
(* number of files, threads, values, rotations, crashes and starts.        *)
(*                                                                         *)
(* The first part says what a replay of the journal gives, for every       *)
(* sequence of entries.  The recursive functions of FlattenSeq and         *)
(* ReplayAll are given by their recursion, and what is true of every       *)
(* sequence is proved with an induction over sets of sequences.            *)
(***************************************************************************)
EXTENDS RrdcachedJournal, SequenceTheorems, WellFoundedInduction, TLAPS

-----------------------------------------------------------------------------
(* Induction over the length of a sequence, with a set for the property.   *)

\* Every nonempty set of natural numbers has a least element.
LEMMA LeastNumber ==
    ASSUME NEW N, N \subseteq Nat, N # {}
    PROVE  \E n \in N : \A m \in N : n <= m
<1>1. PICK n \in N : \A m \in N : ~(<<m, n>> \in OpToRel(<, Nat))
  BY WFMin, NatLessThanWellFounded
<1>2. \A m \in N : ~(m < n) /\ m \in Nat
  BY <1>1 DEF OpToRel
<1> QED BY <1>2

\* A set of sequences that has the empty one, and with each sequence also its
\* extensions, has them all.
LEMMA SequenceInduction ==
    ASSUME NEW S, NEW T, <<>> \in T,
           \A s \in Seq(S), e \in S : s \in T => Append(s, e) \in T
    PROVE  Seq(S) \subseteq T
<1> SUFFICES ASSUME Seq(S) \ T # {} PROVE FALSE
  BY Zenon
<1> DEFINE N == {Len(s) : s \in Seq(S) \ T}
<1>1. N \subseteq Nat /\ N # {}
  OBVIOUS
<1>2. PICK n \in N : \A m \in N : n <= m
  <2> HIDE DEF N
  <2> QED BY <1>1, LeastNumber
<1>3. PICK s \in Seq(S) \ T : Len(s) = n
  OBVIOUS
<1>4. s # <<>> /\ n \in Nat \ {0}
  BY <1>1, <1>3, EmptySeq
<1> DEFINE r == SubSeq(s, 1, n - 1)
<1>5. /\ r \in Seq(S) /\ Len(r) = n - 1
      /\ \A i \in 1..(n - 1) : r[i] = s[i]
  <2>1. \A i \in 1..(n - 1) : s[i] \in S
    BY <1>3, <1>4, ElementOfSeq
  <2>2. /\ r \in Seq(S)
        /\ Len(r) = IF 1 <= n - 1 THEN n - 1 - 1 + 1 ELSE 0
        /\ \A i \in 1..(n - 1 - 1 + 1) : r[i] = s[1 + i - 1]
    BY <1>4, <2>1, SubSeqProperties
  <2> HIDE DEF r
  <2> QED BY <2>2, <1>4
<1>6. s[n] \in S
  BY <1>3, <1>4, ElementOfSeq
<1>7. s = Append(r, s[n])
  <2> HIDE DEF r
  <2>1. Append(r, s[n]) \in Seq(S) /\ Len(Append(r, s[n])) = Len(s)
    BY <1>3, <1>4, <1>5, <1>6
  <2>2. \A i \in 1..Len(s) : s[i] = Append(r, s[n])[i]
    BY <1>3, <1>4, <1>5, <1>6
  <2> QED BY <2>1, <2>2, SeqEqual
<1>8. r \notin T
  <2> HIDE DEF r
  <2> QED BY <1>3, <1>5, <1>6, <1>7
<1>9. n - 1 \in N
  <2> HIDE DEF r
  <2> QED BY <1>5, <1>8
<1> QED
  <2> HIDE DEF N
  <2> QED BY <1>2, <1>4, <1>9

-----------------------------------------------------------------------------
(* Files laid end to end.                                                  *)

ConcatIsAssociative(S) == \A r, s, t \in Seq(S) : (r \o s) \o t = r \o (s \o t)

LEMMA Associative == \A S : ConcatIsAssociative(S)
  BY ConcatAssociative, Zenon DEF ConcatIsAssociative

\* The recursive function of FlattenSeq.
Joined(seqs) ==
    CHOOSE flatten : flatten = [i \in 1..Len(seqs) |->
        IF i = 1 THEN seqs[i] ELSE flatten[i - 1] \o seqs[i]]

LEMMA JoinedIsFlatten ==
    ASSUME NEW S, NEW fs \in Seq(Seq(S))
    PROVE  FlattenSeq(fs) = IF Len(fs) = 0 THEN fs ELSE Joined(fs)[Len(fs)]
  BY DEF FlattenSeq, Joined

LEMMA JoinedRecursion ==
    ASSUME NEW S, NEW fs \in Seq(Seq(S))
    PROVE  /\ DOMAIN Joined(fs) = 1..Len(fs)
           /\ \A i \in 1..Len(fs) :
                 Joined(fs)[i] = IF i = 1 THEN fs[i] ELSE Joined(fs)[i - 1] \o fs[i]
<1> DEFINE Rec(g, n) == g = [i \in 1..n |-> IF i = 1 THEN fs[i] ELSE g[i - 1] \o fs[i]]
           Bad == {n \in Nat : ~\E g : Rec(g, n)}
<1>1. Bad = {}
  <2> SUFFICES ASSUME Bad # {} PROVE FALSE
    OBVIOUS
  <2>1. PICK n \in Bad : \A m \in Bad : n <= m
    <3>1. Bad \subseteq Nat
      OBVIOUS
    <3> HIDE DEF Bad
    <3> QED BY <3>1, LeastNumber
  <2>2. n # 0
    <3> SUFFICES \E g : Rec(g, 0)
      OBVIOUS
    <3> DEFINE g == [i \in 1..0 |-> fs[i]]
    <3>1. Rec(g, 0)
      OBVIOUS
    <3> QED BY <3>1
  <2>3. n \in Nat /\ n - 1 \in Nat /\ n - 1 \notin Bad
    <3>1. n \in Nat
      OBVIOUS
    <3> HIDE DEF Bad
    <3> QED BY <3>1, <2>1, <2>2
  <2>4. PICK g : Rec(g, n - 1)
    BY <2>3
  <2> DEFINE last == IF n = 1 THEN fs[n] ELSE g[n - 1] \o fs[n]
             h == [i \in 1..n |-> IF i = n THEN last ELSE g[i]]
  <2>5. Rec(h, n)
    <3>1. \A i \in 1..n : i # 1 => h[i - 1] = g[i - 1]
      BY <2>3
    <3>2. \A i \in 1..n : h[i] = IF i = 1 THEN fs[i] ELSE h[i - 1] \o fs[i]
      <4> SUFFICES ASSUME NEW i \in 1..n
                   PROVE  h[i] = IF i = 1 THEN fs[i] ELSE h[i - 1] \o fs[i]
        OBVIOUS
      <4>1. CASE i = n
        BY <4>1, <3>1
      <4>2. CASE i # n
        <5>1. i \in 1..(n - 1)
          BY <4>2, <2>3
        <5>2. h[i] = g[i]
          BY <4>2
        <5>3. g[i] = IF i = 1 THEN fs[i] ELSE g[i - 1] \o fs[i]
          <6> HIDE DEF h, last
          <6> QED BY <5>1, <2>4
        <5> HIDE DEF h, last
        <5> QED BY <5>2, <5>3, <3>1
      <4> QED BY <4>1, <4>2
    <3>3. h = [i \in 1..n |-> h[i]]
      OBVIOUS
    <3> HIDE DEF h
    <3> QED BY <3>2, <3>3
  <2> QED BY <2>5
<1>2. \E g : Rec(g, Len(fs))
  <2>1. Len(fs) \in Nat /\ Len(fs) \notin Bad
    <3> HIDE DEF Bad
    <3> QED BY <1>1
  <2> QED BY <2>1
<1>3. Rec(Joined(fs), Len(fs))
  BY <1>2 DEF Joined
<1> QED BY <1>3

LEMMA FlattenEmpty == FlattenSeq(<<>>) = <<>>
  BY DEF FlattenSeq

\* The files before another one are laid out as they are without it.
LEMMA FlattenAppend ==
    ASSUME NEW S, NEW fs \in Seq(Seq(S)), NEW s \in Seq(S),
           FlattenSeq(fs) \in Seq(S)
    PROVE  FlattenSeq(Append(fs, s)) = FlattenSeq(fs) \o s
<1> DEFINE n == Len(fs)
           gs == Append(fs, s)
           F == Joined(fs)
           G == Joined(gs)
<1>1. n \in Nat /\ gs \in Seq(Seq(S)) /\ Len(gs) = n + 1 /\ gs[n + 1] = s
  OBVIOUS
<1>2. \A i \in 1..n : gs[i] = fs[i]
  OBVIOUS
<1>3. /\ \A i \in 1..n : F[i] = IF i = 1 THEN fs[i] ELSE F[i - 1] \o fs[i]
      /\ \A i \in 1..(n + 1) : G[i] = IF i = 1 THEN gs[i] ELSE G[i - 1] \o gs[i]
  BY <1>1, JoinedRecursion
<1>4. FlattenSeq(gs) = G[n + 1]
  <2> HIDE DEF gs, G, n
  <2> QED BY <1>1, JoinedIsFlatten DEF G
<1>5. FlattenSeq(fs) = IF n = 0 THEN fs ELSE F[n]
  BY JoinedIsFlatten
<1> HIDE DEF n, gs, F, G
<1>6. CASE n = 0
  <2>1. fs = <<>>
    BY <1>6, EmptySeq DEF n
  <2>2. FlattenSeq(gs) = s
    BY <1>1, <1>3, <1>4, <1>6
  <2> QED BY <2>1, <2>2, FlattenEmpty, ConcatEmptySeq DEF gs
<1>7. CASE n # 0
  <2>1. \A i \in 1..n : G[i] = F[i]
    <3> DEFINE N == {i \in 1..n : G[i] # F[i]}
    <3> SUFFICES ASSUME N # {} PROVE FALSE
      OBVIOUS
    <3>1. PICK i \in N : \A j \in N : i <= j
      <4>1. N \subseteq Nat
        BY <1>1
      <4> HIDE DEF N
      <4> QED BY <4>1, LeastNumber
    <3>2. i \in 1..n /\ i \in 1..(n + 1) /\ G[i] # F[i]
      BY <1>1
    <3>3. i # 1
      BY <3>2, <1>2, <1>3
    <3>4. i - 1 \in 1..n /\ ~(i <= i - 1)
      BY <3>2, <3>3, <1>1
    <3>5. G[i - 1] = F[i - 1]
      BY <3>1, <3>4
    <3> QED BY <3>2, <3>3, <3>5, <1>2, <1>3
  <2>2. n \in 1..n /\ n + 1 \in 1..(n + 1) /\ n + 1 # 1 /\ n + 1 - 1 = n
    BY <1>1, <1>7
  <2>3. G[n + 1] = G[n] \o s
    <3> DEFINE k == n + 1
    <3>1. k \in 1..(n + 1) /\ k # 1 /\ k - 1 = n /\ gs[k] = s
      BY <2>2, <1>1
    <3> HIDE DEF k
    <3>2. G[k] = IF k = 1 THEN gs[k] ELSE G[k - 1] \o gs[k]
      BY <1>3, <3>1
    <3>3. G[k] = G[n] \o s
      BY <3>1, <3>2
    <3> QED BY <3>3 DEF k
  <2> QED BY <1>4, <1>5, <1>7, <2>1, <2>2, <2>3 DEF gs
<1> QED BY <1>6, <1>7

LEMMA FlattenType ==
    ASSUME NEW S
    PROVE  \A fs \in Seq(Seq(S)) : FlattenSeq(fs) \in Seq(S)
<1> DEFINE T == {fs \in Seq(Seq(S)) : FlattenSeq(fs) \in Seq(S)}
<1>1. <<>> \in T
  BY FlattenEmpty, EmptySeq
<1>2. ASSUME NEW fs \in Seq(Seq(S)), NEW s \in Seq(S), fs \in T
      PROVE  Append(fs, s) \in T
  <2>1. FlattenSeq(Append(fs, s)) = FlattenSeq(fs) \o s
    BY <1>2, FlattenAppend
  <2>2. FlattenSeq(fs) \o s \in Seq(S)
    BY <1>2, ConcatProperties
  <2>3. Append(fs, s) \in Seq(Seq(S))
    OBVIOUS
  <2> QED BY <2>1, <2>2, <2>3, Zenon
<1>3. Seq(Seq(S)) \subseteq T
  <2> HIDE DEF T
  <2> QED BY <1>1, <1>2, SequenceInduction
<1> QED BY <1>3

LEMMA FlattenConcat ==
    ASSUME NEW S, NEW fs \in Seq(Seq(S))
    PROVE  \A gs \in Seq(Seq(S)) : FlattenSeq(fs \o gs) = FlattenSeq(fs) \o FlattenSeq(gs)
<1>a. ConcatIsAssociative(S)
  BY Associative, Zenon
<1> DEFINE T == {gs \in Seq(Seq(S)) : FlattenSeq(fs \o gs) = FlattenSeq(fs) \o FlattenSeq(gs)}
<1>0. FlattenSeq(fs) \in Seq(S)
  BY FlattenType
<1>1. <<>> \in T
  <2>1. fs \o <<>> = fs /\ <<>> \in Seq(Seq(S))
    BY ConcatEmptySeq, EmptySeq
  <2>2. FlattenSeq(fs) \o <<>> = FlattenSeq(fs)
    BY <1>0, ConcatEmptySeq
  <2> QED BY <2>1, <2>2, FlattenEmpty
<1>2. ASSUME NEW gs \in Seq(Seq(S)), NEW s \in Seq(S), gs \in T
      PROVE  Append(gs, s) \in T
  <2>1. fs \o gs \in Seq(Seq(S)) /\ FlattenSeq(gs) \in Seq(S) /\ FlattenSeq(fs \o gs) \in Seq(S)
    BY ConcatProperties, FlattenType
  <2>2. fs \o Append(gs, s) = Append(fs \o gs, s)
    OBVIOUS
  <2>3. FlattenSeq(Append(fs \o gs, s)) = FlattenSeq(fs \o gs) \o s
    BY <2>1, FlattenAppend
  <2>4. FlattenSeq(Append(gs, s)) = FlattenSeq(gs) \o s
    BY <2>1, FlattenAppend
  <2>5. (FlattenSeq(fs) \o FlattenSeq(gs)) \o s = FlattenSeq(fs) \o (FlattenSeq(gs) \o s)
    <3> DEFINE a == FlattenSeq(fs)
               b == FlattenSeq(gs)
    <3>1. a \in Seq(S) /\ b \in Seq(S)
      BY <1>0, <2>1
    <3> HIDE DEF a, b
    <3>2. (a \o b) \o s = a \o (b \o s)
      BY <1>a, <3>1, Zenon DEF ConcatIsAssociative
    <3> QED BY <3>2 DEF a, b
  <2>6. Append(gs, s) \in Seq(Seq(S))
    OBVIOUS
  <2>7. FlattenSeq(fs \o gs) = FlattenSeq(fs) \o FlattenSeq(gs)
    BY <1>2
  <2>8. FlattenSeq(fs \o Append(gs, s)) = FlattenSeq(fs) \o FlattenSeq(Append(gs, s))
    BY <2>2, <2>3, <2>4, <2>5, <2>7, Zenon
  <2> QED BY <2>6, <2>8, Zenon
<1>3. Seq(Seq(S)) \subseteq T
  <2> HIDE DEF T
  <2> QED BY <1>1, <1>2, SequenceInduction
<1> QED BY <1>3

LEMMA FlattenOne ==
    ASSUME NEW S, NEW s \in Seq(S)
    PROVE  FlattenSeq(<<s>>) = s
<1>1. <<s>> = Append(<<>>, s) /\ <<>> \in Seq(Seq(S)) /\ <<>> \in Seq(S)
  OBVIOUS
<1>2. FlattenSeq(<<s>>) = FlattenSeq(<<>>) \o s
  BY <1>1, FlattenAppend, FlattenEmpty
<1> QED BY <1>2, FlattenEmpty, ConcatEmptySeq

\* The oldest file comes first.
LEMMA FlattenTail ==
    ASSUME NEW S, NEW fs \in Seq(Seq(S)), fs # <<>>
    PROVE  FlattenSeq(fs) = fs[1] \o FlattenSeq(Tail(fs))
<1>1. fs[1] \in Seq(S) /\ Tail(fs) \in Seq(Seq(S)) /\ <<fs[1]>> \in Seq(Seq(S))
  OBVIOUS
<1>2. fs = <<fs[1]>> \o Tail(fs)
  <2>1. <<fs[1]>> \o Tail(fs) \in Seq(Seq(S))
    BY <1>1, ConcatProperties
  <2>2. /\ Len(<<fs[1]>> \o Tail(fs)) = Len(fs)
        /\ \A i \in 1..Len(fs) : (<<fs[1]>> \o Tail(fs))[i] = fs[i]
    OBVIOUS
  <2> QED BY <2>1, <2>2, SeqEqual
<1>3. FlattenSeq(<<fs[1]>> \o Tail(fs)) = FlattenSeq(<<fs[1]>>) \o FlattenSeq(Tail(fs))
  BY <1>1, FlattenConcat, Zenon
<1>4. FlattenSeq(<<fs[1]>>) = fs[1]
  BY <1>1, FlattenOne
<1>5. FlattenSeq(fs) = FlattenSeq(<<fs[1]>> \o Tail(fs))
  BY <1>2, Zenon
<1> QED BY <1>3, <1>4, <1>5, Zenon

\* What is appended to the newest file is appended to the whole.
LEMMA FlattenExtend ==
    ASSUME NEW S, NEW fs \in Seq(Seq(S)), NEW s \in Seq(S), fs # <<>>
    PROVE  /\ [fs EXCEPT ![Len(fs)] = @ \o s] \in Seq(Seq(S))
           /\ FlattenSeq([fs EXCEPT ![Len(fs)] = @ \o s]) = FlattenSeq(fs) \o s
<1>a. ConcatIsAssociative(S)
  BY Associative, Zenon
<1> DEFINE n == Len(fs)
           front == SubSeq(fs, 1, n - 1)
           gs == [fs EXCEPT ![n] = @ \o s]
<1>1. n \in Nat \ {0} /\ n \in 1..n
  BY EmptySeq
<1>2. fs[n] \in Seq(S) /\ fs[n] \o s \in Seq(S)
  BY <1>1, ElementOfSeq, ConcatProperties
<1>3. /\ gs \in Seq(Seq(S)) /\ Len(gs) = n
      /\ \A j \in 1..n : gs[j] = IF j = n THEN fs[n] \o s ELSE fs[j]
  BY <1>1, <1>2, ExceptSeq
<1>4. front \in Seq(Seq(S)) /\ Len(front) = n - 1 /\ \A i \in 1..(n - 1) : front[i] = fs[i]
  <2>1. \A i \in 1..(n - 1) : fs[i] \in Seq(S)
    BY <1>1, ElementOfSeq
  <2>2. /\ front \in Seq(Seq(S))
        /\ Len(front) = IF 1 <= n - 1 THEN n - 1 - 1 + 1 ELSE 0
        /\ \A i \in 1..(n - 1 - 1 + 1) : front[i] = fs[1 + i - 1]
    BY <1>1, <2>1, SubSeqProperties
  <2> HIDE DEF front, n
  <2> QED BY <2>2, <1>1
<1> HIDE DEF front
<1>5. fs = Append(front, fs[n])
  <2>1. /\ Append(front, fs[n]) \in Seq(Seq(S)) /\ Len(Append(front, fs[n])) = Len(fs)
        /\ \A i \in 1..Len(fs) : fs[i] = Append(front, fs[n])[i]
    BY <1>1, <1>2, <1>4
  <2> QED BY <2>1, SeqEqual
<1>6. gs = Append(front, fs[n] \o s)
  <2> HIDE DEF gs, n
  <2> DEFINE hs == Append(front, fs[n] \o s)
  <2>1. hs \in Seq(Seq(S)) /\ Len(hs) = n
    BY <1>1, <1>2, <1>4
  <2>2. \A i \in 1..n : gs[i] = hs[i]
    <3>1. hs[n] = fs[n] \o s
      BY <1>1, <1>2, <1>4
    <3>2. \A i \in 1..(n - 1) : hs[i] = fs[i]
      BY <1>1, <1>2, <1>4
    <3> HIDE DEF hs
    <3> SUFFICES ASSUME NEW i \in 1..n PROVE gs[i] = hs[i]
      OBVIOUS
    <3>3. CASE i = n
      BY <3>1, <3>3, <1>1, <1>3
    <3>4. CASE i # n
      <4>1. i \in 1..(n - 1)
        BY <3>4, <1>1
      <4> QED BY <4>1, <3>2, <3>4, <1>3
    <3> QED BY <3>3, <3>4
  <2> HIDE DEF hs
  <2>3. gs = hs
    BY <2>1, <2>2, <1>3, SeqEqual
  <2> QED BY <2>3 DEF hs
<1>7. FlattenSeq(front) \in Seq(S)
  BY <1>4, FlattenType
<1>8. FlattenSeq(fs) = FlattenSeq(front) \o fs[n]
  BY <1>2, <1>4, <1>5, <1>7, FlattenAppend
<1>9. FlattenSeq(gs) = FlattenSeq(front) \o (fs[n] \o s)
  BY <1>2, <1>4, <1>6, <1>7, FlattenAppend
<1>10. (FlattenSeq(front) \o fs[n]) \o s = FlattenSeq(front) \o (fs[n] \o s)
  <2> DEFINE a == FlattenSeq(front)
             b == fs[n]
  <2>1. a \in Seq(S) /\ b \in Seq(S)
    BY <1>2, <1>7
  <2> HIDE DEF a, b
  <2>2. (a \o b) \o s = a \o (b \o s)
    BY <1>a, <2>1, Zenon DEF ConcatIsAssociative
  <2> QED BY <2>2 DEF a, b
<1> HIDE DEF gs
<1>11. FlattenSeq(gs) = FlattenSeq(fs) \o s
  BY <1>8, <1>9, <1>10
<1> QED BY <1>3, <1>11 DEF gs, n

-----------------------------------------------------------------------------
(* The replay of entries one after the other.                              *)

\* The recursive function of ReplayAll.
Replayed(entries) ==
    CHOOSE items : items = [n \in 0..Len(entries) |->
        IF n = 0 THEN EmptyCache ELSE ReplayEntry(items[n - 1], entries[n])]

LEMMA ReplayedRecursion ==
    ASSUME NEW S, NEW s \in Seq(S)
    PROVE  /\ ReplayAll(s) = Replayed(s)[Len(s)]
           /\ \A n \in 0..Len(s) :
                 Replayed(s)[n] = IF n = 0 THEN EmptyCache
                                  ELSE ReplayEntry(Replayed(s)[n - 1], s[n])
<1> DEFINE Rec(g, n) ==
             g = [i \in 0..n |-> IF i = 0 THEN EmptyCache ELSE ReplayEntry(g[i - 1], s[i])]
           Bad == {n \in Nat : ~\E g : Rec(g, n)}
<1>1. Bad = {}
  <2> SUFFICES ASSUME Bad # {} PROVE FALSE
    OBVIOUS
  <2>1. PICK n \in Bad : \A m \in Bad : n <= m
    <3>1. Bad \subseteq Nat
      OBVIOUS
    <3> HIDE DEF Bad
    <3> QED BY <3>1, LeastNumber
  <2>2. n # 0
    <3> SUFFICES \E g : Rec(g, 0)
      OBVIOUS
    <3> DEFINE g == [i \in 0..0 |-> EmptyCache]
    <3>1. Rec(g, 0)
      OBVIOUS
    <3> QED BY <3>1
  <2>3. n \in Nat /\ n - 1 \in Nat /\ n - 1 \notin Bad
    <3>1. n \in Nat
      OBVIOUS
    <3> HIDE DEF Bad
    <3> QED BY <3>1, <2>1, <2>2
  <2>4. PICK g : Rec(g, n - 1)
    BY <2>3
  <2> DEFINE last1 == ReplayEntry(g[n - 1], s[n])
             h == [i \in 0..n |-> IF i = n THEN last1 ELSE g[i]]
  <2>5. Rec(h, n)
    <3>1. \A i \in 0..n : i # 0 => h[i - 1] = g[i - 1]
      BY <2>3
    <3>2. \A i \in 0..n : h[i] = IF i = 0 THEN EmptyCache ELSE ReplayEntry(h[i - 1], s[i])
      <4> SUFFICES ASSUME NEW i \in 0..n
                   PROVE  h[i] = IF i = 0 THEN EmptyCache ELSE ReplayEntry(h[i - 1], s[i])
        OBVIOUS
      <4>1. CASE i = n
        <5>1. h[i] = last1 /\ h[i - 1] = g[n - 1]
          BY <4>1, <3>1, <2>2
        <5> HIDE DEF h
        <5> QED BY <4>1, <5>1, <2>2
      <4>2. CASE i # n
        <5>1. i \in 0..(n - 1)
          BY <4>2, <2>3
        <5>2. h[i] = g[i]
          BY <4>2
        <5>3. g[i] = IF i = 0 THEN EmptyCache ELSE ReplayEntry(g[i - 1], s[i])
          <6> HIDE DEF h, last1
          <6> QED BY <5>1, <2>4
        <5> HIDE DEF h, last1
        <5> QED BY <5>2, <5>3, <3>1
      <4> QED BY <4>1, <4>2
    <3>3. h = [i \in 0..n |-> h[i]]
      OBVIOUS
    <3> HIDE DEF h
    <3> QED BY <3>2, <3>3
  <2> QED BY <2>5
<1>2. \E g : Rec(g, Len(s))
  <2>1. Len(s) \in Nat /\ Len(s) \notin Bad
    <3> HIDE DEF Bad
    <3> QED BY <1>1
  <2> QED BY <2>1
<1>3. Rec(Replayed(s), Len(s))
  BY <1>2 DEF Replayed
<1>4. ReplayAll(s) = Replayed(s)[Len(s)]
  BY DEF ReplayAll, Replayed
<1> QED BY <1>3, <1>4

LEMMA ReplayEmpty == ReplayAll(<<>>) = EmptyCache
<1>1. <<>> \in Seq({}) /\ Len(<<>>) = 0 /\ 0 \in 0..0
  BY EmptySeq
<1>2. ReplayAll(<<>>) = Replayed(<<>>)[Len(<<>>)]
  BY <1>1, ReplayedRecursion
<1>3. Replayed(<<>>)[0] = EmptyCache
  <2>1. \A n \in 0..Len(<<>>) :
           Replayed(<<>>)[n] = IF n = 0 THEN EmptyCache
                               ELSE ReplayEntry(Replayed(<<>>)[n - 1], (<<>>)[n])
    BY <1>1, ReplayedRecursion
  <2> QED BY <2>1, <1>1
<1> QED BY <1>1, <1>2, <1>3

LEMMA ReplayAppend ==
    ASSUME NEW S, NEW s \in Seq(S), NEW e \in S
    PROVE  ReplayAll(Append(s, e)) = ReplayEntry(ReplayAll(s), e)
<1> DEFINE n == Len(s)
           t == Append(s, e)
           F == Replayed(s)
           G == Replayed(t)
<1>1. n \in Nat /\ t \in Seq(S) /\ Len(t) = n + 1 /\ t[n + 1] = e /\ \A i \in 1..n : t[i] = s[i]
  OBVIOUS
<1>2. /\ ReplayAll(s) = F[n]
      /\ \A i \in 0..n : F[i] = IF i = 0 THEN EmptyCache ELSE ReplayEntry(F[i - 1], s[i])
  BY ReplayedRecursion
<1>3. /\ ReplayAll(t) = G[n + 1]
      /\ \A i \in 0..(n + 1) : G[i] = IF i = 0 THEN EmptyCache ELSE ReplayEntry(G[i - 1], t[i])
  <2> HIDE DEF n, t
  <2> QED BY <1>1, ReplayedRecursion
<1> HIDE DEF n, t, F, G
<1>4. \A i \in 0..n : G[i] = F[i]
  <2> DEFINE N == {i \in 0..n : G[i] # F[i]}
  <2> SUFFICES ASSUME N # {} PROVE FALSE
    OBVIOUS
  <2>1. PICK i \in N : \A j \in N : i <= j
    <3>1. N \subseteq Nat
      BY <1>1
    <3> HIDE DEF N
    <3> QED BY <3>1, LeastNumber
  <2>2. i \in 0..n /\ i \in 0..(n + 1) /\ G[i] # F[i]
    BY <1>1
  <2>3. i # 0
    BY <2>2, <1>2, <1>3
  <2>4. i - 1 \in 0..n /\ i \in 1..n /\ ~(i <= i - 1)
    BY <2>2, <2>3, <1>1
  <2>5. G[i - 1] = F[i - 1]
    BY <2>1, <2>4
  <2>6. F[i] = ReplayEntry(F[i - 1], s[i])
    BY <2>2, <2>3, <1>2
  <2>7. G[i] = ReplayEntry(G[i - 1], t[i])
    BY <2>2, <2>3, <1>3
  <2>8. t[i] = s[i]
    BY <2>4, <1>1
  <2> QED BY <2>2, <2>5, <2>6, <2>7, <2>8
<1>5. G[n + 1] = ReplayEntry(G[n], e)
  <2> DEFINE k == n + 1
  <2>1. k \in 0..(n + 1) /\ k # 0 /\ k - 1 = n /\ t[k] = e
    BY <1>1
  <2> HIDE DEF k
  <2>2. G[k] = IF k = 0 THEN EmptyCache ELSE ReplayEntry(G[k - 1], t[k])
    BY <1>3, <2>1
  <2>3. G[k] = ReplayEntry(G[n], e)
    BY <2>1, <2>2
  <2> QED BY <2>3 DEF k
<1>6. n \in 0..n
  BY <1>1
<1> QED BY <1>2, <1>3, <1>4, <1>5, <1>6 DEF t

-----------------------------------------------------------------------------
(* What one entry does to one file.                                        *)

Records(e, f) == e.cmd = "update" /\ e.file = f
Resets(e, f) == e.cmd # "update" /\ e.file = f

Vals(items, f) == ValuesOf(items[f].vals)

Cache == [Files -> Items]

LEMMA BoundType == MaxStamp \in Nat
  BY BoundAssumption

LEMMA ValuesOfAppend ==
    ASSUME NEW S, NEW s \in Seq(S), NEW e \in S
    PROVE  ValuesOf(Append(s, e)) = ValuesOf(s) \union {e}
<1>1. /\ Len(s) \in Nat /\ Len(Append(s, e)) = Len(s) + 1
      /\ \A i \in 1..Len(s) : Append(s, e)[i] = s[i]
      /\ Append(s, e)[Len(s) + 1] = e
  OBVIOUS
<1>2. 1..(Len(s) + 1) = 1..Len(s) \union {Len(s) + 1}
  BY <1>1
<1> QED BY <1>1, <1>2 DEF ValuesOf

LEMMA NoItemType == NoItem \in Items /\ EmptyCache \in Cache /\ ValuesOf(<<>>) = {}
<1>1. <<>> \in Seq(1..MaxStamp) /\ Len(<<>>) = 0
  BY EmptySeq
<1>2. 0 \in 0..MaxStamp
  BY BoundType
<1> QED BY <1>1, <1>2 DEF NoItem, EmptyCache, Items, Cache, ValuesOf

LEMMA ReplayUpdate ==
    ASSUME NEW items \in Cache, NEW e \in Entries, e.cmd = "update"
    PROVE  LET r == ReplayEntry(items, e)
               f == e.file
           IN  /\ r \in Cache
               /\ \A g \in Files \ {f} : r[g] = items[g]
               /\ e.stamp > items[f].last =>
                     Vals(r, f) = Vals(items, f) \union {e.stamp} /\ r[f].last = e.stamp
               /\ ~(e.stamp > items[f].last) =>
                     Vals(r, f) = Vals(items, f) /\ r[f].last = items[f].last
<1> DEFINE r == ReplayEntry(items, e)
           f == e.file
           it == items[f]
<1>1. f \in Files /\ e.stamp \in 1..MaxStamp /\ it \in Items
  BY DEF Entries, Cache
<1>2. CASE e.stamp > it.last
  <2> DEFINE new == [in |-> TRUE, vals |-> Append(it.vals, e.stamp), last |-> e.stamp]
  <2>1. r = [items EXCEPT ![f] = new]
    BY <1>2 DEF ReplayEntry
  <2>2. new \in Items
    <3>1. Append(it.vals, e.stamp) \in Seq(1..MaxStamp)
      BY <1>1 DEF Items
    <3>2. e.stamp \in 0..MaxStamp
      BY <1>1
    <3> QED BY <3>1, <3>2 DEF Items
  <2>3. ValuesOf(new.vals) = ValuesOf(it.vals) \union {e.stamp}
    <3>1. it.vals \in Seq(1..MaxStamp)
      BY <1>1 DEF Items
    <3>2. ValuesOf(Append(it.vals, e.stamp)) = ValuesOf(it.vals) \union {e.stamp}
      <4>1. \A s \in Seq(1..MaxStamp), v \in 1..MaxStamp :
               ValuesOf(Append(s, v)) = ValuesOf(s) \union {v}
        BY ValuesOfAppend
      <4> QED BY <4>1, <3>1, <1>1
    <3> QED BY <3>2
  <2>4. r[f] = new /\ new.last = e.stamp
    <3> HIDE DEF r, it, f
    <3>1. r[f] = new
      <4> HIDE DEF new
      <4> QED BY <1>1, <2>1 DEF Cache
    <3> QED BY <3>1
  <2>5. r \in Cache /\ \A g \in Files \ {f} : r[g] = items[g]
    <3> HIDE DEF r, it, f, new
    <3> QED BY <1>1, <2>1, <2>2 DEF Cache
  <2> HIDE DEF new, r
  <2> QED BY <1>2, <2>3, <2>4, <2>5 DEF Vals, r
<1>3. CASE ~(e.stamp > it.last)
  <2>1. r = [items EXCEPT ![f].in = TRUE]
    BY <1>3 DEF ReplayEntry
  <2>2. /\ r[f] = [it EXCEPT !.in = TRUE]
        /\ \A g \in Files \ {f} : r[g] = items[g]
    BY <2>1, <1>1 DEF Cache
  <2>3. [it EXCEPT !.in = TRUE] \in Items /\ r[f].vals = it.vals /\ r[f].last = it.last
    BY <1>1, <2>2 DEF Items
  <2>4. r \in Cache
    BY <1>1, <2>1, <2>3 DEF Cache
  <2> HIDE DEF r
  <2> QED BY <1>3, <2>2, <2>3, <2>4 DEF Vals, r
<1> QED BY <1>2, <1>3

LEMMA ReplayReset ==
    ASSUME NEW items \in Cache, NEW e \in Entries, e.cmd # "update"
    PROVE  LET r == ReplayEntry(items, e)
               f == e.file
           IN  /\ r \in Cache
               /\ \A g \in Files \ {f} : r[g] = items[g]
               /\ Vals(r, f) = {}
               /\ r[f].last = IF e.cmd = "wrote" THEN items[f].last ELSE 0
<1> DEFINE r == ReplayEntry(items, e)
           f == e.file
           it == items[f]
<1>1. f \in Files /\ it \in Items /\ e.cmd \in {"wrote", "forget"}
  BY DEF Entries, Cache
<1>2. CASE e.cmd = "wrote"
  <2>1. r = [items EXCEPT ![f].vals = <<>>]
    BY <1>2 DEF ReplayEntry
  <2>2. /\ r[f] = [it EXCEPT !.vals = <<>>]
        /\ \A g \in Files \ {f} : r[g] = items[g]
    BY <2>1, <1>1 DEF Cache
  <2>3. <<>> \in Seq(1..MaxStamp)
    BY EmptySeq
  <2>4. [it EXCEPT !.vals = <<>>] \in Items /\ r[f].vals = <<>> /\ r[f].last = it.last
    BY <1>1, <2>2, <2>3 DEF Items
  <2>5. r \in Cache
    BY <1>1, <2>1, <2>4 DEF Cache
  <2> HIDE DEF r
  <2> QED BY <1>2, <2>2, <2>4, <2>5, NoItemType DEF Vals, r
<1>3. CASE e.cmd = "forget"
  <2>1. r = [items EXCEPT ![f] = NoItem]
    BY <1>3 DEF ReplayEntry
  <2>2. r[f] = NoItem /\ r \in Cache /\ \A g \in Files \ {f} : r[g] = items[g]
    <3> HIDE DEF r
    <3> QED BY <2>1, <1>1, NoItemType DEF Cache
  <2>3. NoItem.vals = <<>> /\ NoItem.last = 0
    BY DEF NoItem
  <2> HIDE DEF r
  <2> QED BY <1>3, <2>2, <2>3, NoItemType DEF Vals, r
<1> QED BY <1>1, <1>2, <1>3

-----------------------------------------------------------------------------
(* The updates of a file that no entry after them has wiped.               *)

Stamps(s, f) == StampsOf(ValuesOf(s), f)

Live(s, f, i) == /\ Records(s[i], f)
                 /\ \A j \in 1..Len(s) : i < j => ~Resets(s[j], f)

Since(s, f) == {s[i].stamp : i \in {j \in 1..Len(s) : Live(s, f, j)}}

\* Each of them was newer than all that the journal had of its file.
Fresh(s, f) ==
    \A i \in 1..Len(s) : Live(s, f, i) =>
       \A h \in 1..Len(s) : h < i /\ Records(s[h], f) => s[h].stamp < s[i].stamp

LEMMA InStamps ==
    ASSUME NEW s, NEW f
    PROVE  \A x : x \in Stamps(s, f) <=>
                     \E i \in 1..Len(s) : Records(s[i], f) /\ s[i].stamp = x
  BY DEF Stamps, StampsOf, ValuesOf, Records

LEMMA StampsEmpty == \A f : Stamps(<<>>, f) = {}
<1>1. Len(<<>>) = 0
  BY EmptySeq
<1> QED BY <1>1, InStamps

LEMMA AppendFacts ==
    ASSUME NEW S, NEW s \in Seq(S), NEW e \in S
    PROVE  /\ Len(s) \in Nat /\ Append(s, e) \in Seq(S)
           /\ Len(Append(s, e)) = Len(s) + 1
           /\ \A i \in 1..Len(s) : Append(s, e)[i] = s[i] /\ i \in 1..(Len(s) + 1)
           /\ Append(s, e)[Len(s) + 1] = e /\ Len(s) + 1 \in 1..(Len(s) + 1)
           /\ \A i \in 1..(Len(s) + 1) : i \in 1..Len(s) \/ i = Len(s) + 1
  OBVIOUS

LEMMA StampsAppend ==
    ASSUME NEW s \in Seq(Entries), NEW e \in Entries, NEW f
    PROVE  /\ Records(e, f) => Stamps(Append(s, e), f) = Stamps(s, f) \union {e.stamp}
           /\ ~Records(e, f) => Stamps(Append(s, e), f) = Stamps(s, f)
<1> DEFINE t == Append(s, e)
           n == Len(s)
<1>1. /\ n \in Nat /\ Len(t) = n + 1 /\ t[n + 1] = e /\ n + 1 \in 1..(n + 1)
      /\ \A i \in 1..n : t[i] = s[i] /\ i \in 1..(n + 1)
      /\ \A i \in 1..(n + 1) : i \in 1..n \/ i = n + 1
  BY AppendFacts
<1>2. \A x : x \in Stamps(t, f) <=> \E i \in 1..Len(t) : Records(t[i], f) /\ t[i].stamp = x
  BY InStamps
<1>3. \A x : x \in Stamps(s, f) <=> \E i \in 1..n : Records(s[i], f) /\ s[i].stamp = x
  BY InStamps
<1> HIDE DEF t, n
<1>4. \A x : x \in Stamps(t, f) <=> x \in Stamps(s, f) \/ (Records(e, f) /\ e.stamp = x)
  <2> TAKE x
  <2>1. ASSUME x \in Stamps(t, f) PROVE x \in Stamps(s, f) \/ (Records(e, f) /\ e.stamp = x)
    <3>1. PICK i \in 1..(n + 1) : Records(t[i], f) /\ t[i].stamp = x
      BY <2>1, <1>1, <1>2
    <3> QED BY <3>1, <1>1, <1>3
  <2>2. ASSUME x \in Stamps(s, f) PROVE x \in Stamps(t, f)
    <3>1. PICK i \in 1..n : Records(s[i], f) /\ s[i].stamp = x
      BY <2>2, <1>3
    <3> QED BY <3>1, <1>1, <1>2
  <2>3. ASSUME Records(e, f), e.stamp = x PROVE x \in Stamps(t, f)
    BY <2>3, <1>1, <1>2
  <2> QED BY <2>1, <2>2, <2>3
<1> QED BY <1>4 DEF t

LEMMA LiveAppend ==
    ASSUME NEW s \in Seq(Entries), NEW e \in Entries, NEW f
    PROVE  LET t == Append(s, e)
           IN  /\ \A i \in 1..Len(s) : Live(t, f, i) <=> Live(s, f, i) /\ ~Resets(e, f)
               /\ Live(t, f, Len(s) + 1) <=> Records(e, f)
<1> DEFINE t == Append(s, e)
           n == Len(s)
<1>1. /\ n \in Nat /\ Len(t) = n + 1 /\ t[n + 1] = e /\ n + 1 \in 1..(n + 1)
      /\ \A i \in 1..n : t[i] = s[i] /\ i \in 1..(n + 1)
      /\ \A i \in 1..(n + 1) : i \in 1..n \/ i = n + 1
  BY AppendFacts
<1> HIDE DEF t, n
<1>2. \A i \in 1..n : Live(t, f, i) <=> Live(s, f, i) /\ ~Resets(e, f)
  <2> TAKE i \in 1..n
  <2>1. i < n + 1 /\ t[i] = s[i]
    BY <1>1
  <2>2. (\A j \in 1..Len(t) : i < j => ~Resets(t[j], f))
          <=> (\A j \in 1..n : i < j => ~Resets(s[j], f)) /\ ~Resets(e, f)
    BY <2>1, <1>1
  <2> QED BY <2>1, <2>2 DEF Live, n
<1>3. Live(t, f, n + 1) <=> Records(e, f)
  <2>1. \A j \in 1..Len(t) : ~(n + 1 < j)
    BY <1>1
  <2> QED BY <2>1, <1>1 DEF Live
<1> QED BY <1>2, <1>3 DEF t, n

LEMMA InSince ==
    ASSUME NEW s, NEW f
    PROVE  \A x : x \in Since(s, f) <=>
                     \E i \in 1..Len(s) : Live(s, f, i) /\ s[i].stamp = x
  BY DEF Since

LEMMA SinceAppend ==
    ASSUME NEW s \in Seq(Entries), NEW e \in Entries, NEW f
    PROVE  /\ Records(e, f) => Since(Append(s, e), f) = Since(s, f) \union {e.stamp}
           /\ Resets(e, f) => Since(Append(s, e), f) = {}
           /\ e.file # f => Since(Append(s, e), f) = Since(s, f)
<1> DEFINE t == Append(s, e)
           n == Len(s)
<1>1. /\ n \in Nat /\ Len(t) = n + 1 /\ t[n + 1] = e /\ n + 1 \in 1..(n + 1)
      /\ \A i \in 1..n : t[i] = s[i] /\ i \in 1..(n + 1)
      /\ \A i \in 1..(n + 1) : i \in 1..n \/ i = n + 1
  BY AppendFacts
<1>2. /\ \A i \in 1..n : Live(t, f, i) <=> Live(s, f, i) /\ ~Resets(e, f)
      /\ Live(t, f, n + 1) <=> Records(e, f)
  BY LiveAppend
<1>3. \A x : x \in Since(t, f) <=> \E i \in 1..Len(t) : Live(t, f, i) /\ t[i].stamp = x
  BY InSince
<1>4. \A x : x \in Since(s, f) <=> \E i \in 1..n : Live(s, f, i) /\ s[i].stamp = x
  BY InSince
<1> HIDE DEF t, n
<1>5. \A x : x \in Since(t, f) <=> \/ x \in Since(s, f) /\ ~Resets(e, f)
                                   \/ Records(e, f) /\ e.stamp = x
  <2> TAKE x
  <2>1. ASSUME x \in Since(t, f)
        PROVE  (x \in Since(s, f) /\ ~Resets(e, f)) \/ (Records(e, f) /\ e.stamp = x)
    <3>1. PICK i \in 1..(n + 1) : Live(t, f, i) /\ t[i].stamp = x
      BY <2>1, <1>1, <1>3
    <3> QED BY <3>1, <1>1, <1>2, <1>4
  <2>2. ASSUME x \in Since(s, f), ~Resets(e, f) PROVE x \in Since(t, f)
    <3>1. PICK i \in 1..n : Live(s, f, i) /\ s[i].stamp = x
      BY <2>2, <1>4
    <3> QED BY <3>1, <2>2, <1>1, <1>2, <1>3
  <2>3. ASSUME Records(e, f), e.stamp = x PROVE x \in Since(t, f)
    BY <2>3, <1>1, <1>2, <1>3
  <2> QED BY <2>1, <2>2, <2>3
<1>6. Records(e, f) => ~Resets(e, f)
  BY DEF Records, Resets
<1>7. e.file # f => ~Resets(e, f) /\ ~Records(e, f)
  BY DEF Records, Resets
<1>8. Resets(e, f) => ~Records(e, f)
  BY DEF Records, Resets
<1> QED BY <1>5, <1>6, <1>7, <1>8 DEF t

LEMMA FreshAppend ==
    ASSUME NEW s \in Seq(Entries), NEW e \in Entries, NEW f
    PROVE  /\ Records(e, f) =>
                 (Fresh(Append(s, e), f) <=>
                    Fresh(s, f) /\ \A x \in Stamps(s, f) : x < e.stamp)
           /\ Resets(e, f) => Fresh(Append(s, e), f)
           /\ e.file # f => (Fresh(Append(s, e), f) <=> Fresh(s, f))
<1> DEFINE t == Append(s, e)
           n == Len(s)
<1>1. /\ n \in Nat /\ Len(t) = n + 1 /\ t[n + 1] = e /\ n + 1 \in 1..(n + 1)
      /\ \A i \in 1..n : t[i] = s[i] /\ i \in 1..(n + 1)
      /\ \A i \in 1..(n + 1) : i \in 1..n \/ i = n + 1
  BY AppendFacts
<1>2. /\ \A i \in 1..n : Live(t, f, i) <=> Live(s, f, i) /\ ~Resets(e, f)
      /\ Live(t, f, n + 1) <=> Records(e, f)
  BY LiveAppend
<1>3. \A x : x \in Stamps(s, f) <=> \E i \in 1..n : Records(s[i], f) /\ s[i].stamp = x
  BY InStamps
<1> DEFINE Newer(i) == \A h \in 1..n : h < i /\ Records(s[h], f) => s[h].stamp < t[i].stamp
<1> HIDE DEF t, n
<1>4. ASSUME NEW i \in 1..(n + 1)
      PROVE  (\A h \in 1..Len(t) : h < i /\ Records(t[h], f) => t[h].stamp < t[i].stamp)
                <=> Newer(i)
  <2>1. \A h \in 1..Len(t) : h < i => h \in 1..n
    BY <1>1
  <2> QED BY <2>1, <1>1
<1>5. Fresh(t, f) <=> \A i \in 1..(n + 1) : Live(t, f, i) => Newer(i)
  <2> HIDE DEF Newer
  <2> QED BY <1>1, <1>4 DEF Fresh
<1>6. Fresh(s, f) <=> \A i \in 1..n : Live(s, f, i) => Newer(i)
  BY <1>1 DEF Fresh, n
<1>7. Newer(n + 1) <=> \A x \in Stamps(s, f) : x < e.stamp
  BY <1>1, <1>3
<1> HIDE DEF Newer
<1>8. Fresh(t, f) <=> /\ ~Resets(e, f) => Fresh(s, f)
                      /\ Records(e, f) => \A x \in Stamps(s, f) : x < e.stamp
  BY <1>1, <1>2, <1>5, <1>6, <1>7
<1> QED BY <1>8 DEF Records, Resets, t

-----------------------------------------------------------------------------
(* What the replay of a sequence of entries gives.                         *)

LEMMA ReplayStep ==
    ASSUME NEW s \in Seq(Entries), NEW e \in Entries, ReplayAll(s) \in Cache
    PROVE  /\ ReplayAll(Append(s, e)) = ReplayEntry(ReplayAll(s), e)
           /\ ReplayAll(Append(s, e)) \in Cache
<1>1. ReplayAll(Append(s, e)) = ReplayEntry(ReplayAll(s), e)
  BY ReplayAppend
<1>2. ReplayEntry(ReplayAll(s), e) \in Cache
  BY ReplayUpdate, ReplayReset
<1> QED BY <1>1, <1>2

LEMMA ReplayType == \A s \in Seq(Entries) : ReplayAll(s) \in Cache
<1> DEFINE T == {s \in Seq(Entries) : ReplayAll(s) \in Cache}
<1>1. <<>> \in T
  BY ReplayEmpty, NoItemType, EmptySeq
<1>2. ASSUME NEW s \in Seq(Entries), NEW e \in Entries, s \in T
      PROVE  Append(s, e) \in T
  <2>1. ReplayAll(Append(s, e)) \in Cache
    BY <1>2, ReplayStep
  <2>2. Append(s, e) \in Seq(Entries)
    OBVIOUS
  <2> QED BY <2>1, <2>2
<1>3. Seq(Entries) \subseteq T
  <2> HIDE DEF T
  <2> QED BY <1>1, <1>2, SequenceInduction
<1> QED BY <1>3

\* One more entry, seen from one file.
LEMMA ReplayMore ==
    ASSUME NEW s \in Seq(Entries), NEW e \in Entries, NEW f \in Files
    PROVE  LET r == ReplayAll(Append(s, e))
               i == ReplayAll(s)
           IN  /\ e.file # f => r[f] = i[f]
               /\ Records(e, f) /\ e.stamp > i[f].last =>
                     Vals(r, f) = Vals(i, f) \union {e.stamp} /\ r[f].last = e.stamp
               /\ Records(e, f) /\ ~(e.stamp > i[f].last) =>
                     Vals(r, f) = Vals(i, f) /\ r[f].last = i[f].last
               /\ Resets(e, f) =>
                     /\ Vals(r, f) = {}
                     /\ r[f].last = IF e.cmd = "wrote" THEN i[f].last ELSE 0
<1> DEFINE r == ReplayAll(Append(s, e))
           i == ReplayAll(s)
<1>1. i \in Cache /\ r = ReplayEntry(i, e)
  BY ReplayType, ReplayStep
<1> HIDE DEF r, i
<1> DEFINE Effect ==
             /\ e.file # f => r[f] = i[f]
             /\ Records(e, f) /\ e.stamp > i[f].last =>
                   Vals(r, f) = Vals(i, f) \union {e.stamp} /\ r[f].last = e.stamp
             /\ Records(e, f) /\ ~(e.stamp > i[f].last) =>
                   Vals(r, f) = Vals(i, f) /\ r[f].last = i[f].last
             /\ Resets(e, f) =>
                   /\ Vals(r, f) = {}
                   /\ r[f].last = IF e.cmd = "wrote" THEN i[f].last ELSE 0
<1>2. ASSUME e.cmd = "update" PROVE Effect
  <2>1. /\ \A g \in Files \ {e.file} : r[g] = i[g]
        /\ e.stamp > i[e.file].last =>
              Vals(r, e.file) = Vals(i, e.file) \union {e.stamp} /\ r[e.file].last = e.stamp
        /\ ~(e.stamp > i[e.file].last) =>
              Vals(r, e.file) = Vals(i, e.file) /\ r[e.file].last = i[e.file].last
    BY <1>1, <1>2, ReplayUpdate
  <2> QED BY <1>2, <2>1 DEF Records, Resets
<1>3. ASSUME e.cmd # "update" PROVE Effect
  <2>1. /\ \A g \in Files \ {e.file} : r[g] = i[g]
        /\ Vals(r, e.file) = {}
        /\ r[e.file].last = IF e.cmd = "wrote" THEN i[e.file].last ELSE 0
    BY <1>1, <1>3, ReplayReset
  <2> QED BY <1>3, <2>1 DEF Records, Resets
<1>4. Effect
  BY <1>2, <1>3
<1> QED BY <1>4 DEF r, i

LEMMA EntryCases ==
    ASSUME NEW e, NEW f
    PROVE  Records(e, f) \/ Resets(e, f) \/ e.file # f
  BY DEF Records, Resets

LEMMA EntryNumbers ==
    ASSUME NEW s \in Seq(Entries), NEW f \in Files
    PROVE  /\ ReplayAll(s)[f].last \in Nat
           /\ \A e \in Entries : e.stamp \in Nat /\ (Records(e, f) => e.stamp > 0)
<1>1. ReplayAll(s)[f] \in Items
  BY ReplayType DEF Cache
<1> QED BY <1>1, BoundType DEF Items, Entries, Records

\* The last timestamp of an item is one of the journal's.
LEMMA ReplayLast ==
    ASSUME NEW f \in Files
    PROVE  \A s \in Seq(Entries) : ReplayAll(s)[f].last \in {0} \union Stamps(s, f)
<1> DEFINE T == {s \in Seq(Entries) : ReplayAll(s)[f].last \in {0} \union Stamps(s, f)}
<1>1. <<>> \in T
  <2>1. EmptyCache[f].last = 0
    BY DEF EmptyCache, NoItem
  <2> QED BY <2>1, ReplayEmpty, EmptySeq
<1>2. ASSUME NEW s \in Seq(Entries), NEW e \in Entries, s \in T
      PROVE  Append(s, e) \in T
  <2>1. ReplayAll(s)[f].last \in {0} \union Stamps(s, f)
    BY <1>2
  <2>2. /\ Records(e, f) => Stamps(Append(s, e), f) = Stamps(s, f) \union {e.stamp}
        /\ ~Records(e, f) => Stamps(Append(s, e), f) = Stamps(s, f)
    BY StampsAppend
  <2>3. ReplayAll(Append(s, e))[f].last \in {ReplayAll(s)[f].last, 0}
          \/ (Records(e, f) /\ ReplayAll(Append(s, e))[f].last = e.stamp)
    BY ReplayMore, EntryCases
  <2>4. ReplayAll(Append(s, e))[f].last \in {0} \union Stamps(Append(s, e), f)
    BY <2>1, <2>2, <2>3
  <2>5. Append(s, e) \in Seq(Entries)
    OBVIOUS
  <2> QED BY <2>4, <2>5
<1>3. Seq(Entries) \subseteq T
  <2> HIDE DEF T
  <2> QED BY <1>1, <1>2, SequenceInduction
<1> QED BY <1>3

\* What entries at the end add to a replay they record.
LEMMA ReplayTruncated ==
    ASSUME NEW p \in Seq(Entries), NEW f \in Files
    PROVE  \A q \in Seq(Entries) :
              Vals(ReplayAll(p \o q), f) \subseteq Vals(ReplayAll(p), f) \union Stamps(q, f)
<1> DEFINE T == {q \in Seq(Entries) :
                   Vals(ReplayAll(p \o q), f) \subseteq Vals(ReplayAll(p), f) \union Stamps(q, f)}
<1>1. <<>> \in T
  <2>1. p \o <<>> = p /\ <<>> \in Seq(Entries)
    BY ConcatEmptySeq, EmptySeq
  <2> QED BY <2>1
<1>2. ASSUME NEW q \in Seq(Entries), NEW e \in Entries, q \in T
      PROVE  Append(q, e) \in T
  <2>1. p \o q \in Seq(Entries) /\ p \o Append(q, e) = Append(p \o q, e)
    BY ConcatProperties
  <2>2. Vals(ReplayAll(p \o q), f) \subseteq Vals(ReplayAll(p), f) \union Stamps(q, f)
    BY <1>2
  <2>3. /\ Records(e, f) => Stamps(Append(q, e), f) = Stamps(q, f) \union {e.stamp}
        /\ ~Records(e, f) => Stamps(Append(q, e), f) = Stamps(q, f)
    BY StampsAppend
  <2> DEFINE pq == p \o q
  <2>4. pq \in Seq(Entries)
    BY <2>1
  <2> HIDE DEF pq
  <2>5. \/ Vals(ReplayAll(Append(pq, e)), f) \subseteq Vals(ReplayAll(pq), f)
        \/ /\ Records(e, f)
           /\ Vals(ReplayAll(Append(pq, e)), f) = Vals(ReplayAll(pq), f) \union {e.stamp}
    <3>1. CASE Records(e, f)
      BY <3>1, <2>4, ReplayMore
    <3>2. CASE Resets(e, f)
      BY <3>2, <2>4, ReplayMore
    <3>3. CASE e.file # f
      <4>1. ReplayAll(Append(pq, e))[f] = ReplayAll(pq)[f]
        BY <3>3, <2>4, ReplayMore
      <4> QED BY <4>1 DEF Vals
    <3> QED BY <3>1, <3>2, <3>3, EntryCases
  <2>6. Vals(ReplayAll(p \o Append(q, e)), f)
           \subseteq Vals(ReplayAll(p), f) \union Stamps(Append(q, e), f)
    BY <2>1, <2>2, <2>3, <2>5 DEF pq
  <2>7. Append(q, e) \in Seq(Entries)
    OBVIOUS
  <2> QED BY <2>6, <2>7
<1>3. Seq(Entries) \subseteq T
  <2> HIDE DEF T
  <2> QED BY <1>1, <1>2, SequenceInduction
<1> QED BY <1>3

LEMMA ReplayInStamps ==
    ASSUME NEW s \in Seq(Entries), NEW f \in Files
    PROVE  Vals(ReplayAll(s), f) \subseteq Stamps(s, f)
<1>1. <<>> \o s = s /\ <<>> \in Seq(Entries)
  BY ConcatEmptySeq, EmptySeq
<1>2. Vals(ReplayAll(<<>>), f) = {}
  <2>1. EmptyCache[f].vals = <<>>
    BY DEF EmptyCache, NoItem
  <2> QED BY <2>1, ReplayEmpty, NoItemType DEF Vals
<1>3. Vals(ReplayAll(<<>> \o s), f) \subseteq Vals(ReplayAll(<<>>), f) \union Stamps(s, f)
  BY <1>1, ReplayTruncated
<1> QED BY <1>1, <1>2, <1>3

\* Without the oldest entries a replay gives no less than they recorded: an
\* item whose last timestamp is older refuses less.
LEMMA ReplayWithoutOldest ==
    ASSUME NEW p \in Seq(Entries), NEW f \in Files
    PROVE  \A q \in Seq(Entries) :
              Vals(ReplayAll(p \o q), f) \subseteq Vals(ReplayAll(q), f) \union Stamps(p, f)
<1> DEFINE Good(q) ==
             /\ Vals(ReplayAll(p \o q), f) \subseteq Vals(ReplayAll(q), f) \union Stamps(p, f)
             /\ ReplayAll(q)[f].last <= ReplayAll(p \o q)[f].last
           T == {q \in Seq(Entries) : Good(q)}
<1>1. <<>> \in T
  <2>1. p \o <<>> = p /\ <<>> \in Seq(Entries)
    BY ConcatEmptySeq, EmptySeq
  <2>2. Vals(ReplayAll(p), f) \subseteq Stamps(p, f)
    BY ReplayInStamps
  <2>3. ReplayAll(<<>>)[f].last = 0
    BY ReplayEmpty DEF EmptyCache, NoItem
  <2>4. ReplayAll(p)[f].last \in Nat
    BY EntryNumbers
  <2> QED BY <2>1, <2>2, <2>3, <2>4
<1>2. ASSUME NEW q \in Seq(Entries), NEW e \in Entries, q \in T
      PROVE  Append(q, e) \in T
  <2> DEFINE pq == p \o q
  <2>1. pq \in Seq(Entries) /\ p \o Append(q, e) = Append(pq, e) /\ Append(q, e) \in Seq(Entries)
    BY ConcatProperties
  <2>2. Good(q)
    BY <1>2
  <2> DEFINE i1 == ReplayAll(pq)
             r1 == ReplayAll(Append(pq, e))
             i2 == ReplayAll(q)
             r2 == ReplayAll(Append(q, e))
  <2>3. Vals(i1, f) \subseteq Vals(i2, f) \union Stamps(p, f) /\ i2[f].last <= i1[f].last
    BY <2>2
  <2> HIDE DEF pq, Good
  <2>4. i1[f].last \in Nat /\ i2[f].last \in Nat /\ e.stamp \in Nat
    BY <2>1, EntryNumbers
  <2>5. CASE e.file # f
    <3>1. r1[f] = i1[f] /\ r2[f] = i2[f]
      BY <2>1, <2>5, ReplayMore
    <3> HIDE DEF i1, i2, r1, r2
    <3>2. Vals(r1, f) \subseteq Vals(r2, f) \union Stamps(p, f) /\ r2[f].last <= r1[f].last
      BY <3>1, <2>3 DEF Vals
    <3> QED BY <3>2, <2>1 DEF Good, r1, r2
  <2>6. CASE Resets(e, f)
    <3>1. /\ Vals(r1, f) = {} /\ r1[f].last = IF e.cmd = "wrote" THEN i1[f].last ELSE 0
          /\ Vals(r2, f) = {} /\ r2[f].last = IF e.cmd = "wrote" THEN i2[f].last ELSE 0
      BY <2>1, <2>6, ReplayMore
    <3> HIDE DEF i1, i2, r1, r2
    <3>2. Vals(r1, f) \subseteq Vals(r2, f) \union Stamps(p, f) /\ r2[f].last <= r1[f].last
      BY <3>1, <2>3
    <3> QED BY <3>2, <2>1 DEF Good, r1, r2
  <2>7. CASE Records(e, f)
    <3>1. /\ e.stamp > i1[f].last =>
                Vals(r1, f) = Vals(i1, f) \union {e.stamp} /\ r1[f].last = e.stamp
          /\ ~(e.stamp > i1[f].last) => Vals(r1, f) = Vals(i1, f) /\ r1[f].last = i1[f].last
          /\ e.stamp > i2[f].last =>
                Vals(r2, f) = Vals(i2, f) \union {e.stamp} /\ r2[f].last = e.stamp
          /\ ~(e.stamp > i2[f].last) => Vals(r2, f) = Vals(i2, f) /\ r2[f].last = i2[f].last
      BY <2>1, <2>7, ReplayMore
    <3> HIDE DEF i1, i2, r1, r2
    <3>2. CASE e.stamp > i1[f].last
      <4>1. e.stamp > i2[f].last
        BY <3>2, <2>3, <2>4
      <4>2. Vals(r1, f) \subseteq Vals(r2, f) \union Stamps(p, f) /\ r2[f].last <= r1[f].last
        BY <3>1, <3>2, <4>1, <2>3, <2>4
      <4> QED BY <4>2, <2>1 DEF Good, r1, r2
    <3>3. CASE ~(e.stamp > i1[f].last)
      <4>1. Vals(r1, f) = Vals(i1, f) /\ r1[f].last = i1[f].last
        BY <3>1, <3>3
      <4>2. Vals(i2, f) \subseteq Vals(r2, f) /\ r2[f].last <= i1[f].last
        BY <3>1, <3>3, <2>3, <2>4
      <4>3. Vals(r1, f) \subseteq Vals(r2, f) \union Stamps(p, f) /\ r2[f].last <= r1[f].last
        BY <4>1, <4>2, <2>3
      <4> QED BY <4>3, <2>1 DEF Good, r1, r2
    <3> QED BY <3>2, <3>3
  <2> QED BY <2>5, <2>6, <2>7, EntryCases
<1>3. Seq(Entries) \subseteq T
  <2> HIDE DEF T
  <2> QED BY <1>1, <1>2, SequenceInduction
<1> QED BY <1>3

\* A replay gives nothing that was wiped.
LEMMA ReplayInSince ==
    ASSUME NEW f \in Files
    PROVE  \A s \in Seq(Entries) : Vals(ReplayAll(s), f) \subseteq Since(s, f)
<1> DEFINE T == {s \in Seq(Entries) : Vals(ReplayAll(s), f) \subseteq Since(s, f)}
<1>1. <<>> \in T
  <2>1. Vals(ReplayAll(<<>>), f) \subseteq Stamps(<<>>, f) /\ <<>> \in Seq(Entries)
    BY ReplayInStamps, EmptySeq
  <2> QED BY <2>1, StampsEmpty
<1>2. ASSUME NEW s \in Seq(Entries), NEW e \in Entries, s \in T
      PROVE  Append(s, e) \in T
  <2>1. Vals(ReplayAll(s), f) \subseteq Since(s, f)
    BY <1>2
  <2>2. Vals(ReplayAll(Append(s, e)), f) \subseteq Since(Append(s, e), f)
    <3>1. CASE Records(e, f)
      <4>1. Vals(ReplayAll(Append(s, e)), f) \subseteq Vals(ReplayAll(s), f) \union {e.stamp}
        BY <3>1, ReplayMore
      <4>2. Since(Append(s, e), f) = Since(s, f) \union {e.stamp}
        BY <3>1, SinceAppend
      <4> QED BY <4>1, <4>2, <2>1
    <3>2. CASE Resets(e, f)
      BY <3>2, ReplayMore
    <3>3. CASE e.file # f
      <4>1. Vals(ReplayAll(Append(s, e)), f) = Vals(ReplayAll(s), f)
        BY <3>3, ReplayMore DEF Vals
      <4>2. Since(Append(s, e), f) = Since(s, f)
        BY <3>3, SinceAppend
      <4> QED BY <4>1, <4>2, <2>1
    <3> QED BY <3>1, <3>2, <3>3, EntryCases
  <2>3. Append(s, e) \in Seq(Entries)
    OBVIOUS
  <2> QED BY <2>2, <2>3
<1>3. Seq(Entries) \subseteq T
  <2> HIDE DEF T
  <2> QED BY <1>1, <1>2, SequenceInduction
<1> QED BY <1>3

\* And it gives all the rest, if every update was newer than those before it.
LEMMA SinceInReplay ==
    ASSUME NEW f \in Files
    PROVE  \A s \in Seq(Entries) : Fresh(s, f) => Since(s, f) \subseteq Vals(ReplayAll(s), f)
<1> DEFINE T == {s \in Seq(Entries) : Fresh(s, f) => Since(s, f) \subseteq Vals(ReplayAll(s), f)}
<1>1. <<>> \in T
  <2>1. <<>> \in Seq(Entries) /\ Len(<<>>) = 0
    BY EmptySeq
  <2>2. Since(<<>>, f) = {}
    BY <2>1, InSince
  <2> QED BY <2>1, <2>2
<1>2. ASSUME NEW s \in Seq(Entries), NEW e \in Entries, s \in T
      PROVE  Append(s, e) \in T
  <2>1. Fresh(s, f) => Since(s, f) \subseteq Vals(ReplayAll(s), f)
    BY <1>2
  <2>2. ASSUME Fresh(Append(s, e), f)
        PROVE  Since(Append(s, e), f) \subseteq Vals(ReplayAll(Append(s, e)), f)
    <3>1. CASE Records(e, f)
      <4>1. Fresh(s, f) /\ \A x \in Stamps(s, f) : x < e.stamp
        BY <2>2, <3>1, FreshAppend
      <4>2. e.stamp > ReplayAll(s)[f].last
        <5>1. ReplayAll(s)[f].last \in {0} \union Stamps(s, f)
          BY ReplayLast
        <5>2. e.stamp > 0 /\ e.stamp \in Nat /\ ReplayAll(s)[f].last \in Nat
          BY <3>1, EntryNumbers
        <5> QED BY <5>1, <5>2, <4>1
      <4>3. Vals(ReplayAll(Append(s, e)), f) = Vals(ReplayAll(s), f) \union {e.stamp}
        BY <3>1, <4>2, ReplayMore
      <4>4. Since(Append(s, e), f) = Since(s, f) \union {e.stamp}
        BY <3>1, SinceAppend
      <4> QED BY <4>1, <4>3, <4>4, <2>1
    <3>2. CASE Resets(e, f)
      BY <3>2, SinceAppend
    <3>3. CASE e.file # f
      <4>1. Vals(ReplayAll(Append(s, e)), f) = Vals(ReplayAll(s), f)
        BY <3>3, ReplayMore DEF Vals
      <4>2. Since(Append(s, e), f) = Since(s, f) /\ Fresh(s, f)
        BY <2>2, <3>3, SinceAppend, FreshAppend
      <4> QED BY <4>1, <4>2, <2>1
    <3> QED BY <3>1, <3>2, <3>3, EntryCases
  <2>3. Append(s, e) \in Seq(Entries)
    OBVIOUS
  <2> QED BY <2>2, <2>3
<1>3. Seq(Entries) \subseteq T
  <2> HIDE DEF T
  <2> QED BY <1>1, <1>2, SequenceInduction
<1> QED BY <1>3

-----------------------------------------------------------------------------
(* The beginning and the end of a sequence of entries.                     *)

LEMMA SinceInStamps == \A s, f : Since(s, f) \subseteq Stamps(s, f)
  BY InSince, InStamps DEF Live

LEMMA EmptyFacts ==
    \A f : Since(<<>>, f) = {} /\ Fresh(<<>>, f) /\ Stamps(<<>>, f) = {}
<1>1. Len(<<>>) = 0
  BY EmptySeq
<1> QED BY <1>1, InSince, StampsEmpty DEF Fresh

LEMMA StampsConcat ==
    ASSUME NEW p \in Seq(Entries), NEW f
    PROVE  \A q \in Seq(Entries) : Stamps(p \o q, f) = Stamps(p, f) \union Stamps(q, f)
<1> DEFINE T == {q \in Seq(Entries) : Stamps(p \o q, f) = Stamps(p, f) \union Stamps(q, f)}
<1>1. <<>> \in T
  <2>1. p \o <<>> = p /\ <<>> \in Seq(Entries)
    BY ConcatEmptySeq, EmptySeq
  <2> QED BY <2>1, StampsEmpty
<1>2. ASSUME NEW q \in Seq(Entries), NEW e \in Entries, q \in T
      PROVE  Append(q, e) \in T
  <2> DEFINE pq == p \o q
  <2>1. pq \in Seq(Entries) /\ p \o Append(q, e) = Append(pq, e) /\ Append(q, e) \in Seq(Entries)
    BY ConcatProperties
  <2>2. Stamps(pq, f) = Stamps(p, f) \union Stamps(q, f)
    BY <1>2
  <2> HIDE DEF pq
  <2>3. /\ Records(e, f) => Stamps(Append(q, e), f) = Stamps(q, f) \union {e.stamp}
        /\ ~Records(e, f) => Stamps(Append(q, e), f) = Stamps(q, f)
    BY StampsAppend
  <2>4. /\ Records(e, f) => Stamps(Append(pq, e), f) = Stamps(pq, f) \union {e.stamp}
        /\ ~Records(e, f) => Stamps(Append(pq, e), f) = Stamps(pq, f)
    BY <2>1, StampsAppend
  <2>5. Stamps(Append(pq, e), f) = Stamps(p, f) \union Stamps(Append(q, e), f)
    BY <2>2, <2>3, <2>4
  <2> QED BY <2>1, <2>5
<1>3. Seq(Entries) \subseteq T
  <2> HIDE DEF T
  <2> QED BY <1>1, <1>2, SequenceInduction
<1> QED BY <1>3

\* Entries are lost at the end, none of which wipes the file.
LEMMA SinceTruncated ==
    ASSUME NEW p \in Seq(Entries), NEW f
    PROVE  \A q \in Seq(Entries) :
              Fresh(p \o q, f) /\ (\A j \in 1..Len(q) : ~Resets(q[j], f)) =>
                 /\ Fresh(p, f)
                 /\ Since(p, f) \subseteq Since(p \o q, f)
                 /\ Since(p, f) \intersect Stamps(q, f) = {}
<1> DEFINE Quiet(q) == \A j \in 1..Len(q) : ~Resets(q[j], f)
           Good(q) == /\ Fresh(p, f)
                      /\ Since(p, f) \subseteq Since(p \o q, f)
                      /\ Since(p, f) \intersect Stamps(q, f) = {}
           T == {q \in Seq(Entries) : Fresh(p \o q, f) /\ Quiet(q) => Good(q)}
<1>1. <<>> \in T
  <2>1. p \o <<>> = p /\ <<>> \in Seq(Entries)
    BY ConcatEmptySeq, EmptySeq
  <2> QED BY <2>1, StampsEmpty
<1>2. ASSUME NEW q \in Seq(Entries), NEW e \in Entries, q \in T
      PROVE  Append(q, e) \in T
  <2> DEFINE pq == p \o q
             qe == Append(q, e)
  <2>1. pq \in Seq(Entries) /\ p \o qe = Append(pq, e) /\ qe \in Seq(Entries)
    BY ConcatProperties
  <2>2. ASSUME Fresh(Append(pq, e), f), Quiet(qe) PROVE Good(qe)
    <3>1. Quiet(q) /\ ~Resets(e, f)
      <4>1. /\ \A i \in 1..Len(q) : qe[i] = q[i] /\ i \in 1..Len(qe)
            /\ qe[Len(q) + 1] = e /\ Len(q) + 1 \in 1..Len(qe)
        BY AppendFacts
      <4> HIDE DEF qe
      <4> QED BY <2>2, <4>1
    <3> HIDE DEF Quiet
    <3>2. Fresh(pq, f)
      BY <2>1, <2>2, <3>1, FreshAppend, EntryCases
    <3>3. Good(q)
      BY <1>2, <3>1, <3>2
    <3>4. Since(pq, f) \subseteq Since(Append(pq, e), f)
      <4> HIDE DEF pq
      <4>1. CASE Records(e, f)
        BY <2>1, <4>1, SinceAppend
      <4>2. CASE e.file # f
        BY <2>1, <4>2, SinceAppend
      <4> QED BY <3>1, <4>1, <4>2, EntryCases
    <3>5. Since(p, f) \intersect Stamps(qe, f) = {}
      <4>1. CASE Records(e, f)
        <5>1. \A x \in Stamps(pq, f) : x < e.stamp
          BY <2>1, <2>2, <4>1, FreshAppend
        <5>2. Since(p, f) \subseteq Stamps(pq, f)
          BY <2>1, <3>3, SinceInStamps
        <5>3. e.stamp \in Nat
          BY BoundType DEF Entries
        <5>4. e.stamp \notin Since(p, f)
          BY <5>1, <5>2, <5>3
        <5>5. Stamps(qe, f) = Stamps(q, f) \union {e.stamp}
          BY <4>1, StampsAppend
        <5> QED BY <5>4, <5>5, <3>3
      <4>2. CASE ~Records(e, f)
        <5>1. Stamps(qe, f) = Stamps(q, f)
          BY <4>2, StampsAppend
        <5> QED BY <5>1, <3>3
      <4> QED BY <4>1, <4>2
    <3>6. Fresh(p, f) /\ Since(p, f) \subseteq Since(Append(pq, e), f)
      BY <3>3, <3>4
    <3> QED BY <2>1, <3>5, <3>6
  <2> HIDE DEF Good, Quiet
  <2> QED BY <2>1, <2>2
<1>3. Seq(Entries) \subseteq T
  <2> HIDE DEF T
  <2> QED BY <1>1, <1>2, SequenceInduction
<1> QED BY <1>3

\* The oldest entries are removed.
LEMMA SinceWithoutOldest ==
    ASSUME NEW p \in Seq(Entries), NEW f
    PROVE  \A q \in Seq(Entries) : /\ Since(q, f) \subseteq Since(p \o q, f)
                                   /\ Fresh(p \o q, f) => Fresh(q, f)
<1> DEFINE Good(q) == /\ Since(q, f) \subseteq Since(p \o q, f)
                      /\ Fresh(p \o q, f) => Fresh(q, f)
           T == {q \in Seq(Entries) : Good(q)}
<1>1. <<>> \in T
  BY EmptyFacts, EmptySeq
<1>2. ASSUME NEW q \in Seq(Entries), NEW e \in Entries, q \in T
      PROVE  Append(q, e) \in T
  <2> DEFINE pq == p \o q
             qe == Append(q, e)
  <2>1. pq \in Seq(Entries) /\ p \o qe = Append(pq, e) /\ qe \in Seq(Entries)
    BY ConcatProperties
  <2>2. Since(q, f) \subseteq Since(pq, f) /\ (Fresh(pq, f) => Fresh(q, f))
    BY <1>2
  <2>3. Stamps(q, f) \subseteq Stamps(pq, f)
    BY StampsConcat
  <2> HIDE DEF pq
  <2>4. Since(qe, f) \subseteq Since(Append(pq, e), f)
    BY <2>1, <2>2, SinceAppend, EntryCases
  <2>5. ASSUME Fresh(Append(pq, e), f) PROVE Fresh(qe, f)
    <3>1. CASE Records(e, f)
      <4>1. Fresh(pq, f) /\ \A x \in Stamps(pq, f) : x < e.stamp
        BY <2>1, <2>5, <3>1, FreshAppend
      <4> QED BY <3>1, <4>1, <2>2, <2>3, FreshAppend
    <3>2. CASE Resets(e, f)
      BY <3>2, FreshAppend
    <3>3. CASE e.file # f
      <4>1. Fresh(pq, f)
        BY <2>1, <2>5, <3>3, FreshAppend
      <4> QED BY <3>3, <4>1, <2>2, FreshAppend
    <3> QED BY <3>1, <3>2, <3>3, EntryCases
  <2>6. Good(qe)
    BY <2>1, <2>4, <2>5
  <2> HIDE DEF Good
  <2> QED BY <2>1, <2>6
<1>3. Seq(Entries) \subseteq T
  <2> HIDE DEF T
  <2> QED BY <1>1, <1>2, SequenceInduction
<1> QED BY <1>3


-----------------------------------------------------------------------------
(* The journal as one sequence of entries.                                 *)

Journal == FlattenSeq(AllFiles) \o buffer

Logs == Seq(Seq(Entries))

LEMMA FilesType ==
    ASSUME doomed \in Logs, old \in Logs, cur \in Logs
    PROVE  AllFiles \in Logs /\ doomed \o old \in Logs
           /\ FlattenSeq(AllFiles) \in Seq(Entries)
           /\ FlattenSeq(AllFiles) = FlattenSeq(doomed \o old) \o FlattenSeq(cur)
<1>1. doomed \o old \in Logs /\ AllFiles \in Logs
  BY ConcatProperties DEF Logs, AllFiles
<1>2. FlattenSeq(AllFiles) \in Seq(Entries)
  BY <1>1, FlattenType DEF Logs
<1>3. FlattenSeq((doomed \o old) \o cur) = FlattenSeq(doomed \o old) \o FlattenSeq(cur)
  BY <1>1, FlattenConcat DEF Logs
<1> QED BY <1>1, <1>2, <1>3 DEF AllFiles

\* What is written at the end of the newest file.
LEMMA NewestFile ==
    ASSUME doomed \in Logs, old \in Logs, cur \in Logs, cur # <<>>, NEW s \in Seq(Entries)
    PROVE  LET longer == [cur EXCEPT ![Len(cur)] = @ \o s]
           IN  /\ longer \in Logs
               /\ FlattenSeq(doomed \o old \o longer) = FlattenSeq(AllFiles) \o s
<1> DEFINE longer == [cur EXCEPT ![Len(cur)] = @ \o s]
           before == doomed \o old
<1>1. longer \in Logs /\ FlattenSeq(longer) = FlattenSeq(cur) \o s
  BY FlattenExtend DEF Logs
<1>2. /\ before \in Logs /\ FlattenSeq(AllFiles) = FlattenSeq(before) \o FlattenSeq(cur)
      /\ FlattenSeq(before) \in Seq(Entries) /\ FlattenSeq(cur) \in Seq(Entries)
  BY FilesType, FlattenType DEF Logs
<1> HIDE DEF longer, before
<1>3. FlattenSeq(before \o longer) = FlattenSeq(before) \o FlattenSeq(longer)
  BY <1>1, <1>2, FlattenConcat DEF Logs
<1>4. (FlattenSeq(before) \o FlattenSeq(cur)) \o s = FlattenSeq(before) \o (FlattenSeq(cur) \o s)
  BY <1>2, ConcatAssociative
<1>5. FlattenSeq(before \o longer) = FlattenSeq(AllFiles) \o s
  BY <1>1, <1>2, <1>3, <1>4
<1> QED BY <1>1, <1>5 DEF longer, before

LEMMA TypeFacts ==
    ASSUME TypeOK
    PROVE  /\ doomed \in Logs /\ old \in Logs /\ cur \in Logs /\ buffer \in Seq(Entries)
           /\ Journal \in Seq(Entries)
<1>1. doomed \in Logs /\ old \in Logs /\ cur \in Logs /\ buffer \in Seq(Entries)
  BY DEF TypeOK, Logs
<1> QED BY <1>1, FilesType, ConcatProperties DEF Journal

LEMMA TypeFactsNext == ASSUME TypeOK' PROVE Journal' \in Seq(Entries)
<1> DEFINE ds == doomed'
           os == old'
           cs == cur'
           b == buffer'
<1>1. ds \in Logs /\ os \in Logs /\ cs \in Logs /\ b \in Seq(Entries)
  BY DEF TypeOK, Logs
<1>2. Journal' = FlattenSeq((ds \o os) \o cs) \o b
  BY DEF Journal, AllFiles
<1> HIDE DEF ds, os, cs, b
<1>3. (ds \o os) \o cs \in Logs
  BY <1>1, ConcatProperties DEF Logs
<1>4. FlattenSeq((ds \o os) \o cs) \in Seq(Entries)
  BY <1>3, FlattenType DEF Logs
<1> QED BY <1>1, <1>2, <1>4, ConcatProperties

\* fclose after n entries of the buffer have been written.
LEMMA ClosedFiles ==
    ASSUME TypeOK, NEW n \in 0..Len(buffer)
    PROVE  /\ Closed(n) \in Logs
           /\ SubSeq(buffer, 1, n) \in Seq(Entries)
           /\ FlattenSeq(doomed \o old \o Closed(n))
                 = FlattenSeq(AllFiles) \o SubSeq(buffer, 1, n)
<1>1. /\ doomed \in Logs /\ old \in Logs /\ cur \in Logs /\ buffer \in Seq(Entries)
      /\ FlattenSeq(AllFiles) \in Seq(Entries)
  BY TypeFacts, FilesType
<1>2. SubSeq(buffer, 1, n) \in Seq(Entries)
  <2>1. \A i \in 1..n : buffer[i] \in Entries
    <3>1. Len(buffer) \in Nat
      BY <1>1
    <3>2. \A i \in 1..n : i \in 1..Len(buffer)
      BY <3>1
    <3> QED BY <1>1, <3>2, ElementOfSeq
  <2> QED BY <2>1, SubSeqProperties
<1>3. CASE open
  <2>1. cur # <<>>
    BY <1>3 DEF TypeOK
  <2> QED BY <1>1, <1>2, <1>3, <2>1, NewestFile DEF Closed
<1>4. CASE ~open
  <2>1. buffer = <<>>
    BY <1>4 DEF TypeOK
  <2>2. n = 0
    BY <2>1, EmptySeq
  <2>3. SubSeq(buffer, 1, n) = <<>>
    BY <2>2, SubSeqEmpty
  <2>4. Closed(n) = cur
    BY <1>4 DEF Closed
  <2> QED BY <1>1, <1>2, <2>3, <2>4, ConcatEmptySeq DEF AllFiles
<1> QED BY <1>3, <1>4 DEF TypeOK

LEMMA RestorableIsJournal ==
    ASSUME TypeOK
    PROVE  Restorable = ReplayAll(Journal)
<1>1. buffer \in Seq(Entries) /\ Len(buffer) \in 0..Len(buffer)
  BY TypeFacts
<1>2. SubSeq(buffer, 1, Len(buffer)) = buffer
  BY <1>1, SubSeqFull
<1> QED BY <1>1, <1>2, ClosedFiles DEF Restorable, Replay, Journal

-----------------------------------------------------------------------------
(* The inductive invariant.                                                *)

\* A thread without a file has no values, and outside the running process
\* there are no threads.
Shapes ==
    /\ \A t \in QueueThreads : job[t].file = "none" => job[t].vals = <<>>
    /\ ~Running => /\ rpc = "idle" /\ rolling = "none"
                   /\ \A t \in QueueThreads : job[t] = NoJob
                   /\ \A c \in Clients : forgets[c] = "none"
    /\ rpc = "closed" => cur = <<>> /\ rolling = "none"

\* Nothing is newer than the last timestamp that was sent.
Stamped ==
    \A f \in Files : Stamps(Journal, f) \subseteq 1..clock /\ cache[f].last \in 0..clock

InJobs(x, f) == \E t \in QueueThreads : job[t].file = f /\ x \in ValuesOf(job[t].vals)

\* While the daemon runs, what is owed waits in the cache or with a thread.
Waiting(f) == Running => \A x \in owed[f] : x \in Vals(cache, f) \/ InJobs(x, f)

\* Only one thread has a file, and then the cache has no values of it.
Alone(f) ==
    \A t \in QueueThreads : job[t].file = f =>
       /\ cache[f].vals = <<>>
       /\ \A u \in QueueThreads : job[u].file = f => u = t

ForgottenNotOwed(f) == Forgetting(f) => owed[f] = {}

\* What is being removed records nothing that is owed.
DoomedNotOwed(f) == Stamps(FlattenSeq(doomed), f) \intersect owed[f] = {}

Restored(f) == owed[f] \subseteq Vals(ReplayAll(Journal), f)

\* All that a replay can give of a file is owed.
NothingElse(f) ==
    Busy(f) \/ Forgetting(f) \/ (Since(Journal, f) \subseteq owed[f] /\ Fresh(Journal, f))

Kept(f) == Waiting(f) /\ Alone(f) /\ ForgottenNotOwed(f) /\ DoomedNotOwed(f) /\ Restored(f)

TypeInv == TypeOK /\ Shapes

IInv ==
    /\ TypeInv /\ Stamped
    /\ \A f \in Files \ raced : Kept(f)
    /\ \A f \in Files \ dirty : NothingElse(f)

-----------------------------------------------------------------------------
(* Type correctness.                                                       *)

\* journal_write adds the entry to an open journal, and nothing to another.
LEMMA JournalWrite ==
    ASSUME TypeOK, NEW e \in Entries, NEW rest,
           NEW who \in {"cache"} \union Clients \union QueueThreads,
           journal_write(e, who, rest)
    PROVE  /\ buffer' \in Seq(Entries) /\ cur' \in Logs /\ old' = old /\ doomed' = doomed
           /\ open' \in BOOLEAN /\ (open' => open /\ cur' # <<>> /\ rolling' = "none")
           /\ rolling' \in {"none", "cache"} \union Clients \union QueueThreads
           /\ buffer' # <<>> => open'
           /\ ~open => cur' = cur /\ rolling' = rolling
           /\ Journal' = IF open THEN Append(Journal, e) ELSE Journal
<1>1. /\ doomed \in Logs /\ old \in Logs /\ cur \in Logs /\ buffer \in Seq(Entries)
      /\ FlattenSeq(AllFiles) \in Seq(Entries)
      /\ Append(buffer, e) \in Seq(Entries) /\ Append(buffer, e) # <<>>
      /\ open \in BOOLEAN /\ (buffer # <<>> => open) /\ (open => cur # <<>> /\ rolling = "none")
      /\ rolling \in {"none", "cache"} \union Clients \union QueueThreads
  <2>1. buffer \in Seq(Entries)
    BY TypeFacts
  <2>2. Append(buffer, e) \in Seq(Entries) /\ Append(buffer, e) # <<>>
    BY <2>1
  <2> QED BY <2>1, <2>2, TypeFacts, FilesType DEF TypeOK
<1>2. Append(Journal, e) = FlattenSeq(AllFiles) \o Append(buffer, e)
  <2> DEFINE a == FlattenSeq(AllFiles)
  <2>1. a \in Seq(Entries) /\ buffer \in Seq(Entries)
    BY <1>1
  <2> HIDE DEF a
  <2>2. Append(a \o buffer, e) = a \o Append(buffer, e)
    BY <2>1
  <2> QED BY <2>2 DEF a, Journal
<1>3. Journal' = FlattenSeq(doomed' \o old' \o cur') \o buffer'
  BY DEF Journal, AllFiles
<1>4. CASE /\ buffer' = IF open THEN Append(buffer, e) ELSE buffer
           /\ UNCHANGED <<open, cur, old, doomed, rolling>>
  <2>1. Journal' = FlattenSeq(AllFiles) \o buffer'
    BY <1>3, <1>4 DEF AllFiles
  <2>2. Journal' = IF open THEN Append(Journal, e) ELSE Journal
    BY <1>2, <1>4, <2>1 DEF Journal
  <2>3. buffer' \in Seq(Entries) /\ (buffer' # <<>> => open')
    BY <1>1, <1>4
  <2> QED BY <1>1, <1>4, <2>2, <2>3
<1>5. CASE /\ open
           /\ cur' = [cur EXCEPT ![Len(cur)] = @ \o Append(buffer, e)]
           /\ buffer' = <<>>
           /\ open' = FALSE
           /\ rolling' = who
           /\ UNCHANGED <<old, doomed>>
  <2> DEFINE s == Append(buffer, e)
  <2>1. s \in Seq(Entries) /\ cur # <<>>
    BY <1>1, <1>5
  <2> HIDE DEF s
  <2>2. /\ cur' \in Logs
        /\ FlattenSeq(doomed \o old \o cur') = FlattenSeq(AllFiles) \o s
    BY <1>1, <1>5, <2>1, NewestFile DEF s
  <2>3. FlattenSeq(AllFiles) \o s \in Seq(Entries)
    BY <1>1, <2>1, ConcatProperties
  <2>4. Journal' = (FlattenSeq(AllFiles) \o s) \o <<>>
    BY <1>3, <1>5, <2>2
  <2>5. Journal' = FlattenSeq(AllFiles) \o s
    BY <2>3, <2>4, ConcatEmptySeq
  <2>6. Journal' = Append(Journal, e)
    BY <2>5, <1>2 DEF s
  <2>7. <<>> \in Seq(Entries)
    BY EmptySeq
  <2> QED BY <1>1, <1>5, <2>2, <2>6, <2>7
<1> QED BY <1>4, <1>5 DEF journal_write

LEMMA TypeInit == Init => TypeInv
<1> SUFFICES ASSUME Init PROVE TypeInv
  OBVIOUS
<1>1. /\ << <<>> >> \in Logs /\ <<>> \in Logs /\ <<>> \in Seq(Entries)
      /\ << <<>> >> # <<>> /\ <<>> \in Seq(1..MaxStamp)
  BY EmptySeq DEF Logs
<1>2. /\ EmptyCache \in [Files -> Items] /\ 0 \in 0..MaxStamp
      /\ [t \in QueueThreads |-> NoJob] \in [QueueThreads -> Jobs]
  BY <1>1, NoItemType, BoundType DEF Cache, Jobs, NoJob
<1>3. /\ [c \in Clients |-> "none"] \in [Clients -> Files \union {"none"}]
      /\ [f \in Files |-> 0] \in [Files -> 0..MaxStamp]
      /\ [f \in Files |-> {}] \in [Files -> SUBSET (1..MaxStamp)]
  BY <1>2
<1>4. TypeOK
  BY <1>1, <1>2, <1>3, BoundAssumption DEF Init, TypeOK, Logs, Running
<1>5. Shapes
  BY DEF Init, Shapes, NoJob, Running
<1> QED BY <1>4, <1>5 DEF TypeInv

\* A batch, one value at a time.
LEMMA HeadAndTail ==
    ASSUME NEW S
    PROVE  \A s \in Seq(S) : s # <<>> => /\ Head(s) \in S /\ Tail(s) \in Seq(S)
                                         /\ ValuesOf(s) = {Head(s)} \union ValuesOf(Tail(s))
<1> SUFFICES ASSUME NEW s \in Seq(S), s # <<>>
             PROVE  /\ Head(s) \in S /\ Tail(s) \in Seq(S)
                    /\ ValuesOf(s) = {Head(s)} \union ValuesOf(Tail(s))
  OBVIOUS
<1>1. /\ Head(s) \in S /\ Tail(s) \in Seq(S) /\ Len(s) \in Nat \ {0}
      /\ Len(Tail(s)) = Len(s) - 1 /\ Head(s) = s[1]
      /\ \A i \in 1..(Len(s) - 1) : Tail(s)[i] = s[i + 1]
  OBVIOUS
<1>2. \A x : x \in ValuesOf(s) <=> x = Head(s) \/ x \in ValuesOf(Tail(s))
  <2> TAKE x
  <2>1. ASSUME x \in ValuesOf(s) PROVE x = Head(s) \/ x \in ValuesOf(Tail(s))
    <3>1. PICK i \in 1..Len(s) : x = s[i]
      BY <2>1 DEF ValuesOf
    <3>2. CASE i = 1
      BY <3>1, <3>2, <1>1
    <3>3. CASE i # 1
      <4> DEFINE k == i - 1
      <4>1. k \in 1..(Len(s) - 1) /\ k + 1 = i
        BY <3>3, <1>1
      <4> HIDE DEF k
      <4>2. Tail(s)[k] = x
        BY <4>1, <3>1, <1>1
      <4> QED BY <4>1, <4>2, <1>1 DEF ValuesOf
    <3> QED BY <3>2, <3>3
  <2>2. ASSUME x \in ValuesOf(Tail(s)) PROVE x \in ValuesOf(s)
    <3>1. PICK i \in 1..Len(Tail(s)) : x = Tail(s)[i]
      BY <2>2 DEF ValuesOf
    <3> DEFINE k == i + 1
    <3>2. k \in 1..Len(s) /\ i \in 1..(Len(s) - 1)
      BY <3>1, <1>1
    <3>3. s[k] = x
      BY <3>1, <3>2, <1>1
    <3> HIDE DEF k
    <3> QED BY <3>2, <3>3 DEF ValuesOf
  <2>3. ASSUME x = Head(s) PROVE x \in ValuesOf(s)
    <3>1. 1 \in 1..Len(s)
      BY <1>1
    <3> QED BY <2>3, <3>1, <1>1 DEF ValuesOf
  <2> QED BY <2>1, <2>2, <2>3
<1> QED BY <1>1, <1>2

LEMMA EntryTypes ==
    ASSUME NEW f \in Files
    PROVE  /\ \A stamp \in 1..MaxStamp : Entry("update", f, stamp) \in Entries
           /\ Entry("wrote", f, 0) \in Entries /\ Entry("forget", f, 0) \in Entries
  BY DEF Entry, Entries

\* What an accepted update, a thread that takes the values, and one that
\* writes some of them leave behind.
LEMMA ItemTypes ==
    ASSUME NEW item \in Items
    PROVE  /\ \A stamp \in 1..MaxStamp :
                 [in |-> TRUE, vals |-> Append(item.vals, stamp), last |-> stamp] \in Items
           /\ [item EXCEPT !.vals = <<>>] \in Items
           /\ item.vals \in Seq(1..MaxStamp) /\ item.last \in 0..MaxStamp
<1>1. /\ item.vals \in Seq(1..MaxStamp) /\ item.last \in 0..MaxStamp
      /\ item.in \in BOOLEAN /\ <<>> \in Seq(1..MaxStamp)
  BY EmptySeq DEF Items
<1>2. [item EXCEPT !.vals = <<>>] \in Items
  BY <1>1 DEF Items
<1>3. \A stamp \in 1..MaxStamp :
         stamp \in 0..MaxStamp /\ Append(item.vals, stamp) \in Seq(1..MaxStamp)
  BY <1>1, BoundType
<1> QED BY <1>1, <1>2, <1>3 DEF Items

LEMMA JobTypes ==
    /\ NoJob \in Jobs
    /\ \A f \in Files, s \in Seq(1..MaxStamp) : [file |-> f, vals |-> s] \in Jobs
    /\ \A j \in Jobs : /\ j.vals \in Seq(1..MaxStamp) /\ j.file \in Files \union {"none"}
                       /\ \A s \in Seq(1..MaxStamp) : [j EXCEPT !.vals = s] \in Jobs
<1>1. <<>> \in Seq(1..MaxStamp)
  BY EmptySeq
<1> QED BY <1>1 DEF Jobs, NoJob

\* The part of the invariant that is about the journal.
JournalOK ==
    /\ doomed \in Logs /\ old \in Logs /\ cur \in Logs /\ buffer \in Seq(Entries)
    /\ open \in BOOLEAN
    /\ rolling \in {"none", "cache"} \union Clients \union QueueThreads
    /\ rpc \in {"idle", "rotate", "closed", "unlink"}
    /\ open => Running /\ cur # <<>> /\ rolling = "none" /\ rpc # "closed"
    /\ rolling # "none" => Running
    /\ buffer # <<>> => open
    /\ doomed # <<>> => rpc \in {"closed", "unlink"} \/ phase = "crashed"
    /\ rpc = "closed" => cur = <<>> /\ rolling = "none"
    /\ ~Running => rpc = "idle" /\ rolling = "none"

\* The part that is about the cache and the threads.
MemoryOK ==
    /\ phase \in {"running", "crashed", "stopped"}
    /\ fas \in BOOLEAN
    /\ cache \in [Files -> Items]
    /\ job \in [QueueThreads -> Jobs]
    /\ forgets \in [Clients -> Files \union {"none"}]
    /\ disk \in [Files -> 0..MaxStamp]
    /\ clock \in 0..MaxStamp
    /\ owed \in [Files -> SUBSET (1..MaxStamp)]
    /\ raced \subseteq Files /\ dirty \subseteq Files
    /\ \A t \in QueueThreads : job[t].file = "none" => job[t].vals = <<>>
    /\ ~Running => /\ \A t \in QueueThreads : job[t] = NoJob
                   /\ \A c \in Clients : forgets[c] = "none"

LEMMA TypeParts ==
    /\ TypeInv <=> JournalOK /\ MemoryOK
    /\ TypeInv' <=> JournalOK' /\ MemoryOK'
  BY DEF TypeInv, TypeOK, Shapes, JournalOK, MemoryOK, Logs

LEMMA LoggedJournal ==
    ASSUME TypeInv, NEW e \in Entries, NEW rest,
           NEW who \in {"cache"} \union Clients \union QueueThreads,
           journal_write(e, who, rest), UNCHANGED <<phase, rpc>>, Running
    PROVE  JournalOK' /\ Journal' = IF open THEN Append(Journal, e) ELSE Journal
<1>1. TypeOK /\ JournalOK
  BY TypeParts DEF TypeInv
<1>2. /\ buffer' \in Seq(Entries) /\ cur' \in Logs /\ old' = old /\ doomed' = doomed
      /\ open' \in BOOLEAN /\ (open' => open /\ cur' # <<>> /\ rolling' = "none")
      /\ rolling' \in {"none", "cache"} \union Clients \union QueueThreads
      /\ buffer' # <<>> => open'
      /\ ~open => cur' = cur /\ rolling' = rolling
      /\ Journal' = IF open THEN Append(Journal, e) ELSE Journal
  BY <1>1, JournalWrite
<1> QED BY <1>1, <1>2 DEF JournalOK, Running

LEMMA SameJournal ==
    ASSUME UNCHANGED journalVars
    PROVE  /\ Journal' = Journal
           /\ JournalOK /\ UNCHANGED <<phase, rpc>> => JournalOK'
<1>1. UNCHANGED <<open, buffer, cur, old, doomed, rolling>>
  BY DEF journalVars, setVars
<1>2. Journal' = Journal
  BY <1>1 DEF Journal, AllFiles
<1> QED BY <1>1, <1>2 DEF JournalOK, Running

LEMMA UpdateType ==
    ASSUME TypeInv, NEW f \in Files, Update(f)
    PROVE  /\ TypeInv'
           /\ Journal' = IF open THEN Append(Journal, Entry("update", f, clock + 1)) ELSE Journal
<1> USE DEF Update
<1>1. JournalOK /\ MemoryOK /\ Running
  BY TypeParts
<1>2. clock + 1 \in 1..MaxStamp /\ clock' = clock + 1
  BY <1>1, BoundType DEF MemoryOK
<1>3. Entry("update", f, clock + 1) \in Entries
  BY <1>2, EntryTypes
<1>4. /\ JournalOK'
      /\ Journal' = IF open THEN Append(Journal, Entry("update", f, clock + 1)) ELSE Journal
  BY <1>1, <1>2, <1>3, LoggedJournal
<1>5. cache' \in [Files -> Items]
  <2> DEFINE new == [in |-> TRUE, vals |-> Append(cache[f].vals, clock + 1), last |-> clock + 1]
  <2>1. new \in Items
    BY <1>1, <1>2, ItemTypes DEF MemoryOK
  <2>2. cache' = [cache EXCEPT ![f] = new]
    BY <1>2
  <2> HIDE DEF new
  <2> QED BY <1>1, <2>1, <2>2 DEF MemoryOK
<1>6. owed' \in [Files -> SUBSET (1..MaxStamp)]
  <2>1. owed[f] \union {clock + 1} \in SUBSET (1..MaxStamp)
    BY <1>1, <1>2 DEF MemoryOK
  <2> QED BY <1>1, <1>2, <2>1 DEF MemoryOK
<1>7. clock' \in 0..MaxStamp
  BY <1>2
<1>8. raced' \subseteq Files
  BY <1>1 DEF MemoryOK
<1>9. MemoryOK'
  BY <1>1, <1>5, <1>6, <1>7, <1>8 DEF MemoryOK, Running
<1> QED BY <1>4, <1>9, TypeParts

LEMMA UpdateRefusedType ==
    ASSUME TypeInv, NEW f \in Files, UpdateRefused(f)
    PROVE  /\ TypeInv'
           /\ \E stamp \in 1..cache[f].last :
                 /\ stamp \in 1..MaxStamp
                 /\ Journal' = IF open THEN Append(Journal, Entry("update", f, stamp)) ELSE Journal
<1> USE DEF UpdateRefused
<1>1. JournalOK /\ MemoryOK /\ Running
  BY TypeParts
<1>2. PICK stamp \in 1..cache[f].last :
         journal_write(Entry("update", f, stamp), "cache", [left EXCEPT !.odd = @ - 1])
  OBVIOUS
<1>3. stamp \in 1..MaxStamp
  <2>1. cache[f].last \in 0..MaxStamp
    BY <1>1, ItemTypes DEF MemoryOK
  <2> QED BY <2>1, BoundType
<1>4. Entry("update", f, stamp) \in Entries
  BY <1>3, EntryTypes
<1>5. /\ JournalOK'
      /\ Journal' = IF open THEN Append(Journal, Entry("update", f, stamp)) ELSE Journal
  BY <1>1, <1>2, <1>4, LoggedJournal
<1>6. MemoryOK'
  BY <1>1 DEF MemoryOK, Running
<1> QED BY <1>3, <1>5, <1>6, TypeParts

LEMMA ForgetType ==
    ASSUME TypeInv, NEW f \in Files, NEW c \in Clients, Forget(c, f)
    PROVE  TypeInv' /\ Journal' = Journal
<1> USE DEF Forget
<1>1. JournalOK /\ MemoryOK /\ Running
  BY TypeParts
<1>2. JournalOK' /\ Journal' = Journal
  BY <1>1, SameJournal
<1>3. cache' \in [Files -> Items]
  <2> QED BY <1>1, NoItemType DEF MemoryOK
<1>4. MemoryOK'
  BY <1>1, <1>3 DEF MemoryOK, Running
<1> QED BY <1>2, <1>4, TypeParts

LEMMA ForgetLoggedType ==
    ASSUME TypeInv, NEW c \in Clients, ForgetLogged(c)
    PROVE  /\ TypeInv' /\ Running /\ forgets[c] \in Files
           /\ Journal' = IF open THEN Append(Journal, Entry("forget", forgets[c], 0)) ELSE Journal
<1> USE DEF ForgetLogged
<1>1. JournalOK /\ MemoryOK
  BY TypeParts
<1>2. Running /\ forgets[c] \in Files
  BY <1>1 DEF MemoryOK
<1>3. Entry("forget", forgets[c], 0) \in Entries
  BY <1>2, EntryTypes
<1>4. /\ JournalOK'
      /\ Journal' = IF open THEN Append(Journal, Entry("forget", forgets[c], 0)) ELSE Journal
  BY <1>1, <1>2, <1>3, LoggedJournal
<1>5. dirty' \subseteq Files
  BY <1>1, <1>2 DEF Settled, MemoryOK
<1>6. MemoryOK'
  BY <1>1, <1>2, <1>5 DEF MemoryOK, Running
<1> QED BY <1>2, <1>4, <1>6, TypeParts

LEMMA DequeueType ==
    ASSUME TypeInv, NEW f \in Files, NEW t \in QueueThreads, Dequeue(t, f)
    PROVE  TypeInv' /\ Journal' = Journal
<1> USE DEF Dequeue
<1>1. JournalOK /\ MemoryOK /\ Running
  BY TypeParts
<1>2. JournalOK' /\ Journal' = Journal
  BY <1>1, SameJournal
<1>3. cache[f].vals \in Seq(1..MaxStamp) /\ [cache[f] EXCEPT !.vals = <<>>] \in Items
  BY <1>1, ItemTypes DEF MemoryOK
<1>4. cache' \in [Files -> Items]
  BY <1>1, <1>3 DEF MemoryOK
<1>5. job' \in [QueueThreads -> Jobs]
  BY <1>1, <1>3, JobTypes DEF MemoryOK
<1>6. \A u \in QueueThreads : job'[u].file = "none" => job'[u].vals = <<>>
  <2>1. \A u \in QueueThreads : job'[u] = IF u = t THEN [file |-> f, vals |-> cache[f].vals]
                                                   ELSE job[u]
    BY <1>1 DEF MemoryOK
  <2> QED BY <1>1, <2>1, FilesAssumption DEF MemoryOK
<1>7. MemoryOK'
  BY <1>1, <1>4, <1>5, <1>6 DEF MemoryOK, Running, histVars
<1> QED BY <1>2, <1>7, TypeParts

LEMMA WriteType ==
    ASSUME TypeInv, NEW t \in QueueThreads, Write(t)
    PROVE  TypeInv' /\ Journal' = Journal /\ Running /\ job[t].file \in Files
<1> USE DEF Write
<1>1. JournalOK /\ MemoryOK
  BY TypeParts
<1>2. Running /\ job[t].file \in Files
  BY <1>1, JobTypes DEF MemoryOK, NoJob
<1>3. JournalOK' /\ Journal' = Journal
  BY <1>1, SameJournal
<1>4. /\ Head(job[t].vals) \in 1..MaxStamp /\ Tail(job[t].vals) \in Seq(1..MaxStamp)
      /\ <<>> \in Seq(1..MaxStamp) /\ Head(job[t].vals) \in 0..MaxStamp
  <2>1. job[t].vals \in Seq(1..MaxStamp) /\ job[t].vals # <<>>
    BY <1>1, JobTypes DEF MemoryOK
  <2>2. Head(job[t].vals) \in 1..MaxStamp /\ Tail(job[t].vals) \in Seq(1..MaxStamp)
    BY <2>1, HeadAndTail
  <2> QED BY <2>2, BoundType, EmptySeq
<1>5. job' \in [QueueThreads -> Jobs] /\ \A u \in QueueThreads : job'[u].file = job[u].file
                                                             /\ (u # t => job'[u] = job[u])
  <2>1. PICK v \in Seq(1..MaxStamp) : job' = [job EXCEPT ![t].vals = v]
    BY <1>4
  <2>2. [job[t] EXCEPT !.vals = v] \in Jobs /\ [job[t] EXCEPT !.vals = v].file = job[t].file
    BY <1>1, JobTypes DEF MemoryOK, Jobs
  <2>3. job' = [job EXCEPT ![t] = [job[t] EXCEPT !.vals = v]]
    BY <2>1
  <2> QED BY <1>1, <2>2, <2>3 DEF MemoryOK
<1>6. \A u \in QueueThreads : job'[u].file = "none" => job'[u].vals = <<>>
  BY <1>1, <1>2, <1>5, FilesAssumption DEF MemoryOK
<1>7. disk' \in [Files -> 0..MaxStamp]
  <2>1. disk' = [disk EXCEPT ![job[t].file] = Head(job[t].vals)] \/ disk' = disk
    OBVIOUS
  <2>2. disk \in [Files -> 0..MaxStamp]
    BY <1>1 DEF MemoryOK
  <2> HIDE DEF Write
  <2> QED BY <1>2, <1>4, <2>1, <2>2
<1>8. owed' \in [Files -> SUBSET (1..MaxStamp)] /\ raced' \subseteq Files
  <2>1. /\ owed' = [owed EXCEPT ![job[t].file] = @ \ {Head(job[t].vals)}] \/ owed' = owed
        /\ raced' = raced \union {job[t].file} \/ raced' = raced
    OBVIOUS
  <2>2. owed \in [Files -> SUBSET (1..MaxStamp)] /\ raced \subseteq Files
    BY <1>1 DEF MemoryOK
  <2> HIDE DEF Write
  <2> QED BY <1>2, <2>1, <2>2
<1>9. MemoryOK'
  BY <1>1, <1>2, <1>5, <1>6, <1>7, <1>8 DEF MemoryOK, Running
<1> QED BY <1>2, <1>3, <1>9, TypeParts

LEMMA WriteFailsType ==
    ASSUME TypeInv, NEW t \in QueueThreads, WriteFails(t)
    PROVE  TypeInv' /\ Journal' = Journal /\ Running /\ job[t].file \in Files
<1> USE DEF WriteFails
<1>1. JournalOK /\ MemoryOK
  BY TypeParts
<1>2. Running /\ job[t].file \in Files
  BY <1>1, JobTypes DEF MemoryOK, NoJob
<1>3. JournalOK' /\ Journal' = Journal
  BY <1>1, SameJournal
<1>4. <<>> \in Seq(1..MaxStamp)
  BY EmptySeq
<1>5. job' \in [QueueThreads -> Jobs] /\ \A u \in QueueThreads : job'[u].file = job[u].file
                                                             /\ (u # t => job'[u] = job[u])
  BY <1>1, <1>4, JobTypes DEF MemoryOK, Jobs
<1>6. \A u \in QueueThreads : job'[u].file = "none" => job'[u].vals = <<>>
  BY <1>1, <1>2, <1>5, FilesAssumption DEF MemoryOK
<1>7. owed' \in [Files -> SUBSET (1..MaxStamp)]
  BY <1>1, <1>2 DEF MemoryOK
<1>8. MemoryOK'
  BY <1>1, <1>2, <1>5, <1>6, <1>7 DEF MemoryOK, Running
<1> QED BY <1>2, <1>3, <1>8, TypeParts

LEMMA WroteType ==
    ASSUME TypeInv, NEW t \in QueueThreads, Wrote(t)
    PROVE  /\ TypeInv' /\ Running /\ job[t].file \in Files
           /\ Journal' = IF open THEN Append(Journal, Entry("wrote", job[t].file, 0)) ELSE Journal
<1> USE DEF Wrote
<1>1. JournalOK /\ MemoryOK
  BY TypeParts
<1>2. Running /\ job[t].file \in Files
  BY <1>1, JobTypes DEF MemoryOK, NoJob
<1>3. Entry("wrote", job[t].file, 0) \in Entries
  BY <1>2, EntryTypes
<1>4. /\ JournalOK'
      /\ Journal' = IF open THEN Append(Journal, Entry("wrote", job[t].file, 0)) ELSE Journal
  BY <1>1, <1>2, <1>3, LoggedJournal
<1>5. dirty' \subseteq Files
  BY <1>1, <1>2 DEF Settled, MemoryOK
<1>6. job' \in [QueueThreads -> Jobs]
  BY <1>1, JobTypes DEF MemoryOK
<1>7. \A u \in QueueThreads : job'[u].file = "none" => job'[u].vals = <<>>
  BY <1>1 DEF MemoryOK, NoJob
<1>8. MemoryOK'
  BY <1>1, <1>2, <1>5, <1>6, <1>7 DEF MemoryOK, Running
<1> QED BY <1>2, <1>4, <1>8, TypeParts

LEMMA FlushOldType ==
    ASSUME TypeInv, FlushOld
    PROVE  TypeInv' /\ Journal' = Journal
<1> USE DEF FlushOld
<1>1. JournalOK /\ MemoryOK /\ Running
  BY TypeParts
<1>2. Journal' = Journal
  BY SameJournal
<1>3. JournalOK'
  BY <1>1 DEF JournalOK, journalVars, setVars, Running
<1>4. cache' \in [Files -> Items]
  BY <1>1, NoItemType DEF MemoryOK
<1>5. MemoryOK'
  BY <1>1, <1>4 DEF MemoryOK, Running, histVars
<1> QED BY <1>2, <1>3, <1>5, TypeParts

\* The set that is shifted to journal_old has the buffer, and the set to be
\* removed is the one that was journal_old.
LEMMA RotateCloseType ==
    ASSUME TypeInv, RotateClose
    PROVE  TypeInv' /\ Journal' = Journal /\ doomed' = old
<1> USE DEF RotateClose
<1>1. JournalOK /\ MemoryOK /\ TypeOK
  BY TypeParts DEF TypeInv
<1>2. Running /\ doomed = <<>>
  BY <1>1 DEF JournalOK, MemoryOK, Running
<1>3. /\ buffer \in Seq(Entries) /\ Len(buffer) \in 0..Len(buffer)
      /\ <<>> \in Logs /\ <<>> \in Seq(Entries) /\ old \in Logs
  BY <1>1, EmptySeq DEF JournalOK, Logs
<1>4. /\ Closed(Len(buffer)) \in Logs
      /\ SubSeq(buffer, 1, Len(buffer)) = buffer
      /\ FlattenSeq(doomed \o old \o Closed(Len(buffer)))
            = FlattenSeq(AllFiles) \o SubSeq(buffer, 1, Len(buffer))
  BY <1>1, <1>3, ClosedFiles, SubSeqFull
<1>5. JournalOK'
  BY <1>1, <1>2, <1>3, <1>4 DEF JournalOK, Running
<1>6. Journal' = Journal
  <2> DEFINE closed == Closed(Len(buffer))
  <2>1. closed \in Logs /\ FlattenSeq(doomed \o old \o closed) = Journal
    BY <1>4 DEF Journal
  <2>2. doomed' = old /\ old' = closed /\ cur' = <<>> /\ buffer' = <<>>
    OBVIOUS
  <2> HIDE DEF closed
  <2>3. doomed \o old = old
    BY <1>2, <1>3, ConcatEmptySeq DEF Logs
  <2>4. old \o closed \in Logs /\ (old \o closed) \o <<>> = old \o closed
    BY <1>3, <2>1, ConcatProperties, ConcatEmptySeq DEF Logs
  <2>5. Journal' = FlattenSeq((old \o closed) \o <<>>) \o <<>>
    BY <2>2 DEF Journal, AllFiles
  <2>6. Journal \in Seq(Entries)
    BY <1>1, TypeFacts
  <2>7. Journal' = Journal \o <<>>
    BY <2>1, <2>3, <2>4, <2>5
  <2> QED BY <2>6, <2>7, ConcatEmptySeq
<1>7. raced' \subseteq Files
  BY <1>1 DEF MemoryOK, OwedIn
<1>8. MemoryOK'
  BY <1>1, <1>7 DEF MemoryOK, Running
<1> QED BY <1>5, <1>6, <1>8, TypeParts

LEMMA NewFileType ==
    ASSUME NEW files \in Logs, NEW flushing \in BOOLEAN, journal_new_file(files, flushing)
    PROVE  /\ cur' \in Logs /\ FlattenSeq(cur') = FlattenSeq(files)
           /\ open' \in BOOLEAN /\ (open' => cur' # <<>>) /\ fas' \in BOOLEAN
<1>1. FlattenSeq(files) \in Seq(Entries) /\ <<>> \in Seq(Entries)
  BY FlattenType, EmptySeq DEF Logs
<1>2. FlattenSeq(Append(files, <<>>)) = FlattenSeq(files) \o <<>>
  BY <1>1, FlattenAppend DEF Logs
<1>3. FlattenSeq(Append(files, <<>>)) = FlattenSeq(files)
  BY <1>1, <1>2, ConcatEmptySeq
<1>4. Append(files, <<>>) \in Logs /\ Append(files, <<>>) # <<>>
  BY <1>1 DEF Logs
<1> QED BY <1>3, <1>4 DEF journal_new_file

LEMMA SameFiles ==
    ASSUME JournalOK, cur' \in Logs, FlattenSeq(cur') = FlattenSeq(cur),
           UNCHANGED <<doomed, old, buffer>>
    PROVE  Journal' = Journal
<1> DEFINE before == doomed \o old
<1>1. before \in Logs /\ cur \in Logs /\ before' = before
  BY ConcatProperties DEF JournalOK, Logs
<1> HIDE DEF before
<1>2. /\ FlattenSeq(before \o cur) = FlattenSeq(before) \o FlattenSeq(cur)
      /\ FlattenSeq(before \o cur') = FlattenSeq(before) \o FlattenSeq(cur')
  BY <1>1, FlattenConcat DEF Logs
<1>3. Journal = FlattenSeq(before \o cur) \o buffer
  BY DEF Journal, AllFiles, before
<1>4. Journal' = FlattenSeq(before' \o cur') \o buffer'
  BY DEF Journal, AllFiles, before
<1> QED BY <1>1, <1>2, <1>3, <1>4

LEMMA RotateOpenType ==
    ASSUME TypeInv, RotateOpen
    PROVE  TypeInv' /\ Journal' = Journal
<1> USE DEF RotateOpen
<1>1. JournalOK /\ MemoryOK
  BY TypeParts
<1>2. Running /\ cur = <<>> /\ rolling = "none" /\ ~open /\ cur \in Logs /\ buffer = <<>>
  BY <1>1 DEF JournalOK
<1>3. /\ cur' \in Logs /\ FlattenSeq(cur') = FlattenSeq(cur)
      /\ open' \in BOOLEAN /\ (open' => cur' # <<>>) /\ fas' \in BOOLEAN
  BY <1>1, <1>2, NewFileType DEF MemoryOK
<1>4. JournalOK'
  BY <1>1, <1>2, <1>3 DEF JournalOK, Running
<1>5. Journal' = Journal
  BY <1>1, <1>3, SameFiles
<1>6. MemoryOK'
  BY <1>1, <1>3 DEF MemoryOK, Running, histVars
<1> QED BY <1>4, <1>5, <1>6, TypeParts

LEMMA RollOpenType ==
    ASSUME TypeInv, RollOpen
    PROVE  TypeInv' /\ Journal' = Journal
<1> USE DEF RollOpen
<1>1. JournalOK /\ MemoryOK
  BY TypeParts
<1>2. Running /\ rpc # "closed" /\ ~open /\ cur \in Logs /\ buffer = <<>>
  BY <1>1 DEF JournalOK
<1>3. /\ cur' \in Logs /\ FlattenSeq(cur') = FlattenSeq(cur)
      /\ open' \in BOOLEAN /\ (open' => cur' # <<>>) /\ fas' \in BOOLEAN
  BY <1>1, <1>2, NewFileType DEF MemoryOK
<1>4. JournalOK'
  BY <1>1, <1>2, <1>3 DEF JournalOK, Running
<1>5. Journal' = Journal
  BY <1>1, <1>3, SameFiles
<1>6. MemoryOK'
  BY <1>1, <1>3 DEF MemoryOK, Running, histVars
<1> QED BY <1>4, <1>5, <1>6, TypeParts

LEMMA LogsAssociative ==
    /\ \A r, s, t \in Logs : (r \o s) \o t = r \o (s \o t)
    /\ \A r, s, t \in Seq(Entries) : (r \o s) \o t = r \o (s \o t)
<1>1. \A r, s, t \in Seq(Entries) : (r \o s) \o t = r \o (s \o t)
  BY Associative
<1>2. \A r, s, t \in Logs : (r \o s) \o t = r \o (s \o t)
  <2> DEFINE S == Seq(Entries)
  <2>1. \A r, s, t \in Seq(S) : (r \o s) \o t = r \o (s \o t)
    <3> HIDE DEF S
    <3> QED BY Associative
  <2> QED BY <2>1 DEF Logs
<1> QED BY <1>1, <1>2

\* The oldest file comes first in the journal.
OldestFirst(ds, os, cs, b) ==
    /\ FlattenSeq(ds \o os \o cs) \o b
          = ds[1] \o (FlattenSeq(Tail(ds) \o os \o cs) \o b)
    /\ FlattenSeq(ds) = ds[1] \o FlattenSeq(Tail(ds))
    /\ ds[1] \in Seq(Entries) /\ Tail(ds) \in Logs
    /\ FlattenSeq(Tail(ds)) \in Seq(Entries)

LEMMA WithoutOldestFile ==
    \A ds, os, cs \in Logs, b \in Seq(Entries) : ds # <<>> => OldestFirst(ds, os, cs, b)
<1> SUFFICES ASSUME NEW ds \in Logs, NEW os \in Logs, NEW cs \in Logs,
                    NEW b \in Seq(Entries), ds # <<>>
             PROVE  OldestFirst(ds, os, cs, b)
  BY Zenon
<1> DEFINE ts == Tail(ds)
           kept == os \o cs
           h == ds[1]
           x == FlattenSeq(ts)
           y == FlattenSeq(kept)
<1>1. ts \in Logs /\ h \in Seq(Entries)
  BY DEF Logs
<1>2. kept \in Logs
  BY ConcatProperties DEF Logs
<1>3. FlattenSeq(ds) = h \o x
  BY FlattenTail DEF Logs
<1> HIDE DEF ts, h
<1>4. /\ (ds \o os) \o cs = ds \o kept
      /\ (ts \o os) \o cs = ts \o kept
  <2>2. (ds \o os) \o cs = ds \o (os \o cs)
    BY LogsAssociative
  <2>3. (ts \o os) \o cs = ts \o (os \o cs)
    BY <1>1, LogsAssociative
  <2> QED BY <2>2, <2>3
<1> HIDE DEF kept
<1>5. /\ FlattenSeq(ds \o kept) = FlattenSeq(ds) \o y
      /\ FlattenSeq(ts \o kept) = x \o y
  <2>1. \A fs, gs \in Logs : FlattenSeq(fs \o gs) = FlattenSeq(fs) \o FlattenSeq(gs)
    BY FlattenConcat DEF Logs
  <2> QED BY <1>1, <1>2, <2>1
<1>6. x \in Seq(Entries) /\ y \in Seq(Entries)
  BY <1>1, <1>2, FlattenType DEF Logs
<1> HIDE DEF x, y
<1>7. x \o y \in Seq(Entries)
  BY <1>6, ConcatProperties
<1>8. ((h \o x) \o y) \o b = h \o ((x \o y) \o b)
  <2>1. (h \o x) \o y = h \o (x \o y)
    BY <1>1, <1>6, LogsAssociative
  <2>2. (h \o (x \o y)) \o b = h \o ((x \o y) \o b)
    BY <1>1, <1>7, LogsAssociative
  <2> QED BY <2>1, <2>2
<1>9. FlattenSeq(ds \o os \o cs) \o b = h \o (FlattenSeq(ts \o os \o cs) \o b)
  BY <1>3, <1>4, <1>5, <1>8
<1> QED BY <1>1, <1>3, <1>6, <1>9 DEF ts, h, x, OldestFirst

\* The oldest file of the set that is removed is the oldest of the journal.
LEMMA RotateUnlinkType ==
    ASSUME TypeInv, RotateUnlink
    PROVE  /\ TypeInv' /\ Running
           /\ \/ Journal' = Journal /\ doomed' = doomed
              \/ /\ Head(doomed) \in Seq(Entries) /\ Journal = Head(doomed) \o Journal'
                 /\ FlattenSeq(doomed) = Head(doomed) \o FlattenSeq(doomed')
                 /\ FlattenSeq(doomed') \in Seq(Entries)
<1> USE DEF RotateUnlink
<1>1. JournalOK /\ MemoryOK /\ Running
  BY TypeParts DEF JournalOK
<1>2. MemoryOK'
  BY <1>1 DEF MemoryOK, Running, histVars
<1>3. CASE doomed = <<>> /\ rpc' = "idle" /\ UNCHANGED doomed
  <2>1. JournalOK'
    BY <1>1, <1>3 DEF JournalOK, Running
  <2>2. Journal' = Journal
    BY <1>3 DEF Journal, AllFiles
  <2> QED BY <1>1, <1>2, <1>3, <2>1, <2>2, TypeParts
<1>4. CASE doomed # <<>> /\ doomed' = Tail(doomed) /\ UNCHANGED rpc
  <2>1. doomed \in Logs /\ old \in Logs /\ cur \in Logs /\ buffer \in Seq(Entries)
    BY <1>1 DEF JournalOK
  <2>2. Head(doomed) = doomed[1]
    BY <2>1 DEF Logs
  <2>3. /\ FlattenSeq(doomed \o old \o cur) \o buffer
              = doomed[1] \o (FlattenSeq(Tail(doomed) \o old \o cur) \o buffer)
        /\ FlattenSeq(doomed) = doomed[1] \o FlattenSeq(Tail(doomed))
        /\ doomed[1] \in Seq(Entries) /\ Tail(doomed) \in Logs
        /\ FlattenSeq(Tail(doomed)) \in Seq(Entries)
    <3>1. doomed # <<>>
      BY <1>4
    <3>2. OldestFirst(doomed, old, cur, buffer)
      BY <2>1, <3>1, WithoutOldestFile, Zenon
    <3> QED BY <3>2 DEF OldestFirst
  <2>4. Journal = FlattenSeq(doomed \o old \o cur) \o buffer
    BY DEF Journal, AllFiles
  <2>5. Journal' = FlattenSeq(doomed' \o old' \o cur') \o buffer'
    BY DEF Journal, AllFiles
  <2>6. UNCHANGED <<old, cur, buffer>>
    OBVIOUS
  <2>7. JournalOK'
    BY <1>1, <1>4, <2>3 DEF JournalOK, Running
  <2> HIDE DEF RotateUnlink
  <2>8. Journal = Head(doomed) \o Journal'
    BY <1>4, <2>2, <2>3, <2>4, <2>5, <2>6
  <2> QED BY <1>1, <1>2, <1>4, <2>2, <2>3, <2>7, <2>8, TypeParts
<1> QED BY <1>3, <1>4

\* The entries of the buffer that have reached the file, and the others.
Lost(n) == SubSeq(buffer, n + 1, Len(buffer))

LEMMA BufferSplit ==
    ASSUME buffer \in Seq(Entries), NEW n \in 0..Len(buffer)
    PROVE  /\ Lost(n) \in Seq(Entries)
           /\ SubSeq(buffer, 1, n) \o Lost(n) = buffer
           /\ ValuesOf(Lost(n)) = {buffer[i] : i \in (n + 1)..Len(buffer)}
<1> DEFINE m == Len(buffer)
           k == n + 1
           q == SubSeq(buffer, k, m)
<1>1. m \in Nat /\ n \in Nat /\ n <= m /\ k \in Int /\ m \in Int
  OBVIOUS
<1>2. \A i \in k..m : i \in 1..m /\ buffer[i] \in Entries
  <2>1. \A i \in k..m : i \in 1..m
    BY <1>1
  <2> QED BY <2>1, ElementOfSeq
<1>3. /\ q \in Seq(Entries)
      /\ Len(q) = IF k <= m THEN m - k + 1 ELSE 0
      /\ \A i \in 1..(m - k + 1) : q[i] = buffer[k + i - 1]
  <2> HIDE DEF k, m
  <2> QED BY <1>1, <1>2, SubSeqProperties
<1>4. Len(q) = m - n /\ \A i \in 1..(m - n) : q[i] = buffer[n + i]
  <2> HIDE DEF q, m
  <2>1. Len(q) = m - n
    BY <1>1, <1>3
  <2>2. \A i \in 1..(m - n) : i \in 1..(m - k + 1) /\ k + i - 1 = n + i
    BY <1>1
  <2> HIDE DEF k
  <2>3. \A i \in 1..(m - n) : q[i] = buffer[n + i]
    BY <1>3, <2>2
  <2> QED BY <2>1, <2>3
<1>5. SubSeq(buffer, 1, n) \o q = buffer
  <2>1. 1 \in 1..(m + 1) /\ n \in (1 - 1)..m /\ m \in n..m
    BY <1>1
  <2>2. SubSeq(buffer, 1, n) \o SubSeq(buffer, n + 1, m) = SubSeq(buffer, 1, m)
    BY <2>1, ConcatAdjacentSubSeq
  <2> QED BY <2>2, SubSeqFull
<1>6. ValuesOf(q) = {buffer[i] : i \in k..m}
  <2> HIDE DEF q, m
  <2>1. ASSUME NEW x \in ValuesOf(q) PROVE \E i \in k..m : x = buffer[i]
    <3>1. PICK i \in 1..(m - n) : x = q[i]
      BY <2>1, <1>4 DEF ValuesOf
    <3> DEFINE j == n + i
    <3>2. j \in k..m /\ x = buffer[j]
      BY <3>1, <1>1, <1>4
    <3> QED BY <3>2
  <2>2. ASSUME NEW i \in k..m PROVE buffer[i] \in ValuesOf(q)
    <3> DEFINE j == i - n
    <3>1. j \in 1..(m - n) /\ n + j = i
      BY <1>1
    <3>2. q[j] = buffer[n + j]
      <4> HIDE DEF j
      <4> QED BY <3>1, <1>4
    <3> HIDE DEF j
    <3> QED BY <3>1, <3>2, <1>4 DEF ValuesOf
  <2> QED BY <2>1, <2>2
<1> QED BY <1>3, <1>5, <1>6 DEF Lost

LEMMA NothingInMemory ==
    ASSUME MemoryOK, cache' = EmptyCache, job' = [t \in QueueThreads |-> NoJob],
           forgets' = [c \in Clients |-> "none"]
    PROVE  /\ cache' \in [Files -> Items] /\ job' \in [QueueThreads -> Jobs]
           /\ forgets' \in [Clients -> Files \union {"none"}]
           /\ \A t \in QueueThreads : job'[t] = NoJob /\ job'[t].vals = <<>>
           /\ \A c \in Clients : forgets'[c] = "none"
  BY NoItemType, JobTypes DEF Cache, NoJob

LEMMA ClosedJournal ==
    ASSUME TypeInv, NEW n \in 0..Len(buffer), cur' = Closed(n), buffer' = <<>>,
           UNCHANGED <<old, doomed>>
    PROVE  /\ cur' \in Logs /\ Journal' \in Seq(Entries)
           /\ Journal = Journal' \o Lost(n) /\ Lost(n) \in Seq(Entries)
<1>1. TypeOK /\ buffer \in Seq(Entries) /\ FlattenSeq(AllFiles) \in Seq(Entries)
  BY TypeFacts, FilesType DEF TypeInv
<1> DEFINE a == FlattenSeq(AllFiles)
           p == SubSeq(buffer, 1, n)
           q == Lost(n)
<1>2. /\ Closed(n) \in Logs /\ p \in Seq(Entries)
      /\ FlattenSeq(doomed \o old \o Closed(n)) = a \o p
  BY <1>1, ClosedFiles
<1>3. q \in Seq(Entries) /\ p \o q = buffer
  BY <1>1, BufferSplit
<1>4. Journal' = FlattenSeq(doomed \o old \o Closed(n)) \o <<>>
  BY DEF Journal, AllFiles
<1>5. Journal = a \o buffer /\ a \in Seq(Entries)
  BY <1>1 DEF Journal
<1> HIDE DEF a, p, q
<1>6. a \o p \in Seq(Entries)
  BY <1>2, <1>5, ConcatProperties
<1>7. Journal' = a \o p
  BY <1>2, <1>4, <1>6, ConcatEmptySeq
<1>8. (a \o p) \o q = a \o (p \o q)
  BY <1>2, <1>3, <1>5, LogsAssociative
<1> QED BY <1>2, <1>3, <1>5, <1>6, <1>7, <1>8 DEF q

LEMMA CrashType ==
    ASSUME TypeInv, Crash
    PROVE  /\ TypeInv' /\ ~Running'
           /\ \E q \in Seq(Entries) :
                 /\ Journal' \in Seq(Entries) /\ Journal = Journal' \o q
                 /\ \A f \in Files : owed'[f] = owed[f] \ Stamps(q, f)
                 /\ \A f \in Files \ dirty' :
                       /\ f \notin dirty /\ ~Busy(f) /\ ~Forgetting(f)
                       /\ \A j \in 1..Len(q) : ~Resets(q[j], f)
<1>1. JournalOK /\ MemoryOK /\ buffer \in Seq(Entries) /\ Running
  BY TypeParts DEF JournalOK, Crash
<1>2. PICK n \in 0..Len(buffer) :
         LET gone == {buffer[i] : i \in (n + 1)..Len(buffer)}
         IN  /\ Down("crashed", n)
             /\ owed' = [f \in Files |-> owed[f] \ StampsOf(gone, f)]
             /\ dirty' = {f \in Files : \/ f \in dirty \/ Busy(f) \/ Forgetting(f)
                                        \/ \E e \in gone : /\ e.cmd # "update"
                                                           /\ e.file = f}
  BY DEF Crash
<1> DEFINE q == Lost(n)
<1>3. q \in Seq(Entries) /\ ValuesOf(q) = {buffer[i] : i \in (n + 1)..Len(buffer)}
  BY <1>1, BufferSplit
<1> HIDE DEF q
<1>4. /\ owed' = [f \in Files |-> owed[f] \ Stamps(q, f)]
      /\ dirty' = {f \in Files : \/ f \in dirty \/ Busy(f) \/ Forgetting(f)
                                 \/ \E e \in ValuesOf(q) : Resets(e, f)}
      /\ Down("crashed", n)
  BY <1>2, <1>3 DEF Stamps, Resets
<1>5. /\ phase' = "crashed" /\ cache' = EmptyCache /\ job' = [t \in QueueThreads |-> NoJob]
      /\ forgets' = [c \in Clients |-> "none"] /\ cur' = Closed(n) /\ buffer' = <<>>
      /\ open' = FALSE /\ rolling' = "none" /\ rpc' = "idle"
      /\ UNCHANGED <<fas, disk, old, doomed, clock, raced>>
  BY <1>4 DEF Down, Crash
<1>6. cur' \in Logs /\ Journal' \in Seq(Entries) /\ Journal = Journal' \o q
  BY <1>5, ClosedJournal DEF q
<1>7. JournalOK'
  <2>1. <<>> \in Seq(Entries)
    BY EmptySeq
  <2> QED BY <1>1, <1>5, <1>6, <2>1 DEF JournalOK, Running
<1>8. owed' \in [Files -> SUBSET (1..MaxStamp)] /\ dirty' \subseteq Files
  BY <1>1, <1>4 DEF MemoryOK
<1>9. MemoryOK'
  BY <1>1, <1>5, <1>8, NothingInMemory DEF MemoryOK
<1>10. \A j \in 1..Len(q) : q[j] \in ValuesOf(q)
  BY DEF ValuesOf
<1>11. \A f \in Files \ dirty' : /\ f \notin dirty /\ ~Busy(f) /\ ~Forgetting(f)
                                 /\ \A j \in 1..Len(q) : ~Resets(q[j], f)
  BY <1>4, <1>10
<1>12. ~Running'
  BY <1>5 DEF Running
<1>13. \A f \in Files : owed'[f] = owed[f] \ Stamps(q, f)
  BY <1>4
<1>14. TypeInv'
  BY <1>7, <1>9, TypeParts
<1> QED BY <1>3, <1>6, <1>11, <1>12, <1>13, <1>14

LEMMA StopType ==
    ASSUME TypeInv, Stop
    PROVE  /\ TypeInv' /\ ~Running' /\ Running
           /\ Journal' = Journal
                \/ (Journal' = <<>> /\ \A f \in Files : cache[f].vals = <<>>)
<1>1. JournalOK /\ MemoryOK /\ Running /\ rpc = "idle" /\ rolling = "none"
  BY TypeParts DEF Stop
<1>2. /\ doomed = <<>> /\ buffer \in Seq(Entries) /\ Len(buffer) \in 0..Len(buffer)
      /\ <<>> \in Logs /\ <<>> \in Seq(Entries)
  BY <1>1, EmptySeq DEF JournalOK, Running, Logs
<1>3. /\ \A t \in QueueThreads : job[t] = NoJob
      /\ \A c \in Clients : forgets[c] = "none"
      /\ UNCHANGED <<fas, disk, clock, histVars>>
  BY DEF Stop
<1>4. job = [t \in QueueThreads |-> NoJob] /\ forgets = [c \in Clients |-> "none"]
  BY <1>1, <1>3 DEF MemoryOK
<1>5. CASE Down("stopped", Len(buffer)) /\ UNCHANGED <<old, doomed>>
  <2>1. /\ phase' = "stopped" /\ cache' = EmptyCache /\ job' = [t \in QueueThreads |-> NoJob]
        /\ forgets' = [c \in Clients |-> "none"] /\ cur' = Closed(Len(buffer))
        /\ buffer' = <<>> /\ open' = FALSE /\ rolling' = "none" /\ rpc' = "idle"
        /\ UNCHANGED <<old, doomed>>
    BY <1>5 DEF Down
  <2>2. /\ cur' \in Logs /\ Journal' \in Seq(Entries)
        /\ Journal = Journal' \o Lost(Len(buffer))
    BY <1>2, <2>1, ClosedJournal
  <2>3. Lost(Len(buffer)) = <<>>
    <3>1. Len(buffer) \in Nat /\ Len(buffer) < Len(buffer) + 1
      BY <1>2
    <3> QED BY <3>1, SubSeqEmpty DEF Lost
  <2>4. Journal' = Journal
    BY <2>2, <2>3, ConcatEmptySeq
  <2>5. JournalOK'
    BY <1>1, <1>2, <2>1, <2>2 DEF JournalOK, Running
  <2>6. MemoryOK'
    BY <1>1, <1>3, <2>1, NothingInMemory DEF MemoryOK, histVars
  <2>7. ~Running'
    BY <2>1 DEF Running
  <2> QED BY <1>1, <2>4, <2>5, <2>6, <2>7, TypeParts
<1>6. CASE /\ \A f \in Files : cache[f].vals = <<>>
           /\ phase' = "stopped"
           /\ cache' = EmptyCache
           /\ cur' = <<>> /\ old' = <<>> /\ doomed' = <<>>
           /\ buffer' = <<>> /\ open' = FALSE
           /\ UNCHANGED <<job, forgets, rolling, rpc>>
  <2>1. Journal' = FlattenSeq((<<>> \o <<>>) \o <<>>) \o <<>>
    BY <1>6 DEF Journal, AllFiles
  <2>2. (<<>> \o <<>>) \o <<>> = <<>>
    BY <1>2, ConcatEmptySeq
  <2>3. Journal' = <<>>
    BY <1>2, <2>1, <2>2, FlattenEmpty, ConcatEmptySeq
  <2>4. JournalOK'
    BY <1>1, <1>2, <1>6 DEF JournalOK, Running
  <2>5. MemoryOK'
    BY <1>1, <1>3, <1>4, <1>6, NothingInMemory DEF MemoryOK, histVars
  <2>6. ~Running'
    BY <1>6 DEF Running
  <2> QED BY <1>1, <1>6, <2>3, <2>4, <2>5, <2>6, TypeParts
<1> QED BY <1>5, <1>6 DEF Stop

LEMMA StartType ==
    ASSUME TypeInv, Start
    PROVE  /\ TypeInv' /\ ~Running
           /\ Journal' = Journal /\ cache' = ReplayAll(Journal) /\ doomed' = <<>>
           /\ \A f \in Files :
                 owed'[f] = IF f \in raced THEN owed[f] \intersect Vals(ReplayAll(Journal), f)
                                           ELSE owed[f]
<1>1. JournalOK /\ MemoryOK /\ TypeOK /\ ~Running
  BY TypeParts DEF Start, Running, TypeInv
<1>2. /\ rpc = "idle" /\ rolling = "none" /\ ~open /\ buffer = <<>>
      /\ <<>> \in Logs /\ <<>> \in Seq(Entries)
  BY <1>1, EmptySeq DEF JournalOK, Logs
<1>3. AllFiles \in Logs /\ FlattenSeq(AllFiles) \in Seq(Entries)
  BY <1>1, FilesType DEF JournalOK
<1>4. Journal = FlattenSeq(AllFiles) /\ Journal \in Seq(Entries)
  BY <1>2, <1>3, ConcatEmptySeq DEF Journal
<1>5. /\ phase' = "running" /\ cache' = Replay(AllFiles)
      /\ journal_new_file(AllFiles, FlushAtShutdown) /\ old' = <<>> /\ doomed' = <<>>
      /\ owed' = [f \in Files |-> IF f \in raced
                                  THEN owed[f] \intersect ValuesOf(cache'[f].vals)
                                  ELSE owed[f]]
      /\ raced' = {}
      /\ UNCHANGED <<job, forgets, disk, buffer, rolling, rpc, clock, dirty>>
  BY DEF Start
<1>6. cache' = ReplayAll(Journal) /\ cache' \in [Files -> Items]
  BY <1>4, <1>5, ReplayType DEF Replay, Cache
<1>7. /\ cur' \in Logs /\ FlattenSeq(cur') = FlattenSeq(AllFiles)
      /\ open' \in BOOLEAN /\ (open' => cur' # <<>>) /\ fas' \in BOOLEAN
  BY <1>3, <1>5, NewFileType, BoundAssumption
<1>8. Journal' = Journal
  <2>1. Journal' = FlattenSeq((<<>> \o <<>>) \o cur') \o <<>>
    BY <1>2, <1>5 DEF Journal, AllFiles
  <2>2. (<<>> \o <<>>) \o cur' = cur'
    BY <1>2, <1>7, ConcatEmptySeq DEF Logs
  <2> QED BY <2>1, <2>2, <1>3, <1>4, <1>7, ConcatEmptySeq
<1>9. JournalOK'
  BY <1>2, <1>5, <1>7 DEF JournalOK, Running
<1>10. owed' \in [Files -> SUBSET (1..MaxStamp)]
  BY <1>1, <1>5 DEF MemoryOK
<1>11. MemoryOK'
  BY <1>1, <1>5, <1>6, <1>7, <1>10 DEF MemoryOK, Running
<1>12. \A f \in Files :
          owed'[f] = IF f \in raced THEN owed[f] \intersect Vals(ReplayAll(Journal), f)
                                    ELSE owed[f]
  BY <1>5, <1>6 DEF Vals
<1> QED BY <1>1, <1>5, <1>6, <1>8, <1>9, <1>11, <1>12, TypeParts

LEMMA StutterType ==
    ASSUME TypeInv, UNCHANGED vars
    PROVE  TypeInv' /\ Journal' = Journal
<1>1. JournalOK /\ MemoryOK
  BY TypeParts
<1>2. JournalOK' /\ Journal' = Journal
  BY <1>1, SameJournal DEF vars
<1>3. MemoryOK'
  BY <1>1 DEF MemoryOK, Running, vars, histVars
<1> QED BY <1>2, <1>3, TypeParts

LEMMA TypeStep == TypeInv /\ [Next]_vars => TypeInv'
<1> SUFFICES ASSUME TypeInv, [Next]_vars PROVE TypeInv'
  OBVIOUS
<1>1. CASE \E f \in Files : Update(f) \/ UpdateRefused(f)
  BY <1>1, UpdateType, UpdateRefusedType
<1>2. CASE \E f \in Files, c \in Clients : Forget(c, f)
  BY <1>2, ForgetType
<1>3. CASE \E c \in Clients : ForgetLogged(c)
  BY <1>3, ForgetLoggedType
<1>4. CASE \E f \in Files, t \in QueueThreads : Dequeue(t, f)
  BY <1>4, DequeueType
<1>5. CASE \E t \in QueueThreads : Write(t) \/ WriteFails(t) \/ Wrote(t)
  BY <1>5, WriteType, WriteFailsType, WroteType
<1>6. CASE FlushOld \/ RotateClose \/ RotateOpen \/ RotateUnlink \/ RollOpen
  BY <1>6, FlushOldType, RotateCloseType, RotateOpenType, RotateUnlinkType, RollOpenType
<1>7. CASE Crash \/ Stop \/ Start
  BY <1>7, CrashType, StopType, StartType
<1>8. CASE UNCHANGED vars
  BY <1>8, StutterType
<1> QED BY <1>1, <1>2, <1>3, <1>4, <1>5, <1>6, <1>7, <1>8 DEF Next

\* Type correctness, with the states of the journal: only the newest file of
\* the current set is open, only an open journal has a buffer, and a set is
\* being removed only by journal_rotate, or was by one that crashed.
THEOREM JournalTypeCorrect == Spec => []TypeOK
<1>1. TypeInv => TypeOK
  BY DEF TypeInv
<1> QED BY <1>1, TypeInit, TypeStep, PTL DEF Spec

-----------------------------------------------------------------------------
(* The rest of the invariant: what a step leaves alone.                    *)

\* A file is kept by a step that changes neither what is owed of it nor what
\* the journal restores of it.
LEMMA StillKept ==
    ASSUME NEW f \in Files, Kept(f), Running' => Running, doomed' = doomed,
           owed'[f] = owed[f], cache'[f].vals = cache[f].vals,
           Vals(ReplayAll(Journal'), f) = Vals(ReplayAll(Journal), f),
           \A t \in QueueThreads : /\ job'[t].file = f <=> job[t].file = f
                                   /\ job[t].file = f => job'[t] = job[t],
           \A c \in Clients : forgets'[c] = f => forgets[c] = f
    PROVE  Kept(f)'
<1>1. Waiting(f)'
  BY DEF Kept, Waiting, InJobs, Vals
<1>2. Alone(f)'
  BY DEF Kept, Alone
<1>3. ForgottenNotOwed(f)'
  BY DEF Kept, ForgottenNotOwed, Forgetting
<1>4. DoomedNotOwed(f)'
  BY DEF Kept, DoomedNotOwed
<1>5. Restored(f)'
  BY DEF Kept, Restored
<1> QED BY <1>1, <1>2, <1>3, <1>4, <1>5 DEF Kept

LEMMA StillNothingElse ==
    ASSUME NEW f \in Files, NothingElse(f), owed'[f] = owed[f],
           Since(Journal', f) = Since(Journal, f), Fresh(Journal', f) = Fresh(Journal, f),
           Busy(f) => Busy(f)', Forgetting(f) => Forgetting(f)'
    PROVE  NothingElse(f)'
  BY DEF NothingElse

\* An entry changes nothing for the other files.
LEMMA OtherEntry ==
    ASSUME TypeInv, NEW e \in Entries, NEW f \in Files, e.file # f,
           Journal' = IF open THEN Append(Journal, e) ELSE Journal
    PROVE  /\ Vals(ReplayAll(Journal'), f) = Vals(ReplayAll(Journal), f)
           /\ Since(Journal', f) = Since(Journal, f) /\ Fresh(Journal', f) = Fresh(Journal, f)
           /\ Stamps(Journal', f) = Stamps(Journal, f)
<1>1. Journal \in Seq(Entries)
  BY TypeFacts DEF TypeInv
<1>2. \A s \in Seq(Entries) :
         /\ Vals(ReplayAll(Append(s, e)), f) = Vals(ReplayAll(s), f)
         /\ Since(Append(s, e), f) = Since(s, f) /\ Fresh(Append(s, e), f) = Fresh(s, f)
         /\ Stamps(Append(s, e), f) = Stamps(s, f)
  <2> TAKE s \in Seq(Entries)
  <2>1. ReplayAll(Append(s, e))[f] = ReplayAll(s)[f]
    BY ReplayMore
  <2>2. Fresh(Append(s, e), f) <=> Fresh(s, f)
    BY FreshAppend
  <2>3. Fresh(Append(s, e), f) = Fresh(s, f)
    BY <2>2 DEF Fresh
  <2>4. Since(Append(s, e), f) = Since(s, f)
    BY SinceAppend
  <2>5. Stamps(Append(s, e), f) = Stamps(s, f)
    BY StampsAppend DEF Records
  <2> QED BY <2>1, <2>3, <2>4, <2>5 DEF Vals
<1> HIDE DEF Journal
<1>3. CASE open
  BY <1>1, <1>2, <1>3
<1>4. CASE ~open
  BY <1>4
<1> QED BY <1>3, <1>4

\* An entry that wipes a file leaves nothing of it.
LEMMA ResetEntry ==
    ASSUME TypeInv, NEW e \in Entries, NEW f \in Files, Resets(e, f), open,
           Journal' = IF open THEN Append(Journal, e) ELSE Journal
    PROVE  Since(Journal', f) = {} /\ Fresh(Journal', f)
<1>1. Journal \in Seq(Entries) /\ Journal' = Append(Journal, e)
  BY TypeFacts DEF TypeInv
<1>2. Since(Append(Journal, e), f) = {} /\ Fresh(Append(Journal, e), f)
  BY <1>1, SinceAppend, FreshAppend
<1> QED BY <1>1, <1>2

LEMMA EntryStamps ==
    ASSUME TypeInv, NEW e \in Entries, NEW f \in Files,
           Journal' = IF open THEN Append(Journal, e) ELSE Journal
    PROVE  /\ Stamps(Journal', f) \subseteq Stamps(Journal, f) \union {e.stamp}
           /\ e.cmd # "update" => Stamps(Journal', f) = Stamps(Journal, f)
<1>1. Journal \in Seq(Entries)
  BY TypeFacts DEF TypeInv
<1>2. /\ Records(e, f) => Stamps(Append(Journal, e), f) = Stamps(Journal, f) \union {e.stamp}
      /\ ~Records(e, f) => Stamps(Append(Journal, e), f) = Stamps(Journal, f)
  BY <1>1, StampsAppend
<1> QED BY <1>2 DEF Records

\* Nothing new is stamped.
LEMMA StillStamped ==
    ASSUME Stamped, UNCHANGED clock,
           \A f \in Files : /\ Stamps(Journal', f) \subseteq Stamps(Journal, f)
                            /\ cache'[f].last \in {0, cache[f].last},
           MemoryOK
    PROVE  Stamped'
<1>1. 0 \in 0..clock
  BY DEF MemoryOK
<1> QED BY <1>1 DEF Stamped

\* What is being removed is still part of the journal.
LEMMA DoomedInJournal ==
    ASSUME TypeInv, NEW f \in Files
    PROVE  Stamps(FlattenSeq(doomed), f) \subseteq Stamps(Journal, f)
<1> DEFINE a == FlattenSeq(doomed)
           b == FlattenSeq(old \o cur)
<1>1. /\ doomed \in Logs /\ old \in Logs /\ cur \in Logs /\ buffer \in Seq(Entries)
      /\ FlattenSeq(AllFiles) \in Seq(Entries)
  BY TypeFacts, FilesType DEF TypeInv
<1>2. old \o cur \in Logs
  BY <1>1, ConcatProperties DEF Logs
<1>3. AllFiles = doomed \o (old \o cur)
  BY <1>1, LogsAssociative DEF AllFiles
<1>4. FlattenSeq(AllFiles) = a \o b
  <2>1. \A fs, gs \in Logs : FlattenSeq(fs \o gs) = FlattenSeq(fs) \o FlattenSeq(gs)
    BY FlattenConcat DEF Logs
  <2>2. FlattenSeq(doomed \o (old \o cur)) = a \o b
    BY <1>1, <1>2, <2>1, Zenon
  <2> QED BY <1>3, <2>2, Zenon
<1>5. a \in Seq(Entries) /\ b \in Seq(Entries)
  BY <1>1, <1>2, FlattenType DEF Logs
<1> HIDE DEF a, b
<1>6. Stamps(a, f) \subseteq Stamps(a \o b, f)
  BY <1>5, StampsConcat
<1>7. a \o b \in Seq(Entries) /\ Journal = (a \o b) \o buffer
  BY <1>1, <1>4 DEF Journal
<1>8. Stamps(a \o b, f) \subseteq Stamps(Journal, f)
  <2>1. \A r, t \in Seq(Entries) : Stamps(r, f) \subseteq Stamps(r \o t, f)
    BY StampsConcat
  <2>2. Stamps(a \o b, f) \subseteq Stamps((a \o b) \o buffer, f)
    BY <1>1, <1>7, <2>1, Zenon
  <2> QED BY <1>7, <2>2, Zenon
<1> QED BY <1>6, <1>8 DEF a

-----------------------------------------------------------------------------
(* The rest of the invariant, step by step.                                *)

LEMMA UpdateKeeps ==
    ASSUME IInv, NEW f \in Files, Update(f)
    PROVE  IInv'
<1> DEFINE e == Entry("update", f, clock + 1)
<1>1. /\ TypeInv /\ TypeInv' /\ JournalOK /\ MemoryOK /\ Journal \in Seq(Entries)
      /\ Journal' = IF open THEN Append(Journal, e) ELSE Journal
  BY UpdateType, TypeParts, TypeFacts DEF IInv, TypeInv
<1>2. /\ clock' = clock + 1 /\ clock \in Nat /\ clock + 1 \in 1..MaxStamp /\ Running
      /\ 1..clock \subseteq 1..clock' /\ clock' \in 1..clock' /\ 0..clock \subseteq 0..clock'
  BY <1>1, BoundType DEF Update, MemoryOK
<1>3. e \in Entries /\ e.stamp = clock + 1 /\ Records(e, f) /\ \A g \in Files \ {f} : e.file # g
  BY <1>2, EntryTypes DEF Entry, Records
<1>4. /\ cache'[f].vals = Append(cache[f].vals, clock + 1) /\ cache'[f].last = clock + 1
      /\ owed'[f] = owed[f] \union {clock + 1}
      /\ \A g \in Files \ {f} : cache'[g] = cache[g] /\ owed'[g] = owed[g]
      /\ raced' = IF ~open \/ Busy(f) \/ Forgetting(f) THEN raced \union {f} ELSE raced
      /\ UNCHANGED <<phase, job, forgets, doomed, dirty>>
  <2>1. doomed' = doomed
    BY DEF Update, journal_write
  <2> QED BY <1>1, <1>2, <2>1 DEF Update, MemoryOK
<1> HIDE DEF e
<1>5. Stamped'
  <2> SUFFICES ASSUME NEW g \in Files
               PROVE  Stamps(Journal', g) \subseteq 1..clock' /\ cache'[g].last \in 0..clock'
    BY DEF Stamped
  <2>1. Stamps(Journal', g) \subseteq Stamps(Journal, g) \union {clock + 1}
    BY <1>1, <1>3, EntryStamps
  <2>2. Stamps(Journal, g) \subseteq 1..clock /\ cache[g].last \in 0..clock
    BY DEF IInv, Stamped
  <2>3. clock + 1 \in 1..clock' /\ clock + 1 \in 0..clock'
    BY <1>2
  <2>4. cache'[g].last \in {clock + 1, cache[g].last}
    BY <1>4
  <2> QED BY <2>1, <2>2, <2>3, <2>4, <1>2
<1>6. ASSUME NEW g \in Files \ raced' PROVE Kept(g)'
  <2>1. Kept(g)
    BY <1>4, <1>6 DEF IInv
  <2>2. CASE g = f
    <3>1. open /\ ~Busy(f) /\ ~Forgetting(f) /\ Kept(f)
      BY <1>4, <2>1, <2>2
    <3>2. Waiting(f)'
      <4>1. \A x \in owed[f] : x \in Vals(cache, f) \/ InJobs(x, f)
        BY <1>2, <3>1 DEF Kept, Waiting
      <4>2. ValuesOf(cache'[f].vals) = ValuesOf(cache[f].vals) \union {clock + 1}
        <5>1. cache[f].vals \in Seq(1..MaxStamp)
          BY <1>1, ItemTypes DEF MemoryOK
        <5>2. \A s \in Seq(1..MaxStamp), v \in 1..MaxStamp :
                 ValuesOf(Append(s, v)) = ValuesOf(s) \union {v}
          BY ValuesOfAppend
        <5> QED BY <5>1, <5>2, <1>2, <1>4
      <4> QED BY <4>1, <4>2, <1>4 DEF Waiting, Vals, InJobs
    <3>3. Alone(f)'
      BY <1>4, <3>1 DEF Alone, Busy
    <3>4. ForgottenNotOwed(f)'
      BY <1>4, <3>1 DEF ForgottenNotOwed, Forgetting
    <3>5. DoomedNotOwed(f)'
      <4>1. Stamps(FlattenSeq(doomed), f) \subseteq Stamps(Journal, f)
        BY <1>1, DoomedInJournal
      <4>2. clock + 1 \notin Stamps(Journal, f)
        BY <1>2 DEF IInv, Stamped
      <4> QED BY <4>1, <4>2, <3>1, <1>4 DEF Kept, DoomedNotOwed
    <3>6. Restored(f)'
      <4>1. clock + 1 > ReplayAll(Journal)[f].last
        <5>1. ReplayAll(Journal)[f].last \in {0} \union 1..clock
          BY <1>1, ReplayLast DEF IInv, Stamped
        <5> QED BY <5>1, <1>2
      <4>2. Vals(ReplayAll(Append(Journal, e)), f) = Vals(ReplayAll(Journal), f) \union {clock + 1}
        BY <1>1, <1>3, <4>1, ReplayMore
      <4>3. Journal' = Append(Journal, e)
        BY <1>1, <3>1
      <4> QED BY <4>2, <4>3, <3>1, <1>4 DEF Kept, Restored
    <3> QED BY <2>2, <3>2, <3>3, <3>4, <3>5, <3>6 DEF Kept
  <2>3. CASE g # f
    <3>1. Vals(ReplayAll(Journal'), g) = Vals(ReplayAll(Journal), g) /\ g \in Files
      BY <1>1, <1>3, <2>3, OtherEntry
    <3>2. /\ owed'[g] = owed[g] /\ cache'[g].vals = cache[g].vals /\ doomed' = doomed
          /\ job' = job /\ forgets' = forgets /\ (Running' => Running)
      BY <1>2, <1>4, <2>3
    <3> QED BY <2>1, <3>1, <3>2, StillKept
  <2> QED BY <2>2, <2>3
<1>7. ASSUME NEW g \in Files \ dirty' PROVE NothingElse(g)'
  <2>1. NothingElse(g)
    BY <1>4, <1>7 DEF IInv
  <2>2. (Busy(g) => Busy(g)') /\ (Forgetting(g) => Forgetting(g)')
    BY <1>4 DEF Busy, Forgetting
  <2>3. CASE g = f
    <3>1. ASSUME Since(Journal, f) \subseteq owed[f], Fresh(Journal, f)
          PROVE  (Since(Journal, f) \subseteq owed[f] /\ Fresh(Journal, f))'
      <4>1. CASE open
        <5>1. Since(Append(Journal, e), f) = Since(Journal, f) \union {clock + 1}
          BY <1>1, <1>3, SinceAppend
        <5>2. \A x \in Stamps(Journal, f) : x < clock + 1
          BY <1>2 DEF IInv, Stamped
        <5>3. Fresh(Append(Journal, e), f)
          BY <1>1, <1>3, <3>1, <5>2, FreshAppend
        <5>4. Journal' = Append(Journal, e)
          BY <1>1, <4>1
        <5> QED BY <5>1, <5>3, <5>4, <1>4, <3>1
      <4>2. CASE ~open
        <5>1. Journal' = Journal
          BY <1>1, <4>2
        <5> QED BY <5>1, <1>4, <3>1
      <4> QED BY <4>1, <4>2
    <3> QED BY <2>1, <2>2, <2>3, <3>1 DEF NothingElse
  <2>4. CASE g # f
    <3>1. /\ Since(Journal', g) = Since(Journal, g) /\ Fresh(Journal', g) = Fresh(Journal, g)
      BY <1>1, <1>3, <2>4, OtherEntry
    <3>2. owed'[g] = owed[g]
      BY <1>4, <2>4
    <3> QED BY <2>1, <2>2, <3>1, <3>2, StillNothingElse
  <2> QED BY <2>3, <2>4
<1> QED BY <1>1, <1>5, <1>6, <1>7 DEF IInv

LEMMA UpdateRefusedKeeps ==
    ASSUME IInv, NEW f \in Files, UpdateRefused(f)
    PROVE  IInv'
<1>1. /\ TypeInv /\ TypeInv' /\ MemoryOK /\ Journal \in Seq(Entries)
      /\ \E stamp \in 1..cache[f].last :
            /\ stamp \in 1..MaxStamp
            /\ Journal' = IF open THEN Append(Journal, Entry("update", f, stamp)) ELSE Journal
  BY UpdateRefusedType, TypeParts, TypeFacts DEF IInv, TypeInv
<1>2. PICK stamp \in 1..cache[f].last :
         /\ stamp \in 1..MaxStamp
         /\ Journal' = IF open THEN Append(Journal, Entry("update", f, stamp)) ELSE Journal
  BY <1>1
<1> DEFINE e == Entry("update", f, stamp)
<1>3. /\ e \in Entries /\ e.stamp = stamp /\ Records(e, f)
      /\ \A g \in Files \ {f} : e.file # g
  BY <1>2, EntryTypes DEF Entry, Records
<1>4. /\ Journal' = IF open THEN Append(Journal, e) ELSE Journal
      /\ dirty' = dirty \union {f}
      /\ UNCHANGED <<phase, cache, job, forgets, clock, owed, raced, doomed>>
  BY <1>2 DEF UpdateRefused, journal_write
<1>5. stamp \in 1..clock
  <2>1. cache[f].last \in 0..clock /\ clock \in Nat
    BY <1>1, BoundType DEF IInv, Stamped, MemoryOK
  <2> QED BY <2>1
<1> HIDE DEF e
<1>6. Stamped'
  <2> SUFFICES ASSUME NEW g \in Files
               PROVE  Stamps(Journal', g) \subseteq 1..clock /\ cache[g].last \in 0..clock
    BY <1>4 DEF Stamped
  <2>1. Stamps(Journal', g) \subseteq Stamps(Journal, g) \union {stamp}
    BY <1>1, <1>3, <1>4, EntryStamps
  <2> QED BY <2>1, <1>5 DEF IInv, Stamped
<1>7. ASSUME NEW g \in Files \ raced' PROVE Kept(g)'
  <2>1. Kept(g) /\ g \in Files
    BY <1>4, <1>7 DEF IInv
  <2>2. CASE g = f
    <3>1. Vals(ReplayAll(Journal), f) \subseteq Vals(ReplayAll(Append(Journal, e)), f)
      BY <1>1, <1>3, ReplayMore
    <3>2. Journal' = Append(Journal, e) \/ Journal' = Journal
      BY <1>4
    <3>3. Vals(ReplayAll(Journal), f) \subseteq Vals(ReplayAll(Journal'), f)
      BY <3>1, <3>2
    <3>4. Restored(f)'
      BY <3>3, <2>1, <2>2, <1>4 DEF Kept, Restored
    <3>5. Waiting(f)' /\ Alone(f)' /\ ForgottenNotOwed(f)' /\ DoomedNotOwed(f)'
      BY <2>1, <2>2, <1>4 DEF Kept, Waiting, InJobs, Running, Alone, ForgottenNotOwed,
                              Forgetting, DoomedNotOwed
    <3> QED BY <2>2, <3>4, <3>5 DEF Kept
  <2>3. CASE g # f
    <3>1. Vals(ReplayAll(Journal'), g) = Vals(ReplayAll(Journal), g)
      BY <1>1, <1>3, <1>4, <2>1, <2>3, OtherEntry
    <3>2. /\ owed'[g] = owed[g] /\ cache'[g].vals = cache[g].vals /\ doomed' = doomed
          /\ job' = job /\ forgets' = forgets /\ (Running' => Running)
      BY <1>4 DEF Running
    <3> QED BY <2>1, <3>1, <3>2, StillKept
  <2> QED BY <2>2, <2>3
<1>8. ASSUME NEW g \in Files \ dirty' PROVE NothingElse(g)'
  <2>1. NothingElse(g) /\ g \in Files /\ g # f
    BY <1>4, <1>8 DEF IInv
  <2>2. /\ Since(Journal', g) = Since(Journal, g) /\ Fresh(Journal', g) = Fresh(Journal, g)
    BY <1>1, <1>3, <1>4, <2>1, OtherEntry
  <2>3. owed'[g] = owed[g] /\ (Busy(g) => Busy(g)') /\ (Forgetting(g) => Forgetting(g)')
    BY <1>4 DEF Busy, Forgetting
  <2> QED BY <2>1, <2>2, <2>3, StillNothingElse
<1> QED BY <1>1, <1>6, <1>7, <1>8 DEF IInv

LEMMA ForgetKeeps ==
    ASSUME IInv, NEW f \in Files, NEW c \in Clients, Forget(c, f)
    PROVE  IInv'
<1>1. TypeInv /\ TypeInv' /\ MemoryOK /\ Journal' = Journal
  BY ForgetType, TypeParts DEF IInv
<1>2. /\ cache'[f] = NoItem /\ owed'[f] = {} /\ forgets'[c] = f /\ forgets[c] = "none"
      /\ \A g \in Files \ {f} : cache'[g] = cache[g] /\ owed'[g] = owed[g]
      /\ \A d \in Clients \ {c} : forgets'[d] = forgets[d]
      /\ UNCHANGED <<phase, job, doomed, clock, raced, dirty>>
  BY <1>1 DEF Forget, MemoryOK, journalVars, setVars
<1>3. Stamped'
  <2>1. \A g \in Files : cache'[g].last \in {0, cache[g].last}
    BY <1>2 DEF NoItem
  <2> QED BY <1>1, <1>2, <2>1, StillStamped DEF IInv
<1>4. ASSUME NEW g \in Files \ raced' PROVE Kept(g)'
  <2>1. Kept(g) /\ g \in Files
    BY <1>2, <1>4 DEF IInv
  <2>2. CASE g = f
    <3>1. Alone(f)'
      BY <1>2, <2>1, <2>2 DEF Kept, Alone, NoItem
    <3>2. Waiting(f)' /\ ForgottenNotOwed(f)' /\ DoomedNotOwed(f)' /\ Restored(f)'
      BY <1>2 DEF Waiting, ForgottenNotOwed, DoomedNotOwed, Restored
    <3> QED BY <2>2, <3>1, <3>2 DEF Kept
  <2>3. CASE g # f
    <3>1. /\ owed'[g] = owed[g] /\ cache'[g].vals = cache[g].vals /\ doomed' = doomed
          /\ job' = job /\ (Running' => Running)
          /\ \A d \in Clients : forgets'[d] = g => forgets[d] = g
      BY <1>2, <2>1, <2>3 DEF Running
    <3>2. Vals(ReplayAll(Journal'), g) = Vals(ReplayAll(Journal), g)
      BY <1>1
    <3> QED BY <2>1, <3>1, <3>2, StillKept
  <2> QED BY <2>2, <2>3
<1>5. ASSUME NEW g \in Files \ dirty' PROVE NothingElse(g)'
  <2>1. NothingElse(g) /\ g \in Files
    BY <1>2, <1>5 DEF IInv
  <2>2. CASE g = f
    <3>1. Forgetting(f)'
      BY <1>2 DEF Forgetting
    <3> QED BY <2>2, <3>1 DEF NothingElse
  <2>3. CASE g # f
    <3>1. /\ owed'[g] = owed[g] /\ (Busy(g) => Busy(g)')
          /\ Since(Journal', g) = Since(Journal, g) /\ Fresh(Journal', g) = Fresh(Journal, g)
      BY <1>1, <1>2, <2>1, <2>3 DEF Busy
    <3>2. Forgetting(g) => Forgetting(g)'
      BY <1>2, <2>1, FilesAssumption DEF Forgetting
    <3> QED BY <2>1, <3>1, <3>2, StillNothingElse
  <2> QED BY <2>2, <2>3
<1> QED BY <1>1, <1>3, <1>4, <1>5 DEF IInv

LEMMA ForgetLoggedKeeps ==
    ASSUME IInv, NEW c \in Clients, ForgetLogged(c)
    PROVE  IInv'
<1>0. PICK f \in Files : f = forgets[c]
  BY ForgetLoggedType DEF IInv
<1> DEFINE e == Entry("forget", f, 0)
<1>1. /\ TypeInv /\ TypeInv' /\ MemoryOK /\ Running /\ f \in Files
      /\ Journal' = IF open THEN Append(Journal, e) ELSE Journal
  BY <1>0, ForgetLoggedType, TypeParts DEF IInv
<1>2. /\ e \in Entries /\ Resets(e, f) /\ e.cmd # "update"
      /\ \A g \in Files \ {f} : e.file # g
  BY <1>1, EntryTypes DEF Entry, Resets
<1>3. /\ forgets'[c] = "none" /\ forgets[c] # "none" /\ f # "none"
      /\ \A d \in Clients \ {c} : forgets'[d] = forgets[d]
      /\ dirty' = IF open THEN dirty \ {f} ELSE dirty \union {f}
      /\ UNCHANGED <<phase, cache, job, doomed, clock, owed, raced>>
  BY <1>0, <1>1 DEF ForgetLogged, MemoryOK, Settled, journal_write
<1>4. Forgetting(f) /\ \A g \in Files \ {f} : Forgetting(g) => Forgetting(g)'
  BY <1>0, <1>3 DEF Forgetting
<1> HIDE DEF e
<1>5. Stamped'
  <2>1. \A g \in Files : Stamps(Journal', g) = Stamps(Journal, g)
    BY <1>1, <1>2, EntryStamps
  <2> QED BY <1>1, <1>3, <2>1, StillStamped DEF IInv
<1>6. \A g \in Files, d \in Clients : forgets'[d] = g => forgets[d] = g
  BY <1>3, FilesAssumption
<1>7. ASSUME NEW g \in Files \ raced' PROVE Kept(g)'
  <2>1. Kept(g) /\ g \in Files
    BY <1>3, <1>7 DEF IInv
  <2>2. CASE g = f
    <3>1. owed[f] = {}
      BY <2>1, <2>2, <1>4 DEF Kept, ForgottenNotOwed
    <3>2. Waiting(f)' /\ ForgottenNotOwed(f)' /\ DoomedNotOwed(f)' /\ Restored(f)'
      BY <1>3, <3>1 DEF Waiting, ForgottenNotOwed, DoomedNotOwed, Restored
    <3>3. Alone(f)'
      BY <1>3, <2>1, <2>2 DEF Kept, Alone
    <3> QED BY <2>2, <3>2, <3>3 DEF Kept
  <2>3. CASE g # f
    <3>1. Vals(ReplayAll(Journal'), g) = Vals(ReplayAll(Journal), g)
      BY <1>1, <1>2, <2>1, <2>3, OtherEntry
    <3>2. /\ owed'[g] = owed[g] /\ cache'[g].vals = cache[g].vals /\ doomed' = doomed
          /\ job' = job /\ (Running' => Running)
      BY <1>3 DEF Running
    <3> QED BY <1>6, <2>1, <3>1, <3>2, StillKept
  <2> QED BY <2>2, <2>3
<1>8. ASSUME NEW g \in Files \ dirty' PROVE NothingElse(g)'
  <2>1. CASE g = f
    <3>1. open
      BY <1>3, <1>8, <2>1
    <3>2. Since(Journal', f) = {} /\ Fresh(Journal', f)
      BY <1>1, <1>2, <3>1, ResetEntry
    <3> QED BY <2>1, <3>2 DEF NothingElse
  <2>2. CASE g # f
    <3>1. NothingElse(g) /\ g \in Files
      BY <1>3, <1>8, <2>2 DEF IInv
    <3>2. /\ Since(Journal', g) = Since(Journal, g) /\ Fresh(Journal', g) = Fresh(Journal, g)
      BY <1>1, <1>2, <2>2, <3>1, OtherEntry
    <3>3. owed'[g] = owed[g]
      BY <1>3
    <3>4. Busy(g) => Busy(g)'
      BY <1>3 DEF Busy
    <3>5. Forgetting(g) => Forgetting(g)'
      BY <1>4, <2>2, <3>1
    <3> QED BY <3>1, <3>2, <3>3, <3>4, <3>5, StillNothingElse
  <2> QED BY <2>1, <2>2
<1> QED BY <1>1, <1>5, <1>7, <1>8 DEF IInv

LEMMA DequeueKeeps ==
    ASSUME IInv, NEW f \in Files, NEW t \in QueueThreads, Dequeue(t, f)
    PROVE  IInv'
<1>1. TypeInv /\ TypeInv' /\ MemoryOK /\ Journal' = Journal
  BY DequeueType, TypeParts DEF IInv
<1>2. /\ cache'[f].vals = <<>> /\ cache'[f].last = cache[f].last /\ cache[f].vals # <<>>
      /\ \A g \in Files \ {f} : cache'[g] = cache[g]
      /\ job[t] = NoJob /\ job'[t].file = f /\ job'[t].vals = cache[f].vals
      /\ \A u \in QueueThreads \ {t} : job'[u] = job[u]
      /\ UNCHANGED <<phase, forgets, doomed, clock, owed, raced, dirty>>
  <2>1. cache[f] \in Items
    BY <1>1 DEF MemoryOK
  <2>2. [cache[f] EXCEPT !.vals = <<>>].vals = <<>>
        /\ [cache[f] EXCEPT !.vals = <<>>].last = cache[f].last
    BY <2>1 DEF Items
  <2>3. cache' = [cache EXCEPT ![f] = [cache[f] EXCEPT !.vals = <<>>]]
    BY DEF Dequeue
  <2> QED BY <1>1, <2>2, <2>3 DEF Dequeue, MemoryOK, journalVars, setVars, histVars
<1>3. \A g \in Files : job[t].file # g
  BY <1>2, FilesAssumption DEF NoJob
<1>4. Stamped'
  <2>1. \A g \in Files : cache'[g].last \in {0, cache[g].last}
    BY <1>2
  <2> QED BY <1>1, <1>2, <2>1, StillStamped DEF IInv
<1>5. ASSUME NEW g \in Files \ raced' PROVE Kept(g)'
  <2>1. Kept(g) /\ g \in Files
    BY <1>2, <1>5 DEF IInv
  <2>2. CASE g = f
    <3>1. \A u \in QueueThreads : job[u].file # f
      BY <1>2, <2>1, <2>2 DEF Kept, Alone
    <3>2. Alone(f)'
      BY <1>2, <3>1 DEF Alone
    <3>3. Waiting(f)'
      <4>1. Running' => \A x \in owed[f] : x \in ValuesOf(cache[f].vals)
        BY <1>2, <2>1, <2>2, <3>1 DEF Kept, Waiting, InJobs, Vals, Running
      <4>2. \A x \in ValuesOf(cache[f].vals) : InJobs(x, f)'
        BY <1>2 DEF InJobs
      <4> QED BY <1>2, <4>1, <4>2 DEF Waiting
    <3>4. ForgottenNotOwed(f)' /\ DoomedNotOwed(f)' /\ Restored(f)'
      BY <1>1, <1>2, <2>1, <2>2 DEF Kept, ForgottenNotOwed, Forgetting, DoomedNotOwed, Restored
    <3> QED BY <2>2, <3>2, <3>3, <3>4 DEF Kept
  <2>3. CASE g # f
    <3>1. /\ owed'[g] = owed[g] /\ cache'[g].vals = cache[g].vals /\ doomed' = doomed
          /\ forgets' = forgets /\ (Running' => Running)
      BY <1>2, <2>1, <2>3 DEF Running
    <3>2. \A u \in QueueThreads : /\ job'[u].file = g <=> job[u].file = g
                                  /\ job[u].file = g => job'[u] = job[u]
      BY <1>2, <1>3, <2>1, <2>3
    <3>3. Vals(ReplayAll(Journal'), g) = Vals(ReplayAll(Journal), g)
      BY <1>1
    <3> QED BY <2>1, <3>1, <3>2, <3>3, StillKept
  <2> QED BY <2>2, <2>3
<1>6. ASSUME NEW g \in Files \ dirty' PROVE NothingElse(g)'
  <2>1. NothingElse(g) /\ g \in Files
    BY <1>2, <1>6 DEF IInv
  <2>2. /\ owed'[g] = owed[g] /\ (Forgetting(g) => Forgetting(g)')
        /\ Since(Journal', g) = Since(Journal, g) /\ Fresh(Journal', g) = Fresh(Journal, g)
    BY <1>1, <1>2 DEF Forgetting
  <2>3. Busy(g) => Busy(g)'
    BY <1>2, <1>3, <2>1 DEF Busy
  <2> QED BY <2>1, <2>2, <2>3, StillNothingElse
<1> QED BY <1>1, <1>4, <1>5, <1>6 DEF IInv

\* A thread that has written some values of its file, or lost them: what is
\* not owed any more is what has left its hands.
LEMMA BatchKeeps ==
    ASSUME IInv, TypeInv', Journal' = Journal, NEW f \in Files, NEW t \in QueueThreads,
           job[t].file = f,
           \A u \in QueueThreads : /\ job'[u].file = job[u].file
                                   /\ u # t => job'[u] = job[u],
           \A g \in Files \ {f} : owed'[g] = owed[g],
           raced \subseteq raced',
           f \notin raced' =>
              /\ owed'[f] \subseteq owed[f]
              /\ \A x \in owed'[f] : x \in ValuesOf(job[t].vals) => x \in ValuesOf(job'[t].vals),
           UNCHANGED <<phase, cache, forgets, doomed, clock, dirty>>
    PROVE  IInv'
<1>1. TypeInv /\ MemoryOK
  BY TypeParts DEF IInv
<1>2. Stamped'
  <2>1. \A g \in Files : Stamps(Journal', g) \subseteq Stamps(Journal, g)
    OBVIOUS
  <2> QED BY <1>1, <2>1, StillStamped DEF IInv
<1>3. ASSUME NEW g \in Files \ raced' PROVE Kept(g)'
  <2>1. Kept(g) /\ g \in Files
    BY <1>3 DEF IInv
  <2>2. CASE g = f
    <3>1. /\ owed'[f] \subseteq owed[f]
          /\ \A x \in owed'[f] : x \in ValuesOf(job[t].vals) => x \in ValuesOf(job'[t].vals)
      BY <1>3, <2>2
    <3>2. Waiting(f)'
      <4> SUFFICES ASSUME Running', NEW x \in owed'[f]
                   PROVE  x \in Vals(cache', f) \/ InJobs(x, f)'
        BY DEF Waiting
      <4>1. x \in Vals(cache, f) \/ InJobs(x, f)
        BY <2>1, <2>2, <3>1 DEF Kept, Waiting, Running
      <4>2. CASE InJobs(x, f)
        <5>1. PICK u \in QueueThreads : job[u].file = f /\ x \in ValuesOf(job[u].vals)
          BY <4>2 DEF InJobs
        <5>2. job'[u].file = f /\ x \in ValuesOf(job'[u].vals)
          BY <3>1, <5>1
        <5> QED BY <5>2 DEF InJobs
      <4> QED BY <4>1, <4>2
    <3>3. Alone(f)'
      BY <2>1, <2>2 DEF Kept, Alone
    <3>4. ForgottenNotOwed(f)' /\ DoomedNotOwed(f)' /\ Restored(f)'
      BY <2>1, <2>2, <3>1 DEF Kept, ForgottenNotOwed, Forgetting, DoomedNotOwed, Restored
    <3> QED BY <2>2, <3>2, <3>3, <3>4 DEF Kept
  <2>3. CASE g # f
    <3>1. /\ owed'[g] = owed[g] /\ cache'[g].vals = cache[g].vals /\ doomed' = doomed
          /\ forgets' = forgets /\ (Running' => Running)
          /\ Vals(ReplayAll(Journal'), g) = Vals(ReplayAll(Journal), g)
      BY <2>1, <2>3 DEF Running
    <3>2. \A u \in QueueThreads : /\ job'[u].file = g <=> job[u].file = g
                                  /\ job[u].file = g => job'[u] = job[u]
      BY <2>3
    <3> QED BY <2>1, <3>1, <3>2, StillKept
  <2> QED BY <2>2, <2>3
<1>4. ASSUME NEW g \in Files \ dirty' PROVE NothingElse(g)'
  <2>1. NothingElse(g) /\ g \in Files
    BY <1>4 DEF IInv
  <2>2. (Busy(g) => Busy(g)') /\ (Forgetting(g) => Forgetting(g)')
    BY DEF Busy, Forgetting
  <2>3. CASE g = f
    <3>1. Busy(f)'
      BY DEF Busy
    <3> QED BY <2>3, <3>1 DEF NothingElse
  <2>4. CASE g # f
    <3>1. /\ owed'[g] = owed[g] /\ Since(Journal', g) = Since(Journal, g)
          /\ Fresh(Journal', g) = Fresh(Journal, g)
      BY <2>1, <2>4
    <3> QED BY <2>1, <2>2, <3>1, StillNothingElse
  <2> QED BY <2>3, <2>4
<1> QED BY <1>2, <1>3, <1>4 DEF IInv

LEMMA WriteKeeps ==
    ASSUME IInv, NEW t \in QueueThreads, Write(t)
    PROVE  IInv'
<1>1. /\ TypeInv' /\ MemoryOK /\ Journal' = Journal
      /\ UNCHANGED <<phase, cache, forgets, doomed, clock, dirty>>
  BY WriteType, TypeParts DEF IInv, Write, journalVars, setVars
<1>2. PICK f \in Files : f = job[t].file
  BY WriteType DEF IInv
<1> DEFINE v == Head(job[t].vals)
<1>3. /\ job[t] \in Jobs /\ job[t].vals \in Seq(1..MaxStamp) /\ job[t].vals # <<>>
  BY <1>1, JobTypes DEF MemoryOK, Write
<1>4. ValuesOf(job[t].vals) = {v} \union ValuesOf(Tail(job[t].vals))
  BY <1>3, HeadAndTail
<1>5. CASE v > disk[f]
  <2>1. owed' = [owed EXCEPT ![f] = @ \ {v}] /\ raced' = raced
        /\ job' = [job EXCEPT ![t].vals = Tail(@)]
    BY <1>2, <1>5 DEF Write
  <2>2. job'[t].vals = Tail(job[t].vals) /\ job'[t].file = f
        /\ \A u \in QueueThreads \ {t} : job'[u] = job[u]
    BY <1>1, <1>2, <1>3, <2>1 DEF MemoryOK, Jobs
  <2>3. owed'[f] = owed[f] \ {v} /\ \A g \in Files \ {f} : owed'[g] = owed[g]
    BY <1>1, <2>1 DEF MemoryOK
  <2> HIDE DEF v
  <2>4. \A x \in owed'[f] : x \in ValuesOf(job[t].vals) => x \in ValuesOf(job'[t].vals)
    BY <1>4, <2>2, <2>3
  <2> QED BY <1>1, <1>2, <2>1, <2>2, <2>3, <2>4, BatchKeeps
<1>6. CASE ~(v > disk[f])
  <2>1. owed' = owed /\ raced' = raced \union {f} /\ job' = [job EXCEPT ![t].vals = <<>>]
    BY <1>2, <1>6 DEF Write
  <2>2. job'[t].file = f /\ \A u \in QueueThreads \ {t} : job'[u] = job[u]
    BY <1>1, <1>2, <1>3, <2>1 DEF MemoryOK, Jobs
  <2> QED BY <1>1, <1>2, <2>1, <2>2, BatchKeeps
<1> QED BY <1>5, <1>6

LEMMA WriteFailsKeeps ==
    ASSUME IInv, NEW t \in QueueThreads, WriteFails(t)
    PROVE  IInv'
<1>1. /\ TypeInv' /\ MemoryOK /\ Journal' = Journal
      /\ UNCHANGED <<phase, cache, forgets, doomed, clock, raced, dirty>>
  BY WriteFailsType, TypeParts DEF IInv, WriteFails, journalVars, setVars
<1>2. PICK f \in Files : f = job[t].file
  BY WriteFailsType DEF IInv
<1>3. job[t] \in Jobs
  BY <1>1 DEF MemoryOK
<1>4. /\ job'[t].file = f /\ \A u \in QueueThreads \ {t} : job'[u] = job[u]
      /\ owed'[f] = owed[f] \ ValuesOf(job[t].vals)
      /\ \A g \in Files \ {f} : owed'[g] = owed[g]
  BY <1>1, <1>2, <1>3 DEF WriteFails, MemoryOK, Jobs
<1> QED BY <1>1, <1>2, <1>4, BatchKeeps

LEMMA WroteKeeps ==
    ASSUME IInv, NEW t \in QueueThreads, Wrote(t)
    PROVE  IInv'
<1>0. PICK f \in Files : f = job[t].file
  BY WroteType DEF IInv
<1> DEFINE e == Entry("wrote", f, 0)
<1>1. /\ TypeInv /\ TypeInv' /\ MemoryOK /\ Running
      /\ Journal' = IF open THEN Append(Journal, e) ELSE Journal
  BY <1>0, WroteType, TypeParts DEF IInv
<1>2. /\ e \in Entries /\ Resets(e, f) /\ e.cmd # "update"
      /\ \A g \in Files \ {f} : e.file # g
  BY <1>1, EntryTypes DEF Entry, Resets
<1>3. /\ job[t].vals = <<>> /\ job'[t].file = "none"
      /\ \A u \in QueueThreads \ {t} : job'[u] = job[u]
      /\ dirty' = IF open THEN dirty \ {f} ELSE dirty \union {f}
      /\ UNCHANGED <<phase, cache, forgets, doomed, clock, owed, raced>>
  BY <1>0, <1>1 DEF Wrote, MemoryOK, Settled, journal_write, NoJob
<1> HIDE DEF e
<1>4. Stamped'
  <2>1. \A g \in Files : Stamps(Journal', g) = Stamps(Journal, g)
    BY <1>1, <1>2, EntryStamps
  <2> QED BY <1>1, <1>3, <2>1, StillStamped DEF IInv
<1>5. \A g \in Files \ {f}, u \in QueueThreads :
         /\ job'[u].file = g <=> job[u].file = g
         /\ job[u].file = g => job'[u] = job[u]
  BY <1>0, <1>3, FilesAssumption
<1>6. ASSUME NEW g \in Files \ raced' PROVE Kept(g)'
  <2>1. Kept(g) /\ g \in Files
    BY <1>3, <1>6 DEF IInv
  <2>2. CASE g = f
    <3>1. Alone(f) /\ Waiting(f)
      BY <2>1, <2>2 DEF Kept
    <3>2. cache[f].vals = <<>> /\ \A u \in QueueThreads : job[u].file = f => u = t
      BY <1>0, <3>1 DEF Alone
    <3>3. owed[f] = {}
      <4>1. \A x \in owed[f] : x \in Vals(cache, f) \/ InJobs(x, f)
        BY <1>1, <3>1 DEF Waiting
      <4>2. Vals(cache, f) = {}
        BY <3>2, NoItemType DEF Vals
      <4>3. \A x : ~InJobs(x, f)
        BY <1>3, <3>2, NoItemType DEF InJobs
      <4> QED BY <4>1, <4>2, <4>3
    <3>4. Waiting(f)' /\ ForgottenNotOwed(f)' /\ DoomedNotOwed(f)' /\ Restored(f)'
      BY <1>3, <3>3 DEF Waiting, ForgottenNotOwed, DoomedNotOwed, Restored
    <3>5. \A u \in QueueThreads : job'[u].file # f
      BY <1>3, <3>2, FilesAssumption
    <3>6. Alone(f)'
      BY <3>5 DEF Alone
    <3> QED BY <2>2, <3>4, <3>6 DEF Kept
  <2>3. CASE g # f
    <3>1. Vals(ReplayAll(Journal'), g) = Vals(ReplayAll(Journal), g)
      BY <1>1, <1>2, <2>1, <2>3, OtherEntry
    <3>2. /\ owed'[g] = owed[g] /\ cache'[g].vals = cache[g].vals /\ doomed' = doomed
          /\ forgets' = forgets /\ (Running' => Running)
      BY <1>3 DEF Running
    <3>3. \A u \in QueueThreads : /\ job'[u].file = g <=> job[u].file = g
                                  /\ job[u].file = g => job'[u] = job[u]
      BY <1>5, <2>1, <2>3
    <3> QED BY <2>1, <3>1, <3>2, <3>3, StillKept
  <2> QED BY <2>2, <2>3
<1>7. ASSUME NEW g \in Files \ dirty' PROVE NothingElse(g)'
  <2>1. CASE g = f
    <3>1. open
      BY <1>3, <1>7, <2>1
    <3>2. Since(Journal', f) = {} /\ Fresh(Journal', f)
      BY <1>1, <1>2, <3>1, ResetEntry
    <3> QED BY <2>1, <3>2 DEF NothingElse
  <2>2. CASE g # f
    <3>1. NothingElse(g) /\ g \in Files
      BY <1>3, <1>7, <2>2 DEF IInv
    <3>2. /\ Since(Journal', g) = Since(Journal, g) /\ Fresh(Journal', g) = Fresh(Journal, g)
      BY <1>1, <1>2, <2>2, <3>1, OtherEntry
    <3>3. owed'[g] = owed[g]
      BY <1>3
    <3>4. Forgetting(g) => Forgetting(g)'
      BY <1>3 DEF Forgetting
    <3>5. Busy(g) => Busy(g)'
      BY <1>5, <2>2, <3>1 DEF Busy
    <3> QED BY <3>1, <3>2, <3>3, <3>4, <3>5, StillNothingElse
  <2> QED BY <2>1, <2>2
<1> QED BY <1>1, <1>4, <1>6, <1>7 DEF IInv

\* A step of the flush thread, or one of journal_write, that changes none of
\* the journal's entries.
LEMMA QuietKeeps ==
    ASSUME IInv, TypeInv', Journal' = Journal,
           \A f \in Files : cache'[f].vals = cache[f].vals
                              /\ cache'[f].last \in {0, cache[f].last},
           \A f \in Files \ raced' : doomed' = doomed \/ DoomedNotOwed(f)',
           raced \subseteq raced',
           UNCHANGED <<phase, job, forgets, clock, owed, dirty>>
    PROVE  IInv'
<1>1. TypeInv /\ MemoryOK
  BY TypeParts DEF IInv
<1>2. Stamped'
  <2>1. \A g \in Files : Stamps(Journal', g) \subseteq Stamps(Journal, g)
    OBVIOUS
  <2> QED BY <1>1, <2>1, StillStamped DEF IInv
<1>3. ASSUME NEW f \in Files \ raced' PROVE Kept(f)'
  <2>1. Kept(f) /\ f \in Files
    BY <1>3 DEF IInv
  <2>2. Waiting(f)'
    BY <2>1 DEF Kept, Waiting, InJobs, Vals, Running
  <2>3. Alone(f)'
    BY <2>1 DEF Kept, Alone
  <2>4. ForgottenNotOwed(f)'
    BY <2>1 DEF Kept, ForgottenNotOwed, Forgetting
  <2>5. DoomedNotOwed(f)'
    BY <1>3, <2>1 DEF Kept, DoomedNotOwed
  <2>6. Restored(f)'
    BY <2>1 DEF Kept, Restored
  <2> QED BY <2>2, <2>3, <2>4, <2>5, <2>6 DEF Kept
<1>4. ASSUME NEW f \in Files \ dirty' PROVE NothingElse(f)'
  <2>1. NothingElse(f)
    BY <1>4 DEF IInv
  <2> QED BY <2>1 DEF NothingElse, Busy, Forgetting
<1> QED BY <1>2, <1>3, <1>4 DEF IInv

LEMMA FlushOldKeeps == ASSUME IInv, FlushOld PROVE IInv'
<1>1. TypeInv' /\ Journal' = Journal
  BY FlushOldType DEF IInv
<1>2. UNCHANGED <<phase, job, forgets, doomed, clock, owed, raced, dirty>>
  BY DEF FlushOld, journalVars, setVars, histVars
<1>3. \A f \in Files : cache'[f].vals = cache[f].vals /\ cache'[f].last \in {0, cache[f].last}
  BY DEF FlushOld, NoItem
<1> QED BY <1>1, <1>2, <1>3, QuietKeeps

LEMMA RotateCloseKeeps == ASSUME IInv, RotateClose PROVE IInv'
<1>1. TypeInv' /\ Journal' = Journal /\ doomed' = old
  BY RotateCloseType DEF IInv
<1>2. /\ UNCHANGED <<phase, cache, job, forgets, clock, owed, dirty>>
      /\ raced' = raced \union OwedIn(old)
  BY DEF RotateClose
<1>3. ASSUME NEW f \in Files \ raced' PROVE DoomedNotOwed(f)'
  <2>1. Stamps(FlattenSeq(old), f) \intersect owed[f] = {}
    BY <1>2, <1>3 DEF OwedIn, Stamps
  <2> QED BY <1>1, <1>2, <2>1 DEF DoomedNotOwed
<1> QED BY <1>1, <1>2, <1>3, QuietKeeps

LEMMA RotateOpenKeeps == ASSUME IInv, RotateOpen PROVE IInv'
<1>1. TypeInv' /\ Journal' = Journal
  BY RotateOpenType DEF IInv
<1>2. UNCHANGED <<phase, cache, job, forgets, doomed, clock, owed, raced, dirty>>
  BY DEF RotateOpen, histVars
<1> QED BY <1>1, <1>2, QuietKeeps

LEMMA RollOpenKeeps == ASSUME IInv, RollOpen PROVE IInv'
<1>1. TypeInv' /\ Journal' = Journal
  BY RollOpenType DEF IInv
<1>2. UNCHANGED <<phase, cache, job, forgets, doomed, clock, owed, raced, dirty>>
  BY DEF RollOpen, histVars
<1> QED BY <1>1, <1>2, QuietKeeps

\* The file that is unlinked records nothing that is owed.
LEMMA RotateUnlinkKeeps == ASSUME IInv, RotateUnlink PROVE IInv'
<1>1. /\ TypeInv /\ TypeInv' /\ MemoryOK /\ Journal \in Seq(Entries)
      /\ UNCHANGED <<phase, cache, job, forgets, clock, owed, raced, dirty>>
  BY RotateUnlinkType, TypeParts, TypeFacts DEF IInv, TypeInv, RotateUnlink, histVars
<1>2. CASE Journal' = Journal /\ doomed' = doomed
  BY <1>1, <1>2, QuietKeeps
<1>3. CASE /\ Head(doomed) \in Seq(Entries) /\ Journal = Head(doomed) \o Journal'
           /\ FlattenSeq(doomed) = Head(doomed) \o FlattenSeq(doomed')
           /\ FlattenSeq(doomed') \in Seq(Entries)
  <2> DEFINE h == Head(doomed)
             j == Journal'
             d == FlattenSeq(doomed')
  <2>1. j \in Seq(Entries)
    <3>1. TypeOK'
      BY <1>1 DEF TypeInv
    <3> QED BY <3>1, TypeFactsNext
  <2>2. h \in Seq(Entries) /\ Journal = h \o j /\ FlattenSeq(doomed) = h \o d /\ d \in Seq(Entries)
    BY <1>3
  <2> HIDE DEF h, j, d
  <2>3. \A f \in Files :
           /\ Stamps(Journal, f) = Stamps(h, f) \union Stamps(j, f)
           /\ Stamps(FlattenSeq(doomed), f) = Stamps(h, f) \union Stamps(d, f)
           /\ Vals(ReplayAll(Journal), f) \subseteq Vals(ReplayAll(j), f) \union Stamps(h, f)
           /\ Since(j, f) \subseteq Since(Journal, f)
           /\ Fresh(Journal, f) => Fresh(j, f)
    BY <2>1, <2>2, StampsConcat, ReplayWithoutOldest, SinceWithoutOldest
  <2>4. Stamped'
    <3>1. \A g \in Files : Stamps(Journal', g) \subseteq Stamps(Journal, g)
      BY <2>3 DEF j
    <3> QED BY <1>1, <3>1, StillStamped DEF IInv
  <2>5. ASSUME NEW f \in Files \ raced' PROVE Kept(f)'
    <3>1. Kept(f) /\ f \in Files
      BY <1>1, <2>5 DEF IInv
    <3>2. Waiting(f)' /\ Alone(f)' /\ ForgottenNotOwed(f)'
      BY <1>1, <3>1 DEF Kept, Waiting, InJobs, Running, Alone, ForgottenNotOwed, Forgetting
    <3>3. Stamps(h, f) \intersect owed[f] = {} /\ Stamps(d, f) \intersect owed[f] = {}
      BY <2>3, <3>1 DEF Kept, DoomedNotOwed
    <3>4. DoomedNotOwed(f)'
      BY <1>1, <3>3 DEF DoomedNotOwed, d
    <3>5. owed[f] \subseteq Vals(ReplayAll(j), f)
      BY <2>3, <3>1, <3>3 DEF Kept, Restored
    <3>6. Restored(f)'
      BY <1>1, <3>5 DEF Restored, j
    <3> QED BY <3>2, <3>4, <3>6 DEF Kept
  <2>6. ASSUME NEW f \in Files \ dirty' PROVE NothingElse(f)'
    <3>1. NothingElse(f) /\ f \in Files
      BY <1>1, <2>6 DEF IInv
    <3>2. Busy(f)' = Busy(f) /\ Forgetting(f)' = Forgetting(f) /\ owed'[f] = owed[f]
      BY <1>1 DEF Busy, Forgetting
    <3>3. ASSUME Since(Journal, f) \subseteq owed[f], Fresh(Journal, f)
          PROVE  Since(j, f) \subseteq owed[f] /\ Fresh(j, f)
      BY <2>3, <3>1, <3>3
    <3> QED BY <3>1, <3>2, <3>3 DEF NothingElse, j
  <2> QED BY <1>1, <2>4, <2>5, <2>6 DEF IInv
<1> QED BY <1>2, <1>3, RotateUnlinkType DEF IInv

-----------------------------------------------------------------------------
(* The rest of the invariant: the end of the process and the next start.   *)

\* Without threads, all that is left to show of a file is about the journal.
LEMMA NobodyThere ==
    ASSUME \A t \in QueueThreads : job'[t] = NoJob,
           \A c \in Clients : forgets'[c] = "none",
           NEW f \in Files
    PROVE  Alone(f)' /\ ForgottenNotOwed(f)' /\ \A x : ~InJobs(x, f)'
<1>1. f # "none" /\ \A t \in QueueThreads : job'[t].file = "none"
  BY FilesAssumption DEF NoJob
<1> QED BY <1>1 DEF Alone, ForgottenNotOwed, Forgetting, InJobs

LEMMA CrashKeeps == ASSUME IInv, Crash PROVE IInv'
<1>1. TypeInv /\ TypeInv' /\ MemoryOK /\ ~Running'
  BY CrashType, TypeParts DEF IInv
<1>2. PICK q \in Seq(Entries) :
         /\ Journal' \in Seq(Entries) /\ Journal = Journal' \o q
         /\ \A f \in Files : owed'[f] = owed[f] \ Stamps(q, f)
         /\ \A f \in Files \ dirty' :
               /\ f \notin dirty /\ ~Busy(f) /\ ~Forgetting(f)
               /\ \A j \in 1..Len(q) : ~Resets(q[j], f)
  BY CrashType DEF IInv
<1>3. /\ cache' = EmptyCache /\ job' = [t \in QueueThreads |-> NoJob]
      /\ forgets' = [c \in Clients |-> "none"] /\ UNCHANGED <<clock, raced, doomed>>
  BY DEF Crash, Down
<1> DEFINE p == Journal'
<1>4. p \in Seq(Entries) /\ Journal = p \o q
  BY <1>2
<1> HIDE DEF p
<1>5. \A f \in Files :
         /\ Stamps(Journal, f) = Stamps(p, f) \union Stamps(q, f)
         /\ Vals(ReplayAll(Journal), f) \subseteq Vals(ReplayAll(p), f) \union Stamps(q, f)
         /\ Fresh(Journal, f) /\ (\A j \in 1..Len(q) : ~Resets(q[j], f)) =>
               /\ Fresh(p, f) /\ Since(p, f) \subseteq Since(Journal, f)
               /\ Since(p, f) \intersect Stamps(q, f) = {}
  BY <1>4, StampsConcat, ReplayTruncated, SinceTruncated
<1>6. Stamped'
  <2>1. \A g \in Files : Stamps(Journal', g) \subseteq Stamps(Journal, g)
                           /\ cache'[g].last \in {0, cache[g].last}
    BY <1>3, <1>5 DEF p, EmptyCache, NoItem
  <2> QED BY <1>1, <1>3, <2>1, StillStamped DEF IInv
<1>7. ASSUME NEW f \in Files \ raced' PROVE Kept(f)'
  <2>1. Kept(f) /\ f \in Files /\ owed'[f] = owed[f] \ Stamps(q, f)
    BY <1>2, <1>3, <1>7 DEF IInv
  <2>2. Alone(f)' /\ ForgottenNotOwed(f)'
    BY <1>3, <2>1, NobodyThere
  <2>3. Waiting(f)'
    BY <1>1 DEF Waiting
  <2>4. DoomedNotOwed(f)'
    BY <1>3, <2>1 DEF Kept, DoomedNotOwed
  <2>5. owed'[f] \subseteq Vals(ReplayAll(p), f)
    BY <1>5, <2>1 DEF Kept, Restored
  <2>6. Restored(f)'
    BY <2>5 DEF Restored, p
  <2> QED BY <2>2, <2>3, <2>4, <2>6 DEF Kept
<1>8. ASSUME NEW f \in Files \ dirty' PROVE NothingElse(f)'
  <2>1. /\ f \notin dirty /\ ~Busy(f) /\ ~Forgetting(f)
        /\ \A j \in 1..Len(q) : ~Resets(q[j], f)
        /\ owed'[f] = owed[f] \ Stamps(q, f)
    BY <1>2, <1>8
  <2>2. Since(Journal, f) \subseteq owed[f] /\ Fresh(Journal, f)
    BY <2>1, <1>8 DEF IInv, NothingElse
  <2>3. Since(p, f) \subseteq owed'[f] /\ Fresh(p, f)
    BY <1>5, <1>8, <2>1, <2>2
  <2> QED BY <2>3 DEF NothingElse, p
<1> QED BY <1>1, <1>6, <1>7, <1>8 DEF IInv

LEMMA StopKeeps == ASSUME IInv, Stop PROVE IInv'
<1>1. /\ TypeInv /\ TypeInv' /\ MemoryOK /\ Running /\ ~Running'
      /\ Journal' = Journal \/ (Journal' = <<>> /\ \A f \in Files : cache[f].vals = <<>>)
  BY StopType, TypeParts DEF IInv
<1>2. /\ \A t \in QueueThreads : job[t] = NoJob /\ job'[t] = NoJob
      /\ \A c \in Clients : forgets[c] = "none" /\ forgets'[c] = "none"
      /\ cache' = EmptyCache /\ UNCHANGED <<clock, owed, raced, dirty>>
      /\ doomed' = doomed \/ doomed' = <<>>
  BY DEF Stop, Down, histVars
<1>3. Stamped'
  <2>1. \A g \in Files : Stamps(Journal', g) \subseteq Stamps(Journal, g)
                           /\ cache'[g].last \in {0, cache[g].last}
    BY <1>1, <1>2, StampsEmpty DEF EmptyCache, NoItem
  <2> QED BY <1>1, <1>2, <2>1, StillStamped DEF IInv
<1>4. ASSUME NEW f \in Files \ raced' PROVE Kept(f)'
  <2>1. Kept(f) /\ f \in Files
    BY <1>2, <1>4 DEF IInv
  <2>2. Alone(f)' /\ ForgottenNotOwed(f)'
    BY <1>2, <2>1, NobodyThere
  <2>3. Waiting(f)'
    BY <1>1 DEF Waiting
  <2>4. DoomedNotOwed(f)'
    <3>1. Stamps(FlattenSeq(doomed'), f) \in {Stamps(FlattenSeq(doomed), f), {}}
      BY <1>2, FlattenEmpty, StampsEmpty
    <3> QED BY <1>2, <2>1, <3>1 DEF Kept, DoomedNotOwed
  <2>5. Restored(f)'
    <3>1. CASE Journal' = Journal
      BY <1>2, <2>1, <3>1 DEF Kept, Restored
    <3>2. CASE \A g \in Files : cache[g].vals = <<>>
      <4>1. \A x \in owed[f] : x \in Vals(cache, f) \/ InJobs(x, f)
        BY <1>1, <2>1 DEF Kept, Waiting
      <4>2. Vals(cache, f) = {}
        BY <2>1, <3>2, NoItemType DEF Vals
      <4>3. \A x : ~InJobs(x, f)
        BY <1>2, FilesAssumption, <2>1 DEF InJobs, NoJob
      <4>4. owed'[f] = {}
        BY <1>2, <4>1, <4>2, <4>3
      <4> QED BY <4>4 DEF Restored
    <3> QED BY <1>1, <3>1, <3>2
  <2> QED BY <2>2, <2>3, <2>4, <2>5 DEF Kept
<1>5. ASSUME NEW f \in Files \ dirty' PROVE NothingElse(f)'
  <2>1. NothingElse(f) /\ f \in Files
    BY <1>2, <1>5 DEF IInv
  <2>2. ~Busy(f) /\ ~Forgetting(f)
    BY <1>2, <2>1, FilesAssumption DEF Busy, Forgetting, NoJob
  <2>3. Since(Journal, f) \subseteq owed[f] /\ Fresh(Journal, f)
    BY <2>1, <2>2 DEF NothingElse
  <2>4. CASE Journal' = Journal
    BY <1>2, <2>3, <2>4 DEF NothingElse
  <2>5. CASE Journal' = <<>>
    <3>1. Since(Journal', f) = {} /\ Fresh(Journal', f)
      BY <2>5, EmptyFacts
    <3> QED BY <3>1 DEF NothingElse
  <2> QED BY <1>1, <2>4, <2>5
<1> QED BY <1>1, <1>3, <1>4, <1>5 DEF IInv

\* The cache is filled with what the journal has, and that is all that is owed.
LEMMA StartKeeps == ASSUME IInv, Start PROVE IInv'
<1>1. /\ TypeInv /\ TypeInv' /\ MemoryOK /\ ~Running /\ Journal \in Seq(Entries)
      /\ Journal' = Journal /\ cache' = ReplayAll(Journal) /\ doomed' = <<>>
      /\ \A f \in Files :
            owed'[f] = IF f \in raced THEN owed[f] \intersect Vals(ReplayAll(Journal), f)
                                      ELSE owed[f]
  BY StartType, TypeParts, TypeFacts DEF IInv, TypeInv
<1>2. UNCHANGED <<job, forgets, clock, dirty>>
  BY DEF Start
<1>3. /\ \A t \in QueueThreads : job[t] = NoJob /\ job'[t] = NoJob
      /\ \A c \in Clients : forgets[c] = "none" /\ forgets'[c] = "none"
  BY <1>1, <1>2 DEF MemoryOK
<1>4. Stamped'
  <2> SUFFICES ASSUME NEW g \in Files
               PROVE  Stamps(Journal, g) \subseteq 1..clock
                        /\ ReplayAll(Journal)[g].last \in 0..clock
    BY <1>1, <1>2 DEF Stamped
  <2>1. Stamps(Journal, g) \subseteq 1..clock
    BY DEF IInv, Stamped
  <2>2. ReplayAll(Journal)[g].last \in {0} \union Stamps(Journal, g)
    BY <1>1, ReplayLast
  <2>3. clock \in Nat
    BY <1>1, BoundType DEF MemoryOK
  <2>4. 1..clock \subseteq 0..clock /\ 0 \in 0..clock
    BY <2>3
  <2> QED BY <2>1, <2>2, <2>4
<1>5. \A f \in Files : owed'[f] \subseteq Vals(ReplayAll(Journal), f)
  BY <1>1 DEF IInv, Kept, Restored
<1>6. ASSUME NEW f \in Files PROVE Kept(f)'
  <2>1. Alone(f)' /\ ForgottenNotOwed(f)'
    BY <1>3, NobodyThere
  <2>2. Waiting(f)'
    BY <1>1, <1>5 DEF Waiting
  <2>3. DoomedNotOwed(f)'
    BY <1>1, FlattenEmpty, StampsEmpty DEF DoomedNotOwed
  <2>4. Restored(f)'
    BY <1>1, <1>5 DEF Restored
  <2> QED BY <2>1, <2>2, <2>3, <2>4 DEF Kept
<1>7. ASSUME NEW f \in Files \ dirty' PROVE NothingElse(f)'
  <2>1. NothingElse(f) /\ f \in Files
    BY <1>2, <1>7 DEF IInv
  <2>2. ~Busy(f) /\ ~Forgetting(f)
    BY <1>3, <2>1, FilesAssumption DEF Busy, Forgetting, NoJob
  <2>3. Since(Journal, f) \subseteq owed[f] /\ Fresh(Journal, f)
    BY <2>1, <2>2 DEF NothingElse
  <2>4. Since(Journal, f) \subseteq Vals(ReplayAll(Journal), f)
    BY <1>1, <2>1, <2>3, SinceInReplay
  <2>5. Since(Journal, f) \subseteq owed'[f]
    BY <1>1, <2>1, <2>3, <2>4
  <2> QED BY <1>1, <2>3, <2>5 DEF NothingElse
<1> QED BY <1>1, <1>4, <1>6, <1>7 DEF IInv

LEMMA StutterKeeps == ASSUME IInv, UNCHANGED vars PROVE IInv'
<1>1. TypeInv' /\ Journal' = Journal
  BY StutterType DEF IInv
<1>2. UNCHANGED <<phase, cache, job, forgets, doomed, clock, owed, raced, dirty>>
  BY DEF vars, journalVars, setVars, histVars
<1> QED BY <1>1, <1>2, QuietKeeps

LEMMA InitInv == Init => IInv
<1> SUFFICES ASSUME Init PROVE IInv
  OBVIOUS
<1>1. TypeInv
  BY TypeInit
<1>2. Journal = <<>>
  <2>1. <<>> \in Seq(Entries) /\ <<>> \in Logs /\ << <<>> >> \in Logs
    BY EmptySeq DEF Logs
  <2>2. Journal = FlattenSeq((<<>> \o <<>>) \o << <<>> >>) \o <<>>
    BY DEF Init, Journal, AllFiles
  <2>3. (<<>> \o <<>>) \o << <<>> >> = << <<>> >>
    BY <2>1, ConcatEmptySeq DEF Logs
  <2>4. FlattenSeq(<< <<>> >>) = <<>>
    BY <2>1, FlattenOne
  <2> QED BY <2>1, <2>2, <2>3, <2>4, ConcatEmptySeq
<1>3. Stamped
  BY <1>2, StampsEmpty DEF Init, Stamped, EmptyCache, NoItem
<1>4. ASSUME NEW f \in Files PROVE Kept(f)
  <2>1. owed[f] = {}
    BY DEF Init
  <2>2. Alone(f)
    BY FilesAssumption DEF Init, Alone, NoJob
  <2> QED BY <2>1, <2>2 DEF Kept, Waiting, ForgottenNotOwed, DoomedNotOwed, Restored
<1>5. ASSUME NEW f \in Files PROVE NothingElse(f)
  BY <1>2, EmptyFacts DEF NothingElse
<1> QED BY <1>1, <1>3, <1>4, <1>5 DEF IInv

LEMMA InvStep == IInv /\ [Next]_vars => IInv'
<1> SUFFICES ASSUME IInv, [Next]_vars PROVE IInv'
  OBVIOUS
<1>1. CASE \E f \in Files : Update(f) \/ UpdateRefused(f)
  BY <1>1, UpdateKeeps, UpdateRefusedKeeps
<1>2. CASE \E f \in Files, c \in Clients : Forget(c, f)
  BY <1>2, ForgetKeeps
<1>3. CASE \E c \in Clients : ForgetLogged(c)
  BY <1>3, ForgetLoggedKeeps
<1>4. CASE \E f \in Files, t \in QueueThreads : Dequeue(t, f)
  BY <1>4, DequeueKeeps
<1>5. CASE \E t \in QueueThreads : Write(t) \/ WriteFails(t) \/ Wrote(t)
  BY <1>5, WriteKeeps, WriteFailsKeeps, WroteKeeps
<1>6. CASE FlushOld \/ RotateClose \/ RotateOpen \/ RotateUnlink \/ RollOpen
  BY <1>6, FlushOldKeeps, RotateCloseKeeps, RotateOpenKeeps, RotateUnlinkKeeps, RollOpenKeeps
<1>7. CASE Crash \/ Stop \/ Start
  BY <1>7, CrashKeeps, StopKeeps, StartKeeps
<1>8. CASE UNCHANGED vars
  BY <1>8, StutterKeeps
<1> QED BY <1>1, <1>2, <1>3, <1>4, <1>5, <1>6, <1>7, <1>8 DEF Next

LEMMA InvAlways == Spec => []IInv
  BY InitInv, InvStep, PTL DEF Spec

-----------------------------------------------------------------------------
(* What the journal of rrdcached promises.                                 *)

\* At every moment a replay of the journal (journal_replay over the files that
\* journal_init finds, with the stdio buffer written out) restores every value
\* that is in the cache or in the hands of a queue thread, except for files
\* that one of the races has hit since the daemon was started.
THEOREM OwedValuesAreRestored == Spec => []OwedIsRestorable
<1>1. IInv => OwedIsRestorable
  <2> SUFFICES ASSUME IInv, NEW f \in Files \ raced
               PROVE  owed[f] \subseteq ValuesOf(Restorable[f].vals)
    BY DEF OwedIsRestorable
  <2>1. Restored(f)
    BY DEF IInv, Kept
  <2>2. Restorable = ReplayAll(Journal)
    BY RestorableIsJournal DEF IInv, TypeInv
  <2> QED BY <2>1, <2>2 DEF Restored, Vals
<1> QED BY <1>1, InvAlways, PTL

\* A replay restores nothing but values that are owed: none that queue_thread_main
\* has written, and none of a file that was forgotten, once the wrote or forget
\* entry of the file has been logged and unless that entry was lost.
THEOREM NothingRestoredTwice == Spec => []NothingComesBack
<1>1. IInv => NothingComesBack
  <2> SUFFICES ASSUME IInv, NEW f \in Files \ dirty, ~Busy(f), ~Forgetting(f)
               PROVE  ValuesOf(Restorable[f].vals) \subseteq owed[f]
    BY DEF NothingComesBack
  <2>1. Since(Journal, f) \subseteq owed[f]
    BY DEF IInv, NothingElse
  <2>2. Restorable = ReplayAll(Journal) /\ Journal \in Seq(Entries)
    BY RestorableIsJournal, TypeFacts DEF IInv, TypeInv
  <2>3. Vals(ReplayAll(Journal), f) \subseteq Since(Journal, f)
    BY <2>2, ReplayInSince
  <2> QED BY <2>1, <2>2, <2>3 DEF Vals
<1> QED BY <1>1, InvAlways, PTL

=============================================================================
