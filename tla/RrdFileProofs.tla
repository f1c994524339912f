----------------------------- MODULE RrdFileProofs -----------------------------
(***************************************************************************)
(* Proofs about the files and their updates, for any step, heartbeat,      *)
(* limits, archives, readings and times: the types with the ranges of all  *)
(* counters, where a counter's rate comes from, that rrd_fetch_fn reads    *)
(* the row of the time, that the preparation areas count exactly what is   *)
(* unknown of the open step and of the open periods, and that every row of *)
(* every archive is the consolidation of its period; and that reduce_data  *)
(* makes the right rows of what was read.                                  *)
(***************************************************************************)
EXTENDS RrdFile, RrdReduce, SequenceTheorems, FiniteSetTheorems, WellFoundedInduction, TLAPS

-----------------------------------------------------------------------------
(* Arithmetic.                                                             *)

LEMMA Product ==
    ASSUME NEW m \in Int, NEW n \in Int
    PROVE  /\ m * n \in Int
           /\ m >= 0 /\ n >= 0 => m * n >= 0
           /\ m > 0 /\ n > 0 => m * n > 0
  OBVIOUS

LEMMA Monotone ==
    ASSUME NEW s \in Nat, NEW m \in Int, NEW n \in Int, m <= n
    PROVE  m * s <= n * s
  OBVIOUS

LEMMA DivMod ==
    ASSUME NEW n \in Int, NEW s \in Nat \ {0}
    PROVE  /\ n \div s \in Int /\ n % s \in 0 .. s - 1
           /\ n = (n \div s) * s + (n % s)
<1>1. n = s * (n \div s) + (n % s)
  BY Z3
<1>2. n \div s \in Int /\ n % s \in 0 .. s - 1
  OBVIOUS
<1>3. s * (n \div s) = (n \div s) * s
  BY <1>2
<1> QED BY <1>1, <1>2, <1>3

LEMMA DivUnique ==
    ASSUME NEW s \in Nat \ {0}, NEW q \in Int, NEW r \in 0 .. s - 1
    PROVE  (q * s + r) \div s = q /\ (q * s + r) % s = r
<1> DEFINE n == q * s + r
           d == n \div s
           m == n % s
<1>1. n \in Int /\ d \in Int /\ m \in 0 .. s - 1 /\ n = d * s + m
  BY DivMod
<1>2. n = q * s + r
  OBVIOUS
<1> HIDE DEF n, d, m
<1>3. (q - d) * s = m - r
  BY <1>1, <1>2
<1>4. ~ (q - d >= 1)
  <2> SUFFICES ASSUME q - d >= 1 PROVE FALSE
    OBVIOUS
  <2>1. 1 * s <= (q - d) * s
    BY <1>1, Monotone
  <2> QED BY <1>1, <1>3, <2>1
<1>5. ~ (q - d <= -1)
  <2> SUFFICES ASSUME q - d <= -1 PROVE FALSE
    OBVIOUS
  <2>1. (q - d) * s <= (-1) * s
    BY <1>1, Monotone
  <2> QED BY <1>1, <1>3, <2>1
<1>6. q = d
  BY <1>1, <1>4, <1>5
<1>7. m = r
  BY <1>1, <1>3, <1>6
<1> QED BY <1>6, <1>7 DEF d, m, n

LEMMA ModPlus ==
    ASSUME NEW s \in Nat \ {0}, NEW x \in Int, NEW y \in Int
    PROVE  ((x % s) + y) % s = (x + y) % s
<1> DEFINE d == x \div s
           m == x % s
           e == (m + y) \div s
           r == (m + y) % s
<1>1. d \in Int /\ m \in 0 .. s - 1 /\ x = d * s + m
  BY DivMod
<1>2. e \in Int /\ r \in 0 .. s - 1 /\ m + y = e * s + r
  <2> HIDE DEF m
  <2> QED BY <1>1, DivMod
<1> HIDE DEF d, m, e, r
<1>3. x + y = (d + e) * s + r
  BY <1>1, <1>2
<1>4. (x + y) % s = r
  <2>1. d + e \in Int
    BY <1>1, <1>2
  <2>2. ((d + e) * s + r) % s = r
    BY <1>2, <2>1, DivUnique
  <2> QED BY <1>3, <2>2
<1> QED BY <1>4, Zenon DEF r, m

\* The number of whole periods of m steps of s in n.
LEMMA DivDiv ==
    ASSUME NEW n \in Nat, NEW s \in Nat \ {0}, NEW m \in Nat \ {0}
    PROVE  /\ m * s \in Nat \ {0}
           /\ n \div s \in Nat
           /\ ((n \div s) - ((n \div s) % m)) * s = n - (n % (m * s))
<1> DEFINE k == n \div s
           r == n % s
           d == k \div m
           e == k % m
<1>1. k \in Int /\ r \in 0 .. s - 1 /\ n = k * s + r
  BY DivMod
<1>2. d \in Int /\ e \in 0 .. m - 1 /\ k = d * m + e
  <2> HIDE DEF k
  <2> QED BY <1>1, DivMod
<1> HIDE DEF k, r, d, e
<1>3. m * s \in Nat \ {0}
  BY Product
<1>4. n = d * (m * s) + (e * s + r)
  BY <1>1, <1>2
<1>5. e * s + r \in 0 .. m * s - 1
  <2>1. e * s <= (m - 1) * s /\ 0 * s <= e * s
    BY <1>2, Monotone
  <2>2. (m - 1) * s = m * s - s /\ 0 * s = 0 /\ e * s \in Int
    BY <1>2
  <2> QED BY <1>1, <1>3, <2>1, <2>2
<1>6. n % (m * s) = e * s + r
  BY <1>2, <1>3, <1>4, <1>5, DivUnique
<1>7. (k - e) * s = n - (e * s + r)
  BY <1>1, <1>2
<1>8. k \in Nat
  <2> SUFFICES ASSUME k <= -1 PROVE FALSE
    BY <1>1
  <2>1. k * s <= (-1) * s
    BY <1>1, Monotone
  <2> QED BY <1>1, <2>1
<1> QED BY <1>3, <1>6, <1>7, <1>8 DEF k, e

-----------------------------------------------------------------------------
(* The greatest common divisor: its recursion has a solution.              *)

LEMMA LeastNumber ==
    ASSUME NEW N, N \subseteq Nat, N # {}
    PROVE  \E n \in N : \A m \in N : n <= m
<1>1. PICK n \in N : \A m \in N : ~(<<m, n>> \in OpToRel(<, Nat))
  BY WFMin, NatLessThanWellFounded
<1>2. \A m \in N : ~(m < n) /\ m \in Nat
  BY <1>1 DEF OpToRel
<1> QED BY <1>2

\* The recursion of Gcd, as far as n.
Upto(g, n) ==
    /\ g = [b \in 0 .. n |-> g[b]]
    /\ \A b \in 0 .. n : g[b] = [a \in Nat |-> IF b = 0 THEN a ELSE g[a % b][b]]

LEMMA Remainder ==
    ASSUME NEW a \in Nat, NEW b \in Nat \ {0}
    PROVE  a % b \in 0 .. b - 1 /\ a % b \in Nat
  OBVIOUS

LEMMA UptoExists == \A n \in Nat : \E g : Upto(g, n)
<1> DEFINE N == {n \in Nat : ~ \E g : Upto(g, n)}
<1> SUFFICES ASSUME N # {} PROVE FALSE
  OBVIOUS
<1>1. PICK n \in N : \A m \in N : n <= m
  <2>1. N \subseteq Nat
    OBVIOUS
  <2> HIDE DEF N
  <2> QED BY <2>1, LeastNumber
<1>2. n \in Nat /\ ~ \E g : Upto(g, n)
  OBVIOUS
<1>3. CASE n = 0
  <2> DEFINE g == [b \in 0 .. 0 |-> [a \in Nat |-> a]]
  <2>1. Upto(g, 0)
    BY DEF Upto
  <2> QED BY <1>2, <1>3, <2>1
<1>4. CASE n # 0
  <2>1. n - 1 \in Nat /\ n - 1 \notin N
    BY <1>1, <1>2, <1>4
  <2>2. PICK h : Upto(h, n - 1)
    BY <2>1
  <2> DEFINE top == [a \in Nat |-> h[a % n][n]]
             g == [b \in 0 .. n |-> IF b = n THEN top ELSE h[b]]
  <2>3. g = [b \in 0 .. n |-> g[b]] /\ g[n] = top /\ \A b \in 0 .. n - 1 : g[b] = h[b]
    BY <1>2
  <2>4. ASSUME NEW b \in 0 .. n
        PROVE  g[b] = [a \in Nat |-> IF b = 0 THEN a ELSE g[a % b][b]]
    <3>1. CASE b = n
      <4>1. \A a \in Nat : a % n \in 0 .. n - 1 /\ g[a % n] = h[a % n]
        <5>1. \A a \in Nat : a % n \in 0 .. n - 1
          BY <1>2, <1>4, Remainder
        <5> HIDE DEF g
        <5> QED BY <2>3, <5>1
      <4>2. g[n] = [a \in Nat |-> h[a % n][n]]
        BY <2>3
      <4> HIDE DEF g
      <4> QED BY <1>4, <3>1, <4>1, <4>2
    <3>2. CASE b # n
      <4>1. b \in 0 .. n - 1 /\ g[b] = h[b]
        BY <1>2, <3>2
      <4>2. h[b] = [a \in Nat |-> IF b = 0 THEN a ELSE h[a % b][b]]
        BY <2>2, <4>1 DEF Upto
      <4>3. ASSUME NEW a \in Nat, b # 0 PROVE g[a % b] = h[a % b]
        <5>1. a % b \in 0 .. b - 1
          <6>1. b \in Nat \ {0}
            BY <1>2, <4>1, <4>3
          <6> QED BY <6>1, Remainder
        <5>2. a % b \in 0 .. n - 1
          BY <1>2, <4>1, <5>1
        <5> HIDE DEF g
        <5> QED BY <2>3, <5>2
      <4> HIDE DEF g
      <4> QED BY <4>1, <4>2, <4>3
    <3> QED BY <3>1, <3>2
  <2> HIDE DEF g
  <2>5. Upto(g, n)
    BY <2>3, <2>4 DEF Upto
  <2> QED BY <1>2, <2>5
<1> QED BY <1>3, <1>4

LEMMA UptoUnique ==
    ASSUME NEW m \in Nat, NEW n \in Nat, NEW g, NEW h, Upto(g, m), Upto(h, n),
           NEW b \in Nat, b <= m, b <= n
    PROVE  g[b] = h[b]
<1> DEFINE N == {k \in Nat : k <= m /\ k <= n /\ g[k] # h[k]}
<1> SUFFICES ASSUME N # {} PROVE FALSE
  OBVIOUS
<1>1. PICK k \in N : \A l \in N : k <= l
  <2>1. N \subseteq Nat
    OBVIOUS
  <2> HIDE DEF N
  <2> QED BY <2>1, LeastNumber
<1>2. k \in 0 .. m /\ k \in 0 .. n /\ g[k] # h[k]
  OBVIOUS
<1>3. /\ g[k] = [a \in Nat |-> IF k = 0 THEN a ELSE g[a % k][k]]
      /\ h[k] = [a \in Nat |-> IF k = 0 THEN a ELSE h[a % k][k]]
  BY <1>2 DEF Upto
<1>4. ASSUME NEW a \in Nat, k # 0 PROVE g[a % k] = h[a % k]
  <2>1. a % k \in 0 .. k - 1 /\ a % k \in Nat
    BY <1>2, <1>4, Remainder
  <2>2. a % k \notin N
    BY <1>1, <2>1
  <2> QED BY <1>2, <2>1, <2>2
<1> QED BY <1>2, <1>3, <1>4

LEMMA GcdRecursion ==
    Gcd = [b \in Nat |-> [a \in Nat |-> IF b = 0 THEN a ELSE Gcd[a % b][b]]]
<1> DEFINE G(n) == CHOOSE g : Upto(g, n)
           f == [b \in Nat |-> G(b)[b]]
<1>1. \A n \in Nat : Upto(G(n), n)
  BY UptoExists
<1>2. ASSUME NEW b \in Nat
      PROVE  f[b] = [a \in Nat |-> IF b = 0 THEN a ELSE f[a % b][b]]
  <2>1. G(b)[b] = [a \in Nat |-> IF b = 0 THEN a ELSE G(b)[a % b][b]]
    <3>1. Upto(G(b), b) /\ b \in 0 .. b
      BY <1>1
    <3> HIDE DEF G
    <3> QED BY <3>1 DEF Upto
  <2>2. ASSUME NEW a \in Nat, b # 0 PROVE G(b)[a % b] = f[a % b]
    <3>1. a % b \in 0 .. b - 1 /\ a % b \in Nat
      BY <2>2, Remainder
    <3>2. Upto(G(b), b) /\ Upto(G(a % b), a % b)
      BY <1>1, <3>1
    <3> HIDE DEF G
    <3>3. G(b)[a % b] = G(a % b)[a % b]
      BY <3>1, <3>2, UptoUnique
    <3> QED BY <3>1, <3>3
  <2> HIDE DEF G
  <2> QED BY <2>1, <2>2
<1>3. f = [b \in Nat |-> f[b]]
  OBVIOUS
<1> HIDE DEF f
<1>4. f = [b \in Nat |-> [a \in Nat |-> IF b = 0 THEN a ELSE f[a % b][b]]]
  BY <1>2, <1>3
<1> QED BY <1>4 DEF Gcd

LEMMA GcdType ==
    ASSUME NEW n \in Nat, NEW m \in Nat
    PROVE  Gcd[n][m] \in Nat /\ (m # 0 \/ n # 0 => Gcd[n][m] # 0)
<1> DEFINE N == {k \in Nat : \E x \in Nat : ~ (Gcd[k][x] \in Nat /\ (x # 0 \/ k # 0 => Gcd[k][x] # 0))}
<1> SUFFICES ASSUME N # {} PROVE FALSE
  OBVIOUS
<1>1. PICK k \in N : \A l \in N : k <= l
  <2>1. N \subseteq Nat
    OBVIOUS
  <2> HIDE DEF N
  <2> QED BY <2>1, LeastNumber
<1>2. PICK x \in Nat : ~ (Gcd[k][x] \in Nat /\ (x # 0 \/ k # 0 => Gcd[k][x] # 0))
  OBVIOUS
<1>3. k \in Nat /\ Gcd[k][x] = IF k = 0 THEN x ELSE Gcd[x % k][k]
  <2>1. k \in Nat
    OBVIOUS
  <2>2. Gcd[k] = [a \in Nat |-> IF k = 0 THEN a ELSE Gcd[a % k][k]]
    BY <2>1, GcdRecursion
  <2> QED BY <2>1, <2>2
<1>4. CASE k = 0
  BY <1>2, <1>3, <1>4
<1>5. CASE k # 0
  <2>1. x % k \in 0 .. k - 1 /\ x % k \in Nat
    BY <1>3, <1>5, Remainder
  <2>2. x % k \notin N
    BY <1>1, <1>3, <2>1
  <2>3. Gcd[x % k][k] \in Nat /\ Gcd[x % k][k] # 0
    BY <1>3, <1>5, <2>1, <2>2
  <2> QED BY <1>2, <1>3, <1>5, <2>3
<1> QED BY <1>4, <1>5

-----------------------------------------------------------------------------
(* Values.                                                                 *)

Values == Int \X Nat

LEMMA DivNat ==
    ASSUME NEW n \in Nat, NEW s \in Nat \ {0}
    PROVE  n \div s \in Nat
<1>1. n \div s \in Int /\ n % s \in 0 .. s - 1 /\ n = (n \div s) * s + (n % s)
  BY DivMod
<1> DEFINE q == n \div s
           r == n % s
<1> HIDE DEF q, r
<1> SUFFICES ASSUME q <= -1 PROVE FALSE
  BY <1>1 DEF q
<1>2. q \in Int /\ r \in 0 .. s - 1 /\ n = q * s + r
  BY <1>1 DEF q, r
<1>3. q * s <= (-1) * s
  BY <1>2, Monotone
<1> QED BY <1>2, <1>3

LEMMA RatioValue ==
    ASSUME NEW n \in Int, NEW d \in Int
    PROVE  Ratio(n, d) \in Values
<1> DEFINE abs == IF n < 0 THEN -n ELSE n
           div == IF d < 0 THEN -d ELSE d
           g == IF abs = 0 /\ d = 0 THEN 1 ELSE Gcd[div][abs]
<1>1. abs \in Nat /\ div \in Nat /\ (abs = 0 <=> n = 0) /\ (div = 0 <=> d = 0)
  OBVIOUS
<1>2. g \in Nat \ {0}
  <2> HIDE DEF abs, div
  <2> QED BY <1>1, GcdType
<1>3. Ratio(n, d) = IF d < 0 THEN <<(-n) \div g, (-d) \div g>> ELSE <<n \div g, d \div g>>
  BY DEF Ratio
<1> HIDE DEF g
<1>4. CASE d < 0
  <2>1. (-n) \div g \in Int /\ (-d) \div g \in Nat
    BY <1>2, <1>4, DivMod, DivNat
  <2> QED BY <1>3, <1>4, <2>1 DEF Values
<1>5. CASE ~ (d < 0)
  <2>1. n \div g \in Int /\ d \div g \in Nat
    BY <1>2, <1>5, DivMod, DivNat
  <2> QED BY <1>3, <1>5, <2>1 DEF Values
<1> QED BY <1>4, <1>5

LEMMA ValueOperators ==
    /\ DNAN \in Values /\ DINF \in Values /\ NegDINF \in Values
    /\ \A n \in Int : Int2Value(n) \in Values
    /\ \A x, y \in Values : Plus(x, y) \in Values /\ Larger(x, y) \in Values
                            /\ Smaller(x, y) \in Values /\ IFDNAN(x, y) \in Values
    /\ \A x \in Values, n \in Int : Scaled(x, n) \in Values /\ Over(x, n) \in Values
<1>1. DNAN \in Values /\ DINF \in Values /\ NegDINF \in Values
  BY DEF DNAN, DINF, NegDINF, Values
<1>2. \A n \in Int : Int2Value(n) \in Values
  BY DEF Int2Value, Values
<1>3. \A x \in Values : x[1] \in Int /\ x[2] \in Int
  BY DEF Values
<1>4. ASSUME NEW x \in Values, NEW y \in Values
      PROVE  /\ Plus(x, y) \in Values /\ Larger(x, y) \in Values
             /\ Smaller(x, y) \in Values /\ IFDNAN(x, y) \in Values
  <2>1. x[1] * y[2] + y[1] * x[2] \in Int /\ x[2] * y[2] \in Int
    BY <1>3
  <2>2. Ratio(x[1] * y[2] + y[1] * x[2], x[2] * y[2]) \in Values
    BY <2>1, RatioValue
  <2> QED BY <2>2 DEF Plus, Larger, Smaller, IFDNAN
<1>5. ASSUME NEW x \in Values, NEW n \in Int
      PROVE  Scaled(x, n) \in Values /\ Over(x, n) \in Values
  <2>1. x[1] \in Int /\ x[2] \in Int /\ x[1] * n \in Int /\ x[2] * n \in Int
    BY <1>3
  <2> QED BY <1>1, <2>1, RatioValue DEF Scaled, Over
<1> QED BY <1>1, <1>2, <1>4, <1>5

LEMMA ValueOf ==
    ASSUME NEW x \in Values
    PROVE  Value(x)
  BY DEF Value, Values

\* Infinities are an exception to what is added and compared.
LEMMA PlusIs ==
    ASSUME NEW x, NEW y, x[2] # 0 \/ y[2] # 0
    PROVE  Plus(x, y) = Ratio(x[1] * y[2] + y[1] * x[2], x[2] * y[2])
  BY DEF Plus

LEMMA LessMeans ==
    ASSUME NEW x, NEW y, x[2] # 0 \/ y[2] # 0
    PROVE  Less(x, y) = (x[1] * y[2] < y[1] * x[2])
  BY DEF Less, NegDINF, DINF

-----------------------------------------------------------------------------
(* Types.                                                                  *)

KnownReadings == (UNION {Readings[d] : d \in DsTypes}) \union {U}
PrepType == [val : Values, unkn : Nat]
CdpType == [val : Values, unkn : Nat, primary : Values, secondary : Values]
SampleType == [from : Nat, to : Nat, type : DsTypes, reading : KnownReadings, rate : Values]
RowsType(n) == [0 .. n - 1 -> Values]

\* The data source.
DsOK ==
    /\ dst \in DsTypes /\ last_up \in Nat /\ last_ds \in KnownReadings
    /\ refused \in 0 .. MaxRefused
    /\ samples \in Seq(SampleType) /\ Len(samples) <= MaxUpdates
    /\ pdp_prep \in PrepType /\ pdp_prep.unkn <= PostInt(last_up)
\* The archives.
ArchivesOK ==
    /\ row_cnt \in [Archives -> Nat \ {0}] /\ cur_row \in [Archives -> Nat]
    /\ since \in [Archives -> Int] /\ cdp_prep \in [Archives -> CdpType]
    /\ rows = [a \in Archives |-> rows[a]]
    /\ \A a \in Archives :
          /\ cur_row[a] <= row_cnt[a] - 1 /\ rows[a] \in RowsType(row_cnt[a])
          /\ cdp_prep[a].unkn <= Now % PdpCnt(a) /\ since[a] <= Now
Types == DsOK /\ ArchivesOK

LEMMA Constants ==
    /\ Step \in Nat \ {0} /\ U \in Int /\ KnownReadings \subseteq Int /\ U \in KnownReadings
    /\ \A a \in Archives : PdpCnt(a) \in Nat \ {0} /\ rra_def[a].row_cnt \in Nat \ {0}
                           /\ rra_def[a].cf \in {"AVERAGE", "MIN", "MAX", "LAST"}
    /\ \A d \in DsTypes : Readings[d] \subseteq KnownReadings
                          /\ d \in {"GAUGE", "COUNTER", "DERIVE", "ABSOLUTE"}
    /\ MaxRefused \in Nat /\ MaxUpdates \in Nat
<1>1. Step \in Nat \ {0} /\ U \in Int /\ MaxRefused \in Nat /\ MaxUpdates \in Nat
  BY StepAssumption, BoundAssumption DEF U
<1>2. KnownReadings \subseteq Int /\ U \in KnownReadings
  <2>1. \A d \in DsTypes : Readings[d] \subseteq Int
    <3>1. \A d \in DsTypes : Readings[d] \subseteq Nat
      BY TypesAssumption, Zenon
    <3>2. Nat \subseteq Int
      OBVIOUS
    <3> QED BY <3>1, <3>2, Zenon
  <2>2. ASSUME NEW x \in UNION {Readings[d] : d \in DsTypes} PROVE x \in Int
    BY <2>1
  <2>3. U \in KnownReadings
    BY DEF KnownReadings
  <2>4. ASSUME NEW x \in KnownReadings PROVE x \in Int
    <3>1. CASE x = U
      BY <1>1, <3>1
    <3>2. CASE x # U
      BY <2>2, <3>2 DEF KnownReadings
    <3> QED BY <3>1, <3>2
  <2> QED BY <2>3, <2>4
<1>3. \A a \in Archives : PdpCnt(a) \in Nat \ {0} /\ rra_def[a].row_cnt \in Nat \ {0}
                          /\ rra_def[a].cf \in {"AVERAGE", "MIN", "MAX", "LAST"}
  BY ArchivesAssumption DEF PdpCnt
<1>4. ASSUME NEW d \in DsTypes
      PROVE  Readings[d] \subseteq KnownReadings
             /\ d \in {"GAUGE", "COUNTER", "DERIVE", "ABSOLUTE"}
  BY TypesAssumption DEF KnownReadings
<1> QED BY <1>1, <1>2, <1>3, <1>4

LEMMA TypesAreOK == Types => TypeOK
<1> SUFFICES ASSUME Types PROVE TypeOK
  OBVIOUS
<1>1. Now \in Nat /\ PostInt(last_up) \in Nat
  BY Constants, DivNat, Remainder DEF Types, DsOK, Now, PostInt
<1>2. /\ dst \in DsTypes /\ last_up \in Nat
      /\ last_ds \in (UNION {Readings[d] : d \in DsTypes}) \union {U}
      /\ refused \in 0 .. MaxRefused /\ Len(samples) <= MaxUpdates
  BY DEF Types, DsOK, KnownReadings
<1>3. Value(pdp_prep.val) /\ pdp_prep.unkn \in 0 .. PostInt(last_up)
  BY <1>1, ValueOf DEF Types, DsOK, PrepType
<1>4. ASSUME NEW a \in Archives
      PROVE  /\ Value(cdp_prep[a].val) /\ cdp_prep[a].unkn \in 0 .. Now % PdpCnt(a)
             /\ Value(cdp_prep[a].primary) /\ Value(cdp_prep[a].secondary)
             /\ RowCnt(a) > 0 /\ since[a] <= Now
             /\ cur_row[a] \in 0 .. RowCnt(a) - 1
             /\ \A r \in 0 .. RowCnt(a) - 1 : Value(rows[a][r])
  <2>1. /\ cdp_prep[a] \in CdpType /\ row_cnt[a] \in Nat \ {0} /\ cur_row[a] \in Nat
        /\ cur_row[a] <= row_cnt[a] - 1 /\ rows[a] \in RowsType(row_cnt[a])
        /\ cdp_prep[a].unkn <= Now % PdpCnt(a) /\ since[a] <= Now
    BY DEF Types, ArchivesOK
  <2>2. Now % PdpCnt(a) \in Nat
    BY <1>1, Constants, Remainder
  <2>3. Value(cdp_prep[a].val) /\ Value(cdp_prep[a].primary) /\ Value(cdp_prep[a].secondary)
        /\ cdp_prep[a].unkn \in Nat
    BY <2>1, ValueOf DEF CdpType
  <2>4. \A r \in 0 .. RowCnt(a) - 1 : Value(rows[a][r])
    BY <2>1, ValueOf DEF RowsType, RowCnt
  <2> QED BY <2>1, <2>2, <2>3, <2>4 DEF RowCnt
<1> QED BY <1>2, <1>3, <1>4 DEF TypeOK

LEMMA InitTypes == Init => Types
<1> SUFFICES ASSUME Init PROVE Types
  OBVIOUS
<1>1. last_up \in Nat /\ last_up % Step \in Nat /\ Now \in Nat /\ last_up \div Step = Now
  BY Constants, BoundAssumption, DivNat, Remainder DEF Init, Now
<1>2. DsOK
  <2>1. <<>> \in Seq(SampleType) /\ Len(<<>>) = 0
    BY EmptySeq
  <2>2. pdp_prep \in PrepType /\ pdp_prep.unkn = PostInt(last_up)
    BY <1>1, ValueOperators DEF Init, PrepType, PostInt
  <2> QED BY <1>1, <2>1, <2>2, Constants DEF Init, DsOK, PostInt
<1>3. ASSUME NEW a \in Archives
      PROVE  /\ row_cnt[a] \in Nat \ {0} /\ cur_row[a] \in 0 .. row_cnt[a] - 1
             /\ since[a] = 0 /\ cdp_prep[a] \in CdpType
             /\ cdp_prep[a].unkn = Now % PdpCnt(a) /\ rows[a] \in RowsType(row_cnt[a])
  <2>1. row_cnt[a] \in Nat \ {0}
    BY Constants DEF Init
  <2>2. PICK r \in Nat : cur_row[a] = r % RowCnt(a)
    BY BoundAssumption DEF Init
  <2>3. cur_row[a] \in 0 .. row_cnt[a] - 1
    BY <2>1, <2>2, Remainder DEF RowCnt
  <2>4. Now % PdpCnt(a) \in Nat
    BY <1>1, Constants, Remainder
  <2>5. cdp_prep[a] = [val |-> DNAN, unkn |-> Now % PdpCnt(a),
                       primary |-> Int2Value(0), secondary |-> Int2Value(0)]
    BY <1>1 DEF Init
  <2>6. cdp_prep[a] \in CdpType /\ cdp_prep[a].unkn = Now % PdpCnt(a)
    BY <2>4, <2>5, ValueOperators DEF CdpType
  <2>7. rows[a] \in RowsType(row_cnt[a])
    BY ValueOperators DEF Init, RowsType, RowCnt
  <2> QED BY <2>1, <2>3, <2>6, <2>7 DEF Init
<1>4. /\ row_cnt = [a \in Archives |-> row_cnt[a]] /\ cur_row = [a \in Archives |-> cur_row[a]]
      /\ since = [a \in Archives |-> since[a]] /\ cdp_prep = [a \in Archives |-> cdp_prep[a]]
      /\ rows = [a \in Archives |-> rows[a]]
  BY DEF Init
<1>5. ArchivesOK
  <2>1. /\ row_cnt \in [Archives -> Nat \ {0}] /\ cur_row \in [Archives -> Nat]
        /\ since \in [Archives -> Int] /\ cdp_prep \in [Archives -> CdpType]
    BY <1>3, <1>4
  <2>2. \A a \in Archives :
           /\ cur_row[a] <= row_cnt[a] - 1 /\ rows[a] \in RowsType(row_cnt[a])
           /\ cdp_prep[a].unkn <= Now % PdpCnt(a) /\ since[a] <= Now
    <3> SUFFICES ASSUME NEW a \in Archives
                 PROVE  /\ cur_row[a] <= row_cnt[a] - 1 /\ rows[a] \in RowsType(row_cnt[a])
                        /\ cdp_prep[a].unkn <= Now % PdpCnt(a) /\ since[a] <= Now
      OBVIOUS
    <3>1. Now % PdpCnt(a) \in Nat
      BY <1>1, Constants, Remainder
    <3> QED BY <1>1, <1>3, <3>1
  <2> QED BY <1>4, <2>1, <2>2 DEF ArchivesOK
<1> QED BY <1>2, <1>5 DEF Types

-----------------------------------------------------------------------------
(* An update.                                                              *)

LEMMA RateType ==
    ASSUME Types, NEW t \in Nat, NEW v \in KnownReadings
    PROVE  NewRate(t, v) \in Values
<1>1. /\ Interval(t) \in Int /\ v \in Int /\ last_ds \in Int
      /\ v * Interval(t) \in Int /\ v - last_ds \in Int
  <2>1. last_up \in Nat /\ last_ds \in Int /\ v \in Int
    BY Constants DEF Types, DsOK
  <2> QED BY <2>1 DEF Interval
<1>2. Unwrapped(v - last_ds) \in Int
  BY <1>1, StepAssumption DEF Unwrapped
<1>3. Amount(t, v) \in Values
  <2>1. dst \in {"GAUGE", "COUNTER", "DERIVE", "ABSOLUTE"}
    BY Constants DEF Types, DsOK
  <2> QED BY <1>1, <1>2, <2>1, ValueOperators DEF Amount
<1>4. Over(Amount(t, v), Interval(t)) \in Values
  BY <1>1, <1>3, ValueOperators
<1> QED BY <1>4, ValueOperators DEF NewRate

LEMMA StepsOf ==
    ASSUME Types, NEW t \in Nat, t > last_up
    PROVE  /\ Now \in Nat /\ Elapsed(t) = (t \div Step) - Now /\ Elapsed(t) \in Int
           /\ PreInt(t) \in Int /\ PostInt(t) \in Nat /\ PostInt(last_up) \in Nat
           /\ Interval(t) \in Nat
           /\ Elapsed(t) = 0 => PostInt(t) = PostInt(last_up) + Interval(t)
<1> DEFINE s == Step
           l == last_up
           q == t \div s
           r == t % s
           p == l \div s
           o == l % s
<1>1. s \in Nat \ {0} /\ l \in Nat
  BY Constants DEF Types, DsOK
<1>2. /\ q \in Nat /\ r \in 0 .. s - 1 /\ t = q * s + r
      /\ p \in Nat /\ o \in 0 .. s - 1 /\ l = p * s + o
  <2>1. q \in Nat /\ r \in 0 .. s - 1 /\ t = q * s + r
    <3> HIDE DEF s
    <3>1. t \in Int
      OBVIOUS
    <3>2. q \in Nat
      BY <1>1, DivNat
    <3> QED BY <1>1, <3>1, <3>2, DivMod
  <2>2. p \in Nat /\ o \in 0 .. s - 1 /\ l = p * s + o
    <3> HIDE DEF s, l
    <3>1. l \in Int
      BY <1>1
    <3>2. p \in Nat
      BY <1>1, DivNat
    <3> QED BY <1>1, <3>1, <3>2, DivMod
  <2> QED BY <2>1, <2>2
<1>3. /\ Now = p /\ StepStart(t) = t - r /\ StepStart(l) = l - o /\ PostInt(t) = r
      /\ PostInt(l) = o /\ Interval(t) = t - l /\ PreInt(t) = t - r - l
  BY DEF Now, StepStart, PostInt, Interval, PreInt
<1>4. Elapsed(t) = (StepStart(t) - StepStart(l)) \div s
  BY DEF Elapsed
<1> HIDE DEF s, l, q, r, p, o
<1>5. StepStart(t) - StepStart(l) = (q - p) * s + 0
  BY <1>1, <1>2, <1>3
<1>6. ((q - p) * s + 0) \div s = q - p
  BY <1>1, <1>2, DivUnique
<1>7. Elapsed(t) = q - p
  BY <1>4, <1>5, <1>6
<1>8. ASSUME Elapsed(t) = 0 PROVE r = o + (t - l)
  <2>1. q = p
    BY <1>2, <1>7, <1>8
  <2> QED BY <1>1, <1>2, <2>1
<1>9. /\ p \in Nat /\ q - p \in Int /\ r \in Nat /\ o \in Nat /\ t - l \in Nat /\ t - r - l \in Int
  BY <1>1, <1>2 DEF l
<1>10. Elapsed(t) = 0 => PostInt(t) = PostInt(l) + Interval(t)
  BY <1>3, <1>8
<1> QED BY <1>3, <1>7, <1>9, <1>10 DEF q, l, s

LEMMA AcceptedType ==
    ASSUME Types, NEW t \in Nat, NEW v \in KnownReadings, NEW rate \in Values,
           Accepted(t, v, rate)
    PROVE  /\ samples' \in Seq(SampleType) /\ Len(samples') <= MaxUpdates
           /\ Len(samples') = Len(samples) + 1
           /\ last_up' = t /\ last_ds' = v
           /\ samples'[Len(samples) + 1] = [from |-> last_up, to |-> t, type |-> dst,
                                            reading |-> v, rate |-> rate]
           /\ \A i \in 1 .. Len(samples) : samples'[i] = samples[i]
<1> DEFINE e == [from |-> last_up, to |-> t, type |-> dst, reading |-> v, rate |-> rate]
<1>1. e \in SampleType
  BY DEF Types, DsOK, SampleType
<1>2. /\ samples' = Append(samples, e) /\ last_up' = t /\ last_ds' = v /\ Len(samples) < MaxUpdates
      /\ samples \in Seq(SampleType) /\ Len(samples) \in Nat /\ MaxUpdates \in Nat
  BY Constants DEF Accepted, Types, DsOK
<1> HIDE DEF e
<1>3. /\ samples' \in Seq(SampleType) /\ Len(samples') = Len(samples) + 1
      /\ \A i \in 1 .. Len(samples) : samples'[i] = samples[i]
      /\ samples'[Len(samples) + 1] = e
  BY <1>1, <1>2, AppendProperties
<1> QED BY <1>2, <1>3 DEF e

LEMMA SimpleStep ==
    ASSUME Types, NEW t \in Nat, NEW v \in KnownReadings, SimpleUpdate(t, v)
    PROVE  Types'
<1> DEFINE rate == NewRate(t, v)
<1>1. /\ t > last_up /\ Elapsed(t) = 0 /\ Accepted(t, v, rate)
      /\ pdp_prep' = Added(pdp_prep, rate, Interval(t))
      /\ UNCHANGED <<dst, cdp_prep, cur_row, row_cnt, rows, since, refused>>
  BY DEF SimpleUpdate, Timely
<1>2. rate \in Values
  BY RateType
<1> HIDE DEF rate
<1>3. /\ Interval(t) \in Nat /\ Now \in Nat /\ Now = t \div Step /\ PostInt(last_up) \in Nat
      /\ PostInt(t) = PostInt(last_up) + Interval(t)
  BY <1>1, StepsOf, Constants, DivMod
<1>4. pdp_prep \in PrepType /\ pdp_prep.unkn <= PostInt(last_up)
      /\ pdp_prep.val \in Values /\ pdp_prep.unkn \in Nat
  BY DEF Types, DsOK, PrepType
<1>5. pdp_prep' \in PrepType /\ pdp_prep'.unkn <= PostInt(t)
  <2>1. CASE isnan(rate)
    <3>1. pdp_prep' = [pdp_prep EXCEPT !.unkn = @ + Interval(t)]
      BY <1>1, <2>1 DEF Added
    <3>2. pdp_prep.unkn + Interval(t) \in Nat /\ pdp_prep.unkn + Interval(t) <= PostInt(t)
      BY <1>3, <1>4
    <3> QED BY <1>4, <3>1, <3>2 DEF PrepType
  <2>2. CASE ~ isnan(rate)
    <3> DEFINE val == Plus(IFDNAN(pdp_prep.val, Int2Value(0)), Scaled(rate, Interval(t)))
    <3>1. pdp_prep' = [pdp_prep EXCEPT !.val = val]
      BY <1>1, <2>2 DEF Added
    <3>2. val \in Values
      <4>1. Int2Value(0) \in Values
        BY ValueOperators
      <4>2. IFDNAN(pdp_prep.val, Int2Value(0)) \in Values
        BY <1>4, <4>1, ValueOperators
      <4>3. Scaled(rate, Interval(t)) \in Values
        BY <1>2, <1>3, ValueOperators
      <4> QED BY <4>2, <4>3, ValueOperators
    <3> HIDE DEF val
    <3>3. pdp_prep.unkn <= PostInt(t)
      BY <1>3, <1>4
    <3> QED BY <1>4, <3>1, <3>2, <3>3 DEF PrepType
  <2> QED BY <2>1, <2>2
<1>6. DsOK'
  BY <1>1, <1>2, <1>5, AcceptedType DEF Types, DsOK, PostInt
<1>7. Now' = Now
  BY <1>1, <1>2, <1>3, AcceptedType DEF Now
<1>8. ArchivesOK'
  BY <1>1, <1>7 DEF Types, ArchivesOK
<1> QED BY <1>6, <1>8 DEF Types

-----------------------------------------------------------------------------
(* Consolidation and rows.                                                 *)

LEMMA PdpType ==
    ASSUME Types, NEW t \in Nat, t > last_up, NEW rate \in Values
    PROVE  Pdp(t, rate) \in Values /\ OpenPrep(t, rate) \in PrepType
           /\ OpenPrep(t, rate).unkn <= PostInt(t)
<1>1. /\ PreInt(t) \in Int /\ PostInt(t) \in Nat /\ Elapsed(t) \in Int /\ Step \in Int
  BY StepsOf, Constants
<1>2. pdp_prep \in PrepType /\ pdp_prep.val \in Values /\ pdp_prep.unkn \in Nat
      /\ Int2Value(0) \in Values
  BY ValueOperators DEF Types, DsOK, PrepType
<1>3. Added(pdp_prep, rate, PreInt(t)).val \in Values
  <2>1. IFDNAN(pdp_prep.val, Int2Value(0)) \in Values /\ Scaled(rate, PreInt(t)) \in Values
    BY <1>1, <1>2, ValueOperators
  <2>2. Plus(IFDNAN(pdp_prep.val, Int2Value(0)), Scaled(rate, PreInt(t))) \in Values
    BY <2>1, ValueOperators
  <2> QED BY <1>2, <2>2 DEF Added, PrepType
<1>4. Pdp(t, rate) \in Values
  <2> DEFINE pre_unknown == IF isnan(rate) THEN PreInt(t) ELSE 0
  <2>1. pre_unknown \in Int /\ Elapsed(t) * Step \in Int
    BY <1>1
  <2> HIDE DEF pre_unknown
  <2>2. Elapsed(t) * Step - pdp_prep.unkn - pre_unknown \in Int
    BY <1>2, <2>1
  <2>3. Over(Added(pdp_prep, rate, PreInt(t)).val,
             Elapsed(t) * Step - pdp_prep.unkn - pre_unknown) \in Values
    BY <1>3, <2>2, ValueOperators
  <2> QED BY <2>3, ValueOperators DEF Pdp, pre_unknown
<1>5. Scaled(rate, PostInt(t)) \in Values
  BY <1>1, ValueOperators
<1>6. OpenPrep(t, rate) \in PrepType /\ OpenPrep(t, rate).unkn <= PostInt(t)
  BY <1>1, <1>5, ValueOperators DEF OpenPrep, PrepType
<1> QED BY <1>4, <1>6

\* The number of rows, and what is left over for the next period.
LEMMA RowsDue ==
    ASSUME NEW a \in Archives, NEW n \in Nat, last_up \in Nat
    PROVE  /\ RraStepCnt(a, n) \in Nat /\ StartPdpOffset(a) \in Nat
           /\ Now % PdpCnt(a) \in Nat /\ (Now + n) % PdpCnt(a) \in Nat
           /\ RraStepCnt(a, n) > 0 => (n - StartPdpOffset(a)) % PdpCnt(a) = (Now + n) % PdpCnt(a)
           /\ RraStepCnt(a, n) = 0 => (Now + n) % PdpCnt(a) = (Now % PdpCnt(a)) + n
           /\ PdpCnt(a) = 1 => (Now + n) % PdpCnt(a) = 0 /\ Now % PdpCnt(a) = 0
<1> DEFINE p == PdpCnt(a)
           k == Now
           o == p - (k % p)
<1>1. p \in Nat \ {0} /\ k \in Nat
  BY Constants, DivNat DEF Now
<1> HIDE DEF p, k
<1>2. k % p \in 0 .. p - 1 /\ (k + n) % p \in 0 .. p - 1 /\ k % p \in Nat /\ (k + n) % p \in Nat
  BY <1>1, DivMod
<1>3. o \in 1 .. p
  BY <1>1, <1>2
<1>4. StartPdpOffset(a) = o
  BY DEF StartPdpOffset, p, k, Now
<1>5. RraStepCnt(a, n) = IF o <= n THEN ((n - o) \div p) + 1 ELSE 0
  BY <1>4 DEF RraStepCnt, p
<1>6. CASE o <= n
  <2>1. n - o \in Nat
    BY <1>1, <1>3, <1>6
  <2>2. (n - o) \div p \in Nat
    BY <1>1, <2>1, DivNat
  <2>3. RraStepCnt(a, n) \in Nat /\ RraStepCnt(a, n) > 0
    BY <1>5, <1>6, <2>2
  <2>4. (n - o) % p = (k + n) % p
    <3>1. n - o = (k % p) + (n - p)
      BY <1>1, <1>2
    <3>2. ((k % p) + (n - p)) % p = (k + (n - p)) % p
      <4>1. n - p \in Int /\ k \in Int
        BY <1>1
      <4> QED BY <1>1, <4>1, ModPlus
    <3>3. (k + (n - p)) % p = (k + n) % p
      <4> DEFINE d == (k + n) \div p
                 r == (k + n) % p
      <4>1. d \in Int /\ r \in 0 .. p - 1 /\ k + n = d * p + r
        <5>1. k + n \in Int
          BY <1>1
        <5> QED BY <1>1, <5>1, DivMod
      <4> HIDE DEF d, r
      <4>2. k + (n - p) = (d - 1) * p + r
        BY <1>1, <4>1
      <4>3. ((d - 1) * p + r) % p = r
        <5>1. d - 1 \in Int
          BY <4>1
        <5> QED BY <1>1, <4>1, <5>1, DivUnique
      <4> QED BY <4>2, <4>3 DEF r
    <3> QED BY <3>1, <3>2, <3>3
  <2>5. p = 1 => (k + n) % p = 0 /\ k % p = 0
    BY <1>2
  <2> QED BY <1>2, <1>3, <1>4, <2>3, <2>4, <2>5 DEF p, k
<1>7. CASE ~ (o <= n)
  <2>1. RraStepCnt(a, n) = 0
    BY <1>5, <1>7
  <2>2. (k + n) % p = (k % p) + n
    <3> DEFINE d == k \div p
               r == k % p
    <3>1. d \in Int /\ r \in 0 .. p - 1 /\ k = d * p + r
      BY <1>1, DivMod
    <3>2. r + n \in 0 .. p - 1
      BY <1>1, <1>3, <1>7, <3>1
    <3> HIDE DEF d, r
    <3>3. k + n = d * p + (r + n)
      BY <1>1, <3>1
    <3>4. (d * p + (r + n)) % p = r + n
      BY <1>1, <3>1, <3>2, DivUnique
    <3> QED BY <3>3, <3>4 DEF r
  <2>3. p = 1 => (k + n) % p = 0 /\ k % p = 0
    BY <1>2
  <2> QED BY <1>2, <1>3, <1>4, <2>1, <2>2, <2>3 DEF p, k
<1> QED BY <1>6, <1>7

LEMMA CdpUpdated ==
    ASSUME NEW a \in Archives, NEW n \in Nat, last_up \in Nat, NEW pdp \in Values,
           cdp_prep[a] \in CdpType, cdp_prep[a].unkn <= Now % PdpCnt(a)
    PROVE  /\ update_cdp_prep(a, pdp, n) \in CdpType
           /\ update_cdp_prep(a, pdp, n).unkn <= (Now + n) % PdpCnt(a)
<1> DEFINE cdp == cdp_prep[a]
           offset == StartPdpOffset(a)
<1>1. /\ cdp \in CdpType /\ cdp.val \in Values /\ cdp.unkn \in Nat /\ cdp.primary \in Values
      /\ cdp.secondary \in Values /\ cdp.unkn <= Now % PdpCnt(a)
  BY DEF CdpType
<1>2. /\ RraStepCnt(a, n) \in Nat /\ offset \in Nat
      /\ Now % PdpCnt(a) \in Nat /\ (Now + n) % PdpCnt(a) \in Nat
      /\ RraStepCnt(a, n) > 0 => (n - offset) % PdpCnt(a) = (Now + n) % PdpCnt(a)
      /\ RraStepCnt(a, n) = 0 => (Now + n) % PdpCnt(a) = (Now % PdpCnt(a)) + n
      /\ PdpCnt(a) = 1 => (Now + n) % PdpCnt(a) = 0 /\ Now % PdpCnt(a) = 0
  BY RowsDue
<1>3. PdpCnt(a) \in Nat \ {0} /\ rra_def[a].cf \in {"AVERAGE", "MIN", "MAX", "LAST"}
  BY Constants
<1>4. Int2Value(0) \in Values /\ DNAN \in Values /\ DINF \in Values /\ NegDINF \in Values
  BY ValueOperators
<1> HIDE DEF cdp
<1>5. CASE PdpCnt(a) = 1
  <2>1. update_cdp_prep(a, pdp, n) = SingleCdp(cdp, pdp, n)
    BY <1>5 DEF update_cdp_prep, cdp
  <2>2. SingleCdp(cdp, pdp, n) \in CdpType /\ SingleCdp(cdp, pdp, n).unkn = cdp.unkn
    BY <1>1 DEF SingleCdp, CdpType
  <2> QED BY <1>1, <1>2, <1>5, <2>1, <2>2
<1>6. CASE PdpCnt(a) # 1 /\ RraStepCnt(a, n) > 0
  <2> DEFINE into == (n - offset) % PdpCnt(a)
             unkn == cdp.unkn + (IF isnan(pdp) THEN offset ELSE 0)
             full == [cdp EXCEPT !.unkn = unkn]
             carry == initialize_carry_over(a, pdp, into)
             primary == IF TooManyUnknown(a, unkn) THEN DNAN
                        ELSE initialize_cdp_val(a, full, pdp, offset)
  <2>1. update_cdp_prep(a, pdp, n) = CloseCdp(a, cdp, pdp, n)
    BY <1>6 DEF update_cdp_prep, cdp
  <2>2. CloseCdp(a, cdp, pdp, n) = [val |-> carry, unkn |-> IF isnan(pdp) THEN into ELSE 0,
                                    primary |-> primary, secondary |-> pdp]
    BY DEF CloseCdp
  <2>3. into \in Nat /\ into = (Now + n) % PdpCnt(a)
    BY <1>2, <1>6
  <2>4. unkn \in Nat /\ full.val = cdp.val /\ full.unkn = unkn
    BY <1>1, <1>2 DEF CdpType
  <2> HIDE DEF into, unkn, full
  <2>5. carry \in Values
    <3>1. Scaled(pdp, into) \in Values
      BY <2>3, ValueOperators
    <3> QED BY <1>3, <1>4, <3>1 DEF initialize_carry_over
  <2>6. initialize_cdp_val(a, full, pdp, offset) \in Values
    <3>1. /\ IFDNAN(cdp.val, Int2Value(0)) \in Values /\ IFDNAN(pdp, Int2Value(0)) \in Values
          /\ IFDNAN(cdp.val, NegDINF) \in Values /\ IFDNAN(pdp, NegDINF) \in Values
          /\ IFDNAN(cdp.val, DINF) \in Values /\ IFDNAN(pdp, DINF) \in Values
      BY <1>1, <1>4, ValueOperators
    <3>2. Scaled(IFDNAN(pdp, Int2Value(0)), offset) \in Values /\ PdpCnt(a) - unkn \in Int
      BY <1>2, <1>3, <2>4, <3>1, ValueOperators
    <3>3. Plus(IFDNAN(cdp.val, Int2Value(0)), Scaled(IFDNAN(pdp, Int2Value(0)), offset)) \in Values
      BY <3>1, <3>2, ValueOperators
    <3>4. Over(Plus(IFDNAN(cdp.val, Int2Value(0)), Scaled(IFDNAN(pdp, Int2Value(0)), offset)),
               PdpCnt(a) - unkn) \in Values
      BY <3>2, <3>3, ValueOperators
    <3>5. /\ Larger(IFDNAN(cdp.val, NegDINF), IFDNAN(pdp, NegDINF)) \in Values
          /\ Smaller(IFDNAN(cdp.val, DINF), IFDNAN(pdp, DINF)) \in Values
      BY <3>1, ValueOperators
    <3> QED BY <1>3, <2>4, <3>4, <3>5 DEF initialize_cdp_val
  <2>7. primary \in Values
    BY <1>4, <2>6
  <2> HIDE DEF carry, primary
  <2> DEFINE left == IF isnan(pdp) THEN into ELSE 0
  <2>8. left \in Nat /\ left <= (Now + n) % PdpCnt(a)
    BY <1>2, <2>3
  <2> HIDE DEF left
  <2>9. update_cdp_prep(a, pdp, n) = [val |-> carry, unkn |-> left,
                                      primary |-> primary, secondary |-> pdp]
    BY <2>1, <2>2 DEF left
  <2> QED BY <2>5, <2>7, <2>8, <2>9 DEF CdpType
<1>7. CASE PdpCnt(a) # 1 /\ RraStepCnt(a, n) = 0
  <2> DEFINE new == ExtendCdp(a, cdp, pdp, n)
  <2>1. update_cdp_prep(a, pdp, n) = new
    BY <1>2, <1>7 DEF update_cdp_prep, cdp
  <2>2. CASE isnan(pdp)
    <3>1. new = [cdp EXCEPT !.unkn = @ + n]
      BY <2>2 DEF ExtendCdp
    <3>2. cdp.unkn + n \in Nat /\ cdp.unkn + n <= (Now + n) % PdpCnt(a)
      BY <1>1, <1>2, <1>7
    <3> QED BY <1>1, <2>1, <3>1, <3>2 DEF CdpType
  <2>3. CASE ~ isnan(pdp)
    <3> DEFINE val == calculate_cdp_val(a, cdp.val, pdp, n)
    <3>1. new = [cdp EXCEPT !.val = val]
      BY <2>3 DEF ExtendCdp
    <3>2. val \in Values
      <4>1. IFDNAN(cdp.val, Int2Value(0)) \in Values /\ Scaled(pdp, n) \in Values
            /\ Smaller(cdp.val, pdp) \in Values /\ Larger(cdp.val, pdp) \in Values
        BY <1>1, <1>4, ValueOperators
      <4>2. Plus(IFDNAN(cdp.val, Int2Value(0)), Scaled(pdp, n)) \in Values
        BY <4>1, ValueOperators
      <4> QED BY <1>3, <4>1, <4>2 DEF calculate_cdp_val
    <3> HIDE DEF val
    <3>3. cdp.unkn <= (Now + n) % PdpCnt(a)
      BY <1>1, <1>2, <1>7
    <3> QED BY <1>1, <2>1, <3>1, <3>2, <3>3 DEF CdpType
  <2> QED BY <2>2, <2>3
<1> QED BY <1>2, <1>5, <1>6, <1>7

LEMMA StepStep ==
    ASSUME Types, NEW t \in Nat, NEW v \in KnownReadings, StepUpdate(t, v)
    PROVE  Types'
<1> DEFINE rate == NewRate(t, v)
           n == Elapsed(t)
           pdp == Pdp(t, rate)
           due == [a \in Archives |-> RraStepCnt(a, n)]
<1>1. /\ t > last_up /\ n > 0 /\ Accepted(t, v, rate)
      /\ pdp_prep' = OpenPrep(t, rate)
      /\ cdp_prep' = [a \in Archives |-> update_cdp_prep(a, pdp, n)]
      /\ rows' = [a \in Archives |-> WriteRows(a, due[a], cdp_prep'[a])]
      /\ cur_row' = [a \in Archives |-> RowWritten(a, due[a])]
      /\ UNCHANGED <<dst, row_cnt, since, refused>>
  BY DEF StepUpdate, Timely
<1>2. rate \in Values
  BY RateType
<1>3. pdp \in Values /\ OpenPrep(t, rate) \in PrepType /\ OpenPrep(t, rate).unkn <= PostInt(t)
  BY <1>1, <1>2, PdpType
<1>4. n \in Nat /\ Now \in Nat /\ n = (t \div Step) - Now
  BY <1>1, StepsOf
<1> HIDE DEF rate, pdp
<1>5. DsOK'
  BY <1>1, <1>2, <1>3, AcceptedType DEF Types, DsOK, PostInt
<1>6. Now' = Now + n
  <2>1. Now' = t \div Step
    BY <1>1, <1>2, AcceptedType DEF Now
  <2>2. t \div Step \in Nat
    BY Constants, DivNat
  <2> HIDE DEF n
  <2> QED BY <1>4, <2>1, <2>2
<1> HIDE DEF n
<1>7. ASSUME NEW a \in Archives
      PROVE  /\ cdp_prep'[a] \in CdpType /\ cdp_prep'[a].unkn <= Now' % PdpCnt(a)
             /\ cur_row'[a] \in Nat /\ cur_row'[a] <= row_cnt[a] - 1
             /\ rows'[a] \in RowsType(row_cnt[a])
             /\ since[a] \in Int /\ since[a] <= Now'
  <2>1. /\ cdp_prep[a] \in CdpType /\ cdp_prep[a].unkn <= Now % PdpCnt(a)
        /\ row_cnt[a] \in Nat \ {0} /\ cur_row[a] \in Nat /\ rows[a] \in RowsType(row_cnt[a])
        /\ since[a] \in Int /\ since[a] <= Now /\ last_up \in Nat
    BY DEF Types, ArchivesOK, DsOK
  <2>2. cdp_prep'[a] \in CdpType /\ cdp_prep'[a].unkn <= (Now + n) % PdpCnt(a)
    BY <1>1, <1>3, <1>4, <2>1, CdpUpdated
  <2>3. due[a] \in Nat
    BY <1>4, <2>1, RowsDue
  <2> HIDE DEF due
  <2>4. cur_row'[a] \in 0 .. row_cnt[a] - 1
    <3>1. cur_row[a] + due[a] \in Nat
      BY <2>1, <2>3
    <3> QED BY <1>1, <2>1, <3>1, Remainder DEF RowWritten, RowCnt
  <2>5. rows'[a] \in RowsType(row_cnt[a])
    <3>1. cdp_prep'[a].primary \in Values /\ cdp_prep'[a].secondary \in Values
      BY <2>2 DEF CdpType
    <3>2. \A r \in 0 .. row_cnt[a] - 1 : rows[a][r] \in Values
      BY <2>1 DEF RowsType
    <3>3. rows'[a] = WriteRows(a, due[a], cdp_prep'[a])
      BY <1>1
    <3> QED BY <3>1, <3>2, <3>3 DEF WriteRows, RowsType, RowCnt
  <2>6. since[a] <= Now'
    BY <1>4, <1>6, <2>1
  <2> QED BY <1>6, <2>1, <2>2, <2>4, <2>5, <2>6
<1>8. ArchivesOK'
  <2>1. /\ cdp_prep' \in [Archives -> CdpType] /\ cur_row' \in [Archives -> Nat]
        /\ rows' = [a \in Archives |-> rows'[a]]
    BY <1>1, <1>7
  <2>2. row_cnt' \in [Archives -> Nat \ {0}] /\ since' \in [Archives -> Int]
    BY <1>1 DEF Types, ArchivesOK
  <2>3. \A a \in Archives :
           /\ cur_row'[a] <= row_cnt'[a] - 1 /\ rows'[a] \in RowsType(row_cnt'[a])
           /\ cdp_prep'[a].unkn <= Now' % PdpCnt(a) /\ since'[a] <= Now'
    BY <1>1, <1>7
  <2> QED BY <2>1, <2>2, <2>3 DEF ArchivesOK
<1> QED BY <1>5, <1>8 DEF Types

LEMMA RefusedStep ==
    ASSUME Types, NEW t \in Nat, NEW v \in KnownReadings, RefusedUpdate(t, v)
    PROVE  Types'
<1>1. /\ refused < MaxRefused /\ refused' = refused + 1 /\ last_ds' = v
      /\ UNCHANGED <<dst, last_up, pdp_prep, cdp_prep, cur_row, row_cnt, rows, since, samples>>
  BY DEF RefusedUpdate
<1>2. refused' \in 0 .. MaxRefused
  BY <1>1, Constants DEF Types, DsOK
<1>3. DsOK'
  BY <1>1, <1>2 DEF Types, DsOK, PostInt
<1>4. ArchivesOK'
  BY <1>1 DEF Types, ArchivesOK, Now
<1> QED BY <1>3, <1>4 DEF Types

LEMMA NextReading ==
    ASSUME Types, NEW t \in Times, NEW v \in Readings[dst] \union {U}
    PROVE  t \in Nat /\ v \in KnownReadings
<1>1. t \in Nat
  BY BoundAssumption
<1>2. dst \in DsTypes
  BY DEF Types, DsOK
<1> QED BY <1>1, <1>2, Constants

LEMMA UpdateTypes == Types /\ Next => Types'
<1> SUFFICES ASSUME Types, NEW t \in Times, NEW v \in Readings[dst] \union {U},
                    SimpleUpdate(t, v) \/ StepUpdate(t, v) \/ RefusedUpdate(t, v)
             PROVE  Types'
  BY DEF Next
<1>1. t \in Nat /\ v \in KnownReadings
  BY NextReading
<1> QED BY <1>1, SimpleStep, StepStep, RefusedStep

LEMMA SameTypes == Types /\ UNCHANGED vars => Types'
  BY DEF vars, Types, DsOK, ArchivesOK, PostInt, Now

(* Every value in the file is a fraction, unknown or infinite, every row   *)
(* number is in its range, and no more of the open step and of an open     *)
(* period is unknown than has passed of it (rrd_update_r): the number of   *)
(* seconds or points that a sum is divided by is never negative.           *)
THEOREM UpdateTypeCorrect == Spec => []TypeOK
<1>1. Init => Types
  BY InitTypes
<1>2. Types /\ [Next]_vars => Types'
  BY UpdateTypes, SameTypes
<1>3. Types => TypeOK
  BY TypesAreOK
<1> QED BY <1>1, <1>2, <1>3, PTL DEF Spec

-----------------------------------------------------------------------------
(* rrd_tune, rrd_resize and rrd_restore.                                   *)

LEMMA TuneStep ==
    ASSUME Types, NEW type \in DsTypes, Tune(type)
    PROVE  Types'
<1>1. /\ dst' = type /\ last_ds' = U
      /\ UNCHANGED <<last_up, pdp_prep, cdp_prep, refused, samples, cur_row, row_cnt, rows, since>>
  BY DEF Tune, Edit
<1>2. DsOK'
  BY <1>1, Constants DEF Types, DsOK, PostInt
<1>3. ArchivesOK'
  BY <1>1 DEF Types, ArchivesOK, Now
<1> QED BY <1>2, <1>3 DEF Types

\* One archive changes.
LEMMA Resized ==
    ASSUME Types, NEW a \in Archives, NEW n \in Nat \ {0}, NEW c \in 0 .. n - 1,
           NEW new \in RowsType(n), NEW from \in Int, from <= Now,
           row_cnt' = [row_cnt EXCEPT ![a] = n], cur_row' = [cur_row EXCEPT ![a] = c],
           rows' = [rows EXCEPT ![a] = new], since' = [since EXCEPT ![a] = from],
           UNCHANGED <<dst, last_up, last_ds, pdp_prep, cdp_prep, refused, samples>>
    PROVE  Types'
<1>1. ArchivesOK
  BY DEF Types
<1>2. row_cnt' \in [Archives -> Nat \ {0}] /\ since' \in [Archives -> Int]
  BY <1>1 DEF ArchivesOK
<1>3. cur_row' \in [Archives -> Nat]
  <2>1. c \in Nat
    OBVIOUS
  <2> QED BY <1>1, <2>1 DEF ArchivesOK
<1>4. rows' = [b \in Archives |-> rows'[b]]
  <2>1. DOMAIN rows = Archives
    BY <1>1 DEF ArchivesOK
  <2> QED BY <1>1, <2>1 DEF ArchivesOK
<1>5. ASSUME NEW b \in Archives
      PROVE  /\ cur_row'[b] <= row_cnt'[b] - 1 /\ rows'[b] \in RowsType(row_cnt'[b])
             /\ cdp_prep'[b].unkn <= Now' % PdpCnt(b) /\ since'[b] <= Now'
  <2>1. /\ cur_row[b] <= row_cnt[b] - 1 /\ rows[b] \in RowsType(row_cnt[b])
        /\ cdp_prep[b].unkn <= Now % PdpCnt(b) /\ since[b] <= Now /\ Now' = Now
    BY <1>1 DEF ArchivesOK, Now
  <2>2. DOMAIN rows = Archives
    BY <1>1 DEF ArchivesOK
  <2>3. CASE b = a
    <3>1. row_cnt'[b] = n /\ cur_row'[b] = c /\ rows'[b] = new /\ since'[b] = from
      BY <1>1, <2>2, <2>3 DEF ArchivesOK
    <3> QED BY <2>1, <3>1
  <2>4. CASE b # a
    <3>1. /\ row_cnt'[b] = row_cnt[b] /\ cur_row'[b] = cur_row[b] /\ rows'[b] = rows[b]
          /\ since'[b] = since[b]
      BY <1>1, <2>2, <2>4 DEF ArchivesOK
    <3> QED BY <2>1, <3>1
  <2> QED BY <2>3, <2>4
<1>6. cdp_prep' \in [Archives -> CdpType]
  BY <1>1 DEF ArchivesOK
<1>7. ArchivesOK'
  BY <1>2, <1>3, <1>4, <1>5, <1>6 DEF ArchivesOK
<1>8. DsOK'
  BY DEF Types, DsOK, PostInt
<1> QED BY <1>7, <1>8 DEF Types

LEMMA ArchiveFacts ==
    ASSUME Types, NEW a \in Archives
    PROVE  /\ RowCnt(a) \in Nat \ {0} /\ RowCnt(a) = row_cnt[a]
           /\ cur_row[a] \in Nat /\ cur_row[a] <= RowCnt(a) - 1
           /\ \A r \in 0 .. RowCnt(a) - 1 : rows[a][r] \in Values
           /\ since[a] \in Int /\ since[a] <= Now /\ Now \in Nat
           /\ DOMAIN rows = Archives /\ cur_row = [b \in Archives |-> cur_row[b]]
           /\ since = [b \in Archives |-> since[b]]
<1>1. last_up \in Nat /\ ArchivesOK
  BY DEF Types, DsOK
<1>2. Now \in Nat
  BY <1>1, Constants, DivNat DEF Now
<1>3. rows[a] \in [0 .. row_cnt[a] - 1 -> Values]
  BY <1>1 DEF ArchivesOK, RowsType
<1>4. DOMAIN rows = Archives
  BY <1>1 DEF ArchivesOK
<1> QED BY <1>1, <1>2, <1>3, <1>4 DEF ArchivesOK, RowCnt

LEMMA GrowStep ==
    ASSUME Types, NEW a \in Archives, NEW modify \in Nat \ {0}, Grow(a, modify)
    PROVE  Types'
<1> DEFINE n == row_cnt[a] + modify
           c == cur_row[a]
           new == [r \in 0 .. n - 1 |->
                     IF r <= c THEN rows[a][r]
                     ELSE IF r <= c + modify THEN DNAN ELSE rows[a][r - modify]]
           oldest == Complete(a) - RowCnt(a) * PdpCnt(a)
           from == IF since[a] < oldest THEN oldest ELSE since[a]
<1>1. /\ row_cnt' = [row_cnt EXCEPT ![a] = n]
      /\ rows' = [rows EXCEPT ![a] = new] /\ since' = [since EXCEPT ![a] = from]
      /\ UNCHANGED <<dst, last_up, last_ds, pdp_prep, cdp_prep, refused, samples, cur_row>>
  <2>1. /\ row_cnt' = [row_cnt EXCEPT ![a] = n]
        /\ UNCHANGED <<dst, last_up, last_ds, pdp_prep, cdp_prep, refused, samples, cur_row>>
    BY DEF Grow, Edit
  <2>2. rows' = [rows EXCEPT ![a] = new]
    <3>1. rows' = [rows EXCEPT ![a] =
             [r \in 0 .. RowCnt(a) + modify - 1 |->
                 IF r <= cur_row[a] THEN rows[a][r]
                 ELSE IF r <= cur_row[a] + modify THEN DNAN ELSE rows[a][r - modify]]]
      BY DEF Grow
    <3>2. RowCnt(a) + modify - 1 = n - 1
      BY ArchiveFacts DEF RowCnt
    <3> HIDE DEF n
    <3> QED BY <3>1, <3>2, Zenon
  <2>3. since' = [since EXCEPT ![a] = from]
    BY Zenon DEF Grow
  <2> QED BY <2>1, <2>2, <2>3
<1>2. /\ row_cnt[a] \in Nat \ {0} /\ c \in Nat /\ c <= row_cnt[a] - 1
      /\ \A r \in 0 .. row_cnt[a] - 1 : rows[a][r] \in Values
      /\ since[a] \in Int /\ since[a] <= Now /\ Now \in Nat
      /\ RowCnt(a) = row_cnt[a] /\ cur_row = [b \in Archives |-> cur_row[b]]
  BY ArchiveFacts
<1>3. n \in Nat \ {0} /\ c \in 0 .. n - 1
  BY <1>2
<1>4. new \in RowsType(n)
  <2> SUFFICES ASSUME NEW r \in 0 .. n - 1
               PROVE  (IF r <= c THEN rows[a][r]
                       ELSE IF r <= c + modify THEN DNAN ELSE rows[a][r - modify]) \in Values
    BY DEF RowsType
  <2>1. DNAN \in Values
    BY ValueOperators
  <2>2. r <= c => r \in 0 .. row_cnt[a] - 1
    BY <1>2
  <2>3. ~ (r <= c + modify) => r - modify \in 0 .. row_cnt[a] - 1
    BY <1>2
  <2> HIDE DEF n, c
  <2> QED BY <1>2, <2>1, <2>2, <2>3
<1>5. from \in Int /\ from <= Now
  <2>1. PdpCnt(a) \in Nat \ {0}
    BY Constants
  <2>2. Now % PdpCnt(a) \in Nat
    BY <1>2, <2>1, Remainder
  <2>3. RowCnt(a) * PdpCnt(a) \in Int /\ RowCnt(a) * PdpCnt(a) >= 0
    BY <1>2, <2>1, Product
  <2>4. oldest \in Int /\ oldest <= Now
    BY <1>2, <2>2, <2>3 DEF Complete
  <2> HIDE DEF oldest
  <2> QED BY <1>2, <2>4
<1>6. cur_row' = [cur_row EXCEPT ![a] = c]
  BY <1>1, <1>2
<1> HIDE DEF n, c, new, from
<1> QED BY <1>1, <1>3, <1>4, <1>5, <1>6, Resized

LEMMA ShrinkStep ==
    ASSUME Types, NEW a \in Archives, NEW modify \in Nat \ {0}, Shrink(a, modify)
    PROVE  Types'
<1> DEFINE m == row_cnt[a]
           n == m - modify
           front == FrontRows(a, modify)
           c == cur_row[a] - front
           new == [r \in 0 .. n - 1 |->
                     IF r <= c THEN rows[a][r + front] ELSE rows[a][r + modify]]
<1>1. /\ modify < m
      /\ row_cnt' = [row_cnt EXCEPT ![a] = n] /\ cur_row' = [cur_row EXCEPT ![a] = c]
      /\ rows' = [rows EXCEPT ![a] = new]
      /\ UNCHANGED <<dst, last_up, last_ds, pdp_prep, cdp_prep, refused, samples, since>>
  BY DEF Shrink, Edit, RowCnt
<1>2. /\ m \in Nat \ {0} /\ cur_row[a] \in Nat /\ cur_row[a] <= m - 1
      /\ \A r \in 0 .. m - 1 : rows[a][r] \in Values
      /\ since[a] \in Int /\ since[a] <= Now
      /\ RowCnt(a) = m /\ since = [b \in Archives |-> since[b]]
  BY ArchiveFacts
<1> DEFINE rem == (cur_row[a] + modify) % m
<1>3. front = IF rem <= cur_row[a] THEN rem + 1 ELSE 0
  BY <1>2 DEF FrontRows
<1> HIDE DEF m, front
<1>a. ASSUME NEW q \in Int, NEW r \in 0 .. m - 1
      PROVE  (q * m + r) % m = r
  BY <1>2, DivUnique
\* Those that are removed at the start are the ones that wrap around.
<1>4. front \in Nat /\ c \in 0 .. n - 1 /\ front <= modify
  <2>1. CASE cur_row[a] + modify <= m - 1
    <3>1. cur_row[a] + modify = 0 * m + (cur_row[a] + modify) /\ cur_row[a] + modify \in 0 .. m - 1
      BY <1>2, <2>1
    <3>2. 0 \in Int
      OBVIOUS
    <3>3. rem = cur_row[a] + modify
      BY <1>a, <3>1, <3>2
    <3> HIDE DEF rem
    <3>4. front = 0
      BY <1>2, <1>3, <3>3
    <3> QED BY <1>1, <1>2, <2>1, <3>4
  <2>2. CASE ~ (cur_row[a] + modify <= m - 1)
    <3>1. cur_row[a] + modify = 1 * m + (cur_row[a] + modify - m)
          /\ cur_row[a] + modify - m \in 0 .. m - 1
      BY <1>1, <1>2, <2>2
    <3>2. 1 \in Int
      OBVIOUS
    <3>3. rem = cur_row[a] + modify - m
      BY <1>a, <3>1, <3>2
    <3> HIDE DEF rem
    <3>4. front = cur_row[a] + modify - m + 1
      BY <1>1, <1>2, <1>3, <3>3
    <3> QED BY <1>1, <1>2, <2>2, <3>4
  <2> QED BY <2>1, <2>2
<1>5. n \in Nat \ {0}
  BY <1>1, <1>2
<1>6. new \in RowsType(n)
  <2> SUFFICES ASSUME NEW r \in 0 .. n - 1
               PROVE  (IF r <= c THEN rows[a][r + front] ELSE rows[a][r + modify]) \in Values
    BY DEF RowsType
  <2>1. r + modify \in 0 .. m - 1 /\ r + front \in 0 .. m - 1
    BY <1>1, <1>2, <1>4, SMTT(30)
  <2> HIDE DEF n, c
  <2> QED BY <1>2, <2>1
<1>7. since' = [since EXCEPT ![a] = since[a]]
  BY <1>1, <1>2
<1> HIDE DEF n, c, new
<1> QED BY <1>1, <1>2, <1>4, <1>5, <1>6, <1>7, Resized

LEMMA RestoreStep ==
    ASSUME Types, NEW range_check \in BOOLEAN, Restore(range_check)
    PROVE  Types'
<1>1. /\ dst' = dst /\ last_ds' = last_ds
      /\ pdp_prep' = [val |-> pdp_prep.val, unkn |-> pdp_prep.unkn]
      /\ cdp_prep' = [a \in Archives |->
            [val |-> cdp_prep[a].val, unkn |-> cdp_prep[a].unkn,
             primary |-> cdp_prep[a].primary, secondary |-> cdp_prep[a].secondary]]
      /\ row_cnt' = [a \in Archives |-> Len(DumpedRows(a))]
      /\ cur_row' = [a \in Archives |-> 0]
      /\ rows' = [a \in Archives |-> RestoredRows(DumpedRows(a), range_check)]
      /\ UNCHANGED <<last_up, since, refused, samples>>
  BY DEF Restore, DumpedDs, DumpedCdpPrep, RestoredCurRow
<1>2. DsOK'
  <2>1. pdp_prep \in PrepType
    BY DEF Types, DsOK
  <2>2. pdp_prep' = pdp_prep
    BY <1>1, <2>1 DEF PrepType
  <2> QED BY <1>1, <2>2 DEF Types, DsOK, PostInt
<1>3. cdp_prep' = cdp_prep
  <2>1. cdp_prep \in [Archives -> CdpType]
    BY DEF Types, ArchivesOK
  <2>2. ASSUME NEW a \in Archives
        PROVE  cdp_prep[a] = [val |-> cdp_prep[a].val, unkn |-> cdp_prep[a].unkn,
                              primary |-> cdp_prep[a].primary, secondary |-> cdp_prep[a].secondary]
    <3>1. cdp_prep[a] \in CdpType
      BY <2>1
    <3> QED BY <3>1 DEF CdpType
  <2> QED BY <1>1, <2>1, <2>2
<1>4. ASSUME NEW a \in Archives
      PROVE  /\ Len(DumpedRows(a)) = row_cnt[a] /\ row_cnt[a] \in Nat \ {0}
             /\ RestoredRows(DumpedRows(a), range_check) \in RowsType(row_cnt[a])
  <2> DEFINE n == row_cnt[a]
             d == DumpedRows(a)
  <2>1. /\ n \in Nat \ {0} /\ RowCnt(a) = n /\ cur_row[a] \in Nat
        /\ \A r \in 0 .. n - 1 : rows[a][r] \in Values
    BY ArchiveFacts
  <2>2. d = [k \in 1 .. n |-> rows[a][(cur_row[a] + k) % n]]
    BY <2>1 DEF DumpedRows
  <2> HIDE DEF n, d
  <2>3. ASSUME NEW k \in 1 .. n PROVE rows[a][(cur_row[a] + k) % n] \in Values
    <3>1. cur_row[a] + k \in Nat
      BY <2>1
    <3> QED BY <2>1, <3>1, Remainder
  <2>4. Len(d) = n /\ \A k \in 1 .. n : d[k] \in Values
    BY <2>1, <2>2, <2>3
  <2>5. ASSUME NEW r \in 0 .. n - 1
        PROVE  CheckedRange(IF r <= RestoredCurRow THEN d[n - RestoredCurRow + r]
                            ELSE d[r - RestoredCurRow], range_check) \in Values
    <3>1. r <= 0 => n - 0 + r \in 1 .. n
      BY <2>1
    <3>2. ~ (r <= 0) => r - 0 \in 1 .. n
      BY <2>1
    <3>3. (IF r <= 0 THEN d[n - 0 + r] ELSE d[r - 0]) \in Values
      BY <2>4, <3>1, <3>2
    <3> QED BY <3>3, ValueOperators DEF CheckedRange, RestoredCurRow
  <2>6. RestoredRows(d, range_check) \in RowsType(n)
    BY <2>4, <2>5 DEF RestoredRows, RowsType
  <2> QED BY <2>1, <2>4, <2>6 DEF n, d
<1>5. row_cnt' = row_cnt
  <2>1. row_cnt \in [Archives -> Nat \ {0}]
    BY DEF Types, ArchivesOK
  <2> QED BY <1>1, <1>4, <2>1
<1>6. /\ cur_row' \in [Archives -> Nat] /\ rows' = [a \in Archives |-> rows'[a]] /\ Now' = Now
      /\ \A a \in Archives : cur_row'[a] = 0 /\ rows'[a] \in RowsType(row_cnt[a])
  BY <1>1, <1>4 DEF Now
<1>7. ArchivesOK'
  <2>1. /\ row_cnt \in [Archives -> Nat \ {0}] /\ since \in [Archives -> Int]
        /\ cdp_prep \in [Archives -> CdpType]
        /\ \A a \in Archives : cdp_prep[a].unkn <= Now % PdpCnt(a) /\ since[a] <= Now
    BY DEF Types, ArchivesOK
  <2>2. \A a \in Archives : 0 <= row_cnt[a] - 1
    BY <1>4
  <2> QED BY <1>1, <1>3, <1>5, <1>6, <2>1, <2>2 DEF ArchivesOK
<1> QED BY <1>2, <1>7 DEF Types

LEMMA FileTypes == Types /\ [FileNext]_fileVars => Types'
<1> SUFFICES ASSUME Types, [FileNext]_fileVars PROVE Types'
  OBVIOUS
<1>1. CASE Next
  BY <1>1, UpdateTypes
<1>2. ASSUME NEW type \in DsTypes, Tune(type) PROVE Types'
  BY <1>2, TuneStep
<1>3. ASSUME NEW z \in Resizes, Grow(z.rra, z.rows) \/ Shrink(z.rra, z.rows) PROVE Types'
  <2>1. z.rra \in Archives /\ z.rows \in Nat \ {0}
    BY QueriesAssumption
  <2> QED BY <1>3, <2>1, GrowStep, ShrinkStep
<1>4. ASSUME NEW range_check \in BOOLEAN, Restore(range_check) PROVE Types'
  BY <1>4, RestoreStep
<1>5. CASE UNCHANGED fileVars
  BY <1>5, SameTypes DEF fileVars
<1> QED BY <1>1, <1>2, <1>3, <1>4, <1>5 DEF FileNext

(* The same of a file that is tuned, resized and restored between its      *)
(* updates (rrd_tune, rrd_resize, rrd_restore).                            *)
THEOREM FileTypeCorrect == FileSpec => []TypeOK
<1>1. FileInit => Types
  BY InitTypes DEF FileInit
<1>2. Types /\ [FileNext]_fileVars => Types'
  BY FileTypes
<1>3. Types => TypeOK
  BY TypesAreOK
<1> QED BY <1>1, <1>2, <1>3, PTL DEF FileSpec

-----------------------------------------------------------------------------
(* A counter's rate (update_pdp_prep, rrd_tune).                           *)

\* What the last reading is for the next rate: one of the current type.
LastReading ==
    last_ds # U => /\ Len(samples) >= 1
                   /\ samples[Len(samples)].type = dst
                   /\ samples[Len(samples)].reading = last_ds
Rates ==
    \A i \in 1 .. Len(samples) :
        samples[i].type \in {"COUNTER", "DERIVE"} /\ ~ isnan(samples[i].rate)
        => i > 1 /\ samples[i - 1].type = samples[i].type /\ samples[i - 1].reading # U
RateInv == Types /\ (refused = 0 => LastReading /\ Rates)

LEMMA RateNeedsReading ==
    ASSUME NEW t, NEW v, dst \in {"COUNTER", "DERIVE"}, ~ isnan(NewRate(t, v))
    PROVE  last_ds # U
<1> SUFFICES ASSUME last_ds = U PROVE FALSE
  OBVIOUS
<1>1. Amount(t, v) = DNAN
  <2>1. CASE dst = "COUNTER"
    BY <2>1 DEF Amount
  <2>2. CASE dst = "DERIVE"
    BY <2>2 DEF Amount
  <2> QED BY <2>1, <2>2
<1>2. NewRate(t, v) = DNAN
  BY <1>1 DEF NewRate, Over, isnan
<1> QED BY <1>2 DEF isnan

LEMMA AcceptedRates ==
    ASSUME RateInv, NEW t \in Nat, NEW v \in KnownReadings, Accepted(t, v, NewRate(t, v)),
           dst' = dst, refused' = refused
    PROVE  refused' = 0 => LastReading' /\ Rates'
<1> SUFFICES ASSUME refused = 0 PROVE LastReading' /\ Rates'
  OBVIOUS
<1> DEFINE n == Len(samples)
           rate == NewRate(t, v)
<1>1. /\ n \in Nat /\ Types /\ LastReading /\ Rates
  BY DEF RateInv, Types, DsOK
<1>2. /\ Len(samples') = n + 1 /\ last_ds' = v
      /\ samples'[n + 1] = [from |-> last_up, to |-> t, type |-> dst, reading |-> v, rate |-> rate]
      /\ \A i \in 1 .. n : samples'[i] = samples[i]
  BY <1>1, RateType, AcceptedType, Zenon
<1>3. samples'[n + 1].type = dst /\ samples'[n + 1].reading = v /\ samples'[n + 1].rate = rate
  BY <1>2
<1>4. dst \in {"COUNTER", "DERIVE"} /\ ~ isnan(rate)
      => n >= 1 /\ samples[n].type = dst /\ samples[n].reading # U
  BY <1>1, RateNeedsReading DEF LastReading
<1> HIDE DEF n, rate
<1>5. LastReading'
  BY <1>1, <1>2, <1>3 DEF LastReading
<1>6. ASSUME NEW i \in 1 .. n + 1,
             samples'[i].type \in {"COUNTER", "DERIVE"}, ~ isnan(samples'[i].rate)
      PROVE  i > 1 /\ samples'[i - 1].type = samples'[i].type /\ samples'[i - 1].reading # U
  <2>1. CASE i \in 1 .. n
    <3>1. samples'[i] = samples[i]
      BY <1>2, <2>1
    <3>2. i > 1 /\ samples[i - 1].type = samples[i].type /\ samples[i - 1].reading # U
      BY <1>1, <1>6, <2>1, <3>1 DEF Rates, n
    <3>3. samples'[i - 1] = samples[i - 1]
      BY <1>1, <1>2, <2>1, <3>2
    <3> QED BY <3>1, <3>2, <3>3
  <2>2. CASE i = n + 1
    <3>1. n >= 1 /\ samples[n].type = dst /\ samples[n].reading # U
      BY <1>3, <1>4, <1>6, <2>2
    <3>2. i - 1 = n /\ i > 1 /\ samples'[n] = samples[n]
      BY <1>1, <1>2, <2>2, <3>1
    <3> QED BY <1>3, <2>2, <3>1, <3>2
  <2> QED BY <1>1, <2>1, <2>2
<1>7. Rates'
  BY <1>2, <1>6 DEF Rates
<1> QED BY <1>5, <1>7

LEMMA RateStep == RateInv /\ [FileNext]_fileVars => RateInv'
<1> SUFFICES ASSUME RateInv, [FileNext]_fileVars PROVE RateInv'
  OBVIOUS
<1>1. Types /\ Types'
  BY FileTypes DEF RateInv
<1> SUFFICES refused' = 0 => LastReading' /\ Rates'
  BY <1>1 DEF RateInv
<1>2. ASSUME UNCHANGED <<dst, last_ds, samples, refused>>
      PROVE  refused' = 0 => LastReading' /\ Rates'
  BY <1>2 DEF RateInv, LastReading, Rates
<1>3. CASE Next
  <2> SUFFICES ASSUME NEW t \in Times, NEW v \in Readings[dst] \union {U},
                      SimpleUpdate(t, v) \/ StepUpdate(t, v) \/ RefusedUpdate(t, v)
               PROVE  refused' = 0 => LastReading' /\ Rates'
    BY <1>3 DEF Next
  <2>1. t \in Nat /\ v \in KnownReadings
    BY <1>1, NextReading
  <2>2. CASE SimpleUpdate(t, v) \/ StepUpdate(t, v)
    <3>1. Accepted(t, v, NewRate(t, v)) /\ dst' = dst /\ refused' = refused
      BY <2>2 DEF SimpleUpdate, StepUpdate
    <3> QED BY <2>1, <3>1, AcceptedRates
  \* What is refused is counted.
  <2>3. CASE RefusedUpdate(t, v)
    <3>1. refused' = refused + 1 /\ refused \in Nat
      BY <1>1, <2>3, Constants DEF RefusedUpdate, Types, DsOK
    <3> QED BY <3>1
  <2> QED BY <2>2, <2>3
<1>4. ASSUME NEW type \in DsTypes, Tune(type)
      PROVE  refused' = 0 => LastReading' /\ Rates'
  <2>1. last_ds' = U /\ samples' = samples /\ refused' = refused
    BY <1>4 DEF Tune, Edit
  <2> QED BY <2>1 DEF RateInv, LastReading, Rates
<1>5. ASSUME NEW z \in Resizes, Grow(z.rra, z.rows) \/ Shrink(z.rra, z.rows)
      PROVE  refused' = 0 => LastReading' /\ Rates'
  <2>1. UNCHANGED <<dst, last_ds, samples, refused>>
    BY <1>5 DEF Grow, Shrink, Edit
  <2> QED BY <1>2, <2>1
<1>6. ASSUME NEW range_check \in BOOLEAN, Restore(range_check)
      PROVE  refused' = 0 => LastReading' /\ Rates'
  <2>1. UNCHANGED <<dst, last_ds, samples, refused>>
    BY <1>6 DEF Restore, DumpedDs
  <2> QED BY <1>2, <2>1
<1>7. CASE UNCHANGED fileVars
  BY <1>2, <1>7 DEF fileVars, vars
<1> QED BY <1>3, <1>4, <1>5, <1>6, <1>7 DEF FileNext

(* A counter's rate is taken between readings of the counter, whatever     *)
(* rrd_tune, rrd_resize and rrd_restore did in between: rrd_tune makes the *)
(* last reading unknown along with the type it changes.  What breaks it is *)
(* an update that is refused at a later data source, and only that.        *)
THEOREM RatesAreOfOneSource == FileSpec => []RateIsOfOneSource
<1>1. FileInit => RateInv
  <2> SUFFICES ASSUME FileInit PROVE RateInv
    OBVIOUS
  <2>1. Types /\ last_ds = U /\ samples = <<>>
    BY InitTypes DEF FileInit, Init
  <2>2. Len(samples) = 0
    BY <2>1, EmptySeq
  <2> QED BY <2>1, <2>2 DEF RateInv, LastReading, Rates
<1>2. RateInv /\ [FileNext]_fileVars => RateInv'
  BY RateStep
<1>3. RateInv => RateIsOfOneSource
  <2> SUFFICES ASSUME RateInv PROVE RateIsOfOneSource
    OBVIOUS
  <2>1. DOMAIN samples = 1 .. Len(samples)
    BY DEF RateInv, Types, DsOK
  <2> QED BY <2>1 DEF RateInv, RateIsOfOneSource, Rates
<1> QED BY <1>1, <1>2, <1>3, PTL DEF FileSpec

-----------------------------------------------------------------------------
(* rrd_fetch_fn.                                                           *)

\* The first of those for which f, and then g, is least.
LEMMA FirstLeast ==
    ASSUME NEW M, M \subseteq Nat, M # {}, NEW f \in [M -> Nat], NEW g \in [M -> Nat]
    PROVE  \E i \in M : \A j \in M :
              f[i] < f[j] \/ (f[i] = f[j] /\ (g[i] < g[j] \/ (g[i] = g[j] /\ i <= j)))
<1> DEFINE F == {f[j] : j \in M}
<1>1. PICK i1 \in M : \A j \in M : f[i1] <= f[j]
  <2>1. F \subseteq Nat /\ F # {}
    OBVIOUS
  <2> HIDE DEF F
  <2>2. PICK x \in F : \A y \in F : x <= y
    BY <2>1, LeastNumber
  <2> QED BY <2>2 DEF F
<1> DEFINE N == {j \in M : f[j] = f[i1]}
           G == {g[j] : j \in N}
<1>2. PICK i2 \in N : \A j \in N : g[i2] <= g[j]
  <2>1. G \subseteq Nat /\ G # {}
    OBVIOUS
  <2> HIDE DEF G
  <2>2. PICK x \in G : \A y \in G : x <= y
    BY <2>1, LeastNumber
  <2> QED BY <2>2 DEF G
<1> DEFINE K == {j \in N : g[j] = g[i2]}
<1>3. PICK i \in K : \A j \in K : i <= j
  <2>1. K \subseteq Nat /\ K # {}
    BY <1>2
  <2> HIDE DEF K
  <2> QED BY <2>1, LeastNumber
<1>4. i \in M /\ f[i] = f[i1] /\ g[i] = g[i2]
  BY <1>3
<1>5. ASSUME NEW j \in M
      PROVE  f[i] < f[j] \/ (f[i] = f[j] /\ (g[i] < g[j] \/ (g[i] = g[j] /\ i <= j)))
  <2>1. f[i] \in Nat /\ f[j] \in Nat /\ g[i] \in Nat /\ g[j] \in Nat /\ f[i] <= f[j]
    BY <1>1, <1>4
  <2>2. f[j] = f[i] => g[i] <= g[j]
    BY <1>2, <1>4
  <2>3. f[j] = f[i] /\ g[j] = g[i] => i <= j
    BY <1>3, <1>4
  <2> QED BY <2>1, <2>2, <2>3
<1> QED BY <1>4, <1>5

\* The rows of an archive lie on multiples of its step.
LEMMA Spans ==
    ASSUME Types, NEW a \in Archives
    PROVE  /\ RowSpan(a) \in Nat \ {0} /\ CalEnd(a) \in Int /\ CalStart(a) \in Int
           /\ CalEnd(a) = (last_up \div RowSpan(a)) * RowSpan(a)
           /\ last_up \div RowSpan(a) \in Int
           /\ Complete(a) * Step = CalEnd(a)
<1>1. /\ Step \in Nat \ {0} /\ PdpCnt(a) \in Nat \ {0} /\ last_up \in Nat
      /\ RowCnt(a) \in Nat
  BY Constants, ArchiveFacts DEF Types, DsOK
<1>2. /\ RowSpan(a) \in Nat \ {0}
      /\ ((last_up \div Step) - ((last_up \div Step) % PdpCnt(a))) * Step
         = last_up - (last_up % RowSpan(a))
  BY <1>1, DivDiv DEF RowSpan
<1> DEFINE s == RowSpan(a)
<1> HIDE DEF s
<1>3. /\ last_up \div s \in Int /\ last_up % s \in 0 .. s - 1
      /\ last_up = (last_up \div s) * s + (last_up % s)
  <2>1. last_up \in Int /\ s \in Nat \ {0}
    BY <1>1, <1>2 DEF s
  <2> QED BY <2>1, DivMod
<1>4. CalEnd(a) = last_up - (last_up % s)
  BY DEF CalEnd, s
<1>5. CalEnd(a) = (last_up \div s) * s /\ CalEnd(a) \in Int
  <2> DEFINE d == last_up \div s
             m == last_up % s
  <2>1. d \in Int /\ m \in Int /\ last_up = d * s + m /\ d * s \in Int
    BY <1>1, <1>2, <1>3, Product DEF s
  <2>2. CalEnd(a) = last_up - m
    BY <1>4
  <2> HIDE DEF d, m
  <2>3. CalEnd(a) = d * s /\ CalEnd(a) \in Int
    BY <1>1, <2>1, <2>2
  <2> QED BY <2>3 DEF d
<1>6. CalStart(a) \in Int
  <2>1. RowCnt(a) * RowSpan(a) \in Int
    BY <1>1, <1>2, Product
  <2> QED BY <1>5, <2>1 DEF CalStart
<1>7. Complete(a) * Step = CalEnd(a)
  BY <1>2 DEF Complete, Now, CalEnd
<1> QED BY <1>2, <1>3, <1>5, <1>6, <1>7 DEF s

\* One archive of the consolidation function is the first of the best.
LEMMA Chosen ==
    ASSUME Types, NEW q \in Queries, NEW cf, \E a \in Archives : rra_def[a].cf = cf
    PROVE  ChosenRra(cf, q) \in Archives
<1> DEFINE M == Matching(cf)
           First(i) == \A j \in M \ {i} :
                          IF j < i THEN Better(RraOrder[i], RraOrder[j], q)
                          ELSE ~ Better(RraOrder[j], RraOrder[i], q)
           diff == [i \in M |-> StepDiff(RraOrder[i], q)]
<1>1. M \subseteq Nat /\ M # {} /\ \A i \in M : RraOrder[i] \in Archives
  BY OrderAssumption DEF Matching
<1>2. q.start \in Nat /\ q.step \in Nat
  BY QueriesAssumption
<1>3. \A i \in M : CalStart(RraOrder[i]) \in Int /\ StepDiff(RraOrder[i], q) \in Nat
  BY <1>1, <1>2, Spans DEF StepDiff
<1> DEFINE Full == {i \in M : FullMatch(RraOrder[i], q)}
<1> HIDE DEF M
<1>4. ASSUME Full # {} PROVE \E i \in M : First(i)
  <2> DEFINE zero == [i \in Full |-> 0]
             fd == [i \in Full |-> diff[i]]
  <2>1. Full \subseteq Nat /\ zero \in [Full -> Nat] /\ fd \in [Full -> Nat]
    BY <1>1, <1>3
  <2>2. PICK i \in Full : \A j \in Full :
           zero[i] < zero[j] \/ (zero[i] = zero[j] /\ (fd[i] < fd[j] \/ (fd[i] = fd[j] /\ i <= j)))
    <3> HIDE DEF Full, zero, fd
    <3> QED BY <1>4, <2>1, FirstLeast
  <2>3. \A j \in Full : diff[i] < diff[j] \/ (diff[i] = diff[j] /\ i <= j)
    BY <2>2
  <2>4. i \in M /\ FullMatch(RraOrder[i], q)
    OBVIOUS
  <2>5. ASSUME NEW j \in M \ {i}
        PROVE  IF j < i THEN Better(RraOrder[i], RraOrder[j], q)
               ELSE ~ Better(RraOrder[j], RraOrder[i], q)
    <3>1. i \in Nat /\ j \in Nat /\ diff[i] \in Nat /\ diff[j] \in Nat
          /\ diff[i] = StepDiff(RraOrder[i], q) /\ diff[j] = StepDiff(RraOrder[j], q)
      BY <1>1, <1>3, <2>4
    <3>2. FullMatch(RraOrder[j], q) => diff[i] < diff[j] \/ (diff[i] = diff[j] /\ i <= j)
      BY <2>3
    <3> HIDE DEF diff
    <3> QED BY <2>4, <3>1, <3>2 DEF Better
  <2> QED BY <2>4, <2>5
<1>5. ASSUME Full = {} PROVE \E i \in M : First(i)
  <2> DEFINE from == [i \in M |-> CalStart(RraOrder[i])]
  <2>1. \A i \in M : CalStart(RraOrder[i]) \in Nat
    BY <1>2, <1>3, <1>5 DEF FullMatch
  <2>2. from \in [M -> Nat] /\ diff \in [M -> Nat]
    BY <1>3, <2>1
  <2>3. PICK i \in M : \A j \in M :
           from[i] < from[j] \/ (from[i] = from[j] /\ (diff[i] < diff[j] \/ (diff[i] = diff[j] /\ i <= j)))
    <3> HIDE DEF from, diff
    <3> QED BY <1>1, <2>2, FirstLeast
  <2>4. ASSUME NEW j \in M \ {i}
        PROVE  IF j < i THEN Better(RraOrder[i], RraOrder[j], q)
               ELSE ~ Better(RraOrder[j], RraOrder[i], q)
    <3>1. /\ i \in Nat /\ j \in Nat /\ diff[i] \in Nat /\ diff[j] \in Nat
          /\ from[i] \in Nat /\ from[j] \in Nat
          /\ diff[i] = StepDiff(RraOrder[i], q) /\ diff[j] = StepDiff(RraOrder[j], q)
          /\ from[i] = CalStart(RraOrder[i]) /\ from[j] = CalStart(RraOrder[j])
      BY <1>1, <1>3, <2>1
    <3>2. ~ FullMatch(RraOrder[i], q) /\ ~ FullMatch(RraOrder[j], q)
      BY <1>5
    <3>3. from[i] < from[j]
          \/ (from[i] = from[j] /\ (diff[i] < diff[j] \/ (diff[i] = diff[j] /\ i <= j)))
      BY <2>3
    <3> HIDE DEF from, diff
    <3> QED BY <3>1, <3>2, <3>3 DEF Better
  <2> QED BY <2>4
<1>6. \E i \in M : First(i)
  BY <1>4, <1>5
<1> DEFINE chosen == CHOOSE i \in M : First(i)
<1>7. chosen \in M
  <2> HIDE DEF First
  <2> QED BY <1>6
<1>8. ChosenRra(cf, q) = RraOrder[chosen]
  BY DEF ChosenRra, M
<1> HIDE DEF chosen
<1> QED BY <1>1, <1>7, <1>8

\* The window in rows of the archive.
LEMMA WindowRows ==
    ASSUME Types, NEW a \in Archives, NEW q \in Queries
    PROVE  \E s, n, e \in Int :
              LET w == Window(a, q)
                  step == RowSpan(a)
              IN  /\ s < n /\ w.start = s * step /\ w.end = n * step /\ CalEnd(a) = e * step
                  /\ w.start <= q.start /\ q.end < w.end
                  /\ w.start_offset = s - e + RowCnt(a) /\ w.end_offset = e - n
<1> DEFINE step == RowSpan(a)
           R == RowCnt(a)
           s == q.start \div step
           k == q.end \div step
           e == last_up \div step
           rs == q.start % step
           rk == q.end % step
           start == q.start - rs
           end == q.end + (step - rk)
<1>1. /\ step \in Nat \ {0} /\ e \in Int /\ CalEnd(a) = e * step /\ R \in Nat
      /\ q.start \in Nat /\ q.end \in Nat /\ q.start <= q.end
  BY Spans, ArchiveFacts, QueriesAssumption
<1>2. Window(a, q) = [start |-> start, end |-> end,
         start_offset |-> (start + step - (CalEnd(a) - step * (R - 1))) \div step,
         end_offset |-> (CalEnd(a) - end) \div step]
  BY Zenon DEF Window
<1> HIDE DEF step, R, e
<1>3. s \in Int /\ k \in Int /\ rs \in 0 .. step - 1 /\ rk \in 0 .. step - 1
      /\ q.start = s * step + rs /\ q.end = k * step + rk
  <2>1. q.start \in Int /\ q.end \in Int
    BY <1>1
  <2> QED BY <1>1, <2>1, DivMod
<1> HIDE DEF s, k, rs, rk
<1>4. start = s * step /\ start <= q.start
  BY <1>1, <1>3
<1>5. end = (k + 1) * step /\ q.end < end
  BY <1>1, <1>3
<1>6. s < k + 1
  <2> SUFFICES ASSUME k + 1 <= s PROVE FALSE
    BY <1>3
  <2>1. (k + 1) * step <= s * step
    BY <1>1, <1>3, Monotone
  <2> QED BY <1>1, <1>3, <2>1
<1> HIDE DEF start, end
<1>7. (start + step - (CalEnd(a) - step * (R - 1))) \div step = s - e + R
  <2>1. start + step - (CalEnd(a) - step * (R - 1)) = (s - e + R) * step + 0
    BY <1>1, <1>3, <1>4
  <2>2. s - e + R \in Int /\ 0 \in 0 .. step - 1
    BY <1>1, <1>3
  <2> QED BY <1>1, <2>1, <2>2, DivUnique
<1>8. (CalEnd(a) - end) \div step = e - (k + 1)
  <2>1. CalEnd(a) - end = (e - (k + 1)) * step + 0
    BY <1>1, <1>3, <1>5
  <2>2. e - (k + 1) \in Int /\ 0 \in 0 .. step - 1
    BY <1>1, <1>3
  <2> QED BY <1>1, <2>1, <2>2, DivUnique
<1>9. /\ s \in Int /\ k + 1 \in Int /\ e \in Int
      /\ Window(a, q).start = start /\ Window(a, q).end = end
      /\ Window(a, q).start_offset = s - e + R /\ Window(a, q).end_offset = e - (k + 1)
  BY <1>1, <1>2, <1>3, <1>7, <1>8
<1> DEFINE n == k + 1
<1>10. /\ s \in Int /\ n \in Int /\ e \in Int /\ s < n
       /\ Window(a, q).start = s * RowSpan(a) /\ Window(a, q).end = n * RowSpan(a)
       /\ CalEnd(a) = e * RowSpan(a)
       /\ Window(a, q).start <= q.start /\ q.end < Window(a, q).end
       /\ Window(a, q).start_offset = s - e + RowCnt(a) /\ Window(a, q).end_offset = e - n
  BY <1>1, <1>4, <1>5, <1>6, <1>9 DEF step, R
<1> HIDE DEF n
<1> QED BY <1>10

\* The k-th value is that of the row that many rows behind the current one.
LEMMA CellOfRow ==
    ASSUME NEW a, NEW w, NEW i \in Int, NEW back \in Int, RowCnt(a) \in Nat \ {0},
           cur_row[a] \in Nat, w.start_offset \in Int, back = RowCnt(a) - 1 - i
    PROVE  Cell(a, w, i) = IF back \in 0 .. RowCnt(a) - 1
                           THEN rows[a][(cur_row[a] + RowCnt(a) - back) % RowCnt(a)]
                           ELSE DNAN
<1> DEFINE R == RowCnt(a)
           so == w.start_offset
           skipped == IF so < 0 THEN 0 ELSE so
           x == cur_row[a] + 1 + skipped
           y == i - skipped
<1>1. R \in Nat \ {0} /\ so \in Int /\ skipped \in Int /\ x \in Int /\ y \in Int
      /\ (IF so <= 0 THEN 0 ELSE so) = skipped
  OBVIOUS
<1>2. FirstPointer(a, so) = x % R
  BY <1>1 DEF FirstPointer
<1>3. x + y = cur_row[a] + R - back
  OBVIOUS
<1>4. ((x % R) + y) % R = (x + y) % R
  <2> HIDE DEF R, x, y
  <2> QED BY <1>1, ModPlus
<1>5. (FirstPointer(a, so) + i - skipped) % R = (cur_row[a] + R - back) % R
  <2>1. (FirstPointer(a, so) + y) % R = (x + y) % R
    BY <1>2, <1>4
  <2> QED BY <1>3, <2>1
<1>6. Cell(a, w, i) = IF i < 0 \/ i >= R THEN DNAN
                      ELSE rows[a][(FirstPointer(a, so) + i - skipped) % R]
  BY Zenon DEF Cell
<1>7. back \in 0 .. R - 1 <=> ~ (i < 0 \/ i >= R)
  OBVIOUS
<1> HIDE DEF R, so, skipped, x, y
<1>8. CASE back \in 0 .. R - 1
  BY <1>5, <1>6, <1>7, <1>8 DEF R
<1>9. CASE ~ (back \in 0 .. R - 1)
  BY <1>6, <1>7, <1>9 DEF R
<1> QED BY <1>8, <1>9 DEF R

LEMMA ReadRows ==
    ASSUME Types, NEW a \in Archives, NEW q \in Queries
    PROVE  /\ Window(a, q).start <= q.start /\ q.end < Window(a, q).end
           /\ RowsOfTheirTimes(Read(a, Window(a, q)))
<1> DEFINE w == Window(a, q)
           answer == Read(a, w)
           S == RowSpan(a)
           R == RowCnt(a)
<1>1. PICK s \in Int, n \in Int, e \in Int :
          /\ s < n /\ w.start = s * S /\ w.end = n * S /\ CalEnd(a) = e * S
          /\ w.start <= q.start /\ q.end < w.end
          /\ w.start_offset = s - e + R /\ w.end_offset = e - n
  BY WindowRows
<1>2. /\ S \in Nat \ {0} /\ R \in Nat \ {0} /\ cur_row[a] \in Nat
      /\ Complete(a) * Step = CalEnd(a)
  BY Spans, ArchiveFacts
<1>3. /\ answer.rra = a /\ answer.start = w.start /\ answer.end = w.end /\ answer.step = S
      /\ answer.data = [k \in 1 .. R - w.end_offset - w.start_offset |->
                           Cell(a, w, w.start_offset + k - 1)]
  BY DEF Read
<1> HIDE DEF w, answer, S, R
<1>4. R - w.end_offset - w.start_offset = n - s /\ n - s \in Nat
  BY <1>1, <1>2
<1>5. DOMAIN answer.data = 1 .. n - s /\ Len(answer.data) = n - s
  BY <1>3, <1>4
<1>6. (answer.end - answer.start) \div answer.step = n - s
  <2>1. answer.end - answer.start = (n - s) * S + 0 /\ 0 \in 0 .. S - 1
    BY <1>1, <1>2, <1>3
  <2> QED BY <1>2, <1>3, <1>4, <2>1, DivUnique, SMTT(30)
<1> DEFINE back(k) == (Complete(a) * Step - answer.start - k * answer.step) \div answer.step
<1>7. ASSUME NEW k \in 1 .. n - s
      PROVE  answer.data[k] = IF back(k) \in 0 .. R - 1
                              THEN rows[a][(cur_row[a] + R - back(k)) % R] ELSE DNAN
  <2> DEFINE i == w.start_offset + k - 1
             b == e - s - k
  <2>1. Complete(a) * Step - answer.start - k * answer.step = b * S + 0 /\ 0 \in 0 .. S - 1
    BY <1>1, <1>2, <1>3
  <2>2. b \in Int /\ i \in Int /\ w.start_offset \in Int /\ b = R - 1 - i
    BY <1>1, <1>2
  <2>3. back(k) = b
    <3> HIDE DEF b
    <3>1. (b * S + 0) \div S = b
      BY <1>2, <2>1, <2>2, DivUnique
    <3> QED BY <1>3, <2>1, <3>1
  <2>4. answer.data[k] = Cell(a, w, i)
    BY <1>3, <1>4
  <2> HIDE DEF i, b, back
  <2>5. Cell(a, w, i) = IF b \in 0 .. R - 1 THEN rows[a][(cur_row[a] + R - b) % R] ELSE DNAN
    BY <1>2, <2>2, CellOfRow DEF R
  <2> QED BY <2>3, <2>4, <2>5
<1>8. RowsOfTheirTimes(answer)
  <2> HIDE DEF back
  <2>1. \A k \in DOMAIN answer.data :
           answer.data[k] = IF back(k) \in 0 .. RowCnt(a) - 1
                            THEN rows[a][(cur_row[a] + RowCnt(a) - back(k)) % RowCnt(a)] ELSE DNAN
    BY <1>5, <1>7 DEF R
  <2> QED BY <1>3, <1>5, <1>6, <2>1 DEF RowsOfTheirTimes, back
<1> QED BY <1>1, <1>8 DEF w, answer

(* The values of a fetch come from the rows of their times, and there are  *)
(* as many as the times say, for any archives, any window and any position *)
(* of the rings, however the file was tuned, resized and restored          *)
(* (rrd_fetch_fn).                                                         *)
THEOREM FetchReadsRightRows == FileSpec => []FetchReadsTheRowOfTheTime
<1>1. FileInit => Types
  BY InitTypes DEF FileInit
<1>2. Types /\ [FileNext]_fileVars => Types'
  BY FileTypes
<1>3. Types => FetchReadsTheRowOfTheTime
  <2> SUFFICES ASSUME Types, NEW b \in Archives, NEW q \in Queries
               PROVE  LET answer == Fetch(rra_def[b].cf, q)
                      IN  /\ answer.start <= q.start /\ q.end < answer.end
                          /\ RowsOfTheirTimes(answer)
    BY DEF FetchReadsTheRowOfTheTime
  <2> DEFINE a == ChosenRra(rra_def[b].cf, q)
  <2>1. a \in Archives
    BY Chosen
  <2> HIDE DEF a
  <2>2. Read(a, Window(a, q)).start = Window(a, q).start
        /\ Read(a, Window(a, q)).end = Window(a, q).end
    BY DEF Read
  <2>3. Fetch(rra_def[b].cf, q) = Read(a, Window(a, q))
    BY DEF Fetch, a
  <2> QED BY <2>1, <2>2, <2>3, ReadRows
<1> QED BY <1>1, <1>2, <1>3, PTL DEF FileSpec

-----------------------------------------------------------------------------
(* Fractions in lowest terms: the sum does not depend on the order.        *)

\* A number is known by what it is a product of: the only way to cancel.
LEMMA Cancel ==
    ASSUME NEW g \in Nat \ {0}, NEW x \in Int, NEW y \in Int, x * g = y * g
    PROVE  x = y
<1>1. ~ (x < y)
  <2> SUFFICES ASSUME x + 1 <= y PROVE FALSE
    OBVIOUS
  <2>1. (x + 1) * g <= y * g
    BY Monotone
  <2> QED BY <2>1
<1>2. ~ (y < x)
  <2> SUFFICES ASSUME y + 1 <= x PROVE FALSE
    OBVIOUS
  <2>1. (y + 1) * g <= x * g
    BY Monotone
  <2> QED BY <2>1
<1> QED BY <1>1, <1>2

LEMMA DivExact ==
    ASSUME NEW g \in Nat \ {0}, NEW q \in Int
    PROVE  (q * g) \div g = q
<1>1. 0 \in 0 .. g - 1 /\ q * g + 0 = q * g
  OBVIOUS
<1> QED BY <1>1, DivUnique

LEMMA GcdStep ==
    ASSUME NEW b \in Nat, NEW a \in Nat
    PROVE  Gcd[b][a] = IF b = 0 THEN a ELSE Gcd[a % b][b]
<1>1. Gcd[b] = [x \in Nat |-> IF b = 0 THEN x ELSE Gcd[x % b][b]]
  BY GcdRecursion
<1> QED BY <1>1

LEMMA GcdDivides ==
    ASSUME NEW b \in Nat, NEW a \in Nat
    PROVE  \E p, q \in Nat : a = p * Gcd[b][a] /\ b = q * Gcd[b][a]
<1> DEFINE Divides(k, x) == \E p, q \in Nat : x = p * Gcd[k][x] /\ k = q * Gcd[k][x]
           N == {k \in Nat : \E x \in Nat : ~ Divides(k, x)}
<1> SUFFICES ASSUME N # {} PROVE FALSE
  OBVIOUS
<1>1. PICK k \in N : \A l \in N : k <= l
  <2>1. N \subseteq Nat
    OBVIOUS
  <2> HIDE DEF N
  <2> QED BY <2>1, LeastNumber
<1>2. PICK x \in Nat : ~ Divides(k, x)
  OBVIOUS
<1>3. k \in Nat
  OBVIOUS
<1>4. CASE k = 0
  <2>1. Gcd[k][x] = x
    BY <1>3, <1>4, GcdStep
  <2>2. x = 1 * x /\ k = 0 * x
    BY <1>4
  <2> QED BY <1>2, <2>1, <2>2
<1>5. CASE k # 0
  <2> DEFINE g == Gcd[k][x]
             r == x % k
             d == x \div k
  <2>1. r \in Nat /\ r < k /\ d \in Nat /\ x = d * k + r
    <3> HIDE DEF N
    <3>1. k \in Nat \ {0}
      BY <1>3, <1>5
    <3>2. d \in Nat
      BY <3>1, DivNat
    <3>3. r \in 0 .. k - 1 /\ x = d * k + r
      BY <3>1, DivMod
    <3> QED BY <3>1, <3>2, <3>3
  <2>2. g = Gcd[r][k] /\ g \in Nat
    BY <1>3, <1>5, GcdStep, GcdType
  <2> HIDE DEF Divides
  <2>3. r \notin N
    BY <1>1, <1>3, <2>1
  <2>4. Divides(r, k)
    BY <1>3, <2>1, <2>3
  <2> HIDE DEF N, r, d, g
  <2>5. PICK p, q \in Nat : k = p * g /\ r = q * g
    BY <2>2, <2>4 DEF Divides
  <2>6. d * p + q \in Nat
    BY <2>1, <2>5, Product
  <2>7. (d * p + q) * g = d * (p * g) + q * g
    BY <2>1, <2>2, <2>5
  <2>8. x = (d * p + q) * g
    BY <2>1, <2>5, <2>7
  <2> QED BY <1>2, <2>5, <2>6, <2>8 DEF Divides, g
<1> QED BY <1>4, <1>5

LEMMA GcdScales ==
    ASSUME NEW m \in Nat \ {0}, NEW b \in Nat, NEW a \in Nat
    PROVE  Gcd[m * b][m * a] = m * Gcd[b][a]
<1> DEFINE N == {k \in Nat : \E x \in Nat : Gcd[m * k][m * x] # m * Gcd[k][x]}
<1> SUFFICES ASSUME N # {} PROVE FALSE
  OBVIOUS
<1>1. PICK k \in N : \A l \in N : k <= l
  <2>1. N \subseteq Nat
    OBVIOUS
  <2> HIDE DEF N
  <2> QED BY <2>1, LeastNumber
<1>2. PICK x \in Nat : Gcd[m * k][m * x] # m * Gcd[k][x]
  OBVIOUS
<1>3. k \in Nat /\ m * k \in Nat /\ m * x \in Nat /\ (m * k = 0 <=> k = 0)
  <2>1. k \in Nat
    OBVIOUS
  <2> QED BY <2>1, Product
<1>4. CASE k = 0
  BY <1>2, <1>3, <1>4, GcdStep
<1>5. CASE k # 0
  <2> DEFINE r == x % k
             d == x \div k
  <2>1. r \in Nat /\ r <= k - 1 /\ d \in Nat /\ x = d * k + r
    <3> HIDE DEF N
    <3>1. k \in Nat \ {0}
      BY <1>3, <1>5
    <3>2. d \in Nat
      BY <3>1, DivNat
    <3>3. r \in 0 .. k - 1 /\ x = d * k + r
      BY <3>1, DivMod
    <3> QED BY <3>1, <3>2, <3>3
  <2>2. r \notin N
    BY <1>1, <1>3, <2>1
  <2>3. Gcd[m * r][m * k] = m * Gcd[r][k]
    BY <1>3, <2>1, <2>2
  <2>4. Gcd[k][x] = Gcd[r][k] /\ Gcd[m * k][m * x] = Gcd[(m * x) % (m * k)][m * k]
    BY <1>3, <1>5, GcdStep
  <2> HIDE DEF N, r, d
  <2>5. m * r \in 0 .. m * k - 1
    <3>1. (r + 1) * m <= k * m /\ 0 <= r * m
      BY <1>3, <2>1, Monotone, Product
    <3> QED BY <1>3, <2>1, <3>1
  <2>6. m * x = d * (m * k) + m * r
    BY <1>3, <2>1
  <2>7. (m * x) % (m * k) = m * r
    <3>1. m * k \in Nat \ {0} /\ d \in Int
      BY <1>3, <1>5, <2>1
    <3>2. (d * (m * k) + m * r) % (m * k) = m * r
      BY <2>5, <3>1, DivUnique, Zenon
    <3> QED BY <2>6, <3>2
  <2> QED BY <1>2, <2>3, <2>4, <2>7
<1> QED BY <1>4, <1>5

Abs(n) == IF n < 0 THEN -n ELSE n
Fractions == {x \in Values : x[2] > 0 /\ Gcd[x[2]][Abs(x[1])] = 1}

LEMMA RatioOf ==
    ASSUME NEW n \in Int, NEW d \in Nat \ {0}
    PROVE  /\ Gcd[d][Abs(n)] \in Nat \ {0}
           /\ Ratio(n, d) = <<n \div Gcd[d][Abs(n)], d \div Gcd[d][Abs(n)]>>
<1>1. Abs(n) \in Nat /\ Abs(n) = IF n < 0 THEN -n ELSE n
  BY DEF Abs
<1>2. Gcd[d][Abs(n)] \in Nat \ {0}
  BY <1>1, GcdType
<1>3. ~ (d < 0) /\ d # 0
  OBVIOUS
<1> QED BY <1>1, <1>2, <1>3 DEF Ratio

\* What is left when the greatest common divisor is taken out.
LEMMA RatioParts ==
    ASSUME NEW n \in Int, NEW d \in Nat \ {0}
    PROVE  \E g \in Nat \ {0} :
              /\ g = Gcd[d][Abs(n)] /\ Ratio(n, d) \in Fractions
              /\ n = Ratio(n, d)[1] * g /\ d = Ratio(n, d)[2] * g
<1> DEFINE g == Gcd[d][Abs(n)]
<1>1. g \in Nat \ {0} /\ Ratio(n, d) = <<n \div g, d \div g>> /\ Abs(n) \in Nat
  BY RatioOf DEF Abs
<1>2. PICK a, q \in Nat : Abs(n) = a * g /\ d = q * g
  BY <1>1, GcdDivides
<1> DEFINE p == IF n < 0 THEN -a ELSE a
<1>3. p \in Int /\ Abs(p) = a
  BY DEF Abs
<1> HIDE DEF g
<1>4. n = p * g
  BY <1>1, <1>2 DEF Abs
<1> HIDE DEF p
<1>5. n \div g = p /\ d \div g = q
  <2>1. (p * g) \div g = p /\ (q * g) \div g = q /\ q \in Int
    BY <1>1, <1>2, <1>3, DivExact
  <2> QED BY <1>2, <1>4, <2>1
<1>6. q > 0
  <2>1. q # 0
    BY <1>1, <1>2
  <2> QED BY <1>2, <2>1
<1>7. Gcd[q][a] = 1
  <2>1. Gcd[g * q][g * a] = g * Gcd[q][a] /\ Gcd[q][a] \in Nat
    <3>1. g \in Nat \ {0}
      BY <1>1
    <3>2. Gcd[g * q][g * a] = g * Gcd[q][a]
      BY <3>1, GcdScales
    <3>3. Gcd[q][a] \in Nat
      BY GcdType
    <3> QED BY <3>2, <3>3
  <2>2. g * q = d /\ g * a = Abs(n)
    BY <1>1, <1>2
  <2>3. 1 * g = Gcd[q][a] * g
    BY <1>1, <2>1, <2>2 DEF g
  <2> QED BY <1>1, <2>1, <2>3, Cancel
<1>8. Ratio(n, d) = <<p, q>>
  BY <1>1, <1>5
<1>9. <<p, q>> \in Fractions
  BY <1>2, <1>3, <1>6, <1>7 DEF Fractions, Values
<1> QED BY <1>1, <1>2, <1>4, <1>8, <1>9 DEF g

LEMMA RatioScaled ==
    ASSUME NEW n \in Int, NEW d \in Nat \ {0}, NEW m \in Nat \ {0}
    PROVE  Ratio(n * m, d * m) = Ratio(n, d)
<1>1. PICK g \in Nat \ {0} :
         /\ g = Gcd[d][Abs(n)] /\ Ratio(n, d) \in Fractions
         /\ n = Ratio(n, d)[1] * g /\ d = Ratio(n, d)[2] * g
  BY RatioParts
<1> DEFINE x == Ratio(n, d)
           p == x[1]
           q == x[2]
<1>2. x = <<p, q>> /\ p \in Int /\ q \in Nat
  BY <1>1 DEF Fractions, Values
<1>3. n * m \in Int /\ d * m \in Nat \ {0} /\ m * g \in Nat \ {0}
  BY Product
<1>4. Abs(n * m) = m * Abs(n) /\ Abs(n) \in Nat
  <2>1. n < 0 <=> n * m < 0
    <3>1. n >= 0 => n * m >= 0
      BY Product
    <3>2. n <= -1 => n * m <= (-1) * m
      BY Monotone
    <3> QED BY <3>1, <3>2
  <2>2. (-n) * m = -(n * m) /\ n * m = m * n /\ (-n) * m = m * (-n)
    OBVIOUS
  <2> QED BY <2>1, <2>2 DEF Abs
<1>5. Gcd[d * m][Abs(n * m)] = m * g
  <2>1. d * m = m * d
    OBVIOUS
  <2>2. Gcd[m * d][m * Abs(n)] = m * Gcd[d][Abs(n)]
    BY <1>4, GcdScales
  <2> QED BY <1>1, <1>4, <2>1, <2>2
<1> HIDE DEF p, q
<1>6. n * m = p * (m * g) /\ d * m = q * (m * g)
  <2>1. n = p * g /\ d = q * g
    BY <1>1 DEF p, q
  <2>2. (p * g) * m = p * (m * g) /\ (q * g) * m = q * (m * g)
    BY <1>2
  <2> QED BY <2>1, <2>2
<1>7. (n * m) \div (m * g) = p /\ (d * m) \div (m * g) = q
  <2>1. (p * (m * g)) \div (m * g) = p /\ (q * (m * g)) \div (m * g) = q /\ q \in Int
    BY <1>2, <1>3, DivExact
  <2> QED BY <1>6, <2>1
<1>8. Ratio(n * m, d * m) = <<(n * m) \div (m * g), (d * m) \div (m * g)>>
  BY <1>3, <1>5, RatioOf
<1> QED BY <1>2, <1>7, <1>8

LEMMA Fraction ==
    ASSUME NEW x \in Fractions
    PROVE  /\ x = <<x[1], x[2]>> /\ x[1] \in Int /\ x[2] \in Nat \ {0} /\ x \in Values
           /\ ~ isnan(x) /\ Ratio(x[1], x[2]) = x
<1>1. x = <<x[1], x[2]>> /\ x[1] \in Int /\ x[2] \in Nat \ {0} /\ x \in Values
      /\ Gcd[x[2]][Abs(x[1])] = 1
  BY DEF Fractions, Values
<1>2. ~ isnan(x)
  BY <1>1 DEF isnan, DNAN
<1> DEFINE p == x[1]
           q == x[2]
<1>3. Ratio(p, q) = <<p \div 1, q \div 1>>
  BY <1>1, RatioOf
<1> HIDE DEF p, q
<1>4. p \in Int /\ q \in Int
  BY <1>1 DEF p, q
<1>5. (p * 1) \div 1 = p /\ (q * 1) \div 1 = q /\ p * 1 = p /\ q * 1 = q
  BY <1>4, DivExact
<1>6. Ratio(p, q) = <<p, q>>
  BY <1>3, <1>5
<1> QED BY <1>1, <1>2, <1>6 DEF p, q

LEMMA RatioIsFraction ==
    ASSUME NEW n \in Int, NEW d \in Nat \ {0}
    PROVE  Ratio(n, d) \in Fractions
BY RatioParts

LEMMA IntIsFraction ==
    ASSUME NEW n \in Int
    PROVE  Int2Value(n) \in Fractions /\ Int2Value(n) = <<n, 1>> /\ Ratio(n, 1) = Int2Value(n)
<1>1. PICK g \in Nat \ {0} : /\ Ratio(n, 1) \in Fractions
                             /\ n = Ratio(n, 1)[1] * g /\ 1 = Ratio(n, 1)[2] * g
  BY RatioParts
<1> DEFINE x == Ratio(n, 1)
           q == x[2]
<1>2. x = <<x[1], x[2]>> /\ x[1] \in Int /\ x[2] \in Nat \ {0}
  BY <1>1, Fraction
<1>3. g = 1
  <2> SUFFICES ASSUME 2 <= g PROVE FALSE
    OBVIOUS
  <2>1. 1 = q * g /\ q \in Nat \ {0}
    BY <1>1, <1>2
  <2> HIDE DEF q
  <2>2. 1 * g <= q * g
    BY <2>1, Monotone
  <2> QED BY <2>1, <2>2
<1>4. x[1] = n /\ x[2] = 1
  <2> HIDE DEF x
  <2>1. n = x[1] * g /\ 1 = x[2] * g
    BY <1>1 DEF x
  <2> QED BY <1>2, <1>3, <2>1
<1>5. x = <<n, 1>>
  BY <1>2, <1>4
<1> QED BY <1>1, <1>5 DEF Int2Value

\* The ratio with two equal cross products is the same.
LEMMA RatioEqual ==
    ASSUME NEW n \in Int, NEW d \in Nat \ {0}, NEW p \in Int, NEW q \in Nat \ {0}, n * q = p * d
    PROVE  Ratio(n, d) = Ratio(p, q)
<1>1. Ratio(n * q, d * q) = Ratio(n, d) /\ Ratio(p * d, q * d) = Ratio(p, q)
  BY RatioScaled
<1>2. d * q = q * d
  OBVIOUS
<1> QED BY <1>1, <1>2

LEMMA PlusRatio ==
    ASSUME NEW n \in Int, NEW d \in Nat \ {0}, NEW z \in Fractions
    PROVE  /\ Plus(Ratio(n, d), z) = Ratio(n * z[2] + z[1] * d, d * z[2])
           /\ n * z[2] + z[1] * d \in Int /\ d * z[2] \in Nat \ {0}
<1> DEFINE x == Ratio(n, d)
           p == x[1]
           q == x[2]
           e == z[1]
           f == z[2]
<1>1. PICK g \in Nat \ {0} : /\ x \in Fractions /\ n = p * g /\ d = q * g
  BY RatioParts
<1>2. p \in Int /\ q \in Nat \ {0} /\ e \in Int /\ f \in Nat \ {0}
  BY <1>1, Fraction
<1>3. Plus(x, z) = Ratio(p * f + e * q, q * f)
  BY <1>2, PlusIs
<1> HIDE DEF x, p, q, e, f
<1>4. p * f + e * q \in Int /\ q * f \in Nat \ {0} /\ n * f + e * d \in Int /\ d * f \in Nat \ {0}
  <2>1. p * f \in Int /\ e * q \in Int /\ q * f \in Nat \ {0} /\ n * f \in Int /\ e * d \in Int
        /\ d * f \in Nat \ {0}
    BY <1>2, Product
  <2> QED BY <2>1
<1>5. (p * f + e * q) * g = n * f + e * d /\ (q * f) * g = d * f
  <2>1. (p * f + e * q) * g = (p * g) * f + e * (q * g) /\ (q * f) * g = (q * g) * f
    BY <1>2
  <2> QED BY <1>1, <2>1
<1>6. Ratio((p * f + e * q) * g, (q * f) * g) = Ratio(p * f + e * q, q * f)
  BY <1>4, RatioScaled
<1> QED BY <1>3, <1>4, <1>5, <1>6 DEF x, p, q, e, f

LEMMA PlusType ==
    ASSUME NEW x \in Fractions, NEW y \in Fractions
    PROVE  Plus(x, y) \in Fractions /\ Plus(x, y) = Plus(y, x)
<1> DEFINE a == x[1]
           b == x[2]
           c == y[1]
           d == y[2]
<1>1. a \in Int /\ b \in Nat \ {0} /\ c \in Int /\ d \in Nat \ {0}
  BY Fraction
<1>2. Plus(x, y) = Ratio(a * d + c * b, b * d) /\ Plus(y, x) = Ratio(c * b + a * d, d * b)
  BY <1>1, PlusIs
<1> HIDE DEF a, b, c, d
<1>3. a * d \in Int /\ c * b \in Int /\ b * d \in Nat \ {0} /\ b * d = d * b
  BY <1>1, Product
<1>4. a * d + c * b \in Int /\ a * d + c * b = c * b + a * d
  BY <1>3
<1> QED BY <1>2, <1>3, <1>4, RatioIsFraction

LEMMA PlusAssociative ==
    ASSUME NEW x \in Fractions, NEW y \in Fractions, NEW z \in Fractions
    PROVE  Plus(Plus(x, y), z) = Plus(x, Plus(y, z))
<1> DEFINE a == x[1]
           b == x[2]
           c == y[1]
           d == y[2]
           e == z[1]
           f == z[2]
<1>1. a \in Int /\ b \in Nat \ {0} /\ c \in Int /\ d \in Nat \ {0} /\ e \in Int /\ f \in Nat \ {0}
  BY Fraction
<1>2. Plus(x, y) = Ratio(a * d + c * b, b * d) /\ Plus(y, z) = Ratio(c * f + e * d, d * f)
  BY <1>1, PlusIs
<1>3. Plus(x, Plus(y, z)) = Plus(Plus(y, z), x)
  <2>1. Plus(y, z) \in Fractions
    BY PlusType
  <2> QED BY <2>1, PlusType
<1>4. /\ a * d + c * b \in Int /\ b * d \in Nat \ {0}
      /\ c * f + e * d \in Int /\ d * f \in Nat \ {0}
  <2> HIDE DEF a, b, c, d, e, f
  <2>1. a * d \in Int /\ c * b \in Int /\ b * d \in Nat \ {0} /\ c * f \in Int /\ e * d \in Int
        /\ d * f \in Nat \ {0}
    BY <1>1, Product
  <2> QED BY <2>1
<1>5. Plus(Plus(x, y), z) = Ratio((a * d + c * b) * f + e * (b * d), (b * d) * f)
  <2> DEFINE n == a * d + c * b
             m == b * d
  <2> HIDE DEF n, m
  <2>1. n \in Int /\ m \in Nat \ {0} /\ Plus(x, y) = Ratio(n, m)
    BY <1>2, <1>4 DEF n, m
  <2>2. Plus(Ratio(n, m), z) = Ratio(n * f + e * m, m * f)
    BY <2>1, PlusRatio
  <2> QED BY <2>1, <2>2 DEF n, m
<1>6. Plus(Plus(y, z), x) = Ratio((c * f + e * d) * b + a * (d * f), (d * f) * b)
  <2> DEFINE n == c * f + e * d
             m == d * f
  <2> HIDE DEF n, m
  <2>1. n \in Int /\ m \in Nat \ {0} /\ Plus(y, z) = Ratio(n, m)
    BY <1>2, <1>4 DEF n, m
  <2>2. Plus(Ratio(n, m), x) = Ratio(n * b + a * m, m * b)
    BY <2>1, PlusRatio
  <2> QED BY <2>1, <2>2 DEF n, m
<1> HIDE DEF a, b, c, d, e, f
<1>7. (a * d + c * b) * f + e * (b * d) = (c * f + e * d) * b + a * (d * f)
      /\ (b * d) * f = (d * f) * b
  BY <1>1
<1> QED BY <1>3, <1>5, <1>6, <1>7

LEMMA ZeroPlus ==
    ASSUME NEW x \in Fractions
    PROVE  Plus(x, Int2Value(0)) = x /\ Plus(Int2Value(0), x) = x /\ Int2Value(0) \in Fractions
<1>1. Int2Value(0) \in Fractions /\ Int2Value(0)[1] = 0 /\ Int2Value(0)[2] = 1
  BY IntIsFraction
<1>2. Plus(x, Int2Value(0)) = Ratio(x[1] * 1 + 0 * x[2], x[2] * 1)
  BY <1>1, PlusIs
<1>3. x[1] * 1 + 0 * x[2] = x[1] /\ x[2] * 1 = x[2]
  BY Fraction
<1>4. Plus(x, Int2Value(0)) = x
  BY <1>2, <1>3, Fraction
<1> QED BY <1>1, <1>4, PlusType

LEMMA ScaledType ==
    ASSUME NEW x \in Fractions, NEW n \in Int
    PROVE  Scaled(x, n) \in Fractions /\ Scaled(x, 0) = Int2Value(0)
<1>1. x[1] \in Int /\ x[2] \in Nat \ {0}
  BY Fraction
<1>2. Scaled(x, n) \in Fractions
  <2>1. x[1] * n \in Int
    BY <1>1, Product
  <2> QED BY <1>1, <2>1, RatioIsFraction DEF Scaled
<1>3. Scaled(x, 0) = Int2Value(0)
  <2>1. x[1] * 0 = 0 /\ 0 * 1 = 0 * x[2]
    BY <1>1
  <2>2. Ratio(0, x[2]) = Ratio(0, 1)
    BY <1>1, <2>1, RatioEqual
  <2>3. Ratio(0, 1) = Int2Value(0)
    BY IntIsFraction
  <2> QED BY <2>1, <2>2, <2>3 DEF Scaled
<1> QED BY <1>2, <1>3

\* A mean is unknown exactly when it is one over no seconds.
LEMMA OverType ==
    ASSUME NEW x \in Fractions, NEW n \in Nat
    PROVE  /\ n # 0 => Over(x, n) \in Fractions
           /\ Over(Int2Value(0), 0) = DNAN
<1>1. ASSUME n # 0 PROVE Over(x, n) \in Fractions
  <2>1. x[1] \in Int /\ x[2] \in Nat \ {0} /\ ~ isnan(x)
    BY Fraction
  <2>2. x[2] * n \in Nat \ {0}
    BY <1>1, <2>1, Product
  <2> QED BY <2>1, <2>2, RatioIsFraction DEF Over
<1>2. Over(Int2Value(0), 0) = DNAN
  <2>1. ~ isnan(Int2Value(0)) /\ Int2Value(0)[1] = 0 /\ Int2Value(0)[2] * 0 = 0
    BY DEF Int2Value, isnan, DNAN
  <2>2. (0 * 1) \div 1 = 0 /\ 0 * 1 = 0
    BY DivExact
  <2>3. Ratio(0, 0) = <<0 \div 1, 0 \div 1>>
    BY DEF Ratio
  <2> QED BY <2>1, <2>2, <2>3 DEF Over, DNAN
<1> QED BY <1>1, <1>2

-----------------------------------------------------------------------------
(* Sums over finite sets.  The library's folds choose the elements of a    *)
(* set one after the other; for an associative and commutative operation   *)
(* it does not matter which one is taken first.                            *)

Chosen1(s) == CHOOSE e \in s : TRUE
Iterates(h, F, op, zero, S) ==
    h = [s \in SUBSET S |->
            IF s = {} THEN zero ELSE op[<<F[Chosen1(s)], h[s \ {Chosen1(s)}]>>]]
Adds(op, zero, D) ==
    /\ zero \in D
    /\ \A x \in D, y \in D : op[<<x, y>>] \in D /\ op[<<x, y>>] = op[<<y, x>>]
    /\ \A x \in D, y \in D, z \in D : op[<<op[<<x, y>>], z>>] = op[<<x, op[<<y, z>>]>>]
    /\ \A x \in D : op[<<zero, x>>] = x
SumOver(F, op, zero, S) == (CHOOSE h : Iterates(h, F, op, zero, S))[S]

LEMMA ChosenIn ==
    ASSUME NEW S, NEW s \in SUBSET S, s # {}
    PROVE  /\ Chosen1(s) \in s /\ Chosen1(s) \in S
           /\ s \ {Chosen1(s)} \in SUBSET S /\ s \ {Chosen1(s)} \in SUBSET s
BY DEF Chosen1

LEMMA Smaller1 ==
    ASSUME NEW s, IsFiniteSet(s), NEW e \in s
    PROVE  /\ IsFiniteSet(s \ {e}) /\ Cardinality(s) \in Nat
           /\ Cardinality(s \ {e}) = Cardinality(s) - 1 /\ Cardinality(s \ {e}) \in Nat
BY FS_RemoveElement, FS_CardinalityType

LEMMA IteratesAt ==
    ASSUME NEW S, NEW F, NEW op, NEW zero, NEW h, Iterates(h, F, op, zero, S), NEW s \in SUBSET S
    PROVE  h[s] = IF s = {} THEN zero ELSE op[<<F[Chosen1(s)], h[s \ {Chosen1(s)}]>>]
<1> DEFINE v(r) == IF r = {} THEN zero ELSE op[<<F[Chosen1(r)], h[r \ {Chosen1(r)}]>>]
           f == [r \in SUBSET S |-> v(r)]
<1>1. h = f
  BY DEF Iterates
<1>2. f[s] = v(s)
  <2> HIDE DEF v
  <2> QED OBVIOUS
<1> HIDE DEF f
<1> QED BY <1>1, <1>2

LEMMA IteratesUnique ==
    ASSUME NEW S, NEW T, NEW F, NEW G, NEW op, NEW zero, NEW h, NEW g,
           Iterates(h, F, op, zero, S), Iterates(g, G, op, zero, T),
           NEW s \in SUBSET S, s \in SUBSET T, IsFiniteSet(s), \A x \in s : F[x] = G[x]
    PROVE  h[s] = g[s]
<1> DEFINE N == {k \in Nat : \E r \in SUBSET s : IsFiniteSet(r) /\ Cardinality(r) = k /\ h[r] # g[r]}
<1>1. CASE N = {}
  <2>1. Cardinality(s) \in Nat
    BY FS_CardinalityType
  <2> QED BY <1>1, <2>1
<1>2. CASE N # {}
  <2>1. PICK k \in N : \A l \in N : k <= l
    <3>1. N \subseteq Nat
      OBVIOUS
    <3> HIDE DEF N
    <3> QED BY <1>2, <3>1, LeastNumber
  <2>2. PICK r \in SUBSET s : IsFiniteSet(r) /\ Cardinality(r) = k /\ h[r] # g[r]
    OBVIOUS
  <2>3. r \in SUBSET S /\ r \in SUBSET T
    OBVIOUS
  <2> DEFINE c == Chosen1(r)
  <2>4. /\ h[r] = IF r = {} THEN zero ELSE op[<<F[c], h[r \ {c}]>>]
        /\ g[r] = IF r = {} THEN zero ELSE op[<<G[c], g[r \ {c}]>>]
    <3> HIDE DEF N
    <3>1. h[r] = IF r = {} THEN zero ELSE op[<<F[c], h[r \ {c}]>>]
      BY <2>3, IteratesAt
    <3>2. g[r] = IF r = {} THEN zero ELSE op[<<G[c], g[r \ {c}]>>]
      BY <2>3, IteratesAt
    <3> QED BY <3>1, <3>2
  <2>5. CASE r = {}
    BY <2>2, <2>4, <2>5
  <2>6. CASE r # {}
    <3>1. c \in r /\ r \ {c} \in SUBSET s
      BY <2>6 DEF Chosen1
    <3>2. /\ IsFiniteSet(r \ {c}) /\ Cardinality(r \ {c}) = k - 1 /\ k \in Nat
          /\ Cardinality(r \ {c}) \in Nat
      BY <2>2, <3>1, Smaller1
    <3>3. Cardinality(r \ {c}) \notin N
      <4> HIDE DEF N, c
      <4> QED BY <2>1, <3>2
    <3>4. h[r \ {c}] = g[r \ {c}]
      <4> HIDE DEF c
      <4> QED BY <3>1, <3>2, <3>3
    <3>5. F[c] = G[c]
      BY <3>1
    <3> QED BY <2>2, <2>4, <2>6, <3>4, <3>5
  <2> QED BY <2>5, <2>6
<1> QED BY <1>1, <1>2

LEMMA IteratesExists ==
    ASSUME NEW S, IsFiniteSet(S), NEW F, NEW op, NEW zero
    PROVE  \E h : Iterates(h, F, op, zero, S)
<1> DEFINE Has(s) == \E h : Iterates(h, F, op, zero, s)
           N == {k \in Nat : \E r \in SUBSET S : IsFiniteSet(r) /\ Cardinality(r) = k /\ ~ Has(r)}
<1>1. CASE N = {}
  <2>1. Cardinality(S) \in Nat
    BY FS_CardinalityType
  <2> HIDE DEF Has
  <2>2. Has(S)
    BY <1>1, <2>1
  <2> QED BY <2>2 DEF Has
<1>2. CASE N # {}
  <2>1. PICK k \in N : \A l \in N : k <= l
    <3>1. N \subseteq Nat
      OBVIOUS
    <3> HIDE DEF N
    <3> QED BY <1>2, <3>1, LeastNumber
  <2>2. PICK s \in SUBSET S : IsFiniteSet(s) /\ Cardinality(s) = k /\ ~ Has(s)
    <3> HIDE DEF Has
    <3> QED OBVIOUS
  <2>3. k \in Nat
    OBVIOUS
  <2> DEFINE H(r) == CHOOSE h : Iterates(h, F, op, zero, r)
             Rest1(r) == r \ {Chosen1(r)}
             v(r) == IF r = {} THEN zero ELSE op[<<F[Chosen1(r)], H(Rest1(r))[Rest1(r)]>>]
             g == [r \in SUBSET s |-> v(r)]
  <2>4. ASSUME NEW r \in SUBSET s, r # {}
        PROVE  /\ Rest1(r) \in SUBSET s /\ Iterates(H(Rest1(r)), F, op, zero, Rest1(r))
               /\ IsFiniteSet(Rest1(r))
    <3> DEFINE c == Chosen1(r)
    <3>1. c \in r /\ c \in s /\ r \ {c} \in SUBSET s
      BY <2>4, ChosenIn
    <3>2. /\ IsFiniteSet(r) /\ Cardinality(r) <= Cardinality(s) /\ Cardinality(s) \in Nat
      BY <2>2, FS_Subset, FS_CardinalityType
    <3>3. /\ IsFiniteSet(r \ {c}) /\ Cardinality(r \ {c}) = Cardinality(r) - 1
          /\ Cardinality(r) \in Nat /\ Cardinality(r \ {c}) \in Nat
      BY <3>1, <3>2, Smaller1
    <3>4. Cardinality(r \ {c}) \notin N
      <4> HIDE DEF N, c
      <4> QED BY <2>1, <2>2, <2>3, <3>2, <3>3
    <3>5. Has(r \ {c})
      <4> HIDE DEF Has, c
      <4> QED BY <3>1, <3>3, <3>4
    <3> QED BY <3>1, <3>3, <3>5
  <2> HIDE DEF H, v, g, Has, N
  <2>5. ASSUME NEW r \in SUBSET s, r # {} PROVE g[Rest1(r)] = H(Rest1(r))[Rest1(r)]
    <3> DEFINE q == Rest1(r)
    <3>1. q \in SUBSET s /\ Iterates(H(q), F, op, zero, q) /\ q \in SUBSET q
      BY <2>4, <2>5
    <3> HIDE DEF q
    <3>2. g[q] = v(q)
      BY <3>1 DEF g
    <3>3. H(q)[q] = IF q = {} THEN zero ELSE op[<<F[Chosen1(q)], H(q)[Rest1(q)]>>]
      BY <3>1, IteratesAt DEF Rest1
    <3>4. q # {} => H(q)[Rest1(q)] = H(Rest1(q))[Rest1(q)]
      <4> SUFFICES ASSUME q # {} PROVE H(q)[Rest1(q)] = H(Rest1(q))[Rest1(q)]
        OBVIOUS
      <4>1. /\ Rest1(q) \in SUBSET s /\ Iterates(H(Rest1(q)), F, op, zero, Rest1(q))
            /\ IsFiniteSet(Rest1(q))
        BY <2>4, <3>1
      <4>2. Rest1(q) \in SUBSET q /\ Rest1(q) \in SUBSET Rest1(q) /\ \A x \in Rest1(q) : F[x] = F[x]
        OBVIOUS
      <4> HIDE DEF Rest1
      <4> QED BY <3>1, <4>1, <4>2, IteratesUnique
    <3>5. g[q] = H(q)[q]
      BY <3>2, <3>3, <3>4 DEF v
    <3> QED BY <3>5 DEF q
  <2>6. ASSUME NEW r \in SUBSET s
        PROVE  g[r] = IF r = {} THEN zero ELSE op[<<F[Chosen1(r)], g[r \ {Chosen1(r)}]>>]
    <3>1. g[r] = v(r)
      BY DEF g
    <3>2. r # {} => g[r \ {Chosen1(r)}] = H(Rest1(r))[Rest1(r)]
      BY <2>5
    <3> QED BY <3>1, <3>2 DEF v
  <2>7. g = [r \in SUBSET s |-> g[r]]
    BY DEF g
  <2>8. Iterates(g, F, op, zero, s)
    BY <2>6, <2>7 DEF Iterates
  <2> QED BY <2>2, <2>8 DEF Has
<1> QED BY <1>1, <1>2

LEMMA SumIterates ==
    ASSUME NEW S, IsFiniteSet(S), NEW F, NEW op, NEW zero
    PROVE  \E h : Iterates(h, F, op, zero, S) /\ SumOver(F, op, zero, S) = h[S]
<1> DEFINE h == CHOOSE g : Iterates(g, F, op, zero, S)
<1>1. Iterates(h, F, op, zero, S)
  BY IteratesExists
<1>2. SumOver(F, op, zero, S) = h[S]
  BY DEF SumOver
<1> HIDE DEF h
<1> QED BY <1>1, <1>2

LEMMA SumSame ==
    ASSUME NEW S, IsFiniteSet(S), NEW F, NEW G, NEW op, NEW zero, \A x \in S : F[x] = G[x]
    PROVE  SumOver(F, op, zero, S) = SumOver(G, op, zero, S)
<1>1. PICK h : Iterates(h, F, op, zero, S) /\ SumOver(F, op, zero, S) = h[S]
  BY SumIterates
<1>2. PICK g : Iterates(g, G, op, zero, S) /\ SumOver(G, op, zero, S) = g[S]
  BY SumIterates
<1>3. S \in SUBSET S
  OBVIOUS
<1>4. h[S] = g[S]
  BY <1>1, <1>2, <1>3, IteratesUnique
<1> QED BY <1>1, <1>2, <1>4

LEMMA SumEmpty ==
    ASSUME NEW F, NEW op, NEW zero
    PROVE  SumOver(F, op, zero, {}) = zero
<1> SUFFICES ASSUME NEW S, IsFiniteSet(S) PROVE S = {} => SumOver(F, op, zero, S) = zero
  BY FS_EmptySet
<1>1. S \in SUBSET S
  OBVIOUS
<1>2. PICK h : Iterates(h, F, op, zero, S) /\ SumOver(F, op, zero, S) = h[S]
  BY SumIterates
<1>3. h[S] = IF S = {} THEN zero ELSE op[<<F[Chosen1(S)], h[S \ {Chosen1(S)}]>>]
  BY <1>1, <1>2, IteratesAt
<1> QED BY <1>2, <1>3

LEMMA SumFirst ==
    ASSUME NEW S, IsFiniteSet(S), S # {}, NEW F, NEW op, NEW zero
    PROVE  /\ Chosen1(S) \in S
           /\ SumOver(F, op, zero, S)
                = op[<<F[Chosen1(S)], SumOver(F, op, zero, S \ {Chosen1(S)})>>]
<1> DEFINE c == Chosen1(S)
           R == S \ {c}
<1>1. c \in S /\ S \in SUBSET S /\ R \in SUBSET S /\ R \in SUBSET R /\ \A x \in R : F[x] = F[x]
  BY DEF Chosen1
<1>2. IsFiniteSet(R)
  BY FS_RemoveElement
<1>3. PICK h : Iterates(h, F, op, zero, S) /\ SumOver(F, op, zero, S) = h[S]
  BY SumIterates
<1>4. PICK g : Iterates(g, F, op, zero, R) /\ SumOver(F, op, zero, R) = g[R]
  BY <1>2, SumIterates
<1>5. h[S] = op[<<F[c], h[R]>>]
  BY <1>1, <1>3, IteratesAt
<1> HIDE DEF R
<1>6. h[R] = g[R]
  BY <1>1, <1>2, <1>3, <1>4, IteratesUnique
<1> QED BY <1>1, <1>3, <1>4, <1>5, <1>6 DEF R

\* Any element may be the first.
LEMMA SumRemove ==
    ASSUME NEW D, NEW op, NEW zero, Adds(op, zero, D),
           NEW S, IsFiniteSet(S), NEW F, \A x \in S : F[x] \in D
    PROVE  /\ SumOver(F, op, zero, S) \in D
           /\ \A e \in S : SumOver(F, op, zero, S) = op[<<F[e], SumOver(F, op, zero, S \ {e})>>]
<1> DEFINE V(s) == SumOver(F, op, zero, s)
           Good(s) == V(s) \in D /\ \A e \in s : V(s) = op[<<F[e], V(s \ {e})>>]
           N == {k \in Nat : \E s \in SUBSET S : IsFiniteSet(s) /\ Cardinality(s) = k /\ ~ Good(s)}
<1>1. CASE N = {}
  <2>1. Cardinality(S) \in Nat /\ S \in SUBSET S
    BY FS_CardinalityType
  <2> HIDE DEF Good
  <2>2. Good(S)
    BY <1>1, <2>1
  <2> QED BY <2>2 DEF Good
<1>2. CASE N # {}
  <2>1. PICK k \in N : \A l \in N : k <= l
    <3>1. N \subseteq Nat
      OBVIOUS
    <3> HIDE DEF N
    <3> QED BY <1>2, <3>1, LeastNumber
  <2>2. PICK s \in SUBSET S : IsFiniteSet(s) /\ Cardinality(s) = k /\ ~ Good(s)
    <3> HIDE DEF Good
    <3> QED OBVIOUS
  <2>3. k \in Nat
    OBVIOUS
  <2> HIDE DEF V
  <2>4. ASSUME NEW r \in SUBSET S, IsFiniteSet(r), Cardinality(r) < k PROVE Good(r)
    <3>1. Cardinality(r) \in Nat
      BY <2>4, FS_CardinalityType
    <3>2. Cardinality(r) \notin N
      <4> HIDE DEF N
      <4> QED BY <2>1, <2>3, <2>4, <3>1
    <3> HIDE DEF Good
    <3> QED BY <2>4, <3>1, <3>2
  <2> HIDE DEF N
  <2>5. CASE s = {}
    <3>1. V(s) = zero
      BY <2>5, SumEmpty DEF V
    <3> QED BY <2>2, <2>5, <3>1 DEF Adds
  <2>6. CASE s # {}
    <3> DEFINE c == Chosen1(s)
    <3>1. c \in s /\ V(s) = op[<<F[c], V(s \ {c})>>]
      BY <2>2, <2>6, SumFirst DEF V
    <3> HIDE DEF c
    <3>2. ASSUME NEW e \in s
          PROVE  s \ {e} \in SUBSET S /\ IsFiniteSet(s \ {e}) /\ Good(s \ {e})
      <4>1. /\ IsFiniteSet(s \ {e}) /\ Cardinality(s \ {e}) = k - 1
        BY <2>2, <2>3, Smaller1
      <4>2. s \ {e} \in SUBSET S /\ Cardinality(s \ {e}) < k
        BY <2>3, <4>1
      <4> HIDE DEF Good
      <4> QED BY <2>4, <4>1, <4>2
    <3>3. V(s) \in D
      <4>1. V(s \ {c}) \in D /\ F[c] \in D
        BY <3>1, <3>2
      <4>2. op[<<F[c], V(s \ {c})>>] \in D
        BY <4>1 DEF Adds
      <4> QED BY <3>1, <4>2
    <3>4. ASSUME NEW e \in s, e # c PROVE V(s) = op[<<F[e], V(s \ {e})>>]
      <4>1. V(s \ {c}) = op[<<F[e], V((s \ {c}) \ {e})>>]
        BY <3>1, <3>2, <3>4
      <4>2. V(s \ {e}) = op[<<F[c], V((s \ {e}) \ {c})>>]
        BY <3>1, <3>2, <3>4
      <4> DEFINE r == (s \ {c}) \ {e}
                 v == V(r)
                 x == F[e]
                 y == F[c]
      <4>3. r = (s \ {e}) \ {c}
        OBVIOUS
      <4>4. v \in D
        <5>1. r \in SUBSET S /\ IsFiniteSet(r)
          BY <2>2, FS_RemoveElement
        <5>2. Cardinality(r) < k
          <6>1. Cardinality(s \ {c}) = k - 1 /\ IsFiniteSet(s \ {c})
            BY <2>2, <2>3, <3>1, Smaller1
          <6>2. Cardinality(r) = (k - 1) - 1
            BY <3>4, <6>1, Smaller1
          <6> QED BY <2>3, <6>2
        <5> HIDE DEF r
        <5> QED BY <2>4, <5>1, <5>2
      <4>5. x \in D /\ y \in D
        BY <3>1
      <4>6. V(s) = op[<<y, op[<<x, v>>]>>] /\ V(s \ {e}) = op[<<y, v>>]
        BY <3>1, <4>1, <4>2, <4>3
      <4> HIDE DEF x, y, v
      <4>7. /\ op[<<op[<<y, x>>], v>>] = op[<<y, op[<<x, v>>]>>]
            /\ op[<<op[<<x, y>>], v>>] = op[<<x, op[<<y, v>>]>>]
            /\ op[<<x, y>>] = op[<<y, x>>]
        BY <4>4, <4>5 DEF Adds
      <4> QED BY <4>6, <4>7 DEF x
    <3> QED BY <2>2, <3>1, <3>3, <3>4
  <2> QED BY <2>5, <2>6
<1> QED BY <1>1, <1>2

LEMMA SumAdd ==
    ASSUME NEW D, NEW op, NEW zero, Adds(op, zero, D),
           NEW S, IsFiniteSet(S), NEW e, e \notin S, NEW F, NEW G,
           \A x \in S : F[x] \in D /\ G[x] = F[x], G[e] \in D
    PROVE  /\ SumOver(G, op, zero, S \union {e}) = op[<<G[e], SumOver(F, op, zero, S)>>]
           /\ SumOver(F, op, zero, S) \in D
<1>1. IsFiniteSet(S \union {e}) /\ (S \union {e}) \ {e} = S
  BY FS_AddElement
<1>2. \A x \in S \union {e} : G[x] \in D
  OBVIOUS
<1>3. e \in S \union {e}
  OBVIOUS
<1>4. SumOver(G, op, zero, S \union {e}) = op[<<G[e], SumOver(G, op, zero, (S \union {e}) \ {e})>>]
  BY <1>1, <1>2, <1>3, SumRemove
<1>5. SumOver(G, op, zero, S) = SumOver(F, op, zero, S)
  BY SumSame
<1>6. SumOver(F, op, zero, S) \in D
  BY SumRemove
<1> QED BY <1>1, <1>4, <1>5, <1>6

LEMMA SumOfZeros ==
    ASSUME NEW D, NEW op, NEW zero, Adds(op, zero, D),
           NEW S, IsFiniteSet(S), NEW F, \A x \in S : F[x] = zero
    PROVE  SumOver(F, op, zero, S) = zero
<1> DEFINE N == {k \in Nat : \E s \in SUBSET S : /\ IsFiniteSet(s) /\ Cardinality(s) = k
                                                  /\ SumOver(F, op, zero, s) # zero}
<1>1. CASE N = {}
  <2>1. Cardinality(S) \in Nat /\ S \in SUBSET S
    BY FS_CardinalityType
  <2> QED BY <1>1, <2>1
<1>2. CASE N # {}
  <2>1. PICK k \in N : \A l \in N : k <= l
    <3>1. N \subseteq Nat
      OBVIOUS
    <3> HIDE DEF N
    <3> QED BY <1>2, <3>1, LeastNumber
  <2>2. PICK s \in SUBSET S : /\ IsFiniteSet(s) /\ Cardinality(s) = k
                              /\ SumOver(F, op, zero, s) # zero
    OBVIOUS
  <2>3. s # {}
    BY <2>2, SumEmpty
  <2> DEFINE c == Chosen1(s)
  <2>4. c \in s /\ SumOver(F, op, zero, s) = op[<<F[c], SumOver(F, op, zero, s \ {c})>>]
    BY <2>2, <2>3, SumFirst
  <2> HIDE DEF c
  <2>5. /\ IsFiniteSet(s \ {c}) /\ Cardinality(s \ {c}) = k - 1 /\ k \in Nat
        /\ Cardinality(s \ {c}) \in Nat
    BY <2>2, <2>4, Smaller1
  <2>6. Cardinality(s \ {c}) \notin N
    <3> HIDE DEF N
    <3> QED BY <2>1, <2>5
  <2>7. SumOver(F, op, zero, s \ {c}) = zero
    BY <2>5, <2>6
  <2>8. F[c] = zero
    BY <2>4
  <2> QED BY <2>2, <2>4, <2>7, <2>8 DEF Adds
<1> QED BY <1>1, <1>2

-----------------------------------------------------------------------------
(* What samples say of the seconds of a window (KnownSeconds, KnownSum).   *)

Rates1 == Fractions \union {DNAN}
AddOp == [p \in Nat \X Nat |-> p[1] + p[2]]
PlusOp == [p \in Fractions \X Fractions |-> Plus(p[1], p[2])]

LEMMA AddOpAdds == Adds(AddOp, 0, Nat) /\ \A x \in Nat, y \in Nat : AddOp[<<x, y>>] = x + y
<1>1. \A x \in Nat, y \in Nat : AddOp[<<x, y>>] = x + y
  BY DEF AddOp
<1> QED BY <1>1 DEF Adds

LEMMA PlusOpAdds ==
    /\ Adds(PlusOp, Int2Value(0), Fractions)
    /\ \A x \in Fractions, y \in Fractions : PlusOp[<<x, y>>] = Plus(x, y)
<1>1. ASSUME NEW x \in Fractions, NEW y \in Fractions PROVE PlusOp[<<x, y>>] = Plus(x, y)
  BY DEF PlusOp
<1>2. ASSUME NEW x \in Fractions, NEW y \in Fractions
      PROVE  PlusOp[<<x, y>>] \in Fractions /\ PlusOp[<<x, y>>] = PlusOp[<<y, x>>]
  BY <1>1, PlusType
<1>3. ASSUME NEW x \in Fractions, NEW y \in Fractions, NEW z \in Fractions
      PROVE  PlusOp[<<PlusOp[<<x, y>>], z>>] = PlusOp[<<x, PlusOp[<<y, z>>]>>]
  <2>1. /\ PlusOp[<<x, y>>] = Plus(x, y) /\ PlusOp[<<y, z>>] = Plus(y, z)
        /\ Plus(x, y) \in Fractions /\ Plus(y, z) \in Fractions
    BY <1>1, <1>2
  <2>2. /\ PlusOp[<<Plus(x, y), z>>] = Plus(Plus(x, y), z)
        /\ PlusOp[<<x, Plus(y, z)>>] = Plus(x, Plus(y, z))
    BY <1>1, <2>1
  <2>3. Plus(Plus(x, y), z) = Plus(x, Plus(y, z))
    BY PlusAssociative
  <2> QED BY <2>1, <2>2, <2>3
<1>4. Int2Value(0) \in Fractions
  BY IntIsFraction
<1>5. ASSUME NEW x \in Fractions PROVE PlusOp[<<Int2Value(0), x>>] = x
  BY <1>1, <1>4, ZeroPlus
<1> QED BY <1>1, <1>2, <1>3, <1>4, <1>5 DEF Adds

Span(from, to, lo, hi) == Cardinality((from .. to - 1) \intersect (lo .. hi - 1))
SpanOf(s, lo, hi) == Span(s.from, s.to, lo, hi)
Part(s, lo, hi) == Scaled(s.rate, SpanOf(s, lo, hi))
KnownIn(ss) == {i \in DOMAIN ss : ~ isnan(ss[i].rate)}
SecondsIn(ss, lo, hi) ==
    SumOver([i \in KnownIn(ss) |-> SpanOf(ss[i], lo, hi)], AddOp, 0, KnownIn(ss))
SumIn(ss, lo, hi) ==
    SumOver([i \in KnownIn(ss) |-> Part(ss[i], lo, hi)], PlusOp, Int2Value(0), KnownIn(ss))

LEMMA IntervalSize ==
    ASSUME NEW a \in Int, NEW b \in Int
    PROVE  /\ IsFiniteSet(a .. b - 1)
           /\ a <= b => Cardinality(a .. b - 1) = b - a
           /\ b <= a => Cardinality(a .. b - 1) = 0
<1>1. IsFiniteSet(a .. b - 1) /\ Cardinality(a .. b - 1) = IF a > b - 1 THEN 0 ELSE (b - 1) - a + 1
  BY FS_Interval
<1> QED BY <1>1

LEMMA SpanIs ==
    ASSUME NEW f \in Int, NEW t \in Int, NEW lo \in Int, NEW hi \in Int
    PROVE  /\ Span(f, t, lo, hi) \in Nat
           /\ t <= lo \/ hi <= f => Span(f, t, lo, hi) = 0
           /\ lo <= f /\ t <= hi /\ f <= t => Span(f, t, lo, hi) = t - f
           /\ lo <= f /\ hi <= t /\ f <= hi => Span(f, t, lo, hi) = hi - f
           /\ f <= lo /\ t <= hi /\ lo <= t => Span(f, t, lo, hi) = t - lo
<1> DEFINE A == (f .. t - 1) \intersect (lo .. hi - 1)
<1>1. Span(f, t, lo, hi) = Cardinality(A)
  BY DEF Span
<1>2. IsFiniteSet(A)
  <2>1. A \in SUBSET (f .. t - 1) /\ IsFiniteSet(f .. t - 1)
    BY IntervalSize
  <2> HIDE DEF A
  <2> QED BY <2>1, FS_Subset
<1>3. Cardinality(A) \in Nat
  BY <1>2, FS_CardinalityType
<1>4. ASSUME t <= lo \/ hi <= f PROVE Cardinality(A) = 0
  <2>1. A = {}
    BY <1>4
  <2> HIDE DEF A
  <2> QED BY <2>1, FS_EmptySet
<1>5. ASSUME lo <= f, t <= hi, f <= t PROVE Cardinality(A) = t - f
  <2>1. A = f .. t - 1
    BY <1>5
  <2> HIDE DEF A
  <2> QED BY <1>5, <2>1, IntervalSize
<1>6. ASSUME lo <= f, hi <= t, f <= hi PROVE Cardinality(A) = hi - f
  <2>1. A = f .. hi - 1
    BY <1>6
  <2> HIDE DEF A
  <2> QED BY <1>6, <2>1, IntervalSize
<1>7. ASSUME f <= lo, t <= hi, lo <= t PROVE Cardinality(A) = t - lo
  <2>1. A = lo .. t - 1
    BY <1>7
  <2> HIDE DEF A
  <2> QED BY <1>7, <2>1, IntervalSize
<1> HIDE DEF A
<1> QED BY <1>1, <1>3, <1>4, <1>5, <1>6, <1>7

LEMMA SpanWindow ==
    ASSUME NEW f \in Int, NEW t \in Int, NEW lo \in Int, NEW hi \in Int, NEW last \in Int,
           t <= last, last <= hi
    PROVE  Span(f, t, lo, hi) = Span(f, t, lo, last)
<1>1. (f .. t - 1) \intersect (lo .. hi - 1) = (f .. t - 1) \intersect (lo .. last - 1)
  OBVIOUS
<1> QED BY <1>1 DEF Span

SampleOK(s) == s.from \in Nat /\ s.to \in Nat /\ s.from < s.to /\ s.rate \in Rates1

LEMMA KnownRate ==
    ASSUME NEW s, SampleOK(s), ~ isnan(s.rate), NEW lo \in Int, NEW hi \in Int
    PROVE  s.rate \in Fractions /\ SpanOf(s, lo, hi) \in Nat /\ Part(s, lo, hi) \in Fractions
<1>1. s.rate \in Fractions
  BY DEF SampleOK, Rates1, isnan
<1>2. SpanOf(s, lo, hi) \in Nat
  <2>1. s.from \in Int /\ s.to \in Int
    BY DEF SampleOK
  <2>2. Span(s.from, s.to, lo, hi) \in Nat
    BY <2>1, SpanIs
  <2> QED BY <2>2 DEF SpanOf
<1>3. Part(s, lo, hi) \in Fractions
  BY <1>1, <1>2, ScaledType DEF Part
<1> QED BY <1>1, <1>2, <1>3

SamplesOK(ss) == (\E n \in Nat : DOMAIN ss = 1 .. n) /\ \A i \in DOMAIN ss : SampleOK(ss[i])

LEMMA SumsType ==
    ASSUME NEW ss, SamplesOK(ss), NEW lo \in Int, NEW hi \in Int
    PROVE  /\ IsFiniteSet(KnownIn(ss)) /\ SecondsIn(ss, lo, hi) \in Nat /\ SumIn(ss, lo, hi) \in Fractions
           /\ \A i \in KnownIn(ss) : SampleOK(ss[i]) /\ ~ isnan(ss[i].rate)
<1>1. IsFiniteSet(KnownIn(ss))
  <2>1. PICK n \in Nat : DOMAIN ss = 1 .. n
    BY DEF SamplesOK
  <2>2. KnownIn(ss) \in SUBSET (1 .. n) /\ IsFiniteSet(1 .. n)
    BY <2>1, FS_Interval DEF KnownIn
  <2> QED BY <2>2, FS_Subset
<1>2. \A i \in KnownIn(ss) : SampleOK(ss[i]) /\ ~ isnan(ss[i].rate)
  BY DEF KnownIn, SamplesOK
<1>3. \A i \in KnownIn(ss) : SpanOf(ss[i], lo, hi) \in Nat /\ Part(ss[i], lo, hi) \in Fractions
  BY <1>2, KnownRate
<1>4. SecondsIn(ss, lo, hi) \in Nat
  <2> DEFINE F == [i \in KnownIn(ss) |-> SpanOf(ss[i], lo, hi)]
  <2>1. \A i \in KnownIn(ss) : F[i] \in Nat
    BY <1>3
  <2> HIDE DEF F
  <2>2. SumOver(F, AddOp, 0, KnownIn(ss)) \in Nat
    BY <1>1, <2>1, AddOpAdds, SumRemove
  <2> QED BY <2>2 DEF SecondsIn, F
<1>5. SumIn(ss, lo, hi) \in Fractions
  <2> DEFINE F == [i \in KnownIn(ss) |-> Part(ss[i], lo, hi)]
  <2>1. \A i \in KnownIn(ss) : F[i] \in Fractions
    BY <1>3
  <2> HIDE DEF F
  <2>2. SumOver(F, PlusOp, Int2Value(0), KnownIn(ss)) \in Fractions
    BY <1>1, <2>1, PlusOpAdds, SumRemove
  <2> QED BY <2>2 DEF SumIn, F
<1> QED BY <1>1, <1>2, <1>4, <1>5

\* One more sample.
Extended(ss, new, s) ==
    \E n \in Nat : /\ DOMAIN ss = 1 .. n /\ DOMAIN new = 1 .. n + 1
                   /\ new[n + 1] = s /\ \A i \in 1 .. n : new[i] = ss[i]

LEMMA ExtendedOK ==
    ASSUME NEW ss, SamplesOK(ss), NEW s, SampleOK(s), NEW new, Extended(ss, new, s)
    PROVE  /\ SamplesOK(new)
           /\ isnan(s.rate) => KnownIn(new) = KnownIn(ss)
           /\ ~ isnan(s.rate) =>
                 \E e : /\ KnownIn(new) = KnownIn(ss) \union {e} /\ e \notin KnownIn(ss)
                        /\ new[e] = s
           /\ \A i \in KnownIn(ss) : new[i] = ss[i]
<1>1. PICK n \in Nat : /\ DOMAIN ss = 1 .. n /\ DOMAIN new = 1 .. n + 1
                       /\ new[n + 1] = s /\ \A i \in 1 .. n : new[i] = ss[i]
  BY DEF Extended
<1>2. 1 .. n + 1 = (1 .. n) \union {n + 1} /\ n + 1 \notin 1 .. n
  OBVIOUS
<1>3. SamplesOK(new)
  <2>1. n + 1 \in Nat /\ \A i \in 1 .. n + 1 : SampleOK(new[i])
    BY <1>1, <1>2 DEF SamplesOK
  <2> QED BY <1>1, <2>1 DEF SamplesOK
<1>4. \A i \in 1 .. n : isnan(new[i].rate) <=> isnan(ss[i].rate)
  BY <1>1
<1>5. KnownIn(new) = KnownIn(ss) \union (IF isnan(s.rate) THEN {} ELSE {n + 1})
  BY <1>1, <1>2, <1>4 DEF KnownIn
<1>6. n + 1 \notin KnownIn(ss) /\ \A i \in KnownIn(ss) : new[i] = ss[i]
  BY <1>1, <1>2 DEF KnownIn
<1> QED BY <1>1, <1>3, <1>5, <1>6

LEMMA SumsExtended ==
    ASSUME NEW ss, SamplesOK(ss), NEW s, SampleOK(s), NEW new, Extended(ss, new, s),
           NEW lo \in Int, NEW hi \in Int
    PROVE  /\ SecondsIn(new, lo, hi)
                = SecondsIn(ss, lo, hi) + (IF isnan(s.rate) THEN 0 ELSE SpanOf(s, lo, hi))
           /\ SumIn(new, lo, hi)
                = IF isnan(s.rate) THEN SumIn(ss, lo, hi)
                  ELSE Plus(SumIn(ss, lo, hi), Part(s, lo, hi))
<1> DEFINE K == KnownIn(ss)
           Fs(r) == [i \in KnownIn(r) |-> SpanOf(r[i], lo, hi)]
           Fp(r) == [i \in KnownIn(r) |-> Part(r[i], lo, hi)]
<1>1. IsFiniteSet(K) /\ SecondsIn(ss, lo, hi) \in Nat /\ SumIn(ss, lo, hi) \in Fractions
      /\ \A i \in K : SampleOK(ss[i]) /\ ~ isnan(ss[i].rate)
  BY SumsType
<1>2. /\ SecondsIn(ss, lo, hi) = SumOver(Fs(ss), AddOp, 0, K)
      /\ SumIn(ss, lo, hi) = SumOver(Fp(ss), PlusOp, Int2Value(0), K)
      /\ SecondsIn(new, lo, hi) = SumOver(Fs(new), AddOp, 0, KnownIn(new))
      /\ SumIn(new, lo, hi) = SumOver(Fp(new), PlusOp, Int2Value(0), KnownIn(new))
  BY DEF SecondsIn, SumIn
<1>3. \A i \in K : new[i] = ss[i] /\ i \in KnownIn(new)
  BY ExtendedOK
<1>4. \A i \in K : /\ Fs(ss)[i] \in Nat /\ Fs(new)[i] = Fs(ss)[i]
                   /\ Fp(ss)[i] \in Fractions /\ Fp(new)[i] = Fp(ss)[i]
  <2> SUFFICES ASSUME NEW i \in K
               PROVE  /\ Fs(ss)[i] \in Nat /\ Fs(new)[i] = Fs(ss)[i]
                      /\ Fp(ss)[i] \in Fractions /\ Fp(new)[i] = Fp(ss)[i]
    OBVIOUS
  <2>1. SpanOf(ss[i], lo, hi) \in Nat /\ Part(ss[i], lo, hi) \in Fractions
    BY <1>1, KnownRate
  <2>2. Fs(ss)[i] = SpanOf(ss[i], lo, hi) /\ Fp(ss)[i] = Part(ss[i], lo, hi)
    OBVIOUS
  <2>3. Fs(new)[i] = SpanOf(new[i], lo, hi) /\ Fp(new)[i] = Part(new[i], lo, hi)
    BY <1>3
  <2>4. new[i] = ss[i]
    BY <1>3
  <2> HIDE DEF Fs, Fp
  <2> QED BY <2>1, <2>2, <2>3, <2>4
<1>5. CASE isnan(s.rate)
  <2>1. KnownIn(new) = K
    BY <1>5, ExtendedOK
  <2> HIDE DEF Fs, Fp, K
  <2>2. SumOver(Fs(new), AddOp, 0, K) = SumOver(Fs(ss), AddOp, 0, K)
    BY <1>1, <1>4, SumSame
  <2>3. SumOver(Fp(new), PlusOp, Int2Value(0), K) = SumOver(Fp(ss), PlusOp, Int2Value(0), K)
    BY <1>1, <1>4, SumSame
  <2> QED BY <1>1, <1>2, <1>5, <2>1, <2>2, <2>3
<1>6. CASE ~ isnan(s.rate)
  <2>1. PICK e : KnownIn(new) = K \union {e} /\ e \notin K /\ new[e] = s
    BY <1>6, ExtendedOK
  <2>2. e \in KnownIn(new)
    BY <2>1
  <2>3. Fs(new)[e] = SpanOf(s, lo, hi) /\ Fp(new)[e] = Part(s, lo, hi)
    BY <2>1, <2>2
  <2>4. SpanOf(s, lo, hi) \in Nat /\ Part(s, lo, hi) \in Fractions
    BY <1>6, KnownRate
  <2> HIDE DEF Fs, Fp, K
  <2>5. SumOver(Fs(new), AddOp, 0, K \union {e}) = AddOp[<<Fs(new)[e], SumOver(Fs(ss), AddOp, 0, K)>>]
    <3>1. \A x \in K : Fs(ss)[x] \in Nat /\ Fs(new)[x] = Fs(ss)[x]
      BY <1>4
    <3>2. Adds(AddOp, 0, Nat) /\ Fs(new)[e] \in Nat
      BY <2>3, <2>4, AddOpAdds
    <3> QED BY <1>1, <2>1, <3>1, <3>2, SumAdd
  <2>6. SumOver(Fp(new), PlusOp, Int2Value(0), K \union {e})
          = PlusOp[<<Fp(new)[e], SumOver(Fp(ss), PlusOp, Int2Value(0), K)>>]
    <3>1. \A x \in K : Fp(ss)[x] \in Fractions /\ Fp(new)[x] = Fp(ss)[x]
      BY <1>4
    <3>2. Adds(PlusOp, Int2Value(0), Fractions) /\ Fp(new)[e] \in Fractions
      BY <2>3, <2>4, PlusOpAdds
    <3> QED BY <1>1, <2>1, <3>1, <3>2, SumAdd
  <2>7. SecondsIn(new, lo, hi) = SecondsIn(ss, lo, hi) + SpanOf(s, lo, hi)
    <3>1. SecondsIn(new, lo, hi) = AddOp[<<SpanOf(s, lo, hi), SecondsIn(ss, lo, hi)>>]
      BY <1>2, <2>1, <2>3, <2>5
    <3>2. AddOp[<<SpanOf(s, lo, hi), SecondsIn(ss, lo, hi)>>] = SpanOf(s, lo, hi) + SecondsIn(ss, lo, hi)
      BY <1>1, <2>4, AddOpAdds
    <3> QED BY <1>1, <2>4, <3>1, <3>2
  <2>8. SumIn(new, lo, hi) = Plus(SumIn(ss, lo, hi), Part(s, lo, hi))
    <3>1. SumIn(new, lo, hi) = PlusOp[<<Part(s, lo, hi), SumIn(ss, lo, hi)>>]
      BY <1>2, <2>1, <2>3, <2>6
    <3>2. PlusOp[<<Part(s, lo, hi), SumIn(ss, lo, hi)>>] = Plus(Part(s, lo, hi), SumIn(ss, lo, hi))
      BY <1>1, <2>4, PlusOpAdds
    <3>3. Plus(Part(s, lo, hi), SumIn(ss, lo, hi)) = Plus(SumIn(ss, lo, hi), Part(s, lo, hi))
      BY <1>1, <2>4, PlusType
    <3> QED BY <3>1, <3>2, <3>3
  <2> QED BY <1>6, <2>7, <2>8
<1> QED BY <1>5, <1>6

\* Samples that end before the window, or before its end.
LEMMA SumsWindow ==
    ASSUME NEW ss, SamplesOK(ss), NEW last \in Int, \A i \in DOMAIN ss : ss[i].to <= last,
           NEW lo \in Int, NEW hi \in Int, last <= hi
    PROVE  /\ SecondsIn(ss, lo, hi) = SecondsIn(ss, lo, last)
           /\ SumIn(ss, lo, hi) = SumIn(ss, lo, last)
           /\ last <= lo => SecondsIn(ss, lo, hi) = 0 /\ SumIn(ss, lo, hi) = Int2Value(0)
<1> DEFINE K == KnownIn(ss)
           Fs(h) == [i \in K |-> SpanOf(ss[i], lo, h)]
           Fp(h) == [i \in K |-> Part(ss[i], lo, h)]
<1>1. /\ IsFiniteSet(K) /\ \A i \in K : SampleOK(ss[i]) /\ ~ isnan(ss[i].rate)
  BY SumsType
<1>2. \A i \in K : ss[i].from \in Int /\ ss[i].to \in Int /\ ss[i].to <= last
  BY <1>1 DEF SampleOK, KnownIn
<1>3. ASSUME NEW i \in K
      PROVE  /\ SpanOf(ss[i], lo, hi) = SpanOf(ss[i], lo, last)
             /\ last <= lo => SpanOf(ss[i], lo, hi) = 0
  <2>1. ss[i].from \in Int /\ ss[i].to \in Int /\ ss[i].to <= last
    BY <1>2
  <2> DEFINE f == ss[i].from
             t == ss[i].to
  <2> HIDE DEF f, t
  <2>2. f \in Int /\ t \in Int /\ t <= last
    BY <2>1 DEF f, t
  <2>3. Span(f, t, lo, hi) = Span(f, t, lo, last)
    BY <2>2, SpanWindow
  <2>4. last <= lo => Span(f, t, lo, hi) = 0
    <3>1. last <= lo => t <= lo
      BY <2>2
    <3> QED BY <2>2, <3>1, SpanIs
  <2> QED BY <2>3, <2>4 DEF f, t, SpanOf
<1>4. \A i \in K : Fs(hi)[i] = Fs(last)[i] /\ Fp(hi)[i] = Fp(last)[i]
  BY <1>3 DEF Part
<1>5. ASSUME last <= lo PROVE \A i \in K : Fs(hi)[i] = 0 /\ Fp(hi)[i] = Int2Value(0)
  <2> SUFFICES ASSUME NEW i \in K PROVE Fs(hi)[i] = 0 /\ Fp(hi)[i] = Int2Value(0)
    OBVIOUS
  <2>1. SpanOf(ss[i], lo, hi) = 0 /\ Part(ss[i], lo, hi) = Scaled(ss[i].rate, 0)
    BY <1>3, <1>5 DEF Part
  <2>2. ss[i].rate \in Fractions
    BY <1>1, KnownRate
  <2>3. Scaled(ss[i].rate, 0) = Int2Value(0)
    BY <2>2, ScaledType
  <2>4. Fs(hi)[i] = SpanOf(ss[i], lo, hi) /\ Fp(hi)[i] = Part(ss[i], lo, hi)
    OBVIOUS
  <2> QED BY <2>1, <2>3, <2>4
<1>6. /\ SecondsIn(ss, lo, hi) = SumOver(Fs(hi), AddOp, 0, K)
      /\ SumIn(ss, lo, hi) = SumOver(Fp(hi), PlusOp, Int2Value(0), K)
      /\ SecondsIn(ss, lo, last) = SumOver(Fs(last), AddOp, 0, K)
      /\ SumIn(ss, lo, last) = SumOver(Fp(last), PlusOp, Int2Value(0), K)
  BY DEF SecondsIn, SumIn
<1> HIDE DEF Fs, Fp, K
<1>7. SumOver(Fs(hi), AddOp, 0, K) = SumOver(Fs(last), AddOp, 0, K)
  BY <1>1, <1>4, SumSame
<1>8. SumOver(Fp(hi), PlusOp, Int2Value(0), K) = SumOver(Fp(last), PlusOp, Int2Value(0), K)
  BY <1>1, <1>4, SumSame
<1>9. last <= lo => SumOver(Fs(hi), AddOp, 0, K) = 0
  BY <1>1, <1>5, AddOpAdds, SumOfZeros
<1>10. last <= lo => SumOver(Fp(hi), PlusOp, Int2Value(0), K) = Int2Value(0)
  BY <1>1, <1>5, PlusOpAdds, SumOfZeros
<1> QED BY <1>6, <1>7, <1>8, <1>9, <1>10

-----------------------------------------------------------------------------
(* Primary data points (PdpOf), as functions of the samples.               *)

Completes(s, e) == s.from < e /\ e <= s.to
PdpOfSample(ss, c, lo, hi) ==
    IF c.to - c.from > Heartbeat \/ 2 * (c.from - lo - SecondsIn(ss, lo, c.from)) > Step
    THEN DNAN
    ELSE Over(SumIn(ss, lo, hi), SecondsIn(ss, lo, hi))
PdpFrom(ss, c) == PdpOfSample(ss, c, StepStart(c.from), StepStart(c.to))
PdpIn(ss, e) == PdpFrom(ss, ss[CHOOSE i \in DOMAIN ss : Completes(ss[i], e)])
CreatedAt(ss, last) == IF DOMAIN ss = {} THEN last ELSE ss[1].from

\* The samples follow each other without a gap up to the last update.
Linked(ss, last) ==
    /\ SamplesOK(ss) /\ last \in Nat /\ CreatedAt(ss, last) \in Nat /\ CreatedAt(ss, last) <= last
    /\ \A i \in DOMAIN ss : ss[i].to <= last
    /\ \A i, j \in DOMAIN ss : i < j => ss[i].to <= ss[j].from
    /\ \A e \in CreatedAt(ss, last) + 1 .. last : \E i \in DOMAIN ss : Completes(ss[i], e)

LEMMA StepStartIs ==
    ASSUME NEW t \in Nat
    PROVE  /\ StepStart(t) \in Nat /\ StepStart(t) <= t /\ t < StepStart(t) + Step
           /\ StepStart(t) = (t \div Step) * Step /\ t \div Step \in Nat
           /\ t = StepStart(t) + PostInt(t) /\ PostInt(t) \in 0 .. Step - 1
<1>1. Step \in Nat \ {0}
  BY StepAssumption
<1>2. /\ t \div Step \in Int /\ t % Step \in 0 .. Step - 1
      /\ t = (t \div Step) * Step + (t % Step)
  BY <1>1, DivMod
<1>3. t \div Step \in Nat
  BY <1>1, DivNat
<1> DEFINE q == t \div Step
           r == t % Step
<1>4. StepStart(t) = t - r /\ PostInt(t) = r
  BY DEF StepStart, PostInt
<1> HIDE DEF q, r
<1>5. q \in Nat /\ r \in 0 .. Step - 1 /\ t = q * Step + r /\ q * Step \in Nat
  <2>1. q \in Nat /\ r \in 0 .. Step - 1 /\ t = q * Step + r
    BY <1>2, <1>3 DEF q, r
  <2> QED BY <1>1, <2>1, Product
<1> DEFINE m == q * Step
<1> HIDE DEF m
<1>6. t = m + r /\ m \in Nat /\ r \in 0 .. Step - 1 /\ StepStart(t) = t - r
  BY <1>4, <1>5 DEF m
<1>7. StepStart(t) = m /\ m <= t /\ t < m + Step /\ t = m + r
  BY <1>1, <1>6
<1> QED BY <1>3, <1>4, <1>5, <1>6, <1>7 DEF q, m

\* A window that ends before the new sample does not see it.
LEMMA SumsBefore ==
    ASSUME NEW ss, SamplesOK(ss), NEW s, SampleOK(s), NEW new, Extended(ss, new, s),
           NEW lo \in Int, NEW hi \in Int, hi <= s.from
    PROVE  SecondsIn(new, lo, hi) = SecondsIn(ss, lo, hi) /\ SumIn(new, lo, hi) = SumIn(ss, lo, hi)
<1>1. /\ SecondsIn(ss, lo, hi) \in Nat /\ SumIn(ss, lo, hi) \in Fractions
  BY SumsType
<1>2. SpanOf(s, lo, hi) = 0
  <2>1. s.from \in Int /\ s.to \in Int
    BY DEF SampleOK
  <2>2. Span(s.from, s.to, lo, hi) = 0
    BY <2>1, SpanIs
  <2> QED BY <2>2 DEF SpanOf
<1>3. ~ isnan(s.rate) => Plus(SumIn(ss, lo, hi), Part(s, lo, hi)) = SumIn(ss, lo, hi)
  <2> SUFFICES ASSUME ~ isnan(s.rate)
               PROVE  Plus(SumIn(ss, lo, hi), Part(s, lo, hi)) = SumIn(ss, lo, hi)
    OBVIOUS
  <2>1. s.rate \in Fractions
    BY KnownRate
  <2>2. Part(s, lo, hi) = Int2Value(0)
    BY <1>2, <2>1, ScaledType DEF Part
  <2> QED BY <1>1, <2>2, ZeroPlus
<1>4. /\ SecondsIn(new, lo, hi)
                = SecondsIn(ss, lo, hi) + (IF isnan(s.rate) THEN 0 ELSE SpanOf(s, lo, hi))
      /\ SumIn(new, lo, hi)
                = IF isnan(s.rate) THEN SumIn(ss, lo, hi)
                  ELSE Plus(SumIn(ss, lo, hi), Part(s, lo, hi))
  BY SumsExtended
<1> QED BY <1>1, <1>2, <1>3, <1>4

LEMMA OneCompletes ==
    ASSUME NEW ss, NEW last, Linked(ss, last), NEW e \in Int, NEW i \in DOMAIN ss, Completes(ss[i], e)
    PROVE  \A j \in DOMAIN ss : Completes(ss[j], e) => j = i
<1> SUFFICES ASSUME NEW j \in DOMAIN ss, Completes(ss[j], e), j # i PROVE FALSE
  OBVIOUS
<1>1. i \in Int /\ j \in Int /\ SampleOK(ss[i]) /\ SampleOK(ss[j])
  BY DEF Linked, SamplesOK
<1>2. /\ ss[i].from \in Int /\ ss[i].to \in Int /\ ss[j].from \in Int /\ ss[j].to \in Int
      /\ ss[i].from < e /\ e <= ss[i].to /\ ss[j].from < e /\ e <= ss[j].to
  BY <1>1 DEF SampleOK, Completes
<1>3. i < j => ss[i].to <= ss[j].from
  BY DEF Linked
<1>4. j < i => ss[j].to <= ss[i].from
  BY DEF Linked
<1>5. i < j \/ j < i
  BY <1>1
<1> QED BY <1>2, <1>3, <1>4, <1>5

\* A new sample after the last update.
Follows1(ss, last, s, new) ==
    /\ Linked(ss, last) /\ SampleOK(s) /\ s.from = last /\ Extended(ss, new, s)

LEMMA LinkedOn ==
    ASSUME NEW ss, NEW last, NEW s, NEW new, Follows1(ss, last, s, new)
    PROVE  Linked(new, s.to) /\ CreatedAt(new, s.to) = CreatedAt(ss, last)
<1>1. PICK n \in Nat : /\ DOMAIN ss = 1 .. n /\ DOMAIN new = 1 .. n + 1
                       /\ new[n + 1] = s /\ \A i \in 1 .. n : new[i] = ss[i]
  BY DEF Extended, Follows1
<1>2. /\ SamplesOK(ss) /\ SampleOK(s) /\ SamplesOK(new)
      /\ s.from = last /\ last \in Nat /\ s.to \in Nat /\ last < s.to
      /\ \A i \in 1 .. n : ss[i].from \in Nat /\ ss[i].to \in Nat /\ ss[i].to <= last
  <2>1. SamplesOK(ss) /\ SampleOK(s) /\ Extended(ss, new, s)
    BY DEF Follows1, Linked
  <2>2. SamplesOK(new)
    BY <2>1, ExtendedOK
  <2>3. \A i \in 1 .. n : SampleOK(ss[i]) /\ ss[i].to <= last
    BY <1>1 DEF SamplesOK, Follows1, Linked
  <2> QED BY <2>1, <2>2, <2>3 DEF SampleOK, Follows1
<1>3. \A i \in 1 .. n + 1 : i \in 1 .. n \/ i = n + 1
  OBVIOUS
<1>4. CreatedAt(new, s.to) = CreatedAt(ss, last)
  <2>1. CASE n = 0
    <3>1. DOMAIN ss = {} /\ DOMAIN new # {} /\ new[1] = s
      BY <1>1, <2>1
    <3> QED BY <1>2, <3>1 DEF CreatedAt
  <2>2. CASE n > 0
    <3>1. DOMAIN ss # {} /\ DOMAIN new # {} /\ 1 \in 1 .. n
      BY <1>1, <2>2
    <3> QED BY <1>1, <3>1 DEF CreatedAt
  <2> QED BY <2>1, <2>2
<1>5. \A i \in DOMAIN new : new[i].to <= s.to
  <2>1. \A i \in 1 .. n : new[i].to <= s.to
    BY <1>1, <1>2
  <2> QED BY <1>1, <1>2, <1>3, <2>1
<1>6. \A i, j \in DOMAIN new : i < j => new[i].to <= new[j].from
  <2> SUFFICES ASSUME NEW i \in 1 .. n + 1, NEW j \in 1 .. n + 1, i < j
               PROVE  new[i].to <= new[j].from
    BY <1>1
  <2>1. i \in 1 .. n
    OBVIOUS
  <2>2. CASE j \in 1 .. n
    <3>1. ss[i].to <= ss[j].from
      BY <1>1, <2>1, <2>2 DEF Follows1, Linked
    <3> QED BY <1>1, <2>1, <2>2, <3>1
  <2>3. CASE j = n + 1
    BY <1>1, <1>2, <2>1, <2>3
  <2> QED BY <1>3, <2>2, <2>3
<1>7. \A e \in CreatedAt(ss, last) + 1 .. s.to : \E i \in DOMAIN new : Completes(new[i], e)
  <2> SUFFICES ASSUME NEW e \in CreatedAt(ss, last) + 1 .. s.to
               PROVE  \E i \in 1 .. n + 1 : Completes(new[i], e)
    BY <1>1
  <2>1. CreatedAt(ss, last) \in Nat
    BY DEF Follows1, Linked
  <2>2. CASE e <= last
    <3>1. e \in CreatedAt(ss, last) + 1 .. last
      BY <1>2, <2>1, <2>2
    <3>2. PICK i \in 1 .. n : Completes(ss[i], e)
      BY <1>1, <3>1 DEF Follows1, Linked
    <3> QED BY <1>1, <3>2
  <2>3. CASE ~ (e <= last)
    <3>1. Completes(s, e) /\ n + 1 \in 1 .. n + 1
      BY <1>2, <2>1, <2>3 DEF Completes
    <3> QED BY <1>1, <3>1
  <2> QED BY <2>2, <2>3
<1>8. CreatedAt(ss, last) \in Nat /\ CreatedAt(ss, last) <= s.to
  <2>1. CreatedAt(ss, last) \in Nat /\ CreatedAt(ss, last) <= last
    BY DEF Follows1, Linked
  <2> QED BY <1>2, <2>1
<1> QED BY <1>2, <1>4, <1>5, <1>6, <1>7, <1>8 DEF Linked

LEMMA ChosenSample ==
    ASSUME NEW ss, NEW last, Linked(ss, last), NEW e \in Int, NEW i \in DOMAIN ss, Completes(ss[i], e)
    PROVE  (CHOOSE j \in DOMAIN ss : Completes(ss[j], e)) = i
<1>1. \A j \in DOMAIN ss : Completes(ss[j], e) => j = i
  BY OneCompletes
<1> DEFINE c == CHOOSE j \in DOMAIN ss : Completes(ss[j], e)
<1>2. c \in DOMAIN ss /\ Completes(ss[c], e)
  OBVIOUS
<1> HIDE DEF c
<1> QED BY <1>1, <1>2 DEF c

LEMMA PdpStays ==
    ASSUME NEW ss, NEW last, NEW s, NEW new, Follows1(ss, last, s, new),
           NEW e \in CreatedAt(ss, last) + 1 .. last
    PROVE  PdpIn(new, e) = PdpIn(ss, e)
<1>1. Linked(ss, last) /\ SamplesOK(ss) /\ SampleOK(s) /\ s.from = last /\ Extended(ss, new, s)
      /\ last \in Nat /\ CreatedAt(ss, last) \in Nat
  BY DEF Follows1, Linked
<1>2. e \in Int
  BY <1>1
<1>3. PICK i \in DOMAIN ss : Completes(ss[i], e)
  BY DEF Follows1, Linked
<1>4. i \in DOMAIN new /\ new[i] = ss[i]
  <2>1. PICK n \in Nat : /\ DOMAIN ss = 1 .. n /\ DOMAIN new = 1 .. n + 1
                         /\ new[n + 1] = s /\ \A j \in 1 .. n : new[j] = ss[j]
    BY DEF Extended, Follows1
  <2> QED BY <2>1
<1>5. Linked(new, s.to)
  BY LinkedOn
<1>6. (CHOOSE j \in DOMAIN ss : Completes(ss[j], e)) = i
  BY <1>1, <1>2, <1>3, ChosenSample
<1>7. (CHOOSE j \in DOMAIN new : Completes(new[j], e)) = i
  BY <1>2, <1>3, <1>4, <1>5, ChosenSample
<1> DEFINE c == ss[i]
           lo == StepStart(c.from)
           hi == StepStart(c.to)
<1>8. SampleOK(c) /\ c.to <= last
  BY <1>1, <1>3 DEF SamplesOK, Linked
<1>9. c.from \in Nat /\ c.to \in Nat /\ c.from < c.to
  BY <1>8 DEF SampleOK
<1>10. lo \in Int /\ hi \in Int /\ hi <= last /\ c.from <= last
  <2>1. lo \in Nat /\ hi \in Nat /\ hi <= c.to
    BY <1>9, StepStartIs
  <2> HIDE DEF lo, hi
  <2> QED BY <1>1, <1>8, <1>9, <2>1
<1>11. PdpIn(ss, e) = PdpOfSample(ss, c, lo, hi)
  BY <1>6 DEF PdpIn, PdpFrom
<1>12. PdpIn(new, e) = PdpOfSample(new, c, lo, hi)
  BY <1>4, <1>7 DEF PdpIn, PdpFrom
<1> HIDE DEF lo, hi
<1>13. SecondsIn(new, lo, c.from) = SecondsIn(ss, lo, c.from)
  <2>1. c.from \in Int /\ c.from <= s.from
    BY <1>1, <1>9, <1>10
  <2> HIDE DEF c
  <2> QED BY <1>1, <1>10, <2>1, SumsBefore
<1>14. SecondsIn(new, lo, hi) = SecondsIn(ss, lo, hi) /\ SumIn(new, lo, hi) = SumIn(ss, lo, hi)
  BY <1>1, <1>10, SumsBefore
<1> QED BY <1>11, <1>12, <1>13, <1>14 DEF PdpOfSample

LEMMA PdpNew ==
    ASSUME NEW ss, NEW last, NEW s, NEW new, Follows1(ss, last, s, new),
           NEW e \in last + 1 .. s.to
    PROVE  LET lo == StepStart(last)
               hi == StepStart(s.to)
           IN  PdpIn(new, e) = IF \/ s.to - last > Heartbeat
                                  \/ 2 * (last - lo - SecondsIn(ss, lo, last)) > Step
                               THEN DNAN ELSE Over(SumIn(new, lo, hi), SecondsIn(new, lo, hi))
<1>1. Linked(ss, last) /\ SamplesOK(ss) /\ SampleOK(s) /\ s.from = last /\ Extended(ss, new, s)
      /\ last \in Nat /\ s.to \in Nat
  BY DEF Follows1, Linked, SampleOK
<1>2. e \in Int /\ Completes(s, e)
  BY <1>1 DEF Completes
<1>3. PICK i \in DOMAIN new : new[i] = s
  <2>1. PICK n \in Nat : DOMAIN new = 1 .. n + 1 /\ new[n + 1] = s
    BY DEF Extended, Follows1
  <2>2. n + 1 \in 1 .. n + 1
    BY <2>1
  <2> QED BY <2>1, <2>2
<1>4. Linked(new, s.to)
  BY LinkedOn
<1>5. (CHOOSE j \in DOMAIN new : Completes(new[j], e)) = i
  BY <1>2, <1>3, <1>4, ChosenSample
<1> DEFINE lo == StepStart(last)
           hi == StepStart(s.to)
<1>6. PdpIn(new, e) = PdpOfSample(new, s, StepStart(s.from), StepStart(s.to))
  BY <1>3, <1>5 DEF PdpIn, PdpFrom
<1>9. PdpIn(new, e) = PdpOfSample(new, s, lo, hi)
  BY <1>1, <1>6
<1>7. lo \in Int
  BY <1>1, StepStartIs
<1> HIDE DEF lo, hi
<1>8. SecondsIn(new, lo, last) = SecondsIn(ss, lo, last)
  <2>1. last \in Int /\ last <= s.from
    BY <1>1
  <2> QED BY <1>1, <1>7, <2>1, SumsBefore
<1>10. PdpIn(new, e) = IF \/ s.to - last > Heartbeat
                           \/ 2 * (last - lo - SecondsIn(ss, lo, last)) > Step
                        THEN DNAN ELSE Over(SumIn(new, lo, hi), SecondsIn(new, lo, hi))
  BY <1>1, <1>8, <1>9 DEF PdpOfSample
<1> QED BY <1>10 DEF lo, hi

-----------------------------------------------------------------------------
(* The model's operators over its samples.                                 *)

SecondsIter(h, S, lo, hi) ==
    h = [s \in SUBSET S |->
            IF s = {} THEN 0
            ELSE Seconds(CHOOSE e \in s : TRUE, lo, hi) + h[s \ {CHOOSE e \in s : TRUE}]]
SumIter(h, S, lo, hi) ==
    h = [s \in SUBSET S |->
            IF s = {} THEN Int2Value(0)
            ELSE Plus(Scaled(samples[CHOOSE e \in s : TRUE].rate, Seconds(CHOOSE e \in s : TRUE, lo, hi)),
                      h[s \ {CHOOSE e \in s : TRUE}])]

LEMMA KnownSecondsChoice ==
    ASSUME NEW lo, NEW hi
    PROVE  KnownSeconds(lo, hi) = (CHOOSE h : SecondsIter(h, KnownSamples, lo, hi))[KnownSamples]
BY DEF KnownSeconds, MapThenSumSet, MapThenFoldSet, SecondsIter

LEMMA KnownSumChoice ==
    ASSUME NEW lo, NEW hi
    PROVE  KnownSum(lo, hi) = (CHOOSE h : SumIter(h, KnownSamples, lo, hi))[KnownSamples]
BY DEF KnownSum, Total, MapThenFoldSet, SumIter

Agree(h, g, S) ==
    \A s \in SUBSET S : (s = {} \/ h[s \ {Chosen1(s)}] = g[s \ {Chosen1(s)}]) => h[s] = g[s]
LEMMA AgreeByRemoving ==
    ASSUME NEW S, IsFiniteSet(S), NEW h, NEW g, Agree(h, g, S)
    PROVE  \A s \in SUBSET S : h[s] = g[s]
<1> DEFINE N == {k \in Nat : \E r \in SUBSET S : IsFiniteSet(r) /\ Cardinality(r) = k /\ h[r] # g[r]}
<1>1. N = {}
  <2> SUFFICES ASSUME N # {} PROVE FALSE
    OBVIOUS
  <2>1. PICK k \in N : \A l \in N : k <= l
    <3>1. N \subseteq Nat
      OBVIOUS
    <3> HIDE DEF N
    <3> QED BY <3>1, LeastNumber
  <2>2. PICK r \in SUBSET S : IsFiniteSet(r) /\ Cardinality(r) = k /\ h[r] # g[r]
    OBVIOUS
  <2>3. r # {} /\ h[r \ {Chosen1(r)}] # g[r \ {Chosen1(r)}]
    BY <2>2 DEF Agree
  <2> DEFINE q == r \ {Chosen1(r)}
  <2>4. Chosen1(r) \in r /\ q \in SUBSET S
    BY <2>3, ChosenIn
  <2>5. IsFiniteSet(q) /\ Cardinality(q) \in Nat /\ Cardinality(q) = k - 1 /\ k \in Nat
    BY <2>2, <2>4, Smaller1
  <2>6. Cardinality(q) \in N
    BY <2>3, <2>4, <2>5
  <2> HIDE DEF N, q
  <2> QED BY <2>1, <2>5, <2>6
<1> SUFFICES ASSUME NEW s \in SUBSET S PROVE h[s] = g[s]
  OBVIOUS
<1>2. IsFiniteSet(s) /\ Cardinality(s) \in Nat
  BY FS_Subset, FS_CardinalityType
<1> QED BY <1>1, <1>2

IteratesWell(g, F, op, zero, S, D) ==
    /\ \A s \in SUBSET S : g[s] \in D
    /\ g = [s \in SUBSET S |-> g[s]] /\ g[{}] = zero
    /\ \A s \in SUBSET S : s # {} => g[s] = op[<<F[Chosen1(s)], g[s \ {Chosen1(s)}]>>]
LEMMA IteratesIn ==
    ASSUME NEW D, NEW op, NEW zero, Adds(op, zero, D), NEW S, IsFiniteSet(S), NEW F,
           \A x \in S : F[x] \in D, NEW g, Iterates(g, F, op, zero, S)
    PROVE  IteratesWell(g, F, op, zero, S, D)
<1>2. ASSUME NEW s \in SUBSET S PROVE g[s] \in D
  <2>1. IsFiniteSet(s) /\ s \in SUBSET s /\ \A x \in s : F[x] \in D /\ F[x] = F[x]
    BY FS_Subset
  <2>2. PICK h : Iterates(h, F, op, zero, s) /\ SumOver(F, op, zero, s) = h[s]
    BY <2>1, SumIterates
  <2>3. SumOver(F, op, zero, s) \in D
    BY <2>1, SumRemove
  <2>4. g[s] = h[s]
    BY <2>1, <2>2, IteratesUnique
  <2> QED BY <2>2, <2>3, <2>4
<1>3. g = [s \in SUBSET S |-> g[s]]
  <2> DEFINE v(s) == IF s = {} THEN zero ELSE op[<<F[Chosen1(s)], g[s \ {Chosen1(s)}]>>]
  <2>1. g = [s \in SUBSET S |-> v(s)]
    BY DEF Iterates
  <2> HIDE DEF v
  <2> QED BY <2>1
<1>4. ASSUME NEW s \in SUBSET S
      PROVE  g[s] = IF s = {} THEN zero ELSE op[<<F[Chosen1(s)], g[s \ {Chosen1(s)}]>>]
  <2> DEFINE v(r) == IF r = {} THEN zero ELSE op[<<F[Chosen1(r)], g[r \ {Chosen1(r)}]>>]
             f == [r \in SUBSET S |-> v(r)]
  <2>1. g = f
    BY DEF Iterates
  <2>2. f[s] = v(s)
    <3> HIDE DEF v
    <3> QED OBVIOUS
  <2> HIDE DEF f
  <2> QED BY <2>1, <2>2
<1>5. {} \in SUBSET S
  OBVIOUS
<1> QED BY <1>2, <1>3, <1>4, <1>5 DEF IteratesWell

LEMMA KnownSecondsIs ==
    ASSUME SamplesOK(samples), NEW lo \in Int, NEW hi \in Int
    PROVE  KnownSeconds(lo, hi) = SecondsIn(samples, lo, hi)
<1> DEFINE S == KnownIn(samples)
           F == [i \in S |-> SpanOf(samples[i], lo, hi)]
<1>1. S = KnownSamples
  BY DEF KnownIn, KnownSamples
<1>2. IsFiniteSet(S) /\ \A i \in S : SampleOK(samples[i]) /\ ~ isnan(samples[i].rate)
  BY SumsType
<1>3. \A i \in S : F[i] = Seconds(i, lo, hi) /\ F[i] \in Nat
  <2> SUFFICES ASSUME NEW i \in S PROVE F[i] = Seconds(i, lo, hi) /\ F[i] \in Nat
    OBVIOUS
  <2>1. F[i] = SpanOf(samples[i], lo, hi)
    OBVIOUS
  <2>2. SpanOf(samples[i], lo, hi) \in Nat
    BY <1>2, KnownRate
  <2>3. SpanOf(samples[i], lo, hi) = Seconds(i, lo, hi)
    BY DEF Seconds, SpanOf, Span
  <2> HIDE DEF F
  <2> QED BY <2>1, <2>2, <2>3
<1>4. SecondsIn(samples, lo, hi) = SumOver(F, AddOp, 0, S)
  BY DEF SecondsIn
<1> HIDE DEF S, F
<1>5. PICK g : /\ Iterates(g, F, AddOp, 0, S) /\ SumOver(F, AddOp, 0, S) = g[S]
               /\ \A s \in SUBSET S : g[s] \in Nat
               /\ g = [s \in SUBSET S |-> g[s]] /\ g[{}] = 0
               /\ \A s \in SUBSET S : s # {} => g[s] = AddOp[<<F[Chosen1(s)], g[s \ {Chosen1(s)}]>>]
  <2>1. Adds(AddOp, 0, Nat) /\ \A x \in S : F[x] \in Nat
    BY <1>3, AddOpAdds
  <2>3. PICK g : Iterates(g, F, AddOp, 0, S) /\ SumOver(F, AddOp, 0, S) = g[S]
    BY <1>2, SumIterates
  <2>4. IteratesWell(g, F, AddOp, 0, S, Nat)
    BY <1>2, <2>1, <2>3, IteratesIn
  <2> QED BY <2>3, <2>4 DEF IteratesWell
<1> DEFINE v(h, s) == IF s = {} THEN 0 ELSE Seconds(Chosen1(s), lo, hi) + h[s \ {Chosen1(s)}]
<1>6. \A h : SecondsIter(h, S, lo, hi) <=> h = [s \in SUBSET S |-> v(h, s)]
  BY DEF SecondsIter, Chosen1
<1>7. \A s \in SUBSET S : g[s] = v(g, s)
  <2> SUFFICES ASSUME NEW s \in SUBSET S, s # {} PROVE g[s] = Seconds(Chosen1(s), lo, hi) + g[s \ {Chosen1(s)}]
    BY <1>5
  <2>1. Chosen1(s) \in S /\ s \ {Chosen1(s)} \in SUBSET S
    BY ChosenIn
  <2> DEFINE x == F[Chosen1(s)]
             y == g[s \ {Chosen1(s)}]
  <2>2. x = Seconds(Chosen1(s), lo, hi) /\ x \in Nat /\ y \in Nat
    BY <1>3, <1>5, <2>1
  <2>3. g[s] = AddOp[<<x, y>>]
    BY <1>5
  <2> HIDE DEF x, y
  <2>4. AddOp[<<x, y>>] = x + y
    BY <2>2, AddOpAdds
  <2> QED BY <2>2, <2>3, <2>4 DEF x, y
<1>8. SecondsIter(g, S, lo, hi)
  <2> HIDE DEF v
  <2>1. g = [s \in SUBSET S |-> v(g, s)]
    BY <1>5, <1>7
  <2> QED BY <1>6, <2>1
<1>9. ASSUME NEW h, SecondsIter(h, S, lo, hi) PROVE h[S] = g[S]
  <2>1. h = [s \in SUBSET S |-> v(h, s)]
    BY <1>6, <1>9
  <2>2. \A s \in SUBSET S : h[s] = v(h, s)
    <3> HIDE DEF v
    <3> QED BY <2>1
  <2>3. ASSUME NEW s \in SUBSET S, s = {} \/ h[s \ {Chosen1(s)}] = g[s \ {Chosen1(s)}]
        PROVE  h[s] = g[s]
    <3>1. h[s] = v(h, s) /\ g[s] = v(g, s)
      BY <1>7, <2>2
    <3>2. v(h, s) = v(g, s)
      BY <2>3
    <3> HIDE DEF v
    <3> QED BY <3>1, <3>2
  <2>4. Agree(h, g, S)
    BY <2>3 DEF Agree
  <2>6. \A s \in SUBSET S : h[s] = g[s]
    BY <1>2, <2>4, AgreeByRemoving
  <2>5. S \in SUBSET S
    OBVIOUS
  <2> QED BY <2>6, <2>5
<1>10. KnownSeconds(lo, hi) = (CHOOSE h : SecondsIter(h, S, lo, hi))[S]
  BY <1>1, KnownSecondsChoice
<1> DEFINE c == CHOOSE h : SecondsIter(h, S, lo, hi)
<1>11. SecondsIter(c, S, lo, hi)
  BY <1>8
<1> HIDE DEF c
<1>12. c[S] = g[S]
  BY <1>9, <1>11
<1> QED BY <1>4, <1>5, <1>10, <1>12 DEF c

LEMMA KnownSumIs ==
    ASSUME SamplesOK(samples), NEW lo \in Int, NEW hi \in Int
    PROVE  KnownSum(lo, hi) = SumIn(samples, lo, hi)
<1> DEFINE S == KnownIn(samples)
           F == [i \in S |-> Part(samples[i], lo, hi)]
           w(i) == Scaled(samples[i].rate, Seconds(i, lo, hi))
<1>1. S = KnownSamples
  BY DEF KnownIn, KnownSamples
<1>2. IsFiniteSet(S) /\ \A i \in S : SampleOK(samples[i]) /\ ~ isnan(samples[i].rate)
  BY SumsType
<1>3. \A i \in S : F[i] = w(i) /\ F[i] \in Fractions
  <2> SUFFICES ASSUME NEW i \in S PROVE F[i] = w(i) /\ F[i] \in Fractions
    OBVIOUS
  <2>1. F[i] = Part(samples[i], lo, hi)
    OBVIOUS
  <2>2. Part(samples[i], lo, hi) \in Fractions
    BY <1>2, KnownRate
  <2>3. Part(samples[i], lo, hi) = w(i)
    BY DEF Part, Seconds, SpanOf, Span
  <2> HIDE DEF F, w
  <2> QED BY <2>1, <2>2, <2>3
<1>4. SumIn(samples, lo, hi) = SumOver(F, PlusOp, Int2Value(0), S)
  BY DEF SumIn
<1> DEFINE z == Int2Value(0)
<1> HIDE DEF S, F, z
<1>5. PICK g : /\ Iterates(g, F, PlusOp, z, S) /\ SumOver(F, PlusOp, z, S) = g[S]
               /\ \A s \in SUBSET S : g[s] \in Fractions
               /\ g = [s \in SUBSET S |-> g[s]] /\ g[{}] = z
               /\ \A s \in SUBSET S : s # {} => g[s] = PlusOp[<<F[Chosen1(s)], g[s \ {Chosen1(s)}]>>]
  <2>1. Adds(PlusOp, z, Fractions)
    BY PlusOpAdds DEF z
  <2>2. \A x \in S : F[x] \in Fractions
    BY <1>3
  <2>3. PICK g : Iterates(g, F, PlusOp, z, S) /\ SumOver(F, PlusOp, z, S) = g[S]
    BY <1>2, SumIterates
  <2>4. IteratesWell(g, F, PlusOp, z, S, Fractions)
    BY <1>2, <2>1, <2>2, <2>3, IteratesIn
  <2> QED BY <2>3, <2>4 DEF IteratesWell
<1> DEFINE v(h, s) == IF s = {} THEN z ELSE Plus(w(Chosen1(s)), h[s \ {Chosen1(s)}])
<1>6. \A h : SumIter(h, S, lo, hi) <=> h = [s \in SUBSET S |-> v(h, s)]
  BY DEF SumIter, Chosen1, z
<1> HIDE DEF w
<1>7. \A s \in SUBSET S : g[s] = v(g, s)
  <2> SUFFICES ASSUME NEW s \in SUBSET S, s # {} PROVE g[s] = Plus(w(Chosen1(s)), g[s \ {Chosen1(s)}])
    BY <1>5
  <2>1. Chosen1(s) \in S /\ s \ {Chosen1(s)} \in SUBSET S
    BY ChosenIn
  <2> DEFINE x == F[Chosen1(s)]
             y == g[s \ {Chosen1(s)}]
  <2>2. x = w(Chosen1(s)) /\ x \in Fractions /\ y \in Fractions
    BY <1>3, <1>5, <2>1
  <2>3. g[s] = PlusOp[<<x, y>>]
    BY <1>5
  <2> HIDE DEF x, y
  <2>4. PlusOp[<<x, y>>] = Plus(x, y)
    BY <2>2, PlusOpAdds
  <2> QED BY <2>2, <2>3, <2>4 DEF x, y
<1>8. SumIter(g, S, lo, hi)
  <2> HIDE DEF v
  <2>1. g = [s \in SUBSET S |-> v(g, s)]
    BY <1>5, <1>7
  <2> QED BY <1>6, <2>1
<1>9. ASSUME NEW h, SumIter(h, S, lo, hi) PROVE h[S] = g[S]
  <2>1. h = [s \in SUBSET S |-> v(h, s)]
    BY <1>6, <1>9
  <2>2. \A s \in SUBSET S : h[s] = v(h, s)
    <3> HIDE DEF v
    <3> QED BY <2>1
  <2>3. ASSUME NEW s \in SUBSET S, s = {} \/ h[s \ {Chosen1(s)}] = g[s \ {Chosen1(s)}]
        PROVE  h[s] = g[s]
    <3>1. h[s] = v(h, s) /\ g[s] = v(g, s)
      BY <1>7, <2>2
    <3>2. v(h, s) = v(g, s)
      BY <2>3
    <3> HIDE DEF v
    <3> QED BY <3>1, <3>2
  <2>4. Agree(h, g, S)
    BY <2>3 DEF Agree
  <2>6. \A s \in SUBSET S : h[s] = g[s]
    BY <1>2, <2>4, AgreeByRemoving
  <2>5. S \in SUBSET S
    OBVIOUS
  <2> QED BY <2>6, <2>5
<1>10. KnownSum(lo, hi) = (CHOOSE h : SumIter(h, S, lo, hi))[S]
  BY <1>1, KnownSumChoice
<1> DEFINE c == CHOOSE h : SumIter(h, S, lo, hi)
<1>11. SumIter(c, S, lo, hi)
  BY <1>8
<1> HIDE DEF c
<1>12. c[S] = g[S]
  BY <1>9, <1>11
<1> QED BY <1>4, <1>5, <1>10, <1>12 DEF c, z

LEMMA ConcatAt ==
    ASSUME NEW m \in Nat, NEW n \in Nat, NEW f, NEW g, f = [k \in 1 .. m |-> f[k]],
           g = [k \in 1 .. n |-> g[k]], NEW k \in 1 .. m + n
    PROVE  (f \o g)[k] = IF k <= m THEN f[k] ELSE g[k - m]
<1> DEFINE V == {f[i] : i \in 1 .. m} \union {g[i] : i \in 1 .. n}
<1>1. /\ \A i \in 1 .. m : f[i] \in V
      /\ \A i \in 1 .. n : g[i] \in V
  OBVIOUS
<1> HIDE DEF V
<1>2. f \in [1 .. m -> V] /\ g \in [1 .. n -> V]
  BY <1>1
<1>3. f \in Seq(V) /\ g \in Seq(V) /\ Len(f) = m /\ Len(g) = n
  BY <1>2
<1> QED BY <1>3, ConcatProperties

PdpAt(ss, cr, k) == IF k <= cr \div Step THEN DNAN ELSE PdpIn(ss, k * Step)

LEMMA CreatedIs ==
    ASSUME Types
    PROVE  Created = CreatedAt(samples, last_up)
<1>1. samples \in Seq(SampleType)
  BY DEF Types, DsOK
<1>2. (samples = <<>>) <=> (DOMAIN samples = {})
  BY <1>1
<1> QED BY <1>2 DEF Created, CreatedAt

PdpKnown(c, lo, hi) ==
    IF c.to - c.from > Heartbeat \/ 2 * (c.from - lo - KnownSeconds(lo, c.from)) > Step
    THEN DNAN
    ELSE Over(KnownSum(lo, hi), KnownSeconds(lo, hi))
PdpKnownFrom(c) == PdpKnown(c, StepStart(c.from), StepStart(c.to))

LEMMA PdpOfChoice ==
    ASSUME NEW e
    PROVE  PdpOf(e) = PdpKnownFrom(samples[CHOOSE i \in DOMAIN samples :
                                            samples[i].from < e /\ e <= samples[i].to])
BY DEF PdpOf, PdpKnownFrom, PdpKnown

LEMMA PdpOfIs ==
    ASSUME Linked(samples, last_up), NEW e \in CreatedAt(samples, last_up) + 1 .. last_up
    PROVE  PdpOf(e) = PdpIn(samples, e)
<1>1. SamplesOK(samples) /\ last_up \in Nat /\ CreatedAt(samples, last_up) \in Nat
  BY DEF Linked
<1>2. e \in Int
  BY <1>1
<1>3. PICK i \in DOMAIN samples : Completes(samples[i], e)
  BY DEF Linked
<1>4. (CHOOSE j \in DOMAIN samples : Completes(samples[j], e)) = i
  BY <1>2, <1>3, ChosenSample
<1>5. (CHOOSE j \in DOMAIN samples : samples[j].from < e /\ e <= samples[j].to) = i
  BY <1>4 DEF Completes
<1> DEFINE c == samples[i]
           lo == StepStart(c.from)
           hi == StepStart(c.to)
<1>6. PdpIn(samples, e) = PdpOfSample(samples, c, lo, hi)
  BY <1>4 DEF PdpIn, PdpFrom
<1>7. PdpOf(e) = PdpKnown(c, lo, hi)
  BY <1>5, PdpOfChoice DEF PdpKnownFrom
<1>8. c.from \in Nat /\ c.to \in Nat
  BY <1>1, <1>3 DEF SamplesOK, SampleOK
<1>9. lo \in Int /\ hi \in Int /\ c.from \in Int
  <2> HIDE DEF c
  <2>1. lo \in Nat /\ hi \in Nat
    BY <1>8, StepStartIs
  <2> QED BY <1>8, <2>1
<1> HIDE DEF lo, hi
<1>10. /\ KnownSeconds(lo, c.from) = SecondsIn(samples, lo, c.from)
       /\ KnownSeconds(lo, hi) = SecondsIn(samples, lo, hi)
       /\ KnownSum(lo, hi) = SumIn(samples, lo, hi)
  BY <1>1, <1>9, KnownSecondsIs, KnownSumIs
<1> QED BY <1>6, <1>7, <1>10 DEF PdpOfSample, PdpKnown

\* A step after the creation ends after it, and none ends after the last update.
LEMMA StepEnds ==
    ASSUME NEW cr \in Nat, NEW last \in Nat, NEW k \in Int, cr \div Step < k, k <= last \div Step
    PROVE  k * Step \in cr + 1 .. last
<1> DEFINE p == cr \div Step
           q == last \div Step
           r == PostInt(cr)
           o == PostInt(last)
<1>1. /\ p \in Nat /\ q \in Nat /\ r \in 0 .. Step - 1 /\ o \in 0 .. Step - 1 /\ Step \in Nat \ {0}
      /\ cr = p * Step + r /\ last = q * Step + o
  BY StepStartIs, StepAssumption
<1>2. p < k /\ k <= q
  OBVIOUS
<1> HIDE DEF p, q, r, o
<1>3. k - (p + 1) \in Nat /\ q - k \in Nat
  BY <1>1, <1>2
<1>4. (k - (p + 1)) * Step \in Nat /\ (q - k) * Step \in Nat /\ k * Step \in Int
  BY <1>1, <1>3, Product
<1>5. k * Step = p * Step + Step + (k - (p + 1)) * Step /\ q * Step = k * Step + (q - k) * Step
  BY <1>1, <1>3
<1> DEFINE A == k * Step
           B == p * Step
           C == q * Step
           D == (k - (p + 1)) * Step
           E == (q - k) * Step
<1>6. B \in Int /\ C \in Int
  BY <1>1
<1>7. /\ A = B + Step + D /\ C = A + E /\ cr = B + r /\ last = C + o
      /\ A \in Int /\ B \in Int /\ C \in Int /\ D \in Nat /\ E \in Nat
  BY <1>1, <1>4, <1>5, <1>6
<1> HIDE DEF A, B, C, D, E
<1>8. A \in cr + 1 .. last
  BY <1>1, <1>7
<1> QED BY <1>8 DEF A

LEMMA DivOrder ==
    ASSUME NEW a \in Nat, NEW b \in Nat, a <= b
    PROVE  a \div Step <= b \div Step /\ a \div Step \in Nat /\ b \div Step \in Nat
<1>1. Step \in Nat \ {0}
  BY StepAssumption
<1>2. PICK p \in Nat, q \in Nat, r \in 0 .. Step - 1, o \in 0 .. Step - 1 :
        /\ a = p * Step + r /\ b = q * Step + o /\ p = a \div Step /\ q = b \div Step
  BY StepStartIs
<1>3. ASSUME ~ (p <= q) PROVE FALSE
  <2>1. p - (q + 1) \in Nat
    BY <1>2, <1>3
  <2>2. (p - (q + 1)) * Step \in Nat /\ p * Step = q * Step + Step + (p - (q + 1)) * Step
    BY <1>1, <2>1, Product
  <2> DEFINE A == p * Step
             B == q * Step
             D == (p - (q + 1)) * Step
  <2>3. A \in Int /\ B \in Int
    BY <1>1
  <2>4. A = B + Step + D /\ D \in Nat /\ a = A + r /\ b = B + o /\ A \in Int /\ B \in Int
    BY <1>2, <2>2, <2>3
  <2> HIDE DEF A, B, D
  <2> QED BY <1>1, <2>4
<1> QED BY <1>2, <1>3

LEMMA PdpsAt ==
    ASSUME Types, Linked(samples, last_up), NEW k \in 1 .. Now
    PROVE  Pdps[k] = PdpAt(samples, Created, k)
<1>1. Created = CreatedAt(samples, last_up) /\ Created \in Nat /\ Created <= last_up /\ last_up \in Nat
  BY CreatedIs DEF Linked
<1> DEFINE m == Created \div Step
           n == (last_up \div Step) - m
           f == [i \in 1 .. m |-> DNAN]
           g == [i \in 1 .. n |-> PdpOf((m + i) * Step)]
<1>2. m \in Nat /\ n \in Nat /\ Now = m + n
  BY <1>1, DivOrder DEF Now
<1>3. Pdps = f \o g
  BY DEF Pdps
<1>4. f = [i \in 1 .. m |-> f[i]] /\ g = [i \in 1 .. n |-> g[i]]
  OBVIOUS
<1>5. k \in 1 .. m + n
  BY <1>2
<1>6. Pdps[k] = IF k <= m THEN f[k] ELSE g[k - m]
  <2> HIDE DEF f, g, m, n
  <2> QED BY <1>2, <1>3, <1>4, <1>5, ConcatAt
<1>7. CASE k <= m
  <2>1. f[k] = DNAN
    BY <1>5, <1>7
  <2> QED BY <1>6, <1>7, <2>1 DEF PdpAt
<1>8. CASE ~ (k <= m)
  <2>1. k - m \in 1 .. n /\ m + (k - m) = k
    BY <1>2, <1>5, <1>8
  <2>2. g[k - m] = PdpOf(k * Step)
    <3> HIDE DEF m, n
    <3> QED BY <2>1
  <2>3. k * Step \in Created + 1 .. last_up
    <3>1. k \in Int /\ Created \div Step < k /\ k <= last_up \div Step
      BY <1>2, <1>8 DEF Now
    <3> QED BY <1>1, <3>1, StepEnds
  <2>4. PdpOf(k * Step) = PdpIn(samples, k * Step)
    BY <1>1, <2>3, PdpOfIs
  <2> QED BY <1>6, <1>8, <2>2, <2>4 DEF PdpAt
<1> QED BY <1>7, <1>8

-----------------------------------------------------------------------------
(* The preparation area of the data source (pdp_prep).                     *)

PrepOK(ss, last, prep) ==
    LET lo == StepStart(last)
    IN  /\ prep.unkn = last - lo - SecondsIn(ss, lo, last)
        /\ prep.val \in Rates1
        /\ IFDNAN(prep.val, Int2Value(0)) = SumIn(ss, lo, last)
        /\ isnan(prep.val) => prep.unkn = last - lo

LEMMA NotNan ==
    ASSUME NEW x \in Fractions
    PROVE  ~ isnan(x) /\ x \in Rates1 /\ \A y : IFDNAN(x, y) = x
BY Fraction DEF isnan, DNAN, Rates1, IFDNAN

LEMMA NewRateIs ==
    ASSUME Types, NEW t \in Nat, t > last_up, NEW v \in KnownReadings
    PROVE  NewRate(t, v) \in Rates1
<1>1. /\ Interval(t) \in Nat \ {0} /\ v \in Int /\ last_ds \in Int
      /\ v * Interval(t) \in Int /\ v - last_ds \in Int
  <2>1. last_up \in Nat /\ last_ds \in Int /\ v \in Int
    BY Constants DEF Types, DsOK
  <2> QED BY <2>1 DEF Interval
<1>2. Unwrapped(v - last_ds) \in Int
  BY <1>1, StepAssumption DEF Unwrapped
<1>3. Amount(t, v) \in Rates1
  <2>1. dst \in {"GAUGE", "COUNTER", "DERIVE", "ABSOLUTE"}
    BY Constants DEF Types, DsOK
  <2>2. \A n \in Int : Int2Value(n) \in Rates1
    BY IntIsFraction DEF Rates1
  <2>3. DNAN \in Rates1
    BY DEF Rates1
  <2> QED BY <1>1, <1>2, <2>1, <2>2, <2>3 DEF Amount
<1>4. Over(Amount(t, v), Interval(t)) \in Rates1
  <2>1. CASE isnan(Amount(t, v))
    BY <2>1 DEF Over, Rates1
  <2>2. CASE ~ isnan(Amount(t, v))
    <3>1. Amount(t, v) \in Fractions
      BY <1>3, <2>2 DEF Rates1, isnan
    <3>2. Over(Amount(t, v), Interval(t)) \in Fractions
      BY <1>1, <3>1, OverType
    <3> QED BY <3>2 DEF Rates1
  <2> QED BY <2>1, <2>2
<1> QED BY <1>4 DEF NewRate, Rates1

LEMMA SampleAdded ==
    ASSUME Types, NEW t \in Nat, t > last_up, NEW v \in KnownReadings,
           Accepted(t, v, NewRate(t, v)), Linked(samples, last_up)
    PROVE  \E s : /\ Follows1(samples, last_up, s, samples')
                  /\ s.from = last_up /\ s.to = t /\ s.rate = NewRate(t, v) /\ last_up' = t
<1> DEFINE r == NewRate(t, v)
           s == [from |-> last_up, to |-> t, type |-> dst, reading |-> v, rate |-> r]
<1>1. r \in Rates1 /\ r \in Values
  BY NewRateIs, RateType
<1> HIDE DEF r
<1>2. /\ samples' \in Seq(SampleType) /\ Len(samples') = Len(samples) + 1 /\ last_up' = t
      /\ samples'[Len(samples) + 1] = s /\ \A i \in 1 .. Len(samples) : samples'[i] = samples[i]
  BY <1>1, AcceptedType DEF r
<1>3. last_up \in Nat /\ samples \in Seq(SampleType)
  BY DEF Types, DsOK
<1>4. s.from = last_up /\ s.to = t /\ s.rate = r
  OBVIOUS
<1> HIDE DEF s
<1>5. SampleOK(s)
  BY <1>1, <1>3, <1>4 DEF SampleOK
<1>6. Extended(samples, samples', s)
  <2>1. /\ Len(samples) \in Nat /\ DOMAIN samples = 1 .. Len(samples)
        /\ DOMAIN samples' = 1 .. Len(samples) + 1
    BY <1>2, <1>3
  <2> QED BY <1>2, <2>1 DEF Extended
<1>7. Follows1(samples, last_up, s, samples')
  BY <1>4, <1>5, <1>6 DEF Follows1
<1> QED BY <1>2, <1>4, <1>7 DEF r

\* What the new sample adds to a window that reaches from before it.
LEMMA AddsToWindow ==
    ASSUME NEW ss, NEW last, NEW s, NEW new, Follows1(ss, last, s, new),
           NEW lo \in Int, NEW hi \in Int, lo <= last, last <= hi, hi <= s.to
    PROVE  /\ SecondsIn(new, lo, hi)
                = SecondsIn(ss, lo, last) + (IF isnan(s.rate) THEN 0 ELSE hi - last)
           /\ SumIn(new, lo, hi) = IF isnan(s.rate) THEN SumIn(ss, lo, last)
                                   ELSE Plus(SumIn(ss, lo, last), Scaled(s.rate, hi - last))
           /\ SecondsIn(ss, lo, last) \in Nat /\ SumIn(ss, lo, last) \in Fractions
           /\ ~ isnan(s.rate) => s.rate \in Fractions
<1>1. /\ Linked(ss, last) /\ SamplesOK(ss) /\ SampleOK(s) /\ s.from = last /\ Extended(ss, new, s)
      /\ last \in Int /\ s.to \in Int /\ last < s.to /\ \A i \in DOMAIN ss : ss[i].to <= last
  BY DEF Follows1, Linked, SampleOK
<1>2. /\ SecondsIn(new, lo, hi)
            = SecondsIn(ss, lo, hi) + (IF isnan(s.rate) THEN 0 ELSE SpanOf(s, lo, hi))
      /\ SumIn(new, lo, hi)
            = IF isnan(s.rate) THEN SumIn(ss, lo, hi)
              ELSE Plus(SumIn(ss, lo, hi), Part(s, lo, hi))
  BY <1>1, SumsExtended
<1>3. SecondsIn(ss, lo, hi) = SecondsIn(ss, lo, last) /\ SumIn(ss, lo, hi) = SumIn(ss, lo, last)
  BY <1>1, SumsWindow
<1>4. SpanOf(s, lo, hi) = hi - last
  <2> DEFINE t == s.to
  <2>1. last \in Int /\ t \in Int /\ hi <= t
    BY <1>1
  <2> HIDE DEF t
  <2>2. Span(last, t, lo, hi) = hi - last
    BY <2>1, SpanIs
  <2> QED BY <1>1, <2>2 DEF SpanOf, t
<1>5. SecondsIn(ss, lo, last) \in Nat /\ SumIn(ss, lo, last) \in Fractions
  BY <1>1, SumsType
<1>6. ~ isnan(s.rate) => s.rate \in Fractions
  BY <1>1 DEF SampleOK, Rates1, isnan
<1> QED BY <1>2, <1>3, <1>4, <1>5, <1>6 DEF Part

LEMMA PrepInit == Init => Linked(samples, last_up) /\ PrepOK(samples, last_up, pdp_prep)
<1> SUFFICES ASSUME Init PROVE Linked(samples, last_up) /\ PrepOK(samples, last_up, pdp_prep)
  OBVIOUS
<1>1. /\ samples = <<>> /\ last_up \in Nat
      /\ pdp_prep = [val |-> Int2Value(0), unkn |-> last_up % Step]
  BY BoundAssumption DEF Init
<1>2. DOMAIN samples = {} /\ KnownIn(samples) = {} /\ DOMAIN samples = 1 .. 0
  BY <1>1 DEF KnownIn
<1>3. Linked(samples, last_up)
  <2>1. SamplesOK(samples) /\ CreatedAt(samples, last_up) = last_up
    BY <1>2 DEF SamplesOK, CreatedAt
  <2> QED BY <1>1, <1>2, <2>1 DEF Linked
<1> DEFINE lo == StepStart(last_up)
<1>4. SecondsIn(samples, lo, last_up) = 0 /\ SumIn(samples, lo, last_up) = Int2Value(0)
  BY <1>2, SumEmpty DEF SecondsIn, SumIn
<1>5. last_up = lo + (last_up % Step) /\ lo \in Nat /\ last_up % Step \in Nat
  BY <1>1, StepStartIs DEF PostInt
<1> HIDE DEF lo
<1>6. last_up % Step = last_up - lo - 0
  BY <1>1, <1>5
<1>7. Int2Value(0) \in Fractions
  BY IntIsFraction
<1>8. pdp_prep.val = Int2Value(0) /\ pdp_prep.unkn = last_up % Step
  BY <1>1
<1>9. PrepOK(samples, last_up, pdp_prep)
  BY <1>4, <1>6, <1>7, <1>8, NotNan DEF PrepOK, lo
<1> QED BY <1>3, <1>9

LEMMA PrepSimple ==
    ASSUME Types, NEW t \in Nat, NEW v \in KnownReadings, SimpleUpdate(t, v),
           Linked(samples, last_up), PrepOK(samples, last_up, pdp_prep)
    PROVE  PrepOK(samples', last_up', pdp_prep')
<1> DEFINE r == NewRate(t, v)
           lo == StepStart(last_up)
<1>1. /\ t > last_up /\ Elapsed(t) = 0 /\ Accepted(t, v, r)
      /\ pdp_prep' = Added(pdp_prep, r, Interval(t)) /\ last_up \in Nat
  BY DEF SimpleUpdate, Timely, Types, DsOK
<1>2. PICK s : /\ Follows1(samples, last_up, s, samples')
               /\ s.from = last_up /\ s.to = t /\ s.rate = r /\ last_up' = t
  BY <1>1, SampleAdded
<1> HIDE DEF r
<1>3. StepStart(t) = lo /\ lo \in Int /\ lo <= last_up
  <2>1. PostInt(t) = PostInt(last_up) + (t - last_up)
    BY <1>1, StepsOf DEF Interval
  <2>2. t = StepStart(t) + PostInt(t) /\ StepStart(t) \in Nat /\ PostInt(t) \in Nat
    BY StepStartIs
  <2>3. last_up = lo + PostInt(last_up) /\ lo \in Nat /\ PostInt(last_up) \in Nat /\ lo <= last_up
    BY <1>1, StepStartIs
  <2> HIDE DEF lo
  <2> QED BY <1>1, <2>1, <2>2, <2>3
<1>4. /\ pdp_prep.unkn = last_up - lo - SecondsIn(samples, lo, last_up)
      /\ pdp_prep.val \in Rates1
      /\ IFDNAN(pdp_prep.val, Int2Value(0)) = SumIn(samples, lo, last_up)
      /\ isnan(pdp_prep.val) => pdp_prep.unkn = last_up - lo
  BY DEF PrepOK
<1> HIDE DEF lo
<1>5. /\ SecondsIn(samples', lo, t)
           = SecondsIn(samples, lo, last_up) + (IF isnan(r) THEN 0 ELSE t - last_up)
      /\ SumIn(samples', lo, t) = IF isnan(r) THEN SumIn(samples, lo, last_up)
                              ELSE Plus(SumIn(samples, lo, last_up), Scaled(r, t - last_up))
      /\ SecondsIn(samples, lo, last_up) \in Nat /\ SumIn(samples, lo, last_up) \in Fractions
      /\ ~ isnan(r) => r \in Fractions
  <2>1. last_up <= t /\ t <= s.to /\ t \in Int /\ lo \in Int /\ lo <= last_up
    BY <1>1, <1>2, <1>3
  <2> QED BY <1>2, <2>1, AddsToWindow
<1>6. pdp_prep \in PrepType /\ Interval(t) = t - last_up
  BY DEF Types, DsOK, Interval
<1>7. CASE isnan(r)
  <2>1. pdp_prep' = [pdp_prep EXCEPT !.unkn = @ + (t - last_up)]
    BY <1>1, <1>6, <1>7 DEF Added
  <2>2. pdp_prep'.val = pdp_prep.val /\ pdp_prep'.unkn = pdp_prep.unkn + (t - last_up)
    BY <1>6, <2>1 DEF PrepType
  <2>3. pdp_prep'.unkn = t - lo - SecondsIn(samples', lo, t)
    BY <1>1, <1>3, <1>4, <1>5, <1>7, <2>2
  <2>4. isnan(pdp_prep.val) => pdp_prep'.unkn = t - lo
    BY <1>1, <1>3, <1>4, <2>2
  <2> QED BY <1>2, <1>3, <1>4, <1>5, <1>7, <2>2, <2>3, <2>4 DEF PrepOK
<1>8. CASE ~ isnan(r)
  <2> DEFINE x == IFDNAN(pdp_prep.val, Int2Value(0))
             y == Scaled(r, t - last_up)
  <2>1. pdp_prep' = [pdp_prep EXCEPT !.val = Plus(IFDNAN(@, Int2Value(0)), y)]
    BY <1>1, <1>6, <1>8 DEF Added
  <2>2. pdp_prep'.val = Plus(x, y) /\ pdp_prep'.unkn = pdp_prep.unkn
    <3> HIDE DEF y
    <3> QED BY <1>6, <2>1 DEF PrepType
  <2>3. x \in Fractions /\ y \in Fractions /\ x = SumIn(samples, lo, last_up)
    <3>1. t - last_up \in Int
      BY <1>1
    <3> QED BY <1>4, <1>5, <1>8, <3>1, ScaledType
  <2>4. Plus(x, y) \in Fractions
    <3> HIDE DEF x, y
    <3> QED BY <2>3, PlusType
  <2>5. SumIn(samples', lo, t) = Plus(x, y)
    BY <1>5, <1>8, <2>3
  <2> HIDE DEF x, y
  <2>6. ~ isnan(pdp_prep'.val) /\ pdp_prep'.val \in Rates1
        /\ IFDNAN(pdp_prep'.val, Int2Value(0)) = SumIn(samples', lo, t)
    BY <2>2, <2>4, <2>5, NotNan
  <2>7. pdp_prep'.unkn = t - lo - SecondsIn(samples', lo, t)
    BY <1>1, <1>3, <1>4, <1>5, <1>8, <2>2
  <2> QED BY <1>2, <1>3, <2>6, <2>7 DEF PrepOK
<1> QED BY <1>7, <1>8

\* The times of an update that completes steps.
LEMMA StepTimes ==
    ASSUME Types, NEW t \in Nat, t > last_up, Elapsed(t) > 0
    PROVE  LET lo == StepStart(last_up)
               hi == StepStart(t)
           IN  /\ lo \in Int /\ hi \in Int /\ lo <= last_up /\ last_up <= hi /\ hi <= t
               /\ last_up \in Nat /\ PreInt(t) = hi - last_up /\ PostInt(t) = t - hi
               /\ Elapsed(t) * Step = hi - lo
<1> DEFINE lo == StepStart(last_up)
           hi == StepStart(t)
           p == last_up \div Step
           q == t \div Step
<1>1. last_up \in Nat
  BY DEF Types, DsOK
<1>2. /\ lo \in Nat /\ lo <= last_up /\ last_up < lo + Step /\ lo = p * Step /\ p \in Nat
      /\ hi \in Nat /\ hi <= t /\ hi = q * Step /\ q \in Nat
      /\ t = hi + PostInt(t) /\ PostInt(t) \in Nat
  <2>1. /\ lo \in Nat /\ lo <= last_up /\ last_up < lo + Step /\ lo = p * Step /\ p \in Nat
    BY <1>1, StepStartIs
  <2>2. /\ hi \in Nat /\ hi <= t /\ hi = q * Step /\ q \in Nat
        /\ t = hi + PostInt(t) /\ PostInt(t) \in Nat
    BY StepStartIs
  <2> HIDE DEF lo, hi, p, q
  <2> QED BY <2>1, <2>2
<1>3. Elapsed(t) = q - p
  BY StepsOf DEF Now
<1>4. PreInt(t) = hi - last_up
  BY DEF PreInt
<1>5. Step \in Nat \ {0}
  BY StepAssumption
<1> HIDE DEF lo, hi, p, q
<1>6. q - (p + 1) \in Nat
  BY <1>2, <1>3
<1>7. (q - (p + 1)) * Step \in Nat /\ q * Step = p * Step + Step + (q - (p + 1)) * Step
      /\ (q - p) * Step = q * Step - p * Step
  BY <1>2, <1>5, <1>6, Product
<1>8. last_up <= hi
  <2> DEFINE d == (q - (p + 1)) * Step
  <2>1. hi = lo + Step + d /\ d \in Nat
    BY <1>2, <1>7
  <2> HIDE DEF d
  <2> QED BY <1>1, <1>2, <1>5, <2>1
<1>9. (q - p) * Step = hi - lo
  BY <1>2, <1>7
<1>10. /\ lo \in Int /\ hi \in Int /\ lo <= last_up /\ last_up <= hi /\ hi <= t
       /\ PostInt(t) = t - hi
  BY <1>2, <1>8
<1> QED BY <1>1, <1>3, <1>4, <1>9, <1>10 DEF lo, hi

LEMMA PrepStep ==
    ASSUME Types, NEW t \in Nat, NEW v \in KnownReadings, StepUpdate(t, v),
           Linked(samples, last_up), PrepOK(samples, last_up, pdp_prep)
    PROVE  PrepOK(samples', last_up', pdp_prep')
<1> DEFINE r == NewRate(t, v)
           hi == StepStart(t)
<1>1. /\ t > last_up /\ Elapsed(t) > 0 /\ Accepted(t, v, r)
      /\ pdp_prep' = OpenPrep(t, r) /\ last_up \in Nat
  BY DEF StepUpdate, Timely, Types, DsOK
<1>2. PICK s : /\ Follows1(samples, last_up, s, samples')
               /\ s.from = last_up /\ s.to = t /\ s.rate = r /\ last_up' = t
  BY <1>1, SampleAdded
<1> HIDE DEF r
<1>3. hi \in Int /\ last_up <= hi /\ hi <= t /\ PostInt(t) = t - hi
  BY <1>1, StepTimes
<1>4. /\ SamplesOK(samples) /\ SampleOK(s) /\ Extended(samples, samples', s)
      /\ \A i \in DOMAIN samples : samples[i].to <= last_up
  BY <1>2 DEF Follows1, Linked
<1> HIDE DEF hi
<1>5. SecondsIn(samples, hi, t) = 0 /\ SumIn(samples, hi, t) = Int2Value(0)
  <2>1. last_up <= t /\ last_up \in Int /\ t \in Int
    BY <1>1
  <2> QED BY <1>3, <1>4, <2>1, SumsWindow
<1>6. SpanOf(s, hi, t) = t - hi
  <2>1. last_up \in Int /\ t \in Int
    BY <1>1
  <2>2. Span(last_up, t, hi, t) = t - hi
    BY <1>3, <2>1, SpanIs
  <2> QED BY <1>2, <2>2 DEF SpanOf
<1>7. /\ SecondsIn(samples', hi, t) = 0 + (IF isnan(r) THEN 0 ELSE t - hi)
      /\ SumIn(samples', hi, t) = IF isnan(r) THEN Int2Value(0)
                                  ELSE Plus(Int2Value(0), Scaled(r, t - hi))
  <2>1. t \in Int
    OBVIOUS
  <2>2. /\ SecondsIn(samples', hi, t)
             = SecondsIn(samples, hi, t) + (IF isnan(s.rate) THEN 0 ELSE SpanOf(s, hi, t))
        /\ SumIn(samples', hi, t)
             = IF isnan(s.rate) THEN SumIn(samples, hi, t)
               ELSE Plus(SumIn(samples, hi, t), Part(s, hi, t))
    BY <1>3, <1>4, <2>1, SumsExtended
  <2> QED BY <1>2, <1>5, <1>6, <2>2 DEF Part
<1>8. CASE isnan(r)
  <2>1. pdp_prep'.val = DNAN /\ pdp_prep'.unkn = t - hi
    BY <1>1, <1>3, <1>8 DEF OpenPrep
  <2>2. SecondsIn(samples', hi, t) = 0 /\ SumIn(samples', hi, t) = Int2Value(0)
    BY <1>7, <1>8
  <2>3. isnan(pdp_prep'.val) /\ IFDNAN(pdp_prep'.val, Int2Value(0)) = Int2Value(0)
        /\ pdp_prep'.val \in Rates1
    BY <2>1 DEF isnan, IFDNAN, Rates1
  <2>4. pdp_prep'.unkn = t - hi - 0
    BY <1>3, <2>1
  <2> QED BY <1>2, <2>1, <2>2, <2>3, <2>4 DEF PrepOK, hi
<1>9. CASE ~ isnan(r)
  <2> DEFINE y == Scaled(r, t - hi)
  <2>1. pdp_prep'.val = y /\ pdp_prep'.unkn = 0
    BY <1>1, <1>3, <1>9 DEF OpenPrep
  <2>2. y \in Fractions
    <3>1. r \in Fractions
      BY <1>2, <1>4, <1>9 DEF SampleOK, Rates1, isnan
    <3>2. t - hi \in Int
      BY <1>3
    <3> QED BY <3>1, <3>2, ScaledType
  <2>3. SecondsIn(samples', hi, t) = t - hi /\ SumIn(samples', hi, t) = Plus(Int2Value(0), y)
    BY <1>3, <1>7, <1>9
  <2> HIDE DEF y
  <2>4. SumIn(samples', hi, t) = y
    BY <2>2, <2>3, ZeroPlus
  <2>5. pdp_prep'.unkn = t - hi - SecondsIn(samples', hi, t)
    BY <1>3, <2>1, <2>3
  <2>6. ~ isnan(y) /\ IFDNAN(y, Int2Value(0)) = y /\ y \in Rates1
    BY <2>2, NotNan
  <2> QED BY <1>2, <2>1, <2>4, <2>5, <2>6 DEF PrepOK, hi
<1> QED BY <1>8, <1>9

-----------------------------------------------------------------------------
(* The PDPs that an update completes (process_pdp_st).                     *)

LEMMA PdpIsMean ==
    ASSUME Types, NEW t \in Nat, NEW v \in KnownReadings, StepUpdate(t, v),
           Linked(samples, last_up), PrepOK(samples, last_up, pdp_prep)
    PROVE  \A e \in last_up + 1 .. t : PdpIn(samples', e) = Pdp(t, NewRate(t, v))
<1> DEFINE r == NewRate(t, v)
           lo == StepStart(last_up)
           hi == StepStart(t)
<1> SUFFICES ASSUME NEW e \in last_up + 1 .. t
             PROVE  PdpIn(samples', e) = Pdp(t, r)
  OBVIOUS
<1>1. /\ t > last_up /\ Elapsed(t) > 0 /\ Accepted(t, v, r) /\ last_up \in Nat
  BY DEF StepUpdate, Timely, Types, DsOK
<1>2. PICK s : /\ Follows1(samples, last_up, s, samples')
               /\ s.from = last_up /\ s.to = t /\ s.rate = r /\ last_up' = t
  BY <1>1, SampleAdded
<1>3. /\ lo \in Int /\ hi \in Int /\ lo <= last_up /\ last_up <= hi /\ hi <= t
      /\ PreInt(t) = hi - last_up /\ Elapsed(t) * Step = hi - lo
  BY <1>1, StepTimes
<1>4. /\ pdp_prep.unkn = last_up - lo - SecondsIn(samples, lo, last_up)
      /\ pdp_prep.val \in Rates1
      /\ IFDNAN(pdp_prep.val, Int2Value(0)) = SumIn(samples, lo, last_up)
      /\ isnan(pdp_prep.val) => pdp_prep.unkn = last_up - lo
  BY DEF PrepOK
<1>5. PdpIn(samples', e) = IF \/ t - last_up > Heartbeat
                              \/ 2 * (last_up - lo - SecondsIn(samples, lo, last_up)) > Step
                           THEN DNAN
                           ELSE Over(SumIn(samples', lo, hi), SecondsIn(samples', lo, hi))
  <2>1. e \in last_up + 1 .. s.to
    BY <1>2
  <2> HIDE DEF r
  <2>2. LET l == StepStart(last_up)
            h == StepStart(s.to)
        IN  PdpIn(samples', e) = IF \/ s.to - last_up > Heartbeat
                                    \/ 2 * (last_up - l - SecondsIn(samples, l, last_up)) > Step
                                 THEN DNAN ELSE Over(SumIn(samples', l, h), SecondsIn(samples', l, h))
    BY <1>2, <2>1, PdpNew
  <2> QED BY <1>2, <2>2
<1> HIDE DEF r, lo, hi
<1>6. /\ SecondsIn(samples', lo, hi)
           = SecondsIn(samples, lo, last_up) + (IF isnan(r) THEN 0 ELSE hi - last_up)
      /\ SumIn(samples', lo, hi) = IF isnan(r) THEN SumIn(samples, lo, last_up)
                              ELSE Plus(SumIn(samples, lo, last_up), Scaled(r, hi - last_up))
      /\ SecondsIn(samples, lo, last_up) \in Nat /\ SumIn(samples, lo, last_up) \in Fractions
      /\ ~ isnan(r) => r \in Fractions
  <2>1. hi <= s.to
    BY <1>2, <1>3
  <2> QED BY <1>2, <1>3, <2>1, AddsToWindow
<1>7. pdp_prep \in PrepType /\ Missed(t) = (Heartbeat < t - last_up)
  BY DEF Types, DsOK, Missed, Interval
<1> DEFINE x == pdp_prep.val
           y == Scaled(r, hi - last_up)
           n == hi - lo - pdp_prep.unkn - (IF isnan(r) THEN hi - last_up ELSE 0)
           known == IF isnan(r) THEN x ELSE Plus(IFDNAN(x, Int2Value(0)), y)
<1>8. Added(pdp_prep, r, PreInt(t)).val = known
  <2>1. CASE isnan(r)
    BY <1>7, <2>1 DEF Added, PrepType
  <2>2. CASE ~ isnan(r)
    <3>1. Added(pdp_prep, r, PreInt(t)) = [pdp_prep EXCEPT !.val = Plus(IFDNAN(@, Int2Value(0)), y)]
      BY <1>3, <2>2 DEF Added
    <3> HIDE DEF y
    <3> QED BY <1>7, <2>2, <3>1 DEF PrepType
  <2> QED BY <2>1, <2>2
<1>9. Pdp(t, r) = IF Missed(t) \/ Step < 2 * pdp_prep.unkn THEN DNAN ELSE Over(known, n)
  <2> HIDE DEF known
  <2> QED BY <1>3, <1>8 DEF Pdp
<1>10. n = SecondsIn(samples', lo, hi)
  <2>1. n = hi - lo - pdp_prep.unkn - (IF isnan(r) THEN hi - last_up ELSE 0)
    OBVIOUS
  <2> HIDE DEF n
  <2> QED BY <1>1, <1>3, <1>4, <1>6, <2>1
<1>11. Over(known, n) = Over(SumIn(samples', lo, hi), SecondsIn(samples', lo, hi))
  <2>1. CASE ~ isnan(r)
    BY <1>4, <1>6, <1>10, <2>1
  <2>2. CASE isnan(r) /\ ~ isnan(x)
    <3>1. known = x /\ IFDNAN(x, Int2Value(0)) = x
      BY <2>2 DEF IFDNAN
    <3> QED BY <1>4, <1>6, <1>10, <2>2, <3>1
  <2>3. CASE isnan(r) /\ isnan(x)
    <3>1. known = x /\ Over(known, n) = DNAN
      BY <2>3 DEF Over
    <3>2. SumIn(samples', lo, hi) = Int2Value(0)
      BY <1>4, <1>6, <2>3 DEF IFDNAN
    <3>3. SecondsIn(samples', lo, hi) = 0
      BY <1>1, <1>3, <1>4, <1>6, <2>3
    <3>4. Over(Int2Value(0), 0) = DNAN
      BY IntIsFraction, OverType
    <3> QED BY <3>1, <3>2, <3>3, <3>4
  <2> QED BY <2>1, <2>2, <2>3
<1> HIDE DEF known, n
<1>12. (Step < 2 * pdp_prep.unkn) = (2 * (last_up - lo - SecondsIn(samples, lo, last_up)) > Step)
  <2>1. Step \in Int
    BY StepAssumption
  <2> QED BY <1>1, <1>3, <1>4, <1>6, <2>1
<1>13. Missed(t) = (t - last_up > Heartbeat)
  BY <1>1, <1>7, StepAssumption
<1> QED BY <1>5, <1>9, <1>11, <1>12, <1>13 DEF r

-----------------------------------------------------------------------------
(* The unknown PDPs of the open period of an archive.                      *)

UnknownIn(ss, cr, lo, hi) == {k \in lo .. hi : isnan(PdpAt(ss, cr, k))}
PeriodStart(a, n) == n - (n % PdpCnt(a)) + 1
CdpOK(ss, cr, n, cdp) ==
    \A a \in Archives : PdpCnt(a) > 1 =>
        cdp[a].unkn = Cardinality(UnknownIn(ss, cr, PeriodStart(a, n), n))

LEMMA UnknownCards ==
    ASSUME NEW ss, NEW cr, NEW lo \in Int, NEW hi \in Int
    PROVE  /\ IsFiniteSet(UnknownIn(ss, cr, lo, hi))
           /\ Cardinality(UnknownIn(ss, cr, lo, hi)) \in Nat
           /\ (\A k \in lo .. hi : isnan(PdpAt(ss, cr, k))) /\ lo <= hi + 1
                => Cardinality(UnknownIn(ss, cr, lo, hi)) = hi - lo + 1
           /\ (\A k \in lo .. hi : ~ isnan(PdpAt(ss, cr, k)))
                => Cardinality(UnknownIn(ss, cr, lo, hi)) = 0
<1> DEFINE A == UnknownIn(ss, cr, lo, hi)
<1>1. A \in SUBSET (lo .. hi) /\ A = {k \in lo .. hi : isnan(PdpAt(ss, cr, k))}
  BY DEF UnknownIn
<1>2. IsFiniteSet(lo .. hi) /\ Cardinality(lo .. hi) = IF lo > hi THEN 0 ELSE hi - lo + 1
  BY FS_Interval
<1> HIDE DEF A
<1>3. IsFiniteSet(A)
  BY <1>1, <1>2, FS_Subset
<1>4. Cardinality(A) \in Nat
  BY <1>3, FS_CardinalityType
<1>5. ASSUME \A k \in lo .. hi : isnan(PdpAt(ss, cr, k)), lo <= hi + 1
      PROVE  Cardinality(A) = hi - lo + 1
  <2>1. A = lo .. hi
    BY <1>1, <1>5
  <2> QED BY <1>2, <1>5, <2>1
<1>6. ASSUME \A k \in lo .. hi : ~ isnan(PdpAt(ss, cr, k)) PROVE Cardinality(A) = 0
  <2>1. A = {}
    BY <1>1, <1>6
  <2> QED BY <2>1, FS_EmptySet
<1> QED BY <1>3, <1>4, <1>5, <1>6 DEF A

LEMMA UnknownExtended ==
    ASSUME NEW ss, NEW new, NEW cr, NEW lo \in Int, NEW m \in Int, NEW hi \in Int,
           lo <= m + 1, m <= hi, \A k \in lo .. m : PdpAt(new, cr, k) = PdpAt(ss, cr, k)
    PROVE  Cardinality(UnknownIn(new, cr, lo, hi))
             = Cardinality(UnknownIn(ss, cr, lo, m)) + Cardinality(UnknownIn(new, cr, m + 1, hi))
<1> DEFINE A == UnknownIn(ss, cr, lo, m)
           B == UnknownIn(new, cr, m + 1, hi)
<1>1. UnknownIn(new, cr, lo, hi) = A \union B /\ A \intersect B = {}
  <2>1. lo .. hi = (lo .. m) \union (m + 1 .. hi) /\ (lo .. m) \intersect (m + 1 .. hi) = {}
    OBVIOUS
  <2> QED BY <2>1 DEF UnknownIn
<1>2. /\ IsFiniteSet(A) /\ IsFiniteSet(B) /\ Cardinality(A) \in Nat /\ Cardinality(B) \in Nat
  <2>1. m + 1 \in Int
    OBVIOUS
  <2> QED BY <2>1, UnknownCards
<1> HIDE DEF A, B
<1>3. Cardinality(A \union B) = Cardinality(A) + Cardinality(B) - Cardinality(A \intersect B)
  BY <1>2, FS_Union
<1>4. Cardinality(A \intersect B) = 0
  BY <1>1, FS_EmptySet
<1> QED BY <1>1, <1>2, <1>3, <1>4 DEF A, B

LEMMA PdpsBefore ==
    ASSUME NEW ss, NEW last, NEW s, NEW new, Follows1(ss, last, s, new),
           NEW k \in Int, k <= last \div Step
    PROVE  PdpAt(new, CreatedAt(ss, last), k) = PdpAt(ss, CreatedAt(ss, last), k)
<1> DEFINE cr == CreatedAt(ss, last)
<1>1. cr \in Nat /\ last \in Nat
  BY DEF Follows1, Linked
<1>2. CASE k <= cr \div Step
  BY <1>2 DEF PdpAt
<1>3. CASE ~ (k <= cr \div Step)
  <2>1. cr \div Step \in Nat
    BY <1>1, StepStartIs
  <2>2. k * Step \in cr + 1 .. last
    <3> HIDE DEF cr
    <3>1. cr \div Step < k
      BY <1>3, <2>1
    <3> QED BY <1>1, <3>1, StepEnds
  <2>3. PdpIn(new, k * Step) = PdpIn(ss, k * Step)
    BY <2>2, PdpStays
  <2> QED BY <2>3 DEF PdpAt
<1> QED BY <1>2, <1>3

\* The PDPs before an update stay what they are; those it completes are one.
LEMMA PdpsOn ==
    ASSUME Types, NEW t \in Nat, NEW v \in KnownReadings, StepUpdate(t, v),
           Linked(samples, last_up), PrepOK(samples, last_up, pdp_prep)
    PROVE  LET cr == CreatedAt(samples, last_up)
           IN  /\ cr \in Nat /\ last_up' = t /\ CreatedAt(samples', t) = cr
               /\ \A k \in Int : k <= Now => PdpAt(samples', cr, k) = PdpAt(samples, cr, k)
               /\ \A k \in Now + 1 .. t \div Step :
                     PdpAt(samples', cr, k) = Pdp(t, NewRate(t, v))
<1> DEFINE cr == CreatedAt(samples, last_up)
<1>1. /\ t > last_up /\ Accepted(t, v, NewRate(t, v)) /\ last_up \in Nat
  BY DEF StepUpdate, Timely, Types, DsOK
<1>2. PICK s : /\ Follows1(samples, last_up, s, samples')
               /\ s.from = last_up /\ s.to = t /\ last_up' = t
  BY <1>1, SampleAdded
<1>3. cr \in Nat /\ cr <= last_up
  BY DEF Linked
<1>4. CreatedAt(samples', t) = cr
  BY <1>2, LinkedOn
<1> HIDE DEF cr
<1>5. cr \div Step <= Now /\ cr \div Step \in Nat /\ Now \in Nat /\ Now = last_up \div Step
  BY <1>1, <1>3, DivOrder DEF Now
<1>6. ASSUME NEW k \in Int, k <= Now PROVE PdpAt(samples', cr, k) = PdpAt(samples, cr, k)
  <2>1. k <= last_up \div Step
    BY <1>5, <1>6
  <2> QED BY <1>2, <2>1, PdpsBefore DEF cr
<1>7. ASSUME NEW k \in Now + 1 .. t \div Step PROVE PdpAt(samples', cr, k) = Pdp(t, NewRate(t, v))
  <2>1. t \div Step \in Nat
    BY StepStartIs
  <2>2. k \in Int /\ ~ (k <= cr \div Step) /\ Now < k /\ k <= t \div Step
    BY <1>5, <2>1
  <2>3. k * Step \in last_up + 1 .. t
    BY <1>1, <1>5, <2>2, StepEnds
  <2>4. PdpIn(samples', k * Step) = Pdp(t, NewRate(t, v))
    BY <2>3, PdpIsMean
  <2> QED BY <2>2, <2>4 DEF PdpAt
<1> QED BY <1>2, <1>3, <1>4, <1>6, <1>7 DEF cr

LEMMA LastMultiple ==
    ASSUME NEW d \in Nat \ {0}, NEW k \in Nat, NEW q \in Int, q * d <= k
    PROVE  q * d <= k - (k % d)
<1> DEFINE p == k \div d
           r == k % d
<1>1. p \in Int /\ r \in 0 .. d - 1 /\ k = p * d + r
  BY DivMod
<1> HIDE DEF p, r
<1>2. CASE q <= p
  <2>1. p - q \in Nat
    BY <1>1, <1>2
  <2>2. (p - q) * d \in Nat /\ p * d = q * d + (p - q) * d
    BY <1>1, <2>1, Product
  <2> DEFINE A == p * d
             B == q * d
             D == (p - q) * d
  <2>3. A \in Int /\ B \in Int
    BY <1>1
  <2>4. A = B + D /\ D \in Nat /\ k = A + r /\ A \in Int /\ B \in Int
    BY <1>1, <2>2, <2>3
  <2> HIDE DEF A, B, D
  <2>5. B <= k - r
    BY <1>1, <2>4
  <2> QED BY <2>5 DEF B, r
<1>3. CASE ~ (q <= p)
  <2>1. q - (p + 1) \in Nat
    BY <1>1, <1>3
  <2>2. (q - (p + 1)) * d \in Nat /\ q * d = p * d + d + (q - (p + 1)) * d
    BY <1>1, <2>1, Product
  <2> DEFINE A == q * d
             B == p * d
             D == (q - (p + 1)) * d
  <2>3. A \in Int /\ B \in Int
    BY <1>1
  <2>4. A = B + d + D /\ D \in Nat /\ k = B + r /\ A <= k /\ A \in Int /\ B \in Int
    BY <1>1, <2>2, <2>3
  <2> HIDE DEF A, B, D
  <2> QED BY <1>1, <2>4
<1> QED BY <1>2, <1>3

\* The preparation area of an archive, when an update completes n PDPs.
LEMMA CdpStep ==
    ASSUME NEW a \in Archives, PdpCnt(a) > 1, NEW n \in Nat, last_up \in Nat, NEW pdp,
           NEW ss, NEW new, NEW cr, cdp_prep[a] \in CdpType,
           cdp_prep[a].unkn = Cardinality(UnknownIn(ss, cr, PeriodStart(a, Now), Now)),
           \A k \in Int : k <= Now => PdpAt(new, cr, k) = PdpAt(ss, cr, k),
           \A k \in Now + 1 .. Now + n : PdpAt(new, cr, k) = pdp
    PROVE  update_cdp_prep(a, pdp, n).unkn
             = Cardinality(UnknownIn(new, cr, PeriodStart(a, Now + n), Now + n))
<1> DEFINE p == PdpCnt(a)
           m == Now
           cdp == cdp_prep[a]
           o == StartPdpOffset(a)
           c == Cardinality(UnknownIn(new, cr, PeriodStart(a, m + n), m + n))
<1>1. p \in Nat \ {0} /\ m \in Nat
  BY Constants, StepStartIs DEF Now
<1>2. /\ RraStepCnt(a, n) \in Nat /\ o \in Nat /\ m % p \in Nat /\ (m + n) % p \in Nat
      /\ RraStepCnt(a, n) > 0 => (n - o) % p = (m + n) % p
      /\ RraStepCnt(a, n) = 0 => (m + n) % p = (m % p) + n
  BY RowsDue
<1>3. m % p \in 0 .. p - 1 /\ (m + n) % p \in 0 .. p - 1
  <2> HIDE DEF p, m
  <2> QED BY <1>1, DivMod
<1>4. /\ PeriodStart(a, m) = m - (m % p) + 1
      /\ PeriodStart(a, m + n) = (m + n) - ((m + n) % p) + 1
      /\ o = p - (m % p)
  BY DEF PeriodStart, StartPdpOffset, Now
<1>5. cdp \in CdpType /\ cdp.unkn \in Nat
  BY DEF CdpType
<1>6. CASE RraStepCnt(a, n) > 0
  <2>1. update_cdp_prep(a, pdp, n).unkn = IF isnan(pdp) THEN (m + n) % p ELSE 0
    BY <1>2, <1>6 DEF update_cdp_prep, CloseCdp
  <2>2. o <= n
    BY <1>2, <1>6 DEF RraStepCnt
  <2>3. m <= (m + n) - ((m + n) % p)
    <3> HIDE DEF p, m, o
    <3> DEFINE d == m \div p
               r == m % p
               e == (d + 1) * p
    <3>1. d \in Int /\ r \in 0 .. p - 1 /\ m = d * p + r
      BY <1>1, DivMod
    <3>2. e = d * p + p /\ d * p \in Int /\ e \in Int
      BY <1>1, <3>1
    <3>3. o = p - r
      BY <1>4
    <3> DEFINE b == d * p
    <3>4. e = b + p /\ m = b + r /\ b \in Int
      BY <3>1, <3>2
    <3> HIDE DEF d, r, b
    <3>5. e <= m + n /\ m <= e /\ m + n \in Nat /\ d + 1 \in Int
      <4> HIDE DEF e
      <4> QED BY <1>1, <2>2, <3>1, <3>2, <3>3, <3>4
    <3>6. e <= (m + n) - ((m + n) % p)
      BY <1>1, <3>5, LastMultiple
    <3> DEFINE g == (m + n) % p
    <3>7. e <= (m + n) - g /\ g \in Int
      BY <1>2, <3>6
    <3> HIDE DEF e, g
    <3>8. m <= (m + n) - g
      BY <1>1, <3>2, <3>5, <3>7
    <3> QED BY <3>8 DEF g
  <2> DEFINE g == (m + n) % p
             lo == PeriodStart(a, m + n)
  <2>4. g \in Nat /\ m + n \in Int /\ lo = (m + n) - g + 1 /\ m <= (m + n) - g /\ m \in Int
    BY <1>1, <1>2, <1>4, <2>3
  <2>5. c = Cardinality(UnknownIn(new, cr, lo, m + n))
    OBVIOUS
  <2> HIDE DEF g, lo, p, m
  <2>6. lo \in Int /\ lo <= m + n + 1 /\ \A k \in lo .. m + n : k \in m + 1 .. m + n
    BY <2>4
  <2>7. \A k \in lo .. m + n : PdpAt(new, cr, k) = pdp
    BY <2>6 DEF m
  <2>8. CASE isnan(pdp)
    <3>1. c = (m + n) - lo + 1
      BY <2>4, <2>5, <2>6, <2>7, <2>8, UnknownCards
    <3>2. c = g
      BY <2>4, <3>1
    <3> QED BY <2>1, <2>8, <3>2 DEF g, m, p
  <2>9. CASE ~ isnan(pdp)
    <3>1. c = 0
      BY <2>4, <2>5, <2>6, <2>7, <2>9, UnknownCards
    <3> QED BY <2>1, <2>9, <3>1 DEF m, p
  <2> QED BY <2>8, <2>9
<1>7. CASE RraStepCnt(a, n) = 0
  <2>1. update_cdp_prep(a, pdp, n).unkn = cdp.unkn + (IF isnan(pdp) THEN n ELSE 0)
    <3>1. update_cdp_prep(a, pdp, n) = ExtendCdp(a, cdp, pdp, n)
      BY <1>7 DEF update_cdp_prep
    <3>2. CASE isnan(pdp)
      <4>1. ExtendCdp(a, cdp, pdp, n) = [cdp EXCEPT !.unkn = @ + n]
        BY <3>2 DEF ExtendCdp
      <4> HIDE DEF cdp
      <4> QED BY <1>5, <3>1, <3>2, <4>1 DEF CdpType
    <3>3. CASE ~ isnan(pdp)
      <4>1. ExtendCdp(a, cdp, pdp, n) = [cdp EXCEPT !.val = calculate_cdp_val(a, @, pdp, n)]
        BY <3>3 DEF ExtendCdp
      <4> HIDE DEF cdp
      <4>2. ExtendCdp(a, cdp, pdp, n).unkn = cdp.unkn
        BY <1>5, <4>1 DEF CdpType
      <4> QED BY <1>5, <3>1, <3>3, <4>2
    <3> QED BY <3>2, <3>3
  <2> DEFINE lo == PeriodStart(a, m)
             u == Cardinality(UnknownIn(ss, cr, lo, m))
             w == Cardinality(UnknownIn(new, cr, m + 1, m + n))
  <2>2. /\ PeriodStart(a, m + n) = lo /\ lo \in Int /\ lo <= m + 1 /\ m <= m + n
        /\ m \in Int /\ m + n \in Int /\ m + 1 \in Int
    <3> DEFINE g == (m + n) % p
               h == m % p
               lp == PeriodStart(a, m + n)
    <3>1. g = h + n /\ h \in Nat /\ lo = m - h + 1 /\ lp = (m + n) - g + 1 /\ m \in Nat
      BY <1>1, <1>2, <1>4, <1>7
    <3> HIDE DEF g, h, lo, lp, m, p
    <3> QED BY <3>1 DEF lp
  <2>3. c = Cardinality(UnknownIn(new, cr, lo, m + n)) /\ cdp.unkn = u
    BY <2>2
  <2>4. \A k \in lo .. m : PdpAt(new, cr, k) = PdpAt(ss, cr, k)
    <3>1. \A k \in lo .. m : k \in Int /\ k <= m
      BY <2>2
    <3> HIDE DEF lo
    <3> QED BY <3>1
  <2> HIDE DEF lo, m, p
  <2>5. c = u + w
    <3> HIDE DEF c
    <3> QED BY <2>2, <2>3, <2>4, UnknownExtended
  <2>6. w = IF isnan(pdp) THEN n ELSE 0
    <3>1. \A k \in m + 1 .. m + n : PdpAt(new, cr, k) = pdp
      BY DEF m
    <3>2. m + 1 <= (m + n) + 1
      BY <2>2
    <3>3. CASE isnan(pdp)
      <4>1. w = (m + n) - (m + 1) + 1
        BY <2>2, <3>1, <3>2, <3>3, UnknownCards
      <4> HIDE DEF w
      <4> QED BY <2>2, <3>3, <4>1
    <3>4. CASE ~ isnan(pdp)
      <4>1. w = 0
        BY <2>2, <3>1, <3>4, UnknownCards
      <4> QED BY <3>4, <4>1
    <3> QED BY <3>3, <3>4
  <2> HIDE DEF u, w, c
  <2> QED BY <2>1, <2>3, <2>5, <2>6 DEF c, m
<1> HIDE DEF p, m, o
<1> QED BY <1>2, <1>6, <1>7

CountInv ==
    /\ Types /\ Linked(samples, last_up)
    /\ PrepOK(samples, last_up, pdp_prep)
    /\ CdpOK(samples, CreatedAt(samples, last_up), Now, cdp_prep)

LEMMA InitCounts == Init => CountInv
<1> SUFFICES ASSUME Init PROVE CountInv
  OBVIOUS
<1>1. Types /\ Linked(samples, last_up) /\ PrepOK(samples, last_up, pdp_prep)
  BY InitTypes, PrepInit
<1>2. /\ CreatedAt(samples, last_up) = last_up /\ last_up \in Nat /\ Now \in Nat
      /\ cdp_prep = [a \in Archives |->
                       [val |-> DNAN, unkn |-> (last_up \div Step) % PdpCnt(a),
                        primary |-> Int2Value(0), secondary |-> Int2Value(0)]]
  <2>1. samples = <<>> /\ last_up \in Nat
    BY <1>1 DEF Init, Types, DsOK
  <2>2. Now \in Nat
    BY <2>1, StepStartIs DEF Now
  <2> QED BY <2>1, <2>2 DEF Init, CreatedAt
<1>3. ASSUME NEW a \in Archives
      PROVE  cdp_prep[a].unkn = Cardinality(UnknownIn(samples, last_up, PeriodStart(a, Now), Now))
  <2> DEFINE g == Now % PdpCnt(a)
  <2>1. cdp_prep[a].unkn = g
    BY <1>2 DEF Now
  <2>2. PeriodStart(a, Now) = Now - g + 1 /\ g \in Nat
    <3>1. PdpCnt(a) \in Nat \ {0} /\ Now \in Int
      BY <1>2, Constants
    <3>2. g \in 0 .. PdpCnt(a) - 1
      BY <3>1, DivMod
    <3> QED BY <3>1, <3>2 DEF PeriodStart
  <2> HIDE DEF g
  <2> DEFINE lo == PeriodStart(a, Now)
  <2>3. lo \in Int /\ Now \in Int /\ lo <= Now + 1 /\ Now - lo + 1 = g
    BY <1>2, <2>2
  <2>4. \A k \in lo .. Now : isnan(PdpAt(samples, last_up, k))
    BY <2>3 DEF PdpAt, isnan, Now
  <2> HIDE DEF lo
  <2>5. Cardinality(UnknownIn(samples, last_up, lo, Now)) = Now - lo + 1
    BY <2>3, <2>4, UnknownCards
  <2> QED BY <2>1, <2>3, <2>5 DEF lo
<1>4. CdpOK(samples, last_up, Now, cdp_prep)
  BY <1>3 DEF CdpOK
<1> QED BY <1>1, <1>2, <1>4 DEF CountInv

LEMMA SimpleCounts ==
    ASSUME CountInv, NEW t \in Nat, NEW v \in KnownReadings, SimpleUpdate(t, v)
    PROVE  CountInv'
<1>1. /\ Types /\ Linked(samples, last_up) /\ PrepOK(samples, last_up, pdp_prep)
      /\ CdpOK(samples, CreatedAt(samples, last_up), Now, cdp_prep)
  BY DEF CountInv
<1>2. Types' /\ PrepOK(samples', last_up', pdp_prep')
  BY <1>1, SimpleStep, PrepSimple
<1>3. t > last_up /\ Elapsed(t) = 0 /\ Accepted(t, v, NewRate(t, v)) /\ cdp_prep' = cdp_prep
      /\ last_up \in Nat
  BY <1>1 DEF SimpleUpdate, Timely, Types, DsOK
<1>4. PICK s : Follows1(samples, last_up, s, samples') /\ s.to = t /\ last_up' = t
  BY <1>1, <1>3, SampleAdded
<1>5. Linked(samples', last_up') /\ CreatedAt(samples', last_up') = CreatedAt(samples, last_up)
  BY <1>4, LinkedOn
<1>6. Now' = Now /\ Now \in Nat /\ Now = last_up \div Step
  <2>1. Now \in Nat /\ Elapsed(t) = (t \div Step) - Now
    BY <1>1, <1>3, StepsOf
  <2>2. t \div Step \in Nat /\ Now' = t \div Step
    BY <1>4, StepStartIs DEF Now
  <2>3. t \div Step = Now
    BY <1>3, <2>1, <2>2
  <2> QED BY <2>1, <2>2, <2>3 DEF Now
<1> DEFINE cr == CreatedAt(samples, last_up)
<1>7. ASSUME NEW k \in Int, k <= Now PROVE PdpAt(samples', cr, k) = PdpAt(samples, cr, k)
  <2>1. k <= last_up \div Step
    BY <1>6, <1>7
  <2> QED BY <1>4, <2>1, PdpsBefore
<1> HIDE DEF cr
<1>8. \A lo \in Int : UnknownIn(samples', cr, lo, Now) = UnknownIn(samples, cr, lo, Now)
  BY <1>6, <1>7 DEF UnknownIn
<1>9. CdpOK(samples', cr, Now, cdp_prep')
  <2> SUFFICES ASSUME NEW a \in Archives, PdpCnt(a) > 1
               PROVE  cdp_prep'[a].unkn
                        = Cardinality(UnknownIn(samples', cr, PeriodStart(a, Now), Now))
    BY DEF CdpOK
  <2>1. cdp_prep[a].unkn = Cardinality(UnknownIn(samples, cr, PeriodStart(a, Now), Now))
    BY <1>1 DEF CdpOK, cr
  <2>2. PeriodStart(a, Now) \in Int
    <3>1. PdpCnt(a) \in Nat \ {0}
      BY Constants
    <3>2. Now % PdpCnt(a) \in Int
      BY <1>6, <3>1, DivMod
    <3> QED BY <1>6, <3>2 DEF PeriodStart
  <2> QED BY <1>3, <1>8, <2>1, <2>2
<1>10. CdpOK(samples', CreatedAt(samples', last_up'), Now', cdp_prep')
  BY <1>5, <1>6, <1>9 DEF cr
<1> QED BY <1>2, <1>5, <1>10 DEF CountInv, CdpOK, PeriodStart, PdpCnt

LEMMA StepCounts ==
    ASSUME CountInv, NEW t \in Nat, NEW v \in KnownReadings, StepUpdate(t, v)
    PROVE  CountInv'
<1> DEFINE cr == CreatedAt(samples, last_up)
           pdp == Pdp(t, NewRate(t, v))
           n == Elapsed(t)
<1>1. /\ Types /\ Linked(samples, last_up) /\ PrepOK(samples, last_up, pdp_prep)
      /\ CdpOK(samples, cr, Now, cdp_prep)
  BY DEF CountInv
<1>2. Types' /\ PrepOK(samples', last_up', pdp_prep')
  BY <1>1, StepStep, PrepStep
<1>3. t > last_up /\ n > 0 /\ Accepted(t, v, NewRate(t, v)) /\ last_up \in Nat
      /\ cdp_prep' = [a \in Archives |-> update_cdp_prep(a, pdp, n)]
      /\ cdp_prep \in [Archives -> CdpType]
  BY <1>1 DEF StepUpdate, Timely, Types, DsOK, ArchivesOK
<1>4. Linked(samples', last_up')
  <2>1. PICK s : Follows1(samples, last_up, s, samples') /\ s.to = t /\ last_up' = t
    BY <1>1, <1>3, SampleAdded
  <2> QED BY <2>1, LinkedOn
<1>5. /\ cr \in Nat /\ last_up' = t /\ CreatedAt(samples', t) = cr
      /\ \A k \in Int : k <= Now => PdpAt(samples', cr, k) = PdpAt(samples, cr, k)
      /\ \A k \in Now + 1 .. t \div Step : PdpAt(samples', cr, k) = pdp
  BY <1>1, PdpsOn
<1>6. n \in Nat /\ t \div Step = Now + n /\ Now' = Now + n
  <2>1. Now \in Nat /\ n = (t \div Step) - Now
    BY <1>1, <1>3, StepsOf
  <2>2. t \div Step \in Nat /\ Now' = t \div Step
    BY <1>5, StepStartIs DEF Now
  <2> HIDE DEF n
  <2>3. n \in Nat /\ t \div Step = Now + n
    BY <1>3, <2>1, <2>2
  <2> QED BY <2>2, <2>3
<1> HIDE DEF cr, pdp, n
<1>7. \A k \in Now + 1 .. Now + n : PdpAt(samples', cr, k) = pdp
  BY <1>5, <1>6
<1>8. CdpOK(samples', cr, Now + n, cdp_prep')
  <2> SUFFICES ASSUME NEW a \in Archives, PdpCnt(a) > 1
               PROVE  cdp_prep'[a].unkn
                        = Cardinality(UnknownIn(samples', cr, PeriodStart(a, Now + n), Now + n))
    BY DEF CdpOK
  <2>1. cdp_prep[a].unkn = Cardinality(UnknownIn(samples, cr, PeriodStart(a, Now), Now))
    BY <1>1 DEF CdpOK
  <2>2. cdp_prep[a] \in CdpType /\ cdp_prep'[a] = update_cdp_prep(a, pdp, n)
    BY <1>3
  <2>3. update_cdp_prep(a, pdp, n).unkn
          = Cardinality(UnknownIn(samples', cr, PeriodStart(a, Now + n), Now + n))
    BY <1>3, <1>5, <1>6, <1>7, <2>1, <2>2, CdpStep
  <2> QED BY <2>2, <2>3
<1>9. CdpOK(samples', CreatedAt(samples', last_up'), Now', cdp_prep')
  BY <1>5, <1>6, <1>8
<1> QED BY <1>2, <1>4, <1>9 DEF CountInv, CdpOK, PeriodStart, PdpCnt

LEMMA SameCounts ==
    ASSUME CountInv, Types', UNCHANGED <<last_up, samples>>,
           pdp_prep'.val = pdp_prep.val, pdp_prep'.unkn = pdp_prep.unkn,
           \A a \in Archives : cdp_prep'[a].unkn = cdp_prep[a].unkn
    PROVE  CountInv'
<1>1. Linked(samples', last_up') /\ PrepOK(samples', last_up', pdp_prep')
  BY DEF CountInv, PrepOK
<1>2. CdpOK(samples', CreatedAt(samples', last_up'), Now', cdp_prep')
  BY DEF CountInv, CdpOK, Now
<1> QED BY <1>1, <1>2 DEF CountInv, CdpOK, PeriodStart, PdpCnt

LEMMA UpdateCounts == CountInv /\ Next => CountInv'
<1> SUFFICES ASSUME CountInv, NEW t \in Times, NEW v \in Readings[dst] \union {U},
                    SimpleUpdate(t, v) \/ StepUpdate(t, v) \/ RefusedUpdate(t, v)
             PROVE  CountInv'
  BY DEF Next
<1>1. t \in Nat /\ v \in KnownReadings /\ Types
  BY NextReading DEF CountInv
<1>2. CASE RefusedUpdate(t, v)
  <2>1. UNCHANGED <<last_up, samples, pdp_prep, cdp_prep>>
    BY <1>2 DEF RefusedUpdate
  <2>2. Types'
    BY <1>1, <1>2, RefusedStep
  <2> QED BY <2>1, <2>2, SameCounts
<1> QED BY <1>1, <1>2, SimpleCounts, StepCounts

LEMMA FileCounts == CountInv /\ [FileNext]_fileVars => CountInv'
<1> SUFFICES ASSUME CountInv, [FileNext]_fileVars PROVE CountInv'
  OBVIOUS
<1>1. Types'
  BY FileTypes DEF CountInv
<1>2. CASE Next
  BY <1>2, UpdateCounts
<1>3. ASSUME UNCHANGED <<last_up, samples, pdp_prep, cdp_prep>> PROVE CountInv'
  BY <1>1, <1>3, SameCounts
<1>4. ASSUME NEW type \in DsTypes, Tune(type) PROVE CountInv'
  BY <1>3, <1>4 DEF Tune, Edit
<1>5. ASSUME NEW z \in Resizes, Grow(z.rra, z.rows) \/ Shrink(z.rra, z.rows) PROVE CountInv'
  BY <1>3, <1>5 DEF Grow, Shrink, Edit
<1>6. ASSUME NEW range_check \in BOOLEAN, Restore(range_check) PROVE CountInv'
  <2>1. /\ UNCHANGED <<last_up, samples>>
        /\ pdp_prep' = [val |-> pdp_prep.val, unkn |-> pdp_prep.unkn]
    BY <1>6 DEF Restore, DumpedDs
  <2>2. cdp_prep' = [a \in Archives |->
           LET d == DumpedCdpPrep(a)
           IN  [val |-> d.value, unkn |-> d.unknown_datapoints,
                primary |-> d.primary_value, secondary |-> d.secondary_value]]
    BY <1>6 DEF Restore
  <2>3. \A a \in Archives : cdp_prep'[a].unkn = cdp_prep[a].unkn
    BY <2>2 DEF DumpedCdpPrep
  <2> QED BY <1>1, <2>1, <2>3, SameCounts
<1>7. CASE UNCHANGED fileVars
  BY <1>3, <1>7 DEF fileVars, vars
<1> QED BY <1>2, <1>4, <1>5, <1>6, <1>7 DEF FileNext

LEMMA CountsAreRight == CountInv => PrepCountsTheOpen
<1> SUFFICES ASSUME CountInv PROVE PrepCountsTheOpen
  OBVIOUS
<1> DEFINE lo == StepStart(last_up)
           cr == CreatedAt(samples, last_up)
<1>1. /\ Types /\ Linked(samples, last_up) /\ PrepOK(samples, last_up, pdp_prep)
      /\ CdpOK(samples, cr, Now, cdp_prep) /\ SamplesOK(samples) /\ last_up \in Nat
  BY DEF CountInv, Linked
<1>2. lo \in Int /\ last_up \in Int /\ Now \in Nat
  BY <1>1, StepStartIs DEF Now
<1>3. /\ KnownSeconds(lo, last_up) = SecondsIn(samples, lo, last_up)
      /\ KnownSum(lo, last_up) = SumIn(samples, lo, last_up)
  <2> HIDE DEF lo
  <2> QED BY <1>1, <1>2, KnownSecondsIs, KnownSumIs
<1>4. /\ pdp_prep.unkn = last_up - lo - KnownSeconds(lo, last_up)
      /\ IFDNAN(pdp_prep.val, Int2Value(0)) = KnownSum(lo, last_up)
  BY <1>1, <1>3 DEF PrepOK
<1>5. ASSUME NEW a \in Archives, PdpCnt(a) > 1
      PROVE  LET open == Complete(a) + 1 .. Now
             IN  cdp_prep[a].unkn = Cardinality(open) - Cardinality(KnownOf(Pdps, open))
  <2> DEFINE open == Complete(a) + 1 .. Now
             A == UnknownIn(samples, cr, Complete(a) + 1, Now)
             B == KnownOf(Pdps, open)
  <2>1. Complete(a) \in Int /\ Complete(a) + 1 \in Int /\ \A k \in open : k \in 1 .. Now
    <3>1. PdpCnt(a) \in Nat \ {0} /\ Now \in Int
      BY <1>2, Constants
    <3> DEFINE q == Now \div PdpCnt(a)
               r == Now % PdpCnt(a)
    <3>2. q \in Nat /\ r \in 0 .. PdpCnt(a) - 1 /\ Now = q * PdpCnt(a) + r
      BY <1>2, <3>1, DivMod, DivNat
    <3>3. q * PdpCnt(a) \in Nat
      BY <3>1, <3>2, Product
    <3>4. Complete(a) = Now - r
      BY DEF Complete
    <3> HIDE DEF q, r
    <3>5. Complete(a) \in Nat
      BY <1>2, <3>2, <3>3, <3>4
    <3> QED BY <1>2, <3>5
  <2>2. PeriodStart(a, Now) = Complete(a) + 1
    BY DEF PeriodStart, Complete
  <2>3. cdp_prep[a].unkn = Cardinality(A)
    BY <1>1, <1>5, <2>2 DEF CdpOK
  <2>4. \A k \in open : Pdps[k] = PdpAt(samples, cr, k)
    <3>1. Created = cr
      BY <1>1, CreatedIs
    <3> HIDE DEF cr, open
    <3> QED BY <1>1, <2>1, <3>1, PdpsAt
  <2>5. A = {k \in open : isnan(Pdps[k])} /\ B = {k \in open : ~ isnan(Pdps[k])}
    <3>1. A = {k \in open : isnan(PdpAt(samples, cr, k))}
      BY DEF UnknownIn
    <3>2. B = {k \in open : ~ isnan(Pdps[k])}
      BY DEF KnownOf
    <3> HIDE DEF A, B, open, cr
    <3> QED BY <2>4, <3>1, <3>2
  <2>6. IsFiniteSet(open)
    BY <1>2, <2>1, FS_Interval
  <2> HIDE DEF A, B, open
  <2>7. A \in SUBSET open /\ B \in SUBSET open /\ A \union B = open /\ A \intersect B = {}
    BY <2>5
  <2>8. IsFiniteSet(A) /\ IsFiniteSet(B) /\ Cardinality(A) \in Nat /\ Cardinality(B) \in Nat
    BY <2>6, <2>7, FS_Subset, FS_CardinalityType
  <2>9. Cardinality(open) = Cardinality(A) + Cardinality(B)
    <3>1. Cardinality(A \union B) = Cardinality(A) + Cardinality(B) - Cardinality(A \intersect B)
      BY <2>8, FS_Union
    <3>2. Cardinality(A \intersect B) = 0
      BY <2>7, FS_EmptySet
    <3> QED BY <2>7, <2>8, <3>1, <3>2
  <2>10. cdp_prep[a].unkn = Cardinality(open) - Cardinality(B)
    BY <2>3, <2>8, <2>9
  <2> QED BY <2>10 DEF open, B
<1> QED BY <1>4, <1>5 DEF PrepCountsTheOpen

(* The preparation areas hold exactly what the accepted updates say of the *)
(* open step and of the open periods: the seconds of the step that are     *)
(* unknown, the sum over the known ones, and the unknown PDPs of every     *)
(* open period (simple_update, process_pdp_st, update_cdp).  No sequence   *)
(* of updates loses or doubles a second, however they are spread over the  *)
(* steps, so that what a mean is divided by later is right.                *)
THEOREM UpdatePrepIsRight == Spec => []PrepCountsTheOpen
<1>1. Init => CountInv
  BY InitCounts
<1>2. CountInv /\ [Next]_vars => CountInv'
  <2>1. CountInv /\ UNCHANGED vars => CountInv'
    <3>1. Types /\ UNCHANGED vars => Types'
      BY SameTypes
    <3> QED BY <3>1, SameCounts DEF vars, CountInv
  <2> QED BY <2>1, UpdateCounts
<1>3. CountInv => PrepCountsTheOpen
  BY CountsAreRight
<1> QED BY <1>1, <1>2, <1>3, PTL DEF Spec

(* The same of a file that is tuned, resized, dumped and restored between  *)
(* its updates: the areas survive (rrd_tune, rrd_resize, rrd_restore).     *)
THEOREM FilePrepIsRight == FileSpec => []PrepCountsTheOpen
<1>1. FileInit => CountInv
  BY InitCounts DEF FileInit
<1>2. CountInv /\ [FileNext]_fileVars => CountInv'
  BY FileCounts
<1>3. CountInv => PrepCountsTheOpen
  BY CountsAreRight
<1> QED BY <1>1, <1>2, <1>3, PTL DEF FileSpec

-----------------------------------------------------------------------------
(* The order of fractions, and multiples.                                  *)

LEMMA CancelOrder ==
    ASSUME NEW a \in Int, NEW b \in Int, NEW d \in Nat \ {0}
    PROVE  a * d <= b * d <=> a <= b
<1>1. a <= b => a * d <= b * d
  BY Monotone
<1>2. ASSUME b < a PROVE ~ (a * d <= b * d)
  <2>1. b + 1 \in Int /\ b + 1 <= a
    BY <1>2
  <2>2. (b + 1) * d <= a * d
    BY <2>1, Monotone
  <2>3. (b + 1) * d = b * d + d /\ b * d \in Int /\ a * d \in Int
    OBVIOUS
  <2> DEFINE A == a * d
             B == b * d
  <2>4. B + d <= A /\ A \in Int /\ B \in Int
    BY <2>2, <2>3
  <2> HIDE DEF A, B
  <2>5. ~ (A <= B)
    BY <2>4
  <2> QED BY <2>5 DEF A, B
<1>3. a <= b \/ b < a
  OBVIOUS
<1> QED BY <1>1, <1>2, <1>3

LEMMA LessIs ==
    ASSUME NEW x \in Fractions, NEW y \in Fractions
    PROVE  /\ ~ Less(x, x)
           /\ Less(x, y) => ~ Less(y, x)
           /\ ~ Less(x, y) /\ ~ Less(y, x) => x = y
<1> DEFINE a == x[1]
           b == x[2]
           c == y[1]
           d == y[2]
<1>1. /\ a \in Int /\ b \in Nat \ {0} /\ c \in Int /\ d \in Nat \ {0}
      /\ Ratio(a, b) = x /\ Ratio(c, d) = y
  BY Fraction
<1>2. /\ Less(x, y) = (a * d < c * b) /\ Less(y, x) = (c * b < a * d)
      /\ Less(x, x) = (a * b < a * b)
  BY <1>1, LessMeans
<1> HIDE DEF a, b, c, d
<1>3. a * d \in Int /\ c * b \in Int /\ a * b \in Int
  BY <1>1
<1>4. ASSUME a * d = c * b PROVE x = y
  <2>1. Ratio(a, b) = Ratio(c, d)
    BY <1>1, <1>4, RatioEqual
  <2> QED BY <1>1, <2>1
<1> DEFINE A == a * d
           B == c * b
           C == a * b
<1>5. /\ Less(x, y) = (A < B) /\ Less(y, x) = (B < A) /\ Less(x, x) = (C < C)
      /\ A \in Int /\ B \in Int /\ C \in Int /\ (A = B => x = y)
  BY <1>2, <1>3, <1>4
<1> HIDE DEF A, B, C
<1>6. ~ (C < C) /\ (A < B => ~ (B < A)) /\ (~ (A < B) /\ ~ (B < A) => A = B)
  BY <1>5
<1> QED BY <1>5, <1>6

LEMMA LessTransitive ==
    ASSUME NEW x \in Fractions, NEW y \in Fractions, NEW z \in Fractions,
           ~ Less(y, x), ~ Less(z, y)
    PROVE  ~ Less(z, x)
<1> DEFINE a == x[1]
           b == x[2]
           c == y[1]
           d == y[2]
           e == z[1]
           f == z[2]
<1>1. /\ a \in Int /\ b \in Nat \ {0} /\ c \in Int /\ d \in Nat \ {0}
      /\ e \in Int /\ f \in Nat \ {0}
  BY Fraction
<1>2. /\ ~ (c * b < a * d) /\ ~ (e * d < c * f) /\ (Less(z, x) = (e * b < a * f))
  BY <1>1, LessMeans
<1> HIDE DEF a, b, c, d, e, f
<1>3. a * d \in Int /\ c * b \in Int /\ c * f \in Int /\ e * d \in Int /\ a * f \in Int /\ e * b \in Int
  BY <1>1
<1>4. a * d <= c * b /\ c * f <= e * d
  BY <1>2, <1>3
<1>5. (a * d) * f <= (c * b) * f /\ (c * f) * b <= (e * d) * b
  BY <1>1, <1>3, <1>4, Monotone
<1>6. (a * d) * f = (a * f) * d /\ (c * b) * f = (c * f) * b /\ (e * d) * b = (e * b) * d
  BY <1>1
<1>7. (a * f) * d \in Int /\ (c * f) * b \in Int /\ (e * b) * d \in Int
  BY <1>1, <1>3
<1>8. (a * f) * d <= (e * b) * d
  <2> DEFINE A == (a * f) * d
             B == (c * f) * b
             C == (e * b) * d
  <2>1. A <= B /\ B <= C /\ A \in Int /\ B \in Int /\ C \in Int
    BY <1>5, <1>6, <1>7
  <2> HIDE DEF A, B, C
  <2>2. A <= C
    BY <2>1
  <2> QED BY <2>2 DEF A, C
<1>9. a * f <= e * b
  BY <1>1, <1>3, <1>8, CancelOrder
<1> DEFINE A == a * f
           B == e * b
<1>10. A <= B /\ A \in Int /\ B \in Int /\ (Less(z, x) = (B < A))
  BY <1>2, <1>3, <1>9
<1> HIDE DEF A, B
<1>11. ~ (B < A)
  BY <1>10
<1> QED BY <1>10, <1>11

\* One more of the same.
LEMMA PlusSame ==
    ASSUME NEW x \in Fractions, NEW m \in Nat
    PROVE  Plus(x, Scaled(x, m)) = Scaled(x, m + 1)
<1> DEFINE a == x[1]
           b == x[2]
<1>1. a \in Int /\ b \in Nat \ {0}
  BY Fraction
<1>2. Scaled(x, m) = Ratio(a * m, b) /\ Scaled(x, m + 1) = Ratio(a * (m + 1), b)
  BY DEF Scaled
<1>3. a * m \in Int /\ a * (m + 1) \in Int
  BY <1>1
<1>4. Plus(Ratio(a * m, b), x) = Ratio((a * m) * b + a * b, b * b)
  BY <1>1, <1>3, PlusRatio
<1>5. (a * m) * b + a * b = (a * (m + 1)) * b
  <2> HIDE DEF a, b
  <2>1. a * (m + 1) = a * m + a
    BY <1>1
  <2> DEFINE c == a * m
  <2>2. (c + a) * b = c * b + a * b
    BY <1>1, <1>3
  <2> QED BY <2>1, <2>2
<1>6. Ratio((a * (m + 1)) * b, b * b) = Ratio(a * (m + 1), b)
  BY <1>1, <1>3, RatioScaled
<1>7. Plus(x, Scaled(x, m)) = Plus(Scaled(x, m), x)
  <2>1. m \in Int
    OBVIOUS
  <2>2. Scaled(x, m) \in Fractions
    BY <2>1, ScaledType
  <2> QED BY <2>2, PlusType
<1> HIDE DEF a, b
<1> QED BY <1>2, <1>4, <1>5, <1>6, <1>7

LEMMA OverScaled ==
    ASSUME NEW x \in Fractions, NEW m \in Nat \ {0}
    PROVE  Over(Scaled(x, m), m) = x
<1> DEFINE a == x[1]
           b == x[2]
           n == a * m
           y == Ratio(n, b)
           c == y[1]
           d == y[2]
<1>1. a \in Int /\ b \in Nat \ {0} /\ Ratio(a, b) = x
  BY Fraction
<1>2. n \in Int
  BY <1>1
<1>0. Scaled(x, m) = y
  BY DEF Scaled
<1> HIDE DEF a, b, n
<1>3. PICK g \in Nat \ {0} : y \in Fractions /\ n = c * g /\ b = d * g
  BY <1>1, <1>2, RatioParts
<1>4. c \in Int /\ d \in Nat \ {0} /\ ~ isnan(y)
  BY <1>3, Fraction
<1>5. Scaled(x, m) = y /\ Over(y, m) = Ratio(c, d * m)
  BY <1>0, <1>4 DEF Over
<1> HIDE DEF c, d, y
<1>6. d * m \in Nat \ {0}
  BY <1>4, Product
<1>7. c * b = a * (d * m)
  <2>1. c * b = c * (d * g) /\ c * (d * g) = (c * g) * d
    BY <1>3, <1>4
  <2>2. a * (d * m) = (a * m) * d
    BY <1>1, <1>4
  <2>3. n = a * m
    BY DEF n
  <2> QED BY <1>3, <2>1, <2>2, <2>3
<1>8. Ratio(c, d * m) = Ratio(a, b)
  BY <1>1, <1>4, <1>6, <1>7, RatioEqual
<1> QED BY <1>1, <1>5, <1>8

LEMMA ZeroScaled ==
    ASSUME NEW m \in Int
    PROVE  Scaled(Int2Value(0), m) = Int2Value(0)
<1>1. Scaled(Int2Value(0), m) = Ratio(0 * m, 1)
  BY IntIsFraction DEF Scaled
<1>2. 0 * m = 0 /\ Ratio(0, 1) = Int2Value(0)
  BY IntIsFraction
<1> QED BY <1>1, <1>2

-----------------------------------------------------------------------------
(* Sums of which a part is equal.                                          *)

SumOf(F, S) == SumOver(F, PlusOp, Int2Value(0), S)

LEMMA SumOfIs ==
    ASSUME NEW S, IsFiniteSet(S), NEW F, \A x \in S : F[x] \in Fractions
    PROVE  /\ SumOf(F, S) \in Fractions
           /\ \A e \in S : SumOf(F, S) = Plus(F[e], SumOf(F, S \ {e})) /\ SumOf(F, S \ {e}) \in Fractions
           /\ S = {} => SumOf(F, S) = Int2Value(0)
<1>1. Adds(PlusOp, Int2Value(0), Fractions)
  BY PlusOpAdds
<1>2. /\ SumOf(F, S) \in Fractions
      /\ \A e \in S : SumOf(F, S) = PlusOp[<<F[e], SumOf(F, S \ {e})>>]
  BY <1>1, SumRemove DEF SumOf
<1>3. ASSUME NEW e \in S PROVE SumOf(F, S \ {e}) \in Fractions
  <2>1. IsFiniteSet(S \ {e}) /\ \A x \in S \ {e} : F[x] \in Fractions
    BY FS_RemoveElement
  <2> QED BY <1>1, <2>1, SumRemove DEF SumOf
<1>4. ASSUME NEW e \in S PROVE SumOf(F, S) = Plus(F[e], SumOf(F, S \ {e}))
  BY <1>2, <1>3, PlusOpAdds
<1>5. S = {} => SumOf(F, S) = Int2Value(0)
  BY SumEmpty DEF SumOf
<1> QED BY <1>2, <1>3, <1>4, <1>5

LEMMA SumWithEquals ==
    ASSUME NEW S, IsFiniteSet(S), NEW T, IsFiniteSet(T), S \intersect T = {}, NEW F, NEW c \in Fractions,
           \A x \in S : F[x] \in Fractions, \A x \in T : F[x] = c
    PROVE  SumOf(F, S \union T) = Plus(SumOf(F, S), Scaled(c, Cardinality(T)))
<1> DEFINE Good(r) == SumOf(F, S \union r) = Plus(SumOf(F, S), Scaled(c, Cardinality(r)))
           N == {k \in Nat : \E r \in SUBSET T : IsFiniteSet(r) /\ Cardinality(r) = k /\ ~ Good(r)}
<1>1. SumOf(F, S) \in Fractions
  BY SumOfIs
<1>2. CASE N = {}
  <2>1. Cardinality(T) \in Nat /\ T \in SUBSET T
    BY FS_CardinalityType
  <2> HIDE DEF Good
  <2>2. Good(T)
    BY <1>2, <2>1
  <2> QED BY <2>2 DEF Good
<1>3. CASE N # {}
  <2>1. PICK k \in N : \A l \in N : k <= l
    <3>1. N \subseteq Nat
      OBVIOUS
    <3> HIDE DEF N
    <3> QED BY <1>3, <3>1, LeastNumber
  <2>2. PICK r \in SUBSET T : IsFiniteSet(r) /\ Cardinality(r) = k /\ ~ Good(r)
    <3> HIDE DEF Good
    <3> QED OBVIOUS
  <2>3. k \in Nat
    OBVIOUS
  <2>4. r # {}
    <3>1. ASSUME r = {} PROVE Good(r)
      <4>1. S \union r = S /\ Cardinality(r) = 0
        BY <3>1, FS_EmptySet
      <4>2. Scaled(c, 0) = Int2Value(0)
        BY ScaledType
      <4>3. Plus(SumOf(F, S), Int2Value(0)) = SumOf(F, S)
        BY <1>1, ZeroPlus
      <4> QED BY <4>1, <4>2, <4>3
    <3> HIDE DEF Good
    <3> QED BY <2>2, <3>1
  <2>5. PICK e : e \in r
    BY <2>4
  <2> DEFINE q == r \ {e}
             A == S \union r
             m == Cardinality(q)
  <2>6. q \in SUBSET T /\ IsFiniteSet(q) /\ m \in Nat /\ m = k - 1 /\ k = m + 1
    <3> HIDE DEF Good
    <3>1. IsFiniteSet(q) /\ m = Cardinality(r) - 1 /\ m \in Nat
      BY <2>2, <2>5, Smaller1
    <3>2. q \in SUBSET T
      BY <2>2
    <3>3. m = k - 1
      BY <2>2, <3>1
    <3> HIDE DEF q, m
    <3> QED BY <2>3, <3>1, <3>2, <3>3
  <2>7. Good(q)
    <3> HIDE DEF Good
    <3>1. m \notin N
      <4> HIDE DEF N, m
      <4> QED BY <2>1, <2>3, <2>6
    <3> QED BY <2>6, <3>1
  <2>8. IsFiniteSet(A) /\ e \in A /\ A \ {e} = S \union q /\ F[e] = c /\ \A x \in A : F[x] \in Fractions
    <3>1. IsFiniteSet(A)
      BY <2>2, FS_Union
    <3>2. e \notin S /\ e \in T
      BY <2>5
    <3> QED BY <2>2, <2>5, <3>1, <3>2
  <2>9. SumOf(F, A) = Plus(c, SumOf(F, S \union q))
    <3> HIDE DEF A, q
    <3> QED BY <2>8, SumOfIs
  <2> DEFINE u == SumOf(F, S)
             w == Scaled(c, m)
  <2> HIDE DEF N, q, A, m
  <2>10. w \in Fractions /\ Plus(c, w) = Scaled(c, m + 1)
    <3>1. m \in Int
      BY <2>6
    <3> QED BY <2>6, <3>1, ScaledType, PlusSame
  <2>11. SumOf(F, S \union q) = Plus(u, w)
    BY <2>7 DEF m
  <2> HIDE DEF w, u
  <2>12. Plus(c, Plus(u, w)) = Plus(u, Plus(c, w))
    <3>1. u \in Fractions
      BY <1>1 DEF u
    <3>2. Plus(c, Plus(u, w)) = Plus(Plus(c, u), w)
      BY <2>10, <3>1, PlusAssociative
    <3>3. Plus(c, u) = Plus(u, c)
      BY <3>1, PlusType
    <3>4. Plus(Plus(u, c), w) = Plus(u, Plus(c, w))
      BY <2>10, <3>1, PlusAssociative
    <3> QED BY <3>2, <3>3, <3>4
  <2>13. SumOf(F, S \union r) = Plus(SumOf(F, S), Scaled(c, Cardinality(r)))
    BY <2>2, <2>6, <2>9, <2>10, <2>11, <2>12 DEF A, u
  <2> QED BY <2>2, <2>13
<1> QED BY <1>2, <1>3

-----------------------------------------------------------------------------
(* The rows the history asks for, as functions of the PDPs.                *)

\* No second of it is known: nothing is added up.
LEMMA NothingKnown ==
    ASSUME NEW ss, SamplesOK(ss), NEW lo \in Int, NEW hi \in Int, SecondsIn(ss, lo, hi) = 0
    PROVE  SumIn(ss, lo, hi) = Int2Value(0)
<1> DEFINE S == KnownIn(ss)
           F == [i \in S |-> SpanOf(ss[i], lo, hi)]
           G == [i \in S |-> Part(ss[i], lo, hi)]
<1>1. IsFiniteSet(S) /\ \A i \in S : SampleOK(ss[i]) /\ ~ isnan(ss[i].rate)
  BY SumsType
<1>2. \A i \in S : F[i] \in Nat /\ ss[i].rate \in Fractions
  BY <1>1, KnownRate
<1>3. SumOver(F, AddOp, 0, S) = 0
  BY DEF SecondsIn
<1>4. ASSUME NEW i \in S PROVE G[i] = Int2Value(0)
  <2>1. SumOver(F, AddOp, 0, S) = AddOp[<<F[i], SumOver(F, AddOp, 0, S \ {i})>>]
    <3> HIDE DEF F, S
    <3> QED BY <1>1, <1>2, <1>4, AddOpAdds, SumRemove
  <2>2. SumOver(F, AddOp, 0, S \ {i}) \in Nat
    <3> HIDE DEF F
    <3>1. IsFiniteSet(S \ {i}) /\ \A x \in S \ {i} : F[x] \in Nat
      BY <1>1, <1>2, FS_RemoveElement
    <3> HIDE DEF S
    <3> QED BY <3>1, AddOpAdds, SumRemove
  <2>3. F[i] = 0
    <3> DEFINE r == SumOver(F, AddOp, 0, S \ {i})
               q == F[i]
    <3>1. r \in Nat /\ q \in Nat /\ AddOp[<<q, r>>] = 0
      BY <1>2, <1>3, <2>1, <2>2
    <3> HIDE DEF r, q
    <3>2. q + r = 0
      BY <3>1, AddOpAdds
    <3>3. q = 0
      BY <3>1, <3>2
    <3> QED BY <3>3 DEF q
  <2>4. SpanOf(ss[i], lo, hi) = 0
    BY <2>3
  <2>5. G[i] = Scaled(ss[i].rate, 0)
    BY <2>4 DEF Part
  <2> HIDE DEF G
  <2>6. Scaled(ss[i].rate, 0) = Int2Value(0)
    BY <1>2, ScaledType
  <2> QED BY <2>5, <2>6
<1> HIDE DEF G, F, S
<1>5. SumOver(G, PlusOp, Int2Value(0), S) = Int2Value(0)
  BY <1>1, <1>4, PlusOpAdds, SumOfZeros
<1> QED BY <1>5 DEF SumIn, G, S

\* A mean of known rates is a fraction, and of none it is unknown.
LEMMA MeanType ==
    ASSUME NEW ss, SamplesOK(ss), NEW lo \in Int, NEW hi \in Int
    PROVE  Over(SumIn(ss, lo, hi), SecondsIn(ss, lo, hi)) \in Rates1
<1>1. SecondsIn(ss, lo, hi) \in Nat /\ SumIn(ss, lo, hi) \in Fractions
  BY SumsType
<1>2. CASE SecondsIn(ss, lo, hi) = 0
  <2>1. Over(Int2Value(0), 0) = DNAN
    BY <1>1, OverType
  <2> QED BY <1>2, <2>1, NothingKnown DEF Rates1
<1>3. CASE SecondsIn(ss, lo, hi) # 0
  BY <1>1, <1>3, OverType DEF Rates1
<1> QED BY <1>2, <1>3

LEMMA PdpAtType ==
    ASSUME NEW ss, NEW last, Linked(ss, last), NEW k \in Int, k <= last \div Step
    PROVE  PdpAt(ss, CreatedAt(ss, last), k) \in Rates1
<1> DEFINE cr == CreatedAt(ss, last)
<1>1. SamplesOK(ss) /\ last \in Nat /\ cr \in Nat
  BY DEF Linked
<1>2. CASE k <= cr \div Step
  BY <1>2 DEF PdpAt, Rates1
<1>3. CASE ~ (k <= cr \div Step)
  <2>1. PdpAt(ss, cr, k) = PdpIn(ss, k * Step)
    BY <1>3 DEF PdpAt
  <2>2. cr \div Step \in Nat
    BY <1>1, StepStartIs
  <2>3. cr \div Step < k
    <3> HIDE DEF cr
    <3> QED BY <1>3, <2>2
  <2>4. k * Step \in cr + 1 .. last
    <3> HIDE DEF cr
    <3> QED BY <1>1, <2>3, StepEnds
  <2>5. PICK i \in DOMAIN ss : Completes(ss[i], k * Step)
    BY <2>4 DEF Linked
  <2>6. k * Step \in Int
    BY Constants, Product
  <2>7. PdpIn(ss, k * Step) = PdpFrom(ss, ss[i])
    BY <2>5, <2>6, ChosenSample DEF PdpIn
  <2>8. ss[i].from \in Nat /\ ss[i].to \in Nat
    BY <1>1 DEF SamplesOK, SampleOK
  <2>9. StepStart(ss[i].from) \in Int /\ StepStart(ss[i].to) \in Int
    <3>1. \A t \in Nat : StepStart(t) \in Int
      BY StepStartIs
    <3> QED BY <2>8, <3>1
  <2>10. PdpFrom(ss, ss[i]) \in Rates1
    BY <1>1, <2>9, MeanType DEF PdpFrom, PdpOfSample, Rates1
  <2> QED BY <2>1, <2>7, <2>10
<1> QED BY <1>2, <1>3

NthIter(h, pd, S) ==
    h = [s \in SUBSET S |->
            IF s = {} THEN Int2Value(0)
            ELSE Plus(pd[CHOOSE e \in s : TRUE], h[s \ {CHOOSE e \in s : TRUE}])]
TotalOf(pd, S) == (CHOOSE h : NthIter(h, pd, S))[S]

LEMMA TotalIs ==
    ASSUME NEW S, IsFiniteSet(S), NEW F, \A i \in S : F[i] \in Fractions
    PROVE  TotalOf(F, S) = SumOf(F, S)
<1> DEFINE z == Int2Value(0)
<1> HIDE DEF z
<1>5. PICK g : /\ Iterates(g, F, PlusOp, z, S) /\ SumOver(F, PlusOp, z, S) = g[S]
               /\ \A s \in SUBSET S : g[s] \in Fractions
               /\ g = [s \in SUBSET S |-> g[s]] /\ g[{}] = z
               /\ \A s \in SUBSET S : s # {} => g[s] = PlusOp[<<F[Chosen1(s)], g[s \ {Chosen1(s)}]>>]
  <2>1. Adds(PlusOp, z, Fractions)
    BY PlusOpAdds DEF z
  <2>3. PICK g : Iterates(g, F, PlusOp, z, S) /\ SumOver(F, PlusOp, z, S) = g[S]
    BY SumIterates
  <2>4. IteratesWell(g, F, PlusOp, z, S, Fractions)
    BY <2>1, <2>3, IteratesIn
  <2> QED BY <2>3, <2>4 DEF IteratesWell
<1> DEFINE v(h, s) == IF s = {} THEN z ELSE Plus(F[Chosen1(s)], h[s \ {Chosen1(s)}])
<1>6. \A h : NthIter(h, F, S) <=> h = [s \in SUBSET S |-> v(h, s)]
  BY DEF NthIter, Chosen1, z
<1>7. \A s \in SUBSET S : g[s] = v(g, s)
  <2> SUFFICES ASSUME NEW s \in SUBSET S, s # {} PROVE g[s] = Plus(F[Chosen1(s)], g[s \ {Chosen1(s)}])
    BY <1>5
  <2>1. Chosen1(s) \in S /\ s \ {Chosen1(s)} \in SUBSET S
    BY ChosenIn
  <2> DEFINE x == F[Chosen1(s)]
             y == g[s \ {Chosen1(s)}]
  <2>2. x \in Fractions /\ y \in Fractions
    BY <1>5, <2>1
  <2>3. g[s] = PlusOp[<<x, y>>]
    BY <1>5
  <2> HIDE DEF x, y
  <2>4. PlusOp[<<x, y>>] = Plus(x, y)
    BY <2>2, PlusOpAdds
  <2> QED BY <2>3, <2>4 DEF x, y
<1>8. NthIter(g, F, S)
  <2> HIDE DEF v
  <2>1. g = [s \in SUBSET S |-> v(g, s)]
    BY <1>5, <1>7
  <2> QED BY <1>6, <2>1
<1>9. ASSUME NEW h, NthIter(h, F, S) PROVE h[S] = g[S]
  <2>1. h = [s \in SUBSET S |-> v(h, s)]
    BY <1>6, <1>9
  <2>2. \A s \in SUBSET S : h[s] = v(h, s)
    <3> HIDE DEF v
    <3> QED BY <2>1
  <2>3. ASSUME NEW s \in SUBSET S, s = {} \/ h[s \ {Chosen1(s)}] = g[s \ {Chosen1(s)}]
        PROVE  h[s] = g[s]
    <3>1. h[s] = v(h, s) /\ g[s] = v(g, s)
      BY <1>7, <2>2
    <3>2. v(h, s) = v(g, s)
      BY <2>3
    <3> HIDE DEF v
    <3> QED BY <3>1, <3>2
  <2>4. Agree(h, g, S)
    BY <2>3 DEF Agree
  <2>6. \A s \in SUBSET S : h[s] = g[s]
    BY <2>4, AgreeByRemoving
  <2>5. S \in SUBSET S
    OBVIOUS
  <2> QED BY <2>6, <2>5
<1> DEFINE c == CHOOSE h : NthIter(h, F, S)
<1>10. TotalOf(F, S) = c[S]
  BY DEF TotalOf
<1>11. NthIter(c, F, S)
  BY <1>8
<1> HIDE DEF c
<1>12. c[S] = g[S]
  BY <1>9, <1>11
<1> QED BY <1>5, <1>10, <1>12 DEF SumOf, z

\* The known PDPs of the steps lo to hi, and their values.
KnownPdps(pd, lo, hi) == {k \in lo .. hi : ~ isnan(pd[k])}
ValuesAt(pd, K) == {pd[k] : k \in K}
\* The value that is not less than any other, and the one that none is less than.
Highest(T) == CHOOSE x \in T : \A y \in T : ~ Less(x, y)
Lowest(T) == CHOOSE x \in T : \A y \in T : ~ Less(y, x)
PeriodValue(cf, pd, K, sum, n) ==
    CASE cf = "AVERAGE" -> Over(sum, Cardinality(K))
      [] cf = "MAX" -> Highest(ValuesAt(pd, K))
      [] cf = "MIN" -> Lowest(ValuesAt(pd, K))
      [] cf = "LAST" -> pd[n]
RowVal(pd, a, n) ==
    LET K == KnownPdps(pd, n - PdpCnt(a) + 1, n)
    IN  IF TooManyUnknown(a, PdpCnt(a) - Cardinality(K)) THEN DNAN
        ELSE PeriodValue(rra_def[a].cf, pd, K, SumOf(pd, K), n)

RowOfParts(pd, a, K, n) ==
    IF TooManyUnknown(a, PdpCnt(a) - Cardinality(K)) THEN DNAN
    ELSE PeriodValue(rra_def[a].cf, pd, K, TotalOf(pd, K), n)

LEMMA RowOfChoice ==
    ASSUME NEW pd, NEW a, NEW n
    PROVE  RowOf(pd, a, n) = RowOfParts(pd, a, KnownPdps(pd, n - PdpCnt(a) + 1, n), n)
BY DEF RowOf, RowOfParts, PeriodValue, KnownOf, KnownPdps, TotalOf, NthIter, Total, MapThenFoldSet,
       Highest, Lowest, ValuesAt

LEMMA KnownPdpsAre ==
    ASSUME NEW pd, NEW lo \in Int, NEW hi \in Int, \A k \in lo .. hi : pd[k] \in Rates1
    PROVE  /\ IsFiniteSet(KnownPdps(pd, lo, hi)) /\ Cardinality(KnownPdps(pd, lo, hi)) \in Nat
           /\ \A k \in KnownPdps(pd, lo, hi) : pd[k] \in Fractions /\ k \in lo .. hi
<1>1. KnownPdps(pd, lo, hi) \in SUBSET (lo .. hi) /\ IsFiniteSet(lo .. hi)
  BY FS_Interval DEF KnownPdps
<1>2. IsFiniteSet(KnownPdps(pd, lo, hi))
  BY <1>1, FS_Subset
<1>3. \A k \in KnownPdps(pd, lo, hi) : pd[k] \in Fractions /\ k \in lo .. hi
  BY DEF KnownPdps, Rates1, isnan
<1> QED BY <1>2, <1>3, FS_CardinalityType

LEMMA RowOfIs ==
    ASSUME NEW pd, NEW a \in Archives, NEW n \in Int,
           \A k \in n - PdpCnt(a) + 1 .. n : pd[k] \in Rates1
    PROVE  RowOf(pd, a, n) = RowVal(pd, a, n)
<1> DEFINE K == KnownPdps(pd, n - PdpCnt(a) + 1, n)
<1>1. n - PdpCnt(a) + 1 \in Int
  BY Constants
<1>2. IsFiniteSet(K) /\ \A k \in K : pd[k] \in Fractions
  BY <1>1, KnownPdpsAre
<1>3. TotalOf(pd, K) = SumOf(pd, K)
  BY <1>2, TotalIs
<1>4. RowOf(pd, a, n) = RowOfParts(pd, a, K, n)
  BY RowOfChoice
<1> QED BY <1>3, <1>4 DEF RowOfParts, RowVal

\* The row depends on the PDPs of its period alone.
LEMMA RowValSame ==
    ASSUME NEW pd, NEW qd, NEW a \in Archives, NEW n \in Int,
           \A k \in n - PdpCnt(a) + 1 .. n : pd[k] = qd[k]
    PROVE  RowVal(pd, a, n) = RowVal(qd, a, n)
<1> DEFINE lo == n - PdpCnt(a) + 1
           K == KnownPdps(pd, lo, n)
<1>1. lo \in Int /\ lo <= n
  BY Constants
<1>2. KnownPdps(qd, lo, n) = K
  BY DEF KnownPdps
<1>3. IsFiniteSet(K) /\ \A k \in K : pd[k] = qd[k]
  <2>1. K \in SUBSET (lo .. n) /\ IsFiniteSet(lo .. n)
    BY <1>1, FS_Interval DEF KnownPdps
  <2> QED BY <2>1, FS_Subset
<1>4. ValuesAt(pd, K) = ValuesAt(qd, K) /\ pd[n] = qd[n]
  <2>1. n \in lo .. n
    BY <1>1
  <2> HIDE DEF K
  <2> QED BY <1>3, <2>1 DEF ValuesAt
<1> HIDE DEF K
<1>5. SumOf(pd, K) = SumOf(qd, K)
  BY <1>3, SumSame DEF SumOf
<1>6. PeriodValue(rra_def[a].cf, pd, K, SumOf(pd, K), n)
        = PeriodValue(rra_def[a].cf, qd, K, SumOf(qd, K), n)
  BY <1>4, <1>5 DEF PeriodValue
<1> QED BY <1>2, <1>6 DEF RowVal, K

-----------------------------------------------------------------------------
(* Consolidation.                                                          *)

\* An archive tells a period of which nothing is known from one that is known.
LEMMA UnknownPeriods ==
    ASSUME NEW a \in Archives
    PROVE  ~ TooManyUnknown(a, 0) /\ TooManyUnknown(a, PdpCnt(a))
<1> DEFINE n == rra_def[a].xff[1]
           d == rra_def[a].xff[2]
           p == PdpCnt(a)
           r == Ratio(n * p, d)
           r1 == r[1]
           r2 == r[2]
<1>1. n \in Int /\ d \in Nat /\ ~ (n * 1 < 0 * d) /\ n * 1 < 1 * d
  <2>1. /\ n \in Int /\ d \in Nat
        /\ ~ Less(rra_def[a].xff, Int2Value(0)) /\ Less(rra_def[a].xff, Int2Value(1))
    BY ArchivesAssumption
  <2>2. /\ Less(rra_def[a].xff, Int2Value(0)) = (n * 1 < 0 * d)
        /\ Less(rra_def[a].xff, Int2Value(1)) = (n * 1 < 1 * d)
    BY LessMeans DEF Int2Value
  <2> QED BY <2>1, <2>2
<1>2. p \in Nat \ {0} /\ 0 <= n /\ n < d /\ d \in Nat \ {0}
  <2> HIDE DEF n, d, p
  <2>1. 0 <= n /\ n < d /\ d \in Nat \ {0}
    BY <1>1
  <2> QED BY <2>1, Constants DEF p
<1>3. n * p \in Int /\ n * p >= 0
  BY <1>1, <1>2, Product
<1>4. /\ TooManyUnknown(a, 0) = (r1 * 1 < 0 * r2)
      /\ TooManyUnknown(a, p) = (r1 * 1 < p * r2)
  BY LessMeans DEF TooManyUnknown, Int2Value, Scaled
<1> DEFINE np == n * p
<1> HIDE DEF n, d, p
<1>5. PICK g \in Nat \ {0} : r \in Fractions /\ np = r1 * g /\ d = r2 * g
  <2> HIDE DEF np
  <2> QED BY <1>2, <1>3, RatioParts DEF np
<1>6. r1 \in Int /\ r2 \in Nat \ {0}
  BY <1>5, Fraction
<1> HIDE DEF r1, r2, r, np
<1>7. ~ (r1 < 0)
  <2>1. ASSUME r1 < 0 PROVE FALSE
    <3>1. r1 + 1 <= 0
      BY <1>6, <2>1
    <3>2. (r1 + 1) * g <= 0 * g /\ (r1 + 1) * g = r1 * g + g
      BY <1>5, <1>6, <3>1, Monotone
    <3>3. np + g <= 0
      BY <1>5, <3>2
    <3> QED BY <1>3, <1>5, <3>3 DEF np
  <2> QED BY <2>1
<1>8. r1 < p * r2
  <2>1. p * r2 \in Int
    BY <1>2, <1>6, Product
  <2>2. ASSUME p * r2 <= r1 PROVE FALSE
    <3>1. (p * r2) * g <= r1 * g
      BY <1>5, <1>6, <2>1, <2>2, Monotone
    <3>2. (p * r2) * g = (r2 * g) * p
      BY <1>2, <1>5, <1>6
    <3>3. d * p <= n * p
      BY <1>5, <3>1, <3>2 DEF np
    <3>4. d <= n
      BY <1>1, <1>2, <3>3, CancelOrder
    <3> QED BY <1>1, <1>2, <3>4
  <2> DEFINE q == p * r2
  <2>3. q \in Int /\ ~ (q <= r1)
    BY <2>1, <2>2
  <2> HIDE DEF q
  <2>4. r1 < q
    BY <1>6, <2>3
  <2> QED BY <2>4 DEF q
<1>9. r1 * 1 = r1 /\ 0 * r2 = 0
  BY <1>6
<1> QED BY <1>4, <1>7, <1>8, <1>9 DEF p

IsHighest(x, T) == IF T = {} THEN x = NegDINF ELSE x \in T /\ \A y \in T : ~ Less(x, y)
IsLowest(x, T) == IF T = {} THEN x = DINF ELSE x \in T /\ \A y \in T : ~ Less(y, x)

LEMMA Infinities ==
    /\ ~ isnan(NegDINF) /\ ~ isnan(DINF) /\ ~ Less(NegDINF, NegDINF) /\ ~ Less(DINF, DINF)
    /\ \A x \in Fractions : /\ Less(NegDINF, x) /\ ~ Less(x, NegDINF)
                            /\ Less(x, DINF) /\ ~ Less(DINF, x)
<1>1. ~ isnan(NegDINF) /\ ~ isnan(DINF)
  BY DEF isnan, NegDINF, DINF, DNAN
<1>2. ~ Less(NegDINF, NegDINF) /\ ~ Less(DINF, DINF)
  BY DEF NegDINF, DINF, Less
<1>3. ASSUME NEW x \in Fractions
      PROVE  /\ Less(NegDINF, x) /\ ~ Less(x, NegDINF) /\ Less(x, DINF) /\ ~ Less(DINF, x)
  <2> DEFINE n == x[1]
             d == x[2]
  <2>1. n \in Int /\ d \in Nat \ {0}
    BY Fraction
  <2>2. /\ Less(NegDINF, x) = ((-1) * d < n * 0) /\ Less(x, NegDINF) = (n * 0 < (-1) * d)
        /\ Less(x, DINF) = (n * 0 < 1 * d) /\ Less(DINF, x) = (1 * d < n * 0)
    BY <2>1, LessMeans DEF NegDINF, DINF
  <2> HIDE DEF n, d
  <2>3. (-1) * d = -d /\ n * 0 = 0 /\ 1 * d = d
    BY <2>1
  <2>4. /\ (-1) * d < n * 0 /\ ~ (n * 0 < (-1) * d)
        /\ n * 0 < 1 * d /\ ~ (1 * d < n * 0)
    BY <2>1, <2>3
  <2> QED BY <2>2, <2>4
<1> QED BY <1>1, <1>2, <1>3

LEMMA LessSelf == \A x \in Fractions : ~ Less(x, x)
<1> SUFFICES ASSUME NEW x \in Fractions PROVE ~ Less(x, x)
  OBVIOUS
<1>1. ASSUME NEW y \in Fractions PROVE ~ Less(x, x)
  <2>1. ~ Less(x, x) /\ (Less(x, y) => ~ Less(y, x))
    BY LessIs
  <2> QED BY <2>1
<1> QED BY <1>1

LEMMA HighestIs ==
    ASSUME NEW T, T \subseteq Fractions, T # {}, NEW x
    PROVE  (IsHighest(x, T) => Highest(T) = x) /\ (IsLowest(x, T) => Lowest(T) = x)
<1>1. ASSUME IsHighest(x, T) PROVE Highest(T) = x
  <2> DEFINE h == Highest(T)
  <2>1. x \in T /\ \A y \in T : ~ Less(x, y)
    BY <1>1 DEF IsHighest
  <2>2. h \in T /\ \A y \in T : ~ Less(h, y)
    BY <2>1 DEF Highest
  <2> HIDE DEF h
  <2>3. x \in Fractions /\ h \in Fractions /\ ~ Less(x, h) /\ ~ Less(h, x)
    BY <2>1, <2>2
  <2>4. h = x
    BY <2>3, LessIs
  <2> QED BY <2>4 DEF h
<1>2. ASSUME IsLowest(x, T) PROVE Lowest(T) = x
  <2> DEFINE h == Lowest(T)
  <2>1. x \in T /\ \A y \in T : ~ Less(y, x)
    BY <1>2 DEF IsLowest
  <2>2. h \in T /\ \A y \in T : ~ Less(y, h)
    BY <2>1 DEF Lowest
  <2> HIDE DEF h
  <2>3. x \in Fractions /\ h \in Fractions /\ ~ Less(x, h) /\ ~ Less(h, x)
    BY <2>1, <2>2
  <2>4. h = x
    BY <2>3, LessIs
  <2> QED BY <2>4 DEF h
<1> QED BY <1>1, <1>2

LEMMA HighestAdds ==
    ASSUME NEW T, T \subseteq Fractions, NEW z \in Fractions, NEW x
    PROVE  /\ IsHighest(x, T) => IsHighest(Larger(x, z), T \union {z})
           /\ IsLowest(x, T) => IsLowest(Smaller(x, z), T \union {z})
<1>1. ~ Less(z, z)
  BY LessSelf
<1>2. ASSUME T = {}
      PROVE  /\ IsHighest(x, T) => IsHighest(Larger(x, z), T \union {z})
             /\ IsLowest(x, T) => IsLowest(Smaller(x, z), T \union {z})
  <2>1. T \union {z} = {z}
    BY <1>2
  <2>2. IsHighest(x, T) => Larger(x, z) = z
    BY <1>2, Infinities DEF IsHighest, Larger
  <2>3. IsLowest(x, T) => Smaller(x, z) = z
    BY <1>2, Infinities DEF IsLowest, Smaller
  <2> QED BY <1>1, <2>1, <2>2, <2>3 DEF IsHighest, IsLowest
<1>3. ASSUME T # {}, IsHighest(x, T) PROVE IsHighest(Larger(x, z), T \union {z})
  <2>1. x \in T /\ x \in Fractions /\ \A y \in T : ~ Less(x, y)
    BY <1>3 DEF IsHighest
  <2>2. CASE Less(x, z)
    <3>1. Larger(x, z) = z /\ ~ Less(z, x)
      BY <2>1, <2>2, LessIs DEF Larger
    <3>2. ASSUME NEW y \in T PROVE ~ Less(z, y)
      <4>1. y \in Fractions /\ ~ Less(x, y)
        BY <2>1
      <4> QED BY <2>1, <3>1, <4>1, LessTransitive
    <3> QED BY <1>1, <3>1, <3>2 DEF IsHighest
  <2>3. CASE ~ Less(x, z)
    <3>1. Larger(x, z) = x
      BY <2>3 DEF Larger
    <3> QED BY <2>1, <2>3, <3>1 DEF IsHighest
  <2> QED BY <2>2, <2>3
<1>4. ASSUME T # {}, IsLowest(x, T) PROVE IsLowest(Smaller(x, z), T \union {z})
  <2>1. x \in T /\ x \in Fractions /\ \A y \in T : ~ Less(y, x)
    BY <1>4 DEF IsLowest
  <2>2. CASE Less(z, x)
    <3>1. Smaller(x, z) = z /\ ~ Less(x, z)
      BY <2>1, <2>2, LessIs DEF Smaller
    <3>2. ASSUME NEW y \in T PROVE ~ Less(y, z)
      <4>1. y \in Fractions /\ ~ Less(y, x)
        BY <2>1
      <4> QED BY <2>1, <3>1, <4>1, LessTransitive
    <3> QED BY <1>1, <3>1, <3>2 DEF IsLowest
  <2>3. CASE ~ Less(z, x)
    <3>1. Smaller(x, z) = x
      BY <2>3 DEF Smaller
    <3> QED BY <2>1, <2>3, <3>1 DEF IsLowest
  <2> QED BY <2>2, <2>3
<1> QED BY <1>2, <1>3, <1>4

\* The period of which nothing is known, and the one whose PDPs are all the same.
LEMMA RowConstant ==
    ASSUME NEW pd, NEW a \in Archives, NEW n \in Int, NEW c \in Rates1,
           \A k \in n - PdpCnt(a) + 1 .. n : pd[k] = c
    PROVE  RowVal(pd, a, n) = c
<1> DEFINE p == PdpCnt(a)
           lo == n - p + 1
           K == KnownPdps(pd, lo, n)
           cf == rra_def[a].cf
<1>1. p \in Nat \ {0} /\ lo \in Int /\ lo <= n /\ cf \in {"AVERAGE", "MIN", "MAX", "LAST"}
  BY Constants
<1>2. IsFiniteSet(lo .. n) /\ Cardinality(lo .. n) = p
  <2> DEFINE q == lo
  <2> HIDE DEF lo
  <2>1. IsFiniteSet(lo .. n) /\ Cardinality(lo .. n) = n - lo + 1
    BY <1>1, FS_Interval
  <2>2. lo = n - p + 1
    BY DEF lo
  <2> HIDE DEF p
  <2> QED BY <1>1, <2>1, <2>2
<1>3. CASE isnan(c)
  <2>1. K = {}
    BY <1>3 DEF KnownPdps
  <2>2. Cardinality(K) = 0
    BY <2>1, FS_EmptySet
  <2> HIDE DEF K
  <2>3. p - Cardinality(K) = p
    <3> HIDE DEF p
    <3> QED BY <1>1, <2>2
  <2>4. RowVal(pd, a, n) = DNAN
    BY <2>3, UnknownPeriods DEF RowVal, K
  <2> QED BY <1>3, <2>4 DEF isnan
<1>4. CASE ~ isnan(c)
  <2>1. c \in Fractions
    BY <1>4 DEF Rates1, isnan
  <2>2. K = lo .. n
    BY <1>4 DEF KnownPdps
  <2>3. p - Cardinality(K) = 0 /\ Cardinality(K) = p
    <3> HIDE DEF p, K
    <3> QED BY <1>1, <1>2, <2>2
  <2>4. RowVal(pd, a, n) = PeriodValue(cf, pd, K, SumOf(pd, K), n)
    BY <2>3, UnknownPeriods DEF RowVal
  <2>5. SumOf(pd, K) = Scaled(c, p)
    <3> HIDE DEF p, lo
    <3>1. \A x \in K : pd[x] = c
      BY <2>2 DEF lo, p
    <3> HIDE DEF K
    <3>2. SumOf(pd, {} \union K) = Plus(SumOf(pd, {}), Scaled(c, Cardinality(K)))
      <4>1. IsFiniteSet(K) /\ IsFiniteSet({}) /\ {} \intersect K = {}
        BY <1>2, <2>2, FS_EmptySet
      <4>2. \A x \in {} : pd[x] \in Fractions
        OBVIOUS
      <4> QED BY <2>1, <3>1, <4>1, <4>2, SumWithEquals
    <3>3. SumOf(pd, {}) = Int2Value(0)
      BY SumEmpty DEF SumOf
    <3>4. Scaled(c, p) \in Fractions
      <4>1. p \in Int
        BY <1>1
      <4> QED BY <2>1, <4>1, ScaledType
    <3>5. Plus(Int2Value(0), Scaled(c, p)) = Scaled(c, p)
      BY <3>4, ZeroPlus
    <3>6. {} \union K = K
      OBVIOUS
    <3> QED BY <2>3, <3>2, <3>3, <3>5, <3>6
  <2>6. Over(Scaled(c, p), p) = c
    <3> HIDE DEF p
    <3> QED BY <1>1, <2>1, OverScaled
  <2>7. ValuesAt(pd, K) = {c} /\ pd[n] = c
    <3>1. n \in lo .. n
      <4> HIDE DEF lo
      <4> QED BY <1>1
    <3> QED BY <2>2, <3>1 DEF ValuesAt
  <2>8. Highest({c}) = c /\ Lowest({c}) = c
    <3>1. ~ Less(c, c)
      BY <2>1, LessSelf
    <3>2. IsHighest(c, {c}) /\ IsLowest(c, {c})
      BY <3>1 DEF IsHighest, IsLowest
    <3> QED BY <2>1, <3>2, HighestIs
  <2> HIDE DEF K, p, cf
  <2>9. PeriodValue(cf, pd, K, SumOf(pd, K), n) = c
    BY <1>1, <2>3, <2>5, <2>6, <2>7, <2>8 DEF PeriodValue
  <2> QED BY <2>4, <2>9
<1> QED BY <1>3, <1>4

-----------------------------------------------------------------------------
(* What the preparation area of an open period holds.                      *)

Opened(cf, val, pd, K) ==
    /\ cf = "AVERAGE" => IFDNAN(val, Int2Value(0)) = SumOf(pd, K)
    /\ cf = "MAX" => IsHighest(IFDNAN(val, NegDINF), ValuesAt(pd, K))
    /\ cf = "MIN" => IsLowest(IFDNAN(val, DINF), ValuesAt(pd, K))

LEMMA OpenedSame ==
    ASSUME NEW pd, NEW qd, NEW K, IsFiniteSet(K), \A k \in K : pd[k] = qd[k], NEW cf, NEW val,
           Opened(cf, val, pd, K)
    PROVE  Opened(cf, val, qd, K)
<1>1. SumOf(pd, K) = SumOf(qd, K)
  BY SumSame DEF SumOf
<1>2. ValuesAt(pd, K) = ValuesAt(qd, K)
  BY DEF ValuesAt
<1> QED BY <1>1, <1>2 DEF Opened

LEMMA KnownOn ==
    ASSUME NEW pd, NEW lo \in Int, NEW m \in Int, NEW hi \in Int, lo <= m + 1, m <= hi,
           NEW c \in Rates1, \A k \in m + 1 .. hi : pd[k] = c,
           \A k \in lo .. m : pd[k] \in Rates1
    PROVE  LET K == KnownPdps(pd, lo, m)
               L == KnownPdps(pd, lo, hi)
           IN  /\ IsFiniteSet(K) /\ Cardinality(K) \in Nat /\ SumOf(pd, K) \in Fractions
               /\ ValuesAt(pd, K) \subseteq Fractions
               /\ isnan(c) => L = K
               /\ ~ isnan(c) =>
                     /\ c \in Fractions /\ hi - m \in Nat
                     /\ SumOf(pd, L) = Plus(SumOf(pd, K), Scaled(c, hi - m))
                     /\ Cardinality(L) = Cardinality(K) + (hi - m)
                     /\ m < hi => ValuesAt(pd, L) = ValuesAt(pd, K) \union {c}
<1> DEFINE K == KnownPdps(pd, lo, m)
           L == KnownPdps(pd, lo, hi)
           M == m + 1 .. hi
<1>1. IsFiniteSet(K) /\ Cardinality(K) \in Nat /\ \A k \in K : pd[k] \in Fractions
  BY KnownPdpsAre
<1>2. SumOf(pd, K) \in Fractions /\ ValuesAt(pd, K) \subseteq Fractions
  <2> HIDE DEF K
  <2> QED BY <1>1, SumOfIs DEF ValuesAt
<1>3. ASSUME isnan(c) PROVE L = K
  BY <1>3 DEF KnownPdps
<1>4. ASSUME ~ isnan(c)
      PROVE  /\ c \in Fractions /\ hi - m \in Nat
             /\ SumOf(pd, L) = Plus(SumOf(pd, K), Scaled(c, hi - m))
             /\ Cardinality(L) = Cardinality(K) + (hi - m)
             /\ m < hi => ValuesAt(pd, L) = ValuesAt(pd, K) \union {c}
  <2>1. c \in Fractions /\ hi - m \in Nat
    BY <1>4 DEF Rates1, isnan
  <2>2. L = K \union M
    <3>1. lo .. hi = (lo .. m) \union M
      OBVIOUS
    <3>2. \A k \in M : ~ isnan(pd[k])
      BY <1>4
    <3> HIDE DEF M
    <3> QED BY <3>1, <3>2 DEF KnownPdps
  <2>3. IsFiniteSet(M) /\ Cardinality(M) = hi - m
    <3> DEFINE e == m + 1
    <3>1. e \in Int
      OBVIOUS
    <3> HIDE DEF e
    <3>2. IsFiniteSet(e .. hi) /\ Cardinality(e .. hi) = IF e > hi THEN 0 ELSE hi - e + 1
      BY <3>1, FS_Interval
    <3>3. (IF e > hi THEN 0 ELSE hi - e + 1) = hi - m
      BY DEF e
    <3> QED BY <3>2, <3>3 DEF e
  <2>4. K \intersect M = {} /\ \A k \in M : pd[k] = c
    BY DEF KnownPdps
  <2> HIDE DEF K, L, M
  <2>5. SumOf(pd, K \union M) = Plus(SumOf(pd, K), Scaled(c, Cardinality(M)))
    BY <1>1, <2>1, <2>3, <2>4, SumWithEquals
  <2>6. Cardinality(K \union M) = Cardinality(K) + Cardinality(M)
    <3>1. Cardinality(K \union M) = Cardinality(K) + Cardinality(M) - Cardinality(K \intersect M)
      BY <1>1, <2>3, FS_Union
    <3>2. Cardinality(K \intersect M) = 0
      BY <2>4, FS_EmptySet
    <3> QED BY <1>1, <2>1, <2>3, <3>1, <3>2
  <2>7. ASSUME m < hi PROVE ValuesAt(pd, L) = ValuesAt(pd, K) \union {c}
    <3>1. hi \in M
      BY <2>7 DEF M
    <3> QED BY <2>2, <2>4, <3>1 DEF ValuesAt
  <2> QED BY <2>1, <2>2, <2>3, <2>5, <2>6, <2>7
<1> QED BY <1>1, <1>2, <1>3, <1>4

\* A period that stays open.
LEMMA OpenedExtends ==
    ASSUME NEW pd, NEW lo \in Int, NEW m \in Int, NEW hi \in Int, lo <= m + 1, m < hi,
           NEW c \in Rates1, \A k \in m + 1 .. hi : pd[k] = c,
           \A k \in lo .. m : pd[k] \in Rates1, NEW a \in Archives, NEW val,
           Opened(rra_def[a].cf, val, pd, KnownPdps(pd, lo, m))
    PROVE  Opened(rra_def[a].cf, IF isnan(c) THEN val ELSE calculate_cdp_val(a, val, c, hi - m),
                  pd, KnownPdps(pd, lo, hi))
<1> DEFINE K == KnownPdps(pd, lo, m)
           L == KnownPdps(pd, lo, hi)
           cf == rra_def[a].cf
           new == calculate_cdp_val(a, val, c, hi - m)
<1>1. m <= hi
  OBVIOUS
<1>2. /\ SumOf(pd, K) \in Fractions /\ ValuesAt(pd, K) \subseteq Fractions
      /\ isnan(c) => L = K
      /\ ~ isnan(c) =>
            /\ c \in Fractions /\ hi - m \in Nat
            /\ SumOf(pd, L) = Plus(SumOf(pd, K), Scaled(c, hi - m))
            /\ ValuesAt(pd, L) = ValuesAt(pd, K) \union {c}
  BY <1>1, KnownOn
<1> HIDE DEF K, L, new
<1>3. CASE isnan(c)
  BY <1>2, <1>3 DEF K, L
<1>4. CASE ~ isnan(c)
  <2>1. ASSUME cf = "AVERAGE" PROVE IFDNAN(new, Int2Value(0)) = SumOf(pd, L)
    <3>1. new = Plus(IFDNAN(val, Int2Value(0)), Scaled(c, hi - m))
      BY <2>1 DEF new, calculate_cdp_val
    <3>2. IFDNAN(val, Int2Value(0)) = SumOf(pd, K)
      BY <2>1 DEF Opened, K
    <3>3. new = SumOf(pd, L)
      BY <1>2, <1>4, <3>1, <3>2
    <3>4. new \in Fractions
      <4>1. Scaled(c, hi - m) \in Fractions
        <5>1. hi - m \in Int /\ c \in Fractions
          BY <1>2, <1>4
        <5> QED BY <5>1, ScaledType
      <4> QED BY <1>2, <3>1, <3>2, <4>1, PlusType
    <3> QED BY <3>3, <3>4, NotNan
  <2>2. ASSUME cf = "MAX" PROVE IsHighest(IFDNAN(new, NegDINF), ValuesAt(pd, L))
    <3> DEFINE x == IFDNAN(val, NegDINF)
    <3>1. new = IF isnan(val) THEN c ELSE Larger(val, c)
      BY <2>2 DEF new, calculate_cdp_val
    <3>2. Less(NegDINF, c)
      BY <1>2, <1>4, Infinities
    <3>3. new = Larger(x, c)
      BY <3>1, <3>2 DEF Larger, IFDNAN
    <3>4. IsHighest(x, ValuesAt(pd, K))
      BY <2>2 DEF Opened, K
    <3> HIDE DEF x
    <3>5. IsHighest(new, ValuesAt(pd, L))
      BY <1>2, <1>4, <3>3, <3>4, HighestAdds
    <3>6. new \in Fractions
      <4>1. x = NegDINF \/ x \in Fractions
        BY <1>2, <3>4 DEF IsHighest
      <4> QED BY <1>2, <1>4, <3>2, <3>3, <4>1 DEF Larger
    <3> QED BY <3>5, <3>6, NotNan
  <2>3. ASSUME cf = "MIN" PROVE IsLowest(IFDNAN(new, DINF), ValuesAt(pd, L))
    <3> DEFINE x == IFDNAN(val, DINF)
    <3>1. new = IF isnan(val) THEN c ELSE Smaller(val, c)
      BY <2>3 DEF new, calculate_cdp_val
    <3>2. Less(c, DINF)
      BY <1>2, <1>4, Infinities
    <3>3. new = Smaller(x, c)
      BY <3>1, <3>2 DEF Smaller, IFDNAN
    <3>4. IsLowest(x, ValuesAt(pd, K))
      BY <2>3 DEF Opened, K
    <3> HIDE DEF x
    <3>5. IsLowest(new, ValuesAt(pd, L))
      BY <1>2, <1>4, <3>3, <3>4, HighestAdds
    <3>6. new \in Fractions
      <4>1. x = DINF \/ x \in Fractions
        BY <1>2, <3>4 DEF IsLowest
      <4> QED BY <1>2, <1>4, <3>2, <3>3, <4>1 DEF Smaller
    <3> QED BY <3>5, <3>6, NotNan
  <2> QED BY <1>4, <2>1, <2>2, <2>3 DEF Opened, L, new
<1> QED BY <1>3, <1>4

\* A period that starts with what is left over of an update.
LEMMA OpenedAnew ==
    ASSUME NEW pd, NEW lo \in Int, NEW hi \in Int, lo <= hi + 1,
           NEW c \in Rates1, \A k \in lo .. hi : pd[k] = c, NEW a \in Archives
    PROVE  Opened(rra_def[a].cf, initialize_carry_over(a, c, hi - lo + 1), pd, KnownPdps(pd, lo, hi))
<1> DEFINE m == lo - 1
           K == KnownPdps(pd, lo, m)
           L == KnownPdps(pd, lo, hi)
           cf == rra_def[a].cf
           n == hi - lo + 1
           val == initialize_carry_over(a, c, n)
<1>1. m \in Int /\ lo <= m + 1 /\ m <= hi /\ n = hi - m /\ m + 1 = lo /\ n \in Nat
  OBVIOUS
<1>2. K = {}
  BY DEF KnownPdps
<1>3. SumOf(pd, K) = Int2Value(0) /\ ValuesAt(pd, K) = {}
  BY <1>2, SumEmpty DEF SumOf, ValuesAt
<1>4. /\ isnan(c) => L = K
      /\ ~ isnan(c) =>
            /\ c \in Fractions
            /\ SumOf(pd, L) = Plus(SumOf(pd, K), Scaled(c, hi - m))
            /\ m < hi => ValuesAt(pd, L) = ValuesAt(pd, K) \union {c}
  <2>1. \A k \in m + 1 .. hi : pd[k] = c
    BY <1>1
  <2>2. \A k \in lo .. m : pd[k] \in Rates1
    OBVIOUS
  <2> HIDE DEF m
  <2> QED BY <1>1, <2>1, <2>2, KnownOn
<1>5. n = 0 => L = {}
  BY DEF KnownPdps
<1>6. m < hi <=> n # 0
  OBVIOUS
<1> DEFINE empty == n = 0 \/ isnan(c)
<1>7. /\ cf = "AVERAGE" => val = IF empty THEN Int2Value(0) ELSE Scaled(c, n)
      /\ cf = "MAX" => val = IF empty THEN NegDINF ELSE c
      /\ cf = "MIN" => val = IF empty THEN DINF ELSE c
  BY DEF initialize_carry_over
<1>8. hi - m = n
  OBVIOUS
<1> HIDE DEF K, L, m, n, val, cf
<1>9. CASE empty
  <2>1. L = {}
    BY <1>2, <1>4, <1>5, <1>9
  <2>2. SumOf(pd, L) = Int2Value(0) /\ ValuesAt(pd, L) = {}
    BY <2>1, SumEmpty DEF SumOf, ValuesAt
  <2>3. /\ IFDNAN(Int2Value(0), Int2Value(0)) = Int2Value(0)
        /\ IFDNAN(NegDINF, NegDINF) = NegDINF /\ IFDNAN(DINF, DINF) = DINF
    BY DEF IFDNAN
  <2> QED BY <1>7, <1>9, <2>2, <2>3 DEF Opened, IsHighest, IsLowest, L, n, val, cf
<1>10. CASE ~ empty
  <2>1. c \in Fractions /\ ~ Less(c, c) /\ \A y : IFDNAN(c, y) = c
    BY <1>4, <1>10, LessSelf, NotNan
  <2>2. Scaled(c, n) \in Fractions
    <3>1. n \in Int
      BY <1>1
    <3> QED BY <2>1, <3>1, ScaledType
  <2>3. SumOf(pd, L) = Scaled(c, n) /\ ValuesAt(pd, L) = {c}
    <3>1. SumOf(pd, L) = Plus(Int2Value(0), Scaled(c, n))
      BY <1>3, <1>4, <1>8, <1>10
    <3>2. ValuesAt(pd, L) = {c}
      BY <1>3, <1>4, <1>6, <1>10
    <3> QED BY <2>2, <3>1, <3>2, ZeroPlus
  <2>4. IFDNAN(Scaled(c, n), Int2Value(0)) = Scaled(c, n)
    BY <2>2, NotNan
  <2> QED BY <1>7, <1>10, <2>1, <2>3, <2>4 DEF Opened, IsHighest, IsLowest, L, n, val, cf
<1> QED BY <1>9, <1>10

\* A period that is closed by PDPs that are all the same.
LEMMA RowClosed ==
    ASSUME NEW a \in Archives, NEW m \in Int, NEW o \in 1 .. PdpCnt(a), NEW pd, NEW c \in Rates1,
           \A k \in (m + o) - PdpCnt(a) + 1 .. m : pd[k] \in Rates1,
           \A k \in m + 1 .. m + o : pd[k] = c, NEW cdp \in CdpType,
           Opened(rra_def[a].cf, cdp.val, pd, KnownPdps(pd, (m + o) - PdpCnt(a) + 1, m)),
           cdp.unkn = PdpCnt(a) - o - Cardinality(KnownPdps(pd, (m + o) - PdpCnt(a) + 1, m))
    PROVE  LET u == cdp.unkn + (IF isnan(c) THEN o ELSE 0)
           IN  RowVal(pd, a, m + o)
                 = IF TooManyUnknown(a, u) THEN DNAN
                   ELSE initialize_cdp_val(a, [cdp EXCEPT !.unkn = u], c, o)
<1> DEFINE p == PdpCnt(a)
           e == m + o
           lo == e - p + 1
           K == KnownPdps(pd, lo, m)
           L == KnownPdps(pd, lo, e)
           cf == rra_def[a].cf
           u == cdp.unkn + (IF isnan(c) THEN o ELSE 0)
           val == initialize_cdp_val(a, [cdp EXCEPT !.unkn = u], c, o)
<1>1. /\ p \in Nat \ {0} /\ o \in Nat \ {0} /\ e \in Int /\ lo \in Int /\ lo <= m + 1 /\ m < e
      /\ e - m = o /\ m <= e /\ cf \in {"AVERAGE", "MIN", "MAX", "LAST"}
  BY Constants
<1>2. \A k \in m + 1 .. e : pd[k] = c
  OBVIOUS
<1>3. /\ Opened(cf, cdp.val, pd, K) /\ cdp.unkn = p - o - Cardinality(K)
      /\ \A k \in lo .. m : pd[k] \in Rates1
  <2>1. Opened(cf, cdp.val, pd, K)
    OBVIOUS
  <2>2. cdp.unkn = p - o - Cardinality(K)
    OBVIOUS
  <2>3. \A k \in lo .. m : pd[k] \in Rates1
    OBVIOUS
  <2> QED BY <2>1, <2>2, <2>3
<1>4. /\ Cardinality(K) \in Nat /\ SumOf(pd, K) \in Fractions /\ ValuesAt(pd, K) \subseteq Fractions
      /\ isnan(c) => L = K
      /\ ~ isnan(c) =>
            /\ c \in Fractions /\ SumOf(pd, L) = Plus(SumOf(pd, K), Scaled(c, o))
            /\ Cardinality(L) = Cardinality(K) + o
            /\ ValuesAt(pd, L) = ValuesAt(pd, K) \union {c}
            /\ ValuesAt(pd, L) \subseteq Fractions
  <2> HIDE DEF lo, e, K, L
  <2>1. IsFiniteSet(K) /\ Cardinality(K) \in Nat /\ SumOf(pd, K) \in Fractions
        /\ ValuesAt(pd, K) \subseteq Fractions
    BY <1>1, <1>2, <1>3, KnownOn DEF K, L
  <2>2. /\ isnan(c) => L = K
        /\ ~ isnan(c) =>
            /\ c \in Fractions /\ SumOf(pd, L) = Plus(SumOf(pd, K), Scaled(c, e - m))
            /\ Cardinality(L) = Cardinality(K) + (e - m)
            /\ ValuesAt(pd, L) = ValuesAt(pd, K) \union {c}
    BY <1>1, <1>2, <1>3, KnownOn DEF K, L
  <2> QED BY <1>1, <2>1, <2>2
<1>5. pd[e] = c
  BY <1>1
<1>6. RowVal(pd, a, e) = IF TooManyUnknown(a, p - Cardinality(L)) THEN DNAN
                         ELSE PeriodValue(cf, pd, L, SumOf(pd, L), e)
  BY DEF RowVal
<1> DEFINE n == [cdp EXCEPT !.unkn = u]
<1>7. n.val = cdp.val /\ n.unkn = u
  BY DEF CdpType
<1>8. /\ cf = "AVERAGE" => val = Over(Plus(IFDNAN(cdp.val, Int2Value(0)),
                                           Scaled(IFDNAN(c, Int2Value(0)), o)), p - u)
      /\ cf = "MAX" => val = Larger(IFDNAN(cdp.val, NegDINF), IFDNAN(c, NegDINF))
      /\ cf = "MIN" => val = Smaller(IFDNAN(cdp.val, DINF), IFDNAN(c, DINF))
      /\ cf = "LAST" => val = c
  <2> HIDE DEF n
  <2>1. val = initialize_cdp_val(a, n, c, o)
    BY DEF n
  <2> QED BY <1>7, <2>1 DEF initialize_cdp_val
<1> HIDE DEF val, n, K, L, lo, e, cf, p
<1>9. p - Cardinality(L) = u /\ Cardinality(L) = p - u
  BY <1>1, <1>3, <1>4
<1> HIDE DEF u
<1>10. CASE TooManyUnknown(a, u)
  BY <1>6, <1>9, <1>10 DEF val, u, e
<1>11. CASE ~ TooManyUnknown(a, u)
  <2>1. L # {}
    <3>1. ASSUME L = {} PROVE FALSE
      <4>1. Cardinality(L) = 0
        BY <3>1, FS_EmptySet
      <4>2. u = p
        BY <1>1, <1>9, <4>1
      <4> QED BY <1>11, <4>2, UnknownPeriods DEF p
    <3> QED BY <3>1
  <2>2. /\ ValuesAt(pd, L) # {} /\ ValuesAt(pd, L) \subseteq Fractions
        /\ isnan(c) => ValuesAt(pd, K) # {} /\ ValuesAt(pd, L) = ValuesAt(pd, K)
    BY <1>4, <2>1 DEF ValuesAt
  <2>3. ASSUME cf = "AVERAGE" PROVE val = Over(SumOf(pd, L), Cardinality(L))
    <3>1. IFDNAN(cdp.val, Int2Value(0)) = SumOf(pd, K)
      BY <1>3, <2>3 DEF Opened
    <3>2. CASE isnan(c)
      <4>1. IFDNAN(c, Int2Value(0)) = Int2Value(0)
        BY <3>2 DEF IFDNAN
      <4>2. Scaled(Int2Value(0), o) = Int2Value(0)
        <5>1. o \in Int
          BY <1>1
        <5> QED BY <5>1, ZeroScaled
      <4>3. Plus(SumOf(pd, K), Int2Value(0)) = SumOf(pd, K)
        BY <1>4, ZeroPlus
      <4>4. L = K
        BY <1>4, <3>2
      <4> QED BY <1>8, <1>9, <2>3, <3>1, <4>1, <4>2, <4>3, <4>4
    <3>3. CASE ~ isnan(c)
      <4>1. IFDNAN(c, Int2Value(0)) = c
        BY <3>3 DEF IFDNAN
      <4> QED BY <1>4, <1>8, <1>9, <2>3, <3>1, <3>3, <4>1
    <3> QED BY <3>2, <3>3
  <2>4. ASSUME cf = "MAX" PROVE val = Highest(ValuesAt(pd, L))
    <3> DEFINE x == IFDNAN(cdp.val, NegDINF)
    <3>1. IsHighest(x, ValuesAt(pd, K)) /\ val = Larger(x, IFDNAN(c, NegDINF))
      BY <1>3, <1>8, <2>4 DEF Opened
    <3> HIDE DEF x
    <3>2. IsHighest(val, ValuesAt(pd, L))
      <4>1. CASE isnan(c)
        <5>1. x \in Fractions /\ IFDNAN(c, NegDINF) = NegDINF
          BY <1>4, <2>2, <3>1, <4>1 DEF IsHighest, IFDNAN
        <5>2. ~ Less(x, NegDINF)
          BY <5>1, Infinities
        <5>3. val = x
          BY <3>1, <5>1, <5>2 DEF Larger
        <5> QED BY <2>2, <3>1, <4>1, <5>3
      <4>2. CASE ~ isnan(c)
        <5>1. IFDNAN(c, NegDINF) = c
          BY <4>2 DEF IFDNAN
        <5> QED BY <1>4, <3>1, <4>2, <5>1, HighestAdds
      <4> QED BY <4>1, <4>2
    <3> QED BY <2>2, <3>2, HighestIs
  <2>5. ASSUME cf = "MIN" PROVE val = Lowest(ValuesAt(pd, L))
    <3> DEFINE x == IFDNAN(cdp.val, DINF)
    <3>1. IsLowest(x, ValuesAt(pd, K)) /\ val = Smaller(x, IFDNAN(c, DINF))
      BY <1>3, <1>8, <2>5 DEF Opened
    <3> HIDE DEF x
    <3>2. IsLowest(val, ValuesAt(pd, L))
      <4>1. CASE isnan(c)
        <5>1. x \in Fractions /\ IFDNAN(c, DINF) = DINF
          BY <1>4, <2>2, <3>1, <4>1 DEF IsLowest, IFDNAN
        <5>2. ~ Less(DINF, x)
          BY <5>1, Infinities
        <5>3. val = x
          BY <3>1, <5>1, <5>2 DEF Smaller
        <5> QED BY <2>2, <3>1, <4>1, <5>3
      <4>2. CASE ~ isnan(c)
        <5>1. IFDNAN(c, DINF) = c
          BY <4>2 DEF IFDNAN
        <5>2. IsLowest(Smaller(x, c), ValuesAt(pd, K) \union {c})
          BY <1>4, <3>1, <4>2, HighestAdds
        <5> QED BY <1>4, <3>1, <4>2, <5>1, <5>2
      <4> QED BY <4>1, <4>2
    <3> QED BY <2>2, <3>2, HighestIs
  <2>6. ASSUME cf = "LAST" PROVE val = pd[e]
    BY <1>5, <1>8, <2>6
  <2>7. PeriodValue(cf, pd, L, SumOf(pd, L), e) = val
    BY <1>1, <2>3, <2>4, <2>5, <2>6 DEF PeriodValue
  <2>8. RowVal(pd, a, e) = val
    BY <1>6, <1>9, <1>11, <2>7
  <2> QED BY <1>11, <2>8 DEF val, u, e
<1> QED BY <1>10, <1>11

-----------------------------------------------------------------------------
(* The ring of rows.                                                       *)

\* Where the rows of an archive are: `back' rows before the current one.
RowAt(cur, R, back) == (cur + R - back) % R

LEMMA RowShift ==
    ASSUME NEW R \in Nat \ {0}, NEW cur \in Nat, NEW n \in Nat, NEW back \in 0 .. R - 1
    PROVE  /\ RowAt(cur, R, back) \in 0 .. R - 1
           /\ RowAt((cur + n) % R, R, back) = (cur + n - back + R) % R
           /\ back >= n => RowAt((cur + n) % R, R, back) = RowAt(cur, R, back - n)
<1>1. cur + R - back \in Int
  OBVIOUS
<1>2. RowAt(cur, R, back) \in 0 .. R - 1
  BY <1>1, DivMod DEF RowAt
<1>3. RowAt((cur + n) % R, R, back) = (cur + n - back + R) % R
  <2> DEFINE x == cur + n
             y == R - back
  <2>1. x \in Int /\ y \in Int
    OBVIOUS
  <2>2. x % R \in Int
    BY <2>1, DivMod
  <2> HIDE DEF x
  <2>3. ((x % R) + y) % R = (x + y) % R
    BY <2>1, ModPlus
  <2>4. (x % R) + R - back = (x % R) + y
    BY <2>2
  <2>5. x + y = cur + n - back + R
    BY DEF x
  <2> HIDE DEF y
  <2> QED BY <2>3, <2>4, <2>5 DEF RowAt, x
<1>4. ASSUME back >= n PROVE cur + n - back + R = cur + R - (back - n)
  OBVIOUS
<1> QED BY <1>2, <1>3, <1>4 DEF RowAt

\* The current row after n more rows.
Ahead(cur, R, n) == (cur + n) % R

LEMMA RowAhead ==
    ASSUME NEW R \in Nat \ {0}, NEW cur \in Nat, NEW n \in Nat, NEW back \in 0 .. R - 1
    PROVE  /\ RowAt(Ahead(cur, R, n), R, back) \in 0 .. R - 1
           /\ back >= n => RowAt(Ahead(cur, R, n), R, back) = RowAt(cur, R, back - n)
<1>1. RowAt(Ahead(cur, R, n), R, back) \in 0 .. R - 1
  BY RowShift DEF Ahead
<1>2. back >= n => RowAt(Ahead(cur, R, n), R, back) = RowAt(cur, R, back - n)
  BY RowShift DEF Ahead
<1> QED BY <1>1, <1>2

\* The periods, of the n that are written, whose row is row x.
Hits(cur, R, n, x) == {i \in 1 .. n : (cur + i) % R = x}

\* The row of the first period is hit by it only if no later one overwrites
\* it, and the rows that are not reached by any are not written.
LEMMA RowsHit ==
    ASSUME NEW R \in Nat \ {0}, NEW cur \in Nat, NEW n \in Nat, NEW back \in 0 .. R - 1
    PROVE  LET h == Hits(cur, R, n, RowAt(Ahead(cur, R, n), R, back))
           IN  IF back >= n THEN h = {} ELSE h # {} /\ (h = {1} <=> n - back = 1)
<1> DEFINE r == RowAt((cur + n) % R, R, back)
           hits == {i \in 1 .. n : (cur + i) % R = r}
           b == n - back
<1>1. r = (cur + b + R) % R /\ b \in Int
  <2>1. r = (cur + n - back + R) % R
    BY RowShift
  <2>2. cur + n - back + R = cur + b + R
    OBVIOUS
  <2> HIDE DEF b, r
  <2> QED BY <2>1, <2>2 DEF b
<1>2. \A i \in Int : (cur + i) % R = r => \E q \in Int : i = b + q * R
  <2> SUFFICES ASSUME NEW i \in Int, (cur + i) % R = r PROVE \E q \in Int : i = b + q * R
    OBVIOUS
  <2> DEFINE x == cur + i
             y == cur + b + R
             d == x \div R
             f == y \div R
             s == x % R
  <2>1. x \in Int /\ y \in Int
    BY <1>1
  <2>2. d \in Int /\ f \in Int /\ s \in Int /\ x = d * R + s /\ y = f * R + s
    <3> HIDE DEF x, y
    <3>1. d \in Int /\ s \in Int /\ x = d * R + s
      <4>1. d \in Int /\ s \in 0 .. R - 1
        BY <2>1, DivMod
      <4>2. x = d * R + s
        BY <2>1, DivMod
      <4> QED BY <4>1, <4>2
    <3>3. f \in Int /\ y = f * R + (y % R)
      <4>1. f \in Int
        BY <2>1, DivMod
      <4>2. y = (y \div R) * R + (y % R)
        BY <2>1, DivMod
      <4> QED BY <4>1, <4>2
    <3>2. y % R = s
      BY <1>1, <2>1 DEF x, y
    <3> QED BY <3>1, <3>2, <3>3
  <2> DEFINE q == d - f + 1
  <2>3. q \in Int /\ q * R = d * R - f * R + R /\ d * R \in Int /\ f * R \in Int
    <3> HIDE DEF d, f
    <3> QED BY <2>2
  <2>4. x - y = q * R - R
    <3> DEFINE u == d * R
               v == f * R
               w == q * R
    <3>1. w = u - v + R /\ u \in Int /\ v \in Int /\ x = u + s /\ y = v + s /\ s \in Int
      BY <2>2, <2>3
    <3> HIDE DEF u, v, w, s, x, y
    <3>2. x - y = w - R
      BY <3>1
    <3> QED BY <3>2 DEF w
  <2>5. q * R \in Int
    BY <2>3, Product
  <2> DEFINE w == q * R
  <2>6. i - b - R = w - R /\ w \in Int
    <3>1. x - y = i - b - R
      BY <1>1
    <3> HIDE DEF x, y
    <3> QED BY <2>4, <2>5, <3>1
  <2> HIDE DEF b, q
  <2>7. i = b + w
    <3> HIDE DEF w
    <3> QED BY <1>1, <2>6
  <2> QED BY <2>3, <2>7
<1>3. \A q \in Int : (q >= 1 => q * R >= R) /\ (q <= -1 => q * R <= -R)
  <2> SUFFICES ASSUME NEW q \in Int PROVE (q >= 1 => q * R >= R) /\ (q <= -1 => q * R <= -R)
    OBVIOUS
  <2>1. ASSUME q >= 1 PROVE q * R >= R
    <3>1. 1 * R <= q * R /\ 1 * R = R
      BY <2>1, Monotone
    <3>2. q * R \in Int
      BY Product
    <3> DEFINE w == q * R
    <3> HIDE DEF w
    <3>3. w >= R
      BY <3>1, <3>2 DEF w
    <3> QED BY <3>3 DEF w
  <2>2. ASSUME q <= -1 PROVE q * R <= -R
    <3>1. q * R <= (-1) * R /\ (-1) * R = -R
      BY <2>2, Monotone
    <3> QED BY <3>1
  <2> QED BY <2>1, <2>2
<1>4. \A i \in 1 .. n : (cur + i) % R = r => \E q \in Int : i = b + q * R /\ (q = 0 \/ i <= b - R)
  <2> SUFFICES ASSUME NEW i \in 1 .. n, (cur + i) % R = r
               PROVE  \E q \in Int : i = b + q * R /\ (q = 0 \/ i <= b - R)
    OBVIOUS
  <2>1. PICK q \in Int : i = b + q * R
    <3>1. i \in Int
      OBVIOUS
    <3> HIDE DEF b, r
    <3> QED BY <1>2, <3>1
  <2> DEFINE w == q * R
  <2>2. i = b + w /\ w \in Int /\ (q >= 1 => w >= R) /\ (q <= -1 => w <= -R)
    BY <1>3, <2>1, Product
  <2> HIDE DEF w
  <2>3. ~ (q >= 1)
    <3>1. ~ (w >= R)
      BY <2>2
    <3> QED BY <2>2, <3>1
  <2>4. q = 0 \/ q <= -1
    BY <2>3
  <2>5. q = 0 \/ i <= b - R
    <3> HIDE DEF b
    <3> QED BY <1>1, <2>2, <2>4
  <2> QED BY <2>1, <2>5
<1>5. ASSUME back < n PROVE b \in hits
  <2>1. b \in 1 .. n
    BY <1>5
  <2>2. (cur + b) % R = r
    <3> DEFINE x == cur + b
    <3>1. x \in Int /\ R \in Int
      OBVIOUS
    <3> HIDE DEF x
    <3>2. (x + R) % R = x % R
      <4>1. ((x % R) + R) % R = (x + R) % R
        BY <3>1, ModPlus
      <4>2. x % R \in 0 .. R - 1
        BY <3>1, DivMod
      <4> DEFINE s == x % R
      <4>3. s \in 0 .. R - 1 /\ 1 \in Int
        BY <4>2
      <4> HIDE DEF s
      <4>4. (1 * R + s) % R = s
        BY <4>3, DivUnique
      <4>5. 1 * R + s = s + R
        BY <4>3
      <4> QED BY <4>1, <4>4, <4>5 DEF s
    <3>3. cur + b + R = x + R
      BY DEF x
    <3> HIDE DEF r
    <3> QED BY <1>1, <3>2, <3>3 DEF x
  <2> HIDE DEF r, b
  <2> QED BY <2>1, <2>2
<1>6. ASSUME back >= n PROVE hits = {}
  <2> SUFFICES ASSUME NEW i \in 1 .. n, (cur + i) % R = r PROVE FALSE
    OBVIOUS
  <2>1. PICK q \in Int : i = b + q * R /\ (q = 0 \/ i <= b - R)
    <3> HIDE DEF b, r
    <3> QED BY <1>4
  <2>2. q = 0 => i = b
    <3> HIDE DEF b
    <3>1. 0 * R = 0
      OBVIOUS
    <3> QED BY <1>1, <2>1, <3>1
  <2>3. ~ (i <= b - R)
    BY <1>6
  <2> QED BY <1>6, <2>1, <2>2, <2>3
<1>7. ASSUME hits = {1} PROVE back < n /\ b = 1
  <2>1. back < n
    BY <1>6, <1>7
  <2> HIDE DEF b, hits
  <2> QED BY <1>5, <1>7, <2>1
<1>8. ASSUME back < n, b = 1 PROVE hits = {1}
  <2>1. ASSUME NEW i \in 1 .. n, (cur + i) % R = r PROVE i = 1
    <3>1. PICK q \in Int : i = b + q * R /\ (q = 0 \/ i <= b - R)
      <4> HIDE DEF b, r
      <4> QED BY <1>4, <2>1
    <3>2. q = 0 => i = b
      <4> HIDE DEF b
      <4>1. 0 * R = 0
        OBVIOUS
      <4> QED BY <1>1, <3>1, <4>1
    <3>3. ~ (i <= b - R)
      BY <1>8
    <3> HIDE DEF b
    <3> QED BY <1>8, <3>1, <3>2, <3>3
  <2>2. 1 \in hits
    <3> HIDE DEF hits, b
    <3> QED BY <1>5, <1>8
  <2>3. hits \subseteq {1}
    <3> HIDE DEF r, b
    <3> QED BY <2>1
  <2> HIDE DEF hits
  <2> QED BY <2>2, <2>3
<1>9. Hits(cur, R, n, r) = hits
  BY DEF Hits
<1>10. CASE back >= n
  BY <1>6, <1>9, <1>10 DEF Ahead
<1>11. CASE ~ (back >= n)
  <2>1. back < n
    BY <1>11
  <2> HIDE DEF b
  <2>2. hits # {} /\ (hits = {1} <=> b = 1)
    BY <1>5, <1>7, <1>8, <2>1
  <2> HIDE DEF hits, r
  <2> QED BY <1>9, <1>11, <2>2 DEF r, b, Ahead
<1> QED BY <1>10, <1>11

-----------------------------------------------------------------------------
(* An update of the archives.                                              *)

\* The periods that an update completes.
LEMMA PeriodsDue ==
    ASSUME NEW a \in Archives, NEW n \in Nat, last_up \in Nat
    PROVE  LET p == PdpCnt(a)
               r == Now % p
               g == (Now + n) % p
               o == StartPdpOffset(a)
               due == RraStepCnt(a, n)
           IN  /\ p \in Nat \ {0} /\ Now \in Nat /\ r \in 0 .. p - 1 /\ g \in 0 .. p - 1
               /\ o = p - r /\ o \in 1 .. p /\ due \in Nat
               /\ due = 0 => g = r + n
               /\ due > 0 => /\ o <= n /\ (n - o) % p = g /\ g <= n - o
                             /\ (Now + n) - g = (Now - r) + due * p
<1> DEFINE p == PdpCnt(a)
           m == Now
           r == m % p
           g == (m + n) % p
           o == StartPdpOffset(a)
           due == RraStepCnt(a, n)
<1>1. p \in Nat \ {0} /\ m \in Nat
  BY Constants, StepStartIs DEF Now
<1>2. r \in 0 .. p - 1 /\ g \in 0 .. p - 1
  <2> HIDE DEF p, m
  <2>1. m \in Int /\ m + n \in Int
    BY <1>1
  <2> QED BY <1>1, <2>1, DivMod
<1>3. o = p - r
  BY DEF StartPdpOffset, Now
<1>4. /\ due \in Nat
      /\ due > 0 => (n - o) % p = g
      /\ due = 0 => g = r + n
  BY RowsDue
<1>5. due = IF o <= n THEN (n - o) \div p + 1 ELSE 0
  BY DEF RraStepCnt
<1> HIDE DEF p, m, r, g, o, due
<1>6. o \in 1 .. p
  BY <1>1, <1>2, <1>3
<1>7. ASSUME due > 0
      PROVE  o <= n /\ g <= n - o /\ (m + n) - g = (m - r) + due * p
  <2>1. o <= n /\ due = (n - o) \div p + 1
    BY <1>5, <1>7
  <2> DEFINE d == (n - o) \div p
             k == n - o
  <2>2. k \in Nat
    BY <1>6, <2>1
  <2> HIDE DEF k
  <2>3. k \div p \in Nat /\ k = (k \div p) * p + (k % p)
    BY <1>1, <2>2, DivNat, DivMod
  <2>4. d \in Nat /\ k = d * p + g /\ d * p \in Nat
    <3>1. d \in Nat /\ k = d * p + g
      BY <1>4, <1>7, <2>3 DEF k
    <3> HIDE DEF d
    <3> QED BY <1>1, <3>1, Product
  <2>5. due * p = d * p + p
    <3>1. due = d + 1
      BY <2>1
    <3> HIDE DEF d
    <3> QED BY <1>1, <2>4, <3>1
  <2> DEFINE b == d * p
             w == due * p
  <2>6. k = b + g /\ b \in Nat /\ w = b + p
    BY <2>4, <2>5
  <2> HIDE DEF b, w, d
  <2>7. g <= n - o /\ (m + n) - g = (m - r) + w
    BY <1>1, <1>2, <1>3, <1>6, <2>6 DEF k
  <2> QED BY <2>1, <2>7 DEF w
<1> QED BY <1>1, <1>2, <1>3, <1>4, <1>6, <1>7 DEF p, m, r, g, o, due

\* The PDPs as a function, and what an update adds to them.
Follow(pd, qd, n, pdp) ==
    /\ pdp \in Rates1
    /\ \A k \in Int : k <= Now => qd[k] = pd[k] /\ pd[k] \in Rates1
    /\ \A k \in Now + 1 .. Now + n : qd[k] = pdp
OpenedAt(a, now, cdp, pd) ==
    /\ Opened(rra_def[a].cf, cdp.val, pd, KnownPdps(pd, PeriodStart(a, now), now))
    /\ cdp.unkn = (now % PdpCnt(a)) - Cardinality(KnownPdps(pd, PeriodStart(a, now), now))

LEMMA KnownSame ==
    ASSUME NEW pd, NEW qd, NEW lo, NEW hi, \A k \in lo .. hi : qd[k] = pd[k]
    PROVE  KnownPdps(qd, lo, hi) = KnownPdps(pd, lo, hi)
BY DEF KnownPdps

\* The areas of an archive after an update.
LEMMA OpenedStep ==
    ASSUME NEW a \in Archives, PdpCnt(a) > 1, NEW n \in Nat \ {0}, last_up \in Nat,
           NEW pd, NEW qd, NEW pdp, Follow(pd, qd, n, pdp), cdp_prep[a] \in CdpType,
           OpenedAt(a, Now, cdp_prep[a], pd)
    PROVE  LET new == update_cdp_prep(a, pdp, n)
           IN  /\ Opened(rra_def[a].cf, new.val, qd, KnownPdps(qd, PeriodStart(a, Now + n), Now + n))
               /\ RraStepCnt(a, n) > 0 =>
                     /\ new.primary = RowVal(qd, a, (Now - (Now % PdpCnt(a))) + PdpCnt(a))
                     /\ new.secondary = pdp
<1> DEFINE p == PdpCnt(a)
           m == Now
           r == m % p
           g == (m + n) % p
           o == StartPdpOffset(a)
           due == RraStepCnt(a, n)
           lo == PeriodStart(a, m)
           li == PeriodStart(a, m + n)
           cdp == cdp_prep[a]
           new == update_cdp_prep(a, pdp, n)
           K == KnownPdps(qd, lo, m)
           cf == rra_def[a].cf
<1>1. /\ p \in Nat \ {0} /\ m \in Nat /\ r \in 0 .. p - 1 /\ g \in 0 .. p - 1
      /\ o = p - r /\ o \in 1 .. p /\ due \in Nat /\ n \in Nat \ {0}
      /\ due = 0 => g = r + n
      /\ due > 0 => o <= n /\ (n - o) % p = g /\ g <= n - o
  BY PeriodsDue
<1>2. lo = m - r + 1 /\ li = (m + n) - g + 1
  BY DEF PeriodStart
<1>3. /\ pdp \in Rates1 /\ \A k \in m + 1 .. m + n : qd[k] = pdp
      /\ \A k \in Int : k <= m => qd[k] = pd[k] /\ pd[k] \in Rates1
  BY DEF Follow
<1> HIDE DEF p, r, g, o, due, lo, li, cdp, m
<1>4. lo \in Int /\ li \in Int /\ m \in Int /\ m + n \in Int /\ lo <= m + 1 /\ m < m + n
  BY <1>1, <1>2
<1>5. \A k \in lo .. m : qd[k] \in Rates1 /\ qd[k] = pd[k]
  BY <1>3, <1>4
<1>6. K = KnownPdps(pd, lo, m)
  BY <1>5, KnownSame
<1>7. IsFiniteSet(K)
  BY <1>4, <1>5, KnownPdpsAre
<1>8. Opened(cf, cdp.val, qd, K) /\ cdp.unkn = r - Cardinality(K) /\ cdp \in CdpType
  <2>1. Opened(cf, cdp.val, pd, K) /\ cdp.unkn = r - Cardinality(K)
    BY <1>6 DEF OpenedAt, cdp, lo, m, r, p
  <2>2. \A k \in K : pd[k] = qd[k]
    BY <1>5 DEF KnownPdps
  <2> HIDE DEF K
  <2> QED BY <1>7, <2>1, <2>2, OpenedSame DEF cdp
<1>9. CASE due > 0
  <2>1. new = CloseCdp(a, cdp, pdp, n)
    <3>1. PdpCnt(a) # 1
      OBVIOUS
    <3> QED BY <1>9, <3>1 DEF update_cdp_prep, due, cdp
  <2> DEFINE u == cdp.unkn + (IF isnan(pdp) THEN o ELSE 0)
             full == [cdp EXCEPT !.unkn = u]
  <2>2. /\ new.val = initialize_carry_over(a, pdp, (n - o) % p)
        /\ new.secondary = pdp
        /\ new.primary = IF TooManyUnknown(a, u) THEN DNAN ELSE initialize_cdp_val(a, full, pdp, o)
    BY <2>1 DEF CloseCdp, o, p
  <2>3. (n - o) % p = ((m + n) - li) + 1 /\ li <= (m + n) + 1 /\ m + 1 <= li
    BY <1>1, <1>2, <1>4, <1>9
  <2>4. Opened(cf, new.val, qd, KnownPdps(qd, li, m + n))
    <3> DEFINE hi == m + n
    <3>1. li \in Int /\ hi \in Int /\ li <= hi + 1
      BY <1>4, <2>3
    <3>2. \A k \in li .. hi : qd[k] = pdp
      BY <1>3, <1>4, <2>3
    <3>3. new.val = initialize_carry_over(a, pdp, hi - li + 1)
      BY <2>2, <2>3
    <3> HIDE DEF hi, new
    <3> QED BY <1>3, <3>1, <3>2, <3>3, OpenedAnew DEF hi
  <2>5. RowVal(qd, a, m + o) = IF TooManyUnknown(a, u) THEN DNAN ELSE initialize_cdp_val(a, full, pdp, o)
    <3>1. (m + o) - PdpCnt(a) + 1 = lo
      BY <1>1, <1>2 DEF p
    <3>2. \A k \in m + 1 .. m + o : qd[k] = pdp
      BY <1>1, <1>3, <1>9
    <3>3. o \in 1 .. PdpCnt(a)
      BY <1>1 DEF p
    <3>4. cdp.unkn = PdpCnt(a) - o - Cardinality(K)
      <4>1. PdpCnt(a) - o = r
        BY <1>1 DEF p
      <4> QED BY <1>8, <4>1
    <3>5. Opened(cf, cdp.val, qd, KnownPdps(qd, (m + o) - PdpCnt(a) + 1, m))
      BY <1>8, <3>1
    <3>6. cdp.unkn = PdpCnt(a) - o - Cardinality(KnownPdps(qd, (m + o) - PdpCnt(a) + 1, m))
      BY <3>1, <3>4
    <3>7. \A k \in (m + o) - PdpCnt(a) + 1 .. m : qd[k] \in Rates1
      BY <1>5, <3>1
    <3> HIDE DEF u, full, K
    <3> QED BY <1>3, <1>4, <1>8, <3>2, <3>3, <3>5, <3>6, <3>7, RowClosed DEF u, full
  <2>6. (m - r) + p = m + o
    BY <1>1
  <2> HIDE DEF u, full, new
  <2>7. new.primary = RowVal(qd, a, (m - r) + p)
    BY <2>2, <2>5, <2>6
  <2> QED BY <1>9, <2>2, <2>4, <2>7 DEF new, due, r, p, li, m
<1>10. CASE due = 0
  <2>1. new = ExtendCdp(a, cdp, pdp, n)
    <3>1. PdpCnt(a) # 1 /\ ~ (RraStepCnt(a, n) > 0)
      BY <1>10 DEF due
    <3> QED BY <3>1 DEF update_cdp_prep, cdp
  <2>2. new.val = IF isnan(pdp) THEN cdp.val ELSE calculate_cdp_val(a, cdp.val, pdp, n)
    <3>1. CASE isnan(pdp)
      <4>1. new = [cdp EXCEPT !.unkn = @ + n]
        BY <2>1, <3>1 DEF ExtendCdp
      <4> HIDE DEF new
      <4> QED BY <1>8, <3>1, <4>1 DEF CdpType
    <3>2. CASE ~ isnan(pdp)
      <4>1. new = [cdp EXCEPT !.val = calculate_cdp_val(a, @, pdp, n)]
        BY <2>1, <3>2 DEF ExtendCdp
      <4> HIDE DEF new
      <4> QED BY <1>8, <3>2, <4>1 DEF CdpType
    <3> QED BY <3>1, <3>2
  <2>3. li = lo
    BY <1>1, <1>2, <1>10
  <2> DEFINE hi == m + n
  <2>4. hi - m = n /\ hi \in Int /\ m < hi
    BY <1>1, <1>4
  <2>5. \A k \in m + 1 .. hi : qd[k] = pdp
    BY <1>3
  <2> HIDE DEF hi, new
  <2>6. Opened(cf, IF isnan(pdp) THEN cdp.val ELSE calculate_cdp_val(a, cdp.val, pdp, hi - m),
               qd, KnownPdps(qd, lo, hi))
    BY <1>3, <1>4, <1>5, <1>8, <2>4, <2>5, OpenedExtends
  <2>7. Opened(cf, new.val, qd, KnownPdps(qd, li, hi))
    BY <2>2, <2>3, <2>4, <2>6
  <2> QED BY <1>10, <2>7 DEF new, due, li, hi, m
<1> QED BY <1>1, <1>9, <1>10

\* The row for the period that ends with step n, and the rows of an archive.
Kept(pd, cr, a, n, from) == IF n * Step <= cr \/ n <= from THEN DNAN ELSE RowVal(pd, a, n)
RowsHold(pd, cr, a, now, cur, R, row, from) ==
    \A back \in 0 .. R - 1 :
        row[RowAt(cur, R, back)]
          = Kept(pd, cr, a, (now - (now % PdpCnt(a))) - back * PdpCnt(a), from)

\* The values that are written.
LEMMA ValuesWritten ==
    ASSUME NEW a \in Archives, NEW n \in Nat \ {0}, last_up \in Nat,
           NEW pd, NEW qd, NEW pdp, Follow(pd, qd, n, pdp), cdp_prep[a] \in CdpType,
           PdpCnt(a) > 1 => OpenedAt(a, Now, cdp_prep[a], pd), RraStepCnt(a, n) > 0
    PROVE  LET new == update_cdp_prep(a, pdp, n)
           IN  /\ new.primary = RowVal(qd, a, (Now - (Now % PdpCnt(a))) + PdpCnt(a))
               /\ RraStepCnt(a, n) > 1 => new.secondary = pdp
<1> DEFINE new == update_cdp_prep(a, pdp, n)
           p == PdpCnt(a)
<1>1. p \in Nat \ {0} /\ Now \in Nat
  BY PeriodsDue
<1>2. CASE p > 1
  BY <1>2, OpenedStep
<1>3. CASE p = 1
  <2>1. Now % 1 = 0 /\ RraStepCnt(a, n) = n
    <3>1. Now % 1 \in 0 .. 1 - 1 /\ StartPdpOffset(a) = 1 - (Now % 1)
          /\ StartPdpOffset(a) <= n
      BY <1>3, PeriodsDue
    <3>2. Now % 1 = 0 /\ StartPdpOffset(a) = 1
      BY <3>1
    <3>3. RraStepCnt(a, n) = (n - 1) \div 1 + 1
      BY <1>3, <3>1, <3>2 DEF RraStepCnt
    <3>4. (n - 1) \div 1 = n - 1
      OBVIOUS
    <3> QED BY <3>2, <3>3, <3>4
  <2>2. new = [cdp_prep[a] EXCEPT !.primary = pdp, !.secondary = IF n > 1 THEN pdp ELSE @]
    BY <1>3 DEF update_cdp_prep, SingleCdp
  <2> HIDE DEF new
  <2>3. new.primary = pdp /\ (n > 1 => new.secondary = pdp)
    BY <2>2 DEF CdpType
  <2> DEFINE e == Now + 1
  <2>4. e \in Int /\ (Now - (Now % p)) + p = e
    BY <1>1, <1>3, <2>1
  <2>5. \A k \in e - PdpCnt(a) + 1 .. e : qd[k] = pdp
    <3>1. e - PdpCnt(a) + 1 = e
      BY <1>1, <1>3
    <3>2. e \in Now + 1 .. Now + n
      BY <1>1
    <3>3. qd[e] = pdp
      BY <3>2 DEF Follow
    <3> HIDE DEF e
    <3> QED BY <2>4, <3>1, <3>3
  <2> HIDE DEF e
  <2>6. RowVal(qd, a, e) = pdp
    BY <2>4, <2>5, RowConstant DEF Follow
  <2> QED BY <2>1, <2>3, <2>4, <2>6 DEF new
<1> QED BY <1>1, <1>2, <1>3

LEMMA RowsStep ==
    ASSUME NEW a \in Archives, NEW n \in Nat \ {0}, last_up \in Nat,
           NEW pd, NEW qd, NEW pdp, Follow(pd, qd, n, pdp), cdp_prep[a] \in CdpType,
           PdpCnt(a) > 1 => OpenedAt(a, Now, cdp_prep[a], pd),
           NEW cr \in Nat, cr <= last_up, since[a] \in Int, since[a] <= Now,
           RowCnt(a) \in Nat \ {0}, cur_row[a] \in Nat,
           RowsHold(pd, cr, a, Now, cur_row[a], RowCnt(a), rows[a], since[a])
    PROVE  RowsHold(qd, cr, a, Now + n, RowWritten(a, RraStepCnt(a, n)), RowCnt(a),
                    WriteRows(a, RraStepCnt(a, n), update_cdp_prep(a, pdp, n)), since[a])
<1> DEFINE p == PdpCnt(a)
           m == Now
           r == m % p
           g == (m + n) % p
           o == StartPdpOffset(a)
           due == RraStepCnt(a, n)
           new == update_cdp_prep(a, pdp, n)
           R == RowCnt(a)
           cur == cur_row[a]
           c == m - r
           from == since[a]
           written == WriteRows(a, due, new)
<1>1. /\ p \in Nat \ {0} /\ m \in Nat /\ r \in 0 .. p - 1 /\ g \in 0 .. p - 1
      /\ o = p - r /\ o \in 1 .. p /\ due \in Nat
      /\ due = 0 => g = r + n
      /\ due > 0 => o <= n /\ (m + n) - g = c + due * p
  BY PeriodsDue
<1>2. (m + n) - g = c + due * p /\ c \in Int /\ c <= m /\ m < c + p
  <2>1. due = 0 => due * p = 0
    BY <1>1
  <2> DEFINE w == due * p
  <2>2. (due = 0 => w = 0) /\ (due > 0 => (m + n) - g = c + w)
    BY <1>1, <2>1
  <2> HIDE DEF p, m, r, g, o, due, w
  <2>3. (m + n) - g = c + w
    BY <1>1, <2>2
  <2>4. c \in Int /\ c <= m /\ m < c + p
    BY <1>1
  <2> QED BY <2>3, <2>4 DEF w
<1>3. /\ pdp \in Rates1 /\ \A k \in m + 1 .. m + n : qd[k] = pdp
      /\ \A k \in Int : k <= m => qd[k] = pd[k] /\ pd[k] \in Rates1
  BY DEF Follow
<1>4. due > 0 => new.primary = RowVal(qd, a, c + p) /\ (due > 1 => new.secondary = pdp)
  BY ValuesWritten
<1>5. cr < (m + 1) * Step
  <2>1. last_up < StepStart(last_up) + Step /\ StepStart(last_up) = m * Step
    BY StepStartIs DEF Now
  <2>2. (m + 1) * Step = m * Step + Step /\ m * Step \in Int /\ Step \in Nat
    <3> HIDE DEF m
    <3> QED BY <1>1, Constants
  <2> DEFINE w == m * Step
             v == (m + 1) * Step
  <2>3. last_up < w + Step /\ v = w + Step /\ w \in Int /\ Step \in Nat
    BY <2>1, <2>2
  <2> HIDE DEF w, v
  <2>4. cr < v
    BY <2>3
  <2> QED BY <2>4 DEF v
<1>6. R \in Nat \ {0} /\ cur \in Nat /\ from \in Int /\ from <= m
  OBVIOUS
<1>7. /\ RowWritten(a, due) = Ahead(cur, R, due)
      /\ written = [x \in 0 .. R - 1 |->
                       IF Hits(cur, R, due, x) = {} THEN rows[a][x]
                       ELSE IF Hits(cur, R, due, x) = {1} THEN new.primary ELSE new.secondary]
  BY DEF RowWritten, WriteRows, Hits, Ahead
<1>8. \A back \in 0 .. R - 1 : rows[a][RowAt(cur, R, back)] = Kept(pd, cr, a, c - back * p, from)
  BY DEF RowsHold
<1>10. \A back \in 0 .. R - 1 :
          written[RowAt(Ahead(cur, R, due), R, back)]
            = IF back >= due THEN rows[a][RowAt(cur, R, back - due)]
              ELSE IF due - back = 1 THEN new.primary ELSE new.secondary
  <2> HIDE DEF R, cur, due, new, written
  <2>1. R \in Nat \ {0} /\ cur \in Nat /\ due \in Nat
    BY <1>1, <1>6
  <2> SUFFICES ASSUME NEW back \in 0 .. R - 1
               PROVE  written[RowAt(Ahead(cur, R, due), R, back)]
                        = IF back >= due THEN rows[a][RowAt(cur, R, back - due)]
                          ELSE IF due - back = 1 THEN new.primary ELSE new.secondary
    OBVIOUS
  <2> DEFINE x == RowAt(Ahead(cur, R, due), R, back)
             h == Hits(cur, R, due, x)
  <2>2. x \in 0 .. R - 1 /\ (back >= due => x = RowAt(cur, R, back - due))
    <3>1. \A S \in Nat \ {0}, q \in Nat, k \in Nat : \A b \in 0 .. S - 1 :
             /\ RowAt(Ahead(q, S, k), S, b) \in 0 .. S - 1
             /\ b >= k => RowAt(Ahead(q, S, k), S, b) = RowAt(q, S, b - k)
      BY RowAhead
    <3>2. \A q \in Nat, k \in Nat : \A b \in 0 .. R - 1 :
             /\ RowAt(Ahead(q, R, k), R, b) \in 0 .. R - 1
             /\ b >= k => RowAt(Ahead(q, R, k), R, b) = RowAt(q, R, b - k)
      BY <2>1, <3>1
    <3>3. \A b \in 0 .. R - 1 :
             /\ RowAt(Ahead(cur, R, due), R, b) \in 0 .. R - 1
             /\ b >= due => RowAt(Ahead(cur, R, due), R, b) = RowAt(cur, R, b - due)
      BY <2>1, <3>2
    <3> QED BY <3>3
  <2>4. IF back >= due THEN h = {} ELSE h # {} /\ (h = {1} <=> due - back = 1)
    <3>1. \A S \in Nat \ {0}, q \in Nat, k \in Nat : \A b \in 0 .. S - 1 :
             LET h1 == Hits(q, S, k, RowAt(Ahead(q, S, k), S, b))
             IN  IF b >= k THEN h1 = {} ELSE h1 # {} /\ (h1 = {1} <=> k - b = 1)
      BY RowsHit
    <3>2. \A q \in Nat, k \in Nat : \A b \in 0 .. R - 1 :
             LET h1 == Hits(q, R, k, RowAt(Ahead(q, R, k), R, b))
             IN  IF b >= k THEN h1 = {} ELSE h1 # {} /\ (h1 = {1} <=> k - b = 1)
      BY <2>1, <3>1
    <3>3. \A b \in 0 .. R - 1 :
             LET h1 == Hits(cur, R, due, RowAt(Ahead(cur, R, due), R, b))
             IN  IF b >= due THEN h1 = {} ELSE h1 # {} /\ (h1 = {1} <=> due - b = 1)
      BY <2>1, <3>2
    <3> QED BY <3>3
  <2> HIDE DEF x
  <2>5. written[x] = IF h = {} THEN rows[a][x] ELSE IF h = {1} THEN new.primary ELSE new.secondary
    BY <1>7, <2>2
  <2> HIDE DEF h
  <2> QED BY <2>2, <2>4, <2>5 DEF x
<1> HIDE DEF p, m, r, g, o, due, new, R, cur, c, from, written
<1>9. ASSUME NEW back \in 0 .. R - 1
      PROVE  written[RowAt(Ahead(cur, R, due), R, back)]
               = Kept(qd, cr, a, ((m + n) - g) - back * p, from)
  <2> DEFINE x == RowAt(Ahead(cur, R, due), R, back)
             d == due - back
             e == ((m + n) - g) - back * p
  <2>1. written[x] = IF back >= due THEN rows[a][RowAt(cur, R, back - due)]
                     ELSE IF d = 1 THEN new.primary ELSE new.secondary
    BY <1>10
  <2> HIDE DEF x
  <2>4. e = c + d * p /\ d \in Int
    <3>1. d * p = due * p - back * p /\ due * p \in Int /\ back * p \in Int
      BY <1>1
    <3> DEFINE u == due * p
               v == back * p
               w == d * p
    <3>2. w = u - v /\ u \in Int /\ v \in Int /\ (m + n) - g = c + u
      BY <1>2, <3>1
    <3> HIDE DEF u, v, w
    <3>3. ((m + n) - g) - v = c + w
      BY <1>2, <3>2
    <3>4. d \in Int
      BY <1>1
    <3> QED BY <3>3, <3>4 DEF w, v
  <2> DEFINE w == d * p
  <2>5. w \in Int /\ (d >= 1 => w >= p) /\ (d <= 0 => w <= 0) /\ (d <= due => w <= due * p)
        /\ (d >= 2 => w >= 2 * p)
    <3> HIDE DEF d
    <3>1. w \in Int
      BY <1>1, <2>4, Product
    <3>2. ASSUME d >= 1 PROVE w >= p
      <4>1. 1 * p <= d * p
        BY <1>1, <2>4, <3>2, Monotone
      <4>2. 1 * p = p
        BY <1>1
      <4> HIDE DEF w
      <4> QED BY <1>1, <3>1, <4>1, <4>2 DEF w
    <3>3. ASSUME d <= 0 PROVE w <= 0
      <4>1. d * p <= 0 * p
        BY <1>1, <2>4, <3>3, Monotone
      <4>2. 0 * p = 0
        BY <1>1
      <4> QED BY <4>1, <4>2
    <3>4. ASSUME d <= due PROVE w <= due * p
      BY <1>1, <2>4, <3>4, Monotone
    <3>5. ASSUME d >= 2 PROVE w >= 2 * p
      <4>1. 2 * p <= d * p
        BY <1>1, <2>4, <3>5, Monotone
      <4>2. 2 * p \in Int
        BY <1>1
      <4> DEFINE v == 2 * p
      <4>3. v <= w /\ v \in Int
        BY <4>1, <4>2
      <4> HIDE DEF v, w
      <4>4. w >= v
        BY <3>1, <4>3
      <4> QED BY <4>4 DEF v
    <3> QED BY <3>1, <3>2, <3>3, <3>4, <3>5
  <2>6. e = c + w /\ e \in Int
    <3>1. e = c + w
      BY <2>4
    <3> HIDE DEF w, e
    <3> QED BY <1>2, <2>5, <3>1
  <2>7. CASE back < due
    <3>1. d \in Nat /\ d >= 1 /\ d <= due /\ due > 0 /\ ~ (back >= due)
      BY <1>1, <2>7
    <3>2. e > m
      <4> HIDE DEF w, e
      <4> QED BY <1>1, <1>2, <2>5, <2>6, <3>1
    <3>3. Kept(qd, cr, a, e, from) = RowVal(qd, a, e)
      <4>1. ~ (e <= from)
        <5> HIDE DEF e
        <5> QED BY <1>1, <1>6, <2>6, <3>2
      <4>2. ~ (e * Step <= cr)
        <5>1. m + 1 <= e /\ m + 1 \in Int
          <6> HIDE DEF e
          <6> QED BY <1>1, <2>6, <3>2
        <5> HIDE DEF e
        <5>2. (m + 1) * Step <= e * Step
          <6>1. Step \in Nat
            BY Constants
          <6> QED BY <2>6, <5>1, <6>1, Monotone
        <5>3. (m + 1) * Step \in Int /\ e * Step \in Int
          BY <2>6, <5>1, Constants, Product
        <5> DEFINE u == (m + 1) * Step
                   v == e * Step
        <5>4. cr < u /\ u <= v /\ u \in Int /\ v \in Int
          BY <1>5, <5>2, <5>3
        <5> HIDE DEF u, v
        <5>5. ~ (v <= cr)
          BY <5>4
        <5> QED BY <5>5 DEF v
      <4> QED BY <4>1, <4>2 DEF Kept
    <3>4. CASE d = 1
      <4>1. written[x] = new.primary
        BY <2>1, <3>1, <3>4
      <4>2. w = p
        BY <1>1, <3>4
      <4>3. e = c + p
        <5> HIDE DEF w, e
        <5> QED BY <2>6, <4>2
      <4> HIDE DEF e
      <4>4. written[x] = RowVal(qd, a, e)
        BY <1>4, <3>1, <4>1, <4>3
      <4> QED BY <3>3, <4>4 DEF x, e
    <3>5. CASE d # 1
      <4>1. d >= 2 /\ due > 1
        <5> HIDE DEF d
        <5> QED BY <1>1, <3>1, <3>5
      <4>2. written[x] = new.secondary
        BY <2>1, <3>1, <3>5
      <4>3. new.secondary = pdp
        BY <1>4, <4>1, <3>1
      <4>4. \A k \in e - PdpCnt(a) + 1 .. e : qd[k] = pdp
        <5>1. e <= m + n
          <6> DEFINE u == due * p
          <6>1. w <= u /\ (m + n) - g = c + u /\ u \in Int
            <7>1. due * p \in Int
              BY <1>1, Product
            <7> QED BY <1>2, <2>5, <3>1, <7>1
          <6> HIDE DEF u, w, e
          <6> QED BY <1>1, <1>2, <2>5, <2>6, <6>1
        <5>2. m + 1 <= e - p + 1
          <6> HIDE DEF w, e
          <6>1. w >= 2 * p
            BY <2>5, <4>1
          <6> QED BY <1>1, <1>2, <2>5, <2>6, <6>1
        <5>3. \A k \in e - p + 1 .. e : k \in m + 1 .. m + n
          <6> HIDE DEF e
          <6> QED BY <1>1, <2>6, <5>1, <5>2
        <5> HIDE DEF e
        <5> QED BY <1>3, <5>3 DEF p
      <4> HIDE DEF e
      <4>5. RowVal(qd, a, e) = pdp
        BY <1>3, <2>6, <4>4, RowConstant
      <4> QED BY <3>3, <4>2, <4>3, <4>5 DEF x, e
    <3> QED BY <3>4, <3>5
  <2>8. CASE back >= due
    <3> DEFINE b == back - due
    <3>1. b \in 0 .. R - 1 
      BY <1>1, <1>6, <2>8
    <3>2. written[x] = rows[a][RowAt(cur, R, b)]
      BY <2>1, <2>8
    <3>3. rows[a][RowAt(cur, R, b)] = Kept(pd, cr, a, c - b * p, from)
      <4> HIDE DEF b
      <4> QED BY <1>8, <3>1
    <3>4. c - b * p = e
      <4>1. b * p = -w
        BY <1>1
      <4> HIDE DEF b, w, e
      <4> QED BY <1>2, <2>5, <2>6, <4>1
    <3>5. e <= m
      <4>1. d <= 0
        BY <1>1, <2>8
      <4> HIDE DEF w, e
      <4> QED BY <1>1, <1>2, <2>5, <2>6, <4>1
    <3>6. RowVal(pd, a, e) = RowVal(qd, a, e)
      <4>1. \A k \in e - PdpCnt(a) + 1 .. e : k \in Int /\ k <= m
        <5>1. PdpCnt(a) \in Int
          BY Constants
        <5> HIDE DEF e
        <5> QED BY <1>1, <2>6, <3>5, <5>1
      <4>2. \A k \in e - PdpCnt(a) + 1 .. e : pd[k] = qd[k]
        BY <1>3, <4>1
      <4> HIDE DEF e
      <4> QED BY <2>6, <4>2, RowValSame
    <3> HIDE DEF b, e
    <3>7. written[x] = Kept(pd, cr, a, e, from)
      BY <3>2, <3>3, <3>4
    <3> QED BY <3>6, <3>7 DEF Kept, x, e
  <2>9. back < due \/ back >= due
    BY <1>1
  <2> QED BY <2>7, <2>8, <2>9
<1> QED BY <1>7, <1>9 DEF RowsHold, p, m, g, due, R, cur, from, written, new

-----------------------------------------------------------------------------
(* The rows of all archives.                                               *)

\* The PDPs of all steps that the updates were about.
PdpFn(ss, cr) == [k \in Int |-> PdpAt(ss, cr, k)]
AreasOpen(pd, now, cdp) ==
    \A a \in Archives : PdpCnt(a) > 1 =>
        Opened(rra_def[a].cf, cdp[a].val, pd, KnownPdps(pd, PeriodStart(a, now), now))
AreasKnow(pd, now, cdp) ==
    \A a \in Archives : PdpCnt(a) > 1 => OpenedAt(a, now, cdp[a], pd)
AllRowsHold(pd, cr, now, cur, cnt, rr, from) ==
    \A a \in Archives : RowsHold(pd, cr, a, now, cur[a], cnt[a], rr[a], from[a])
RowsOK(pd, cr, now, cdp, cur, cnt, rr, from) ==
    AreasOpen(pd, now, cdp) /\ AllRowsHold(pd, cr, now, cur, cnt, rr, from)
RowInv ==
    /\ CountInv
    /\ RowsOK(PdpFn(samples, CreatedAt(samples, last_up)), CreatedAt(samples, last_up), Now,
              cdp_prep, cur_row, row_cnt, rows, since)

\* Where the open period of an archive starts.
LEMMA PeriodStartIs ==
    ASSUME NEW a \in Archives, NEW now \in Nat
    PROVE  LET p == PdpCnt(a)
               r == now % p
           IN  /\ p \in Nat \ {0} /\ r \in 0 .. p - 1 /\ now - r \in Nat
               /\ PeriodStart(a, now) = now - r + 1
               /\ \E q \in Nat : now - r = q * p
<1> DEFINE p == PdpCnt(a)
           r == now % p
           q == now \div p
<1>1. p \in Nat \ {0} /\ now \in Int
  BY Constants
<1> HIDE DEF p
<1>2. r \in 0 .. p - 1 /\ q \in Nat
  BY <1>1, DivMod, DivNat
<1>3. now = q * p + r
  BY <1>1, DivMod
<1>4. q * p \in Nat
  BY <1>1, <1>2, Product
<1> HIDE DEF r, q
<1> DEFINE w == q * p
<1>5. now = w + r /\ w \in Nat /\ r \in Int
  BY <1>1, <1>2, <1>3, <1>4
<1> HIDE DEF w
<1>6. now - r = w
  BY <1>5
<1> QED BY <1>1, <1>2, <1>5, <1>6 DEF p, r, w, PeriodStart

\* What is not unknown is known.
LEMMA UnknownAndKnown ==
    ASSUME NEW ss, NEW cr, NEW lo \in Int, NEW hi \in Int, lo <= hi + 1
    PROVE  Cardinality(UnknownIn(ss, cr, lo, hi))
             = (hi - lo + 1) - Cardinality(KnownPdps(PdpFn(ss, cr), lo, hi))
<1> DEFINE A == UnknownIn(ss, cr, lo, hi)
           B == KnownPdps(PdpFn(ss, cr), lo, hi)
           I == lo .. hi
<1>1. A \in SUBSET I /\ B \in SUBSET I /\ A \union B = I /\ A \intersect B = {}
  <2>1. \A k \in I : PdpFn(ss, cr)[k] = PdpAt(ss, cr, k)
    BY DEF PdpFn
  <2>2. B = {k \in I : ~ isnan(PdpAt(ss, cr, k))}
    BY <2>1 DEF KnownPdps
  <2>3. A = {k \in I : isnan(PdpAt(ss, cr, k))}
    BY DEF UnknownIn
  <2> HIDE DEF A, B
  <2> QED BY <2>2, <2>3
<1>2. IsFiniteSet(I) /\ Cardinality(I) = hi - lo + 1
  BY FS_Interval
<1> HIDE DEF A, B, I
<1>3. IsFiniteSet(A) /\ IsFiniteSet(B) /\ Cardinality(A) \in Nat /\ Cardinality(B) \in Nat
  BY <1>1, <1>2, FS_Subset, FS_CardinalityType
<1>4. Cardinality(A \intersect B) = 0
  BY <1>1, FS_EmptySet
<1>5. Cardinality(A \union B) = Cardinality(A) + Cardinality(B) - Cardinality(A \intersect B)
  BY <1>3, FS_Union
<1>6. Cardinality(I) = Cardinality(A) + Cardinality(B)
  BY <1>1, <1>3, <1>4, <1>5
<1> QED BY <1>2, <1>3, <1>6 DEF A, B

LEMMA AreasAreKnown ==
    ASSUME NEW ss, NEW cr, NEW now \in Nat, NEW cdp, CdpOK(ss, cr, now, cdp),
           AreasOpen(PdpFn(ss, cr), now, cdp)
    PROVE  AreasKnow(PdpFn(ss, cr), now, cdp)
<1> SUFFICES ASSUME NEW a \in Archives, PdpCnt(a) > 1
             PROVE  OpenedAt(a, now, cdp[a], PdpFn(ss, cr))
  BY DEF AreasKnow
<1> DEFINE lo == PeriodStart(a, now)
           r == now % PdpCnt(a)
<1>1. lo \in Int /\ now \in Int /\ lo <= now + 1 /\ (now - lo + 1) = r
  <2>1. r \in Nat /\ lo = now - r + 1
    BY PeriodStartIs
  <2> HIDE DEF lo, r
  <2> QED BY <2>1
<1>2. cdp[a].unkn = Cardinality(UnknownIn(ss, cr, lo, now))
  BY DEF CdpOK
<1>3. Opened(rra_def[a].cf, cdp[a].val, PdpFn(ss, cr), KnownPdps(PdpFn(ss, cr), lo, now))
  BY DEF AreasOpen
<1> HIDE DEF lo, r
<1>4. Cardinality(UnknownIn(ss, cr, lo, now)) = r - Cardinality(KnownPdps(PdpFn(ss, cr), lo, now))
  BY <1>1, UnknownAndKnown
<1> QED BY <1>2, <1>3, <1>4 DEF OpenedAt, lo, r

LEMMA InitRows == Init => RowInv
<1> SUFFICES ASSUME Init PROVE RowInv
  OBVIOUS
<1> DEFINE pd == PdpFn(samples, last_up)
<1>1. CountInv /\ Types /\ last_up \in Nat /\ Now \in Nat
  <2>1. CountInv /\ Types
    BY InitCounts DEF CountInv
  <2>2. last_up \in Nat
    BY <2>1 DEF Types, DsOK
  <2> QED BY <2>1, <2>2, StepStartIs DEF Now
<1>2. CreatedAt(samples, last_up) = last_up
  BY DEF Init, CreatedAt
<1>3. \A k \in Int : k <= Now => isnan(pd[k])
  BY DEF PdpFn, PdpAt, Now, isnan
<1>4. ASSUME NEW a \in Archives, PdpCnt(a) > 1
      PROVE  Opened(rra_def[a].cf, cdp_prep[a].val, pd, KnownPdps(pd, PeriodStart(a, Now), Now))
  <2> DEFINE K == KnownPdps(pd, PeriodStart(a, Now), Now)
  <2>1. K = {}
    <3>1. PeriodStart(a, Now) \in Int
      BY <1>1, PeriodStartIs
    <3> HIDE DEF pd
    <3> QED BY <1>1, <1>3, <3>1 DEF KnownPdps
  <2>2. SumOf(pd, K) = Int2Value(0) /\ ValuesAt(pd, K) = {}
    <3>1. IsFiniteSet(K) /\ \A x \in K : pd[x] \in Fractions
      BY <2>1, FS_EmptySet
    <3> HIDE DEF K, pd
    <3> QED BY <2>1, <3>1, SumOfIs DEF ValuesAt
  <2>3. cdp_prep[a].val = DNAN
    BY DEF Init
  <2> HIDE DEF K
  <2> QED BY <2>2, <2>3 DEF Opened, IsHighest, IsLowest, IFDNAN, isnan, K
<1>5. ASSUME NEW a \in Archives
      PROVE  RowsHold(pd, last_up, a, Now, cur_row[a], row_cnt[a], rows[a], since[a])
  <2> DEFINE R == row_cnt[a]
             cur == cur_row[a]
  <2>1. rows[a] = [x \in 0 .. R - 1 |-> DNAN] /\ R \in Nat \ {0} /\ cur \in Nat
    BY <1>1 DEF Init, RowCnt, Types, ArchivesOK
  <2> HIDE DEF R, cur, pd
  <2>2. ASSUME NEW back \in 0 .. R - 1
        PROVE  rows[a][RowAt(cur, R, back)]
                 = Kept(pd, last_up, a, (Now - (Now % PdpCnt(a))) - back * PdpCnt(a), since[a])
    <3>1. RowAt(cur, R, back) \in 0 .. R - 1
      <4>1. \A S \in Nat \ {0}, q \in Nat : \A b \in 0 .. S - 1 : RowAt(q, S, b) \in 0 .. S - 1
        BY RowShift, 0 \in Nat
      <4>2. \A q \in Nat : \A b \in 0 .. R - 1 : RowAt(q, R, b) \in 0 .. R - 1
        BY <2>1, <4>1
      <4> QED BY <2>1, <4>2
    <3>2. rows[a][RowAt(cur, R, back)] = DNAN
      <4> DEFINE x == RowAt(cur, R, back)
      <4> HIDE DEF x
      <4>1. x \in 0 .. R - 1
        BY <3>1 DEF x
      <4>2. rows[a][x] = DNAN
        BY <2>1, <4>1
      <4> QED BY <4>2 DEF x
    <3> DEFINE n == (Now - (Now % PdpCnt(a))) - back * PdpCnt(a)
    <3>3. n \in Int /\ n <= Now
      <4> DEFINE r == Now % PdpCnt(a)
                 w == back * PdpCnt(a)
      <4>1. r \in Nat /\ w \in Nat
        <5>1. PdpCnt(a) \in Nat \ {0} /\ r \in 0 .. PdpCnt(a) - 1
          BY <1>1, PeriodStartIs
        <5> QED BY <5>1, Product
      <4> HIDE DEF r, w
      <4>2. (Now - r) - w \in Int /\ (Now - r) - w <= Now
        BY <1>1, <4>1
      <4> QED BY <4>2 DEF r, w
    <3> HIDE DEF n
    <3>4. n * Step <= Now * Step
      BY <1>1, <3>3, Constants, Monotone
    <3>5. Now * Step <= last_up /\ Now * Step \in Int
      <4>1. StepStart(last_up) <= last_up /\ StepStart(last_up) = Now * Step
            /\ StepStart(last_up) \in Nat
        BY <1>1, StepStartIs DEF Now
      <4> QED BY <4>1
    <3>6. n * Step <= last_up
      <4> DEFINE u == n * Step
                 v == Now * Step
      <4>1. u <= v /\ v <= last_up /\ u \in Int /\ v \in Int
        BY <3>3, <3>4, <3>5, Constants, Product
      <4> HIDE DEF u, v
      <4>2. u <= last_up
        BY <1>1, <4>1
      <4> QED BY <4>2 DEF u
    <3> QED BY <3>2, <3>6 DEF Kept, n
  <2> QED BY <2>2 DEF RowsHold, R, cur
<1> HIDE DEF pd
<1> QED BY <1>1, <1>2, <1>4, <1>5 DEF RowInv, RowsOK, AreasOpen, AllRowsHold, pd

LEMMA StepRows ==
    ASSUME RowInv, NEW t \in Nat, NEW v \in KnownReadings, StepUpdate(t, v)
    PROVE  RowInv'
<1> DEFINE cr == CreatedAt(samples, last_up)
           pdp == Pdp(t, NewRate(t, v))
           n == Elapsed(t)
           pd == PdpFn(samples, cr)
           qd == PdpFn(samples', cr)
<1>1. /\ CountInv /\ Types /\ Linked(samples, last_up) /\ PrepOK(samples, last_up, pdp_prep)
      /\ CdpOK(samples, cr, Now, cdp_prep)
      /\ AreasOpen(pd, Now, cdp_prep)
      /\ AllRowsHold(pd, cr, Now, cur_row, row_cnt, rows, since)
  BY DEF RowInv, CountInv, RowsOK
<1>2. CountInv'
  BY <1>1, StepCounts
<1>3. /\ t > last_up /\ n > 0 /\ last_up \in Nat
      /\ row_cnt' = row_cnt /\ since' = since
      /\ \A a \in Archives :
            /\ cdp_prep'[a] = update_cdp_prep(a, pdp, n) /\ cdp_prep[a] \in CdpType
            /\ rows'[a] = WriteRows(a, RraStepCnt(a, n), update_cdp_prep(a, pdp, n))
            /\ cur_row'[a] = RowWritten(a, RraStepCnt(a, n))
  BY <1>1 DEF StepUpdate, Timely, Types, DsOK, ArchivesOK
<1>4. /\ cr \in Nat /\ last_up' = t /\ CreatedAt(samples', t) = cr
      /\ \A k \in Int : k <= Now => PdpAt(samples', cr, k) = PdpAt(samples, cr, k)
      /\ \A k \in Now + 1 .. t \div Step : PdpAt(samples', cr, k) = pdp
  BY <1>1, PdpsOn
<1>5. n \in Nat \ {0} /\ Now \in Nat /\ t \div Step = Now + n /\ Now' = Now + n
  <2>1. Now \in Nat /\ n = (t \div Step) - Now
    BY <1>1, <1>3, StepsOf
  <2>2. t \div Step \in Nat /\ Now' = t \div Step
    BY <1>4, StepStartIs DEF Now
  <2> HIDE DEF n
  <2>3. n \in Nat \ {0} /\ t \div Step = Now + n
    BY <1>3, <2>1, <2>2
  <2> QED BY <2>1, <2>2, <2>3
<1>6. Linked(samples', t) /\ cr <= last_up
  BY <1>1, <1>2, <1>4 DEF CountInv, Linked
<1> HIDE DEF cr, pdp, n
<1>7. \A k \in Int : k <= Now => PdpAt(samples, cr, k) \in Rates1
  <2>1. \A k \in Int : k <= last_up \div Step => PdpAt(samples, CreatedAt(samples, last_up), k) \in Rates1
    BY <1>1, PdpAtType
  <2> QED BY <2>1 DEF cr, Now
<1>8. pdp \in Rates1
  <2> DEFINE k == Now + 1
  <2>1. k \in Int /\ k <= t \div Step /\ k \in Now + 1 .. t \div Step
    BY <1>5
  <2>2. PdpAt(samples', cr, k) = pdp
    BY <1>4, <2>1
  <2> HIDE DEF k
  <2>3. PdpAt(samples', CreatedAt(samples', t), k) \in Rates1
    BY <1>6, <2>1, PdpAtType
  <2> QED BY <1>4, <2>2, <2>3
<1>9. Follow(pd, qd, n, pdp)
  <2>1. \A k \in Int : pd[k] = PdpAt(samples, cr, k) /\ qd[k] = PdpAt(samples', cr, k)
    BY DEF PdpFn
  <2>2. \A k \in Now + 1 .. Now + n : k \in Int /\ k \in Now + 1 .. t \div Step
    BY <1>5
  <2> HIDE DEF pd, qd
  <2>3. \A k \in Int : k <= Now => qd[k] = pd[k] /\ pd[k] \in Rates1
    BY <1>4, <1>7, <2>1
  <2>4. \A k \in Now + 1 .. Now + n : qd[k] = pdp
    BY <1>4, <2>1, <2>2
  <2> QED BY <1>8, <2>3, <2>4 DEF Follow
<1>10. AreasKnow(pd, Now, cdp_prep)
  BY <1>1, <1>5, AreasAreKnown
<1> HIDE DEF pd, qd
<1>11. AreasOpen(qd, Now + n, cdp_prep')
  <2> SUFFICES ASSUME NEW a \in Archives, PdpCnt(a) > 1
               PROVE  Opened(rra_def[a].cf, cdp_prep'[a].val, qd,
                             KnownPdps(qd, PeriodStart(a, Now + n), Now + n))
    BY DEF AreasOpen
  <2>1. OpenedAt(a, Now, cdp_prep[a], pd) /\ cdp_prep[a] \in CdpType
        /\ cdp_prep'[a] = update_cdp_prep(a, pdp, n)
    BY <1>3, <1>10 DEF AreasKnow
  <2>2. Opened(rra_def[a].cf, update_cdp_prep(a, pdp, n).val, qd,
               KnownPdps(qd, PeriodStart(a, Now + n), Now + n))
    BY <1>3, <1>5, <1>9, <2>1, OpenedStep
  <2> QED BY <2>1, <2>2
<1>12. AllRowsHold(qd, cr, Now + n, cur_row', row_cnt, rows', since)
  <2> SUFFICES ASSUME NEW a \in Archives
               PROVE  RowsHold(qd, cr, a, Now + n, cur_row'[a], row_cnt[a], rows'[a], since[a])
    BY DEF AllRowsHold
  <2>1. PdpCnt(a) > 1 => OpenedAt(a, Now, cdp_prep[a], pd)
    BY <1>10 DEF AreasKnow
  <2>2. /\ cdp_prep[a] \in CdpType /\ since[a] \in Int /\ since[a] <= Now
        /\ RowCnt(a) \in Nat \ {0} /\ RowCnt(a) = row_cnt[a] /\ cur_row[a] \in Nat
    BY <1>1 DEF Types, ArchivesOK, RowCnt
  <2>3. RowsHold(pd, cr, a, Now, cur_row[a], RowCnt(a), rows[a], since[a])
    BY <1>1, <2>2 DEF AllRowsHold
  <2>4. RowsHold(qd, cr, a, Now + n, RowWritten(a, RraStepCnt(a, n)), RowCnt(a),
                 WriteRows(a, RraStepCnt(a, n), update_cdp_prep(a, pdp, n)), since[a])
    BY <1>3, <1>4, <1>5, <1>6, <1>9, <2>1, <2>2, <2>3, RowsStep
  <2> QED BY <1>3, <2>2, <2>4
<1>13. RowsOK(PdpFn(samples', CreatedAt(samples', last_up')), CreatedAt(samples', last_up'), Now',
              cdp_prep', cur_row', row_cnt', rows', since')
  BY <1>3, <1>4, <1>5, <1>11, <1>12 DEF RowsOK, qd
<1> QED BY <1>2, <1>13 DEF RowInv

\* Nothing of the archives changes, and nothing of the PDPs that are complete.
LEMMA RowsStay ==
    ASSUME NEW pd, NEW qd, NEW cr, NEW now \in Nat, NEW cdp, NEW cur, NEW cnt, NEW rr, NEW from,
           RowsOK(pd, cr, now, cdp, cur, cnt, rr, from),
           \A k \in Int : k <= now => qd[k] = pd[k] /\ pd[k] \in Rates1,
           \A a \in Archives : cnt[a] \in Nat
    PROVE  RowsOK(qd, cr, now, cdp, cur, cnt, rr, from)
<1>1. AreasOpen(qd, now, cdp)
  <2> SUFFICES ASSUME NEW a \in Archives, PdpCnt(a) > 1
               PROVE  Opened(rra_def[a].cf, cdp[a].val, qd, KnownPdps(qd, PeriodStart(a, now), now))
    BY DEF AreasOpen
  <2> DEFINE lo == PeriodStart(a, now)
             K == KnownPdps(pd, lo, now)
  <2>1. lo \in Int /\ now \in Int
    BY PeriodStartIs
  <2>2. Opened(rra_def[a].cf, cdp[a].val, pd, K)
    BY DEF RowsOK, AreasOpen
  <2> HIDE DEF lo
  <2>3. KnownPdps(qd, lo, now) = K
    <3>1. \A k \in lo .. now : qd[k] = pd[k]
      BY <2>1
    <3> QED BY <3>1, KnownSame
  <2>4. IsFiniteSet(K)
    <3>1. \A k \in lo .. now : pd[k] \in Rates1
      BY <2>1
    <3> QED BY <2>1, <3>1, KnownPdpsAre
  <2>5. \A k \in K : pd[k] = qd[k]
    BY <2>1 DEF KnownPdps
  <2> HIDE DEF K
  <2>6. Opened(rra_def[a].cf, cdp[a].val, qd, K)
    BY <2>2, <2>4, <2>5, OpenedSame
  <2> QED BY <2>3, <2>6 DEF lo
<1>2. AllRowsHold(qd, cr, now, cur, cnt, rr, from)
  <2> SUFFICES ASSUME NEW a \in Archives, NEW back \in 0 .. cnt[a] - 1
               PROVE  rr[a][RowAt(cur[a], cnt[a], back)]
                        = Kept(qd, cr, a, (now - (now % PdpCnt(a))) - back * PdpCnt(a), from[a])
    BY DEF AllRowsHold, RowsHold
  <2> DEFINE n == (now - (now % PdpCnt(a))) - back * PdpCnt(a)
  <2>1. n \in Int /\ n <= now /\ PdpCnt(a) \in Int
    <3> DEFINE r == now % PdpCnt(a)
               w == back * PdpCnt(a)
    <3>1. r \in Nat /\ w \in Nat /\ PdpCnt(a) \in Int
      <4>1. PdpCnt(a) \in Nat \ {0} /\ r \in 0 .. PdpCnt(a) - 1
        BY PeriodStartIs
      <4>2. back \in Nat
        OBVIOUS
      <4> QED BY <4>1, <4>2, Product
    <3> HIDE DEF r, w
    <3>2. (now - r) - w \in Int /\ (now - r) - w <= now
      BY <3>1
    <3> QED BY <3>1, <3>2 DEF r, w
  <2>2. rr[a][RowAt(cur[a], cnt[a], back)] = Kept(pd, cr, a, n, from[a])
    BY DEF RowsOK, AllRowsHold, RowsHold
  <2> HIDE DEF n
  <2>3. \A k \in n - PdpCnt(a) + 1 .. n : pd[k] = qd[k]
    BY <2>1
  <2>4. RowVal(pd, a, n) = RowVal(qd, a, n)
    BY <2>1, <2>3, RowValSame
  <2> QED BY <2>2, <2>4 DEF Kept, n
<1> QED BY <1>1, <1>2 DEF RowsOK

LEMMA SimpleRows ==
    ASSUME RowInv, NEW t \in Nat, NEW v \in KnownReadings, SimpleUpdate(t, v)
    PROVE  RowInv'
<1> DEFINE cr == CreatedAt(samples, last_up)
           pd == PdpFn(samples, cr)
           qd == PdpFn(samples', cr)
<1>1. /\ CountInv /\ Types /\ Linked(samples, last_up)
      /\ RowsOK(pd, cr, Now, cdp_prep, cur_row, row_cnt, rows, since)
  BY DEF RowInv, CountInv
<1>2. CountInv'
  BY <1>1, SimpleCounts
<1>3. /\ t > last_up /\ Elapsed(t) = 0 /\ Accepted(t, v, NewRate(t, v)) /\ last_up \in Nat
      /\ UNCHANGED <<cdp_prep, cur_row, row_cnt, rows, since>>
  BY <1>1 DEF SimpleUpdate, Timely, Types, DsOK
<1>4. PICK s : Follows1(samples, last_up, s, samples') /\ s.to = t /\ last_up' = t
  BY <1>1, <1>3, SampleAdded
<1>5. CreatedAt(samples', last_up') = cr
  BY <1>4, LinkedOn
<1>6. Now' = Now /\ Now \in Nat /\ Now = last_up \div Step
  <2>1. Now \in Nat /\ Elapsed(t) = (t \div Step) - Now
    BY <1>1, <1>3, StepsOf
  <2>2. t \div Step \in Nat /\ Now' = t \div Step
    BY <1>4, StepStartIs DEF Now
  <2>3. t \div Step = Now
    BY <1>3, <2>1, <2>2
  <2> QED BY <2>1, <2>2, <2>3 DEF Now
<1>7. ASSUME NEW k \in Int, k <= Now PROVE qd[k] = pd[k] /\ pd[k] \in Rates1
  <2>1. PdpAt(samples', cr, k) = PdpAt(samples, cr, k)
    BY <1>4, <1>6, <1>7, PdpsBefore
  <2>2. PdpAt(samples, cr, k) \in Rates1
    BY <1>1, <1>6, <1>7, PdpAtType
  <2> QED BY <2>1, <2>2 DEF PdpFn
<1>8. \A a \in Archives : row_cnt[a] \in Nat
  BY <1>1 DEF Types, ArchivesOK
<1> HIDE DEF cr, pd, qd
<1>9. RowsOK(qd, cr, Now, cdp_prep, cur_row, row_cnt, rows, since)
  BY <1>1, <1>6, <1>7, <1>8, RowsStay
<1>10. RowsOK(PdpFn(samples', CreatedAt(samples', last_up')), CreatedAt(samples', last_up'), Now',
              cdp_prep', cur_row', row_cnt', rows', since')
  BY <1>3, <1>5, <1>6, <1>9 DEF qd
<1> QED BY <1>2, <1>10 DEF RowInv

LEMMA SameRows ==
    ASSUME RowInv, CountInv', UNCHANGED <<last_up, samples, cur_row, row_cnt, rows, since>>,
           \A a \in Archives : cdp_prep'[a].val = cdp_prep[a].val
    PROVE  RowInv'
<1> DEFINE cr == CreatedAt(samples, last_up)
           pd == PdpFn(samples, cr)
<1>1. CreatedAt(samples', last_up') = cr /\ PdpFn(samples', cr) = pd /\ Now' = Now
  BY DEF Now
<1> HIDE DEF cr, pd
<1>2. AreasOpen(pd, Now, cdp_prep) /\ AllRowsHold(pd, cr, Now, cur_row, row_cnt, rows, since)
  BY DEF RowInv, RowsOK, pd, cr
<1>3. AreasOpen(pd, Now, cdp_prep')
  BY <1>2 DEF AreasOpen
<1>4. RowsOK(pd, cr, Now, cdp_prep', cur_row', row_cnt', rows', since')
  BY <1>2, <1>3 DEF RowsOK
<1>5. RowsOK(PdpFn(samples', CreatedAt(samples', last_up')), CreatedAt(samples', last_up'), Now',
             cdp_prep', cur_row', row_cnt', rows', since')
  BY <1>1, <1>4
<1> QED BY <1>5 DEF RowInv

LEMMA UpdateRows == RowInv /\ Next => RowInv'
<1> SUFFICES ASSUME RowInv, NEW t \in Times, NEW v \in Readings[dst] \union {U},
                    SimpleUpdate(t, v) \/ StepUpdate(t, v) \/ RefusedUpdate(t, v)
             PROVE  RowInv'
  BY DEF Next
<1>1. t \in Nat /\ v \in KnownReadings
  BY NextReading DEF RowInv, CountInv
<1>2. CASE RefusedUpdate(t, v)
  <2>1. UNCHANGED <<last_up, samples, cdp_prep, cur_row, row_cnt, rows, since>>
    BY <1>2 DEF RefusedUpdate
  <2>2. Next
    BY DEF Next
  <2>3. CountInv'
    BY <2>2, UpdateCounts DEF RowInv
  <2> QED BY <2>1, <2>3, SameRows
<1> QED BY <1>1, <1>2, SimpleRows, StepRows

LEMMA RowsAreRight == RowInv => RowsMatchReference
<1> SUFFICES ASSUME RowInv, NEW a \in Archives, NEW back \in 0 .. RowCnt(a) - 1
             PROVE  rows[a][(cur_row[a] + RowCnt(a) - back) % RowCnt(a)]
                      = KeptRow(Pdps, a, Complete(a) - back * PdpCnt(a))
  BY DEF RowsMatchReference
<1> DEFINE cr == CreatedAt(samples, last_up)
           pd == PdpFn(samples, cr)
           p == PdpCnt(a)
           n == (Now - (Now % p)) - back * p
<1>1. /\ Types /\ Linked(samples, last_up) /\ last_up \in Nat /\ Now \in Nat /\ cr \in Nat
      /\ AllRowsHold(pd, cr, Now, cur_row, row_cnt, rows, since) /\ RowCnt(a) \in Nat
  <2>1. /\ Types /\ Linked(samples, last_up) /\ AllRowsHold(pd, cr, Now, cur_row, row_cnt, rows, since)
    BY DEF RowInv, CountInv, RowsOK
  <2>2. last_up \in Nat /\ RowCnt(a) \in Nat
    BY <2>1 DEF Types, DsOK, ArchivesOK, RowCnt
  <2>3. cr \in Nat
    BY <2>1 DEF Linked
  <2> QED BY <2>1, <2>2, <2>3, StepStartIs DEF Now
<1>2. Created = cr
  BY <1>1, CreatedIs
<1>3. rows[a][(cur_row[a] + RowCnt(a) - back) % RowCnt(a)] = Kept(pd, cr, a, n, since[a])
  BY <1>1 DEF AllRowsHold, RowsHold, RowAt, RowCnt
<1>4. n = Complete(a) - back * PdpCnt(a)
  BY DEF Complete
<1>5. PICK q \in Nat : Now - (Now % p) = q * p
  BY <1>1, PeriodStartIs
<1>6. p \in Nat \ {0} /\ Now % p \in 0 .. p - 1 /\ back \in Nat
  BY <1>1, PeriodStartIs
<1> DEFINE d == q - back
           w == d * p
<1>7. d \in Int /\ n = w /\ w \in Int /\ (d >= 1 => w >= p) /\ n <= Now
  <2> HIDE DEF p
  <2>1. d \in Int /\ w = q * p - back * p /\ w \in Int /\ back * p \in Nat
    BY <1>6, Product
  <2>2. d >= 1 => w >= p
    <3>1. ASSUME d >= 1 PROVE 1 * p <= w
      <4> HIDE DEF d
      <4> QED BY <1>6, <2>1, <3>1, Monotone
    <3>2. 1 * p = p
      BY <1>6
    <3> HIDE DEF w
    <3> QED BY <1>6, <2>1, <3>1, <3>2
  <2>3. n = w
    BY <1>5, <2>1
  <2>4. n <= Now
    <3> DEFINE r == Now % p
               u == back * p
    <3>1. r \in Nat /\ u \in Nat
      BY <1>6, <2>1
    <3> HIDE DEF r, u
    <3>2. (Now - r) - u <= Now
      BY <1>1, <3>1
    <3> QED BY <3>2 DEF r, u
  <2> QED BY <2>1, <2>2, <2>3, <2>4
<1>8. CASE n * Step <= cr \/ n <= since[a]
  <2> HIDE DEF cr, n
  <2> QED BY <1>2, <1>3, <1>4, <1>8 DEF Kept, KeptRow
<1>9. CASE ~ (n * Step <= cr \/ n <= since[a])
  <2>1. d >= 1
    <3>1. ASSUME d <= 0 PROVE FALSE
      <4>1. d * p <= 0 * p /\ 0 * p = 0
        <5> HIDE DEF d, p
        <5> QED BY <1>6, <1>7, <3>1, Monotone
      <4>2. n <= 0
        <5> HIDE DEF n, d, p
        <5> QED BY <1>7, <4>1
      <4>3. n \in Int
        BY <1>7
      <4> HIDE DEF n, cr
      <4>4. n * Step <= 0 * Step /\ 0 * Step = 0
        BY <4>2, <4>3, Constants, Monotone
      <4> DEFINE u == n * Step
      <4>5. u <= 0 /\ u \in Int
        BY <4>3, <4>4, Constants, Product
      <4> HIDE DEF u
      <4>6. u <= cr
        BY <1>1, <4>5
      <4> QED BY <1>9, <4>6 DEF u
    <3> HIDE DEF d
    <3> QED BY <1>7, <3>1
  <2> HIDE DEF d, w, n
  <2>2. n \in Int /\ n - p + 1 \in Int /\ 1 <= n - p + 1
    <3> HIDE DEF p
    <3> QED BY <1>6, <1>7, <2>1
  <2>3. \A k \in n - p + 1 .. n : k \in 1 .. Now
    <3> HIDE DEF p
    <3> QED BY <1>1, <1>6, <1>7, <2>2
  <2>4. ASSUME NEW k \in n - p + 1 .. n PROVE Pdps[k] = pd[k] /\ pd[k] \in Rates1
    <3>1. k \in 1 .. Now /\ k \in Int /\ k <= Now
      BY <1>1, <2>3
    <3> HIDE DEF p
    <3>2. Pdps[k] = PdpAt(samples, cr, k)
      BY <1>1, <1>2, <3>1, PdpsAt
    <3>3. PdpAt(samples, cr, k) \in Rates1
      BY <1>1, <3>1, PdpAtType DEF Now
    <3> QED BY <3>1, <3>2, <3>3 DEF PdpFn
  <2> HIDE DEF pd, cr
  <2>5. RowOf(Pdps, a, n) = RowVal(Pdps, a, n)
    <3>1. \A k \in n - PdpCnt(a) + 1 .. n : Pdps[k] \in Rates1
      BY <2>4
    <3> QED BY <2>2, <3>1, RowOfIs
  <2>6. RowVal(Pdps, a, n) = RowVal(pd, a, n)
    <3>1. \A k \in n - PdpCnt(a) + 1 .. n : Pdps[k] = pd[k]
      BY <2>4
    <3> QED BY <2>2, <3>1, RowValSame
  <2> QED BY <1>2, <1>3, <1>4, <1>9, <2>5, <2>6 DEF Kept, KeptRow
<1> QED BY <1>3, <1>4, <1>8, <1>9

(* Every row of every archive holds what the definition of its             *)
(* consolidation function and of xff gives for the whole history of        *)
(* updates: however the updates are spread over steps and periods, however *)
(* many of them a period is built from or one of them closes, and however  *)
(* often the ring has wrapped (update_pdp_prep, process_pdp_st, update_cdp,*)
(* write_to_rras).                                                         *)
THEOREM UpdateRowsAreRight == Spec => []RowsMatchReference
<1>1. Init => RowInv
  BY InitRows
<1>2. RowInv /\ [Next]_vars => RowInv'
  <2>1. RowInv /\ UNCHANGED vars => RowInv'
    <3> SUFFICES ASSUME RowInv, UNCHANGED vars PROVE RowInv'
      OBVIOUS
    <3>1. Types /\ UNCHANGED vars => Types'
      BY SameTypes
    <3>2. CountInv'
      BY <3>1, SameCounts DEF vars, CountInv, RowInv
    <3> QED BY <3>2, SameRows DEF vars
  <2> QED BY <2>1, UpdateRows
<1>3. RowInv => RowsMatchReference
  BY RowsAreRight
<1> QED BY <1>1, <1>2, <1>3, PTL DEF Spec

-----------------------------------------------------------------------------
(* Means lie between the limits that their parts lie between.              *)

\* x is at most k / q.
Under(q, k, x) == x[1] * q <= k * x[2]

LEMMA RatioUnder ==
    ASSUME NEW n \in Int, NEW d \in Nat \ {0}, NEW q \in Int, NEW k \in Int, n * q <= k * d
    PROVE  Under(q, k, Ratio(n, d))
<1> DEFINE x == Ratio(n, d)
           a == x[1]
           b == x[2]
<1>1. PICK g \in Nat \ {0} : x \in Fractions /\ n = a * g /\ d = b * g
  BY RatioParts
<1>2. a \in Int /\ b \in Nat \ {0}
  BY <1>1, Fraction
<1> HIDE DEF a, b, x
<1>3. n * q = (a * q) * g /\ k * d = (k * b) * g /\ a * q \in Int /\ k * b \in Int
  BY <1>1, <1>2
<1>4. a * q <= k * b
  BY <1>3, CancelOrder
<1> QED BY <1>4 DEF Under, a, b, x

LEMMA UnderPlus ==
    ASSUME NEW q \in Int, NEW k \in Int, NEW l \in Int, NEW x \in Fractions, NEW y \in Fractions,
           Under(q, k, x), Under(q, l, y)
    PROVE  Under(q, k + l, Plus(x, y))
<1> DEFINE a == x[1]
           b == x[2]
           c == y[1]
           d == y[2]
<1>1. a \in Int /\ b \in Nat \ {0} /\ c \in Int /\ d \in Nat \ {0}
  BY Fraction
<1>2. a * q <= k * b /\ c * q <= l * d
  BY DEF Under
<1>3. Plus(x, y) = Ratio(a * d + c * b, b * d)
  BY <1>1, PlusIs
<1> HIDE DEF a, b, c, d
<1>4. a * q \in Int /\ k * b \in Int /\ c * q \in Int /\ l * d \in Int
  BY <1>1
<1>5. (a * q) * d <= (k * b) * d /\ (c * q) * b <= (l * d) * b
  BY <1>1, <1>2, <1>4, Monotone
<1>6. a * d \in Int /\ c * b \in Int /\ b * d \in Nat \ {0}
  BY <1>1, Product
<1>7. (a * d + c * b) * q = (a * q) * d + (c * q) * b
  BY <1>1
<1>8. (k + l) * (b * d) = (k * b) * d + (l * d) * b
  BY <1>1
<1> DEFINE A == (a * q) * d
           B == (k * b) * d
           C == (c * q) * b
           D == (l * d) * b
<1>9. A \in Int /\ B \in Int /\ C \in Int /\ D \in Int
  BY <1>1, <1>4
<1>10. A + C <= B + D
  <2> HIDE DEF A, B, C, D
  <2>1. A <= B /\ C <= D
    BY <1>5 DEF A, B, C, D
  <2> QED BY <1>9, <2>1
<1>11. (a * d + c * b) * q <= (k + l) * (b * d)
  BY <1>7, <1>8, <1>10
<1> DEFINE n == a * d + c * b
           m == b * d
           j == k + l
<1>12. n \in Int /\ m \in Nat \ {0} /\ j \in Int
  BY <1>6
<1>13. n * q <= j * m
  BY <1>11
<1> HIDE DEF n, m, j
<1>14. Under(q, j, Ratio(n, m))
  BY <1>12, <1>13, RatioUnder
<1> QED BY <1>3, <1>14 DEF n, m, j

LEMMA UnderScaled ==
    ASSUME NEW q \in Int, NEW k \in Int, NEW x \in Fractions, Under(q, k, x), NEW n \in Nat
    PROVE  Under(q, k * n, Scaled(x, n))
<1> DEFINE a == x[1]
           b == x[2]
<1>1. a \in Int /\ b \in Nat \ {0}
  BY Fraction
<1>2. a * q <= k * b /\ Scaled(x, n) = Ratio(a * n, b)
  BY DEF Under, Scaled
<1> HIDE DEF a, b
<1>3. a * q \in Int /\ k * b \in Int /\ a * n \in Int /\ k * n \in Int
  BY <1>1
<1>4. (a * q) * n <= (k * b) * n
  BY <1>2, <1>3, Monotone
<1>5. (a * q) * n = (a * n) * q /\ (k * b) * n = (k * n) * b
  BY <1>1
<1>6. (a * n) * q <= (k * n) * b
  BY <1>4, <1>5
<1> DEFINE c == a * n
           j == k * n
<1> HIDE DEF c, j
<1>7. c * q <= j * b /\ c \in Int /\ j \in Int
  BY <1>3, <1>6 DEF c, j
<1>8. Under(q, j, Ratio(c, b))
  BY <1>1, <1>7, RatioUnder
<1> QED BY <1>2, <1>8 DEF c, j

LEMMA UnderOver ==
    ASSUME NEW q \in Int, NEW k \in Int, NEW x \in Fractions, NEW n \in Nat \ {0}, Under(q, k * n, x)
    PROVE  Under(q, k, Over(x, n))
<1> DEFINE a == x[1]
           b == x[2]
<1>1. a \in Int /\ b \in Nat \ {0} /\ ~ isnan(x)
  BY Fraction
<1>2. a * q <= (k * n) * b /\ Over(x, n) = Ratio(a, b * n)
  BY <1>1 DEF Under, Over
<1> HIDE DEF a, b
<1>3. (k * n) * b = k * (b * n) /\ b * n \in Nat \ {0}
  BY <1>1, Product
<1> DEFINE d == b * n
<1>4. a * q <= k * d
  BY <1>2, <1>3
<1> HIDE DEF d
<1>5. d \in Nat \ {0}
  BY <1>3 DEF d
<1>6. Under(q, k, Ratio(a, d))
  BY <1>1, <1>4, <1>5, RatioUnder
<1> QED BY <1>2, <1>6 DEF d

\* A sum whose parts are at most p / q times their weights.
LEMMA SumUnder ==
    ASSUME NEW S, IsFiniteSet(S), NEW F, \A x \in S : F[x] \in Fractions,
           NEW p \in Int, NEW q \in Int, NEW W, \A x \in S : W[x] \in Nat /\ Under(q, p * W[x], F[x]),
           NEW w, w[{}] = 0, \A r \in SUBSET S : w[r] \in Nat,
           \A r \in SUBSET S : \A e \in r : w[r] = W[e] + w[r \ {e}]
    PROVE  Under(q, p * w[S], SumOf(F, S))
<1> DEFINE Good(r) == Under(q, p * w[r], SumOf(F, r))
           N == {k \in Nat : \E r \in SUBSET S : IsFiniteSet(r) /\ Cardinality(r) = k /\ ~ Good(r)}
<1>1. CASE N = {}
  <2>1. Cardinality(S) \in Nat /\ S \in SUBSET S
    BY FS_CardinalityType
  <2> HIDE DEF Good
  <2>2. Good(S)
    BY <1>1, <2>1
  <2> QED BY <2>2 DEF Good
<1>2. CASE N # {}
  <2>1. PICK k \in N : \A l \in N : k <= l
    <3>1. N \subseteq Nat
      OBVIOUS
    <3> HIDE DEF N
    <3> QED BY <1>2, <3>1, LeastNumber
  <2>2. PICK r \in SUBSET S : IsFiniteSet(r) /\ Cardinality(r) = k /\ ~ Good(r)
    <3> HIDE DEF Good
    <3> QED OBVIOUS
  <2>3. k \in Nat
    OBVIOUS
  <2>4. r # {}
    <3>1. ASSUME r = {} PROVE Good(r)
      <4>1. SumOf(F, r) = Int2Value(0) /\ w[r] = 0
        BY <2>2, <3>1, SumOfIs
      <4>2. Int2Value(0)[1] = 0 /\ Int2Value(0)[2] = 1
        BY IntIsFraction
      <4>3. 0 * q = 0 /\ p * 0 = 0 /\ 0 * 1 = 0
        OBVIOUS
      <4>4. Under(q, 0, Int2Value(0))
        BY <4>2, <4>3 DEF Under
      <4> QED BY <4>1, <4>3, <4>4
    <3> HIDE DEF Good
    <3> QED BY <2>2, <3>1
  <2>5. PICK e : e \in r
    BY <2>4
  <2> DEFINE s == r \ {e}
             m == Cardinality(s)
  <2>6. s \in SUBSET S /\ IsFiniteSet(s) /\ m \in Nat /\ m = k - 1
    <3> HIDE DEF Good
    <3>1. IsFiniteSet(s) /\ m = Cardinality(r) - 1 /\ m \in Nat
      BY <2>2, <2>5, Smaller1
    <3>2. s \in SUBSET S
      BY <2>2
    <3>3. m = k - 1
      BY <2>2, <3>1
    <3> HIDE DEF s, m
    <3> QED BY <3>1, <3>2, <3>3
  <2>7. Good(s)
    <3> HIDE DEF Good
    <3>1. m \notin N
      <4> HIDE DEF N, m
      <4> QED BY <2>1, <2>3, <2>6
    <3> QED BY <2>6, <3>1
  <2>8. e \in S /\ W[e] \in Nat /\ w[s] \in Nat /\ w[r] = W[e] + w[s]
    <3>1. e \in S
      BY <2>2, <2>5
    <3>2. w[s] \in Nat
      <4> HIDE DEF s
      <4> QED BY <2>6
    <3>3. w[r] = W[e] + w[s]
      BY <2>2, <2>5
    <3> QED BY <3>1, <3>2, <3>3
  <2>9. SumOf(F, r) = Plus(F[e], SumOf(F, s)) /\ SumOf(F, s) \in Fractions
    <3>1. \A x \in r : F[x] \in Fractions
      BY <2>2
    <3> QED BY <2>2, <2>5, <3>1, SumOfIs
  <2> HIDE DEF s, m
  <2>10. Under(q, p * W[e] + p * w[s], Plus(F[e], SumOf(F, s)))
    <3> DEFINE x == p * W[e]
               y == p * w[s]
    <3>1. x \in Int /\ y \in Int
      BY <2>8, Product
    <3>2. Under(q, x, F[e]) /\ F[e] \in Fractions
      BY <2>8
    <3>3. Under(q, y, SumOf(F, s))
      BY <2>7
    <3> HIDE DEF x, y
    <3> QED BY <2>9, <3>1, <3>2, <3>3, UnderPlus DEF x, y
  <2>11. p * w[r] = p * W[e] + p * w[s]
    BY <2>8
  <2>12. Good(r)
    BY <2>9, <2>10, <2>11
  <2> HIDE DEF Good
  <2> QED BY <2>2, <2>12
<1> QED BY <1>1, <1>2

Within(k, x) ==
    /\ ~ isnan(MaxRate) => Under(MaxRate[2], MaxRate[1] * k, x)
    /\ ~ isnan(MinRate) => Under(-MinRate[2], (-MinRate[1]) * k, x)
InRange(x) == x \in Rates1 /\ (~ isnan(x) => ~ OutOfRange(x))

LEMMA LimitsType ==
    /\ MaxRate[1] \in Int /\ MaxRate[2] \in Int /\ MinRate[1] \in Int /\ MinRate[2] \in Int
    /\ -MinRate[1] \in Int /\ -MinRate[2] \in Int
<1>1. MaxRate \in Int \X Nat /\ MinRate \in Int \X Nat
  BY TypesAssumption, Zenon
<1>2. MaxRate[1] \in Int /\ MaxRate[2] \in Int
  BY <1>1
<1>3. MinRate[1] \in Int /\ MinRate[2] \in Int
  BY <1>1
<1> QED BY <1>2, <1>3

LEMMA WithinIs ==
    ASSUME NEW x \in Fractions
    PROVE  Within(1, x) <=> ~ OutOfRange(x)
<1> DEFINE a == x[1]
           b == x[2]
           p == MaxRate[1]
           q == MaxRate[2]
           m == MinRate[1]
           n == MinRate[2]
<1>1. /\ a \in Int /\ b \in Int /\ p \in Int /\ q \in Int /\ m \in Int /\ n \in Int
  BY Fraction, LimitsType
<1>2. /\ Less(MaxRate, x) = (p * b < a * q) /\ Less(x, MinRate) = (a * n < m * b)
      /\ Under(q, p * 1, x) = (a * q <= (p * 1) * b)
      /\ Under(-n, (-m) * 1, x) = (a * (-n) <= ((-m) * 1) * b)
  BY Fraction, LessMeans DEF Under
<1> HIDE DEF a, b, p, q, m, n
<1>3. (p * 1) * b = p * b /\ a * (-n) = -(a * n) /\ ((-m) * 1) * b = -(m * b)
  BY <1>1
<1>4. p * b \in Int /\ a * q \in Int /\ a * n \in Int /\ m * b \in Int
  BY <1>1
<1> DEFINE P == p * b
           A == a * q
           B == a * n
           M == m * b
<1>5. /\ Less(MaxRate, x) = (P < A) /\ Less(x, MinRate) = (B < M)
      /\ Under(q, p * 1, x) = (A <= P) /\ Under(-n, (-m) * 1, x) = (-B <= -M)
      /\ P \in Int /\ A \in Int /\ B \in Int /\ M \in Int
  BY <1>2, <1>3, <1>4
<1> HIDE DEF P, A, B, M
<1>6. (A <= P <=> ~ (P < A)) /\ (-B <= -M <=> ~ (B < M))
  BY <1>5
<1>7. (Under(q, p * 1, x) <=> ~ Less(MaxRate, x)) /\ (Under(-n, (-m) * 1, x) <=> ~ Less(x, MinRate))
  BY <1>5, <1>6
<1> QED BY <1>7 DEF Within, OutOfRange, p, q, m, n

LEMMA WithinScaled ==
    ASSUME NEW x \in Fractions, Within(1, x), NEW n \in Nat
    PROVE  Within(n, Scaled(x, n))
<1>1. ASSUME NEW p \in Int, NEW q \in Int, Under(q, p * 1, x) PROVE Under(q, p * n, Scaled(x, n))
  <2>1. p * 1 = p
    BY <1>1
  <2>2. Under(q, p, x)
    BY <1>1, <2>1
  <2> QED BY <1>1, <2>2, UnderScaled
<1> QED BY <1>1, LimitsType DEF Within

LEMMA WithinOver ==
    ASSUME NEW x \in Fractions, NEW n \in Nat \ {0}, Within(n, x)
    PROVE  Within(1, Over(x, n))
<1>1. ASSUME NEW p \in Int, NEW q \in Int, Under(q, p * n, x) PROVE Under(q, p * 1, Over(x, n))
  <2>1. p * 1 = p
    BY <1>1
  <2>2. Under(q, p, Over(x, n))
    BY <1>1, UnderOver
  <2> QED BY <2>1, <2>2
<1> QED BY <1>1, LimitsType DEF Within

LEMMA SumWithin ==
    ASSUME NEW S, IsFiniteSet(S), NEW F, \A x \in S : F[x] \in Fractions,
           NEW W, \A x \in S : W[x] \in Nat /\ Within(W[x], F[x]),
           NEW w, w[{}] = 0, \A r \in SUBSET S : w[r] \in Nat,
           \A r \in SUBSET S : \A e \in r : w[r] = W[e] + w[r \ {e}]
    PROVE  Within(w[S], SumOf(F, S))
<1>1. ASSUME NEW p \in Int, NEW q \in Int, \A x \in S : Under(q, p * W[x], F[x])
      PROVE  Under(q, p * w[S], SumOf(F, S))
  BY <1>1, SumUnder
<1>2. ASSUME ~ isnan(MaxRate) PROVE Under(MaxRate[2], MaxRate[1] * w[S], SumOf(F, S))
  <2>1. \A x \in S : Under(MaxRate[2], MaxRate[1] * W[x], F[x])
    BY <1>2 DEF Within
  <2> QED BY <1>1, <2>1, LimitsType
<1>3. ASSUME ~ isnan(MinRate) PROVE Under(-MinRate[2], (-MinRate[1]) * w[S], SumOf(F, S))
  <2>1. \A x \in S : Under(-MinRate[2], (-MinRate[1]) * W[x], F[x])
    BY <1>3 DEF Within
  <2> QED BY <1>1, <2>1, LimitsType
<1> QED BY <1>2, <1>3 DEF Within

LEMMA MeanInRange ==
    ASSUME NEW x \in Fractions, NEW n \in Nat \ {0}, Within(n, x)
    PROVE  InRange(Over(x, n))
<1>1. Over(x, n) \in Fractions
  BY OverType
<1>2. Within(1, Over(x, n))
  BY WithinOver
<1>3. ~ OutOfRange(Over(x, n))
  BY <1>1, <1>2, WithinIs
<1> QED BY <1>1, <1>3 DEF InRange, Rates1

RatesInRange(ss) == \A i \in DOMAIN ss : InRange(ss[i].rate)

\* The mean of what is known of a window.
LEMMA WindowInRange ==
    ASSUME NEW ss, SamplesOK(ss), RatesInRange(ss), NEW lo \in Int, NEW hi \in Int
    PROVE  InRange(Over(SumIn(ss, lo, hi), SecondsIn(ss, lo, hi)))
<1> DEFINE S == KnownIn(ss)
           Fs == [i \in S |-> SpanOf(ss[i], lo, hi)]
           Fp == [i \in S |-> Part(ss[i], lo, hi)]
           w == [r \in SUBSET S |-> SumOver(Fs, AddOp, 0, r)]
<1>1. IsFiniteSet(S) /\ SecondsIn(ss, lo, hi) \in Nat /\ SumIn(ss, lo, hi) \in Fractions
      /\ \A i \in S : SampleOK(ss[i]) /\ ~ isnan(ss[i].rate)
  BY SumsType
<1>2. CASE SecondsIn(ss, lo, hi) = 0
  <2>1. SumIn(ss, lo, hi) = Int2Value(0)
    BY <1>2, NothingKnown
  <2>2. Over(Int2Value(0), 0) = DNAN
    BY ZeroPlus, OverType, IntIsFraction
  <2> QED BY <1>2, <2>1, <2>2 DEF InRange, Rates1, isnan
<1>3. CASE SecondsIn(ss, lo, hi) # 0
  <2>1. ASSUME NEW i \in S
        PROVE  Fs[i] \in Nat /\ Fp[i] \in Fractions /\ Within(Fs[i], Fp[i])
    <3>1. ss[i].rate \in Fractions /\ SpanOf(ss[i], lo, hi) \in Nat /\ Part(ss[i], lo, hi) \in Fractions
      BY <1>1, KnownRate
    <3>2. ~ OutOfRange(ss[i].rate)
      BY <1>1 DEF RatesInRange, InRange, KnownIn
    <3>3. Within(1, ss[i].rate)
      BY <3>1, <3>2, WithinIs
    <3>4. Within(SpanOf(ss[i], lo, hi), Scaled(ss[i].rate, SpanOf(ss[i], lo, hi)))
      BY <3>1, <3>3, WithinScaled
    <3> QED BY <3>1, <3>4 DEF Part
  <2>2. SecondsIn(ss, lo, hi) = SumOver(Fs, AddOp, 0, S) /\ SumIn(ss, lo, hi) = SumOf(Fp, S)
    BY DEF SecondsIn, SumIn, SumOf
  <2> HIDE DEF S, Fs, Fp
  <2>3. w[S] = SecondsIn(ss, lo, hi) /\ w[{}] = 0
    <3>1. SumOver(Fs, AddOp, 0, {}) = 0
      BY SumEmpty
    <3> QED BY <2>2, <3>1
  <2>4. ASSUME NEW r \in SUBSET S PROVE w[r] \in Nat /\ \A e \in r : w[r] = Fs[e] + w[r \ {e}]
    <3>1. IsFiniteSet(r) /\ \A x \in r : Fs[x] \in Nat
      BY <1>1, <2>1, FS_Subset
    <3>2. /\ SumOver(Fs, AddOp, 0, r) \in Nat
          /\ \A e \in r : SumOver(Fs, AddOp, 0, r) = AddOp[<<Fs[e], SumOver(Fs, AddOp, 0, r \ {e})>>]
      BY <3>1, AddOpAdds, SumRemove
    <3>3. ASSUME NEW e \in r PROVE SumOver(Fs, AddOp, 0, r) = Fs[e] + SumOver(Fs, AddOp, 0, r \ {e})
      <4>1. IsFiniteSet(r \ {e}) /\ \A x \in r \ {e} : Fs[x] \in Nat
        BY <3>1, FS_Subset
      <4>2. SumOver(Fs, AddOp, 0, r \ {e}) \in Nat
        BY <4>1, AddOpAdds, SumRemove
      <4> QED BY <3>1, <3>2, <4>2, AddOpAdds
    <3> QED BY <3>2, <3>3
  <2> HIDE DEF w
  <2>5. Within(w[S], SumOf(Fp, S))
    BY <1>1, <2>1, <2>3, <2>4, SumWithin
  <2>6. Within(SecondsIn(ss, lo, hi), SumIn(ss, lo, hi))
    BY <2>2, <2>3, <2>5
  <2> QED BY <1>1, <1>3, <2>6, MeanInRange
<1> QED BY <1>2, <1>3

LEMMA PdpInRange ==
    ASSUME NEW ss, NEW last, Linked(ss, last), RatesInRange(ss), NEW k \in Int, k <= last \div Step
    PROVE  InRange(PdpAt(ss, CreatedAt(ss, last), k))
<1> DEFINE cr == CreatedAt(ss, last)
<1>1. SamplesOK(ss) /\ last \in Nat /\ cr \in Nat
  BY DEF Linked
<1>2. InRange(DNAN)
  BY DEF InRange, Rates1, isnan
<1>3. CASE k <= cr \div Step
  BY <1>2, <1>3 DEF PdpAt
<1>4. CASE ~ (k <= cr \div Step)
  <2>1. PdpAt(ss, cr, k) = PdpIn(ss, k * Step)
    BY <1>4 DEF PdpAt
  <2>2. cr \div Step \in Nat
    BY <1>1, StepStartIs
  <2>3. cr \div Step < k
    <3> HIDE DEF cr
    <3> QED BY <1>4, <2>2
  <2>4. k * Step \in cr + 1 .. last
    <3> HIDE DEF cr
    <3> QED BY <1>1, <2>3, StepEnds
  <2>5. PICK i \in DOMAIN ss : Completes(ss[i], k * Step)
    BY <2>4 DEF Linked
  <2>6. k * Step \in Int
    BY Constants, Product
  <2>7. PdpIn(ss, k * Step) = PdpFrom(ss, ss[i])
    BY <2>5, <2>6, ChosenSample DEF PdpIn
  <2>8. ss[i].from \in Nat /\ ss[i].to \in Nat
    BY <1>1 DEF SamplesOK, SampleOK
  <2>9. StepStart(ss[i].from) \in Int /\ StepStart(ss[i].to) \in Int
    <3>1. \A t \in Nat : StepStart(t) \in Int
      BY StepStartIs
    <3> QED BY <2>8, <3>1
  <2>10. InRange(PdpFrom(ss, ss[i]))
    BY <1>1, <1>2, <2>9, WindowInRange DEF PdpFrom, PdpOfSample
  <2> QED BY <2>1, <2>7, <2>10
<1> QED BY <1>3, <1>4

\* Of finitely many values one is the highest, and one the lowest.
LEMMA HasExtremes ==
    ASSUME NEW S, IsFiniteSet(S), NEW F, \A x \in S : F[x] \in Fractions
    PROVE  (\E x : IsHighest(x, ValuesAt(F, S))) /\ (\E x : IsLowest(x, ValuesAt(F, S)))
<1> DEFINE Good(r) == (\E x : IsHighest(x, ValuesAt(F, r))) /\ (\E x : IsLowest(x, ValuesAt(F, r)))
           N == {k \in Nat : \E r \in SUBSET S : IsFiniteSet(r) /\ Cardinality(r) = k /\ ~ Good(r)}
<1>1. CASE N = {}
  <2>1. Cardinality(S) \in Nat /\ S \in SUBSET S
    BY FS_CardinalityType
  <2> HIDE DEF Good
  <2>2. Good(S)
    BY <1>1, <2>1
  <2> QED BY <2>2 DEF Good
<1>2. CASE N # {}
  <2>1. PICK k \in N : \A l \in N : k <= l
    <3>1. N \subseteq Nat
      OBVIOUS
    <3> HIDE DEF N
    <3> QED BY <1>2, <3>1, LeastNumber
  <2>2. PICK r \in SUBSET S : IsFiniteSet(r) /\ Cardinality(r) = k /\ ~ Good(r)
    <3> HIDE DEF Good
    <3> QED OBVIOUS
  <2>3. k \in Nat
    OBVIOUS
  <2>4. r # {}
    <3>1. ASSUME r = {} PROVE Good(r)
      <4>1. ValuesAt(F, r) = {}
        BY <3>1 DEF ValuesAt
      <4>2. IsHighest(NegDINF, {}) /\ IsLowest(DINF, {})
        BY DEF IsHighest, IsLowest
      <4> QED BY <4>1, <4>2
    <3> HIDE DEF Good
    <3> QED BY <2>2, <3>1
  <2>5. PICK e : e \in r
    BY <2>4
  <2> DEFINE s == r \ {e}
             m == Cardinality(s)
  <2>6. s \in SUBSET S /\ IsFiniteSet(s) /\ m \in Nat /\ m = k - 1
    <3> HIDE DEF Good
    <3>1. IsFiniteSet(s) /\ m = Cardinality(r) - 1 /\ m \in Nat
      BY <2>2, <2>5, Smaller1
    <3>2. s \in SUBSET S
      BY <2>2
    <3>3. m = k - 1
      BY <2>2, <3>1
    <3> HIDE DEF s, m
    <3> QED BY <3>1, <3>2, <3>3
  <2>7. Good(s)
    <3> HIDE DEF Good
    <3>1. m \notin N
      <4> HIDE DEF N, m
      <4> QED BY <2>1, <2>3, <2>6
    <3> QED BY <2>6, <3>1
  <2> DEFINE T == ValuesAt(F, s)
             z == F[e]
  <2>8. T \subseteq Fractions /\ z \in Fractions /\ ValuesAt(F, r) = T \union {z}
    <3>1. T \subseteq Fractions
      BY <2>2 DEF ValuesAt
    <3>2. z \in Fractions
      BY <2>2, <2>5
    <3>3. ValuesAt(F, r) = T \union {z}
      BY <2>5 DEF ValuesAt
    <3> QED BY <3>1, <3>2, <3>3
  <2>9. PICK x : IsHighest(x, T)
    BY <2>7
  <2>10. PICK y : IsLowest(y, T)
    BY <2>7
  <2> HIDE DEF T, z, s
  <2>11. IsHighest(Larger(x, z), T \union {z}) /\ IsLowest(Smaller(y, z), T \union {z})
    BY <2>8, <2>9, <2>10, HighestAdds
  <2>12. Good(r)
    BY <2>8, <2>11
  <2> HIDE DEF Good
  <2> QED BY <2>2, <2>12
<1> QED BY <1>1, <1>2

LEMMA ExtremeIsValue ==
    ASSUME NEW S, IsFiniteSet(S), S # {}, NEW F, \A x \in S : F[x] \in Fractions
    PROVE  Highest(ValuesAt(F, S)) \in ValuesAt(F, S) /\ Lowest(ValuesAt(F, S)) \in ValuesAt(F, S)
<1> DEFINE T == ValuesAt(F, S)
<1>1. T # {} /\ T \subseteq Fractions
  BY DEF ValuesAt
<1>2. PICK x : IsHighest(x, T)
  BY HasExtremes
<1>3. PICK y : IsLowest(y, T)
  BY HasExtremes
<1> HIDE DEF T
<1>4. Highest(T) = x /\ Lowest(T) = y
  BY <1>1, <1>2, <1>3, HighestIs
<1> QED BY <1>1, <1>2, <1>3, <1>4 DEF IsHighest, IsLowest, T

\* The mean of values within the limits is within the limits.
LEMMA MeanOfSome ==
    ASSUME NEW S, IsFiniteSet(S), S # {}, NEW F, \A x \in S : F[x] \in Fractions /\ ~ OutOfRange(F[x])
    PROVE  InRange(Over(SumOf(F, S), Cardinality(S)))
<1> DEFINE W == [x \in S |-> 1]
           w == [r \in SUBSET S |-> Cardinality(r)]
<1>1. \A x \in S : W[x] \in Nat /\ Within(W[x], F[x])
  BY WithinIs
<1>2. w[{}] = 0
  BY FS_EmptySet
<1>3. ASSUME NEW r \in SUBSET S PROVE w[r] \in Nat /\ \A e \in r : w[r] = W[e] + w[r \ {e}]
  <2>1. IsFiniteSet(r)
    BY FS_Subset
  <2>2. Cardinality(r) \in Nat
    BY <2>1, FS_CardinalityType
  <2>3. ASSUME NEW e \in r PROVE w[r] = W[e] + w[r \ {e}]
    <3>1. Cardinality(r \ {e}) = Cardinality(r) - 1
      BY <2>1, Smaller1
    <3>2. r \ {e} \in SUBSET S /\ e \in S
      OBVIOUS
    <3>3. w[r] = Cardinality(r) /\ w[r \ {e}] = Cardinality(r \ {e}) /\ W[e] = 1
      BY <3>2
    <3> HIDE DEF w, W
    <3> QED BY <2>2, <3>1, <3>3
  <2> QED BY <2>2, <2>3
<1>4. w[S] = Cardinality(S)
  OBVIOUS
<1>5. Cardinality(S) \in Nat \ {0}
  BY FS_CardinalityType, FS_EmptySet
<1>6. SumOf(F, S) \in Fractions
  BY SumOfIs
<1> HIDE DEF w, W
<1>7. Within(Cardinality(S), SumOf(F, S))
  <2>1. Within(w[S], SumOf(F, S))
    BY <1>1, <1>2, <1>3, SumWithin
  <2> QED BY <1>4, <2>1
<1> QED BY <1>5, <1>6, <1>7, MeanInRange

\* What is consolidated from values within the limits is within them.
LEMMA RowInRange ==
    ASSUME NEW pd, NEW a \in Archives, NEW n \in Int,
           \A k \in n - PdpCnt(a) + 1 .. n : InRange(pd[k])
    PROVE  InRange(RowVal(pd, a, n))
<1> DEFINE lo == n - PdpCnt(a) + 1
           K == KnownPdps(pd, lo, n)
           unkn == PdpCnt(a) - Cardinality(K)
<1>1. lo \in Int /\ lo <= n /\ PdpCnt(a) \in Nat \ {0}
  BY Constants
<1>2. \A k \in lo .. n : pd[k] \in Rates1
  BY DEF InRange
<1>3. IsFiniteSet(K) /\ \A k \in K : pd[k] \in Fractions /\ k \in lo .. n
  <2> HIDE DEF lo
  <2> QED BY <1>1, <1>2, KnownPdpsAre
<1>4. \A k \in K : ~ OutOfRange(pd[k])
  BY DEF InRange, KnownPdps
<1>5. RowVal(pd, a, n) = IF TooManyUnknown(a, unkn) THEN DNAN
                         ELSE PeriodValue(rra_def[a].cf, pd, K, SumOf(pd, K), n)
  BY DEF RowVal
<1>6. InRange(DNAN)
  BY DEF InRange, Rates1, isnan
<1>7. ASSUME ~ TooManyUnknown(a, unkn) PROVE K # {}
  <2>1. ASSUME K = {} PROVE unkn = PdpCnt(a)
    <3>1. Cardinality(K) = 0
      BY <2>1, FS_EmptySet
    <3> HIDE DEF K
    <3> QED BY <1>1, <3>1
  <2> HIDE DEF K, unkn
  <2> QED BY <1>7, <2>1, UnknownPeriods
<1>8. ASSUME K # {} PROVE InRange(PeriodValue(rra_def[a].cf, pd, K, SumOf(pd, K), n))
  <2>1. InRange(Over(SumOf(pd, K), Cardinality(K)))
    <3> HIDE DEF K
    <3> QED BY <1>3, <1>4, <1>8, MeanOfSome
  <2>2. \A x \in ValuesAt(pd, K) : InRange(x)
    BY <1>3, <1>4 DEF ValuesAt, InRange, Rates1
  <2>3. InRange(Highest(ValuesAt(pd, K))) /\ InRange(Lowest(ValuesAt(pd, K)))
    <3> HIDE DEF K
    <3> QED BY <1>3, <1>8, <2>2, ExtremeIsValue
  <2>4. InRange(pd[n])
    BY <1>1
  <2>5. rra_def[a].cf \in {"AVERAGE", "MIN", "MAX", "LAST"}
    BY ArchivesAssumption
  <2> HIDE DEF K
  <2> QED BY <2>1, <2>3, <2>4, <2>5 DEF PeriodValue
<1> HIDE DEF K, unkn
<1> QED BY <1>5, <1>6, <1>7, <1>8

-----------------------------------------------------------------------------
(* The rows after an archive was resized, or dumped and restored.          *)

LEMMA RowAtIs ==
    ASSUME NEW R \in Nat \ {0}, NEW cur \in 0 .. R - 1, NEW back \in 0 .. R - 1
    PROVE  RowAt(cur, R, back) = IF back <= cur THEN cur - back ELSE cur + R - back
<1>1. CASE back <= cur
  <2> DEFINE r == cur - back
  <2>1. r \in 0 .. R - 1 /\ cur + R - back = 1 * R + r
    BY <1>1
  <2> HIDE DEF r
  <2>2. (1 * R + r) % R = r
    BY <2>1, DivUnique, 1 \in Int
  <2>3. RowAt(cur, R, back) = r
    BY <2>1, <2>2 DEF RowAt
  <2> QED BY <1>1, <2>3 DEF r
<1>2. CASE ~ (back <= cur)
  <2> DEFINE r == cur + R - back
  <2>1. r \in 0 .. R - 1 /\ 0 * R + r = r
    BY <1>2
  <2> HIDE DEF r
  <2>2. (0 * R + r) % R = r
    BY <2>1, DivUnique, 0 \in Int
  <2>3. RowAt(cur, R, back) = r
    BY <2>1, <2>2 DEF RowAt, r
  <2> QED BY <1>2, <2>3 DEF r
<1> QED BY <1>1, <1>2

Grown(row, cur, n, m) ==
    [r \in 0 .. n - 1 |->
        IF r <= cur THEN row[r] ELSE IF r <= cur + m THEN DNAN ELSE row[r - m]]
Shrunk(row, c, n, f, m) == [r \in 0 .. n - 1 |-> IF r <= c THEN row[r + f] ELSE row[r + m]]

\* New rows, just after the current one, are the oldest.
LEMMA RingGrown ==
    ASSUME NEW R \in Nat \ {0}, NEW cur \in 0 .. R - 1, NEW m \in Nat, NEW n, n = R + m, NEW row,
           NEW back \in 0 .. n - 1
    PROVE  Grown(row, cur, n, m)[RowAt(cur, n, back)]
             = IF back <= R - 1 THEN row[RowAt(cur, R, back)] ELSE DNAN
<1> DEFINE r == RowAt(cur, n, back)
           new == Grown(row, cur, n, m)
<1>1. n \in Nat \ {0} /\ cur \in 0 .. n - 1
  OBVIOUS
<1>2. r = IF back <= cur THEN cur - back ELSE cur + n - back
  BY <1>1, RowAtIs
<1> HIDE DEF r
<1>3. r \in 0 .. n - 1
  BY <1>1, <1>2
<1>4. new[r] = IF r <= cur THEN row[r] ELSE IF r <= cur + m THEN DNAN ELSE row[r - m]
  BY <1>3 DEF Grown
<1> HIDE DEF new
<1>5. ASSUME back <= R - 1
      PROVE  RowAt(cur, R, back) = IF back <= cur THEN cur - back ELSE cur + R - back
  BY <1>5, RowAtIs
<1>6. CASE back <= cur
  <2>1. back <= R - 1 /\ r = cur - back /\ r <= cur
    BY <1>2, <1>6
  <2>2. RowAt(cur, R, back) = r
    BY <1>5, <1>6, <2>1
  <2> QED BY <1>4, <2>1, <2>2 DEF r, new
<1>7. CASE ~ (back <= cur) /\ back <= R - 1
  <2>1. ~ (r <= cur) /\ ~ (r <= cur + m) /\ r - m = cur + R - back
    BY <1>2, <1>7
  <2>2. RowAt(cur, R, back) = cur + R - back
    BY <1>5, <1>7
  <2> QED BY <1>4, <1>7, <2>1, <2>2 DEF r, new
<1>8. CASE ~ (back <= R - 1)
  <2>1. ~ (r <= cur) /\ r <= cur + m
    BY <1>2, <1>8
  <2> QED BY <1>4, <1>8, <2>1 DEF r, new
<1> QED BY <1>6, <1>7, <1>8

\* How many of the rows to be removed are at the start.
LEMMA FrontIs ==
    ASSUME Types, NEW a \in Archives, NEW m \in Nat \ {0}, m <= row_cnt[a] - 1
    PROVE  IF cur_row[a] + m <= row_cnt[a] - 1 THEN FrontRows(a, m) = 0
           ELSE FrontRows(a, m) = cur_row[a] + m - row_cnt[a] + 1
<1> DEFINE R == row_cnt[a]
           c == cur_row[a]
           rem == (c + m) % R
<1>1. R \in Nat \ {0} /\ RowCnt(a) = R /\ c \in 0 .. R - 1
  BY ArchiveFacts
<1>2. FrontRows(a, m) = IF rem <= c THEN rem + 1 ELSE 0
  BY <1>1 DEF FrontRows
<1> HIDE DEF R, c
<1>3. m <= R - 1
  BY DEF R
<1>4. CASE c + m <= R - 1
  <2> DEFINE s == c + m
  <2>1. s \in 0 .. R - 1 /\ 0 * R + s = s /\ ~ (s <= c)
    BY <1>1, <1>4
  <2> HIDE DEF s
  <2>2. (0 * R + s) % R = s
    BY <1>1, <2>1, DivUnique, 0 \in Int
  <2>3. rem = s
    BY <2>1, <2>2 DEF s
  <2> HIDE DEF rem
  <2> QED BY <1>2, <1>4, <2>1, <2>3 DEF R, c
<1>5. CASE ~ (c + m <= R - 1)
  <2> DEFINE s == c + m - R
  <2>1. s \in 0 .. R - 1 /\ c + m = 1 * R + s /\ s <= c /\ s + 1 = c + m - R + 1
    BY <1>1, <1>3, <1>5
  <2> HIDE DEF s
  <2>2. (1 * R + s) % R = s
    BY <1>1, <2>1, DivUnique, 1 \in Int
  <2>3. rem = s
    BY <2>1, <2>2
  <2> HIDE DEF rem
  <2> QED BY <1>2, <1>5, <2>1, <2>3 DEF R, c
<1> QED BY <1>4, <1>5

\* The rows that are removed are the oldest.
LEMMA RingShrunk ==
    ASSUME NEW R \in Nat \ {0}, NEW cur \in 0 .. R - 1, NEW m \in Nat \ {0}, m <= R - 1,
           NEW f, f = IF cur + m <= R - 1 THEN 0 ELSE cur + m - R + 1,
           NEW n, n = R - m, NEW c, c = cur - f, NEW row,
           NEW back \in 0 .. n - 1
    PROVE  Shrunk(row, c, n, f, m)[RowAt(c, n, back)] = row[RowAt(cur, R, back)] /\ back \in 0 .. R - 1
<1> DEFINE r == RowAt(c, n, back)
           new == Shrunk(row, c, n, f, m)
<1>1. n \in Nat \ {0} /\ f \in Nat /\ c \in 0 .. n - 1 /\ back \in 0 .. R - 1
  OBVIOUS
<1>2. r = IF back <= c THEN c - back ELSE c + n - back
  BY <1>1, RowAtIs
<1>3. RowAt(cur, R, back) = IF back <= cur THEN cur - back ELSE cur + R - back
  BY <1>1, RowAtIs
<1> HIDE DEF r
<1>4. r \in 0 .. n - 1
  BY <1>1, <1>2
<1>5. new[r] = IF r <= c THEN row[r + f] ELSE row[r + m]
  BY <1>4 DEF Shrunk
<1> HIDE DEF new
<1>6. CASE back <= c
  <2>1. r <= c /\ r + f = cur - back /\ back <= cur
    BY <1>1, <1>2, <1>6
  <2>2. RowAt(cur, R, back) = cur - back
    BY <1>3, <2>1
  <2> QED BY <1>1, <1>5, <2>1, <2>2 DEF r, new
<1>7. CASE ~ (back <= c)
  <2>1. f = 0
    BY <1>1, <1>7
  <2>2. c = cur /\ ~ (r <= c) /\ r + m = cur + R - back
    BY <1>1, <1>2, <1>7, <2>1
  <2>3. RowAt(cur, R, back) = cur + R - back
    BY <1>3, <1>7, <2>2
  <2> QED BY <1>1, <1>5, <2>2, <2>3 DEF r, new
<1> QED BY <1>6, <1>7

\* The last row of a dump is the current one, and comes first.
LEMMA RingRestored ==
    ASSUME Types, NEW a \in Archives, NEW range_check \in BOOLEAN, NEW back \in 0 .. row_cnt[a] - 1
    PROVE  /\ Len(DumpedRows(a)) = row_cnt[a]
           /\ RestoredRows(DumpedRows(a), range_check)[RowAt(0, row_cnt[a], back)]
                = CheckedRange(rows[a][RowAt(cur_row[a], row_cnt[a], back)], range_check)
<1> DEFINE R == row_cnt[a]
           cur == cur_row[a]
           d == DumpedRows(a)
           r == RowAt(0, R, back)
           row == rows[a]
<1>1. R \in Nat \ {0} /\ RowCnt(a) = R /\ cur \in 0 .. R - 1
  BY ArchiveFacts
<1>2. d = [k \in 1 .. R |-> row[(cur + k) % R]]
  BY <1>1 DEF DumpedRows
<1> HIDE DEF R, cur, d, row
<1>3. Len(d) = R
  BY <1>1, <1>2
<1>4. back \in 0 .. R - 1
  BY DEF R
<1>5. r = IF back <= 0 THEN 0 - back ELSE 0 + R - back
  BY <1>1, <1>4, RowAtIs
<1> HIDE DEF r
<1> DEFINE k == R - back
<1>6. r \in 0 .. R - 1 /\ k \in 1 .. R /\ (r <= 0 => R - 0 + r = k) /\ (~ (r <= 0) => r - 0 = k)
  BY <1>1, <1>4, <1>5
<1>7. RestoredRows(d, range_check)[r]
        = CheckedRange(IF r <= 0 THEN d[R - 0 + r] ELSE d[r - 0], range_check)
  BY <1>3, <1>6 DEF RestoredRows, RestoredCurRow
<1>8. cur + k = cur + R - back
  BY <1>1, <1>4
<1> HIDE DEF k
<1>9. RestoredRows(d, range_check)[r] = CheckedRange(d[k], range_check)
  BY <1>6, <1>7
<1>10. d[k] = row[(cur + k) % R]
  BY <1>2, <1>6
<1>11. d[k] = row[RowAt(cur, R, back)]
  BY <1>8, <1>10 DEF RowAt
<1> QED BY <1>3, <1>9, <1>11 DEF d, r, R, cur, row

-----------------------------------------------------------------------------
(* The rows of a file that is tuned, resized, dumped and restored.         *)

FileRowInv == RowInv /\ RatesInRange(samples)

LEMMA NewRateInRange ==
    ASSUME Types, NEW t \in Nat, t > last_up, NEW v \in KnownReadings
    PROVE  InRange(NewRate(t, v))
<1> DEFINE rate == Over(Amount(t, v), Interval(t))
<1>1. NewRate(t, v) = IF ~ isnan(rate) /\ OutOfRange(rate) THEN DNAN ELSE rate
  BY DEF NewRate
<1>2. NewRate(t, v) \in Rates1
  BY NewRateIs
<1> HIDE DEF rate
<1>3. isnan(DNAN)
  BY DEF isnan
<1> QED BY <1>1, <1>2, <1>3 DEF InRange

\* What an update is given stays within the limits, and nothing else adds a rate.
LEMMA RatesStayInRange ==
    ASSUME FileRowInv, NEW t \in Nat, NEW v \in KnownReadings, t > last_up,
           Accepted(t, v, NewRate(t, v))
    PROVE  RatesInRange(samples')
<1>1. Types /\ Linked(samples, last_up) /\ RatesInRange(samples)
  BY DEF FileRowInv, RowInv, CountInv
<1>2. PICK s : Follows1(samples, last_up, s, samples') /\ s.rate = NewRate(t, v)
  BY <1>1, SampleAdded
<1>3. PICK n \in Nat : /\ DOMAIN samples = 1 .. n /\ DOMAIN samples' = 1 .. n + 1
                       /\ samples'[n + 1] = s /\ \A i \in 1 .. n : samples'[i] = samples[i]
  BY <1>2 DEF Follows1, Extended
<1>4. InRange(s.rate)
  BY <1>1, <1>2, NewRateInRange
<1>5. ASSUME NEW i \in 1 .. n + 1 PROVE InRange(samples'[i].rate)
  <2>1. CASE i = n + 1
    BY <1>3, <1>4, <2>1
  <2>2. CASE i # n + 1
    <3>1. i \in 1 .. n
      BY <2>2
    <3>2. samples'[i] = samples[i] /\ InRange(samples[i].rate)
      BY <1>1, <1>3, <3>1 DEF RatesInRange
    <3> QED BY <3>2
  <2> QED BY <2>1, <2>2
<1> QED BY <1>3, <1>5 DEF RatesInRange

\* Every row is within the limits.
LEMMA RowsInRange ==
    ASSUME FileRowInv, NEW a \in Archives, NEW back \in 0 .. row_cnt[a] - 1
    PROVE  InRange(rows[a][RowAt(cur_row[a], row_cnt[a], back)])
<1> DEFINE cr == CreatedAt(samples, last_up)
           pd == PdpFn(samples, cr)
           n == (Now - (Now % PdpCnt(a))) - back * PdpCnt(a)
           p == PdpCnt(a)
<1>1. /\ Types /\ Linked(samples, last_up) /\ RatesInRange(samples)
      /\ AllRowsHold(pd, cr, Now, cur_row, row_cnt, rows, since)
  BY DEF FileRowInv, RowInv, CountInv, RowsOK
<1>2. Now \in Nat /\ Now = last_up \div Step
  BY <1>1, ArchiveFacts DEF Now
<1>3. rows[a][RowAt(cur_row[a], row_cnt[a], back)] = Kept(pd, cr, a, n, since[a])
  BY <1>1 DEF AllRowsHold, RowsHold
<1>4. n \in Int /\ n <= Now /\ p \in Nat \ {0}
  <2> DEFINE r == Now % p
             w == back * p
  <2>1. r \in Nat /\ w \in Nat /\ p \in Nat \ {0}
    <3>1. p \in Nat \ {0} /\ r \in 0 .. p - 1 /\ back \in Nat
      BY <1>2, PeriodStartIs
    <3> QED BY <3>1, Product
  <2> HIDE DEF r, w, p
  <2>2. (Now - r) - w \in Int /\ (Now - r) - w <= Now
    BY <1>2, <2>1
  <2> QED BY <2>1, <2>2 DEF r, w, p
<1> HIDE DEF n, cr
<1>5. ASSUME NEW k \in n - p + 1 .. n PROVE InRange(pd[k])
  <2>1. k \in Int /\ k <= Now
    BY <1>2, <1>4
  <2>2. InRange(PdpAt(samples, CreatedAt(samples, last_up), k))
    BY <1>1, <1>2, <2>1, PdpInRange
  <2> QED BY <2>1, <2>2 DEF PdpFn, cr
<1> HIDE DEF pd
<1>6. InRange(RowVal(pd, a, n))
  BY <1>4, <1>5, RowInRange DEF p
<1>7. InRange(DNAN)
  BY DEF InRange, Rates1, isnan
<1> QED BY <1>3, <1>6, <1>7 DEF Kept

\* One archive changes.
LEMMA OneChanged ==
    ASSUME RowInv, CountInv', NEW a \in Archives, UNCHANGED <<last_up, samples, cdp_prep>>,
           \A b \in Archives \ {a} : /\ cur_row'[b] = cur_row[b] /\ row_cnt'[b] = row_cnt[b]
                                     /\ rows'[b] = rows[b] /\ since'[b] = since[b],
           RowsHold(PdpFn(samples, CreatedAt(samples, last_up)), CreatedAt(samples, last_up), a, Now,
                    cur_row'[a], row_cnt'[a], rows'[a], since'[a])
    PROVE  RowInv'
<1> DEFINE cr == CreatedAt(samples, last_up)
           pd == PdpFn(samples, cr)
<1>1. CreatedAt(samples', last_up') = cr /\ PdpFn(samples', cr) = pd /\ Now' = Now
  BY DEF Now
<1>2. RowsHold(pd, cr, a, Now, cur_row'[a], row_cnt'[a], rows'[a], since'[a])
  OBVIOUS
<1> HIDE DEF cr, pd
<1>3. AreasOpen(pd, Now, cdp_prep) /\ AllRowsHold(pd, cr, Now, cur_row, row_cnt, rows, since)
  BY DEF RowInv, RowsOK, pd, cr
<1>4. AllRowsHold(pd, cr, Now, cur_row', row_cnt', rows', since')
  <2> SUFFICES ASSUME NEW b \in Archives
               PROVE  RowsHold(pd, cr, b, Now, cur_row'[b], row_cnt'[b], rows'[b], since'[b])
    BY DEF AllRowsHold
  <2>1. CASE b = a
    BY <1>2, <2>1
  <2>2. CASE b # a
    <3>1. RowsHold(pd, cr, b, Now, cur_row[b], row_cnt[b], rows[b], since[b])
      BY <1>3 DEF AllRowsHold
    <3>2. /\ cur_row'[b] = cur_row[b] /\ row_cnt'[b] = row_cnt[b]
          /\ rows'[b] = rows[b] /\ since'[b] = since[b]
      BY <2>2
    <3> QED BY <3>1, <3>2
  <2> QED BY <2>1, <2>2
<1>5. RowsOK(pd, cr, Now, cdp_prep', cur_row', row_cnt', rows', since')
  BY <1>3, <1>4 DEF RowsOK
<1>6. RowsOK(PdpFn(samples', CreatedAt(samples', last_up')), CreatedAt(samples', last_up'), Now',
             cdp_prep', cur_row', row_cnt', rows', since')
  BY <1>1, <1>5
<1> QED BY <1>6 DEF RowInv

LEMMA ShrinkRows ==
    ASSUME RowInv, CountInv', NEW a \in Archives, NEW modify \in Nat \ {0}, Shrink(a, modify)
    PROVE  RowInv'
<1> DEFINE R == row_cnt[a]
           n == R - modify
           f == FrontRows(a, modify)
           c == cur_row[a] - f
           new == Shrunk(rows[a], c, n, f, modify)
           pd == PdpFn(samples, CreatedAt(samples, last_up))
           cr == CreatedAt(samples, last_up)
<1>1. /\ Types /\ ArchivesOK /\ AllRowsHold(pd, cr, Now, cur_row, row_cnt, rows, since)
  BY DEF RowInv, CountInv, RowsOK, Types
<1>2. /\ R \in Nat \ {0} /\ RowCnt(a) = R /\ cur_row[a] \in 0 .. R - 1
      /\ DOMAIN rows = Archives
  BY <1>1, ArchiveFacts
<1>3. /\ modify < R
      /\ row_cnt' = [row_cnt EXCEPT ![a] = n] /\ cur_row' = [cur_row EXCEPT ![a] = c]
      /\ rows' = [rows EXCEPT ![a] = new]
      /\ UNCHANGED <<last_up, samples, cdp_prep, since>>
  BY <1>2 DEF Shrink, Edit, RowCnt, Shrunk
<1>4. /\ row_cnt'[a] = n /\ cur_row'[a] = c /\ rows'[a] = new /\ since'[a] = since[a]
      /\ \A b \in Archives \ {a} : /\ cur_row'[b] = cur_row[b] /\ row_cnt'[b] = row_cnt[b]
                                   /\ rows'[b] = rows[b] /\ since'[b] = since[b]
  <2> HIDE DEF n, c, new
  <2> QED BY <1>1, <1>2, <1>3 DEF ArchivesOK
<1>5. modify <= R - 1
  <2> HIDE DEF R
  <2> QED BY <1>2, <1>3
<1>6. f = IF cur_row[a] + modify <= R - 1 THEN 0 ELSE cur_row[a] + modify - R + 1
  BY <1>1, <1>5, FrontIs
<1> HIDE DEF pd, cr
<1>7. RowsHold(pd, cr, a, Now, c, n, new, since[a])
  <2> SUFFICES ASSUME NEW back \in 0 .. n - 1
               PROVE  new[RowAt(c, n, back)]
                        = Kept(pd, cr, a, (Now - (Now % PdpCnt(a))) - back * PdpCnt(a), since[a])
    BY DEF RowsHold
  <2>1. new[RowAt(c, n, back)] = rows[a][RowAt(cur_row[a], R, back)] /\ back \in 0 .. R - 1
    <3> DEFINE row == rows[a]
               cur == cur_row[a]
    <3>1. /\ new = Shrunk(row, c, n, f, modify) /\ n = R - modify /\ c = cur - f /\ cur \in 0 .. R - 1
          /\ f = IF cur + modify <= R - 1 THEN 0 ELSE cur + modify - R + 1
      BY <1>2, <1>6
    <3> HIDE DEF new, n, c, f, R, row, cur
    <3>2. new[RowAt(c, n, back)] = row[RowAt(cur, R, back)] /\ back \in 0 .. R - 1
      BY <1>2, <1>5, <3>1, RingShrunk
    <3> QED BY <3>2 DEF row, cur
  <2>2. RowsHold(pd, cr, a, Now, cur_row[a], R, rows[a], since[a])
    BY <1>1 DEF AllRowsHold
  <2> HIDE DEF new, c, n, R
  <2> QED BY <2>1, <2>2 DEF RowsHold
<1>8. RowsHold(pd, cr, a, Now, cur_row'[a], row_cnt'[a], rows'[a], since'[a])
  <2> HIDE DEF new, c, n
  <2> QED BY <1>4, <1>7
<1> QED BY <1>3, <1>4, <1>8, OneChanged DEF pd, cr

\* The period of the oldest row that is kept.
LEMMA OldestKept ==
    ASSUME NEW w \in Int, NEW p \in Nat \ {0}, NEW R \in Nat, NEW back \in Nat
    PROVE  /\ back <= R - 1 => w - R * p < w - back * p
           /\ ~ (back <= R - 1) => w - back * p <= w - R * p
<1> DEFINE x == back * p
           y == R * p
<1>1. x \in Nat /\ y \in Nat
  BY Product
<1>2. ASSUME back <= R - 1 PROVE x < y
  <2>1. back + 1 <= R /\ back + 1 \in Int
    BY <1>2
  <2>2. (back + 1) * p <= R * p
    BY <2>1, Monotone
  <2>3. (back + 1) * p = x + p
    OBVIOUS
  <2> HIDE DEF x
  <2>4. x + p <= y
    BY <2>2, <2>3
  <2> HIDE DEF y
  <2> QED BY <1>1, <2>4
<1>3. ASSUME ~ (back <= R - 1) PROVE y <= x
  <2>1. R <= back
    BY <1>3
  <2> QED BY <2>1, Monotone
<1> HIDE DEF x, y
<1>4. (x < y => w - y < w - x) /\ (y <= x => w - x <= w - y)
  BY <1>1
<1> QED BY <1>2, <1>3, <1>4 DEF x, y

LEMMA GrowRows ==
    ASSUME RowInv, CountInv', NEW a \in Archives, NEW modify \in Nat \ {0}, Grow(a, modify)
    PROVE  RowInv'
<1> DEFINE R == row_cnt[a]
           n == R + modify
           c == cur_row[a]
           p == PdpCnt(a)
           whole == Now - (Now % p)
           new == Grown(rows[a], c, n, modify)
           oldest == whole - R * p
           from == IF since[a] < oldest THEN oldest ELSE since[a]
           cr == CreatedAt(samples, last_up)
           pd == PdpFn(samples, CreatedAt(samples, last_up))
<1>1. /\ Types /\ ArchivesOK /\ AllRowsHold(pd, cr, Now, cur_row, row_cnt, rows, since)
  BY DEF RowInv, CountInv, RowsOK, Types
<1>2. /\ R \in Nat \ {0} /\ RowCnt(a) = R /\ c \in 0 .. R - 1 /\ DOMAIN rows = Archives
      /\ since[a] \in Int /\ Now \in Nat
  BY <1>1, ArchiveFacts
<1>3. /\ row_cnt' = [row_cnt EXCEPT ![a] = n]
      /\ rows' = [rows EXCEPT ![a] = new] /\ since' = [since EXCEPT ![a] = from]
      /\ UNCHANGED <<last_up, samples, cdp_prep, cur_row>>
  <2>1. row_cnt' = [row_cnt EXCEPT ![a] = n] /\ UNCHANGED <<last_up, samples, cdp_prep, cur_row>>
    BY DEF Grow, Edit
  <2>2. rows' = [rows EXCEPT ![a] = new]
    <3>1. rows' = [rows EXCEPT ![a] =
             [r \in 0 .. RowCnt(a) + modify - 1 |->
                 IF r <= cur_row[a] THEN rows[a][r]
                 ELSE IF r <= cur_row[a] + modify THEN DNAN ELSE rows[a][r - modify]]]
      BY DEF Grow
    <3>2. RowCnt(a) + modify - 1 = n - 1
      BY <1>2
    <3> HIDE DEF n
    <3> QED BY <3>1, <3>2, Zenon DEF Grown
  <2>3. since' = [since EXCEPT ![a] =
           LET old == Complete(a) - RowCnt(a) * PdpCnt(a)
           IN  IF since[a] < old THEN old ELSE since[a]]
    BY Zenon DEF Grow
  <2>4. Complete(a) - RowCnt(a) * PdpCnt(a) = oldest
    BY <1>2 DEF Complete
  <2>5. since' = [since EXCEPT ![a] = from]
    <3> HIDE DEF oldest
    <3> QED BY <2>3, <2>4, Zenon
  <2> QED BY <2>1, <2>2, <2>5
<1>4. /\ row_cnt'[a] = n /\ cur_row'[a] = c /\ rows'[a] = new /\ since'[a] = from
      /\ \A b \in Archives \ {a} : /\ cur_row'[b] = cur_row[b] /\ row_cnt'[b] = row_cnt[b]
                                   /\ rows'[b] = rows[b] /\ since'[b] = since[b]
  <2> HIDE DEF n, new, from
  <2> QED BY <1>1, <1>2, <1>3 DEF ArchivesOK
<1>5. p \in Nat \ {0} /\ whole \in Int
  <2>1. p \in Nat \ {0} /\ Now % p \in 0 .. p - 1
    BY <1>2, PeriodStartIs
  <2> HIDE DEF p
  <2> QED BY <1>2, <2>1
<1>6. R * p \in Int /\ oldest \in Int
  <2>1. R * p \in Int
    BY <1>2, <1>5, Product
  <2> DEFINE x == R * p
  <2> HIDE DEF x, whole
  <2>2. whole - x \in Int
    BY <1>5, <2>1 DEF x
  <2> QED BY <2>1, <2>2 DEF x
<1> HIDE DEF pd, cr, whole
<1>7. RowsHold(pd, cr, a, Now, c, n, new, from)
  <2> SUFFICES ASSUME NEW back \in 0 .. n - 1
               PROVE  new[RowAt(c, n, back)] = Kept(pd, cr, a, whole - back * p, from)
    BY DEF RowsHold, whole
  <2> DEFINE e == whole - back * p
  <2>1. new[RowAt(c, n, back)] = IF back <= R - 1 THEN rows[a][RowAt(c, R, back)] ELSE DNAN
    <3> DEFINE row == rows[a]
    <3>1. new = Grown(row, c, n, modify) /\ n = R + modify
      OBVIOUS
    <3> HIDE DEF new, n, c, R, row
    <3>2. new[RowAt(c, n, back)] = IF back <= R - 1 THEN row[RowAt(c, R, back)] ELSE DNAN
      <4>1. R \in Nat \ {0} /\ c \in 0 .. R - 1
        BY <1>2
      <4>2. modify \in Nat /\ n = R + modify /\ back \in 0 .. n - 1
        BY <3>1
      <4>3. Grown(row, c, n, modify)[RowAt(c, n, back)]
              = IF back <= R - 1 THEN row[RowAt(c, R, back)] ELSE DNAN
        BY <4>1, <4>2, RingGrown, Zenon
      <4> QED BY <3>1, <4>3, Zenon
    <3> QED BY <3>2 DEF row
  <2>2. back \in Nat /\ back * p \in Nat
    <3>1. back \in Nat
      BY <1>2
    <3> QED BY <1>5, <3>1, Product
  <2>3. e \in Int
    <3> DEFINE x == back * p
    <3> HIDE DEF x, p
    <3>1. whole - x \in Int
      BY <1>5, <2>2 DEF x
    <3> QED BY <3>1 DEF x
  <2>4. (back <= R - 1 => oldest < e) /\ (~ (back <= R - 1) => e <= oldest)
    <3> HIDE DEF p, R
    <3> QED BY <1>2, <1>5, <2>2, OldestKept
  <2>5. back <= R - 1 => rows[a][RowAt(c, R, back)] = Kept(pd, cr, a, e, since[a])
    <3>1. RowsHold(pd, cr, a, Now, c, R, rows[a], since[a])
      BY <1>1 DEF AllRowsHold
    <3>2. back <= R - 1 => back \in 0 .. R - 1
      BY <2>2
    <3> HIDE DEF c, R
    <3> QED BY <3>1, <3>2 DEF RowsHold, whole
  <2> HIDE DEF new, n, c, oldest, e
  <2>6. CASE back <= R - 1
    <3>1. oldest < e
      BY <2>4, <2>6
    <3>2. e <= from <=> e <= since[a]
      BY <1>2, <1>6, <2>3, <3>1
    <3>3. Kept(pd, cr, a, e, from) = Kept(pd, cr, a, e, since[a])
      <4> HIDE DEF from
      <4> QED BY <3>2 DEF Kept
    <3> HIDE DEF from, R
    <3> QED BY <2>1, <2>5, <2>6, <3>3 DEF e
  <2>7. CASE ~ (back <= R - 1)
    <3>1. e <= oldest
      BY <2>4, <2>7
    <3>2. e <= from
      BY <1>2, <1>6, <2>3, <3>1
    <3>3. Kept(pd, cr, a, e, from) = DNAN
      <4> HIDE DEF from
      <4> QED BY <3>2 DEF Kept
    <3> HIDE DEF from, R
    <3> QED BY <2>1, <2>7, <3>3 DEF e
  <2> QED BY <2>6, <2>7
<1>8. RowsHold(pd, cr, a, Now, cur_row'[a], row_cnt'[a], rows'[a], since'[a])
  <2> HIDE DEF new, c, n, from
  <2> QED BY <1>4, <1>7
<1> QED BY <1>3, <1>4, <1>8, OneChanged DEF pd, cr

LEMMA RestoreRows ==
    ASSUME FileRowInv, CountInv', NEW range_check \in BOOLEAN, Restore(range_check)
    PROVE  RowInv'
<1> DEFINE cr == CreatedAt(samples, last_up)
           pd == PdpFn(samples, cr)
<1>1. /\ RowInv /\ Types /\ AreasOpen(pd, Now, cdp_prep)
      /\ AllRowsHold(pd, cr, Now, cur_row, row_cnt, rows, since)
  BY DEF FileRowInv, RowInv, CountInv, RowsOK
<1>2. CreatedAt(samples', last_up') = cr /\ PdpFn(samples', cr) = pd /\ Now' = Now /\ since' = since
  BY DEF Restore, Now
<1>3. ASSUME NEW a \in Archives
      PROVE  /\ row_cnt'[a] = Len(DumpedRows(a)) /\ cur_row'[a] = 0
             /\ rows'[a] = RestoredRows(DumpedRows(a), range_check)
             /\ cdp_prep'[a].val = cdp_prep[a].val
  BY DEF Restore, RestoredCurRow, DumpedCdpPrep
<1> HIDE DEF cr, pd
<1>4. AllRowsHold(pd, cr, Now, cur_row', row_cnt', rows', since')
  <2> SUFFICES ASSUME NEW a \in Archives
               PROVE  RowsHold(pd, cr, a, Now, cur_row'[a], row_cnt'[a], rows'[a], since[a])
    BY <1>2 DEF AllRowsHold
  <2> DEFINE R == row_cnt[a]
             new == RestoredRows(DumpedRows(a), range_check)
  <2>1. R \in Nat \ {0}
    BY <1>1, ArchiveFacts
  <2>2. ASSUME NEW back \in 0 .. R - 1
        PROVE  Len(DumpedRows(a)) = R /\ new[RowAt(0, R, back)] = rows[a][RowAt(cur_row[a], R, back)]
    <3> DEFINE x == rows[a][RowAt(cur_row[a], R, back)]
    <3>1. Len(DumpedRows(a)) = R /\ new[RowAt(0, R, back)] = CheckedRange(x, range_check)
      BY <1>1, RingRestored
    <3>2. InRange(x)
      BY RowsInRange
    <3> HIDE DEF x, new
    <3>3. CheckedRange(x, range_check) = x
      BY <3>2 DEF CheckedRange, InRange, isnan
    <3> QED BY <3>1, <3>3 DEF x
  <2>3. Len(DumpedRows(a)) = R
    <3>1. 0 \in 0 .. R - 1
      BY <2>1
    <3> HIDE DEF R
    <3> QED BY <2>2, <3>1
  <2>4. RowsHold(pd, cr, a, Now, cur_row[a], R, rows[a], since[a])
    BY <1>1 DEF AllRowsHold
  <2> HIDE DEF R, new
  <2>5. RowsHold(pd, cr, a, Now, 0, R, new, since[a])
    BY <2>2, <2>4 DEF RowsHold
  <2> QED BY <1>3, <2>3, <2>5 DEF new
<1>5. AreasOpen(pd, Now, cdp_prep')
  BY <1>1, <1>3 DEF AreasOpen
<1>6. RowsOK(pd, cr, Now, cdp_prep', cur_row', row_cnt', rows', since')
  BY <1>4, <1>5 DEF RowsOK
<1>7. RowsOK(PdpFn(samples', CreatedAt(samples', last_up')), CreatedAt(samples', last_up'), Now',
             cdp_prep', cur_row', row_cnt', rows', since')
  BY <1>2, <1>6
<1> QED BY <1>7 DEF RowInv

LEMMA FileRows == FileRowInv /\ [FileNext]_fileVars => FileRowInv'
<1> SUFFICES ASSUME FileRowInv, [FileNext]_fileVars PROVE FileRowInv'
  OBVIOUS
<1>1. RowInv /\ CountInv /\ RatesInRange(samples)
  BY DEF FileRowInv, RowInv
<1>2. CountInv'
  BY <1>1, FileCounts
<1>3. ASSUME UNCHANGED samples PROVE RatesInRange(samples')
  BY <1>1, <1>3
<1>4. CASE Next
  <2>1. RowInv'
    BY <1>1, <1>4, UpdateRows
  <2>2. PICK t \in Times, v \in Readings[dst] \union {U} :
           SimpleUpdate(t, v) \/ StepUpdate(t, v) \/ RefusedUpdate(t, v)
    BY <1>4 DEF Next
  <2>3. t \in Nat /\ v \in KnownReadings
    BY <1>1, NextReading DEF CountInv
  <2>4. CASE RefusedUpdate(t, v)
    BY <1>3, <2>1, <2>4 DEF RefusedUpdate, FileRowInv
  <2>5. CASE SimpleUpdate(t, v) \/ StepUpdate(t, v)
    <3>1. t > last_up /\ Accepted(t, v, NewRate(t, v))
      BY <2>5 DEF SimpleUpdate, StepUpdate, Timely
    <3> QED BY <2>1, <2>3, <3>1, RatesStayInRange DEF FileRowInv
  <2> QED BY <2>2, <2>4, <2>5
<1>5. ASSUME NEW type \in DsTypes, Tune(type) PROVE FileRowInv'
  <2>1. UNCHANGED <<last_up, samples, cdp_prep, cur_row, row_cnt, rows, since>>
    BY <1>5 DEF Tune, Edit
  <2>2. RowInv'
    BY <1>1, <1>2, <2>1, SameRows
  <2> QED BY <1>3, <2>1, <2>2 DEF FileRowInv
<1>6. ASSUME NEW z \in Resizes, Grow(z.rra, z.rows) \/ Shrink(z.rra, z.rows) PROVE FileRowInv'
  <2>1. z.rra \in Archives /\ z.rows \in Nat \ {0}
    BY QueriesAssumption
  <2>2. UNCHANGED samples
    BY <1>6 DEF Grow, Shrink, Edit
  <2>3. RowInv'
    BY <1>1, <1>2, <1>6, <2>1, GrowRows, ShrinkRows
  <2> QED BY <1>3, <2>2, <2>3 DEF FileRowInv
<1>7. ASSUME NEW range_check \in BOOLEAN, Restore(range_check) PROVE FileRowInv'
  <2>1. UNCHANGED samples
    BY <1>7 DEF Restore
  <2>2. RowInv'
    BY <1>2, <1>7, RestoreRows
  <2> QED BY <1>3, <2>1, <2>2 DEF FileRowInv
<1>8. CASE UNCHANGED fileVars
  <2>1. UNCHANGED <<last_up, samples, cdp_prep, cur_row, row_cnt, rows, since>>
    BY <1>8 DEF fileVars, vars
  <2>2. RowInv'
    BY <1>1, <1>2, <2>1, SameRows
  <2> QED BY <1>3, <2>1, <2>2 DEF FileRowInv
<1> QED BY <1>4, <1>5, <1>6, <1>7, <1>8 DEF FileNext

(* The same of a file that is tuned, resized, dumped and restored between  *)
(* its updates: the rows that are kept stay with their periods, wherever   *)
(* the ring stands, the new ones are those of periods that are lost, and a *)
(* restore that checks the limits of the data source finds every row       *)
(* within them (rrd_resize, rrd_restore -r).                               *)
THEOREM FileRowsAreRight == FileSpec => []RowsMatchReference
<1>1. FileInit => FileRowInv
  BY InitRows DEF FileInit, FileRowInv, RatesInRange, Init
<1>2. FileRowInv /\ [FileNext]_fileVars => FileRowInv'
  BY FileRows
<1>3. FileRowInv => RowsMatchReference
  BY RowsAreRight DEF FileRowInv
<1> QED BY <1>1, <1>2, <1>3, PTL DEF FileSpec

-----------------------------------------------------------------------------
(* reduce_data of RrdReduce.                                               *)

LEMMA ConcatIs ==
    ASSUME NEW m \in Nat, NEW n \in Nat, NEW f, NEW g, f = [k \in 1 .. m |-> f[k]],
           g = [k \in 1 .. n |-> g[k]]
    PROVE  Len(f \o g) = m + n /\ f \o g = [k \in 1 .. m + n |-> (f \o g)[k]]
<1> DEFINE V == {f[i] : i \in 1 .. m} \union {g[i] : i \in 1 .. n}
           h == f \o g
<1>1. /\ \A i \in 1 .. m : f[i] \in V
      /\ \A i \in 1 .. n : g[i] \in V
  OBVIOUS
<1> HIDE DEF V
<1>2. f \in [1 .. m -> V] /\ g \in [1 .. n -> V]
  BY <1>1
<1>3. f \in Seq(V) /\ g \in Seq(V) /\ Len(f) = m /\ Len(g) = n
  BY <1>2
<1>4. h \in Seq(V) /\ Len(h) = m + n
  BY <1>3, ConcatProperties
<1> HIDE DEF h
<1>5. h \in [1 .. m + n -> V]
  BY <1>4
<1>6. h = [k \in 1 .. m + n |-> h[k]]
  BY <1>5
<1> QED BY <1>4, <1>6 DEF h

\* A multiple of s, in multiples of F * s.
LEMMA InSteps ==
    ASSUME NEW s \in Nat \ {0}, NEW F \in Nat \ {0}, NEW A \in Nat
    PROVE  /\ (A * s) % (F * s) = (A % F) * s
           /\ (A * s) \div (F * s) = A \div F
           /\ ((A % F) * s) \div s = A % F
           /\ F * s \in Nat \ {0}
<1> DEFINE q == A \div F
           r == A % F
<1>1. q \in Int /\ r \in 0 .. F - 1 /\ A = q * F + r
  BY DivMod
<1> HIDE DEF q, r
<1>2. F * s \in Nat \ {0}
  BY Product
<1>3. A * s = q * (F * s) + r * s
  BY <1>1
<1>4. r * s \in 0 .. F * s - 1
  <2>1. r * s <= (F - 1) * s /\ 0 * s <= r * s
    BY <1>1, Monotone
  <2>2. (F - 1) * s = F * s - s /\ 0 * s = 0 /\ r * s \in Int
    BY <1>1
  <2> QED BY <1>2, <2>1, <2>2
<1>5. (A * s) % (F * s) = r * s /\ (A * s) \div (F * s) = q
  <2> DEFINE m == F * s
             o == r * s
             n == A * s
  <2>1. m \in Nat \ {0} /\ o \in 0 .. m - 1 /\ n = q * m + o
    BY <1>2, <1>3, <1>4
  <2> HIDE DEF m, o, n
  <2>2. n % m = o /\ n \div m = q
    BY <1>1, <2>1, DivUnique
  <2> QED BY <2>2 DEF m, o, n
<1>6. (r * s) \div s = r
  <2>1. r * s + 0 = r * s /\ 0 \in 0 .. s - 1
    BY <1>1
  <2> QED BY <1>1, <2>1, DivUnique
<1> QED BY <1>2, <1>5, <1>6 DEF q, r

\* The larger of two numbers has no smaller quotient.
LEMMA Quotients ==
    ASSUME NEW F \in Nat \ {0}, NEW A \in Nat, NEW B \in Nat, A <= B
    PROVE  A \div F <= B \div F
<1> DEFINE P == A \div F
           Q == B \div F
<1>1. P \in Int /\ A % F \in 0 .. F - 1 /\ A = P * F + (A % F)
  BY DivMod
<1>2. Q \in Int /\ B % F \in 0 .. F - 1 /\ B = Q * F + (B % F)
  BY DivMod
<1> DEFINE x == A % F
           y == B % F
<1> HIDE DEF P, Q, x, y
<1>3. ASSUME ~ (P <= Q) PROVE FALSE
  <2>1. (Q + 1) * F <= P * F
    BY <1>1, <1>2, <1>3, Monotone
  <2>2. (Q + 1) * F = Q * F + F /\ Q * F \in Int /\ P * F \in Int
    BY <1>1, <1>2
  <2> DEFINE u == Q * F
             v == P * F
  <2>3. u + F <= v /\ u \in Int /\ v \in Int /\ A = v + x /\ B = u + y /\ x \in 0 .. F - 1 /\ y \in 0 .. F - 1
    BY <1>1, <1>2, <2>1, <2>2 DEF x, y
  <2> HIDE DEF u, v
  <2> QED BY <2>3
<1> QED BY <1>1, <1>2, <1>3 DEF P, Q

LEMMA Multiple ==
    ASSUME NEW n \in Nat, NEW s \in Nat \ {0}, n % s = 0
    PROVE  n \div s \in Nat /\ n = (n \div s) * s
<1>1. n = (n \div s) * s + (n % s) /\ n \div s \in Nat
  BY DivMod, DivNat
<1> DEFINE d == n \div s
<1>2. n = d * s + 0 /\ d \in Nat
  BY <1>1
<1> HIDE DEF d
<1>3. n = d * s
  BY <1>2
<1> QED BY <1>2, <1>3 DEF d

\* What rrd_fetch_fn read: a row for each step between two of its multiples.
WasRead(S, f) ==
    /\ f.step \in Nat \ {0} /\ f.start \in Nat /\ f.end \in Nat /\ f.start <= f.end
    /\ f.start % f.step = 0 /\ f.end % f.step = 0
    /\ f.data \in Seq(S) /\ Len(f.data) = (f.end - f.start) \div f.step

\* The same, counted in steps.
LEMMA ReadIs ==
    ASSUME NEW S, NEW f, WasRead(S, f)
    PROVE  \E A \in Nat, B \in Nat :
              A <= B /\ f.start = A * f.step /\ f.end = B * f.step /\ Len(f.data) = B - A
<1> DEFINE s == f.step
           A == f.start \div s
           B == f.end \div s
<1>1. s \in Nat \ {0} /\ f.start \in Nat /\ f.end \in Nat /\ f.start <= f.end
  BY DEF WasRead
<1>2. A \in Nat /\ f.start = A * s
  BY <1>1, Multiple DEF WasRead
<1>3. B \in Nat /\ f.end = B * s
  BY <1>1, Multiple DEF WasRead
<1>4. A <= B
  BY <1>1, Quotients
<1>5. Len(f.data) = (f.end - f.start) \div s
  BY DEF WasRead
<1> HIDE DEF A, B, s
<1>6. (f.end - f.start) \div s = B - A
  <2>1. f.end - f.start = (B - A) * s + 0 /\ 0 \in 0 .. s - 1 /\ B - A \in Int
    BY <1>1, <1>2, <1>3
  <2> QED BY <1>1, <2>1, DivUnique
<1>7. A <= B /\ f.start = A * s /\ f.end = B * s /\ Len(f.data) = B - A
  BY <1>1, <1>2, <1>3, <1>4, <1>5, <1>6
<1> QED BY <1>2, <1>3, <1>7 DEF s

\* How many rows are left, in rows of the new step: one less than none when start
\* and end lie within one row.
Left(A, B, F) == (B \div F) - (A \div F) - (IF A % F > 0 THEN 1 ELSE 0)

LEMMA RowsLeft ==
    ASSUME NEW s \in Nat \ {0}, NEW F \in Nat \ {0}, NEW A \in Nat, NEW B \in Nat, A <= B
    PROVE  /\ Left(A, B, F) \in Int /\ Left(A, B, F) >= -1
           /\ Left(A, B, F) = -1 => A \div F = B \div F /\ A % F > 0
           /\ (B - A) - SkipRows((A % F) * s, s, F) - ((B % F) * s) \div s = Left(A, B, F) * F
           /\ SkipRows((A % F) * s, s, F) = IF A % F > 0 THEN F - (A % F) ELSE 0
<1> DEFINE P == A \div F
           Q == B \div F
           x == A % F
           y == B % F
           w == Left(A, B, F)
<1>1. P \in Int /\ x \in 0 .. F - 1 /\ A = P * F + x
  BY DivMod
<1>2. Q \in Int /\ y \in 0 .. F - 1 /\ B = Q * F + y
  BY DivMod
<1>3. P <= Q
  BY Quotients
<1>4. (x * s) \div s = x /\ (y * s) \div s = y
  BY InSteps
<1>5. w = Q - P - (IF x > 0 THEN 1 ELSE 0)
  BY DEF Left
<1> HIDE DEF P, Q, x, y, w
<1>6. x * s > 0 <=> x > 0
  BY <1>1, Product
<1>7. SkipRows(x * s, s, F) = IF x > 0 THEN F - x ELSE 0
  BY <1>4, <1>6 DEF SkipRows
<1>8. w \in Int /\ w >= -1 /\ (w = -1 => P = Q /\ x > 0)
  BY <1>1, <1>2, <1>3, <1>5
<1>9. (B - A) - (IF x > 0 THEN F - x ELSE 0) - y = w * F
  <2>1. CASE x > 0
    <3>1. w * F = Q * F - P * F - F
      BY <2>1, <1>1, <1>2, <1>5
    <3> QED BY <2>1, <3>1, <1>1, <1>2
  <2>2. CASE x = 0
    <3>1. w * F = Q * F - P * F
      BY <2>2, <1>1, <1>2, <1>5
    <3> QED BY <2>2, <3>1, <1>1, <1>2
  <2> QED BY <1>1, <2>1, <2>2
<1> QED BY <1>4, <1>7, <1>8, <1>9 DEF P, Q, x, y, w

\* The unsigned number of rows left, and what the loop makes of it.
LEMMA UnsignedRows ==
    ASSUME NEW F \in Nat \ {0}, NEW w \in Int, w >= -1, F < WORD \div 2, w * F < WORD \div 2
    PROVE  LET n == Unsigned(w * F)
           IN  /\ w >= 0 => n % F = 0
               /\ (IF Signed(n) >= F THEN n \div F ELSE 0) = IF w >= 0 THEN w ELSE 0
<1> DEFINE m == w * F
           n == Unsigned(m)
<1>1. WORD = 65536 /\ WORD \div 2 = 32768
  BY DEF WORD
<1>2. CASE w >= 0
  <2>1. m \in Nat /\ m < 32768
    BY <1>1, <1>2, Product
  <2>2. m % F = 0 /\ m \div F = w
    <3>1. m = w * F + 0 /\ 0 \in 0 .. F - 1
      BY <2>1
    <3> HIDE DEF m
    <3> QED BY <3>1, DivUnique
  <2>3. w >= 1 => 1 * F <= m
    BY Monotone
  <2>4. w = 0 => m = 0
    OBVIOUS
  <2> HIDE DEF m
  <2>5. n = m
    BY <1>1, <2>1 DEF Unsigned
  <2>6. Signed(n) = m
    BY <1>1, <2>1, <2>5 DEF Signed
  <2>7. n % F = 0 /\ n \div F = w
    BY <2>2, <2>5
  <2> HIDE DEF n
  <2>8. Signed(n) >= F <=> w >= 1
    BY <1>2, <2>1, <2>3, <2>4, <2>6
  <2>9. (IF Signed(n) >= F THEN n \div F ELSE 0) = w
    BY <1>2, <2>7, <2>8
  <2> QED BY <1>2, <2>7, <2>9 DEF n, m
<1>3. CASE w = -1
  <2>1. m = -F
    BY <1>3
  <2> HIDE DEF m
  <2>2. n = 65536 - F
    <3> DEFINE W == 65536
    <3>1. W \in Nat \ {0} /\ F < W
      BY <1>1
    <3> HIDE DEF W
    <3>2. m = (-1) * W + (W - F) /\ W - F \in 0 .. W - 1
      BY <2>1, <3>1
    <3>3. m % W = W - F
      <4> DEFINE q == -1
                 o == W - F
      <4>1. q \in Int /\ o \in 0 .. W - 1 /\ m = q * W + o
        BY <3>2
      <4> HIDE DEF q, o
      <4>2. m % W = o
        BY <3>1, <4>1, DivUnique
      <4> QED BY <4>2 DEF o
    <3> QED BY <1>1, <3>3 DEF Unsigned, W
  <2> HIDE DEF n
  <2>3. Signed(n) = -F
    BY <1>1, <2>2 DEF Signed
  <2>4. ~ (Signed(n) >= F)
    BY <2>3
  <2> QED BY <1>3, <2>4 DEF n, m
<1> QED BY <1>2, <1>3

\* The rows before the first that lies wholly in what was read.
Skipped(A, F) == IF A % F > 0 THEN F - (A % F) ELSE 0
OneIf(b) == IF b THEN 1 ELSE 0
Whole(A, B, F) == IF Left(A, B, F) >= 0 THEN Left(A, B, F) ELSE 0

\* A number of steps, rounded down and up to whole rows.
LEMMA RoundedSteps ==
    ASSUME NEW s \in Nat \ {0}, NEW F \in Nat \ {0}, NEW A \in Nat
    PROVE  /\ A \div F \in Nat /\ A % F \in 0 .. F - 1 /\ A = (A \div F) * F + (A % F)
           /\ (A % F) * s > 0 <=> A % F > 0
           /\ A * s - (A % F) * s = (A \div F) * (F * s)
           /\ A * s - (A % F) * s + F * s = ((A \div F) + 1) * (F * s)
<1> DEFINE q == A \div F
           x == A % F
<1>1. q \in Nat /\ x \in 0 .. F - 1 /\ A = q * F + x
  BY DivMod, DivNat
<1> HIDE DEF q, x
<1>2. x * s > 0 <=> x > 0
  BY <1>1, Product
<1>3. A * s = q * (F * s) + x * s /\ x * s \in Int /\ q * (F * s) \in Int /\ F * s \in Int
  BY <1>1
<1>4. (q + 1) * (F * s) = q * (F * s) + F * s
  BY <1>1
<1>5. A * s - x * s = q * (F * s) /\ A * s - x * s + F * s = (q + 1) * (F * s)
  BY <1>3, <1>4
<1> QED BY <1>1, <1>2, <1>5 DEF q, x

SplitInSteps(s, F, A) ==
    /\ (A * s) \div (F * s) = A \div F
    /\ (A * s) % (F * s) = (A % F) * s
    /\ (A % F) * s > 0 <=> A % F > 0
    /\ A \div F \in Nat

LEMMA StepsSplit ==
    ASSUME NEW s \in Nat \ {0}, NEW F \in Nat \ {0}, NEW A \in Nat
    PROVE  SplitInSteps(s, F, A)
<1>1. (A * s) \div (F * s) = A \div F
  BY InSteps
<1>3. (A * s) % (F * s) = (A % F) * s
  BY InSteps, Zenon
<1>2. ((A % F) * s > 0 <=> A % F > 0) /\ A \div F \in Nat
  BY RoundedSteps, Zenon
<1> QED BY <1>1, <1>2, <1>3, Zenon DEF SplitInSteps

\* What was read, and the number of its rows that become one, in steps of s.
InUnits(f, wanted, s, F, A, B) ==
    /\ f.step = s /\ f.start = A * s /\ f.end = B * s /\ Len(f.data) = B - A
    /\ F = (wanted + s - 1) \div s /\ F < WORD \div 2 /\ B - A < WORD \div 2

\* reduce_data with its step and its factor.
ReducedBy(cf, f, cur_step, factor) ==
    LET step == cur_step * factor
        start_offset == f.start % step
        end_offset == f.end % step
        skiprows == SkipRows(start_offset, cur_step, factor)
        rows_left == Unsigned(Len(f.data) - skiprows - end_offset \div cur_step)
        whole == IF Signed(rows_left) >= factor THEN rows_left \div factor ELSE 0
    IN  [sane |-> rows_left % factor = 0,
         step |-> step,
         start |-> f.start - start_offset,
         end |-> IF end_offset > 0 THEN f.end - end_offset + step ELSE f.end,
         data |-> Edge(start_offset)
                    \o [k \in 1 .. whole |->
                          Consolidated(cf, SubSeq(f.data, skiprows + (k - 1) * factor + 1,
                                                  skiprows + k * factor))]
                    \o Edge(end_offset)]

\* What reduce_data makes of it.
ReducedTo(cf, f, r, s, F, A, B) ==
    /\ r.step = F * s
    /\ r.start = (A \div F) * (F * s)
    /\ r.end = ((B \div F) + OneIf(B % F > 0)) * (F * s)
    /\ r.sane \/ Left(A, B, F) = -1
    /\ r.data = Edge((A % F) * s)
                  \o [k \in 1 .. Whole(A, B, F) |->
                        Consolidated(cf, SubSeq(f.data, Skipped(A, F) + (k - 1) * F + 1,
                                                Skipped(A, F) + k * F))]
                  \o Edge((B % F) * s)

LEMMA ReducedIs ==
    ASSUME NEW cf, NEW f, NEW wanted, NEW s \in Nat \ {0}, NEW F \in Nat \ {0},
           NEW A \in Nat, NEW B \in Nat, A <= B, InUnits(f, wanted, s, F, A, B)
    PROVE  ReducedTo(cf, f, reduce_data(cf, f, wanted), s, F, A, B)
<1> DEFINE step == s * F
           x == A % F
           y == B % F
           xs == f.start % step
           ys == f.end % step
           sk == SkipRows(xs, s, F)
           n == Unsigned(Len(f.data) - sk - ys \div s)
           whole == IF Signed(n) >= F THEN n \div F ELSE 0
           w == Left(A, B, F)
           r == reduce_data(cf, f, wanted)
<1>0. /\ f.step = s /\ f.start = A * s /\ f.end = B * s /\ Len(f.data) = B - A
      /\ F = (wanted + f.step - 1) \div f.step
  BY Zenon DEF InUnits
<1>1. step = F * s
  OBVIOUS
<1>2. xs = x * s /\ ys = y * s /\ ys \div s = y
  <2>1. (A * s) % (F * s) = x * s
    BY InSteps, Zenon
  <2>0. (B * s) % (F * s) = y * s
    BY InSteps, Zenon
  <2>4. (y * s) \div s = y
    <3>1. y \in Int
      BY RoundedSteps
    <3>2. y * s + 0 = y * s /\ 0 \in 0 .. s - 1
      <4> HIDE DEF y
      <4> QED BY <3>1
    <3> HIDE DEF y
    <3>3. (y * s + 0) \div s = y
      BY <3>1, <3>2, DivUnique, Zenon
    <3> QED BY <3>2, <3>3
  <2>2. xs = (A * s) % (F * s) /\ ys = (B * s) % (F * s)
    BY <1>0, <1>1
  <2>3. xs = x * s /\ ys = y * s
    BY <2>0, <2>1, <2>2
  <2> QED BY <2>3, <2>4
<1>3. sk = Skipped(A, F) /\ (B - A) - sk - ys \div s = w * F
  <2>1. /\ (B - A) - SkipRows(x * s, s, F) - (y * s) \div s = w * F
        /\ SkipRows(x * s, s, F) = Skipped(A, F)
    BY RowsLeft, Zenon DEF Skipped
  <2>2. sk = SkipRows(x * s, s, F) /\ ys \div s = (y * s) \div s
    BY <1>2
  <2> HIDE DEF sk, w, x, y, xs, ys
  <2> QED BY <2>1, <2>2
<1>4. w \in Int /\ w >= -1
  BY RowsLeft
<1>5. x \in 0 .. F - 1 /\ y \in 0 .. F - 1
  BY RoundedSteps, Zenon
<1>6. F < WORD \div 2 /\ w * F < WORD \div 2
  <2>1. sk \in Nat
    <3> HIDE DEF x, sk
    <3> QED BY <1>3, <1>5 DEF Skipped, x
  <2>2. F < 32768 /\ B - A < 32768
    BY DEF InUnits, WORD
  <2>3. w * F = (B - A) - sk - y
    BY <1>2, <1>3
  <2>4. WORD \div 2 = 32768
    BY DEF WORD
  <2> HIDE DEF sk, y, w
  <2> QED BY <1>5, <2>1, <2>2, <2>3, <2>4
<1>7. (w >= 0 => n % F = 0) /\ whole = IF w >= 0 THEN w ELSE 0
  <2>1. n = Unsigned(w * F)
    BY <1>0, <1>3, Zenon
  <2> HIDE DEF n, w
  <2> QED BY <1>4, <1>6, <2>1, UnsignedRows
<1>8. /\ r.sane = (n % F = 0) /\ r.step = step /\ r.start = f.start - xs
      /\ r.end = IF ys > 0 THEN f.end - ys + step ELSE f.end
      /\ r.data = Edge(xs)
                    \o [k \in 1 .. whole |->
                          Consolidated(cf, SubSeq(f.data, sk + (k - 1) * F + 1, sk + k * F))]
                    \o Edge(ys)
  <2>1. r = ReducedBy(cf, f, f.step, (wanted + f.step - 1) \div f.step)
    BY Zenon DEF reduce_data, ReducedBy
  <2>2. r = ReducedBy(cf, f, s, F)
    BY <1>0, <2>1, Zenon
  <2> HIDE DEF r
  <2> QED BY <2>2, Zenon DEF ReducedBy
<1> HIDE DEF r, n, whole, sk, xs, ys
<1>9. r.start = (A \div F) * (F * s)
  <2>1. r.start = A * s - x * s
    BY <1>0, <1>2, <1>8, Zenon
  <2> QED BY <2>1, RoundedSteps, Zenon
<1>10. r.end = ((B \div F) + OneIf(y > 0)) * (F * s)
  <2>1. r.end = IF y > 0 THEN B * s - y * s + F * s ELSE B * s
    BY <1>0, <1>1, <1>2, <1>8, RoundedSteps, Zenon
  <2>2. CASE y > 0
    BY <2>1, <2>2, RoundedSteps, Zenon DEF OneIf
  <2>3. CASE ~ (y > 0)
    <3> DEFINE q == B \div F
    <3>1. B = q * F + y /\ q \in Nat
      BY RoundedSteps, Zenon
    <3> HIDE DEF q, y
    <3>2. y = 0
      BY <1>5, <2>3 DEF y
    <3>3. B * s = (q + 0) * (F * s)
      BY <3>1, <3>2
    <3> QED BY <2>1, <2>3, <3>3, Zenon DEF q, y, OneIf
  <2> QED BY <2>2, <2>3
<1>11. whole = Whole(A, B, F)
  BY <1>7, Zenon DEF Whole
<1>12. r.sane \/ w = -1
  <2>1. r.sane = (n % F = 0) /\ (w >= 0 => n % F = 0)
    BY <1>7, <1>8
  <2> HIDE DEF w
  <2>2. w >= 0 \/ w = -1
    BY <1>4
  <2> QED BY <2>1, <2>2, Zenon
<1>13. /\ r.step = F * s
       /\ r.data = Edge(x * s)
                     \o [k \in 1 .. Whole(A, B, F) |->
                           Consolidated(cf, SubSeq(f.data, Skipped(A, F) + (k - 1) * F + 1,
                                                   Skipped(A, F) + k * F))]
                     \o Edge(y * s)
  BY <1>1, <1>2, <1>3, <1>8, <1>11, Zenon
<1> QED BY <1>9, <1>10, <1>12, <1>13, Zenon DEF r, ReducedTo

LEMMA EdgeIs ==
    ASSUME NEW u \in Int
    PROVE  /\ OneIf(u > 0) \in Nat /\ Edge(u) = [k \in 1 .. OneIf(u > 0) |-> Edge(u)[k]]
           /\ \A k \in 1 .. OneIf(u > 0) : Edge(u)[k] = DNAN
<1>1. CASE u > 0
  <2>1. Edge(u) = <<DNAN>> /\ OneIf(u > 0) = 1
    BY <1>1 DEF Edge, OneIf
  <2>2. <<DNAN>> = [k \in 1 .. 1 |-> <<DNAN>>[k]] /\ \A k \in 1 .. 1 : <<DNAN>>[k] = DNAN
    OBVIOUS
  <2> QED BY <2>1, <2>2
<1>2. CASE ~ (u > 0)
  <2>1. Edge(u) = <<>> /\ OneIf(u > 0) = 0
    BY <1>2 DEF Edge, OneIf
  <2>2. <<>> = [k \in 1 .. 0 |-> <<>>[k]] /\ \A k \in 1 .. 0 : <<>>[k] = DNAN
    OBVIOUS
  <2> QED BY <2>1, <2>2
<1> QED BY <1>1, <1>2

\* Whole rows between the two at the edges.
IsFramed(h, e, m, mid, o) ==
    /\ Len(h) = e + m + o
    /\ \A k \in 1 .. e + m + o : h[k] = IF e < k /\ k <= e + m THEN mid[k - e] ELSE DNAN

LEMMA Framed ==
    ASSUME NEW u \in Int, NEW v \in Int, NEW m \in Nat, NEW mid,
           mid = [k \in 1 .. m |-> mid[k]]
    PROVE  IsFramed(Edge(u) \o mid \o Edge(v), OneIf(u > 0), m, mid, OneIf(v > 0))
<1> DEFINE e == OneIf(u > 0)
           o == OneIf(v > 0)
           left == Edge(u)
           right == Edge(v)
           both == left \o mid
           h == both \o right
<1>1. /\ e \in Nat /\ left = [k \in 1 .. e |-> left[k]] /\ \A k \in 1 .. e : left[k] = DNAN
      /\ o \in Nat /\ right = [k \in 1 .. o |-> right[k]] /\ \A k \in 1 .. o : right[k] = DNAN
  BY EdgeIs, Zenon
<1> HIDE DEF e, o, left, right
<1>2. /\ Len(both) = e + m /\ both = [k \in 1 .. e + m |-> both[k]]
  BY <1>1, ConcatIs
<1>3. \A k \in 1 .. e + m : both[k] = IF k <= e THEN left[k] ELSE mid[k - e]
  BY <1>1, ConcatAt
<1>4. e + m \in Nat
  BY <1>1
<1> HIDE DEF both
<1>5. Len(h) = e + m + o
  BY <1>1, <1>2, <1>4, ConcatIs
<1>6. \A k \in 1 .. e + m + o : h[k] = IF k <= e + m THEN both[k] ELSE right[k - (e + m)]
  BY <1>1, <1>2, <1>4, ConcatAt
<1> HIDE DEF h
<1>7. ASSUME NEW k \in 1 .. e + m + o
      PROVE  h[k] = IF e < k /\ k <= e + m THEN mid[k - e] ELSE DNAN
  <2>0. e \in Nat /\ o \in Nat
    BY <1>1, Zenon
  <2>1. h[k] = IF k <= e + m THEN both[k] ELSE right[k - (e + m)]
    BY <1>6, Zenon
  <2>2. CASE k <= e
    <3>1. k <= e + m /\ k \in 1 .. e + m /\ k \in 1 .. e /\ ~ (e < k)
      BY <2>0, <2>2
    <3>2. both[k] = left[k] /\ left[k] = DNAN
      BY <1>1, <1>3, <2>2, <3>1, Zenon
    <3> QED BY <2>1, <3>1, <3>2, Zenon
  <2>3. CASE e < k /\ k <= e + m
    <3>1. k \in 1 .. e + m /\ ~ (k <= e)
      BY <2>0, <2>3
    <3>2. both[k] = mid[k - e]
      BY <1>3, <3>1, Zenon
    <3> QED BY <2>1, <2>3, <3>2, Zenon
  <2>4. CASE ~ (k <= e + m)
    <3>1. k - (e + m) \in 1 .. o
      BY <2>0, <2>4
    <3>2. right[k - (e + m)] = DNAN
      BY <1>1, <3>1, Zenon
    <3> QED BY <2>1, <2>4, <3>2, Zenon
  <2>5. k <= e \/ (e < k /\ k <= e + m) \/ ~ (k <= e + m)
    BY <2>0
  <2> QED BY <2>2, <2>3, <2>4, <2>5
<1> QED BY <1>5, <1>7, Zenon DEF h, both, left, right, e, o, IsFramed

LEMMA Scale ==
    ASSUME NEW s \in Nat \ {0}, NEW a \in Int, NEW b \in Int
    PROVE  (a * s <= b * s <=> a <= b) /\ (a * s - b * s) \div s = a - b
<1>1. a <= b => a * s <= b * s
  BY Monotone
<1>2. ASSUME ~ (a <= b) PROVE ~ (a * s <= b * s)
  <2>1. b + 1 <= a /\ b + 1 \in Int
    BY <1>2
  <2>2. (b + 1) * s <= a * s
    BY <2>1, Monotone
  <2>3. (b + 1) * s = b * s + s /\ b * s \in Int /\ a * s \in Int
    OBVIOUS
  <2> DEFINE u == b * s
             v == a * s
  <2>4. u + s <= v /\ u \in Int /\ v \in Int
    BY <2>2, <2>3
  <2> HIDE DEF u, v
  <2>5. ~ (v <= u)
    BY <2>4
  <2> QED BY <2>5 DEF u, v
<1>3. (a * s - b * s) \div s = a - b
  <2> DEFINE d == a - b
  <2>1. a * s - b * s = d * s + 0 /\ 0 \in 0 .. s - 1 /\ d \in Int
    OBVIOUS
  <2> HIDE DEF d
  <2>2. (d * s + 0) \div s = d
    BY <2>1, DivUnique, Zenon
  <2> QED BY <2>1, <2>2 DEF d
<1> QED BY <1>1, <1>2, <1>3

LEMMA NoRest ==
    ASSUME NEW s \in Nat \ {0}, NEW a \in Int
    PROVE  (a * s) % s = 0
<1>1. a * s = a * s + 0 /\ 0 \in 0 .. s - 1
  OBVIOUS
<1>2. (a * s + 0) % s = 0
  BY <1>1, DivUnique, Zenon
<1> QED BY <1>1, <1>2

\* Which rows lie wholly in what was read, and where their own rows begin in it.
Inside(F, A, B, n, whole, e, k, skip) ==
    /\ A <= n <=> e < k
    /\ n + F <= B <=> k <= whole
    /\ skip + ((k - e) - 1) * F = n - A
    /\ skip + (k - e) * F = n - A + F
    /\ n \in Int

LEMMA RowsInside ==
    ASSUME NEW F \in Nat \ {0}, NEW P \in Nat, NEW Q \in Nat, NEW x \in 0 .. F - 1,
           NEW y \in 0 .. F - 1, NEW k \in Nat \ {0}
    PROVE  Inside(F, P * F + x, Q * F + y, (P + (k - 1)) * F, Q - P, OneIf(x > 0), k,
                  IF x > 0 THEN F - x ELSE 0)
<1> DEFINE e == OneIf(x > 0)
           skip == IF x > 0 THEN F - x ELSE 0
           from == (P + (k - 1)) * F
           g == (k - 1) * F
           p == P * F
           q == Q * F
<1>1. from = p + g /\ p \in Nat /\ q \in Nat /\ g \in Int
  OBVIOUS
<1>2. (k = 1 => g = 0) /\ (k >= 2 => F <= g)
  <2>1. k >= 2 => 1 * F <= (k - 1) * F
    BY Monotone
  <2> QED BY <2>1
<1>3. k <= Q - P => from + F <= q
  <2>1. k <= Q - P => (P + k) * F <= Q * F
    BY Monotone
  <2>2. from + F = (P + k) * F
    OBVIOUS
  <2> QED BY <2>1, <2>2
<1>4. ~ (k <= Q - P) => q + F <= from + F
  <2>1. ~ (k <= Q - P) => (Q + 1) * F <= (P + k) * F
    BY Monotone
  <2>2. from + F = (P + k) * F /\ q + F = (Q + 1) * F
    OBVIOUS
  <2> QED BY <2>1, <2>2
<1>5. ((k - e) - 1) * F = IF x > 0 THEN g - F ELSE g
  BY DEF OneIf
<1>6. (k - e) * F = IF x > 0 THEN g ELSE g + F
  BY DEF OneIf
<1>7. e = IF x > 0 THEN 1 ELSE 0
  BY DEF OneIf
<1> HIDE DEF g, p, q, e
<1>8. p + x <= from <=> e < k
  <2> HIDE DEF from, skip
  <2> QED BY <1>1, <1>2, <1>7
<1>9. from + F <= q + y <=> k <= Q - P
  <2> HIDE DEF from, skip
  <2> QED BY <1>1, <1>3, <1>4
<1>10. /\ skip + ((k - e) - 1) * F = from - (p + x)
       /\ skip + (k - e) * F = from - (p + x) + F /\ from \in Int
  <2> DEFINE u == ((k - e) - 1) * F
             v == (k - e) * F
  <2>1. /\ u = IF x > 0 THEN g - F ELSE g
        /\ v = IF x > 0 THEN g ELSE g + F
    BY <1>5, <1>6
  <2> HIDE DEF u, v, from
  <2>2. skip + u = from - (p + x) /\ skip + v = from - (p + x) + F /\ from \in Int
    BY <1>1, <2>1
  <2> QED BY <2>2 DEF u, v
<1> QED BY <1>8, <1>9, <1>10, Zenon DEF p, q, e, Inside

\* The rows of f whose intervals lie between two times.
Between(f, from, to) ==
    SubSeq(f.data, (from - f.start) \div f.step + 1, (to - f.start) \div f.step)

\* Row k of r is the consolidation of the rows of f that lie in it, and unknown
\* if it reaches out of f.
RowIsReduced(cf, f, r, k) ==
    LET from == r.start + (k - 1) * r.step
    IN  r.data[k] = IF f.start <= from /\ from + r.step <= f.end
                    THEN Consolidated(cf, Between(f, from, from + r.step))
                    ELSE DNAN

LEMMA ReducedRow ==
    ASSUME NEW cf, NEW f, NEW wanted, NEW s \in Nat \ {0}, NEW F \in Nat \ {0},
           NEW A \in Nat, NEW B \in Nat, A <= B, InUnits(f, wanted, s, F, A, B),
           NEW k \in 1 .. (B \div F) - (A \div F) + OneIf(B % F > 0)
    PROVE  /\ RowIsReduced(cf, f, reduce_data(cf, f, wanted), k)
           /\ (B \div F) - (A \div F) + OneIf(B % F > 0)
                <= Len(reduce_data(cf, f, wanted).data)
<1> DEFINE P == A \div F
           Q == B \div F
           x == A % F
           y == B % F
           e == OneIf(x > 0)
           o == OneIf(y > 0)
           m == Whole(A, B, F)
           skip == Skipped(A, F)
           mid == [j \in 1 .. m |->
                     Consolidated(cf, SubSeq(f.data, skip + (j - 1) * F + 1, skip + j * F))]
           r == reduce_data(cf, f, wanted)
           n == (P + (k - 1)) * F
           from == r.start + (k - 1) * r.step
<1>1. f.step = s /\ f.start = A * s /\ f.end = B * s
  BY Zenon DEF InUnits
<1>2. /\ r.step = F * s /\ r.start = P * (F * s)
      /\ r.data = Edge(x * s) \o mid \o Edge(y * s)
  <2>1. ReducedTo(cf, f, r, s, F, A, B)
    BY ReducedIs, Zenon
  <2> QED BY <2>1, Zenon DEF ReducedTo
<1>3. /\ P \in Nat /\ x \in 0 .. F - 1 /\ A = P * F + x /\ (x * s > 0 <=> x > 0)
  BY RoundedSteps, Zenon
<1>4. /\ Q \in Nat /\ y \in 0 .. F - 1 /\ B = Q * F + y /\ (y * s > 0 <=> y > 0)
  BY RoundedSteps, Zenon
<1>5. e \in {0, 1} /\ o \in {0, 1} /\ k \in 1 .. Q - P + o
  <2>1. e \in {0, 1}
    BY DEF OneIf
  <2>2. o \in {0, 1}
    BY DEF OneIf
  <2> QED BY <2>1, <2>2, Zenon
<1>6. m \in Nat /\ (e < k /\ k <= e + m <=> e < k /\ k <= Q - P) /\ Q - P + o <= e + m + o
  <2>1. Left(A, B, F) \in Int /\ Left(A, B, F) >= -1
    BY RowsLeft, Zenon
  <2>2. Left(A, B, F) = Q - P - e
    BY DEF Left, OneIf
  <2>3. Left(A, B, F) = -1 => P = Q /\ e = 1
    BY RowsLeft, Zenon DEF OneIf
  <2>4. m = IF Left(A, B, F) >= 0 THEN Left(A, B, F) ELSE 0
    BY Zenon DEF Whole
  <2> DEFINE w == Left(A, B, F)
  <2> HIDE DEF w, m, P, Q, e, o
  <2> QED BY <1>5, <2>1, <2>2, <2>3, <2>4, <1>3, <1>4 DEF w
<1>7. /\ Len(r.data) = e + m + o
      /\ r.data[k] = IF e < k /\ k <= e + m THEN mid[k - e] ELSE DNAN
  <2>1. x * s \in Int /\ y * s \in Int
    <3> HIDE DEF x, y
    <3> QED BY <1>3, <1>4
  <2>2. OneIf(x * s > 0) = e /\ OneIf(y * s > 0) = o
    BY <1>3, <1>4, Zenon DEF OneIf
  <2>3. mid = [j \in 1 .. m |-> mid[j]]
    OBVIOUS
  <2>4. k \in 1 .. e + m + o
    <3> HIDE DEF m, e, o, P, Q
    <3> QED BY <1>3, <1>4, <1>5, <1>6
  <2> DEFINE u == x * s
             v == y * s
  <2>7. u \in Int /\ v \in Int /\ m \in Nat
    BY <1>6, <2>1
  <2> HIDE DEF mid, m, e, o, u, v
  <2>5. IsFramed(Edge(u) \o mid \o Edge(v), OneIf(u > 0), m, mid, OneIf(v > 0))
    BY <2>3, <2>7, Framed, Zenon
  <2>6. OneIf(u > 0) = e /\ OneIf(v > 0) = o /\ r.data = Edge(u) \o mid \o Edge(v)
    BY <1>2, <2>2, Zenon DEF u, v
  <2>8. IsFramed(r.data, e, m, mid, o)
    BY <2>5, <2>6, Zenon
  <2> QED BY <2>4, <2>8, Zenon DEF IsFramed
<1>8. /\ A <= n <=> e < k
      /\ n + F <= B <=> k <= Q - P
      /\ skip + ((k - e) - 1) * F = n - A
      /\ skip + (k - e) * F = n - A + F
      /\ n \in Int
  <2>1. k \in Nat \ {0}
    <3> HIDE DEF P, Q, e, o
    <3> QED BY <1>3, <1>4, <1>5
  <2>2. skip = IF x > 0 THEN F - x ELSE 0
    BY Zenon DEF Skipped
  <2> HIDE DEF P, Q, x, y
  <2>3. Inside(F, P * F + x, Q * F + y, n, Q - P, e, k, IF x > 0 THEN F - x ELSE 0)
    BY <1>3, <1>4, <2>1, RowsInside, Zenon
  <2> HIDE DEF n, e, skip
  <2>4. Inside(F, A, B, n, Q - P, e, k, skip)
    BY <1>3, <1>4, <2>2, <2>3, Zenon
  <2> QED BY <2>4, Zenon DEF Inside
<1>9. from = n * s /\ from + r.step = (n + F) * s
  <2>1. k \in Int
    OBVIOUS
  <2> HIDE DEF P, r
  <2> QED BY <1>2, <1>3, <2>1
<1> HIDE DEF from, n
<1>10. /\ f.start <= from <=> e < k
       /\ from + r.step <= f.end <=> k <= Q - P
       /\ (from - f.start) \div f.step = n - A
       /\ ((from + r.step) - f.start) \div f.step = n + F - A
  <2>1. A \in Int /\ B \in Int /\ n \in Int /\ n + F \in Int
    BY <1>8
  <2> DEFINE t == n + F
  <2>2. A \in Int /\ B \in Int /\ n \in Int /\ t \in Int
    BY <2>1
  <2>3. from = n * s /\ from + r.step = t * s /\ (t <= B <=> k <= Q - P)
    BY <1>8, <1>9, Zenon
  <2> HIDE DEF t, P, Q, e, r
  <2>4. A * s <= n * s <=> A <= n
    BY <2>2, Scale, Zenon
  <2>5. t * s <= B * s <=> t <= B
    BY <2>2, Scale, Zenon
  <2>6. (n * s - A * s) \div s = n - A
    BY <2>2, Scale, Zenon
  <2>7. (t * s - A * s) \div s = t - A
    BY <2>2, Scale, Zenon
  <2>8. f.start <= from <=> e < k
    BY <1>1, <1>8, <2>3, <2>4, Zenon
  <2>9. from + r.step <= f.end <=> k <= Q - P
    BY <1>1, <2>3, <2>5, Zenon
  <2>10. (from - f.start) \div f.step = n - A
    BY <1>1, <2>3, <2>6, Zenon
  <2>11. ((from + r.step) - f.start) \div f.step = t - A
    BY <1>1, <2>3, <2>7, Zenon
  <2>12. t - A = n + F - A
    BY <2>1 DEF t
  <2> QED BY <2>8, <2>9, <2>10, <2>11, <2>12, Zenon
<1>11. e < k /\ k <= Q - P => mid[k - e] = Consolidated(cf, Between(f, from, from + r.step))
  <2> SUFFICES ASSUME e < k /\ k <= Q - P
               PROVE  mid[k - e] = Consolidated(cf, Between(f, from, from + r.step))
    OBVIOUS
  <2>1. k - e \in 1 .. m
    <3> HIDE DEF m, e, P, Q
    <3> QED BY <1>5, <1>6
  <2>2. mid[k - e] = Consolidated(cf, SubSeq(f.data, skip + ((k - e) - 1) * F + 1, skip + (k - e) * F))
    <3> HIDE DEF m, e, skip
    <3> QED BY <2>1, Zenon
  <2>3. n - A + F = n + F - A
    BY <1>8
  <2> QED BY <1>8, <1>10, <2>2, <2>3, Zenon DEF Between
<1>12. r.data[k] = IF f.start <= from /\ from + r.step <= f.end
                   THEN Consolidated(cf, Between(f, from, from + r.step)) ELSE DNAN
  <2> HIDE DEF m, e, P, Q, mid, r
  <2> QED BY <1>6, <1>7, <1>10, <1>11, Zenon
<1>13. (B \div F) - (A \div F) + OneIf(B % F > 0) <= Len(r.data)
  BY <1>6, <1>7, Zenon
<1> QED BY <1>12, <1>13, Zenon DEF RowIsReduced, from, r

\* How many rows make one that is as long as wanted.
LEMMA RowsOfStep ==
    ASSUME NEW s \in Nat \ {0}, NEW wanted \in Nat \ {0}
    PROVE  LET F == (wanted + s - 1) \div s
           IN  F \in Nat \ {0} /\ wanted <= F * s /\ F * s < wanted + s
<1> DEFINE n == wanted + s - 1
           F == n \div s
           d == n % s
<1>1. n \in Nat
  OBVIOUS
<1>2. F \in Nat /\ d \in 0 .. s - 1 /\ n = F * s + d
  <2> HIDE DEF n
  <2> QED BY <1>1, DivMod, DivNat
<1> HIDE DEF F, d
<1>3. wanted <= F * s /\ F * s < wanted + s
  <2> DEFINE m == F * s
  <2>1. m \in Nat /\ n = m + d
    BY <1>2
  <2> HIDE DEF m
  <2>2. wanted <= m /\ m < wanted + s
    BY <1>2, <2>1
  <2> QED BY <2>2 DEF m
<1>4. F # 0
  BY <1>3
<1> QED BY <1>2, <1>3, <1>4 DEF F, n

\* The times of what reduce_data returns.
LEMMA ReducedSpan ==
    ASSUME NEW cf, NEW f, NEW r, NEW s \in Nat \ {0}, NEW F \in Nat \ {0}, NEW A \in Nat,
           NEW B \in Nat, A <= B, ReducedTo(cf, f, r, s, F, A, B),
           f.step = s, f.start = A * s, f.end = B * s
    PROVE  /\ r.step % f.step = 0
           /\ r.start % r.step = 0 /\ r.start <= f.start /\ f.start < r.start + r.step
           /\ r.end % r.step = 0 /\ f.end <= r.end /\ r.end < f.end + r.step
           /\ (r.end - r.start) \div r.step = (B \div F) - (A \div F) + OneIf(B % F > 0)
           /\ r.sane \/ (f.start \div r.step = f.end \div r.step /\ f.start % r.step > 0)
<1> DEFINE z == F * s
           P == A \div F
           Q == B \div F
           c == f.start % z
           d == f.end % z
           o == OneIf(B % F > 0)
<1>1. z \in Nat \ {0} /\ r.step = z /\ r.start = P * z /\ r.end = (Q + o) * z
  <2>1. z \in Nat \ {0}
    BY Product
  <2> QED BY <2>1, Zenon DEF ReducedTo
<1>2. f.start \div z = P /\ c = (A % F) * s /\ f.end \div z = Q /\ d = (B % F) * s
  <2>1. SplitInSteps(s, F, A) /\ SplitInSteps(s, F, B)
    BY StepsSplit, Zenon
  <2>2. (A * s) \div z = P /\ (A * s) % z = (A % F) * s
    BY <2>1, Zenon DEF SplitInSteps
  <2>3. (B * s) \div z = Q /\ (B * s) % z = (B % F) * s
    BY <2>1, Zenon DEF SplitInSteps
  <2> HIDE DEF z, P, Q
  <2> QED BY <2>2, <2>3
<1>3. (c > 0 <=> A % F > 0) /\ (d > 0 <=> B % F > 0) /\ P \in Nat /\ Q \in Nat
  <2>1. SplitInSteps(s, F, A) /\ SplitInSteps(s, F, B)
    BY StepsSplit, Zenon
  <2>2. /\ (A % F) * s > 0 <=> A % F > 0
        /\ (B % F) * s > 0 <=> B % F > 0
        /\ P \in Nat /\ Q \in Nat
    BY <2>1, Zenon DEF SplitInSteps
  <2> HIDE DEF c, d
  <2> QED BY <1>2, <2>2, Zenon
<1>4. f.start \in Int /\ f.end \in Int
  BY Product
<1>5. c \in 0 .. z - 1 /\ f.start = P * z + c
  <2> HIDE DEF z, P
  <2> QED BY <1>1, <1>2, <1>4, DivMod
<1>6. d \in 0 .. z - 1 /\ f.end = Q * z + d
  <2> HIDE DEF z, Q
  <2> QED BY <1>1, <1>2, <1>4, DivMod
<1>7. o = IF d > 0 THEN 1 ELSE 0
  BY <1>3, Zenon DEF OneIf
<1> HIDE DEF z, P, Q, c, d, o
<1>8. r.step % f.step = 0
  <2>1. (F * s) % s = 0
    <3>1. F \in Int
      OBVIOUS
    <3> QED BY <3>1, NoRest, Zenon
  <2> QED BY <1>1, <2>1 DEF z
<1>9. r.start % r.step = 0 /\ r.start <= f.start /\ f.start < r.start + r.step
  <2>1. (P * z) % z = 0
    <3>1. P \in Int
      BY <1>3
    <3> QED BY <1>1, <3>1, NoRest, Zenon
  <2> DEFINE p == P * z
  <2>2. p \in Int
    BY <1>1, <1>3
  <2> HIDE DEF p
  <2>3. r.start = p /\ f.start = p + c /\ p % z = 0
    BY <1>1, <1>5, <2>1 DEF p
  <2> QED BY <1>1, <1>5, <2>2, <2>3
<1>10. r.end % r.step = 0 /\ f.end <= r.end /\ r.end < f.end + r.step
  <2>1. o \in Int
    BY <1>7
  <2>2. ((Q + o) * z) % z = 0
    <3>1. Q + o \in Int
      BY <1>3, <2>1
    <3> QED BY <1>1, <3>1, NoRest, Zenon
  <2> DEFINE q == Q * z
             t == (Q + o) * z
  <2>3. q \in Int
    BY <1>1, <1>3
  <2>4. t = IF d > 0 THEN q + z ELSE q
    <3>1. (Q + 1) * z = q + z /\ (Q + 0) * z = q
      BY <1>1, <1>3
    <3> QED BY <1>7, <3>1
  <2> HIDE DEF q, t
  <2>5. r.end = t /\ f.end = q + d /\ t % z = 0
    BY <1>1, <1>6, <2>2 DEF q, t
  <2> QED BY <1>1, <1>6, <2>3, <2>4, <2>5
<1>11. (r.end - r.start) \div r.step = Q - P + o
  <2>1. o \in Int /\ Q + o \in Int /\ P \in Int
    BY <1>3, <1>7
  <2> DEFINE q == Q + o
  <2> HIDE DEF q
  <2>2. q \in Int /\ r.end = q * z
    BY <1>1, <2>1 DEF q
  <2>3. (q * z - P * z) \div z = q - P
    BY <1>1, <2>1, <2>2, Scale, Zenon
  <2>4. q - P = Q - P + o
    BY <1>3, <2>1 DEF q
  <2> QED BY <1>1, <2>2, <2>3, <2>4
<1>12. r.sane \/ (f.start \div r.step = f.end \div r.step /\ f.start % r.step > 0)
  <2>1. r.sane \/ Left(A, B, F) = -1
    BY Zenon DEF ReducedTo
  <2>2. Left(A, B, F) = -1 => P = Q /\ A % F > 0
    BY RowsLeft, Zenon DEF P, Q
  <2> QED BY <1>1, <1>2, <1>3, <2>1, <2>2, Zenon DEF c
<1> QED BY <1>8, <1>9, <1>10, <1>11, <1>12, Zenon DEF P, Q, o

(* reduce_data reduces to the smallest step that is a multiple of the one  *)
(* read and as large as wanted, and to whole rows of it around what was    *)
(* read.  Its rows suffice for them, and each is the consolidation of      *)
(* exactly the rows read that lie in it, or unknown if it reaches out of   *)
(* what was read: also when the unsigned count of the rows left has        *)
(* wrapped.  The sanity check fails only if it has, which takes a start    *)
(* and an end within one row of the new step.                              *)
THEOREM ReducedRowsAreRight ==
    ASSUME NEW S, NEW f, WasRead(S, f), NEW cf, NEW wanted \in Nat \ {0},
           (wanted + f.step - 1) \div f.step < WORD \div 2, Len(f.data) < WORD \div 2
    PROVE  LET r == reduce_data(cf, f, wanted)
           IN  /\ r.step % f.step = 0 /\ wanted <= r.step /\ r.step < wanted + f.step
               /\ r.start % r.step = 0 /\ r.start <= f.start /\ f.start < r.start + r.step
               /\ r.end % r.step = 0 /\ f.end <= r.end /\ r.end < f.end + r.step
               /\ (r.end - r.start) \div r.step <= Len(r.data)
               /\ \A k \in 1 .. (r.end - r.start) \div r.step : RowIsReduced(cf, f, r, k)
               /\ r.sane \/ (f.start \div r.step = f.end \div r.step /\ f.start % r.step > 0)
<1> DEFINE s == f.step
           F == (wanted + s - 1) \div s
           r == reduce_data(cf, f, wanted)
<1>1. s \in Nat \ {0}
  BY DEF WasRead
<1>2. F \in Nat \ {0} /\ wanted <= F * s /\ F * s < wanted + s
  <2> HIDE DEF s
  <2> QED BY <1>1, RowsOfStep
<1>3. PICK A \in Nat, B \in Nat :
         A <= B /\ f.start = A * s /\ f.end = B * s /\ Len(f.data) = B - A
  BY ReadIs, Zenon
<1>4. InUnits(f, wanted, s, F, A, B)
  BY <1>3, Zenon DEF InUnits
<1> HIDE DEF F, r
<1>5. ReducedTo(cf, f, r, s, F, A, B)
  BY <1>1, <1>2, <1>3, <1>4, ReducedIs, Zenon DEF r
<1> DEFINE n == (B \div F) - (A \div F) + OneIf(B % F > 0)
<1>6. \A k \in 1 .. n : RowIsReduced(cf, f, r, k) /\ n <= Len(r.data)
  BY <1>1, <1>2, <1>3, <1>4, ReducedRow, Zenon DEF r
<1>7. /\ r.step % f.step = 0
      /\ r.start % r.step = 0 /\ r.start <= f.start /\ f.start < r.start + r.step
      /\ r.end % r.step = 0 /\ f.end <= r.end /\ r.end < f.end + r.step
      /\ (r.end - r.start) \div r.step = n
      /\ r.sane \/ (f.start \div r.step = f.end \div r.step /\ f.start % r.step > 0)
  BY <1>1, <1>2, <1>3, <1>5, ReducedSpan, Zenon
<1>8. wanted <= r.step /\ r.step < wanted + f.step
  BY <1>2, <1>5, Zenon DEF ReducedTo
<1>9. n <= Len(r.data)
  <2>1. n \in Int /\ (n >= 1 => n <= Len(r.data))
    <3>1. (B \div F) \in Nat /\ (A \div F) \in Nat
      BY <1>2, RoundedSteps, Zenon
    <3>2. n \in Int
      BY <3>1 DEF OneIf
    <3> HIDE DEF n
    <3> QED BY <1>6, <3>2
  <2>2. Len(r.data) \in Nat
    BY <1>2
  <2> HIDE DEF n
  <2> QED BY <2>1, <2>2
<1> QED BY <1>6, <1>7, <1>8, <1>9, Zenon DEF r
=============================================================================
