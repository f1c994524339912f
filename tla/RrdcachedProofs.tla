--------------------------- MODULE RrdcachedProofs ---------------------------
(***************************************************************************)
(* Proofs about the daemon, for any number of files, connections and queue *)
(* threads: types, the queue against the tree, the waiting FLUSHes, the    *)
(* cleanup that runs alone and, with one queue thread, the values.         *)
(***************************************************************************)
EXTENDS Rrdcached, QueueOpsProofs, FiniteSetTheorems, WellFoundedInduction

(***************************************************************************)
(* The inductive invariant.  NoHandlerInCleanup needs to know that the     *)
(* listener leaves its loop only when the state is no longer RUNNING.      *)
(***************************************************************************)
StoppedListening == mpc \notin {"listen", "accept"} => state # "RUNNING"

Inv == /\ TypeOK
       /\ ThreadsConsistent
       /\ QueueConsistent
       /\ FlushHasWriter
       /\ NoHandlerInCleanup
       /\ StoppedListening

-----------------------------------------------------------------------------
(* The helpers of the actions.                                             *)

\* A nonempty set of bounded numbers has a maximum.
LEMMA MaximumExists ==
    ASSUME NEW n \in Nat, NEW S, S \subseteq 0..n, S # {}
    PROVE  \E m \in S : \A k \in S : k <= m
<1> DEFINE T == {n - k : k \in S}
<1>1. T \subseteq Nat /\ T # {}
  <2>1. \A k \in S : k \in 0..n
    OBVIOUS
  <2>2. \A k \in S : n - k \in Nat
    BY <2>1
  <2>3. PICK k \in S : TRUE
    OBVIOUS
  <2>4. n - k \in T
    BY <2>3
  <2> QED BY <2>2, <2>4
<1>2. PICK x \in T : \A y \in T : ~(<<y, x>> \in OpToRel(<, Nat))
  <2> HIDE DEF T
  <2> QED BY <1>1, WFMin, NatLessThanWellFounded
<1>3. PICK m \in S : x = n - m
  OBVIOUS
<1>4. \A k \in S : ~(n - k < x)
  BY <1>1, <1>2 DEF OpToRel
<1> QED BY <1>3, <1>4

\* The values an UPDATE stores are real timestamps: a value that cannot be
\* read (0) is never newer than another.
LEMMA LegalPrefixType ==
    ASSUME NEW vs \in Seq(0..MaxStamp), NEW stamp \in 0..MaxStamp
    PROVE  LegalPrefix(vs, stamp) \in Seq(Stamps)
<1> DEFINE L == Legal(vs, stamp)
<1>1. L \subseteq 0..Len(vs) /\ L # {}
  <2>1. 0 \in L
    BY DEF Legal
  <2> QED BY <2>1 DEF Legal
<1>2. PICK n \in L : n = (CHOOSE k \in L : \A m \in L : m <= k)
  <2>1. Len(vs) \in Nat
    OBVIOUS
  <2>2. \E k \in L : \A m \in L : m <= k
    <3> HIDE DEF L
    <3> QED BY <1>1, <2>1, MaximumExists
  <2> QED BY <2>2
<1>3. \A i \in 1..n : vs[i] \in Stamps
  <2> TAKE i \in 1..n
  <2>1. n \in 0..Len(vs)
    BY <1>1
  <2>2. vs[i] > (IF i = 1 THEN stamp ELSE vs[i - 1])
    BY <1>2 DEF Legal
  <2>3. i \in 1..Len(vs) /\ (i # 1 => i - 1 \in 1..Len(vs))
    BY <2>1
  <2>4. vs[i] \in 0..MaxStamp /\ (i # 1 => vs[i - 1] \in 0..MaxStamp)
    BY <2>3, ElementOfSeq
  <2> QED BY <2>2, <2>4, BoundAssumption DEF Stamps
<1>4. SubSeq(vs, 1, n) \in Seq(Stamps)
  <2>1. n \in Int
    BY <1>1
  <2> QED BY <1>3, <2>1, SubSeqProperties
<1> QED BY <1>2, <1>4 DEF LegalPrefix

\* The order in which a flush visits a set of items is a queue of them.
LEMMA OrdersType ==
    ASSUME NEW F, F \subseteq Files, NEW s \in Orders(F)
    PROVE  /\ s \in Seq(Files)
           /\ NoDuplicates(s)
           /\ \A x : InQueue(s, x) => x \in F
<1>1. Cardinality(F) \in Nat
  BY FilesAssumption, FS_Subset, FS_CardinalityType
<1>2. s \in [1..Cardinality(F) -> F]
  BY DEF Orders
<1>3. s \in Seq(F) /\ Len(s) = Cardinality(F)
  BY <1>1, <1>2, IsASeq
<1> QED BY <1>3 DEF Orders, InQueue

\* A queue followed by other items is a queue.
LEMMA ConcatIsQueue ==
    ASSUME NEW S, NEW q \in Seq(S), NEW s \in Seq(S), NoDuplicates(q), NoDuplicates(s),
           \A x : InQueue(s, x) => ~InQueue(q, x)
    PROVE  /\ q \o s \in Seq(S)
           /\ NoDuplicates(q \o s)
           /\ \A x : InQueue(q \o s, x) <=> InQueue(q, x) \/ InQueue(s, x)
<1> DEFINE r == q \o s
<1>1. /\ r \in Seq(S)
      /\ Len(r) = Len(q) + Len(s)
      /\ \A i \in 1..(Len(q) + Len(s)) :
            r[i] = IF i <= Len(q) THEN q[i] ELSE s[i - Len(q)]
  BY ConcatProperties, Zenon
<1> HIDE DEF r
<1>2. NoDuplicates(r)
  <2> SUFFICES ASSUME NEW i \in 1..Len(r), NEW j \in 1..Len(r), r[i] = r[j]
               PROVE  i = j
    BY DEF NoDuplicates
  <2>1. CASE i <= Len(q) /\ j <= Len(q)
    BY <2>1, <1>1 DEF NoDuplicates
  <2>2. CASE i <= Len(q) /\ j > Len(q)
    <3>1. i \in 1..Len(q) /\ j - Len(q) \in 1..Len(s) /\ q[i] = s[j - Len(q)]
      BY <2>2, <1>1
    <3> QED BY <3>1 DEF InQueue
  <2>3. CASE i > Len(q) /\ j <= Len(q)
    <3>1. j \in 1..Len(q) /\ i - Len(q) \in 1..Len(s) /\ q[j] = s[i - Len(q)]
      BY <2>3, <1>1
    <3> QED BY <3>1 DEF InQueue
  <2>4. CASE i > Len(q) /\ j > Len(q)
    <3>1. /\ i - Len(q) \in 1..Len(s)
          /\ j - Len(q) \in 1..Len(s)
          /\ s[i - Len(q)] = s[j - Len(q)]
      BY <2>4, <1>1
    <3>2. i - Len(q) = j - Len(q)
      BY <3>1 DEF NoDuplicates
    <3> QED BY <3>2, <1>1
  <2> QED BY <2>1, <2>2, <2>3, <2>4, <1>1
<1>3. ASSUME NEW x PROVE InQueue(r, x) <=> InQueue(q, x) \/ InQueue(s, x)
  <2>1. ASSUME InQueue(r, x) PROVE InQueue(q, x) \/ InQueue(s, x)
    <3>1. PICK i \in 1..Len(r) : r[i] = x
      BY <2>1 DEF InQueue
    <3>2. CASE i <= Len(q)
      BY <3>1, <3>2, <1>1 DEF InQueue
    <3>3. CASE i > Len(q)
      <4>1. i - Len(q) \in 1..Len(s) /\ s[i - Len(q)] = x
        BY <3>1, <3>3, <1>1
      <4> QED BY <4>1 DEF InQueue
    <3> QED BY <3>2, <3>3, <1>1
  <2>2. ASSUME InQueue(q, x) PROVE InQueue(r, x)
    <3>1. PICK i \in 1..Len(q) : q[i] = x
      BY <2>2 DEF InQueue
    <3>2. i \in 1..Len(r) /\ r[i] = x
      BY <3>1, <1>1
    <3> QED BY <3>2 DEF InQueue
  <2>3. ASSUME InQueue(s, x) PROVE InQueue(r, x)
    <3>1. PICK i \in 1..Len(s) : s[i] = x
      BY <2>3 DEF InQueue
    <3>2. /\ i + Len(q) \in 1..(Len(q) + Len(s))
          /\ ~(i + Len(q) <= Len(q))
          /\ (i + Len(q)) - Len(q) = i
      BY <3>1
    <3>3. i + Len(q) \in 1..Len(r) /\ r[i + Len(q)] = x
      BY <3>1, <3>2, <1>1
    <3> QED BY <3>3 DEF InQueue
  <2> QED BY <2>1, <2>2, <2>3
<1> QED BY <1>1, <1>2, <1>3 DEF r

-----------------------------------------------------------------------------
(* What a step must say about each group of variables.                     *)

\* Wakeups change nothing but the phase of waiting queue threads.
LEMMA WokenJobs ==
    ASSUME QueueTypeOK, JobsConsistent, NEW T \in SUBSET QueueWaiters,
           qpc' = Woken(T), UNCHANGED <<qfile, qvals>>
    PROVE  QueueTypeOK' /\ JobsConsistent'
<1>1. \A t \in QueueThreads : qpc'[t] = IF t \in T THEN "woken" ELSE qpc[t]
  BY DEF Woken
<1>2. \A t \in T : t \in QueueThreads /\ qpc[t] = "wait"
  BY DEF QueueWaiters
<1>3. QueueTypeOK'
  BY <1>1 DEF QueueTypeOK, QueuePhases, Woken
<1>4. JobsConsistent'
  BY <1>1, <1>2 DEF JobsConsistent
<1> QED BY <1>3, <1>4

LEMMA SignalJobs ==
    ASSUME QueueTypeOK, JobsConsistent, NEW n, SignalQueue(n),
           UNCHANGED <<qfile, qvals>>
    PROVE  QueueTypeOK' /\ JobsConsistent'
<1>1. PICK T \in SUBSET QueueWaiters : qpc' = Woken(T)
  BY DEF SignalQueue
<1> QED BY <1>1, WokenJobs

\* flush_old_values keeps the queue in step with the tree: it appends items
\* that have values and were not queued, and purges items that are not queued.
LEMMA FlushOldValues ==
    ASSUME CacheTypeOK, QueueConsistent, NEW all \in BOOLEAN, flush_old_values(all)
    PROVE  /\ CacheTypeOK'
           /\ QueueConsistent'
           /\ \A x : InQueue(queue, x) => InQueue(queue', x)
           /\ \A x \in inTree : values[x] # <<>> => x \in inTree'
           /\ inTree' = inTree \ ToPurge
<1> DEFINE F == ToFlush(all)
<1>1. PICK s \in Orders(F) : queue' = queue \o s
  BY DEF flush_old_values
<1>2. /\ F \subseteq Files
      /\ \A f \in F : f \in inTree /\ ~InQueue(queue, f) /\ values[f] # <<>>
  BY DEF ToFlush, CacheTypeOK
<1>3. /\ s \in Seq(Files)
      /\ NoDuplicates(s)
      /\ \A x : InQueue(s, x) => x \in F
  BY <1>2, OrdersType
<1>4. /\ queue' \in Seq(Files)
      /\ NoDuplicates(queue')
      /\ \A x : InQueue(queue', x) <=> InQueue(queue, x) \/ InQueue(s, x)
  BY <1>1, <1>2, <1>3, ConcatIsQueue DEF CacheTypeOK, QueueConsistent
<1>5. /\ inTree' = inTree \ ToPurge
      /\ values' = values
      /\ last' = [f \in Files |-> IF f \in ToPurge THEN 0 ELSE last[f]]
      /\ age' = [f \in Files |-> IF f \in ToPurge THEN 0 ELSE age[f]]
  BY DEF flush_old_values
<1>6. 0 \in Ages /\ 0 \in 0..MaxStamp
  BY TimeAssumption, BoundAssumption DEF Ages, MaxAge
<1>7. CacheTypeOK'
  BY <1>4, <1>5, <1>6 DEF CacheTypeOK
<1>8. \A f \in ToPurge : values[f] = <<>>
  BY DEF ToPurge
<1>9. QueueConsistent'
  BY <1>2, <1>3, <1>4, <1>5, <1>8 DEF QueueConsistent
<1> QED BY <1>4, <1>5, <1>7, <1>8, <1>9

\* A handler that ends, possibly waking FLUSHes of the files in F, leaves the
\* other threads alone; who still waits, waited before for another file.
LEMMA CommandDoneConns ==
    ASSUME ConnTypeOK, ConnsConsistent, NEW c \in Clients, NEW F,
           cpc[c] \notin {"none", "created", "poll"},
           CommandDone(WakeFlushers(cpc, F), c)
    PROVE  /\ ConnTypeOK'
           /\ ConnsConsistent'
           /\ \A d \in Clients : cpc'[d] = "flush_wait" =>
                 /\ cpc[d] = "flush_wait"
                 /\ creq'[d] = creq[d]
                 /\ creq[d].file \notin F
           /\ cpc[c] \in {"none", "created", "poll"} => FALSE
<1> DEFINE pc == WakeFlushers(cpc, F)
<1>1. /\ pc \in [Clients -> ConnPhases]
      /\ \A d \in Clients : pc[d] = IF cpc[d] = "flush_wait" /\ creq[d].file \in F
                                    THEN "woken" ELSE cpc[d]
  BY DEF WakeFlushers, ConnTypeOK, ConnPhases
<1>2. /\ rbuf' = [rbuf EXCEPT ![c] = rbuf[c] - 1]
      /\ cpc' = [pc EXCEPT ![c] = IF rbuf[c] = 1 THEN "poll" ELSE "cmd"]
      /\ creq' = [creq EXCEPT ![c] = NoRequest]
      /\ nconn' = nconn
  BY DEF CommandDone
<1> HIDE DEF pc
<1>3. rbuf[c] > 0 /\ rbuf[c] \in 0..MaxBuffered
  BY DEF ConnsConsistent, ConnTypeOK
<1>4. NoRequest \in Requests
  BY DEF NoRequest, Requests
<1>5. rbuf[c] - 1 \in 0..MaxBuffered
  BY <1>3, BoundAssumption
<1>6. ConnTypeOK'
  BY <1>1, <1>2, <1>4, <1>5 DEF ConnTypeOK, ConnPhases
<1>7. \A d \in Clients :
         /\ cpc'[d] = IF d = c THEN (IF rbuf[c] = 1 THEN "poll" ELSE "cmd") ELSE pc[d]
         /\ rbuf'[d] = IF d = c THEN rbuf[c] - 1 ELSE rbuf[d]
         /\ creq'[d] = IF d = c THEN NoRequest ELSE creq[d]
  BY <1>1, <1>2 DEF ConnTypeOK
<1>8. Counted' = Counted
  BY <1>1, <1>7 DEF Counted
<1>9. ASSUME NEW d \in Clients
      PROVE  /\ cpc'[d] \notin {"none", "created", "poll"} => rbuf'[d] > 0
             /\ cpc'[d] \in {"stat", "flush_wait"} => creq'[d].file \in Files
  <2>1. CASE d = c
    BY <2>1, <1>3, <1>7
  <2>2. CASE d # c
    BY <2>2, <1>1, <1>7 DEF ConnsConsistent
  <2> QED BY <2>1, <2>2
<1>10. ConnsConsistent'
  BY <1>2, <1>8, <1>9 DEF ConnsConsistent
<1>11. \A d \in Clients : cpc'[d] = "flush_wait" =>
          cpc[d] = "flush_wait" /\ creq'[d] = creq[d] /\ creq[d].file \notin F
  BY <1>1, <1>7
<1> QED BY <1>6, <1>10, <1>11

\* Most handlers wake nobody.
LEMMA PlainCommandDoneConns ==
    ASSUME ConnTypeOK, ConnsConsistent, NEW c \in Clients,
           cpc[c] \notin {"none", "created", "poll"},
           CommandDone(cpc, c)
    PROVE  /\ ConnTypeOK'
           /\ ConnsConsistent'
           /\ \A d \in Clients : cpc'[d] = "flush_wait" =>
                 cpc[d] = "flush_wait" /\ creq'[d] = creq[d]
<1>1. cpc = WakeFlushers(cpc, {})
  BY DEF WakeFlushers, ConnTypeOK
<1>2. CommandDone(WakeFlushers(cpc, {}), c)
  BY <1>1
<1> QED BY <1>2, CommandDoneConns

\* A thread that leaves is taken off the count.
LEMMA LeaveConns ==
    ASSUME ConnTypeOK, ConnsConsistent, NEW c \in Clients,
           cpc[c] \notin {"none", "created"}, Leave(c)
    PROVE  /\ ConnTypeOK'
           /\ ConnsConsistent'
           /\ \A d \in Clients : cpc'[d] = "flush_wait" =>
                 cpc[d] = "flush_wait" /\ creq'[d] = creq[d]
           /\ \A d \in Clients : cpc'[d] = cpc[d] \/ cpc'[d] = "none"
<1>1. \A d \in Clients :
         /\ cpc'[d] = IF d = c THEN "none" ELSE cpc[d]
         /\ rbuf'[d] = IF d = c THEN 0 ELSE rbuf[d]
         /\ creq'[d] = IF d = c THEN NoRequest ELSE creq[d]
  BY DEF Leave, ConnTypeOK
<1>2. Counted' = Counted \ {c}
  BY <1>1 DEF Counted
<1>3. c \in Counted /\ IsFiniteSet(Counted)
  BY ThreadsAssumption, FS_Subset DEF Counted
<1>4. /\ Cardinality(Counted \ {c}) = Cardinality(Counted) - 1
      /\ Cardinality(Counted) \in Nat
      /\ Cardinality(Counted \ {c}) \in Nat
  BY <1>3, FS_RemoveElement, FS_CardinalityType
<1>5. nconn' = Cardinality(Counted')
  BY <1>2, <1>4 DEF Leave, ConnsConsistent
<1>6. nconn' \in 0..Cardinality(Clients)
  <2>1. Cardinality(Clients) \in Nat
    BY ThreadsAssumption, FS_CardinalityType
  <2>2. nconn \in 0..Cardinality(Clients) /\ nconn' = nconn - 1
    BY DEF Leave, ConnTypeOK
  <2>3. nconn' \in Nat
    BY <1>2, <1>4, <1>5
  <2> QED BY <2>1, <2>2, <2>3
<1>7. NoRequest \in Requests /\ 0 \in 0..MaxBuffered
  BY BoundAssumption DEF NoRequest, Requests
<1>8. ConnTypeOK'
  BY <1>6, <1>7 DEF Leave, ConnTypeOK, ConnPhases
<1>9. ConnsConsistent'
  BY <1>1, <1>5 DEF ConnsConsistent
<1> QED BY <1>1, <1>8, <1>9

\* The FLUSHes that wait keep their writer.
LEMMA FlushHasWriterStep ==
    ASSUME FlushHasWriter,
           \A d \in Clients : cpc'[d] = "flush_wait" =>
              /\ cpc[d] = "flush_wait"
              /\ creq'[d] = creq[d]
              /\ creq[d].file \in inTree'
              /\ \/ InQueue(queue', creq[d].file)
                 \/ \E t \in QueueThreads : qfile'[t] = creq[d].file
    PROVE  FlushHasWriter'
BY DEF FlushHasWriter

\* They do when only the phases of other threads change.
LEMMA FlushHasWriterFrame ==
    ASSUME FlushHasWriter, UNCHANGED <<inTree, queue, qfile>>,
           \A d \in Clients : cpc'[d] = "flush_wait" =>
              cpc[d] = "flush_wait" /\ creq'[d] = creq[d]
    PROVE  FlushHasWriter'
BY DEF FlushHasWriter

\* The value loop of UPDATE: the values stay real timestamps and the item is
\* queued only with values in it.
LEMMA StoreValuesCache ==
    ASSUME CacheTypeOK, QueueConsistent, DataTypeOK,
           NEW f \in Files, f \in inTree',
           NEW vs \in Seq(0..MaxStamp), NEW itemLast \in 0..MaxStamp,
           NEW itemAge, inTree \subseteq inTree', inTree' \subseteq Files,
           age' \in [Files -> Ages],
           StoreValues(f, vs, itemLast, itemAge)
    PROVE  /\ CacheTypeOK'
           /\ QueueConsistent'
           /\ accepted' \in [Files -> SUBSET Stamps]
           /\ stale' \subseteq Files
           /\ \A x : InQueue(queue, x) => InQueue(queue', x)
           /\ (\E n : SignalQueue(n)) \/ UNCHANGED qpc
<1> DEFINE new == LegalPrefix(vs, itemLast)
           vals == values[f] \o new
<1>1. new \in Seq(Stamps)
  BY LegalPrefixType
<1>2. values[f] \in Seq(Stamps)
  BY DEF CacheTypeOK
<1>3. vals \in Seq(Stamps) /\ (values[f] # <<>> => vals # <<>>)
  BY <1>1, <1>2
<1> HIDE DEF new, vals
<1>4. /\ values' = [values EXCEPT ![f] = vals]
      /\ last' = [last EXCEPT ![f] = IF new = <<>> THEN itemLast ELSE new[Len(new)]]
      /\ \/ vals # <<>> /\ queue' = AtTail(queue, f) /\ SignalQueue(1)
         \/ UNCHANGED <<queue, qpc>>
      /\ accepted' = [accepted EXCEPT ![f] = @ \union {new[i] : i \in 1..Len(new)}]
      /\ stale' = stale \union {f} \/ stale' = stale
  BY DEF StoreValues, new, vals
<1>5. new # <<>> => new[Len(new)] \in 0..MaxStamp
  <2>1. new # <<>> => new[Len(new)] \in Stamps
    BY <1>1
  <2> QED BY <2>1, BoundAssumption DEF Stamps
<1>6. /\ AtTail(queue, f) \in Seq(Files)
      /\ NoDuplicates(AtTail(queue, f))
      /\ \A x : InQueue(AtTail(queue, f), x) <=> InQueue(queue, x) \/ x = f
  BY AtTailIsQueue DEF CacheTypeOK, QueueConsistent
<1>7. /\ queue' \in Seq(Files)
      /\ NoDuplicates(queue')
      /\ \A x : InQueue(queue', x) => InQueue(queue, x) \/ (x = f /\ vals # <<>>)
      /\ \A x : InQueue(queue, x) => InQueue(queue', x)
  BY <1>4, <1>6 DEF CacheTypeOK, QueueConsistent
<1>8. CacheTypeOK'
  BY <1>3, <1>4, <1>5, <1>7 DEF CacheTypeOK
<1>9. QueueConsistent'
  BY <1>2, <1>3, <1>4, <1>7 DEF QueueConsistent, CacheTypeOK
<1>10. {new[i] : i \in 1..Len(new)} \subseteq Stamps
  BY <1>1
<1>11. accepted' \in [Files -> SUBSET Stamps] /\ stale' \subseteq Files
  BY <1>4, <1>10 DEF DataTypeOK
<1> QED BY <1>4, <1>7, <1>8, <1>9, <1>11

-----------------------------------------------------------------------------
(* Frames: a part of the invariant survives a step that leaves its         *)
(* variables alone.                                                        *)

LEMMA CacheFrame ==
    ASSUME CacheTypeOK, QueueConsistent, UNCHANGED cacheVars
    PROVE  CacheTypeOK' /\ QueueConsistent'
BY DEF CacheTypeOK, QueueConsistent, cacheVars

LEMMA ConnFrame ==
    ASSUME ConnTypeOK, ConnsConsistent, UNCHANGED connVars
    PROVE  /\ ConnTypeOK'
           /\ ConnsConsistent'
           /\ \A d \in Clients : cpc'[d] = "flush_wait" =>
                 cpc[d] = "flush_wait" /\ creq'[d] = creq[d]
BY DEF ConnTypeOK, ConnsConsistent, connVars, Counted

LEMMA JobsFrame ==
    ASSUME QueueTypeOK, JobsConsistent, UNCHANGED queueVars
    PROVE  QueueTypeOK' /\ JobsConsistent'
BY DEF QueueTypeOK, JobsConsistent, queueVars

\* While a handler runs, the main thread has not reached the cleanup.
LEMMA HandlerBeforeCleanup ==
    ASSUME NoHandlerInCleanup, NEW c \in Clients,
           cpc[c] \notin {"none", "created", "poll"}, UNCHANGED mpc
    PROVE  NoHandlerInCleanup'
BY DEF NoHandlerInCleanup

\* A step of a connection thread that touches only its own state.
LEMMA ConnOnlyStep ==
    ASSUME Inv,
           UNCHANGED <<state, fas, cacheVars, leaked, queueVars, flushVars, mpc, disk,
                       signals, failures, histVars>>,
           ConnTypeOK', ConnsConsistent', NoHandlerInCleanup',
           \A d \in Clients : cpc'[d] = "flush_wait" =>
              cpc[d] = "flush_wait" /\ creq'[d] = creq[d]
    PROVE  Inv'
<1>1. CacheTypeOK' /\ QueueConsistent'
  BY CacheFrame DEF Inv, TypeOK
<1>2. QueueTypeOK' /\ JobsConsistent'
  BY JobsFrame DEF Inv, TypeOK, ThreadsConsistent
<1>3. ControlTypeOK' /\ DataTypeOK' /\ StoppedListening'
  BY DEF Inv, TypeOK, ControlTypeOK, DataTypeOK, StoppedListening, flushVars, histVars
<1>4. FlushHasWriter'
  BY FlushHasWriterFrame DEF Inv, cacheVars, queueVars
<1> QED BY <1>1, <1>2, <1>3, <1>4 DEF Inv, TypeOK, ThreadsConsistent

\* A handler that ends without having done more.
LEMMA PlainHandlerStep ==
    ASSUME Inv, NEW c \in Clients, cpc[c] \notin {"none", "created", "poll"},
           CommandDone(cpc, c),
           UNCHANGED <<state, fas, cacheVars, leaked, queueVars, flushVars, mpc, disk,
                       signals, failures, histVars>>
    PROVE  Inv'
<1>1. /\ ConnTypeOK'
      /\ ConnsConsistent'
      /\ \A d \in Clients : cpc'[d] = "flush_wait" =>
            cpc[d] = "flush_wait" /\ creq'[d] = creq[d]
  BY PlainCommandDoneConns DEF Inv, TypeOK, ThreadsConsistent
<1>2. NoHandlerInCleanup'
  BY HandlerBeforeCleanup DEF Inv
<1> QED BY <1>1, <1>2, ConnOnlyStep

\* A connection that ends without having done more.
LEMMA LeaveStep ==
    ASSUME Inv, NEW c \in Clients, cpc[c] \notin {"none", "created"}, Leave(c),
           UNCHANGED <<state, fas, cacheVars, leaked, queueVars, flushVars, mpc, disk,
                       signals, failures, histVars>>
    PROVE  Inv'
<1>1. /\ ConnTypeOK'
      /\ ConnsConsistent'
      /\ \A d \in Clients : cpc'[d] = "flush_wait" =>
            cpc[d] = "flush_wait" /\ creq'[d] = creq[d]
      /\ \A d \in Clients : cpc'[d] = cpc[d] \/ cpc'[d] = "none"
  BY LeaveConns DEF Inv, TypeOK, ThreadsConsistent
<1>2. NoHandlerInCleanup'
  BY <1>1 DEF Inv, NoHandlerInCleanup
<1> QED BY <1>1, <1>2, ConnOnlyStep

-----------------------------------------------------------------------------
(* The steps of a connection thread.                                       *)

LEMMA ConnStartInv ==
    ASSUME Inv, NEW c \in Clients, ConnStart(c)
    PROVE  Inv'
<1>1. /\ cpc[c] = "created"
      /\ cpc' = [cpc EXCEPT ![c] = "poll"]
      /\ nconn' = nconn + 1
      /\ UNCHANGED <<rbuf, creq, mpc>>
  BY DEF ConnStart
<1>2. cpc \in [Clients -> ConnPhases]
  BY DEF Inv, TypeOK, ConnTypeOK
<1>3. \A d \in Clients : cpc'[d] = IF d = c THEN "poll" ELSE cpc[d]
  BY <1>1, <1>2
<1>4. Counted' = Counted \union {c} /\ c \notin Counted
  BY <1>1, <1>3 DEF Counted
<1>5. /\ IsFiniteSet(Counted')
      /\ IsFiniteSet(Counted)
      /\ Cardinality(Counted') <= Cardinality(Clients)
      /\ Cardinality(Counted) \in Nat
      /\ Cardinality(Clients) \in Nat
  BY ThreadsAssumption, FS_Subset, FS_CardinalityType DEF Counted
<1>6. Cardinality(Counted') = Cardinality(Counted) + 1
  BY <1>4, <1>5, FS_AddElement
<1>7. nconn' = Cardinality(Counted') /\ nconn' \in 0..Cardinality(Clients)
  BY <1>1, <1>5, <1>6 DEF Inv, ThreadsConsistent, ConnsConsistent
<1>8. ConnTypeOK'
  BY <1>1, <1>2, <1>7 DEF Inv, TypeOK, ConnTypeOK, ConnPhases
<1>9. ConnsConsistent'
  BY <1>1, <1>3, <1>7 DEF Inv, ThreadsConsistent, ConnsConsistent
<1>10. NoHandlerInCleanup'
  BY <1>1, <1>3 DEF Inv, NoHandlerInCleanup
<1> QED BY <1>1, <1>3, <1>8, <1>9, <1>10, ConnOnlyStep DEF ConnStart

LEMMA ConnReadInv ==
    ASSUME Inv, NEW c \in Clients, ConnRead(c)
    PROVE  Inv'
<1>1. PICK n \in 1..MaxBuffered : rbuf' = [rbuf EXCEPT ![c] = n]
  BY DEF ConnRead
<1>2. /\ cpc[c] = "poll"
      /\ state = "RUNNING"
      /\ cpc' = [cpc EXCEPT ![c] = "cmd"]
      /\ UNCHANGED <<creq, nconn, mpc>>
  BY DEF ConnRead
<1>3. n \in 0..MaxBuffered /\ n > 0
  BY BoundAssumption
<1>4. ConnTypeOK'
  BY <1>1, <1>2, <1>3 DEF Inv, TypeOK, ConnTypeOK, ConnPhases
<1>5. \A d \in Clients : /\ cpc'[d] = IF d = c THEN "cmd" ELSE cpc[d]
                         /\ rbuf'[d] = IF d = c THEN n ELSE rbuf[d]
  BY <1>1, <1>2 DEF Inv, TypeOK, ConnTypeOK
<1>6. Counted' = Counted
  BY <1>2, <1>5 DEF Counted
<1>7. ConnsConsistent'
  BY <1>2, <1>3, <1>5, <1>6 DEF Inv, ThreadsConsistent, ConnsConsistent
<1>8. NoHandlerInCleanup'
  BY <1>2 DEF Inv, StoppedListening, NoHandlerInCleanup
<1> QED BY <1>2, <1>4, <1>5, <1>7, <1>8, ConnOnlyStep DEF ConnRead

LEMMA UpdateUnknownInv ==
    ASSUME Inv, NEW c \in Clients, UpdateUnknown(c)
    PROVE  Inv'
<1>1. PICK f \in Files, vs \in UpdateArgs :
         creq' = [creq EXCEPT ![c] = [file |-> f, args |-> vs]]
  BY DEF UpdateUnknown
<1>2. /\ cpc[c] = "cmd"
      /\ cpc' = [cpc EXCEPT ![c] = "stat"]
      /\ UNCHANGED <<rbuf, nconn, mpc>>
  BY DEF UpdateUnknown, Handles
<1>3. vs \in Seq(0..MaxStamp)
  BY BoundAssumption DEF UpdateArgs
<1>4. [file |-> f, args |-> vs] \in Requests
  BY <1>3 DEF Requests
<1>5. ConnTypeOK'
  BY <1>1, <1>2, <1>4 DEF Inv, TypeOK, ConnTypeOK, ConnPhases
<1>6. \A d \in Clients :
         /\ cpc'[d] = IF d = c THEN "stat" ELSE cpc[d]
         /\ creq'[d] = IF d = c THEN [file |-> f, args |-> vs] ELSE creq[d]
  BY <1>1, <1>2 DEF Inv, TypeOK, ConnTypeOK
<1>7. Counted' = Counted
  BY <1>2, <1>6 DEF Counted
<1>8. ConnsConsistent'
  BY <1>2, <1>6, <1>7 DEF Inv, ThreadsConsistent, ConnsConsistent
<1>9. NoHandlerInCleanup'
  BY <1>2, HandlerBeforeCleanup DEF Inv
<1> QED BY <1>5, <1>6, <1>8, <1>9, ConnOnlyStep DEF UpdateUnknown

\* Storing values, as UPDATE does it, for a file that is then in the tree.
LEMMA StoreStep ==
    ASSUME Inv, NEW c \in Clients, cpc[c] \notin {"none", "created", "poll"},
           NEW f \in Files, NEW vs \in Seq(0..MaxStamp), NEW itemAge,
           f \in inTree', inTree \subseteq inTree', inTree' \subseteq Files,
           age' \in [Files -> Ages],
           StoreValues(f, vs, last[f], itemAge), CommandDone(cpc, c),
           UNCHANGED <<state, fas, leaked, qfile, qvals, flushVars, mpc, disk, signals,
                       failures>>
    PROVE  Inv'
<1>1. last[f] \in 0..MaxStamp
  BY DEF Inv, TypeOK, CacheTypeOK
<1>2. /\ CacheTypeOK'
      /\ QueueConsistent'
      /\ accepted' \in [Files -> SUBSET Stamps]
      /\ stale' \subseteq Files
      /\ \A x : InQueue(queue, x) => InQueue(queue', x)
      /\ (\E n : SignalQueue(n)) \/ UNCHANGED qpc
  BY <1>1, StoreValuesCache DEF Inv, TypeOK
<1>3. QueueTypeOK' /\ JobsConsistent'
  BY <1>2, SignalJobs, JobsFrame DEF Inv, TypeOK, ThreadsConsistent, queueVars
<1>4. /\ ConnTypeOK'
      /\ ConnsConsistent'
      /\ \A d \in Clients : cpc'[d] = "flush_wait" =>
            cpc[d] = "flush_wait" /\ creq'[d] = creq[d]
  BY PlainCommandDoneConns DEF Inv, TypeOK, ThreadsConsistent
<1>5. ControlTypeOK' /\ DataTypeOK' /\ StoppedListening'
  BY <1>2 DEF Inv, TypeOK, ControlTypeOK, DataTypeOK, StoppedListening, flushVars
<1>6. NoHandlerInCleanup'
  BY HandlerBeforeCleanup DEF Inv
<1>7. FlushHasWriter'
  BY <1>2, <1>4, FlushHasWriterStep DEF Inv, FlushHasWriter
<1> QED BY <1>2, <1>3, <1>4, <1>5, <1>6, <1>7 DEF Inv, TypeOK, ThreadsConsistent

LEMMA UpdateKnownInv ==
    ASSUME Inv, NEW c \in Clients, UpdateKnown(c)
    PROVE  Inv'
<1>1. PICK f \in inTree, vs \in UpdateArgs, lag \in 0..MaxLag :
         StoreValues(f, vs, last[f], age[f] - lag)
  BY DEF UpdateKnown
<1>2. vs \in Seq(0..MaxStamp)
  BY BoundAssumption DEF UpdateArgs
<1>3. cpc[c] = "cmd" /\ CommandDone(cpc, c)
  BY DEF UpdateKnown, Handles
<1>4. UNCHANGED <<state, fas, inTree, age, leaked, qfile, qvals, flushVars, mpc, disk,
                  signals, failures>>
  BY DEF UpdateKnown
<1>5. f \in Files /\ inTree \subseteq Files /\ age \in [Files -> Ages]
  BY DEF Inv, TypeOK, CacheTypeOK
<1> QED BY <1>1, <1>2, <1>3, <1>4, <1>5, StoreStep

\* The age of an item that has just been created.
LEMMA NewAge ==
    ASSUME NEW lag \in 0..MaxLag, NEW j \in Jitters
    PROVE  lag - j \in Ages
<1>1. j \in 0..WriteJitter
  BY TimeAssumption DEF Jitters
<1>2. MaxAge \in Nat /\ MaxLag <= MaxAge
  BY TimeAssumption DEF MaxAge
<1> QED BY <1>1, <1>2, TimeAssumption DEF Ages

LEMMA UpdateInsertInv ==
    ASSUME Inv, NEW c \in Clients, UpdateInsert(c)
    PROVE  Inv'
<1> DEFINE f == creq[c].file
<1>1. /\ cpc[c] = "stat"
      /\ inTree' = inTree \union {f}
      /\ UNCHANGED <<state, fas, qfile, qvals, flushVars, mpc, disk, signals, failures>>
  BY DEF UpdateInsert
<1>2. f \in Files /\ creq[c].args \in Seq(0..MaxStamp)
  BY <1>1 DEF Inv, TypeOK, ConnTypeOK, Requests, ThreadsConsistent, ConnsConsistent
<1>3. PICK lag \in 0..MaxLag, j \in Jitters :
         LET itemAge == IF f \in inTree THEN age[f] ELSE lag - j
         IN  /\ age' = [age EXCEPT ![f] = itemAge]
             /\ IF state = "SHUTDOWN"
                THEN /\ leaked' = TRUE
                     /\ Leave(c)
                     /\ UNCHANGED <<values, last, queue, qpc, histVars>>
                ELSE /\ StoreValues(f, creq[c].args, last[f], itemAge - lag)
                     /\ CommandDone(cpc, c)
                     /\ UNCHANGED leaked
  BY DEF UpdateInsert
<1> DEFINE itemAge == IF f \in inTree THEN age[f] ELSE lag - j
<1>4. age' = [age EXCEPT ![f] = itemAge]
  BY <1>3
<1>5. age' \in [Files -> Ages]
  <2>1. age \in [Files -> Ages] /\ itemAge \in Ages
    BY <1>2, NewAge DEF Inv, TypeOK, CacheTypeOK
  <2> QED BY <1>4, <2>1
<1>6. f \in inTree' /\ inTree \subseteq inTree' /\ inTree' \subseteq Files
  BY <1>1, <1>2 DEF Inv, TypeOK, CacheTypeOK
<1>7. CASE state = "SHUTDOWN"
  <2>1. leaked' = TRUE /\ Leave(c) /\ UNCHANGED <<values, last, queue, qpc, histVars>>
    BY <1>3, <1>7
  <2>2. CacheTypeOK' /\ QueueConsistent'
    BY <2>1, <1>5, <1>6 DEF Inv, TypeOK, CacheTypeOK, QueueConsistent
  <2>3. /\ ConnTypeOK'
        /\ ConnsConsistent'
        /\ \A d \in Clients : cpc'[d] = "flush_wait" =>
              cpc[d] = "flush_wait" /\ creq'[d] = creq[d]
        /\ \A d \in Clients : cpc'[d] = cpc[d] \/ cpc'[d] = "none"
    BY <2>1, <1>1, LeaveConns DEF Inv, TypeOK, ThreadsConsistent
  <2>4. QueueTypeOK' /\ JobsConsistent'
    BY <2>1, <1>1, JobsFrame DEF Inv, TypeOK, ThreadsConsistent, queueVars
  <2>5. ControlTypeOK' /\ DataTypeOK' /\ StoppedListening'
    BY <2>1, <1>1 DEF Inv, TypeOK, ControlTypeOK, DataTypeOK, StoppedListening,
                      flushVars, histVars
  <2>6. NoHandlerInCleanup'
    BY <1>1, HandlerBeforeCleanup DEF Inv
  <2>7. FlushHasWriter'
    BY <2>1, <2>3, <1>1, <1>6, FlushHasWriterStep DEF Inv, FlushHasWriter
  <2> QED BY <2>2, <2>3, <2>4, <2>5, <2>6, <2>7 DEF Inv, TypeOK, ThreadsConsistent
<1>8. CASE state # "SHUTDOWN"
  <2>1. /\ StoreValues(f, creq[c].args, last[f], itemAge - lag)
        /\ CommandDone(cpc, c)
        /\ UNCHANGED leaked
    BY <1>3, <1>8
  <2> HIDE DEF itemAge, f
  <2> QED BY <2>1, <1>1, <1>2, <1>5, <1>6, StoreStep
<1> QED BY <1>7, <1>8

LEMMA FlushFileInv ==
    ASSUME Inv, NEW c \in Clients, FlushFile(c)
    PROVE  Inv'
<1>1. PICK f \in Files :
          IF f \notin inTree \/ values[f] = <<>>
          THEN CommandDone(cpc, c) /\ UNCHANGED <<queue, qpc>>
          ELSE /\ IF queue # <<>> /\ Head(queue) = f
                  THEN UNCHANGED <<queue, qpc>>
                  ELSE queue' = AtHead(queue, f) /\ SignalQueue(1)
               /\ cpc' = [cpc EXCEPT ![c] = "flush_wait"]
               /\ creq' = [creq EXCEPT ![c] = [file |-> f, args |-> values[f]]]
               /\ UNCHANGED <<rbuf, nconn>>
  BY DEF FlushFile
<1>2. /\ cpc[c] = "cmd"
      /\ UNCHANGED <<state, fas, inTree, values, last, age, leaked, qfile, qvals,
                     flushVars, mpc, disk, signals, failures, histVars>>
  BY DEF FlushFile, Handles
<1>3. CASE f \notin inTree \/ values[f] = <<>>
  BY <1>1, <1>2, <1>3, PlainHandlerStep DEF cacheVars, queueVars
<1>4. CASE f \in inTree /\ values[f] # <<>>
  <2>1. /\ cpc' = [cpc EXCEPT ![c] = "flush_wait"]
        /\ creq' = [creq EXCEPT ![c] = [file |-> f, args |-> values[f]]]
        /\ UNCHANGED <<rbuf, nconn>>
        /\ \/ queue # <<>> /\ Head(queue) = f /\ UNCHANGED <<queue, qpc>>
           \/ queue' = AtHead(queue, f) /\ SignalQueue(1)
    BY <1>1, <1>4
  <2>2. /\ queue \in Seq(Files)
        /\ NoDuplicates(queue)
        /\ \A x \in Files : InQueue(queue, x) => x \in inTree /\ values[x] # <<>>
    BY DEF Inv, TypeOK, CacheTypeOK, QueueConsistent
  <2>3. /\ queue' \in Seq(Files)
        /\ NoDuplicates(queue')
        /\ \A x : InQueue(queue', x) <=> InQueue(queue, x) \/ x = f
    <3>1. CASE queue # <<>> /\ Head(queue) = f /\ UNCHANGED <<queue, qpc>>
      BY <3>1, <2>2, TailIsQueue
    <3>2. CASE queue' = AtHead(queue, f)
      BY <3>2, <2>2, AtHeadIsQueue
    <3> QED BY <2>1, <3>1, <3>2
  <2>4. CacheTypeOK' /\ QueueConsistent'
    BY <1>2, <1>4, <2>2, <2>3 DEF Inv, TypeOK, CacheTypeOK, QueueConsistent
  <2>5. QueueTypeOK' /\ JobsConsistent'
    BY <1>2, <2>1, SignalJobs, JobsFrame DEF Inv, TypeOK, ThreadsConsistent, queueVars
  <2>6. [file |-> f, args |-> values[f]] \in Requests
    <3>1. values[f] \in Seq(Stamps)
      BY DEF Inv, TypeOK, CacheTypeOK
    <3>2. values[f] \in Seq(0..MaxStamp)
      BY <3>1, BoundAssumption DEF Stamps
    <3> QED BY <3>2 DEF Requests
  <2>7. ConnTypeOK'
    BY <2>1, <2>6 DEF Inv, TypeOK, ConnTypeOK, ConnPhases
  <2>8. \A d \in Clients :
           /\ cpc'[d] = IF d = c THEN "flush_wait" ELSE cpc[d]
           /\ creq'[d] = IF d = c THEN [file |-> f, args |-> values[f]] ELSE creq[d]
    BY <2>1 DEF Inv, TypeOK, ConnTypeOK
  <2>9. Counted' = Counted
    BY <1>2, <2>8 DEF Counted
  <2>10. ConnsConsistent'
    BY <1>2, <2>1, <2>8, <2>9 DEF Inv, ThreadsConsistent, ConnsConsistent
  <2>11. ControlTypeOK' /\ DataTypeOK' /\ StoppedListening'
    BY <1>2 DEF Inv, TypeOK, ControlTypeOK, DataTypeOK, StoppedListening, flushVars,
                histVars
  <2>12. NoHandlerInCleanup'
    BY <1>2, HandlerBeforeCleanup DEF Inv
  <2>13. FlushHasWriter'
    BY <1>2, <1>4, <2>3, <2>8 DEF Inv, FlushHasWriter
  <2> QED BY <2>4, <2>5, <2>7, <2>10, <2>11, <2>12, <2>13
          DEF Inv, TypeOK, ThreadsConsistent
<1> QED BY <1>3, <1>4

\* A walk over the tree, by whomever: what it purges, nobody waits for any more.
LEMMA FlushWalk ==
    ASSUME Inv, NEW all \in BOOLEAN, flush_old_values(all), UNCHANGED <<qfile, qvals>>,
           \A d \in Clients : cpc'[d] = "flush_wait" =>
              /\ cpc[d] = "flush_wait"
              /\ creq'[d] = creq[d]
              /\ creq[d].file \notin ToPurge
    PROVE  /\ CacheTypeOK'
           /\ QueueConsistent'
           /\ QueueTypeOK'
           /\ JobsConsistent'
           /\ FlushHasWriter'
<1>1. /\ CacheTypeOK'
      /\ QueueConsistent'
      /\ \A x : InQueue(queue, x) => InQueue(queue', x)
      /\ inTree' = inTree \ ToPurge
  BY FlushOldValues DEF Inv, TypeOK
<1>2. SignalQueue(Cardinality(ToFlush(all)))
  BY DEF flush_old_values
<1>3. QueueTypeOK' /\ JobsConsistent'
  BY <1>2, SignalJobs DEF Inv, TypeOK, ThreadsConsistent
<1>4. FlushHasWriter'
  BY <1>1, FlushHasWriterStep DEF Inv, FlushHasWriter
<1> QED BY <1>1, <1>3, <1>4

\* Waking FLUSHes is the only thing another thread does to a connection.
LEMMA WakeConns ==
    ASSUME Inv, NEW F, cpc' = WakeFlushers(cpc, F), UNCHANGED <<rbuf, creq, nconn, mpc>>
    PROVE  /\ ConnTypeOK'
           /\ ConnsConsistent'
           /\ NoHandlerInCleanup'
           /\ \A d \in Clients : cpc'[d] = "flush_wait" =>
                 cpc[d] = "flush_wait" /\ creq'[d] = creq[d] /\ creq[d].file \notin F
<1>1. \A d \in Clients : cpc'[d] = IF cpc[d] = "flush_wait" /\ creq[d].file \in F
                                   THEN "woken" ELSE cpc[d]
  BY DEF WakeFlushers
<1>2. ConnTypeOK'
  BY DEF Inv, TypeOK, ConnTypeOK, ConnPhases, WakeFlushers
<1>3. Counted' = Counted
  BY <1>1 DEF Counted
<1>4. ConnsConsistent'
  BY <1>1, <1>3 DEF Inv, ThreadsConsistent, ConnsConsistent
<1>5. NoHandlerInCleanup'
  BY <1>1 DEF Inv, NoHandlerInCleanup
<1> QED BY <1>1, <1>2, <1>4, <1>5

LEMMA FlushAllInv ==
    ASSUME Inv, NEW c \in Clients, FlushAll(c)
    PROVE  Inv'
<1>1. /\ cpc[c] = "cmd"
      /\ flush_old_values(TRUE)
      /\ CommandDone(WakeFlushers(cpc, ToPurge), c)
      /\ UNCHANGED <<state, fas, leaked, qfile, qvals, flushVars, mpc, disk, signals,
                     failures, histVars>>
  BY DEF FlushAll, Handles
<1>2. /\ ConnTypeOK'
      /\ ConnsConsistent'
      /\ \A d \in Clients : cpc'[d] = "flush_wait" =>
            cpc[d] = "flush_wait" /\ creq'[d] = creq[d] /\ creq[d].file \notin ToPurge
  BY <1>1, CommandDoneConns DEF Inv, TypeOK, ThreadsConsistent
<1>3. CacheTypeOK' /\ QueueConsistent' /\ QueueTypeOK' /\ JobsConsistent' /\ FlushHasWriter'
  BY <1>1, <1>2, FlushWalk
<1>4. ControlTypeOK' /\ DataTypeOK' /\ StoppedListening'
  BY <1>1 DEF Inv, TypeOK, ControlTypeOK, DataTypeOK, StoppedListening, flushVars,
              histVars
<1>5. NoHandlerInCleanup'
  BY <1>1, HandlerBeforeCleanup DEF Inv
<1> QED BY <1>2, <1>3, <1>4, <1>5 DEF Inv, TypeOK, ThreadsConsistent

LEMMA ForgetInv ==
    ASSUME Inv, NEW c \in Clients, Forget(c)
    PROVE  Inv'
<1>1. PICK f \in Files :
         /\ inTree' = inTree \ {f}
         /\ queue' = Removed(queue, f)
         /\ values' = [values EXCEPT ![f] = <<>>]
         /\ last' = [last EXCEPT ![f] = 0]
         /\ age' = [age EXCEPT ![f] = 0]
         /\ accepted' = [accepted EXCEPT ![f] = @ \ Pending(f)]
         /\ CommandDone(WakeFlushers(cpc, {f}), c)
  BY DEF Forget
<1>2. /\ cpc[c] = "cmd"
      /\ UNCHANGED <<state, fas, leaked, queueVars, flushVars, mpc, disk, signals,
                     failures, stale>>
  BY DEF Forget, Handles
<1>3. /\ ConnTypeOK'
      /\ ConnsConsistent'
      /\ \A d \in Clients : cpc'[d] = "flush_wait" =>
            cpc[d] = "flush_wait" /\ creq'[d] = creq[d] /\ creq[d].file \notin {f}
  BY <1>1, <1>2, CommandDoneConns DEF Inv, TypeOK, ThreadsConsistent
<1>4. /\ queue' \in Seq(Files)
      /\ NoDuplicates(queue')
      /\ \A x : InQueue(queue', x) <=> InQueue(queue, x) /\ x # f
  BY <1>1, RemovedIsQueue DEF Inv, TypeOK, CacheTypeOK, QueueConsistent
<1>5. 0 \in Ages /\ 0 \in 0..MaxStamp
  BY TimeAssumption, BoundAssumption DEF Ages, MaxAge
<1>6. CacheTypeOK'
  BY <1>1, <1>4, <1>5 DEF Inv, TypeOK, CacheTypeOK
<1>7. QueueConsistent'
  BY <1>1, <1>4 DEF Inv, TypeOK, CacheTypeOK, QueueConsistent
<1>8. QueueTypeOK' /\ JobsConsistent'
  BY <1>2, JobsFrame DEF Inv, TypeOK, ThreadsConsistent
<1>9. ControlTypeOK' /\ DataTypeOK' /\ StoppedListening'
  BY <1>1, <1>2 DEF Inv, TypeOK, ControlTypeOK, DataTypeOK, StoppedListening, flushVars
<1>10. NoHandlerInCleanup'
  BY <1>2, HandlerBeforeCleanup DEF Inv
<1>11. FlushHasWriter'
  BY <1>1, <1>2, <1>3, <1>4, FlushHasWriterStep DEF Inv, FlushHasWriter, queueVars
<1> QED BY <1>3, <1>6, <1>7, <1>8, <1>9, <1>10, <1>11 DEF Inv, TypeOK, ThreadsConsistent

\* The steps of a connection thread, those of its client included.
LEMMA ConnInv ==
    ASSUME Inv, NEW c \in Clients, ConnStep(c) \/ ClientStep(c)
    PROVE  Inv'
<1>1. CASE ConnStart(c)
  BY <1>1, ConnStartInv
<1>2. CASE ConnStop(c)
  BY <1>2, LeaveStep DEF ConnStop
<1>3. CASE UpdateKnown(c)
  BY <1>3, UpdateKnownInv
<1>4. CASE UpdateUnknown(c)
  BY <1>4, UpdateUnknownInv
<1>5. CASE UpdateInsert(c)
  BY <1>5, UpdateInsertInv
<1>6. CASE FlushFile(c)
  BY <1>6, FlushFileInv
<1>7. CASE FlushReturn(c)
  BY <1>7, PlainHandlerStep DEF FlushReturn
<1>8. CASE FlushAll(c)
  BY <1>8, FlushAllInv
<1>9. CASE Forget(c)
  BY <1>9, ForgetInv
<1>10. CASE Query(c)
  BY <1>10, PlainHandlerStep DEF Query, Handles
<1>11. CASE ConnRead(c)
  BY <1>11, ConnReadInv
<1>12. CASE ConnHangup(c)
  BY <1>12, LeaveStep DEF ConnHangup
<1>13. CASE UpdateStatFails(c)
  BY <1>13, PlainHandlerStep DEF UpdateStatFails
<1> QED BY <1>1, <1>2, <1>3, <1>4, <1>5, <1>6, <1>7, <1>8, <1>9, <1>10, <1>11, <1>12,
           <1>13 DEF ConnStep, ClientStep

-----------------------------------------------------------------------------
(* The steps of the queue threads.                                         *)

\* A step of a queue thread that keeps its file and touches neither the cache
\* nor a connection.
LEMMA WriterStep ==
    ASSUME Inv, QueueTypeOK', JobsConsistent', DataTypeOK', failures' \in 0..MaxFailures,
           UNCHANGED <<state, fas, cacheVars, leaked, connVars, qfile, flushVars, mpc,
                       signals>>
    PROVE  Inv'
<1>1. CacheTypeOK' /\ QueueConsistent'
  BY CacheFrame DEF Inv, TypeOK
<1>2. /\ ConnTypeOK'
      /\ ConnsConsistent'
      /\ \A d \in Clients : cpc'[d] = "flush_wait" =>
            cpc[d] = "flush_wait" /\ creq'[d] = creq[d]
  BY ConnFrame DEF Inv, TypeOK, ThreadsConsistent
<1>3. ControlTypeOK' /\ StoppedListening' /\ NoHandlerInCleanup'
  BY DEF Inv, TypeOK, ControlTypeOK, StoppedListening, NoHandlerInCleanup, flushVars,
         connVars
<1>4. FlushHasWriter'
  BY <1>2, FlushHasWriterFrame DEF Inv, cacheVars
<1> QED BY <1>1, <1>2, <1>3, <1>4 DEF Inv, TypeOK, ThreadsConsistent

\* The thread that takes a file becomes the writer of the FLUSHes that wait
\* for it.
LEMMA TakeInv ==
    ASSUME Inv, NEW t \in QueueThreads, qpc[t] \in {"check", "woken"}, Take(t),
           UNCHANGED <<state, fas, inTree, last, leaked, connVars, flushVars, mpc, disk,
                       signals, failures, histVars>>
    PROVE  Inv'
<1> DEFINE f == Head(queue)
<1>1. /\ queue # <<>>
      /\ qpc' = [qpc EXCEPT ![t] = "write"]
      /\ qfile' = [qfile EXCEPT ![t] = f]
      /\ qvals' = [qvals EXCEPT ![t] = values[f]]
      /\ values' = [values EXCEPT ![f] = <<>>]
      /\ queue' = Tail(queue)
  BY DEF Take
<1>2. PICK j \in Jitters : age' = [age EXCEPT ![f] = 0 - j]
  BY DEF Take
<1>3. queue \in Seq(Files) /\ NoDuplicates(queue)
  BY DEF Inv, TypeOK, CacheTypeOK, QueueConsistent
<1>4. f \in Files /\ InQueue(queue, f) /\ queue' = Removed(queue, f)
  BY <1>1, <1>3, TailIsQueue
<1>5. /\ queue' \in Seq(Files)
      /\ NoDuplicates(queue')
      /\ \A x : InQueue(queue', x) <=> InQueue(queue, x) /\ x # f
  BY <1>3, <1>4, RemovedIsQueue
<1>6. values[f] # <<>> /\ values[f] \in Seq(Stamps)
  BY <1>4 DEF Inv, TypeOK, CacheTypeOK, QueueConsistent
<1>7. 0 - j \in Ages
  <2>1. j \in 0..WriteJitter
    BY TimeAssumption DEF Jitters
  <2>2. MaxAge \in Nat
    BY TimeAssumption DEF MaxAge
  <2> QED BY <2>1, <2>2, TimeAssumption DEF Ages
<1> HIDE DEF f
<1>8. CacheTypeOK'
  <2>1. age \in [Files -> Ages] /\ values \in [Files -> Seq(Stamps)]
    BY DEF Inv, TypeOK, CacheTypeOK
  <2>2. age' \in [Files -> Ages]
    BY <2>1, <1>2, <1>7
  <2>3. values' \in [Files -> Seq(Stamps)]
    <3>1. <<>> \in Seq(Stamps)
      OBVIOUS
    <3>2. values' = [values EXCEPT ![f] = <<>>]
      BY <1>1
    <3> QED BY <2>1, <3>1, <3>2
  <2> QED BY <2>2, <2>3, <1>5 DEF Inv, TypeOK, CacheTypeOK
<1>9. QueueConsistent'
  BY <1>1, <1>5 DEF Inv, TypeOK, CacheTypeOK, QueueConsistent
<1>10. QueueTypeOK'
  BY <1>1, <1>4, <1>6 DEF Inv, TypeOK, QueueTypeOK, QueuePhases
<1>11. \A u \in QueueThreads : /\ qpc'[u] = IF u = t THEN "write" ELSE qpc[u]
                               /\ qfile'[u] = IF u = t THEN f ELSE qfile[u]
                               /\ qvals'[u] = IF u = t THEN values[f] ELSE qvals[u]
  BY <1>1 DEF Inv, TypeOK, QueueTypeOK
<1>12. JobsConsistent'
  BY <1>4, <1>6, <1>11 DEF Inv, ThreadsConsistent, JobsConsistent
<1>13. /\ ConnTypeOK'
       /\ ConnsConsistent'
       /\ \A d \in Clients : cpc'[d] = "flush_wait" =>
             cpc[d] = "flush_wait" /\ creq'[d] = creq[d]
  BY ConnFrame DEF Inv, TypeOK, ThreadsConsistent
<1>14. ControlTypeOK' /\ DataTypeOK' /\ StoppedListening' /\ NoHandlerInCleanup'
  BY DEF Inv, TypeOK, ControlTypeOK, DataTypeOK, StoppedListening, NoHandlerInCleanup,
         flushVars, connVars, histVars
<1>15. qfile[t] = "none"
  BY DEF Inv, ThreadsConsistent, JobsConsistent
<1>16. \A d \in Clients : cpc[d] = "flush_wait" =>
          \/ InQueue(queue', creq[d].file)
          \/ \E u \in QueueThreads : qfile'[u] = creq[d].file
  <2> SUFFICES ASSUME NEW d \in Clients, cpc[d] = "flush_wait"
               PROVE  \/ InQueue(queue', creq[d].file)
                      \/ \E u \in QueueThreads : qfile'[u] = creq[d].file
    OBVIOUS
  <2>1. creq[d].file \in Files
    BY DEF Inv, ThreadsConsistent, ConnsConsistent
  <2>2. CASE InQueue(queue, creq[d].file)
    BY <2>2, <1>5, <1>11
  <2>3. CASE \E u \in QueueThreads : qfile[u] = creq[d].file
    BY <2>1, <2>3, <1>11, <1>15, FilesAssumption
  <2> QED BY <2>2, <2>3 DEF Inv, FlushHasWriter
<1>17. FlushHasWriter'
  BY <1>13, <1>16, FlushHasWriterStep DEF Inv, FlushHasWriter
<1> QED BY <1>8, <1>9, <1>10, <1>12, <1>13, <1>14, <1>17 DEF Inv, TypeOK, ThreadsConsistent

\* A queue thread that goes from one idle phase to another.
LEMMA IdleQueueThread ==
    ASSUME Inv, NEW t \in QueueThreads, NEW pc \in {"check", "wait", "done"},
           qpc[t] \in {"check", "woken"}, qpc' = [qpc EXCEPT ![t] = pc],
           UNCHANGED <<state, fas, cacheVars, leaked, connVars, qfile, qvals, flushVars,
                       mpc, disk, signals, failures, histVars>>
    PROVE  Inv'
<1>1. QueueTypeOK'
  BY DEF Inv, TypeOK, QueueTypeOK, QueuePhases
<1>2. \A u \in QueueThreads : qpc'[u] = IF u = t THEN pc ELSE qpc[u]
  BY DEF Inv, TypeOK, QueueTypeOK
<1>3. JobsConsistent'
  BY <1>2 DEF Inv, ThreadsConsistent, JobsConsistent
<1>4. DataTypeOK' /\ failures' \in 0..MaxFailures
  BY DEF Inv, TypeOK, DataTypeOK, ControlTypeOK, histVars
<1> QED BY <1>1, <1>3, <1>4, WriterStep

LEMMA QueueWriteInv ==
    ASSUME Inv, NEW t \in QueueThreads, QueueWrite(t)
    PROVE  Inv'
<1> DEFINE f == qfile[t]
           v == Head(qvals[t])
           rest == IF \A s \in OnDisk(f) : v > s THEN Tail(qvals[t]) ELSE <<>>
<1>1. /\ qpc[t] = "write"
      /\ disk' = [disk EXCEPT ![f] = Append(@, v)] \/ disk' = disk
      /\ qvals' = [qvals EXCEPT ![t] = rest]
      /\ qpc' = [qpc EXCEPT ![t] = IF rest = <<>> THEN "wrote" ELSE "write"]
      /\ UNCHANGED <<state, fas, cacheVars, leaked, connVars, qfile, flushVars, mpc,
                     signals, failures, histVars>>
  BY DEF QueueWrite
<1>2. /\ qvals[t] \in Seq(Stamps)
      /\ qvals[t] # <<>>
      /\ f \in Files
  BY <1>1 DEF Inv, TypeOK, QueueTypeOK, ThreadsConsistent, JobsConsistent
<1>3. rest \in Seq(Stamps) /\ v \in Stamps
  BY <1>2
<1> HIDE DEF f, v, rest
<1>4. QueueTypeOK'
  BY <1>1, <1>3 DEF Inv, TypeOK, QueueTypeOK, QueuePhases
<1>5. \A u \in QueueThreads :
         /\ qpc'[u] = IF u = t THEN (IF rest = <<>> THEN "wrote" ELSE "write") ELSE qpc[u]
         /\ qvals'[u] = IF u = t THEN rest ELSE qvals[u]
         /\ qfile'[u] = qfile[u]
  BY <1>1 DEF Inv, TypeOK, QueueTypeOK
<1>6. JobsConsistent'
  BY <1>1, <1>5 DEF Inv, ThreadsConsistent, JobsConsistent
<1>7. disk' \in [Files -> Seq(Stamps)]
  <2>1. disk \in [Files -> Seq(Stamps)]
    BY DEF Inv, TypeOK, DataTypeOK
  <2>2. disk[f] \in Seq(Stamps)
    BY <2>1, <1>2
  <2>3. Append(disk[f], v) \in Seq(Stamps)
    BY <2>2, <1>3
  <2> QED BY <2>1, <2>3, <1>1
<1>8. DataTypeOK' /\ failures' \in 0..MaxFailures
  BY <1>1, <1>7 DEF Inv, TypeOK, DataTypeOK, ControlTypeOK, histVars
<1> QED BY <1>1, <1>4, <1>6, <1>8, WriterStep

LEMMA QueueWriteFailsInv ==
    ASSUME Inv, NEW t \in QueueThreads, QueueWriteFails(t)
    PROVE  Inv'
<1>1. /\ qpc[t] = "write"
      /\ failures > 0 /\ failures' = failures - 1
      /\ accepted' = [accepted EXCEPT ![qfile[t]] =
                        @ \ {qvals[t][i] : i \in 1..Len(qvals[t])}]
      /\ qvals' = [qvals EXCEPT ![t] = <<>>]
      /\ qpc' = [qpc EXCEPT ![t] = "wrote"]
      /\ UNCHANGED <<state, fas, cacheVars, leaked, connVars, qfile, flushVars, mpc,
                     disk, signals, stale>>
  BY DEF QueueWriteFails
<1>2. QueueTypeOK'
  BY <1>1 DEF Inv, TypeOK, QueueTypeOK, QueuePhases
<1>3. \A u \in QueueThreads : /\ qpc'[u] = IF u = t THEN "wrote" ELSE qpc[u]
                              /\ qvals'[u] = IF u = t THEN <<>> ELSE qvals[u]
                              /\ qfile'[u] = qfile[u]
  BY <1>1 DEF Inv, TypeOK, QueueTypeOK
<1>4. JobsConsistent'
  BY <1>1, <1>3 DEF Inv, ThreadsConsistent, JobsConsistent
<1>5. DataTypeOK'
  BY <1>1 DEF Inv, TypeOK, DataTypeOK
<1>6. failures' \in 0..MaxFailures
  BY <1>1, BoundAssumption DEF Inv, TypeOK, ControlTypeOK
<1> QED BY <1>1, <1>2, <1>4, <1>5, <1>6, WriterStep

\* The thread gives up its file, and nobody waits for that file any more: the
\* item of a FLUSH that waits is still in the tree.
LEMMA QueueFlushedInv ==
    ASSUME Inv, NEW t \in QueueThreads, QueueFlushed(t)
    PROVE  Inv'
<1>1. /\ qpc[t] = "wrote"
      /\ cpc' = WakeFlushers(cpc, inTree \intersect {qfile[t]})
      /\ qpc' = [qpc EXCEPT ![t] = "check"]
      /\ qfile' = [qfile EXCEPT ![t] = "none"]
      /\ UNCHANGED <<state, fas, cacheVars, leaked, rbuf, creq, nconn, qvals, flushVars,
                     mpc, disk, signals, failures, histVars>>
  BY DEF QueueFlushed
<1>2. CacheTypeOK' /\ QueueConsistent'
  BY <1>1, CacheFrame DEF Inv, TypeOK
<1>3. /\ ConnTypeOK'
      /\ ConnsConsistent'
      /\ NoHandlerInCleanup'
      /\ \A d \in Clients : cpc'[d] = "flush_wait" =>
            /\ cpc[d] = "flush_wait"
            /\ creq'[d] = creq[d]
            /\ creq[d].file \notin inTree \intersect {qfile[t]}
  BY <1>1, WakeConns
<1>4. QueueTypeOK'
  BY <1>1 DEF Inv, TypeOK, QueueTypeOK, QueuePhases
<1>5. \A u \in QueueThreads : /\ qpc'[u] = IF u = t THEN "check" ELSE qpc[u]
                              /\ qfile'[u] = IF u = t THEN "none" ELSE qfile[u]
                              /\ qvals'[u] = qvals[u]
  BY <1>1 DEF Inv, TypeOK, QueueTypeOK
<1>6. JobsConsistent'
  BY <1>1, <1>5 DEF Inv, ThreadsConsistent, JobsConsistent
<1>7. ControlTypeOK' /\ DataTypeOK' /\ StoppedListening'
  BY <1>1 DEF Inv, TypeOK, ControlTypeOK, DataTypeOK, StoppedListening, flushVars,
              histVars
<1>8. FlushHasWriter'
  <2> SUFFICES ASSUME NEW d \in Clients, cpc'[d] = "flush_wait"
               PROVE  /\ creq'[d].file \in inTree'
                      /\ \/ InQueue(queue', creq'[d].file)
                         \/ \E u \in QueueThreads : qfile'[u] = creq'[d].file
    BY DEF FlushHasWriter
  <2>1. /\ cpc[d] = "flush_wait"
        /\ creq'[d] = creq[d]
        /\ creq[d].file \notin inTree \intersect {qfile[t]}
    BY <1>3
  <2>2. /\ creq[d].file \in inTree
        /\ \/ InQueue(queue, creq[d].file)
           \/ \E u \in QueueThreads : qfile[u] = creq[d].file
    BY <2>1 DEF Inv, FlushHasWriter
  <2>3. inTree' = inTree /\ queue' = queue
    BY <1>1 DEF cacheVars
  <2> QED BY <2>1, <2>2, <2>3, <1>5
<1> QED BY <1>2, <1>3, <1>4, <1>6, <1>7, <1>8 DEF Inv, TypeOK, ThreadsConsistent

LEMMA QueueInv ==
    ASSUME Inv, NEW t \in QueueThreads, QueueStep(t) \/ QueueWriteFails(t)
    PROVE  Inv'
<1>1. CASE QueueTake(t)
  BY <1>1, TakeInv DEF QueueTake
<1>2. CASE QueueWait(t)
  BY <1>2, IdleQueueThread DEF QueueWait
<1>3. CASE QueueExit(t)
  BY <1>3, IdleQueueThread DEF QueueExit
<1>4. CASE QueueWoken(t)
  <2>1. CASE Take(t)
    BY <1>4, <2>1, TakeInv DEF QueueWoken
  <2>2. CASE ~Take(t)
    BY <1>4, <2>2, IdleQueueThread DEF QueueWoken, cacheVars
  <2> QED BY <2>1, <2>2
<1>5. CASE QueueWrite(t)
  BY <1>5, QueueWriteInv
<1>6. CASE QueueFlushed(t)
  BY <1>6, QueueFlushedInv
<1>7. CASE QueueWriteFails(t)
  BY <1>7, QueueWriteFailsInv
<1> QED BY <1>1, <1>2, <1>3, <1>4, <1>5, <1>6, <1>7 DEF QueueStep

-----------------------------------------------------------------------------
(* The steps of the flush thread, the main thread, and the rest.           *)

\* A step that touches only the control state.
LEMMA ControlStep ==
    ASSUME Inv, ControlTypeOK', StoppedListening', NoHandlerInCleanup',
           UNCHANGED <<cacheVars, connVars, queueVars, disk, histVars>>
    PROVE  Inv'
<1>1. CacheTypeOK' /\ QueueConsistent'
  BY CacheFrame DEF Inv, TypeOK
<1>2. /\ ConnTypeOK'
      /\ ConnsConsistent'
      /\ \A d \in Clients : cpc'[d] = "flush_wait" =>
            cpc[d] = "flush_wait" /\ creq'[d] = creq[d]
  BY ConnFrame DEF Inv, TypeOK, ThreadsConsistent
<1>3. QueueTypeOK' /\ JobsConsistent'
  BY JobsFrame DEF Inv, TypeOK, ThreadsConsistent
<1>4. DataTypeOK'
  BY DEF Inv, TypeOK, DataTypeOK, histVars
<1>5. FlushHasWriter'
  BY <1>2, FlushHasWriterFrame DEF Inv, cacheVars, queueVars
<1> QED BY <1>1, <1>2, <1>3, <1>4, <1>5 DEF Inv, TypeOK, ThreadsConsistent

LEMMA FlushThreadInv ==
    ASSUME Inv, FlushStep
    PROVE  Inv'
<1>1. FlushInterval \in 0..FlushInterval
  BY TimeAssumption
<1>2. CASE FlushOld
  <2>1. /\ state = "RUNNING"
        /\ due' = FlushInterval
        /\ flush_old_values(FALSE)
        /\ cpc' = WakeFlushers(cpc, ToPurge)
        /\ fpc' = "rotate"
        /\ UNCHANGED <<state, fas, leaked, rbuf, creq, nconn, qfile, qvals, mpc, disk,
                       signals, failures, histVars>>
    BY <1>2 DEF FlushOld
  <2>2. /\ ConnTypeOK'
        /\ ConnsConsistent'
        /\ NoHandlerInCleanup'
        /\ \A d \in Clients : cpc'[d] = "flush_wait" =>
              cpc[d] = "flush_wait" /\ creq'[d] = creq[d] /\ creq[d].file \notin ToPurge
    BY <2>1, WakeConns
  <2>3. /\ CacheTypeOK' /\ QueueConsistent' /\ QueueTypeOK' /\ JobsConsistent'
        /\ FlushHasWriter'
    BY <2>1, <2>2, FlushWalk
  <2>4. ControlTypeOK' /\ DataTypeOK' /\ StoppedListening'
    BY <1>1, <2>1 DEF Inv, TypeOK, ControlTypeOK, DataTypeOK, StoppedListening,
                      histVars, FlushPhases
  <2> QED BY <2>2, <2>3, <2>4 DEF Inv, TypeOK, ThreadsConsistent
<1>3. CASE FlushIdle \/ FlushWait \/ FlushTimeout
  <2>1. /\ fpc' \in FlushPhases
        /\ UNCHANGED <<state, fas, cacheVars, leaked, connVars, queueVars, due, mpc,
                       disk, signals, failures, histVars>>
    BY <1>3 DEF FlushIdle, FlushWait, FlushTimeout, FlushPhases
  <2>2. ControlTypeOK' /\ StoppedListening' /\ NoHandlerInCleanup'
    BY <2>1 DEF Inv, TypeOK, ControlTypeOK, StoppedListening, NoHandlerInCleanup,
                connVars
  <2> QED BY <2>1, <2>2, ControlStep
<1>4. CASE FlushShutdown
  <2>1. /\ state' = "SHUTDOWN"
        /\ fpc' = "done"
        /\ \/ flush_old_values(TRUE) /\ cpc' = WakeFlushers(cpc, ToPurge)
           \/ UNCHANGED <<cacheVars, qpc, cpc>>
        /\ UNCHANGED <<fas, leaked, rbuf, creq, nconn, qfile, qvals, due, mpc, disk,
                       signals, failures, histVars>>
    BY <1>4 DEF FlushShutdown
  <2>2. ControlTypeOK' /\ DataTypeOK' /\ StoppedListening'
    BY <2>1 DEF Inv, TypeOK, ControlTypeOK, DataTypeOK, StoppedListening, histVars,
                FlushPhases
  <2>3. CASE flush_old_values(TRUE) /\ cpc' = WakeFlushers(cpc, ToPurge)
    <3>1. /\ ConnTypeOK'
          /\ ConnsConsistent'
          /\ NoHandlerInCleanup'
          /\ \A d \in Clients : cpc'[d] = "flush_wait" =>
                cpc[d] = "flush_wait" /\ creq'[d] = creq[d] /\ creq[d].file \notin ToPurge
      BY <2>1, <2>3, WakeConns
    <3>2. /\ CacheTypeOK' /\ QueueConsistent' /\ QueueTypeOK' /\ JobsConsistent'
          /\ FlushHasWriter'
      BY <2>1, <2>3, <3>1, FlushWalk
    <3> QED BY <2>2, <3>1, <3>2 DEF Inv, TypeOK, ThreadsConsistent
  <2>4. CASE UNCHANGED <<cacheVars, qpc, cpc>>
    <3>1. NoHandlerInCleanup'
      BY <2>1, <2>4 DEF Inv, NoHandlerInCleanup
    <3> QED BY <2>1, <2>2, <2>4, <3>1, ControlStep DEF connVars, queueVars
  <2> QED BY <2>1, <2>3, <2>4
<1> QED BY <1>2, <1>3, <1>4 DEF FlushStep

\* The process ends: no connection is left.
LEMMA GoneConns ==
    ASSUME Gone
    PROVE  /\ ConnTypeOK'
           /\ ConnsConsistent'
           /\ NoHandlerInCleanup'
           /\ FlushHasWriter'
<1>1. \A d \in Clients : cpc'[d] = "none"
  BY DEF Gone
<1>2. Counted' = {}
  BY <1>1 DEF Counted
<1>3. Cardinality(Clients) \in Nat /\ Cardinality({}) = 0
  BY ThreadsAssumption, FS_CardinalityType, FS_EmptySet
<1>4. NoRequest \in Requests /\ 0 \in 0..MaxBuffered
  BY BoundAssumption DEF NoRequest, Requests
<1>5. ConnTypeOK'
  BY <1>3, <1>4 DEF Gone, ConnTypeOK, ConnPhases
<1>6. ConnsConsistent'
  BY <1>1, <1>2, <1>3 DEF Gone, ConnsConsistent
<1>7. NoHandlerInCleanup' /\ FlushHasWriter'
  BY <1>1 DEF NoHandlerInCleanup, FlushHasWriter
<1> QED BY <1>5, <1>6, <1>7

LEMMA AcceptInv ==
    ASSUME Inv, Accept
    PROVE  Inv'
<1>1. /\ mpc = "accept" /\ mpc' = "listen"
      /\ \/ \E c \in Clients : cpc[c] = "none" /\ cpc' = [cpc EXCEPT ![c] = "created"]
         \/ UNCHANGED cpc
      /\ UNCHANGED <<state, fas, cacheVars, leaked, rbuf, creq, nconn, queueVars,
                     flushVars, disk, signals, failures, histVars>>
  BY DEF Accept
<1>2. ControlTypeOK' /\ DataTypeOK' /\ StoppedListening' /\ NoHandlerInCleanup'
  BY <1>1 DEF Inv, TypeOK, ControlTypeOK, DataTypeOK, StoppedListening,
              NoHandlerInCleanup, flushVars, histVars, MainPhases
<1>3. /\ ConnTypeOK'
      /\ ConnsConsistent'
      /\ \A d \in Clients : cpc'[d] = "flush_wait" =>
            cpc[d] = "flush_wait" /\ creq'[d] = creq[d]
  <2>1. CASE UNCHANGED cpc
    BY <1>1, <2>1, ConnFrame DEF Inv, TypeOK, ThreadsConsistent, connVars
  <2>2. ASSUME NEW c \in Clients, cpc[c] = "none", cpc' = [cpc EXCEPT ![c] = "created"]
        PROVE  /\ ConnTypeOK'
               /\ ConnsConsistent'
               /\ \A d \in Clients : cpc'[d] = "flush_wait" =>
                     cpc[d] = "flush_wait" /\ creq'[d] = creq[d]
    <3>1. \A d \in Clients : cpc'[d] = IF d = c THEN "created" ELSE cpc[d]
      BY <2>2 DEF Inv, TypeOK, ConnTypeOK
    <3>2. Counted' = Counted
      BY <2>2, <3>1 DEF Counted
    <3>3. ConnTypeOK'
      BY <1>1, <2>2 DEF Inv, TypeOK, ConnTypeOK, ConnPhases
    <3>4. ConnsConsistent'
      BY <1>1, <3>1, <3>2 DEF Inv, ThreadsConsistent, ConnsConsistent
    <3> QED BY <1>1, <3>1, <3>3, <3>4
  <2> QED BY <1>1, <2>1, <2>2
<1>4. CacheTypeOK' /\ QueueConsistent'
  BY <1>1, CacheFrame DEF Inv, TypeOK
<1>5. QueueTypeOK' /\ JobsConsistent'
  BY <1>1, JobsFrame DEF Inv, TypeOK, ThreadsConsistent
<1>6. FlushHasWriter'
  BY <1>1, <1>3, FlushHasWriterFrame DEF Inv, cacheVars, queueVars
<1> QED BY <1>2, <1>3, <1>4, <1>5, <1>6 DEF Inv, TypeOK, ThreadsConsistent

\* connection_threads_num = 0: every thread that was accepted is gone, or has
\* not counted itself and has not read anything.
LEMMA DrainedInv ==
    ASSUME Inv, Drained
    PROVE  Inv'
<1>1. /\ mpc = "drain" /\ nconn = 0 /\ mpc' = "join_flush"
      /\ fpc' = WakeFlushThread
      /\ UNCHANGED <<state, fas, cacheVars, leaked, connVars, queueVars, due, disk,
                     signals, failures, histVars>>
  BY DEF Drained
<1>2. Counted = {}
  <2>1. IsFiniteSet(Counted)
    BY ThreadsAssumption, FS_Subset DEF Counted
  <2>2. Cardinality(Counted) = 0
    BY <1>1 DEF Inv, ThreadsConsistent, ConnsConsistent
  <2> QED BY <2>1, <2>2, FS_EmptySet
<1>3. NoHandlerInCleanup'
  BY <1>1, <1>2 DEF NoHandlerInCleanup, Counted, connVars
<1>4. ControlTypeOK' /\ StoppedListening'
  BY <1>1 DEF Inv, TypeOK, ControlTypeOK, StoppedListening, MainPhases, FlushPhases,
              WakeFlushThread
<1> QED BY <1>1, <1>3, <1>4, ControlStep

\* Waking all the queue threads, by JoinFlush or by a signal.
LEMMA WakeQueueStep ==
    ASSUME Inv, qpc' = Woken(QueueWaiters), ControlTypeOK', StoppedListening',
           NoHandlerInCleanup',
           UNCHANGED <<cacheVars, connVars, qfile, qvals, disk, histVars>>
    PROVE  Inv'
<1>1. QueueTypeOK' /\ JobsConsistent'
  BY WokenJobs DEF Inv, TypeOK, ThreadsConsistent
<1>2. CacheTypeOK' /\ QueueConsistent'
  BY CacheFrame DEF Inv, TypeOK
<1>3. /\ ConnTypeOK'
      /\ ConnsConsistent'
      /\ \A d \in Clients : cpc'[d] = "flush_wait" =>
            cpc[d] = "flush_wait" /\ creq'[d] = creq[d]
  BY ConnFrame DEF Inv, TypeOK, ThreadsConsistent
<1>4. DataTypeOK'
  BY DEF Inv, TypeOK, DataTypeOK, histVars
<1>5. FlushHasWriter'
  BY <1>3, FlushHasWriterFrame DEF Inv, cacheVars
<1> QED BY <1>1, <1>2, <1>3, <1>4, <1>5 DEF Inv, TypeOK, ThreadsConsistent

LEMMA JoinFlushInv ==
    ASSUME Inv, JoinFlush
    PROVE  Inv'
<1>1. /\ mpc = "join_flush" /\ mpc' = "join_queue"
      /\ qpc' = Woken(QueueWaiters)
      /\ UNCHANGED <<state, fas, cacheVars, leaked, connVars, qfile, qvals, flushVars,
                     disk, signals, failures, histVars>>
  BY DEF JoinFlush
<1>2. ControlTypeOK' /\ StoppedListening' /\ NoHandlerInCleanup'
  BY <1>1 DEF Inv, TypeOK, ControlTypeOK, StoppedListening, NoHandlerInCleanup,
              MainPhases, flushVars, connVars
<1> QED BY <1>1, <1>2, WakeQueueStep

LEMMA JoinQueueInv ==
    ASSUME Inv, JoinQueue
    PROVE  Inv'
<1>1. /\ mpc = "join_queue"
      /\ \/ mpc' = "destroy" /\ UNCHANGED connVars
         \/ mpc' = "aborted" /\ Gone
      /\ UNCHANGED <<state, fas, cacheVars, leaked, queueVars, flushVars, disk, signals,
                     failures, histVars>>
  BY DEF JoinQueue
<1>2. ControlTypeOK' /\ StoppedListening'
  BY <1>1 DEF Inv, TypeOK, ControlTypeOK, StoppedListening, MainPhases, flushVars
<1>3. CASE UNCHANGED connVars
  <2>1. NoHandlerInCleanup'
    BY <1>1, <1>3 DEF Inv, NoHandlerInCleanup, connVars
  <2> QED BY <1>1, <1>2, <1>3, <2>1, ControlStep
<1>4. CASE Gone
  <2>1. ConnTypeOK' /\ ConnsConsistent' /\ NoHandlerInCleanup' /\ FlushHasWriter'
    BY <1>4, GoneConns
  <2>2. CacheTypeOK' /\ QueueConsistent'
    BY <1>1, CacheFrame DEF Inv, TypeOK
  <2>3. QueueTypeOK' /\ JobsConsistent'
    BY <1>1, JobsFrame DEF Inv, TypeOK, ThreadsConsistent
  <2>4. DataTypeOK'
    BY <1>1 DEF Inv, TypeOK, DataTypeOK, histVars
  <2> QED BY <1>2, <2>1, <2>2, <2>3, <2>4 DEF Inv, TypeOK, ThreadsConsistent
<1> QED BY <1>1, <1>3, <1>4

LEMMA DestroyInv ==
    ASSUME Inv, Destroy
    PROVE  Inv'
<1>1. /\ mpc = "destroy" /\ mpc' = "exit"
      /\ inTree' = {}
      /\ queue' = <<>>
      /\ values' = [f \in Files |-> <<>>]
      /\ last' = [f \in Files |-> 0]
      /\ age' = [f \in Files |-> 0]
      /\ Gone
      /\ UNCHANGED <<state, fas, leaked, queueVars, flushVars, disk, signals, failures,
                     histVars>>
  BY DEF Destroy
<1>2. ConnTypeOK' /\ ConnsConsistent' /\ NoHandlerInCleanup' /\ FlushHasWriter'
  BY <1>1, GoneConns
<1>3. 0 \in Ages /\ 0 \in 0..MaxStamp
  BY TimeAssumption, BoundAssumption DEF Ages, MaxAge
<1>4. CacheTypeOK'
  BY <1>1, <1>3 DEF CacheTypeOK
<1>5. QueueConsistent'
  BY <1>1 DEF QueueConsistent, NoDuplicates, InQueue
<1>6. QueueTypeOK' /\ JobsConsistent'
  BY <1>1, JobsFrame DEF Inv, TypeOK, ThreadsConsistent
<1>7. ControlTypeOK' /\ DataTypeOK' /\ StoppedListening'
  BY <1>1 DEF Inv, TypeOK, ControlTypeOK, DataTypeOK, StoppedListening, MainPhases,
              flushVars, histVars
<1> QED BY <1>2, <1>4, <1>5, <1>6, <1>7 DEF Inv, TypeOK, ThreadsConsistent

LEMMA MainInv ==
    ASSUME Inv, MainStep \/ ListenPoll
    PROVE  Inv'
<1>1. CASE Accept
  BY <1>1, AcceptInv
<1>2. CASE ListenStop \/ ListenPoll
  <2>1. /\ mpc = "listen"
        /\ mpc' = "accept" \/ (mpc' = "drain" /\ state # "RUNNING")
        /\ UNCHANGED <<state, fas, cacheVars, leaked, connVars, queueVars, flushVars,
                       disk, signals, failures, histVars>>
    BY <1>2 DEF ListenStop, ListenPoll
  <2>2. ControlTypeOK' /\ StoppedListening' /\ NoHandlerInCleanup'
    BY <2>1 DEF Inv, TypeOK, ControlTypeOK, StoppedListening, NoHandlerInCleanup,
                MainPhases, flushVars
  <2> QED BY <2>1, <2>2, ControlStep
<1>3. CASE Drained
  BY <1>3, DrainedInv
<1>4. CASE JoinFlush
  BY <1>4, JoinFlushInv
<1>5. CASE JoinQueue
  BY <1>5, JoinQueueInv
<1>6. CASE Destroy
  BY <1>6, DestroyInv
<1> QED BY <1>1, <1>2, <1>3, <1>4, <1>5, <1>6 DEF MainStep

LEMMA SignalInv ==
    ASSUME Inv, Signal
    PROVE  Inv'
<1>1. /\ signals > 0 /\ signals' = signals - 1
      /\ fas' \in {fas, TRUE, FALSE}
      /\ state' = IF state = "RUNNING" THEN "FLUSHING" ELSE state
      /\ fpc' = WakeFlushThread
      /\ qpc' = Woken(QueueWaiters)
      /\ UNCHANGED <<cacheVars, leaked, connVars, qfile, qvals, due, mpc, disk,
                     failures, histVars>>
  BY DEF Signal
<1>2. signals' \in 0..MaxSignals
  BY <1>1, BoundAssumption DEF Inv, TypeOK, ControlTypeOK
<1>3. ControlTypeOK' /\ StoppedListening' /\ NoHandlerInCleanup'
  BY <1>1, <1>2 DEF Inv, TypeOK, ControlTypeOK, StoppedListening, NoHandlerInCleanup,
                    FlushPhases, WakeFlushThread, connVars
<1> QED BY <1>1, <1>3, WakeQueueStep

LEMMA TickInv ==
    ASSUME Inv, Tick
    PROVE  Inv'
<1>1. /\ due' = IF due > 0 THEN due - 1 ELSE 0
      /\ age' = [f \in Files |-> IF f \in inTree /\ age[f] < MaxAge
                                 THEN age[f] + 1 ELSE age[f]]
      /\ UNCHANGED <<state, fas, inTree, values, last, queue, leaked, connVars,
                     queueVars, fpc, mpc, disk, signals, failures, histVars>>
  BY DEF Tick
<1>2. due' \in 0..FlushInterval
  BY <1>1, TimeAssumption DEF Inv, TypeOK, ControlTypeOK
<1>3. age' \in [Files -> Ages]
  <2>1. MaxAge \in Nat /\ age \in [Files -> Ages]
    BY TimeAssumption DEF MaxAge, Inv, TypeOK, CacheTypeOK
  <2>2. \A a \in Ages : a < MaxAge => a + 1 \in Ages
    BY <2>1, TimeAssumption DEF Ages
  <2> QED BY <1>1, <2>1, <2>2
<1>4. CacheTypeOK' /\ QueueConsistent'
  BY <1>1, <1>3 DEF Inv, TypeOK, CacheTypeOK, QueueConsistent
<1>5. /\ ConnTypeOK'
      /\ ConnsConsistent'
      /\ \A d \in Clients : cpc'[d] = "flush_wait" =>
            cpc[d] = "flush_wait" /\ creq'[d] = creq[d]
  BY <1>1, ConnFrame DEF Inv, TypeOK, ThreadsConsistent
<1>6. QueueTypeOK' /\ JobsConsistent'
  BY <1>1, JobsFrame DEF Inv, TypeOK, ThreadsConsistent
<1>7. ControlTypeOK' /\ DataTypeOK' /\ StoppedListening' /\ NoHandlerInCleanup'
  BY <1>1, <1>2 DEF Inv, TypeOK, ControlTypeOK, DataTypeOK, StoppedListening,
                    NoHandlerInCleanup, histVars, connVars
<1>8. FlushHasWriter'
  BY <1>1, <1>5, FlushHasWriterFrame DEF Inv, queueVars
<1> QED BY <1>4, <1>5, <1>6, <1>7, <1>8 DEF Inv, TypeOK, ThreadsConsistent

-----------------------------------------------------------------------------
(* The induction.                                                          *)

LEMMA InitInv == Init => Inv
<1> SUFFICES ASSUME Init PROVE Inv
  OBVIOUS
<1>1. 0 \in Ages /\ 0 \in 0..MaxStamp /\ FlushInterval \in 0..FlushInterval
  BY TimeAssumption, BoundAssumption DEF Ages, MaxAge
<1>2. CacheTypeOK
  <2>1. <<>> \in Seq(Stamps) /\ <<>> \in Seq(Files)
    OBVIOUS
  <2> QED BY <1>1, <2>1 DEF Init, CacheTypeOK
<1>3. Cardinality(Clients) \in Nat /\ Cardinality({}) = 0
  BY ThreadsAssumption, FS_CardinalityType, FS_EmptySet
<1>4. NoRequest \in Requests /\ 0 \in 0..MaxBuffered
  BY BoundAssumption DEF NoRequest, Requests
<1>5. ConnTypeOK
  BY <1>3, <1>4 DEF Init, ConnTypeOK, ConnPhases
<1>6. QueueTypeOK /\ JobsConsistent
  BY FilesAssumption DEF Init, QueueTypeOK, QueuePhases, JobsConsistent
<1>7. ControlTypeOK /\ DataTypeOK
  <2>1. ControlTypeOK
    <3>1. fas \in BOOLEAN /\ leaked \in BOOLEAN
      BY FlushAssumption, Zenon DEF Init
    <3>2. due \in 0..FlushInterval
      BY <1>1 DEF Init
    <3>3. signals \in 0..MaxSignals /\ failures \in 0..MaxFailures
      BY BoundAssumption DEF Init
    <3>4. /\ state \in {"RUNNING", "FLUSHING", "SHUTDOWN"}
          /\ fpc \in FlushPhases
          /\ mpc \in MainPhases
      BY DEF Init, FlushPhases, MainPhases
    <3> QED BY <3>1, <3>2, <3>3, <3>4 DEF ControlTypeOK
  <2>2. <<>> \in Seq(Stamps)
    OBVIOUS
  <2>3. DataTypeOK
    BY <2>2 DEF Init, DataTypeOK
  <2> QED BY <2>1, <2>3
<1>8. Counted = {}
  BY DEF Init, Counted
<1>9. ConnsConsistent
  BY <1>3, <1>8 DEF Init, ConnsConsistent
<1>10. QueueConsistent
  BY DEF Init, QueueConsistent, NoDuplicates, InQueue
<1>11. FlushHasWriter /\ NoHandlerInCleanup /\ StoppedListening
  BY DEF Init, FlushHasWriter, NoHandlerInCleanup, StoppedListening
<1> QED BY <1>2, <1>5, <1>6, <1>7, <1>9, <1>10, <1>11 DEF Inv, TypeOK, ThreadsConsistent

LEMMA NextInv == Inv /\ [Next]_vars => Inv'
<1> SUFFICES ASSUME Inv, [Next]_vars PROVE Inv'
  OBVIOUS
<1>1. CASE \E c \in Clients : ConnStep(c) \/ ClientStep(c)
  BY <1>1, ConnInv
<1>2. CASE \E t \in QueueThreads : QueueStep(t) \/ QueueWriteFails(t)
  BY <1>2, QueueInv
<1>3. CASE FlushStep
  BY <1>3, FlushThreadInv
<1>4. CASE MainStep \/ ListenPoll
  BY <1>4, MainInv
<1>5. CASE Signal
  BY <1>5, SignalInv
<1>6. CASE Tick
  BY <1>6, TickInv
<1>7. CASE UNCHANGED vars
  <2>1. ControlTypeOK' /\ StoppedListening' /\ NoHandlerInCleanup'
    BY <1>7 DEF vars, Inv, TypeOK, ControlTypeOK, StoppedListening, NoHandlerInCleanup,
                flushVars, connVars
  <2> QED BY <1>7, <2>1, ControlStep DEF vars
<1> QED BY <1>1, <1>2, <1>3, <1>4, <1>5, <1>6, <1>7 DEF Next

THEOREM InductiveInvariant == Spec => []Inv
BY InitInv, NextInv, PTL DEF Spec

(***************************************************************************)
(* Every variable of the daemon keeps its type, for any number of files,   *)
(* connections and queue threads.                                          *)
(***************************************************************************)
THEOREM TypeCorrect == Spec => []TypeOK
<1>1. Inv => TypeOK
  BY DEF Inv
<1> QED BY <1>1, InductiveInvariant, PTL

(***************************************************************************)
(* connection_threads_num counts the connection threads, and a queue       *)
(* thread writes exactly when it has a file and values.                    *)
(***************************************************************************)
THEOREM ThreadsStayConsistent == Spec => []ThreadsConsistent
<1>1. Inv => ThreadsConsistent
  BY DEF Inv
<1> QED BY <1>1, InductiveInvariant, PTL

(***************************************************************************)
(* The update queue and the tree agree: no item is queued twice, and a     *)
(* queued item exists and has values (enqueue_cache_item,                  *)
(* remove_from_queue and all their callers).                               *)
(***************************************************************************)
THEOREM QueueStaysConsistent == Spec => []QueueConsistent
<1>1. Inv => QueueConsistent
  BY DEF Inv
<1> QED BY <1>1, InductiveInvariant, PTL

(***************************************************************************)
(* A FLUSH that waits has a writer: its item is still in the tree, and it  *)
(* is queued or being written (flush_file against queue_thread_main,       *)
(* FORGET and the purge of flush_old_values).                              *)
(***************************************************************************)
THEOREM WaitingFlushHasWriter == Spec => []FlushHasWriter
<1>1. Inv => FlushHasWriter
  BY DEF Inv
<1> QED BY <1>1, InductiveInvariant, PTL

(***************************************************************************)
(* No handler runs once listen_thread_main has left its wait for           *)
(* connection_threads_num = 0, although a thread counts itself late.       *)
(***************************************************************************)
THEOREM CleanupRunsAlone == Spec => []NoHandlerInCleanup
<1>1. Inv => NoHandlerInCleanup
  BY DEF Inv
<1> QED BY <1>1, InductiveInvariant, PTL

-----------------------------------------------------------------------------
(***************************************************************************)
(* What the daemon does with the values it has accepted, for any number of *)
(* files and connections: with one queue thread none of them is lost.      *)
(***************************************************************************)

\* -t 1: with more threads, newer values of a file can overtake older ones
\* on their way to it, which rrd_update_r then refuses.
OneQueueThread == \A t, u \in QueueThreads : t = u

Strict(s) == \A i, j \in 1..Len(s) : i < j => s[i] < s[j]

(***************************************************************************)
(* Along the way of a file's values, from the cache through the hands of   *)
(* the queue thread to the file, timestamps only fall, unless an outdated  *)
(* value was accepted.  So rrd_update_r refuses none.                      *)
(***************************************************************************)
CacheOrdered ==
    \A f \in Files : /\ Strict(values[f])
                     /\ \A i \in 1..Len(values[f]) : values[f][i] <= last[f]
BatchOrdered == \A t \in QueueThreads : Strict(qvals[t])
BatchIsNewer ==
    \A t \in QueueThreads, f \in Files \ stale :
       qfile[t] = f => \A i \in 1..Len(qvals[t]), s \in OnDisk(f) : s < qvals[t][i]
PendingIsNewer ==
    \A f \in Files \ stale :
       \A i \in 1..Len(values[f]), s \in OnDisk(f) \union InFlight(f) : s < values[f][i]

Ordered == CacheOrdered /\ BatchOrdered /\ BatchIsNewer /\ PendingIsNewer

Safe == Ordered /\ NothingLost

-----------------------------------------------------------------------------
(* Sequences of timestamps.                                                *)

\* A sequence each of whose elements is above the one before it is strictly
\* increasing.
LEMMA StepwiseStrict ==
    ASSUME NEW s \in Seq(Nat), \A i \in 1..Len(s) : i # 1 => s[i - 1] < s[i]
    PROVE  Strict(s)
<1> SUFFICES ASSUME ~Strict(s) PROVE FALSE
  OBVIOUS
<1> DEFINE T == {j \in 1..Len(s) : \E i \in 1..Len(s) : i < j /\ ~(s[i] < s[j])}
<1>1. T \subseteq Nat /\ T # {}
  <2>1. PICK i \in 1..Len(s), j \in 1..Len(s) : i < j /\ ~(s[i] < s[j])
    BY DEF Strict
  <2>2. j \in T
    BY <2>1
  <2>3. ASSUME NEW k \in T PROVE k \in Nat
    OBVIOUS
  <2> HIDE DEF T
  <2> QED BY <2>2, <2>3
<1>2. PICK j \in T : \A k \in T : ~(<<k, j>> \in OpToRel(<, Nat))
  <2> HIDE DEF T
  <2> QED BY <1>1, WFMin, NatLessThanWellFounded
<1>3. j \in 1..Len(s) /\ \A k \in T : ~(k < j)
  BY <1>1, <1>2 DEF OpToRel
<1>4. PICK i \in 1..Len(s) : i < j /\ ~(s[i] < s[j])
  BY <1>2
<1>5. Len(s) \in Nat /\ \A k \in 1..Len(s) : s[k] \in Nat
  BY ElementOfSeq
<1>6. j # 1 /\ j - 1 \in 1..Len(s) /\ s[j - 1] < s[j]
  <2>1. j # 1 /\ j - 1 \in 1..Len(s)
    BY <1>3, <1>4, <1>5
  <2> QED BY <2>1, <1>3
<1>7. i # j - 1
  BY <1>4, <1>6
<1>8. i < j - 1 /\ ~(s[i] < s[j - 1])
  <2>1. i \in Int /\ j \in Int /\ s[i] \in Nat /\ s[j] \in Nat /\ s[j - 1] \in Nat
    BY <1>3, <1>5, <1>6
  <2>2. i < j - 1
    BY <2>1, <1>4, <1>7
  <2>3. ~(s[i] < s[j])
    BY <1>4
  <2>4. s[j - 1] < s[j]
    BY <1>6
  <2> HIDE DEF T
  <2> QED BY <2>1, <2>2, <2>3, <2>4
<1>9. j - 1 \in T
  BY <1>6, <1>8
<1>10. ~(j - 1 < j) /\ j \in Int
  <2> HIDE DEF T
  <2> QED BY <1>3, <1>5, <1>9
<1> QED BY <1>10

\* The values an UPDATE stores are in order, and newer than the item's last.
LEMMA LegalPrefixOrder ==
    ASSUME NEW vs \in Seq(0..MaxStamp), NEW stamp \in 0..MaxStamp
    PROVE  /\ Strict(LegalPrefix(vs, stamp))
           /\ \A i \in 1..Len(LegalPrefix(vs, stamp)) : stamp < LegalPrefix(vs, stamp)[i]
<1> DEFINE L == Legal(vs, stamp)
           new == LegalPrefix(vs, stamp)
<1>1. L \subseteq 0..Len(vs) /\ L # {}
  <2>1. 0 \in L
    BY DEF Legal
  <2> QED BY <2>1 DEF Legal
<1>2. PICK n \in L : n = (CHOOSE k \in L : \A m \in L : m <= k)
  <2>1. Len(vs) \in Nat
    OBVIOUS
  <2>2. \E k \in L : \A m \in L : m <= k
    <3> HIDE DEF L
    <3> QED BY <1>1, <2>1, MaximumExists
  <2> QED BY <2>2
<1>3. n \in 0..Len(vs) /\ new = SubSeq(vs, 1, n)
  BY <1>1, <1>2 DEF LegalPrefix
<1>4. \A i \in 1..n : (IF i = 1 THEN stamp ELSE vs[i - 1]) < vs[i]
  BY <1>2, <1>3, BoundAssumption DEF Legal
<1>5. new \in Seq(Stamps)
  BY LegalPrefixType
<1>6. Len(new) = n /\ \A i \in 1..n : new[i] = vs[i]
  <2>1. n \in Int /\ n <= Len(vs) /\ Len(vs) \in Nat
    BY <1>3
  <2>2. ASSUME NEW i \in 1..n PROVE vs[i] \in 0..MaxStamp
    <3>1. i \in 1..Len(vs)
      BY <2>1
    <3> QED BY <3>1, ElementOfSeq
  <2>3. /\ Len(SubSeq(vs, 1, n)) = IF 1 <= n THEN n - 1 + 1 ELSE 0
        /\ \A i \in 1..(n - 1 + 1) : SubSeq(vs, 1, n)[i] = vs[1 + i - 1]
    BY <2>1, <2>2, SubSeqProperties
  <2> HIDE DEF new
  <2> QED BY <1>3, <2>1, <2>3
<1> HIDE DEF L, new
<1>7. new \in Seq(Nat) /\ Len(new) \in Nat /\ \A i \in 1..Len(new) : new[i] \in Nat
  <2>1. \A i \in 1..Len(new) : new[i] \in Stamps
    BY <1>5, ElementOfSeq
  <2>2. new \in Seq(Nat)
    <3>1. \A i \in 1..Len(new) : new[i] \in Nat
      BY <2>1, BoundAssumption DEF Stamps
    <3>2. new = [i \in 1..Len(new) |-> new[i]] /\ Len(new) \in Nat
      BY <1>5
    <3> QED BY <3>1, <3>2
  <2> QED BY <2>2, ElementOfSeq
<1>8. Strict(new)
  <2>1. \A i \in 1..Len(new) : i # 1 => new[i - 1] < new[i]
    BY <1>3, <1>4, <1>6
  <2> QED BY <1>7, <2>1, StepwiseStrict
<1>9. ASSUME NEW i \in 1..Len(new) PROVE stamp < new[i]
  <2>0. 1 \in 1..Len(new)
    BY <1>7
  <2>1. 1 \in 1..Len(new) /\ stamp < new[1]
    <3>1. 1 \in 1..n
      BY <2>0, <1>6
    <3>2. stamp < vs[1] /\ new[1] = vs[1]
      BY <3>1, <1>4, <1>6
    <3> QED BY <2>0, <3>2
  <2>2. i = 1 \/ new[1] < new[i]
    BY <1>8, <2>1 DEF Strict
  <2>3. stamp \in Nat /\ new[1] \in Nat /\ new[i] \in Nat
    BY <1>7, <2>1, BoundAssumption
  <2> QED BY <2>1, <2>2, <2>3
<1> QED BY <1>8, <1>9 DEF new

\* A sequence in order that goes on with newer values is in order.
LEMMA ConcatStrict ==
    ASSUME NEW a \in Seq(Nat), NEW b \in Seq(Nat), NEW m \in Nat, Strict(a), Strict(b),
           \A i \in 1..Len(a) : a[i] <= m, \A i \in 1..Len(b) : m < b[i]
    PROVE  /\ Strict(a \o b)
           /\ \A i \in 1..Len(a \o b) : a \o b # a =>
                 (a \o b)[i] <= b[Len(b)]
           /\ {(a \o b)[i] : i \in 1..Len(a \o b)}
                 = {a[i] : i \in 1..Len(a)} \union {b[i] : i \in 1..Len(b)}
<1> DEFINE r == a \o b
<1>1. /\ r \in Seq(Nat)
      /\ Len(r) = Len(a) + Len(b)
      /\ \A i \in 1..(Len(a) + Len(b)) : r[i] = IF i <= Len(a) THEN a[i] ELSE b[i - Len(a)]
  BY ConcatProperties, Zenon
<1>2. Len(a) \in Nat /\ Len(b) \in Nat
  OBVIOUS
<1>3. /\ \A i \in 1..Len(a) : a[i] \in Nat
      /\ \A i \in 1..Len(b) : b[i] \in Nat
  BY ElementOfSeq
<1> HIDE DEF r
<1> DEFINE Behind(k) == k - Len(a) \in 1..Len(b) /\ r[k] = b[k - Len(a)]
<1>b. ASSUME NEW k \in 1..Len(r), k > Len(a) PROVE Behind(k)
  <2>1. k \in Int /\ 1 <= k /\ k <= Len(a) + Len(b)
    BY <1>1, <1>2
  <2>2. k - Len(a) \in 1..Len(b)
    BY <2>1, <1>b, <1>2
  <2>3. k \in 1..(Len(a) + Len(b)) /\ ~(k <= Len(a))
    BY <2>1, <1>b, <1>2
  <2> QED BY <2>2, <2>3, <1>1, Zenon
<1> HIDE DEF Behind
<1>4. ASSUME NEW i \in 1..Len(r), NEW j \in 1..Len(r), i < j PROVE r[i] < r[j]
  <2>1. CASE j <= Len(a)
    <3>1. i \in 1..Len(a) /\ j \in 1..Len(a) /\ r[i] = a[i] /\ r[j] = a[j]
      BY <2>1, <1>1, <1>2, <1>4
    <3> QED BY <3>1, <1>4 DEF Strict
  <2>2. CASE i > Len(a)
    <3>1. i \in Int /\ j \in Int /\ j > Len(a) /\ i - Len(a) < j - Len(a)
      BY <2>2, <1>1, <1>2, <1>4
    <3>2. Behind(i) /\ Behind(j)
      BY <2>2, <3>1, <1>b, Zenon
    <3> QED BY <3>1, <3>2 DEF Strict, Behind
  <2>3. CASE i <= Len(a) /\ j > Len(a)
    <3>1. i \in 1..Len(a) /\ j - Len(a) \in 1..Len(b) /\ r[i] = a[i] /\ r[j] = b[j - Len(a)]
      <4>1. Behind(j)
        BY <2>3, <1>b, Zenon
      <4>2. i \in 1..Len(a) /\ i \in 1..(Len(a) + Len(b))
        BY <2>3, <1>1, <1>2
      <4> QED BY <4>1, <4>2, <2>3, <1>1, Zenon DEF Behind
    <3>2. r[i] <= m /\ m < r[j] /\ r[i] \in Nat /\ r[j] \in Nat
      BY <3>1, <1>3
    <3> QED BY <3>2
  <2> QED BY <2>1, <2>2, <2>3, <1>1, <1>2
<1>5. ASSUME NEW i \in 1..Len(r), r # a PROVE r[i] <= b[Len(b)]
  <2>1. Len(b) # 0
    <3> SUFFICES ASSUME Len(b) = 0 PROVE FALSE
      OBVIOUS
    <3>1. b = <<>>
      BY EmptySeq
    <3> QED BY <3>1, <1>5 DEF r
  <2>2. Len(r) \in 1..Len(r) /\ r[Len(r)] = b[Len(b)] /\ Len(b) \in 1..Len(b)
    <3>1. Len(b) > 0 /\ Len(r) \in 1..(Len(a) + Len(b)) /\ ~(Len(r) <= Len(a))
      BY <2>1, <1>1, <1>2
    <3>2. r[Len(r)] = b[Len(r) - Len(a)] /\ Len(r) - Len(a) = Len(b)
      BY <3>1, <1>1, <1>2
    <3> QED BY <3>1, <3>2, <1>1, <1>2
  <2>3. i = Len(r) \/ r[i] < r[Len(r)]
    <3>1. i = Len(r) \/ i < Len(r)
      BY <1>1, <1>2
    <3> QED BY <1>4, <2>2, <3>1
  <2>4. r[i] \in Nat /\ r[Len(r)] \in Nat
    BY <1>1, <2>2, ElementOfSeq
  <2> QED BY <2>2, <2>3, <2>4
<1>6. {r[i] : i \in 1..Len(r)} = {a[i] : i \in 1..Len(a)} \union {b[i] : i \in 1..Len(b)}
  <2>1. ASSUME NEW i \in 1..Len(r)
        PROVE  r[i] \in {a[k] : k \in 1..Len(a)} \union {b[k] : k \in 1..Len(b)}
    <3>1. CASE i <= Len(a)
      BY <3>1, <1>1, <1>2
    <3>2. CASE i > Len(a)
      <4>1. i - Len(a) \in 1..Len(b) /\ r[i] = b[i - Len(a)]
        BY <3>2, <1>1, <1>2
      <4> QED BY <4>1
    <3> QED BY <3>1, <3>2, <1>1, <1>2
  <2>2. ASSUME NEW i \in 1..Len(a) PROVE a[i] \in {r[k] : k \in 1..Len(r)}
    <3>1. i \in 1..Len(r) /\ r[i] = a[i]
      BY <1>1, <1>2
    <3> QED BY <3>1
  <2>3. ASSUME NEW i \in 1..Len(b) PROVE b[i] \in {r[k] : k \in 1..Len(r)}
    <3>1. /\ i + Len(a) \in 1..(Len(a) + Len(b)) /\ ~(i + Len(a) <= Len(a))
          /\ (i + Len(a)) - Len(a) = i
      BY <1>2
    <3>2. i + Len(a) \in 1..Len(r) /\ r[i + Len(a)] = b[i]
      BY <3>1, <1>1
    <3> QED BY <3>2
  <2> QED BY <2>1, <2>2, <2>3
<1> QED BY <1>4, <1>5, <1>6 DEF r, Strict

-----------------------------------------------------------------------------
(* The actions.                                                            *)

\* What the types give for the values of one file.
LEMMA ValueTypes ==
    ASSUME Inv
    PROVE  /\ \A f \in Files : /\ values[f] \in Seq(Nat) /\ last[f] \in Nat
                               /\ disk[f] \in Seq(Nat)
           /\ \A t \in QueueThreads : qvals[t] \in Seq(Nat)
           /\ \A q \in Seq(Nat) : Len(q) \in Nat /\ \A i \in 1..Len(q) : q[i] \in Nat
<1>1. Stamps \subseteq Nat
  BY BoundAssumption DEF Stamps
<1>2. ASSUME NEW q \in Seq(Stamps) PROVE q \in Seq(Nat)
  <2>1. Len(q) \in Nat /\ q = [i \in 1..Len(q) |-> q[i]]
    OBVIOUS
  <2>2. \A i \in 1..Len(q) : q[i] \in Nat
    BY <1>1, ElementOfSeq
  <2> QED BY <2>1, <2>2
<1>3. \A f \in Files : values[f] \in Seq(Nat) /\ disk[f] \in Seq(Nat)
  BY <1>2 DEF Inv, TypeOK, CacheTypeOK, DataTypeOK
<1>4. \A f \in Files : last[f] \in Nat
  BY BoundAssumption DEF Inv, TypeOK, CacheTypeOK
<1>5. \A t \in QueueThreads : qvals[t] \in Seq(Nat)
  BY <1>2 DEF Inv, TypeOK, QueueTypeOK
<1>6. \A q \in Seq(Nat) : Len(q) \in Nat /\ \A i \in 1..Len(q) : q[i] \in Nat
  BY ElementOfSeq
<1> QED BY <1>3, <1>4, <1>5, <1>6

\* Most steps leave the values where they are; an item without values may
\* lose its last_update_stamp.
LEMMA ValuesFrame ==
    ASSUME Inv, Safe, UNCHANGED <<values, qfile, qvals, disk, accepted, stale>>,
           mpc = "exit" => mpc' = "exit",
           \A f \in Files : last'[f] = last[f] \/ values[f] = <<>>
    PROVE  Safe'
<1> USE DEF Safe, Ordered
<1>1. CacheOrdered'
  <2>1. ASSUME NEW f \in Files, NEW i \in 1..Len(values[f]) PROVE values[f][i] <= last'[f]
    <3>1. values[f] # <<>>
      <4>1. Len(<<>>) = 0
        BY EmptySeq
      <4> QED BY <4>1
    <3> QED BY <3>1 DEF CacheOrdered
  <2> QED BY <2>1 DEF CacheOrdered
<1>2. BatchOrdered' /\ BatchIsNewer' /\ PendingIsNewer'
  BY DEF BatchOrdered, BatchIsNewer, PendingIsNewer, OnDisk, InFlight
<1>3. NothingLost'
  BY DEF NothingLost, Pending, OnDisk, InFlight
<1> QED BY <1>1, <1>2, <1>3

LEMMA StoreSafe ==
    ASSUME Inv, Safe, NEW f \in Files, NEW vs \in Seq(0..MaxStamp), NEW itemAge,
           StoreValues(f, vs, last[f], itemAge), UNCHANGED <<qfile, qvals, disk, mpc>>
    PROVE  Safe'
<1> DEFINE new == LegalPrefix(vs, last[f])
<1>1. /\ values' = [values EXCEPT ![f] = values[f] \o new]
      /\ last' = [last EXCEPT ![f] = IF new = <<>> THEN last[f] ELSE new[Len(new)]]
      /\ accepted' = [accepted EXCEPT ![f] = @ \union {new[i] : i \in 1..Len(new)}]
      /\ stale' = IF new # <<>> /\ \E s \in OnDisk(f) \union InFlight(f) : s >= new[1]
                  THEN stale \union {f} ELSE stale
  BY DEF StoreValues
<1>2. last[f] \in 0..MaxStamp
  BY DEF Inv, TypeOK, CacheTypeOK
<1>3. /\ new \in Seq(Stamps) /\ Strict(new)
      /\ \A i \in 1..Len(new) : last[f] < new[i]
  BY <1>2, LegalPrefixType, LegalPrefixOrder
<1> HIDE DEF new
<1>4. new \in Seq(Nat) /\ Len(new) \in Nat /\ \A i \in 1..Len(new) : new[i] \in Nat
  <2>1. \A i \in 1..Len(new) : new[i] \in Stamps
    BY <1>3, ElementOfSeq
  <2>2. \A i \in 1..Len(new) : new[i] \in Nat
    BY <2>1, BoundAssumption DEF Stamps
  <2>3. new = [i \in 1..Len(new) |-> new[i]] /\ Len(new) \in Nat
    BY <1>3
  <2> QED BY <2>2, <2>3
<1>5. /\ values'[f] = values[f] \o new
      /\ last'[f] = IF new = <<>> THEN last[f] ELSE new[Len(new)]
      /\ accepted'[f] = accepted[f] \union {new[i] : i \in 1..Len(new)}
      /\ \A g \in Files \ {f} : /\ values'[g] = values[g] /\ last'[g] = last[g]
                                /\ accepted'[g] = accepted[g]
  BY <1>1 DEF Inv, TypeOK, CacheTypeOK, DataTypeOK
<1>6. /\ values[f] \in Seq(Nat) /\ last[f] \in Nat /\ Strict(values[f])
      /\ \A i \in 1..Len(values[f]) : values[f][i] <= last[f]
  BY ValueTypes DEF Safe, Ordered, CacheOrdered
<1>7. /\ Strict(values'[f])
      /\ \A i \in 1..Len(values'[f]) : values'[f] # values[f] => values'[f][i] <= new[Len(new)]
      /\ {values'[f][i] : i \in 1..Len(values'[f])}
            = {values[f][i] : i \in 1..Len(values[f])} \union {new[i] : i \in 1..Len(new)}
  <2>1. /\ Strict(values[f] \o new)
        /\ \A i \in 1..Len(values[f] \o new) : values[f] \o new # values[f] =>
              (values[f] \o new)[i] <= new[Len(new)]
        /\ {(values[f] \o new)[i] : i \in 1..Len(values[f] \o new)}
              = {values[f][i] : i \in 1..Len(values[f])} \union {new[i] : i \in 1..Len(new)}
    BY <1>3, <1>4, <1>6, ConcatStrict
  <2>2. values'[f] = values[f] \o new
    BY <1>5
  <2> QED BY <2>1, <2>2, Zenon
<1>8. CacheOrdered'
  <2>1. \A i \in 1..Len(values'[f]) : values'[f][i] <= last'[f]
    <3>1. CASE new = <<>>
      <4>1. values'[f] = values[f]
        BY <3>1, <1>5, <1>6, ConcatEmptySeq
      <4> QED BY <3>1, <4>1, <1>5, <1>6
    <3>2. CASE new # <<>>
      <4>1. values'[f] # values[f]
        BY <3>2, <1>4, <1>5, <1>6, ConcatEqualIffEmpty
      <4> QED BY <3>2, <4>1, <1>5, <1>7
    <3> QED BY <3>1, <3>2
  <2>2. ASSUME NEW g \in Files
        PROVE  /\ Strict(values'[g])
               /\ \A i \in 1..Len(values'[g]) : values'[g][i] <= last'[g]
    <3>1. CASE g = f
      BY <3>1, <2>1, <1>7
    <3>2. CASE g # f
      BY <3>2, <1>5 DEF Safe, Ordered, CacheOrdered
    <3> QED BY <3>1, <3>2
  <2> QED BY <2>2 DEF CacheOrdered
<1>9. \A g : OnDisk(g)' = OnDisk(g) /\ InFlight(g)' = InFlight(g)
  BY DEF OnDisk, InFlight
<1>10. stale \subseteq stale'
  BY <1>1
<1>11. BatchOrdered' /\ BatchIsNewer'
  BY <1>9, <1>10 DEF Safe, Ordered, BatchOrdered, BatchIsNewer
<1>12. PendingIsNewer'
  <2> SUFFICES ASSUME NEW g \in Files \ stale', NEW i \in 1..Len(values'[g]),
                      NEW s \in OnDisk(g) \union InFlight(g)
               PROVE  s < values'[g][i]
    BY <1>9 DEF PendingIsNewer
  <2>1. \A k \in 1..Len(values[g]) : s < values[g][k]
    BY <1>10 DEF Safe, Ordered, PendingIsNewer
  <2>2. CASE g # f
    BY <2>1, <2>2, <1>5
  <2>3. CASE g = f
    <3>1. values'[f][i] \in {values[f][k] : k \in 1..Len(values[f])} \union {new[k] : k \in 1..Len(new)}
      BY <2>3, <1>7
    <3>2. CASE \E k \in 1..Len(values[f]) : values'[f][i] = values[f][k]
      BY <2>1, <2>3, <3>2
    <3>3. ASSUME NEW k \in 1..Len(new), values'[f][i] = new[k] PROVE s < values'[f][i]
      <4>1. Len(<<>>) = 0
        BY EmptySeq
      <4>2. new # <<>> /\ 1 \in 1..Len(new)
        BY <4>1, <1>4
      <4>3. ~(s >= new[1])
        BY <2>3, <4>2, <1>1
      <4>4. k = 1 \/ new[1] < new[k]
        BY <4>2, <1>3, <1>4 DEF Strict
      <4>5. s \in Nat
        <5>1. CASE s \in OnDisk(g)
          BY <5>1, ValueTypes DEF OnDisk
        <5>2. CASE s \in InFlight(g)
          BY <5>2, ValueTypes DEF InFlight
        <5> QED BY <5>1, <5>2
      <4> QED BY <3>3, <4>2, <4>3, <4>4, <4>5, <1>4
    <3> QED BY <3>1, <3>2, <3>3, <2>3
  <2> QED BY <2>2, <2>3
<1>13. NothingLost'
  <2> SUFFICES ASSUME mpc # "exit", NEW g \in Files \ stale'
               PROVE  accepted'[g] \subseteq
                        {values'[g][i] : i \in 1..Len(values'[g])} \union InFlight(g) \union OnDisk(g)
    BY <1>9 DEF NothingLost, Pending
  <2>1. accepted[g] \subseteq {values[g][i] : i \in 1..Len(values[g])} \union InFlight(g) \union OnDisk(g)
    BY <1>10 DEF Safe, NothingLost, Pending
  <2>2. CASE g # f
    BY <2>1, <2>2, <1>5
  <2>3. CASE g = f
    <3>1. accepted[f] \subseteq {values[f][i] : i \in 1..Len(values[f])} \union InFlight(f) \union OnDisk(f)
      BY <2>1, <2>3
    <3>2. accepted'[f] \subseteq {values'[f][i] : i \in 1..Len(values'[f])} \union InFlight(f) \union OnDisk(f)
      <4> HIDE DEF new
      <4> DEFINE A == {values[f][i] : i \in 1..Len(values[f])}
                 B == {new[i] : i \in 1..Len(new)}
                 C == {values'[f][i] : i \in 1..Len(values'[f])}
      <4>1. C = A \union B /\ accepted'[f] = accepted[f] \union B
        BY <1>5, <1>7
      <4>2. accepted[f] \subseteq A \union InFlight(f) \union OnDisk(f)
        BY <3>1
      <4> HIDE DEF A, B, C
      <4>3. accepted'[f] \subseteq C \union InFlight(f) \union OnDisk(f)
        BY <4>1, <4>2
      <4> QED BY <4>3 DEF C
    <3> QED BY <2>3, <3>2
  <2> QED BY <2>2, <2>3
<1> QED BY <1>8, <1>11, <1>12, <1>13 DEF Safe, Ordered

LEMMA ForgetSafe ==
    ASSUME Inv, Safe, NEW c \in Clients, Forget(c)
    PROVE  Safe'
<1>1. PICK f \in Files : /\ values' = [values EXCEPT ![f] = <<>>]
                         /\ last' = [last EXCEPT ![f] = 0]
                         /\ accepted' = [accepted EXCEPT ![f] = @ \ Pending(f)]
  BY DEF Forget
<1>2. UNCHANGED <<qfile, qvals, disk, mpc, stale>>
  BY DEF Forget, queueVars
<1>3. /\ values'[f] = <<>> /\ accepted'[f] = accepted[f] \ Pending(f)
      /\ \A g \in Files \ {f} : /\ values'[g] = values[g] /\ last'[g] = last[g]
                                /\ accepted'[g] = accepted[g]
  BY <1>1 DEF Inv, TypeOK, CacheTypeOK, DataTypeOK
<1>4. Len(<<>>) = 0
  BY EmptySeq
<1>5. \A g : OnDisk(g)' = OnDisk(g) /\ InFlight(g)' = InFlight(g)
  BY <1>2 DEF OnDisk, InFlight
<1>6. \A i \in 1..0 : FALSE
  OBVIOUS
<1>7. CacheOrdered'
  <2>1. ASSUME NEW g \in Files
        PROVE  /\ Strict(values'[g])
               /\ \A i \in 1..Len(values'[g]) : values'[g][i] <= last'[g]
    <3>1. CASE g = f
      BY <3>1, <1>3, <1>4, <1>6 DEF Strict
    <3>2. CASE g # f
      BY <3>2, <1>3 DEF Safe, Ordered, CacheOrdered
    <3> QED BY <3>1, <3>2
  <2> QED BY <2>1 DEF CacheOrdered
<1>8. BatchOrdered' /\ BatchIsNewer'
  BY <1>2, <1>5 DEF Safe, Ordered, BatchOrdered, BatchIsNewer
<1>9. PendingIsNewer'
  BY <1>2, <1>3, <1>4, <1>5, <1>6 DEF Safe, Ordered, PendingIsNewer
<1>10. NothingLost'
  <2> SUFFICES ASSUME mpc # "exit", NEW g \in Files \ stale
               PROVE  accepted'[g] \subseteq Pending(g)' \union InFlight(g) \union OnDisk(g)
    BY <1>2, <1>5 DEF NothingLost
  <2>1. accepted[g] \subseteq Pending(g) \union InFlight(g) \union OnDisk(g)
    BY DEF Safe, NothingLost
  <2>2. CASE g = f
    BY <2>1, <2>2, <1>3
  <2>3. CASE g # f
    BY <2>1, <2>3, <1>3 DEF Pending
  <2> QED BY <2>2, <2>3
<1> QED BY <1>7, <1>8, <1>9, <1>10 DEF Safe, Ordered

\* A queue thread that does not write holds nothing.
LEMMA IdleHoldsNothing ==
    ASSUME Inv, OneQueueThread, NEW t \in QueueThreads, qpc[t] \notin {"write", "wrote"}
    PROVE  /\ qvals[t] = <<>> /\ qfile[t] = "none"
           /\ \A g \in Files : InFlight(g) = {}
<1>1. qvals[t] = <<>> /\ qfile[t] = "none"
  BY DEF Inv, ThreadsConsistent, JobsConsistent
<1>2. \A u \in QueueThreads : u = t
  BY DEF OneQueueThread
<1> QED BY <1>1, <1>2, FilesAssumption DEF InFlight

\* What the one queue thread holds.
LEMMA HeldByOne ==
    ASSUME OneQueueThread, NEW t \in QueueThreads, NEW f \in Files, qfile[t] = f
    PROVE  /\ InFlight(f) = {qvals[t][i] : i \in 1..Len(qvals[t])}
           /\ \A g \in Files \ {f} : InFlight(g) = {}
<1>1. \A u \in QueueThreads : u = t
  BY DEF OneQueueThread
<1>2. {u \in QueueThreads : qfile[u] = f} = {t}
  BY <1>1
<1>3. \A g \in Files \ {f} : {u \in QueueThreads : qfile[u] = g} = {}
  BY <1>1
<1> QED BY <1>2, <1>3 DEF InFlight

LEMMA TakeSafe ==
    ASSUME Inv, Safe, OneQueueThread, NEW t \in QueueThreads,
           qpc[t] \notin {"write", "wrote"}, Take(t),
           UNCHANGED <<last, disk, accepted, stale, mpc>>
    PROVE  Safe'
<1>1. PICK f \in Files : f = Head(queue)
  BY DEF Take, Inv, TypeOK, CacheTypeOK
<1>2. /\ values' = [values EXCEPT ![f] = <<>>]
      /\ qvals' = [qvals EXCEPT ![t] = values[f]]
      /\ qfile' = [qfile EXCEPT ![t] = f]
  BY <1>1 DEF Take
<1>3. /\ values'[f] = <<>>
      /\ \A g \in Files \ {f} : values'[g] = values[g]
      /\ qvals'[t] = values[f] /\ qfile'[t] = f
  BY <1>2 DEF Inv, TypeOK, CacheTypeOK, QueueTypeOK
<1>4. \A u \in QueueThreads : u = t
  BY DEF OneQueueThread
<1>5. Len(<<>>) = 0 /\ \A i \in 1..0 : FALSE
  BY EmptySeq
<1>6. \A g \in Files : InFlight(g) = {} /\ OnDisk(g)' = OnDisk(g)
  BY IdleHoldsNothing DEF OnDisk
<1>7. /\ InFlight(f)' = Pending(f)
      /\ \A g \in Files \ {f} : InFlight(g)' = {}
  <2>1. {u \in QueueThreads : qfile'[u] = f} = {t}
    BY <1>3, <1>4
  <2>2. \A g \in Files \ {f} : {u \in QueueThreads : qfile'[u] = g} = {}
    BY <1>3, <1>4
  <2> QED BY <1>3, <2>1, <2>2 DEF InFlight, Pending
<1>8. CacheOrdered'
  <2>1. ASSUME NEW g \in Files
        PROVE  /\ Strict(values'[g])
               /\ \A i \in 1..Len(values'[g]) : values'[g][i] <= last[g]
    <3>1. CASE g = f
      BY <3>1, <1>3, <1>5 DEF Strict
    <3>2. CASE g # f
      BY <3>2, <1>3 DEF Safe, Ordered, CacheOrdered
    <3> QED BY <3>1, <3>2
  <2> QED BY <2>1 DEF CacheOrdered
<1>9. BatchOrdered'
  BY <1>3, <1>4 DEF Safe, Ordered, BatchOrdered, CacheOrdered
<1>10. BatchIsNewer'
  <2> SUFFICES ASSUME f \notin stale, NEW i \in 1..Len(values[f]), NEW s \in OnDisk(f)
               PROVE  s < values[f][i]
    BY <1>3, <1>4, <1>6 DEF BatchIsNewer
  <2> QED BY DEF Safe, Ordered, PendingIsNewer
<1>11. PendingIsNewer'
  <2> SUFFICES ASSUME NEW g \in Files \ stale, NEW i \in 1..Len(values'[g]),
                      NEW s \in OnDisk(g) \union InFlight(g)'
               PROVE  s < values'[g][i]
    BY <1>6 DEF PendingIsNewer
  <2>1. g # f
    BY <1>3, <1>5
  <2> QED BY <2>1, <1>3, <1>7 DEF Safe, Ordered, PendingIsNewer
<1>12. NothingLost'
  <2> SUFFICES ASSUME mpc # "exit", NEW g \in Files \ stale
               PROVE  accepted[g] \subseteq Pending(g)' \union InFlight(g)' \union OnDisk(g)
    BY <1>6 DEF NothingLost
  <2>1. accepted[g] \subseteq Pending(g) \union OnDisk(g)
    BY <1>6 DEF Safe, NothingLost
  <2>2. CASE g = f
    BY <2>1, <2>2, <1>7
  <2>3. CASE g # f
    BY <2>1, <2>3, <1>3 DEF Pending
  <2> QED BY <2>2, <2>3
<1> QED BY <1>8, <1>9, <1>10, <1>11, <1>12 DEF Safe, Ordered

LEMMA WriteSafe ==
    ASSUME Inv, Safe, OneQueueThread, NEW t \in QueueThreads, QueueWrite(t)
    PROVE  Safe'
<1>1. PICK f \in Files : qfile[t] = f
  BY DEF QueueWrite, Inv, ThreadsConsistent, JobsConsistent
<1> DEFINE q == qvals[t]
           v == Head(q)
           legal == \A s \in OnDisk(f) : v > s
           rest == IF legal THEN Tail(q) ELSE <<>>
<1>2. /\ disk' = IF legal THEN [disk EXCEPT ![f] = Append(@, v)] ELSE disk
      /\ qvals' = [qvals EXCEPT ![t] = rest]
      /\ UNCHANGED <<values, last, qfile, mpc, accepted, stale>>
  BY <1>1 DEF QueueWrite, cacheVars, histVars
<1>3. q \in Seq(Nat) /\ q # <<>> /\ disk[f] \in Seq(Nat)
  BY ValueTypes DEF QueueWrite, Inv, ThreadsConsistent, JobsConsistent
<1>4. qvals'[t] = rest /\ \A u \in QueueThreads : u = t
  BY <1>2 DEF OneQueueThread, Inv, TypeOK, QueueTypeOK
<1> HIDE DEF q
<1>5. /\ v = q[1] /\ v \in Nat /\ 1 \in 1..Len(q) /\ Len(q) \in Nat
      /\ Tail(q) \in Seq(Nat) /\ Len(Tail(q)) = Len(q) - 1
      /\ \A i \in 1..(Len(q) - 1) : Tail(q)[i] = q[i + 1] /\ i + 1 \in 1..Len(q)
  BY <1>3, HeadTailProperties
<1>6. Strict(q) /\ \A i \in 1..Len(q) : q[i] \in Nat
  BY <1>3, ElementOfSeq DEF Safe, Ordered, BatchOrdered, q
<1>7. /\ \A i \in 1..Len(Tail(q)) : v < Tail(q)[i] /\ Tail(q)[i] \in {q[k] : k \in 1..Len(q)}
      /\ Strict(Tail(q))
  <2>1. ASSUME NEW i \in 1..Len(Tail(q))
        PROVE  v < Tail(q)[i] /\ Tail(q)[i] \in {q[k] : k \in 1..Len(q)}
    <3>1. i + 1 \in 1..Len(q) /\ Tail(q)[i] = q[i + 1] /\ 1 < i + 1
      BY <1>5
    <3> QED BY <3>1, <1>5, <1>6 DEF Strict
  <2>2. ASSUME NEW i \in 1..Len(Tail(q)), NEW j \in 1..Len(Tail(q)), i < j
        PROVE  Tail(q)[i] < Tail(q)[j]
    <3>1. /\ i + 1 \in 1..Len(q) /\ Tail(q)[i] = q[i + 1]
          /\ j + 1 \in 1..Len(q) /\ Tail(q)[j] = q[j + 1] /\ i + 1 < j + 1
      BY <1>5, <2>2
    <3> QED BY <3>1, <1>6 DEF Strict
  <2> QED BY <2>1, <2>2 DEF Strict
<1>8. Len(<<>>) = 0 /\ \A i \in 1..0 : FALSE
  BY EmptySeq
<1>9. /\ InFlight(f) = {q[i] : i \in 1..Len(q)}
      /\ \A g \in Files \ {f} : InFlight(g) = {} /\ InFlight(g)' = {}
      /\ InFlight(f)' = {rest[i] : i \in 1..Len(rest)}
  <2>1. qfile'[t] = f
    BY <1>1, <1>2
  <2>2. {u \in QueueThreads : qfile'[u] = f} = {t}
    BY <2>1, <1>4
  <2>3. \A g \in Files \ {f} : {u \in QueueThreads : qfile'[u] = g} = {}
    BY <2>1, <1>4
  <2>4. /\ InFlight(f)' = {qvals'[t][i] : i \in 1..Len(qvals'[t])}
        /\ \A g \in Files \ {f} : InFlight(g)' = {}
    BY <2>2, <2>3 DEF InFlight
  <2> QED BY <2>4, <1>1, <1>4, HeldByOne DEF q
<1>10. \A g \in Files \ {f} : OnDisk(g)' = OnDisk(g)
  BY <1>2 DEF OnDisk, Inv, TypeOK, DataTypeOK
<1>11. CASE legal
  <2>1. disk'[f] = Append(disk[f], v)
    BY <1>2, <1>11 DEF Inv, TypeOK, DataTypeOK
  <2>2. OnDisk(f)' = OnDisk(f) \union {v}
    <3>1. /\ Len(Append(disk[f], v)) = Len(disk[f]) + 1
          /\ \A i \in 1..Len(disk[f]) : Append(disk[f], v)[i] = disk[f][i]
          /\ Append(disk[f], v)[Len(disk[f]) + 1] = v
          /\ Len(disk[f]) \in Nat
      BY <1>3, <1>5, AppendProperties
    <3> DEFINE d == disk'[f]
               n == Len(disk[f])
    <3>2. n \in Nat /\ Len(d) = n + 1 /\ d[n + 1] = v /\ \A i \in 1..n : d[i] = disk[f][i]
      BY <2>1, <3>1
    <3> HIDE DEF d, n
    <3>3. {d[i] : i \in 1..(n + 1)} = {disk[f][i] : i \in 1..n} \union {v}
      <4>1. ASSUME NEW i \in 1..(n + 1) PROVE d[i] \in {disk[f][k] : k \in 1..n} \union {v}
        <5>1. i \in 1..n \/ i = n + 1
          BY <3>2
        <5> QED BY <5>1, <3>2
      <4>2. ASSUME NEW i \in 1..n PROVE disk[f][i] \in {d[k] : k \in 1..(n + 1)}
        <5>1. i \in 1..(n + 1) /\ d[i] = disk[f][i]
          BY <3>2
        <5> QED BY <5>1
      <4>3. v \in {d[k] : k \in 1..(n + 1)}
        <5>1. n + 1 \in 1..(n + 1)
          BY <3>2
        <5> QED BY <5>1, <3>2
      <4> QED BY <4>1, <4>2, <4>3
    <3> QED BY <3>2, <3>3 DEF OnDisk, d, n
  <2>3. rest = Tail(q)
    BY <1>11
  <2> HIDE DEF v, rest, legal
  <2>4. InFlight(f) \subseteq InFlight(f)' \union {v} /\ InFlight(f)' \subseteq InFlight(f)
        /\ v \in InFlight(f)
    <3>1. ASSUME NEW i \in 1..Len(q) PROVE q[i] \in {Tail(q)[k] : k \in 1..Len(Tail(q))} \union {v}
      <4>1. CASE i = 1
        BY <4>1, <1>5
      <4>2. CASE i # 1
        <5>1. i - 1 \in 1..(Len(q) - 1) /\ (i - 1) + 1 = i
          BY <4>2, <1>5
        <5>2. Tail(q)[i - 1] = q[i] /\ i - 1 \in 1..Len(Tail(q))
          BY <5>1, <1>5
        <5> QED BY <5>2
      <4> QED BY <4>1, <4>2
    <3> QED BY <3>1, <2>3, <1>5, <1>7, <1>9
  <2>5. CacheOrdered' /\ BatchOrdered'
    BY <1>2, <1>4, <1>7, <2>3 DEF Safe, Ordered, CacheOrdered, BatchOrdered
  <2>6. BatchIsNewer'
    <3> SUFFICES ASSUME f \notin stale, NEW i \in 1..Len(Tail(q)), NEW s \in OnDisk(f) \union {v}
                 PROVE  s < Tail(q)[i]
      BY <1>1, <1>2, <1>4, <2>2, <2>3 DEF BatchIsNewer
    <3>1. CASE s = v
      BY <3>1, <1>7
    <3>2. CASE s \in OnDisk(f)
      <4>1. PICK k \in 1..Len(q) : Tail(q)[i] = q[k]
        BY <1>7
      <4>2. s < q[k]
        BY <3>2, <1>1 DEF Safe, Ordered, BatchIsNewer, q
      <4> QED BY <4>1, <4>2
    <3> QED BY <3>1, <3>2
  <2>7. PendingIsNewer'
    <3> SUFFICES ASSUME NEW g \in Files \ stale, NEW i \in 1..Len(values[g]),
                        NEW s \in OnDisk(g)' \union InFlight(g)'
                 PROVE  s < values[g][i]
      BY <1>2 DEF PendingIsNewer
    <3>1. s \in OnDisk(g) \union InFlight(g)
      <4>1. CASE g = f
        BY <4>1, <2>2, <2>4
      <4>2. CASE g # f
        BY <4>2, <1>9, <1>10
      <4> QED BY <4>1, <4>2
    <3> QED BY <3>1 DEF Safe, Ordered, PendingIsNewer
  <2>8. NothingLost'
    <3> SUFFICES ASSUME mpc # "exit", NEW g \in Files \ stale
                 PROVE  accepted[g] \subseteq Pending(g) \union InFlight(g)' \union OnDisk(g)'
      BY <1>2 DEF NothingLost, Pending
    <3>1. accepted[g] \subseteq Pending(g) \union InFlight(g) \union OnDisk(g)
      BY DEF Safe, NothingLost
    <3>2. CASE g = f
      BY <3>1, <3>2, <2>2, <2>4
    <3>3. CASE g # f
      BY <3>1, <3>3, <1>9, <1>10
    <3> QED BY <3>2, <3>3
  <2> QED BY <2>5, <2>6, <2>7, <2>8 DEF Safe, Ordered
<1>12. CASE ~legal
  <2>1. f \in stale
    <3>1. f \notin stale => \A s \in OnDisk(f) : s < q[1]
      BY <1>1, <1>5 DEF Safe, Ordered, BatchIsNewer, q
    <3> QED BY <3>1, <1>5, <1>12
  <2>2. disk' = disk /\ rest = <<>>
    BY <1>2, <1>12
  <2>3. \A g \in Files \ stale : InFlight(g)' = InFlight(g) /\ OnDisk(g)' = OnDisk(g)
    BY <2>1, <1>9, <1>10
  <2> HIDE DEF v, rest, legal
  <2>4. CacheOrdered' /\ BatchOrdered'
    BY <1>2, <1>4, <1>8, <2>2 DEF Safe, Ordered, CacheOrdered, BatchOrdered, Strict
  <2>5. BatchIsNewer'
    BY <1>1, <1>2, <1>4, <2>1 DEF BatchIsNewer
  <2>6. PendingIsNewer' /\ NothingLost'
    BY <1>2, <2>3 DEF Safe, Ordered, PendingIsNewer, NothingLost, Pending
  <2> QED BY <2>4, <2>5, <2>6 DEF Safe, Ordered
<1> QED BY <1>11, <1>12

\* A batch that is dropped because the file cannot be opened.
LEMMA WriteFailsSafe ==
    ASSUME Inv, Safe, OneQueueThread, NEW t \in QueueThreads, QueueWriteFails(t)
    PROVE  Safe'
<1>1. PICK f \in Files : qfile[t] = f
  BY DEF QueueWriteFails, Inv, ThreadsConsistent, JobsConsistent
<1>2. /\ accepted' = [accepted EXCEPT ![f] = @ \ {qvals[t][i] : i \in 1..Len(qvals[t])}]
      /\ qvals' = [qvals EXCEPT ![t] = <<>>]
      /\ UNCHANGED <<values, last, qfile, disk, mpc, stale>>
  BY <1>1 DEF QueueWriteFails, cacheVars
<1>3. qvals'[t] = <<>> /\ \A u \in QueueThreads : u = t
  BY <1>2 DEF OneQueueThread, Inv, TypeOK, QueueTypeOK
<1>4. Len(<<>>) = 0 /\ \A i \in 1..0 : FALSE
  BY EmptySeq
<1>5. /\ InFlight(f) = {qvals[t][i] : i \in 1..Len(qvals[t])}
      /\ \A g \in Files \ {f} : InFlight(g) = {}
      /\ \A g \in Files : InFlight(g)' = {} /\ OnDisk(g)' = OnDisk(g)
  <2>1. \A g \in Files : InFlight(g)' = {}
    BY <1>3, <1>4 DEF InFlight
  <2> QED BY <1>1, <1>2, <2>1, HeldByOne DEF OnDisk
<1>6. /\ accepted'[f] = accepted[f] \ InFlight(f)
      /\ \A g \in Files \ {f} : accepted'[g] = accepted[g]
  BY <1>2, <1>5 DEF Inv, TypeOK, DataTypeOK
<1>7. CacheOrdered' /\ BatchOrdered' /\ BatchIsNewer'
  BY <1>2, <1>3, <1>4 DEF Safe, Ordered, CacheOrdered, BatchOrdered, BatchIsNewer, Strict
<1>8. PendingIsNewer'
  BY <1>2, <1>5 DEF Safe, Ordered, PendingIsNewer
<1>9. NothingLost'
  <2> SUFFICES ASSUME mpc # "exit", NEW g \in Files \ stale
               PROVE  accepted'[g] \subseteq Pending(g) \union OnDisk(g)
    BY <1>2, <1>5 DEF NothingLost, Pending
  <2>1. accepted[g] \subseteq Pending(g) \union InFlight(g) \union OnDisk(g)
    BY DEF Safe, NothingLost
  <2> QED BY <2>1, <1>5, <1>6
<1> QED BY <1>7, <1>8, <1>9 DEF Safe, Ordered

LEMMA FlushedSafe ==
    ASSUME Inv, Safe, OneQueueThread, NEW t \in QueueThreads, QueueFlushed(t)
    PROVE  Safe'
<1>1. /\ UNCHANGED <<values, last, qvals, disk, mpc, accepted, stale>>
      /\ qpc[t] = "wrote"
  BY DEF QueueFlushed, cacheVars, histVars
<1>2. qvals[t] = <<>> /\ \A u \in QueueThreads : u = t
  BY <1>1 DEF OneQueueThread, Inv, ThreadsConsistent, JobsConsistent
<1>3. Len(<<>>) = 0 /\ \A i \in 1..0 : FALSE
  BY EmptySeq
<1>4. \A g \in Files : InFlight(g) = {} /\ InFlight(g)' = {} /\ OnDisk(g)' = OnDisk(g)
  BY <1>1, <1>2, <1>3 DEF InFlight, OnDisk
<1>5. CacheOrdered' /\ BatchOrdered' /\ BatchIsNewer'
  BY <1>1, <1>2, <1>3 DEF Safe, Ordered, CacheOrdered, BatchOrdered, BatchIsNewer
<1>6. PendingIsNewer' /\ NothingLost'
  BY <1>1, <1>4 DEF Safe, Ordered, PendingIsNewer, NothingLost, Pending
<1> QED BY <1>5, <1>6 DEF Safe, Ordered

\* g_tree_destroy ends the promise.
LEMMA DestroySafe ==
    ASSUME Inv, Safe, Destroy
    PROVE  Safe'
<1>1. /\ mpc' = "exit" /\ UNCHANGED <<qfile, qvals, disk, accepted, stale>>
      /\ \A f \in Files : values'[f] = <<>>
  BY DEF Destroy, queueVars, histVars
<1>2. Len(<<>>) = 0 /\ \A i \in 1..0 : FALSE
  BY EmptySeq
<1>3. CacheOrdered' /\ PendingIsNewer'
  BY <1>1, <1>2 DEF CacheOrdered, PendingIsNewer, Strict
<1>4. BatchOrdered' /\ BatchIsNewer'
  BY <1>1 DEF Safe, Ordered, BatchOrdered, BatchIsNewer, OnDisk
<1>5. NothingLost'
  BY <1>1 DEF NothingLost
<1> QED BY <1>3, <1>4, <1>5 DEF Safe, Ordered

LEMMA InitSafe == Init => Safe
<1> SUFFICES ASSUME Init PROVE Safe
  OBVIOUS
<1>1. Len(<<>>) = 0 /\ \A i \in 1..0 : FALSE
  BY EmptySeq
<1>2. CacheOrdered /\ BatchOrdered
  BY <1>1 DEF Init, CacheOrdered, BatchOrdered, Strict
<1>3. BatchIsNewer /\ PendingIsNewer
  BY <1>1 DEF Init, BatchIsNewer, PendingIsNewer
<1>4. NothingLost
  BY DEF Init, NothingLost
<1> QED BY <1>2, <1>3, <1>4 DEF Safe, Ordered

LEMMA ConnSafe ==
    ASSUME Inv, Safe, NEW c \in Clients, ConnStep(c) \/ ClientStep(c)
    PROVE  Safe'
<1>1. CASE UpdateKnown(c)
  <2>1. PICK f \in inTree, vs \in UpdateArgs, lag \in 0..MaxLag :
           StoreValues(f, vs, last[f], age[f] - lag)
    BY <1>1 DEF UpdateKnown
  <2>2. vs \in Seq(0..MaxStamp)
    BY BoundAssumption DEF UpdateArgs
  <2>3. f \in Files
    BY DEF Inv, TypeOK, CacheTypeOK
  <2>4. UNCHANGED <<qfile, qvals, disk, mpc>>
    BY <1>1 DEF UpdateKnown
  <2> QED BY <2>1, <2>2, <2>3, <2>4, StoreSafe
<1>2. CASE UpdateInsert(c)
  <2>1. cpc[c] = "stat" /\ UNCHANGED <<qfile, qvals, disk, mpc>>
    BY <1>2 DEF UpdateInsert
  <2>2. creq[c].file \in Files /\ creq[c].args \in Seq(0..MaxStamp)
    BY <2>1 DEF Inv, TypeOK, ConnTypeOK, Requests, ThreadsConsistent, ConnsConsistent
  <2>3. CASE state = "SHUTDOWN"
    <3>1. UNCHANGED <<values, last, accepted, stale>>
      BY <1>2, <2>3 DEF UpdateInsert, histVars
    <3> QED BY <2>1, <3>1, ValuesFrame
  <2>4. CASE state # "SHUTDOWN"
    <3>1. PICK f \in Files, vs \in Seq(0..MaxStamp) : f = creq[c].file /\ vs = creq[c].args
      BY <2>2
    <3>2. \E a : StoreValues(f, vs, last[f], a)
      BY <1>2, <2>4, <3>1 DEF UpdateInsert
    <3> QED BY <2>1, <3>2, StoreSafe
  <2> QED BY <2>3, <2>4
<1>3. CASE Forget(c)
  BY <1>3, ForgetSafe
<1>4. CASE FlushAll(c)
  <2>1. UNCHANGED <<values, qfile, qvals, disk, accepted, stale, mpc>>
    BY <1>4 DEF FlushAll, flush_old_values, histVars
  <2>2. \A f \in Files : last'[f] = last[f] \/ values[f] = <<>>
    BY <1>4 DEF FlushAll, flush_old_values, ToPurge
  <2> QED BY <2>1, <2>2, ValuesFrame
<1>5. CASE \/ ConnStart(c) \/ ConnStop(c) \/ UpdateUnknown(c) \/ FlushFile(c) \/ FlushReturn(c)
           \/ Query(c) \/ ConnRead(c) \/ ConnHangup(c) \/ UpdateStatFails(c)
  <2>1. UNCHANGED <<values, last, qfile, qvals, disk, accepted, stale, mpc>>
    BY <1>5 DEF ConnStart, ConnStop, UpdateUnknown, FlushFile, FlushReturn, Query, ConnRead,
         ConnHangup, UpdateStatFails, cacheVars, queueVars, histVars
  <2> QED BY <2>1, ValuesFrame
<1> QED BY <1>1, <1>2, <1>3, <1>4, <1>5 DEF ConnStep, ClientStep

LEMMA QueueSafe ==
    ASSUME Inv, Safe, OneQueueThread, NEW t \in QueueThreads, QueueStep(t) \/ QueueWriteFails(t)
    PROVE  Safe'
<1>1. CASE (QueueTake(t) \/ QueueWoken(t)) /\ Take(t)
  <2>1. qpc[t] \notin {"write", "wrote"} /\ UNCHANGED <<last, disk, accepted, stale, mpc>>
    BY <1>1 DEF QueueTake, QueueWoken, histVars
  <2> QED BY <1>1, <2>1, TakeSafe
<1>2. CASE QueueWait(t) \/ QueueExit(t) \/ (QueueWoken(t) /\ ~Take(t))
  <2>1. UNCHANGED <<values, last, qfile, qvals, disk, accepted, stale, mpc>>
    BY <1>2 DEF QueueWait, QueueExit, QueueWoken, cacheVars, histVars
  <2> QED BY <2>1, ValuesFrame
<1>3. CASE QueueTake(t) /\ ~Take(t)
  BY <1>3 DEF QueueTake
<1> QED BY <1>1, <1>2, <1>3, WriteSafe, WriteFailsSafe, FlushedSafe DEF QueueStep

LEMMA RestSafe ==
    ASSUME Inv, Safe, FlushStep \/ MainStep \/ ListenPoll \/ Signal \/ Tick
    PROVE  Safe'
<1>1. CASE FlushOld \/ FlushShutdown
  <2>1. UNCHANGED <<values, qfile, qvals, disk, accepted, stale, mpc>>
    BY <1>1 DEF FlushOld, FlushShutdown, flush_old_values, cacheVars, histVars
  <2>2. \A f \in Files : last'[f] = last[f] \/ values[f] = <<>>
    BY <1>1 DEF FlushOld, FlushShutdown, flush_old_values, ToPurge, cacheVars
  <2> QED BY <2>1, <2>2, ValuesFrame
<1>2. CASE FlushIdle \/ FlushWait \/ FlushTimeout
  <2>1. UNCHANGED <<values, last, qfile, qvals, disk, accepted, stale, mpc>>
    BY <1>2 DEF FlushIdle, FlushWait, FlushTimeout, cacheVars, queueVars, histVars
  <2> QED BY <2>1, ValuesFrame
<1>3. CASE ListenPoll \/ Accept \/ ListenStop \/ Drained \/ JoinFlush \/ JoinQueue
  <2>1. UNCHANGED <<values, last, qfile, qvals, disk, accepted, stale>> /\ mpc # "exit"
    BY <1>3 DEF ListenPoll, Accept, ListenStop, Drained, JoinFlush, JoinQueue,
         cacheVars, queueVars, histVars
  <2> QED BY <2>1, ValuesFrame
<1>4. CASE Signal \/ Tick
  <2>1. UNCHANGED <<values, last, qfile, qvals, disk, accepted, stale, mpc>>
    BY <1>4 DEF Signal, Tick, cacheVars, queueVars, histVars
  <2> QED BY <2>1, ValuesFrame
<1> QED BY <1>1, <1>2, <1>3, <1>4, DestroySafe DEF FlushStep, MainStep

LEMMA StepSafe == OneQueueThread /\ Inv /\ Safe /\ [Next]_vars => Safe'
<1> SUFFICES ASSUME OneQueueThread, Inv, Safe, [Next]_vars PROVE Safe'
  OBVIOUS
<1>1. CASE Next
  BY <1>1, ConnSafe, QueueSafe, RestSafe DEF Next
<1>2. CASE UNCHANGED vars
  <2>1. UNCHANGED <<values, last, qfile, qvals, disk, accepted, stale, mpc>>
    BY <1>2 DEF vars, cacheVars, queueVars, histVars
  <2> QED BY <2>1, ValuesFrame
<1> QED BY <1>1, <1>2

-----------------------------------------------------------------------------
(* With one queue thread (-t 1) no accepted value disappears while the     *)
(* daemon lives: it is in the cache, being written, or in the file, unless *)
(* it was forgotten, the file could not be opened, or an outdated value    *)
(* was accepted for its file (handle_request_update, queue_thread_main).   *)
THEOREM NoValueIsLost == OneQueueThread => (Spec => []NothingLost)
<1> SUFFICES ASSUME OneQueueThread PROVE Spec => []NothingLost
  OBVIOUS
<1>1. Init => Inv /\ Safe
  BY InitInv, InitSafe
<1>2. Inv /\ Safe /\ [Next]_vars => Inv' /\ Safe'
  BY NextInv, StepSafe
<1>3. Safe => NothingLost
  BY DEF Safe
<1> QED BY <1>1, <1>2, <1>3, PTL DEF Spec

(* And rrd_update_r is never given a value that the file cannot take       *)
(* (queue_thread_main): what a queue thread holds is newer than the file,  *)
(* and what is cached is newer than both.                                  *)
THEOREM BatchesAreInOrder == OneQueueThread => (Spec => [](BatchIsNewer /\ PendingIsNewer))
<1> SUFFICES ASSUME OneQueueThread PROVE Spec => [](BatchIsNewer /\ PendingIsNewer)
  OBVIOUS
<1>1. Init => Inv /\ Safe
  BY InitInv, InitSafe
<1>2. Inv /\ Safe /\ [Next]_vars => Inv' /\ Safe'
  BY NextInv, StepSafe
<1>3. Safe => BatchIsNewer /\ PendingIsNewer
  BY DEF Safe, Ordered
<1> QED BY <1>1, <1>2, <1>3, PTL DEF Spec
=============================================================================
