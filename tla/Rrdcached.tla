------------------------------ MODULE Rrdcached ------------------------------
(***************************************************************************)
(* The caching daemon rrdcached (rrd_daemon.c): connection threads that    *)
(* take UPDATE, FLUSH, FLUSHALL and FORGET commands, the flush thread,     *)
(* the queue threads that write to the RRD files, the listener that        *)
(* becomes the cleanup at the end, and the signals that start a shutdown.  *)
(*                                                                         *)
(* Every critical section under cache_lock is one action; what the code    *)
(* does with the lock released (stat, rrd_update_r, journal_rotate, a      *)
(* wait on a condition variable) separates two actions.  A cached value is *)
(* represented by its timestamp, the only part the daemon looks at.        *)
(* Journalling is the subject of module RrdcachedJournal.                  *)
(***************************************************************************)
EXTENDS Integers, FiniteSets, QueueOps

CONSTANTS
    Files,            \* the RRD files clients name
    Clients,          \* connection threads that may exist at the same time
    QueueThreads,     \* config_queue_threads
    FlushAtShutdown,  \* config_flush_at_shutdown at startup (-F, or no -j)
    WriteInterval,    \* config_write_interval (-w), in ticks
    FlushInterval,    \* config_flush_interval (-f), in ticks
    WriteJitter,      \* config_write_jitter (-z), in ticks
    Commands,         \* the commands the clients of this instance send
    MaxStamp,         \* bound: timestamps clients use
    MaxValues,        \* bound: values in one UPDATE
    MaxBuffered,      \* bound: commands one read() may deliver
    MaxLag,           \* bound: how old `now' of a connection may be
    MaxSignals,       \* bound: signals that are delivered
    MaxFailures       \* bound: rrd_update_r calls that cannot open the file

ASSUME FilesAssumption == IsFiniteSet(Files) /\ "none" \notin Files
ASSUME ThreadsAssumption == IsFiniteSet(Clients) /\ IsFiniteSet(QueueThreads)
ASSUME FlushAssumption == FlushAtShutdown \in BOOLEAN
ASSUME TimeAssumption ==
    /\ WriteInterval \in Nat \ {0}
    /\ FlushInterval \in Nat \ {0}
    /\ WriteJitter \in Nat
    /\ MaxLag \in Nat
ASSUME BoundAssumption ==
    /\ MaxStamp \in Nat
    /\ MaxValues \in Nat
    /\ MaxBuffered \in Nat
    /\ MaxSignals \in Nat
    /\ MaxFailures \in Nat

VARIABLES
    state,      \* RUNNING, FLUSHING or SHUTDOWN
    fas,        \* config_flush_at_shutdown
    inTree,     \* the files that have a cache_item_t in cache_tree
    values,     \* ci->values of every file, as a sequence of timestamps
    last,       \* ci->last_update_stamp
    age,        \* time since ci->last_flush_time; saturates at MaxAge
    queue,      \* the update queue, see CacheQueue
    leaked,     \* cache_lock is held by a thread that has returned
    cpc,        \* where each connection thread is
    rbuf,       \* complete commands left in its read buffer
    creq,       \* the UPDATE or FLUSH it is in the middle of
    nconn,      \* connection_threads_num
    qpc,        \* where each queue thread is
    qfile,      \* the file it writes
    qvals,      \* the values it still has to write
    fpc,        \* where the flush thread is
    due,        \* time until next_flush
    mpc,        \* where the main (listener) thread is
    disk,       \* the timestamps written to each RRD file
    signals,    \* signals that may still be delivered
    failures,   \* rrd_update_r calls that may still fail
    accepted,   \* history: values answered with success and not forgotten
    stale       \* history: files for which an outdated value was accepted

cacheVars == <<inTree, values, last, age, queue>>
connVars  == <<cpc, rbuf, creq, nconn>>
queueVars == <<qpc, qfile, qvals>>
flushVars == <<fpc, due>>
histVars  == <<accepted, stale>>
vars == <<state, fas, cacheVars, leaked, connVars, queueVars, flushVars, mpc,
          disk, signals, failures, histVars>>

-----------------------------------------------------------------------------
Stamps == 1..MaxStamp

\* The values of one UPDATE; 0 is a value without a readable timestamp.
UpdateArgs == UNION {[1..n -> 0..MaxStamp] : n \in 0..MaxValues}

MaxAge == (IF WriteInterval > FlushInterval THEN WriteInterval ELSE FlushInterval)
          + MaxLag

\* wipe_ci_values: last_flush_time is `when' plus a random jitter.
Jitters == IF WriteJitter = 0 THEN {0} ELSE 0..(WriteJitter - 1)
Ages == (0 - WriteJitter)..MaxAge

NoRequest == [file |-> "none", args |-> <<>>]

\* The threads waiting on queue_cond, and what signals do to them.
QueueWaiters == {t \in QueueThreads : qpc[t] = "wait"}

Woken(T) == [t \in QueueThreads |-> IF t \in T THEN "woken" ELSE qpc[t]]

\* Mutant: enqueue_cache_item does not signal.
SignalQueue_Never(n) == UNCHANGED qpc

\* n calls of pthread_cond_signal(&queue_cond).
SignalQueue(n) ==
    \E T \in SUBSET QueueWaiters :
       /\ Cardinality(T) = (IF n < Cardinality(QueueWaiters)
                            THEN n ELSE Cardinality(QueueWaiters))
       /\ qpc' = Woken(T)

\* pthread_cond_broadcast(&ci->flushed) of all the files in F.
WakeFlushers(pc, F) ==
    [c \in Clients |-> IF pc[c] = "flush_wait" /\ creq[c].file \in F
                       THEN "woken" ELSE pc[c]]

\* pthread_cond_broadcast(&flush_cond).
WakeFlushThread == IF fpc = "wait" THEN "loop" ELSE fpc

Pending(f) == {values[f][i] : i \in 1..Len(values[f])}
OnDisk(f) == {disk[f][i] : i \in 1..Len(disk[f])}
InFlight(f) == UNION {{qvals[t][i] : i \in 1..Len(qvals[t])} :
                         t \in {u \in QueueThreads : qfile[u] = f}}

-----------------------------------------------------------------------------
Init ==
    /\ state = "RUNNING"
    /\ fas = FlushAtShutdown
    /\ inTree = {}
    /\ values = [f \in Files |-> <<>>]
    /\ last = [f \in Files |-> 0]
    /\ age = [f \in Files |-> 0]
    /\ queue = <<>>
    /\ leaked = FALSE
    /\ cpc = [c \in Clients |-> "none"]
    /\ rbuf = [c \in Clients |-> 0]
    /\ creq = [c \in Clients |-> NoRequest]
    /\ nconn = 0
    /\ qpc = [t \in QueueThreads |-> "check"]
    /\ qfile = [t \in QueueThreads |-> "none"]
    /\ qvals = [t \in QueueThreads |-> <<>>]
    /\ fpc = "loop"
    /\ due = FlushInterval
    /\ mpc = "listen"
    /\ disk = [f \in Files |-> <<>>]
    /\ signals = MaxSignals
    /\ failures = MaxFailures
    /\ accepted = [f \in Files |-> {}]
    /\ stale = {}

-----------------------------------------------------------------------------
(* flush_old_values and tree_callback_flush, called with cache_lock held.  *)

\* The items that are queued by a flush; `all' is max_age <= 0.
ToFlush(all) ==
    {f \in inTree : /\ ~InQueue(queue, f)
                    /\ values[f] # <<>>
                    /\ all \/ age[f] >= WriteInterval \/ state # "RUNNING"}

\* The items that have been idle for a flush interval and are removed.
ToPurge == {f \in inTree : /\ ~InQueue(queue, f)
                           /\ values[f] = <<>>
                           /\ age[f] >= FlushInterval}

\* g_tree_foreach visits the items in the order of the file names, which
\* the model leaves open.
Orders(F) == {s \in [1..Cardinality(F) -> F] : NoDuplicates(s)}

flush_old_values(all) ==
    /\ \E s \in Orders(ToFlush(all)) : queue' = queue \o s
    /\ SignalQueue(Cardinality(ToFlush(all)))
    /\ inTree' = inTree \ ToPurge
    /\ last' = [f \in Files |-> IF f \in ToPurge THEN 0 ELSE last[f]]
    /\ age' = [f \in Files |-> IF f \in ToPurge THEN 0 ELSE age[f]]
    /\ UNCHANGED values

-----------------------------------------------------------------------------
(* Connection threads.                                                     *)

\* connection_thread_main starts: the thread counts itself.
ConnStart(c) ==
    /\ cpc[c] = "created"
    /\ cpc' = [cpc EXCEPT ![c] = "poll"]
    /\ nconn' = nconn + 1
    /\ UNCHANGED <<state, fas, cacheVars, leaked, rbuf, creq, queueVars, flushVars,
                   mpc, disk, signals, failures, histVars>>

\* Mutant: the thread is not taken off the count.
Leave_StillCounted(c) ==
    /\ cpc' = [cpc EXCEPT ![c] = "none"]
    /\ rbuf' = [rbuf EXCEPT ![c] = 0]
    /\ creq' = [creq EXCEPT ![c] = NoRequest]
    /\ UNCHANGED nconn

\* out_close: the thread leaves, whatever is left in its buffer.
Leave(c) ==
    /\ cpc' = [cpc EXCEPT ![c] = "none"]
    /\ rbuf' = [rbuf EXCEPT ![c] = 0]
    /\ creq' = [creq EXCEPT ![c] = NoRequest]
    /\ nconn' = nconn - 1

\* Mutant: the state is not tested before reading.
ConnRead_AnyState(c) ==
    /\ cpc[c] = "poll"
    /\ \E n \in 1..MaxBuffered : rbuf' = [rbuf EXCEPT ![c] = n]
    /\ cpc' = [cpc EXCEPT ![c] = "cmd"]
    /\ UNCHANGED <<state, fas, cacheVars, leaked, creq, nconn, queueVars, flushVars,
                   mpc, disk, signals, failures, histVars>>

\* poll() and read(): commands have arrived while the daemon is RUNNING.
ConnRead(c) ==
    /\ cpc[c] = "poll"
    /\ state = "RUNNING"
    /\ \E n \in 1..MaxBuffered : rbuf' = [rbuf EXCEPT ![c] = n]
    /\ cpc' = [cpc EXCEPT ![c] = "cmd"]
    /\ UNCHANGED <<state, fas, cacheVars, leaked, creq, nconn, queueVars, flushVars,
                   mpc, disk, signals, failures, histVars>>

\* The client hung up, sent QUIT, or cannot be answered.
ConnHangup(c) ==
    /\ \/ cpc[c] = "poll"
       \/ cpc[c] = "cmd" /\ "QUIT" \in Commands
    /\ Leave(c)
    /\ UNCHANGED <<state, fas, cacheVars, leaked, queueVars, flushVars,
                   mpc, disk, signals, failures, histVars>>

\* The state is tested before and after poll(), which times out.
ConnStop(c) ==
    /\ cpc[c] = "poll" /\ state # "RUNNING"
    /\ Leave(c)
    /\ UNCHANGED <<state, fas, cacheVars, leaked, queueVars, flushVars,
                   mpc, disk, signals, failures, histVars>>

\* A handler returned 0: go on with the next buffered command, without
\* looking at the state again, or back to poll().
CommandDone(pc, c) ==
    /\ rbuf' = [rbuf EXCEPT ![c] = @ - 1]
    /\ cpc' = [pc EXCEPT ![c] = IF rbuf[c] = 1 THEN "poll" ELSE "cmd"]
    /\ creq' = [creq EXCEPT ![c] = NoRequest]
    /\ UNCHANGED nconn

\* A handler may start: a command is buffered and cache_lock can be taken.
Handles(c, cmd) == cpc[c] = "cmd" /\ cmd \in Commands /\ ~leaked

\* Mutant: a timestamp may be equal to the one before it.
Legal_Equal(vs, stamp) ==
    {n \in 0..Len(vs) :
        \A i \in 1..n : vs[i] >= (IF i = 1 THEN stamp ELSE vs[i - 1])}

\* The values of vs that handle_request_update accepts: it stops at the first
\* timestamp that is not newer than the one before it.
Legal(vs, stamp) ==
    {n \in 0..Len(vs) :
        \A i \in 1..n : vs[i] > (IF i = 1 THEN stamp ELSE vs[i - 1])}

LegalPrefix(vs, stamp) ==
    SubSeq(vs, 1, CHOOSE n \in Legal(vs, stamp) : \A m \in Legal(vs, stamp) : m <= n)

\* The value loop of handle_request_update and the decision to queue the
\* item; an illegal value ends the command before that decision.
StoreValues(f, vs, itemLast, itemAge) ==
    LET new == LegalPrefix(vs, itemLast)
        vals == values[f] \o new
        queued == /\ new = vs
                  /\ itemAge >= WriteInterval
                  /\ ~InQueue(queue, f)
                  /\ vals # <<>>
    IN  /\ values' = [values EXCEPT ![f] = vals]
        /\ last' = [last EXCEPT ![f] = IF new = <<>> THEN itemLast ELSE new[Len(new)]]
        /\ IF queued THEN queue' = AtTail(queue, f) /\ SignalQueue(1)
                     ELSE UNCHANGED <<queue, qpc>>
        /\ accepted' = [accepted EXCEPT ![f] = @ \union {new[i] : i \in 1..Len(new)}]
        /\ stale' = IF new # <<>> /\ \E s \in OnDisk(f) \union InFlight(f) : s >= new[1]
                    THEN stale \union {f} ELSE stale

\* UPDATE of a file that is in the cache.
UpdateKnown(c) ==
    /\ Handles(c, "UPDATE")
    /\ \E f \in inTree, vs \in UpdateArgs, lag \in 0..MaxLag :
          StoreValues(f, vs, last[f], age[f] - lag)
    /\ CommandDone(cpc, c)
    /\ UNCHANGED <<state, fas, inTree, age, leaked, qfile, qvals, flushVars, mpc,
                   disk, signals, failures>>

\* UPDATE of a file that is not: cache_lock is released for stat() and the
\* allocation of the item.
UpdateUnknown(c) ==
    /\ Handles(c, "UPDATE")
    /\ \E f \in Files \ inTree, vs \in UpdateArgs :
          creq' = [creq EXCEPT ![c] = [file |-> f, args |-> vs]]
    /\ cpc' = [cpc EXCEPT ![c] = "stat"]
    /\ UNCHANGED <<state, fas, cacheVars, leaked, rbuf, nconn, queueVars, flushVars,
                   mpc, disk, signals, failures, histVars>>

\* stat(), access() or malloc() failed: an error is sent, nothing is cached.
UpdateStatFails(c) ==
    /\ cpc[c] = "stat"
    /\ CommandDone(cpc, c)
    /\ UNCHANGED <<state, fas, cacheVars, leaked, queueVars, flushVars,
                   mpc, disk, signals, failures, histVars>>

\* Mutant: the new item replaces one that another UPDATE has added.
UpdateInsert_Replaces(c) ==
    LET f == creq[c].file
        new == LegalPrefix(creq[c].args, 0)
    IN  /\ cpc[c] = "stat"
        /\ ~leaked
        /\ inTree' = inTree \union {f}
        /\ values' = [values EXCEPT ![f] = new]
        /\ last' = [last EXCEPT ![f] = IF new = <<>> THEN 0 ELSE new[Len(new)]]
        /\ age' = [age EXCEPT ![f] = 0]
        /\ queue' = Removed(queue, f)
        /\ accepted' = [accepted EXCEPT ![f] = @ \union {new[i] : i \in 1..Len(new)}]
        /\ CommandDone(cpc, c)
        /\ UNCHANGED <<state, fas, leaked, queueVars, flushVars, mpc, disk, signals,
                       failures, stale>>

\* The item is inserted unless another UPDATE was faster; then the values are
\* stored.  Under SHUTDOWN the handler returns -1 and keeps cache_lock.
UpdateInsert(c) ==
    LET f == creq[c].file
    IN  /\ cpc[c] = "stat"
        /\ ~leaked
        /\ inTree' = inTree \union {f}
        /\ \E lag \in 0..MaxLag, j \in Jitters :
              LET itemAge == IF f \in inTree THEN age[f] ELSE lag - j
              IN  /\ age' = [age EXCEPT ![f] = itemAge]
                  /\ IF state = "SHUTDOWN"
                     THEN /\ leaked' = TRUE
                          /\ Leave(c)
                          /\ UNCHANGED <<values, last, queue, qpc, histVars>>
                     ELSE /\ StoreValues(f, creq[c].args, last[f], itemAge - lag)
                          /\ CommandDone(cpc, c)
                          /\ UNCHANGED leaked
        /\ UNCHANGED <<state, fas, qfile, qvals, flushVars, mpc, disk, signals,
                       failures>>

\* FLUSH (flush_file): nothing to do, or to the head of the queue and wait.
FlushFile(c) ==
    /\ Handles(c, "FLUSH")
    /\ \E f \in Files :
          IF f \notin inTree \/ values[f] = <<>>
          THEN CommandDone(cpc, c) /\ UNCHANGED <<queue, qpc>>
          ELSE /\ IF queue # <<>> /\ Head(queue) = f
                  THEN UNCHANGED <<queue, qpc>>
                  ELSE queue' = AtHead(queue, f) /\ SignalQueue(1)
               /\ cpc' = [cpc EXCEPT ![c] = "flush_wait"]
               /\ creq' = [creq EXCEPT ![c] = [file |-> f, args |-> values[f]]]
               /\ UNCHANGED <<rbuf, nconn>>
    /\ UNCHANGED <<state, fas, inTree, values, last, age, leaked, qfile, qvals,
                   flushVars, mpc, disk, signals, failures, histVars>>

\* pthread_cond_wait(&ci->flushed) returns: the FLUSH is answered.
FlushReturn(c) ==
    /\ cpc[c] = "woken"
    /\ ~leaked
    /\ CommandDone(cpc, c)
    /\ UNCHANGED <<state, fas, cacheVars, leaked, queueVars, flushVars, mpc, disk,
                   signals, failures, histVars>>

\* FLUSHALL.
FlushAll(c) ==
    /\ Handles(c, "FLUSHALL")
    /\ flush_old_values(TRUE)
    /\ CommandDone(WakeFlushers(cpc, ToPurge), c)
    /\ UNCHANGED <<state, fas, leaked, qfile, qvals, flushVars, mpc, disk, signals,
                   failures, histVars>>

\* Mutant: a queued item is freed without remove_from_queue.
Forget_StaysQueued(c) ==
    /\ Handles(c, "FORGET")
    /\ \E f \in Files :
          /\ inTree' = inTree \ {f}
          /\ values' = [values EXCEPT ![f] = <<>>]
          /\ last' = [last EXCEPT ![f] = 0]
          /\ age' = [age EXCEPT ![f] = 0]
          /\ accepted' = [accepted EXCEPT ![f] = @ \ Pending(f)]
          /\ CommandDone(WakeFlushers(cpc, {f}), c)
    /\ UNCHANGED <<state, fas, leaked, queue, queueVars, flushVars, mpc, disk, signals,
                   failures, stale>>

\* Mutant: free_cache_item does not broadcast `flushed'.
Forget_Silent(c) ==
    /\ Handles(c, "FORGET")
    /\ \E f \in Files :
          /\ inTree' = inTree \ {f}
          /\ queue' = Removed(queue, f)
          /\ values' = [values EXCEPT ![f] = <<>>]
          /\ last' = [last EXCEPT ![f] = 0]
          /\ age' = [age EXCEPT ![f] = 0]
          /\ accepted' = [accepted EXCEPT ![f] = @ \ Pending(f)]
    /\ CommandDone(cpc, c)
    /\ UNCHANGED <<state, fas, leaked, queueVars, flushVars, mpc, disk, signals,
                   failures, stale>>

\* FORGET: the item and its pending values are dropped (free_cache_item).
Forget(c) ==
    /\ Handles(c, "FORGET")
    /\ \E f \in Files :
          /\ inTree' = inTree \ {f}
          /\ queue' = Removed(queue, f)
          /\ values' = [values EXCEPT ![f] = <<>>]
          /\ last' = [last EXCEPT ![f] = 0]
          /\ age' = [age EXCEPT ![f] = 0]
          /\ accepted' = [accepted EXCEPT ![f] = @ \ Pending(f)]
          /\ CommandDone(WakeFlushers(cpc, {f}), c)
    /\ UNCHANGED <<state, fas, leaked, queueVars, flushVars, mpc, disk, signals,
                   failures, stale>>

\* PENDING, QUEUE, STATS, HELP, BATCH: nothing of this state changes.
Query(c) ==
    /\ Handles(c, "QUERY")
    /\ CommandDone(cpc, c)
    /\ UNCHANGED <<state, fas, cacheVars, leaked, queueVars, flushVars, mpc, disk,
                   signals, failures, histVars>>

-----------------------------------------------------------------------------
(* Queue threads (queue_thread_main).                                      *)

\* Take the first item with all its values, and release cache_lock.
Take(t) ==
    LET f == Head(queue)
    IN  /\ queue # <<>>
        /\ qpc' = [qpc EXCEPT ![t] = "write"]
        /\ qfile' = [qfile EXCEPT ![t] = f]
        /\ qvals' = [qvals EXCEPT ![t] = values[f]]
        /\ values' = [values EXCEPT ![f] = <<>>]
        /\ \E j \in Jitters : age' = [age EXCEPT ![f] = 0 - j]
        /\ queue' = Tail(queue)

GoesOn == state # "SHUTDOWN" \/ (queue # <<>> /\ fas)

\* The loop condition holds and something is queued.
QueueTake(t) ==
    /\ qpc[t] = "check" /\ ~leaked
    /\ GoesOn
    /\ Take(t)
    /\ UNCHANGED <<state, fas, inTree, last, leaked, connVars, flushVars, mpc, disk,
                   signals, failures, histVars>>

\* The loop condition holds and nothing is queued: wait on queue_cond.
QueueWait(t) ==
    /\ qpc[t] = "check" /\ ~leaked
    /\ GoesOn /\ queue = <<>>
    /\ qpc' = [qpc EXCEPT ![t] = "wait"]
    /\ UNCHANGED <<state, fas, cacheVars, leaked, connVars, qfile, qvals, flushVars,
                   mpc, disk, signals, failures, histVars>>

\* The loop ends.
QueueExit(t) ==
    /\ qpc[t] = "check" /\ ~leaked
    /\ ~GoesOn
    /\ qpc' = [qpc EXCEPT ![t] = "done"]
    /\ UNCHANGED <<state, fas, cacheVars, leaked, connVars, qfile, qvals, flushVars,
                   mpc, disk, signals, failures, histVars>>

\* After the wait the thread takes what is there without testing the loop
\* condition again.
QueueWoken(t) ==
    /\ qpc[t] = "woken" /\ ~leaked
    /\ \/ Take(t)
       \/ /\ queue = <<>>
          /\ qpc' = [qpc EXCEPT ![t] = "check"]
          /\ UNCHANGED <<values, age, queue, qfile, qvals>>
    /\ UNCHANGED <<state, fas, inTree, last, leaked, connVars, flushVars, mpc, disk,
                   signals, failures, histVars>>

\* rrd_update_r goes through the values; it stops at the first one that is not
\* newer than what the file holds.
QueueWrite(t) ==
    LET f == qfile[t]
        v == Head(qvals[t])
        legal == \A s \in OnDisk(f) : v > s
        rest == IF legal THEN Tail(qvals[t]) ELSE <<>>
    IN  /\ qpc[t] = "write"
        /\ disk' = IF legal THEN [disk EXCEPT ![f] = Append(@, v)] ELSE disk
        /\ qvals' = [qvals EXCEPT ![t] = rest]
        /\ qpc' = [qpc EXCEPT ![t] = IF rest = <<>> THEN "wrote" ELSE "write"]
        /\ UNCHANGED <<state, fas, cacheVars, leaked, connVars, qfile, flushVars,
                       mpc, signals, failures, histVars>>

\* rrd_update_r cannot open or lock the file: the values are dropped and the
\* failure is logged.
QueueWriteFails(t) ==
    /\ qpc[t] = "write"
    /\ failures > 0
    /\ failures' = failures - 1
    /\ accepted' = [accepted EXCEPT ![qfile[t]] =
                      @ \ {qvals[t][i] : i \in 1..Len(qvals[t])}]
    /\ qvals' = [qvals EXCEPT ![t] = <<>>]
    /\ qpc' = [qpc EXCEPT ![t] = "wrote"]
    /\ UNCHANGED <<state, fas, cacheVars, leaked, connVars, qfile, flushVars, mpc,
                   disk, signals, stale>>

\* Look the item up again and wake the FLUSHes that wait for it.
QueueFlushed(t) ==
    /\ qpc[t] = "wrote" /\ ~leaked
    /\ cpc' = WakeFlushers(cpc, inTree \intersect {qfile[t]})
    /\ qpc' = [qpc EXCEPT ![t] = "check"]
    /\ qfile' = [qfile EXCEPT ![t] = "none"]
    /\ UNCHANGED <<state, fas, cacheVars, leaked, rbuf, creq, nconn, qvals, flushVars,
                   mpc, disk, signals, failures, histVars>>

-----------------------------------------------------------------------------
(* The flush thread (flush_thread_main).                                   *)

\* Mutant: the flush thread only rotates the journal.
FlushOld_NoWalk ==
    /\ fpc = "loop" /\ ~leaked
    /\ state = "RUNNING" /\ due = 0
    /\ due' = FlushInterval
    /\ fpc' = "rotate"
    /\ UNCHANGED <<state, fas, cacheVars, leaked, connVars, queueVars, mpc, disk,
                   signals, failures, histVars>>

\* next_flush has passed: queue old values, then rotate the journal with
\* cache_lock released.
FlushOld ==
    /\ fpc = "loop" /\ ~leaked
    /\ state = "RUNNING" /\ due = 0
    /\ due' = FlushInterval
    /\ flush_old_values(FALSE)
    /\ cpc' = WakeFlushers(cpc, ToPurge)
    /\ fpc' = "rotate"
    /\ UNCHANGED <<state, fas, leaked, rbuf, creq, nconn, qfile, qvals, mpc, disk,
                   signals, failures, histVars>>

\* It is about to wait: the state was RUNNING when it was last tested, which
\* after journal_rotate was before the rotation.
FlushIdle ==
    /\ ~leaked
    /\ \/ fpc = "loop" /\ state = "RUNNING" /\ due > 0
       \/ fpc = "rotate"
    /\ fpc' = "to_wait"
    /\ UNCHANGED <<state, fas, cacheVars, leaked, connVars, queueVars, due, mpc,
                   disk, signals, failures, histVars>>

\* pthread_cond_timedwait begins; a broadcast before this step is lost.
FlushWait ==
    /\ fpc = "to_wait"
    /\ fpc' = "wait"
    /\ UNCHANGED <<state, fas, cacheVars, leaked, connVars, queueVars, due, mpc,
                   disk, signals, failures, histVars>>

\* pthread_cond_timedwait times out.
FlushTimeout ==
    /\ fpc = "wait" /\ due = 0
    /\ fpc' = "loop"
    /\ UNCHANGED <<state, fas, cacheVars, leaked, connVars, queueVars, due, mpc,
                   disk, signals, failures, histVars>>

\* The loop ends: queue everything if asked to, and allow the queue threads
\* to stop.
FlushShutdown ==
    /\ fpc = "loop" /\ ~leaked
    /\ state # "RUNNING"
    /\ IF fas THEN flush_old_values(TRUE) /\ cpc' = WakeFlushers(cpc, ToPurge)
              ELSE UNCHANGED <<cacheVars, qpc, cpc>>
    /\ state' = "SHUTDOWN"
    /\ fpc' = "done"
    /\ UNCHANGED <<fas, leaked, rbuf, creq, nconn, qfile, qvals, due, mpc, disk,
                   signals, failures, histVars>>

-----------------------------------------------------------------------------
(* Signals, the main thread and time.                                      *)

\* The process exists; after exit or abort() no thread runs.
Alive == mpc \notin {"exit", "aborted"}

\* SIGINT, SIGTERM, SIGUSR1 and SIGUSR2 (sig_common); no lock is held.
Signal ==
    /\ signals > 0 /\ Alive
    /\ signals' = signals - 1
    /\ fas' \in {fas, TRUE, FALSE}
    /\ state' = IF state = "RUNNING" THEN "FLUSHING" ELSE state
    /\ fpc' = WakeFlushThread
    /\ qpc' = Woken(QueueWaiters)
    /\ UNCHANGED <<cacheVars, leaked, connVars, qfile, qvals, due, mpc, disk,
                   failures, histVars>>

\* listen_thread_main: poll() reports a connection.
ListenPoll ==
    /\ mpc = "listen" /\ state = "RUNNING"
    /\ mpc' = "accept"
    /\ UNCHANGED <<state, fas, cacheVars, leaked, connVars, queueVars, flushVars,
                   disk, signals, failures, histVars>>

\* accept() and pthread_create(); the thread is not counted yet.
Accept ==
    /\ mpc = "accept"
    /\ mpc' = "listen"
    /\ \/ \E c \in Clients : cpc[c] = "none" /\ cpc' = [cpc EXCEPT ![c] = "created"]
       \/ UNCHANGED cpc
    /\ UNCHANGED <<state, fas, cacheVars, leaked, rbuf, creq, nconn, queueVars,
                   flushVars, disk, signals, failures, histVars>>

\* The listener leaves its loop and closes the sockets.
ListenStop ==
    /\ mpc = "listen" /\ state # "RUNNING"
    /\ mpc' = "drain"
    /\ UNCHANGED <<state, fas, cacheVars, leaked, connVars, queueVars, flushVars,
                   disk, signals, failures, histVars>>

\* connection_threads_num is 0: cleanup() broadcasts flush_cond.
Drained ==
    /\ mpc = "drain" /\ nconn = 0
    /\ mpc' = "join_flush"
    /\ fpc' = WakeFlushThread
    /\ UNCHANGED <<state, fas, cacheVars, leaked, connVars, queueVars, due, disk,
                   signals, failures, histVars>>

\* Mutant: the queue threads are joined without waking them.
JoinFlush_Silent ==
    /\ mpc = "join_flush" /\ fpc = "done"
    /\ mpc' = "join_queue"
    /\ UNCHANGED <<state, fas, cacheVars, leaked, connVars, queueVars, flushVars,
                   disk, signals, failures, histVars>>

\* The flush thread has been joined: broadcast queue_cond.
JoinFlush ==
    /\ mpc = "join_flush" /\ fpc = "done"
    /\ mpc' = "join_queue"
    /\ qpc' = Woken(QueueWaiters)
    /\ UNCHANGED <<state, fas, cacheVars, leaked, connVars, qfile, qvals, flushVars,
                   disk, signals, failures, histVars>>

\* The process is gone, and the connection threads that are left with it.
Gone ==
    /\ cpc' = [c \in Clients |-> "none"]
    /\ rbuf' = [c \in Clients |-> 0]
    /\ creq' = [c \in Clients |-> NoRequest]
    /\ nconn' = 0

\* The queue threads have been joined: assert(cache_queue_head == NULL), and
\* abort() if it fails.
JoinQueue ==
    /\ mpc = "join_queue"
    /\ \A t \in QueueThreads : qpc[t] = "done"
    /\ \/ ~(fas /\ queue # <<>>) /\ mpc' = "destroy" /\ UNCHANGED connVars
       \/ fas /\ queue # <<>> /\ mpc' = "aborted" /\ Gone
    /\ UNCHANGED <<state, fas, cacheVars, leaked, queueVars, flushVars,
                   disk, signals, failures, histVars>>

\* g_tree_destroy, and the process ends.
Destroy ==
    /\ mpc = "destroy" /\ ~leaked
    /\ mpc' = "exit"
    /\ inTree' = {}
    /\ queue' = <<>>
    /\ values' = [f \in Files |-> <<>>]
    /\ last' = [f \in Files |-> 0]
    /\ age' = [f \in Files |-> 0]
    /\ Gone
    /\ UNCHANGED <<state, fas, leaked, queueVars, flushVars, disk,
                   signals, failures, histVars>>

\* The clock moves.
Tick ==
    /\ Alive
    /\ due > 0 \/ \E f \in inTree : age[f] < MaxAge
    /\ due' = IF due > 0 THEN due - 1 ELSE 0
    /\ age' = [f \in Files |-> IF f \in inTree /\ age[f] < MaxAge
                               THEN age[f] + 1 ELSE age[f]]
    /\ UNCHANGED <<state, fas, inTree, values, last, queue, leaked, connVars,
                   queueVars, fpc, mpc, disk, signals, failures, histVars>>

-----------------------------------------------------------------------------
\* The steps the scheduler lets happen, thread by thread; what depends on a
\* client, on the file system or on an operator is not among them.
ConnStep(c) ==
    \/ ConnStart(c) \/ ConnStop(c) \/ UpdateKnown(c) \/ UpdateUnknown(c)
    \/ UpdateInsert(c) \/ FlushFile(c) \/ FlushReturn(c) \/ FlushAll(c)
    \/ Forget(c) \/ Query(c)

QueueStep(t) ==
    \/ QueueTake(t) \/ QueueWait(t) \/ QueueExit(t) \/ QueueWoken(t)
    \/ QueueWrite(t) \/ QueueFlushed(t)

FlushStep == FlushOld \/ FlushIdle \/ FlushWait \/ FlushTimeout \/ FlushShutdown

MainStep == Accept \/ ListenStop \/ Drained \/ JoinFlush \/ JoinQueue \/ Destroy

\* The steps of the environment.
ClientStep(c) == ConnRead(c) \/ ConnHangup(c) \/ UpdateStatFails(c)

Next == \/ \E c \in Clients : ConnStep(c) \/ ClientStep(c)
        \/ \E t \in QueueThreads : QueueStep(t) \/ QueueWriteFails(t)
        \/ FlushStep
        \/ MainStep
        \/ ListenPoll
        \/ Signal
        \/ Tick

Spec == Init /\ [][Next]_vars

(***************************************************************************)
(* Every thread that can run is scheduled, no thread is kept from a free   *)
(* mutex for ever, and time passes.  Nothing is assumed about clients: a   *)
(* connection may stay idle, and no command need ever arrive.              *)
(***************************************************************************)
Fairness == /\ \A c \in Clients : WF_vars(ConnStep(c))
            /\ \A t \in QueueThreads : WF_vars(QueueStep(t))
            /\ WF_vars(FlushStep)
            /\ WF_vars(MainStep)
            /\ WF_vars(Tick)

FairSpec == Spec /\ Fairness

-----------------------------------------------------------------------------
(***************************************************************************)
(* Type invariant.                                                         *)
(***************************************************************************)
ConnPhases == {"none", "created", "poll", "cmd", "stat", "flush_wait", "woken"}
QueuePhases == {"check", "wait", "woken", "write", "wrote", "done"}
FlushPhases == {"loop", "rotate", "to_wait", "wait", "done"}
MainPhases == {"listen", "accept", "drain", "join_flush", "join_queue", "destroy",
               "exit", "aborted"}

Requests == [file : Files \union {"none"}, args : Seq(0..MaxStamp)]

CacheTypeOK ==
    /\ inTree \subseteq Files
    /\ values \in [Files -> Seq(Stamps)]
    /\ last \in [Files -> 0..MaxStamp]
    /\ age \in [Files -> Ages]
    /\ queue \in Seq(Files)

ConnTypeOK ==
    /\ cpc \in [Clients -> ConnPhases]
    /\ rbuf \in [Clients -> 0..MaxBuffered]
    /\ creq \in [Clients -> Requests]
    /\ nconn \in 0..Cardinality(Clients)

QueueTypeOK ==
    /\ qpc \in [QueueThreads -> QueuePhases]
    /\ qfile \in [QueueThreads -> Files \union {"none"}]
    /\ qvals \in [QueueThreads -> Seq(Stamps)]

ControlTypeOK ==
    /\ state \in {"RUNNING", "FLUSHING", "SHUTDOWN"}
    /\ fas \in BOOLEAN
    /\ leaked \in BOOLEAN
    /\ fpc \in FlushPhases
    /\ due \in 0..FlushInterval
    /\ mpc \in MainPhases
    /\ signals \in 0..MaxSignals
    /\ failures \in 0..MaxFailures

DataTypeOK ==
    /\ disk \in [Files -> Seq(Stamps)]
    /\ accepted \in [Files -> SUBSET Stamps]
    /\ stale \subseteq Files

TypeOK == CacheTypeOK /\ ConnTypeOK /\ QueueTypeOK /\ ControlTypeOK /\ DataTypeOK

(***************************************************************************)
(* The threads' own bookkeeping: connection_threads_num counts exactly the *)
(* threads between their increment and their decrement, a handler runs for *)
(* a command that is still buffered and a file it knows, and a queue       *)
(* thread writes if and only if it has values left and a file to put them. *)
(***************************************************************************)
Counted == {c \in Clients : cpc[c] \notin {"none", "created"}}

ConnsConsistent ==
    /\ nconn = Cardinality(Counted)
    /\ \A c \in Clients :
          /\ cpc[c] \notin {"none", "created", "poll"} => rbuf[c] > 0
          /\ cpc[c] \in {"stat", "flush_wait"} => creq[c].file \in Files

JobsConsistent ==
    \A t \in QueueThreads :
       /\ IF qpc[t] \in {"write", "wrote"} THEN qfile[t] \in Files
                                           ELSE qfile[t] = "none"
       /\ qpc[t] = "write" <=> qvals[t] # <<>>

ThreadsConsistent == ConnsConsistent /\ JobsConsistent

(***************************************************************************)
(* The update queue and the tree agree whatever UPDATE, FLUSH, FLUSHALL,   *)
(* FORGET, the purge and the queue threads do in between: no file is       *)
(* queued twice, and a queued file is in the tree and has values (the      *)
(* assertions of queue_thread_main; a queued item that was freed would be  *)
(* a dangling pointer in the list).                                        *)
(***************************************************************************)
QueueConsistent ==
    /\ NoDuplicates(queue)
    /\ \A f \in Files : InQueue(queue, f) => f \in inTree /\ values[f] # <<>>

(***************************************************************************)
(* A FLUSH never waits for a write that nobody is going to make: while it  *)
(* waits on ci->flushed, the item is still in the tree, and the file is    *)
(* queued or a queue thread is busy with it and will broadcast.            *)
(***************************************************************************)
FlushHasWriter ==
    \A c \in Clients : cpc[c] = "flush_wait" =>
       /\ creq[c].file \in inTree
       /\ \/ InQueue(queue, creq[c].file)
          \/ \E t \in QueueThreads : qfile[t] = creq[c].file

(***************************************************************************)
(* cleanup() runs alone: once the listener has seen                        *)
(* connection_threads_num = 0, no connection thread is inside a handler,   *)
(* not even one that was accepted and had not counted itself yet.          *)
(***************************************************************************)
NoHandlerInCleanup ==
    mpc \notin {"listen", "accept", "drain"} =>
       \A c \in Clients : cpc[c] \in {"none", "created", "poll"}

(***************************************************************************)
(* No accepted value disappears: until the tree is destroyed, it is in the *)
(* cache, in the hands of a queue thread, or in the RRD file, unless it    *)
(* was forgotten, the file could not be written, or the file was sent a    *)
(* value that was out of date when it was accepted.                        *)
(***************************************************************************)
NothingLost ==
    mpc # "exit" =>
       \A f \in Files \ stale :
          accepted[f] \subseteq Pending(f) \union InFlight(f) \union OnDisk(f)

(***************************************************************************)
(* While the daemon runs, a FLUSH is answered.                             *)
(***************************************************************************)
FlushAnswered ==
    \A c \in Clients : cpc[c] = "flush_wait" ~> cpc[c] # "flush_wait"

(***************************************************************************)
(* Cached values do not stay in memory: while the daemon runs, a queue     *)
(* thread gets to every file that has values (or they are forgotten), even *)
(* if no client ever asks for it and nothing more is sent for it.          *)
(***************************************************************************)
ValuesLeaveCache ==
    \A f \in Files : values[f] # <<>> ~> values[f] = <<>> \/ state # "RUNNING"

(***************************************************************************)
(* After a signal the daemon ends, except in three situations: an UPDATE   *)
(* kept cache_lock, a FLUSH waits though all queue threads have ended, or  *)
(* the assertion of cleanup() failed.                                      *)
(***************************************************************************)
FlushAbandoned == /\ \E c \in Clients : cpc[c] = "flush_wait"
                  /\ \A t \in QueueThreads : qpc[t] = "done"

ShutdownEnds == state # "RUNNING" ~> ~Alive \/ leaked \/ FlushAbandoned

-----------------------------------------------------------------------------
(* What the documentation and the code's assertions say.                   *)

(***************************************************************************)
(* rrdcached.pod: "The flush command will return only after the file's     *)
(* pending updates have been written to disk."  (handle_request_flush)     *)
(***************************************************************************)
FlushMeansWritten ==
    \A c \in Clients : cpc[c] = "woken" =>
       \A i \in 1..Len(creq[c].args) : creq[c].args[i] \in OnDisk(creq[c].file)

(***************************************************************************)
(* rrdcached.pod: the update thread "dequeues the first element in the     *)
(* update queue and writes all its values to the appropriate file".  What  *)
(* was accepted and is neither cached nor being written is in the file.    *)
(***************************************************************************)
DequeuedValuesWritten ==
    \A f \in Files \ stale :
       (accepted[f] \ Pending(f)) \ InFlight(f) \subseteq OnDisk(f)

(***************************************************************************)
(* rrdcached.pod, -F: "ALWAYS flush all updates to the RRD data files when *)
(* the daemon is shut down".                                               *)
(***************************************************************************)
FlushedAtExit ==
    mpc = "exit" /\ fas => \A f \in Files \ stale : accepted[f] \subseteq OnDisk(f)

(***************************************************************************)
(* rrdcached.pod, SIGINT and SIGTERM: "The daemon exits normally on        *)
(* receipt of either of these signals."                                    *)
(***************************************************************************)
ExitsOnSignal == state # "RUNNING" ~> ~Alive
=============================================================================
