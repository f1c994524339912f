--------------------------- MODULE RrdcachedJournal ---------------------------
(***************************************************************************)
(* The journal of rrdcached (rrd_daemon.c, option -j): what is logged and  *)
(* when, the rotation of the journal sets, crashes, the fast shutdown, and *)
(* the replay at the next start.                                           *)
(*                                                                         *)
(* The cache is reduced to what the journal must be able to restore: the   *)
(* values of each file and whether it is in the tree.  A queue thread may  *)
(* take any file that has values (module Rrdcached has the queue itself).  *)
(* Clients send increasing timestamps, as they should, or repeat some that *)
(* the daemon refuses.                                                     *)
(***************************************************************************)
EXTENDS Naturals, FiniteSets, Sequences, SequencesExt

CONSTANTS
    Files,            \* the RRD files
    Clients,          \* connection threads that send FORGET
    QueueThreads,     \* queue threads
    FlushAtShutdown,  \* config_flush_at_shutdown as given by -F
    MaxStamp,         \* bound: number of values that are sent
    MaxOdd,           \* bound: number of FORGETs and of UPDATEs that are refused
    MaxRotations,     \* bound: number of rotations and of full journal files
    MaxEnds,          \* bound: number of crashes and shutdowns
    MaxFailures       \* bound: journal files that cannot be created, and batches
                      \* that cannot be written

ASSUME FilesAssumption ==
    IsFiniteSet(Files) /\ IsFiniteSet(Clients) /\ IsFiniteSet(QueueThreads)
    /\ "none" \notin Files /\ {"none", "cache"} \intersect (Clients \union QueueThreads) = {}
ASSUME BoundAssumption ==
    /\ FlushAtShutdown \in BOOLEAN
    /\ \A n \in {MaxStamp, MaxOdd, MaxRotations, MaxEnds, MaxFailures} : n \in Nat

VARIABLES
    phase,    \* running, crashed or stopped
    fas,      \* config_flush_at_shutdown
    cache,    \* the cache item of each file
    job,      \* what each queue thread is writing
    forgets,  \* the file whose FORGET each client has still to log
    disk,     \* the newest timestamp in each RRD file
    open,     \* journal_fh # NULL
    buffer,   \* entries in the stdio buffer of journal_fh
    cur,      \* the files of journal_cur, oldest first, as they are on disk
    old,      \* the files of journal_old
    doomed,   \* the files of old_js that journal_rotate has still to unlink
    rolling,  \* who is replacing a full journal file in journal_write: a thread,
              \* or one that holds cache_lock meanwhile
    rpc,      \* where the flush thread is: idle, rotate, closed, unlink
    clock,    \* the last timestamp that was sent
    left,     \* what is left of the bounds
    owed,     \* history: accepted values not yet written, and not forgotten
    raced,    \* history: files hit by one of the races described below
    dirty     \* history: files whose last wrote or forget entry is missing

setVars == <<open, buffer, cur, old, doomed>>
journalVars == <<setVars, rolling>>
histVars == <<owed, raced, dirty>>
vars == <<phase, fas, cache, job, forgets, disk, journalVars, rpc, clock, left, histVars>>

-----------------------------------------------------------------------------
NoItem == [in |-> FALSE, vals |-> <<>>, last |-> 0]
NoJob == [file |-> "none", vals |-> <<>>]
EmptyCache == [f \in Files |-> NoItem]

Entry(cmd, f, stamp) == [cmd |-> cmd, file |-> f, stamp |-> stamp]

Running == phase = "running"

ValuesOf(s) == {s[i] : i \in 1..Len(s)}
StampsOf(entries, f) ==
    {e.stamp : e \in {x \in entries : x.cmd = "update" /\ x.file = f}}
Busy(f) == \E t \in QueueThreads : job[t].file = f
Forgetting(f) == \E c \in Clients : forgets[c] = f

\* No thread holds cache_lock while it replaces a full journal file.
CacheFree == rolling # "cache"

\* One entry of the journal given to handle_request with sock = NULL: an
\* update is accepted as it would be from a client, a wrote wipes the values
\* that were accumulated, a forget removes the item.
ReplayEntry(items, e) ==
    LET item == items[e.file]
    IN  CASE e.cmd = "update" ->
               IF e.stamp > item.last
               THEN [items EXCEPT ![e.file] =
                       [in |-> TRUE, vals |-> Append(item.vals, e.stamp),
                        last |-> e.stamp]]
               ELSE [items EXCEPT ![e.file].in = TRUE]
          [] e.cmd = "wrote" -> [items EXCEPT ![e.file].vals = <<>>]
          [] e.cmd = "forget" -> [items EXCEPT ![e.file] = NoItem]

ReplayAll(entries) ==
    LET items[n \in 0..Len(entries)] ==
          IF n = 0 THEN EmptyCache ELSE ReplayEntry(items[n - 1], entries[n])
    IN  items[Len(entries)]

\* journal_replay of one file after the other.
Replay(files) == ReplayAll(FlattenSeq(files))

\* The journal files in the order of their names: journal_init reads whatever
\* is left in the directory, also of a set that was being removed.
AllFiles == doomed \o old \o cur

\* fclose(journal_fh): the buffer reaches the newest file.
Closed(n) ==
    IF open THEN [cur EXCEPT ![Len(cur)] = @ \o SubSeq(buffer, 1, n)] ELSE cur

\* What a replay would find if the buffer were written out now.
Restorable == Replay(doomed \o old \o Closed(Len(buffer)))

-----------------------------------------------------------------------------
Init ==
    /\ phase = "running"
    /\ fas = FlushAtShutdown
    /\ cache = EmptyCache
    /\ job = [t \in QueueThreads |-> NoJob]
    /\ forgets = [c \in Clients |-> "none"]
    /\ disk = [f \in Files |-> 0]
    /\ open = TRUE
    /\ buffer = <<>>
    /\ cur = << <<>> >>
    /\ old = <<>>
    /\ doomed = <<>>
    /\ rolling = "none"
    /\ rpc = "idle"
    /\ clock = 0
    /\ left = [odd |-> MaxOdd, rotations |-> MaxRotations, ends |-> MaxEnds,
               failures |-> MaxFailures]
    /\ owed = [f \in Files |-> {}]
    /\ raced = {}
    /\ dirty = {}

\* journal_write: journal_fh is tested before journal_lock is taken, so the
\* entry is dropped while another thread has the journal closed.  A file that
\* is full is closed, and replaced by another in the next step.
journal_write(e, who, rest) ==
    \/ /\ buffer' = IF open THEN Append(buffer, e) ELSE buffer
       /\ left' = rest
       /\ UNCHANGED <<open, cur, old, doomed, rolling>>
    \/ /\ open /\ rest.rotations > 0
       /\ left' = [rest EXCEPT !.rotations = @ - 1]
       /\ cur' = [cur EXCEPT ![Len(cur)] = @ \o Append(buffer, e)]
       /\ buffer' = <<>>
       /\ open' = FALSE
       /\ rolling' = who
       /\ UNCHANGED <<old, doomed>>

\* handle_request_update: logged and cached in one critical section.  The
\* races: the entry is dropped because the journal is closed, it is logged
\* before the wrote of an older batch, or before the forget that preceded it.
Update(f) ==
    /\ Running /\ CacheFree /\ clock < MaxStamp
    /\ clock' = clock + 1
    /\ journal_write(Entry("update", f, clock'), "cache", left)
    /\ cache' = [cache EXCEPT ![f] = [in |-> TRUE, vals |-> Append(@.vals, clock'),
                                      last |-> clock']]
    /\ owed' = [owed EXCEPT ![f] = @ \union {clock'}]
    /\ raced' = IF ~open \/ Busy(f) \/ Forgetting(f) THEN raced \union {f} ELSE raced
    /\ UNCHANGED <<phase, fas, job, forgets, disk, rpc, dirty>>

\* The same with a timestamp that is not newer than the item's last one: it is
\* logged before it is refused.  When the entries before it have been rotated
\* away, a replay accepts it.
UpdateRefused(f) ==
    /\ Running /\ CacheFree /\ left.odd > 0
    /\ \E stamp \in 1..cache[f].last :
          journal_write(Entry("update", f, stamp), "cache",
                        [left EXCEPT !.odd = @ - 1])
    /\ dirty' = dirty \union {f}
    /\ UNCHANGED <<phase, fas, cache, job, forgets, disk, rpc, clock, owed, raced>>

\* handle_request_forget, with cache_lock held ...
Forget(c, f) ==
    /\ Running /\ CacheFree /\ rolling # c /\ forgets[c] = "none" /\ cache[f].in
    /\ left.odd > 0
    /\ left' = [left EXCEPT !.odd = @ - 1]
    /\ cache' = [cache EXCEPT ![f] = NoItem]
    /\ forgets' = [forgets EXCEPT ![c] = f]
    /\ owed' = [owed EXCEPT ![f] = {}]
    /\ UNCHANGED <<phase, fas, job, disk, journalVars, rpc, clock, raced, dirty>>

\* The file has a wrote or forget entry, or that entry was dropped.
Settled(f) == dirty' = IF open THEN dirty \ {f} ELSE dirty \union {f}

\* ... and logged after it was released.
ForgetLogged(c) ==
    /\ forgets[c] # "none"
    /\ journal_write(Entry("forget", forgets[c], 0), c, left)
    /\ Settled(forgets[c])
    /\ forgets' = [forgets EXCEPT ![c] = "none"]
    /\ UNCHANGED <<phase, fas, cache, job, disk, rpc, clock, owed, raced>>

-----------------------------------------------------------------------------
(* Queue threads (queue_thread_main).                                      *)

\* A thread takes all the values of a file.
Dequeue(t, f) ==
    /\ Running /\ CacheFree /\ rolling # t /\ job[t] = NoJob /\ cache[f].vals # <<>>
    /\ job' = [job EXCEPT ![t] = [file |-> f, vals |-> cache[f].vals]]
    /\ cache' = [cache EXCEPT ![f].vals = <<>>]
    /\ UNCHANGED <<phase, fas, forgets, disk, journalVars, rpc, clock, left, histVars>>

\* rrd_update_r writes one value, or stops at one that is not newer than what
\* the file holds; that costs the rest of the batch.
Write(t) ==
    LET f == job[t].file
        v == Head(job[t].vals)
    IN  /\ job[t].vals # <<>>
        /\ IF v > disk[f]
           THEN /\ disk' = [disk EXCEPT ![f] = v]
                /\ job' = [job EXCEPT ![t].vals = Tail(@)]
                /\ owed' = [owed EXCEPT ![f] = @ \ {v}]
                /\ UNCHANGED raced
           ELSE /\ job' = [job EXCEPT ![t].vals = <<>>]
                /\ raced' = raced \union {f}
                /\ UNCHANGED <<disk, owed>>
        /\ UNCHANGED <<phase, fas, cache, forgets, journalVars, rpc, clock, left, dirty>>

\* rrd_update_r fails, and the values are gone.
WriteFails(t) ==
    /\ job[t].vals # <<>> /\ left.failures > 0
    /\ left' = [left EXCEPT !.failures = @ - 1]
    /\ job' = [job EXCEPT ![t].vals = <<>>]
    /\ owed' = [owed EXCEPT ![job[t].file] = @ \ ValuesOf(job[t].vals)]
    /\ UNCHANGED <<phase, fas, cache, forgets, disk, journalVars, rpc, clock, raced, dirty>>

\* journal_write("wrote"), with no lock held, and also after a failure.
Wrote(t) ==
    /\ job[t].file # "none" /\ job[t].vals = <<>>
    /\ journal_write(Entry("wrote", job[t].file, 0), t, left)
    /\ Settled(job[t].file)
    /\ job' = [job EXCEPT ![t] = NoJob]
    /\ UNCHANGED <<phase, fas, cache, forgets, disk, rpc, clock, owed, raced>>

-----------------------------------------------------------------------------
(* The flush thread: purge and journal_rotate.                             *)

\* flush_old_values removes idle items; which ones are old enough is left
\* open.  The purge is not logged.
FlushOld ==
    /\ Running /\ CacheFree /\ rpc = "idle" /\ left.rotations > 0
    /\ left' = [left EXCEPT !.rotations = @ - 1]
    /\ \E P \in SUBSET {f \in Files : cache[f].in /\ cache[f].vals = <<>>} :
          cache' = [f \in Files |-> IF f \in P THEN NoItem ELSE cache[f]]
    /\ rpc' = "rotate"
    /\ UNCHANGED <<phase, fas, job, forgets, disk, journalVars, clock, histVars>>

\* The files of which a value that is still owed is recorded in a journal set.
OwedIn(set) ==
    LET entries == FlattenSeq(set)
    IN  {f \in Files : StampsOf(ValuesOf(entries), f) \intersect owed[f] # {}}

\* Mutant: the set that has just been closed is removed, not the older one.
RotateClose_RemovesCurrent ==
    /\ rpc = "rotate" /\ rolling = "none"
    /\ doomed' = Closed(Len(buffer))
    /\ UNCHANGED old
    /\ cur' = <<>>
    /\ buffer' = <<>>
    /\ open' = FALSE
    /\ rpc' = "closed"
    /\ raced' = raced \union OwedIn(old)
    /\ UNCHANGED <<phase, fas, cache, job, forgets, disk, rolling, clock, left, owed, dirty>>

\* journal_rotate closes the file and shifts the sets, under journal_lock.
\* The race: a value of the set that is going to be removed may still wait in
\* the queue, or be in the hands of a queue thread.
RotateClose ==
    /\ rpc = "rotate" /\ rolling = "none"
    /\ doomed' = old
    /\ old' = Closed(Len(buffer))
    /\ cur' = <<>>
    /\ buffer' = <<>>
    /\ open' = FALSE
    /\ rpc' = "closed"
    /\ raced' = raced \union OwedIn(old)
    /\ UNCHANGED <<phase, fas, cache, job, forgets, disk, rolling, clock, left, owed, dirty>>

\* journal_new_file, adding to the files of journal_cur; if the file cannot
\* be created, journalling is off and everything is flushed at shutdown.
journal_new_file(files, flushing) ==
    \/ /\ cur' = Append(files, <<>>)
       /\ open' = TRUE
       /\ fas' = flushing
       /\ UNCHANGED left
    \/ /\ left.failures > 0
       /\ left' = [left EXCEPT !.failures = @ - 1]
       /\ cur' = files
       /\ open' = FALSE
       /\ fas' = TRUE

\* Mutant: the new file is not recorded in the journal set.
RotateOpen_NotRecorded ==
    /\ rpc = "closed"
    /\ open' = TRUE
    /\ rpc' = "unlink"
    /\ UNCHANGED <<phase, fas, cache, job, forgets, disk, buffer, cur, old, doomed,
                   rolling, clock, left, histVars>>

RotateOpen ==
    /\ rpc = "closed"
    /\ journal_new_file(<<>>, fas)
    /\ rpc' = "unlink"
    /\ UNCHANGED <<phase, cache, job, forgets, disk, buffer, old, doomed, rolling, clock,
                   histVars>>

\* journal_write goes on with a new file of the same set.
RollOpen ==
    /\ rolling # "none"
    /\ journal_new_file(cur, fas)
    /\ rolling' = "none"
    /\ UNCHANGED <<phase, cache, job, forgets, disk, buffer, old, doomed, rpc, clock,
                   histVars>>

\* Mutant: the newest file of the set is removed first.
RotateUnlink_NewestFirst ==
    /\ rpc = "unlink"
    /\ \/ doomed = <<>> /\ rpc' = "idle" /\ UNCHANGED doomed
       \/ doomed # <<>> /\ doomed' = Front(doomed) /\ UNCHANGED rpc
    /\ UNCHANGED <<phase, fas, cache, job, forgets, disk, open, buffer, cur, old, rolling,
                   clock, left, histVars>>

\* journal_set_remove(old_js), the oldest file first and with no lock held.
RotateUnlink ==
    /\ rpc = "unlink"
    /\ \/ doomed = <<>> /\ rpc' = "idle" /\ UNCHANGED doomed
       \/ doomed # <<>> /\ doomed' = Tail(doomed) /\ UNCHANGED rpc
    /\ UNCHANGED <<phase, fas, cache, job, forgets, disk, open, buffer, cur, old, rolling,
                   clock, left, histVars>>

-----------------------------------------------------------------------------
(* The end of the process, and the next start.                             *)

\* The process is gone with its memory; n entries of the buffer have reached
\* the file.
Down(end, n) ==
    /\ phase' = end
    /\ cache' = EmptyCache
    /\ job' = [t \in QueueThreads |-> NoJob]
    /\ forgets' = [c \in Clients |-> "none"]
    /\ cur' = Closed(n)
    /\ buffer' = <<>>
    /\ open' = FALSE
    /\ rolling' = "none"
    /\ rpc' = "idle"

\* A crash at any time.  Values whose entry was in the lost part of the buffer
\* are not owed any more.
Crash ==
    /\ Running /\ left.ends > 0
    /\ left' = [left EXCEPT !.ends = @ - 1]
    /\ \E n \in 0..Len(buffer) :
          LET gone == {buffer[i] : i \in (n + 1)..Len(buffer)}
          IN  /\ Down("crashed", n)
              /\ owed' = [f \in Files |-> owed[f] \ StampsOf(gone, f)]
              /\ dirty' = {f \in Files : \/ f \in dirty \/ Busy(f) \/ Forgetting(f)
                                         \/ \E e \in gone : /\ e.cmd # "update"
                                                            /\ e.file = f}
    /\ UNCHANGED <<fas, disk, old, doomed, clock, raced>>

\* cleanup: the threads have ended, between two of their jobs; journal_done
\* closes the journal and keeps it, or removes it if the queue threads have
\* written everything before.
Stop ==
    /\ Running /\ left.ends > 0
    /\ left' = [left EXCEPT !.ends = @ - 1]
    /\ rpc = "idle" /\ rolling = "none"
    /\ \A t \in QueueThreads : job[t] = NoJob
    /\ \A c \in Clients : forgets[c] = "none"
    /\ \/ ~fas /\ Down("stopped", Len(buffer)) /\ UNCHANGED <<old, doomed>>
       \/ /\ fas /\ \A f \in Files : cache[f].vals = <<>>
          /\ phase' = "stopped"
          /\ cache' = EmptyCache
          /\ cur' = <<>> /\ old' = <<>> /\ doomed' = <<>>
          /\ buffer' = <<>> /\ open' = FALSE
          /\ UNCHANGED <<job, forgets, rolling, rpc>>
    /\ UNCHANGED <<fas, disk, clock, histVars>>

\* journal_init: replay every journal file that is found, make them the
\* current set, and begin a new one.  What a race has lost is lost now.
Start ==
    /\ phase # "running"
    /\ phase' = "running"
    /\ cache' = Replay(AllFiles)
    /\ journal_new_file(AllFiles, FlushAtShutdown)
    /\ old' = <<>> /\ doomed' = <<>>
    /\ owed' = [f \in Files |-> IF f \in raced
                                THEN owed[f] \intersect ValuesOf(cache'[f].vals)
                                ELSE owed[f]]
    /\ raced' = {}
    /\ UNCHANGED <<job, forgets, disk, buffer, rolling, rpc, clock, dirty>>

Next == \/ \E f \in Files : Update(f) \/ UpdateRefused(f)
        \/ \E f \in Files, c \in Clients : Forget(c, f)
        \/ \E c \in Clients : ForgetLogged(c)
        \/ \E f \in Files, t \in QueueThreads : Dequeue(t, f)
        \/ \E t \in QueueThreads : Write(t) \/ WriteFails(t) \/ Wrote(t)
        \/ FlushOld \/ RotateClose \/ RotateOpen \/ RotateUnlink \/ RollOpen
        \/ Crash \/ Stop \/ Start

Spec == Init /\ [][Next]_vars

-----------------------------------------------------------------------------
(***************************************************************************)
(* Type invariant, with the states of the journal: an open journal is the  *)
(* newest file of the current set, only an open journal has a buffer, and  *)
(* a set is being removed only by journal_rotate, or was by one that       *)
(* crashed.                                                                *)
(***************************************************************************)
Items == [in : BOOLEAN, vals : Seq(1..MaxStamp), last : 0..MaxStamp]
Jobs == [file : Files \union {"none"}, vals : Seq(1..MaxStamp)]
Entries == [cmd : {"update"}, file : Files, stamp : 1..MaxStamp]
             \union [cmd : {"wrote", "forget"}, file : Files, stamp : {0}]

TypeOK ==
    /\ phase \in {"running", "crashed", "stopped"}
    /\ fas \in BOOLEAN /\ open \in BOOLEAN
    /\ cache \in [Files -> Items]
    /\ job \in [QueueThreads -> Jobs]
    /\ forgets \in [Clients -> Files \union {"none"}]
    /\ disk \in [Files -> 0..MaxStamp]
    /\ buffer \in Seq(Entries)
    /\ cur \in Seq(Seq(Entries)) /\ old \in Seq(Seq(Entries))
    /\ doomed \in Seq(Seq(Entries))
    /\ rolling \in {"none", "cache"} \union Clients \union QueueThreads
    /\ rpc \in {"idle", "rotate", "closed", "unlink"}
    /\ clock \in 0..MaxStamp
    /\ owed \in [Files -> SUBSET (1..MaxStamp)]
    /\ raced \subseteq Files /\ dirty \subseteq Files
    /\ open => Running /\ cur # <<>> /\ rolling = "none" /\ rpc # "closed"
    /\ rolling # "none" => Running
    /\ buffer # <<>> => open
    /\ doomed # <<>> => rpc \in {"closed", "unlink"} \/ phase = "crashed"

(***************************************************************************)
(* Nothing that is owed depends on the process staying alive: at every     *)
(* moment, a replay of the journal files and the buffer would restore      *)
(* every value that is in the cache or in the hands of a queue thread,     *)
(* also after earlier crashes, restarts and rotations, except for files    *)
(* that one of the races has hit since the daemon was started.             *)
(***************************************************************************)
OwedIsRestorable ==
    \A f \in Files \ raced : owed[f] \subseteq ValuesOf(Restorable[f].vals)

(***************************************************************************)
(* Nothing comes back: a replay restores only values that are owed, not    *)
(* one that was written or forgotten, once the wrote or forget entry of    *)
(* the file has been logged and unless that entry was lost.                *)
(***************************************************************************)
NothingComesBack ==
    \A f \in Files \ dirty :
       Busy(f) \/ Forgetting(f) \/ ValuesOf(Restorable[f].vals) \subseteq owed[f]

(***************************************************************************)
(* rrdcached.pod, -j: after the fast shutdown "no information is lost; all *)
(* pending updates will be replayed from the journal next time the daemon  *)
(* starts up".                                                             *)
(***************************************************************************)
FastShutdownKeepsValues ==
    phase = "stopped" /\ ~fas =>
       \A f \in Files : owed[f] \subseteq ValuesOf(Restorable[f].vals)
=============================================================================
