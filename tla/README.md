# SERRDtool in TLA+

SERRDtool is RRDtool 1.4.9 with a semantic web extension. A file of round robin
archives (an RRD file) is updated with readings, resized, dumped and restored, read,
and calculated with for graphs and exports; `rrdcached` is a multi-threaded daemon that
collects updates in memory and writes them in batches, with a journal, a protocol and a
client library; and a web service with a rule engine finds the file of a metric by its
meaning. These modules model each of these parts, those that keep state over many calls
first.

The sources meant below are in `src/SERRDtool/SERRDtool-1.4.9/src`, the documentation
in `src/SERRDtool/SERRDtool-1.4.9/doc`, the web service in
`src/SERRDtool/SERRDtool-webserver`. A second, older copy of the tree is in
`src/SERRDtool-1.4.9`; its `rrd_daemon.c` is the same file.

How to run it, in this directory:

    tlc -workers 2 -config RrdcachedClients.cfg MCRrdcached    # any run of section 4
    tlapm RrdcachedProofs.tla                                  # the proofs of section 6

## 1. Inventory

| part | state it keeps | operations | what is hard about it |
|------|----------------|------------|-----------------------|
| update queue (`rrd_daemon.c`) | `cache_queue_head`, `cache_queue_tail`, `prev` and `next` and the IN_QUEUE flag of every item, `stats_queue_length` | `enqueue_cache_item` at head or tail, `remove_from_queue`, `free_cache_item` | long sequences of operations must leave no dangling pointer |
| daemon threads (`rrd_daemon.c`) | the tree of cache items with their values and stamps, the queue, `state`, `config_flush_at_shutdown`, `connection_threads_num` | UPDATE, FLUSH, FLUSHALL, FORGET, PENDING, QUEUE, STATS; `queue_thread_main`, `flush_thread_main`, `listen_thread_main`, the signal handlers, `cleanup` | `cache_lock` is released for `stat`, `rrd_update_r`, `journal_rotate` and every wait; three kinds of condition variables; the order of the shutdown |
| journal (`rrd_daemon.c`) | `journal_cur`, `journal_old`, `journal_fh` and its stdio buffer | `journal_write`, `journal_rotate`, `journal_init` and `journal_replay`, `journal_done` | crashes; the order of entries against the cache they describe; a lock of its own |
| protocol, client (`rrd_daemon.c`, `rrd_client.c`) | read and write buffers and BATCH state of a connection; `sd` and `lock` of the client library | `next_cmd`, `handle_request`, `send_response`; `rrdc_connect`, `request`, `response_read` | reads and writes that stop anywhere, blocking on both sides, a shared connection, errors numbered later |
| start-up (`rrd_daemon.c`, `etc/rrdcached-init`) | pid file, socket | `daemonize`, `check_pidfile`, `open_listen_socket_unix`, `cleanup`, the init script | files that go by name, between processes that start, end and crash at any time |
| update (`rrd_update.c`) | last update, last reading, PDP and CDP preparation areas, ring pointers, rows | `rrd_update_r` | boundaries of steps and periods, unknown intervals, one reading of several that is refused |
| file access (`rrd_open.c`, `rrd_create.c`, `rrd_resize.c`, `rrd_tune.c`), dump and restore | the file | create, resize, tune, dump, restore | rows that wrap around the end of an archive while rows are added or removed |
| fetch and export (`rrd_fetch.c`, `rrd_xport.c`, ...) | none | choice of an archive, reading of rows; the table of an export | ring arithmetic, alignment of different steps |
| graph and rpn (`rrd_graph.c`, `rrd_rpncalc.c`) | the elements of one command | `data_fetch`, `reduce_data`, `data_calc`, `rpn_calc`, `data_proc` | rows of different steps and starts in one expression; unsigned arithmetic; SHIFT in the middle of the calculation |
| semantic service (`rrd_rpncalc.c`, Java servlet, rules) | the table META, `query.clp`, `output.txt` | `redirect`, `getQuery`, `selectMeta`, the rules, `generateHandle`, `add2DB` | requests share two files without a lock and the table without a transaction |
| aberrant behaviour detection (`rrd_hw*.c`) | coefficients in the CDP scratch areas | Holt-Winters update | floating point |
| cgi, parsetime, the command line | none that lasts | parsing, dispatch | sequential |
| bindings | none | glue | none |

How they interact. Clients talk to connection threads of the daemon; these share the
tree and the queue with the queue threads and the flush thread, under `cache_lock`. A
queue thread calls `rrd_update_r` with the lock released, on the same file format that
`rrd_create` writes and `rrd_fetch` reads; `rrd_graph` and `rrd_xport` get their data
through `rrd_fetch`. A FLUSH waits on a condition variable of
its item until a queue thread has written it; `rrdtool fetch` and `graph` send that
FLUSH before they read. The journal is written by connection and queue threads and
rotated by the flush thread under `journal_lock`; at the next start it is replayed
through the same request handlers that serve clients. A command that is called with
`-se` asks the web service for the handle of the metric it names and then works on the
file of that handle.

What makes each part correct:

- *queue*: it behaves as a sequence without duplicates, whatever the pointers do;
- *threads*: queue and tree agree; an accepted value reaches the file or is accounted
  for; a FLUSH is answered, and answered late enough; the daemon ends after a signal
  and nothing runs during `cleanup`;
- *journal*: at any moment it restores what is owed to the files, and nothing else;
- *update*: every row is what its consolidation function says of the whole history of
  readings, independently of how they were spread over calls;
- *fetch*: the rows returned are those of the requested times;
- *tune, resize, restore*: rows keep their times and values, and no rate is taken from
  readings of two kinds;
- *graph and export*: the value at a time is what the definition of the element says
  for that time, whatever steps and starts meet in it;
- *protocol*: commands arrive whole and are handled in their order, every call gets the
  answers to its own commands, and nobody waits for ever;
- *start-up*: one daemon at a time, whose files name it;
- *semantic service*: a metric has one handle, a handle has one metric, and the
  definition is that of the metric asked about.

## 2. Modules

| module | what it is |
|--------|------------|
| `QueueOps` | the update queue as operators on a sequence |
| `CacheQueue` | abstract specification: what the queue promises |
| `CacheQueueList` | the doubly linked list of the code; implements `CacheQueue` |
| `Rrdcached` | the daemon's threads; uses `QueueOps` for the queue |
| `RrdcachedJournal` | the journal, crashes and restarts |
| `RrdcachedProtocol` | the streams between the client library and a connection thread |
| `RrdcachedStartup` | pid file and socket of daemons that start, end and crash |
| `RrdValues` | `rrd_value_t`: exact fractions, unknown, infinities |
| `RrdUpdate` | `rrd_update_r`; uses `RrdValues` |
| `RrdFile` | tune, resize, dump and restore between updates, and fetch; extends `RrdUpdate` |
| `RrdReduce` | `reduce_data`: rows of a larger step for a graph or an export |
| `RrdGraph` | the data of a graph or an export; extends `RrdReduce` |
| `MetaService` | the semantic web service and the commands that ask it |
| `MC...` | symmetry sets, constant tables and commands for TLC |
| `QueueOpsProofs`, `CacheQueueListProofs`, `RrdcachedProofs`, `RrdcachedJournalProofs`, `RrdcachedStartupProofs`, `RrdcachedProtocolProofs`, `RrdFileProofs`, `MetaServiceProofs` | theorems and proofs |

Operators called `..._Something` after a definition's name, with a comment that begins
with "Mutant", are plausible bugs in that definition. Each shows that a property would
notice it; no specification uses them.

### 2.1 The update queue

`CacheQueueList` has one record `list` (head, tail, `prev`, `next`, flags, length) and
`values_num` of every item. `remove_from_queue(L, ci)`, `enqueue_head(L, ci)` and
`enqueue_tail(L, ci)` (the two branches of `enqueue_cache_item`) are the functions of
the code as functions of that record, including the early return for an item that is
not queued, the early return for an item that is queued already when the side is TAIL,
and the removal first when it is HEAD. The actions are the callers: a value arrives,
an item is queued at either end, `queue_thread_main` takes the head and wipes its
values, an item is freed. The refinement mapping is `QueueOf(list)`, the sequence of
items that the list represents, and `ImplementsCacheQueue` says that every step of the
list is the step of the same name of `CacheQueue`.

### 2.2 The daemon

One action of `Rrdcached` is one critical section under `cache_lock`, or one step that
the code makes with the lock released. A condition variable is a phase of the waiting
thread: `pthread_cond_wait` is the step into the phase, a signal or broadcast moves
waiters to `woken`, and a `woken` thread has to take the mutex again. A signal picks
any of the waiters. A broadcast while nobody waits is lost, as in the code.

| code | actions |
|------|---------|
| `connection_thread_main` | `ConnStart`, `ConnRead`, `ConnHangup`, `ConnStop` and, at the end of each handler, `CommandDone` or `Leave` |
| `handle_request_update` | `UpdateKnown`; or `UpdateUnknown` (unlock for `stat`), then `UpdateStatFails` or `UpdateInsert`; the values in `StoreValues` |
| `handle_request_flush`, `flush_file` | `FlushFile`, `FlushReturn` |
| `handle_request_flushall`, `flush_old_values`, `tree_callback_flush` | `FlushAll`, `flush_old_values` with `ToFlush` and `ToPurge` |
| `handle_request_forget`, `free_cache_item` | `Forget` |
| PENDING, QUEUE, STATS, HELP, BATCH | `Query` |
| `queue_thread_main` | `QueueTake`, `QueueWait`, `QueueWoken`, `QueueExit`, `QueueWrite` (one value of `rrd_update_r`), `QueueWriteFails`, `QueueFlushed` |
| `flush_thread_main` | `FlushOld`, `FlushIdle`, `FlushWait`, `FlushTimeout`, `FlushShutdown` |
| `sig_common` and its callers | `Signal` |
| `listen_thread_main`, `cleanup` | `ListenPoll`, `Accept`, `ListenStop`, `Drained`, `JoinFlush`, `JoinQueue`, `Destroy` |

Details that matter and are kept: a connection handles all complete commands in its
buffer without looking at `state` between them; the thread counts itself after it was
created; an UPDATE of a new file checks again whether the item exists, and keeps
`cache_lock` when it finds SHUTDOWN (`leaked`: from then on nobody can take the lock);
a thread woken on `queue_cond` takes an item without testing the loop condition; FLUSH
waits once, without a loop; the state is tested by the flush thread before
`journal_rotate`, not after; the signal handlers take no lock, so a broadcast can fall
between the test and the wait; `last_flush_time` gets a random jitter and may lie in
the future; `now` of a connection may be older than the item it looks at (`MaxLag`).

Abstractions. A cached value is its timestamp, the only part of it that the daemon
reads; 0 stands for a value whose timestamp cannot be parsed. Time is a discrete age
per item and a countdown for the flush thread. `rrd_update_r` is a loop that refuses a
timestamp that is not newer than what the file has. Strings, answers and statistics
are left out.

History variables: `accepted` (values that were answered with success, not forgotten
and not dropped by a failed write) and `stale` (files for which an outdated value was
accepted, which is possible once an idle item has been purged or forgotten and its
`last_update_stamp` with it).

### 2.3 The journal

`RrdcachedJournal` keeps the entries on disk in three sequences of files: `cur`, `old`
(`journal_cur`, `journal_old`) and `doomed`, the set that `journal_rotate` has taken
over in `old_js` and removes file by file after it released the lock. `buffer` is the
stdio buffer of `journal_fh`. A crash keeps any prefix of the buffer. The cache is
reduced to the values per file; which file a queue thread takes is left open.
`ReplayEntry` is what the request handlers do with one line when they are called by
`journal_replay` (no socket): an `update` is accepted under the same rule as from a
client, a `wrote` wipes the values, a `forget` removes the item. A file that an entry
has filled (`JOURNAL_MAX`) is closed in `journal_write` and replaced in the next step;
`rolling` is who does it, since nobody waits for `journal_fh` to be open again.

| code | actions |
|------|---------|
| `handle_request_update` (journal and cache in one critical section; logged before the timestamps are compared) | `Update`, `UpdateRefused` |
| `journal_write` with a file that is full | the second disjunct of `journal_write`, `RollOpen` |
| `handle_request_forget` (the entry is written after the unlock) | `Forget`, `ForgetLogged` |
| `queue_thread_main` (the entry `wrote` comes after the write, also after one that failed; no lock held) | `Dequeue`, `Write`, `WriteFails`, `Wrote` |
| `flush_old_values`, `journal_rotate`, `journal_new_file`, `journal_set_remove` | `FlushOld`, `RotateClose`, `RotateOpen`, `RotateUnlink` |
| `journal_done`, `cleanup` | `Stop` |
| `journal_init`, `journal_replay` | `Start` |
| the end of the process at any time | `Crash` |

The code has races between the journal and the cache. The model keeps them, and names
the files they hit, so that the properties can say precisely what holds besides:
`raced` is set when an update finds the journal closed by a rotation or by a thread
that replaces a full file (`journal_fh` is tested without the lock), when it is logged
before the `wrote` of an older batch of its file, when it is logged before a `forget`
that preceded it, when the set that is removed still records an owed value, and when a
batch is refused because a replay brought back a value that the file has. `dirty` is
set when a `wrote` or `forget` entry of a file was not, or not yet, on disk at a crash,
or was dropped; and when an UPDATE is refused: its entry is in the journal all the
same, and a replay accepts it if the entries before it have been rotated away. `owed`
are the accepted values that are neither written nor forgotten nor part of a batch
that failed. Assumption of this module: the timestamps that are accepted increase over
all files.

### 2.4 The update of a file

An action of `RrdUpdate` is one argument of `rrd_update_r`: `SimpleUpdate` (the
reading falls into the open step), `StepUpdate` (it completes primary data points) or
`RefusedUpdate` (`update_pdp_prep` fails at a later data source). `StepUpdate` is the
whole of `process_arg`: the PDP, the consolidation of every archive, the rows and the
ring pointers.

| code | definitions |
|------|-------------|
| `rrd_create` (preparation areas of a new file), `rrd_select_initial_row` | `Init` |
| `get_time_from_reading` | `Timely` |
| `update_pdp_prep` | `Missed`, `Unwrapped`, `Amount`, `OutOfRange`, `NewRate` |
| `calculate_elapsed_steps` | `StepStart`, `Elapsed`, `PreInt`, `PostInt` |
| `simple_update`, `process_pdp_st` | `Added`, `Pdp`, `OpenPrep` |
| `update_all_cdp_prep`, `update_cdp`, `reset_cdp` | `RraStepCnt`, `update_cdp_prep`, `CloseCdp`, `ExtendCdp`, `SingleCdp` |
| `initialize_cdp_val`, `initialize_carry_over`, `calculate_cdp_val` | the operators of these names |
| `write_to_rras` | `RowWritten`, `WriteRows` |

A value is an exact fraction, so rounding is left out and equality is meaningful.
Times are whole seconds. There is one data source, of a type other than COMPUTE; the
others appear only as the reason of a refusal. The archives have one of the four plain
consolidation functions. The build with `mmap`, the default, is the one modelled: the
preparation areas are the file.

The reference is the second half of the module: from the history `samples` of accepted
updates alone, `PdpOf` gives the value of every step and `RowOf` that of every row,
without any preparation area, ring or carry-over. What a step is worth when an update
spans several of them, and how much may be unknown in it, follows the code there, not
the documentation. `rrdcreate.pod` (the paragraph "The known rates during a PDP's step
...", near line 409) says that a step with more than half of its time unknown is
unknown; the code applies that to the unknown time recorded before the update that
crosses the boundary, and gives all steps completed by one update the mean over all of
them.

### 2.5 The life of a file

`RrdFile` extends `RrdUpdate`: its behaviours mix updates with edits of the file. The
tools write a new file (`resize.rrd`, the output of `restore`); the model takes it to
replace the old one.

| code | definitions |
|------|-------------|
| `rrd_tune` with `-d` | `Tune` (the last reading becomes "U") |
| `rrd_resize` | `Grow`, `Shrink` with `FrontRows`, the rows to be removed that lie at the start of the archive because those after the current one wrap |
| `rrd_dump` | `DumpedDs`, `DumpedCdpPrep`, `DumpedRows` |
| `rrd_restore`, `value_check_range`, `write_file` | `CheckedRange`, `RestoredCurRow`, `RestoredRows`, `Restore` |
| `rrd_fetch_fn` | `FullMatch`, `Better`, `ChosenRra` (the archive), `FirstPointer`, `Fetch` (the rows) |

The history variable `since` of `RrdUpdate` says from which period on an archive has
rows of its own; older rows, those that `Grow` adds among them, are unknown.

### 2.6 The protocol

A connection of `RrdcachedProtocol` has a stream of *units* towards the daemon and one
of lines towards the client, both of bounded capacity. A command is a few units, the
last of which is its end of line. The client writes them one by one (`unsent` is the
next one), and a read of the daemon takes any part of what is there.
Two threads of the client share `sd`, the connection, under `lock`.

| code | actions |
|------|---------|
| a program that calls librrd | `NewCall`, `Retry` (the same command once more), `Disconnect` |
| `rrdc_connect`, `rrdc_update` | `Connect`, `Request` |
| `request`, `response_read`, `close_connection` | `Write`, `ReadLine`, `ReadEof`, `Die`, `Return` |
| `connection_thread_main`, `next_cmd` | `ServerRead`, `ReadInto`, `Remainder`, `ServerClose` |
| `flush_old_values` (purge), `handle_request_forget` | `Forget`: the item is freed, and with it `last_update_stamp` |
| `handle_request`, `command_check_context`, `handle_request_update`, `handle_request_stats`, `batch_start`, `batch_done` | `ServerCommand` with `HandleUpdate`, `HandleStats`, `BatchStart`, `BatchDone` |
| `send_response` | the operator of this name, `ServerWrite`, `ServerWriteFails` |
| `sig_common` | `Stop` |
| the network | `Lose` |

Kept from the code: a lost connection is noticed by the next read or write, not at
once; the errors of a BATCH are collected and sent at its end; a line that does not
fit into the read buffer makes the next `read` ask for zero bytes, whose result is
taken for the end of the file; a thread that finds its connection closed by another
one connects again. No property says that a value which is sent again is refused: once
its file was forgotten or purged in between, the daemon takes it a second time.

### 2.7 Start-up

A process of `RrdcachedStartup` stands for one start of `rrdcached` with the same
options. A file is named after the process that created it, so that a name (`pidfile`)
and the file behind a descriptor (`fd`) can differ.

| code | actions |
|------|---------|
| `open_pidfile`, `check_pidfile` | `Create`, `Open`, `Read`, `Kill0`, `Truncate` |
| `open_listen_socket_unix` | `Unlink`, `Bind` |
| `daemonize`, `write_pidfile`, the label `error` | `Fork`, `Write`, `Fail` |
| `close_listen_sockets`, `cleanup`, `remove_pidfile` | `Close`, `Cleanup` |
| `etc/rrdcached-init`, `stop` | `KillProc` and `KillProcEnds` (`killproc`), `Remove` (`rm -rf`) |
| `kill -9`, or a signal before the handlers are installed | `Killed` |

`kill(pid, 0)` may find another program that got the id of a dead daemon. `killproc`
ends the processes that it finds, any of those that run; when they are gone the script
removes whatever has the name of the pid file by then. `Write` has the failures of
`write_pidfile`: when `fdopen` fails the process ends, past the label `error`, and when
`fprintf` or `fclose` fail nobody notices; the file is empty either way.

History variables name the exceptions to what the properties say. `contested` is set when
a pid file is truncated that is no longer the one that was read and probed, since the
steps of `check_pidfile` are not atomic; `robbed` when the script removes the pid file
while a process that was started later owns it. In both cases a daemon runs without a
pid file, and the next start runs beside it. `unwritten` are the processes whose id did
not get into their file.

### 2.8 Graph and export

`RrdGraph` runs one command: `data_fetch` for the DEFs, `data_calc` for VDEF, CDEF and
SHIFT in the order of the command, then `rrd_xport_fn` or `data_proc`. A behaviour is
deterministic; the commands are the initial states.

| code | definitions |
|------|-------------|
| `data_fetch`, `rrd_fetch_fn` | `FetchDef`, `Fetched` |
| `reduce_data` | module `RrdReduce`: `SkipRows`, `Edge`, `Consolidated`, `reduce_data` |
| `vdef_calc`, all but STDEV and LSLCORREL | `vdef_percent_compar`, `Percentile`, `LeastSquares`, `vdef_calc`, `CalcVdef` |
| `qsort` of the C library, a merge sort | `Merged`, `qsort` |
| SHIFT in `data_calc` | `Quotient`, `Offset`, `CalcShift` |
| CDEF in `data_calc`, `lcd` | `Variables`, `PassedBefore`, `CdefStart`, `CdefRow`, `CdefEnd` |
| `rpn_calc` | `Operands`, `Result`, `Results`, `RowOf`, `Passes`, `Trend`, `ShiftsOf`, `Predict`, `Operate`, `rpn_calc` |
| `rrd_xport_fn` | `Elements`, `RowAt`, `Xport` |
| `data_proc` | `GrTime`, `LineValue`, `Stacked`, `data_proc` |

A CDEF is given as the tree its author means and compiled to a sequence of operators;
`CdefRowsAreMeant` compares the stack machine with the value of the tree, and each VDEF
with a definition by counting, or by comparing pairs of values. Two things of that
meaning are taken from the code, because it differs from what is said of it: the windows
of a PREDICT (`Predicted`; `PredictLooksBack` has those of `rrdgraph_rpn.pod`), and the
percentiles of elements with an infinite value, about which `CdefRowsAreMeant` says
nothing: `vdef_percent_compar` returns the sign of an infinite second operand, so that
it contradicts itself, and what the sort makes of it depends on where the values stand
(`PercentOrdersInfinities`, section 5). `unsigned
long` is `WORD` = 2^16: it leaves the same rest as 2^64 modulo every reduction factor
of the run, which is all that a wrap-around does to the rows. `Outside` is what lies in memory
beyond the rows of an element.

### 2.9 The semantic service

A request of `MetaService` is one `create -se`; `Ask` is its GET request and `Answer`
what the command does with the response. Between them the servlet's thread makes one
step for each access to something that other requests share.

| code | actions |
|------|---------|
| `redirect`, `getFileName` (`rrd_rpncalc.c`) | `Ask`, `Answer` (the handle is used, or the five seconds are over), `Error500` |
| `selectMeta` | `SelectFound`, `SelectNone`, `SelectFails`, `SelectNoConnection` |
| `generateQuery` | `OpenQuery` (truncates), `WriteQuery` |
| `runReasoner`, `outputParsed` in `reasoner.clp` | `Batch`, `OpenOutput`, `CloseOutput` |
| `parseQuery` | `ParseQuery`, `ParseFails` |
| `generateHandle`, `add2DB` | `GenerateHandle`, `GenerateHandleFails`, `Add2DB`, `AddFails` |

The rules are reduced to the set `Definable` of the metrics for which they derive a
definition. A definition is the metric it belongs to. The history variables `overlap`
(requests that were in the service at one time) and `faulty` (requests that met a
failing database) are the terms of the exceptions in the properties.

## 3. Fairness

In the daemon, only `FairSpec` has fairness, and only the liveness runs use it.

- Weak fairness of each connection thread, each queue thread, the flush thread and the
  main thread: a thread that can go on is scheduled, and a mutex that is free again
  and again is eventually given to a thread that waits for it. The threads are plain
  POSIX threads that hold `cache_lock` for a bounded piece of code each time. A `poll`
  and a `pthread_cond_timedwait` time out, so the test of `state` after them is
  reached as well (`ConnStop`, `FlushTimeout`).
- Weak fairness of `Tick`: time passes.
- Nothing is assumed of clients, of the operator or of the file system: `ConnRead`,
  `ConnHangup`, `UpdateStatFails`, `QueueWriteFails`, `ListenPoll` and `Signal` are in
  no fairness condition. A connection may stay idle for ever, and no signal need come.
- A condition variable wakes only who is signalled; spurious wake-ups, which POSIX
  allows, are left out. They could only add wake-ups to the liveness properties, and
  they would be one more way to answer a FLUSH early (`RrdcachedFlushAnswer`).

`RrdcachedProtocol` assumes weak fairness of each client thread (`Client`: connecting,
writing, reading) and of each connection thread (`Server`), and nothing of the callers,
the network or the operator. `lock` is given to one of the threads that wait for it; a
thread that waits competes with the other one a bounded number of times, since the
commands are bounded. `MetaService` assumes weak fairness of the container's thread of
each request; the failures of the database are bounded (`MaxFailures`), otherwise
`generateHandle` could try for ever.

The journal, the start-up, the file and the graph have no liveness properties: nothing
waits there.

## 4. Runs

| run | asks | instance | states |
|-----|------|----------|--------|
| `CacheQueueList` | does the linked list stay well formed, does a queued item have values, and is it the abstract queue? | 4 items, 2 values each | 1 689 |
| `RrdcachedClients` | `QueueConsistent`, `FlushHasWriter`, `NothingLost`, `ThreadsConsistent` with competing clients | 2 connections, 1 file, 1 queue thread | 511 504 up to symmetry |
| `RrdcachedRunning` | is every FLUSH answered, does every value leave the cache? | 1 connection, 2 queue threads, jitter 2, lag 1, no signal | 99 392 |
| `RrdcachedShutdown` | does the daemon end after a signal; is `cleanup` alone; does nothing get lost with all the commands, a failing write and jitter? | 1 connection with up to 2 commands per read, 1 signal, 1 failure | 163 065 |
| `RrdcachedJournal` | does the journal restore all that is owed and nothing else? | 2 files, 1 queue thread, 2 values, 2 rotations or full files, 1 FORGET or refused UPDATE, 1 end, 1 failure | 3 870 904 up to symmetry |
| `RrdcachedProtocol` | do commands arrive whole, are they handled in order, does every call end with its own answers? | 2 threads, 2 connections, 6 commands, 1 lost connection | 168 082 |
| `RrdcachedStartup` | is there one daemon, do its files name it, what is left when none runs? | 4 starts, 1 stop by the init script | 794 853 up to symmetry |
| `RrdUpdate` | do the preparation areas and all rows match the definition? | 4 updates and 1 refused one, 5 archives, all 4 types | 143 906 |
| `RrdFile` | are rows, fetched values and rates right when the file is tuned, resized and restored in between? | 4 updates, 2 edits, 5 archives, 4 queries | 104 292 |
| `RrdGraph` | is every row, cell and pixel what its definition says for its time? | some 2 900 commands over 3 files with steps 1, 2 and 3 | 60 384 |
| `MetaService` | which races and failures are needed to mix up handles, files and definitions; is every request answered? | 3 requests, 2 at a time, 2 metrics, 1 failure, 1 timeout | 684 527 |
| `RrdcachedFlushAnswer` | "The flush command will return only after the file's pending updates have been written to disk" | 1 connection, 1 queue thread | violated |

The runs explore every reachable state of their instance; none uses a depth bound or a
state constraint. Deadlock is not an error in them: a stopped daemon, an empty command
list or a used-up bound ends a behaviour.

### Bounds, and why they are enough

- *Queue*: with four items a removal from the middle has a neighbour on both sides
  that is not at an end, and an item can be at the head, at the tail, alone or
  outside. What holds for more items is proved (section 6).
- *One file in the daemon*: items share the queue and the lock only. Interaction of
  several items in the queue is the subject of `CacheQueueList` and of the proofs,
  which hold for any number of files. What one file needs is several actors for it:
  two connections in `RrdcachedClients` (two UPDATEs of a new file, an UPDATE against
  a FORGET, two FLUSHes), two queue threads in `RrdcachedRunning` (an old batch and a
  new one of the same file).
- *`MaxStamp`*: two timestamps are needed to have one that is newer, one that is equal
  and one that is older. `MaxValues` = 1: an UPDATE with several values stores its
  legal prefix in one critical section; the proofs cover any length, and UPDATEs with
  one value each, one after the other, cover the order of two values for
  `NothingLost`.
- *`MaxBuffered`* = 2: a second command is handled after `state` has changed.
- *Intervals* of one or two ticks, with a jitter of up to two: an item can be too
  young, old enough, and have its flush time in the future; the flush thread runs
  before and after an item is old.
- *`MaxSignals`* = 1: `sig_common` is the same for a second signal, except that it may
  change `config_flush_at_shutdown` back; that is left to the proofs, which allow any
  number.
- *Journal*: two rotations are the number after which a file is removed; one end
  followed by a restart; two files so that one may be raced while the other is not.
  `MaxOdd` = 1 bounds FORGETs and refused UPDATEs together, `MaxRotations` rotations
  and full files, `MaxFailures` files that cannot be created and batches that cannot
  be written. One queue thread is enough to have a batch open while entries arrive;
  more threads, values, ends and rotations are left to the proofs.
- *Update*: `Step` 3 and the times 2, 3, 5, 7, 8, 12, 15 and 19 give updates within a
  step, exactly on a boundary, over one boundary, and over several; with archives of
  two and three PDPs per row an update closes one period, writes several rows at once,
  and carries up to two PDPs into the next period. The largest update spans more rows
  than two of the rings have. Half a step lies between one and two unknown seconds, so
  the half-step rule goes both ways. Heartbeat 7 lets an update complete three steps
  with one known rate and makes a longer gap unknown. A maximum rate of 5 and a
  minimum of 0 make a rate illegal on both sides. 2^32 is 8 here, and a decreasing
  counter wraps. The branch for 2^64 is in `Unwrapped`, but the readings of the run
  are smaller than the small range and do not reach it. Negative readings are not
  used. The file is created on a step and within one, and in the middle of the
  periods.
- *File*: four updates wrap the ring of two archives before an edit and fill it again
  afterwards; two edits are a resize after a tune or a restore, a growth after a
  reduction, and the like. The queries begin before the oldest row, end after the
  newest, lie within one row, and ask for a step that no archive has.
- *Protocol*: a batch of four commands is longer than the socket (2 units) and than
  what the socket holds in the other direction (1 line); a line of 4 units is longer
  than the read buffer (3). A command of the batch follows one that fails. Two
  connections and one loss are a call that is repeated after its first attempt was
  handled or not. Files are forgotten any number of times.
- *Start-up*: four starts are a daemon that ends, one that takes over, one that is
  refused, and one that comes in between. `MaxStops` = 1: a stop of the init script with
  a start between its two steps; the starts are alike, so states are counted up to
  their permutation.
- *Graph*: steps of 1, 2 and 3 with reductions to 1, 2, 3, 4 and 6 give factors that
  are powers of two and others, spans of zero, one and several reduced rows, starts in
  and off phase, and CDEFs over variables of each pair of steps with starts before,
  with and after the command's. Infinite values of both signs stand at every third row,
  before, between and after finite ones.
- *Semantic service*: three requests are two that race and one that meets what they
  have left; two metrics so that they can be mixed up, and three handles.

## 5. What the runs show

### Holds

- The queue never has a dangling pointer or a wrong length, and is the abstract queue.
- Queue and tree agree in every interleaving: a queued item is in the tree and has
  values, also when it is forgotten, purged or created again while a queue thread
  writes its old values.
- A waiting FLUSH always has a queue entry or a queue thread that will broadcast, and
  while the daemon runs it is answered; every value leaves the cache even if nobody
  asks.
- While the daemon runs with one queue thread, an accepted value is in the cache, in
  the hands of that thread or in the file, unless it was forgotten, the write failed,
  or its file was sent a value that was out of date when it was accepted. The last
  exception is real:
  a purged or forgotten item loses its `last_update_stamp`, an outdated value is then
  accepted, and `rrd_update_r` stops at it and drops the rest of the batch.
- After a signal the daemon ends, except in three named situations; `cleanup` runs
  when no handler does, although a thread counts itself late: a thread that was
  accepted before the listener stopped sees that the state is no longer RUNNING.
- A replay restores every owed value and no other, in every state with any number of
  crashes up to the bound, for files that none of the named races has hit.
- The preparation areas and the rows of an RRD file are what the history of updates
  gives by definition, for each data source type and consolidation function.

- Commands are cut correctly out of the stream and handled in their order without a gap,
  every call gets the answers of its own commands or a failure, and nobody waits for
  ever, although both sides block.
- As long as no start takes over a pid file that is not the one it checked, and the init
  script does not remove one that is newer than the daemon it has ended, there is one
  daemon, its pid file and its socket are its own, and only crashes and ids that could
  not be written leave files behind.
- Resizing, restoring and tuning keep every row at its time, and `rrd_fetch_fn`
  returns the row of the time asked for, unknown where there is none.
- The rows of DEFs, CDEFs and SHIFTs, the cells of an export and the pixels of a line
  are those of their times, with the exceptions listed below.
- Two metrics share a file, a metric changes its handle, and an answer carries the
  definition of another metric only after requests overlapped or the database failed;
  every request ends.

### Does not hold

The run `RrdcachedFlushAnswer` finds a behaviour of the code that contradicts
`rrdcached.pod`: `flush_file` (`rrd_daemon.c:1115`) waits once; a queue thread that is
still writing an older batch of the file broadcasts at its end, and FLUSH is answered
with its own values still in the queue.

More promises that documentation, comments or common sense make are stated in the
modules, and refuted by the code. Each has a configuration of its own, with which TLC
shows the behaviour within seconds; they are not part of the runs above.

| promise | configuration (module) | what happens |
|---------|------------------------|--------------|
| `FlushedAtExit`: "ALWAYS flush all updates to the RRD data files when the daemon is shut down" | `RrdcachedFlushAtShutdown.cfg` (`MCRrdcached`) | Commands already in a read buffer are handled after the flush thread's last walk over the tree (`:889`). An UPDATE then stores a value that is not old enough to be queued; with `-F` the daemon ends without writing it. |
| `ExitsOnSignal`: "The daemon exits normally on receipt of either of these signals" | `RrdcachedLockLeak.cfg` (`MCRrdcached`) | An UPDATE of a new file that finds SHUTDOWN after `stat` returns with `cache_lock` held (`:1405`). Queue threads and `cleanup` wait for it for ever. |
| `DequeuedValuesWritten`: the update thread "writes all its values to the appropriate file" | `RrdcachedTwoWriters.cfg` (`MCRrdcached`) | With two queue threads, newer values of a file can be dequeued and written while its older batch is being written (`:947`); the rest of the older batch is refused and dropped. |
| `FastShutdownKeepsValues`: "no information is lost; all pending updates will be replayed" | `RrdcachedFastShutdown.cfg` (`MCRrdcachedJournal`) | The `wrote` entry of a batch comes after the entries of the updates that arrived during the write (`:955`), and wipes them in the replay after a fast shutdown. |
| `RateFromAcceptedReadings`: an update that fails leaves the file as it was (comment at `rrd_update.c:662`) | `RrdUpdateRefused.cfg` (`MCRrdUpdate`) | With `mmap`, an update that is refused for the reading of a later data source has already replaced `last_ds` of those before it (`rrd_update.c:1239`); the next counter rate is taken from the wrong reading over the wrong interval. |
| `OwnsPidFile`: "if we've gotten this far, we own the pid file.  any daemon started with the same args must not be alive" (`rrd_daemon.c:2362`) | `RrdcachedStartupOwner.cfg` (`MCRrdcachedStartup`) | `check_pidfile` opens, reads, probes and truncates in separate steps. A start that takes over the file of a daemon that is just ending goes on with a file without a name; a third start finds none, and two daemons run. |
| `PredictLooksBack`: PREDICT "will be the average between (t0-shift1-window) and (t0-shift1)" (`rrdgraph_rpn.pod:233`) | `RrdGraphPredict.cfg` (`MCRrdGraph`) | The pointer into the rows of `x` has been moved on when PREDICT counts back from it (`rrd_rpncalc.c:1826`), and the loop includes both of its ends: the windows end one row too late and are one row longer. |
| `PercentOrdersInfinities`: "NaN < -INF < finite_values < INF" (`rrd_graph.c:5166`) | `RrdGraphPercent.cfg` (`MCRrdGraph`) | For an infinite second operand `vdef_percent_compar` returns the sign of that operand (`:5188`): 5 is greater than INF, and INF greater than 5. The array is not sorted, and the highest percentile is not the largest value. |
| `DefinitionIsTheQuerys`: "parse the reasoning result for query" (`MetaAccess.java:286`) | `MetaServiceStale.cfg` (`MCMetaService`) | `output.txt` is written only when the rules derive something. Otherwise `parseQuery` reads the result of an earlier query and stores the new metric with its definition. |

Exceptions that are part of properties:

- `ShutdownEnds`: a FLUSH that is handled when the queue threads have ended waits for
  ever and with it the listener; and a command handled late can leave something in the
  queue, so that `assert(cache_queue_head == NULL)` in `cleanup` fails.
- `DefRowsConsolidate`: when start and end lie within one row of the reduced step, the
  number of rows that are left is negative, and `reduce_data` (`rrd_graph.c:733`)
  counts it in an `unsigned long`. If the factor is a power of two the sanity check
  does not notice; otherwise it ends the whole program.
- `CdefRowsAreMeant`: `PREV(vname)` and TREND look back in rows of the variable and
  are only right when it has the step of the CDEF; `rrdgraph_rpn.pod` does not say so.
- `CdefRowsAreMeant`: with multiples of one shift (`-n`) the first shift of a PREDICT is
  zero, so that with the row of the moment also the next one is part of the
  "prediction", after the last row one outside; and the first two rows are never used
  (`offset<output_idx`).
- `CdefRowsAreMeant`: PERCENTNAN over values that are all unknown reads the element 0
  or -1 of an array of none (`rrd_graph.c:4998`).
- `OutputCoversItsTime`: an element that begins later or ends earlier than the table
  of an export (`start=`, `end=`, SHIFT) is read outside of its rows
  (`rrd_xport.c:437`).

## 6. Proofs

`tlapm` checks the following for every value of the constants. Assumptions are those
the modules state: the sets of files, connections and queue threads are finite, the
intervals are positive, the bounds are natural numbers, `NULL` is not an item, and no
file is called `"none"`, `Nothing` is neither a metric, nor a handle, nor a row, a
program that sends a BATCH also ends it (`BatchesEnd`; the library never sends one), the
order of the archives of a file lists each of them, and the limits of a data source and
the `xff` of an archive are values, the latter from 0 to less than 1. All bounds may be arbitrarily large, so they restrict
nothing.

### The queue (`QueueOpsProofs`, `CacheQueueListProofs`)

`QueueOpsProofs` has what `Removed`, `AtHead`, `AtTail` and `Tail` return: a sequence
over the same items, without duplicates, with the expected elements.

`CacheQueueListProofs` proves `ListWellFormed`, `QueuedItemsHaveValues` and
`ListRefinesQueue`. The inductive invariant says that *some* sequence without
duplicates represents the list: its first and last items are head and tail, `prev` and
`next` are its neighbours, exactly its items have the flag, its length is the counter,
and every item in it has values. Each function of the code is shown to turn a list
that represents `q` into one that represents the abstract operation on `q`
(`RemoveRepresents`, `HeadRepresents`, `TailRepresents`). A list represents at most
one sequence (`RepresentationUnique`, by induction along `next`), so the refinement
mapping is determined and every step of the list is the step of the abstract queue.

### The daemon (`RrdcachedProofs`)

The theorems `TypeCorrect`, `ThreadsStayConsistent`, `QueueStaysConsistent`,
`WaitingFlushHasWriter` and `CleanupRunsAlone` follow from one inductive invariant:

    Inv == TypeOK /\ ThreadsConsistent /\ QueueConsistent /\ FlushHasWriter
             /\ NoHandlerInCleanup /\ StoppedListening

- `QueueConsistent` is inductive with the types: every action that empties the values
  of an item takes it off the queue in the same critical section.
- `FlushHasWriter` needs `QueueConsistent` (a queued item that is dequeued passes to
  the queue thread that took it) and `ThreadsConsistent` (a queue thread with a file
  has not broadcast yet; the request of a waiting FLUSH names a file).
- `NoHandlerInCleanup` needs `ThreadsConsistent`, that `connection_threads_num` counts
  exactly the threads in a handler or in `poll`, and `StoppedListening`, that the
  listener has left its loop only because the state is not RUNNING any more: a thread
  that counts itself late therefore finds in `ConnRead` that it must not read a
  command.

There is one lemma per action (`...Inv`), built from lemmas about the parts of the
state an action leaves alone (`CacheFrame`, `ConnFrame`, `JobsFrame`,
`FlushHasWriterFrame`) and about the helpers (`FlushOldValues`, `StoreValuesCache`,
`CommandDoneConns`, `LegalPrefixType`, `OrdersType`).

### The daemon's values (`RrdcachedProofs`)

`NoValueIsLost` (`NothingLost`) and `BatchesAreInOrder` hold for any number of files,
connections and values, under one more assumption, the daemon's option `-t 1`:

    OneQueueThread == \A t, u \in QueueThreads : t = u

It cannot be dropped: with two queue threads a newer batch of a file can reach it
before an older one, whose values the file then refuses (`RrdcachedTwoWriters.cfg`,
section 4; `NothingLost` fails there in the same way). The inductive invariant is `Inv` with

    Safe    == Ordered /\ NothingLost
    Ordered == CacheOrdered /\ BatchOrdered /\ BatchIsNewer /\ PendingIsNewer

Timestamps fall along the way of a value: what is cached is newer than what the queue
thread holds, and that is newer than the file. `NothingLost` alone is not inductive,
because `rrd_update_r` stops at the first value that is not newer than the file, and
the rest of its batch would be gone.

- `CacheOrdered`: an item's values are strictly increasing and `last` bounds them, so
  that what an UPDATE appends (`LegalPrefixOrder`) is newer than all of them.
- `BatchIsNewer`, `PendingIsNewer`: for files that are not in `stale`. An item that is
  created again after a FORGET or a purge begins with the stamp 0 and accepts values
  that are older than those of the file: that is how a file gets there.
- One queue thread: when it takes the values of an item, nothing is in flight, so what
  it takes is newer than the file by `PendingIsNewer`.

### The journal (`RrdcachedJournalProofs`)

`JournalTypeCorrect`, `OwedValuesAreRestored` (`OwedIsRestorable`) and
`NothingRestoredTwice` (`NothingComesBack`) hold for any number of files, threads,
values, rotations, full files, failures, crashes and starts. The inductive invariant is

    IInv    == TypeOK /\ Shapes /\ Stamped
               /\ \A f \in Files \ raced : Kept(f)
               /\ \A f \in Files \ dirty : NothingElse(f)
    Kept(f) == Waiting(f) /\ Alone(f) /\ ForgottenNotOwed(f) /\ DoomedNotOwed(f)
               /\ Restored(f)

All files, and the buffer behind them, are one sequence of entries, `Journal`; a
rotation, an `fclose` and a start leave it as it is, `RotateUnlink` takes away its
beginning and a crash its end.

- `Restored` is `OwedIsRestorable` for one file. It is not inductive: that an entry
  `wrote` or `forget` wipes nothing that is owed needs that whoever logs it has the
  file for himself (`Alone`) and that what is owed is with him or in the cache
  (`Waiting`, `ForgottenNotOwed`).
- `DoomedNotOwed` is what the removal of the oldest file needs; the race of
  `RotateClose` is named for it.
- `Stamped` says that a new value is newer than every entry of its file, so that a
  replay accepts it.
- `NothingElse` implies `NothingComesBack` for one file. It speaks of the entries and
  not of their replay: all that was logged after the file's last `wrote` or `forget`
  (`Since`) is owed, and each such update is newer than those before it (`Fresh`).

The first part of the module says what a replay yields without computing it: no more than
`Since` and, if the file is `Fresh`, all of it (`ReplayInSince`, `SinceInReplay`); and
what becomes of it when entries are added at the end or taken away at the beginning
(`ReplayWithoutOldest`). These facts are about
recursive functions (`ReplayAll` and the library's `FlattenSeq` are defined by a
function in a LET), so they need induction over sequences. The induction
theorems of the library take an operator as their parameter, which no prover here can
instantiate; `SequenceInduction` is stated for a set of sequences instead (a set that
has the empty sequence and is closed under `Append` has them all), and is proved from
the least number of a set of naturals (`LeastNumber`), which rests on well-founded sets.

### The start-up (`RrdcachedStartupProofs`)

`StartupTypeCorrect`, `AtMostOneDaemon`, `FilesAreTheDaemons` and
`LeftFilesAreExplained` hold for any number of starts and of stops by the init script. The inductive invariant is

    Inv == TypeOK /\ Ids /\ Ownership /\ OneDaemon /\ Left

- `Ids`: a file names only a process that has been started, and what was read from a
  file and probed is such a name.
- `Ownership`: as long as nothing was contested or robbed, an owner of the pid file holds
  the file that has its name, and what it says follows from how far the owner is and
  whether it could write (`unwritten`); so does
  who is bound to the socket.
- `Left`: `LeftoversAreExplained` while processes are still under way.

`OneDaemon` alone is not inductive: that a start cannot become a second owner needs
that the file it truncates is the one with the name (else `contested`), and that the
process which that file names is dead, hence no owner.

### The protocol (`RrdcachedProtocolProofs`)

`TypeCorrect`, `WholeCommands` (`CommandsArriveWhole`), `AnswersAreRight`
(`AnswersAreTheOnesOfTheCall`) and `CommandsInOrder` (`CallsAreHandledInOrder`) hold for
any number of threads, connections, commands and losses, and for commands, sockets and
buffers of any size. The inductive invariant `StreamInv` looks at what the
daemon has read of a connection and what it has not as one sequence of units, `Stream`:

- `Streams`: every unit comes after those of its command, every command after a whole
  one, no command comes twice or in two connections, and none of those that are there
  has been handled (`Whole`, `Once`, `Has`). `ServerRead` only moves the border within
  the stream, `ServerCommand` takes its first command away (`FirstCommand`,
  `SuffixWhole`), and what a close throws away is a whole stream.
- `Continues`, `Unfinished`, `EndsWhole`: the unit that a thread writes next goes on
  with what is there, and there is nothing of a command that is not written yet; when
  nobody writes, the stream ends with an end of line. Only then may the next thread that
  gets the lock begin a command of its own. This is where the lock is needed (`Locked`)
  and that a call's commands are its own (`CallShape`, `NotYetSent`, `SentHere`).
- `Broken` connections are the exception: a unit that is written after the connection
  was lost or closed by the daemon goes nowhere, so that a later one would not go on
  with the stream; but none arrives any more.

`CountBounded` is needed for the types only: a connection cannot have counted more
commands of a batch than there are handled commands.

`AnswersAreRight` is about the way back as well. Its invariant is `AnswerInv` on top of
`StreamInv`:

    AnswerInv == Reading /\ Progress /\ Between

- `Reading`: the responses that a thread has read are right, and so is every line it is
  going to find (`Lines`): it belongs to a response to a command of this call, the lines
  of a response come together and the responses in the order of their commands
  (`InOrder`), and the first line goes on with what the thread has read so far of a
  response (`GoesOn`). Right (`RightAnswer`) means that nothing that is still to happen
  can make it wrong: the commands that the answer depends on have been handled
  (`Settled`), which for the end of a batch is the whole batch.
- `Progress`: while the connection holds, there is a number of commands of the call that
  the daemon has handled. The stream to the daemon goes on with the next one (`Comes`),
  `batch_start` and `batch_cmd` are those of the batch it is in and `wbuf` names the
  failed commands of that batch so far (`BatchState`), and the last line on its way is
  the end of the last response due (`AtEnd`). Without it the daemon's next response
  could be one that the thread does not expect yet, or count errors of another batch.
- `Between`: when no thread has the lock, nothing is on its way and no batch is open.
  This is why the next call on a shared connection starts with its own responses. It
  holds because a thread goes on only after its last response, and because a thread
  that stops before closes the connection (`Die`).

When a connection breaks, what the daemon has not got out is lost, but the lines on
their way are still read, and are still the right ones: `Reading` holds then too, while
`Progress` ends there.

`CommandsInOrder` has an invariant of its own on top of `StreamInv`:

    OrderInv == InTurn /\ SentSoFar /\ Beginning

- `InTurn`: before a command in a stream, each earlier command of its call has been
  handled or stands further ahead in the same stream. It is what `ServerCommand` needs,
  which takes the first one, and what every loss and close leaves alone, since they only
  shorten a stream at its end (`Shrinks`) or throw away all of it.
- `SentSoFar`: what a thread has written and is not in the stream any more has been
  handled, unless its connection is broken. So `InTurn` holds for the command that it
  writes next; on a broken connection nothing arrives.
- `Beginning` is the first half of the property, for all threads.

The second half follows from `AnswerInv`: a thread that has got its last answer was
answered by a daemon that had handled that command, and by `Beginning` all before it.

### Files (`RrdFileProofs`)

`UpdateTypeCorrect`, `FileTypeCorrect` (`TypeOK` of an updated file, and of one that is
tuned, resized and restored as well), `RatesAreOfOneSource` (`RateIsOfOneSource`),
`FetchReadsRightRows` (`FetchReadsTheRowOfTheTime`), `UpdatePrepIsRight` and
`FilePrepIsRight` (`PrepCountsTheOpen`), `UpdateRowsAreRight` and `FileRowsAreRight`
(`RowsMatchReference`) hold for any step, heartbeat, limits, archives, readings, times
and queries.

- `TypeOK` is inductive with the domains of the functions added (`Types`). It is more
  than types: no more seconds of the open step, and no more PDPs of an open period, are
  unknown than have passed (`pdp_prep.unkn`, `cdp_prep[a].unkn`), and `cur_row` is a row
  of its archive after every update, resize and restore. That every value is a fraction
  needs that a greatest common divisor is not zero, hence induction along Euclid's
  algorithm (`GcdType`); `Gcd` is a recursive function, which is shown to obey its own
  equation first (`GcdRecursion`).
- The step of an update over several periods needs that the steps that are left over
  are those of the new open period: `CdpUpdated`, from the arithmetic of `\div` and `%`
  (`DivMod`, `DivUnique`, `ModPlus`, `DivDiv`).
- `RateInv` adds to `RateIsOfOneSource` what the last reading is for the next rate: a
  reading of the current type, unless it is unknown. `Tune` makes it unknown, and an
  update that is refused breaks it, which is why the property excepts those.
- `FetchReadsTheRowOfTheTime` follows from the types alone. The window of a fetch and
  the end of an archive are multiples of its step (`WindowRows`, `Spans`), so the
  offsets that the code divides are whole, and two reductions modulo the number of rows
  are one (`CellOfRow`). `Chosen` shows that there is an archive that the loop of
  `rrd_fetch_fn` ends with, for any archives.
- `PrepCountsTheOpen` compares the two preparation areas with sums over the whole
  history of updates. Its invariant is

        CountInv == Types /\ Linked /\ PrepOK /\ CdpOK

  `Linked` says that the accepted updates follow each other in time without a gap, so
  that every PDP is completed by exactly one of them and later ones leave it alone
  (`PdpStays`). `PrepOK` is the property's part about the open step, with what the code
  relies on when it divides: an unknown sum (`DNAN`) stands only for a step of which
  nothing is known. `CdpOK` counts the unknown PDPs of the open periods. The main step,
  `PdpIsMean`, is that what `process_pdp_st` divides, the sum kept in `val` and the
  seconds left by the two counters of unknown ones, is the reference's sum over the
  known seconds and their number.
- Below it are the sums. A fraction in lowest terms is determined by its cross products
  (`RatioEqual`, from `GcdScales`), so `Plus` is commutative and associative
  (`PlusType`, `PlusAssociative`). The folds of the library choose the elements of a set
  one after the other; `SumRemove` shows that any element may be taken first, by
  induction over the size of the set, and `SumAdd` that one more sample adds its part.
- `RowsMatchReference` is about all that is stored, and needs what is on its way into the
  rows as well. Its invariant is

        RowInv == CountInv /\ AreasOpen /\ AllRowsHold

  (the last two joined in `RowsOK`). `AreasOpen` says what the `val` of an open period
  stands for (`Opened`): the sum of the PDPs of the period that are known, their highest,
  their lowest, or the last one. `AllRowsHold` is the property with the reference written
  as a function of the PDPs (`RowVal`; `RowOfIs` shows that it is the same). An update
  completes a number of steps that all have one and the same PDP (`Follow`), so a period
  is closed by PDPs that are equal: their sum is a multiple (`SumWithEquals`) and their
  highest one is any of them (`HighestAdds`). `OpenedExtends`, `RowClosed` and
  `OpenedAnew` are the three things that can happen to a period: it goes on, it is closed
  and its row is written, and the next one starts with what is carried over. The first
  row written gets what was consolidated and the others the PDP itself, also where the
  ring is overwritten more than once; `PeriodsDue` says which periods these are, `RowsHit`
  which of them stays in a row, and `RowAhead` where the older rows are then
  (`RowsStep`). That the periods a row tells apart from unknown ones have a known PDP at
  all, so that nothing is divided by zero and no infinity is stored, follows from
  `0 <= xff < 1` (`UnknownPeriods`), which `rrd_create` asks for.
- For files there is one more conjunct, `RatesInRange`: no rate is outside the limits of
  the data source. A resize turns the ring (`RingGrown`, `RingShrunk`, `RingRestored`);
  a restore that checks the limits throws away what is outside of them, and it is shown
  that there is nothing: a mean of values within the limits is within them (`SumWithin`,
  `MeanInRange`), for the seconds of a PDP (`WindowInRange`) as for the PDPs of a row
  (`RowInRange`), and the highest and the lowest of finitely many values are among them
  (`ExtremeIsValue`). The limits of the model do not change, which this needs; the code
  can change them with `rrd_tune -i` and `-a`.
- `ReducedRowsAreRight` is about `reduce_data` of `RrdReduce`, for any rows read and any
  step asked for. The new step is the smallest that is a multiple of the one read and as
  large as asked for, and its rows begin and end where they should. Each row consolidates
  exactly the rows read that lie in it, or is unknown if it reaches out of what was read
  (`RowIsReduced`). The code computes with times; the proof counts in steps of what was
  read (`InUnits`, `ReducedIs`). What the loop starts with is `RowsLeft`, the number of
  whole new rows between the two edges. It is -1 where start and end lie within one new
  row, and then the unsigned count of the code wraps: `UnsignedRows` says to what, and
  `Framed` and `RowsInside` that the rows are still the right ones. The sanity check at
  the end of the code fails only in that case. Assumed is that what was read begins and
  ends at multiples of its step, as `rrd_fetch_fn` returns it (`WasRead`), and that it
  has fewer rows than half of `WORD`, the range of the code's `unsigned long`.

### The semantic service (`MetaServiceProofs`)

`MetaTypeCorrect`, `SharedFilesNeedRaces`, `DefinitionsAreOwn` and `HandlesAreStable`
hold for any number of requests, metrics and handles, whatever the rules define. Three
inductive invariants stand behind them, each with the one before:

    HandleInv == TypeInv /\ Stored /\ LateInsert /\ RowOfWriter /\ SameHandle /\ Listed
    OwnInv    == HandleInv /\ (overlap = {} => Owned)
    StableInv == HandleInv /\ AnswerIsRow /\ OneRow /\ NoRowYet

- `TypeInv` adds to the types where a request has a handle, and that any two requests
  in the service at one time are in `overlap`, from which both exceptions come.
- `LateInsert` and `RowOfWriter` say why a handle may be drawn twice: a row is there
  because a request that drew its handle has inserted it, so another one can only have
  drawn it before, while the first was in the service.
- `Owned` says whose question `query.clp` and `output.txt` hold at each step of a
  request that is alone, and needs `LateInsert`: an insertion that meets a row would
  keep the definition of that row.
- `StableInv` says that the row of an answer stays there and is the only one of its
  metric, because a request that goes on to insert has seen none (`NoRowYet`). The
  exceptions of `HandleIsStable` are shown never to be taken back (`ExcusedKept`).

### Only model-checked

- Liveness (`FlushAnswered`, `ValuesLeaveCache`, `ShutdownEnds`, `CallsEnd`,
  `RequestsEnd`, and the violation of `ExitsOnSignal`): TLAPS does not prove properties under fairness.
- `RrdGraph`: its stack machine and its reference are recursive operators, which keeps
  the module out of the prover's reach. That `reduce_data` takes the right rows is proved
  of `RrdReduce` (`ReducedRowsAreRight`); that `Consolidated` computes a mean, a minimum
  or a maximum of them, and the rest of `DefRowsConsolidate`, is checked by TLC.

## 7. Plan

Done, in this order: `QueueOps`, `CacheQueue`, `CacheQueueList` and its refinement
proof; `Rrdcached` and its invariants with proofs, the loss of values last; `RrdcachedJournal`, later with
refused updates, failed writes and full files, and proofs; `RrdValues` and
`RrdUpdate`; `MetaService` with proofs; `RrdFile`; `RrdcachedProtocol`; `RrdcachedStartup` with
proofs; `RrdGraph`, `RrdReduce` split from it for a proof; then the proofs about the protocol, the updates and the files. The most important behaviour, what the daemon does with accepted
values and with those who wait for it, came first.

What could be modelled next:

| module | models | questions |
|--------|--------|-----------|
| `RrdUpdate` | several data sources, times below the second | unknown time counted in whole seconds |
| `RrdcachedJournal` | `journal_fh` tested before a rotation that fails, and used after it | what is left of the entries |
| `MetaService` | the caches of the rules and the start-up of the service | which facts a request finds |

What could be proved next:

- that with several queue threads the values lost are those of a batch which a newer
  batch of its file overtook, and no others.

An abstract specification of the daemon worth stating: a store in which an accepted
value is pending until it is written or forgotten, with `Rrdcached` as its
implementation up to the exceptions of `NothingLost`.

## 8. Not modelled

- *Update*: COMPUTE data sources; aberrant behaviour detection, which is floating-point
  arithmetic; unknown time, which the code counts in whole seconds
  (`rrd_update.c:1322`), for updates closer than a second; the build without `mmap`,
  where rows are written at once but the header only after all arguments
  (`rrd_update.c:667`), so that a bad argument leaves rows that the header does not
  count.
- *Journal*: ownership and mode of the files (`journal_replay`), an entry cut in the
  middle by a crash (the replay skips it, as if it were lost), memory that runs out, and
  the use of `journal_fh` after a rotation that could not create a file: it was tested
  before the lock and is NULL after it (`rrd_daemon.c:1977`).
- *Protocol*: permissions of sockets, `get_path`, `rrdc_is_connected` (which reads `sd`
  without the lock, `rrd_client.c:346`), the texts of the other commands. A program
  that writes many commands before it reads any answer can block itself and its
  connection thread; the library never does.
- *Start-up*: option parsing, network sockets, dropping privileges, threads that
  cannot be created.
- *Files*: `rrd_open` (mapping, locking, reading the header), tuning anything but the
  type, the rounding of a dump to ten digits, microseconds of the last update (lost in
  a dump), the libdbi source, `info`, `last`, `first`, `lastupdate`.
- *Graph*: roots (STDEV, LSLCORREL, PREDICTSIGMA, SQRT), logarithms, trigonometry
  and clock operators, PRINT, the DS form of data sources in memory, the flush of the
  daemon before a fetch (it is `FLUSH` of section 2.2), axes, scaling, drawing. The
  cache of equal DEFs is left out because the code never enters anything into it.
  `rpn_compare_double` (`rrd_rpncalc.c:1396`) gives unknown values no order, so SORT of
  unknown values is not used.
- *Semantic service*: the caches `archive.clp` and `meta.clp`, the start-up of the
  service, the search path of `getPath`, the other modes of `redirect`, and
  `semantic.c`, which answers with made-up data. Rules and ontologies are data.
- *Cgi, the command line, time parsing*: sequential conversions. *Bindings*: glue.
