---------------------------- MODULE MetaService ----------------------------
(***************************************************************************)
(* The semantic web service and its clients.                               *)
(*                                                                         *)
(* `rrdtool create -se` asks the service for the handle of a metric and    *)
(* creates the file <handle>.rrd (rrd_rpncalc.c, redirect).  The service   *)
(* (MetaAccess.java, getQuery) looks the metric up in the table META; when *)
(* it is absent it writes the query to query.clp, runs the reasoner, which *)
(* writes output.txt, reads output.txt back, draws a handle and inserts    *)
(* the row.  Every HTTP request has a MetaAccess of its own and runs in a  *)
(* thread of the container, and no lock is taken: query.clp, output.txt    *)
(* and META are shared between the requests, and each SQL statement is a   *)
(* transaction of its own.                                                 *)
(***************************************************************************)
EXTENDS Integers, FiniteSets

CONSTANTS
    MaxRequests, \* bound: how many create commands run, one request each
    Metrics,     \* what selectMeta compares: records [name, entity]
    Definable,   \* the metrics the reasoner finds a definition for
    Handles,     \* the integers generateHandle draws from
    Zero,        \* the handle of `new Meta()'
    Nothing,     \* an empty file, no definition, no row
    Threads,     \* the container's threads: requests in the service at one time
    MaxTimeouts, \* bound: how many commands give up waiting
    MaxFailures  \* bound: how often the database fails a request

ASSUME MetricsAssumption == Metrics \subseteq [name : {m.name : m \in Metrics},
                                               entity : {m.entity : m \in Metrics}]
ASSUME DefinableAssumption == Definable \subseteq Metrics
ASSUME NothingAssumption == Nothing \notin Metrics /\ Nothing \notin Handles /\ Zero # Nothing
ASSUME BoundsAssumption ==
    MaxRequests \in Nat /\ Threads \in Nat \ {0} /\ MaxTimeouts \in Nat /\ MaxFailures \in Nat

VARIABLES
    pc,         \* where the service is with the request
    client,     \* where the create command is
    asked,      \* the metric of the request
    fact,       \* the query fact in the request's rule engine
    found,      \* the metric whose definition the answer carries
    handle,     \* the handle of the answer
    META,       \* handle -> row, or Nothing
    queryFile,  \* the metric query.clp asks about
    outFile,    \* the metric whose result output.txt holds
    failures,   \* how often the database has failed
    metaList,   \* the entries <<handle, metric>> clients appended to metaList.txt
    overlap,    \* history: pairs of requests that were in the service at one time
    faulty      \* history: requests that met a failing database

\* Requests are numbered in the order in which they arrive.
Requests == 1..MaxRequests

service == <<pc, fact, found, handle>>
store == <<META, queryFile, outFile>>
history == <<overlap, faulty>>
vars == <<pc, client, asked, fact, found, handle, META, queryFile, outFile,
          failures, metaList, overlap, faulty>>

-----------------------------------------------------------------------------
PCs == {"idle", "selectMeta", "openQuery", "writeQuery", "batch", "openOutput",
        "closeOutput", "parseQuery", "generateHandle", "add2DB", "answered", "error500"}
Ended == {"answered", "error500"}
InService(r) == pc[r] \notin {"idle"} \cup Ended

Rows == [metric : Metrics \cup [name : {m.name : m \in Metrics},
                                entity : {m.entity : m \in Metrics}],
         def : Metrics \cup {Nothing}]

ASSUME RowsAssumption == Nothing \notin Rows

TypeOK ==
    /\ pc \in [Requests -> PCs]
    /\ client \in [Requests -> {"idle", "waiting", "created", "gaveUp", "crashed"}]
    /\ asked \in [Requests -> Metrics \cup {Nothing}]
    /\ fact \in [Requests -> Metrics \cup {Nothing}]
    /\ found \in [Requests -> Metrics \cup {Nothing}]
    /\ handle \in [Requests -> Handles \cup {Zero, Nothing}]
    /\ META \in [Handles -> Rows \cup {Nothing}]
    /\ queryFile \in Metrics \cup {Nothing}
    /\ outFile \in Metrics \cup {Nothing}
    /\ failures \in 0..MaxFailures
    /\ metaList \subseteq (Handles \cup {Zero}) \X Metrics
    /\ overlap \subseteq SUBSET Requests
    /\ faulty \subseteq Requests

\* The repository's query.clp and output.txt are empty; META starts with a row
\* of insertMeta that no client asks for, which the model leaves out.
Init ==
    /\ pc = [r \in Requests |-> "idle"]
    /\ client = [r \in Requests |-> "idle"]
    /\ asked = [r \in Requests |-> Nothing]
    /\ fact = [r \in Requests |-> Nothing]
    /\ found = [r \in Requests |-> Nothing]
    /\ handle = [r \in Requests |-> Nothing]
    /\ META = [h \in Handles |-> Nothing]
    /\ queryFile = Nothing
    /\ outFile = Nothing
    /\ failures = 0
    /\ metaList = {}
    /\ overlap = {}
    /\ faulty = {}

Goto(r, label) == pc' = [pc EXCEPT ![r] = label]

-----------------------------------------------------------------------------
(* The create command: redirect, getFileName.                              *)

\* The command sends the GET request; a thread of the container enters getQuery.
Ask(r, m) ==
    /\ client[r] = "idle" /\ \A s \in Requests : s < r => client[s] # "idle"
    /\ Cardinality({s \in Requests : InService(s)}) < Threads
    /\ client' = [client EXCEPT ![r] = "waiting"]
    /\ asked' = [asked EXCEPT ![r] = m]
    /\ Goto(r, "selectMeta")
    /\ overlap' = overlap \cup {{r, s} : s \in {t \in Requests : InService(t)}}
    /\ UNCHANGED <<fact, found, handle, store, failures, metaList, faulty>>

\* The answer h leaves the service.  The command logs it in metaList.txt and
\* creates the file; or CURLOPT_TIMEOUT has made it give up after 5 seconds and
\* go on with an uninitialized result, which names no handle.  Client and
\* service share no state, so when the command hears of it does not matter.
Answer(r, h) ==
    /\ Goto(r, "answered")
    /\ \/ /\ client' = [client EXCEPT ![r] = "created"]
          /\ metaList' = metaList \cup {<<h, asked[r]>>}
       \/ /\ Cardinality({s \in Requests : client[s] = "gaveUp"}) < MaxTimeouts
          /\ client' = [client EXCEPT ![r] = "gaveUp"]
          /\ UNCHANGED metaList

\* An exception that leaves getQuery makes an error page, which is no JSON:
\* json_parse walks a null object and the command crashes.
Error500(r) ==
    /\ Goto(r, "error500")
    /\ client' = [client EXCEPT ![r] = "crashed"]
    /\ UNCHANGED metaList

-----------------------------------------------------------------------------
(* The service: getQuery and the methods it calls.                         *)

\* A connection or a statement fails; the request never learns the table's state.
DatabaseFails(r) ==
    /\ failures < MaxFailures
    /\ failures' = failures + 1
    /\ faulty' = faulty \cup {r}

RowsOf(m) == {h \in Handles : META[h] # Nothing /\ META[h].metric = m}

\* selectMeta finds a row: rs.next() takes whichever the database lists first.
SelectFound(r) ==
    /\ pc[r] = "selectMeta"
    /\ \E h \in RowsOf(asked[r]) :
         /\ handle' = [handle EXCEPT ![r] = h]
         /\ found' = [found EXCEPT ![r] = META[h].def]
         /\ Answer(r, h)
    /\ UNCHANGED <<asked, fact, store, failures, history>>

SelectNone(r) ==
    /\ pc[r] = "selectMeta"
    /\ RowsOf(asked[r]) = {}
    /\ Goto(r, "openQuery")
    /\ UNCHANGED <<client, asked, fact, found, handle, store, failures, metaList, history>>

\* The connection fails: conn stays null and its use throws out of getQuery.
SelectNoConnection(r) ==
    /\ pc[r] = "selectMeta"
    /\ DatabaseFails(r)
    /\ Error500(r)
    /\ UNCHANGED <<asked, fact, found, handle, store, overlap>>

\* Mutant: a handle of -1, which no column of META holds, stands for a failure.
SelectFails_MinusOne(r) ==
    /\ pc[r] = "selectMeta"
    /\ DatabaseFails(r)
    /\ handle' = [handle EXCEPT ![r] = -1]
    /\ Answer(r, -1)
    /\ UNCHANGED <<asked, fact, found, store, overlap>>

\* The statement fails: the exception is caught and the empty Meta returned as found.
SelectFails(r) ==
    /\ pc[r] = "selectMeta"
    /\ DatabaseFails(r)
    /\ handle' = [handle EXCEPT ![r] = Zero]
    /\ Answer(r, Zero)
    /\ UNCHANGED <<asked, fact, found, store, overlap>>

\* generateQuery: opening the FileWriter truncates query.clp ...
OpenQuery(r) ==
    /\ pc[r] = "openQuery"
    /\ queryFile' = Nothing
    /\ Goto(r, "writeQuery")
    /\ UNCHANGED <<client, asked, fact, found, handle, META, outFile, failures, metaList, history>>

\* ... and closing it writes the buffered text at the start of the file, over
\* what another request may have written since: a longer text leaves its tail,
\* which is no legal fact.
WriteQuery(r) ==
    /\ pc[r] = "writeQuery"
    /\ queryFile' \in IF queryFile = Nothing THEN {asked[r]} ELSE {asked[r], Nothing}
    /\ Goto(r, "batch")
    /\ UNCHANGED <<client, asked, fact, found, handle, META, outFile, failures, metaList, history>>

\* Mutant: a result that is already in output.txt is not printed again.
Batch_Cached(r) ==
    /\ pc[r] = "batch"
    /\ IF queryFile \in Definable /\ outFile = Nothing
       THEN fact' = [fact EXCEPT ![r] = queryFile] /\ Goto(r, "openOutput")
       ELSE fact' = fact /\ Goto(r, "parseQuery")
    /\ UNCHANGED <<client, asked, found, handle, store, failures, metaList, history>>

\* engine.batch loads the facts, query.clp among them, and runs the rules.
\* outputParsed fires only when they derive a definition of the query.
Batch(r) ==
    /\ pc[r] = "batch"
    /\ IF queryFile \in Definable
       THEN fact' = [fact EXCEPT ![r] = queryFile] /\ Goto(r, "openOutput")
       ELSE fact' = fact /\ Goto(r, "parseQuery")
    /\ UNCHANGED <<client, asked, found, handle, store, failures, metaList, history>>

\* outputParsed: open output.txt for writing, print the fields, close it.
OpenOutput(r) ==
    /\ pc[r] = "openOutput"
    /\ outFile' = Nothing
    /\ Goto(r, "closeOutput")
    /\ UNCHANGED <<client, asked, fact, found, handle, META, queryFile, failures, metaList, history>>

CloseOutput(r) ==
    /\ pc[r] = "closeOutput"
    /\ outFile' = fact[r]
    /\ fact' = [fact EXCEPT ![r] = Nothing]
    /\ Goto(r, "parseQuery")
    /\ UNCHANGED <<client, asked, found, handle, META, queryFile, failures, metaList, history>>

\* parseQuery reads the fields of output.txt, whoever wrote them.  The blank
\* line at its end is taken for the mark of a new metric: every field but the
\* definition is then set from the query.
ParseQuery(r) ==
    /\ pc[r] = "parseQuery" /\ outFile # Nothing
    /\ found' = [found EXCEPT ![r] = outFile]
    /\ Goto(r, "generateHandle")
    /\ UNCHANGED <<client, asked, fact, handle, store, failures, metaList, history>>

\* An empty or unfinished output.txt leaves the last fields "", and
\* Integer.valueOf("") throws out of getQuery.
ParseFails(r) ==
    /\ pc[r] = "parseQuery" /\ outFile = Nothing
    /\ Error500(r)
    /\ UNCHANGED <<asked, fact, found, handle, store, failures, history>>

\* Mutant: the handle drawn is not looked up in META.
GenerateHandle_Unchecked(r) ==
    /\ pc[r] = "generateHandle"
    /\ \E h \in Handles : handle' = [handle EXCEPT ![r] = h]
    /\ Goto(r, "add2DB")
    /\ UNCHANGED <<client, asked, fact, found, store, failures, metaList, history>>

\* Mutant: the test of the result set is inverted.
GenerateHandle_Inverted(r) ==
    /\ pc[r] = "generateHandle"
    /\ \E h \in {x \in Handles : META[x] # Nothing} : handle' = [handle EXCEPT ![r] = h]
    /\ Goto(r, "add2DB")
    /\ UNCHANGED <<client, asked, fact, found, store, failures, metaList, history>>

\* generateHandle draws until META has no row for the handle ...
GenerateHandle(r) ==
    /\ pc[r] = "generateHandle"
    /\ \E h \in {x \in Handles : META[x] = Nothing} : handle' = [handle EXCEPT ![r] = h]
    /\ Goto(r, "add2DB")
    /\ UNCHANGED <<client, asked, fact, found, store, failures, metaList, history>>

\* ... and draws again when the database fails.
GenerateHandleFails(r) ==
    /\ pc[r] = "generateHandle"
    /\ DatabaseFails(r)
    /\ UNCHANGED <<pc, client, asked, fact, found, handle, store, metaList, overlap>>

\* Mutant: the insert is not committed before the connection is closed.
Add2DB_Uncommitted(r) ==
    /\ pc[r] = "add2DB"
    /\ Answer(r, handle[r])
    /\ UNCHANGED <<asked, fact, found, handle, store, failures, history>>

\* add2DB: INSERT ... ON DUPLICATE KEY UPDATE metricName.
Add2DB(r) ==
    /\ pc[r] = "add2DB"
    /\ META' = [META EXCEPT ![handle[r]] =
                  IF @ = Nothing THEN [metric |-> asked[r], def |-> found[r]]
                  ELSE [metric |-> [name |-> asked[r].name, entity |-> @.metric.entity],
                        def |-> @.def]]
    /\ Answer(r, handle[r])
    /\ UNCHANGED <<asked, fact, found, handle, queryFile, outFile, failures, history>>

\* A failing insert is caught, and the answer goes out as if it were stored.
AddFails(r) ==
    /\ pc[r] = "add2DB"
    /\ DatabaseFails(r)
    /\ Answer(r, handle[r])
    /\ UNCHANGED <<asked, fact, found, handle, store, overlap>>

Serve(r) ==
    \/ SelectFound(r) \/ SelectNone(r) \/ SelectNoConnection(r) \/ SelectFails(r)
    \/ OpenQuery(r) \/ WriteQuery(r) \/ Batch(r) \/ OpenOutput(r) \/ CloseOutput(r)
    \/ ParseQuery(r) \/ ParseFails(r) \/ GenerateHandle(r) \/ GenerateHandleFails(r)
    \/ Add2DB(r) \/ AddFails(r)

Next ==
    \/ \E r \in Requests : Serve(r)
    \/ \E r \in Requests, m \in Metrics : Ask(r, m)

\* The threads of the container run on; MaxFailures makes the database's
\* failures finite.
Fairness == \A r \in Requests : WF_vars(Serve(r))

Spec == Init /\ [][Next]_vars /\ Fairness

-----------------------------------------------------------------------------
(* Properties                                                              *)

Answered(r) == pc[r] = "answered"
Overlap(S) == \E p, q \in S : p # q /\ {p, q} \in overlap

\* Two metrics never share a file unless two requests that drew the same handle
\* were in the service together (generateHandle looks for a free handle and
\* add2DB inserts it later) or a request met a failing database.
SharedFileNeedsRace ==
    \A e, f \in metaList :
      (e[1] = f[1] /\ e[2] # f[2]) =>
        \/ Overlap({r \in Requests : handle[r] = e[1]})
        \/ \E r \in faulty : handle[r] = e[1]

\* A metric keeps its handle: two answers for one metric carry the same handle
\* unless requests for that metric overlapped (both found no row), requests
\* that drew the same handle overlapped (the second insert renames the row of
\* the first), or a request for the metric met a failing database.
HandleIsStable ==
    \A r, s \in Requests :
      (Answered(r) /\ Answered(s) /\ asked[r] = asked[s] /\ handle[r] # handle[s]) =>
        \/ Overlap({p \in Requests : asked[p] = asked[r]})
        \/ \E p \in Requests : Overlap({q \in Requests : handle[p] # Nothing /\ handle[q] = handle[p]})
        \/ \E p \in faulty : asked[p] = asked[r]

\* A metric that the rules define gets its own definition unless requests
\* overlapped: query.clp and output.txt are shared by all of them.
DefinitionIsOwn ==
    \A r \in Requests :
      (Answered(r) /\ asked[r] \in Definable /\ r \notin faulty) =>
        found[r] = asked[r] \/ overlap # {}

\* Every request is answered, the loop of generateHandle and a failing
\* database notwithstanding.
RequestsEnd == \A r \in Requests : InService(r) ~> pc[r] \in Ended

\* What parseQuery is to do (MetaAccess.java:286, "parse the reasoning result
\* for query"): a definition in an answer is the definition of its metric.
DefinitionIsTheQuerys ==
    \A r \in Requests : Answered(r) => found[r] \in {asked[r], Nothing} \/ overlap # {}
=============================================================================
