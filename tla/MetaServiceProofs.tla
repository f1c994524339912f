-------------------------- MODULE MetaServiceProofs --------------------------
(***************************************************************************)
(* What the semantic web service promises its clients, for any number of   *)
(* requests, metrics and handles: types, and that handles, files and       *)
(* definitions are mixed up only after requests have overlapped or the     *)
(* database has failed.                                                    *)
(***************************************************************************)
EXTENDS MetaService, TLAPS

USE DEF Ended

\* A request has asked once it is under way, and has a handle once it has
\* drawn or found one, which it keeps.
Stages ==
    \A r \in Requests :
      /\ pc[r] = "idle" <=> client[r] = "idle"
      /\ pc[r] # "idle" <=> asked[r] # Nothing
      /\ handle[r] # Nothing <=> pc[r] \in {"add2DB", "answered"}
      /\ pc[r] = "add2DB" => handle[r] \in Handles
      /\ pc[r] \in {"generateHandle", "add2DB"} => found[r] \in Metrics
      /\ pc[r] \in {"openOutput", "closeOutput"} => fact[r] \in Metrics

\* Requests in the service at one time are on record.
Recorded ==
    \A p, q \in Requests : p # q /\ InService(p) /\ InService(q) => {p, q} \in overlap

TypeInv == TypeOK /\ Stages /\ Recorded

-----------------------------------------------------------------------------
LEMMA InitTypeInv == Init => TypeInv
BY NothingAssumption, BoundsAssumption
   DEF Init, TypeInv, TypeOK, Stages, Recorded, InService, PCs

\* The row that an insertion leaves.
LEMMA InsertedRow ==
    ASSUME TypeOK, NEW h \in Handles, NEW m \in Metrics, NEW d \in Metrics \cup {Nothing}
    PROVE  (IF META[h] = Nothing THEN [metric |-> m, def |-> d]
            ELSE [metric |-> [name |-> m.name, entity |-> META[h].metric.entity],
                  def |-> META[h].def]) \in Rows
<1> DEFINE Names == {x.name : x \in Metrics}
           Entities == {x.entity : x \in Metrics}
<1>1. m.name \in Names
  OBVIOUS
<1>2. CASE META[h] # Nothing
  <2>1. META[h] \in Rows
    BY <1>2 DEF TypeOK
  <2>2. META[h].metric \in Metrics \cup [name : Names, entity : Entities]
    BY <2>1 DEF Rows
  <2>3. META[h].metric.entity \in Entities
    BY <2>2
  <2>4. [name |-> m.name, entity |-> META[h].metric.entity] \in [name : Names, entity : Entities]
    BY <1>1, <2>3
  <2> QED BY <1>2, <2>1, <2>4 DEF Rows
<1> QED BY <1>2 DEF Rows

\* The steps keep the types.
LEMMA TypeStep == TypeInv /\ Next => TypeOK'
<1> SUFFICES ASSUME TypeInv, Next PROVE TypeOK'
  OBVIOUS
<1> USE NothingAssumption, BoundsAssumption, DefinableAssumption
        DEF TypeInv, TypeOK, PCs, Goto, service, store, history
<1>1. ASSUME NEW r \in Requests, NEW m \in Metrics, Ask(r, m) PROVE TypeOK'
  BY <1>1 DEF Ask
<1>2. ASSUME NEW r \in Requests, SelectFound(r) PROVE TypeOK'
  <2>1. PICK h \in RowsOf(asked[r]) : /\ handle' = [handle EXCEPT ![r] = h]
                                      /\ found' = [found EXCEPT ![r] = META[h].def]
                                      /\ Answer(r, h)
    BY <1>2 DEF SelectFound
  <2>2. h \in Handles /\ META[h] \in Rows /\ META[h].def \in Metrics \cup {Nothing}
    BY <2>1 DEF RowsOf, Rows
  <2>3. asked[r] \in Metrics
    BY <1>2 DEF SelectFound, Stages
  <2> QED BY <1>2, <2>1, <2>2, <2>3 DEF SelectFound, Answer
<1>3. ASSUME NEW r \in Requests, SelectNone(r) PROVE TypeOK'
  BY <1>3 DEF SelectNone
<1>4. ASSUME NEW r \in Requests, SelectNoConnection(r) PROVE TypeOK'
  BY <1>4 DEF SelectNoConnection, DatabaseFails, Error500
<1>5. ASSUME NEW r \in Requests, SelectFails(r) PROVE TypeOK'
  BY <1>5 DEF SelectFails, DatabaseFails, Answer, Stages
<1>6. ASSUME NEW r \in Requests, OpenQuery(r) PROVE TypeOK'
  BY <1>6 DEF OpenQuery
<1>7. ASSUME NEW r \in Requests, WriteQuery(r) PROVE TypeOK'
  BY <1>7 DEF WriteQuery, Stages
<1>8. ASSUME NEW r \in Requests, Batch(r) PROVE TypeOK'
  BY <1>8 DEF Batch
<1>9. ASSUME NEW r \in Requests, OpenOutput(r) PROVE TypeOK'
  BY <1>9 DEF OpenOutput
<1>10. ASSUME NEW r \in Requests, CloseOutput(r) PROVE TypeOK'
  BY <1>10 DEF CloseOutput, Stages
<1>11. ASSUME NEW r \in Requests, ParseQuery(r) PROVE TypeOK'
  BY <1>11 DEF ParseQuery
<1>12. ASSUME NEW r \in Requests, ParseFails(r) PROVE TypeOK'
  BY <1>12 DEF ParseFails, Error500
<1>13. ASSUME NEW r \in Requests, GenerateHandle(r) PROVE TypeOK'
  BY <1>13 DEF GenerateHandle
<1>14. ASSUME NEW r \in Requests, GenerateHandleFails(r) PROVE TypeOK'
  BY <1>14 DEF GenerateHandleFails, DatabaseFails
<1>15. ASSUME NEW r \in Requests, AddFails(r) PROVE TypeOK'
  BY <1>15 DEF AddFails, DatabaseFails, Answer, Stages
<1>16. ASSUME NEW r \in Requests, Add2DB(r) PROVE TypeOK'
  <2>1. handle[r] \in Handles /\ asked[r] \in Metrics
    BY <1>16 DEF Add2DB, Stages
  <2>2. META' \in [Handles -> Rows \cup {Nothing}]
    BY <1>16, <2>1, InsertedRow DEF Add2DB
  <2>3. metaList' \subseteq (Handles \cup {Zero}) \X Metrics
    BY <1>16, <2>1 DEF Add2DB, Answer
  <2> QED BY <1>16, <2>1, <2>2, <2>3 DEF Add2DB, Answer
<1> QED BY <1>1, <1>2, <1>3, <1>4, <1>5, <1>6, <1>7, <1>8, <1>9, <1>10, <1>11, <1>12, <1>13, <1>14, <1>15, <1>16 DEF Next, Serve

\* A step of one request leaves the others where they are.
LEMMA OneAtATime ==
    ASSUME TypeOK, NEW r \in Requests, Serve(r)
    PROVE  /\ \A s \in Requests \ {r} : /\ pc'[s] = pc[s] /\ client'[s] = client[s]
                                        /\ handle'[s] = handle[s] /\ fact'[s] = fact[s]
                                        /\ found'[s] = found[s]
           /\ asked' = asked /\ overlap' = overlap
           /\ faulty \subseteq faulty'
           /\ InService(r)
<1> USE DEF TypeOK, Goto, service, store, history, InService
<1>1. CASE SelectFound(r)
  BY <1>1 DEF SelectFound, Answer, RowsOf
<1>2. CASE SelectNone(r)
  BY <1>2 DEF SelectNone
<1>3. CASE SelectNoConnection(r)
  BY <1>3 DEF SelectNoConnection, DatabaseFails, Error500
<1>4. CASE SelectFails(r)
  BY <1>4 DEF SelectFails, DatabaseFails, Answer
<1>5. CASE OpenQuery(r)
  BY <1>5 DEF OpenQuery
<1>6. CASE WriteQuery(r)
  BY <1>6 DEF WriteQuery
<1>7. CASE Batch(r)
  BY <1>7 DEF Batch
<1>8. CASE OpenOutput(r)
  BY <1>8 DEF OpenOutput
<1>9. CASE CloseOutput(r)
  BY <1>9 DEF CloseOutput
<1>10. CASE ParseQuery(r)
  BY <1>10 DEF ParseQuery
<1>11. CASE ParseFails(r)
  BY <1>11 DEF ParseFails, Error500
<1>12. CASE GenerateHandle(r)
  BY <1>12 DEF GenerateHandle
<1>13. CASE GenerateHandleFails(r)
  BY <1>13 DEF GenerateHandleFails, DatabaseFails
<1>14. CASE Add2DB(r)
  BY <1>14 DEF Add2DB, Answer
<1>15. CASE AddFails(r)
  BY <1>15 DEF AddFails, DatabaseFails, Answer
<1> QED BY <1>1, <1>2, <1>3, <1>4, <1>5, <1>6, <1>7, <1>8, <1>9, <1>10, <1>11, <1>12, <1>13, <1>14, <1>15 DEF Serve

\* Where a request goes.
LEMMA OwnStep ==
    ASSUME TypeInv, NEW r \in Requests, Serve(r)
    PROVE  /\ client'[r] # "idle" /\ pc'[r] # "idle"
           /\ handle[r] # Nothing => handle'[r] = handle[r]
           /\ handle'[r] # Nothing <=> pc'[r] \in {"add2DB", "answered"}
           /\ pc'[r] = "add2DB" => handle'[r] \in Handles
           /\ pc'[r] \in {"generateHandle", "add2DB"} => found'[r] \in Metrics
           /\ pc'[r] \in {"openOutput", "closeOutput"} => fact'[r] \in Metrics
<1> USE NothingAssumption, DefinableAssumption
        DEF TypeInv, TypeOK, Stages, Goto, service, store, history
<1>1. CASE SelectFound(r)
  BY <1>1 DEF SelectFound, Answer, RowsOf
<1>2. CASE SelectNone(r)
  BY <1>2 DEF SelectNone
<1>3. CASE SelectNoConnection(r)
  BY <1>3 DEF SelectNoConnection, DatabaseFails, Error500
<1>4. CASE SelectFails(r)
  BY <1>4 DEF SelectFails, DatabaseFails, Answer
<1>5. CASE OpenQuery(r)
  BY <1>5 DEF OpenQuery
<1>6. CASE WriteQuery(r)
  BY <1>6 DEF WriteQuery
<1>7. CASE Batch(r)
  BY <1>7 DEF Batch
<1>8. CASE OpenOutput(r)
  BY <1>8 DEF OpenOutput
<1>9. CASE CloseOutput(r)
  BY <1>9 DEF CloseOutput
<1>10. CASE ParseQuery(r)
  BY <1>10 DEF ParseQuery
<1>11. CASE ParseFails(r)
  BY <1>11 DEF ParseFails, Error500
<1>12. CASE GenerateHandle(r)
  BY <1>12 DEF GenerateHandle
<1>13. CASE GenerateHandleFails(r)
  BY <1>13 DEF GenerateHandleFails, DatabaseFails
<1>14. CASE Add2DB(r)
  BY <1>14 DEF Add2DB, Answer
<1>15. CASE AddFails(r)
  BY <1>15 DEF AddFails, DatabaseFails, Answer
<1> QED BY <1>1, <1>2, <1>3, <1>4, <1>5, <1>6, <1>7, <1>8, <1>9, <1>10, <1>11, <1>12, <1>13, <1>14, <1>15 DEF Serve

LEMMA TypeInvStep == TypeInv /\ Next => TypeInv'
<1> SUFFICES ASSUME TypeInv, Next PROVE TypeInv'
  OBVIOUS
<1>1. TypeOK'
  BY TypeStep
<1>2. ASSUME NEW r \in Requests, NEW m \in Metrics, Ask(r, m) PROVE Stages' /\ Recorded'
  <2>1. Stages'
    BY <1>2, NothingAssumption DEF TypeInv, TypeOK, Stages, Ask, Goto, store
  <2>2. Recorded'
    BY <1>2 DEF TypeInv, TypeOK, Recorded, InService, Ask, Goto
  <2> QED BY <2>1, <2>2
<1>3. ASSUME NEW r \in Requests, Serve(r) PROVE Stages' /\ Recorded'
  <2>1. Stages'
    BY <1>3, OneAtATime, OwnStep DEF TypeInv, Stages, InService
  <2>2. Recorded'
    BY <1>3, OneAtATime DEF TypeInv, Recorded, InService
  <2> QED BY <2>1, <2>2
<1> QED BY <1>1, <1>2, <1>3 DEF Next, TypeInv

-----------------------------------------------------------------------------
(***************************************************************************)
(* Handles.  A row is in META under a handle because a request that drew   *)
(* this handle has inserted it; a second request can only draw the same    *)
(* handle before that, hence while the first one is in the service.        *)
(***************************************************************************)
With(h) == {r \in Requests : handle[r] = h}
Race(h) == Overlap(With(h)) \/ \E r \in faulty : handle[r] = h

Stored == \A r \in Requests :
    pc[r] = "answered" => r \in faulty \/ (handle[r] \in Handles /\ META[handle[r]] # Nothing)
LateInsert == \A r \in Requests, h \in Handles :
    pc[r] = "add2DB" /\ handle[r] = h /\ META[h] # Nothing => Overlap(With(h))
RowOfWriter == \A h \in Handles :
    META[h] # Nothing => \/ \E w \in Requests : handle[w] = h /\ asked[w] = META[h].metric
                         \/ Overlap(With(h))
SameHandle == \A p, q \in Requests, h \in Handles \cup {Zero} :
    handle[p] = h /\ handle[q] = h /\ asked[p] # asked[q] => Race(h)
Listed == \A e \in metaList : \E r \in Requests : handle[r] = e[1] /\ asked[r] = e[2]

HandleInv == TypeInv /\ Stored /\ LateInsert /\ RowOfWriter /\ SameHandle /\ Listed

LEMMA InitHandleInv == Init => HandleInv
BY InitTypeInv DEF Init, HandleInv, Stored, LateInsert, RowOfWriter, SameHandle, Listed

\* What a request has got it keeps, and what has happened stays on record.
LEMMA Kept ==
    ASSUME TypeInv, Next
    PROVE  /\ \A r \in Requests : handle[r] # Nothing => handle'[r] = handle[r]
           /\ \A r \in Requests : asked[r] # Nothing => asked'[r] = asked[r]
           /\ \A r \in Requests : handle[r] # Nothing => asked[r] # Nothing
           /\ overlap \subseteq overlap' /\ faulty \subseteq faulty'
<1>1. ASSUME NEW r \in Requests, NEW m \in Metrics, Ask(r, m)
      PROVE  /\ \A s \in Requests : handle'[s] = handle[s]
             /\ \A s \in Requests : asked[s] # Nothing => asked'[s] = asked[s]
             /\ overlap \subseteq overlap' /\ faulty' = faulty
  BY <1>1 DEF Ask, TypeInv, TypeOK, Stages
<1>2. ASSUME NEW r \in Requests, Serve(r)
      PROVE  /\ \A s \in Requests : handle[s] # Nothing => handle'[s] = handle[s]
             /\ asked' = asked /\ overlap' = overlap /\ faulty \subseteq faulty'
  BY <1>2, OneAtATime, OwnStep DEF TypeInv
<1>3. \A r \in Requests : handle[r] # Nothing => asked[r] # Nothing
  BY DEF TypeInv, Stages
<1> QED BY <1>1, <1>2, <1>3 DEF Next

LEMMA RaceKept ==
    ASSUME TypeInv, Next, NEW h, h # Nothing
    PROVE  /\ With(h) \subseteq With(h)'
           /\ Overlap(With(h)) => Overlap(With(h))'
           /\ Race(h) => Race(h)'
<1>1. With(h) \subseteq With(h)'
  BY Kept DEF With
<1>2. Overlap(With(h)) => Overlap(With(h))'
  BY <1>1, Kept DEF Overlap
<1>3. \A r \in faulty : r \in Requests
  BY DEF TypeInv, TypeOK
<1> QED BY <1>1, <1>2, <1>3, Kept DEF Race

\* Rows that stay where they are keep their writer.
LEMMA RowsKept ==
    ASSUME HandleInv, Next, META' = META
    PROVE  RowOfWriter'
<1> USE DEF HandleInv
<1> SUFFICES ASSUME NEW h \in Handles, META[h] # Nothing
             PROVE  \/ \E w \in Requests : handle'[w] = h /\ asked'[w] = META[h].metric
                    \/ Overlap(With(h))'
  BY DEF RowOfWriter
<1>1. h # Nothing
  BY NothingAssumption
<1>2. CASE Overlap(With(h))
  BY <1>1, <1>2, RaceKept
<1>3. ASSUME NEW w \in Requests, handle[w] = h, asked[w] = META[h].metric
      PROVE  handle'[w] = h /\ asked'[w] = META[h].metric
  BY <1>3, <1>1, Kept
<1> QED BY <1>2, <1>3 DEF RowOfWriter

Handling == Stored /\ LateInsert /\ RowOfWriter /\ SameHandle /\ Listed

\* Most steps change nothing of this.
LEMMA QuietStep ==
    ASSUME HandleInv, Next, UNCHANGED <<handle, META, metaList>>,
           \A r \in Requests : pc'[r] \in {"add2DB", "answered"} => pc'[r] = pc[r]
    PROVE  Handling'
<1> USE DEF HandleInv
<1>1. \A r \in Requests : handle[r] # Nothing => asked'[r] = asked[r]
  BY Kept
<1>2. Stored'
  BY Kept DEF Stored
<1>4. \A h \in Handles \cup {Zero} : h # Nothing
  BY NothingAssumption
<1>5. LateInsert'
  <2> SUFFICES ASSUME NEW r \in Requests, NEW h \in Handles, pc'[r] = "add2DB",
                      handle[r] = h, META[h] # Nothing
               PROVE  Overlap(With(h))'
    BY DEF LateInsert
  <2>1. Overlap(With(h))
    BY DEF LateInsert
  <2>2. h # Nothing
    BY <1>4
  <2> QED BY <2>1, <2>2, RaceKept
<1>6. RowOfWriter'
  BY RowsKept
<1>7. SameHandle'
  <2> SUFFICES ASSUME NEW p \in Requests, NEW q \in Requests, NEW h \in Handles \cup {Zero},
                      handle[p] = h, handle[q] = h, asked'[p] # asked'[q]
               PROVE  Race(h)'
    BY DEF SameHandle
  <2>1. asked[p] # asked[q]
    BY <1>1, <1>4
  <2>2. Race(h)
    BY <2>1 DEF SameHandle
  <2>3. h # Nothing
    BY <1>4
  <2> QED BY <2>2, <2>3, RaceKept
<1>8. Listed'
  <2> SUFFICES ASSUME NEW e \in metaList
               PROVE  \E r \in Requests : handle'[r] = e[1] /\ asked'[r] = e[2]
    BY DEF Listed
  <2>1. e[1] # Nothing
    BY NothingAssumption DEF TypeInv, TypeOK
  <2> QED BY <2>1, <1>1 DEF Listed
<1> QED BY <1>2, <1>5, <1>6, <1>7, <1>8 DEF Handling

\* A request that gets the handle h must share it with requests for its own
\* metric only, unless there was a race.
LEMMA NewHandle ==
    ASSUME HandleInv, Next, NEW r \in Requests, NEW h \in Handles \cup {Zero},
           handle' = [handle EXCEPT ![r] = h], handle[r] = Nothing, asked' = asked,
           \A q \in Requests : handle[q] = h /\ asked[q] # asked[r] => Race(h)',
           metaList' \subseteq metaList \cup {<<h, asked[r]>>}
    PROVE  SameHandle' /\ Listed'
<1> USE DEF HandleInv
<1>1. \A g \in Handles \cup {Zero} : g # Nothing
  BY NothingAssumption
<1>2. \A q \in Requests : handle'[q] = IF q = r THEN h ELSE handle[q]
  BY DEF TypeInv, TypeOK
<1>3. SameHandle'
  <2> SUFFICES ASSUME NEW p \in Requests, NEW q \in Requests, NEW g \in Handles \cup {Zero},
                      handle'[p] = g, handle'[q] = g, asked[p] # asked[q]
               PROVE  Race(g)'
    BY DEF SameHandle
  <2>1. CASE p = r
    BY <2>1, <1>2
  <2>2. CASE q = r
    BY <2>2, <1>2
  <2>3. CASE p # r /\ q # r
    <3>1. Race(g)
      BY <2>3, <1>2 DEF SameHandle
    <3>2. g # Nothing
      BY <1>1
    <3> QED BY <3>1, <3>2, RaceKept
  <2> QED BY <2>1, <2>2, <2>3
<1>4. Listed'
  <2> SUFFICES ASSUME NEW e \in metaList'
               PROVE  \E q \in Requests : handle'[q] = e[1] /\ asked[q] = e[2]
    BY DEF Listed
  <2>1. CASE e \in metaList
    <3>1. PICK q \in Requests : handle[q] = e[1] /\ asked[q] = e[2]
      BY <2>1 DEF Listed
    <3>2. q # r
      BY <2>1, <3>1, NothingAssumption DEF TypeInv, TypeOK
    <3> QED BY <3>1, <3>2, <1>2
  <2>2. CASE e = <<h, asked[r]>>
    BY <2>2, <1>2
  <2> QED BY <2>1, <2>2
<1> QED BY <1>3, <1>4

\* selectMeta finds the row of the metric.
LEMMA SelectFoundHandling ==
    ASSUME HandleInv, Next, NEW r \in Requests, SelectFound(r)
    PROVE  Handling'
<1> USE DEF HandleInv
<1>1. PICK h \in RowsOf(asked[r]) :
         /\ handle' = [handle EXCEPT ![r] = h]
         /\ Answer(r, h)
  BY DEF SelectFound
<1>2. /\ h \in Handles /\ META[h] # Nothing /\ META[h].metric = asked[r]
      /\ META' = META /\ asked' = asked /\ pc[r] = "selectMeta"
      /\ metaList' \subseteq metaList \cup {<<h, asked[r]>>}
      /\ pc' = [pc EXCEPT ![r] = "answered"] /\ faulty' = faulty
  BY <1>1 DEF RowsOf, SelectFound, Answer, Goto, store, history
<1>3. handle[r] = Nothing /\ h # Nothing
  BY <1>2, NothingAssumption DEF TypeInv, Stages
<1>4. Stored'
  BY <1>1, <1>2 DEF Stored, TypeInv, TypeOK
<1>5. LateInsert'
  <2> SUFFICES ASSUME NEW q \in Requests, NEW g \in Handles, pc'[q] = "add2DB",
                      handle'[q] = g, META[g] # Nothing
               PROVE  Overlap(With(g))'
    BY <1>2 DEF LateInsert
  <2>1. q # r
    BY <1>2 DEF TypeInv, TypeOK
  <2>2. Overlap(With(g))
    BY <2>1, <1>1, <1>2 DEF LateInsert, TypeInv, TypeOK
  <2>3. g # Nothing
    BY NothingAssumption
  <2> QED BY <2>2, <2>3, RaceKept
<1>6. ASSUME NEW q \in Requests, handle[q] = h, asked[q] # asked[r]
      PROVE  Race(h)'
  <2>1. Race(h)
    <3>1. ASSUME NEW w \in Requests, handle[w] = h, asked[w] = META[h].metric
          PROVE  Race(h)
      BY <3>1, <1>2, <1>6 DEF SameHandle
    <3> QED BY <3>1, <1>2 DEF RowOfWriter, Race
  <2> QED BY <2>1, <1>3, RaceKept
<1>7. SameHandle' /\ Listed'
  BY <1>1, <1>2, <1>3, <1>6, NewHandle
<1> QED BY <1>2, <1>4, <1>5, <1>7, RowsKept DEF Handling

\* selectMeta fails and answers with the handle of an empty Meta.
LEMMA SelectFailsHandling ==
    ASSUME HandleInv, Next, NEW r \in Requests, SelectFails(r)
    PROVE  Handling'
<1> USE DEF HandleInv
<1>1. /\ handle' = [handle EXCEPT ![r] = Zero]
      /\ META' = META /\ asked' = asked /\ pc[r] = "selectMeta"
      /\ metaList' \subseteq metaList \cup {<<Zero, asked[r]>>}
      /\ pc' = [pc EXCEPT ![r] = "answered"] /\ faulty' = faulty \cup {r}
  BY DEF SelectFails, DatabaseFails, Answer, Goto, store
<1>2. handle[r] = Nothing /\ handle'[r] = Zero
  BY <1>1 DEF TypeInv, TypeOK, Stages
<1>3. Stored'
  BY <1>1 DEF Stored, TypeInv, TypeOK
<1>4. LateInsert'
  <2> SUFFICES ASSUME NEW q \in Requests, NEW g \in Handles, pc'[q] = "add2DB",
                      handle'[q] = g, META[g] # Nothing
               PROVE  Overlap(With(g))'
    BY <1>1 DEF LateInsert
  <2>1. q # r
    BY <1>1 DEF TypeInv, TypeOK
  <2>2. Overlap(With(g))
    BY <2>1, <1>1 DEF LateInsert, TypeInv, TypeOK
  <2>3. g # Nothing
    BY NothingAssumption
  <2> QED BY <2>2, <2>3, RaceKept
<1>5. Race(Zero)'
  BY <1>1, <1>2 DEF Race
<1>6. SameHandle' /\ Listed'
  BY <1>1, <1>2, <1>5, NewHandle
<1> QED BY <1>1, <1>3, <1>4, <1>6, RowsKept DEF Handling

\* generateHandle draws a handle that has no row.
LEMMA GenerateHandleHandling ==
    ASSUME HandleInv, Next, NEW r \in Requests, GenerateHandle(r)
    PROVE  Handling'
<1> USE DEF HandleInv
<1>1. PICK h \in Handles : META[h] = Nothing /\ handle' = [handle EXCEPT ![r] = h]
  BY DEF GenerateHandle
<1>2. /\ META' = META /\ asked' = asked /\ pc[r] = "generateHandle" /\ metaList' = metaList
      /\ pc' = [pc EXCEPT ![r] = "add2DB"] /\ faulty' = faulty /\ overlap' = overlap
  BY DEF GenerateHandle, Goto, store, history
<1>3. handle[r] = Nothing /\ handle'[r] = h /\ h # Nothing
  BY <1>1, <1>2, NothingAssumption DEF TypeInv, TypeOK, Stages
<1>4. Stored'
  BY <1>1, <1>2 DEF Stored, TypeInv, TypeOK
<1>5. LateInsert'
  <2> SUFFICES ASSUME NEW q \in Requests, NEW g \in Handles, pc'[q] = "add2DB",
                      handle'[q] = g, META[g] # Nothing
               PROVE  Overlap(With(g))'
    BY <1>2 DEF LateInsert
  <2>1. q # r
    BY <1>1, <1>3
  <2>2. Overlap(With(g))
    BY <2>1, <1>1, <1>2 DEF LateInsert, TypeInv, TypeOK
  <2>3. g # Nothing
    BY NothingAssumption
  <2> QED BY <2>2, <2>3, RaceKept
<1>6. ASSUME NEW q \in Requests, handle[q] = h, asked[q] # asked[r]
      PROVE  Race(h)'
  <2>1. q # r
    BY <1>6
  <2>2. CASE pc[q] = "add2DB"
    <3>1. InService(q) /\ InService(r)
      BY <2>2, <1>2 DEF InService
    <3>2. {q, r} \in overlap'
      BY <3>1, <2>1, <1>2 DEF TypeInv, Recorded
    <3>3. handle'[q] = h
      BY <2>1, <1>1, <1>6 DEF TypeInv, TypeOK
    <3> QED BY <3>2, <3>3, <2>1, <1>3 DEF Race, Overlap, With
  <2>3. CASE pc[q] = "answered"
    <3>1. q \in faulty
      BY <2>3, <1>1, <1>6 DEF Stored
    <3>2. handle'[q] = h
      BY <2>1, <1>1, <1>6 DEF TypeInv, TypeOK
    <3> QED BY <3>1, <3>2, <1>2 DEF Race
  <2> QED BY <2>2, <2>3, <1>6, <1>3 DEF TypeInv, Stages
<1>7. SameHandle' /\ Listed'
  BY <1>1, <1>2, <1>3, <1>6, NewHandle
<1> QED BY <1>2, <1>4, <1>5, <1>7, RowsKept DEF Handling

\* The row is written, or not, and the answer goes out with the handle drawn.
LEMMA AddHandling ==
    ASSUME HandleInv, Next, NEW r \in Requests, Add2DB(r) \/ AddFails(r)
    PROVE  Handling'
<1> USE DEF HandleInv
<1> DEFINE h == handle[r]
<1>1. /\ handle' = handle /\ asked' = asked /\ pc[r] = "add2DB"
      /\ metaList' \subseteq metaList \cup {<<h, asked[r]>>}
      /\ pc' = [pc EXCEPT ![r] = "answered"]
  BY DEF Add2DB, AddFails, DatabaseFails, Answer, Goto, store
<1>2. h \in Handles /\ h # Nothing
  BY <1>1, NothingAssumption DEF TypeInv, Stages
<1>3. \/ /\ META' = [META EXCEPT ![h] =
                 IF @ = Nothing THEN [metric |-> asked[r], def |-> found[r]]
                 ELSE [metric |-> [name |-> asked[r].name, entity |-> @.metric.entity],
                       def |-> @.def]]
         /\ META'[h] # Nothing
      \/ META' = META /\ r \in faulty'
  <2>1. CASE Add2DB(r)
    <3>1. META'[h] \in Rows \cup {Nothing} /\ META[h] \in Rows \cup {Nothing}
      BY <1>2, TypeStep DEF TypeInv, TypeOK
    <3>2. asked[r] \in Metrics /\ found[r] \in Metrics
      BY <1>1 DEF TypeInv, TypeOK, Stages
    <3>3. (IF META[h] = Nothing THEN [metric |-> asked[r], def |-> found[r]]
           ELSE [metric |-> [name |-> asked[r].name, entity |-> META[h].metric.entity],
                 def |-> META[h].def]) # Nothing
      BY <3>1, <3>2, <1>2, InsertedRow, RowsAssumption DEF TypeInv
    <3> QED BY <2>1, <3>3, <1>2 DEF Add2DB, TypeInv, TypeOK
  <2>2. CASE AddFails(r)
    BY <2>2 DEF AddFails, DatabaseFails, store
  <2> QED BY <2>1, <2>2
<1> HIDE DEF h
<1>4. /\ \A g \in Handles \ {h} : META'[g] = META[g]
      /\ META[h] # Nothing => META'[h] # Nothing
  BY <1>2, <1>3 DEF TypeInv, TypeOK
<1>5. Stored'
  BY <1>1, <1>2, <1>3, <1>4, Kept DEF Stored, TypeInv, TypeOK, h
<1>6. ASSUME NEW q \in Requests, NEW g \in Handles, g = h, handle[q] = g,
             pc[q] = "add2DB", q # r
      PROVE  Overlap(With(g))'
  <2>1. {q, r} \in overlap'
    BY <1>1, <1>6, Kept DEF InService, TypeInv, Recorded
  <2> QED BY <2>1, <1>1, <1>6 DEF Overlap, With, h
<1>7. LateInsert'
  <2> SUFFICES ASSUME NEW q \in Requests, NEW g \in Handles, pc'[q] = "add2DB",
                      handle[q] = g, META'[g] # Nothing
               PROVE  Overlap(With(g))'
    BY <1>1 DEF LateInsert
  <2>1. q # r /\ pc[q] = "add2DB"
    BY <1>1 DEF TypeInv, TypeOK
  <2>2. CASE g = h
    BY <2>1, <2>2, <1>6
  <2>3. CASE g # h
    <3>1. Overlap(With(g)) /\ g # Nothing
      BY <2>1, <2>3, <1>4, NothingAssumption DEF LateInsert
    <3> QED BY <3>1, RaceKept
  <2> QED BY <2>2, <2>3
<1>8. RowOfWriter'
  <2>1. ASSUME NEW g \in Handles, META'[g] # Nothing
        PROVE  \/ \E w \in Requests : handle'[w] = g /\ asked'[w] = META'[g].metric
               \/ Overlap(With(g))'
    <3>0. g # Nothing
      BY NothingAssumption
    <3>1. CASE Overlap(With(g))
      BY <3>0, <3>1, RaceKept
    <3>2. CASE META'[g] = META[g] /\ ~Overlap(With(g))
      <4>1. PICK w \in Requests : handle[w] = g /\ asked[w] = META[g].metric
        BY <2>1, <3>2 DEF RowOfWriter
      <4> QED BY <1>1, <3>2, <4>1
    <3>3. CASE META'[g] # META[g] /\ META[g] = Nothing
      <4>1. g = h /\ META'[g] = [metric |-> asked[r], def |-> found[r]]
        BY <3>3, <1>2, <1>3, <1>4 DEF TypeInv, TypeOK
      <4>2. META'[g].metric = asked[r]
        BY <4>1
      <4> QED BY <1>1, <4>1, <4>2 DEF h
    <3>4. CASE META'[g] # META[g] /\ META[g] # Nothing
      <4>1. g = h
        BY <3>4, <1>4
      <4>2. Overlap(With(g))
        BY <3>4, <4>1, <1>1 DEF LateInsert, h
      <4> QED BY <4>2, <3>0, RaceKept
    <3> QED BY <3>1, <3>2, <3>3, <3>4
  <2> QED BY <2>1 DEF RowOfWriter
<1>9. SameHandle'
  <2> SUFFICES ASSUME NEW p \in Requests, NEW q \in Requests, NEW g \in Handles \cup {Zero},
                      handle[p] = g, handle[q] = g, asked[p] # asked[q]
               PROVE  Race(g)'
    BY <1>1 DEF SameHandle
  <2>1. Race(g) /\ g # Nothing
    BY NothingAssumption DEF SameHandle
  <2> QED BY <2>1, RaceKept
<1>10. Listed'
  BY <1>1 DEF Listed, h
<1> QED BY <1>5, <1>7, <1>8, <1>9, <1>10 DEF Handling

LEMMA HandlingStep == HandleInv /\ Next => HandleInv'
<1> SUFFICES ASSUME HandleInv, Next PROVE HandleInv'
  OBVIOUS
<1>1. TypeInv'
  BY TypeInvStep DEF HandleInv
<1>2. ASSUME NEW r \in Requests, NEW m \in Metrics, Ask(r, m) PROVE Handling'
  <2>1. UNCHANGED <<handle, META, metaList>>
    BY <1>2 DEF Ask, store
  <2>2. \A q \in Requests : pc'[q] \in {"add2DB", "answered"} => pc'[q] = pc[q]
    BY <1>2 DEF Ask, Goto, HandleInv, TypeInv, TypeOK
  <2> QED BY <2>1, <2>2, QuietStep
<1>3. ASSUME NEW r \in Requests,
             \/ SelectNone(r) \/ SelectNoConnection(r) \/ OpenQuery(r) \/ WriteQuery(r)
             \/ Batch(r) \/ OpenOutput(r) \/ CloseOutput(r) \/ ParseQuery(r)
             \/ ParseFails(r) \/ GenerateHandleFails(r)
      PROVE  Handling'
  <2>1. UNCHANGED <<handle, META, metaList>>
    BY <1>3 DEF SelectNone, SelectNoConnection, OpenQuery, WriteQuery, Batch, OpenOutput,
         CloseOutput, ParseQuery, ParseFails, GenerateHandleFails, Error500, store
  <2>2. pc' = pc \/ pc' = [pc EXCEPT ![r] = pc'[r]]
    BY <1>3 DEF SelectNone, SelectNoConnection, OpenQuery, WriteQuery, Batch, OpenOutput,
         CloseOutput, ParseQuery, ParseFails, GenerateHandleFails, Error500, Goto,
         HandleInv, TypeInv, TypeOK
  <2>3. pc'[r] \notin {"add2DB", "answered"} \/ pc' = pc
    BY <1>3 DEF SelectNone, SelectNoConnection, OpenQuery, WriteQuery, Batch, OpenOutput,
         CloseOutput, ParseQuery, ParseFails, GenerateHandleFails, Error500, Goto,
         HandleInv, TypeInv, TypeOK
  <2>4. \A q \in Requests : pc'[q] \in {"add2DB", "answered"} => pc'[q] = pc[q]
    BY <2>2, <2>3 DEF HandleInv, TypeInv, TypeOK
  <2> QED BY <2>1, <2>4, QuietStep
<1>4. ASSUME NEW r \in Requests,
             SelectFound(r) \/ SelectFails(r) \/ GenerateHandle(r) \/ Add2DB(r) \/ AddFails(r)
      PROVE  Handling'
  BY <1>4, SelectFoundHandling, SelectFailsHandling, GenerateHandleHandling, AddHandling
<1> QED BY <1>1, <1>2, <1>3, <1>4 DEF Next, Serve, HandleInv, Handling

LEMMA HandleStutter == HandleInv /\ UNCHANGED vars => HandleInv'
<1> SUFFICES ASSUME HandleInv, UNCHANGED vars PROVE HandleInv'
  OBVIOUS
<1> USE DEF HandleInv, vars
<1>1. TypeInv'
  <2>1. TypeOK'
    BY DEF TypeInv, TypeOK
  <2>2. Stages'
    BY DEF TypeInv, Stages
  <2>3. Recorded'
    BY DEF TypeInv, Recorded, InService
  <2> QED BY <2>1, <2>2, <2>3 DEF TypeInv
<1>2. Stored'
  BY DEF Stored
<1>3. LateInsert'
  BY DEF LateInsert, Overlap, With
<1>4. RowOfWriter'
  BY DEF RowOfWriter, Overlap, With
<1>5. SameHandle'
  BY DEF SameHandle, Race, Overlap, With
<1>6. Listed'
  BY DEF Listed
<1> QED BY <1>1, <1>2, <1>3, <1>4, <1>5, <1>6

-----------------------------------------------------------------------------
(***************************************************************************)
(* Definitions.  While no two requests have been in the service together,  *)
(* query.clp, the query fact and output.txt are those of the one request   *)
(* that is between writing and reading them.                               *)
(***************************************************************************)
OwnFiles(r) ==
    /\ pc[r] = "writeQuery" => queryFile = Nothing
    /\ pc[r] = "batch" => queryFile = asked[r]
    /\ pc[r] \in {"openOutput", "closeOutput"} => fact[r] = asked[r]
    /\ pc[r] = "parseQuery" /\ asked[r] \in Definable => outFile = asked[r]
    /\ pc[r] \in {"generateHandle", "add2DB"} /\ asked[r] \in Definable => found[r] = asked[r]
    /\ pc[r] = "answered" /\ asked[r] \in Definable /\ r \notin faulty => found[r] = asked[r]

OwnRow(h) == META[h] # Nothing /\ META[h].metric \in Definable => META[h].def = META[h].metric

Owned == (\A r \in Requests : OwnFiles(r)) /\ (\A h \in Handles : OwnRow(h))

OwnInv == HandleInv /\ (overlap = {} => Owned)

LEMMA InitOwnInv == Init => OwnInv
BY InitHandleInv DEF Init, OwnInv, Owned, OwnFiles, OwnRow

\* The step of a request, as far as the request itself is concerned.
LEMMA OwnFilesStep ==
    ASSUME HandleInv, Owned, NEW r \in Requests, Serve(r)
    PROVE  OwnFiles(r)'
<1> USE DEF HandleInv, TypeInv, TypeOK, OwnFiles, Goto, service, store, history
<1>0. OwnFiles(r) /\ asked[r] \in Metrics \cup {Nothing}
  BY DEF Owned
<1>1. CASE SelectFound(r)
  <2>1. PICK h \in RowsOf(asked[r]) : /\ found' = [found EXCEPT ![r] = META[h].def]
                                      /\ Answer(r, h)
    BY <1>1 DEF SelectFound
  <2>2. META[h].metric = asked[r] /\ OwnRow(h) /\ META[h] # Nothing
    BY <2>1 DEF RowsOf, Owned
  <2>3. asked[r] \in Definable => META[h].def = asked[r]
    BY <2>2 DEF OwnRow
  <2> QED BY <1>1, <2>1, <2>3 DEF SelectFound, Answer
<1>2. CASE SelectNone(r)
  BY <1>2 DEF SelectNone
<1>3. CASE SelectNoConnection(r)
  BY <1>3 DEF SelectNoConnection, DatabaseFails, Error500
<1>4. CASE SelectFails(r)
  BY <1>4 DEF SelectFails, DatabaseFails, Answer
<1>5. CASE OpenQuery(r)
  BY <1>5 DEF OpenQuery
<1>6. CASE WriteQuery(r)
  BY <1>0, <1>6 DEF WriteQuery
<1>7. CASE Batch(r)
  BY <1>0, <1>7 DEF Batch
<1>8. CASE OpenOutput(r)
  BY <1>0, <1>8 DEF OpenOutput
<1>9. CASE CloseOutput(r)
  BY <1>0, <1>9 DEF CloseOutput
<1>10. CASE ParseQuery(r)
  BY <1>0, <1>10 DEF ParseQuery
<1>11. CASE ParseFails(r)
  BY <1>11 DEF ParseFails, Error500
<1>12. CASE GenerateHandle(r)
  BY <1>0, <1>12 DEF GenerateHandle
<1>13. CASE GenerateHandleFails(r)
  BY <1>0, <1>13 DEF GenerateHandleFails, DatabaseFails
<1>14. CASE Add2DB(r)
  BY <1>0, <1>14 DEF Add2DB, Answer
<1>15. CASE AddFails(r)
  BY <1>0, <1>15 DEF AddFails, DatabaseFails, Answer
<1> QED BY <1>1, <1>2, <1>3, <1>4, <1>5, <1>6, <1>7, <1>8, <1>9, <1>10, <1>11, <1>12, <1>13, <1>14, <1>15 DEF Serve

\* Only add2DB touches the rows.
LEMMA OnlyAddWrites ==
    ASSUME HandleInv, NEW r \in Requests, Serve(r), ~Add2DB(r)
    PROVE  META' = META
BY DEF Serve, SelectFound, SelectNone, SelectNoConnection, SelectFails, OpenQuery, WriteQuery,
       Batch, OpenOutput, CloseOutput, ParseQuery, ParseFails, GenerateHandle,
       GenerateHandleFails, AddFails, store

LEMMA OwnStepKept == OwnInv /\ Next => OwnInv'
<1> SUFFICES ASSUME OwnInv, Next PROVE OwnInv'
  OBVIOUS
<1> USE DEF OwnInv
<1>1. HandleInv'
  BY HandlingStep
<1> SUFFICES ASSUME overlap' = {} PROVE Owned'
  BY <1>1
<1>2. overlap = {} /\ Owned
  BY Kept DEF HandleInv
<1>3. ASSUME NEW r \in Requests, NEW m \in Metrics, Ask(r, m) PROVE Owned'
  <2>1. UNCHANGED <<META, queryFile, outFile, faulty, fact, found>>
    BY <1>3 DEF Ask, store
  <2>2. \A q \in Requests \ {r} : pc'[q] = pc[q] /\ asked'[q] = asked[q]
    BY <1>3 DEF Ask, Goto, HandleInv, TypeInv, TypeOK
  <2>3. pc'[r] = "selectMeta"
    BY <1>3 DEF Ask, Goto, HandleInv, TypeInv, TypeOK
  <2>4. \A q \in Requests : OwnFiles(q)'
    BY <1>2, <2>1, <2>2, <2>3 DEF Owned, OwnFiles
  <2>5. \A h \in Handles : OwnRow(h)'
    BY <1>2, <2>1 DEF Owned, OwnRow
  <2> QED BY <2>4, <2>5 DEF Owned
<1>4. ASSUME NEW r \in Requests, Serve(r) PROVE Owned'
  <2>1. ASSUME NEW q \in Requests, q # r PROVE OwnFiles(q)'
    <3>1. ~InService(q)
      BY <1>2, <1>4, <2>1, OneAtATime DEF HandleInv, TypeInv, Recorded
    <3>2. pc'[q] = pc[q] /\ found'[q] = found[q] /\ asked' = asked /\ faulty \subseteq faulty'
      BY <1>4, <2>1, OneAtATime DEF HandleInv, TypeInv
    <3>3. pc[q] \in {"idle", "answered", "error500"}
      BY <3>1 DEF InService
    <3>4. OwnFiles(q)
      BY <1>2 DEF Owned
    <3> QED BY <3>2, <3>3, <3>4 DEF OwnFiles
  <2>2. OwnFiles(r)'
    BY <1>2, <1>4, OwnFilesStep
  <2>3. ASSUME NEW h \in Handles PROVE OwnRow(h)'
    <3>1. OwnRow(h) /\ OwnFiles(r)
      BY <1>2 DEF Owned
    <3>2. CASE META'[h] = META[h]
      BY <3>1, <3>2 DEF OwnRow
    <3>3. CASE META'[h] # META[h]
      <4>1. Add2DB(r)
        BY <1>4, <3>3, OnlyAddWrites
      <4>2. h = handle[r] /\ pc[r] = "add2DB"
        BY <4>1, <3>3 DEF Add2DB, HandleInv, TypeInv, TypeOK
      <4>3. META[h] = Nothing
        BY <1>2, <4>2 DEF HandleInv, LateInsert, Overlap
      <4>4. META'[h] = [metric |-> asked[r], def |-> found[r]]
        BY <4>1, <4>2, <4>3 DEF Add2DB, HandleInv, TypeInv, TypeOK
      <4>5. META'[h].metric = asked[r] /\ META'[h].def = found[r]
        BY <4>4
      <4> QED BY <3>1, <4>2, <4>5 DEF OwnRow, OwnFiles
    <3> QED BY <3>2, <3>3
  <2> QED BY <2>1, <2>2, <2>3 DEF Owned
<1> QED BY <1>3, <1>4 DEF Next

LEMMA OwnStutter == OwnInv /\ UNCHANGED vars => OwnInv'
<1> SUFFICES ASSUME OwnInv, UNCHANGED vars PROVE OwnInv'
  OBVIOUS
<1>1. HandleInv'
  BY HandleStutter DEF OwnInv
<1>2. overlap' = {} => Owned'
  BY DEF OwnInv, Owned, OwnFiles, OwnRow, vars
<1> QED BY <1>1, <1>2 DEF OwnInv

-----------------------------------------------------------------------------
(***************************************************************************)
(* One handle per metric.  A request goes on to insert a row because it    *)
(* has seen none of its metric; another request can insert one in the      *)
(* meantime only when the two overlap.                                     *)
(***************************************************************************)
AnyRace == \E h \in Handles \cup {Zero} : Overlap(With(h))
Asking(m) == {p \in Requests : asked[p] = m}
Excused(m) == Overlap(Asking(m)) \/ AnyRace \/ \E p \in faulty : asked[p] = m

Inserting == {"openQuery", "writeQuery", "batch", "openOutput", "closeOutput",
              "parseQuery", "generateHandle", "add2DB"}

AnswerIsRow == \A r \in Requests, m \in Metrics :
    pc[r] = "answered" /\ asked[r] = m =>
        \/ Excused(m)
        \/ \E h \in Handles : handle[r] = h /\ META[h] # Nothing /\ META[h].metric = m
OneRow == \A g, h \in Handles, m \in Metrics :
    g # h /\ g \in RowsOf(m) /\ h \in RowsOf(m) => Excused(m)
NoRowYet == \A r \in Requests, m \in Metrics :
    pc[r] \in Inserting /\ asked[r] = m => RowsOf(m) = {} \/ Excused(m)

Stable == AnswerIsRow /\ OneRow /\ NoRowYet
StableInv == HandleInv /\ Stable

LEMMA InitStableInv == Init => StableInv
BY InitHandleInv DEF Init, StableInv, Stable, AnswerIsRow, OneRow, NoRowYet, Inserting, RowsOf

LEMMA AnyRaceKept == ASSUME TypeInv, Next, AnyRace PROVE AnyRace'
<1>1. PICK h \in Handles \cup {Zero} : Overlap(With(h))
  BY DEF AnyRace
<1>2. h # Nothing
  BY NothingAssumption
<1>3. Overlap(With(h))'
  BY <1>1, <1>2, RaceKept
<1> QED BY <1>3 DEF AnyRace

LEMMA ExcusedKept == ASSUME TypeInv, Next, NEW m, m # Nothing, Excused(m) PROVE Excused(m)'
<1>1. CASE Overlap(Asking(m))
  <2>1. Asking(m) \subseteq Asking(m)'
    BY Kept DEF Asking
  <2> QED BY <1>1, <2>1, Kept DEF Overlap, Excused
<1>2. CASE AnyRace
  BY <1>2, AnyRaceKept DEF Excused
<1>3. ASSUME NEW p \in faulty, asked[p] = m PROVE Excused(m)'
  <2>1. p \in Requests
    BY DEF TypeInv, TypeOK
  <2> QED BY <1>3, <2>1, Kept DEF Excused
<1> QED BY <1>1, <1>2, <1>3 DEF Excused

\* How a request comes to be answered, and how it comes to insert.
LEMMA Moves ==
    ASSUME TypeInv, Next, NEW q \in Requests
    PROVE  /\ pc'[q] = "answered" /\ pc[q] # "answered" =>
                 SelectFound(q) \/ Add2DB(q) \/ q \in faulty'
           /\ pc'[q] \in Inserting /\ pc[q] \notin Inserting => SelectNone(q)
           /\ pc'[q] \in Inserting \cup {"answered"} => asked'[q] = asked[q]
<1> USE DEF TypeInv, TypeOK, Goto, Inserting
<1>1. ASSUME NEW r \in Requests, NEW m \in Metrics, Ask(r, m)
      PROVE  /\ pc'[q] # pc[q] => pc'[q] = "selectMeta"
             /\ pc'[q] # "selectMeta" => asked'[q] = asked[q]
  BY <1>1 DEF Ask
<1>2. ASSUME NEW r \in Requests, Serve(r)
      PROVE  asked' = asked /\ (pc'[q] # pc[q] => Serve(q))
  BY <1>2, OneAtATime
<1>3. CASE Serve(q)
  <2>1. CASE SelectFound(q) \/ Add2DB(q)
    <3>1. pc'[q] = "answered" /\ pc[q] # "answered" /\ asked' = asked
      BY <2>1 DEF SelectFound, Add2DB, Answer
    <3> QED BY <2>1, <3>1
  <2>2. CASE SelectNone(q)
    BY <2>2 DEF SelectNone
  <2>3. CASE SelectNoConnection(q) \/ SelectFails(q) \/ AddFails(q)
    BY <2>3 DEF SelectNoConnection, SelectFails, AddFails, DatabaseFails, Error500, Answer
  <2>4. CASE \/ OpenQuery(q) \/ WriteQuery(q) \/ Batch(q) \/ OpenOutput(q) \/ CloseOutput(q)
             \/ ParseQuery(q) \/ ParseFails(q) \/ GenerateHandle(q) \/ GenerateHandleFails(q)
    BY <2>4 DEF OpenQuery, WriteQuery, Batch, OpenOutput, CloseOutput, ParseQuery, ParseFails,
         GenerateHandle, GenerateHandleFails, Error500
  <2>5. asked' = asked
    BY <1>3, OneAtATime
  <2> QED BY <1>3, <2>1, <2>2, <2>3, <2>4, <2>5 DEF Serve
<1> QED BY <1>1, <1>2, <1>3 DEF Next

\* The steps that leave the rows alone.
LEMMA UnwrittenStable ==
    ASSUME StableInv, Next, META' = META, \A q \in Requests : ~Add2DB(q)
    PROVE  Stable'
<1> USE DEF StableInv, HandleInv, Stable
<1>0. /\ \A m : RowsOf(m)' = RowsOf(m)
      /\ \A m \in Metrics : m # Nothing
  BY NothingAssumption DEF RowsOf
<1>1. AnswerIsRow'
  <2> SUFFICES ASSUME NEW q \in Requests, NEW m \in Metrics, pc'[q] = "answered", asked'[q] = m,
                      ~Excused(m)'
               PROVE  \E h \in Handles : handle'[q] = h /\ META[h] # Nothing /\ META[h].metric = m
    BY DEF AnswerIsRow
  <2>1. asked[q] = m /\ ~Excused(m) /\ q \in Requests
    BY <1>0, Moves, ExcusedKept
  <2>2. CASE pc[q] = "answered"
    <3>1. PICK h \in Handles : handle[q] = h /\ META[h] # Nothing /\ META[h].metric = m
      BY <2>1, <2>2 DEF AnswerIsRow
    <3>2. handle'[q] = h
      BY <3>1, Kept, NothingAssumption
    <3> QED BY <3>1, <3>2
  <2>3. CASE pc[q] # "answered"
    <3>1. q \notin faulty'
      BY DEF Excused
    <3>2. SelectFound(q)
      BY <2>3, <3>1, Moves
    <3> QED BY <2>1, <3>2 DEF SelectFound, RowsOf, TypeInv, TypeOK
  <2> QED BY <2>2, <2>3
<1>2. OneRow'
  <2> SUFFICES ASSUME NEW g \in Handles, NEW h \in Handles, NEW m \in Metrics,
                      g # h, g \in RowsOf(m), h \in RowsOf(m)
               PROVE  Excused(m)'
    BY <1>0 DEF OneRow
  <2>1. Excused(m)
    BY DEF OneRow
  <2> QED BY <2>1, <1>0, ExcusedKept
<1>3. NoRowYet'
  <2> SUFFICES ASSUME NEW q \in Requests, NEW m \in Metrics, pc'[q] \in Inserting, asked'[q] = m,
                      ~Excused(m)'
               PROVE  RowsOf(m) = {}
    BY <1>0 DEF NoRowYet
  <2>1. asked[q] = m /\ ~Excused(m)
    BY <1>0, Moves, ExcusedKept
  <2>2. CASE pc[q] \in Inserting
    BY <2>1, <2>2 DEF NoRowYet
  <2>3. CASE pc[q] \notin Inserting
    BY <2>1, <2>3, Moves DEF SelectNone
  <2> QED BY <2>2, <2>3
<1> QED BY <1>1, <1>2, <1>3

\* A new row.
LEMMA WrittenStable ==
    ASSUME StableInv, Next, NEW r \in Requests, Add2DB(r), ~AnyRace
    PROVE  Stable'
<1> USE DEF StableInv, HandleInv, Stable
<1>1. PICK g \in Handles : handle[r] = g
  BY DEF Add2DB, TypeInv, Stages
<1>2. PICK a \in Metrics : asked[r] = a
  BY DEF Add2DB, TypeInv, TypeOK, Stages
<1>3. META[g] = Nothing
  BY <1>1 DEF LateInsert, AnyRace, Add2DB
<1>4. META' = [META EXCEPT ![g] = [metric |-> a, def |-> found[r]]]
  BY <1>1, <1>2, <1>3 DEF Add2DB, TypeInv, TypeOK
<1>5. /\ META'[g] # Nothing /\ META'[g].metric = a
      /\ \A h \in Handles \ {g} : META'[h] = META[h]
  <2>1. found[r] \in Metrics \cup {Nothing}
    BY DEF TypeInv, TypeOK
  <2>2. [metric |-> a, def |-> found[r]] \in Rows
    BY <2>1 DEF Rows
  <2> QED BY <1>4, <2>2, RowsAssumption DEF TypeInv, TypeOK
<1>6. /\ pc[r] = "add2DB" /\ asked' = asked /\ handle' = handle /\ overlap' = overlap
      /\ pc' = [pc EXCEPT ![r] = "answered"]
  BY DEF Add2DB, Answer, Goto, history
<1>7. /\ \A m \in Metrics \ {a} : RowsOf(m)' = RowsOf(m)
      /\ RowsOf(a)' = RowsOf(a) \cup {g}
  BY <1>3, <1>5 DEF RowsOf
<1>8. \A m \in Metrics : m # Nothing
  BY NothingAssumption
<1>9. RowsOf(a) = {} \/ Excused(a)
  BY <1>2, <1>6 DEF NoRowYet, Inserting
<1>10. AnswerIsRow'
  <2> SUFFICES ASSUME NEW q \in Requests, NEW m \in Metrics, pc'[q] = "answered", asked[q] = m,
                      ~Excused(m)'
               PROVE  \E h \in Handles : handle[q] = h /\ META'[h] # Nothing /\ META'[h].metric = m
    BY <1>6 DEF AnswerIsRow
  <2>1. CASE q = r
    BY <2>1, <1>1, <1>2, <1>5
  <2>2. CASE q # r
    <3>1. pc[q] = "answered" /\ ~Excused(m)
      BY <2>2, <1>6, <1>8, ExcusedKept DEF TypeInv, TypeOK
    <3>2. PICK h \in Handles : handle[q] = h /\ META[h] # Nothing /\ META[h].metric = m
      BY <3>1 DEF AnswerIsRow
    <3> QED BY <3>2, <1>3, <1>5
  <2> QED BY <2>1, <2>2
<1>11. OneRow'
  <2> SUFFICES ASSUME NEW k \in Handles, NEW h \in Handles, NEW m \in Metrics,
                      k # h, k \in RowsOf(m)', h \in RowsOf(m)'
               PROVE  Excused(m)'
    BY DEF OneRow
  <2>1. Excused(m)
    BY <1>7, <1>9 DEF OneRow
  <2> QED BY <2>1, <1>8, ExcusedKept
<1>12. NoRowYet'
  <2> SUFFICES ASSUME NEW q \in Requests, NEW m \in Metrics, pc'[q] \in Inserting, asked[q] = m,
                      ~Excused(m)'
               PROVE  RowsOf(m)' = {}
    BY <1>6 DEF NoRowYet
  <2>1. q # r /\ pc[q] \in Inserting
    BY <1>6 DEF TypeInv, TypeOK, Inserting
  <2>2. ~Excused(m)
    BY <1>8, ExcusedKept
  <2>3. RowsOf(m) = {}
    BY <2>1, <2>2 DEF NoRowYet
  <2>4. m # a
    <3>1. {q, r} \in overlap
      BY <2>1, <1>6 DEF TypeInv, Recorded, InService, Inserting
    <3> QED BY <2>1, <2>2, <3>1, <1>2 DEF Excused, Overlap, Asking
  <2> QED BY <2>3, <2>4, <1>7
<1> QED BY <1>10, <1>11, <1>12

LEMMA StableStep == StableInv /\ Next => StableInv'
<1> SUFFICES ASSUME StableInv, Next PROVE StableInv'
  OBVIOUS
<1>1. HandleInv'
  BY HandlingStep DEF StableInv
<1>2. CASE AnyRace
  <2>1. AnyRace'
    BY <1>2, AnyRaceKept DEF StableInv, HandleInv
  <2> QED BY <1>1, <2>1 DEF StableInv, Stable, AnswerIsRow, OneRow, NoRowYet, Excused
<1>3. CASE ~AnyRace /\ \E r \in Requests : Add2DB(r)
  BY <1>1, <1>3, WrittenStable DEF StableInv
<1>4. CASE \A r \in Requests : ~Add2DB(r)
  <2>1. ASSUME NEW r \in Requests, NEW m \in Metrics, Ask(r, m) PROVE META' = META
    BY <2>1 DEF Ask, store
  <2>2. ASSUME NEW r \in Requests, Serve(r) PROVE META' = META
    BY <1>4, <2>2, OnlyAddWrites DEF StableInv
  <2>3. META' = META
    BY <2>1, <2>2 DEF Next
  <2> QED BY <1>1, <1>4, <2>3, UnwrittenStable DEF StableInv
<1> QED BY <1>2, <1>3, <1>4

LEMMA StableStutter == StableInv /\ UNCHANGED vars => StableInv'
<1> SUFFICES ASSUME StableInv, UNCHANGED vars PROVE StableInv'
  OBVIOUS
<1> USE DEF StableInv, Stable, vars
<1>1. HandleInv'
  BY HandleStutter
<1>2. /\ \A m : Excused(m)' <=> Excused(m)
      /\ \A m : RowsOf(m)' = RowsOf(m)
  BY DEF Excused, AnyRace, Asking, Overlap, With, RowsOf
<1>3. AnswerIsRow'
  BY <1>2 DEF AnswerIsRow
<1>4. OneRow'
  BY <1>2 DEF OneRow
<1>5. NoRowYet'
  BY <1>2 DEF NoRowYet
<1> QED BY <1>1, <1>3, <1>4, <1>5

-----------------------------------------------------------------------------
(* The variables of the service keep their types, for any number of        *)
(* requests (getQuery).                                                    *)
THEOREM MetaTypeCorrect == Spec => []TypeOK
<1>1. HandleInv => TypeOK
  BY DEF HandleInv, TypeInv
<1> QED BY <1>1, InitHandleInv, HandlingStep, HandleStutter, PTL DEF Spec

(* Two metrics get the same file only after a race of two requests that    *)
(* drew the same handle, or a failure of the database (generateHandle,     *)
(* add2DB), whatever the numbers of requests, metrics and handles.         *)
THEOREM SharedFilesNeedRaces == Spec => []SharedFileNeedsRace
<1>1. HandleInv => SharedFileNeedsRace
  <2> SUFFICES ASSUME HandleInv, NEW e \in metaList, NEW f \in metaList,
                      e[1] = f[1], e[2] # f[2]
               PROVE  Race(e[1])
    BY DEF SharedFileNeedsRace, Race, With
  <2>1. e[1] \in Handles \cup {Zero}
    BY DEF HandleInv, TypeInv, TypeOK
  <2> QED BY <2>1 DEF HandleInv, SameHandle, Listed
<1> QED BY <1>1, InitHandleInv, HandlingStep, HandleStutter, PTL DEF Spec

(* A metric that the rules define gets its own definition as long as no    *)
(* two requests have been in the service together: query.clp and           *)
(* output.txt then are the request's own (generateQuery, outputParsed,     *)
(* parseQuery), and so is every row that selectMeta finds.                 *)
THEOREM DefinitionsAreOwn == Spec => []DefinitionIsOwn
<1>1. OwnInv => DefinitionIsOwn
  BY DEF OwnInv, Owned, OwnFiles, DefinitionIsOwn, Answered
<1> QED BY <1>1, InitOwnInv, OwnStepKept, OwnStutter, PTL DEF Spec

(* A metric keeps its handle unless requests for it overlapped, requests   *)
(* with one handle overlapped, or the database failed a request for it     *)
(* (selectMeta, add2DB).                                                   *)
THEOREM HandlesAreStable == Spec => []HandleIsStable
<1>1. StableInv => HandleIsStable
  <2> DEFINE Raced(p) == {q \in Requests : handle[p] # Nothing /\ handle[q] = handle[p]}
  <2> SUFFICES ASSUME StableInv, NEW r \in Requests, NEW s \in Requests,
                      pc[r] = "answered", pc[s] = "answered", asked[r] = asked[s],
                      handle[r] # handle[s]
               PROVE  \/ Overlap(Asking(asked[r]))
                      \/ \E p \in Requests : Overlap(Raced(p))
                      \/ \E p \in faulty : asked[p] = asked[r]
    BY DEF HandleIsStable, Answered, Asking
  <2>1. PICK m \in Metrics : asked[r] = m
    BY DEF StableInv, HandleInv, TypeInv, TypeOK, Stages
  <2>2. Excused(m)
    <3> SUFFICES ASSUME ~Excused(m) PROVE FALSE
      OBVIOUS
    <3>1. PICK g \in Handles : handle[r] = g /\ g \in RowsOf(m)
      BY <2>1 DEF StableInv, Stable, AnswerIsRow, RowsOf
    <3>2. PICK h \in Handles : handle[s] = h /\ h \in RowsOf(m)
      BY <2>1 DEF StableInv, Stable, AnswerIsRow, RowsOf
    <3> QED BY <3>1, <3>2 DEF StableInv, Stable, OneRow
  <2>3. ASSUME NEW h \in Handles \cup {Zero}, Overlap(With(h))
        PROVE  \E p \in Requests : Overlap(Raced(p))
    <3>1. PICK p \in With(h) : TRUE
      BY <2>3 DEF Overlap
    <3>2. h # Nothing
      BY NothingAssumption
    <3>3. Raced(p) = With(h)
      BY <3>1, <3>2 DEF With
    <3>4. p \in Requests
      BY <3>1 DEF With
    <3> HIDE DEF Raced
    <3> QED BY <2>3, <3>3, <3>4
  <2> HIDE DEF Raced
  <2> QED BY <2>1, <2>2, <2>3 DEF Excused, AnyRace
<1> QED BY <1>1, InitStableInv, StableStep, StableStutter, PTL DEF Spec
=============================================================================
