-------------------------------- MODULE RrdFile --------------------------------
(***************************************************************************)
(* The life of an RRD file besides its updates: rrd_tune, rrd_resize, and  *)
(* rrd_dump followed by rrd_restore change it; rrd_fetch_fn reads it.      *)
(*                                                                         *)
(* rrd_resize writes resize.rrd and rrd_restore a new file; the actions    *)
(* take the old file to be replaced by it before the next update.          *)
(***************************************************************************)
EXTENDS RrdUpdate

CONSTANTS
    RraOrder,    \* the archives in the order of the file
    Resizes,     \* the archives and the numbers of rows rrd_resize is called with
    Queries,     \* the start, the end and the step rrd_fetch_fn is called with
    MaxEdits     \* bound: number of calls of tune, resize and restore

ASSUME OrderAssumption ==
    /\ RraOrder \in [1 .. Cardinality(Archives) -> Archives]
    /\ \A a \in Archives : \E i \in DOMAIN RraOrder : RraOrder[i] = a
ASSUME QueriesAssumption ==
    /\ \A z \in Resizes : z.rra \in Archives /\ z.rows \in Nat \ {0}
    /\ \A q \in Queries : q.start \in Nat /\ q.end \in Nat /\ q.start <= q.end /\ q.step \in Nat
    /\ MaxEdits \in Nat

VARIABLE edits     \* number of calls of tune, resize and restore

fileVars == <<vars, edits>>

FileInit == Init /\ edits = 0

Edit ==
    /\ edits < MaxEdits
    /\ edits' = edits + 1
    /\ UNCHANGED <<last_up, pdp_prep, cdp_prep, refused, samples>>

-----------------------------------------------------------------------------
(* rrd_tune -d: a new type, for which the last reading means nothing.      *)

\* Mutant: only the type is changed.
Tune_KeepsReading(type) ==
    /\ type # dst
    /\ Edit
    /\ dst' = type
    /\ UNCHANGED <<last_ds, cur_row, row_cnt, rows, since>>

Tune(type) ==
    /\ type # dst
    /\ Edit
    /\ dst' = type
    /\ last_ds' = U
    /\ UNCHANGED <<cur_row, row_cnt, rows, since>>

-----------------------------------------------------------------------------
(* rrd_resize: rows are added or removed just after the current row, where *)
(* the oldest ones are.                                                    *)

\* Mutant: the new rows are put at the end of the archive.
Grow_AtEnd(a, modify) ==
    /\ Edit
    /\ row_cnt' = [row_cnt EXCEPT ![a] = @ + modify]
    /\ rows' = [rows EXCEPT ![a] =
          [r \in 0 .. RowCnt(a) + modify - 1 |-> IF r < RowCnt(a) THEN @[r] ELSE DNAN]]
    /\ since' = [since EXCEPT ![a] =
          LET oldest == Complete(a) - RowCnt(a) * PdpCnt(a)
          IN  IF @ < oldest THEN oldest ELSE @]
    /\ UNCHANGED <<dst, last_ds, cur_row>>

Grow(a, modify) ==
    /\ Edit
    /\ row_cnt' = [row_cnt EXCEPT ![a] = @ + modify]
    /\ rows' = [rows EXCEPT ![a] =
          [r \in 0 .. RowCnt(a) + modify - 1 |->
              IF r <= cur_row[a] THEN @[r]
              ELSE IF r <= cur_row[a] + modify THEN DNAN ELSE @[r - modify]]]
    /\ since' = [since EXCEPT ![a] =
          LET oldest == Complete(a) - RowCnt(a) * PdpCnt(a)
          IN  IF @ < oldest THEN oldest ELSE @]
    /\ UNCHANGED <<dst, last_ds, cur_row>>

\* The rows to be removed that lie at the start of the archive: those after the
\* current row may wrap around its end.
FrontRows(a, modify) ==
    LET remove_end == (cur_row[a] + modify) % RowCnt(a)
    IN  IF remove_end <= cur_row[a] THEN remove_end + 1 ELSE 0

Shrink(a, modify) ==
    LET front == FrontRows(a, modify) IN
    /\ modify < RowCnt(a)
    /\ Edit
    /\ row_cnt' = [row_cnt EXCEPT ![a] = @ - modify]
    /\ cur_row' = [cur_row EXCEPT ![a] = @ - front]
    /\ rows' = [rows EXCEPT ![a] =
          [r \in 0 .. RowCnt(a) - modify - 1 |->
              IF r <= cur_row[a] - front THEN @[r + front] ELSE @[r + modify]]]
    /\ UNCHANGED <<dst, last_ds, since>>

-----------------------------------------------------------------------------
(* rrd_dump and rrd_restore.  What the dump does not hold is lost: the row *)
(* numbers, and the microseconds of the last update.                       *)

\* The data source and its PDP status.
DumpedDs == [type |-> dst, last_ds |-> last_ds,
             value |-> pdp_prep.val, unknown_sec |-> pdp_prep.unkn]

\* The preparation area of an archive.
DumpedCdpPrep(a) ==
    [primary_value |-> cdp_prep[a].primary, secondary_value |-> cdp_prep[a].secondary,
     value |-> cdp_prep[a].val, unknown_datapoints |-> cdp_prep[a].unkn]

\* The rows, from the oldest one to the current one.
DumpedRows(a) == [k \in 1 .. RowCnt(a) |-> rows[a][(cur_row[a] + k) % RowCnt(a)]]

\* value_check_range of rrd_restore -r
CheckedRange(x, range_check) == IF range_check /\ OutOfRange(x) THEN DNAN ELSE x

\* parse_tag_rra returns at </rra>, before it would choose a random current row.
RestoredCurRow == 0

\* write_file: the last rows of the dump come first, up to the current row.
RestoredRows(database, range_check) ==
    LET num_rows == Len(database)
    IN  [r \in 0 .. num_rows - 1 |->
            CheckedRange(IF r <= RestoredCurRow THEN database[num_rows - RestoredCurRow + r]
                         ELSE database[r - RestoredCurRow], range_check)]

Restore(range_check) ==
    /\ edits < MaxEdits
    /\ edits' = edits + 1
    /\ dst' = DumpedDs.type /\ last_ds' = DumpedDs.last_ds
    /\ pdp_prep' = [val |-> DumpedDs.value, unkn |-> DumpedDs.unknown_sec]
    /\ cdp_prep' = [a \in Archives |->
          LET d == DumpedCdpPrep(a)
          IN  [val |-> d.value, unkn |-> d.unknown_datapoints,
               primary |-> d.primary_value, secondary |-> d.secondary_value]]
    /\ row_cnt' = [a \in Archives |-> Len(DumpedRows(a))]
    /\ cur_row' = [a \in Archives |-> RestoredCurRow]
    /\ rows' = [a \in Archives |-> RestoredRows(DumpedRows(a), range_check)]
    /\ UNCHANGED <<last_up, since, refused, samples>>

FileNext ==
    \/ Next /\ UNCHANGED edits
    \/ \E type \in DsTypes : Tune(type)
    \/ \E z \in Resizes : Grow(z.rra, z.rows) \/ Shrink(z.rra, z.rows)
    \/ \E range_check \in BOOLEAN : Restore(range_check)

FileSpec == FileInit /\ [][FileNext]_fileVars

-----------------------------------------------------------------------------
(* rrd_fetch_fn.                                                           *)

RowSpan(a) == PdpCnt(a) * Step
CalEnd(a) == last_up - (last_up % RowSpan(a))
CalStart(a) == CalEnd(a) - RowCnt(a) * RowSpan(a)

StepDiff(a, q) == IF q.step < RowSpan(a) THEN RowSpan(a) - q.step ELSE q.step - RowSpan(a)

\* An archive that reaches back to the start is a full match; the one with the
\* nearest step is the best.  Of the others the one that reaches back farthest is.
FullMatch(a, q) == CalStart(a) <= q.start
Better(a, b, q) ==
    IF FullMatch(a, q) THEN FullMatch(b, q) => StepDiff(a, q) < StepDiff(b, q)
    ELSE /\ ~ FullMatch(b, q)
         /\ \/ CalStart(a) < CalStart(b)
            \/ CalStart(a) = CalStart(b) /\ StepDiff(a, q) < StepDiff(b, q)

\* The archives of a consolidation function, as indices into the file.
Matching(cf) == {i \in DOMAIN RraOrder : rra_def[RraOrder[i]].cf = cf}

\* The first of the best.
ChosenRra(cf, q) ==
    RraOrder[CHOOSE i \in Matching(cf) : \A j \in Matching(cf) \ {i} :
                IF j < i THEN Better(RraOrder[i], RraOrder[j], q)
                ELSE ~ Better(RraOrder[j], RraOrder[i], q)]

\* Mutant: the first row is the current one, not the oldest.
FirstPointer_Current(a, start_offset) ==
    (cur_row[a] + (IF start_offset <= 0 THEN 0 ELSE start_offset)) % RowCnt(a)

\* The row in the archive of the first value read.
FirstPointer(a, start_offset) ==
    (cur_row[a] + 1 + (IF start_offset <= 0 THEN 0 ELSE start_offset)) % RowCnt(a)

\* What is read of an archive: the window, aligned to its rows, and the values.
Window(a, q) ==
    LET step == RowSpan(a)
        start == q.start - (q.start % step)
        end == q.end + (step - (q.end % step))
    IN  [start |-> start, end |-> end,
         start_offset |-> (start + step - (CalEnd(a) - step * (RowCnt(a) - 1))) \div step,
         end_offset |-> (CalEnd(a) - end) \div step]

Cell(a, w, i) ==
    LET skipped == IF w.start_offset < 0 THEN 0 ELSE w.start_offset
    IN  IF i < 0 \/ i >= RowCnt(a) THEN DNAN
        ELSE rows[a][(FirstPointer(a, w.start_offset) + i - skipped) % RowCnt(a)]

Read(a, w) ==
    [rra |-> a, start |-> w.start, end |-> w.end, step |-> RowSpan(a),
     data |-> [k \in 1 .. RowCnt(a) - w.end_offset - w.start_offset |->
                  Cell(a, w, w.start_offset + k - 1)]]

Fetch(cf, q) == LET a == ChosenRra(cf, q) IN Read(a, Window(a, q))

-----------------------------------------------------------------------------
(* What a file promises.                                                   *)

\* The rows of the answer are those of the archive for their times.
RowsOfTheirTimes(answer) ==
    LET a == answer.rra
        back(k) == (Complete(a) * Step - answer.start - k * answer.step) \div answer.step
    IN  /\ Len(answer.data) = (answer.end - answer.start) \div answer.step
        /\ \A k \in DOMAIN answer.data :
              answer.data[k] =
                  IF back(k) \in 0 .. RowCnt(a) - 1
                  THEN rows[a][(cur_row[a] + RowCnt(a) - back(k)) % RowCnt(a)]
                  ELSE DNAN

(* Every value that rrd_fetch_fn returns comes from the row of the period  *)
(* that ends at its time (RowsMatchReference says what this row holds),    *)
(* and values for times that the archive does not keep, older or still to  *)
(* come, are unknown: whatever the window, wherever the ring stands, and   *)
(* after the file was resized or restored.  The number of values is the    *)
(* one that callers compute from start, end and step.                      *)
FetchReadsTheRowOfTheTime ==
    \A cf \in {rra_def[a].cf : a \in Archives}, q \in Queries :
        \E answer \in {Fetch(cf, q)} :
            /\ answer.start <= q.start /\ q.end < answer.end
            /\ RowsOfTheirTimes(answer)

(* A counter's rate is taken between readings of the counter: unless an    *)
(* update was refused in between, a rate that is known had a known reading *)
(* of the same type before it, whatever rrd_tune did meanwhile.            *)
RateIsOfOneSource ==
    \A i \in DOMAIN samples :
        LET this == samples[i] IN
        /\ refused = 0
        /\ this.type \in {"COUNTER", "DERIVE"} /\ ~ isnan(this.rate)
        => i > 1 /\ samples[i - 1].type = this.type /\ samples[i - 1].reading # U
=============================================================================
