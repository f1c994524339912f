------------------------------- MODULE RrdUpdate -------------------------------
(***************************************************************************)
(* rrd_update_r (rrd_update.c): how a reading of a data source becomes     *)
(* primary data points, how these are consolidated, and how the rows of    *)
(* the round robin archives are written.                                   *)
(*                                                                         *)
(* One data source is modelled: the others of the file meet it only where  *)
(* one of their readings makes an update fail (RefusedUpdate).  An action  *)
(* is one argument of rrd_update_r.  Times are whole seconds.              *)
(***************************************************************************)
EXTENDS RrdValues, FiniteSets, FiniteSetsExt, Sequences

CONSTANTS
    Step,        \* stat_head->pdp_step
    Heartbeat,   \* par[DS_mrhb_cnt] of the data source
    MinRate,     \* par[DS_min_val], or DNAN
    MaxRate,     \* par[DS_max_val], or DNAN
    DsTypes,     \* the data source types looked at
    Readings,    \* the readings of a data source of each type
    Wrap32,      \* 2^32, the range of a small counter
    Wrap64,      \* 2^64, the range of a large counter
    Archives,    \* the names of the archives
    rra_def,     \* cf, pdp_cnt, row_cnt and xff of each archive
    InitialRows, \* what rrd_select_initial_row may choose
    Starts,      \* the times a file may be created with
    Times,       \* bound: the times of the updates
    MaxUpdates,  \* bound: number of updates that succeed
    MaxRefused   \* bound: number of updates that fail

ASSUME StepAssumption ==
    /\ Step \in Nat \ {0} /\ Heartbeat \in Nat \ {0}
    /\ Wrap32 \in Nat \ {0} /\ Wrap64 \in Nat /\ Wrap32 < Wrap64
ASSUME TypesAssumption ==
    /\ DsTypes \subseteq {"GAUGE", "COUNTER", "DERIVE", "ABSOLUTE"}
    /\ \A d \in DsTypes : Readings[d] \subseteq Nat
    /\ MinRate \in Int \X Nat /\ MaxRate \in Int \X Nat
ASSUME ArchivesAssumption ==
    /\ IsFiniteSet(Archives)
    /\ \A a \in Archives :
          /\ rra_def[a].cf \in {"AVERAGE", "MIN", "MAX", "LAST"}
          /\ rra_def[a].pdp_cnt \in Nat \ {0} /\ rra_def[a].row_cnt \in Nat \ {0}
          /\ rra_def[a].xff \in Int \X Nat
          /\ ~ Less(rra_def[a].xff, Int2Value(0)) /\ Less(rra_def[a].xff, Int2Value(1))
ASSUME BoundAssumption ==
    /\ Starts \subseteq Nat /\ InitialRows \subseteq Nat
    /\ Times \subseteq Nat /\ MaxUpdates \in Nat /\ MaxRefused \in Nat

VARIABLES
    dst,       \* the type of the data source
    last_up,   \* live_head->last_up
    last_ds,   \* the last reading, or U
    pdp_prep,  \* val and unkn_sec_cnt of the data source
    cdp_prep,  \* val, unkn_pdp_cnt, primary_val and secondary_val per archive
    cur_row,   \* rra_ptr[].cur_row per archive
    row_cnt,   \* rra_def[].row_cnt per archive: only rrd_resize changes it
    rows,      \* the rows of each archive
    since,     \* history: the step up to which an archive has lost its rows (RrdFile)
    refused,   \* number of updates that failed
    samples    \* history: the time span and the rate of every accepted update

vars == <<dst, last_up, last_ds, pdp_prep, cdp_prep, cur_row, row_cnt, rows, since,
          refused, samples>>

U == -1        \* a reading that is not known
-----------------------------------------------------------------------------
PdpCnt(a) == rra_def[a].pdp_cnt
RowCnt(a) == row_cnt[a]

\* A new file, as rrd_create writes it: what came before is unknown.
Init ==
    /\ dst \in DsTypes
    /\ last_up \in Starts
    /\ last_ds = U
    /\ pdp_prep = [val |-> Int2Value(0), unkn |-> last_up % Step]
    /\ cdp_prep = [a \in Archives |->
                     [val |-> DNAN, unkn |-> (last_up \div Step) % PdpCnt(a),
                      primary |-> Int2Value(0), secondary |-> Int2Value(0)]]
    /\ row_cnt = [a \in Archives |-> rra_def[a].row_cnt]
    /\ \E r \in InitialRows : cur_row = [a \in Archives |-> r % RowCnt(a)]
    /\ rows = [a \in Archives |-> [r \in 0 .. RowCnt(a) - 1 |-> DNAN]]
    /\ since = [a \in Archives |-> 0]
    /\ refused = 0
    /\ samples = <<>>

-----------------------------------------------------------------------------
(* The reading (update_pdp_prep).                                          *)

Interval(t) == t - last_up
Missed(t) == Heartbeat < Interval(t)

\* A counter that seems to go backwards has wrapped at 32 or at 64 bits.
Unwrapped(diff) ==
    IF diff >= 0 THEN diff
    ELSE IF diff + Wrap32 >= 0 THEN diff + Wrap32 ELSE diff + Wrap64

\* pdp_new before the limits are looked at: rate * seconds.  A last_ds older than
\* the heartbeat is never used.
Amount(t, v) ==
    IF v = U \/ Missed(t) THEN DNAN
    ELSE CASE dst = "GAUGE" -> Int2Value(v * Interval(t))
           [] dst = "ABSOLUTE" -> Int2Value(v)
           [] dst = "DERIVE" ->
                IF last_ds = U THEN DNAN ELSE Int2Value(v - last_ds)
           [] dst = "COUNTER" ->
                IF last_ds = U THEN DNAN ELSE Int2Value(Unwrapped(v - last_ds))

OutOfRange(rate) ==
    \/ ~ isnan(MaxRate) /\ Less(MaxRate, rate)
    \/ ~ isnan(MinRate) /\ Less(rate, MinRate)

\* The rate during the time since the last update.
NewRate(t, v) ==
    LET rate == Over(Amount(t, v), Interval(t))
    IN  IF ~ isnan(rate) /\ OutOfRange(rate) THEN DNAN ELSE rate

-----------------------------------------------------------------------------
(* Primary data points (calculate_elapsed_steps, simple_update,            *)
(* process_pdp_st).                                                        *)

StepStart(t) == t - (t % Step)
Elapsed(t) == (StepStart(t) - StepStart(last_up)) \div Step
PreInt(t) == StepStart(t) - last_up
PostInt(t) == t % Step

\* A part of the open step that ends with the reading.
Added(prep, rate, secs) ==
    IF isnan(rate)
    THEN [prep EXCEPT !.unkn = @ + secs]
    ELSE [prep EXCEPT !.val = Plus(IFDNAN(@, Int2Value(0)), Scaled(rate, secs))]

\* The value of every primary data point that is complete at t (pdp_temp).
Pdp(t, rate) ==
    LET known == Added(pdp_prep, rate, PreInt(t)).val
        pre_unknown == IF isnan(rate) THEN PreInt(t) ELSE 0
    IN  IF Missed(t) \/ Step < 2 * pdp_prep.unkn THEN DNAN
        ELSE Over(known, Elapsed(t) * Step - pdp_prep.unkn - pre_unknown)

\* Mutant: what is known ends at the boundary, and so does what is not.
OpenPrep_ForgetsUnknown(t, rate) ==
    [val |-> Scaled(IFDNAN(rate, Int2Value(0)), PostInt(t)), unkn |-> 0]

\* The step that is open at t.
OpenPrep(t, rate) ==
    IF isnan(rate) THEN [val |-> DNAN, unkn |-> PostInt(t)]
    ELSE [val |-> Scaled(rate, PostInt(t)), unkn |-> 0]

-----------------------------------------------------------------------------
(* Consolidation (update_all_cdp_prep and the functions it calls).         *)

StartPdpOffset(a) == PdpCnt(a) - ((last_up \div Step) % PdpCnt(a))

\* The number of rows that are due.
RraStepCnt(a, elapsed) ==
    IF StartPdpOffset(a) <= elapsed
    THEN (elapsed - StartPdpOffset(a)) \div PdpCnt(a) + 1
    ELSE 0

Larger(x, y) == IF Less(x, y) THEN y ELSE x
Smaller(x, y) == IF Less(y, x) THEN y ELSE x

\* The consolidated value of a period whose last PDPs, `offset' of them, are pdp.
initialize_cdp_val(a, cdp, pdp, offset) ==
    CASE rra_def[a].cf = "AVERAGE" ->
           Over(Plus(IFDNAN(cdp.val, Int2Value(0)),
                     Scaled(IFDNAN(pdp, Int2Value(0)), offset)),
                PdpCnt(a) - cdp.unkn)
      [] rra_def[a].cf = "MAX" -> Larger(IFDNAN(cdp.val, NegDINF), IFDNAN(pdp, NegDINF))
      [] rra_def[a].cf = "MIN" -> Smaller(IFDNAN(cdp.val, DINF), IFDNAN(pdp, DINF))
      [] rra_def[a].cf = "LAST" -> pdp

\* Mutant: the carry-over of an average counts as one PDP.
initialize_carry_over_One(a, pdp, into) ==
    LET empty == into = 0 \/ isnan(pdp)
    IN  CASE rra_def[a].cf = "AVERAGE" -> IF empty THEN Int2Value(0) ELSE pdp
          [] rra_def[a].cf = "MAX" -> IF empty THEN NegDINF ELSE pdp
          [] rra_def[a].cf = "MIN" -> IF empty THEN DINF ELSE pdp
          [] rra_def[a].cf = "LAST" -> IF empty THEN DNAN ELSE pdp

\* What `into' PDPs of the next period start it with.
initialize_carry_over(a, pdp, into) ==
    LET empty == into = 0 \/ isnan(pdp)
    IN  CASE rra_def[a].cf = "AVERAGE" -> IF empty THEN Int2Value(0) ELSE Scaled(pdp, into)
          [] rra_def[a].cf = "MAX" -> IF empty THEN NegDINF ELSE pdp
          [] rra_def[a].cf = "MIN" -> IF empty THEN DINF ELSE pdp
          [] rra_def[a].cf = "LAST" -> IF empty THEN DNAN ELSE pdp

\* A period that stays open after `elapsed' known PDPs.
calculate_cdp_val(a, val, pdp, elapsed) ==
    CASE rra_def[a].cf = "AVERAGE" -> Plus(IFDNAN(val, Int2Value(0)), Scaled(pdp, elapsed))
      [] rra_def[a].cf = "MIN" -> IF isnan(val) THEN pdp ELSE Smaller(val, pdp)
      [] rra_def[a].cf = "MAX" -> IF isnan(val) THEN pdp ELSE Larger(val, pdp)
      [] rra_def[a].cf = "LAST" -> pdp

\* More unknown PDPs than the xff of the archive allows.
TooManyUnknown(a, unkn) == Less(Scaled(rra_def[a].xff, PdpCnt(a)), Int2Value(unkn))

\* update_cdp where a row is due
CloseCdp(a, cdp, pdp, elapsed) ==
    LET offset == StartPdpOffset(a)
        into == (elapsed - offset) % PdpCnt(a)
        unkn == cdp.unkn + (IF isnan(pdp) THEN offset ELSE 0)
        full == [cdp EXCEPT !.unkn = unkn]
    IN  [val |-> initialize_carry_over(a, pdp, into),
         unkn |-> IF isnan(pdp) THEN into ELSE 0,
         primary |-> IF TooManyUnknown(a, unkn) THEN DNAN
                     ELSE initialize_cdp_val(a, full, pdp, offset),
         secondary |-> pdp]

\* update_cdp where none is
ExtendCdp(a, cdp, pdp, elapsed) ==
    IF isnan(pdp) THEN [cdp EXCEPT !.unkn = @ + elapsed]
    ELSE [cdp EXCEPT !.val = calculate_cdp_val(a, @, pdp, elapsed)]

\* One PDP per row (reset_cdp and update_aberrant_cdps).
SingleCdp(cdp, pdp, elapsed) ==
    [cdp EXCEPT !.primary = pdp, !.secondary = IF elapsed > 1 THEN pdp ELSE @]

update_cdp_prep(a, pdp, elapsed) ==
    IF PdpCnt(a) = 1 THEN SingleCdp(cdp_prep[a], pdp, elapsed)
    ELSE IF RraStepCnt(a, elapsed) > 0 THEN CloseCdp(a, cdp_prep[a], pdp, elapsed)
    ELSE ExtendCdp(a, cdp_prep[a], pdp, elapsed)

-----------------------------------------------------------------------------
(* Rows (write_to_rras): the first one gets the primary value, the others  *)
(* the secondary one, and an old row may be overwritten several times.     *)

\* Mutant: the row number wraps one row too late.
RowWritten_Late(a, i) == (cur_row[a] + i) % (RowCnt(a) + 1)

RowWritten(a, i) == (cur_row[a] + i) % RowCnt(a)

WriteRows(a, n, cdp) ==
    [r \in 0 .. RowCnt(a) - 1 |->
        LET hits == {i \in 1 .. n : RowWritten(a, i) = r}
        IN  IF hits = {} THEN rows[a][r]
            ELSE IF hits = {1} THEN cdp.primary ELSE cdp.secondary]

-----------------------------------------------------------------------------
(* Actions.                                                                *)

Timely(t) == t > last_up            \* get_time_from_reading
Accepted(t, v, rate) ==
    /\ Len(samples) < MaxUpdates
    /\ samples' = Append(samples, [from |-> last_up, to |-> t, type |-> dst,
                                   reading |-> v, rate |-> rate])
    /\ last_up' = t
    /\ last_ds' = v

\* process_arg for a reading within the open step
SimpleUpdate(t, v) ==
    LET rate == NewRate(t, v) IN
    /\ Timely(t)
    /\ Elapsed(t) = 0
    /\ Accepted(t, v, rate)
    /\ pdp_prep' = Added(pdp_prep, rate, Interval(t))
    /\ UNCHANGED <<dst, cdp_prep, cur_row, row_cnt, rows, since, refused>>

\* process_arg for a reading that completes primary data points
StepUpdate(t, v) ==
    LET rate == NewRate(t, v)
        pdp == Pdp(t, rate)
        due == [a \in Archives |-> RraStepCnt(a, Elapsed(t))]
    IN
    /\ Timely(t)
    /\ Elapsed(t) > 0
    /\ Accepted(t, v, rate)
    /\ pdp_prep' = OpenPrep(t, rate)
    /\ cdp_prep' = [a \in Archives |-> update_cdp_prep(a, pdp, Elapsed(t))]
    /\ rows' = [a \in Archives |-> WriteRows(a, due[a], cdp_prep'[a])]
    /\ cur_row' = [a \in Archives |-> RowWritten(a, due[a])]
    /\ UNCHANGED <<dst, row_cnt, since, refused>>

\* update_pdp_prep fails at the reading of a later data source.  The file is
\* mapped into memory, so what this data source was given stays.
RefusedUpdate(t, v) ==
    /\ Timely(t)
    /\ refused < MaxRefused
    /\ refused' = refused + 1
    /\ last_ds' = v
    /\ UNCHANGED <<dst, last_up, pdp_prep, cdp_prep, cur_row, row_cnt, rows, since, samples>>

Next ==
    \E t \in Times, v \in Readings[dst] \union {U} :
        \/ SimpleUpdate(t, v)
        \/ StepUpdate(t, v)
        \/ RefusedUpdate(t, v)

Spec == Init /\ [][Next]_vars

-----------------------------------------------------------------------------
(* What the stored values must be, from the accepted updates alone.        *)

Created == IF samples = <<>> THEN last_up ELSE samples[1].from

\* What the accepted updates say of the seconds from lo to hi: how many of them
\* have a known rate, and the sum of these rates.
KnownSamples == {i \in DOMAIN samples : ~ isnan(samples[i].rate)}
Seconds(i, lo, hi) ==
    Cardinality((samples[i].from .. samples[i].to - 1) \intersect (lo .. hi - 1))
KnownSeconds(lo, hi) ==
    LET Part(i) == Seconds(i, lo, hi) IN MapThenSumSet(Part, KnownSamples)
KnownSum(lo, hi) ==
    LET Part(i) == Scaled(samples[i].rate, Seconds(i, lo, hi)) IN Total(Part, KnownSamples)

\* The PDP of the step that ends at e: the mean of what is known of the span of
\* whole steps that the update c completed.
PdpOf(e) ==
    LET done == CHOOSE i \in DOMAIN samples : samples[i].from < e /\ e <= samples[i].to
        c == samples[done]
        lo == StepStart(c.from)
        hi == StepStart(c.to)
    IN  IF c.to - c.from > Heartbeat \/ 2 * (c.from - lo - KnownSeconds(lo, c.from)) > Step
        THEN DNAN
        ELSE Over(KnownSum(lo, hi), KnownSeconds(lo, hi))

\* The PDPs of all the steps up to now: those from before the file are unknown.
Pdps ==
    LET missing == Created \div Step IN
    [k \in 1 .. missing |-> DNAN]
        \o [k \in 1 .. (last_up \div Step) - missing |-> PdpOf((missing + k) * Step)]
KnownOf(pdps, S) == {k \in S : ~ isnan(pdps[k])}

\* The row of archive a for the period that ends with step n.
RowOf(pdps, a, n) ==
    LET period == n - PdpCnt(a) + 1 .. n
        known == KnownOf(pdps, period)
        values == {pdps[k] : k \in known}
        Nth(k) == pdps[k]
    IN  IF TooManyUnknown(a, PdpCnt(a) - Cardinality(known)) THEN DNAN
        ELSE CASE rra_def[a].cf = "AVERAGE" -> Over(Total(Nth, known), Cardinality(known))
               [] rra_def[a].cf = "MAX" ->
                    CHOOSE x \in values : \A y \in values : ~ Less(x, y)
               [] rra_def[a].cf = "MIN" ->
                    CHOOSE x \in values : \A y \in values : ~ Less(y, x)
               [] rra_def[a].cf = "LAST" -> pdps[n]

\* The number of steps, and of these in periods that are complete.
Now == last_up \div Step
Complete(a) == Now - (Now % PdpCnt(a))

\* The row that archive a keeps for that period.
KeptRow(pdps, a, n) ==
    IF n * Step <= Created \/ n <= since[a] THEN DNAN ELSE RowOf(pdps, a, n)

-----------------------------------------------------------------------------
(* Type invariant: every value is a fraction, unknown or infinite, every   *)
(* row number is in its range, and no more of the open step and of an open *)
(* period is unknown than has passed of it.                                *)
Value(x) == x[1] \in Int /\ x[2] \in Nat
TypeOK ==
    /\ dst \in DsTypes /\ last_up \in Nat
    /\ last_ds \in (UNION {Readings[d] : d \in DsTypes}) \union {U}
    /\ Value(pdp_prep.val) /\ pdp_prep.unkn \in 0 .. PostInt(last_up)
    /\ \A a \in Archives :
          /\ Value(cdp_prep[a].val) /\ cdp_prep[a].unkn \in 0 .. Now % PdpCnt(a)
          /\ Value(cdp_prep[a].primary) /\ Value(cdp_prep[a].secondary)
          /\ RowCnt(a) > 0 /\ since[a] <= Now
          /\ cur_row[a] \in 0 .. RowCnt(a) - 1
          /\ \A r \in 0 .. RowCnt(a) - 1 : Value(rows[a][r])
    /\ refused \in 0 .. MaxRefused /\ Len(samples) <= MaxUpdates

(* The preparation areas count what they stand for: the open step its      *)
(* unknown seconds and the sum over the known ones, every open period its  *)
(* unknown PDPs.  A lost or a doubled second would make a later divisor    *)
(* wrong (process_pdp_st, update_cdp).                                     *)
PrepCountsTheOpen ==
    LET pdps == Pdps
        lo == StepStart(last_up)
    IN  /\ pdp_prep.unkn = last_up - lo - KnownSeconds(lo, last_up)
        /\ IFDNAN(pdp_prep.val, Int2Value(0)) = KnownSum(lo, last_up)
        /\ \A a \in Archives : PdpCnt(a) > 1 =>
              LET open == Complete(a) + 1 .. Now
              IN  cdp_prep[a].unkn = Cardinality(open) - Cardinality(KnownOf(pdps, open))

(* The archives hold, for each of the last row_cnt periods, what the       *)
(* definition of its consolidation function and of xff gives for the whole *)
(* history of updates, in the row that belongs to the period: however the  *)
(* updates were spread over steps and periods, and however often the ring  *)
(* has wrapped (update_cdp, write_to_rras).  Rows of periods before the    *)
(* file was created, or lost when the archive was made smaller, are empty. *)
RowsMatchReference ==
    LET pdps == Pdps IN
    \A a \in Archives : \A back \in 0 .. RowCnt(a) - 1 :
        LET row == (cur_row[a] + RowCnt(a) - back) % RowCnt(a)
            last == Complete(a) - back * PdpCnt(a)
        IN  rows[a][row] = KeptRow(pdps, a, last)

(* "if we got here and if there is an error and if the file has not been   *)
(* written to, then close things up and return" (rrd_update.c): an update  *)
(* that fails leaves no trace in the file, so the rate of a counter is its *)
(* increase between the readings of two successive accepted updates.       *)
RateFromAcceptedReadings ==
    \A i \in 2 .. Len(samples) :
        LET this == samples[i]
            last == samples[i - 1]
            rate == Over(Int2Value((this.reading - last.reading) % Wrap32),
                         this.to - this.from)
        IN  /\ this.type = "COUNTER" /\ last.type = "COUNTER"
            /\ this.reading # U /\ last.reading # U
            /\ this.to - this.from <= Heartbeat /\ ~ OutOfRange(rate)
            => this.rate = rate
=============================================================================
