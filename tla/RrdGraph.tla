------------------------------- MODULE RrdGraph -------------------------------
(***************************************************************************)
(* The data part of rrdtool graph and rrdtool xport: data_fetch reads and  *)
(* reduces the DEFs, data_calc runs the VDEFs, CDEFs and SHIFTs in the     *)
(* order of the command, and the result is a table (rrd_xport_fn) or one   *)
(* value for each pixel of a LINE (data_proc).                             *)
(*                                                                         *)
(* All data sources of an element lie in an array of their own.  A CDEF is *)
(* given as the tree its author means, and compiled to what rpn_parse      *)
(* reads.                                                                  *)
(***************************************************************************)
EXTENDS RrdReduce, SequencesExt

CONSTANTS
    Archive,    \* of each file: the step, and the value of the interval that ends at a time
    Commands,   \* the commands: start, end, step, xsize and the elements
    Outside     \* what lies in memory outside the rows of an element

VARIABLES
    im,       \* the command: start, end, step, xsize
    gdes,     \* the elements, with their data
    phase,    \* "fetch", "calc", "draw", "done", "failed" (-1) or "died" (exit)
    gdi,      \* the element that is next
    rpn,      \* of the CDEF that is being calculated: rows already passed, by operation
    table     \* of XPORT: start, end, step, rows; of LINE: the values by pixel

vars == <<im, gdes, phase, gdi, rpn, table>>

\* The element that is next, and whether there is one.
More == gdi <= Len(gdes)
Current == gdes[gdi]
Is(gf) == More /\ Current.gf = gf

-----------------------------------------------------------------------------
(* The command: rpn_parse, gdes_alloc, rrd_parse_def, ..                   *)

RECURSIVE Rpn(_)
Rpn(t) ==
    FlattenSeq([i \in DOMAIN t.args |-> Rpn(t.args[i])]) \o t.code

Parsed(e) ==
    CASE e.gf = "DEF" -> [data |-> <<>>, shift |-> 0,
                          start_orig |-> e.start, end_orig |-> e.end, step_orig |-> e.step] @@ e
      [] e.gf = "CDEF" -> [start |-> 0, end |-> 0, step |-> 1, shift |-> 0, data |-> <<>>,
                           rpnp |-> Rpn(e.tree)] @@ e
      [] e.gf = "VDEF" -> [val |-> DNAN, when |-> 0] @@ e
      [] OTHER -> e

Init ==
    /\ \E c \in Commands :
          /\ im = [start |-> c.start, end |-> c.end, step |-> c.step, xsize |-> c.xsize]
          /\ gdes = [i \in DOMAIN c.gdes |-> Parsed(c.gdes[i])]
    /\ phase = "fetch" /\ gdi = 1 /\ rpn = <<>> /\ table = <<>>

-----------------------------------------------------------------------------
(* data_fetch.  Nothing is ever entered into rrd_map, so every DEF reads   *)
(* its file.                                                               *)

Fetched(d) ==
    LET step == Archive[d.rrd].step
        start == d.start - (d.start % step)
        end == d.end + (step - (d.end % step))
    IN  [start |-> start, end |-> end, step |-> step,
         data |-> [k \in 1 .. (end - start) \div step |-> Archive[d.rrd].value[start + k * step]]]

FetchDef ==
    /\ phase = "fetch" /\ Is("DEF")
    /\ LET f == Fetched(Current)
           wanted == IF Current.step < im.step THEN im.step ELSE Current.step
           r == IF f.step < wanted THEN reduce_data(Current.cf_reduce, f, wanted)
                ELSE [sane |-> TRUE] @@ f
       IN  IF r.sane
           THEN /\ gdes' = [gdes EXCEPT ![gdi].start = r.start, ![gdi].end = r.end,
                                        ![gdi].step = r.step, ![gdi].data = r.data]
                /\ gdi' = gdi + 1
                /\ UNCHANGED phase
           ELSE phase' = "died" /\ UNCHANGED <<gdes, gdi>>
    /\ UNCHANGED <<im, rpn, table>>

\* Elements a phase has nothing to do for, and the end of the phase.
Skip(kinds) == More /\ Current.gf \notin kinds /\ gdi' = gdi + 1 /\ UNCHANGED phase
Turn(next) == ~ More /\ gdi' = 1 /\ phase' = next

FetchOther ==
    /\ phase = "fetch"
    /\ Skip({"DEF"}) \/ Turn("calc")
    /\ UNCHANGED <<im, gdes, rpn, table>>

-----------------------------------------------------------------------------
(* vdef_calc                                                               *)

Finite(x) == x[2] # 0

Times(x, y) == Ratio(x[1] * y[1], x[2] * y[2])
\* The sign goes to the numerator, where an infinity keeps it.
DividedBy(x, y) ==
    IF y[1] < 0 THEN Ratio(-(x[1] * y[2]), -(x[2] * y[1])) ELSE Ratio(x[1] * y[2], x[2] * y[1])
Minus(x, y) == Plus(x, Scaled(y, -1))

\* The order of two values: an infinity as x is an extreme, an infinity as y is
\* the opposite one, since its own sign is returned.
vdef_percent_compar(x, y) ==
    IF isnan(x) THEN -1
    ELSE IF isnan(y) THEN 1
    ELSE IF ~ Finite(x) THEN x[1]
    ELSE IF ~ Finite(y) THEN y[1]
    ELSE IF Less(x, y) THEN -1 ELSE 1

\* qsort of the C library is a merge sort, so what it makes of an order that
\* contradicts itself depends on the places of the values.
RECURSIVE Merged(_, _)
Merged(a, b) ==
    IF a = <<>> THEN b
    ELSE IF b = <<>> THEN a
    ELSE IF vdef_percent_compar(a[1], b[1]) <= 0 THEN <<a[1]>> \o Merged(Tail(a), b)
    ELSE <<b[1]>> \o Merged(a, Tail(b))

RECURSIVE qsort(_)
qsort(a) ==
    LET n == Len(a) \div 2
    IN  IF n = 0 THEN a ELSE Merged(qsort(SubSeq(a, 1, n)), qsort(SubSeq(a, n + 1, Len(a))))

\* The value that lies param percent of the way up; the array of no values is
\* read, too.
Percentile(param, values) ==
    LET array == qsort(values)
        field == (2 * param * (Len(values) - 1) + 100) \div 200
    IN  IF field + 1 \in DOMAIN array THEN array[field + 1] ELSE Outside

\* The line that fits best to the values of the given rows.
LeastSquares(data, rows) ==
    LET cnt == Cardinality(rows)
        X(k) == Int2Value(k - 1)
        SUMx == Total(X, rows)
        SUMy == Total(LAMBDA k : data[k], rows)
        SUMxy == Total(LAMBDA k : Times(X(k), data[k]), rows)
        SUMxx == Total(LAMBDA k : Times(X(k), X(k)), rows)
        slope == DividedBy(Minus(Times(SUMx, SUMy), Scaled(SUMxy, cnt)),
                           Minus(Times(SUMx, SUMx), Scaled(SUMxx, cnt)))
    IN  [slope |-> slope,
         y_intercept |-> Over(Minus(SUMy, Times(slope, SUMx)), cnt)]

vdef_calc(dst, src) ==
    LET steps == (src.end - src.start) \div src.step
        known == {k \in 1 .. steps : ~ isnan(src.data[k])}
        finite == {k \in 1 .. steps : Finite(src.data[k])}
        first == Min(known)
        sum == Total(LAMBDA k : src.data[k], finite)
        values == SubSeq(src.data, 1, steps)
        op == dst.op
        None == [val |-> DNAN, when |-> 0]
        At(k) == [val |-> src.data[k], when |-> src.start + k * src.step]
        Timeless(x) == [val |-> x, when |-> 0]
        \* The first of the extreme ones.
        Extreme(Beats(_, _)) ==
            At(CHOOSE k \in finite \union {first} :
                  \A j \in (finite \union {first}) \ {k} :
                     IF j < k THEN Beats(src.data[k], src.data[j])
                     ELSE ~ Beats(src.data[j], src.data[k]))
    IN  CASE op = "AVERAGE" -> IF finite = {} THEN None ELSE Timeless(Over(sum, Cardinality(finite)))
          [] op = "PERCENT" -> Timeless(Percentile(dst.param, values))
          [] op = "PERCENTNAN" ->
                Timeless(Percentile(dst.param, SelectSeq(values, LAMBDA x : ~ isnan(x))))
          [] op \in {"LSLSLOPE", "LSLINT"} /\ finite = {} -> None
          [] op = "LSLSLOPE" -> Timeless(LeastSquares(src.data, finite).slope)
          [] op = "LSLINT" -> Timeless(LeastSquares(src.data, finite).y_intercept)
          [] op = "TOTAL" -> IF finite = {} THEN None ELSE Timeless(Scaled(sum, src.step))
          [] known = {} -> None
          [] op = "MAXIMUM" -> Extreme(LAMBDA x, y : Less(y, x))
          [] op = "MINIMUM" -> Extreme(Less)
          [] op = "FIRST" -> [At(first) EXCEPT !.when = @ - src.step]
          [] op = "LAST" -> At(Max(known))

CalcVdef ==
    /\ phase = "calc" /\ Is("VDEF")
    /\ gdes' = [gdes EXCEPT ![gdi] = vdef_calc(@, gdes[@.vidx]) @@ @]
    /\ gdi' = gdi + 1
    /\ UNCHANGED <<im, phase, rpn, table>>

-----------------------------------------------------------------------------
(* SHIFT                                                                   *)

\* C division: towards zero.
Quotient(n, d) == IF n < 0 THEN -((-n) \div d) ELSE n \div d

Offset(e) ==
    IF e.shidx = 0 THEN e.shval
    ELSE Quotient(gdes[e.shidx].val[1], gdes[e.shidx].val[2])

CalcShift ==
    /\ phase = "calc" /\ Is("SHIFT")
    /\ LET vdp == gdes[Current.vidx]
           shift == Quotient(Offset(Current), vdp.step) * vdp.step
       IN  gdes' = [gdes EXCEPT ![Current.vidx].shift = shift,
                                ![Current.vidx].start = @ - vdp.shift + shift,
                                ![Current.vidx].end = @ - vdp.shift + shift]
    /\ gdi' = gdi + 1
    /\ UNCHANGED <<im, phase, rpn, table>>

-----------------------------------------------------------------------------
(* rpn_calc, for one row of a CDEF.                                        *)

Bool(b) == Int2Value(IF b THEN 1 ELSE 0)
Floored(x) == Quotient(x[1], x[2])
Abs(x) == IF x[1] < 0 THEN Scaled(x, -1) ELSE x
Floor(x) == IF Finite(x) THEN Int2Value(x[1] \div x[2]) ELSE x
fmod(x, y) ==
    IF ~ Finite(x) \/ isnan(y) \/ y[1] = 0 THEN DNAN
    ELSE IF ~ Finite(y) THEN x
    ELSE Minus(x, Scaled(Abs(y), Floored(DividedBy(x, Abs(y)))))

Comparisons == {"LT", "LE", "GT", "GE", "EQ", "NE", "MIN", "MAX"}

\* The operators that need nothing but their operands.
Result(op, a) ==
    LET x == a[1]
        y == a[2]
    IN  CASE op = "ADD" -> Plus(x, y)
          [] op = "SUB" -> Minus(x, y)
          [] op = "MUL" -> Times(x, y)
          [] op = "DIV" -> DividedBy(x, y)
          [] op = "MOD" -> fmod(x, y)
          [] op = "FLOOR" -> Floor(x)
          [] op = "CEIL" -> Scaled(Floor(Scaled(x, -1)), -1)
          [] op \in {"ADDNAN", "MINNAN", "MAXNAN"} /\ isnan(x) -> y
          [] op \in {"ADDNAN", "MINNAN", "MAXNAN"} /\ isnan(y) -> x
          [] op \in Comparisons /\ (isnan(x) \/ isnan(y)) -> DNAN
          [] op = "ADDNAN" -> Plus(x, y)
          [] op \in {"MIN", "MINNAN"} -> IF Less(y, x) THEN y ELSE x
          [] op \in {"MAX", "MAXNAN"} -> IF Less(x, y) THEN y ELSE x
          [] op = "LT" -> Bool(Less(x, y))
          [] op = "LE" -> Bool(~ Less(y, x))
          [] op = "GT" -> Bool(Less(y, x))
          [] op = "GE" -> Bool(~ Less(x, y))
          [] op = "EQ" -> Bool(x = y)
          [] op = "NE" -> Bool(x # y)
          [] op = "IF" -> IF isnan(x) \/ x = Int2Value(0) THEN a[3] ELSE y
          [] op = "LIMIT" -> IF isnan(x) \/ isnan(y) \/ isnan(a[3]) \/ Less(x, y) \/ Less(a[3], x)
                             THEN DNAN ELSE x
          [] op = "UN" -> Bool(isnan(x))
          [] op = "ISINF" -> Bool(~ isnan(x) /\ ~ Finite(x))
          [] op = "ABS" -> Abs(x)
          [] op = "AVG" -> Consolidated("AVERAGE", a)

\* The order rpn_compare_double gives unknown values is not defined.
Sorted(a) ==
    IF \E i \in DOMAIN a : isnan(a[i]) THEN [i \in DOMAIN a |-> Outside] ELSE SortSeq(a, Less)

\* How many values an operator takes from the stack.
Operands(op, stack) ==
    CASE op \in {"NUMBER", "VARIABLE", "PREV_OTHER", "COUNT", "PREV", "UNKN", "INF", "NEGINF",
                 "TIME"} -> 0
      [] op \in {"UN", "ISINF", "ABS", "FLOOR", "CEIL", "DUP", "POP"} -> 1
      [] op \in {"IF", "LIMIT"} -> 3
      [] op = "PREDICT" ->
            IF Len(stack) < 3 THEN 3
            ELSE LET shifts == Floored(stack[Len(stack) - 2])
                 IN  3 + IF shifts < 0 THEN 1 ELSE shifts
      [] op \in {"SORT", "REV", "AVG"} -> IF stack = <<>> THEN 1 ELSE 1 + Floored(Last(stack))
      [] OTHER -> 2

\* The row of the variable that i reads, counted from 1.
RowOf(c, i, k) ==
    LET data == gdes[c.rpnp[i].ptr].data
    IN  IF k \in DOMAIN data THEN data[k] ELSE Outside

\* Mutant: each row of the CDEF takes a new row of the variable.
Passes_EveryRow(now, step) == TRUE

\* Whether the variable's row has been used up.
Passes(now, step) == now % step = 0

\* TREND: the rows up to the one that has just been passed.
Trend(c, i, passed, op, dur) ==
    LET step == gdes[c.rpnp[i].ptr].step
        count == IF dur <= 0 THEN 1 ELSE (dur + step - 1) \div step
        window == [j \in 1 .. count |-> RowOf(c, i, passed[i] - count + j)]
    IN  IF Len(c.data) + 1 < (dur + step - 1) \div step THEN DNAN
        ELSE IF op = "TREND" /\ \E j \in 1 .. count : isnan(window[j]) THEN DNAN
        ELSE Consolidated("AVERAGE", window)

\* PREDICT: the given shifts, or the multiples of one.
ShiftsOf(a) ==
    LET shifts == Floored(a[Len(a) - 2])
    IN  IF shifts < 0 THEN [k \in 1 .. -shifts |-> Floored(Scaled(a[1], k - 1))]
        ELSE [k \in 1 .. shifts |-> Floored(a[k])]

\* The rows around each shift, counted back from the pointer that i has passed
\* on already.
Predict(c, i, passed, shifts, locstepsize) ==
    LET dsstep == gdes[c.rpnp[i].ptr].step
        Steps(seconds) == (seconds + dsstep - 1) \div dsstep
        Around(shift) == [j \in 1 .. Steps(locstepsize) + 1 |-> Steps(shift) + j - 1]
        offsets == SelectSeq(FlattenSeq([k \in DOMAIN shifts |-> Around(shifts[k])]),
                             LAMBDA offset : offset < Len(c.data))
        window == [k \in DOMAIN offsets |-> RowOf(c, i, passed[i] + 1 - offsets[k])]
    IN  IF Contains(window, Outside) THEN Outside ELSE Consolidated("AVERAGE", window)

\* The values that operator i leaves in the place of its operands.
Results(c, i, now, passed, a) ==
    LET o == c.rpnp[i]
        row == Len(c.data) + 1
    IN  CASE o.op = "NUMBER" -> <<o.val>>
          [] o.op = "UNKN" -> <<DNAN>>
          [] o.op = "INF" -> <<DINF>>
          [] o.op = "NEGINF" -> <<NegDINF>>
          [] o.op = "COUNT" -> <<Int2Value(row)>>
          [] o.op = "TIME" -> <<Int2Value(now)>>
          [] o.op = "VARIABLE" -> <<RowOf(c, i, passed[i] + 1)>>
          [] o.op = "PREV_OTHER" -> <<IF row = 1 THEN DNAN ELSE RowOf(c, i, passed[i])>>
          [] o.op = "PREV" -> <<IF row = 1 THEN DNAN ELSE Last(c.data)>>
          [] o.op = "DUP" -> <<a[1], a[1]>>
          [] o.op = "POP" -> <<>>
          [] o.op = "EXC" -> <<a[2], a[1]>>
          [] o.op = "SORT" -> Sorted(Front(a))
          [] o.op = "REV" -> Reverse(Front(a))
          [] o.op \in {"TREND", "TRENDNAN"} -> <<Trend(c, i - 2, passed, o.op, Floored(a[2]))>>
          [] o.op = "PREDICT" ->
                <<Predict(c, i - 1, passed, ShiftsOf(a), Floored(a[Len(a) - 1]))>>
          [] o.op = "AVG" -> <<Result("AVG", Front(a))>>
          [] OTHER -> <<Result(o.op, a)>>

\* One operator: an error when the stack holds too little for it.
Operate(c, now, s, i) ==
    LET o == c.rpnp[i]
        n == Operands(o.op, s.stack)
        rest == Len(s.stack) - n
    IN  IF \/ ~ s.ok \/ rest < 0
           \/ o.op \in {"TREND", "TRENDNAN"} /\ c.rpnp[i - 2].op # "VARIABLE"
           \/ /\ o.op = "PREDICT"
              /\ \E shift \in ToSet(ShiftsOf(SubSeq(s.stack, rest + 1, Len(s.stack)))) : shift < 0
        THEN [s EXCEPT !.ok = FALSE]
        ELSE [ok |-> TRUE,
              stack |-> SubSeq(s.stack, 1, rest)
                          \o Results(c, i, now, s.passed, SubSeq(s.stack, rest + 1, Len(s.stack))),
              passed |-> [s.passed EXCEPT ![i] =
                  IF o.op \in {"VARIABLE", "PREV_OTHER"} /\ Passes(now, gdes[o.ptr].step)
                  THEN @ + 1 ELSE @]]

rpn_calc(c, now) ==
    FoldLeftDomain(LAMBDA s, i : Operate(c, now, s, i),
                   [ok |-> TRUE, stack |-> <<>>, passed |-> rpn], c.rpnp)

-----------------------------------------------------------------------------
(* data_calc of a CDEF.                                                    *)

\* The values of VDEFs become numbers.
Substituted(rpnp) ==
    [i \in DOMAIN rpnp |->
        IF rpnp[i].op \in {"VARIABLE", "PREV_OTHER"} /\ gdes[rpnp[i].ptr].gf = "VDEF"
        THEN [rpnp[i] EXCEPT !.op = "NUMBER", !.val = gdes[rpnp[i].ptr].val]
        ELSE rpnp[i]]

Variables(rpnp) == {i \in DOMAIN rpnp : rpnp[i].op \in {"VARIABLE", "PREV_OTHER"}}

lcd(steps) == FoldSet(LAMBDA a, b : Gcd[b][a], 0, steps)

\* The rows of a variable that lie before the first one of the CDEF.
PassedBefore(start, d) == IF start > d.start THEN (start - d.start) \div d.step ELSE 0

CdefStart ==
    /\ phase = "calc" /\ Is("CDEF") /\ rpn = <<>>
    /\ LET rpnp == Substituted(Current.rpnp)
           used == {gdes[rpnp[i].ptr] : i \in Variables(rpnp)}
           start == Max({0} \union {d.start : d \in used})
           end == Min({d.end : d \in used})
       IN  IF used = {} \/ end < start
           THEN phase' = "failed" /\ UNCHANGED <<gdes, rpn>>
           ELSE /\ gdes' = [gdes EXCEPT ![gdi].start = start, ![gdi].end = end,
                                        ![gdi].step = lcd({d.step : d \in used}),
                                        ![gdi].rpnp = rpnp]
                /\ rpn' = [i \in DOMAIN rpnp |->
                      IF i \in Variables(rpnp) THEN PassedBefore(start, gdes[rpnp[i].ptr]) ELSE 0]
                /\ UNCHANGED phase
    /\ UNCHANGED <<im, gdi, table>>

\* The end of the interval that is calculated next.
Now(c) == c.start + (Len(c.data) + 1) * c.step

CdefRow ==
    /\ phase = "calc" /\ rpn # <<>> /\ Now(Current) <= Current.end
    /\ LET s == rpn_calc(Current, Now(Current))
       IN  IF s.ok /\ Len(s.stack) = 1
           THEN /\ gdes' = [gdes EXCEPT ![gdi].data = Append(@, s.stack[1])]
                /\ rpn' = s.passed
                /\ UNCHANGED phase
           ELSE phase' = "failed" /\ UNCHANGED <<gdes, rpn>>
    /\ UNCHANGED <<im, gdi, table>>

CdefEnd ==
    /\ phase = "calc" /\ rpn # <<>> /\ Now(Current) > Current.end
    /\ rpn' = <<>> /\ gdi' = gdi + 1
    /\ UNCHANGED <<im, gdes, phase, table>>

CalcOther ==
    /\ phase = "calc"
    /\ Skip({"VDEF", "SHIFT", "CDEF"}) \/ Turn("draw")
    /\ UNCHANGED <<im, gdes, rpn, table>>

-----------------------------------------------------------------------------
(* rrd_xport_fn and data_proc.                                             *)

Elements(gf) == {i \in DOMAIN gdes : gdes[i].gf = gf}

\* Mutant: the row of the variable is counted in steps of the table.
RowAt_TableStep(d, now, step) == (now - d.start) \div step + 1

\* The row of the interval that begins at now, or holds it.
RowAt(d, now, step) == (now - d.start) \div d.step + 1

Xport ==
    /\ phase = "draw" /\ Elements("XPORT") # {}
    /\ LET columns == SetToSortSeq(Elements("XPORT"), <)
           source(i) == gdes[gdes[columns[i]].vidx]
           step == lcd({source(i).step : i \in DOMAIN columns})
           start == im.start - (im.start % step)
           end == im.end - (im.end % step) + step
           Cell(d, now) == LET k == RowAt(d, now, step)
                           IN  IF k \in DOMAIN d.data THEN d.data[k] ELSE Outside
       IN  table' = [start |-> start, end |-> end, step |-> step,
                     rows |-> [r \in 1 .. (end - start) \div step |->
                         [i \in DOMAIN columns |-> Cell(source(i), start + (r - 1) * step)]]]
    /\ phase' = "done"
    /\ UNCHANGED <<im, gdes, gdi, rpn>>

\* The time of a pixel.
GrTime(x) == im.start + ((im.end - im.start) * x) \div im.xsize

\* What a LINE draws at a time.
LineValue(e, gr_time) ==
    LET d == gdes[e.vidx]
    IN  IF d.gf = "VDEF" THEN d.val
        ELSE IF gr_time >= d.start /\ gr_time < d.end THEN d.data[RowAt(d, gr_time, d.step)]
        ELSE DNAN

\* The height of the stack: an unknown value adds nothing to it.
Stacked(paintval, value) == IF isnan(value) THEN paintval ELSE Plus(paintval, value)

\* The LINEs of one pixel, from the first to the last.
Pixel(gr_time) ==
    FoldLeft(LAMBDA s, i :
                 LET value == LineValue(gdes[i], gr_time)
                     paintval == Stacked(IF gdes[i].stack THEN s.paintval ELSE Int2Value(0), value)
                 IN  [paintval |-> paintval,
                      p_data |-> Append(s.p_data, IF isnan(value) THEN DNAN ELSE paintval)],
             [paintval |-> Int2Value(0), p_data |-> <<>>],
             SetToSortSeq(Elements("LINE"), <)).p_data

data_proc ==
    /\ phase = "draw" /\ Elements("XPORT") = {}
    /\ table' = [x \in 0 .. im.xsize - 1 |-> Pixel(GrTime(x))]
    /\ phase' = "done"
    /\ UNCHANGED <<im, gdes, gdi, rpn>>

Next ==
    \/ FetchDef \/ FetchOther
    \/ CalcVdef \/ CalcShift \/ CdefStart \/ CdefRow \/ CdefEnd \/ CalcOther
    \/ Xport \/ data_proc

Spec == Init /\ [][Next]_vars

-----------------------------------------------------------------------------
(* What the pipeline promises.                                             *)

Data == {i \in DOMAIN gdes : gdes[i].gf \in {"DEF", "CDEF"}}

\* The elements whose data has been fetched or calculated.
Ready ==
    {i \in Data :
        \/ phase = "fetch" /\ i < gdi
        \/ phase = "calc" /\ (gdes[i].gf = "DEF" \/ i < gdi)
        \/ phase \in {"draw", "done"}}

(* Types.  The rows of an element that has been fetched or calculated      *)
(* suffice for its start, end and step.                                    *)
TypeOK ==
    /\ phase \in {"fetch", "calc", "draw", "done", "failed", "died"}
    /\ gdi \in 1 .. Len(gdes) + 1
    /\ \A i \in Ready :
          LET d == gdes[i] IN
          /\ d.start <= d.end /\ d.step > 0 /\ (d.end - d.start) % d.step = 0
          /\ Len(d.data) >= (d.end - d.start) \div d.step

\* The file's intervals that end in (from, to], with known values.
KnownEnds(f, from, to) ==
    {t \in from + 1 .. to : t % Archive[f].step = 0 /\ ~ isnan(Archive[f].value[t])}

\* The consolidation function, by its definition.
ByDefinition(cf, f, from, to) ==
    LET ends == KnownEnds(f, from, to)
        v(t) == Archive[f].value[t]
    IN  IF ends = {} THEN DNAN
        ELSE CASE cf = "AVERAGE" -> Over(Total(v, ends), Cardinality(ends))
               [] cf = "LAST" -> v(Max(ends))
               [] cf = "MIN" -> v(CHOOSE t \in ends : \A u \in ends : ~ Less(v(u), v(t)))
               [] cf = "MAX" -> v(CHOOSE t \in ends : \A u \in ends : ~ Less(v(t), v(u)))

(* A DEF spans the time that was asked for, in rows that begin at          *)
(* multiples of a step that is as large as asked for; each row is the      *)
(* consolidation of exactly the intervals of the file that lie in it, and  *)
(* unknown if it reaches out of what was read; a SHIFT moves it by whole   *)
(* rows.  reduce_data ends the program only where start and end lie        *)
(* within one row of the reduced step, where the number of rows that are   *)
(* left is negative.                                                       *)
DefRowsConsolidate ==
    /\ \A i \in Elements("DEF") \intersect Ready :
          LET d == gdes[i]
              f == Fetched([d EXCEPT !.start = d.start_orig, !.end = d.end_orig])
              start == d.start - d.shift
              Row(k) == start + k * d.step
          IN  /\ start % d.step = 0 /\ d.shift % d.step = 0 /\ d.step % f.step = 0
              /\ start <= d.start_orig /\ d.end_orig < d.end - d.shift
              /\ d.step >= im.step /\ d.step >= d.step_orig
              /\ \A k \in 1 .. (d.end - d.start) \div d.step :
                    d.data[k] = IF f.start <= Row(k - 1) /\ Row(k) <= f.end
                                THEN ByDefinition(d.cf_reduce, d.rrd, Row(k - 1), Row(k))
                                ELSE DNAN
    /\ phase = "died" =>
          LET f == Fetched(Current)
              wanted == Max({im.step, Current.step})
              step == Min({s \in wanted .. wanted + f.step : s % f.step = 0})
          IN  f.start \div step = f.end \div step /\ f.start % step > 0

\* The value an element has at a time: of the interval that ends then, or holds it.
ValueAt(d, t) ==
    LET k == (t - d.start + d.step - 1) \div d.step
    IN  IF k \in DOMAIN d.data THEN d.data[k] ELSE Outside

\* The average of what a PREDICT knows of the windows that end a shift before
\* `last', no more than `back' seconds before it.  These are the windows of the
\* code; those that rrdgraph_rpn.pod describes are in PredictLooksBack.
Predicted(t, c, back, last) ==
    LET n == Len(t.args)
        d == gdes[t.args[n].ptr]
        Seconds(i) == t.args[i].val[1]
        shifts == IF Seconds(n - 2) < 0 THEN [i \in 1 .. -Seconds(n - 2) |-> (i - 1) * Seconds(1)]
                  ELSE [i \in 1 .. Seconds(n - 2) |-> Seconds(i)]
        Up(seconds) == CHOOSE m \in seconds .. seconds + c.step - 1 : m % c.step = 0
        ages == {<<i, Up(shifts[i]) + j * c.step>> :
                    i \in DOMAIN shifts, j \in 0 .. Up(Seconds(n - 1)) \div c.step}
        v(age) == ValueAt(d, last - age[2])
        known == {age \in ages : age[2] <= back /\ ~ isnan(v(age))}
    IN  IF known = {} THEN DNAN
        ELSE IF \E age \in known : v(age) = Outside THEN Outside
        ELSE Over(Total(v, known), Cardinality(known))

\* What an expression means for the row k of the CDEF c.
RECURSIVE Meant(_, _, _)
Meant(t, c, k) ==
    LET time == c.start + k * c.step
        Arg(i) == Meant(t.args[i], c, k)
        args == [i \in DOMAIN t.args |-> Arg(i)]
        Window(dur) == {time - j * c.step : j \in 0 .. (dur + c.step - 1) \div c.step - 1}
    IN  CASE t.op = "NUMBER" -> t.val
          [] t.op = "UNKN" -> DNAN
          [] t.op = "INF" -> DINF
          [] t.op = "NEGINF" -> NegDINF
          [] t.op = "COUNT" -> Int2Value(k)
          [] t.op = "TIME" -> Int2Value(time)
          [] t.op = "VARIABLE" -> IF gdes[t.ptr].gf = "VDEF" THEN gdes[t.ptr].val
                                  ELSE ValueAt(gdes[t.ptr], time)
          [] t.op = "PREV_OTHER" -> IF k = 1 THEN DNAN ELSE ValueAt(gdes[t.ptr], time - c.step)
          [] t.op = "PREV" -> IF k = 1 THEN DNAN ELSE c.data[k - 1]
          [] t.op \in {"TREND", "TRENDNAN"} ->
                LET times == Window(t.args[2].val[1])
                    v(u) == ValueAt(gdes[t.args[1].ptr], u)
                    known == {u \in times : ~ isnan(v(u))}
                IN  IF \/ k < Cardinality(times) \/ known = {}
                       \/ t.op = "TREND" /\ known # times
                    THEN DNAN ELSE Over(Total(v, known), Cardinality(known))
          [] t.op = "PREDICT" -> Predicted(t, c, time - (c.start + 2 * c.step), time + c.step)
          [] t.op = "AVG" -> Result("AVG", Front(args))
          [] t.op = "MEDIAN" -> SortSeq(args, Less)[2]
          [] t.op = "KNOWN" -> IF isnan(Arg(1)) THEN Int2Value(0) ELSE Arg(1)
          [] t.op = "SUBFROM" -> Result("SUB", <<Arg(2), Arg(1)>>)
          [] OTHER -> Result(t.op, args)

\* What the function of a VDEF means, for those that look at all the values.
VdefIsMeant(e) ==
    LET d == gdes[e.vidx]
        rows == 1 .. (d.end - d.start) \div d.step
        known == {k \in rows : ~ isnan(d.data[k])}
        finite == {k \in known : Finite(d.data[k])}
        pairs == {p \in finite \X finite : p[1] < p[2]}
        slope == DividedBy(Total(LAMBDA p : Scaled(Minus(d.data[p[2]], d.data[p[1]]), p[2] - p[1]),
                                 pairs),
                           Total(LAMBDA p : Int2Value((p[2] - p[1]) * (p[2] - p[1])), pairs))
        \* Unknown values are the lowest.
        Lower(x, y) == ~ isnan(y) /\ (isnan(x) \/ Less(x, y))
        \* With n values below it, rounded, or with values that are equal.
        Percent(S) ==
            \E n \in 0 .. Cardinality(S) - 1 :
               /\ 200 * n - 2 * e.param * (Cardinality(S) - 1) \in -100 .. 100
               /\ Cardinality({k \in S : Lower(d.data[k], e.val)}) <= n
               /\ Cardinality({k \in S : ~ Lower(e.val, d.data[k])}) > n
    IN  CASE e.op \in {"PERCENT", "PERCENTNAN"} /\ finite # known -> TRUE
          [] e.op = "PERCENT" -> Percent(rows)
          [] e.op = "PERCENTNAN" -> known = {} \/ Percent(known)
          [] known = {} -> isnan(e.val)
          [] e.op = "MAXIMUM" -> \A k \in finite : ~ Less(e.val, d.data[k])
          [] e.op = "MINIMUM" -> \A k \in finite : ~ Less(d.data[k], e.val)
          [] e.op = "LSLSLOPE" -> IF finite = {} THEN isnan(e.val) ELSE e.val = slope
          [] e.op = "LSLINT" ->
                Scaled(e.val, Cardinality(finite)) =
                   Minus(Total(LAMBDA k : d.data[k], finite),
                         Times(slope, Total(LAMBDA k : Int2Value(k - 1), finite)))
          [] OTHER -> TRUE

(* rrdgraph_rpn.pod, PREDICT: "Value at sample (t0) will be the average    *)
(* between (t0-shift1-window) and (t0-shift1)", of the intervals that end  *)
(* then, for steps that divide both and for one shift.                     *)
PredictLooksBack ==
    rpn # <<>> /\ phase = "calc" /\ Current.tree.op = "PREDICT" =>
       \A k \in DOMAIN Current.data :
          LET t == Current.tree
              time == Current.start + k * Current.step
              shift == t.args[1].val[1]
              window == t.args[3].val[1]
          IN  t.args[2].val[1] = 1 /\ shift % Current.step = 0 /\ window % Current.step = 0 /\
              time - shift - window >= Current.start + 2 * Current.step =>
              Current.data[k] =
                 LET ends == {u \in time - shift - window + 1 .. time - shift :
                                 /\ (u - Current.start) % Current.step = 0
                                 /\ ~ isnan(ValueAt(gdes[t.args[4].ptr], u))}
                     v(u) == ValueAt(gdes[t.args[4].ptr], u)
                 IN  IF ends = {} THEN DNAN ELSE Over(Total(v, ends), Cardinality(ends))

(* Every row of a CDEF is what its expression means at the time of the     *)
(* row: each variable has the value of its own interval that ends then or  *)
(* holds it, whatever the steps of the variables and wherever their data   *)
(* begins and has been shifted to; PREV, PREV(vname), COUNT and TREND look *)
(* back from the row.  (PREV(vname) and TREND for variables that have the  *)
(* step of the CDEF.)  A command that is well formed is not refused in the *)
(* middle of its rows.  A VDEF has the value its function means: that many *)
(* percent of the values lie below it, no finite one is larger or smaller, *)
(* or the line fits best to the finite ones.  Two things follow the code   *)
(* where it differs from what is said of it: PREDICT takes the windows of  *)
(* Predicted, which PredictLooksBack compares with rrdgraph_rpn.pod, and   *)
(* of percentiles over infinite values, see PercentOrdersInfinities,       *)
(* nothing is said here.                                                   *)
CdefRowsAreMeant ==
    /\ rpn # <<>> /\ phase = "calc" =>
          \A k \in DOMAIN Current.data : Current.data[k] = Meant(Current.tree, Current, k)
    /\ rpn # <<>> /\ phase = "failed" => Current.malformed
    /\ \A i \in Elements("VDEF") :
          phase \in {"draw", "done"} \/ (phase = "calc" /\ i < gdi) => VdefIsMeant(gdes[i])

(* The comment above vdef_percent_compar, "NaN < -INF < finite_values <    *)
(* INF": PERCENTNAN 0 lies above none of the known values, PERCENTNAN 100  *)
(* below none.                                                             *)
PercentOrdersInfinities ==
    phase = "done" =>
       \A i \in Elements("VDEF") :
          LET e == gdes[i]
              d == gdes[e.vidx]
              values == {d.data[k] : k \in 1 .. (d.end - d.start) \div d.step} \ {DNAN}
          IN  e.op = "PERCENTNAN" /\ values # {} =>
                 /\ e.param = 0 => \A x \in values : ~ Less(x, e.val)
                 /\ e.param = 100 => \A x \in values : ~ Less(e.val, x)

\* Whether an interval of d holds the whole interval (from, to].
Covers(d, from, to) == d.start <= from /\ to <= d.end

\* The lines that a stacked line lies on, and itself.
StackOf(i) ==
    {j \in Elements("LINE") : j <= i /\ \A k \in Elements("LINE") : j < k /\ k <= i => gdes[k].stack}

(* The table of an export spans the time that was asked for and has in     *)
(* each cell the value of its variable for the time of the row, as long as *)
(* the variable has data there, and it has unless a start, an end or a     *)
(* SHIFT moved it away.  A pixel of a LINE is the sum of the values that   *)
(* are known at its time, of the line and of those it is stacked upon, and *)
(* unknown if the line's own value is.                                     *)
OutputCoversItsTime ==
    /\ phase = "done" /\ Elements("XPORT") # {} =>
          LET columns == SetToSortSeq(Elements("XPORT"), <)
              Ends(r) == table.start + r * table.step
          IN  /\ table.start <= im.start /\ im.end < table.end
              /\ Len(table.rows) * table.step = table.end - table.start
              /\ \A i \in DOMAIN columns, r \in DOMAIN table.rows :
                    LET d == gdes[gdes[columns[i]].vidx] IN
                    /\ Covers(d, Ends(r - 1), Ends(r))
                          => table.rows[r][i] = ValueAt(d, Ends(r))
                    /\ Covers(d, Ends(r - 1), Ends(r))
                          \/ Elements("SHIFT") # {}
                          \/ \E j \in Elements("DEF") :
                                 gdes[j].start_orig # im.start \/ gdes[j].end_orig # im.end
    /\ phase = "done" /\ Elements("XPORT") = {} =>
          LET lines == SetToSortSeq(Elements("LINE"), <)
              Drawn(i, t) ==
                  LET d == gdes[gdes[i].vidx]
                  IN  IF d.gf = "VDEF" THEN d.val
                      ELSE IF d.start <= t /\ t < d.end THEN ValueAt(d, t + 1) ELSE DNAN
              Known(i, t) == {j \in StackOf(i) : ~ isnan(Drawn(j, t))}
          IN  \A x \in DOMAIN table, n \in DOMAIN lines :
                 table[x][n] =
                    IF isnan(Drawn(lines[n], GrTime(x))) THEN DNAN
                    ELSE Total(LAMBDA j : Drawn(j, GrTime(x)), Known(lines[n], GrTime(x)))
=============================================================================
