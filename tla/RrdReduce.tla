------------------------------ MODULE RrdReduce ------------------------------
(***************************************************************************)
(* reduce_data of rrd_graph.c: several rows of what rrd_fetch_fn read      *)
(* become one, with a step that is as large as a graph or an export asks   *)
(* for.  The rows that lie partly outside of what was read are unknown.    *)
(*                                                                         *)
(* f is what was read: start, end, step, and data with a row for each      *)
(* interval.                                                               *)
(***************************************************************************)
EXTENDS RrdValues, Sequences

\* Unsigned long arithmetic.  2^16 leaves the same rest as 2^64 modulo 1 to 7.
WORD == 65536
Unsigned(n) == n % WORD
Signed(n) == IF n >= WORD \div 2 THEN n - WORD ELSE n

CfReduce == {"AVERAGE", "MIN", "MAX", "LAST"}

Consolidated(cf, values) ==
    LET known == SelectSeq(values, LAMBDA x : ~ isnan(x))
        Fold(Op(_, _)) ==
            MapThenFoldSet(Op, known[1], LAMBDA i : known[i],
                           LAMBDA rest : CHOOSE i \in rest : TRUE, 2 .. Len(known))
    IN  IF known = <<>> THEN DNAN
        ELSE CASE cf = "AVERAGE" -> Over(Fold(Plus), Len(known))
               [] cf = "MIN" -> Fold(LAMBDA x, y : IF Less(y, x) THEN y ELSE x)
               [] cf = "MAX" -> Fold(LAMBDA x, y : IF Less(x, y) THEN y ELSE x)
               [] cf = "LAST" -> known[Len(known)]

\* Mutant: the rows before the first boundary are not those that are missing from it.
SkipRows_Passed(start_offset, cur_step, reduce_factor) ==
    IF start_offset > 0 THEN start_offset \div cur_step ELSE 0

\* The rows before the first boundary of the new step.
SkipRows(start_offset, cur_step, reduce_factor) ==
    IF start_offset > 0 THEN reduce_factor - start_offset \div cur_step ELSE 0

\* Mutant: a row that lies partly outside is left out.
Edge_None(offset) == <<>>

\* The first or the last row, when it lies partly outside of what was read.
Edge(offset) == IF offset > 0 THEN <<DNAN>> ELSE <<>>

reduce_data(cf, f, wanted) ==
    LET factor == (wanted + f.step - 1) \div f.step
        step == f.step * factor
        start_offset == f.start % step
        end_offset == f.end % step
        skiprows == SkipRows(start_offset, f.step, factor)
        row_cnt == Unsigned(Len(f.data) - skiprows - end_offset \div f.step)
        whole == IF Signed(row_cnt) >= factor THEN row_cnt \div factor ELSE 0
    IN  [sane |-> row_cnt % factor = 0,
         step |-> step,
         start |-> f.start - start_offset,
         end |-> IF end_offset > 0 THEN f.end - end_offset + step ELSE f.end,
         data |-> Edge(start_offset)
                    \o [k \in 1 .. whole |->
                          Consolidated(cf, SubSeq(f.data, skiprows + (k - 1) * factor + 1,
                                                  skiprows + k * factor))]
                    \o Edge(end_offset)]
==============================================================================
