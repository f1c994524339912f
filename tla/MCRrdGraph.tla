------------------------------ MODULE MCRrdGraph ------------------------------
(* Three files with steps of one, two and three seconds, and commands with *)
(* one element of data, with several that are combined, and with malformed *)
(* expressions, for the model checker.                                     *)
EXTENDS RrdGraph

\* The values of the files rise, fall and are unknown now and then.
MCArchive ==
    LET File(step, unknown) ==
            [step |-> step,
             value |-> [t \in 0 .. 60 |->
                 IF t % unknown = 0 THEN DNAN ELSE Int2Value(((t * t) % 11) - 3)]]
    IN  [one |-> File(1, 5), two |-> File(2, 8), three |-> File(3, 12)]

Def(file, cf, start, end, step) ==
    [gf |-> "DEF", rrd |-> file, cf_reduce |-> cf, start |-> start, end |-> end, step |-> step]
Cdef(tree) == [gf |-> "CDEF", tree |-> tree, malformed |-> FALSE]
Malformed(tree) == [gf |-> "CDEF", tree |-> tree, malformed |-> TRUE]
Vdef(op, v) == [gf |-> "VDEF", op |-> op, param |-> 0, vidx |-> v]
PercentVdef(op, param, v) == [gf |-> "VDEF", op |-> op, param |-> param, vidx |-> v]
Shift(v, offset) == [gf |-> "SHIFT", vidx |-> v, shidx |-> 0, shval |-> offset]
ShiftBy(v, vdef) == [gf |-> "SHIFT", vidx |-> v, shidx |-> vdef, shval |-> 0]
Export(v) == [gf |-> "XPORT", vidx |-> v]
Line(v) == [gf |-> "LINE", vidx |-> v, stack |-> FALSE]
StackedLine(v) == [gf |-> "LINE", vidx |-> v, stack |-> TRUE]

Op(op) == [op |-> op, ptr |-> 0, val |-> DNAN]
Tree(op, args, code) == [op |-> op, args |-> args, ptr |-> 0, val |-> DNAN, code |-> code]
Fn(op, args) == Tree(op, args, <<Op(op)>>)
Leaf(o) == [args |-> <<>>, code |-> <<o>>] @@ o
NumOp(n) == [Op("NUMBER") EXCEPT !.val = Int2Value(n)]
Num(n) == Leaf(NumOp(n))
Var(v) == Leaf([Op("VARIABLE") EXCEPT !.ptr = v])
Prev(v) == Leaf([Op("PREV_OTHER") EXCEPT !.ptr = v])

\* Idioms: x,DUP,UN,EXC,0,EXC,IF and a,b,c,3,SORT,POP,EXC,POP and a,b,2,REV,-
Known(x) == Tree("KNOWN", <<x>>, <<Op("DUP"), Op("UN"), Op("EXC"), NumOp(0), Op("EXC"), Op("IF")>>)
Median(a, b, c) ==
    Tree("MEDIAN", <<a, b, c>>, <<NumOp(3), Op("SORT"), Op("POP"), Op("EXC"), Op("POP")>>)
SubFrom(a, b) == Tree("SUBFROM", <<a, b>>, <<NumOp(2), Op("REV"), Op("SUB")>>)

Command(start, end, step, elements) ==
    [start |-> start, end |-> end, step |-> step, xsize |-> 5, gdes |-> elements]

Spans == {<<13, 14>>, <<13, 19>>, <<12, 24>>, <<14, 20>>, <<17, 17>>}

\* One DEF, of each file, reduced in each way.
Single ==
    {Command(s[1], s[2], 1, <<Def(f, cf, s[1], s[2], step), out>>) :
        s \in Spans, f \in DOMAIN MCArchive, cf \in CfReduce, step \in {1, 2, 3, 4, 6},
        out \in {Line(1), Export(1)}}

Binary == {"ADD", "SUB", "MUL", "DIV", "ADDNAN", "MIN", "MAX", "MINNAN", "MAXNAN",
           "LT", "LE", "GT", "GE", "EQ", "NE"}

\* Expressions over the elements 1 and 2, of any step.
Trees ==
    {Fn(op, <<Var(1), Var(2)>>) : op \in Binary}
    \union {Fn("IF", <<Fn("UN", <<Var(1)>>), Num(0), Var(1)>>),
            Fn("IF", <<Fn("LT", <<Var(2), Var(1)>>), Fn("PREV", <<>>), Fn("COUNT", <<>>)>>),
            Fn("AVG", <<Var(1), Var(2), Fn("TIME", <<>>), Fn("UNKN", <<>>), Num(4)>>),
            Fn("LIMIT", <<Fn("ABS", <<Var(2)>>), Num(0), Num(5)>>),
            Median(Known(Var(1)), Known(Var(2)), Num(3)), SubFrom(Var(2), Var(1)),
            Fn("MIN", <<Fn("MOD", <<Var(1), Var(2)>>), Fn("INF", <<>>)>>),
            Fn("MAX", <<Fn("FLOOR", <<Fn("DIV", <<Var(2), Num(2)>>)>>), Fn("NEGINF", <<>>)>>),
            Fn("CEIL", <<Fn("DIV", <<Var(1), Num(-2)>>)>>),
            Fn("ISINF", <<Fn("DIV", <<Var(1), Var(2)>>)>>)}

\* Expressions that look back at the element 1, which has their step.
BackTrees ==
    {Fn("SUB", <<Var(1), Prev(1)>>), Fn("ADDNAN", <<Var(1), Fn("PREV", <<>>)>>),
     Fn("TREND", <<Var(1), Num(5)>>), Fn("TRENDNAN", <<Var(1), Num(6)>>),
     Fn("PREDICT", <<Num(4), Num(1), Num(4), Var(1)>>)}

\* Several shifts, and the multiples of one, for an export.
PredictTrees ==
    {Fn("PREDICT", <<Num(5), Num(2), Num(2), Num(3), Var(1)>>),
     Fn("PREDICT", <<Num(2), Num(-3), Num(2), Var(1)>>)}

\* Two DEFs, the second of which may start elsewhere, and a CDEF.
Combined ==
    {Command(13, 22, step,
             <<Def(f, "MAX", 13, 22, 1), Def(g, "AVERAGE", start, 22, 1), Cdef(tree), Export(3),
               Export(1)>>) :
        f \in DOMAIN MCArchive, g \in DOMAIN MCArchive, step \in {1, 4}, start \in {7, 13, 16},
        tree \in Trees}
    \union
    {Command(13, 22, step, <<Def(f, "LAST", 13, 22, 1), Cdef(tree), Line(2), StackedLine(1)>>) :
        f \in DOMAIN MCArchive, step \in {1, 4}, tree \in BackTrees}
    \union
    {Command(13, 24, 1, <<Def(f, "LAST", 13, 24, 1), Cdef(tree), Export(2)>>) :
        f \in DOMAIN MCArchive, tree \in PredictTrees}

\* VDEFs, SHIFTs between CDEFs, and a CDEF of CDEFs.
Shifted ==
    {Command(13, 22, 1,
             <<Def(f, "MIN", 13, 22, step), Def(g, "AVERAGE", 13, 22, 1), Vdef(op, 2),
               Cdef(Fn("ADD", <<Var(1), Var(3)>>)), Shift(1, offset), ShiftBy(2, 3),
               Cdef(Fn("ADDNAN", <<Var(2), Var(4)>>)), Shift(1, -offset),
               Line(7), StackedLine(1), StackedLine(4), Line(3)>>) :
        f \in DOMAIN MCArchive, g \in DOMAIN MCArchive, step \in {1, 4}, offset \in {-4, 2, 5},
        op \in {"AVERAGE", "TOTAL", "MAXIMUM", "MINIMUM", "FIRST", "LAST"}}
    \union
    {Command(13, 22, 1, <<Def(f, "MIN", 13, 22, 1), Shift(1, offset), Export(1)>>) :
        f \in DOMAIN MCArchive, offset \in {-4, 5}}

\* VDEFs over all the values of an element, also of one that has none.
Statistics ==
    {Command(s[1], s[2], 1, <<Def(f, "LAST", s[1], s[2], step), vdef, Export(1)>>) :
        s \in {<<12, 24>>, <<13, 22>>, <<14, 14>>}, f \in DOMAIN MCArchive, step \in {1, 4},
        vdef \in {PercentVdef(op, param, 1) : op \in {"PERCENT", "PERCENTNAN"},
                                              param \in {0, 20, 50, 95, 100}}
                 \union {Vdef(op, 1) : op \in {"LSLSLOPE", "LSLINT", "MAXIMUM", "MINIMUM"}}}
    \union
    {Command(13, 22, 1,
             <<Def(f, "MAX", 13, 22, 1), Vdef("LSLSLOPE", 1), Vdef("LSLINT", 1),
               PercentVdef("PERCENTNAN", 95, 1),
               Cdef(Fn("SUB", <<Var(1), Fn("ADD", <<Var(3), Fn("MUL", <<Fn("COUNT", <<>>), Var(2)>>)>>)>>)),
               Cdef(Fn("MIN", <<Var(1), Var(4)>>)), Line(5), StackedLine(6)>>) :
        f \in DOMAIN MCArchive}

\* Infinite values: every third of the element, of both signs, and their sums,
\* differences and quotients; and VDEFs over them.
Infinite ==
    LET At(x) == Fn("IF", <<Fn("MOD", <<Fn("COUNT", <<>>), Num(3)>>), Var(1), Fn(x, <<>>)>>)
        Both == Fn("IF", <<Fn("MOD", <<Fn("COUNT", <<>>), Num(2)>>), At("INF"),
                           Fn("DIV", <<At("INF"), Num(-2)>>)>>)
        Trees1 == {At("INF"), At("NEGINF"), Both}
    IN  {Command(13, 22, 1, <<Def(f, "MAX", 13, 22, 1), Cdef(tree), vdef,
                              Cdef(Fn(op, <<Var(2), Var(2)>>)), Export(2), Export(4)>>) :
            f \in {"one", "three"}, tree \in Trees1, op \in {"ADD", "SUB", "DIV", "ADDNAN", "LT"},
            vdef \in {PercentVdef(op, param, 2) : op \in {"PERCENT", "PERCENTNAN"}, param \in {0, 50, 100}}
                     \union {Vdef(op, 2) : op \in {"MAXIMUM", "MINIMUM", "AVERAGE", "LSLSLOPE", "LSLINT"}}}

\* Too few and too many operands, no variable, and no time in common.
Broken ==
    {Command(13, 22, 1, <<Def("two", "MAX", 13, 22, 1), Def("one", "MAX", 30, 35, 1), cdef, Line(3)>>) :
        cdef \in {Malformed(Fn("ADD", <<Var(1)>>)), Malformed(Fn("PREDICT", <<Num(-2), Num(1), Num(2), Var(1)>>)), Malformed(Fn("EXC", <<Var(1), Num(1)>>)),
                  Malformed(Num(1)), Cdef(Fn("ADD", <<Var(1), Var(2)>>))}}

MCCommands == Single \union Combined \union Shifted \union Statistics \union Infinite \union Broken
=============================================================================
