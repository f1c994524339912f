------------------------------- MODULE MCRrdFile -------------------------------
(* A file with two averages, a maximum and a last value that is resized,    *)
(* restored and tuned between its updates, for the model checker.           *)
EXTENDS RrdFile, MCRrdUpdate

MCRraOrder == <<"one", "avg", "min", "max", "last">>
MCResizes == {[rra |-> "one", rows |-> 1], [rra |-> "one", rows |-> 2],
              [rra |-> "last", rows |-> 1]}
MCQueries == {[start |-> 0, end |-> 21, step |-> 1], [start |-> 9, end |-> 12, step |-> 9],
              [start |-> 14, end |-> 14, step |-> 1], [start |-> 4, end |-> 5, step |-> 1]}
=============================================================================
