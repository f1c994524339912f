--------------------------- MODULE MCMetaService ---------------------------
(* Two metrics of one entity; the rules define both, or only the first.     *)
EXTENDS MetaService
A == [name |-> "load", entity |-> "h1"]
B == [name |-> "disk", entity |-> "h1"]
MCMetrics == {A, B}
OnlyA == {A}
MCHandles == 0..2
=============================================================================
