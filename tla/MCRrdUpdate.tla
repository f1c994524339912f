------------------------------ MODULE MCRrdUpdate ------------------------------
(* A file with one archive of each consolidation function, for the model    *)
(* checker.                                                                 *)
EXTENDS RrdUpdate

MCRraDef ==
    [one |-> [cf |-> "AVERAGE", pdp_cnt |-> 1, row_cnt |-> 3, xff |-> <<1, 2>>],
     avg |-> [cf |-> "AVERAGE", pdp_cnt |-> 3, row_cnt |-> 2, xff |-> <<1, 2>>],
     min |-> [cf |-> "MIN", pdp_cnt |-> 2, row_cnt |-> 2, xff |-> <<0, 1>>],
     max |-> [cf |-> "MAX", pdp_cnt |-> 3, row_cnt |-> 1, xff |-> <<2, 3>>],
     last |-> [cf |-> "LAST", pdp_cnt |-> 2, row_cnt |-> 2, xff |-> <<1, 2>>]]

MCMinRate == <<0, 1>>
MCMaxRate == <<5, 1>>
MCReadings == [GAUGE |-> {1, 4}, COUNTER |-> {1, 6}, DERIVE |-> {1, 6}, ABSOLUTE |-> {6}]
=============================================================================
