-------------------------- MODULE MCRrdcachedProtocol --------------------------
(* Two threads that share a connection, for the model checker.  One of them *)
(* sends a batch that is longer than the socket and the read buffer, with a *)
(* command that a batch may not have.  The unknown command of the other one *)
(* does not fit into the read buffer.                                       *)
EXTENDS RrdcachedProtocol, TLC

CONSTANTS t1, t2

MCCalls == (t1 :> {<<"batch", "stats", "update", "dot">>})
           @@ (t2 :> {<<"update", "quit">>, <<"stats", "quit">>, <<"unknown">>})
MCSize == [update |-> 2, stats |-> 1, unknown |-> 4, batch |-> 1, dot |-> 1, quit |-> 1]
=============================================================================
