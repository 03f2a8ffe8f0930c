---------------------------- MODULE MCGraphRows ----------------------------
(***************************************************************************)
(* The graph and its rows alone, with one edge, and with every change of   *)
(* the graph waiting for a save to end.                                    *)
(***************************************************************************)
EXTENDS GraphRows

CONSTANTS a, b

Edges == {<<a, b>>}
=============================================================================
