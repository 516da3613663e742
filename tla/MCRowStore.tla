---------------------------- MODULE MCRowStore ----------------------------
(* A small instance of RowStore: one host that runs two commands, of       *)
(* which one says nothing.                                                 *)
EXTENDS RowStore

TwoLabels == <<"mem", "temp">>
Says == [mem |-> {"v"}, temp |-> {""}]
===========================================================================
