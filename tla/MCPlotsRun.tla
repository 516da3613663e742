----------------------------- MODULE MCPlotsRun -----------------------------
(* Small instances of PlotsRun: one host on its own and a group of two,    *)
(* one of which is that host.                                              *)
EXTENDS PlotsRun

MCSingles == << <<"a", "load">> >>
MCGrouped == << <<"g", "load">> >>
MCMembers == [g |-> {"a", "b"}]

(* Samples: none, a text, one number, two that are far apart.              *)
MCSeries == { <<>>, <<99>>, <<1>>, <<1, 99, 6>> }
=============================================================================
