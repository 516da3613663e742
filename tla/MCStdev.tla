------------------------------ MODULE MCStdev ------------------------------
(* Small instances of Stdev: the requests of MCPageCache and small tables. *)
EXTENDS MCPageCache, Stdev, SequencesExt

Row(h, p, v, t) == [host |-> h, prop |-> p, data |-> v, ctime |-> t]

(* One host and one property: all series of up to five values.             *)
MCSeries ==
    { [i \in DOMAIN s |-> Row("a", "load", s[i], i)] : s \in UNION { [1 .. n -> {0, 1, 5, 9}] : n \in 1 .. 5 } }

(* Two hosts and two properties: three samples of each of three pairs, in  *)
(* turn, and a text or a number on top.                                    *)
MCPairs == {<<"a", "load">>, <<"b", "load">>, <<"a", "temp">>}
MCShapes == {<<1, 1, 4>>, <<1, 2, 4>>, <<6, 1, 2>>, <<1, 1, 1>>}
MCMixed ==
    { [i \in 1 .. 9 |-> LET k == ((i - 1) % 3) + 1
                        IN  Row(q[k][1], q[k][2], shape[q[k]][((i - 1) \div 3) + 1], i)] :
        q \in SetToSeqs(MCPairs), shape \in [MCPairs -> MCShapes] }

MCTables == MCSeries \cup MCMixed
=============================================================================
