---------------------------- MODULE MCPageCache ----------------------------
(* Small instances of PageCache: one host with two properties, with all    *)
(* kinds of requests one at a time, and two that meet on pages and graphs. *)
EXTENDS PageCache

HostPage == <<"host", "h", "", 1>>
PropPage == <<"prop", "", "load", 1>>
Detail(n) == <<"hostprop", "h", "load", n>>

MCHits == {HostPage, PropPage, Detail(1)}
Setup(hits, n, same) == [hits |-> hits, atOnce |-> n, sameDir |-> same]
MCSetups == {Setup(MCHits, 1, TRUE), Setup(MCHits, 1, FALSE),
             Setup({HostPage, Detail(1)}, 2, TRUE)}

MCDetail == {Detail(1), Detail(2)}
MCApart  == {Setup(MCDetail, 2, FALSE)}
=============================================================================
