------------------------------ MODULE MCReports ------------------------------
(***************************************************************************)
(* Small instances of Reports.                                             *)
(***************************************************************************)
EXTENDS Reports

File(n, h, p) == [name |-> n, of |-> {<<h, p>>}]

TwoHosts  == <<"a", "b">>
TwoProps  == <<"load", "mem">>
Three(h)  == <<File(h \o "_base", h, "load"), File(h \o "_exam", h, "load"), File(h \o "_fall", h, "load")>>
Damaged   == {{}, {"b_rest"}}
(* The name of host "a" is in those of the profiles of the other host: one *)
(* of them is of a property both hosts have profiles for.                  *)
Seven     == Three("a") \o Three("b") \o <<[name |-> "b_rest", of |-> {<<"a", "mem">>, <<"b", "mem">>}]>>
Undrawn   == {<<"load", "b">>, <<"b_rest">>}
OldHosts  == [h \in {"a", "b"} |-> IF h = "a" THEN <<>>
                                  ELSE [k \in 1 .. 6 |-> [name |-> "old", host |-> h]]]

(* The name of the first property begins that of the second, so the        *)
(* profiles of the second are found for both.                              *)
Load == <<"a", "load">>
Avg  == <<"a", "load_avg">>
Disk == <<"a", "disk">>

ThreePairs == <<Load, Avg, Disk>>
FourFiles  == << [name |-> "base", of |-> {Load}], [name |-> "exam", of |-> {Load, Avg}],
                 [name |-> "other", of |-> {}], [name |-> "fall", of |-> {Avg}] >>
Earlier    == LET Old(q) == [k \in 1 .. 4 |-> [of |-> "old", pair |-> q, old |-> TRUE]]
              IN  [q \in {Load, Avg, Disk} |-> IF q = Avg THEN <<>> ELSE Old(q)]
FallDamaged == {{}, {"fall"}}

(* Words longer than a window and shorter ones, no profile, one and two.   *)
SomeRuns ==
    {r \in [tool: {"multi", "parallel", "window"}, samples: {10, 13}, fwin: 1 .. 3, symbol: 1 .. 2,
            lag: 1 .. 2, lead: 1 .. 3, subs: 1 .. 2, profiles: {<<>>, <<"p">>, <<"p", "q">>}] :
        /\ r.fwin * r.symbol > 1 /\ r.samples >= (r.lag + r.lead) * r.symbol
        /\ IF r.tool = "multi" THEN r.subs = 1 ELSE r.profiles = <<>>}
OldColumns  == [k \in 1 .. 4 |-> [of |-> "old", cells |-> <<>>]]
LengthNames == <<"1", "2">>
==============================================================================
