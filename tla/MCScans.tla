------------------------------ MODULE MCScans ------------------------------
(* The scans of the SAX tools on short series.                             *)
EXTENDS MCWindowScan, Scans

(* A series with a short word at its end, an empty one and one from the    *)
(* database, two profiles in any order and one that is empty.              *)
MCCommands == {<<"-f", "s", "-p", "p", "-p", "q">>, <<"-p", "p", "-d", "h", "load", "-p">>,
               <<"-p", "q", "-f", "t", "x">>, <<"-d", "h", "-p", "none", "-f", "s">>}
MCSeriesFile == [s |-> << <<"a", "d">>, <<"d", "d">>, <<"a", "a">>, <<"d", "a">>, <<"a">> >>, t |-> <<>>]
MCSeriesOf   == {<< <<"a", "d">>, <<"d", "a">>, <<"d", "d">>, <<"d">> >>}

(* Words of five symbols, longer than the lead window, whose last position *)
(* is past the end of the series; of one, shorter; and of three.           *)
MCShiftOf == [c \in MCCommands |-> CASE c[1] = "-f" -> 1 [] c[1] = "-p" -> -1 [] OTHER -> 0]

Profile(S) == [s \in Subs |-> IF s \in S THEN 1 ELSE 0]
MCProfileFile == [p |-> Profile({<<"a">>, <<"a", "a">>}), q |-> Profile({<<"d">>, <<"a">>, <<"a", "d">>}),
                  none |-> Profile({})]

(* Series without words, with fewer than a window, and with several        *)
(* positions of the windows.                                               *)
MCSizes == [tsb |-> {0, 1, 3} \cup 8 .. 10, basecomp |-> {0, 4, 6, 7}, scomp |-> {3, 5, 6, 7}, local |-> {7}]

(* Words of two symbols of three samples: series of two windows and those  *)
(* the end leaves, and of two for the tools, which do not look at the last *)
(* two samples.                                                            *)
MCCurves == [p \in Programs |-> IF p = "saxutil" THEN [1 .. 7 -> 0 .. 2]
                                ELSE {s \o <<0, 0>> : s \in [1 .. 6 -> 0 .. 2]}]

(* The runtime runs every goroutine that can run. *)
MCSpec ==
    /\ ScansSpec
    /\ WF_allVars(InWindows(Spawn \/ SpawnEnds)) /\ WF_allVars(InWindows(Goroutine))
    /\ WF_allVars(InWindows(Collect))
    /\ WF_allVars(InSearch(Search!Main)) /\ WF_allVars(InSearch(Search!Goroutine))
    /\ WF_allVars(InSearch(Search!Collect))
    /\ WF_allVars(InSeries(Series!Next)) /\ WF_allVars(InWords(Words!Next))

----------------------------------------------------------------------------
(* Every receive finds a sender, so every scan ends.                       *)
ScansEnd == <>(pc \in {"done", "end", "exit", "panic"})
============================================================================
