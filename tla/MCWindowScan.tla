--------------------------- MODULE MCWindowScan ---------------------------
(* The words of a series of four samples, two to a word and one to a       *)
(* symbol, the first two of them fixed: the last one is shorter, as        *)
(* Gen_words makes it.                                                     *)
EXTENDS WindowScan

Samples == 4
Ending(w) == \A k \in 1 .. Samples : Len(w[k]) = WordLength(k - 1, Samples, 2, 1)
MCInputs == {w \in [1 .. Samples -> GenSubwords(1) \cup GenSubwords(2)] :
                Ending(w) /\ SubSeq(w, 1, 2) = << <<"a", "d">>, <<"d", "d">> >>}
MCFixed == [c \in Chans \ {LagLead} |-> [s \in Subs |-> 1]]
===========================================================================
