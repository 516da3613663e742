----------------------------- MODULE Selections -----------------------------
(* What stands at some places of a sequence, in the order of the sequence. *)
EXTENDS Integers, FiniteSets

ElementsAt(s, places) ==
    [m \in 1 .. Cardinality(places) |->
        s[CHOOSE p \in places : Cardinality({q \in places : q <= p}) = m]]
=============================================================================
