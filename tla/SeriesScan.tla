----------------------------- MODULE SeriesScan -----------------------------
(***************************************************************************)
(* The comparison tools: tsb_comp.go slides a lag and a lead window over   *)
(* the words of a series and counts both anew at each position; basecomp   *)
(* compares every word with the first one; scomp.go, and scomp_local.go    *)
(* which reads a file, compare every word with the next one.  Each writes  *)
(* its distances beside the samples and draws them.                        *)
(*                                                                         *)
(* A series is given by the number of its samples and by its words.  Any   *)
(* words are tried: what letters samples give is left out.                 *)
(***************************************************************************)
EXTENDS Bitmaps

CONSTANTS Tools,   \* the programs: some of "tsb", "basecomp", "scomp", "local"
          Sizes,   \* Sizes[p]: numbers of samples tried with p
          Feature, \* samples of a word
          Section, \* samples of a symbol, Feature is a multiple of it
          Window   \* win_len*word_len, words in a window

SeriesConstants ==
    /\ Window \in Nat \ {0} /\ Unit \in Nat \ {0}
    /\ Feature \in Nat \ {0} /\ Section \in Nat \ {0}
    /\ IsFiniteSet(Alphabet) /\ 2 \in SubLengths
    /\ \A p \in Tools : Sizes[p] \subseteq Nat

VARIABLES prog,      \* the program
          size,      \* how many samples there are
          words,     \* the words of the series
          pc,        \* where the program is
          i,         \* the next pass of its loop
          lagCt, leadCt, \* lag_ct, lead_ct, in parts of Unit
          distances, \* the distances so far
          most,      \* max: where tsb_comp draws its second picture
          out,       \* out.dat or tsb_out.dat, its second column
          maxout     \* tsb_max.dat, its second column

vars == <<prog, size, words, pc, i, lagCt, leadCt, distances, most, out, maxout>>

ofSeries == <<prog, size, words>>
ofPass   == <<i, lagCt, leadCt, distances, most>>

(* get_sax_words: a word for each sample that more than Feature samples    *)
(* follow or begin.                                                        *)
WordCount(n) == IF n > Feature THEN n - Feature ELSE 0

(* get_sax_word: the word spans one sample less than Feature, the last     *)
(* symbol one less than Section.                                           *)
SymbolsOfWord == Feature \div Section

(* The inner loop of scomp stops before the last symbol.                   *)
SymbolsOfShortWord == (Feature - 1 - Section + Section - 1) \div Section

WordsOf(p) == GenSubwords(IF p \in {"scomp", "local"} THEN SymbolsOfShortWord ELSE SymbolsOfWord)

Nothing == [s \in GenSubwords(2) |-> 0]

Init == /\ prog \in Tools /\ size \in Sizes[prog]
        /\ words \in [1 .. WordCount(size) -> WordsOf(prog)]
        /\ pc = "fetch"
        /\ i = 0 /\ most = 0
        /\ lagCt = Nothing /\ leadCt = Nothing
        /\ distances = <<>> /\ out = <<>> /\ maxout = <<>>

Panic == pc' = "panic"

(* The samples come from the database, or from a file; tsb_comp starts     *)
(* with a window of zeros.                                                 *)
Fetch ==
    /\ pc = "fetch"
    /\ \/ /\ pc' = "scan"
          /\ distances' = IF prog = "tsb" THEN [k \in 1 .. Window |-> 0] ELSE <<>>
       \/ Panic /\ UNCHANGED distances
    /\ UNCHANGED <<ofSeries, i, lagCt, leadCt, most, out, maxout>>

Slice == [k \in 0 .. Len(words) - 1 |-> words[k + 1]]

(* The counts of words from..to-1 on top of what is in the map.            *)
CountedOnTop(ct, from, to) ==
    LET new == CountSubwords(Slice, from, to)
    IN  [s \in GenSubwords(2) |-> ct[s] + Unit * new[s]]

(* compute_bitmap *)
ComputeBitmap(ct) == GenBitmap(ct, 2)

\* Mutant: only the lag counts are deleted.
WindowPassStale ==
    /\ pc = "scan" /\ prog = "tsb" /\ i < Len(words) - 2 * Window
    /\ LET lag  == ComputeBitmap(CountedOnTop(lagCt, i, i + Window))
           lead == ComputeBitmap(CountedOnTop(leadCt, i + Window + 1, i + 2 * Window))
       IN  /\ distances' = Append(distances, BitmapDistance(lag, lead, 2))
           /\ lagCt' = Nothing /\ leadCt' = lead
    /\ most' = IF distances'[i + 1] > 0 THEN i ELSE most
    /\ i' = i + 1
    /\ UNCHANGED <<ofSeries, pc, out, maxout>>

(* One pass of tsb_comp: both windows are counted, drawn as bitmaps and    *)
(* compared, and the counts are deleted.  maxval stays 0.                  *)
WindowPass ==
    /\ pc = "scan" /\ prog = "tsb" /\ i < Len(words) - 2 * Window
    /\ LET lag  == ComputeBitmap(CountedOnTop(lagCt, i, i + Window))
           lead == ComputeBitmap(CountedOnTop(leadCt, i + Window + 1, i + 2 * Window))
       IN  distances' = Append(distances, BitmapDistance(lag, lead, 2))
    /\ lagCt' = Nothing /\ leadCt' = Nothing
    /\ most' = IF distances'[i + 1] > 0 THEN i ELSE most
    /\ i' = i + 1
    /\ UNCHANGED <<ofSeries, pc, out, maxout>>

(* The bitmap of the whole series is drawn to a file of its own, which may *)
(* not be there to write.                                                  *)
WindowsEnd ==
    /\ pc = "scan" /\ prog = "tsb" /\ i >= Len(words) - 2 * Window
    /\ pc' = "write" \/ Panic
    /\ UNCHANGED <<ofSeries, ofPass, out, maxout>>

(* The distance of two letters, of which a, b, c, d are in a row, squared, *)
(* in parts of 0.67 squared.                                               *)
LetterDistance(s, t) ==
    LET apart == <<"a", "b", "c", "d">>
        place(x) == CHOOSE k \in 1 .. 4 : apart[k] = x
        d == place(s) - place(t)
    IN  IF d \in {-3, 3} THEN 4 ELSE IF d \in {-2, 2} THEN 1 ELSE 0

(* The distance of two words, squared and in parts of 0.67 squared.        *)
WordDistance(v, w) == MapThenSumSet(LAMBDA k : LetterDistance(v[k], w[k]), DOMAIN v)

(* One pass of basecomp. *)
BasePass ==
    /\ pc = "scan" /\ prog = "basecomp" /\ i < Len(words) - 1
    /\ distances' = Append(distances, WordDistance(words[1], words[i + 2]))
    /\ i' = i + 1
    /\ UNCHANGED <<ofSeries, pc, lagCt, leadCt, most, out, maxout>>

(* One pass of scomp. *)
NextPass ==
    /\ pc = "scan" /\ prog \in {"scomp", "local"} /\ i < Len(words) - 1
    /\ distances' = Append(distances, WordDistance(words[i + 1], words[i + 2]))
    /\ i' = i + 1
    /\ UNCHANGED <<ofSeries, pc, lagCt, leadCt, most, out, maxout>>

WordsEnd ==
    /\ pc = "scan" /\ prog # "tsb" /\ i >= Len(words) - 1
    /\ pc' = "write"
    /\ UNCHANGED <<ofSeries, ofPass, out, maxout>>

(* Each distance is written beside the sample of its number; tsb_comp has  *)
(* more distances than samples where the series is shorter than a window.  *)
Write ==
    /\ pc = "write"
    /\ \/ /\ out' = SubSeq(distances, 1, IF size < Len(distances) THEN size ELSE Len(distances))
          /\ pc' = IF size < Len(distances) THEN "panic" ELSE "plot"
       \/ Panic /\ UNCHANGED out
    /\ UNCHANGED <<ofSeries, ofPass, maxout>>

(* gnuplot draws what was written, or cannot be started.                   *)
Plot ==
    /\ pc = "plot"
    /\ pc' = (IF prog = "tsb" THEN "writemax" ELSE "end") \/ Panic
    /\ UNCHANGED <<ofSeries, ofPass, out, maxout>>

(* The window from most on is written once more, and drawn.                *)
WriteMax ==
    /\ pc = "writemax"
    /\ \/ /\ maxout' = SubSeq(distances, most + 1, Min({most + Window, Len(distances)}))
          /\ pc' = "end"
       \/ Panic /\ UNCHANGED maxout
    /\ UNCHANGED <<ofSeries, ofPass, out>>

Next == \/ Fetch
        \/ WindowPass \/ WindowsEnd
        \/ BasePass \/ NextPass \/ WordsEnd
        \/ Write \/ Plot \/ WriteMax

Spec == Init /\ [][Next]_vars

----------------------------------------------------------------------------
(* The distance of the two windows at a position, from nothing but their   *)
(* words: the lag window, and the lead window without its first word.      *)
Apart(k) == BitmapDistance(ComputeBitmap(CountSubwords(Slice, k, k + Window)),
                           ComputeBitmap(CountSubwords(Slice, k + Window + 1, k + 2 * Window)), 2)

(* tsb_comp.go:99-132, basecomp.go:69 and scomp.go:109: in every row of    *)
(* the output stands the distance of the two windows, or words, that end   *)
(* or begin there, whatever was counted before; a series is written whole; *)
(* and the second picture shows rows of the first, from one whose windows  *)
(* differ, if there is one in the part that was looked at.                 *)
SeriesCompareTheirWindows ==
    /\ \A r \in DOMAIN out :
          out[r] = IF prog = "tsb" THEN IF r <= Window THEN 0 ELSE Apart(r - 1 - Window)
                   ELSE WordDistance(words[IF prog = "basecomp" THEN 1 ELSE r], words[r + 1])
    /\ pc = "end" /\ prog # "tsb" => Len(out) + 1 = Len(words) \/ words = <<>>
    /\ pc = "end" /\ prog = "tsb" =>
          /\ Len(out) = Window + (IF Len(words) > 2 * Window THEN Len(words) - 2 * Window ELSE 0)
          /\ \A r \in DOMAIN maxout : maxout[r] = out[most + r]
          /\ (\E k \in 1 .. i : out[k] > 0) => maxout[1] > 0 /\ \A k \in most + 2 .. i : out[k] = 0
=============================================================================
