------------------------------ MODULE SaxWords ------------------------------
(***************************************************************************)
(* How a series of samples becomes SAX words: Gen_words of saxutil.go, and *)
(* the copies of it that each comparison tool keeps.  A window of samples  *)
(* is normalised by its own mean and deviation and cut into sections; the  *)
(* mean of a section gives a letter.                                       *)
(*                                                                         *)
(* Samples are integers and means exact.  A section of k samples with sum  *)
(* s in a window of n samples with sum t and sum of squares q has the      *)
(* normalised mean                                                         *)
(*     z  with  z^2 = d^2 (n-1) / (k^2 n v),  d = n s - k t,  v = n q - t^2 *)
(* which has the sign of d; a flat window has v = 0.                       *)
(***************************************************************************)
EXTENDS Integers, Sequences, SequencesExt, Functions

CONSTANTS Symbol,  \* config.Symbol_size, and l of the tools: samples of a symbol
          Fwin,    \* config.Fwin_len, and n \div l: symbols of a word
          Programs,\* some of "saxutil", "tsb", "basecomp", "scomp", "local"
          Curves   \* Curves[p]: the series tried with p, of integers

WordConstants == /\ Symbol \in Nat \ {0} /\ Fwin \in Nat \ {0}
                 /\ \A p \in Programs : Curves[p] \subseteq Seq(Int)

VARIABLES program, \* whose words are made
          series,  \* values, nums
          win,     \* where the next window begins
          words,   \* the words so far
          pc

vars == <<program, series, win, words, pc>>

Feature == Fwin * Symbol

Init == /\ program \in Programs /\ series \in Curves[program]
        /\ win = 0 /\ words = <<>> /\ pc = "words"

(* get_symbol_4 with the quartiles of a Normal distribution, -0.675, 0 and *)
(* 0.675 (= 27/40): a section with d, where z^2 is num/den.                *)
Symbol4(d, num, den) ==
    IF d < 0 THEN IF 1600 * num > 729 * den THEN "a" ELSE "b"
    ELSE IF 1600 * num < 729 * den THEN "c" ELSE "d"

Total(s)   == FoldSeq(LAMBDA x, y : x + y, 0, s)
Squares(s) == FoldSeq(LAMBDA x, y : x * x + y, 0, s)

(* The deviation of a flat window is 0.  Normalize divides by 1 then, and  *)
(* every mean is 0; normalize of the tools divides 0 by 0, and NaN is      *)
(* below no quartile.  So does Normalize with a window of one sample,      *)
(* whose deviation is 0/0 itself.                                          *)
Flat        == "c"
FlatInTools == "d"
GenFlat(data) == IF Len(data) = 1 THEN FlatInTools ELSE Flat

(* Normalize, then the mean of a section, then its letter. *)
Letter(section, data, flat) ==
    LET n == Len(data)
        k == Len(section)
        d == n * Total(section) - k * Total(data)
        v == n * Squares(data) - Total(data) * Total(data)
    IN  IF v = 0 THEN flat ELSE Symbol4(d, d * d * (n - 1), k * k * n * v)

(* A word of so many letters: a section begins every Symbol samples.       *)
Sections(data, letters, length) ==
    [k \in 1 .. letters |-> SubSeq(data, (k - 1) * Symbol + 1, (k - 1) * Symbol + length)]
Word(data, letters, length, flat) ==
    LET cut == Sections(data, letters, length) IN [k \in 1 .. letters |-> Letter(cut[k], data, flat)]

(* gen_word: whole symbols only. *)
GenWord(data) == Word(data, Len(data) \div Symbol, Symbol, GenFlat(data))

(* What Gen_words normalises: a full window while one is left and more,    *)
(* then all that is left.                                                  *)
GenWindow(from) ==
    SubSeq(series, from + 1, IF from < Len(series) - Feature THEN from + Feature ELSE Len(series))

AppendWord(word) == /\ words' = Append(words, word)
                    /\ win' = win + 1
                    /\ UNCHANGED <<program, series, pc>>

\* Mutant: the series is normalised once.
GenWordsOfSeries ==
    /\ program = "saxutil" /\ pc = "words" /\ win < Len(series)
    /\ LET cut == Sections(GenWindow(win), Len(GenWindow(win)) \div Symbol, Symbol)
       IN  AppendWord([k \in DOMAIN cut |-> Letter(cut[k], series, Flat)])

(* Gen_words: a word for every sample. *)
GenWords == /\ program = "saxutil" /\ pc = "words" /\ win < Len(series)
            /\ AppendWord(GenWord(GenWindow(win)))

(* get_sax_words of the tools: only full windows, of one sample less than  *)
(* they are said to have.                                                  *)
ToolWindow(from) == SubSeq(series, from + 1, from + Feature - 1)
ToolWindows == Len(series) - Feature

ToolPass(p, letters) ==
    /\ program = p /\ pc = "words" /\ win < ToolWindows
    /\ AppendWord(Word(ToolWindow(win), letters, Symbol - 1, FlatInTools))

(* sec runs while it is in the window; the last section just fits.         *)
TsbWords      == ToolPass("tsb", Fwin)
BasecompWords == ToolPass("basecomp", Fwin)

(* sec runs while it is a section before the end of a window that is one   *)
(* sample short: the last symbol is not made.                              *)
ScompWords == ToolPass("scomp", Fwin - 1)
LocalWords == ToolPass("local", Fwin - 1)

WordsEnd == /\ pc = "words"
            /\ win >= IF program = "saxutil" THEN Len(series) ELSE ToolWindows
            /\ pc' = "end"
            /\ UNCHANGED <<program, series, win, words>>

Next == GenWords \/ TsbWords \/ BasecompWords \/ ScompWords \/ LocalWords \/ WordsEnd

Spec == Init /\ [][Next]_vars
----------------------------------------------------------------------------
Window(k) == IF program = "saxutil" THEN GenWindow(k) ELSE ToolWindow(k)

(* One window is the other up to a scale and an offset. *)
Alike(x, y) ==
    /\ Len(x) = Len(y)
    /\ \E a, b \in 1 .. 2 : \A j, k \in DOMAIN x : a * (x[j] - x[k]) = b * (y[j] - y[k])

(* saxutil.go:170-201 ("We will perform normalization for each word,       *)
(* instead of normalizing the entire series at once", tsb_comp.go:280):    *)
(* a word says what shape its window has, whatever its scale and level and *)
(* wherever in the series it is.                                           *)
AlikeSoundAlike ==
    \A j, k \in 0 .. Len(words) - 1 :
        Alike(Window(j), Window(k)) => words[j + 1] = words[k + 1]

(* saxutil.go:31-46 and :190-219: letters follow the samples.  Of two      *)
(* sections of a word the one with the greater mean has no lower letter,   *)
(* and where the sections fill the window and differ, some are below its   *)
(* mean and some above.                                                    *)
LetterOrder == [a |-> 1, b |-> 2, c |-> 3, d |-> 4]
LettersFollowSamples ==
    \A n \in 1 .. Len(words) :
        LET data == Window(n - 1)
            cut  == Sections(data, Len(words[n]), IF program = "saxutil" THEN Symbol ELSE Symbol - 1)
        IN  /\ \A j, k \in DOMAIN cut :
                  Total(cut[j]) < Total(cut[k]) => LetterOrder[words[n][j]] <= LetterOrder[words[n][k]]
            /\ (program = "saxutil" /\ Len(data) = Len(words[n]) * Symbol
                  /\ \E j, k \in DOMAIN cut : Total(cut[j]) # Total(cut[k]))
               => Range(words[n]) \cap {"a", "b"} # {} /\ Range(words[n]) \cap {"c", "d"} # {}

(* saxutil.go:182-185: no word is longer than the one before it, on which  *)
(* the adjusted counts and the subwords of a window rely.                  *)
WordsNeverGrow == \A k \in 2 .. Len(words) : Len(words[k]) <= Len(words[k - 1])
=============================================================================
