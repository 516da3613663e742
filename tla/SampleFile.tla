----------------------------- MODULE SampleFile -----------------------------
(***************************************************************************)
(* The files of the SAX tools: samples with their times (Arrays_from_file) *)
(* and counted subwords (Read_profile), both read two words at a time      *)
(* (saxutil.go), and the samples that scomp_local.go reads by itself.  A   *)
(* file is a sequence of words and blanks; what stands between two blanks  *)
(* is one word.                                                            *)
(***************************************************************************)
EXTENDS Integers, Sequences, SequencesExt, Selections, TLC

CONSTANTS Files,   \* sequences of words and blanks
          Blank,
          Numbers  \* the words that are numbers

(* Between two words is a blank.                                           *)
SampleConstants ==
    /\ Blank \notin Numbers
    /\ \A f \in Files : /\ Len(f) \in Nat /\ DOMAIN f = 1 .. Len(f)
                        /\ \A k \in 1 .. Len(f) - 1 : Blank \in {f[k], f[k + 1]}

VARIABLES file, i, values, err

vars == <<file, i, values, err>>

Init == file \in Files /\ i = 1 /\ values = <<>> /\ err = FALSE

(* eat_white: the first place from here on that is not blank.              *)
EatWhite(from) == CHOOSE k \in from .. from + Len(file) :
                     /\ k > Len(file) \/ file[k] # Blank
                     /\ \A j \in from .. k - 1 : file[j] = Blank

(* What stands at a place, up to the next blank: a word or nothing.        *)
Word(k)  == IF k <= Len(file) /\ file[k] # Blank THEN <<file[k]>> ELSE <<>>

\* Mutant: the blank behind the word is passed too.
AfterBlank(k) == k + Len(Word(k)) + 1

After(k) == k + Len(Word(k))

IsNumber(word) == word # <<>> /\ word[1] \in Numbers

(* One pass of the loop: two words, of which both, or the second, must be  *)
(* numbers; the loop then moves on by one.                                 *)
Pass(bothNumbers) ==
    /\ ~ err /\ i <= Len(file)
    /\ LET first  == EatWhite(i)
           second == EatWhite(After(first))
       IN  IF (bothNumbers => IsNumber(Word(first))) /\ IsNumber(Word(second))
           THEN /\ values' = Append(values, <<Word(first), Word(second)>>)
                /\ i' = After(second) + 1
                /\ UNCHANGED err
           ELSE err' = TRUE /\ UNCHANGED <<i, values>>
    /\ UNCHANGED file

ArraysFromFile == Pass(TRUE)
ReadProfile    == Pass(FALSE)

(* One pass of read_data: what is not a number is 0, and kept.             *)
ReadData ==
    /\ i <= Len(file)
    /\ LET first  == EatWhite(i)
           second == EatWhite(After(first))
       IN  /\ values' = Append(values, <<Word(first), Word(second)>>)
           /\ i' = After(second) + 1
    /\ UNCHANGED <<file, err>>

Spec        == Init /\ [][ArraysFromFile]_vars
ProfileSpec == Init /\ [][ReadProfile]_vars
DataSpec    == Init /\ [][ReadData]_vars

----------------------------------------------------------------------------
TheWords == ElementsAt(file, {k \in DOMAIN file : file[k] # Blank})

(* The pairs that are read are those of the file, in order, whatever the   *)
(* blanks are, none left out and none shifted (saxutil.go:76).             *)
PairsInOrder ==
    \A k \in DOMAIN values : 2 * k <= Len(TheWords) /\ values[k] = << <<TheWords[2 * k - 1]>>, <<TheWords[2 * k]>> >>

(* A file that is read to its end without an error has no other pair.      *)
NothingLeftOver == ~ err /\ i > Len(file) => Len(TheWords) = 2 * Len(values)

(* An error is met where a pair is not complete or not a number, or in the *)
(* blanks behind the last pair: what came before it is there.              *)
ErrorsKeepWhatWasRead ==
    err => LET k == 2 * Len(values) IN
           \/ k >= Len(TheWords) - 1
           \/ TheWords[k + 1] \notin Numbers \/ TheWords[k + 2] \notin Numbers

(* read_data keeps every pair of the file in its place; behind them stand  *)
(* at most the word that is left over and one sample of nothing.           *)
BadPairsKeepTheirPlace ==
    LET at(k) == IF k <= Len(TheWords) THEN <<TheWords[k]>> ELSE <<>>
    IN  /\ \A k \in DOMAIN values : values[k] = <<at(2 * k - 1), at(2 * k)>>
        /\ i > Len(file) => 2 * Len(values) \in Len(TheWords) .. Len(TheWords) + 2
=============================================================================
