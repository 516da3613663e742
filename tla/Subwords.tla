------------------------------ MODULE Subwords ------------------------------
(***************************************************************************)
(* Counting subwords of SAX words (saxutil.go).  A word is a sequence of   *)
(* symbols; a count is a function from the subwords of interest to how     *)
(* often they occur in a window of consecutive words.  A window slides by  *)
(* one word at a time, and its count is adjusted instead of recounted.     *)
(***************************************************************************)
EXTENDS Integers, Sequences, FiniteSets

CONSTANTS Alphabet,  \* config.Alphabet
          SubLengths \* config.Subword_lengths, all different

ASSUME SubwordConstants == SubLengths \subseteq Nat \ {0}

(* Gen_subwords: all words of a length over the alphabet.                  *)
GenSubwords(n) == [1 .. n -> Alphabet]

(* The subwords that are counted.                                          *)
Subs == UNION {GenSubwords(n) : n \in SubLengths}

(* The places of word w where subword s begins. *)
Places(w, s) == {i \in 1 .. Len(w) - Len(s) + 1 : SubSeq(w, i, i + Len(s) - 1) = s}

(* Count_subwords of the words from..to-1 (a slice words[from:to]). *)
CountSubwords(words, from, to) ==
    [s \in Subs |->
       Cardinality(UNION {{k} \X Places(words[k], s) : k \in from .. to - 1})]

\* Mutant: nothing is removed.
AdjCountKeeps(ct, remove, add) == [s \in Subs |-> ct[s] + Cardinality(Places(add, s))]

(* Adj_count: one loop, over the places of the added word, counts the      *)
(* subwords of the added word up and those of the removed word down.       *)
AdjCount(ct, remove, add) ==
    [s \in Subs |->
       ct[s] + Cardinality(Places(add, s))
             - Cardinality({i \in Places(remove, s) : i + Len(s) <= Len(add) + 1})]

(* Gen_words: word win spans the samples from win on; where fewer than a   *)
(* feature window are left, only whole symbols are kept.                   *)
WordLength(win, samples, fwin, symbol) ==
    IF win < samples - fwin * symbol THEN fwin ELSE (samples - win) \div symbol
=============================================================================
