------------------------------ MODULE SaxConfig ------------------------------
(***************************************************************************)
(* The configuration reader of the SAX tools (nsutil.go, Read_config): the *)
(* file is split into lines of tokens, without the comments, then the      *)
(* options are taken line by line.  A file is a sequence of items: a word, *)
(* a blank, a hash, or the end of a line.                                  *)
(***************************************************************************)
EXTENDS Integers, Sequences, SequencesExt, FiniteSets, Selections, TLC

CONSTANTS Files,
          Numbers,  \* the words that are numbers, and which
          Length    \* Length[w]: how many characters a word has

Blank == " "
Hash  == "#"
NL    == "newline"

(* An item that is none of the three is a word; a number is an integer.    *)
SaxConstants == /\ Files \subseteq Seq(DOMAIN Length \cup {Blank, Hash, NL})
                /\ \A w \in DOMAIN Numbers : Numbers[w] \in Int

VARIABLES file, i, line, lines, pc, config

vars == <<file, i, line, lines, pc, config>>

(* One option of each kind: a text, a number, a list of numbers, a list of *)
(* names, a directory, a flag, the distribution, the alphabet, a time.     *)
Empty == [Sql_host |-> "", Symbol_size |-> 0, Subword_lengths |-> <<>>, Profile |-> <<>>,
          Verbose |-> FALSE, Dist |-> "none", Alphabet |-> <<"", 0>>, DB_hist |-> 0]

Init == /\ file \in Files
        /\ i = 1 /\ line = <<>> /\ lines = <<>> /\ pc = "line" /\ config = Empty

Is(k, item) == k <= Len(file) /\ file[k] = item

IsWord(k) == k <= Len(file) /\ file[k] \notin {Blank, Hash, NL}

(* The first place from here on that is no blank.                          *)
PastBlanks(k) == CHOOSE m \in k .. Len(file) + 1 : ~ Is(m, Blank) /\ \A j \in k .. m - 1 : Is(j, Blank)

(* A comment goes to the end of its line.                                  *)
EndOfComment(k) == CHOOSE m \in k .. Len(file) + 1 :
                      (m > Len(file) \/ Is(m, NL)) /\ \A j \in k .. m - 1 : ~ Is(j, NL)

BeginLine == /\ pc = "line" /\ i <= Len(file)
             /\ pc' = "tokens" /\ line' = <<>>
             /\ UNCHANGED <<file, i, lines, config>>

(* One pass of the inner loop: blanks, a token if there is one, a comment  *)
(* if there is one.  At the end of the file the test for a comment reads   *)
(* behind it, which ends the program.                                      *)
Token ==
    /\ pc = "tokens" /\ i <= Len(file) /\ ~ Is(i, NL)
    /\ LET from == PastBlanks(i)
           end  == IF IsWord(from) THEN from + 1 ELSE from
       IN  /\ line' = IF IsWord(from) THEN Append(line, file[from]) ELSE line
           /\ pc' = IF end > Len(file) THEN "panic" ELSE pc
           /\ i' = IF Is(end, Hash) THEN EndOfComment(end) ELSE end
    /\ UNCHANGED <<file, lines, config>>

EndLine == /\ pc = "tokens" /\ (i > Len(file) \/ Is(i, NL))
           /\ lines' = Append(lines, line)
           /\ pc' = "line" /\ i' = i + 1
           /\ UNCHANGED <<file, line, config>>

Tokenized == /\ pc = "line" /\ i > Len(file)
             /\ pc' = "options" /\ i' = 1
             /\ UNCHANGED <<file, line, lines, config>>

(* ParseInt: what is no number counts as 0.                                *)
NumberOf(w) == IF w \in DOMAIN Numbers THEN Numbers[w] ELSE 0
GetInt(l)   == IF Len(l) < 2 THEN 0 ELSE NumberOf(l[2])

Seconds == [second |-> 1, minute |-> 60, hour |-> 3600, day |-> 86400, week |-> 604800,
            month |-> 18144000, year |-> 31449600]
GetSeconds(quantity, unit) == (IF unit \in DOMAIN Seconds THEN Seconds[unit] ELSE 0) * quantity

(* Four symbols, whatever is asked for.                                    *)
AlphabetOf(w) == IF Length[w] < 4 THEN <<"abcd", 4>> ELSE <<w, 4>>

(* What a line adds to a list: names, or numbers.                          *)
PartOf(option, l) == IF option = "Profile" THEN Tail(l) ELSE [k \in 1 .. Len(l) - 1 |-> NumberOf(l[k + 1])]

\* Mutant: a list begins anew on each line.
ValuesOfLine(option, l) == PartOf(option, l)

Values(option, l) == config[option] \o PartOf(option, l)

(* What a line with a value gives its option.                              *)
ValueOf(option, l) ==
    CASE option \in {"Subword_lengths", "Profile"} -> Values(option, l)
      [] option = "Dist"     -> "normal"
      [] option = "Alphabet" -> AlphabetOf(l[2])
      [] OTHER               -> l[2]

(* The value of an option after a line of it: a number without a value is  *)
(* 0, the others stay as they were.                                        *)
Taken(option, l) ==
    CASE option = "Symbol_size" -> GetInt(l)
      [] option = "Verbose"     -> Len(l) > 1 /\ l[2] = "on"
      [] option = "DB_hist"     -> IF Len(l) < 3 THEN config[option] ELSE GetSeconds(GetInt(l), l[3])
      [] OTHER                  -> IF Len(l) < 2 THEN config[option] ELSE ValueOf(option, l)

TakeLine ==
    /\ pc = "options" /\ i <= Len(lines)
    /\ config' = IF lines[i] # <<>> /\ lines[i][1] \in DOMAIN config
                 THEN [config EXCEPT ![lines[i][1]] = Taken(lines[i][1], lines[i])]
                 ELSE config
    /\ i' = i + 1
    /\ pc' = IF i = Len(lines) THEN "done" ELSE pc
    /\ UNCHANGED <<file, line, lines>>

Next == BeginLine \/ Token \/ EndLine \/ Tokenized \/ TakeLine

Spec == Init /\ [][Next]_vars

----------------------------------------------------------------------------
(* The types of the state.                                                 *)
TypeOK ==
    /\ pc \in {"line", "tokens", "options", "done", "panic"}
    /\ i \in 1 .. Len(file) + 2
    /\ config.Symbol_size \in Int /\ config.DB_hist \in Int
    /\ \A l \in ToSet(lines) : l \in Seq(DOMAIN Length)

LineNumber(k) == 1 + Cardinality({ j \in 1 .. k - 1 : file[j] = NL })

WordsOf(n) ==
    ElementsAt(file, { k \in DOMAIN file : IsWord(k) /\ LineNumber(k) = n
                          /\ ~ \E j \in 1 .. k - 1 : file[j] = Hash /\ LineNumber(j) = n })

(* The lines of tokens are those of the file, each without its comment:    *)
(* none is joined to another or lost (nsutil.go:55).                       *)
LinesAreSplit ==
    pc \in {"options", "done"} =>
        lines = [n \in 1 .. LineNumber(Len(file) + 1) - (IF file = <<>> \/ Last(file) = NL THEN 1 ELSE 0) |->
                    WordsOf(n)]

LinesOf(option) == ElementsAt(lines, { n \in DOMAIN lines : lines[n] # <<>> /\ lines[n][1] = option })

(* A list is what all its lines give, a number what its last line gives,   *)
(* even if that line gives none (nsutil.go:156, :220).                     *)
OptionsAreOfTheirLines ==
    pc = "done" =>
        /\ \A o \in {"Profile", "Subword_lengths"} :
              config[o] = FlattenSeq([k \in DOMAIN LinesOf(o) |-> PartOf(o, LinesOf(o)[k])])
        /\ config.Symbol_size = IF LinesOf("Symbol_size") = <<>> THEN 0 ELSE GetInt(Last(LinesOf("Symbol_size")))
=============================================================================
