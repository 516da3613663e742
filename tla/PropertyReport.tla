--------------------------- MODULE PropertyReport ---------------------------
(***************************************************************************)
(* anomaly_check.go: one page for every property of every host that        *)
(* profiles are kept for.  The recent samples are scored against each      *)
(* profile, the scores are the columns of a file, and the images of the    *)
(* page are drawn one by one by the numbers of the columns, each beside    *)
(* what an earlier run has left.                                           *)
(*                                                                         *)
(* A column is the name of what it shows, the pair it was computed for and *)
(* whether an earlier run wrote it.  The image of the analysis of a        *)
(* profile has the name of its file, the others have two parts.            *)
(***************************************************************************)
EXTENDS Integers, Sequences, SequencesExt

CONSTANTS Pairs,    \* <<host, property>>, in the order of the two loops
          Listing,  \* what ls says of the profile directory: files, in order
          Sizes,    \* how many samples a series may have
          Windows,  \* words the first lag and lead windows take together
          OldFiles, \* OldFiles[q]: the columns in the file of an earlier run
          Damages   \* sets of names of files that cannot be read

(* Hosts, labels and the files of a directory are distinct.                *)
PropertyConstants ==
    /\ Pairs \in Seq(ToSet(Pairs)) /\ IsInjective(Pairs)
    /\ Listing \in Seq(ToSet(Listing))
    /\ \A f \in ToSet(Listing) : f.of \subseteq ToSet(Pairs)
    /\ \A f, g \in ToSet(Listing) : f.name = g.name => f = g
    /\ DOMAIN OldFiles = ToSet(Pairs)

VARIABLES pc,      \* where the program is
          pairs,   \* pairs[1] is handled, or the next one
          line,    \* the line of the listing that is looked at
          found,   \* baselines: the files that were read
          names,   \* anomalies
          columns, \* columns[q]: the file of q
          assets,  \* what was drawn to an image: two columns, or nothing
          pages,   \* pages[q]: the images on the page, and whether it is whole
          damaged  \* the files that cannot be read (never changed)

vars == <<pc, pairs, line, found, names, columns, assets, pages, damaged>>

PairSet == ToSet(Pairs)
Listed  == ToSet(Listing)
pair    == Head(pairs)

Column(of, q, old) == [of |-> of, pair |-> q, old |-> old]

ValuesOf(q) == <<"values", q>>
LeadLagOf(q) == <<"ll", q>>
ScoreOf(f)   == <<f.name>>
Images == {ValuesOf(q) : q \in PairSet} \cup {LeadLagOf(q) : q \in PairSet} \cup {ScoreOf(f) : f \in Listed}

Blank == <<>>
Earlier(image) == [x |-> Column("times", <<>>, TRUE), y |-> Column(image, <<>>, TRUE)]

Init == /\ pc = "pair" /\ pairs = Pairs
        /\ line = 1 /\ found = {} /\ names = <<>>
        /\ columns = OldFiles
        /\ assets = [i \in Images |-> Earlier(i)]
        /\ pages = [q \in PairSet |-> [images |-> <<>>, whole |-> FALSE]]
        /\ damaged \in Damages

(* Every `continue` of the inner loop, and its end. *)
NextPair == pc' = "pair" /\ pairs' = Tail(pairs)

(* get_baselines begins; where ls fails there are none.                    *)
StartPair == /\ pc = "pair" /\ pairs # <<>>
             /\ \/ pc' = "list" /\ UNCHANGED pairs
                \/ NextPair
             /\ line' = 1 /\ found' = {}
             /\ UNCHANGED <<names, columns, assets, pages>>

Unreadable(f) == pair \in f.of /\ f.name \in damaged

(* One line of the listing; a file that cannot be read is tried again.     *)
ReadLine == /\ pc = "list" /\ line <= Len(Listing)
            /\ ~ Unreadable(Listing[line])
            /\ found' = found \cup {f \in {Listing[line]} : pair \in f.of}
            /\ line' = line + 1
            /\ UNCHANGED <<pc, pairs, names, columns, assets, pages>>

RetryLine == /\ pc = "list" /\ line <= Len(Listing)
             /\ Unreadable(Listing[line])
             /\ UNCHANGED <<pc, pairs, line, found, names, columns, assets, pages>>

AllRead == pc = "list" /\ line > Len(Listing)

(* There are no profiles, or there is no data. *)
Skip == /\ AllRead
        /\ NextPair
        /\ UNCHANGED <<line, found, names, columns, assets, pages>>

(* The profiles are scored in the random order of a map.  A series that is *)
(* too short for the windows may end the program.                          *)
Analyse(n) == /\ AllRead /\ found # {}
              /\ pc' \in {"dump"} \cup (IF n < Windows THEN {"short"} ELSE {})
              /\ names' \in SetToSeqs(found)
              /\ UNCHANGED <<pairs, line, found, columns, assets, pages>>

(* dump_arr, and the times behind it. *)
DumpArr == <<"values", "ll">> \o [k \in DOMAIN names |-> names[k].name]
TimesColumn == Len(DumpArr) + 1

(* Text_dump; where the file cannot be made the one of before stays.       *)
Dump == /\ pc = "dump"
        /\ pc' = "create"
        /\ \/ columns' = [columns EXCEPT ![pair] =
                  [k \in DOMAIN DumpArr |-> Column(DumpArr[k], pair, FALSE)]
                      \o <<Column("times", pair, FALSE)>>]
           \/ UNCHANGED columns
        /\ UNCHANGED <<pairs, line, found, names, assets, pages>>

(* The page is begun, or left as it was. *)
Create == /\ pc = "create"
          /\ \/ /\ pages' = [pages EXCEPT ![pair] = [images |-> <<>>, whole |-> FALSE]]
                /\ pc' = "values" /\ UNCHANGED pairs
             \/ NextPair /\ UNCHANGED pages
          /\ UNCHANGED <<line, found, names, columns, assets>>

(* What gnuplot draws of two columns. *)
Drawn(x, y) == IF {x, y} \subseteq DOMAIN columns[pair]
               THEN [x |-> columns[pair][x], y |-> columns[pair][y]] ELSE Blank

(* Plot2: without gnuplot it fails and draws nothing, and it fails with an *)
(* image that is drawn where convert cannot make the small one.            *)
Plot2(image, col, failed) ==
    \/ failed /\ UNCHANGED assets
    \/ assets' = [assets EXCEPT ![image] = Drawn(TimesColumn, col)]

Shown(image) == pages' = [pages EXCEPT ![pair].images = Append(@, image)]

(* Whether the plot of the values failed is not looked at. *)
PlotValues == /\ pc = "values"
              /\ \E failed \in BOOLEAN : Plot2(ValuesOf(pair), 1, failed)
              /\ Shown(ValuesOf(pair))
              /\ pc' = "ll"
              /\ UNCHANGED <<pairs, line, found, names, columns>>

(* Without the second plot the page is left as it is.                      *)
PlotLeadLag ==
    /\ pc = "ll"
    /\ \/ /\ Plot2(LeadLagOf(pair), 2, FALSE) /\ Shown(LeadLagOf(pair))
          /\ pc' = "scores" /\ line' = 1 /\ UNCHANGED pairs
       \/ /\ Plot2(LeadLagOf(pair), 2, TRUE) /\ NextPair
          /\ UNCHANGED <<line, pages>>
    /\ UNCHANGED <<found, names, columns>>

\* Mutant: the lead/lag column is forgotten.
ScoreColumnBefore(i) == i + 1

(* The column of the i-th profile, from 1. *)
ScoreColumn(i) == i + 2

(* A plot of a profile that fails is left out of the page. *)
PlotScore ==
    /\ pc = "scores" /\ line <= Len(names)
    /\ LET image == ScoreOf(names[line])
       IN  \/ Plot2(image, ScoreColumn(line), FALSE) /\ Shown(image)
           \/ Plot2(image, ScoreColumn(line), TRUE) /\ UNCHANGED pages
    /\ line' = line + 1
    /\ UNCHANGED <<pc, pairs, found, names, columns>>

Trailer == /\ pc = "scores" /\ line > Len(names)
           /\ pages' = [pages EXCEPT ![pair].whole = TRUE]
           /\ NextPair
           /\ UNCHANGED <<line, found, names, columns, assets>>

End == /\ pc = "pair" /\ pairs = <<>>
       /\ pc' = "end"
       /\ UNCHANGED <<pairs, line, found, names, columns, assets, pages>>

Step == \/ StartPair \/ ReadLine \/ RetryLine \/ Skip
        \/ \E n \in Sizes : Analyse(n)
        \/ Dump \/ Create \/ PlotValues \/ PlotLeadLag \/ PlotScore \/ Trailer \/ End

Next == Step /\ UNCHANGED damaged

Spec == Init /\ [][Next]_vars

----------------------------------------------------------------------------
(* The pairs an image is drawn for: those that have its profile. *)
Owners(image) == {q \in PairSet : image \in {ValuesOf(q), LeadLagOf(q)}}
                    \cup UNION {f.of : f \in {g \in Listed : image = ScoreOf(g)}}

(* "Baselines in dump_arr have the same ordering as their names in         *)
(* anomalies" (:169): what a page shows beside the values was drawn in     *)
(* this run, from the column of its name, for a pair that has the profile, *)
(* or from the file of before where that pair's could not be written; and  *)
(* a page that is whole has the lead/lag analysis, and no image twice.     *)
ImagesAreOfTheirRun ==
    \A q \in PairSet :
        /\ \A image \in ToSet(pages[q].images) \ {ValuesOf(q)} : \E p \in Owners(image) :
              \/ assets[image] = [x |-> Column("times", p, FALSE), y |-> Column(image[1], p, FALSE)]
              \/ /\ columns[p] = OldFiles[p]
                 /\ assets[image] = Blank \/ assets[image].y \in ToSet(OldFiles[p])
        /\ pages[q].whole => pages[q].images[2] = LeadLagOf(q)
        /\ IsInjective(pages[q].images)

(* The program is at a profile that it tries to read again and again.      *)
Stuck == pc = "list" /\ line <= Len(Listing) /\ Unreadable(Listing[line])
=============================================================================
