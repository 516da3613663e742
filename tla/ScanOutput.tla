----------------------------- MODULE ScanOutput -----------------------------
(***************************************************************************)
(* What becomes of the results of a scan.  The tools multi_search.go and   *)
(* multi_search_fig.go ("multi"), bitmap_parallel.go ("parallel") and      *)
(* bitmap_window.go ("window") store each result at the row of a sample,   *)
(* lay the rows out as columns of a data file, have gnuplot draw images by *)
(* the numbers of columns, and let convert put the images together.        *)
(*                                                                         *)
(* A result is the number of its window, from 0.  There are as many words  *)
(* as samples.                                                             *)
(***************************************************************************)
EXTENDS Integers, Sequences, FiniteSetsExt

CONSTANTS Runs,   \* what is run: [tool, samples, fwin, symbol, lag, lead, subs, profiles]
          OldFile,\* the columns that an earlier run left
          LengthName \* LengthName[k]: the image of the k-th subword length

(* A series has a window, words have two samples or more, no profile is    *)
(* listed twice and none of the images has the name "old".                 *)
RunConstants ==
    \A r \in Runs :
        /\ r.tool \in {"multi", "parallel", "window"}
        /\ {r.fwin, r.symbol, r.lag, r.lead, r.samples} \subseteq Nat \ {0} /\ r.subs \in Nat
        /\ r.fwin * r.symbol > 1 /\ r.samples >= (r.lag + r.lead) * r.symbol
        /\ r.profiles \in Seq({r.profiles[k] : k \in DOMAIN r.profiles} \ {"old", "ll", "baseline"})
        /\ \A j, k \in DOMAIN r.profiles : r.profiles[j] = r.profiles[k] => j = k
        /\ \A k \in 1 .. r.subs : LengthName[k] # "old"

VARIABLES run,     \* the tool, the samples and the configuration; never changes
          pc,      \* where the program is
          stored,  \* stored[c]: the results of channel c by their rows
          file,    \* the columns of the data file
          dumped,  \* whether this run has written it
          images,  \* the images, each two columns of the file
          montage  \* the image they are put together to

vars == <<run, pc, stored, file, dumped, images, montage>>

leadLength == run.lead * run.symbol
Scanned    == 0 .. run.samples - (run.lag + run.lead) * run.symbol
leadEnd(w) == w + (run.lag + run.lead) * run.symbol

Init == /\ run \in Runs
        /\ pc = "gather"
        /\ stored = <<>>
        /\ file \in {<<>>, OldFile} /\ dumped = FALSE
        /\ images = <<>> /\ montage = <<>>

(* lead_lag_offset: the middle of the first word of the lead window. *)
LeadLagOffset(end) == end - leadLength + (run.fwin * run.symbol) \div 2

\* Mutant: half of the window from its end on.
ProfileOffsetFromEnd(end) == end + (run.symbol * (run.lead + run.fwin) - 1) \div 2

(* profile_offset: the middle of the samples of the lead window. *)
ProfileOffset(end) == end - leadLength + (run.symbol * (run.lead + run.fwin) - 1) \div 2

Channels == IF run.tool = "multi" THEN {"ll", "baseline"} \cup {run.profiles[k] : k \in DOMAIN run.profiles}
            ELSE {"dist"}

(* The row at which a result is stored. *)
RowOf(c, w) ==
    CASE run.tool = "multi"    -> (IF c = "ll" THEN LeadLagOffset(leadEnd(w)) ELSE ProfileOffset(leadEnd(w))) - 1
      [] run.tool = "parallel" -> leadEnd(w)
      [] run.tool = "window"   -> leadEnd(w) - 1

(* The results are stored as they come; none is at the row of another.     *)
Gather ==
    /\ pc = "gather"
    /\ stored' = [c \in Channels |-> [r \in {RowOf(c, w) : w \in Scanned} |-> CHOOSE w \in Scanned : RowOf(c, w) = r]]
    /\ pc' = "dump"
    /\ UNCHANGED <<run, file, dumped, images, montage>>

Missing == -1

(* trans_one, and the loops of the other tools that do the same: rows      *)
(* without a result are 0.                                                 *)
Transformed(name, c, length) ==
    [of |-> name, cells |-> [r \in 0 .. length - 1 |-> IF r \in DOMAIN stored[c] THEN stored[c][r] ELSE Missing]]

Plain(name) == [of |-> name, cells |-> [r \in 0 .. run.samples - 1 |-> Missing]]

\* Mutant: the profiles come in the order of the map.
SearchColumnsOfMap ==
    <<Transformed("ll", "ll", run.samples), Transformed("baseline", "baseline", run.samples)>>
       \o [k \in DOMAIN run.profiles |->
              LET p == run.profiles[Len(run.profiles) + 1 - k] IN Transformed(p, p, run.samples)]

(* dump_arr of multi_search: the profiles in the order of the              *)
(* configuration.                                                          *)
SearchColumns ==
    <<Transformed("ll", "ll", run.samples), Transformed("baseline", "baseline", run.samples)>>
       \o [k \in DOMAIN run.profiles |-> Transformed(run.profiles[k], run.profiles[k], run.samples)]

(* dump_arr of the other tools: a column for each subword length, one for  *)
(* the product.                                                            *)
BitmapColumns ==
    [k \in 1 .. run.subs |-> Transformed(LengthName[k], "dist", run.samples + 1)]
       \o <<Transformed("mul", "dist", run.samples + 1)>>

(* Text_dump and Full_dump: as many rows as the shortest column has.       *)
TextDump(columns) ==
    LET length == Min({run.samples} \cup {Cardinality(DOMAIN columns[k].cells) : k \in DOMAIN columns})
    IN  [k \in DOMAIN columns |-> [columns[k] EXCEPT !.cells = [r \in 0 .. length - 1 |-> @[r]]]]

(* The file is written; where it cannot be made, the old one stays.        *)
Dump ==
    /\ pc = "dump"
    /\ \/ /\ file' = TextDump(<<Plain("values")>>
                        \o (IF run.tool = "multi" THEN SearchColumns ELSE BitmapColumns)
                        \o <<Plain("times")>>)
          /\ dumped' = TRUE
       \/ UNCHANGED <<file, dumped>>
    /\ pc' = "plot"
    /\ UNCHANGED <<run, stored, images, montage>>

(* The images of multi_search, with the columns of their axes.  num_cols   *)
(* counts the profiles by their names.                                     *)
SearchPlots ==
    LET x == 3 + Cardinality({run.profiles[k] : k \in DOMAIN run.profiles}) + 1
    IN  << <<"values", x, 1>>, <<"ll", x, 2>>, <<"baseline", x, 3>> >>
           \o [k \in DOMAIN run.profiles |-> <<run.profiles[k], x, k + 3>>]

BitmapPlots ==
    LET x == run.subs + 3
    IN  << <<"values", x, 1>>, <<"mul", x, run.subs + 2>> >> \o [k \in 1 .. run.subs |-> <<LengthName[k], x, k + 1>>]

Plots == IF run.tool = "multi" THEN SearchPlots ELSE BitmapPlots

HasColumns(plot) == {plot[2], plot[3]} \subseteq DOMAIN file

(* gnuplot draws one image after the other, and stops at one that asks for *)
(* a column the file has not; without gnuplot the tool exits.              *)
Plot ==
    /\ pc = "plot"
    /\ \/ /\ LET drawn == {k \in DOMAIN Plots : \A j \in 1 .. k : HasColumns(Plots[j])}
             IN  images' = [p \in {Plots[k][1] : k \in drawn} |->
                               LET k == CHOOSE j \in drawn : Plots[j][1] = p
                               IN  [x |-> file[Plots[k][2]], y |-> file[Plots[k][3]]]]
          /\ pc' = IF run.tool = "multi" THEN "sync" ELSE "convert"
       \/ pc' = "exit" /\ UNCHANGED images
    /\ UNCHANGED <<run, stored, file, dumped, montage>>

(* A process that cannot be started is waited for all the same. *)
Sync == /\ pc = "sync"
        /\ pc' \in {"convert", "panic"}
        /\ UNCHANGED <<run, stored, file, dumped, images, montage>>

Convert == /\ pc = "convert"
           /\ \/ pc' = "end" /\ montage' = images
              \/ pc' = "panic" /\ UNCHANGED montage
           /\ UNCHANGED <<run, stored, file, dumped, images>>

Next == Gather \/ Dump \/ Plot \/ Sync \/ Convert

Spec == Init /\ [][Next]_vars

----------------------------------------------------------------------------
(* multi_search.go:274-322 and bitmap_window.go:183-259: an image shows    *)
(* the analysis of its name over the time, whatever the number of          *)
(* profiles and lengths; an image of the file of an earlier run is drawn   *)
(* only where this run could not write its own, and a montage is whole if  *)
(* it could.                                                               *)
PicturesShowTheirAnalysis ==
    /\ dumped => \A p \in DOMAIN images : images[p].x.of = "times" /\ images[p].y.of = p
    /\ dumped /\ pc = "end" => DOMAIN montage = {Plots[k][1] : k \in DOMAIN Plots}
    /\ \A p \in DOMAIN images : images[p].y.of = "old" => ~ dumped

(* The samples of the lead window of w, the last word included. *)
SamplesOf(w) == leadEnd(w) - leadLength .. leadEnd(w) - 1 + run.fwin * run.symbol - 1

(* multi_search.go:21, "These offsets work": a result is drawn at a sample *)
(* of its own lead window, for words of two samples and more; where a word *)
(* is no longer than the window every result is drawn (bitmap_parallel.go  *)
(* leaves out the newest).                                                 *)
StoredWithinTheirWindow ==
    dumped => \A k \in 2 .. Len(file) - 1 :
        LET cells == file[k].cells
        IN  /\ \A r \in DOMAIN cells : cells[r] # Missing => r \in SamplesOf(cells[r])
            /\ run.fwin <= run.lead =>
                  \A w \in Scanned : \/ \E r \in DOMAIN cells : cells[r] = w
                                     \/ run.tool = "parallel" /\ leadEnd(w) = run.samples
=============================================================================
