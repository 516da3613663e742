--------------------------- MODULE ProfileSearch ---------------------------
(***************************************************************************)
(* profile_search.go: a series is searched for profiles, one after the     *)
(* other in the random order of a map.  For each the main goroutine slides *)
(* a lead window over the words, starts a goroutine per position on a      *)
(* channel of its own, collects as many results, turns them around so that *)
(* the nearest window stands out, and writes and draws them.               *)
(*                                                                         *)
(* The list of count maps is shared by all profiles: every search appends  *)
(* the maps once more behind those of the searches before it.              *)
(***************************************************************************)
EXTENDS Bitmaps, Sequences

CONSTANTS Commands,   \* command lines behind the configuration file
          SeriesFile, \* SeriesFile[f]: the words of what could be read of file f
          SeriesOf,   \* the words of the series that the database has
          ProfileFile,\* ProfileFile[f]: what could be read of profile file f
          Lead,       \* words in the lead window
          ShiftOf     \* ShiftOf[c]: samples from the end of a window to its position, by
                      \* the configuration before c; below 0 with a lead window that is
                      \* longer than the words

(* A profile is read whole; files that a command line names are those that *)
(* something is said of.                                                   *)
SearchConstants ==
    /\ Lead \in Nat \ {0} /\ ShiftOf \in [Commands -> Int] /\ Unit \in Nat
    /\ IsFiniteSet(Alphabet) /\ IsFiniteSet(SubLengths)
    /\ \A f \in DOMAIN SeriesFile : SeriesFile[f] \in Seq(Seq(Alphabet))
    /\ SeriesOf \subseteq Seq(Seq(Alphabet))
    /\ \A f \in DOMAIN ProfileFile : ProfileFile[f] \in [Subs -> Int]
    /\ \A c \in Commands : c \in Seq(STRING) /\ \A k \in 1 .. Len(c) - 1 :
           /\ c[k] = "-p" => c[k + 1] \in DOMAIN ProfileFile
           /\ c[k] = "-f" => c[k + 1] \in DOMAIN SeriesFile

VARIABLES args, i,   \* the command line, and the next word of it to look at
          profiles,  \* the profiles by their names
          words,     \* Gen_words of the series; one for each sample
          pc,        \* where the main goroutine is
          left,      \* profiles that are still to be searched for
          name,      \* the one that is searched for
          leadStart, \* position of the lead window
          leadCt,    \* lead_subct
          routines,  \* the goroutines of the channel: what they were given, what they do
          dist,      \* results collected, by position
          got,       \* how many
          files      \* files[n]: the columns of <name>.dat as this run wrote it, as far as
                     \* they are drawn

vars == <<args, i, profiles, words, pc, left, name, leadStart, leadCt, routines, dist, got, files>>

ofArgs   == <<args, i, profiles, words>>
ofWindow == <<leadStart, leadCt, routines>>
ofGather == <<dist, got>>

N == Len(words)
Shift == ShiftOf[args]
leadEnd == leadStart + Lead

Init == /\ args \in Commands /\ i = 1
        /\ profiles = <<>> /\ words = <<>>
        /\ pc = "args"
        /\ left = {} /\ name = ""
        /\ leadStart = 0 /\ leadCt = <<>> /\ routines = <<>>
        /\ dist = <<>> /\ got = 0
        /\ files = <<>>

Has(n) == i + n <= Len(args)

(* f with the value v for x. *)
Put(f, x, v) == [y \in DOMAIN f \cup {x} |-> IF y = x THEN v ELSE f[y]]

(* One pass of the loop over the command line; errors of the files are     *)
(* ignored, one of the database is not.                                    *)
Argument ==
    /\ pc = "args" /\ i <= Len(args)
    /\ \/ /\ args[i] = "-p"
          /\ profiles' = IF Has(1) THEN Put(profiles, args[i + 1], ProfileFile[args[i + 1]]) ELSE profiles
          /\ i' = IF Has(1) THEN i + 2 ELSE i + 1
          /\ UNCHANGED <<words, pc>>
       \/ /\ args[i] = "-f"
          /\ words' = IF Has(1) THEN SeriesFile[args[i + 1]] ELSE words
          /\ i' = IF Has(1) THEN i + 2 ELSE i + 1
          /\ UNCHANGED <<profiles, pc>>
       \/ /\ args[i] = "-d" /\ Has(2)
          /\ \/ words' \in SeriesOf /\ i' = i + 3 /\ UNCHANGED pc
             \/ pc' = "exit" /\ UNCHANGED <<words, i>>
          /\ UNCHANGED profiles
       \/ /\ args[i] = "-d" /\ ~Has(2)
          /\ i' = i + 2
          /\ UNCHANGED <<profiles, words, pc>>
       \/ /\ args[i] \notin {"-p", "-f", "-d"}
          /\ i' = i + 1
          /\ UNCHANGED <<profiles, words, pc>>
    /\ UNCHANGED <<args, left, name, ofWindow, ofGather, files>>

(* Slices are indexed from 0.  A series that is shorter than the window is *)
(* sliced past its end, which panics unless the array has room there; what *)
(* is found there are empty words.                                         *)
Slice == [k \in 0 .. N - 1 |-> words[k + 1]]

FirstWindow ==
    /\ pc = "args" /\ i > Len(args)
    /\ \/ /\ pc' = "search"
          /\ left' = DOMAIN profiles
          /\ leadCt' = <<CountSubwords(Slice, 0, IF N < Lead THEN N ELSE Lead)>>
       \/ /\ N < Lead /\ pc' = "panic"
          /\ UNCHANGED <<left, leadCt>>
    /\ UNCHANGED <<ofArgs, name, leadStart, routines, ofGather, files>>

(* The next profile of the map, with a new channel and new results. *)
NextProfile(n) ==
    /\ pc = "search" /\ n \in left
    /\ pc' = "spawn"
    /\ name' = n /\ left' = left \ {n}
    /\ routines' = <<>> /\ dist' = <<>> /\ got' = 0
    /\ UNCHANGED <<ofArgs, leadStart, leadCt, files>>

(* One pass of the loop that starts goroutines.  The arguments of a        *)
(* goroutine are looked up before it starts.                               *)
Spawn ==
    /\ pc = "spawn" /\ leadEnd <= N
    /\ routines' = Append(routines, [state |-> "started", lead |-> leadCt[leadStart + 1], end |-> leadEnd])
    /\ leadCt' = IF leadEnd < N
                 THEN Append(leadCt, AdjCount(leadCt[leadStart + 1], Slice[leadStart], Slice[leadEnd]))
                 ELSE leadCt
    /\ leadStart' = leadStart + 1
    /\ UNCHANGED <<ofArgs, pc, left, name, ofGather, files>>

(* As many results are collected as goroutines were started. *)
Collected(n) == IF n = leadStart THEN "dump" ELSE "gather"

SpawnEnds == /\ pc = "spawn" /\ leadEnd > N
             /\ pc' = Collected(0)
             /\ UNCHANGED <<ofArgs, left, name, ofWindow, ofGather, files>>

(* proc_window, up to its send. *)
Compute(k) ==
    /\ routines[k].state = "started"
    /\ routines' = [routines EXCEPT ![k] =
          [state |-> "sending", pos |-> @.end + Shift, dist |-> Distances(profiles[name], @.lead)]]
    /\ UNCHANGED <<ofArgs, pc, left, name, leadStart, leadCt, ofGather, files>>

Receive(k) ==
    /\ pc = "gather" /\ routines[k].state = "sending"
    /\ dist' = Put(dist, routines[k].pos - 1, routines[k].dist)
    /\ routines' = [routines EXCEPT ![k] = [state |-> "gone"]]
    /\ got' = got + 1
    /\ pc' = Collected(got + 1)
    /\ UNCHANGED <<ofArgs, left, name, leadStart, leadCt, files>>

Rows  == 0 .. N - 1
Shown == Rows \cap DOMAIN dist

\* Mutant: the distances are not turned around.
ColumnPlain(n) == [r \in Rows |-> IF r \in Shown THEN dist[r][n] ELSE 0]

(* The column of a length: the greatest distance shown, less the distance. *)
Column(n) == LET most == Max({dist[r][n] : r \in Shown} \cup {0})
             IN  [r \in Rows |-> IF r \in Shown THEN most - dist[r][n] ELSE 0]

(* The column of the products: fractions of the greatest of all.           *)
MulColumn == LET most == Max({Multiplied(dist[r]) : r \in DOMAIN dist} \cup {0})
             IN  [r \in Rows |-> <<IF r \in Shown THEN Multiplied(dist[r]) ELSE 0, most>>]

(* The results are written and drawn, and the window goes back.  A file    *)
(* that cannot be made is passed over, and what an earlier run left in it  *)
(* is drawn.  Without gnuplot the program exits, and without convert it    *)
(* panics.                                                                 *)
Dump ==
    /\ pc = "dump"
    /\ \/ files' = Put(files, name, [subs |-> [n \in SubLengths |-> Column(n)], mul |-> MulColumn])
       \/ UNCHANGED files
    /\ \/ pc' = "search" /\ leadStart' = 0
       \/ pc' \in {"exit", "panic"} /\ UNCHANGED leadStart
    /\ UNCHANGED <<ofArgs, left, name, leadCt, routines, ofGather>>

SearchEnds == /\ pc = "search" /\ left = {}
              /\ pc' = "end"
              /\ UNCHANGED <<ofArgs, left, name, ofWindow, ofGather, files>>

Main      == Argument \/ FirstWindow \/ (\E n \in left : NextProfile(n)) \/ Spawn \/ SpawnEnds
                \/ Dump \/ SearchEnds
Goroutine == \E k \in DOMAIN routines : Compute(k)
Collect   == \E k \in DOMAIN routines : Receive(k)

Next == Main \/ Goroutine \/ Collect

Spec == Init /\ [][Next]_vars

----------------------------------------------------------------------------
(* A scan for one profile alone: the counts of window k, each derived from *)
(* the one before.                                                         *)
AloneCt[k \in Nat] ==
    IF k = 0 THEN CountSubwords(Slice, 0, Lead)
    ELSE AdjCount(AloneCt[k - 1], Slice[k - 1], Slice[k - 1 + Lead])

Windows == 0 .. N - Lead
Row(k)  == k + Lead + Shift - 1

(* profile_search.go:107-175: the file written for a profile holds the     *)
(* search for that profile alone, however many were before it and         *)
(* however the goroutines were scheduled: in each column a window is the   *)
(* higher the nearer it is, the farthest one shown is 0, and rows without  *)
(* a window are 0; the products are in proportion.                         *)
SearchedAsAlone ==
    \A p \in DOMAIN files :
        LET shown == {k \in Windows : Row(k) \in Rows}
            d == [k \in Windows |-> Distances(profiles[p], AloneCt[k])]
        IN  /\ \A n \in SubLengths :
                  LET column == files[p].subs[n]
                  IN  /\ \A k, m \in shown : column[Row(k)] + d[k][n] = column[Row(m)] + d[m][n]
                      /\ shown # {} => \E k \in shown : column[Row(k)] = 0
                      /\ \A r \in Rows : column[r] >= 0 /\ (column[r] > 0 => \E k \in shown : r = Row(k))
            /\ \A k \in shown : files[p].mul[Row(k)][1] = Multiplied(d[k])
            /\ \A r \in Rows, k \in Windows : files[p].mul[r][2] >= Multiplied(d[k])
=============================================================================
